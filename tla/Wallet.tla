------------------------------- MODULE Wallet -------------------------------
(***************************************************************************)
(* What the billing of one member promises, whatever service spends the    *)
(* money: funds are held back before work begins, a hold ends exactly once *)
(* either charged for at most what was held or given back whole, and money *)
(* that is held back can be taken by nobody else.                          *)
(***************************************************************************)
EXTENDS Sums

CONSTANTS Holders,      \* what money can be held back for
          MaxHold       \* the largest amount one holder may hold back

VARIABLES balance,      \* the member's money, the part held back included
          held,         \* held[h]: the amount held back for h
          ended         \* the holders whose hold is over

walletVars == <<balance, held, ended>>

Free == balance - SumOf(held)

WalletInit ==
    /\ balance = 0
    /\ held = [h \in Holders |-> 0]
    /\ ended = {}

Deposit == /\ balance' > balance
           /\ UNCHANGED <<held, ended>>

Withdraw == /\ balance' < balance
            /\ balance' >= SumOf(held)
            /\ UNCHANGED <<held, ended>>

Hold(h, amount) ==
    /\ h \notin ended
    /\ held[h] = 0
    /\ amount <= Free
    /\ held' = [held EXCEPT ![h] = amount]
    /\ UNCHANGED <<balance, ended>>

End(h, charge) ==
    /\ h \notin ended
    /\ charge <= held[h]
    /\ balance' = balance - charge
    /\ held' = [held EXCEPT ![h] = 0]
    /\ ended' = ended \union {h}

WalletNext ==
    \/ Deposit
    \/ Withdraw
    \/ \E h \in Holders, amount \in 1..MaxHold : Hold(h, amount)
    \/ \E h \in Holders, charge \in 0..MaxHold : End(h, charge)

WalletSpec == WalletInit /\ [][WalletNext]_walletVars
=============================================================================
