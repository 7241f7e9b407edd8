------------------------- MODULE DirectCreditProofs -------------------------
(***************************************************************************)
(* What the chats billed one by one keep, for every number of them and of  *)
(* estimates and charges: types, the reserved column as the sum of what    *)
(* open requests hold (AmountProofs), and that none is closed twice.        *)
(***************************************************************************)
EXTENDS DirectCredit, AmountProofs

-----------------------------------------------------------------------------
(* Types *)

Keys == {"reserve", "release", "settle", "failedRelease"}

Accounts == [balance : Nat, reserved : Nat, granted : Nat, spent : Nat]

ChatRows == [phase : {"idle", "routing", "charging", "releasing", "delivered", "failed"},
             id : RequestIds \union {{}}, amount : 0..MaxEstimate, charge : Nat,
             unlimited : BOOLEAN]

(* A request under way has an id, and an unlimited one holds and costs     *)
(* nothing.                                                                *)
DirectTypeOK ==
    /\ account \in Accounts
    /\ postings \in [RequestIds -> SUBSET Keys]
    /\ chats \in [Chats -> ChatRows]
    /\ faults \subseteq {"lost", "stranded"}
    /\ \A q \in Chats : /\ Open(q) => chats[q].id \in RequestIds
                        /\ chats[q].unlimited => chats[q].amount = 0

(* A row that has gone to another phase.                                   *)
LEMMA PhaseTaken ==
    ASSUME DirectTypeOK, NEW q \in Chats,
           NEW phase \in {"idle", "routing", "charging", "releasing", "delivered", "failed"},
           PhaseTo(q, phase)
    PROVE  /\ chats' \in [Chats -> ChatRows]
           /\ chats'[q].phase = phase /\ chats'[q].id = chats[q].id
           /\ chats'[q].amount = chats[q].amount /\ chats'[q].charge = chats[q].charge
           /\ chats'[q].unlimited = chats[q].unlimited
           /\ \A p \in Chats \ {q} : chats'[p] = chats[p]
<1>1. chats' = [chats EXCEPT ![q] = [chats[q] EXCEPT !.phase = phase]]
  BY DEF PhaseTo, DirectTypeOK
<1>2. chats[q] \in ChatRows
  BY DEF DirectTypeOK
<1>3. /\ [chats[q] EXCEPT !.phase = phase] \in ChatRows
      /\ [chats[q] EXCEPT !.phase = phase].phase = phase
      /\ [chats[q] EXCEPT !.phase = phase].id = chats[q].id
      /\ [chats[q] EXCEPT !.phase = phase].amount = chats[q].amount
      /\ [chats[q] EXCEPT !.phase = phase].charge = chats[q].charge
      /\ [chats[q] EXCEPT !.phase = phase].unlimited = chats[q].unlimited
  BY <1>2 DEF ChatRows
<1>4. QED
  BY <1>1, <1>3 DEF DirectTypeOK

(* Rows as reserve and the answer leave them.                              *)
LEMMA ReservedRow ==
    ASSUME NEW q, NEW i \in RequestIds, NEW amount \in 0..MaxEstimate, NEW unlimited \in BOOLEAN
    PROVE  /\ Reserved(q, i, amount, unlimited) \in ChatRows
           /\ Reserved(q, i, amount, unlimited).phase = "routing"
           /\ Reserved(q, i, amount, unlimited).id = i
           /\ Reserved(q, i, amount, unlimited).amount = amount
           /\ Reserved(q, i, amount, unlimited).unlimited = unlimited
<1> DEFINE row == [NewChat EXCEPT !.phase = "routing", !.id = i, !.amount = amount,
                                  !.unlimited = unlimited]
<1>1. NewChat \in ChatRows
  BY DirectAssumption DEF NewChat, ChatRows
<1>2. Reserved(q, i, amount, unlimited) = row
  BY DEF Reserved
<1>3. /\ row \in ChatRows /\ row.phase = "routing" /\ row.id = i
      /\ row.amount = amount /\ row.unlimited = unlimited
  BY <1>1 DEF ChatRows
<1>4. QED
  BY <1>2, <1>3

LEMMA AnsweredRow ==
    ASSUME DirectTypeOK, NEW q \in Chats, NEW charge \in Charges, Answered(q, charge)
    PROVE  /\ chats' \in [Chats -> ChatRows]
           /\ chats'[q].phase = "charging" /\ chats'[q].id = chats[q].id
           /\ chats'[q].amount = chats[q].amount /\ chats'[q].unlimited = chats[q].unlimited
           /\ \A p \in Chats \ {q} : chats'[p] = chats[p]
<1> DEFINE due == IF chats[q].unlimited THEN 0 ELSE charge
           row == [chats[q] EXCEPT !.phase = "charging", !.charge = due]
<1>1. chats[q] \in ChatRows /\ due \in Nat
  BY DirectAssumption DEF DirectTypeOK
<1>2. chats' = [chats EXCEPT ![q] = row]
  BY <1>1 DEF Answered, DirectTypeOK
<1> HIDE DEF due
<1>3. /\ row \in ChatRows /\ row.phase = "charging" /\ row.id = chats[q].id
      /\ row.amount = chats[q].amount /\ row.unlimited = chats[q].unlimited
  BY <1>1 DEF ChatRows
<1>4. QED
  BY <1>2, <1>3 DEF DirectTypeOK

(* What the actions do to the row and the postings.                        *)
LEMMA HoldMore ==
    ASSUME DirectTypeOK, NEW amount \in Nat,
           account' = [account EXCEPT !.reserved = @ + amount]
    PROVE  /\ account' \in Accounts /\ account'.balance = account.balance
           /\ account'.reserved = account.reserved + amount
<1>1. account \in Accounts /\ account.reserved + amount \in Nat
  BY DEF DirectTypeOK, Accounts
<1>2. QED
  BY <1>1 DEF Accounts

LEMMA HoldLess ==
    ASSUME DirectTypeOK, NEW amount \in Nat, account.reserved >= amount,
           account' = [account EXCEPT !.reserved = @ - amount]
    PROVE  /\ account' \in Accounts /\ account'.balance = account.balance
           /\ account'.reserved = account.reserved - amount
<1>1. account \in Accounts /\ account.reserved - amount \in Nat
  BY DEF DirectTypeOK, Accounts
<1>2. QED
  BY <1>1 DEF Accounts

LEMMA HoldUsed ==
    ASSUME DirectTypeOK, NEW amount \in Nat, NEW charge \in Nat,
           account.reserved >= amount,
           account.balance - (account.reserved - amount) >= charge,
           account' = [account EXCEPT !.balance = @ - charge, !.reserved = @ - amount,
                                      !.spent = @ + charge]
    PROVE  /\ account' \in Accounts /\ account'.balance = account.balance - charge
           /\ account'.reserved = account.reserved - amount
<1>1. account \in Accounts
  BY DEF DirectTypeOK
<1>2. /\ account.balance - charge \in Nat /\ account.reserved - amount \in Nat
      /\ account.spent + charge \in Nat
  BY <1>1 DEF Accounts
<1>3. QED
  BY <1>1, <1>2 DEF Accounts

LEMMA Deposited ==
    ASSUME DirectTypeOK, NEW amount \in Deposits, Deposit(amount)
    PROVE  /\ account' \in Accounts /\ account'.balance = account.balance + amount
           /\ account'.reserved = account.reserved
<1>1. account \in Accounts /\ amount \in Nat
  BY DirectAssumption DEF DirectTypeOK
<1>2. account.balance + amount \in Nat /\ account.granted + amount \in Nat
  BY <1>1 DEF Accounts
<1>3. account' = [account EXCEPT !.balance = account.balance + amount,
                                 !.granted = account.granted + amount]
  BY DEF Deposit
<1>4. QED
  BY <1>1, <1>2, <1>3 DEF Accounts

LEMMA Posted ==
    ASSUME DirectTypeOK, NEW i \in RequestIds, NEW keys \in SUBSET Keys, Post(i, keys)
    PROVE  /\ postings' \in [RequestIds -> SUBSET Keys]
           /\ postings'[i] = postings[i] \union keys
           /\ \A k \in RequestIds \ {i} : postings'[k] = postings[k]
  BY DEF DirectTypeOK, Post

(* A request that has gone to another phase leaves the types as they are.  *)
LEMMA GoneTo ==
    ASSUME DirectTypeOK, NEW q \in Chats,
           NEW phase \in {"routing", "charging", "releasing", "delivered", "failed"},
           PhaseTo(q, phase), Open(q) \/ phase \in {"delivered", "failed"},
           account' \in Accounts, postings' \in [RequestIds -> SUBSET Keys],
           faults' \subseteq {"lost", "stranded"}
    PROVE  DirectTypeOK'
<1>1. /\ chats' \in [Chats -> ChatRows]
      /\ chats'[q].phase = phase /\ chats'[q].id = chats[q].id
      /\ chats'[q].amount = chats[q].amount /\ chats'[q].unlimited = chats[q].unlimited
      /\ \A p \in Chats \ {q} : chats'[p] = chats[p]
  BY PhaseTaken
<1>2. ASSUME NEW p \in Chats
      PROVE  /\ Open(p)' => chats'[p].id \in RequestIds
             /\ chats'[p].unlimited => chats'[p].amount = 0
  <2>1. CASE p = q
    BY <1>1, <2>1 DEF DirectTypeOK, Open
  <2>2. CASE p # q
    BY <1>1, <2>2 DEF DirectTypeOK, Open
  <2>3. QED
    BY <2>1, <2>2
<1>3. QED
  BY <1>1, <1>2 DEF DirectTypeOK

(* So does one that is admitted.                                           *)
LEMMA Admitted ==
    ASSUME DirectTypeOK, NEW q \in Chats, NEW i \in RequestIds,
           NEW amount \in 0..MaxEstimate, NEW unlimited \in BOOLEAN,
           unlimited => amount = 0,
           chats' = [chats EXCEPT ![q] = Reserved(q, i, amount, unlimited)],
           account' \in Accounts, postings' \in [RequestIds -> SUBSET Keys],
           UNCHANGED faults
    PROVE  /\ DirectTypeOK'
           /\ chats'[q].phase = "routing" /\ chats'[q].id = i
           /\ chats'[q].amount = amount /\ chats'[q].unlimited = unlimited
           /\ \A p \in Chats \ {q} : chats'[p] = chats[p]
<1>1. /\ Reserved(q, i, amount, unlimited) \in ChatRows
      /\ Reserved(q, i, amount, unlimited).phase = "routing"
      /\ Reserved(q, i, amount, unlimited).id = i
      /\ Reserved(q, i, amount, unlimited).amount = amount
      /\ Reserved(q, i, amount, unlimited).unlimited = unlimited
  BY ReservedRow
<1>2. /\ chats' \in [Chats -> ChatRows]
      /\ chats'[q] = Reserved(q, i, amount, unlimited)
      /\ \A p \in Chats \ {q} : chats'[p] = chats[p]
  BY <1>1 DEF DirectTypeOK
<1>3. ASSUME NEW p \in Chats
      PROVE  /\ Open(p)' => chats'[p].id \in RequestIds
             /\ chats'[p].unlimited => chats'[p].amount = 0
  <2>1. CASE p = q
    BY <1>1, <1>2, <2>1
  <2>2. CASE p # q
    BY <1>2, <2>2 DEF DirectTypeOK, Open
  <2>3. QED
    BY <2>1, <2>2
<1>4. QED
  BY <1>1, <1>2, <1>3 DEF DirectTypeOK

(* The rows a settlement writes.                                           *)
LEMMA SettledRows ==
    ASSUME DirectTypeOK, NEW q \in Chats, SettleRows(q)
    PROVE  /\ account' \in Accounts
           /\ account.reserved >= chats[q].amount
           /\ account'.reserved = account.reserved - chats[q].amount
           /\ account'.reserved <= account'.balance
           /\ postings' \in [RequestIds -> SUBSET Keys]
           /\ chats[q].id \in RequestIds
           /\ postings'[chats[q].id] \subseteq postings[chats[q].id] \union {"release", "settle"}
           /\ postings[chats[q].id] \subseteq postings'[chats[q].id]
           /\ \A k \in RequestIds \ {chats[q].id} : postings'[k] = postings[k]
<1>1. /\ chats[q].amount \in Nat /\ chats[q].charge \in Nat /\ chats[q].id \in RequestIds
      /\ account.reserved \in Nat /\ account.balance \in Nat
  BY DirectAssumption DEF DirectTypeOK, ChatRows, Accounts, SettleRows, Open
<1>2. /\ account.reserved >= chats[q].amount
      /\ account.balance - (account.reserved - chats[q].amount) >= chats[q].charge
  BY DEF SettleRows, Settleable
<1>3. /\ account' = [account EXCEPT !.balance = @ - chats[q].charge,
                                    !.reserved = @ - chats[q].amount,
                                    !.spent = @ + chats[q].charge]
      /\ Post(chats[q].id, SettleKeys(chats[q]))
  BY DEF SettleRows
<1>4. /\ account' \in Accounts /\ account'.balance = account.balance - chats[q].charge
      /\ account'.reserved = account.reserved - chats[q].amount
  BY <1>1, <1>2, <1>3, HoldUsed
<1>5. account'.reserved <= account'.balance
  BY <1>1, <1>2, <1>4
<1>6. SettleKeys(chats[q]) \subseteq {"release", "settle"}
  BY DEF SettleKeys
<1>7. SettleKeys(chats[q]) \in SUBSET Keys
  BY <1>6 DEF Keys
<1>8. /\ postings' \in [RequestIds -> SUBSET Keys]
      /\ postings'[chats[q].id] = postings[chats[q].id] \union SettleKeys(chats[q])
      /\ \A k \in RequestIds \ {chats[q].id} : postings'[k] = postings[k]
  BY <1>1, <1>3, <1>7, Posted
<1>9. QED
  BY <1>1, <1>2, <1>4, <1>5, <1>6, <1>8

(* The rows a release writes, or not.                                      *)
LEMMA Released ==
    ASSUME DirectTypeOK, NEW q \in Chats, Release(q)
    PROVE  /\ account' \in Accounts /\ account'.balance = account.balance
           /\ account'.reserved = IF account.reserved < chats[q].amount THEN account.reserved
                                  ELSE account.reserved - chats[q].amount
           /\ postings' \in [RequestIds -> SUBSET Keys]
           /\ \/ postings' = postings
              \/ /\ ~chats[q].unlimited
                 /\ postings'[chats[q].id] = postings[chats[q].id] \union {"failedRelease"}
                 /\ \A k \in RequestIds \ {chats[q].id} : postings'[k] = postings[k]
<1> DEFINE kept == \/ chats[q].unlimited \/ chats[q].amount = 0
                   \/ account.reserved < chats[q].amount
<1>1. /\ chats[q].amount \in Nat /\ chats[q].id \in RequestIds
      /\ account \in Accounts /\ account.reserved \in Nat
      /\ chats[q].unlimited => chats[q].amount = 0
  BY DirectAssumption DEF DirectTypeOK, ChatRows, Accounts, Release, Open
<1>2. CASE kept
  <2>1. account' = account /\ postings' = postings
    BY <1>2 DEF Release
  <2>2. QED
    BY <1>1, <1>2, <2>1 DEF DirectTypeOK
<1>3. CASE ~kept
  <2>1. /\ account' = [account EXCEPT !.reserved = @ - chats[q].amount]
        /\ Post(chats[q].id, {"failedRelease"})
    BY <1>3 DEF Release
  <2>2. account.reserved >= chats[q].amount
    BY <1>1, <1>3
  <2>3. /\ account' \in Accounts /\ account'.balance = account.balance
        /\ account'.reserved = account.reserved - chats[q].amount
    BY <1>1, <2>1, <2>2, HoldLess
  <2>4. {"failedRelease"} \in SUBSET Keys
    BY DEF Keys
  <2>5. /\ postings' \in [RequestIds -> SUBSET Keys]
        /\ postings'[chats[q].id] = postings[chats[q].id] \union {"failedRelease"}
        /\ \A k \in RequestIds \ {chats[q].id} : postings'[k] = postings[k]
    BY <1>1, <2>1, <2>4, Posted
  <2>6. QED
    BY <1>1, <1>3, <2>2, <2>3, <2>5
<1>4. QED
  BY <1>2, <1>3

(* The rows a reservation writes.                                          *)
LEMMA RowsReserved ==
    ASSUME DirectTypeOK, NEW i \in RequestIds, NEW amount \in Estimates, ReserveRows(i, amount)
    PROVE  /\ amount \in 0..MaxEstimate
           /\ account' \in Accounts
           /\ account'.reserved = account.reserved + amount
           /\ account'.reserved <= account'.balance
           /\ postings' \in [RequestIds -> SUBSET Keys]
           /\ "reserve" \notin postings[i]
           /\ postings'[i] = postings[i] \union {"reserve"}
           /\ \A k \in RequestIds \ {i} : postings'[k] = postings[k]
<1>1. /\ amount \in 0..MaxEstimate /\ amount \in Nat
      /\ account.reserved \in Nat /\ account.balance \in Nat
  BY DirectAssumption DEF DirectTypeOK, Accounts
<1>2. /\ account' = [account EXCEPT !.reserved = @ + amount]
      /\ account.balance - account.reserved >= amount
      /\ Post(i, {"reserve"}) /\ "reserve" \notin postings[i]
  BY DEF ReserveRows, Unposted
<1>3. /\ account' \in Accounts /\ account'.balance = account.balance
      /\ account'.reserved = account.reserved + amount
  BY <1>1, <1>2, HoldMore
<1>4. account'.reserved <= account'.balance
  BY <1>1, <1>2, <1>3
<1>5. {"reserve"} \in SUBSET Keys
  BY DEF Keys
<1>6. /\ postings' \in [RequestIds -> SUBSET Keys]
      /\ postings'[i] = postings[i] \union {"reserve"}
      /\ \A k \in RequestIds \ {i} : postings'[k] = postings[k]
  BY <1>2, <1>5, Posted
<1>7. QED
  BY <1>1, <1>2, <1>3, <1>4, <1>6

(* A crash ends every request that is under way.                           *)
LEMMA Crashed ==
    ASSUME DirectTypeOK, CrashChats
    PROVE  DirectTypeOK' /\ \A q \in Chats : ~Open(q)'
<1>1. ASSUME NEW q \in Chats
      PROVE  /\ chats'[q] \in ChatRows
             /\ ~Open(q)'
             /\ chats'[q].unlimited => chats'[q].amount = 0
  <2>1. chats[q] \in ChatRows
    BY DEF DirectTypeOK
  <2>2. CASE Open(q)
    <3>1. chats'[q] = [chats[q] EXCEPT !.phase = "failed"]
      BY <2>2 DEF CrashChats
    <3>2. QED
      BY <2>1, <3>1 DEF ChatRows, Open, DirectTypeOK
  <2>3. CASE ~Open(q)
    <3>1. chats'[q] = chats[q]
      BY <2>3 DEF CrashChats
    <3>2. QED
      BY <2>1, <2>3, <3>1 DEF Open, DirectTypeOK
  <2>4. QED
    BY <2>2, <2>3
<1>2. chats' = [q \in Chats |-> chats'[q]]
  BY DEF CrashChats
<1>3. chats' \in [Chats -> ChatRows]
  BY <1>1, <1>2
<1>4. /\ account' \in Accounts /\ postings' \in [RequestIds -> SUBSET Keys]
      /\ faults' \subseteq {"lost", "stranded"}
  BY DEF CrashChats, DirectTypeOK
<1>5. QED
  BY <1>1, <1>3, <1>4 DEF DirectTypeOK

LEMMA ChatStepTypes ==
    ASSUME DirectTypeOK, NEW q \in Chats, ChatStep(q)
    PROVE  DirectTypeOK'
<1> USE DEF DirectTypeOK
<1>1. ASSUME NEW i \in RequestIds, ReserveUnlimited(q, i)
      PROVE  DirectTypeOK'
  <2>1. 0 \in 0..MaxEstimate /\ TRUE \in BOOLEAN
    BY DirectAssumption
  <2>2. QED
    BY <1>1, <2>1, Admitted DEF ReserveUnlimited
<1>2. ASSUME NEW i \in RequestIds, NEW amount \in Estimates, Reserve(q, i, amount)
      PROVE  DirectTypeOK'
  <2>1. ReserveRows(i, amount)
    BY <1>2 DEF Reserve
  <2>2. /\ amount \in 0..MaxEstimate /\ account' \in Accounts
        /\ postings' \in [RequestIds -> SUBSET Keys]
    BY <2>1, RowsReserved
  <2>3. QED
    BY <1>2, <2>2, Admitted DEF Reserve
<1>3. ASSUME NEW i \in RequestIds, NEW amount \in Estimates, ReserveUnheard(q, i, amount)
      PROVE  DirectTypeOK'
  <2>1. ReserveRows(i, amount)
    BY <1>3 DEF ReserveUnheard
  <2>2. account' \in Accounts /\ postings' \in [RequestIds -> SUBSET Keys]
    BY <2>1, RowsReserved
  <2>3. QED
    BY <1>3, <2>2, GoneTo DEF ReserveUnheard
<1>4. ASSUME NEW i \in RequestIds, NEW amount \in Estimates, ReserveRefused(q, i, amount)
      PROVE  DirectTypeOK'
  BY <1>4, GoneTo DEF ReserveRefused
<1>5. ASSUME NEW charge \in Charges, Answered(q, charge)
      PROVE  DirectTypeOK'
  <2>1. /\ chats' \in [Chats -> ChatRows]
        /\ chats'[q].phase = "charging" /\ chats'[q].id = chats[q].id
        /\ chats'[q].amount = chats[q].amount /\ chats'[q].unlimited = chats[q].unlimited
        /\ \A p \in Chats \ {q} : chats'[p] = chats[p]
    BY <1>5, AnsweredRow
  <2>2. Open(q) /\ account' = account /\ postings' = postings /\ faults' = faults
    BY <1>5 DEF Answered, Open
  <2>3. ASSUME NEW p \in Chats
        PROVE  /\ Open(p)' => chats'[p].id \in RequestIds
               /\ chats'[p].unlimited => chats'[p].amount = 0
    <3>1. CASE p = q
      BY <2>1, <2>2, <3>1
    <3>2. CASE p # q
      BY <2>1, <3>2 DEF Open
    <3>3. QED
      BY <3>1, <3>2
  <2>4. QED
    BY <2>1, <2>2, <2>3
<1>6. CASE Thrown(q)
  BY <1>6, GoneTo DEF Thrown, Open
<1>7. CASE Settle(q)
  <2>1. account' \in Accounts /\ postings' \in [RequestIds -> SUBSET Keys]
    BY <1>7, SettledRows DEF Settle
  <2>2. QED
    BY <1>7, <2>1, GoneTo DEF Settle
<1>8. CASE SettleUnlimited(q)
  BY <1>8, GoneTo DEF SettleUnlimited
<1>9. CASE SettleRefused(q)
  BY <1>9, GoneTo DEF SettleRefused, Open
<1>10. CASE SettleUnheard(q)
  <2>1. account' \in Accounts /\ postings' \in [RequestIds -> SUBSET Keys]
    BY <1>10, SettledRows DEF SettleUnheard
  <2>2. QED
    BY <1>10, <2>1, GoneTo DEF SettleUnheard, SettleRows, Open
<1>11. CASE Release(q)
  <2>1. account' \in Accounts /\ postings' \in [RequestIds -> SUBSET Keys]
    BY <1>11, Released
  <2>2. QED
    BY <1>11, <2>1, GoneTo DEF Release
<1>12. CASE ReleaseFails(q)
  BY <1>12, GoneTo DEF ReleaseFails
<1>13. QED
  BY <1>1, <1>2, <1>3, <1>4, <1>5, <1>6, <1>7, <1>8, <1>9, <1>10, <1>11, <1>12 DEF ChatStep

LEMMA TypesInitially == InitDirect => DirectTypeOK
<1> SUFFICES ASSUME InitDirect PROVE DirectTypeOK
  OBVIOUS
<1>1. NewChat \in ChatRows /\ NewChat.phase = "idle" /\ NewChat.unlimited = FALSE
  BY DirectAssumption DEF NewChat, ChatRows
<1>2. account \in Accounts /\ postings \in [RequestIds -> SUBSET Keys]
  BY DEF InitDirect, Accounts
<1>3. chats \in [Chats -> ChatRows] /\ \A q \in Chats : chats[q] = NewChat
  BY <1>1 DEF InitDirect
<1>4. QED
  BY <1>1, <1>2, <1>3 DEF InitDirect, DirectTypeOK, Open

LEMMA TypesKept == DirectTypeOK /\ [NextDirect]_directVars => DirectTypeOK'
<1> SUFFICES ASSUME DirectTypeOK, [NextDirect]_directVars PROVE DirectTypeOK'
  OBVIOUS
<1>1. ASSUME NEW amount \in Deposits, Deposit(amount) PROVE DirectTypeOK'
  <2>1. account' \in Accounts
    BY <1>1, Deposited
  <2>2. QED
    BY <1>1, <2>1 DEF Deposit, DirectTypeOK, Open
<1>2. ASSUME NEW q \in Chats, ChatStep(q) PROVE DirectTypeOK'
  BY <1>2, ChatStepTypes
<1>3. CASE CrashChats
  BY <1>3, Crashed
<1>4. CASE UNCHANGED directVars
  BY <1>4 DEF directVars, DirectTypeOK, Open
<1>5. QED
  BY <1>1, <1>2, <1>3, <1>4 DEF NextDirect

(* Rows keep their types: in particular neither the balance nor the        *)
(* reserved column goes below zero, whatever requests fail and how.        *)
THEOREM DirectTypes == SpecDirect => []DirectTypeOK
<1>1. InitDirect => DirectTypeOK
  BY TypesInitially
<1>2. DirectTypeOK /\ [NextDirect]_directVars => DirectTypeOK'
  BY TypesKept
<1>3. QED
  BY <1>1, <1>2, PTL DEF SpecDirect

-----------------------------------------------------------------------------
(* The reserved column *)

LEMMA HoldsType ==
    ASSUME DirectTypeOK
    PROVE  /\ ReservedBy \in [Chats -> 0..MaxEstimate]
           /\ SumOf(ReservedBy) \in Nat
<1>1. ReservedBy \in [Chats -> 0..MaxEstimate]
  BY DirectAssumption DEF DirectTypeOK, ChatRows, ReservedBy
<1>2. ReservedBy \in [Chats -> Nat]
  BY <1>1, DirectAssumption
<1>3. QED
  BY <1>1, <1>2, DirectAssumption, SumType

LEMMA HoldsTypeNext ==
    ASSUME DirectTypeOK'
    PROVE  /\ ReservedBy' \in [Chats -> 0..MaxEstimate]
           /\ SumOf(ReservedBy)' \in Nat
<1>1. ReservedBy' \in [Chats -> 0..MaxEstimate]
  BY DirectAssumption DEF DirectTypeOK, ChatRows, ReservedBy
<1>2. ReservedBy' \in [Chats -> Nat]
  BY <1>1, DirectAssumption
<1>3. QED
  BY <1>1, <1>2, DirectAssumption, SumType

(* Only the request that moves can hold more or less than before.          *)
LEMMA OneHolds ==
    ASSUME DirectTypeOK, DirectTypeOK', NEW q \in Chats,
           \A p \in Chats \ {q} : chats'[p] = chats[p]
    PROVE  ReservedBy' = [ReservedBy EXCEPT ![q] = ReservedBy'[q]]
<1>1. ASSUME NEW p \in Chats \ {q} PROVE ReservedBy'[p] = ReservedBy[p]
  BY DEF ReservedBy, Open
<1>2. /\ ReservedBy \in [Chats -> 0..MaxEstimate]
      /\ ReservedBy' \in [Chats -> 0..MaxEstimate]
  BY HoldsType, HoldsTypeNext
<1>3. QED
  BY <1>1, <1>2

LEMMA TotalSame ==
    ASSUME DirectTypeOK, DirectTypeOK', NEW q \in Chats,
           \A p \in Chats \ {q} : chats'[p] = chats[p],
           ReservedBy'[q] = ReservedBy[q]
    PROVE  SumOf(ReservedBy)' = SumOf(ReservedBy)
<1>1. ReservedBy' = [ReservedBy EXCEPT ![q] = ReservedBy'[q]]
  BY OneHolds
<1>2. ReservedBy' = ReservedBy
  BY <1>1, HoldsType
<1>3. QED
  BY <1>2

LEMMA TotalTaken ==
    ASSUME DirectTypeOK, DirectTypeOK', NEW q \in Chats,
           \A p \in Chats \ {q} : chats'[p] = chats[p], ReservedBy[q] = 0
    PROVE  SumOf(ReservedBy)'
               = SumOf(ReservedBy) + ReservedBy'[q]
<1>1. ReservedBy' = [ReservedBy EXCEPT ![q] = ReservedBy'[q]]
  BY OneHolds
<1>2. ReservedBy \in [Chats -> 0..MaxEstimate] /\ ReservedBy'[q] \in 0..MaxEstimate
  BY HoldsType DEF DirectTypeOK, ChatRows, ReservedBy, Open
<1> DEFINE held == ReservedBy
           more == ReservedBy'[q]
<1>3. SumOf([held EXCEPT ![q] = more]) = SumOf(held) + more
  <2>1. /\ IsFiniteSet(Chats) /\ held \in [Chats -> Nat]
        /\ q \in Chats /\ held[q] = 0 /\ more \in Nat
    BY <1>2, DirectAssumption
  <2> HIDE DEF held, more
  <2>2. QED
    BY <2>1, SumTake
<1>4. QED
  BY <1>1, <1>3

LEMMA TotalDropped ==
    ASSUME DirectTypeOK, DirectTypeOK', NEW q \in Chats,
           \A p \in Chats \ {q} : chats'[p] = chats[p], ReservedBy'[q] = 0
    PROVE  SumOf(ReservedBy)
               = SumOf(ReservedBy)' + ReservedBy[q]
<1>1. ReservedBy' = [ReservedBy EXCEPT ![q] = ReservedBy'[q]]
  BY OneHolds
<1>2. ReservedBy \in [Chats -> 0..MaxEstimate] /\ ReservedBy[q] \in 0..MaxEstimate
  BY HoldsType
<1>3. /\ ReservedBy' \in [Chats -> 0..MaxEstimate]
      /\ ReservedBy = [ReservedBy' EXCEPT ![q] = ReservedBy[q]]
  BY <1>1, <1>2, DirectAssumption
<1> DEFINE held == ReservedBy'
           more == ReservedBy[q]
<1>4. SumOf([held EXCEPT ![q] = more]) = SumOf(held) + more
  <2>1. /\ IsFiniteSet(Chats) /\ held \in [Chats -> Nat]
        /\ q \in Chats /\ held[q] = 0 /\ more \in Nat
    BY <1>2, <1>3, DirectAssumption
  <2> HIDE DEF held, more
  <2>2. QED
    BY <2>1, SumTake
<1>5. QED
  BY <1>3, <1>4

LEMMA NoneHolds ==
    ASSUME \A q \in Chats : ~Open(q)
    PROVE  SumOf(ReservedBy) = 0
<1>1. ReservedBy \in [Chats -> Nat] /\ \A q \in Chats : ReservedBy[q] = 0
  BY DEF ReservedBy
<1>2. QED
  BY <1>1, SumOfZeros

(* The two run properties on the sum, for a row in which other users of    *)
(* the column hold as much as others says.                                 *)
SumsMatch(others) ==
    /\ "lost" \notin faults => account.reserved >= SumOf(ReservedBy) + others
    /\ faults = {} => account.reserved = SumOf(ReservedBy) + others

(* A request that goes on, or that never held anything, leaves the sum.    *)
LEMMA SumsUnmoved ==
    ASSUME DirectTypeOK, DirectTypeOK', NEW others \in Nat, SumsMatch(others), NEW q \in Chats,
           \A p \in Chats \ {q} : chats'[p] = chats[p],
           ReservedBy'[q] = ReservedBy[q], UNCHANGED <<account, faults>>
    PROVE  SumsMatch(others)'
<1>1. SumOf(ReservedBy)' = SumOf(ReservedBy)
  BY TotalSame
<1>2. QED
  BY <1>1 DEF SumsMatch

(* A request that ends takes what it held out of the sum; the column may   *)
(* keep it only after a failure.                                           *)
LEMMA SumsOfEnded ==
    ASSUME DirectTypeOK, DirectTypeOK', NEW others \in Nat, SumsMatch(others), NEW q \in Chats,
           \A p \in Chats \ {q} : chats'[p] = chats[p],
           ReservedBy'[q] = 0, ReservedBy[q] = chats[q].amount,
           \/ /\ faults' = faults
              /\ account'.reserved = IF account.reserved < chats[q].amount
                                     THEN account.reserved
                                     ELSE account.reserved - chats[q].amount
           \/ faults' = faults \union {"stranded"} /\ account'.reserved = account.reserved
    PROVE  SumsMatch(others)'
<1> DEFINE total == SumOf(ReservedBy)
<1>1. total = total' + chats[q].amount
  BY TotalDropped
<1>2. total \in Nat /\ total' \in Nat
  BY HoldsType, HoldsTypeNext
<1>3. /\ account.reserved \in Nat /\ account'.reserved \in Nat /\ chats[q].amount \in Nat
  BY DirectAssumption DEF DirectTypeOK, Accounts, ChatRows
<1>4. ASSUME "lost" \notin faults' PROVE account'.reserved >= total' + others
  <2>2. account.reserved >= total + others
    BY <1>4 DEF SumsMatch
  <2> HIDE DEF total
  <2>3. QED
    BY <1>1, <1>2, <1>3, <2>2
<1>5. ASSUME faults' = {} PROVE account'.reserved = total' + others
  <2>2. faults' = faults /\ faults = {}
    BY <1>5
  <2>3. account.reserved = total + others
    BY <2>2 DEF SumsMatch
  <2>4. account'.reserved = IF account.reserved < chats[q].amount THEN account.reserved
                            ELSE account.reserved - chats[q].amount
    BY <1>5
  <2> HIDE DEF total
  <2>5. QED
    BY <1>1, <1>2, <1>3, <2>3, <2>4
<1>6. QED
  BY <1>4, <1>5 DEF SumsMatch

(* Admitted requests add what they hold, an unlimited one nothing.         *)
LEMMA SumsOfAdmitted ==
    ASSUME DirectTypeOK, DirectTypeOK', NEW others \in Nat, SumsMatch(others), NEW q \in Chats,
           \A p \in Chats \ {q} : chats'[p] = chats[p],
           chats[q].phase = "idle", UNCHANGED faults,
           account'.reserved = account.reserved + ReservedBy'[q]
    PROVE  SumsMatch(others)'
<1> DEFINE total == SumOf(ReservedBy)
           more == ReservedBy'[q]
<1>1. ReservedBy[q] = 0
  BY DEF ReservedBy, Open
<1>2. total' = total + more
  BY <1>1, TotalTaken
<1>3. total \in Nat /\ account.reserved \in Nat /\ more \in Nat
  BY HoldsType, DirectAssumption DEF DirectTypeOK, Accounts, ChatRows, ReservedBy, Open
<1>4. account'.reserved = account.reserved + more
  OBVIOUS
<1>5. /\ "lost" \notin faults' => account.reserved >= total + others
      /\ faults' = {} => account.reserved = total + others
  BY DEF SumsMatch
<1>6. /\ "lost" \notin faults' => account'.reserved >= total' + others
      /\ faults' = {} => account'.reserved = total' + others
  <2> HIDE DEF total, more
  <2>1. QED
    BY <1>2, <1>3, <1>4, <1>5
<1>7. QED
  BY <1>6 DEF SumsMatch

LEMMA ChatStepSums ==
    ASSUME DirectTypeOK, DirectTypeOK', NEW others \in Nat, SumsMatch(others), NEW q \in Chats, ChatStep(q)
    PROVE  SumsMatch(others)'
<1>1. /\ account \in Accounts /\ chats[q] \in ChatRows
      /\ chats[q].unlimited => chats[q].amount = 0
      /\ account.reserved \in Nat /\ account.balance \in Nat /\ chats[q].amount \in Nat
  BY DirectAssumption DEF DirectTypeOK, Accounts, ChatRows
<1>2. ASSUME NEW i \in RequestIds, ReserveUnlimited(q, i)
      PROVE  SumsMatch(others)'
  <2>1. 0 \in 0..MaxEstimate /\ TRUE \in BOOLEAN
    BY DirectAssumption
  <2>2. /\ chats'[q].phase = "routing" /\ chats'[q].amount = 0
        /\ \A p \in Chats \ {q} : chats'[p] = chats[p]
    BY <1>2, <2>1, Admitted DEF ReserveUnlimited, DirectTypeOK
  <2>3. ReservedBy'[q] = 0 /\ ReservedBy[q] = 0
    BY <1>2, <2>2 DEF ReservedBy, Open, ReserveUnlimited
  <2>4. QED
    BY <1>2, <2>2, <2>3, SumsUnmoved DEF ReserveUnlimited
<1>3. ASSUME NEW i \in RequestIds, NEW amount \in Estimates, Reserve(q, i, amount)
      PROVE  SumsMatch(others)'
  <2>1. ReserveRows(i, amount)
    BY <1>3 DEF Reserve
  <2>2. /\ amount \in 0..MaxEstimate /\ account' \in Accounts
        /\ account'.reserved = account.reserved + amount
        /\ postings' \in [RequestIds -> SUBSET Keys]
    BY <2>1, RowsReserved
  <2>3. /\ chats'[q].phase = "routing" /\ chats'[q].amount = amount
        /\ \A p \in Chats \ {q} : chats'[p] = chats[p]
    BY <1>3, <2>2, Admitted DEF Reserve
  <2>4. ReservedBy'[q] = amount
    BY <2>3 DEF ReservedBy, Open
  <2>5. QED
    BY <1>3, <2>2, <2>3, <2>4, SumsOfAdmitted DEF Reserve
<1>4. ASSUME NEW i \in RequestIds, NEW amount \in Estimates, ReserveUnheard(q, i, amount)
      PROVE  SumsMatch(others)'
  BY <1>4 DEF ReserveUnheard, SumsMatch
<1>5. ASSUME NEW i \in RequestIds, NEW amount \in Estimates, ReserveRefused(q, i, amount)
      PROVE  SumsMatch(others)'
  <2>1. /\ chats'[q].phase = "failed" /\ \A p \in Chats \ {q} : chats'[p] = chats[p]
    BY <1>5, PhaseTaken DEF ReserveRefused
  <2>2. ReservedBy'[q] = 0 /\ ReservedBy[q] = 0
    BY <1>5, <2>1 DEF ReservedBy, Open, ReserveRefused
  <2>3. QED
    BY <1>5, <2>1, <2>2, SumsUnmoved DEF ReserveRefused
<1>6. ASSUME NEW charge \in Charges, Answered(q, charge)
      PROVE  SumsMatch(others)'
  <2>1. /\ chats'[q].phase = "charging" /\ chats'[q].amount = chats[q].amount
        /\ \A p \in Chats \ {q} : chats'[p] = chats[p]
    BY <1>6, AnsweredRow
  <2>2. ReservedBy'[q] = ReservedBy[q]
    BY <1>6, <2>1 DEF ReservedBy, Open, Answered
  <2>3. QED
    BY <1>6, <2>1, <2>2, SumsUnmoved DEF Answered
<1>7. CASE Thrown(q) \/ SettleRefused(q)
  <2>1. PhaseTo(q, "releasing") /\ Open(q) /\ UNCHANGED <<account, faults>>
    BY <1>7 DEF Thrown, SettleRefused, Open
  <2>2. /\ chats'[q].phase = "releasing" /\ chats'[q].amount = chats[q].amount
        /\ \A p \in Chats \ {q} : chats'[p] = chats[p]
    BY <2>1, PhaseTaken
  <2>3. ReservedBy'[q] = ReservedBy[q]
    BY <2>1, <2>2 DEF ReservedBy, Open
  <2>4. QED
    BY <2>1, <2>2, <2>3, SumsUnmoved
<1>8. CASE Settle(q)
  <2>1. /\ PhaseTo(q, "delivered") /\ Open(q) /\ SettleRows(q) /\ faults' = faults
    BY <1>8 DEF Settle, SettleRows, Open
  <2>2. /\ account.reserved >= chats[q].amount
        /\ account'.reserved = account.reserved - chats[q].amount
    BY <2>1, SettledRows
  <2>3. /\ chats'[q].phase = "delivered" /\ \A p \in Chats \ {q} : chats'[p] = chats[p]
    BY <2>1, PhaseTaken
  <2>4. ReservedBy'[q] = 0 /\ ReservedBy[q] = chats[q].amount
    BY <2>1, <2>3 DEF ReservedBy, Open
  <2>5. ~(account.reserved < chats[q].amount)
    BY <1>1, <2>2
  <2>6. QED
    BY <2>1, <2>2, <2>3, <2>4, <2>5, SumsOfEnded
<1>9. CASE SettleUnlimited(q)
  <2>1. /\ PhaseTo(q, "delivered") /\ UNCHANGED <<account, faults>>
        /\ Open(q) /\ chats[q].amount = 0
    BY <1>1, <1>9 DEF SettleUnlimited, Open
  <2>2. /\ chats'[q].phase = "delivered" /\ \A p \in Chats \ {q} : chats'[p] = chats[p]
    BY <2>1, PhaseTaken
  <2>3. ReservedBy'[q] = 0 /\ ReservedBy[q] = 0
    BY <2>1, <2>2 DEF ReservedBy, Open
  <2>4. QED
    BY <2>1, <2>2, <2>3, SumsUnmoved
<1>10. CASE SettleUnheard(q)
  BY <1>10 DEF SettleUnheard, SumsMatch
<1>11. CASE Release(q)
  <2>1. PhaseTo(q, "failed") /\ Open(q) /\ faults' = faults
    BY <1>11 DEF Release, Open
  <2>2. account'.reserved = IF account.reserved < chats[q].amount THEN account.reserved
                            ELSE account.reserved - chats[q].amount
    BY <1>11, Released
  <2>4. /\ chats'[q].phase = "failed" /\ \A p \in Chats \ {q} : chats'[p] = chats[p]
    BY <2>1, PhaseTaken
  <2>5. ReservedBy'[q] = 0 /\ ReservedBy[q] = chats[q].amount
    BY <2>1, <2>4 DEF ReservedBy, Open
  <2>6. QED
    BY <2>1, <2>2, <2>4, <2>5, SumsOfEnded
<1>12. CASE ReleaseFails(q)
  <2>1. /\ PhaseTo(q, "failed") /\ Open(q) /\ faults' = faults \union {"stranded"}
        /\ account' = account
    BY <1>12 DEF ReleaseFails, Open
  <2>2. /\ chats'[q].phase = "failed" /\ \A p \in Chats \ {q} : chats'[p] = chats[p]
    BY <2>1, PhaseTaken
  <2>3. ReservedBy'[q] = 0 /\ ReservedBy[q] = chats[q].amount
    BY <2>1, <2>2 DEF ReservedBy, Open
  <2>4. QED
    BY <1>1, <2>1, <2>2, <2>3, SumsOfEnded
<1>13. QED
  BY <1>2, <1>3, <1>4, <1>5, <1>6, <1>7, <1>8, <1>9, <1>10, <1>11, <1>12 DEF ChatStep

(* No step of a request takes what others, or it itself, has reserved.     *)
LEMMA ChatStepBalance ==
    ASSUME DirectTypeOK, account.reserved <= account.balance, NEW q \in Chats, ChatStep(q)
    PROVE  account'.reserved <= account'.balance
<1>1. account.reserved \in Nat /\ account.balance \in Nat /\ chats[q].amount \in Nat
  BY DirectAssumption DEF DirectTypeOK, Accounts, ChatRows
<1>2. CASE account' = account
  BY <1>2
<1>3. ASSUME NEW i \in RequestIds, NEW amount \in Estimates, ReserveRows(i, amount)
      PROVE  account'.reserved <= account'.balance
  BY <1>3, RowsReserved
<1>4. CASE SettleRows(q)
  BY <1>4, SettledRows
<1>5. CASE Release(q)
  <2>1. /\ account'.balance = account.balance
        /\ account'.reserved = IF account.reserved < chats[q].amount THEN account.reserved
                               ELSE account.reserved - chats[q].amount
    BY <1>5, Released
  <2>2. QED
    BY <1>1, <2>1
<1>6. QED
  BY <1>2, <1>3, <1>4, <1>5, Zenon
     DEF ChatStep, ReserveUnlimited, Reserve, ReserveUnheard, ReserveRefused, Answered, Thrown,
         Settle, SettleUnlimited, SettleRefused, SettleUnheard, ReleaseFails

(* A crash ends all requests: none of them holds anything any more, and    *)
(* the column, which still counts what they held, is not matched again.    *)
LEMMA CrashSums ==
    ASSUME DirectTypeOK, NEW others \in Nat, SumsMatch(others), CrashChats
    PROVE  SumsMatch(others)'
<1>1. SumOf(ReservedBy)' = 0
  <2>1. \A q \in Chats : ~Open(q)'
    BY Crashed
  <2>2. ReservedBy' \in [Chats -> Nat] /\ \A q \in Chats : ReservedBy'[q] = 0
    BY <2>1 DEF ReservedBy
  <2>3. QED
    BY <2>2, SumOfZeros
<1>2. /\ account' = account /\ faults' = faults \union {"stranded"}
      /\ account.reserved \in Nat /\ SumOf(ReservedBy) \in Nat
  BY HoldsType DEF CrashChats, DirectTypeOK, Accounts
<1>3. "lost" \notin faults' => account'.reserved >= SumOf(ReservedBy)' + others
  <2>1. PICK total \in Nat : total = SumOf(ReservedBy)
    BY <1>2
  <2>2. "lost" \notin faults' => account.reserved >= total + others
    BY <1>2, <2>1 DEF SumsMatch
  <2>3. QED
    BY <1>1, <1>2, <2>2
<1>4. QED
  BY <1>2, <1>3 DEF SumsMatch

SumsBalance == SumsMatch(0) /\ account.reserved <= account.balance

LEMMA SumsKept ==
    DirectTypeOK /\ DirectTypeOK' /\ SumsBalance /\ [NextDirect]_directVars => SumsBalance'
<1> SUFFICES ASSUME DirectTypeOK, DirectTypeOK', SumsBalance, [NextDirect]_directVars
             PROVE  SumsBalance'
  OBVIOUS
<1>1. SumsMatch(0) /\ account.reserved <= account.balance /\ 0 \in Nat
  BY DEF SumsBalance
<1>2. ASSUME NEW amount \in Deposits, Deposit(amount) PROVE SumsBalance'
  <2>1. /\ account'.balance = account.balance + amount
        /\ account'.reserved = account.reserved
    BY <1>2, Deposited
  <2>2. account'.reserved <= account'.balance
    <3>1. account.reserved \in Nat /\ account.balance \in Nat /\ amount \in Nat
      BY DirectAssumption DEF DirectTypeOK, Accounts
    <3>2. QED
      BY <1>1, <2>1, <3>1
  <2>3. ReservedBy' = ReservedBy /\ faults' = faults
    BY <1>2 DEF Deposit, ReservedBy, Open
  <2>4. QED
    BY <1>1, <2>1, <2>2, <2>3 DEF SumsBalance, SumsMatch
<1>3. ASSUME NEW q \in Chats, ChatStep(q) PROVE SumsBalance'
  <2>1. SumsMatch(0)'
    BY <1>1, <1>3, ChatStepSums
  <2>2. account'.reserved <= account'.balance
    BY <1>1, <1>3, ChatStepBalance
  <2>3. QED
    BY <2>1, <2>2 DEF SumsBalance
<1>4. CASE CrashChats
  <2>1. SumsMatch(0)'
    BY <1>1, <1>4, CrashSums
  <2>2. QED
    BY <1>1, <1>4, <2>1 DEF SumsBalance, CrashChats
<1>5. CASE UNCHANGED directVars
  <2>1. account' = account /\ ReservedBy' = ReservedBy /\ faults' = faults
    BY <1>5 DEF directVars, ReservedBy, Open
  <2>2. QED
    BY <1>1, <2>1 DEF SumsBalance, SumsMatch
<1>6. QED
  BY <1>2, <1>3, <1>4, <1>5 DEF NextDirect

(* For any number of requests and any estimates and charges: the column is *)
(* exactly what open requests hold until something fails that no request   *)
(* cleans up after, and it covers them until an answer of the database is  *)
(* lost; what is reserved is always there to be spent.                     *)
THEOREM OpenChatsAreCovered ==
    SpecDirect => [](/\ OpenChatsStayCovered
                     /\ ReservedMatchesOpenChats
                     /\ account.reserved <= account.balance)
<1>1. InitDirect => DirectTypeOK /\ SumsBalance
  <2>1. SUFFICES ASSUME InitDirect PROVE SumsBalance
    BY TypesInitially
  <2>2. \A q \in Chats : ~Open(q)
    BY <2>1 DEF InitDirect, NewChat, Open
  <2>3. SumOf(ReservedBy) = 0
    BY <2>2, NoneHolds
  <2>4. account.reserved = 0 /\ account.balance = 0
    BY <2>1 DEF InitDirect
  <2>5. QED
    BY <2>3, <2>4 DEF SumsBalance, SumsMatch
<1>2. DirectTypeOK /\ SumsBalance /\ [NextDirect]_directVars => DirectTypeOK' /\ SumsBalance'
  BY TypesKept, SumsKept
<1>3. DirectTypeOK /\ SumsBalance => /\ OpenChatsStayCovered
                   /\ ReservedMatchesOpenChats
                   /\ account.reserved <= account.balance
  <2>1. SUFFICES ASSUME DirectTypeOK, SumsBalance
        PROVE  /\ OpenChatsStayCovered
               /\ ReservedMatchesOpenChats
               /\ account.reserved <= account.balance
    OBVIOUS
  <2>2. SumOf(ReservedBy) + 0 = SumOf(ReservedBy)
    <3>1. SumOf(ReservedBy) \in Nat
      BY <2>1, HoldsType
    <3>2. QED
      BY <3>1
  <2>3. QED
    BY <2>1, <2>2 DEF SumsBalance, SumsMatch, OpenChatsStayCovered, ReservedMatchesOpenChats
<1>4. QED
  BY <1>1, <1>2, <1>3, PTL DEF SpecDirect

-----------------------------------------------------------------------------
(* The ledger keys *)

Limited(q) == Open(q) /\ ~chats[q].unlimited

(* Every request that holds something has the reserve row of its id, and   *)
(* has it alone; until an answer is lost nothing has closed that id yet.   *)
KeysMatch ==
    /\ \A q \in Chats : Limited(q) =>
          /\ "reserve" \in postings[chats[q].id]
          /\ "lost" \notin faults =>
                /\ "settle" \notin postings[chats[q].id]
                /\ "failedRelease" \notin postings[chats[q].id]
    /\ \A q, p \in Chats : Limited(q) /\ Limited(p) /\ q # p => chats[q].id # chats[p].id
    /\ \A i \in RequestIds : postings[i] # {} => "reserve" \in postings[i]
    /\ ClosedOnce

(* A request that goes on, ends, or never held anything, posting nothing.  *)
LEMMA KeysUnmoved ==
    ASSUME DirectTypeOK, KeysMatch, NEW q \in Chats,
           \A p \in Chats \ {q} : chats'[p] = chats[p],
           Limited(q)' => Limited(q) /\ chats'[q].id = chats[q].id,
           postings' = postings, faults \subseteq faults'
    PROVE  KeysMatch'
<1>1. \A p \in Chats : Limited(p)' => Limited(p) /\ chats'[p].id = chats[p].id
  BY DEF Limited, Open
<1>2. QED
  BY <1>1 DEF KeysMatch, ClosedOnce

(* The only request with an id ends, and posts how.                        *)
LEMMA KeysOfEnded ==
    ASSUME DirectTypeOK, KeysMatch, NEW q \in Chats, Limited(q), ~Limited(q)',
           \A p \in Chats \ {q} : chats'[p] = chats[p],
           NEW how \in {"settle", "failedRelease"},
           postings[chats[q].id] \subseteq postings'[chats[q].id],
           postings'[chats[q].id] \subseteq postings[chats[q].id] \union {"release", how},
           \A k \in RequestIds \ {chats[q].id} : postings'[k] = postings[k],
           faults' = faults
    PROVE  KeysMatch'
<1>1. \A p \in Chats : Limited(p)' => /\ p # q /\ Limited(p)
                                      /\ chats'[p].id = chats[p].id
                                      /\ chats[p].id \in RequestIds \ {chats[q].id}
  BY DEF Limited, Open, KeysMatch, DirectTypeOK
<1>2. \A i \in RequestIds : postings'[i] # {} => "reserve" \in postings'[i]
  <2>1. ASSUME NEW i \in RequestIds, postings'[i] # {} PROVE "reserve" \in postings'[i]
    <3>1. CASE i = chats[q].id
      BY <3>1 DEF KeysMatch
    <3>2. CASE i # chats[q].id
      BY <2>1, <3>2 DEF KeysMatch
    <3>3. QED
      BY <3>1, <3>2
  <2>2. QED
    BY <2>1
<1>3. ClosedOnce'
  <2>1. SUFFICES ASSUME "lost" \notin faults, NEW i \in RequestIds
                 PROVE  ~({"settle", "failedRelease"} \subseteq postings'[i])
    BY DEF ClosedOnce
  <2>2. CASE i = chats[q].id
    <3>1. "settle" \notin postings[i] /\ "failedRelease" \notin postings[i]
      BY <2>1, <2>2 DEF KeysMatch
    <3>2. QED
      BY <2>2, <3>1
  <2>3. CASE i # chats[q].id
    BY <2>1, <2>3 DEF KeysMatch, ClosedOnce
  <2>4. QED
    BY <2>2, <2>3
<1>4. \A p \in Chats : Limited(p)' =>
         /\ "reserve" \in postings'[chats'[p].id]
         /\ "lost" \notin faults' =>
               /\ "settle" \notin postings'[chats'[p].id]
               /\ "failedRelease" \notin postings'[chats'[p].id]
  BY <1>1 DEF KeysMatch
<1>5. \A a, p \in Chats : Limited(a)' /\ Limited(p)' /\ a # p => chats'[a].id # chats'[p].id
  BY <1>1 DEF KeysMatch
<1>6. QED
  BY <1>2, <1>3, <1>4, <1>5 DEF KeysMatch, ClosedOnce

(* A reservation commits, heard of or not: its id was unused.              *)
LEMMA KeysOfReserved ==
    ASSUME DirectTypeOK, KeysMatch, NEW q \in Chats, NEW i \in RequestIds,
           NEW amount \in Estimates, ReserveRows(i, amount),
           \A p \in Chats \ {q} : chats'[p] = chats[p],
           Limited(q)' => chats'[q].id = i,
           faults \subseteq faults'
    PROVE  KeysMatch'
<1>1. /\ "reserve" \notin postings[i] /\ postings'[i] = postings[i] \union {"reserve"}
      /\ \A k \in RequestIds \ {i} : postings'[k] = postings[k]
  BY RowsReserved
<1>2. postings[i] = {} /\ postings'[i] = {"reserve"}
  BY <1>1 DEF KeysMatch
<1>3. \A p \in Chats \ {q} : Limited(p)' => /\ Limited(p) /\ chats'[p].id = chats[p].id
                                            /\ chats[p].id \in RequestIds \ {i}
  BY <1>1 DEF Limited, Open, KeysMatch, DirectTypeOK
<1>4. \A p \in Chats : Limited(p)' =>
         /\ "reserve" \in postings'[chats'[p].id]
         /\ "lost" \notin faults' =>
               /\ "settle" \notin postings'[chats'[p].id]
               /\ "failedRelease" \notin postings'[chats'[p].id]
  <2>1. ASSUME NEW p \in Chats, Limited(p)'
        PROVE  /\ "reserve" \in postings'[chats'[p].id]
               /\ "lost" \notin faults' =>
                     /\ "settle" \notin postings'[chats'[p].id]
                     /\ "failedRelease" \notin postings'[chats'[p].id]
    <3>1. CASE p = q
      BY <1>2, <2>1, <3>1
    <3>2. CASE p # q
      BY <1>1, <1>3, <2>1, <3>2 DEF KeysMatch
    <3>3. QED
      BY <3>1, <3>2
  <2>2. QED
    BY <2>1
<1>5. \A a, p \in Chats : Limited(a)' /\ Limited(p)' /\ a # p => chats'[a].id # chats'[p].id
  BY <1>3 DEF KeysMatch
<1>6. \A k \in RequestIds : postings'[k] # {} => "reserve" \in postings'[k]
  BY <1>1, <1>2 DEF KeysMatch
<1>7. ClosedOnce'
  <2>1. ASSUME "lost" \notin faults', NEW k \in RequestIds
        PROVE  ~({"settle", "failedRelease"} \subseteq postings'[k])
    <3>1. CASE k = i
      BY <1>2, <3>1
    <3>2. CASE k # i
      BY <1>1, <2>1, <3>2 DEF KeysMatch, ClosedOnce
    <3>3. QED
      BY <3>1, <3>2
  <2>2. QED
    BY <2>1 DEF ClosedOnce
<1>8. QED
  BY <1>4, <1>5, <1>6, <1>7 DEF KeysMatch

LEMMA ChatStepKeys ==
    ASSUME DirectTypeOK, DirectTypeOK', KeysMatch, NEW q \in Chats, ChatStep(q)
    PROVE  KeysMatch'
<1>1. Open(q) => chats[q].id \in RequestIds
  BY DEF DirectTypeOK
<1>2. ASSUME NEW i \in RequestIds, ReserveUnlimited(q, i)
      PROVE  KeysMatch'
  <2>1. 0 \in 0..MaxEstimate /\ TRUE \in BOOLEAN
    BY DirectAssumption
  <2>2. chats'[q].unlimited /\ \A p \in Chats \ {q} : chats'[p] = chats[p]
    BY <1>2, <2>1, Admitted DEF ReserveUnlimited, DirectTypeOK
  <2>3. QED
    BY <1>2, <2>2, KeysUnmoved DEF ReserveUnlimited, Limited
<1>3. ASSUME NEW i \in RequestIds, NEW amount \in Estimates, Reserve(q, i, amount)
      PROVE  KeysMatch'
  <2>1. ReserveRows(i, amount)
    BY <1>3 DEF Reserve
  <2>2. /\ amount \in 0..MaxEstimate /\ account' \in Accounts
        /\ postings' \in [RequestIds -> SUBSET Keys]
    BY <2>1, RowsReserved
  <2>3. chats'[q].id = i /\ \A p \in Chats \ {q} : chats'[p] = chats[p]
    BY <1>3, <2>2, Admitted DEF Reserve
  <2>4. QED
    BY <1>3, <2>1, <2>3, KeysOfReserved DEF Reserve
<1>4. ASSUME NEW i \in RequestIds, NEW amount \in Estimates, ReserveUnheard(q, i, amount)
      PROVE  KeysMatch'
  <2>1. ReserveRows(i, amount) /\ faults \subseteq faults'
    BY <1>4 DEF ReserveUnheard
  <2>2. chats'[q].phase = "failed" /\ \A p \in Chats \ {q} : chats'[p] = chats[p]
    BY <1>4, PhaseTaken DEF ReserveUnheard
  <2>3. ~Limited(q)'
    BY <2>2 DEF Limited, Open
  <2>4. QED
    BY <2>1, <2>2, <2>3, KeysOfReserved
<1>5. ASSUME NEW i \in RequestIds, NEW amount \in Estimates, ReserveRefused(q, i, amount)
      PROVE  KeysMatch'
  <2>1. chats'[q].phase = "failed" /\ \A p \in Chats \ {q} : chats'[p] = chats[p]
    BY <1>5, PhaseTaken DEF ReserveRefused
  <2>2. ~Limited(q)' /\ postings' = postings /\ faults' = faults
    BY <1>5, <2>1 DEF Limited, Open, ReserveRefused
  <2>3. QED
    BY <2>1, <2>2, KeysUnmoved
<1>6. ASSUME NEW charge \in Charges, Answered(q, charge)
      PROVE  KeysMatch'
  <2>1. /\ chats'[q].id = chats[q].id /\ chats'[q].unlimited = chats[q].unlimited
        /\ \A p \in Chats \ {q} : chats'[p] = chats[p]
    BY <1>6, AnsweredRow
  <2>2. Open(q) /\ postings' = postings /\ faults' = faults
    BY <1>6 DEF Answered, Open
  <2>3. Limited(q)' => Limited(q) /\ chats'[q].id = chats[q].id
    BY <2>1, <2>2 DEF Limited
  <2>4. QED
    BY <2>1, <2>2, <2>3, KeysUnmoved
<1>7. CASE Thrown(q) \/ SettleRefused(q) \/ SettleUnlimited(q) \/ ReleaseFails(q)
  <2>1. PICK phase \in {"releasing", "delivered", "failed"} : PhaseTo(q, phase)
    BY <1>7 DEF Thrown, SettleRefused, SettleUnlimited, ReleaseFails
  <2>2. Open(q) /\ postings' = postings /\ faults \subseteq faults'
    BY <1>7 DEF Thrown, SettleRefused, SettleUnlimited, ReleaseFails, Open
  <2>3. /\ chats'[q].id = chats[q].id /\ chats'[q].unlimited = chats[q].unlimited
        /\ \A p \in Chats \ {q} : chats'[p] = chats[p]
    BY <2>1, PhaseTaken
  <2>4. Limited(q)' => Limited(q) /\ chats'[q].id = chats[q].id
    BY <2>2, <2>3 DEF Limited
  <2>5. QED
    BY <2>2, <2>3, <2>4, KeysUnmoved
<1>8. CASE Settle(q)
  <2>1. PhaseTo(q, "delivered") /\ SettleRows(q) /\ faults' = faults /\ Limited(q)
    BY <1>8 DEF Settle, SettleRows, Limited, Open
  <2>2. /\ postings'[chats[q].id] \subseteq postings[chats[q].id] \union {"release", "settle"}
        /\ postings[chats[q].id] \subseteq postings'[chats[q].id]
        /\ \A k \in RequestIds \ {chats[q].id} : postings'[k] = postings[k]
    BY <2>1, SettledRows
  <2>3. chats'[q].phase = "delivered" /\ \A p \in Chats \ {q} : chats'[p] = chats[p]
    BY <2>1, PhaseTaken
  <2>4. ~Limited(q)'
    BY <2>3 DEF Limited, Open
  <2>5. QED
    BY <2>1, <2>2, <2>3, <2>4, KeysOfEnded
<1>9. CASE SettleUnheard(q)
  <2>1. PhaseTo(q, "releasing") /\ SettleRows(q) /\ "lost" \in faults' /\ Limited(q)
    BY <1>9 DEF SettleUnheard, SettleRows, Limited, Open
  <2>2. /\ postings[chats[q].id] \subseteq postings'[chats[q].id]
        /\ \A k \in RequestIds \ {chats[q].id} : postings'[k] = postings[k]
    BY <2>1, SettledRows
  <2>3. chats'[q].id = chats[q].id /\ \A p \in Chats \ {q} : chats'[p] = chats[p]
    BY <2>1, PhaseTaken
  <2>4. \A p \in Chats : Limited(p)' => /\ Limited(p) /\ chats'[p].id = chats[p].id
                                        /\ chats[p].id \in RequestIds
    BY <2>1, <2>3 DEF Limited, Open, DirectTypeOK
  <2>5. \A k \in RequestIds : postings[k] \subseteq postings'[k]
    BY <2>2
  <2>6. \A k \in RequestIds : postings'[k] # {} => "reserve" \in postings'[k]
    BY <1>1, <2>1, <2>2 DEF KeysMatch
  <2>7. \A p \in Chats : Limited(p)' => "reserve" \in postings'[chats'[p].id]
    BY <2>4, <2>5 DEF KeysMatch
  <2>8. \A a, p \in Chats : Limited(a)' /\ Limited(p)' /\ a # p => chats'[a].id # chats'[p].id
    BY <2>4 DEF KeysMatch
  <2>9. QED
    BY <2>1, <2>6, <2>7, <2>8 DEF KeysMatch, ClosedOnce
<1>10. CASE Release(q)
  <2>1. PhaseTo(q, "failed") /\ Open(q) /\ faults' = faults
    BY <1>10 DEF Release, Open
  <2>2. chats'[q].phase = "failed" /\ \A p \in Chats \ {q} : chats'[p] = chats[p]
    BY <2>1, PhaseTaken
  <2>3. ~Limited(q)'
    BY <2>2 DEF Limited, Open
  <2>4. \/ postings' = postings
        \/ /\ ~chats[q].unlimited
           /\ postings'[chats[q].id] = postings[chats[q].id] \union {"failedRelease"}
           /\ \A k \in RequestIds \ {chats[q].id} : postings'[k] = postings[k]
    BY <1>10, Released
  <2>5. CASE postings' = postings
    BY <2>1, <2>2, <2>3, <2>5, KeysUnmoved
  <2>6. CASE /\ ~chats[q].unlimited
             /\ postings'[chats[q].id] = postings[chats[q].id] \union {"failedRelease"}
             /\ \A k \in RequestIds \ {chats[q].id} : postings'[k] = postings[k]
    <3>1. Limited(q)
      BY <2>1, <2>6 DEF Limited
    <3>2. QED
      BY <2>1, <2>2, <2>3, <2>6, <3>1, KeysOfEnded
  <2>7. QED
    BY <2>4, <2>5, <2>6
<1>11. QED
  BY <1>2, <1>3, <1>4, <1>5, <1>6, <1>7, <1>8, <1>9, <1>10 DEF ChatStep

LEMMA KeysKept ==
    DirectTypeOK /\ DirectTypeOK' /\ KeysMatch /\ [NextDirect]_directVars => KeysMatch'
<1> SUFFICES ASSUME DirectTypeOK, DirectTypeOK', KeysMatch, [NextDirect]_directVars
             PROVE  KeysMatch'
  OBVIOUS
<1>1. CASE (\E amount \in Deposits : Deposit(amount)) \/ UNCHANGED directVars
  <2>1. postings' = postings /\ chats' = chats /\ faults' = faults
    BY <1>1 DEF Deposit, directVars
  <2>2. QED
    BY <2>1 DEF KeysMatch, ClosedOnce, Limited, Open
<1>2. ASSUME NEW q \in Chats, ChatStep(q) PROVE KeysMatch'
  BY <1>2, ChatStepKeys
<1>3. CASE CrashChats
  <2>1. \A q \in Chats : ~Limited(q)'
    BY <1>3, Crashed DEF Limited
  <2>2. postings' = postings /\ faults \subseteq faults'
    BY <1>3 DEF CrashChats
  <2>3. QED
    BY <2>1, <2>2 DEF KeysMatch, ClosedOnce
<1>4. QED
  BY <1>1, <1>2, <1>3 DEF NextDirect

(* However requests with the same id race and fail, none is both settled   *)
(* and released, as long as no answer of the database was lost.            *)
THEOREM NoneClosedTwice == SpecDirect => []ClosedOnce
<1>1. InitDirect => DirectTypeOK /\ KeysMatch
  <2>1. SUFFICES ASSUME InitDirect PROVE KeysMatch
    BY TypesInitially
  <2>2. \A q \in Chats : ~Limited(q)
    BY <2>1 DEF InitDirect, NewChat, Limited, Open
  <2>3. \A i \in RequestIds : postings[i] = {}
    BY <2>1 DEF InitDirect
  <2>4. QED
    BY <2>2, <2>3 DEF KeysMatch, ClosedOnce
<1>2. DirectTypeOK /\ KeysMatch /\ [NextDirect]_directVars => DirectTypeOK' /\ KeysMatch'
  BY TypesKept, KeysKept
<1>3. KeysMatch => ClosedOnce
  BY DEF KeysMatch
<1>4. QED
  BY <1>1, <1>2, <1>3, PTL DEF SpecDirect
-----------------------------------------------------------------------------
(* What was delivered, and what was paid *)

DueOf == [q \in Chats |-> IF chats[q].phase = "delivered" THEN chats[q].charge ELSE 0]

(* An unlimited request costs nothing, so that what it is delivered for    *)
(* needs no settlement.                                                    *)
UnlimitedIsFree == \A q \in Chats : chats[q].unlimited => chats[q].charge = 0

DuesMatch ==
    IF "lost" \in faults THEN account.spent >= SumOf(DueOf) ELSE account.spent = SumOf(DueOf)

LEMMA DuesType ==
    ASSUME DirectTypeOK
    PROVE  DueOf \in [Chats -> Nat] /\ SumOf(DueOf) \in Nat /\ account.spent \in Nat
<1>1. DueOf \in [Chats -> Nat] /\ account.spent \in Nat
  BY DEF DirectTypeOK, ChatRows, Accounts, DueOf
<1>2. QED
  BY <1>1, DirectAssumption, SumType

LEMMA DuesTypeNext ==
    ASSUME DirectTypeOK'
    PROVE  DueOf' \in [Chats -> Nat] /\ SumOf(DueOf)' \in Nat /\ account'.spent \in Nat
<1>1. DueOf' \in [Chats -> Nat] /\ account'.spent \in Nat
  BY DEF DirectTypeOK, ChatRows, Accounts, DueOf
<1>2. QED
  BY <1>1, DirectAssumption, SumType

LEMMA OneDue ==
    ASSUME DirectTypeOK, DirectTypeOK', NEW q \in Chats,
           \A p \in Chats \ {q} : chats'[p] = chats[p]
    PROVE  SumOf(DueOf)' + DueOf[q] = SumOf(DueOf) + DueOf'[q]
<1>1. PICK f \in [Chats -> Nat] : f = DueOf
  BY DuesType
<1>2. PICK g \in [Chats -> Nat] : g = DueOf'
  BY DuesTypeNext
<1>3. \A p \in Chats \ {q} : g[p] = f[p]
  BY <1>1, <1>2 DEF DueOf
<1>4. SumOf(g) + f[q] = SumOf(f) + g[q]
  BY <1>3, DirectAssumption, SumChange
<1>5. QED
  BY <1>1, <1>2, <1>4

(* A step that neither delivers nor pays.                                  *)
LEMMA DuesUnmoved ==
    ASSUME DirectTypeOK, DirectTypeOK', DuesMatch, NEW q \in Chats,
           \A p \in Chats \ {q} : chats'[p] = chats[p],
           chats[q].phase # "delivered", chats'[q].phase # "delivered",
           account'.spent = account.spent,
           faults' = faults \/ faults' = faults \union {"stranded"}
    PROVE  DuesMatch'
<1>1. DueOf[q] = 0 /\ DueOf'[q] = 0
  BY DEF DueOf
<1>2. SumOf(DueOf)' + DueOf[q] = SumOf(DueOf) + DueOf'[q]
  BY OneDue
<1>3. SumOf(DueOf) \in Nat /\ SumOf(DueOf)' \in Nat
  BY DuesType, DuesTypeNext
<1>4. SumOf(DueOf)' = SumOf(DueOf)
  BY <1>1, <1>2, <1>3
<1>5. "lost" \in faults' <=> "lost" \in faults
  OBVIOUS
<1>6. QED
  BY <1>4, <1>5 DEF DuesMatch

(* One that delivers: what it costs is paid in the same transaction, or    *)
(* nothing.                                                                *)
LEMMA DuesDelivered ==
    ASSUME DirectTypeOK, DirectTypeOK', DuesMatch, NEW q \in Chats,
           \A p \in Chats \ {q} : chats'[p] = chats[p],
           chats[q].phase # "delivered", chats'[q].phase = "delivered",
           chats'[q].charge = chats[q].charge,
           account'.spent = account.spent + chats[q].charge, faults' = faults
    PROVE  DuesMatch'
<1>1. PICK charge \in Nat : charge = chats[q].charge
  BY DEF DirectTypeOK, ChatRows
<1>2. DueOf[q] = 0 /\ DueOf'[q] = charge
  BY <1>1 DEF DueOf
<1>3. SumOf(DueOf)' + DueOf[q] = SumOf(DueOf) + DueOf'[q]
  BY OneDue
<1>4. SumOf(DueOf) \in Nat /\ SumOf(DueOf)' \in Nat /\ account.spent \in Nat
  BY DuesType, DuesTypeNext
<1>5. SumOf(DueOf)' = SumOf(DueOf) + charge
  BY <1>2, <1>3, <1>4
<1>6. account'.spent = account.spent + charge
  BY <1>1
<1>7. QED
  BY <1>4, <1>5, <1>6 DEF DuesMatch

LEMMA SpentBySettlement ==
    ASSUME DirectTypeOK, NEW q \in Chats, SettleRows(q)
    PROVE  account'.spent = account.spent + chats[q].charge
BY DEF DirectTypeOK, Accounts, SettleRows

LEMMA ChatStepDues ==
    ASSUME DirectTypeOK, DirectTypeOK', UnlimitedIsFree, DuesMatch, NEW q \in Chats, ChatStep(q)
    PROVE  UnlimitedIsFree' /\ DuesMatch'
<1>1. ASSUME NEW phase \in {"routing", "charging", "releasing", "delivered", "failed"},
             PhaseTo(q, phase)
      PROVE  /\ UnlimitedIsFree'
             /\ chats'[q].phase = phase /\ chats'[q].charge = chats[q].charge
             /\ \A p \in Chats \ {q} : chats'[p] = chats[p]
  <2>1. /\ chats'[q].phase = phase /\ chats'[q].charge = chats[q].charge
        /\ chats'[q].unlimited = chats[q].unlimited
        /\ \A p \in Chats \ {q} : chats'[p] = chats[p]
    BY <1>1, PhaseTaken
  <2>2. QED
    BY <2>1 DEF UnlimitedIsFree
<1>2. ASSUME NEW phase \in {"routing", "charging", "releasing", "failed"},
             PhaseTo(q, phase), chats[q].phase # "delivered", account'.spent = account.spent,
             faults' = faults \/ faults' = faults \union {"stranded"}
      PROVE  UnlimitedIsFree' /\ DuesMatch'
  BY <1>1, <1>2, DuesUnmoved
<1>3. ASSUME NEW i \in RequestIds, NEW amount \in 0..MaxEstimate, NEW unlimited \in BOOLEAN,
             chats' = [chats EXCEPT ![q] = Reserved(q, i, amount, unlimited)],
             chats[q].phase = "idle", account'.spent = account.spent, faults' = faults
      PROVE  UnlimitedIsFree' /\ DuesMatch'
  <2>1. /\ chats'[q] = Reserved(q, i, amount, unlimited)
        /\ \A p \in Chats \ {q} : chats'[p] = chats[p]
    BY <1>3 DEF DirectTypeOK
  <2>2. chats'[q].charge = 0 /\ chats'[q].phase = "routing"
    BY <2>1 DEF Reserved, NewChat
  <2>3. DuesMatch'
    BY <1>3, <2>1, <2>2, DuesUnmoved
  <2>4. QED
    BY <2>1, <2>2, <2>3 DEF UnlimitedIsFree
<1>4. ASSUME NEW i \in RequestIds, NEW amount \in Estimates, ReserveRows(i, amount)
      PROVE  account'.spent = account.spent /\ amount \in 0..MaxEstimate
  BY <1>4, DirectAssumption DEF ReserveRows, DirectTypeOK, Accounts
<1>5. ASSUME NEW i \in RequestIds, ReserveUnlimited(q, i)
      PROVE  UnlimitedIsFree' /\ DuesMatch'
  <2>1. 0 \in 0..MaxEstimate /\ TRUE \in BOOLEAN
    BY DirectAssumption
  <2>2. QED
    BY <1>3, <1>5, <2>1 DEF ReserveUnlimited
<1>6. ASSUME NEW i \in RequestIds, NEW amount \in Estimates, Reserve(q, i, amount)
      PROVE  UnlimitedIsFree' /\ DuesMatch'
  <2>1. account'.spent = account.spent /\ amount \in 0..MaxEstimate /\ FALSE \in BOOLEAN
    BY <1>4, <1>6 DEF Reserve
  <2>2. QED
    BY <1>3, <1>6, <2>1 DEF Reserve
<1>7. ASSUME NEW i \in RequestIds, NEW amount \in Estimates, ReserveUnheard(q, i, amount)
      PROVE  UnlimitedIsFree' /\ DuesMatch'
  <2>1. account'.spent = account.spent
    BY <1>4, <1>7 DEF ReserveUnheard
  <2>2. /\ UnlimitedIsFree'
        /\ chats[q].phase # "delivered" /\ chats'[q].phase # "delivered"
        /\ \A p \in Chats \ {q} : chats'[p] = chats[p]
    BY <1>1, <1>7 DEF ReserveUnheard
  <2>3. SumOf(DueOf)' = SumOf(DueOf)
    <3>1. DueOf[q] = 0 /\ DueOf'[q] = 0
      BY <2>2 DEF DueOf
    <3>2. SumOf(DueOf)' + DueOf[q] = SumOf(DueOf) + DueOf'[q]
      BY <2>2, OneDue
    <3>3. QED
      BY <3>1, <3>2, DuesType, DuesTypeNext
  <2>4. "lost" \in faults' /\ account.spent >= SumOf(DueOf)
    <3>1. account.spent \in Nat /\ SumOf(DueOf) \in Nat
      BY DuesType
    <3>2. QED
      BY <1>7, <3>1 DEF ReserveUnheard, DuesMatch
  <2>5. QED
    BY <2>1, <2>2, <2>3, <2>4 DEF DuesMatch
<1>8. ASSUME NEW i \in RequestIds, NEW amount \in Estimates, ReserveRefused(q, i, amount)
      PROVE  UnlimitedIsFree' /\ DuesMatch'
  BY <1>2, <1>8 DEF ReserveRefused
<1>9. ASSUME NEW charge \in Charges, Answered(q, charge)
      PROVE  UnlimitedIsFree' /\ DuesMatch'
  <2>1. /\ chats'[q].phase = "charging" /\ chats'[q].unlimited = chats[q].unlimited
        /\ \A p \in Chats \ {q} : chats'[p] = chats[p]
    BY <1>9, AnsweredRow
  <2>2. chats'[q].unlimited => chats'[q].charge = 0
    BY <1>9, <2>1 DEF Answered, DirectTypeOK, ChatRows
  <2>3. DuesMatch'
    BY <1>9, <2>1, DuesUnmoved DEF Answered
  <2>4. QED
    BY <2>1, <2>2, <2>3 DEF UnlimitedIsFree
<1>10. CASE Thrown(q)
  BY <1>2, <1>10 DEF Thrown
<1>11. CASE Settle(q)
  <2>1. chats[q].phase = "charging" /\ account'.spent = account.spent + chats[q].charge
    BY <1>11, SpentBySettlement DEF Settle, SettleRows
  <2>2. QED
    BY <1>1, <1>11, <2>1, DuesDelivered DEF Settle
<1>12. CASE SettleUnlimited(q)
  <2>1. chats[q].charge = 0 /\ account.spent \in Nat
    BY <1>12, DuesType DEF SettleUnlimited, UnlimitedIsFree
  <2>2. account'.spent = account.spent + chats[q].charge
    BY <1>12, <2>1 DEF SettleUnlimited
  <2>3. QED
    BY <1>1, <1>12, <2>2, DuesDelivered DEF SettleUnlimited
<1>13. CASE SettleRefused(q)
  BY <1>2, <1>13 DEF SettleRefused
<1>14. CASE SettleUnheard(q)
  <2>1. chats[q].phase = "charging" /\ account'.spent = account.spent + chats[q].charge
    BY <1>14, SpentBySettlement DEF SettleUnheard, SettleRows
  <2>2. /\ UnlimitedIsFree'
        /\ chats'[q].phase # "delivered"
        /\ \A p \in Chats \ {q} : chats'[p] = chats[p]
    BY <1>1, <1>14 DEF SettleUnheard
  <2>3. SumOf(DueOf)' = SumOf(DueOf)
    <3>1. DueOf[q] = 0 /\ DueOf'[q] = 0
      BY <2>1, <2>2 DEF DueOf
    <3>2. SumOf(DueOf)' + DueOf[q] = SumOf(DueOf) + DueOf'[q]
      BY <2>2, OneDue
    <3>3. QED
      BY <3>1, <3>2, DuesType, DuesTypeNext
  <2>4. "lost" \in faults' /\ account.spent + chats[q].charge >= SumOf(DueOf)
    <3>1. account.spent \in Nat /\ SumOf(DueOf) \in Nat /\ chats[q].charge \in Nat
      BY DuesType DEF DirectTypeOK, ChatRows
    <3>2. account.spent >= SumOf(DueOf)
      BY <3>1 DEF DuesMatch
    <3>3. QED
      BY <1>14, <3>1, <3>2 DEF SettleUnheard
  <2>5. QED
    BY <2>1, <2>2, <2>3, <2>4 DEF DuesMatch
<1>15. CASE Release(q)
  <2>1. account'.spent = account.spent
    BY <1>15 DEF Release, DirectTypeOK, Accounts
  <2>2. QED
    BY <1>2, <1>15, <2>1 DEF Release
<1>16. CASE ReleaseFails(q)
  BY <1>2, <1>16 DEF ReleaseFails
<1>17. QED
  BY <1>5, <1>6, <1>7, <1>8, <1>9, <1>10, <1>11, <1>12, <1>13, <1>14, <1>15, <1>16 DEF ChatStep

LEMMA DuesKept ==
    DirectTypeOK /\ DirectTypeOK' /\ UnlimitedIsFree /\ DuesMatch /\ [NextDirect]_directVars
        => UnlimitedIsFree' /\ DuesMatch'
<1> SUFFICES ASSUME DirectTypeOK, DirectTypeOK', UnlimitedIsFree, DuesMatch,
                    [NextDirect]_directVars
             PROVE  UnlimitedIsFree' /\ DuesMatch'
  OBVIOUS
<1>1. ASSUME chats' = chats, account'.spent = account.spent, faults' = faults
      PROVE  UnlimitedIsFree' /\ DuesMatch'
  BY <1>1 DEF UnlimitedIsFree, DuesMatch, DueOf
<1>2. ASSUME NEW amount \in Deposits, Deposit(amount)
      PROVE  UnlimitedIsFree' /\ DuesMatch'
  <2>1. account'.spent = account.spent
    BY <1>2 DEF Deposit, DirectTypeOK, Accounts
  <2>2. QED
    BY <1>1, <1>2, <2>1 DEF Deposit
<1>3. ASSUME NEW q \in Chats, ChatStep(q)
      PROVE  UnlimitedIsFree' /\ DuesMatch'
  BY <1>3, ChatStepDues
<1>4. CASE CrashChats
  <2>1. ASSUME NEW q \in Chats
        PROVE  /\ chats'[q].unlimited = chats[q].unlimited /\ chats'[q].charge = chats[q].charge
               /\ chats'[q].phase = "delivered" <=> chats[q].phase = "delivered"
    <3>1. chats[q] \in ChatRows
      BY DEF DirectTypeOK
    <3>2. CASE Open(q)
      <4>1. chats'[q] = [chats[q] EXCEPT !.phase = "failed"]
        BY <1>4, <3>2 DEF CrashChats
      <4>2. QED
        BY <3>1, <3>2, <4>1 DEF ChatRows, Open
    <3>3. CASE ~Open(q)
      BY <1>4, <3>3 DEF CrashChats
    <3>4. QED
      BY <3>2, <3>3
  <2>2. DueOf' = DueOf /\ UnlimitedIsFree'
    BY <2>1 DEF DueOf, UnlimitedIsFree
  <2>3. account' = account /\ ("lost" \in faults' <=> "lost" \in faults)
    BY <1>4 DEF CrashChats
  <2>4. QED
    BY <2>2, <2>3 DEF DuesMatch
<1>5. CASE UNCHANGED directVars
  BY <1>1, <1>5 DEF directVars
<1>6. QED
  BY <1>2, <1>3, <1>4, <1>5 DEF NextDirect

(* For any number of requests, estimates and charges: the member has spent *)
(* exactly what was delivered, whichever steps fail, until the answer to a *)
(* settlement is lost; after that at least as much.                        *)
THEOREM DeliveredAndPaid == SpecDirect => []PaidIffDelivered
<1>1. InitDirect => DirectTypeOK /\ UnlimitedIsFree /\ DuesMatch
  <2> SUFFICES ASSUME InitDirect PROVE UnlimitedIsFree /\ DuesMatch
    BY TypesInitially
  <2>1. DueOf \in [Chats -> Nat] /\ \A q \in Chats : DueOf[q] = 0
    BY DEF InitDirect, NewChat, DueOf
  <2>2. SumOf(DueOf) = 0
    BY <2>1, SumOfZeros
  <2>3. account.spent = 0 /\ faults = {} /\ UnlimitedIsFree
    BY DEF InitDirect, NewChat, UnlimitedIsFree
  <2>4. QED
    BY <2>2, <2>3 DEF DuesMatch
<1>2. DirectTypeOK /\ UnlimitedIsFree /\ DuesMatch /\ [NextDirect]_directVars
        => DirectTypeOK' /\ UnlimitedIsFree' /\ DuesMatch'
  BY TypesKept, DuesKept
<1>3. DuesMatch => PaidIffDelivered
  BY Zenon DEF DuesMatch, PaidIffDelivered, DueOf
<1>4. QED
  BY <1>1, <1>2, <1>3, PTL DEF SpecDirect
=============================================================================
