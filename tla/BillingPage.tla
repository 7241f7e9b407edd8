----------------------------- MODULE BillingPage -----------------------------
(***************************************************************************)
(* One member's billing page (member-billing.tsx) in front of the API.     *)
(* Every fetch is asked, answered by the server in one step and received   *)
(* by the page in a later one, and answers overtake each other: the page   *)
(* neither numbers its requests nor aborts them.  While the invoice it     *)
(* shows is open the page asks again by itself.  What the server does to   *)
(* an invoice is Payments'; here it is a status that is settled once.      *)
(***************************************************************************)
EXTENDS Integers, FiniteSets

CONSTANTS
    PageInvoices,   \* invoice numbers, 1..n, later ones issued later
    Sandbox,        \* the invoices of the sandbox provider among them
    Slots,          \* requests the browser has in flight, 1..n
    MaxRefusals     \* bound on the requests that fail

VARIABLES
    server,         \* server[n]: status of the invoice row; "due" is an open
                    \* one whose time has passed
    page,           \* the state of the component
    fetches         \* fetches[s]: the request in flight in slot s

pageVars == <<server, page, fetches>>

Nothing == [number |-> 0, status |-> "none"]
NoFetch == [kind |-> "none", step |-> "idle", number |-> 0, then |-> "", answer |-> {}]
Unloaded == [n \in PageInvoices |-> "absent"]

(* The first effect asks for the data. *)
InitPage ==
    /\ server = Unloaded
    /\ page = [selected |-> Nothing, invoices |-> Unloaded, loaded |-> FALSE,
               busy |-> "", paidNotice |-> 0, refusals |-> 0]
    /\ fetches = [[s \in Slots |-> NoFetch] EXCEPT
                    ![1] = [NoFetch EXCEPT !.kind = "load", !.step = "asked"]]

Free(s) == fetches[s].kind = "none" /\ \A t \in 1..(s - 1) : fetches[t].kind # "none"
ShowsOpen == page.selected.status = "open"

Ask(s, kind, number, then) ==
    fetches' = [fetches EXCEPT ![s] = [kind |-> kind, step |-> "asked", number |-> number,
                                       then |-> then, answer |-> {}]]

-----------------------------------------------------------------------------
(* The server *)

(* expireOpenInvoices *)
Lapsed == [n \in PageInvoices |-> IF server[n] = "due" THEN "expired" ELSE server[n]]

(* createTopupInvoice gives an open invoice again, or a new one. *)
Issue(n) == IF \E m \in PageInvoices : Lapsed[m] = "open"
            THEN Lapsed[n] = "open"
            ELSE Lapsed[n] = "absent" /\ \A m \in 1..(n - 1) : Lapsed[m] # "absent"

Reply(s, answer) ==
    fetches' = [fetches EXCEPT ![s].step = "answered", ![s].answer = answer]

Turn(s, step) == fetches' = [fetches EXCEPT ![s].step = step]

Asked(s, kind) == fetches[s].kind = kind /\ fetches[s].step = "asked"

Serve(s) ==
    LET n == fetches[s].number IN
    /\ \/ /\ Asked(s, "load")
          /\ server' = Lapsed
          /\ Reply(s, Lapsed)
       \/ /\ Asked(s, "sync")
          /\ UNCHANGED server
          /\ Reply(s, {})
       \/ /\ Asked(s, "topup")
          /\ \/ \E m \in PageInvoices :
                   /\ Issue(m)
                   /\ server' = [Lapsed EXCEPT ![m] = "open"]
                   /\ Reply(s, [number |-> m, status |-> "open"])
             \/ /\ ~\E m \in PageInvoices : Issue(m)
                /\ server' = Lapsed
                /\ Turn(s, "refused")
       \/ /\ Asked(s, "cancel")
          /\ server' = IF Lapsed[n] = "open" THEN [Lapsed EXCEPT ![n] = "cancelled"] ELSE Lapsed
          /\ IF Lapsed[n] = "paid" THEN Turn(s, "already paid")
             ELSE Reply(s, [number |-> n, status |-> server'[n]])
       \/ /\ Asked(s, "sandbox")
          /\ server' = [server EXCEPT ![n] = IF @ = "open" THEN "paid" ELSE @]
          /\ Reply(s, {})
    /\ UNCHANGED page

(* The network or the provider fails, or the rate limit of the member. *)
ServeNot(s) ==
    /\ fetches[s].step = "asked"
    /\ page.refusals < MaxRefusals
    /\ Turn(s, "refused")
    /\ page' = [page EXCEPT !.refusals = @ + 1]
    /\ UNCHANGED server

Pay(n) ==
    /\ server[n] = "open"
    /\ server' = [server EXCEPT ![n] = "paid"]
    /\ UNCHANGED <<page, fetches>>

FallDue(n) ==
    /\ server[n] = "open"
    /\ server' = [server EXCEPT ![n] = "due"]
    /\ UNCHANGED <<page, fetches>>

-----------------------------------------------------------------------------
(* Receiving answers *)

(* Mutant: of the invoice that is shown only the absence is noticed. *)
NewestKept(list, current) ==
    IF current.number # 0 /\ list[current.number] # "absent" THEN current
    ELSE LET open == {n \in PageInvoices : list[n] = "open"} IN
         IF open = {} THEN Nothing
         ELSE [number |-> CHOOSE n \in open : TRUE, status |-> "open"]

(* What setSelected makes of the invoice that is shown by then. *)
Newest(list, current) ==
    LET open == {n \in PageInvoices : list[n] = "open"}
        number == IF current.number # 0 THEN current.number
                  ELSE IF open = {} THEN 0
                  ELSE CHOOSE n \in open : \A m \in open : m <= n
    IN  IF number = 0 THEN Nothing
        ELSE IF list[number] = "absent" THEN Nothing
        ELSE [number |-> number, status |-> list[number]]

(* What the operation that awaited the load does in its finally block. *)
Freed(then) == IF then = "" THEN page.busy ELSE ""

ReceiveLoad(s) ==
    LET list == fetches[s].answer
        chosen == Newest(list, page.selected)
    IN  /\ fetches[s].kind = "load"
        /\ \/ /\ fetches[s].step = "answered"
              /\ page' = [page EXCEPT
                    !.invoices = list, !.loaded = TRUE, !.selected = chosen,
                    !.busy = Freed(fetches[s].then),
                    !.paidNotice = IF page.selected.status # "paid" /\ chosen.status = "paid"
                                   THEN chosen.number ELSE @]
           \/ /\ fetches[s].step = "refused"
              /\ page' = [page EXCEPT !.busy = Freed(fetches[s].then)]
        /\ fetches' = [fetches EXCEPT ![s] = NoFetch]
        /\ UNCHANGED server

(* A new top-up may send the browser to the provider; when it comes back   *)
(* the page starts anew.                                                   *)
Redirect(s) ==
    /\ fetches[s].kind = "load" /\ fetches[s].then = "topup"
    /\ fetches[s].step # "asked"
    /\ page' = [selected |-> Nothing, invoices |-> Unloaded, loaded |-> FALSE,
                busy |-> "", paidNotice |-> 0, refusals |-> page.refusals]
    /\ fetches' = [[t \in Slots |-> NoFetch] EXCEPT
                      ![1] = [NoFetch EXCEPT !.kind = "load", !.step = "asked"]]
    /\ UNCHANGED server

(* A status request that failed is not followed by a load. *)
ReceiveSync(s) ==
    /\ fetches[s].kind = "sync"
    /\ \/ /\ fetches[s].step = "answered"
          /\ Ask(s, "load", 0, fetches[s].then)
          /\ UNCHANGED page
       \/ /\ fetches[s].step = "refused"
          /\ page' = [page EXCEPT !.busy = Freed(fetches[s].then)]
          /\ fetches' = [fetches EXCEPT ![s] = NoFetch]
    /\ UNCHANGED server

(* createTopup, cancelPayment and completeSandbox after their first await. *)
ReceiveResult(s) ==
    /\ fetches[s].kind \in {"topup", "cancel", "sandbox"}
    /\ \/ /\ fetches[s].step = "answered"
          /\ page' = IF fetches[s].kind = "sandbox" THEN page
                     ELSE [page EXCEPT !.selected = fetches[s].answer]
          /\ Ask(s, "load", 0, IF fetches[s].kind = "topup" THEN "topup" ELSE "other")
       \/ /\ fetches[s].step = "already paid"
          /\ page' = [page EXCEPT !.paidNotice = fetches[s].number]
          /\ Ask(s, "load", 0, "other")
       \/ /\ fetches[s].step = "refused"
          /\ page' = [page EXCEPT !.busy = ""]
          /\ fetches' = [fetches EXCEPT ![s] = NoFetch]
    /\ UNCHANGED server

Receive(s) == ReceiveLoad(s) \/ ReceiveSync(s) \/ ReceiveResult(s)

-----------------------------------------------------------------------------
(* What the member and the timers ask for *)

(* The interval, the focus and the countdown that has run out; for an      *)
(* invoice of the sandbox provider there is nothing to synchronise.        *)
Poll(s) ==
    /\ Free(s)
    /\ ShowsOpen
    /\ IF page.selected.number \in Sandbox THEN Ask(s, "load", 0, "")
       ELSE Ask(s, "sync", page.selected.number, "")
    /\ UNCHANGED <<server, page>>

Reload(s) ==
    /\ Free(s)
    /\ Ask(s, "load", 0, "")
    /\ UNCHANGED <<server, page>>

CheckStatus(s) ==
    /\ Free(s)
    /\ ShowsOpen /\ page.selected.number \notin Sandbox /\ page.busy # "status"
    /\ page' = [page EXCEPT !.busy = "status"]
    /\ Ask(s, "sync", page.selected.number, "other")
    /\ UNCHANGED server

(* The one busy field belongs to whoever wrote it last. *)
CreateTopup(s) ==
    /\ Free(s)
    /\ page.loaded /\ page.busy # "topup"
    /\ \E n \in PageInvoices : Issue(n)
    /\ page' = [page EXCEPT !.busy = "topup"]
    /\ Ask(s, "topup", 0, "")
    /\ UNCHANGED server

(* From a dialog that opens on an open invoice and stays when the invoice  *)
(* behind it has been settled since.                                       *)
CancelPayment(s) ==
    /\ Free(s)
    /\ page.selected # Nothing /\ page.busy # "cancel"
    /\ page' = [page EXCEPT !.busy = "cancel"]
    /\ Ask(s, "cancel", page.selected.number, "")
    /\ UNCHANGED server

CompleteSandbox(s) ==
    /\ Free(s)
    /\ ShowsOpen /\ page.selected.number \in Sandbox /\ page.busy # "sandbox"
    /\ page' = [page EXCEPT !.busy = "sandbox"]
    /\ Ask(s, "sandbox", page.selected.number, "")
    /\ UNCHANGED server

View(n) ==
    /\ page.invoices[n] # "absent"
    /\ page' = [page EXCEPT !.selected = [number |-> n, status |-> page.invoices[n]]]
    /\ page' # page
    /\ UNCHANGED <<server, fetches>>

NextPage ==
    \/ \E s \in Slots :
          \/ Serve(s) \/ ServeNot(s) \/ Receive(s) \/ Redirect(s)
          \/ Reload(s) \/ CheckStatus(s) \/ CreateTopup(s)
          \/ CancelPayment(s) \/ CompleteSandbox(s) \/ Poll(s)
    \/ \E n \in PageInvoices : Pay(n) \/ FallDue(n) \/ View(n)

-----------------------------------------------------------------------------
Settled(n) == server[n] \in {"paid", "expired", "cancelled"}
ShownAsOpen(n) == page.selected = [number |-> n, status |-> "open"]

(* A page that announces a payment tells the truth, and one that shows an  *)
(* invoice as waiting for its payment when it is settled finds out by      *)
(* itself, though an answer that was overtaken may show it open once more. *)
PageFindsOut ==
    /\ [](page.paidNotice # 0 => server[page.paidNotice] = "paid")
    /\ \A n \in PageInvoices : Settled(n) /\ ShownAsOpen(n) ~> ~ShownAsOpen(n)
=============================================================================
