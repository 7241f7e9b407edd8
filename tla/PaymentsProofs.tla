--------------------------- MODULE PaymentsProofs ---------------------------
(***************************************************************************)
(* What the invoices of a member keep, for every number of invoices and    *)
(* requests, whatever the credit and however often the configuration       *)
(* changes: credit is granted for orders that were paid only, and at most  *)
(* once at a time.                                                         *)
(***************************************************************************)
EXTENDS Payments, TLAPS

-----------------------------------------------------------------------------
(* Types *)

Merchants == {"none", "xendit", "settings", "environment"}

Words == {"none", "unopened", "ACCEPTING_PAYMENTS", "pending", "SUCCEEDED", "settlement",
          "FAILED", "deny", "EXPIRED", "expire", "CANCELED", "refund"}

(* How an order may have ended, and the words that say it was paid or ran  *)
(* out of time at one provider or the other.                               *)
PaidWords == {"SUCCEEDED", "settlement"}
LapsedWords == {"EXPIRED", "expire"}

Statuses == {"paid", "expired", "failed", "refunded", "pending"}
InvoiceStates == {"NONE", "OPEN", "PAID", "OVERDUE", "VOID", "REFUNDED"}
PaymentStates == {"NONE", "PENDING", "PAID", "FAILED", "EXPIRED", "REFUNDED"}

Steps == {"idle", "expire", "begun", "record", "query", "apply", "recheck", "ask", "void",
          "refund", "takeBack"}

PayAccounts == [balance : Int, reserved : Int, granted : Int]
PayRows == [invoice : InvoiceStates, payment : PaymentStates, grants : Nat, refunds : Nat]
Orders == [raw : Words, merchant : Merchants, amount : BOOLEAN]
PayTasks == [op : {"none", "create", "look", "cancel", "sync", "refund"}, step : Steps,
             due : SUBSET Invoices, n : Invoices \union {{}}, raw : Words,
             merchant : Merchants]

PayTypeOK ==
    /\ account \in PayAccounts
    /\ rows \in [Invoices -> PayRows]
    /\ orders \in [Invoices -> Orders]
    /\ sent \subseteq Invoices \X Words
    /\ expired \subseteq Invoices
    /\ tasks \in [Tasks -> PayTasks]
    /\ \A t \in Tasks : tasks[t].step # "idle" => tasks[t].n \in Invoices

(* The words of the merchants.                                             *)
LEMMA WordsOfMerchants ==
    ASSUME NEW m
    PROVE  /\ Opened(m) \in Words /\ Opened(m) \notin PaidWords \union LapsedWords \union {"none"}
           /\ Paid(m) \in PaidWords /\ Lapsed(m) \in LapsedWords
           /\ Denied(m) \in Words \ (PaidWords \union LapsedWords \union {"none", "refund"})
           /\ Opened(m) \notin {Paid(m), Lapsed(m), Denied(m), "CANCELED", "refund"}
  BY DEF Opened, Paid, Lapsed, Denied, Words, PaidWords, LapsedWords

LEMMA ActiveIsMerchant == Active \in Merchants
  BY DEF Active, Merchants

(* What a word is read as.                                                 *)
LEMMA WordsRead ==
    ASSUME NEW m, NEW channel \in {"webhook", "sync"}, NEW raw \in Words
    PROVE  /\ StatusOf(m, channel, raw) \in Statuses
           /\ StatusOf(m, channel, raw) = "paid" => raw = Paid(m)
           /\ StatusOf(m, channel, raw) = "expired" => raw = Lapsed(m)
<1>1. CASE ProviderOf(m) # "xendit"
  BY <1>1 DEF StatusOf, MidtransStatus, Words, Statuses, Paid, Lapsed
<1>2. CASE ProviderOf(m) = "xendit"
  <2>1. CASE channel = "sync"
    BY <1>2, <2>1 DEF StatusOf, XenditStatus, Words, Statuses, Paid, Lapsed
  <2>2. CASE channel = "webhook"
    BY <1>2, <2>2 DEF StatusOf, XenditStatus, XenditEvent, Words, Statuses, Paid, Lapsed
  <2>3. QED
    BY <2>1, <2>2
<1>3. QED
  BY <1>1, <1>2

-----------------------------------------------------------------------------
(* What a step may do to an order *)

OrderMove(n) ==
    \/ orders'[n] = orders[n]
    \/ /\ Stands(n) = "none"
       /\ orders'[n].raw = Opened(orders'[n].merchant)
    \/ /\ StillOpened(n)
       /\ orders'[n].merchant = orders[n].merchant
       /\ orders'[n].raw \in {Denied(orders[n].merchant), Lapsed(orders[n].merchant),
                              Paid(orders[n].merchant), "CANCELED"}
    \/ /\ WasPaid(n) \/ Stands(n) = "refund"
       /\ orders'[n].merchant = orders[n].merchant
       /\ orders'[n].raw = "refund"

(* Whoever has heard a word of an order knows something for good.          *)
Heard(n, raw) ==
    /\ Stands(n) = "none" => raw \notin PaidWords \union LapsedWords
    /\ raw = Paid(orders[n].merchant) => WasPaid(n) \/ Stands(n) = "refund"
    /\ raw = Lapsed(orders[n].merchant) => Stands(n) = raw

(* The order is over, and was not paid or has been refunded.               *)
Unpaid(n) == Stands(n) # "none" /\ ~StillOpened(n) /\ ~WasPaid(n)

(* It was paid, whatever has been refunded.                                *)
PaidOnce(n) == WasPaid(n) \/ Stands(n) = "refund"

LEMMA HeardKept ==
    ASSUME NEW n, OrderMove(n), NEW raw, Heard(n, raw)
    PROVE  Heard(n, raw)'
<1>1. CASE orders'[n] = orders[n]
  BY <1>1 DEF Heard, Stands, WasPaid
<1>2. CASE Stands(n) = "none" /\ orders'[n].raw = Opened(orders'[n].merchant)
  BY <1>2, WordsOfMerchants DEF Heard, Stands, WasPaid
<1>3. CASE /\ StillOpened(n) /\ orders'[n].merchant = orders[n].merchant
           /\ orders'[n].raw \in {Denied(orders[n].merchant), Lapsed(orders[n].merchant),
                                  Paid(orders[n].merchant), "CANCELED"}
  <2> DEFINE m == orders[n].merchant
  <2>1. raw # Paid(m) /\ raw # Lapsed(m)
    BY <1>3, WordsOfMerchants DEF Heard, Stands, WasPaid, StillOpened
  <2>2. Stands(n)' # "none"
    BY <1>3, WordsOfMerchants DEF Stands, PaidWords, LapsedWords
  <2>3. QED
    BY <1>3, <2>1, <2>2 DEF Heard
<1>4. CASE /\ WasPaid(n) \/ Stands(n) = "refund"
           /\ orders'[n].merchant = orders[n].merchant /\ orders'[n].raw = "refund"
  BY <1>4, WordsOfMerchants DEF Heard, Stands, WasPaid, PaidWords, LapsedWords
<1>5. QED
  BY <1>1, <1>2, <1>3, <1>4 DEF OrderMove

LEMMA OrderFacts ==
    ASSUME NEW n, OrderMove(n)
    PROVE  /\ Unpaid(n) => Unpaid(n)'
           /\ PaidOnce(n) => PaidOnce(n)'
           /\ Stands(n) # "none" => Stands(n)' # "none"
<1>1. CASE orders'[n] = orders[n]
  BY <1>1 DEF Unpaid, PaidOnce, Stands, WasPaid, StillOpened
<1>2. CASE Stands(n) = "none" /\ orders'[n].raw = Opened(orders'[n].merchant)
  BY <1>2, WordsOfMerchants DEF Unpaid, PaidOnce, Stands, WasPaid, PaidWords, LapsedWords
<1>3. CASE /\ StillOpened(n) /\ orders'[n].merchant = orders[n].merchant
           /\ orders'[n].raw \in {Denied(orders[n].merchant), Lapsed(orders[n].merchant),
                                  Paid(orders[n].merchant), "CANCELED"}
  BY <1>3, WordsOfMerchants
     DEF Unpaid, PaidOnce, Stands, WasPaid, StillOpened, PaidWords, LapsedWords
<1>4. CASE /\ WasPaid(n) \/ Stands(n) = "refund"
           /\ orders'[n].merchant = orders[n].merchant /\ orders'[n].raw = "refund"
  BY <1>4, WordsOfMerchants
     DEF Unpaid, PaidOnce, Stands, WasPaid, StillOpened, PaidWords, LapsedWords
<1>5. QED
  BY <1>1, <1>2, <1>3, <1>4 DEF OrderMove

(* What an order stands at may be told to anybody.                         *)
LEMMA HeardNow ==
    ASSUME NEW n
    PROVE  Heard(n, Stands(n)) /\ Heard(n, Stands(n))'
  BY WordsOfMerchants DEF Heard, WasPaid, Stands, PaidWords, LapsedWords

(* The order of an invoice whose credit was granted never lapses.          *)
LEMMA PaidNeverLapses ==
    ASSUME NEW n, PaidOnce(n)
    PROVE  Stands(n) # "none" /\ Stands(n) # Lapsed(orders[n].merchant)
<1>1. Stands(n) \in PaidWords \union {"refund"}
  BY WordsOfMerchants DEF PaidOnce, WasPaid
<1>2. Lapsed(orders[n].merchant) \in LapsedWords
  BY WordsOfMerchants
<1>3. QED
  BY <1>1, <1>2 DEF PaidWords, LapsedWords

-----------------------------------------------------------------------------
(* The inductive invariant *)

RowInv(n) ==
    /\ rows[n].grants - rows[n].refunds \in {0, 1}
    /\ rows[n].refunds <= 1
    /\ rows[n].grants - rows[n].refunds = 1 => rows[n].invoice = "PAID" \/ n \in expired
    /\ rows[n].payment = "PAID" => rows[n].grants >= 1
    /\ rows[n].grants >= 1 => PaidOnce(n)
    /\ rows[n].invoice = "NONE" => rows[n].grants = 0 /\ rows[n].payment = "NONE"
    /\ rows[n].invoice # "NONE" => Stands(n) # "none"
    /\ rows[n].invoice = "VOID" => Unpaid(n)

(* What a request may rely on after its steps so far.                      *)
TaskInv(t) ==
    /\ \A m \in tasks[t].due : m \in expired /\ rows[m].invoice # "NONE"
    /\ At(t, "record") => /\ Stands(tasks[t].n) # "none"
                          /\ rows[tasks[t].n].invoice = "NONE"
    /\ At(t, "apply") => Heard(tasks[t].n, tasks[t].raw)
    /\ At(t, "ask") => rows[tasks[t].n].invoice # "NONE"
    /\ At(t, "void") => Unpaid(tasks[t].n)
    /\ At(t, "refund") \/ At(t, "takeBack") => rows[tasks[t].n].grants >= 1

OneRecords ==
    \A t, u \in Tasks :
        At(t, "record") /\ At(u, "record") /\ tasks[t].n = tasks[u].n => t = u

PayInv ==
    /\ PayTypeOK
    /\ account.reserved >= 0 /\ account.reserved <= account.balance
    /\ \A n \in Invoices : RowInv(n)
    /\ \A event \in sent : Heard(event[1], event[2])
    /\ \A t \in Tasks : TaskInv(t)
    /\ OneRecords

-----------------------------------------------------------------------------
(* What a step may do to the rows of an invoice, and to a request *)

Recorded(n) ==
    /\ rows[n].invoice = "NONE" /\ Stands(n) # "none"
    /\ rows'[n] = [rows[n] EXCEPT !.invoice = "OPEN", !.payment = "PENDING"]
    /\ \A t \in Tasks : At(t, "record")' => tasks'[t].n # n

StatusSet(n) ==
    /\ rows[n].invoice # "NONE"
    /\ rows'[n].grants = rows[n].grants /\ rows'[n].refunds = rows[n].refunds
    /\ rows'[n].payment # "PAID" \/ rows[n].payment = "PAID"
    /\ \/ rows'[n].invoice = rows[n].invoice
       \/ /\ rows'[n].invoice = "OVERDUE"
          /\ n \in expired \/ Stands(n) = Lapsed(orders[n].merchant)
       \/ rows'[n].invoice = "VOID" /\ rows[n].invoice = "OPEN" /\ Unpaid(n)

Granted(n) ==
    /\ rows[n].invoice \notin {"NONE", "PAID"} /\ n \notin expired /\ PaidOnce(n)
    /\ rows'[n] = [rows[n] EXCEPT !.payment = "PAID", !.invoice = "PAID", !.grants = @ + 1]

TakenBack(n) ==
    /\ rows[n].grants >= 1 /\ rows[n].refunds = 0
    /\ rows'[n] = [rows[n] EXCEPT !.payment = "REFUNDED", !.invoice = "REFUNDED",
                                  !.refunds = @ + 1]

RowMove(n) ==
    rows'[n] = rows[n] \/ Recorded(n) \/ StatusSet(n) \/ Granted(n) \/ TakenBack(n)

TaskMove ==
    \/ tasks' = tasks
    \/ \E t \in Tasks :
          /\ \A u \in Tasks \ {t} : tasks'[u] = tasks[u]
          /\ TaskInv(t)'
          /\ At(t, "record")' => Stands(tasks'[t].n) = "none"

Move ==
    /\ \A n \in Invoices : RowMove(n) /\ OrderMove(n)
    /\ expired \subseteq expired'
    /\ \A event \in sent' : event \in sent \/ Heard(event[1], event[2])'
    /\ TaskMove

LEMMA RowKept ==
    ASSUME NEW n \in Invoices, PayTypeOK, RowInv(n), RowMove(n), OrderMove(n),
           expired \subseteq expired'
    PROVE  RowInv(n)'
<1>1. rows[n] \in PayRows
  BY DEF PayTypeOK
<1>2. CASE rows'[n] = rows[n]
  BY <1>2, OrderFacts DEF RowInv
<1>3. CASE Recorded(n)
  BY <1>1, <1>3, OrderFacts DEF RowInv, Recorded, PayRows
<1>4. CASE StatusSet(n)
  <2>1. rows[n].grants >= 1 => Stands(n) # Lapsed(orders[n].merchant)
    BY <1>4, PaidNeverLapses DEF RowInv, StatusSet
  <2>2. rows[n].grants - rows[n].refunds = 1 => rows[n].grants >= 1
    BY <1>1 DEF PayRows
  <2>3. rows[n].grants - rows[n].refunds = 1 => rows'[n].invoice = "PAID" \/ n \in expired'
    BY <1>4, <2>1, <2>2 DEF RowInv, StatusSet
  <2>4. rows'[n].invoice # "NONE"
    BY <1>4 DEF StatusSet
  <2>5. Stands(n) # "none"
    BY <1>4 DEF StatusSet, RowInv
  <2>6. rows'[n].payment = "PAID" => rows[n].payment = "PAID"
    BY <1>4 DEF StatusSet
  <2>7. rows'[n].invoice = "VOID" => Unpaid(n)
    BY <1>4 DEF StatusSet, RowInv
  <2>8. rows'[n].grants = rows[n].grants /\ rows'[n].refunds = rows[n].refunds
    BY <1>4 DEF StatusSet
  <2>9. QED
    BY <2>3, <2>4, <2>5, <2>6, <2>7, <2>8, OrderFacts DEF RowInv
<1>5. CASE Granted(n)
  <2>1. rows[n].grants - rows[n].refunds = 0
    BY <1>1, <1>5 DEF RowInv, Granted, PayRows
  <2>2. PaidOnce(n)' /\ Stands(n)' # "none"
    BY <1>5, OrderFacts, PaidNeverLapses DEF Granted
  <2>3. QED
    BY <1>1, <1>5, <2>1, <2>2 DEF RowInv, Granted, PayRows
<1>6. CASE TakenBack(n)
  BY <1>1, <1>6, OrderFacts, PaidNeverLapses DEF RowInv, TakenBack, PayRows
<1>7. QED
  BY <1>2, <1>3, <1>4, <1>5, <1>6 DEF RowMove

(* What the other requests rely on is left alone.                          *)
LEMMA TaskKept ==
    ASSUME PayInv, Move, NEW t \in Tasks, tasks'[t] = tasks[t]
    PROVE  TaskInv(t)'
<1> DEFINE n == tasks[t].n
<1>1. \A m \in tasks[t].due : m \in Invoices
  BY DEF PayInv, PayTypeOK, PayTasks
<1>2. \A m \in Invoices : rows[m].invoice # "NONE" => rows'[m].invoice # "NONE"
  <2> SUFFICES ASSUME NEW m \in Invoices, rows[m].invoice # "NONE" PROVE rows'[m].invoice # "NONE"
    OBVIOUS
  <2>1. rows[m] \in PayRows /\ RowMove(m)
    BY DEF PayInv, PayTypeOK, Move
  <2>2. QED
    BY <2>1 DEF RowMove, Recorded, StatusSet, Granted, TakenBack, PayRows
<1>3. \A m \in tasks'[t].due : m \in expired' /\ rows'[m].invoice # "NONE"
  BY <1>1, <1>2 DEF PayInv, TaskInv, Move
<1>4. At(t, "idle") \/ (n \in Invoices /\ RowMove(n) /\ OrderMove(n) /\ rows[n] \in PayRows)
  <2>1. CASE tasks[t].step # "idle"
    <3>1. n \in Invoices
      BY <2>1 DEF PayInv, PayTypeOK
    <3>2. QED
      BY <3>1 DEF PayInv, PayTypeOK, Move
  <2>2. QED
    BY <2>1 DEF At
<1>5. CASE At(t, "idle")
  BY <1>3, <1>5 DEF TaskInv, At
<1>6. CASE n \in Invoices /\ RowMove(n) /\ OrderMove(n) /\ rows[n] \in PayRows
  <2>1. TaskInv(t) /\ RowInv(n)
    BY <1>6 DEF PayInv
  <2>2. ASSUME At(t, "record")' PROVE Stands(n)' # "none" /\ rows'[n].invoice = "NONE"
    <3>1. At(t, "record") /\ Stands(n) # "none" /\ rows[n].invoice = "NONE"
      BY <2>1, <2>2 DEF TaskInv, At
    <3>2. ~Recorded(n)
      BY <2>2 DEF Recorded
    <3>3. rows'[n] = rows[n]
      BY <1>6, <2>1, <3>1, <3>2 DEF RowMove, StatusSet, Granted, TakenBack, RowInv
    <3>4. QED
      BY <1>6, <3>1, <3>3, OrderFacts
  <2>3. At(t, "apply")' => Heard(n, tasks[t].raw)'
    BY <1>6, <2>1, HeardKept DEF TaskInv, At
  <2>4. At(t, "ask")' => rows'[n].invoice # "NONE"
    BY <1>2, <1>6, <2>1 DEF TaskInv, At
  <2>5. At(t, "void")' => Unpaid(n)'
    BY <1>6, <2>1, OrderFacts DEF TaskInv, At
  <2>6. rows[n].grants >= 1 => rows'[n].grants >= 1
    <3>1. rows'[n].grants \in {rows[n].grants, rows[n].grants + 1}
      BY <1>6 DEF RowMove, Recorded, StatusSet, Granted, TakenBack, PayRows
    <3>2. QED
      BY <1>6, <3>1 DEF PayRows
  <2>7. At(t, "refund")' \/ At(t, "takeBack")' => rows'[n].grants >= 1
    BY <2>1, <2>6 DEF TaskInv, At
  <2>8. n' = n
    OBVIOUS
  <2>9. QED
    BY <1>3, <2>2, <2>3, <2>4, <2>5, <2>7, <2>8 DEF TaskInv
<1>7. QED
  BY <1>4, <1>5, <1>6

LEMMA MoveKeeps ==
    ASSUME PayInv, Move, PayTypeOK',
           account'.reserved >= 0, account'.reserved <= account'.balance
    PROVE  PayInv'
<1>1. \A n \in Invoices : RowInv(n)'
  BY RowKept DEF PayInv, Move
<1>2. \A event \in sent' : Heard(event[1], event[2])'
  <2> SUFFICES ASSUME NEW event \in sent' PROVE Heard(event[1], event[2])'
    OBVIOUS
  <2>1. CASE event \in sent
    <3>1. event[1] \in Invoices /\ Heard(event[1], event[2])
      BY <2>1 DEF PayInv, PayTypeOK
    <3>2. QED
      BY <3>1, HeardKept DEF Move
  <2>2. QED
    BY <2>1 DEF Move
<1>3. CASE tasks' = tasks
  BY <1>1, <1>2, <1>3, TaskKept DEF PayInv, OneRecords, At
<1>4. ASSUME NEW t \in Tasks, \A u \in Tasks \ {t} : tasks'[u] = tasks[u],
             TaskInv(t)', At(t, "record")' => Stands(tasks'[t].n) = "none"
      PROVE  PayInv'
  <2>1. \A u \in Tasks : TaskInv(u)'
    BY <1>4, TaskKept
  <2>2. \A u \in Tasks \ {t} : At(u, "record")' => At(u, "record") /\ Stands(tasks'[u].n) # "none"
    BY <1>4 DEF At, PayInv, TaskInv
  <2>3. OneRecords'
    <3> SUFFICES ASSUME NEW u \in Tasks, NEW v \in Tasks, At(u, "record")', At(v, "record")',
                        tasks'[u].n = tasks'[v].n
                 PROVE  u = v
      BY DEF OneRecords
    <3>1. u = t <=> v = t
      BY <1>4, <2>2
    <3>2. CASE u # t /\ v # t
      BY <1>4, <2>2, <3>2 DEF PayInv, OneRecords
    <3>3. QED
      BY <3>1, <3>2
  <2>4. QED
    BY <1>1, <1>2, <2>1, <2>3 DEF PayInv
<1>5. QED
  BY <1>3, <1>4 DEF Move, TaskMove

-----------------------------------------------------------------------------
(* Steps that only move a request *)

LEMMA OnlyTask ==
    ASSUME PayInv, NEW t \in Tasks, NEW task,
           UNCHANGED <<account, rows, orders, sent, expired>>,
           tasks' = [tasks EXCEPT ![t] = task], task \in PayTasks,
           task.step # "idle" => task.n \in Invoices,
           \A m \in task.due : m \in expired /\ rows[m].invoice # "NONE",
           task.step # "record",
           task.step = "apply" => Heard(task.n, task.raw),
           task.step = "ask" => rows[task.n].invoice # "NONE",
           task.step = "void" => Unpaid(task.n),
           task.step \in {"refund", "takeBack"} => rows[task.n].grants >= 1
    PROVE  PayInv'
<1>1. tasks'[t] = task /\ \A u \in Tasks \ {t} : tasks'[u] = tasks[u]
  BY DEF PayInv, PayTypeOK
<1>2. TaskInv(t)'
  BY <1>1 DEF TaskInv, At, Heard, Unpaid, Stands, WasPaid, StillOpened
<1>3. Move
  BY <1>1, <1>2 DEF Move, TaskMove, RowMove, OrderMove, At
<1>4. PayTypeOK'
  BY <1>1 DEF PayInv, PayTypeOK
<1>5. QED
  BY <1>3, <1>4, MoveKeeps DEF PayInv

LEMMA StepsOn ==
    ASSUME PayInv, NEW t \in Tasks, NEW step \in Steps \ {"record"}, GoOn(t, step),
           UNCHANGED <<account, rows, orders, sent, expired>>,
           step # "idle" => ~At(t, "idle"),
           step # "apply",
           step = "ask" => rows[tasks[t].n].invoice # "NONE",
           step = "void" => Unpaid(tasks[t].n),
           step \in {"refund", "takeBack"} => rows[tasks[t].n].grants >= 1
    PROVE  PayInv'
<1> DEFINE task == [tasks[t] EXCEPT !.step = step]
<1>1. task \in PayTasks /\ tasks' = [tasks EXCEPT ![t] = task]
  BY DEF PayInv, PayTypeOK, PayTasks, GoOn
<1>2. task.step = step /\ task.n = tasks[t].n /\ task.due = tasks[t].due
  BY DEF PayInv, PayTypeOK, PayTasks
<1>3. task.step # "idle" => task.n \in Invoices
  BY <1>2 DEF PayInv, PayTypeOK, At
<1>4. \A m \in task.due : m \in expired /\ rows[m].invoice # "NONE"
  BY <1>2 DEF PayInv, TaskInv
<1> HIDE DEF task
<1>5. QED
  BY <1>1, <1>2, <1>3, <1>4, OnlyTask

LEMMA IdleIsTask == IdleTask \in PayTasks
  BY DEF IdleTask, PayTasks, Steps, Words, Merchants

(* A request that ends relies on nothing.                                  *)
LEMMA Ended ==
    ASSUME PayInv, NEW t \in Tasks, Finish(t)
    PROVE  /\ tasks' \in [Tasks -> PayTasks]
           /\ \A u \in Tasks : tasks'[u].step # "idle" => tasks'[u].n \in Invoices
           /\ TaskMove
           /\ tasks'[t].step = "idle" /\ \A u \in Tasks \ {t} : tasks'[u] = tasks[u]
<1>1. tasks'[t] = IdleTask /\ \A u \in Tasks \ {t} : tasks'[u] = tasks[u]
  BY DEF PayInv, PayTypeOK, Finish
<1>2. TaskInv(t)'
  BY <1>1 DEF TaskInv, At, IdleTask
<1>3. ~At(t, "record")' /\ tasks'[t].step = "idle"
  BY <1>1 DEF At, IdleTask
<1>4. tasks' \in [Tasks -> PayTasks]
  BY IdleIsTask DEF PayInv, PayTypeOK, Finish
<1>5. QED
  BY <1>1, <1>2, <1>3, <1>4 DEF TaskMove, PayInv, PayTypeOK

LEMMA EndedOnly ==
    ASSUME PayInv, NEW t \in Tasks, Finish(t), UNCHANGED <<account, rows, orders, sent, expired>>
    PROVE  PayInv'
<1>1. Move
  BY Ended DEF Move, RowMove, OrderMove
<1>2. PayTypeOK'
  BY Ended DEF PayInv, PayTypeOK
<1>3. QED
  BY <1>1, <1>2, MoveKeeps DEF PayInv

(* The rows of one invoice change, and the orders stay.                    *)
LEMMA OneRow ==
    ASSUME PayInv, NEW n \in Invoices, NEW row \in PayRows, rows' = [rows EXCEPT ![n] = row],
           RowMove(n), UNCHANGED <<orders, sent, expired>>, TaskMove,
           account' \in PayAccounts, account'.reserved >= 0, account'.reserved <= account'.balance,
           tasks' \in [Tasks -> PayTasks],
           \A u \in Tasks : tasks'[u].step # "idle" => tasks'[u].n \in Invoices
    PROVE  PayInv'
<1>1. \A m \in Invoices : RowMove(m)
  BY DEF RowMove, PayInv, PayTypeOK
<1>2. Move
  BY <1>1 DEF Move, OrderMove
<1>3. PayTypeOK'
  BY DEF PayInv, PayTypeOK
<1>4. QED
  BY <1>2, <1>3, MoveKeeps

-----------------------------------------------------------------------------
(* The provider *)

LEMMA OrderEndsKeeps ==
    ASSUME PayInv, NEW n \in Invoices, OrderEnds(n)
    PROVE  PayInv'
<1> DEFINE m == orders[n].merchant
<1>1. PICK raw \in {Denied(m), Lapsed(m), Paid(m)} :
           orders' = [orders EXCEPT ![n].raw = raw] /\ Notify(n, raw)
  BY DEF OrderEnds
<1>2. raw \in Words
  BY WordsOfMerchants DEF PaidWords, LapsedWords, Words
<1>3. /\ orders'[n] = [orders[n] EXCEPT !.raw = raw] /\ orders[n] \in Orders
      /\ \A u \in Invoices \ {n} : orders'[u] = orders[u]
  BY <1>1 DEF PayInv, PayTypeOK
<1>4. OrderMove(n) /\ orders'[n] \in Orders /\ Stands(n)' = raw
  BY <1>2, <1>3 DEF OrderMove, Orders, OrderEnds, Stands
<1>5. \A event \in sent' : event \in sent \/ Heard(event[1], event[2])'
  BY <1>1, <1>4, HeardNow DEF Notify
<1>6. Move
  BY <1>3, <1>4, <1>5 DEF Move, RowMove, OrderMove, OrderEnds, TaskMove
<1>7. sent' \subseteq Invoices \X Words
  BY <1>1, <1>2 DEF Notify, PayInv, PayTypeOK
<1>8. orders' \in [Invoices -> Orders]
  BY <1>1, <1>3, <1>4 DEF PayInv, PayTypeOK
<1>9. PayTypeOK'
  BY <1>7, <1>8 DEF OrderEnds, PayInv, PayTypeOK
<1>10. QED
  BY <1>6, <1>9, MoveKeeps DEF OrderEnds, PayInv

LEMMA TimePassesKeeps ==
    ASSUME PayInv, NEW n \in Invoices, TimePasses(n)
    PROVE  PayInv'
<1>1. Move
  BY DEF TimePasses, Move, RowMove, OrderMove, TaskMove
<1>2. PayTypeOK'
  BY DEF TimePasses, PayInv, PayTypeOK
<1>3. QED
  BY <1>1, <1>2, MoveKeeps DEF TimePasses, PayInv

-----------------------------------------------------------------------------
(* Events *)

LEMMA Settled ==
    ASSUME PayInv, NEW n \in Invoices, NEW channel \in {"webhook", "sync"}, NEW raw \in Words,
           NEW late \in BOOLEAN, Heard(n, raw), ApplyEvent(channel, n, raw, late)
    PROVE  /\ \E row \in PayRows : rows' = [rows EXCEPT ![n] = row]
           /\ RowMove(n)
           /\ account' \in PayAccounts
           /\ account'.reserved >= 0 /\ account'.reserved <= account'.balance
<1> DEFINE m == orders[n].merchant
           status == StatusOf(m, channel, raw)
<1>1. /\ rows[n] \in PayRows /\ rows \in [Invoices -> PayRows]
      /\ account \in PayAccounts /\ account.reserved >= 0 /\ account.reserved <= account.balance
  BY DEF PayInv, PayTypeOK
<1>2. CASE UNCHANGED <<account, rows>>
  <2>1. rows' = [rows EXCEPT ![n] = rows[n]]
    BY <1>1, <1>2
  <2>2. QED
    BY <1>1, <1>2, <2>1 DEF RowMove
<1>3. ASSUME rows[n].invoice # "NONE", UNCHANGED account,
             NEW payment \in PaymentStates \ {"PAID"}, NEW invoice \in InvoiceStates,
             rows' = [rows EXCEPT ![n].payment = payment, ![n].invoice = invoice],
             \/ invoice = rows[n].invoice
             \/ invoice = "OVERDUE" /\ (n \in expired \/ Stands(n) = Lapsed(m))
      PROVE  /\ \E row \in PayRows : rows' = [rows EXCEPT ![n] = row]
             /\ RowMove(n)
             /\ account' \in PayAccounts
             /\ account'.reserved >= 0 /\ account'.reserved <= account'.balance
  <2> DEFINE row == [rows[n] EXCEPT !.payment = payment, !.invoice = invoice]
  <2>1. row \in PayRows /\ rows' = [rows EXCEPT ![n] = row] /\ rows'[n] = row
    BY <1>1, <1>3 DEF PayRows
  <2>2. StatusSet(n)
    BY <1>1, <1>3, <2>1 DEF StatusSet, PayRows
  <2>3. QED
    BY <1>1, <1>3, <2>1, <2>2 DEF RowMove
<1>4. ASSUME rows[n].invoice # "NONE", ~AlreadyPaid(n), n \notin expired, PaidOnce(n), Grant(n)
      PROVE  /\ \E row \in PayRows : rows' = [rows EXCEPT ![n] = row]
             /\ RowMove(n)
             /\ account' \in PayAccounts
             /\ account'.reserved >= 0 /\ account'.reserved <= account'.balance
  <2> DEFINE grants == rows[n].grants + 1
             row == [rows[n] EXCEPT !.payment = "PAID", !.invoice = "PAID", !.grants = grants]
  <2>1. row \in PayRows
    <3>1. grants \in Nat
      BY <1>1 DEF PayRows
    <3> HIDE DEF grants
    <3>2. QED
      BY <1>1, <3>1 DEF PayRows, PaymentStates, InvoiceStates
  <2>2. rows' = [rows EXCEPT ![n] = row] /\ rows'[n] = row
    BY <1>1, <1>4 DEF Grant
  <2>3. Granted(n)
    BY <1>4, <2>2 DEF Granted, AlreadyPaid
  <2>4. /\ account' \in PayAccounts
        /\ account'.reserved >= 0 /\ account'.reserved <= account'.balance
    <3> DEFINE b == account.balance + Credit
    <3>1. account' = [balance |-> b, reserved |-> account.reserved,
                      granted |-> account.granted + Credit]
      BY <1>1, <1>4 DEF Grant, PayAccounts
    <3>2. account.balance \in Int /\ account.reserved \in Int /\ account.granted \in Int
      BY <1>1 DEF PayAccounts
    <3>3. b \in Int /\ account.granted + Credit \in Int /\ account.reserved <= b
      BY <1>1, <3>2, PaymentsAssumption
    <3> HIDE DEF b
    <3>4. QED
      BY <1>1, <3>1, <3>2, <3>3 DEF PayAccounts
  <2>5. QED
    BY <2>1, <2>2, <2>3, <2>4 DEF RowMove
<1>5. CASE Settle(n, status, late) /\ ~UNCHANGED <<account, rows>>
  <2>1. /\ status \in Statuses
        /\ status = "paid" => PaidOnce(n)
        /\ status = "expired" => Stands(n) = Lapsed(m)
    BY WordsRead DEF Heard, PaidOnce
  <2>2. rows[n].invoice # "NONE" /\ (status = "refunded" => rows[n].payment = "REFUNDED")
    BY <1>5 DEF Settle
  <2>3. CASE status # "paid"
    <3>1. PaymentStatus(status) \in PaymentStates \ {"PAID"}
      BY <2>1 DEF PaymentStatus, Statuses, PaymentStates
    <3>2. SetStatus(n, PaymentStatus(status),
                    IF status = "expired" THEN "OVERDUE" ELSE rows[n].invoice)
      BY <1>5, <2>3 DEF Settle
    <3>3. (IF status = "expired" THEN "OVERDUE" ELSE rows[n].invoice) \in InvoiceStates
      BY <1>1 DEF PayRows, InvoiceStates
    <3> HIDE DEF status, m
    <3>4. QED
      BY <1>3, <2>1, <2>2, <3>1, <3>2, <3>3 DEF SetStatus
  <2>4. CASE status = "paid" /\ n \in expired
    <3>1. SetStatus(n, "EXPIRED", "OVERDUE")
      BY <1>5, <2>4 DEF Settle
    <3>2. QED
      BY <1>3, <2>2, <2>4, <3>1 DEF SetStatus, PaymentStates, InvoiceStates
  <2>5. CASE status = "paid" /\ n \notin expired
    <3>1. ~AlreadyPaid(n) /\ Grant(n)
      BY <1>5, <2>5 DEF Settle
    <3>2. QED
      BY <1>4, <2>1, <2>2, <2>5, <3>1
  <2>6. QED
    BY <2>3, <2>4, <2>5
<1>6. QED
  BY <1>2, <1>5 DEF ApplyEvent

LEMMA DeliverKeeps ==
    ASSUME PayInv, NEW event \in sent, NEW late \in BOOLEAN, Deliver(event[1], event[2], late)
    PROVE  PayInv'
<1>1. event[1] \in Invoices /\ event[2] \in Words /\ Heard(event[1], event[2])
  BY DEF PayInv, PayTypeOK
<1>2. ApplyEvent("webhook", event[1], event[2], late)
  BY DEF Deliver
<1>3. /\ \E row \in PayRows : rows' = [rows EXCEPT ![event[1]] = row]
      /\ RowMove(event[1])
      /\ account' \in PayAccounts
      /\ account'.reserved >= 0 /\ account'.reserved <= account'.balance
  BY <1>1, <1>2, Settled
<1>4. /\ TaskMove /\ tasks' \in [Tasks -> PayTasks]
      /\ \A u \in Tasks : tasks'[u].step # "idle" => tasks'[u].n \in Invoices
  BY DEF Deliver, TaskMove, PayInv, PayTypeOK
<1>5. QED
  BY <1>1, <1>3, <1>4, OneRow DEF Deliver

-----------------------------------------------------------------------------
(* Requests *)

LEMMA BeginKeeps ==
    ASSUME PayInv, NEW t \in Tasks, NEW n \in Invoices, NEW op \in {"create", "look", "cancel"},
           Begin(t, op, n)
    PROVE  PayInv'
<1> DEFINE due == {m \in expired : rows[m].invoice = "OPEN"}
           task == [IdleTask EXCEPT !.op = op, !.n = n, !.step = "expire", !.due = due]
<1>1. due \subseteq Invoices /\ \A m \in due : m \in expired /\ rows[m].invoice # "NONE"
  BY DEF PayInv, PayTypeOK
<1> HIDE DEF due
<1>2. task \in PayTasks /\ task.step = "expire" /\ task.n = n /\ task.due = due
  BY <1>1 DEF IdleTask, PayTasks, Steps, Words, Merchants
<1>3. tasks' = [tasks EXCEPT ![t] = task]
  BY DEF Begin, due
<1> HIDE DEF task
<1>4. QED
  BY <1>1, <1>2, <1>3, OnlyTask DEF Begin

LEMMA BeginSyncKeeps ==
    ASSUME PayInv, NEW t \in Tasks, NEW n \in Invoices, BeginSync(t, n)
    PROVE  PayInv'
<1> DEFINE task == [IdleTask EXCEPT !.op = "sync", !.n = n, !.step = "query"]
<1>1. task \in PayTasks /\ task.step = "query" /\ task.n = n /\ task.due = {}
  BY DEF IdleTask, PayTasks, Steps, Words, Merchants
<1>2. tasks' = [tasks EXCEPT ![t] = task]
  BY DEF BeginSync
<1> HIDE DEF task
<1>3. QED
  BY <1>1, <1>2, OnlyTask DEF BeginSync

LEMMA BeginRefundKeeps ==
    ASSUME PayInv, NEW t \in Tasks, NEW n \in Invoices, BeginRefund(t, n)
    PROVE  PayInv'
<1> DEFINE task == [IdleTask EXCEPT !.op = "refund", !.n = n, !.step = "refund",
                                    !.merchant = Active]
<1>1. /\ task \in PayTasks /\ task.step = "refund" /\ task.n = n /\ task.due = {}
  BY ActiveIsMerchant DEF IdleTask, PayTasks, Steps, Words
<1>2. tasks' = [tasks EXCEPT ![t] = task]
  BY DEF BeginRefund
<1>3. rows[n].grants >= 1
  BY DEF BeginRefund, PayInv, RowInv
<1> HIDE DEF task
<1>4. QED
  BY <1>1, <1>2, <1>3, OnlyTask DEF BeginRefund

LEMMA ExpireKeeps ==
    ASSUME PayInv, NEW t \in Tasks, ExpireOpenInvoices(t)
    PROVE  PayInv'
<1>1. /\ rows \in [Invoices -> PayRows] /\ TaskInv(t) /\ tasks[t].due \subseteq Invoices
  BY DEF PayInv, PayTypeOK, PayTasks
<1>2. \A n \in Invoices : RowMove(n) /\ rows'[n] \in PayRows
  <2> SUFFICES ASSUME NEW n \in Invoices PROVE RowMove(n) /\ rows'[n] \in PayRows
    OBVIOUS
  <2>1. CASE n \notin tasks[t].due
    BY <1>1, <2>1 DEF ExpireOpenInvoices, RowMove
  <2>2. CASE n \in tasks[t].due
    <3>1. rows[n] \in PayRows /\ n \in expired /\ rows[n].invoice # "NONE"
      BY <1>1, <2>2 DEF TaskInv
    <3> DEFINE payment == IF rows[n].payment = "PENDING" THEN "EXPIRED" ELSE rows[n].payment
    <3>2. rows'[n] = [rows[n] EXCEPT !.invoice = "OVERDUE", !.payment = payment]
      BY <1>1, <2>2 DEF ExpireOpenInvoices
    <3>3. payment \in PaymentStates /\ (payment = "PAID" => rows[n].payment = "PAID")
      BY <3>1 DEF PayRows, PaymentStates
    <3> HIDE DEF payment
    <3>4. rows'[n] \in PayRows
      BY <3>1, <3>2, <3>3 DEF PayRows, InvoiceStates
    <3>5. StatusSet(n)
      BY <3>1, <3>2, <3>3 DEF StatusSet, PayRows
    <3>6. QED
      BY <3>4, <3>5 DEF RowMove
  <2>3. QED
    BY <2>1, <2>2
<1>3. /\ TaskMove /\ tasks' \in [Tasks -> PayTasks]
      /\ \A u \in Tasks : tasks'[u].step # "idle" => tasks'[u].n \in Invoices
  <2>1. CASE Finish(t)
    BY <2>1, Ended
  <2>2. CASE GoOn(t, "begun")
    <3> DEFINE task == [tasks[t] EXCEPT !.step = "begun"]
    <3>1. task \in PayTasks /\ tasks' = [tasks EXCEPT ![t] = task]
      BY <2>2 DEF PayInv, PayTypeOK, PayTasks, GoOn, Steps
    <3>2. task.step = "begun" /\ task.n = tasks[t].n /\ task.due = tasks[t].due
      BY DEF PayInv, PayTypeOK, PayTasks
    <3>3. task.n \in Invoices
      BY <3>2 DEF PayInv, PayTypeOK, ExpireOpenInvoices, At
    <3> HIDE DEF task
    <3>4. tasks'[t] = task /\ \A u \in Tasks \ {t} : tasks'[u] = tasks[u]
      BY <3>1 DEF PayInv, PayTypeOK
    <3>5. \A m \in task.due : m \in expired' /\ rows'[m].invoice # "NONE"
      <4> SUFFICES ASSUME NEW m \in task.due PROVE m \in expired' /\ rows'[m].invoice # "NONE"
        OBVIOUS
      <4>1. m \in Invoices /\ m \in expired /\ rows[m] \in PayRows
        BY <1>1, <3>2 DEF TaskInv
      <4>2. rows'[m].invoice = "OVERDUE"
        BY <3>2, <4>1 DEF ExpireOpenInvoices, PayRows
      <4>3. QED
        BY <4>1, <4>2 DEF ExpireOpenInvoices
    <3>6. TaskInv(t)' /\ ~At(t, "record")'
      BY <3>2, <3>4, <3>5 DEF TaskInv, At
    <3>7. QED
      BY <3>1, <3>3, <3>4, <3>6 DEF TaskMove, PayInv, PayTypeOK
  <2>3. QED
    BY <2>1, <2>2 DEF ExpireOpenInvoices
<1>4. rows' \in [Invoices -> PayRows]
  BY <1>2 DEF ExpireOpenInvoices
<1>5. Move
  BY <1>2, <1>3 DEF ExpireOpenInvoices, Move, OrderMove
<1>6. PayTypeOK'
  BY <1>3, <1>4 DEF ExpireOpenInvoices, PayInv, PayTypeOK
<1>7. QED
  BY <1>5, <1>6, MoveKeeps DEF ExpireOpenInvoices, PayInv

LEMMA AnswersTyped ==
    ASSUME NEW answer \in LikelyAnswers
    PROVE  answer.amount \in BOOLEAN
<1>1. GoodAnswer.amount \in BOOLEAN /\ "amount" \in DOMAIN GoodAnswer
  BY DEF GoodAnswer
<1>2. CASE answer = GoodAnswer
  BY <1>1, <1>2
<1>3. CASE answer = [GoodAnswer EXCEPT !.image = FALSE, !.text = FALSE]
  BY <1>1, <1>3
<1>4. ASSUME NEW f \in DOMAIN GoodAnswer, answer = [GoodAnswer EXCEPT ![f] = ~@]
      PROVE  answer.amount \in BOOLEAN
  <2>1. CASE f = "amount"
    BY <1>1, <1>4, <2>1
  <2>2. CASE f # "amount"
    BY <1>1, <1>4, <2>2
  <2>3. QED
    BY <2>1, <2>2
<1>5. QED
  BY <1>2, <1>3, <1>4 DEF LikelyAnswers

(* A step of one request at the provider, which leaves the rows alone.     *)
LEMMA OrderAndTask ==
    ASSUME PayInv, NEW t \in Tasks, NEW n \in Invoices, NEW order \in Orders, NEW task \in PayTasks,
           UNCHANGED <<account, rows, expired>>,
           orders' = [orders EXCEPT ![n] = order], OrderMove(n),
           sent' = sent \/ Notify(n, order.raw),
           tasks' = [tasks EXCEPT ![t] = task],
           task.step # "idle" => task.n \in Invoices,
           \A m \in task.due : m \in expired /\ rows[m].invoice # "NONE",
           task.step \notin {"apply", "ask"},
           task.step = "record" => /\ Stands(task.n) = "none" /\ rows[task.n].invoice = "NONE"
                                   /\ Stands(task.n)' # "none",
           task.step = "void" => Unpaid(task.n)',
           task.step \in {"refund", "takeBack"} => rows[task.n].grants >= 1
    PROVE  PayInv'
<1>1. tasks'[t] = task /\ \A u \in Tasks \ {t} : tasks'[u] = tasks[u]
  BY DEF PayInv, PayTypeOK
<1>2. orders'[n] = order /\ \A m \in Invoices \ {n} : orders'[m] = orders[m]
  BY DEF PayInv, PayTypeOK
<1>3. TaskInv(t)'
  BY <1>1 DEF TaskInv, At
<1>4. Heard(n, order.raw)'
  BY <1>2, HeardNow DEF Stands
<1>5. \A event \in sent' : event \in sent \/ Heard(event[1], event[2])'
  BY <1>4 DEF Notify
<1>6. TaskMove
  BY <1>1, <1>3 DEF TaskMove, At
<1>7. Move
  BY <1>2, <1>5, <1>6 DEF Move, RowMove, OrderMove
<1>8. sent' \subseteq Invoices \X Words
  BY DEF Notify, PayInv, PayTypeOK, Orders
<1>9. PayTypeOK'
  BY <1>1, <1>8 DEF PayInv, PayTypeOK
<1>10. QED
  BY <1>7, <1>9, MoveKeeps DEF PayInv

LEMMA CreatePaymentKeeps ==
    ASSUME PayInv, NEW t \in Tasks, CreatePayment(t)
    PROVE  PayInv'
<1>0. PICK n \in Invoices : n = tasks[t].n
  BY DEF CreatePayment, PayInv, PayTypeOK, At
<1>1. /\ tasks[t] \in PayTasks /\ rows[n] \in PayRows
      /\ orders[n] = NoOrderYet /\ orders \in [Invoices -> Orders]
  BY <1>0 DEF CreatePayment, PayInv, PayTypeOK
<1>2. Stands(n) = "none" /\ rows[n].invoice = "NONE"
  BY <1>1 DEF PayInv, RowInv, Stands, NoOrderYet
<1>3. PICK answer \in LikelyAnswers :
        /\ IF answer.rejected THEN UNCHANGED <<orders, sent>>
           ELSE /\ orders' = [orders EXCEPT ![n] =
                      [raw |-> Opened(Active), merchant |-> Active, amount |-> answer.amount]]
                /\ Notify(n, Opened(Active))
        /\ IF Accepts(Active, answer) THEN GoOn(t, "record") ELSE Finish(t)
  BY <1>0 DEF CreatePayment
<1>4. CASE answer.rejected
  <2>1. ~Accepts(Active, answer)
    BY <1>4 DEF Accepts, XenditAccepts, MidtransAccepts
  <2>2. QED
    BY <1>3, <1>4, <2>1, EndedOnly DEF CreatePayment
<1>5. CASE ~answer.rejected
  <2>1. PICK order \in Orders :
             order = [raw |-> Opened(Active), merchant |-> Active, amount |-> answer.amount]
    BY WordsOfMerchants, ActiveIsMerchant, AnswersTyped DEF Orders
  <2>2. /\ orders' = [orders EXCEPT ![n] = order] /\ Notify(n, order.raw)
        /\ orders'[n] = order
    BY <1>1, <1>3, <1>5, <2>1
  <2>3. order.raw = Opened(order.merchant) /\ order.raw # "none"
    BY <2>1, WordsOfMerchants
  <2>4. OrderMove(n) /\ Stands(n)' # "none"
    <3>1. orders'[n].raw = Opened(orders'[n].merchant)
      BY <2>2, <2>3
    <3>2. QED
      BY <1>2, <2>2, <2>3, <3>1 DEF OrderMove, Stands
  <2>5. PICK task \in PayTasks :
             /\ tasks' = [tasks EXCEPT ![t] = task]
             /\ task = [tasks[t] EXCEPT !.step = "record"] \/ task = IdleTask
    <3>1. [tasks[t] EXCEPT !.step = "record"] \in PayTasks
      BY <1>1 DEF PayTasks, Steps
    <3>2. \/ tasks' = [tasks EXCEPT ![t] = [tasks[t] EXCEPT !.step = "record"]]
          \/ tasks' = [tasks EXCEPT ![t] = IdleTask]
      BY <1>3 DEF GoOn, Finish
    <3>3. QED
      BY <3>1, <3>2, IdleIsTask
  <2>6. /\ task.step \in {"record", "idle"}
        /\ task.step = "record" => task.n = n
        /\ task.due = tasks[t].due \/ task.due = {}
    BY <1>0, <1>1, <2>5 DEF PayTasks, IdleTask
  <2>7. \A m \in task.due : m \in expired /\ rows[m].invoice # "NONE"
    BY <2>6 DEF PayInv, TaskInv
  <2>8. UNCHANGED <<account, rows, expired>>
    BY DEF CreatePayment
  <2>9. /\ task.step = "record" => /\ Stands(task.n) = "none" /\ rows[task.n].invoice = "NONE"
                                   /\ Stands(task.n)' # "none"
        /\ task.step # "idle" => task.n \in Invoices
    BY <1>1, <1>2, <2>4, <2>6
  <2>10. QED
    BY <1>1, <2>1, <2>2, <2>4, <2>5, <2>6, <2>7, <2>8, <2>9, OrderAndTask
<1>6. QED
  BY <1>4, <1>5

LEMMA RecordInvoiceKeeps ==
    ASSUME PayInv, NEW t \in Tasks, RecordInvoice(t)
    PROVE  PayInv'
<1> DEFINE n == tasks[t].n
           row == [rows[n] EXCEPT !.invoice = "OPEN", !.payment = "PENDING"]
<1>1. /\ n \in Invoices /\ rows[n] \in PayRows /\ rows \in [Invoices -> PayRows]
      /\ Stands(n) # "none" /\ rows[n].invoice = "NONE"
  BY DEF RecordInvoice, PayInv, PayTypeOK, TaskInv, At
<1>2. row \in PayRows /\ rows' = [rows EXCEPT ![n] = row] /\ rows'[n] = row
  BY <1>1 DEF RecordInvoice, PayRows, InvoiceStates, PaymentStates
<1>3. tasks'[t].step = "idle" /\ \A u \in Tasks \ {t} : tasks'[u] = tasks[u]
  BY Ended DEF RecordInvoice
<1>4. \A u \in Tasks : At(u, "record")' => tasks'[u].n # n
  BY <1>3 DEF RecordInvoice, PayInv, OneRecords, At
<1>5. RowMove(n)
  BY <1>1, <1>2, <1>4 DEF RowMove, Recorded
<1>6. /\ TaskMove /\ tasks' \in [Tasks -> PayTasks]
      /\ \A u \in Tasks : tasks'[u].step # "idle" => tasks'[u].n \in Invoices
  BY Ended DEF RecordInvoice
<1> HIDE DEF row
<1>7. QED
  BY <1>1, <1>2, <1>5, <1>6, OneRow DEF RecordInvoice, PayInv, PayTypeOK

LEMMA GetTransactionStatusKeeps ==
    ASSUME PayInv, NEW t \in Tasks, GetTransactionStatus(t)
    PROVE  PayInv'
<1> DEFINE n == tasks[t].n
           raw == IF Knows(orders[n].merchant) THEN Stands(n) ELSE "unopened"
           task == [tasks[t] EXCEPT !.raw = raw, !.step = "apply"]
<1>1. /\ n \in Invoices /\ tasks[t] \in PayTasks /\ orders[n] \in Orders
  BY DEF GetTransactionStatus, PayInv, PayTypeOK, At
<1>2. raw \in Words
  BY <1>1 DEF Orders, Stands, Words
<1>3. Heard(n, raw)
  BY HeardNow, WordsOfMerchants DEF Heard, PaidWords, LapsedWords
<1> HIDE DEF raw
<1>4. /\ task \in PayTasks /\ task.step = "apply" /\ task.n = n /\ task.due = tasks[t].due
      /\ task.raw = raw
  BY <1>1, <1>2 DEF PayTasks, Steps
<1>5. tasks' = [tasks EXCEPT ![t] = task]
  BY DEF GetTransactionStatus, raw
<1>6. \A m \in task.due : m \in expired /\ rows[m].invoice # "NONE"
  BY <1>4 DEF PayInv, TaskInv
<1> HIDE DEF task
<1>7. QED
  BY <1>1, <1>3, <1>4, <1>5, <1>6, OnlyTask DEF GetTransactionStatus

LEMMA ApplyStatusKeeps ==
    ASSUME PayInv, NEW t \in Tasks, ApplyStatus(t)
    PROVE  PayInv'
<1> DEFINE n == tasks[t].n
<1>1. n \in Invoices /\ tasks[t] \in PayTasks /\ tasks[t].raw \in Words /\ Heard(n, tasks[t].raw)
  BY DEF ApplyStatus, PayInv, PayTypeOK, PayTasks, TaskInv, At
<1>2. /\ \E row \in PayRows : rows' = [rows EXCEPT ![n] = row]
      /\ RowMove(n)
      /\ account' \in PayAccounts
      /\ account'.reserved >= 0 /\ account'.reserved <= account'.balance
  BY <1>1, Settled DEF ApplyStatus
<1>3. /\ TaskMove /\ tasks' \in [Tasks -> PayTasks]
      /\ \A u \in Tasks : tasks'[u].step # "idle" => tasks'[u].n \in Invoices
  <2>1. CASE Finish(t)
    BY <2>1, Ended
  <2>2. CASE GoOn(t, "recheck")
    <3> DEFINE task == [tasks[t] EXCEPT !.step = "recheck"]
    <3>1. task \in PayTasks /\ tasks' = [tasks EXCEPT ![t] = task]
      BY <1>1, <2>2 DEF PayTasks, GoOn, Steps
    <3>2. task.step = "recheck" /\ task.n = n /\ task.due = tasks[t].due
      BY <1>1 DEF PayTasks
    <3> HIDE DEF task
    <3>3. tasks'[t] = task /\ \A u \in Tasks \ {t} : tasks'[u] = tasks[u]
      BY <3>1 DEF PayInv, PayTypeOK
    <3>4. \A m \in task.due : m \in expired' /\ rows'[m].invoice # "NONE"
      <4> SUFFICES ASSUME NEW m \in task.due PROVE m \in expired' /\ rows'[m].invoice # "NONE"
        OBVIOUS
      <4>1. m \in expired /\ rows[m].invoice # "NONE" /\ m \in Invoices
        BY <3>2 DEF PayInv, PayTypeOK, TaskInv
      <4>2. rows[m] \in PayRows /\ (m = n \/ rows'[m] = rows[m])
        BY <1>2, <4>1 DEF PayInv, PayTypeOK
      <4>3. rows'[m].invoice # "NONE"
        BY <1>2, <4>1, <4>2 DEF RowMove, Recorded, StatusSet, Granted, TakenBack, PayRows
      <4>4. QED
        BY <4>1, <4>3 DEF ApplyStatus
    <3>5. TaskInv(t)' /\ ~At(t, "record")'
      BY <3>2, <3>3, <3>4 DEF TaskInv, At
    <3>6. QED
      BY <1>1, <3>1, <3>2, <3>3, <3>5 DEF TaskMove, PayInv, PayTypeOK
  <2>3. QED
    BY <2>1, <2>2 DEF ApplyStatus
<1>4. QED
  BY <1>1, <1>2, <1>3, OneRow DEF ApplyStatus

(* A request may give up wherever it is, and look or check and go on.      *)
LEMMA SyncThrowsKeeps ==
    ASSUME PayInv, NEW t \in Tasks, SyncThrows(t)
    PROVE  PayInv'
  BY StepsOn DEF SyncThrows, At, Steps

LEMMA CheckBeforeCancelKeeps ==
    ASSUME PayInv, NEW t \in Tasks, CheckBeforeCancel(t)
    PROVE  PayInv'
<1>1. CASE Finish(t)
  BY <1>1, EndedOnly DEF CheckBeforeCancel
<1>2. CASE tasks' = [tasks EXCEPT ![t].merchant = Active, ![t].step = "query"]
  <2> DEFINE task == [tasks[t] EXCEPT !.merchant = Active, !.step = "query"]
  <2>1. tasks[t] \in PayTasks /\ tasks[t].n \in Invoices
    BY DEF CheckBeforeCancel, PayInv, PayTypeOK, At
  <2>2. task \in PayTasks /\ task.step = "query" /\ task.n = tasks[t].n /\ task.due = tasks[t].due
    BY <2>1, ActiveIsMerchant DEF PayTasks, Steps
  <2>3. tasks' = [tasks EXCEPT ![t] = task]
    BY <1>2
  <2>4. \A m \in task.due : m \in expired /\ rows[m].invoice # "NONE"
    BY <2>2 DEF PayInv, TaskInv
  <2> HIDE DEF task
  <2>5. QED
    BY <2>1, <2>2, <2>3, <2>4, OnlyTask DEF CheckBeforeCancel
<1>3. QED
  BY <1>1, <1>2 DEF CheckBeforeCancel

LEMMA CheckAfterSyncKeeps ==
    ASSUME PayInv, NEW t \in Tasks, CheckAfterSync(t)
    PROVE  PayInv'
<1>1. CASE Finish(t)
  BY <1>1, EndedOnly DEF CheckAfterSync
<1>2. CASE StillOpen(tasks[t].n) /\ GoOn(t, "ask")
  BY <1>2, StepsOn DEF CheckAfterSync, StillOpen, At, Steps
<1>3. QED
  BY <1>1, <1>2 DEF CheckAfterSync

LEMMA CancelPaymentKeeps ==
    ASSUME PayInv, NEW t \in Tasks, CancelPayment(t)
    PROVE  PayInv'
<1>1. PICK n \in Invoices : n = tasks[t].n
  BY DEF CancelPayment, PayInv, PayTypeOK, At
<1>2. /\ tasks[t] \in PayTasks /\ orders[n] \in Orders /\ orders \in [Invoices -> Orders]
      /\ Stands(n) # "none"
  BY <1>1 DEF CancelPayment, PayInv, PayTypeOK, TaskInv, RowInv
<1>3. CASE ~StillOpened(n)
  <2>1. UNCHANGED <<orders, sent>> /\ Unpaid(n)
    BY <1>1, <1>2, <1>3 DEF CancelPayment, Unpaid
  <2>2. QED
    BY <1>1, <2>1, StepsOn DEF CancelPayment, At, Steps
<1>4. CASE StillOpened(n)
  <2>1. orders' = [orders EXCEPT ![n].raw = "CANCELED"] /\ Notify(n, "CANCELED")
    BY <1>1, <1>4 DEF CancelPayment
  <2>2. PICK order \in Orders : order = [orders[n] EXCEPT !.raw = "CANCELED"]
    BY <1>2 DEF Orders, Words
  <2>3. /\ orders' = [orders EXCEPT ![n] = order] /\ orders'[n] = order
        /\ order.raw = "CANCELED" /\ order.merchant = orders[n].merchant
    BY <1>2, <2>1, <2>2 DEF Orders
  <2>4. OrderMove(n)
    BY <1>4, <2>3 DEF OrderMove
  <2>5. Unpaid(n)'
    BY <2>3, WordsOfMerchants DEF Unpaid, Stands, StillOpened, WasPaid, PaidWords
  <2>6. PICK task \in PayTasks : task = [tasks[t] EXCEPT !.step = "void"]
    BY <1>2 DEF PayTasks, Steps
  <2>7. task.step = "void" /\ task.n = n /\ task.due = tasks[t].due
    BY <1>1, <1>2, <2>6 DEF PayTasks
  <2>8. tasks' = [tasks EXCEPT ![t] = task]
    BY <2>6 DEF CancelPayment, GoOn
  <2>9. \A m \in task.due : m \in expired /\ rows[m].invoice # "NONE"
    BY <2>7 DEF PayInv, TaskInv
  <2>10. UNCHANGED <<account, rows, expired>> /\ Notify(n, order.raw)
    BY <2>1, <2>3 DEF CancelPayment
  <2>11. QED
    BY <2>3, <2>4, <2>5, <2>7, <2>8, <2>9, <2>10, OrderAndTask
<1>5. QED
  BY <1>3, <1>4

LEMMA CancelRefusedKeeps ==
    ASSUME PayInv, NEW t \in Tasks, CancelRefused(t)
    PROVE  PayInv'
<1> DEFINE task == [tasks[t] EXCEPT !.op = "sync", !.step = "query"]
<1>1. tasks[t] \in PayTasks /\ tasks[t].n \in Invoices
  BY DEF CancelRefused, PayInv, PayTypeOK, At
<1>2. task \in PayTasks /\ task.step = "query" /\ task.n = tasks[t].n /\ task.due = tasks[t].due
  BY <1>1 DEF PayTasks, Steps
<1>3. tasks' = [tasks EXCEPT ![t] = task]
  BY DEF CancelRefused
<1>4. \A m \in task.due : m \in expired /\ rows[m].invoice # "NONE"
  BY <1>2 DEF PayInv, TaskInv
<1> HIDE DEF task
<1>5. QED
  BY <1>1, <1>2, <1>3, <1>4, OnlyTask DEF CancelRefused

LEMMA VoidInvoiceKeeps ==
    ASSUME PayInv, NEW t \in Tasks, VoidInvoice(t)
    PROVE  PayInv'
<1> DEFINE n == tasks[t].n
           row == [rows[n] EXCEPT !.payment = "FAILED", !.invoice = "VOID"]
<1>1. /\ n \in Invoices /\ rows[n] \in PayRows /\ rows \in [Invoices -> PayRows] /\ Unpaid(n)
  BY DEF VoidInvoice, PayInv, PayTypeOK, TaskInv, At
<1>2. CASE StillOpen(n)
  <2>1. row \in PayRows /\ rows' = [rows EXCEPT ![n] = row] /\ rows'[n] = row
    BY <1>1, <1>2 DEF VoidInvoice, SetStatus, PayRows, InvoiceStates, PaymentStates
  <2>2. StatusSet(n)
    BY <1>1, <1>2, <2>1 DEF StatusSet, StillOpen, PayRows
  <2>3. UNCHANGED <<account, orders, sent, expired>>
    BY <1>2 DEF VoidInvoice, SetStatus
  <2>4. /\ TaskMove /\ tasks' \in [Tasks -> PayTasks]
        /\ \A u \in Tasks : tasks'[u].step # "idle" => tasks'[u].n \in Invoices
    BY Ended DEF VoidInvoice
  <2> HIDE DEF row
  <2>5. QED
    BY <1>1, <2>1, <2>2, <2>3, <2>4, OneRow DEF RowMove, PayInv, PayTypeOK
<1>3. CASE ~StillOpen(n)
  BY <1>3, EndedOnly DEF VoidInvoice
<1>4. QED
  BY <1>2, <1>3

LEMMA ProviderRefundKeeps ==
    ASSUME PayInv, NEW t \in Tasks, ProviderRefund(t)
    PROVE  PayInv'
<1>1. PICK n \in Invoices : n = tasks[t].n
  BY DEF ProviderRefund, PayInv, PayTypeOK, At
<1>2. /\ tasks[t] \in PayTasks /\ orders[n] \in Orders /\ orders \in [Invoices -> Orders]
      /\ rows[n].grants >= 1
  BY <1>1 DEF ProviderRefund, PayInv, PayTypeOK, TaskInv
<1>3. PICK order \in Orders : order = [orders[n] EXCEPT !.raw = "refund"]
  BY <1>2 DEF Orders, Words
<1>4. /\ orders' = [orders EXCEPT ![n] = order] /\ orders'[n] = order
      /\ order.raw = "refund" /\ order.merchant = orders[n].merchant
  BY <1>1, <1>2, <1>3 DEF ProviderRefund, Orders
<1>5. OrderMove(n)
  BY <1>1, <1>4 DEF ProviderRefund, OrderMove
<1>6. PICK task \in PayTasks : task = [tasks[t] EXCEPT !.step = "takeBack"]
  BY <1>2 DEF PayTasks, Steps
<1>7. task.step = "takeBack" /\ task.n = n /\ task.due = tasks[t].due
  BY <1>1, <1>2, <1>6 DEF PayTasks
<1>8. tasks' = [tasks EXCEPT ![t] = task]
  BY <1>6 DEF ProviderRefund, GoOn
<1>9. \A m \in task.due : m \in expired /\ rows[m].invoice # "NONE"
  BY <1>7 DEF PayInv, TaskInv
<1>10. UNCHANGED <<account, rows, expired>> /\ Notify(n, order.raw)
  BY <1>1, <1>4 DEF ProviderRefund
<1>11. QED
  BY <1>2, <1>4, <1>5, <1>7, <1>8, <1>9, <1>10, OrderAndTask

LEMMA TakeBackKeeps ==
    ASSUME PayInv, NEW t \in Tasks, TakeBack(t)
    PROVE  PayInv'
<1> DEFINE n == tasks[t].n
<1>1. /\ n \in Invoices /\ rows[n] \in PayRows /\ rows \in [Invoices -> PayRows]
      /\ rows[n].grants >= 1 /\ account \in PayAccounts
      /\ account.reserved >= 0 /\ account.reserved <= account.balance
  BY DEF TakeBack, PayInv, PayTypeOK, TaskInv, At
<1>2. CASE UNCHANGED <<account, rows>>
  BY <1>2, EndedOnly DEF TakeBack
<1>3. CASE ~UNCHANGED <<account, rows>>
  <2>1. /\ CreditUnused /\ rows[n].refunds = 0
        /\ account' = [account EXCEPT !.balance = @ - Credit, !.granted = @ - Credit]
        /\ rows' = [rows EXCEPT ![n].payment = "REFUNDED", ![n].invoice = "REFUNDED",
                                ![n].refunds = @ + 1]
    BY <1>3 DEF TakeBack, RefundKeyFree
  <2> DEFINE refunds == rows[n].refunds + 1
             row == [rows[n] EXCEPT !.payment = "REFUNDED", !.invoice = "REFUNDED",
                                    !.refunds = refunds]
  <2>2. rows' = [rows EXCEPT ![n] = row] /\ rows'[n] = row
    BY <1>1, <2>1
  <2>3. row \in PayRows
    <3>1. refunds \in Nat
      BY <2>1
    <3> HIDE DEF refunds
    <3>2. QED
      BY <1>1, <3>1 DEF PayRows, PaymentStates, InvoiceStates
  <2>4. TakenBack(n)
    BY <1>1, <2>1, <2>2 DEF TakenBack
  <2>5. /\ account' \in PayAccounts
        /\ account'.reserved >= 0 /\ account'.reserved <= account'.balance
    <3> DEFINE b == account.balance - Credit
    <3>1. account' = [balance |-> b, reserved |-> account.reserved,
                      granted |-> account.granted - Credit]
      BY <1>1, <2>1 DEF PayAccounts
    <3>2. account.balance \in Int /\ account.reserved \in Int /\ account.granted \in Int
      BY <1>1 DEF PayAccounts
    <3>3. b \in Int /\ account.granted - Credit \in Int /\ account.reserved <= b
      BY <2>1, <3>2, PaymentsAssumption DEF CreditUnused
    <3> HIDE DEF b
    <3>4. QED
      BY <1>1, <3>1, <3>2, <3>3 DEF PayAccounts
  <2>6. /\ TaskMove /\ tasks' \in [Tasks -> PayTasks]
        /\ \A u \in Tasks : tasks'[u].step # "idle" => tasks'[u].n \in Invoices
        /\ UNCHANGED <<orders, sent, expired>>
    BY Ended DEF TakeBack
  <2> HIDE DEF row
  <2>7. QED
    BY <1>1, <2>2, <2>3, <2>4, <2>5, <2>6, OneRow DEF RowMove
<1>4. QED
  BY <1>2, <1>3

-----------------------------------------------------------------------------
(* Credit that is held and used by jobs and chats *)

LEMMA HoldsKeep ==
    ASSUME PayInv, HoldCredit \/ \E charge \in {0, 1} : UseCredit(charge)
    PROVE  PayInv'
<1>1. UNCHANGED <<rows, orders, sent, expired, tasks>>
  BY DEF HoldCredit, UseCredit
<1>2. /\ account \in PayAccounts /\ account.balance \in Int /\ account.reserved \in Int
      /\ account.reserved >= 0 /\ account.reserved <= account.balance
  BY DEF PayInv, PayTypeOK, PayAccounts
<1>3. /\ account' \in PayAccounts
      /\ account'.reserved >= 0 /\ account'.reserved <= account'.balance
  <2>1. CASE HoldCredit
    <3>1. account' = [balance |-> account.balance, reserved |-> account.reserved + 1,
                      granted |-> account.granted]
      BY <1>2, <2>1 DEF HoldCredit, PayAccounts
    <3>2. account.reserved + 1 \in Int /\ account.reserved + 1 <= account.balance
      BY <1>2, <2>1 DEF HoldCredit
    <3>3. QED
      BY <1>2, <3>1, <3>2 DEF PayAccounts
  <2>2. ASSUME NEW charge \in {0, 1}, UseCredit(charge)
        PROVE  /\ account' \in PayAccounts
               /\ account'.reserved >= 0 /\ account'.reserved <= account'.balance
    <3> DEFINE b == account.balance - charge
    <3>1. account' = [balance |-> b, reserved |-> account.reserved - 1,
                      granted |-> account.granted]
      BY <1>2, <2>2 DEF UseCredit, PayAccounts
    <3>2. b \in Int /\ account.reserved - 1 <= b /\ account.reserved - 1 >= 0
      BY <1>2, <2>2 DEF UseCredit
    <3> HIDE DEF b
    <3>3. QED
      BY <1>2, <3>1, <3>2 DEF PayAccounts
  <2>3. QED
    BY <2>1, <2>2
<1>4. Move
  BY <1>1 DEF Move, RowMove, OrderMove, TaskMove
<1>5. PayTypeOK'
  BY <1>1, <1>3 DEF PayInv, PayTypeOK
<1>6. QED
  BY <1>3, <1>4, <1>5, MoveKeeps

LEMMA NothingMoves ==
    ASSUME PayInv, UNCHANGED <<account, rows, orders, sent, expired, tasks>>
    PROVE  PayInv'
<1>1. Move
  BY DEF Move, RowMove, OrderMove, TaskMove
<1>2. PayTypeOK'
  BY DEF PayInv, PayTypeOK
<1>3. QED
  BY <1>1, <1>2, MoveKeeps DEF PayInv

-----------------------------------------------------------------------------
(* The invariant *)

LEMMA InitPayInv == InitPay => PayInv
<1> SUFFICES ASSUME InitPay PROVE PayInv
  OBVIOUS
<1>1. NoRow \in PayRows /\ NoOrderYet \in Orders
  BY DEF NoRow, PayRows, InvoiceStates, PaymentStates, NoOrderYet, Orders, Words, Merchants
<1>2. PayTypeOK
  BY <1>1, IdleIsTask DEF InitPay, PayTypeOK, PayAccounts, IdleTask
<1>3. \A n \in Invoices : RowInv(n)
  BY DEF InitPay, RowInv, NoRow
<1>4. \A t \in Tasks : TaskInv(t)
  BY DEF InitPay, TaskInv, At, IdleTask
<1>5. OneRecords
  BY DEF InitPay, OneRecords, At, IdleTask
<1>6. QED
  BY <1>2, <1>3, <1>4, <1>5 DEF InitPay, PayInv

LEMMA TaskStepKeeps ==
    ASSUME PayInv, NEW t \in Tasks, TaskStep(t)
    PROVE  PayInv'
<1>1. ASSUME NEW n \in Invoices, NEW op \in {"create", "look", "cancel"}, Begin(t, op, n)
      PROVE  PayInv'
  BY <1>1, BeginKeeps
<1>2. ASSUME NEW n \in Invoices, BeginSync(t, n) PROVE PayInv'
  BY <1>2, BeginSyncKeeps
<1>3. ASSUME NEW n \in Invoices, BeginRefund(t, n) PROVE PayInv'
  BY <1>3, BeginRefundKeeps
<1>4. CASE ExpireOpenInvoices(t)
  BY <1>4, ExpireKeeps
<1>5. CASE ReuseInvoice(t) \/ Dies(t)
  BY <1>5, EndedOnly DEF ReuseInvoice, Dies
<1>6. CASE CreatePayment(t)
  BY <1>6, CreatePaymentKeeps
<1>7. CASE RecordInvoice(t)
  BY <1>7, RecordInvoiceKeeps
<1>8. CASE GetTransactionStatus(t)
  BY <1>8, GetTransactionStatusKeeps
<1>9. CASE ApplyStatus(t)
  BY <1>9, ApplyStatusKeeps
<1>10. CASE SyncThrows(t)
  BY <1>10, SyncThrowsKeeps
<1>11. CASE CheckBeforeCancel(t)
  BY <1>11, CheckBeforeCancelKeeps
<1>12. CASE CheckAfterSync(t)
  BY <1>12, CheckAfterSyncKeeps
<1>13. CASE CancelPayment(t)
  BY <1>13, CancelPaymentKeeps
<1>14. CASE CancelRefused(t)
  BY <1>14, CancelRefusedKeeps
<1>15. CASE VoidInvoice(t)
  BY <1>15, VoidInvoiceKeeps
<1>16. CASE ProviderRefund(t)
  BY <1>16, ProviderRefundKeeps
<1>17. CASE TakeBack(t)
  BY <1>17, TakeBackKeeps
<1>18. QED
  BY <1>1, <1>2, <1>3, <1>4, <1>5, <1>6, <1>7, <1>8, <1>9, <1>10, <1>11, <1>12, <1>13, <1>14,
     <1>15, <1>16, <1>17
     DEF TaskStep

LEMMA NextPayInv ==
    ASSUME PayInv, [NextPay]_payVars
    PROVE  PayInv'
<1>1. CASE UNCHANGED payVars
  BY <1>1, NothingMoves DEF payVars
<1>2. CASE Reconfigure
  BY <1>2, NothingMoves DEF Reconfigure
<1>3. ASSUME NEW t \in Tasks, TaskStep(t) PROVE PayInv'
  BY <1>3, TaskStepKeeps
<1>4. ASSUME NEW n \in Invoices, TimePasses(n) \/ OrderEnds(n) PROVE PayInv'
  BY <1>4, TimePassesKeeps, OrderEndsKeeps
<1>5. ASSUME NEW event \in sent, NEW late \in BOOLEAN, Deliver(event[1], event[2], late)
      PROVE  PayInv'
  BY <1>5, DeliverKeeps
<1>6. CASE HoldCredit \/ \E charge \in {0, 1} : UseCredit(charge)
  BY <1>6, HoldsKeep
<1>7. QED
  BY <1>1, <1>2, <1>3, <1>4, <1>5, <1>6 DEF NextPay, PayStep

LEMMA AlwaysPayInv == SpecPay => []PayInv
  BY InitPayInv, NextPayInv, PTL DEF SpecPay

-----------------------------------------------------------------------------
(* The rows of the database, the requests and the orders at the provider   *)
(* hold only what the code writes there.                                   *)
THEOREM PaymentTypes == SpecPay => []PayTypeOK
<1>1. PayInv => PayTypeOK
  BY DEF PayInv
<1>2. QED
  BY <1>1, AlwaysPayInv, PTL

(* Whatever webhooks, polls, cancellations and refunds run at a time, the  *)
(* credit of an invoice is with the member at most once, and is taken back *)
(* at most once (Grant and TakeBack, in applyWebhook and refund).          *)
THEOREM CreditIsGrantedOnceAtATime == SpecPay => []CreditedOnceAtATime
<1>1. PayInv => CreditedOnceAtATime
  BY DEF PayInv, RowInv, CreditedOnceAtATime
<1>2. QED
  BY <1>1, AlwaysPayInv, PTL

(* No stale status, repeated webhook or forgotten order makes applyWebhook *)
(* grant credit for an order that was never paid.                          *)
THEOREM CreditIsForPaidOrders == SpecPay => []GrantedWasPaid
<1>1. PayInv => GrantedWasPaid
  <2> SUFFICES ASSUME PayInv, NEW n \in Invoices, rows[n].grants > 0
               PROVE  WasPaid(n) \/ Stands(n) = "refund"
    BY DEF GrantedWasPaid
  <2>1. rows[n] \in PayRows /\ RowInv(n)
    BY DEF PayInv, PayTypeOK
  <2>2. rows[n].grants >= 1
    BY <2>1 DEF PayRows
  <2>3. QED
    BY <2>1, <2>2 DEF RowInv, PaidOnce
<1>2. QED
  BY <1>1, AlwaysPayInv, PTL

(* cancelInvoice never voids an invoice whose order stands as paid.        *)
THEOREM PaidOrdersAreNotVoided == SpecPay => []VoidedWasNotPaid
<1>1. PayInv => VoidedWasNotPaid
  BY DEF PayInv, RowInv, Unpaid, VoidedWasNotPaid
<1>2. QED
  BY <1>1, AlwaysPayInv, PTL

(* Neither a refund nor the use of a job or chat takes the balance below   *)
(* what is reserved of it.                                                 *)
THEOREM ReservedCreditIsSpared == SpecPay => []RefundSparesReserved
<1>1. PayInv => RefundSparesReserved
  BY DEF PayInv, RefundSparesReserved
<1>2. QED
  BY <1>1, AlwaysPayInv, PTL
=============================================================================
