-------------------------- MODULE SettlementProofs --------------------------
(***************************************************************************)
(* Settlement is correct for any number of users, purchases, invoices and  *)
(* handlers.                                                               *)
(***************************************************************************)
EXTENDS Settlement, TLAPS

(* How a handler's own record changes. *)
LEMMA IdleIsJob == Idle \in Job
  BY DEF Idle, Job, JobPcs

LEMMA NextIsJob == [Idle EXCEPT !.pc = "next"] \in Job
  BY DEF Idle, Job, JobPcs

LEMMA GotoTypes ==
  ASSUME TypeOK, NEW a \in Actors, NEW pc \in JobPcs, Goto(a, pc)
  PROVE  job' \in [Actors -> Job]
  BY DEF TypeOK, Goto, Job

LEMMA RaiseTypes ==
  ASSUME TypeOK, NEW a \in Actors, Raise(a)
  PROVE  job' \in [Actors -> Job] /\ todo' \subseteq Polled
  BY IdleIsJob DEF TypeOK, Raise

LEMMA FinishTypes ==
  ASSUME TypeOK, NEW a \in Actors, Finish(a)
  PROVE  job' \in [Actors -> Job] /\ todo' \subseteq Polled
  BY IdleIsJob, NextIsJob DEF TypeOK, Finish

LEMMA TakePurchaseTypes ==
  ASSUME TypeOK, NEW a \in Actors, NEW pc \in JobPcs, NEW p \in Purchases,
         job' = [job EXCEPT ![a].pc = pc, ![a].purchase = p]
  PROVE  job' \in [Actors -> Job]
<1>1. [job EXCEPT ![a].pc = pc] \in [Actors -> Job]  BY DEF TypeOK, Job
<1>2. QED  BY <1>1 DEF Job

LEMMA TakeInvoiceTypes ==
  ASSUME TypeOK, NEW a \in Actors, NEW pc \in JobPcs, NEW i \in Invoices,
         job' = [job EXCEPT ![a].pc = pc, ![a].invoice = i]
  PROVE  job' \in [Actors -> Job]
<1>1. [job EXCEPT ![a].pc = pc] \in [Actors -> Job]  BY DEF TypeOK, Job
<1>2. QED  BY <1>1 DEF Job

LEMMA RecordInvoiceTypes ==
  ASSUME TypeOK, NEW p, NEW i \in Invoices \cup {None}, NEW st \in Statuses,
         purchases' = [purchases EXCEPT ![p].status = st, ![p].ext = i]
  PROVE  purchases' \in [Purchases -> Row]
<1>1. [purchases EXCEPT ![p].status = st] \in [Purchases -> Row]  BY DEF TypeOK, Row
<1>2. QED  BY <1>1 DEF Row

LEMMA ShownTypes ==
  ASSUME TypeOK, NEW i
  PROVE  Shown(i) \in [Invoices -> Invoice]
<1>1. CASE i \in Invoices
  <2>1. PICK st \in {"absent", "issued", "shown", "paid", "expired"} :
            Shown(i) = [invoices EXCEPT ![i].status = st]
    BY <1>1 DEF TypeOK, Shown, Invoice
  <2>2. QED  BY <1>1, <2>1 DEF TypeOK, Invoice
<1>2. CASE i \notin Invoices  BY <1>2 DEF TypeOK, Shown
<1>3. QED  BY <1>1, <1>2

(* Every step keeps the shape of every variable. *)
LEMMA TypeStep == TypeOK /\ [Next]_vars => TypeOK'
<1> SUFFICES ASSUME TypeOK, [Next]_vars PROVE TypeOK'
  OBVIOUS
<1> USE GotoTypes, RaiseTypes, FinishTypes DEF database, outside
<1>a. Taps \subseteq Actors /\ Hooks \subseteq Actors /\ Reconciler \in Actors
      /\ Settlers \subseteq Actors
  BY DEF Actors, Settlers
<1>1. ASSUME NEW t \in Taps, Checkout(t) PROVE TypeOK'
  <2>1. CASE Tap(t)  BY <1>a, <2>1 DEF Tap, TypeOK, JobPcs
  <2>2. CASE FindOpen(t)
    <3>1. job' \in [Actors -> Job]
      <4>1. CASE Goto(t, "add")  BY <1>a, <4>1 DEF JobPcs
      <4>2. ASSUME NEW p \in Purchases,
                   job' = [job EXCEPT ![t].pc = "invoice", ![t].purchase = p]
            PROVE  job' \in [Actors -> Job]
        BY <1>a, <4>2, TakePurchaseTypes DEF JobPcs
      <4>3. QED  BY <2>2, <4>1, <4>2 DEF FindOpen, OpenOf
    <3>2. QED  BY <2>2, <3>1 DEF FindOpen, TypeOK
  <2>3. CASE AddPurchase(t)
    <3>1. job' \in [Actors -> Job]
      BY <1>a, <2>3, TakePurchaseTypes DEF AddPurchase, JobPcs
    <3>2. purchases' \in [Purchases -> Row]
      BY <2>3, TapsHaveUsers DEF AddPurchase, TypeOK, Row, Statuses, Open
    <3>3. QED  BY <2>3, <3>1, <3>2 DEF AddPurchase, TypeOK
  <2>4. CASE CreateInvoice(t)
    <3>1. PICK i \in Invoices :
            /\ invoices' = [invoices EXCEPT ![i] =
                  [status |-> "issued", payload |-> job[t].purchase, amount |-> offer]]
            /\ job' = [job EXCEPT ![t].pc = "pend", ![t].invoice = i]
      BY <2>4 DEF CreateInvoice
    <3>2. job' \in [Actors -> Job]  BY <1>a, <3>1, TakeInvoiceTypes DEF JobPcs
    <3>3. [status |-> "issued", payload |-> job[t].purchase, amount |-> offer] \in Invoice
      BY <1>a, <2>4 DEF CreateInvoice, TypeOK, Job, Invoice
    <3>4. QED  BY <2>4, <3>1, <3>2, <3>3 DEF CreateInvoice, TypeOK
  <2>5. CASE CreateInvoiceFails(t)  BY <1>a, <2>5 DEF CreateInvoiceFails, TypeOK
  <2>6. CASE ProviderUnavailable(t)  BY <1>a, <2>6 DEF ProviderUnavailable, TypeOK, JobPcs
  <2>7. CASE ReadForPending(t)
    BY <1>a, <2>7, ShownTypes DEF ReadForPending, TypeOK, JobPcs
  <2>8. CASE CommitPending(t)
    <3>1. purchases' \in [Purchases -> Row]
      BY <1>a, <2>8, RecordInvoiceTypes DEF CommitPending, TypeOK, Job, Statuses, Open
    <3>2. invoices' \in [Invoices -> Invoice]
      BY <2>8, ShownTypes DEF CommitPending
    <3>3. QED  BY <1>a, <2>8, <3>1, <3>2 DEF CommitPending, TypeOK
  <2>9. QED  BY <1>1, <2>1, <2>2, <2>3, <2>4, <2>5, <2>6, <2>7, <2>8 DEF Checkout
<1>2. ASSUME NEW a \in Taps \cup {Reconciler}, Close(a) PROVE TypeOK'
  <2>1. a \in Actors  BY <1>a
  <2>2. CASE ReadForClose(a)
    BY <2>1, <2>2 DEF ReadForClose, TypeOK, JobPcs
  <2>3. CASE CommitClose(a)
    <3>1. CloseStatus(a) \in Statuses  BY DEF CloseStatus, Statuses, Closed
    <3>2. purchases' \in [Purchases -> Row]
      <4> DEFINE q == job[a].purchase
      <4>1. purchases' = [purchases EXCEPT ![q].status = CloseStatus(a)]
        BY <2>3 DEF CommitClose
      <4>2. purchases \in [Purchases -> Row]  BY DEF TypeOK
      <4> HIDE DEF q
      <4>3. QED  BY <3>1, <4>1, <4>2 DEF Row
    <3>3. Finish(a)  BY <2>3 DEF CommitClose
    <3>4. QED  BY <2>1, <2>3, <3>2, <3>3 DEF CommitClose, TypeOK
  <2>4. QED  BY <1>2, <2>2, <2>3 DEF Close
<1>3. ASSUME NEW h \in Hooks, Webhook(h) PROVE TypeOK'
  <2>1. CASE HookRecords(h)
    BY <1>a, <2>1, IdleIsJob DEF HookRecords, TypeOK, Job, JobPcs, Invoice
  <2>2. CASE HookChecks(h)  BY <1>a, <2>2 DEF HookChecks, TypeOK, JobPcs
  <2>3. CASE HookMarksProcessed(h)
    BY <1>a, <2>3 DEF HookMarksProcessed, TypeOK, JobPcs
  <2>4. QED  BY <1>3, <2>1, <2>2, <2>3 DEF Webhook
<1>4. ASSUME NEW h \in Hooks, NEW i \in Invoices, NEW valid \in BOOLEAN,
             HookDelivered(h, i, valid)
      PROVE TypeOK'
  BY <1>a, <1>4 DEF HookDelivered, TypeOK, Job, JobPcs
<1>5. CASE Reconcile
  <2>1. CASE Snapshot
    BY <1>a, <2>1 DEF Snapshot, RecordedPending, TypeOK, JobPcs, Polled, Row
  <2>2. CASE NextInvoice
    BY <1>a, <2>2 DEF NextInvoice, TypeOK, Job, JobPcs, Polled
  <2>3. CASE ReadFresh  BY <1>a, <2>3 DEF ReadFresh, TypeOK, JobPcs
  <2>4. QED  BY <1>5, <2>1, <2>2, <2>3 DEF Reconcile
<1>6. CASE Poll  BY <1>a, <1>6 DEF Poll, TypeOK, JobPcs, Polled
<1>7. CASE PollFails  BY <1>a, <1>7 DEF PollFails, TypeOK
<1>8. ASSUME NEW s \in Settlers, MarkPaid(s) PROVE TypeOK'
  <2> USE <1>a
  <2>1. CASE MarkPaidReads(s)
    BY <2>1 DEF MarkPaidReads, ReturnPaid, IllegalTransition, TypeOK, JobPcs
  <2>2. CASE ActivateReads(s)  BY <2>2 DEF ActivateReads, TypeOK, JobPcs
  <2>3. CASE ActivateCommits(s)  BY <2>3 DEF ActivateCommits, TypeOK, JobPcs
  <2>4. CASE SettleReads(s)
    BY <2>4 DEF SettleReads, ReturnPaid, IllegalTransition, TypeOK, JobPcs
  <2>5. CASE SettleCommits(s)
    <3>1. purchases' \in [Purchases -> Row]
      BY <2>5, RecordInvoiceTypes DEF SettleCommits, TypeOK, Job, Statuses, Closed
    <3>2. QED  BY <2>5, <3>1 DEF SettleCommits, ReturnPaid, TypeOK, JobPcs
  <2>6. CASE Confirm(s)
    <3>1. confirmed' \in [Purchases -> Nat]
      <4> DEFINE p == job[s].purchase
      <4>1. confirmed' = [confirmed EXCEPT ![p] = confirmed[p] + 1]  BY <2>6 DEF Confirm
      <4>2. confirmed \in [Purchases -> Nat]  BY DEF TypeOK
      <4>3. ASSUME p \in Purchases PROVE confirmed[p] + 1 \in Nat  BY <4>2, <4>3
      <4> HIDE DEF p
      <4>4. QED  BY <4>1, <4>2, <4>3
    <3>2. QED  BY <2>6, <3>1 DEF Confirm, TypeOK
  <2>7. QED  BY <1>8, <2>1, <2>2, <2>3, <2>4, <2>5, <2>6 DEF MarkPaid
<1>9. ASSUME NEW i \in Invoices, Pay(i) \/ InvoiceExpires(i) PROVE TypeOK'
  BY <1>9 DEF Pay, InvoiceExpires, TypeOK, Invoice
<1>10. CASE Restart  BY <1>10, IdleIsJob DEF Restart, TypeOK
<1>11. CASE UNCHANGED vars  BY <1>11 DEF vars, TypeOK
<1>12. QED
  BY <1>1, <1>2, <1>3, <1>4, <1>5, <1>6, <1>7, <1>8, <1>9, <1>10, <1>11 DEF Next

(* Type correctness, for every value of the constants. *)
THEOREM TypeCorrect == Spec => []TypeOK
<1>1. Init => TypeOK
  BY IdleIsJob, TapsHaveUsers DEF Init, TypeOK, Row, Invoice, Statuses
<1>2. QED  BY <1>1, TypeStep, PTL DEF Spec

-----------------------------------------------------------------------------
(* What a handler relies on survives every step of the others: a row stays, *)
(* an invoice stays paid and stays with its purchase, a grant and a history *)
(* row stay.                                                                *)
Grows ==
    /\ \A p \in Purchases : Status(p) # "absent" => Status(p)' # "absent"
    /\ \A p \in Purchases : billing[p] = 1 => billing'[p] = 1
    /\ \A i \in Invoices :
         /\ invoices[i].status = "paid" => invoices'[i].status = "paid"
         /\ invoices[i].payload # None => invoices'[i].payload = invoices[i].payload
         /\ history[i] # "absent" => history'[i] # "absent"

LEMMA KindsOfActors ==
  /\ Taps \subseteq Actors /\ Hooks \subseteq Actors /\ Reconciler \in Actors
  /\ Settlers \subseteq Actors /\ Hooks \subseteq Settlers /\ Reconciler \in Settlers
  /\ Taps \cap Settlers = {} /\ Reconciler \notin Hooks /\ Reconciler \notin Taps
  BY ActorsDistinct DEF Actors, Settlers

LEMMA Growth ==
  ASSUME IInv, [Next]_vars
  PROVE  Grows
<1> USE DEF IInv, TypeOK, database, outside, Status
<1>1. ASSUME NEW t \in Taps, Checkout(t) PROVE Grows
  <2>1. CASE AddPurchase(t)  BY <2>1 DEF Grows, AddPurchase
  <2>2. CASE CreateInvoice(t)
    BY <2>2, NoneIsNothing DEF Grows, CreateInvoice, Data, InvoicesBelong
  <2>3. CASE ReadForPending(t)  BY <2>3 DEF Grows, ReadForPending, Shown, Invoice
  <2>4. CASE CommitPending(t)  BY <2>4 DEF Grows, CommitPending, Shown, Row, Invoice
  <2>5. CASE UNCHANGED <<database, outside>>  BY <2>5 DEF Grows
  <2>6. QED
    BY <1>1, <2>1, <2>2, <2>3, <2>4, <2>5
    DEF Checkout, Tap, FindOpen, CreateInvoiceFails, ProviderUnavailable
<1>2. ASSUME NEW a \in Taps \cup {Reconciler}, Close(a) PROVE Grows
  BY <1>2 DEF Grows, Close, ReadForClose, CommitClose, CloseStatus, Row
<1>3. ASSUME NEW h \in Hooks, Webhook(h) PROVE Grows
  BY <1>3 DEF Grows, Webhook, HookRecords, HookChecks, HookMarksProcessed
<1>4. ASSUME NEW s \in Settlers, MarkPaid(s) PROVE Grows
  <2>1. CASE ActivateCommits(s)  BY <2>1 DEF Grows, ActivateCommits
  <2>2. CASE SettleCommits(s)  BY <2>2 DEF Grows, SettleCommits, Row
  <2>3. CASE UNCHANGED <<database, outside>>  BY <2>3 DEF Grows
  <2>4. QED
    BY <1>4, <2>1, <2>2, <2>3
    DEF MarkPaid, MarkPaidReads, ActivateReads, SettleReads, Confirm
<1>5. ASSUME NEW i \in Invoices, Pay(i) \/ InvoiceExpires(i) PROVE Grows
  BY <1>5 DEF Grows, Pay, InvoiceExpires, Invoice
<1>6. CASE Restart  BY <1>6 DEF Grows, Restart
<1>7. CASE UNCHANGED database /\ UNCHANGED outside  BY <1>7 DEF Grows
<1>8. QED
  BY <1>1, <1>2, <1>3, <1>4, <1>5, <1>6, <1>7
  DEF Next, vars, HookDelivered, Reconcile, Snapshot, NextInvoice, ReadFresh, Poll,
      PollFails

(* Only the fields of an invoice that matter to the tables. *)
SameInvoices ==
    \A i \in Invoices :
        /\ invoices'[i].payload = invoices[i].payload
        /\ (invoices'[i].status = "absent") <=> (invoices[i].status = "absent")
        /\ invoices[i].status = "paid" => invoices'[i].status = "paid"

LEMMA ShownKeeps ==
  ASSUME TypeOK, NEW i, invoices' = Shown(i)
  PROVE  SameInvoices
  BY DEF Shown, TypeOK, Invoice, SameInvoices

(* A row takes a new status and invoice id: PAID only once granted. *)
LEMMA RowUpdate ==
  ASSUME IInv, NEW p \in Purchases, NEW ext \in Invoices \cup {None}, NEW st \in Statuses,
         Status(p) # "absent",
         ext \in Invoices => invoices[ext].payload = p,
         st = "paid" => billing[p] = 1,
         \A q \in Purchases :
            /\ purchases'[q].status = IF q = p THEN st ELSE purchases[q].status
            /\ purchases'[q].ext = IF q = p THEN ext ELSE purchases[q].ext
            /\ purchases'[q].owner = purchases[q].owner,
         SameInvoices, UNCHANGED <<billing, tier, confirmed>>
  PROVE  Data'
<1> USE DEF IInv, SameInvoices
<1>1. "absent" \notin Statuses  BY DEF Statuses, Open, Closed
<1>2. RowsOwned' /\ InvoicesBelong' /\ RecordedBelong'
  BY <1>1 DEF Data, RowsOwned, InvoicesBelong, RecordedBelong, Status, TypeOK
<1>3. PaidImpliesGranted' /\ GrantedOnce' /\ GrantIsPaidFor' /\ ConfirmedImpliesGranted'
  BY DEF Data, PaidImpliesGranted, GrantedOnce, GrantIsPaidFor,
    ConfirmedImpliesGranted, Status, TypeOK
<1>4. ProExactlyIfGranted'  BY DEF Data, ProExactlyIfGranted
<1>5. QED  BY <1>2, <1>3, <1>4 DEF Data

(* The tables keep their invariants under every step. *)
LEMMA DataStep ==
  ASSUME IInv, [Next]_vars
  PROVE  Data'
<1> USE DEF IInv
<1>0. ASSUME UNCHANGED <<purchases, invoices, billing, tier, confirmed>> PROVE Data'
  BY <1>0 DEF Data, RowsOwned, InvoicesBelong, RecordedBelong, PaidImpliesGranted,
      GrantedOnce, GrantIsPaidFor, ConfirmedImpliesGranted, ProExactlyIfGranted, Status
<1>1. ASSUME NEW t \in Taps, AddPurchase(t) PROVE Data'
  <2>1. PICK p \in Purchases :
          /\ Status(p) = "absent"
          /\ purchases' = [purchases EXCEPT ![p] =
                [status |-> "created", owner |-> TapUser[t], ext |-> None]]
    <3>1. \A p \in Purchases : p >= p  BY PurchaseBound DEF Purchases
    <3>2. QED  BY <1>1, <3>1 DEF AddPurchase
  <2>2. UNCHANGED <<invoices, billing, tier, confirmed>> /\ TapUser[t] \in Users \ {None}
    BY <1>1, TapsHaveUsers, NoneIsNothing DEF AddPurchase, outside
  <2>3. billing[p] = 0
    BY <2>1 DEF Data, GrantIsPaidFor, InvoicesBelong, TypeOK
  <2>4. RowsOwned' /\ InvoicesBelong' /\ RecordedBelong'
    BY <2>1, <2>2, NoneIsNothing
    DEF Data, RowsOwned, InvoicesBelong, RecordedBelong, Status, TypeOK
  <2>5. PaidImpliesGranted' /\ GrantedOnce' /\ GrantIsPaidFor' /\ ConfirmedImpliesGranted'
    BY <2>1, <2>2 DEF Data, PaidImpliesGranted, GrantedOnce, GrantIsPaidFor,
      ConfirmedImpliesGranted, Status, TypeOK
  <2>6. ProExactlyIfGranted'
    BY <2>1, <2>2, <2>3 DEF Data, ProExactlyIfGranted, TypeOK
  <2>7. QED  BY <2>4, <2>5, <2>6 DEF Data
<1>2. ASSUME NEW t \in Taps, CreateInvoice(t) PROVE Data'
  <2>1. PICK i \in Invoices :
          /\ invoices[i].status = "absent"
          /\ invoices' = [invoices EXCEPT ![i] =
                [status |-> "issued", payload |-> job[t].purchase, amount |-> offer]]
    BY <1>2 DEF CreateInvoice
  <2>2. UNCHANGED <<purchases, billing, tier, confirmed>>
    BY <1>2 DEF CreateInvoice, database
  <2>3. job[t].purchase \in Purchases \ {None} /\ Status(job[t].purchase) # "absent"
    BY <1>2, NoneIsNothing DEF CreateInvoice, InFlight, TapHolds, At
  <2>4. InvoicesBelong'
    BY <2>1, <2>2, <2>3 DEF Data, InvoicesBelong, Status, TypeOK
  <2>5. RecordedBelong' /\ GrantIsPaidFor'
    BY <2>1, <2>2, NoneIsNothing
    DEF Data, InvoicesBelong, RecordedBelong, GrantIsPaidFor, TypeOK
  <2>6. QED
    BY <2>2, <2>4, <2>5 DEF Data, RowsOwned, PaidImpliesGranted, GrantedOnce,
      ConfirmedImpliesGranted, ProExactlyIfGranted, Status
<1>3. ASSUME SameInvoices, UNCHANGED <<purchases, billing, tier, confirmed>> PROVE Data'
  BY <1>3 DEF Data, RowsOwned, InvoicesBelong, RecordedBelong, PaidImpliesGranted,
    GrantedOnce, GrantIsPaidFor, ConfirmedImpliesGranted, ProExactlyIfGranted, Status,
    TypeOK, SameInvoices
<1>4. ASSUME NEW t \in Taps, ReadForPending(t) PROVE Data'
  BY <1>3, <1>4, <1>0, ShownKeeps DEF ReadForPending, database
<1>5. ASSUME NEW t \in Taps, CommitPending(t) PROVE Data'
  <2> DEFINE p == job[t].purchase
             ext == job[t].invoice
  <2>1. /\ p \in Purchases /\ Status(p) # "absent"
        /\ ext \in Invoices /\ invoices[ext].payload = p
    BY <1>5 DEF CommitPending, InFlight, TapHolds, At
  <2>2. SameInvoices  BY <1>5, ShownKeeps DEF CommitPending
  <2>3. purchases' = [purchases EXCEPT ![p].status = "pending", ![p].ext = ext]
    BY <1>5 DEF CommitPending
  <2> HIDE DEF p, ext
  <2>4. \A q \in Purchases :
          /\ purchases'[q].status = IF q = p THEN "pending" ELSE purchases[q].status
          /\ purchases'[q].ext = IF q = p THEN ext ELSE purchases[q].ext
          /\ purchases'[q].owner = purchases[q].owner
    BY <2>3 DEF TypeOK, Row
  <2>5. "pending" \in Statuses /\ UNCHANGED <<billing, tier, confirmed>>
    BY <1>5 DEF CommitPending, Statuses, Open
  <2>6. QED  BY <2>1, <2>2, <2>4, <2>5, RowUpdate
<1>6. ASSUME NEW a \in Taps \cup {Reconciler}, CommitClose(a) PROVE Data'
  <2> DEFINE p == job[a].purchase
             st == CloseStatus(a)
  <2>1. p \in Purchases /\ Status(p) # "absent"
    BY <1>6 DEF CommitClose, InFlight, TapHolds, BatchHolds, At
  <2>2. SameInvoices  BY <1>6 DEF CommitClose, outside, SameInvoices
  <2>3. purchases' = [purchases EXCEPT ![p].status = st]
    BY <1>6 DEF CommitClose
  <2>4. st \in Statuses /\ st # "paid" /\ UNCHANGED <<billing, tier, confirmed>>
    BY <1>6 DEF CommitClose, CloseStatus, Statuses, Closed
  <2> HIDE DEF p, st
  <2>5. \A q \in Purchases :
          /\ purchases'[q].status = IF q = p THEN st ELSE purchases[q].status
          /\ purchases'[q].ext = IF q = p THEN purchases[p].ext ELSE purchases[q].ext
          /\ purchases'[q].owner = purchases[q].owner
    BY <2>3 DEF TypeOK, Row
  <2>6. /\ purchases[p].ext \in Invoices \cup {None}
        /\ purchases[p].ext \in Invoices => invoices[purchases[p].ext].payload = p
    BY <2>1 DEF Data, RecordedBelong, TypeOK, Row
  <2>7. QED  BY <2>1, <2>2, <2>4, <2>5, <2>6, RowUpdate
<1>7. ASSUME NEW s \in Settlers, SettleCommits(s) PROVE Data'
  <2> DEFINE p == job[s].purchase
             ext == job[s].invoice
  <2>1. /\ p \in Purchases /\ ext \in Invoices
        /\ invoices[ext].payload = p /\ billing[p] = 1
    BY <1>7 DEF SettleCommits, InFlight, SettlerHolds, Handling, At
  <2>2. Status(p) # "absent"
    BY <2>1 DEF Data, InvoicesBelong
  <2>3. SameInvoices  BY <1>7 DEF SettleCommits, outside, SameInvoices
  <2>4. purchases' = [purchases EXCEPT ![p].status = "paid", ![p].ext = ext]
    BY <1>7 DEF SettleCommits
  <2>5. "paid" \in Statuses /\ UNCHANGED <<billing, tier, confirmed>>
    BY <1>7 DEF SettleCommits, Statuses, Closed
  <2> HIDE DEF p, ext
  <2>6. \A q \in Purchases :
          /\ purchases'[q].status = IF q = p THEN "paid" ELSE purchases[q].status
          /\ purchases'[q].ext = IF q = p THEN ext ELSE purchases[q].ext
          /\ purchases'[q].owner = purchases[q].owner
    BY <2>4 DEF TypeOK, Row
  <2>7. QED  BY <2>1, <2>2, <2>3, <2>5, <2>6, RowUpdate
<1>8. ASSUME NEW s \in Settlers, ActivateCommits(s) PROVE Data'
  <2> DEFINE p == job[s].purchase
             u == purchases[p].owner
  <2>1. CASE billing[p] > 0
    BY <1>0, <1>8, <2>1 DEF ActivateCommits, outside, TypeOK
  <2>2. CASE billing[p] = 0
    <3>1. /\ p \in Purchases /\ job[s].invoice \in Invoices
          /\ invoices[job[s].invoice].status = "paid"
          /\ invoices[job[s].invoice].payload = p
      BY <1>8 DEF ActivateCommits, InFlight, SettlerHolds, Handling, At
    <3>2. u \in Users
      BY <3>1 DEF Data, InvoicesBelong, RowsOwned, TypeOK, Row
    <3>3. /\ billing' = [billing EXCEPT ![p] = 1] /\ tier' = [tier EXCEPT ![u] = "pro"]
          /\ UNCHANGED <<purchases, invoices, confirmed>>
      BY <1>8, <2>2 DEF ActivateCommits, outside
    <3> HIDE DEF p, u
    <3>4. \A q \in Purchases : billing'[q] = IF q = p THEN 1 ELSE billing[q]
      BY <3>3 DEF TypeOK
    <3>5. \A v \in Users : tier'[v] = IF v = u THEN "pro" ELSE tier[v]
      BY <3>3 DEF TypeOK
    <3>6. RowsOwned' /\ InvoicesBelong' /\ RecordedBelong'
      BY <3>3 DEF Data, RowsOwned, InvoicesBelong, RecordedBelong, Status
    <3>7. PaidImpliesGranted' /\ GrantedOnce' /\ ConfirmedImpliesGranted'
      BY <3>3, <3>4 DEF Data, PaidImpliesGranted, GrantedOnce, ConfirmedImpliesGranted, Status
    <3>8. GrantIsPaidFor'
      BY <3>1, <3>3, <3>4 DEF Data, GrantIsPaidFor
    <3>9. ProExactlyIfGranted'
      BY <3>1, <3>2, <3>3, <3>4, <3>5 DEF Data, ProExactlyIfGranted, u
    <3>10. QED  BY <3>6, <3>7, <3>8, <3>9 DEF Data
  <2>3. QED  BY <1>8, <2>1, <2>2 DEF ActivateCommits
<1>9. ASSUME NEW s \in Settlers, Confirm(s) PROVE Data'
  <2> DEFINE p == job[s].purchase
  <2>1. p \in Purchases /\ billing[p] = 1
    BY <1>9 DEF Confirm, InFlight, SettlerHolds, Handling, At
  <2>2. /\ confirmed' = [confirmed EXCEPT ![p] = @ + 1]
        /\ UNCHANGED <<purchases, invoices, billing, tier>>
    BY <1>9 DEF Confirm, database, outside
  <2> HIDE DEF p
  <2>3. ConfirmedImpliesGranted'
    BY <2>1, <2>2 DEF Data, ConfirmedImpliesGranted, TypeOK
  <2>4. QED
    BY <2>2, <2>3 DEF Data, RowsOwned, InvoicesBelong, RecordedBelong, PaidImpliesGranted,
      GrantedOnce, GrantIsPaidFor, ProExactlyIfGranted, Status
<1>10. ASSUME NEW i \in Invoices, Pay(i) \/ InvoiceExpires(i) PROVE Data'
  <2>1. SameInvoices
    BY <1>10 DEF Pay, InvoiceExpires, TypeOK, Invoice, SameInvoices
  <2>2. QED  BY <1>3, <1>10, <2>1 DEF Pay, InvoiceExpires, database
<1>11. QED
  BY <1>0, <1>1, <1>2, <1>4, <1>5, <1>6, <1>7, <1>8, <1>9, <1>10
  DEF Next, vars, database, outside, Checkout, Tap, FindOpen, CreateInvoiceFails,
      ProviderUnavailable, Close, ReadForClose, Webhook, HookRecords, HookChecks,
      HookMarksProcessed, HookDelivered, Reconcile, Snapshot, NextInvoice, ReadFresh, Poll,
      PollFails, MarkPaid, MarkPaidReads, ActivateReads, SettleReads, Restart

-----------------------------------------------------------------------------
(* A handler that does not move keeps what it relies on. *)

LEMMA TapStays ==
  ASSUME IInv, Grows, NEW t \in Taps, job'[t] = job[t]
  PROVE  TapHolds(t)'
  BY NoneIsNothing DEF IInv, InFlight, TapHolds, Grows, Status

LEMMA HookStays ==
  ASSUME IInv, Grows, NEW h \in Hooks, job'[h] = job[h]
  PROVE  HookHolds(h)'
<1>1. Handling(h) => job[h].invoice \in Invoices
  BY KindsOfActors DEF IInv, InFlight, SettlerHolds
<1>2. QED
  BY <1>1, NoneIsNothing DEF IInv, InFlight, HookHolds, Handling, Grows

LEMMA SettlerStays ==
  ASSUME IInv, Grows, NEW s \in Settlers, job'[s] = job[s]
  PROVE  SettlerHolds(s)'
<1>1. job[s].pc \in {"settle", "settle_commit", "processed", "confirm"} => Handling(s)
  BY DEF Handling
<1>2. QED
  BY <1>1, NoneIsNothing DEF IInv, InFlight, SettlerHolds, Handling, Grows

LEMMA BatchStays ==
  ASSUME IInv, Grows, job'[Reconciler] = job[Reconciler], todo' \subseteq todo
  PROVE  BatchHolds'
<1>1. \A x \in todo : x.invoice \in Invoices /\ x.purchase \in Purchases
  BY DEF IInv, TypeOK, Polled
<1>2. QED
  BY <1>1, NoneIsNothing DEF IInv, InFlight, BatchHolds, Grows, Status

(* An idle handler relies on nothing. *)
LEMMA IdleHolds ==
  ASSUME NEW a, job'[a] = Idle \/ job'[a] = [Idle EXCEPT !.pc = "next"]
  PROVE  TapHolds(a)' /\ HookHolds(a)' /\ SettlerHolds(a)'
  BY DEF Idle, TapHolds, HookHolds, SettlerHolds, Handling

(* A checkout step moves one tap; the rest stays. *)
LEMMA TapMoves ==
  ASSUME IInv, Grows, NEW t \in Taps, TapHolds(t)',
         \A a \in Actors \ {t} : job'[a] = job[a], todo' = todo
  PROVE  InFlight'
<1>1. \A r \in Taps : TapHolds(r)'  BY TapStays, KindsOfActors
<1>2. \A h \in Hooks : HookHolds(h)'  BY HookStays, KindsOfActors
<1>3. \A s \in Settlers : SettlerHolds(s)'  BY SettlerStays, KindsOfActors
<1>4. BatchHolds'  BY BatchStays, KindsOfActors
<1>5. UpdateHandledOnce'
  BY KindsOfActors DEF IInv, InFlight, UpdateHandledOnce, Handling
<1>6. QED  BY <1>1, <1>2, <1>3, <1>4, <1>5 DEF InFlight

(* A webhook step moves one hook; if it starts handling an update, nobody   *)
(* else is handling it.                                                     *)
LEMMA HookMoves ==
  ASSUME IInv, Grows, NEW h \in Hooks, HookHolds(h)', SettlerHolds(h)',
         \A a \in Actors \ {h} : job'[a] = job[a], todo' = todo,
         Handling(h)' =>
            \/ Handling(h) /\ job'[h].invoice = job[h].invoice
            \/ history[job'[h].invoice] = "absent"
  PROVE  InFlight'
<1>1. \A r \in Taps : TapHolds(r)'  BY TapStays, KindsOfActors
<1>2. \A g \in Hooks : HookHolds(g)'  BY HookStays, KindsOfActors
<1>3. \A s \in Settlers : SettlerHolds(s)'  BY SettlerStays, KindsOfActors
<1>4. BatchHolds'  BY BatchStays, KindsOfActors
<1>5. \A g \in Hooks : Handling(g) => history[job[g].invoice] # "absent"
  BY DEF IInv, InFlight, HookHolds
<1>6. UpdateHandledOnce'
  BY <1>5, KindsOfActors DEF IInv, InFlight, UpdateHandledOnce, Handling
<1>7. QED  BY <1>1, <1>2, <1>3, <1>4, <1>6 DEF InFlight

(* A step of the reconciler moves nobody else. *)
LEMMA ReconcilerMoves ==
  ASSUME IInv, Grows, SettlerHolds(Reconciler)', BatchHolds',
         \A a \in Actors \ {Reconciler} : job'[a] = job[a]
  PROVE  InFlight'
<1>1. \A r \in Taps : TapHolds(r)'  BY TapStays, KindsOfActors
<1>2. \A h \in Hooks : HookHolds(h)'  BY HookStays, KindsOfActors
<1>3. \A s \in Settlers : SettlerHolds(s)'  BY SettlerStays, KindsOfActors
<1>4. UpdateHandledOnce'
  BY KindsOfActors DEF IInv, InFlight, UpdateHandledOnce, Handling
<1>5. QED  BY <1>1, <1>2, <1>3, <1>4 DEF InFlight

(* Every step leaves every handler with what it relies on. *)
LEMMA InFlightStep ==
  ASSUME IInv, [Next]_vars
  PROVE  InFlight'
<1> USE Growth, KindsOfActors DEF At
<1>0. TypeOK /\ job \in [Actors -> Job] /\ Grows  BY DEF IInv, TypeOK
<1>1. ASSUME NEW t \in Taps, Checkout(t) \/ Close(t) PROVE InFlight'
  <2>1. (\A a \in Actors \ {t} : job'[a] = job[a]) /\ todo' = todo
    BY <1>0, <1>1 DEF Checkout, Tap, FindOpen, AddPurchase, CreateInvoice,
      CreateInvoiceFails, ProviderUnavailable, ReadForPending, CommitPending,
      Close, ReadForClose, CommitClose, Goto, Raise, Finish
  <2>2. TapHolds(t)'
    <3>1. CASE Tap(t)  BY <1>0, <3>1 DEF Tap, Goto, TapHolds, Job
    <3>2. CASE FindOpen(t)
      BY <1>0, <3>2 DEF FindOpen, OpenOf, Goto, TapHolds, Job, Status, database, Open
    <3>3. CASE AddPurchase(t)
      BY <1>0, <3>3 DEF AddPurchase, TapHolds, Job, Status, TypeOK
    <3>4. CASE CreateInvoice(t)
      BY <1>0, <3>4 DEF CreateInvoice, TapHolds, IInv, InFlight, Job, Status, TypeOK, database
    <3>5. CASE job'[t] = Idle  BY <3>5, IdleHolds
    <3>6. CASE /\ job[t].pc \in {"invoice", "pend", "close"}
               /\ \E pc \in {"close", "pend_commit", "close_commit"} :
                    job' = [job EXCEPT ![t].pc = pc]
               /\ job'[t].pc = "pend_commit" => job[t].pc = "pend"
      <4>1. TapHolds(t)  BY DEF IInv, InFlight
      <4>2. job'[t].purchase = job[t].purchase /\ job'[t].invoice = job[t].invoice
        BY <1>0, <3>6 DEF Job
      <4>3. job'[t].pc \in {"close", "pend_commit", "close_commit"}
        BY <1>0, <3>6 DEF Job
      <4>4. QED
        BY <1>0, <3>6, <4>1, <4>2, <4>3, NoneIsNothing DEF TapHolds, Grows, Status
    <3>7. QED
      BY <1>0, <1>1, <3>1, <3>2, <3>3, <3>4, <3>5, <3>6
      DEF Checkout, CreateInvoiceFails, ProviderUnavailable, ReadForPending,
        CommitPending, Close, ReadForClose, CommitClose, Goto, Raise, Finish, Job
  <2>3. QED  BY <1>0, <2>1, <2>2, TapMoves
<1>2. ASSUME NEW h \in Hooks, Webhook(h) PROVE InFlight'
  <2>1. (\A a \in Actors \ {h} : job'[a] = job[a]) /\ todo' = todo
    BY <1>0, <1>2 DEF Webhook, HookRecords, HookChecks, HookMarksProcessed, Goto, Raise, Finish
  <2>2. HookHolds(h) /\ SettlerHolds(h)  BY DEF IInv, InFlight
  <2>3. CASE job'[h] = Idle
    <3>1. ~Handling(h)'  BY <2>3 DEF Idle, Handling
    <3>2. QED  BY <1>0, <2>1, <2>3, <3>1, IdleHolds, HookMoves
  <2>4. CASE /\ At(h, "record") /\ job'[h].pc = "check"
             /\ job'[h].invoice = job[h].invoice
             /\ job'[h].purchase = invoices[job[h].invoice].payload
             /\ history[job[h].invoice] = "absent"
             /\ history'[job[h].invoice] # "absent"
             /\ invoices' = invoices
    <3>1. HookHolds(h)' /\ SettlerHolds(h)'
      BY <2>2, <2>4 DEF HookHolds, SettlerHolds, Handling
    <3>2. QED  BY <1>0, <2>1, <2>4, <3>1, HookMoves
  <2>5. CASE /\ Handling(h)
             /\ job'[h].pc \in {"mark_paid", "confirm"}
             /\ job'[h].pc = "confirm" => job[h].pc = "processed"
             /\ job'[h].invoice = job[h].invoice /\ job'[h].purchase = job[h].purchase
    <3>1. HookHolds(h)' /\ SettlerHolds(h)'
      BY <1>0, <2>2, <2>5, NoneIsNothing DEF HookHolds, SettlerHolds, Handling, Grows
    <3>2. QED  BY <1>0, <2>1, <2>5, <3>1, HookMoves
  <2>6. CASE HookRecords(h)
    <3>1. job[h].invoice \in Invoices
      BY <2>2, <2>6 DEF HookRecords, HookHolds
    <3>2. QED
      BY <1>0, <2>3, <2>4, <2>6, <3>1 DEF HookRecords, Raise, outside, Job, IInv, TypeOK
  <2>7. CASE HookChecks(h)
    BY <1>0, <2>3, <2>5, <2>7 DEF HookChecks, Goto, Finish, Handling, Job
  <2>8. CASE HookMarksProcessed(h)
    BY <1>0, <2>3, <2>5, <2>8 DEF HookMarksProcessed, Goto, Finish, Handling, Job
  <2>9. QED  BY <1>2, <2>6, <2>7, <2>8 DEF Webhook
<1>3. ASSUME NEW h \in Hooks, NEW i \in Invoices, NEW valid \in BOOLEAN,
             HookDelivered(h, i, valid)
      PROVE InFlight'
  <2>1. (\A a \in Actors \ {h} : job'[a] = job[a]) /\ todo' = todo
    BY <1>0, <1>3 DEF HookDelivered
  <2>2. /\ job'[h].pc \in {"record", "record_invalid"} /\ job'[h].invoice = i
        /\ job'[h].pc = "record" => invoices[i].status = "paid"
        /\ invoices' = invoices /\ invoices[i].status # "absent"
    BY <1>0, <1>3 DEF HookDelivered, outside, Job
  <2>3. invoices[i].payload \in Purchases
    BY <2>2 DEF IInv, Data, InvoicesBelong, TypeOK, Invoice
  <2>4. HookHolds(h)' /\ SettlerHolds(h)' /\ ~Handling(h)'
    BY <2>2, <2>3 DEF HookHolds, SettlerHolds, Handling
  <2>5. QED  BY <1>0, <2>1, <2>4, HookMoves
<1>4. CASE Reconcile \/ Poll \/ PollFails \/ Close(Reconciler)
  <2> DEFINE R == Reconciler
  <2>1. \A a \in Actors \ {R} : job'[a] = job[a]
    BY <1>0, <1>4 DEF Reconcile, Snapshot, NextInvoice, ReadFresh, Poll, PollFails, Close,
      ReadForClose, CommitClose, Goto, Raise, Finish
  <2>2. SettlerHolds(R) /\ BatchHolds  BY DEF IInv, InFlight
  <2>3. CASE Snapshot
    <3>1. job'[R].pc = "poll"  BY <1>0, <2>3 DEF Snapshot, Goto, Job
    <3>2. BatchHolds'
      BY <2>3, <3>1 DEF Snapshot, RecordedPending, BatchHolds, IInv, Data, RecordedBelong,
        TypeOK, Row, outside
    <3>3. SettlerHolds(R)'  BY <3>1 DEF SettlerHolds, Handling
    <3>4. QED  BY <1>0, <2>1, <3>2, <3>3, ReconcilerMoves
  <2>4. CASE Poll
    <3>1. job'[R].pc = "next"  BY <1>0, <2>4 DEF Poll, Goto, Job
    <3>2. \A x \in todo' : \E y \in todo :
            /\ x.invoice = y.invoice /\ x.purchase = y.purchase
            /\ x.status = invoices[y.invoice].status
      BY <2>4 DEF Poll, IInv, TypeOK, Polled
    <3>3. BatchHolds'
      BY <2>2, <2>4, <3>1, <3>2 DEF Poll, BatchHolds, outside
    <3>4. SettlerHolds(R)'  BY <3>1 DEF SettlerHolds, Handling
    <3>5. QED  BY <1>0, <2>1, <3>3, <3>4, ReconcilerMoves
  <2>5. CASE NextInvoice /\ todo # {}
    <3>1. PICK x \in todo :
            /\ todo' = todo \ {x}
            /\ job' = [job EXCEPT ![R] =
                 [pc |-> IF x.status = "paid" THEN "fresh" ELSE "close",
                  purchase |-> x.purchase, invoice |-> x.invoice]]
      BY <2>5 DEF NextInvoice
    <3>2. /\ x.invoice \in Invoices /\ x.purchase \in Purchases
          /\ invoices[x.invoice].payload = x.purchase
          /\ x.status = "paid" => invoices[x.invoice].status = "paid"
          /\ Status(x.purchase) # "absent"
          /\ UNCHANGED <<purchases, invoices>>
      BY <2>2, <2>5 DEF BatchHolds, IInv, Data, InvoicesBelong, TypeOK, Polled, NextInvoice,
        database, outside
    <3>3. SettlerHolds(R)'
      BY <1>0, <3>1, <3>2 DEF SettlerHolds, Handling
    <3>4. BatchHolds'
      BY <1>0, <2>2, <3>1, <3>2 DEF BatchHolds, Status
    <3>5. QED  BY <1>0, <2>1, <3>3, <3>4, ReconcilerMoves
  <2>6. CASE job'[R] \in {Idle, [Idle EXCEPT !.pc = "next"]} /\ todo' \subseteq todo
    <3>1. SettlerHolds(R)'  BY <2>6, IdleHolds
    <3>2. job'[R].pc \notin {"close", "close_commit"}  BY <2>6 DEF Idle
    <3>3. BatchHolds'
      BY <1>0, <2>2, <2>6, <3>2, NoneIsNothing DEF BatchHolds, Grows, IInv, TypeOK, Polled
    <3>4. QED  BY <1>0, <2>1, <3>1, <3>3, ReconcilerMoves
  <2>7. CASE ReadFresh /\ Goto(R, "mark_paid") /\ todo' = todo
    <3>1. /\ job[R].pc = "fresh" /\ job'[R].pc = "mark_paid"
          /\ job'[R].invoice = job[R].invoice /\ job'[R].purchase = job[R].purchase
      BY <1>0, <2>7 DEF ReadFresh, Goto, Job
    <3>2. SettlerHolds(R)'
      BY <1>0, <2>2, <3>1, NoneIsNothing DEF SettlerHolds, Handling, Grows
    <3>3. BatchHolds'
      BY <1>0, <2>2, <2>7, <3>1, NoneIsNothing DEF BatchHolds, Grows, IInv, TypeOK, Polled
    <3>4. QED  BY <1>0, <2>1, <3>2, <3>3, ReconcilerMoves
  <2>8. CASE ReadForClose(R) /\ Goto(R, "close_commit") /\ todo' = todo
    <3>1. /\ job[R].pc = "close" /\ job'[R].pc = "close_commit"
          /\ job'[R].purchase = job[R].purchase
      BY <1>0, <2>8 DEF ReadForClose, Goto, Job
    <3>2. SettlerHolds(R)'  BY <3>1 DEF SettlerHolds, Handling
    <3>3. BatchHolds'
      BY <1>0, <2>2, <2>8, <3>1, NoneIsNothing
      DEF BatchHolds, Grows, IInv, TypeOK, Polled, Status
    <3>4. QED  BY <1>0, <2>1, <3>2, <3>3, ReconcilerMoves
  <2>9. QED
    <3>1. CASE Reconcile
      BY <1>0, <2>3, <2>5, <2>6, <2>7, <3>1
      DEF Reconcile, NextInvoice, ReadFresh, Raise, Finish
    <3>2. CASE PollFails  BY <1>0, <2>6, <3>2 DEF PollFails, Raise
    <3>3. CASE Close(R)
      BY <1>0, <2>6, <2>8, <3>3 DEF Close, ReadForClose, CommitClose, Raise, Finish
    <3>4. QED  BY <1>4, <2>4, <3>1, <3>2, <3>3
<1>5. ASSUME NEW s \in Settlers, MarkPaid(s) PROVE InFlight'
  <2>1. (\A a \in Actors \ {s} : job'[a] = job[a]) /\ todo' \subseteq todo
        /\ (s # Reconciler => todo' = todo)
    BY <1>0, <1>5 DEF MarkPaid, MarkPaidReads, ActivateReads, ActivateCommits, SettleReads,
      SettleCommits, Confirm, ReturnPaid, IllegalTransition, Goto, Raise, Finish
  <2>2. SettlerHolds(s) /\ (s \in Hooks => HookHolds(s)) /\ BatchHolds
    BY DEF IInv, InFlight
  <2>3. job[s].pc \in {"mark_paid", "activate", "grant", "settle", "settle_commit", "confirm"}
    BY <1>5 DEF MarkPaid, MarkPaidReads, ActivateReads, ActivateCommits, SettleReads,
      SettleCommits, Confirm
  <2>4. /\ job[s].invoice \in Invoices /\ job[s].purchase \in Purchases
        /\ invoices[job[s].invoice].status = "paid"
        /\ invoices[job[s].invoice].payload = job[s].purchase
        /\ Handling(s)
    BY <2>2, <2>3 DEF SettlerHolds, Handling
  <2>5. \/ job'[s] \in {Idle, [Idle EXCEPT !.pc = "next"]}
        \/ /\ job'[s].pc \in {"activate", "grant", "settle", "settle_commit",
                              "processed", "confirm"}
           /\ job'[s].invoice = job[s].invoice /\ job'[s].purchase = job[s].purchase
           /\ job'[s].pc \in {"settle", "settle_commit", "processed", "confirm"} =>
                 billing'[job[s].purchase] = 1
    <3> DEFINE p == job[s].purchase
    <3>1. p \in Purchases /\ billing[p] \in {0, 1} /\ (Status(p) = "paid" => billing[p] = 1)
      BY <2>4 DEF IInv, Data, TypeOK, GrantedOnce, PaidImpliesGranted
    <3>2. job[s].pc \in {"settle", "settle_commit", "confirm"} => billing[p] = 1
      BY <2>2 DEF SettlerHolds
    <3>3. CASE MarkPaidReads(s)
      BY <1>0, <3>1, <3>3 DEF MarkPaidReads, ReturnPaid, IllegalTransition, Goto, Finish,
        Job, database
    <3>4. CASE ActivateReads(s)
      BY <1>0, <3>1, <3>4 DEF ActivateReads, Goto, Job, database
    <3>5. CASE ActivateCommits(s)
      BY <1>0, <3>1, <3>5 DEF ActivateCommits, Goto, Raise, Job, TypeOK
    <3>6. CASE SettleReads(s)
      BY <1>0, <3>2, <3>6 DEF SettleReads, ReturnPaid, IllegalTransition, Goto, Finish,
        Job, database
    <3>7. CASE SettleCommits(s)
      BY <1>0, <3>2, <3>7 DEF SettleCommits, ReturnPaid, Goto, Job
    <3>8. CASE Confirm(s)  BY <1>0, <3>8 DEF Confirm, Finish
    <3>9. QED  BY <1>5, <3>3, <3>4, <3>5, <3>6, <3>7, <3>8 DEF MarkPaid
  <2>6. SettlerHolds(s)'
    <3>1. CASE job'[s] \in {Idle, [Idle EXCEPT !.pc = "next"]}  BY <3>1, IdleHolds
    <3>2. QED
      BY <1>0, <2>4, <2>5, <3>1, NoneIsNothing DEF SettlerHolds, Handling, Grows
  <2>7. CASE s \in Hooks
    <3>1. HookHolds(s)' /\ (Handling(s)' => job'[s].invoice = job[s].invoice)
      <4>1. CASE job'[s] \in {Idle, [Idle EXCEPT !.pc = "next"]}
        BY <4>1, IdleHolds DEF Handling, Idle
      <4>2. QED
        BY <1>0, <2>2, <2>4, <2>5, <2>7, <4>1 DEF HookHolds, Handling, Grows
    <3>2. QED  BY <1>0, <2>1, <2>4, <2>6, <2>7, <3>1, HookMoves
  <2>8. CASE s = Reconciler
    <3>1. job'[s].pc \notin {"close", "close_commit"}  BY <2>5 DEF Idle
    <3>2. BatchHolds'
      BY <1>0, <2>1, <2>2, <2>8, <3>1, NoneIsNothing
      DEF BatchHolds, Grows, IInv, TypeOK, Polled
    <3>3. QED  BY <1>0, <2>1, <2>6, <2>8, <3>2, ReconcilerMoves
  <2>9. QED  BY <2>7, <2>8 DEF Settlers
<1>6. ASSUME UNCHANGED <<job, todo>> PROVE InFlight'
  <2>1. BatchHolds'  BY <1>0, <1>6, BatchStays
  <2>2. SettlerHolds(Reconciler)'  BY <1>0, <1>6, SettlerStays
  <2>3. QED  BY <1>0, <1>6, <2>1, <2>2, ReconcilerMoves
<1>7. CASE Restart
  <2>1. \A a \in Actors : job'[a] = Idle  BY <1>7 DEF Restart
  <2>2. \A a \in Actors : TapHolds(a)' /\ HookHolds(a)' /\ SettlerHolds(a)'
    BY <2>1, IdleHolds
  <2>3. BatchHolds' /\ UpdateHandledOnce'
    BY <1>7, <2>1 DEF Restart, BatchHolds, UpdateHandledOnce, Handling, Idle
  <2>4. QED  BY <2>2, <2>3 DEF InFlight
<1>8. QED
  BY <1>1, <1>2, <1>3, <1>4, <1>5, <1>6, <1>7 DEF Next, vars, Pay, InvoiceExpires

-----------------------------------------------------------------------------

LEMMA Inductive == Spec => []IInv
<1>1. Init => IInv
  <2> SUFFICES ASSUME Init PROVE IInv
    OBVIOUS
  <2>1. TypeOK
    BY IdleIsJob, TapsHaveUsers DEF Init, TypeOK, Row, Invoice, Statuses
  <2>2. Data
    BY NoneIsNothing DEF Init, Data, RowsOwned, InvoicesBelong, RecordedBelong,
      PaidImpliesGranted, GrantedOnce, GrantIsPaidFor, ConfirmedImpliesGranted,
      ProExactlyIfGranted, Status
  <2>3. InFlight
    BY KindsOfActors DEF Init, InFlight, TapHolds, HookHolds, SettlerHolds, BatchHolds,
      UpdateHandledOnce, Handling, Idle
  <2>4. QED  BY <2>1, <2>2, <2>3 DEF IInv
<1>2. IInv /\ [Next]_vars => IInv'
  BY TypeStep, DataStep, InFlightStep DEF IInv
<1>3. QED  BY <1>1, <1>2, PTL DEF Spec

(* However webhook, redelivery, reconciler and restarts interleave, a PAID  *)
(* purchase has its grant: never paid without access.                       *)
THEOREM GrantBeforePaid == Spec => []PaidImpliesGranted
  BY Inductive, PTL DEF IInv, Data

(* Access is granted for a purchase once, whoever settles it.               *)
THEOREM OneGrantPerPurchase == Spec => []GrantedOnce
  BY Inductive, PTL DEF IInv, Data

(* Access is granted only for a purchase one of whose invoices was paid.    *)
THEOREM NoGrantWithoutPayment == Spec => []GrantIsPaidFor
  BY Inductive, PTL DEF IInv, Data

(* The buyer is told of access only after it was granted.                   *)
THEOREM NoConfirmationWithoutGrant == Spec => []ConfirmedImpliesGranted
  BY Inductive, PTL DEF IInv, Data

(* The tier of a user says what the billing rows say.                       *)
THEOREM TierAgreesWithBilling == Spec => []ProExactlyIfGranted
  BY Inductive, PTL DEF IInv, Data

(* A provider update passes the history insert in one delivery at most.     *)
THEOREM OneHandlerPerUpdate == Spec => []UpdateHandledOnce
  BY Inductive, PTL DEF IInv, InFlight

-----------------------------------------------------------------------------
(* What a purchase was closed for. *)

ExpiredSeen(p) ==
    \E j \in Invoices : invoices[j].payload = p /\ invoices[j].status = "expired"

(* The reconciler acts on paid and on expired invoices only, an EXPIRED row *)
(* and one about to be has an invoice that expired, and nobody writes       *)
(* FAILED.                                                                  *)
Evidence ==
    /\ \A p \in Purchases : /\ Status(p) # "failed"
                            /\ Status(p) = "expired" => ExpiredSeen(p)
    /\ job[Reconciler].pc \in {"close", "close_commit"} => ExpiredSeen(job[Reconciler].purchase)
    /\ job[Reconciler].pc # "poll" => \A x \in todo :
           x.status = "paid" \/ (x.status = "expired" /\ ExpiredSeen(x.purchase))

(* An invoice that expired stays so, and with its purchase. *)
LEMMA ExpiryStays ==
  ASSUME IInv, [Next]_vars
  PROVE  \A i \in Invoices : invoices[i].status = "expired" =>
           invoices'[i].status = "expired" /\ invoices'[i].payload = invoices[i].payload
<1> USE DEF database, outside
<1>1. invoices \in [Invoices -> Invoice]  BY DEF IInv, TypeOK
<1>2. ASSUME NEW t \in Taps, Checkout(t)
      PROVE  \A i \in Invoices : invoices[i].status = "expired" =>
               invoices'[i].status = "expired" /\ invoices'[i].payload = invoices[i].payload
  <2>1. CASE CreateInvoice(t)  BY <1>1, <2>1 DEF CreateInvoice
  <2>2. CASE invoices' = Shown(job[t].invoice)  BY <1>1, <2>2 DEF Shown, Invoice
  <2>3. CASE UNCHANGED invoices  BY <2>3
  <2>4. QED
    BY <1>2, <2>1, <2>2, <2>3
    DEF Checkout, Tap, FindOpen, AddPurchase, CreateInvoiceFails, ProviderUnavailable,
        ReadForPending, CommitPending
<1>3. ASSUME NEW j \in Invoices, Pay(j) \/ InvoiceExpires(j)
      PROVE  \A i \in Invoices : invoices[i].status = "expired" =>
               invoices'[i].status = "expired" /\ invoices'[i].payload = invoices[i].payload
  BY <1>1, <1>3 DEF Pay, InvoiceExpires, Invoice
<1>4. QED
  BY <1>2, <1>3
  DEF Next, vars, Close, ReadForClose, CommitClose, Webhook, HookRecords, HookChecks,
      HookMarksProcessed, HookDelivered, Reconcile, Snapshot, NextInvoice, ReadFresh, Poll,
      PollFails, MarkPaid, MarkPaidReads, ActivateReads, ActivateCommits, SettleReads,
      SettleCommits, Confirm, Restart

(* Steps that expire no row, and take the reconciler to no other invoice. *)
LEMMA EvidenceStays ==
  ASSUME Evidence, \A p : ExpiredSeen(p) => ExpiredSeen(p)',
         todo \subseteq Polled, todo' \subseteq todo,
         \A p \in Purchases : purchases'[p].status = purchases[p].status
                              \/ purchases'[p].status \notin {"failed", "expired"},
         \/ job'[Reconciler] = job[Reconciler]
         \/ /\ job'[Reconciler].pc \notin {"close", "close_commit"}
            /\ job[Reconciler].pc # "poll" \/ todo' = {}
         \/ /\ job[Reconciler].pc = "close" /\ job'[Reconciler].pc = "close_commit"
            /\ job'[Reconciler].purchase = job[Reconciler].purchase
  PROVE  Evidence'
<1>1. ASSUME NEW p \in Purchases
      PROVE  /\ Status(p)' # "failed"
             /\ Status(p)' = "expired" => ExpiredSeen(p)'
  BY <1>1 DEF Evidence, Status
<1>2. ASSUME job'[Reconciler].pc \in {"close", "close_commit"}
      PROVE  ExpiredSeen(job[Reconciler].purchase)'
  <2>1. /\ job'[Reconciler].purchase = job[Reconciler].purchase
        /\ job[Reconciler].pc \in {"close", "close_commit"}
    BY <1>2
  <2>2. PICK p : p = job[Reconciler].purchase  OBVIOUS
  <2>3. ExpiredSeen(p)'  BY <2>1, <2>2 DEF Evidence
  <2>4. QED  BY <2>1, <2>2, <2>3 DEF ExpiredSeen
<1>3. ASSUME job'[Reconciler].pc # "poll", NEW x \in todo'
      PROVE  x.status = "paid" \/ (x.status = "expired" /\ ExpiredSeen(x.purchase)')
  <2>1. x \in todo  OBVIOUS
  <2>2. job[Reconciler].pc # "poll"  BY <1>3
  <2>3. QED  BY <2>1, <2>2 DEF Evidence
<1>4. QED  BY <1>1, <1>2, <1>3 DEF Evidence, ExpiredSeen

LEMMA EvidenceStep ==
  ASSUME IInv, Evidence, [Next]_vars
  PROVE  Evidence'
<1> USE DEF database, outside
<1>1. /\ purchases \in [Purchases -> Row] /\ job \in [Actors -> Job] /\ todo \subseteq Polled
      /\ invoices \in [Invoices -> Invoice]
  BY DEF IInv, TypeOK
<1>2. \A p : ExpiredSeen(p) => ExpiredSeen(p)'  BY ExpiryStays DEF ExpiredSeen
<1>3. Reconciler \in Actors  BY KindsOfActors
(* Somebody else moves, or the reconciler to a place where it holds no      *)
(* invoice that expired.                                                    *)
<1>4. ASSUME NEW a \in Actors \ {Reconciler},
             Raise(a) \/ Finish(a) \/ \E pc : Goto(a, pc) /\ UNCHANGED todo
      PROVE  job'[Reconciler] = job[Reconciler] /\ todo' = todo
  BY <1>1, <1>3, <1>4 DEF Raise, Finish, Goto
<1>5. ASSUME Raise(Reconciler)
      PROVE  job'[Reconciler].pc = "idle" /\ todo' = {}
  BY <1>1, <1>3, <1>5 DEF Raise, Idle
<1>6. ASSUME Finish(Reconciler)
      PROVE  job'[Reconciler].pc = "next" /\ todo' = todo
  BY <1>1, <1>3, <1>6 DEF Finish, Idle
<1>7. ASSUME NEW pc, Goto(Reconciler, pc)
      PROVE  job'[Reconciler].pc = pc /\ job'[Reconciler].purchase = job[Reconciler].purchase
  BY <1>1, <1>3, <1>7 DEF Goto, Job
<1>8. ASSUME \A p \in Purchases : purchases'[p].status = purchases[p].status
                                  \/ purchases'[p].status \notin {"failed", "expired"},
             job'[Reconciler] = job[Reconciler], todo' = todo
      PROVE  Evidence'
  BY <1>1, <1>2, <1>8, EvidenceStays
<1>9. ASSUME NEW t \in Taps, Checkout(t) PROVE Evidence'
  <2>1. t \in Actors \ {Reconciler}  BY KindsOfActors
  <2>2. job'[Reconciler] = job[Reconciler] /\ todo' = todo
    BY <1>1, <1>3, <1>4, <1>9, <2>1
    DEF Checkout, Tap, FindOpen, AddPurchase, CreateInvoice, CreateInvoiceFails,
        ProviderUnavailable, ReadForPending, CommitPending
  <2>3. \A p \in Purchases : purchases'[p].status = purchases[p].status
                             \/ purchases'[p].status \in {"created", "pending"}
    <3>1. CASE AddPurchase(t)  BY <1>1, <3>1 DEF AddPurchase
    <3>2. CASE CommitPending(t)
      <4> DEFINE q == job[t].purchase
                 i == job[t].invoice
      <4>1. purchases' = [purchases EXCEPT ![q].status = "pending", ![q].ext = i]
        BY <3>2 DEF CommitPending
      <4> HIDE DEF q, i
      <4>2. QED  BY <1>1, <4>1 DEF Row
    <3>3. CASE UNCHANGED purchases  BY <3>3
    <3>4. QED
      BY <1>9, <3>1, <3>2, <3>3
      DEF Checkout, Tap, FindOpen, CreateInvoice, CreateInvoiceFails, ProviderUnavailable,
          ReadForPending
  <2>4. QED  BY <1>8, <2>2, <2>3
<1>10. ASSUME NEW t \in Taps, Close(t) PROVE Evidence'
  <2>1. t \in Actors \ {Reconciler} /\ t # Reconciler  BY KindsOfActors
  <2>2. job'[Reconciler] = job[Reconciler] /\ todo' = todo
    BY <1>4, <1>10, <2>1 DEF Close, ReadForClose, CommitClose
  <2>3. \A p \in Purchases : purchases'[p].status = purchases[p].status
                             \/ purchases'[p].status = "cancelled"
    <3>1. CASE CommitClose(t)
      <4>1. purchases' = [purchases EXCEPT ![job[t].purchase].status = "cancelled"]
        BY <2>1, <3>1 DEF CommitClose, CloseStatus
      <4>2. QED  BY <1>1, <4>1 DEF Row
    <3>2. CASE ReadForClose(t)  BY <3>2 DEF ReadForClose
    <3>3. QED  BY <1>10, <3>1, <3>2 DEF Close
  <2>4. QED  BY <1>8, <2>2, <2>3
<1>11. CASE Close(Reconciler)
  <2>1. CASE ReadForClose(Reconciler)
    <3>1. At(Reconciler, "close") /\ UNCHANGED <<purchases, invoices>>  BY <2>1 DEF ReadForClose
    <3>2. CASE Finish(Reconciler) \/ Raise(Reconciler)
      BY <1>1, <1>2, <1>5, <1>6, <3>1, <3>2, EvidenceStays DEF At
    <3>3. CASE Goto(Reconciler, "close_commit") /\ UNCHANGED todo
      BY <1>1, <1>2, <1>7, <3>1, <3>3, EvidenceStays DEF At
    <3>4. QED  BY <2>1, <3>2, <3>3 DEF ReadForClose
  <2>2. CASE CommitClose(Reconciler)
    <3> DEFINE q == job[Reconciler].purchase
    <3>1. ExpiredSeen(q)  BY <2>2 DEF CommitClose, Evidence, At
    <3>2. /\ purchases' = [purchases EXCEPT ![q].status = "expired"]
          /\ UNCHANGED invoices /\ Finish(Reconciler) /\ job[Reconciler].pc = "close_commit"
      BY <2>2 DEF CommitClose, CloseStatus, At
    <3> HIDE DEF q
    <3>3. job'[Reconciler].pc = "next" /\ todo' = todo  BY <1>6, <3>2
    <3>4. \A p \in Purchases : /\ Status(p)' # "failed"
                               /\ Status(p)' = "expired" => ExpiredSeen(p)'
      BY <1>1, <1>2, <3>1, <3>2 DEF Evidence, Status, Row
    <3>5. \A x \in todo' : x.status = "paid" \/ (x.status = "expired" /\ ExpiredSeen(x.purchase)')
      BY <1>1, <1>2, <3>2, <3>3 DEF Evidence, Polled
    <3>6. QED  BY <3>3, <3>4, <3>5 DEF Evidence, ExpiredSeen
  <2>3. QED  BY <1>11, <2>1, <2>2 DEF Close
<1>12. ASSUME NEW h \in Hooks, Webhook(h) \/ \E i \in Invoices, v \in BOOLEAN : HookDelivered(h, i, v)
       PROVE  Evidence'
  <2>1. h \in Actors \ {Reconciler}  BY KindsOfActors
  <2>2. job'[Reconciler] = job[Reconciler] /\ todo' = todo
    BY <1>1, <1>3, <1>4, <1>12, <2>1
    DEF Webhook, HookRecords, HookChecks, HookMarksProcessed, HookDelivered, Raise
  <2>3. UNCHANGED purchases
    BY <1>12 DEF Webhook, HookRecords, HookChecks, HookMarksProcessed, HookDelivered
  <2>4. QED  BY <1>8, <2>2, <2>3
<1>13. CASE Snapshot
  <2>1. job'[Reconciler].pc = "poll" /\ UNCHANGED <<purchases, invoices>>
    BY <1>7, <1>13 DEF Snapshot
  <2>2. QED  BY <2>1 DEF Evidence, Status, ExpiredSeen
<1>14. CASE Poll
  <2>1. job'[Reconciler].pc = "next" /\ UNCHANGED <<purchases, invoices>>
    BY <1>7, <1>14 DEF Poll
  <2>2. ASSUME NEW x \in todo'
        PROVE  x.status = "paid" \/ (x.status = "expired" /\ ExpiredSeen(x.purchase)')
    <3>1. PICK y \in todo : /\ invoices[y.invoice].status \in {"paid", "expired"}
                            /\ x = [y EXCEPT !.status = invoices[y.invoice].status]
      BY <1>14, <2>2 DEF Poll
    <3>2. /\ y.invoice \in Invoices /\ invoices[y.invoice].payload = y.purchase
          /\ x.status = invoices[y.invoice].status /\ x.purchase = y.purchase
      BY <1>1, <3>1 DEF IInv, InFlight, BatchHolds, Polled
    <3>3. QED  BY <2>1, <3>1, <3>2 DEF ExpiredSeen
  <2>3. QED  BY <2>1, <2>2 DEF Evidence, Status, ExpiredSeen
<1>15. CASE PollFails
  <2>1. Raise(Reconciler) /\ UNCHANGED <<purchases, invoices>>  BY <1>15 DEF PollFails
  <2>2. QED  BY <1>1, <1>2, <1>5, <2>1, EvidenceStays
<1>16. CASE NextInvoice
  <2>1. At(Reconciler, "next") /\ UNCHANGED <<purchases, invoices>>  BY <1>16 DEF NextInvoice
  <2>2. CASE Raise(Reconciler)
    BY <1>1, <1>2, <1>5, <2>1, <2>2, EvidenceStays
  <2>3. ASSUME NEW x \in todo, todo' = todo \ {x},
               job' = [job EXCEPT ![Reconciler] =
                   [pc |-> IF x.status = "paid" THEN "fresh" ELSE "close",
                    purchase |-> x.purchase, invoice |-> x.invoice]]
        PROVE  Evidence'
    <3>1. x.status = "paid" \/ (x.status = "expired" /\ ExpiredSeen(x.purchase))
      BY <2>1 DEF Evidence, At
    <3>2. /\ job'[Reconciler].pc = (IF x.status = "paid" THEN "fresh" ELSE "close")
          /\ job'[Reconciler].purchase = x.purchase
      BY <1>1, <1>3, <2>3
    <3>3. job'[Reconciler].pc \in {"close", "close_commit"} =>
            ExpiredSeen(job'[Reconciler].purchase)
      BY <3>1, <3>2
    <3>4. \A y \in todo' : y.status = "paid" \/ (y.status = "expired" /\ ExpiredSeen(y.purchase))
      BY <2>1, <2>3 DEF Evidence, At
    <3>5. QED  BY <2>1, <3>3, <3>4 DEF Evidence, Status, ExpiredSeen
  <2>4. QED  BY <1>16, <2>2, <2>3 DEF NextInvoice
<1>17. CASE ReadFresh
  <2>1. At(Reconciler, "fresh") /\ UNCHANGED <<purchases, invoices>>  BY <1>17 DEF ReadFresh
  <2>2. job'[Reconciler].pc \in {"next", "mark_paid"} /\ todo' = todo
    BY <1>6, <1>7, <1>17 DEF ReadFresh
  <2>3. QED  BY <1>1, <1>2, <2>1, <2>2, EvidenceStays DEF At
<1>18. ASSUME NEW s \in Settlers, MarkPaid(s) PROVE Evidence'
  <2>1. \A p \in Purchases : purchases'[p].status = purchases[p].status
                             \/ purchases'[p].status = "paid"
    <3>1. CASE SettleCommits(s)
      <4> DEFINE q == job[s].purchase
                 i == job[s].invoice
      <4>1. purchases' = [purchases EXCEPT ![q].status = "paid", ![q].ext = i]
        BY <3>1 DEF SettleCommits
      <4> HIDE DEF q, i
      <4>2. QED  BY <1>1, <4>1 DEF Row
    <3>2. CASE UNCHANGED purchases  BY <3>2
    <3>3. QED
      BY <1>18, <3>1, <3>2
      DEF MarkPaid, MarkPaidReads, ActivateReads, ActivateCommits, SettleReads, Confirm
  <2>2. s \in Actors /\ (s \notin Hooks => s = Reconciler)  BY KindsOfActors DEF Settlers
  <2>3. /\ job[s].pc \in {"mark_paid", "activate", "grant", "settle", "settle_commit", "confirm"}
        /\ \/ Raise(s) \/ Finish(s)
           \/ \E pc \in {"processed", "confirm", "activate", "grant", "settle", "settle_commit"} :
                Goto(s, pc) /\ UNCHANGED todo
    BY <1>18
    DEF MarkPaid, MarkPaidReads, ActivateReads, ActivateCommits, SettleReads, SettleCommits,
        Confirm, ReturnPaid, IllegalTransition, At
  <2>4. CASE s # Reconciler  BY <1>4, <1>8, <2>1, <2>2, <2>3, <2>4
  <2>5. CASE s = Reconciler
    <3>1. /\ job'[Reconciler].pc \notin {"close", "close_commit"} /\ todo' \subseteq todo
          /\ job[Reconciler].pc # "poll"
      BY <1>5, <1>6, <1>7, <2>3, <2>5
    <3>2. QED  BY <1>1, <1>2, <2>1, <3>1, EvidenceStays
  <2>6. QED  BY <2>4, <2>5
<1>19. ASSUME NEW i \in Invoices, Pay(i) \/ InvoiceExpires(i) PROVE Evidence'
  BY <1>8, <1>19 DEF Pay, InvoiceExpires
<1>20. CASE Restart
  <2>1. job'[Reconciler].pc = "idle" /\ todo' = {} /\ UNCHANGED purchases
    BY <1>3, <1>20 DEF Restart, Idle
  <2>2. QED  BY <1>1, <1>2, <2>1, EvidenceStays
<1>21. CASE UNCHANGED vars  BY <1>8, <1>21 DEF vars
<1>22. QED
  BY <1>9, <1>10, <1>11, <1>12, <1>13, <1>14, <1>15, <1>16, <1>17, <1>18, <1>19, <1>20, <1>21
  DEF Next, Reconcile

(* A payment is refused for good only where the shop was closed between two *)
(* taps or another invoice of the purchase expired.                         *)
THEOREM RefusalsAreKnown == Spec => []PaidIsRefusedKnowingly
<1>1. Init => Evidence
  BY KindsOfActors DEF Init, Evidence, Status, Idle
<1>2. IInv /\ Evidence => PaidIsRefusedKnowingly
  <2> SUFFICES ASSUME IInv, Evidence, NEW i \in Invoices, invoices[i].status = "paid",
                      Status(invoices[i].payload) \in Closed,
                      billing[invoices[i].payload] = 0,
                      Status(invoices[i].payload) # "cancelled"
               PROVE  \E j \in Invoices \ {i} : /\ invoices[j].payload = invoices[i].payload
                                                /\ invoices[j].status = "expired"
    BY DEF PaidIsRefusedKnowingly
  <2> DEFINE p == invoices[i].payload
  <2>1. p \in Purchases
    BY DEF IInv, TypeOK, Invoice, Data, InvoicesBelong
  <2>2. Status(p) = "expired"
    BY <2>1 DEF IInv, Data, PaidImpliesGranted, Evidence, Closed
  <2>3. PICK j \in Invoices : invoices[j].payload = p /\ invoices[j].status = "expired"
    BY <2>1, <2>2 DEF Evidence, ExpiredSeen
  <2>4. QED  BY <2>3
<1>3. QED  BY <1>1, <1>2, Inductive, EvidenceStep, PTL DEF Spec

-----------------------------------------------------------------------------
(* The abstract promise. *)

Buyers  == [p \in Purchases |-> purchases[p].owner]
Granted == {p \in Purchases : billing[p] > 0}
Pro     == {u \in Users : tier[u] = "pro"}

LEMMA PromiseStep ==
  ASSUME IInv, [Next]_vars
  PROVE  [Promise!Next]_(Promise!evars)
<1> USE DEF Promise!Next, Promise!evars, Promise!Begin, Promise!Charge, Promise!Grant
<1>0. ASSUME Buyers' = Buyers, Charged' = Charged, Granted' = Granted, Pro' = Pro
      PROVE  [Promise!Next]_(Promise!evars)
  BY <1>0 DEF Buyers, Granted, Pro
<1>1. ASSUME \A p \in Purchases : purchases'[p].owner = purchases[p].owner,
             \A i \in Invoices :
                /\ (invoices'[i].status = "paid") <=> (invoices[i].status = "paid")
                /\ invoices[i].status = "paid" => invoices'[i].payload = invoices[i].payload,
             UNCHANGED <<billing, tier>>
      PROVE  [Promise!Next]_(Promise!evars)
  <2>1. Buyers' = Buyers /\ Charged' = Charged /\ Granted' = Granted /\ Pro' = Pro
    BY <1>1 DEF Buyers, Charged, Granted, Pro
  <2>2. QED  BY <1>0, <2>1
<1>2. ASSUME NEW t \in Taps, AddPurchase(t) PROVE [Promise!Next]_(Promise!evars)
  <2>1. PICK p \in Purchases :
          /\ Status(p) = "absent"
          /\ purchases' = [purchases EXCEPT ![p] =
                [status |-> "created", owner |-> TapUser[t], ext |-> None]]
    <3>1. \A p \in Purchases : p >= p  BY PurchaseBound DEF Purchases
    <3>2. QED  BY <1>2, <3>1 DEF AddPurchase
  <2>2. Buyers' = [Buyers EXCEPT ![p] = TapUser[t]]
    BY <2>1 DEF Buyers, IInv, TypeOK
  <2>3. Buyers[p] = None /\ TapUser[t] \in Users
    BY <1>2, <2>1, TapsHaveUsers DEF Buyers, IInv, Data, RowsOwned
  <2>4. Charged' = Charged /\ Granted' = Granted /\ Pro' = Pro
    BY <1>2 DEF AddPurchase, outside, Charged, Granted, Pro
  <2>5. QED  BY <2>2, <2>3, <2>4 DEF Buyers, Granted, Pro
<1>3. ASSUME NEW i \in Invoices, Pay(i) PROVE [Promise!Next]_(Promise!evars)
  <2> DEFINE p == invoices[i].payload
  <2>1. p \in Purchases /\ Status(p) # "absent"
    BY <1>3 DEF Pay, IInv, Data, InvoicesBelong, TypeOK, Invoice
  <2>2. Buyers[p] # None
    BY <2>1 DEF Buyers, IInv, Data, RowsOwned
  <2>3. invoices' = [invoices EXCEPT ![i].status = "paid"] /\ UNCHANGED <<purchases, billing, tier>>
    BY <1>3 DEF Pay, database
  <2>4. \A j \in Invoices :
          /\ invoices'[j].payload = invoices[j].payload
          /\ (invoices'[j].status = "paid") <=> (invoices[j].status = "paid" \/ j = i)
    BY <2>3 DEF IInv, TypeOK, Invoice
  <2> HIDE DEF p
  <2>5. Charged' = Charged \cup {p}
    BY <2>1, <2>4 DEF Charged, p
  <2>6. Buyers' = Buyers /\ Granted' = Granted /\ Pro' = Pro
    BY <2>3 DEF Buyers, Granted, Pro
  <2>7. QED  BY <2>1, <2>2, <2>5, <2>6 DEF Buyers, Granted, Pro
<1>4. ASSUME NEW s \in Settlers, ActivateCommits(s) PROVE [Promise!Next]_(Promise!evars)
  <2> DEFINE p == job[s].purchase
             u == purchases[p].owner
  <2>1. CASE billing[p] > 0
    <3>1. billing[p] # 0
      BY <2>1
    <3>2. UNCHANGED <<purchases, invoices, billing, tier>>
      BY <1>4, <3>1 DEF ActivateCommits, outside
    <3>3. QED  BY <1>1, <3>2
  <2>2. CASE billing[p] = 0
    <3>1. /\ p \in Purchases /\ job[s].invoice \in Invoices
          /\ invoices[job[s].invoice].status = "paid"
          /\ invoices[job[s].invoice].payload = p
      BY <1>4 DEF ActivateCommits, IInv, InFlight, SettlerHolds, Handling, At
    <3>2. p \in Charged \ Granted
      BY <2>2, <3>1 DEF Charged, Granted
    <3>3. u \in Users
      BY <3>1 DEF IInv, Data, InvoicesBelong, RowsOwned, TypeOK, Row
    <3>4. /\ billing' = [billing EXCEPT ![p] = 1] /\ tier' = [tier EXCEPT ![u] = "pro"]
          /\ UNCHANGED <<purchases, invoices>>
      BY <1>4, <2>2 DEF ActivateCommits, outside
    <3>5. Buyers[p] = u  BY <3>1 DEF Buyers
    <3> HIDE DEF p, u
    <3>6. Granted' = Granted \cup {p}  BY <3>1, <3>4 DEF Granted, IInv, TypeOK
    <3>7. Pro' = Pro \cup {u}  BY <3>3, <3>4 DEF Pro, IInv, TypeOK
    <3>8. Buyers' = Buyers /\ Charged' = Charged  BY <3>4 DEF Buyers, Charged
    <3>9. QED  BY <3>1, <3>2, <3>5, <3>6, <3>7, <3>8 DEF Buyers, Granted, Pro
  <2>3. QED  BY <1>4, <2>1, <2>2 DEF ActivateCommits
<1>5. ASSUME NEW t \in Taps, CreateInvoice(t) PROVE [Promise!Next]_(Promise!evars)
  <2>1. PICK i \in Invoices :
          /\ invoices[i].status = "absent"
          /\ invoices' = [invoices EXCEPT ![i] =
                [status |-> "issued", payload |-> job[t].purchase, amount |-> offer]]
    BY <1>5 DEF CreateInvoice
  <2>2. \A j \in Invoices :
          /\ (invoices'[j].status = "paid") <=> (invoices[j].status = "paid")
          /\ invoices[j].status = "paid" => invoices'[j].payload = invoices[j].payload
    BY <2>1 DEF IInv, TypeOK
  <2>3. QED  BY <1>1, <1>5, <2>2 DEF CreateInvoice, database
<1>6. ASSUME NEW t \in Taps, ReadForPending(t) \/ CommitPending(t)
      PROVE  [Promise!Next]_(Promise!evars)
  <2>1. \A p \in Purchases : purchases'[p].owner = purchases[p].owner
    BY <1>6 DEF ReadForPending, CommitPending, database, IInv, TypeOK, Row
  <2>2. invoices' = invoices \/ invoices' = Shown(job[t].invoice)
    BY <1>6 DEF ReadForPending, CommitPending
  <2>3. \A i \in Invoices :
          /\ Shown(job[t].invoice)[i].payload = invoices[i].payload
          /\ (Shown(job[t].invoice)[i].status = "paid") <=> (invoices[i].status = "paid")
    BY DEF Shown, IInv, TypeOK, Invoice
  <2>4. UNCHANGED <<billing, tier>>
    BY <1>6 DEF ReadForPending, CommitPending, database
  <2>5. QED  BY <1>1, <2>1, <2>2, <2>3, <2>4
<1>7. ASSUME NEW a, CommitClose(a) \/ SettleCommits(a) PROVE [Promise!Next]_(Promise!evars)
  <2>1. UNCHANGED <<billing, tier, invoices>>
    BY <1>7 DEF CommitClose, SettleCommits, outside
  <2>2. ASSUME CommitClose(a) PROVE \A p \in Purchases : purchases'[p].owner = purchases[p].owner
    BY <2>2 DEF CommitClose, IInv, TypeOK, Row
  <2>3. ASSUME SettleCommits(a) PROVE \A p \in Purchases : purchases'[p].owner = purchases[p].owner
    BY <2>3 DEF SettleCommits, IInv, TypeOK, Row
  <2>4. QED  BY <1>1, <1>7, <2>1, <2>2, <2>3
<1>8. ASSUME NEW i \in Invoices, InvoiceExpires(i) PROVE [Promise!Next]_(Promise!evars)
  <2>1. \A j \in Invoices :
          /\ (invoices'[j].status = "paid") <=> (invoices[j].status = "paid")
          /\ invoices'[j].payload = invoices[j].payload
    BY <1>8 DEF InvoiceExpires, IInv, TypeOK, Invoice
  <2>2. QED  BY <1>1, <1>8, <2>1 DEF InvoiceExpires, database
<1>9. CASE UNCHANGED <<purchases, invoices, billing, tier>>
  BY <1>1, <1>9
<1>10. QED
  BY <1>2, <1>3, <1>4, <1>5, <1>6, <1>7, <1>8, <1>9
  DEF Next, vars, database, outside, Checkout, Tap, FindOpen, CreateInvoiceFails,
      ProviderUnavailable, Close, ReadForClose, Webhook, HookRecords, HookChecks,
      HookMarksProcessed, HookDelivered, Reconcile, Snapshot, NextInvoice, ReadFresh, Poll,
      PollFails, MarkPaid, MarkPaidReads, ActivateReads, SettleReads, Confirm, Restart

(* Checkout, webhook and reconciler together implement Entitlement: access  *)
(* is granted to the buyer of a paid purchase, once, and not by them taken  *)
(* back.                                                                    *)
THEOREM Implements == Spec => KeepsPromise
<1>1. Init => Promise!Init
  BY DEF Init, Promise!Init, Charged
<1>2. IInv /\ [Next]_vars => [Promise!Next]_(Promise!evars)
  BY PromiseStep
<1>3. QED  BY <1>1, <1>2, Inductive, PTL DEF Spec, KeepsPromise, Promise!Spec
=============================================================================
