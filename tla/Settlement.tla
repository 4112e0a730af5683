---------------------------- MODULE Settlement ----------------------------
(***************************************************************************)
(* Buying Pro Lifetime: checkout, the Crypto Pay webhook, the polling      *)
(* reconciler, and the activation they share.                              *)
(*                                                                         *)
(* The bot is one asyncio process; every `async with db.session()` block   *)
(* is a PostgreSQL transaction at the default READ COMMITTED level, and    *)
(* the code takes no row locks.  A block that reads a row, decides and     *)
(* writes is therefore two steps here, a read and a commit, and the steps  *)
(* of several handlers interleave.  A write touches only the columns the   *)
(* block assigns (SQLAlchemy sends the changed columns alone).             *)
(*                                                                         *)
(* The other writers of a user's tier, saves of a profile loaded earlier   *)
(* and administrators, are added in Membership.                            *)
(***************************************************************************)
EXTENDS Naturals

CONSTANTS
    Users,
    MaxPurchases,   \* bound: rows of the purchases table
    Invoices,       \* invoices the provider can issue; each has one update id
    Taps,           \* concurrent executions of the Buy handler
    Hooks,          \* concurrent executions of the webhook handler
    Reconciler,     \* the reconciler's scheduler tick (there is one)
    TapUser,        \* [Taps -> Users]: who pressed Buy
    Prices,         \* configured prices a deployment may run with
    ComingSoon,     \* a deployment without CRYPTO_PAY_TOKEN
    None,
    MaxCrashes      \* bound: process restarts

Purchases == 1..MaxPurchases
Settlers  == Hooks \cup {Reconciler}
Actors    == Taps \cup Settlers

ASSUME PurchaseBound == MaxPurchases \in Nat /\ MaxCrashes \in Nat
ASSUME TapsHaveUsers == TapUser \in [Taps -> Users]
ASSUME ActorsDistinct ==
    /\ Taps \cap Hooks = {}
    /\ Reconciler \notin Taps \cup Hooks
ASSUME NoneIsNothing ==
    /\ None \notin Invoices \cup Users \cup Purchases \cup Prices
    /\ ComingSoon \notin Prices

VARIABLES
    purchases,   \* the purchases table
    invoices,    \* Crypto Pay's side: the invoices it has issued
    history,     \* payment_events rows that carry an update id
    billing,     \* subscription_events: rows recorded under "purchase:<id>"
    tier,        \* subscriptions.tier
    confirmed,   \* "Payment received!" messages sent per purchase
    job,         \* where each handler is, and what it holds
    todo,        \* the reconciler tick's batch
    offer,       \* this deployment's price, or ComingSoon
    crashes

vars == <<purchases, invoices, history, billing, tier, confirmed, job, todo,
          offer, crashes>>
database == <<purchases, history, billing, tier>>
outside  == <<invoices, offer, crashes>>

-----------------------------------------------------------------------------
(* The purchase lifecycle of domain/purchase.py. *)

Open   == {"created", "pending"}
Closed == {"paid", "failed", "cancelled", "expired"}
Statuses == Open \cup Closed

CanTransition(from, to) ==
    \/ from = "created" /\ to \in Statuses \ {"created"}
    \/ from = "pending" /\ to \in Closed

Idle == [pc |-> "idle", purchase |-> None, invoice |-> None]

Status(p) == purchases[p].status
At(a, pc) == job[a].pc = pc

Goto(a, pc) == job' = [job EXCEPT ![a].pc = pc]

(* An exception nobody catches ends the handler, or the reconciler's tick. *)
Raise(a) ==
    /\ job' = [job EXCEPT ![a] = Idle]
    /\ todo' = IF a = Reconciler THEN {} ELSE todo

(* A handler that is done; the reconciler turns to its next invoice. *)
Finish(a) ==
    /\ job' = [job EXCEPT ![a] = IF a = Reconciler THEN [Idle EXCEPT !.pc = "next"]
                                                   ELSE Idle]
    /\ UNCHANGED todo

-----------------------------------------------------------------------------
(* Checkout: PurchaseService.start_checkout, mark_pending. *)

(* open_checkout refuses a profile that is already Pro. *)
Tap(t) ==
    /\ At(t, "idle")
    /\ tier[TapUser[t]] = "free"
    /\ Goto(t, "open")
    /\ UNCHANGED <<database, outside, confirmed, todo>>

OpenOf(u) == {p \in Purchases : Status(p) \in Open /\ purchases[p].owner = u}

(* latest_open: rows are numbered in the order they were added. *)
FindOpen(t) ==
    /\ At(t, "open")
    /\ LET mine == OpenOf(TapUser[t]) IN
         \/ /\ mine = {}
            /\ Goto(t, "add")
         \/ \E p \in mine :
              /\ \A q \in mine : q <= p
              /\ job' = [job EXCEPT ![t].pc = "invoice", ![t].purchase = p]
    /\ UNCHANGED <<database, outside, confirmed, todo>>

AddPurchase(t) ==
    /\ At(t, "add")
    /\ \E p \in Purchases :
         /\ \A q \in Purchases : (Status(q) = "absent") <=> (q >= p)
         /\ purchases' = [purchases EXCEPT ![p] =
                [status |-> "created", owner |-> TapUser[t], ext |-> None]]
         /\ job' = [job EXCEPT ![t].pc = "invoice", ![t].purchase = p]
    /\ UNCHANGED <<history, billing, tier, outside, confirmed, todo>>

(* provider.create_invoice, outside any transaction. *)
CreateInvoice(t) ==
    /\ At(t, "invoice")
    /\ offer # ComingSoon
    /\ \E i \in Invoices :
         /\ invoices[i].status = "absent"
         /\ invoices' = [invoices EXCEPT ![i] =
                [status |-> "issued", payload |-> job[t].purchase, amount |-> offer]]
         /\ job' = [job EXCEPT ![t].pc = "pend", ![t].invoice = i]
    /\ UNCHANGED <<database, offer, crashes, confirmed, todo>>

(* CryptoPayError is not caught: the row stays CREATED. *)
CreateInvoiceFails(t) ==
    /\ At(t, "invoice")
    /\ offer # ComingSoon
    /\ Raise(t)
    /\ UNCHANGED <<database, outside, confirmed>>

(* The placeholder raises PaymentProviderUnavailable: the row is closed. *)
ProviderUnavailable(t) ==
    /\ At(t, "invoice")
    /\ offer = ComingSoon
    /\ Goto(t, "close")
    /\ UNCHANGED <<database, outside, confirmed, todo>>

(* The pay link reaches the user: from here on the invoice can be paid. *)
Shown(i) == [invoices EXCEPT ![i].status = IF @ = "issued" THEN "shown" ELSE @]

(* mark_pending returns early on a PENDING row: its invoice id is kept, the *)
(* new invoice is not recorded, and the new pay link is shown all the same. *)
ReadForPending(t) ==
    /\ At(t, "pend")
    /\ LET st == Status(job[t].purchase) IN
         \/ /\ st = "pending"
            /\ invoices' = Shown(job[t].invoice)
            /\ Finish(t)
         \/ /\ st # "pending" /\ CanTransition(st, "pending")
            /\ Goto(t, "pend_commit")
            /\ UNCHANGED <<invoices, todo>>
         \/ /\ st # "pending" /\ ~CanTransition(st, "pending")
            /\ Raise(t)
            /\ UNCHANGED invoices
    /\ UNCHANGED <<database, offer, crashes, confirmed>>

CommitPending(t) ==
    /\ At(t, "pend_commit")
    /\ purchases' = [purchases EXCEPT ![job[t].purchase].status = "pending",
                                      ![job[t].purchase].ext = job[t].invoice]
    /\ invoices' = Shown(job[t].invoice)
    /\ Finish(t)
    /\ UNCHANGED <<history, billing, tier, offer, crashes, confirmed>>

-----------------------------------------------------------------------------
(* PurchaseService._close: checkout cancels, the reconciler expires. *)

CloseStatus(a) == IF a = Reconciler THEN "expired" ELSE "cancelled"

ReadForClose(a) ==
    /\ At(a, "close")
    /\ LET st == Status(job[a].purchase) IN
         \/ st = CloseStatus(a) /\ Finish(a)
         \/ /\ CanTransition(st, CloseStatus(a))
            /\ Goto(a, "close_commit")
            /\ UNCHANGED todo
         \/ /\ st # CloseStatus(a) /\ ~CanTransition(st, CloseStatus(a))
            /\ Raise(a)
    /\ UNCHANGED <<database, outside, confirmed>>

CommitClose(a) ==
    /\ At(a, "close_commit")
    /\ purchases' = [purchases EXCEPT ![job[a].purchase].status = CloseStatus(a)]
    /\ Finish(a)
    /\ UNCHANGED <<history, billing, tier, outside, confirmed>>

-----------------------------------------------------------------------------
(* CryptoPayWebhookHandler.handle for an invoice_paid update. *)

(* A delivery (or redelivery).  Crypto Pay signs an update once the invoice *)
(* is paid; a body whose signature does not verify may claim so too early.  *)
(* A verified update whose id is in history is answered "duplicate".        *)
HookDelivered(h, i, valid) ==
    /\ At(h, "idle")
    /\ offer # ComingSoon
    /\ invoices[i].status # "absent"
    /\ valid => invoices[i].status = "paid"
    /\ valid => history[i] = "absent"
    /\ job' = [job EXCEPT ![h] =
           [pc |-> IF valid THEN "record" ELSE "record_invalid",
            purchase |-> None, invoice |-> i]]
    /\ UNCHANGED <<database, outside, confirmed, todo>>

(* The event row is committed before anything is settled; (provider,       *)
(* update_id) is unique, so a second insert raises.                        *)
HookRecords(h) ==
    /\ job[h].pc \in {"record", "record_invalid"}
    /\ LET i == job[h].invoice IN
         \/ /\ history[i] # "absent"
            /\ Raise(h)
            /\ UNCHANGED history
         \/ /\ history[i] = "absent"
            /\ history' = [history EXCEPT ![i] =
                   IF At(h, "record") THEN "recorded" ELSE "unverified"]
            /\ IF At(h, "record")
               THEN job' = [job EXCEPT ![h].pc = "check",
                                       ![h].purchase = invoices[i].payload]
               ELSE job' = [job EXCEPT ![h] = Idle]
            /\ UNCHANGED todo
    /\ UNCHANGED <<purchases, billing, tier, outside, confirmed>>

(* The amount must be the configured price, and the row not PAID already. *)
HookChecks(h) ==
    /\ At(h, "check")
    /\ LET ok == /\ invoices[job[h].invoice].amount = offer
                 /\ Status(job[h].purchase) # "paid" IN
         \/ ok /\ Goto(h, "mark_paid") /\ UNCHANGED todo
         \/ ~ok /\ Finish(h)
    /\ UNCHANGED <<database, outside, confirmed>>

HookMarksProcessed(h) ==
    /\ At(h, "processed")
    /\ history' = [history EXCEPT ![job[h].invoice] = "processed"]
    /\ Goto(h, "confirm")
    /\ UNCHANGED <<purchases, billing, tier, outside, confirmed, todo>>

-----------------------------------------------------------------------------
(* PaymentReconciler.run_once and _settle. *)


RecordedPending ==
    {p \in Purchases : Status(p) = "pending" /\ purchases[p].ext # None}

Snapshot ==
    /\ At(Reconciler, "idle")
    /\ offer # ComingSoon
    /\ RecordedPending # {}
    /\ todo' = {[purchase |-> p, invoice |-> purchases[p].ext, status |-> "unknown"] :
                  p \in RecordedPending}
    /\ Goto(Reconciler, "poll")
    /\ UNCHANGED <<database, outside, confirmed>>

(* Mutant: an invoice that is not paid counts as expired. *)
PollPaidOrNot ==
    /\ At(Reconciler, "poll")
    /\ todo' = {[x EXCEPT !.status = invoices[x.invoice].status] : x \in todo}
    /\ Goto(Reconciler, "next")
    /\ UNCHANGED <<database, outside, confirmed>>

(* What get_invoices says now is acted on later, one invoice at a time. *)
Poll ==
    /\ At(Reconciler, "poll")
    /\ todo' = {[x EXCEPT !.status = invoices[x.invoice].status] :
                  x \in {y \in todo : invoices[y.invoice].status \in {"paid", "expired"}}}
    /\ Goto(Reconciler, "next")
    /\ UNCHANGED <<database, outside, confirmed>>

PollFails ==
    /\ At(Reconciler, "poll")
    /\ Raise(Reconciler)
    /\ UNCHANGED <<database, outside, confirmed>>

NextInvoice ==
    /\ At(Reconciler, "next")
    /\ \/ todo = {} /\ Raise(Reconciler)
       \/ \E x \in todo :
            /\ todo' = todo \ {x}
            /\ job' = [job EXCEPT ![Reconciler] =
                   [pc |-> IF x.status = "paid" THEN "fresh" ELSE "close",
                    purchase |-> x.purchase, invoice |-> x.invoice]]
    /\ UNCHANGED <<database, outside, confirmed>>

(* _settle re-reads the row; its event row carries no update id. *)
ReadFresh ==
    /\ At(Reconciler, "fresh")
    /\ IF Status(job[Reconciler].purchase) = "paid"
       THEN Finish(Reconciler)
       ELSE Goto(Reconciler, "mark_paid") /\ UNCHANGED todo
    /\ UNCHANGED <<database, outside, confirmed>>

-----------------------------------------------------------------------------
(* PurchaseService.mark_paid and SubscriptionService.activate_lifetime. *)

(* mark_paid returned a PAID row: the webhook marks its event processed,   *)
(* and both callers then send the confirmation.                            *)
ReturnPaid(s) == Goto(s, IF s = Reconciler THEN "confirm" ELSE "processed")

(* IllegalPurchaseTransition is caught by both callers. *)
IllegalTransition(s) == Finish(s)

(* Mutant: record PAID first, grant second. *)
RecordFirst(s) ==
    /\ At(s, "mark_paid")
    /\ LET st == Status(job[s].purchase) IN
         \/ st = "paid" /\ ReturnPaid(s) /\ UNCHANGED todo
         \/ st \in Open /\ Goto(s, "settle") /\ UNCHANGED todo
         \/ st \notin Open \cup {"paid"} /\ IllegalTransition(s)
    /\ UNCHANGED <<database, outside, confirmed>>

MarkPaidReads(s) ==
    /\ At(s, "mark_paid")
    /\ LET st == Status(job[s].purchase) IN
         \/ st = "paid" /\ ReturnPaid(s) /\ UNCHANGED todo
         \/ st \in Open /\ Goto(s, "activate") /\ UNCHANGED todo
         \/ st \notin Open \cup {"paid"} /\ IllegalTransition(s)
    /\ UNCHANGED <<database, outside, confirmed>>

(* payment_recorded("purchase:<id>"). *)
ActivateReads(s) ==
    /\ At(s, "activate")
    /\ Goto(s, IF billing[job[s].purchase] > 0 THEN "settle" ELSE "grant")
    /\ UNCHANGED <<database, outside, confirmed, todo>>

(* Mutant: the billing row is committed on its own, and the handler fails   *)
(* before the profile is saved.                                             *)
ActivateInTwo(s) ==
    /\ At(s, "grant")
    /\ LET p == job[s].purchase IN
         \/ /\ billing[p] = 0
            /\ billing' = [billing EXCEPT ![p] = @ + 1]
            /\ Raise(s)
            /\ UNCHANGED tier
         \/ billing[p] > 0 /\ Raise(s) /\ UNCHANGED <<billing, tier>>
    /\ UNCHANGED <<purchases, history, outside, confirmed>>

(* Tier and billing row commit together; external_payment_id is unique, so *)
(* the loser of a race rolls back whole and raises.                        *)
ActivateCommits(s) ==
    /\ At(s, "grant")
    /\ LET p == job[s].purchase IN
         \/ /\ billing[p] = 0
            /\ billing' = [billing EXCEPT ![p] = @ + 1]
            /\ tier' = [tier EXCEPT ![purchases[p].owner] = "pro"]
            /\ Goto(s, "settle")
            /\ UNCHANGED todo
         \/ billing[p] > 0 /\ Raise(s) /\ UNCHANGED <<billing, tier>>
    /\ UNCHANGED <<purchases, history, outside, confirmed>>

SettleReads(s) ==
    /\ At(s, "settle")
    /\ LET st == Status(job[s].purchase) IN
         \/ st = "paid" /\ ReturnPaid(s) /\ UNCHANGED todo
         \/ CanTransition(st, "paid") /\ Goto(s, "settle_commit") /\ UNCHANGED todo
         \/ st # "paid" /\ ~CanTransition(st, "paid") /\ IllegalTransition(s)
    /\ UNCHANGED <<database, outside, confirmed>>

SettleCommits(s) ==
    /\ At(s, "settle_commit")
    /\ purchases' = [purchases EXCEPT ![job[s].purchase].status = "paid",
                                      ![job[s].purchase].ext = job[s].invoice]
    /\ ReturnPaid(s)
    /\ UNCHANGED <<history, billing, tier, outside, confirmed, todo>>

Confirm(s) ==
    /\ At(s, "confirm")
    /\ confirmed' = [confirmed EXCEPT ![job[s].purchase] = @ + 1]
    /\ Finish(s)
    /\ UNCHANGED <<database, outside>>

-----------------------------------------------------------------------------
(* Outside the bot: the payer, Crypto Pay, and the process supervisor. *)

Pay(i) ==
    /\ invoices[i].status = "shown"
    /\ invoices' = [invoices EXCEPT ![i].status = "paid"]
    /\ UNCHANGED <<database, offer, crashes, confirmed, job, todo>>

InvoiceExpires(i) ==
    /\ invoices[i].status \in {"issued", "shown"}
    /\ invoices' = [invoices EXCEPT ![i].status = "expired"]
    /\ UNCHANGED <<database, offer, crashes, confirmed, job, todo>>

(* Every handler dies where it is; the restart may carry another price or   *)
(* provider configuration.                                                  *)
Restart ==
    /\ crashes < MaxCrashes
    /\ crashes' = crashes + 1
    /\ job' = [a \in Actors |-> Idle]
    /\ todo' = {}
    /\ offer' \in Prices \cup {ComingSoon}
    /\ UNCHANGED <<database, invoices, confirmed>>

-----------------------------------------------------------------------------

Init ==
    /\ purchases = [p \in Purchases |-> [status |-> "absent", owner |-> None, ext |-> None]]
    /\ invoices = [i \in Invoices |-> [status |-> "absent", payload |-> None, amount |-> None]]
    /\ history = [i \in Invoices |-> "absent"]
    /\ billing = [p \in Purchases |-> 0]
    /\ tier = [u \in Users |-> "free"]
    /\ confirmed = [p \in Purchases |-> 0]
    /\ job = [a \in Actors |-> Idle]
    /\ todo = {}
    /\ offer \in Prices \cup {ComingSoon}
    /\ crashes = 0

Checkout(t) ==
    \/ Tap(t) \/ FindOpen(t) \/ AddPurchase(t)
    \/ CreateInvoice(t) \/ CreateInvoiceFails(t) \/ ProviderUnavailable(t)
    \/ ReadForPending(t) \/ CommitPending(t)

Close(a) == ReadForClose(a) \/ CommitClose(a)

Webhook(h) == HookRecords(h) \/ HookChecks(h) \/ HookMarksProcessed(h)

Reconcile == Snapshot \/ NextInvoice \/ ReadFresh

MarkPaid(s) ==
    \/ MarkPaidReads(s) \/ ActivateReads(s) \/ ActivateCommits(s)
    \/ SettleReads(s) \/ SettleCommits(s) \/ Confirm(s)

Next ==
    \/ \E t \in Taps : Checkout(t)
    \/ \E a \in Taps \cup {Reconciler} : Close(a)
    \/ \E h \in Hooks : Webhook(h)
    \/ \E h \in Hooks, i \in Invoices, valid \in BOOLEAN : HookDelivered(h, i, valid)
    \/ Reconcile \/ Poll \/ PollFails
    \/ \E s \in Settlers : MarkPaid(s)
    \/ \E i \in Invoices : Pay(i) \/ InvoiceExpires(i)
    \/ Restart

Spec == Init /\ [][Next]_vars

(* The scheduler runs the tick for as long as the process lives, asyncio    *)
(* resumes every handler whose await has completed, and the provider's API  *)
(* answers again and again (it may fail in between).                        *)
Fairness ==
    /\ WF_vars(Reconcile) /\ SF_vars(Poll)
    /\ WF_vars(Close(Reconciler))
    /\ \A s \in Settlers : WF_vars(MarkPaid(s))

FairSpec == Spec /\ Fairness

-----------------------------------------------------------------------------
(* Properties. *)

JobPcs == {"idle", "open", "add", "invoice", "pend", "pend_commit", "close",
           "close_commit", "record", "record_invalid", "check", "processed",
           "poll", "next", "fresh", "mark_paid", "activate", "grant",
           "settle", "settle_commit", "confirm"}

Row     == [status : Statuses \cup {"absent"}, owner : Users \cup {None},
            ext : Invoices \cup {None}]
Invoice == [status : {"absent", "issued", "shown", "paid", "expired"},
            payload : Purchases \cup {None}, amount : Prices \cup {None}]
Job     == [pc : JobPcs, purchase : Purchases \cup {None}, invoice : Invoices \cup {None}]
Polled  == [purchase : Purchases, invoice : Invoices, status : {"unknown", "paid", "expired"}]

(* Every variable keeps its shape; a polled batch holds only the invoices   *)
(* run_once acts on.                                                        *)
TypeOK ==
    /\ purchases \in [Purchases -> Row]
    /\ invoices \in [Invoices -> Invoice]
    /\ history \in [Invoices -> {"absent", "unverified", "recorded", "processed"}]
    /\ billing \in [Purchases -> Nat]
    /\ tier \in [Users -> {"free", "pro"}]
    /\ confirmed \in [Purchases -> Nat]
    /\ job \in [Actors -> Job]
    /\ todo \subseteq Polled
    /\ offer \in Prices \cup {ComingSoon}
    /\ crashes \in Nat

(* "Grant first, record second": no row is PAID unless its entitlement was  *)
(* committed before, whoever settles it and wherever a restart falls.       *)
PaidImpliesGranted == \A p \in Purchases : Status(p) = "paid" => billing[p] = 1

(* Webhook, redelivery and reconciler racing on one purchase never record   *)
(* its revenue, or grant it, twice.                                         *)
GrantedOnce == \A p \in Purchases : billing[p] <= 1

(* Only a payment grants: every activation is backed by an invoice of that  *)
(* very purchase which the provider has been paid.                          *)
GrantIsPaidFor ==
    \A p \in Purchases : billing[p] > 0 =>
        \E i \in Invoices : invoices[i].status = "paid" /\ invoices[i].payload = p

(* "Payment received!" is never sent to someone who was not granted.        *)
ConfirmedImpliesGranted ==
    \A p \in Purchases : confirmed[p] > 0 => billing[p] = 1

(* Tier and billing agree while only payments write the tier: a user is Pro *)
(* exactly when a purchase of theirs was activated, whichever activation    *)
(* lost its race.  (Membership shows what other writers do to it.)          *)
ProExactlyIfGranted ==
    \A u \in Users : tier[u] = "pro" <=>
        \E p \in Purchases : purchases[p].owner = u /\ billing[p] > 0

Handling(h) == job[h].pc \in {"check", "mark_paid", "activate", "grant", "settle",
                              "settle_commit", "processed", "confirm"}

(* One provider update is carried past the history insert by one delivery   *)
(* at most, although the duplicate check and the insert are two             *)
(* transactions.                                                            *)
UpdateHandledOnce ==
    \A g, h \in Hooks : g # h /\ Handling(g) /\ Handling(h) => job[g].invoice # job[h].invoice

(* A payment can be refused for good in two situations only, however        *)
(* checkouts, callbacks, polls and restarts interleave: the shop was closed *)
(* between two taps and the second cancelled the open purchase, or another  *)
(* invoice of the same purchase expired.  An invoice that is merely unpaid, *)
(* a stale poll or another purchase's expiry closes nothing.                *)
PaidIsRefusedKnowingly ==
    \A i \in Invoices : invoices[i].status = "paid" =>
        LET p == invoices[i].payload IN
        Status(p) \in Closed /\ billing[p] = 0 =>
            \/ Status(p) = "cancelled"
            \/ \E j \in Invoices \ {i} :
                  invoices[j].payload = p /\ invoices[j].status = "expired"


(* The payment side, on its own, implements the abstract promise.           *)
Charged == {p \in Purchases :
              \E i \in Invoices : invoices[i].status = "paid" /\ invoices[i].payload = p}

Promise == INSTANCE Entitlement WITH
    buyer   <- [p \in Purchases |-> purchases[p].owner],
    charged <- Charged,
    granted <- {p \in Purchases : billing[p] > 0},
    pro     <- {u \in Users : tier[u] = "pro"}

KeepsPromise == Promise!Spec

(* Tapping Buy again, once the first tap is answered, reuses the open       *)
(* purchase instead of adding another.  (Two taps at once do add two: no    *)
(* constraint forbids it, so this holds for one tap at a time.)             *)
OneOpenPurchase ==
    \A p, q \in Purchases :
        Status(p) \in Open /\ Status(q) \in Open /\ purchases[p].owner = purchases[q].owner
            => p = q

-----------------------------------------------------------------------------
(* What the handlers in flight rely on: the properties above are inductive  *)
(* together with it.                                                        *)

RowsOwned == \A p \in Purchases : (Status(p) = "absent") <=> (purchases[p].owner = None)

InvoicesBelong == \A i \in Invoices :
    /\ (invoices[i].status = "absent") <=> (invoices[i].payload = None)
    /\ invoices[i].payload \in Purchases => Status(invoices[i].payload) # "absent"

RecordedBelong == \A p \in Purchases :
    purchases[p].ext \in Invoices => invoices[purchases[p].ext].payload = p

(* The tables on their own. *)
Data ==
    /\ RowsOwned /\ InvoicesBelong /\ RecordedBelong
    /\ PaidImpliesGranted /\ GrantedOnce /\ GrantIsPaidFor
    /\ ConfirmedImpliesGranted /\ ProExactlyIfGranted

(* A checkout works on a row that exists, with an invoice made for it. *)
TapHolds(t) ==
    /\ job[t].pc \in {"invoice", "pend", "pend_commit", "close", "close_commit"} =>
           job[t].purchase \in Purchases /\ Status(job[t].purchase) # "absent"
    /\ job[t].pc \in {"pend", "pend_commit"} =>
           job[t].invoice \in Invoices /\ invoices[job[t].invoice].payload = job[t].purchase

(* A webhook past the history insert has its update in history. *)
HookHolds(h) ==
    /\ job[h].pc \in {"record", "record_invalid"} =>
           job[h].invoice \in Invoices /\ invoices[job[h].invoice].payload \in Purchases
    /\ job[h].pc = "record" => invoices[job[h].invoice].status = "paid"
    /\ Handling(h) => history[job[h].invoice] # "absent"

(* Whoever settles holds a paid invoice of the purchase, and goes on to     *)
(* write PAID or to confirm only once the grant has been committed.         *)
SettlerHolds(s) ==
    /\ Handling(s) \/ job[s].pc = "fresh" =>
           /\ job[s].invoice \in Invoices /\ job[s].purchase \in Purchases
           /\ invoices[job[s].invoice].status = "paid"
           /\ invoices[job[s].invoice].payload = job[s].purchase
    /\ job[s].pc \in {"settle", "settle_commit", "processed", "confirm"} =>
           billing[job[s].purchase] = 1

BatchHolds ==
    /\ job[Reconciler].pc \in {"close", "close_commit"} =>
           /\ job[Reconciler].purchase \in Purchases
           /\ Status(job[Reconciler].purchase) # "absent"
    /\ \A x \in todo :
           /\ invoices[x.invoice].payload = x.purchase
           /\ x.status = "paid" => invoices[x.invoice].status = "paid"

InFlight ==
    /\ \A t \in Taps : TapHolds(t)
    /\ \A h \in Hooks : HookHolds(h)
    /\ \A s \in Settlers : SettlerHolds(s)
    /\ BatchHolds
    /\ UpdateHandledOnce

IInv == TypeOK /\ Data /\ InFlight

-----------------------------------------------------------------------------
(* What the documentation says and the code does not do. *)

(* The webhook's on_paid is "never called on a duplicate or an already-paid *)
(* purchase"; app.py: it "fires exactly once per settled purchase".         *)
ConfirmedOnce == \A p \in Purchases : confirmed[p] <= 1

(* purchase_service.py: the failure mode is `never "charged but not          *)
(* granted"`.  Once the provider's verified update was taken in, nobody is  *)
(* working on it and its purchase is closed, the purchase has been granted. *)
ChargedIsGranted ==
    \A i \in Invoices :
        (/\ invoices[i].status = "paid"
         /\ history[i] = "recorded"
         /\ \A a \in Actors : At(a, "idle")
         /\ Status(invoices[i].payload) \in Closed)
            => billing[invoices[i].payload] = 1

(* domain/purchase.py: "PAID/FAILED/CANCELLED/EXPIRED are terminal", and     *)
(* "an illegal move (PAID -> PENDING, a second PAID) raises rather than      *)
(* silently overwriting".  transition_to judges the row as it was read, and  *)
(* the commit writes over what another handler has committed since.          *)
PaidIsFinal == [][\A p \in Purchases : Status(p) = "paid" => Status(p)' = "paid"]_vars
=============================================================================
