------------------------------ MODULE Delivery ------------------------------
(***************************************************************************)
(* How a published signal reaches one user: the engine bridge's bounded    *)
(* queue, the delivery passes of the notification service, the signal list *)
(* the user opens, and the ledger that meters a Free user's quota.         *)
(*                                                                         *)
(* A pass, and a list render, reads and writes in separate transactions    *)
(* with Telegram in between, so every await is a step boundary.  A signal  *)
(* stands for its dedup key too; a profit move large enough to override a  *)
(* cooldown makes another signal of it.  Filters, mutes and the confidence *)
(* gate are the pass's choice to drop.                                     *)
(***************************************************************************)
EXTENDS Naturals, Sequences, FiniteSets, SequencesExt

CONSTANTS
    Signals,
    Passes,       \* delivery passes
    Views,        \* signal lists rendered for the user
    MaxBusy,      \* bound: passes and renders in flight at once (the code has none)
    Quota,        \* FREE_SIGNAL_QUOTA
    MaxPending,   \* MAX_PENDING
    PageSize,     \* _PAGE_SIZE
    MaxPublished, \* bound: publications
    MaxFailures   \* bound: failed transactions and crashed handlers

Actors == Passes \cup Views

ASSUME BoundsAssumption ==
    /\ {Quota, MaxPending, PageSize, MaxBusy} \subseteq Nat \ {0}
    /\ MaxPublished \in Nat /\ MaxFailures \in Nat
ASSUME ActorsAssumption == Passes \cap Views = {} /\ IsFiniteSet(Actors) /\ IsFiniteSet(Signals)

VARIABLES
    registry,   \* SignalRegistry._active
    queue,      \* the bridge's queue
    tier,       \* the user's tier in the database
    ledger,     \* signal_deliveries rows of the user
    cooling,    \* alert_cooldowns rows whose `until` is still ahead
    notice,     \* the paywall notice: logged in the database; logged by a pass
                \* that raced with another; tried how often; and received
    job,        \* where each pass and each render is, and what it holds
    got,        \* signals the user received on a Free profile
    alerts,     \* alerts per signal since its cooldown last elapsed
    filledBy,   \* the surface that spent the last free slot
    published, failures

vars == <<registry, queue, tier, ledger, cooling, notice, job, got, alerts,
          filledBy, published, failures>>
ghosts == <<got, alerts, filledBy, published, failures>>
user   == <<tier, ledger, cooling, notice>>
engine == <<registry, queue>>

Idle == [pc |-> "idle", tier |-> "free", cards |-> {}]

At(a, pc) == job[a].pc = pc
Goto(a, pc) == job' = [job EXCEPT ![a].pc = pc]
Done(a) == job' = [job EXCEPT ![a] = Idle]
Free(a) == At(a, "idle") /\ Cardinality({b \in Actors : ~At(b, "idle")}) < MaxBusy
Signal(a) == CHOOSE s \in job[a].cards : TRUE

Remaining == IF Cardinality(ledger) < Quota THEN Quota - Cardinality(ledger) ELSE 0
Metered(a) == job[a].tier = "free"

-----------------------------------------------------------------------------
(* EngineBridge. *)

(* publish: list the signal, and queue it over the oldest if the queue is full. *)
Publish(s) ==
    /\ published < MaxPublished
    /\ published' = published + 1
    /\ registry' = registry \cup {s}
    /\ queue' = Append(IF Len(queue) = MaxPending THEN Tail(queue) ELSE queue, s)
    /\ UNCHANGED <<user, job, got, alerts, filledBy, failures>>

Archive(s) ==
    /\ s \in registry
    /\ registry' = registry \ {s}
    /\ UNCHANGED <<queue, user, job, ghosts>>

(* next_event discards an entry that waited too long, *)
DropStale ==
    /\ queue # <<>>
    /\ queue' = Tail(queue)
    /\ UNCHANGED <<registry, user, job, ghosts>>

(* and otherwise a consumer starts a delivery pass for it. *)
Dispatch(w) ==
    /\ Free(w) /\ queue # <<>>
    /\ job' = [job EXCEPT ![w] = [Idle EXCEPT !.pc = "load", !.cards = {Head(queue)}]]
    /\ queue' = Tail(queue)
    /\ UNCHANGED <<registry, user, ghosts>>

-----------------------------------------------------------------------------
(* A delivery pass: _delayed_pass, _evaluate_user, _maybe_notify_paywall. *)

(* alert_candidates: the profile as it is now serves the whole pass. *)
LoadCandidates(w) ==
    /\ At(w, "load")
    /\ job' = [job EXCEPT ![w].pc = "filter", ![w].tier = tier]
    /\ UNCHANGED <<engine, user, ghosts>>

(* Mutant: the cooldown row is not read. *)
PhaseOneNoCooldown(w) ==
    /\ At(w, "filter")
    /\ Done(w) \/ Goto(w, "gate")
    /\ UNCHANGED <<engine, user, ghosts>>

(* Phase 1: filters, mute, cooldown. *)
PhaseOne(w) ==
    /\ At(w, "filter")
    /\ Done(w) \/ (Signal(w) \notin cooling /\ Goto(w, "gate"))
    /\ UNCHANGED <<engine, user, ghosts>>

(* Mutant: the slot is charged when it is granted, not when it is used. *)
GateCharges(w) ==
    /\ At(w, "gate")
    /\ IF Metered(w) /\ Remaining = 0
       THEN Done(w) /\ UNCHANGED ledger
       ELSE Goto(w, "send") /\ ledger' = IF Metered(w) THEN ledger \cup job[w].cards ELSE ledger
    /\ UNCHANGED <<engine, tier, cooling, notice, ghosts>>

(* Mutant: the gate lets one more through. *)
GateOffByOne(w) ==
    /\ At(w, "gate")
    /\ IF Metered(w) /\ Cardinality(ledger) > Quota THEN Done(w) ELSE Goto(w, "send")
    /\ UNCHANGED <<engine, user, ghosts>>

(* may_deliver. *)
Gate(w) ==
    /\ At(w, "gate")
    /\ IF Metered(w) /\ Remaining = 0 THEN Done(w) ELSE Goto(w, "send")
    /\ UNCHANGED <<engine, user, ghosts>>

Send(w) ==
    /\ At(w, "send")
    /\ got' = IF Metered(w) THEN got \cup job[w].cards ELSE got
    /\ alerts' = [alerts EXCEPT ![Signal(w)] = @ + 1]
    /\ Goto(w, "record")
    /\ UNCHANGED <<engine, user, filledBy, published, failures>>

SendFails(w) ==
    /\ At(w, "send")
    /\ Done(w)
    /\ UNCHANGED <<engine, user, ghosts>>

(* record_deliveries, of a pass and of a render: one row per signal, once. *)
Record(a) ==
    /\ At(a, "record")
    /\ ledger' = IF Metered(a) THEN ledger \cup job[a].cards ELSE ledger
    /\ filledBy' = IF Cardinality(ledger) < Quota /\ Cardinality(ledger') >= Quota
                   THEN IF a \in Views THEN "list" ELSE "alert"
                   ELSE filledBy
    /\ IF a \in Views THEN Done(a) ELSE Goto(a, "allowance")
    /\ UNCHANGED <<engine, tier, cooling, notice, got, alerts, published, failures>>

(* Mutant: exhausted only once more than the quota was charged. *)
ReadAllowanceOffByOne(w) ==
    /\ At(w, "allowance")
    /\ Goto(w, IF Metered(w) /\ Cardinality(ledger) > Quota THEN "logged" ELSE "arm")
    /\ UNCHANGED <<engine, user, ghosts>>

(* _maybe_notify_paywall: exhausted?  already logged?  then log, then send. *)
ReadAllowance(w) ==
    /\ At(w, "allowance")
    /\ Goto(w, IF Metered(w) /\ Remaining = 0 THEN "logged" ELSE "arm")
    /\ UNCHANGED <<engine, user, ghosts>>

(* Mutant: the marker is not read. *)
HasLoggedNever(w) ==
    /\ At(w, "logged")
    /\ Goto(w, "log")
    /\ UNCHANGED <<engine, user, ghosts>>

HasLogged(w) ==
    /\ At(w, "logged")
    /\ Goto(w, IF notice.logged THEN "arm" ELSE "log")
    /\ UNCHANGED <<engine, user, ghosts>>

LogNotice(w) ==
    /\ At(w, "log")
    /\ notice' = [notice EXCEPT !.logged = TRUE,
                                !.raced = @ \/ \E v \in Passes \ {w} : At(v, "log")]
    /\ Goto(w, "notify")
    /\ UNCHANGED <<engine, tier, ledger, cooling, ghosts>>

(* send_text answers FALSE where Telegram refuses the message, and nobody   *)
(* reads the answer.                                                        *)
SendNotice(w) ==
    /\ At(w, "notify")
    /\ \E ok \in BOOLEAN :
         notice' = [notice EXCEPT !.tried = @ + 1, !.received = @ \/ ok]
    /\ Goto(w, "arm")
    /\ UNCHANGED <<engine, tier, ledger, cooling, ghosts>>

(* Phase 2: the cooldown, an upsert. *)
Arm(w) ==
    /\ At(w, "arm")
    /\ cooling' = cooling \cup job[w].cards
    /\ Done(w)
    /\ UNCHANGED <<engine, tier, ledger, notice, ghosts>>

-----------------------------------------------------------------------------
(* The signal list: render_signal_list. *)

(* The profile comes with the tap, the cards from the live registry. *)
OpenList(v) ==
    /\ Free(v)
    /\ job' = [job EXCEPT ![v] = [pc |-> "budget", tier |-> tier, cards |-> registry]]
    /\ UNCHANGED <<engine, user, ghosts>>

(* SignalRegistry.query: the tier's types and the user's filter keep some of *)
(* the live signals, in the order the user sorts by; both tiers' delay is 0. *)
Query(live) == SUBSET live

(* What a page may show: cards already paid for, and new ones within the    *)
(* budget; every card on an unmetered profile.                              *)
WithinAllowance(v) ==
    {page \in Query(job[v].cards) :
        /\ Cardinality(page) <= PageSize
        /\ Metered(v) => Cardinality(page \ ledger) <= Remaining}

(* An exhausted user is shown the paywall, an empty list the menu. *)
ReadBudget(v) ==
    /\ At(v, "budget")
    /\ IF Metered(v) /\ Remaining = 0
       THEN Done(v)
       ELSE \E page \in WithinAllowance(v) :
              IF page = {} THEN Done(v)
              ELSE job' = [job EXCEPT ![v].pc = "render", ![v].cards = page]
    /\ UNCHANGED <<engine, user, ghosts>>

Render(v) ==
    /\ At(v, "render")
    /\ got' = IF Metered(v) THEN got \cup job[v].cards ELSE got
    /\ Goto(v, "record")
    /\ UNCHANGED <<engine, user, alerts, filledBy, published, failures>>

-----------------------------------------------------------------------------
(* The rest of the system: time, payment and administration, failure. *)

Elapse(s) ==
    /\ s \in cooling
    /\ cooling' = cooling \ {s}
    /\ alerts' = [alerts EXCEPT ![s] = 0]
    /\ UNCHANGED <<engine, tier, ledger, notice, job, got, filledBy, published, failures>>

Upgrade ==
    /\ tier = "free"
    /\ tier' = "pro"
    /\ UNCHANGED <<engine, ledger, cooling, notice, job, ghosts>>

(* A transaction fails, a send raises, the handler dies: whatever it still  *)
(* had to do is not done, and its caller logs the error.                    *)
Fail(a) ==
    /\ ~At(a, "idle") /\ failures < MaxFailures
    /\ failures' = failures + 1
    /\ Done(a)
    /\ UNCHANGED <<engine, user, got, alerts, filledBy, published>>

-----------------------------------------------------------------------------

Init ==
    /\ registry = {} /\ queue = <<>>
    /\ tier = "free" /\ ledger = {} /\ cooling = {}
    /\ notice = [logged |-> FALSE, raced |-> FALSE, tried |-> 0, received |-> FALSE]
    /\ job = [a \in Actors |-> Idle]
    /\ got = {} /\ alerts = [s \in Signals |-> 0]
    /\ filledBy = "none" /\ published = 0 /\ failures = 0

Pass(w) ==
    \/ LoadCandidates(w) \/ PhaseOne(w) \/ Gate(w) \/ Send(w) \/ SendFails(w)
    \/ Record(w) \/ ReadAllowance(w) \/ HasLogged(w) \/ LogNotice(w)
    \/ SendNotice(w) \/ Arm(w)

View(v) == ReadBudget(v) \/ Render(v) \/ Record(v)

Next ==
    \/ \E s \in Signals : Publish(s) \/ Archive(s) \/ Elapse(s)
    \/ DropStale \/ Upgrade
    \/ \E w \in Passes : Dispatch(w) \/ Pass(w)
    \/ \E v \in Views : OpenList(v) \/ View(v)
    \/ \E a \in Actors : Fail(a)

Spec == Init /\ [][Next]_vars

-----------------------------------------------------------------------------
(* Properties. *)

Pcs == {"idle", "load", "filter", "gate", "send", "record", "allowance", "logged",
        "log", "notify", "arm", "budget", "render"}

TypeOK ==
    /\ registry \subseteq Signals
    /\ queue \in Seq(Signals) /\ Len(queue) <= MaxPending
    /\ tier \in {"free", "pro"}
    /\ ledger \subseteq Signals /\ cooling \subseteq Signals /\ got \subseteq Signals
    /\ notice \in [logged : BOOLEAN, raced : BOOLEAN, tried : Nat, received : BOOLEAN]
    /\ job \in [Actors -> [pc : Pcs, tier : {"free", "pro"}, cards : SUBSET Signals]]
    /\ alerts \in [Signals -> Nat]
    /\ filledBy \in {"none", "alert", "list"}
    /\ published \in 0..MaxPublished /\ failures \in 0..MaxFailures

(* "A slot is consumed only by a signal the user genuinely received", and   *)
(* every signal received on a Free profile is charged, or about to be,      *)
(* unless a handler failed in between: two surfaces delivering the same     *)
(* signal at once included.                                                 *)
ChargedIffReceived ==
    /\ ledger \subseteq got
    /\ failures = 0 =>
         got \subseteq ledger \cup UNION {job[a].cards : a \in {b \in Actors : At(b, "record")}}

(* The quota may be overshot only by what was in flight at once.  While a   *)
(* slot is left, each pass in flight brings at most one signal, and each    *)
(* list one page of new cards, no more of them than the quota has slots;    *)
(* once the slots are spent nothing new is promised.                        *)
Least(a, b) == IF a < b THEN a ELSE b
Overshoot == MaxBusy - 1
             + Least(MaxBusy, Cardinality(Views)) * (Least(PageSize, Quota) - 1)

OvershootIsConcurrency == failures = 0 => Cardinality(got) <= Quota + Overshoot

(* Within one cooldown an alert repeats only in passes that overlap.        *)
RepeatsOverlap == failures = 0 => \A s \in Signals : alerts[s] <= MaxBusy

(* The alert that spends the last free signal is followed by an attempt at  *)
(* the paywall notice, by the pass that sent it or by one racing with it,   *)
(* unless a handler failed in between.                                      *)
CutOff == failures = 0 /\ filledBy = "alert" /\ \A w \in Passes : At(w, "idle")
NoticeIsTried == CutOff => notice.tried > 0

(* The notice is sent again only by a pass that had found no marker when    *)
(* another wrote it: "Announce the paywall once".                           *)
RepeatedOnlyByRace == notice.tried > 1 => notice.raced

-----------------------------------------------------------------------------
(* What the documentation says and the code does not do. *)

(* signal_access_service.py: "a Free user may be delivered exactly          *)
(* FREE_SIGNAL_QUOTA arbitrage signals, ever".                              *)
QuotaExact == Cardinality(got) <= Quota

(* notification_service.py, _maybe_notify_paywall: the marker is there so   *)
(* that "a user who never opens the bot again still got told why the        *)
(* signals stopped".  A notice that Telegram refuses is not sent again.     *)
LastAlertIsAnnounced == CutOff => notice.received
=============================================================================
