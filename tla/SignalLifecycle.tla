--------------------------- MODULE SignalLifecycle ---------------------------
(***************************************************************************)
(* The engine's active signals: admission, update, cooldown, expiry, and   *)
(* what the bridge makes of it for the bot (the live registry) and for the *)
(* database (signal_history).                                              *)
(*                                                                         *)
(* One event loop: a step ends at an await that can suspend, which here is *)
(* the archive's database transaction.  The tasks are the event worker,    *)
(* the reconciliation loop (sweep, health pass, scan, pause), the          *)
(* discovery loop (delisting) and one force-expire task per venue that     *)
(* leaves signal eligibility.  Time is counted in ticks, as ages.          *)
(***************************************************************************)
EXTENDS Naturals, Functions

CONSTANTS
    Venues,
    Routes,       \* dedup keys
    VenuesOf,     \* [Routes -> SUBSET Venues]
    PairOf,       \* [Routes -> pairs]
    TTL,          \* [Routes -> Nat \ {0}]
    Cooldown,     \* [Routes -> Nat], 0 for funding
    Rolling,      \* funding routes: an update may move the settlement ahead
    Nets,         \* net profits a candidate may carry, all positive
    Threshold     \* a change of at least this much is significant

ASSUME RoutesAreConfigured ==
    /\ VenuesOf \in [Routes -> SUBSET Venues]
    /\ TTL \in [Routes -> Nat \ {0}]
    /\ Cooldown \in [Routes -> Nat]
    /\ \A r \in Routes : Cooldown[r] <= TTL[r]
ASSUME NamesAreDistinct ==
    /\ "nothing" \notin Routes
    /\ Venues \cap {"worker", "reconciler", "discovery"} = {}
ASSUME NetsAreNumbers == Nets \subseteq Nat \ {0} /\ Threshold \in Nat \ {0}

VARIABLES
    allowed,    \* venues whose status permits signals
    active,     \* routes with an active signal
    net,        \* net profit of the active signal's last candidate
    age,        \* ticks since it was first admitted, up to its TTL
    cool,       \* ticks of post-expiry cooldown left
    registry,   \* the bot's live registry: the net it shows, or Unlisted
    history,    \* routes with a signal_history row (the id is the route's)
    handed,     \* history: routes whose last signal was handed to archive()
    loop,       \* the reconciliation loop's stage
    task,       \* what each task has left to expire, and is archiving
    spawned     \* force-expire tasks created and not yet started

vars == <<allowed, active, net, age, cool, registry, history, handed, loop,
          task, spawned>>

-----------------------------------------------------------------------------

Worker     == "worker"
Reconciler == "reconciler"
Discovery  == "discovery"
Tasks == {Worker, Reconciler, Discovery} \cup Venues

Unlisted == 0
Nothing  == "nothing"
AtRest   == [todo |-> {}, saving |-> Nothing]

Tracked(r)   == r \in active
Due(r)       == age[r] = TTL[r]
Eligible(r)  == VenuesOf[r] \subseteq allowed
Suspended(t) == task[t].saving # Nothing

Distance(m, n) == IF m > n THEN m - n ELSE n - m
Significant(m, n) == Distance(m, n) >= Threshold

Show(r, n) == registry' = [registry EXCEPT ![r] = n]

-----------------------------------------------------------------------------
(* LifecycleManager.admit, as the detecting tasks reach it. *)

(* The worker between symbols, and the loop during its scan. *)
Detecting(t) ==
    /\ t = Worker \/ (t = Reconciler /\ loop = "scan")
    /\ ~Suspended(t)

(* Mutant: an update takes the new candidate's timestamp. *)
UpdateRestartsClock(t, r, n) ==
    /\ Detecting(t) /\ Eligible(r) /\ Tracked(r)
    /\ net' = [net EXCEPT ![r] = n]
    /\ age' = [age EXCEPT ![r] = 0]
    /\ IF Significant(net[r], n) THEN Show(r, n) ELSE UNCHANGED registry
    /\ UNCHANGED <<allowed, active, cool, history, handed, loop, task, spawned>>

(* The key is active already: the timestamp, and with it the TTL, is kept;  *)
(* a sub-threshold change is absorbed.                                      *)
Update(t, r, n) ==
    /\ Detecting(t) /\ Eligible(r) /\ Tracked(r)
    /\ net' = [net EXCEPT ![r] = n]
    /\ IF r \in Rolling THEN age' = [age EXCEPT ![r] = 0] ELSE UNCHANGED age
    /\ IF Significant(net[r], n) THEN Show(r, n) ELSE UNCHANGED registry
    /\ UNCHANGED <<allowed, active, cool, history, handed, loop, task, spawned>>

(* A new key is published, unless it is cooling down: then it is tracked    *)
(* and not shown.                                                           *)
Admit(t, r, n) ==
    /\ Detecting(t) /\ Eligible(r) /\ ~Tracked(r)
    /\ active' = active \cup {r}
    /\ handed' = handed \ {r}
    /\ net' = [net EXCEPT ![r] = n]
    /\ age' = [age EXCEPT ![r] = 0]
    /\ IF cool[r] > 0 THEN UNCHANGED registry ELSE Show(r, n)
    /\ UNCHANGED <<allowed, cool, history, loop, task, spawned>>

-----------------------------------------------------------------------------
(* LifecycleManager.expire and its callers. *)

Forget(r) == net' = [net EXCEPT ![r] = 0] /\ age' = [age EXCEPT ![r] = 0]

(* Mutant: the signal leaves the active set once its archival is done.      *)
ExpireAfterArchive(t, r, rest) ==
    IF Tracked(r)
    THEN /\ cool' = [cool EXCEPT ![r] = Cooldown[r]]
         /\ handed' = handed \cup {r}
         /\ UNCHANGED <<active, net, age>>
         /\ registry' = [registry EXCEPT ![r] = Unlisted]
         /\ task' = [task EXCEPT ![t] = [todo |-> rest, saving |-> r]]
    ELSE /\ task' = [task EXCEPT ![t] = [todo |-> rest, saving |-> Nothing]]
         /\ UNCHANGED <<active, handed, net, age, cool, registry>>

(* Mutant: the registry forgets the signal only with the database write.    *)
ExpireKeepsListing(t, r, rest) ==
    IF Tracked(r)
    THEN /\ active' = active \ {r}
         /\ handed' = handed \cup {r}
         /\ cool' = [cool EXCEPT ![r] = Cooldown[r]]
         /\ Forget(r)
         /\ task' = [task EXCEPT ![t] = [todo |-> rest, saving |-> r]]
         /\ UNCHANGED registry
    ELSE /\ task' = [task EXCEPT ![t] = [todo |-> rest, saving |-> Nothing]]
         /\ UNCHANGED <<active, handed, net, age, cool, registry>>

(* Pop the signal, arm the cooldown, drop it from the registry; then await  *)
(* the database.  Nothing happens when the key is not active.               *)
Expire(t, r, rest) ==
    IF Tracked(r)
    THEN /\ active' = active \ {r}
         /\ handed' = handed \cup {r}
         /\ cool' = [cool EXCEPT ![r] = Cooldown[r]]
         /\ Forget(r)
         /\ registry' = [registry EXCEPT ![r] = Unlisted]
         /\ task' = [task EXCEPT ![t] = [todo |-> rest, saving |-> r]]
    ELSE /\ task' = [task EXCEPT ![t] = [todo |-> rest, saving |-> Nothing]]
         /\ UNCHANGED <<active, handed, net, age, cool, registry>>

(* A rejected candidate of an active route: close_if_spread_gone. *)
SpreadGone(t, r) ==
    /\ Detecting(t) /\ Tracked(r)
    /\ Expire(t, r, {})
    /\ UNCHANGED <<allowed, history, loop, spawned>>

(* A sweep, force-expiry or delisting goes on to its next item: it expires  *)
(* whatever life the route has by now.                                      *)
ExpireNext(t) ==
    /\ ~Suspended(t)
    /\ \E r \in task[t].todo : Expire(t, r, task[t].todo \ {r})
    /\ UNCHANGED <<allowed, history, loop, spawned>>

(* archive_signal keeps the row it finds under the id: the first life's. *)
Archived(t) ==
    /\ Suspended(t)
    /\ history' = history \cup {task[t].saving}
    /\ task' = [task EXCEPT ![t].saving = Nothing]
    /\ UNCHANGED <<allowed, active, net, age, cool, registry, handed, loop, spawned>>

(* The bridge logs an exception and goes on. *)
ArchiveFails(t) ==
    /\ Suspended(t)
    /\ task' = [task EXCEPT ![t].saving = Nothing]
    /\ UNCHANGED <<allowed, active, net, age, cool, registry, history, handed, loop, spawned>>

-----------------------------------------------------------------------------
(* The reconciliation loop. *)

(* sweep_expired copies the working set and reads the clock once. *)
StartSweep ==
    /\ loop = "pause"
    /\ loop' = "sweep"
    /\ task' = [task EXCEPT ![Reconciler].todo = {r \in Routes : Tracked(r) /\ Due(r)}]
    /\ UNCHANGED <<allowed, active, net, age, cool, registry, history, handed, spawned>>

(* The health pass has no await: its transitions are VenueOut below. *)
StartScan ==
    /\ loop = "sweep"
    /\ task[Reconciler] = AtRest
    /\ loop' = "scan"
    /\ UNCHANGED <<allowed, active, net, age, cool, registry, history, handed, task, spawned>>

EndScan ==
    /\ loop = "scan"
    /\ ~Suspended(Reconciler)
    /\ loop' = "pause"
    /\ UNCHANGED <<allowed, active, net, age, cool, registry, history, handed, task, spawned>>

-----------------------------------------------------------------------------
(* Venue status transitions, delisting, and time. *)

(* Mutant: not every way out of eligibility creates a task. *)
VenueOutQuietly(v) ==
    /\ v \in allowed
    /\ allowed' = allowed \ {v}
    /\ spawned' \in {spawned, spawned \cup {v}}
    /\ UNCHANGED <<active, net, age, cool, registry, history, handed, loop, task>>

(* Every transition into Maintenance, API Offline or Unknown creates a      *)
(* task, one between two of them included.                                  *)
VenueOut(v) ==
    /\ allowed' = allowed \ {v}
    /\ spawned' = spawned \cup {v}
    /\ UNCHANGED <<active, net, age, cool, registry, history, handed, loop, task>>

VenueBack(v) ==
    /\ v \notin allowed
    /\ allowed' = allowed \cup {v}
    /\ UNCHANGED <<active, net, age, cool, registry, history, handed, loop, task, spawned>>

(* The created task runs: it copies the working set.  (A task of the same   *)
(* venue still under way continues with the union of the two.)              *)
StartForceExpire(v) ==
    /\ v \in spawned
    /\ spawned' = spawned \ {v}
    /\ task' = [task EXCEPT ![v].todo = @ \cup {r \in Routes : Tracked(r) /\ v \in VenuesOf[r]}]
    /\ UNCHANGED <<allowed, active, net, age, cool, registry, history, handed, loop>>

(* A pair past its delisting grace on one venue: every route of that pair   *)
(* goes, on whichever venues.                                               *)
Delist(pair) ==
    /\ task[Discovery] = AtRest
    /\ task' = [task EXCEPT ![Discovery].todo = {r \in Routes : Tracked(r) /\ PairOf[r] = pair}]
    /\ UNCHANGED <<allowed, active, net, age, cool, registry, history, handed, loop, spawned>>

Tick ==
    /\ age' = [r \in Routes |-> IF Tracked(r) /\ ~Due(r) THEN age[r] + 1 ELSE age[r]]
    /\ cool' = [r \in Routes |-> IF cool[r] > 0 THEN cool[r] - 1 ELSE 0]
    /\ <<age, cool>>' # <<age, cool>>
    /\ UNCHANGED <<allowed, active, net, registry, history, handed, loop, task, spawned>>

-----------------------------------------------------------------------------

Init ==
    /\ allowed = {}
    /\ active = {}
    /\ net = [r \in Routes |-> 0]
    /\ age = [r \in Routes |-> 0]
    /\ cool = [r \in Routes |-> 0]
    /\ registry = [r \in Routes |-> Unlisted]
    /\ history = {}
    /\ handed = {}
    /\ loop = "pause"
    /\ task = [t \in Tasks |-> AtRest]
    /\ spawned = {}

Candidate(t, r) ==
    \/ \E n \in Nets : Admit(t, r, n) \/ Update(t, r, n)
    \/ SpreadGone(t, r)

Run(t) == ExpireNext(t) \/ Archived(t) \/ ArchiveFails(t)
Loop   == StartSweep \/ StartScan \/ EndScan

Next ==
    \/ \E t \in {Worker, Reconciler}, r \in Routes : Candidate(t, r)
    \/ \E t \in Tasks : Run(t)
    \/ Loop
    \/ \E v \in Venues : VenueOut(v) \/ VenueBack(v) \/ StartForceExpire(v)
    \/ \E pair \in Range(PairOf) : Delist(pair)
    \/ Tick

Spec == Init /\ [][Next]_vars

(* asyncio runs every ready task, the database answers or fails, the loop   *)
(* pauses for a second, a scan visits finitely many pairs, and time passes. *)
Fairness ==
    /\ WF_vars(Tick) /\ SF_vars(Loop)
    /\ \A t \in Tasks : WF_vars(Run(t))
    /\ \A v \in Venues : WF_vars(StartForceExpire(v))

FairSpec == Spec /\ Fairness

-----------------------------------------------------------------------------
(* Properties. *)

(* Every variable keeps its shape; a signal's data lives as long as it.     *)
TypeOK ==
    /\ allowed \subseteq Venues
    /\ active \subseteq Routes /\ history \subseteq Routes /\ handed \subseteq Routes
    /\ net \in [Routes -> Nets \cup {0}] /\ \A r \in active : net[r] \in Nets
    /\ age \in [Routes -> Nat] /\ cool \in [Routes -> Nat]
    /\ \A r \in Routes : age[r] <= TTL[r] /\ cool[r] <= Cooldown[r]
    /\ registry \in [Routes -> Nets \cup {Unlisted}]
    /\ loop \in {"pause", "sweep", "scan"}
    /\ task \in [Tasks -> [todo : SUBSET Routes, saving : Routes \cup {Nothing}]]
    /\ spawned \subseteq Venues

(* The bot never lists a signal the engine no longer tracks: whichever task *)
(* expired it, and however long its archival takes.                         *)
ListedIsActive == \A r \in Routes : registry[r] # Unlisted => Tracked(r)

(* A signal is handed to the archive once, as it leaves the active set,     *)
(* although worker, sweep, delisting and force-expiry race to expire it.    *)
ArchivedOnce == active \cap handed = {}

(* No signal outlives the eligibility of a venue it trades on: a task that  *)
(* will expire it is created, or under way and has yet to reach it.         *)
IneligibleIsExpiring ==
    \A r \in Routes : Tracked(r) =>
        \A v \in VenuesOf[r] \ allowed : v \in spawned \/ r \in task[v].todo

(* The lifecycle implements LiveSignals: whoever expires a venue's signals,  *)
(* whatever is admitted, updated or expired beside it, and however often the *)
(* venue comes and goes meanwhile, an expiry that is over left none behind   *)
(* unless the venue is back (manager.py:132).                                *)
Contract == INSTANCE LiveSignals WITH
    live <- {<<r, VenuesOf[r]>> : r \in active},
    out  <- Venues \ allowed,
    owed <- spawned \cup {v \in Venues : task[v].todo # {}}
KeepsContract == Contract!Spec

(* Every signal of a flat-TTL route ends, however often it is updated, and    *)
(* however the archive of others delays the sweep.                          *)
EveryLifeEnds == \A r \in Routes \ Rolling : Tracked(r) ~> ~Tracked(r)
=============================================================================
