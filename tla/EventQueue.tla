------------------------------ MODULE EventQueue ------------------------------
(***************************************************************************)
(* From a market-data write to a detection pass: the coalescing, three     *)
(* tier event queue and the one worker that drains it.                     *)
(*                                                                         *)
(* All of it runs on one event loop, so what happens between two awaits is *)
(* one step.  `asyncio.wait_for(queue.get(), 1.0)` runs get() as a task of *)
(* its own: the item leaves the queue in one turn of the loop and the      *)
(* worker sees it in a later one, with writes in between.                  *)
(***************************************************************************)
EXTENDS Naturals, Sequences, SequencesExt

CONSTANTS
    Symbols,    \* (base, quote) pairs
    Feeds,      \* <<symbol, group>>: the data feeds that exist
    Rankings    \* [Symbols -> Tiers]: classifications the bot may go through

Tiers     == 1..3
Groups    == {"cex", "dex", "funding"}
Detectors == {"cex_cex", "cex_dex", "dex_dex", "cross_chain", "funding"}
Nobody    == "nobody"

ASSUME FeedsAreFeeds == Feeds \subseteq Symbols \X Groups
ASSUME RankingsAreTiers == Rankings \subseteq [Symbols -> Tiers] /\ Rankings # {}
ASSUME NobodyIsNoSymbol == Nobody \notin Symbols

VARIABLES
    tier,      \* the current classification (config majors, top 100, rest)
    queue,     \* one FIFO per tier
    pending,   \* symbols with a slot in some queue
    groups,    \* groups noted per symbol since its last pass; {} is no entry
    starts,    \* the rotation cursor, modulo 4
    event,     \* the asyncio.Event that wakes get()
    worker,    \* where the worker is, and with which symbol
    stale,     \* history: detectors whose input changed since they last ran
    passed     \* history: successive dequeues past a waiting tier 1, 2, and
               \* successive dequeues of tier 1 past a waiting tier 3

vars == <<tier, queue, pending, groups, starts, event, worker, stale, passed>>

-----------------------------------------------------------------------------

(* What a detector reads of the cache, and what makes the engine run it. *)
Reads == [cex_cex |-> {"cex"}, cex_dex |-> {"cex", "dex"}, dex_dex |-> {"dex"},
          cross_chain |-> {"dex"}, funding |-> {"funding"}]

Triggers == [cex_cex |-> {"cex"}, cex_dex |-> {"cex", "dex"}, dex_dex |-> {"dex"},
             cross_chain |-> {"dex"}, funding |-> {"funding"}]

Triggered(gs) == {d \in Detectors : Triggers[d] \cap gs # {}}

Queued(p) == Range(queue[p])

(* PriorityEventQueue.put *)
Put(s) ==
    IF s \in pending
    THEN UNCHANGED <<queue, pending, event>>
    ELSE /\ queue' = [queue EXCEPT ![tier[s]] = Append(@, s)]
         /\ pending' = pending \cup {s}
         /\ event' = TRUE

(* Mutant: the group is noted only for a symbol that is being queued. *)
NoteIfQueuing(s, g) ==
    groups' = IF s \in pending THEN groups ELSE [groups EXCEPT ![s] = @ \cup {g}]

Note(s, g) == groups' = [groups EXCEPT ![s] = @ \cup {g}]

(* A price, book, pool or funding write was accepted by the cache. *)
Write(s, g) ==
    /\ <<s, g>> \in Feeds
    /\ stale' = [stale EXCEPT ![s] = @ \cup {d \in Detectors : g \in Reads[d]}]
    /\ Note(s, g)
    /\ Put(s)
    /\ UNCHANGED <<tier, starts, worker, passed>>

(* set_top100 after discovery, or a hot config reload: slots do not move. *)
Reclassify ==
    /\ tier' \in Rankings \ {tier}
    /\ UNCHANGED <<queue, pending, groups, starts, event, worker, stale, passed>>

(* Mutant: strict priority. *)
OrderStrict == <<1, 2, 3>>

(* Mutant: the condition the wrong way round. *)
OrderFlipped == IF starts % 4 = 0 THEN <<1, 2, 3>> ELSE <<2, 3, 1>>

Order == IF starts % 4 # 0 THEN <<1, 2, 3>> ELSE <<2, 3, 1>>

(* The tier this scan serves: the first one in order that has an item. *)
Served(p) ==
    \E k \in 1..3 : Order[k] = p /\ queue[p] # <<>> /\ \A j \in 1..(k - 1) : queue[Order[j]] = <<>>

(* Who was waiting and was not served (the count stops at MaxPassed).  Only *)
(* tier 1 counts as passing tier 3.                                         *)
MaxPassed == 4
Passes(p, q) == q # p /\ queue[q] # <<>> /\ (q = 3 => p = 1)
Bypass(p) == [q \in Tiers |->
    IF Passes(p, q) THEN IF passed[q] < MaxPassed THEN passed[q] + 1 ELSE MaxPassed
    ELSE 0]

(* get() finds an item. *)
Dequeue ==
    /\ worker.pc = "scan"
    /\ starts' = (starts + 1) % 4
    /\ \E p \in Tiers :
         /\ Served(p)
         /\ queue' = [queue EXCEPT ![p] = Tail(@)]
         /\ pending' = pending \ {Head(queue[p])}
         /\ worker' = [pc |-> "take", symbol |-> Head(queue[p])]
         /\ passed' = Bypass(p)
    /\ UNCHANGED <<tier, groups, event, stale>>

(* get() finds nothing, clears the event and waits for it. *)
FindsNothing ==
    /\ worker.pc = "scan"
    /\ \A p \in Tiers : queue[p] = <<>>
    /\ starts' = (starts + 1) % 4
    /\ event' = FALSE
    /\ worker' = [worker EXCEPT !.pc = "wait"]
    /\ passed' = [q \in Tiers |-> 0]
    /\ UNCHANGED <<tier, queue, pending, groups, stale>>

(* The event is set, or wait_for gives up and the worker calls get() anew. *)
Wakes ==
    /\ worker.pc = "wait"
    /\ event
    /\ worker' = [worker EXCEPT !.pc = "scan"]
    /\ UNCHANGED <<tier, queue, pending, groups, starts, event, stale, passed>>

TimesOut ==
    /\ worker.pc = "wait"
    /\ worker' = [worker EXCEPT !.pc = "scan"]
    /\ UNCHANGED <<tier, queue, pending, groups, starts, event, stale, passed>>

(* The worker pops the groups and runs the detectors they trigger, without  *)
(* an await in between; a symbol that has no entry gets all of them.        *)
Routed(s) == Triggered(IF groups[s] = {} THEN Groups ELSE groups[s])
Detect ==
    /\ worker.pc = "take"
    /\ LET s == worker.symbol IN
         /\ stale' = [stale EXCEPT ![s] = @ \ Routed(s)]
         /\ groups' = [groups EXCEPT ![s] = {}]
    /\ worker' = [worker EXCEPT !.pc = "busy"]
    /\ UNCHANGED <<tier, queue, pending, starts, event, passed>>

(* Its candidates assembled (awaits), or one of them raised: go on. *)
Finish ==
    /\ worker.pc = "busy"
    /\ worker' = [pc |-> "scan", symbol |-> Nobody]
    /\ UNCHANGED <<tier, queue, pending, groups, starts, event, stale, passed>>

Init ==
    /\ tier \in Rankings
    /\ queue = [p \in Tiers |-> <<>>]
    /\ pending = {}
    /\ groups = [s \in Symbols |-> {}]
    /\ starts = 0
    /\ event = FALSE
    /\ worker = [pc |-> "scan", symbol |-> Nobody]
    /\ stale = [s \in Symbols |-> {}]
    /\ passed = [q \in Tiers |-> 0]

Work == Dequeue \/ FindsNothing \/ Wakes \/ TimesOut \/ Detect \/ Finish

Next ==
    \/ \E s \in Symbols, g \in Groups : Write(s, g)
    \/ Reclassify
    \/ Work

Spec == Init /\ [][Next]_vars

(* The loop runs the worker whenever it is ready, wait_for bounds its wait, *)
(* and every await under _handle_candidate returns or raises.               *)
FairSpec == Spec /\ WF_vars(Work)

-----------------------------------------------------------------------------
(* Properties. *)

(* Every variable keeps its shape; the worker holds a symbol it works on.   *)
TypeOK ==
    /\ tier \in [Symbols -> Tiers]
    /\ queue \in [Tiers -> Seq(Symbols)]
    /\ pending \subseteq Symbols
    /\ groups \in [Symbols -> SUBSET Groups]
    /\ starts \in 0..3
    /\ event \in BOOLEAN
    /\ worker \in [pc : {"scan", "wait", "take", "busy"}, symbol : Symbols \cup {Nobody}]
    /\ worker.pc \in {"take", "busy"} <=> worker.symbol \in Symbols
    /\ stale \in [Symbols -> SUBSET Detectors]
    /\ passed \in [Tiers -> 0..MaxPassed]

(* A symbol holds one slot at most, in one tier, whatever it was classified *)
(* when it was written: the backlog is bounded by the tracked symbols.      *)
OneSlotPerSymbol ==
    /\ \A p \in Tiers : IsInjective(queue[p])
    /\ \A p, q \in Tiers : p # q => Queued(p) \cap Queued(q) = {}
    /\ pending = UNION {Queued(p) : p \in Tiers}

(* Routing skips only irrelevant work: whenever the input of a detector has *)
(* changed since it last ran, a pass that will run it is already on its way.*)
NoChangeLost ==
    \A s \in Symbols : \A d \in stale[s] :
        /\ s \in pending \/ (worker.pc = "take" /\ worker.symbol = s)
        /\ groups[s] = {} \/ d \in Triggered(groups[s])

(* get(): "rotate the starting tier so 2/3 are not starved by a never-empty  *)
(* priority-1 queue, while still favouring 1 most cycles".  A waiting major  *)
(* is passed by one other event at most, a waiting top 100 symbol by three,  *)
(* and a waiting symbol of the rest by three majors in a row.                *)
BoundedBypass == passed[1] <= 1 /\ passed[2] <= 3 /\ passed[3] <= 3

(* Majors and top 100 are always served, however fast writes arrive.        *)
IsServed(s, p) == s \in Queued(p) ~> (worker.pc = "take" /\ worker.symbol = s)
RankedAreServed == \A s \in Symbols : IsServed(s, 1) /\ IsServed(s, 2)

-----------------------------------------------------------------------------
(* What the documentation says and the code does not do. *)

(* The class: "Priority 1 events are always dequeued before 2, before 3."   *)
(* One turn in four begins with tier 2 and takes 3 before 1 as well.        *)
MajorsFirst == passed[1] = 0

(* depth_report: tier 3 starvation is "the bug the weighted-fair get() order *)
(* guards against".  It guards against tier 1; tier 2 precedes tier 3 in     *)
(* every turn.                                                               *)
TailIsServed == \A s \in Symbols : IsServed(s, 3)

=============================================================================
