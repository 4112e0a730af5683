---------------------------- MODULE Reconciliation ----------------------------
(* The safety net beside the event queue: once per interval a pass sweeps     *)
(* expired signals, checks staleness and runs, pair by pair, the detectors    *)
(* that are due and may find something (engine.py _run_full_scan,             *)
(* reconciliation/scheduler.py, reconciliation/cadence.py).                   *)
(*                                                                            *)
(* It is there for what no event announces: the cache tells the queue of      *)
(* every write, but nothing tells it that a venue which was not allowed to    *)
(* carry signals is allowed again.                                            *)
(*                                                                            *)
(* The cache is warm. Time is counted in intervals: the loop sleeps one, and  *)
(* a pass takes one more at most. Of the publishes, which reset a detector's  *)
(* backoff, only the watched detector's are told apart: the others' change    *)
(* nothing but their own cadence.                                             *)
EXTENDS EventQueue, FiniteSets

CONSTANTS
    Cex, Pools,      \* venues
    Chain,           \* [Pools -> network]
    Market,          \* <<venue, symbol>>: the books and quotes in the cache
    Carried,         \* <<venue, symbol>>: the funding rates in the cache
    Base, Backoff, IdleAfter,   \* reconciliation_* of the config
    Worlds,          \* named: [pairs (tracked), feeds, flapping, watched, timed]
    MaxFails         \* bound: passes abandoned in a behaviour

Venues == Cex \cup Pools

ASSUME ReconciliationAssumption ==
    /\ Base \in [Detectors -> Nat] /\ Backoff \in Nat \ {0} /\ IdleAfter \in Nat \ {0}
    /\ IsFiniteSet(Cex) /\ IsFiniteSet(Pools)
    /\ Market \subseteq Venues \X Symbols /\ Carried \subseteq Cex \X Symbols
    /\ \A w \in DOMAIN Worlds : \A x \in Worlds[w].watched :
          /\ x \in Symbols \X Detectors
          /\ Worlds[w].timed => x[1] \in Worlds[w].pairs

VARIABLES
    world,    \* what the environment does
    offline,  \* venues that may not carry a signal
    net,      \* the loop: [pc, rest: until the next pass, left: pairs, due, took]
    since,    \* per detector: since the start of the pass that last ran it
    idle,     \* per detector: since its last publish
    fails,    \* passes abandoned so far
    watch,    \* the symbol and the detector that the property follows
    lag,      \* 1 + the time since what it could see changed; 0 when it saw all
    lost      \* how much of that went by in abandoned passes

netVars == <<world, offline, net, since, idle, fails, watch, lag, lost>>
allVars == <<vars, netVars>>

Now == Worlds[world]

(* _reconcile_eligibility, _funding_eligible: by how many venues may carry a  *)
(* signal.                                                                    *)
OnlineOf(s) == {v \in Venues \ offline : <<v, s>> \in Market}
RatedOf(s)  == {v \in Cex \ offline : <<v, s>> \in Carried}
Eligible(s) ==
    LET cex == OnlineOf(s) \cap Cex
        dex == OnlineOf(s) \cap Pools
    IN  {d \in Detectors :
            \/ d = "cex_cex" /\ Cardinality(cex) >= 2
            \/ d = "cex_dex" /\ Cardinality(cex) >= 1 /\ Cardinality(dex) >= 1
            \/ d = "dex_dex" /\ Cardinality(dex) >= 2
            \/ d = "cross_chain" /\ Cardinality({Chain[p] : p \in dex}) >= 2
            \/ d = "funding" /\ Cardinality(RatedOf(s)) >= 2}

(* Whether a detector has two legs to compare: what detect() itself asks for. *)
Sees(s, d, down) ==
    LET On(S) == {v \in S \ down : <<v, s>> \in Market} IN
    CASE d = "cex_cex"     -> \E v, w \in On(Cex) : v # w
      [] d = "cex_dex"     -> On(Cex) # {} /\ On(Pools) # {}
      [] d = "dex_dex"     -> \E p, q \in On(Pools) : p # q /\ Chain[p] = Chain[q]
      [] d = "cross_chain" -> \E p, q \in On(Pools) : Chain[p] # Chain[q]
      [] d = "funding"     -> \E v, w \in Cex \ down :
                                  v # w /\ {<<v, s>>, <<w, s>>} \subseteq Carried

(* DetectorReconciliationCadence *)
Cadence(d) == IF idle[d] >= IdleAfter THEN Base[d] * Backoff ELSE Base[d]
Due        == {d \in Detectors : since[d] >= Cadence(d)}
Forever(d) == Base[d] * Backoff

(* The watched detector ran on the watched symbol; or has something new.      *)
Ran(s, ds)   == IF s = watch[1] /\ watch[2] \in ds THEN 0 ELSE lag
Changed(s, ds) ==
    IF s = watch[1] /\ watch[2] \in ds /\ lag = 0 /\ Sees(s, watch[2], offline')
    THEN 1 ELSE lag
Forget == lost' = IF lag' = 0 THEN 0 ELSE lost

------------------------------------------------------------------------------
(* The event path. A write of a venue that is not allowed to carry signals    *)
(* is an event too, and its detection pass sees nothing of that venue.        *)
Sources(s, g) == CASE g = "cex"     -> {v \in Cex : <<v, s>> \in Market}
                   [] g = "dex"     -> {v \in Pools : <<v, s>> \in Market}
                   [] g = "funding" -> {v \in Cex : <<v, s>> \in Carried}
Arrives(v, s, g) ==
    /\ <<s, g>> \in Now.feeds /\ v \in Sources(s, g)
    /\ Write(s, g)
    /\ UNCHANGED <<world, offline, net, since, idle, fails, watch, lost>>
    /\ lag' = IF v \in offline THEN lag
              ELSE Changed(s, {d \in Detectors : g \in Reads[d]})

WorkerDetects ==
    /\ Detect
    /\ lag' = Ran(worker.symbol, Routed(worker.symbol))
    /\ Forget
    /\ UNCHANGED <<world, offline, net, since, idle, fails, watch>>

WorkerGoesOn ==
    /\ Dequeue \/ FindsNothing \/ Wakes \/ TimesOut \/ Finish
    /\ UNCHANGED netVars

Reranked == ~Now.timed /\ Reclassify /\ UNCHANGED netVars

(* A publish puts a detector back to its base cadence.                        *)
Publish ==
    /\ Now.timed /\ idle[watch[2]] > 0
    /\ idle' = [idle EXCEPT ![watch[2]] = 0]
    /\ UNCHANGED <<vars, world, offline, net, since, fails, watch, lag, lost>>

------------------------------------------------------------------------------
(* Venues, by VenueHealth: the change tells nobody but the lifecycle manager. *)
GoesOffline(v) ==
    /\ v \in Now.flapping \ offline
    /\ offline' = offline \cup {v}
    /\ lag' = IF Sees(watch[1], watch[2], offline') THEN lag ELSE 0
    /\ Forget
    /\ UNCHANGED <<vars, world, net, since, idle, fails, watch>>
Returns(v) ==
    /\ v \in offline
    /\ offline' = offline \ {v}
    /\ lag' = Changed(watch[1], IF \E g \in Reads[watch[2]] : v \in Sources(watch[1], g)
                                THEN Detectors ELSE {})
    /\ UNCHANGED <<vars, world, net, since, idle, fails, watch, lost>>

------------------------------------------------------------------------------
(* The loop. Its pass takes `now` when it starts and notes it when it ends.   *)
Asleep == [pc |-> "sleep", rest |-> 1, left |-> {}, due |-> {}, took |-> 0]

PassStarts ==
    /\ Now.timed /\ net.pc = "sleep" /\ net.rest = 0
    /\ net' = [pc |-> "scan", rest |-> 0, left |-> IF Due = {} THEN {} ELSE Now.pairs,
               due |-> Due, took |-> 0]
    /\ UNCHANGED <<vars, world, offline, since, idle, fails, watch, lag, lost>>

(* The detectors run on one pair without an await; what they find is then     *)
(* assembled, with awaits.                                                    *)
ScanPair(s) ==
    /\ net.pc = "scan" /\ s \in net.left
    /\ net' = [net EXCEPT !.left = @ \ {s}]
    /\ stale' = [stale EXCEPT ![s] = @ \ (net.due \cap Eligible(s))]
    /\ lag' = Ran(s, net.due \cap Eligible(s))
    /\ Forget
    /\ UNCHANGED <<tier, queue, pending, groups, starts, event, worker, passed>>
    /\ UNCHANGED <<world, offline, since, idle, fails, watch>>

PassEnds ==
    /\ net.pc = "scan" /\ net.left = {}
    /\ since' = [d \in Detectors |-> IF d \in net.due THEN net.took ELSE since[d]]
    /\ net' = Asleep
    /\ UNCHANGED <<vars, world, offline, idle, fails, watch, lag, lost>>

(* Mutant: a dropped pass counts.                                             *)
PassFailsMarked ==
    /\ fails < MaxFails /\ net.pc = "scan"
    /\ since' = [d \in Detectors |-> IF d \in net.due THEN net.took ELSE since[d]]
    /\ net' = Asleep
    /\ fails' = fails + 1
    /\ lost' = IF lag = 0 THEN 0 ELSE lost + net.took + 1
    /\ UNCHANGED <<vars, world, offline, idle, watch, lag>>

(* A candidate raises, or the sweep before the scan: the rest of the pass is  *)
(* dropped, and what was due stays due.                                       *)
PassFails ==
    /\ fails < MaxFails /\ net.pc = "scan"
    /\ net' = Asleep
    /\ fails' = fails + 1
    /\ lost' = IF lag = 0 THEN 0 ELSE lost + net.took + 1
    /\ UNCHANGED <<vars, world, offline, since, idle, watch, lag>>

Least(a, b) == IF a < b THEN a ELSE b
Tick ==
    /\ Now.timed
    /\ \/ net.pc = "sleep" /\ net.rest > 0 /\ net' = [net EXCEPT !.rest = @ - 1]
       \/ net.pc = "scan" /\ net.took < 1 /\ net' = [net EXCEPT !.took = @ + 1]
    /\ since' = [d \in Detectors |-> Least(since[d] + 1, Forever(d))]
    /\ idle' = [d \in Detectors |-> Least(idle[d] + 1, IdleAfter)]
    /\ lag' = IF lag = 0 THEN 0 ELSE lag + 1
    /\ UNCHANGED <<vars, world, offline, fails, watch, lost>>

NetInit ==
    /\ Init
    /\ world \in DOMAIN Worlds
    /\ Now.timed => tier = CHOOSE t \in Rankings : TRUE
    /\ offline = {}
    /\ net = [Asleep EXCEPT !.rest = 0]
    /\ since = [d \in Detectors |-> Forever(d)]
    /\ idle = [d \in Detectors |-> 0]
    /\ fails = 0 /\ lag = 0 /\ lost = 0
    /\ watch \in Now.watched

NetNext ==
    \/ \E v \in Venues, s \in Symbols, g \in Groups : Arrives(v, s, g)
    \/ WorkerDetects \/ WorkerGoesOn \/ Reranked \/ Publish
    \/ \E v \in Venues : GoesOffline(v) \/ Returns(v)
    \/ PassStarts \/ PassEnds \/ PassFails \/ Tick
    \/ \E s \in Symbols : ScanPair(s)

NetSpec     == NetInit /\ [][NetNext]_allVars
FairNetSpec == NetSpec /\ WF_allVars(WorkerDetects \/ WorkerGoesOn)

------------------------------------------------------------------------------
(* The net catches what the event path misses, in time (cadence.py:11): what  *)
(* a detector has two legs for and has not seen yet waits one backed-off      *)
(* cadence, up to the next pass and for the length of one - not counting what *)
(* goes by in passes that an exception ended.                                 *)
SeenInTime ==
    lag <= (IF Forever(watch[2]) = 0 THEN 1 ELSE Forever(watch[2])) + 3 + lost
==============================================================================
