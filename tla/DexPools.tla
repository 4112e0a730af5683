------------------------------- MODULE DexPools -------------------------------
(* The pools of one EVM venue: discovery from the factory and batched reads   *)
(* (scanner/adapters/dex/v2_adapter.py with the V2 and V3 readers and         *)
(* discoveries, multicall.py, pool_registry.py). Two tasks ask the adapter    *)
(* for its markets: the market collector, and the poll cycle that goes on to  *)
(* read the pools.                                                            *)
(*                                                                            *)
(* A call is answered from the newest block or not at all; RpcPool is how. A  *)
(* pool's reserves change with every block, so a book is the blocks that its  *)
(* calls were answered from. Abstracted: a pool that is drained, too thin or  *)
(* undecodable is one whose sub-call is not answered.                         *)
EXTENDS Naturals, FiniteSets

CONSTANTS
    Pairs, Tiers,       \* a pool is a pair with a fee tier
    Curated,            \* the pools known before any discovery
    Calls,              \* calls per pool: 1 for V2, slot0 and liquidity for V3
    Batch,              \* DEFAULT_MAX_CALLS_PER_BATCH
    Interval,           \* dex_discovery_interval_sec
    MaxBlock            \* bound of the runs: blocks after the first

Pool     == Pairs \X Tiers
Callers  == {"collector", "poll"}
Never    == Interval + 1
Resting  == [at |-> "idle"]

ASSUME DexAssumption ==
    /\ Tiers \subseteq Nat /\ Calls \in {1, 2} /\ Batch \in Nat /\ Calls <= Batch
    /\ Interval \in Nat \ {0} /\ MaxBlock \in Nat /\ Curated \subseteq Pool

VARIABLES
    block,       \* the newest block
    existing,    \* pools the factory has; none is added in a run
    answering,   \* the endpoints answer every call
    byPair,      \* _by_pair: the pool that stands for each pair
    since,       \* since _discovered_at, Never before the first discovery
    probing,     \* per caller: its discovery in flight, or Resting
    cycle        \* the poll cycle, with its books once they are read

poolVars == <<block, existing, answering, byPair, since, probing, cycle>>
world    == <<block, existing, answering>>

(* _index: discovery yields the tiers in ascending order, and the first wins. *)
Index(S) == {p \in S : \A q \in S : q[1] = p[1] => p[2] <= q[2]}

PoolInit ==
    /\ block = 0 /\ answering = TRUE
    /\ existing \in SUBSET Pool /\ Curated \subseteq existing
    /\ byPair = Index(Curated) /\ since = Never
    /\ probing = [t \in Callers |-> Resting]
    /\ cycle = Resting

------------------------------------------------------------------------------
(* _maybe_discover: the last discovery counts from when it was begun.         *)
(* Mutant: pools are discovered once.                                         *)
DueOnce == since = Never
Due     == since >= Interval

Ask(t) ==
    /\ Due /\ probing[t] = Resting
    /\ probing' = [probing EXCEPT ![t] =
           [at |-> "probing", age |-> 0, sound |-> answering]]

(* discover_v2_pools, discover_v3_pools: every probe runs on its own; one that *)
(* is not answered counts as a pool that is not there.                        *)
Found(t) == {existing \ failed : failed \in IF probing[t].sound THEN {{}} ELSE SUBSET existing}

Adopt(t, pools) ==
    IF pools = {} THEN UNCHANGED <<byPair, since>>
    ELSE byPair' = Index(pools) /\ since' = probing[t].age

Discovered(t) ==
    /\ probing[t] # Resting
    /\ \E pools \in Found(t) : Adopt(t, pools)
    /\ probing' = [probing EXCEPT ![t] = Resting]

CollectorAsks == Ask("collector") /\ UNCHANGED <<world, byPair, since, cycle>>
CollectorDiscovered == Discovered("collector") /\ UNCHANGED <<world, cycle>>

------------------------------------------------------------------------------
(* _poll_venue and read_pools. The pools of a cycle are fixed when it begins. *)
CallsOf(S)  == S \X (1..Calls)
Begin(S) == IF S = {} THEN cycle' = [at |-> "read", books |-> {}]
            ELSE cycle' = [at |-> "batch", pools |-> S, todo |-> CallsOf(S), got |-> {}]

StartPoll ==
    /\ cycle = Resting
    /\ IF Due THEN Ask("poll") /\ cycle' = [at |-> "list"] ELSE Begin(byPair) /\ UNCHANGED probing
    /\ UNCHANGED <<world, byPair, since>>
PollDiscovered ==
    /\ cycle.at = "list" /\ Discovered("poll") /\ Begin(byPair')
    /\ UNCHANGED world

(* A chunk has the calls of as many whole pools as fit.                       *)
(* Mutant: the calls are cut wherever the limit falls.                        *)
ChunkByCalls(c) == Cardinality(c) = Batch \/ (c = cycle.todo /\ Cardinality(c) < Batch)
Chunk(c) ==
    LET pools == {x[1] : x \in cycle.todo}
        n     == Batch \div Calls
    IN  \E S \in SUBSET pools :
            /\ Cardinality(S) = (IF Cardinality(pools) <= n THEN Cardinality(pools) ELSE n)
            /\ c = CallsOf(S)

(* Of a pool whose calls were all answered there is a book.                   *)
Blocks(p, got) == {g[2] : g \in {x \in got : x[1][1] = p}}
Whole(got, S)  == {p \in S : \A i \in 1..Calls : \E g \in got : g[1] = <<p, i>>}
BooksOf(got, S, alone) ==
    {[pool |-> p, blocks |-> Blocks(p, got), alone |-> alone] : p \in Whole(got, S)}
Proceed(todo, got, at) ==
    IF todo = {}
    THEN cycle' = [at |-> "read", books |-> BooksOf(got, cycle.pools, at = "single")]
    ELSE cycle' = [cycle EXCEPT !.at = at, !.todo = todo, !.got = got]

ReadBatch ==
    /\ cycle.at = "batch"
    /\ \E c \in SUBSET cycle.todo : Chunk(c) /\ c # {} /\ \E ok \in SUBSET c :
          Proceed(cycle.todo \ c, cycle.got \cup {<<x, block>> : x \in ok}, "batch")
    /\ UNCHANGED <<world, byPair, since, probing>>

(* The batch call itself failed, or decode_aggregate3 makes nothing of its    *)
(* answer: every pool of the cycle is read on its own, those of the chunks    *)
(* before included.                                                           *)
FallBack ==
    /\ cycle.at = "batch"
    /\ cycle' = [cycle EXCEPT !.at = "single", !.todo = CallsOf(cycle.pools), !.got = {}]
    /\ UNCHANGED <<world, byPair, since, probing>>

BatchFails       == ~answering /\ FallBack
BatchUndecodable == FallBack

(* read_v2_pool, read_v3_pool: the calls of a pool one after the other; the   *)
(* first that is not answered ends it.                                        *)
ReadSingle ==
    /\ cycle.at = "single"
    /\ \E x \in cycle.todo :
          /\ \A y \in cycle.todo : y[1] = x[1] => x[2] <= y[2]
          /\ \/ Proceed(cycle.todo \ {x}, cycle.got \cup {<<x, block>>}, "single")
             \/ Proceed({y \in cycle.todo : y[1] # x[1]}, cycle.got, "single")
    /\ UNCHANGED <<world, byPair, since, probing>>

------------------------------------------------------------------------------
(* External: blocks, endpoints that fail, and time.                           *)
NewBlock ==
    /\ block < MaxBlock
    /\ block' = block + 1
    /\ UNCHANGED <<existing, answering, byPair, since, probing, cycle>>
Fail ==
    /\ answering /\ answering' = FALSE
    /\ probing' = [t \in Callers |-> IF probing[t] = Resting THEN Resting
                                     ELSE [probing[t] EXCEPT !.sound = FALSE]]
    /\ UNCHANGED <<block, existing, byPair, since, cycle>>
Recover ==
    /\ ~answering /\ answering' = TRUE
    /\ UNCHANGED <<block, existing, byPair, since, probing, cycle>>

Older(n) == IF n < Interval THEN n + 1 ELSE n
Age ==
    /\ since' = Older(since)
    /\ probing' = [t \in Callers |-> IF probing[t] = Resting THEN Resting
                                     ELSE [probing[t] EXCEPT !.age = Older(@)]]
Pass == Age /\ UNCHANGED <<world, byPair, cycle>>

EndPoll ==
    /\ cycle.at = "read" /\ cycle' = Resting
    /\ UNCHANGED <<world, byPair, since, probing>>

PoolStep == PollDiscovered \/ ReadBatch \/ BatchFails \/ BatchUndecodable \/ ReadSingle
PoolNext ==
    \/ CollectorAsks \/ CollectorDiscovered
    \/ StartPoll \/ PoolStep \/ EndPoll
    \/ NewBlock \/ Fail \/ Recover \/ Pass

PoolSpec == PoolInit /\ [][PoolNext]_poolVars

(* The tasks run, a request ends by its timeout, and time passes.             *)
PoolFairness ==
    /\ WF_poolVars(CollectorAsks) /\ WF_poolVars(CollectorDiscovered)
    /\ WF_poolVars(StartPoll) /\ WF_poolVars(PoolStep) /\ WF_poolVars(EndPoll)
    /\ WF_poolVars(Pass)
FairPoolSpec == PoolSpec /\ PoolFairness

------------------------------------------------------------------------------
(* Endpoints that fail cannot empty the list: what is listed stays until a    *)
(* discovery finds something (_discover, v2_adapter.py:52).                   *)
NeverEmptied == [][byPair # {} => byPair' # {}]_poolVars

(* Price and liquidity belong together: the reserves of a book were read at   *)
(* one block, whatever discovery swaps in meanwhile; only a V3 pool read on   *)
(* its own, call by call, may mix two (read_v3_pool).                         *)
OneBlock == cycle.at = "read" => \A b \in cycle.books :
    Cardinality(b.blocks) = 1 \/ (b.alone /\ Calls = 2)

(* A pair that a failed probe lost, or gave a dearer pool, gets its cheapest  *)
(* pool back: once the endpoints answer, the list becomes and stays the       *)
(* factory's, though two discoveries may overwrite each other's results.      *)
BestPoolReturns ==
    <>[](answering /\ existing # {}) => <>[](byPair = Index(existing))
==============================================================================
