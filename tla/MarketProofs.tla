----------------------------- MODULE MarketProofs -----------------------------
(***************************************************************************)
(* Proofs about the modules that keep the scanner's view of its markets    *)
(* and venues: DexPools, for any pairs, fee tiers, curated pools, batch    *)
(* size and interval; MarketState, for any venues, prices and thresholds;  *)
(* and VenueHealth, for any threshold, any number of shards and any order  *)
(* of their reports.                                                       *)
(*                                                                         *)
(* NeverEmptied rests on the choice of the cheapest pool: of any pools     *)
(* there is a cheapest one per pair.  OneBlock rests on the chunking: a    *)
(* pool's calls are in one chunk, so a chunk that is answered meets no     *)
(* earlier answer of the same pool (Apart).                                *)
(*                                                                         *)
(* CacheAgrees is inductive once the discovery is known to be at a venue.  *)
(* DelistedOnEvidence needs that the grace period runs only for a venue    *)
(* that was found without the pair (Evidence); ConfirmedIsBelieved, that   *)
(* the first reading of a level leaves the note that the second one looks  *)
(* for, unless the level is taken or frozen out (Confirming).              *)
(***************************************************************************)
EXTENDS MarketState, DexPools, VenueHealth, SequenceTheorems, FiniteSetTheorems,
        WellFoundedInduction, NaturalsInduction, TLAPS

(* DexPools. *)

(* Known pools are pools. *)
Known == existing \subseteq Pool

(* The shape of a cycle that is under way. *)
Reading ==
    cycle.at \in {"batch", "single"} =>
        /\ cycle = [at |-> cycle.at, pools |-> cycle.pools, todo |-> cycle.todo, got |-> cycle.got]
        /\ cycle.todo \subseteq CallsOf(cycle.pools)

(* Pool by pool: no call of a pool is left once one of its calls was        *)
(* answered, and all its answers are from one block.                        *)
Apart ==
    cycle.at = "batch" \/ (cycle.at = "single" /\ Calls = 1) =>
        /\ \A g \in cycle.got, x \in cycle.todo : g[1][1] # x[1]
        /\ \A g, h \in cycle.got : g[1][1] = h[1][1] => g[2] = h[2]

IInv == Known /\ Reading /\ Apart /\ OneBlock

-----------------------------------------------------------------------------
(* The index and the books. *)

(* Among some pools one is the cheapest of its pair: indexing them yields   *)
(* some.                                                                    *)
LEMMA IndexOfSome ==
    ASSUME NEW S \in SUBSET Pool, S # {}
    PROVE  Index(S) # {}
<1>1. PICK p \in S : TRUE OBVIOUS
<1> DEFINE T == {q[2] : q \in {r \in S : r[1] = p[1]}}
<1>2. T \subseteq Nat /\ p[2] \in T BY DexAssumption DEF Pool
<1>3. PICK m \in T : \A y \in T : ~ (<<y, m>> \in OpToRel(<, Nat))
  <2>1. IsWellFoundedOn(OpToRel(<, Nat), Nat) BY NatLessThanWellFounded
  <2> HIDE DEF T
  <2> QED BY <1>2, <2>1, WFMin
<1>4. PICK c \in S : c[1] = p[1] /\ c[2] = m OBVIOUS
<1>5. \A y \in T : m <= y
  <2> SUFFICES ASSUME NEW y \in T PROVE m <= y OBVIOUS
  <2>1. ~ (y < m)
    <3>1. y \in Nat /\ m \in Nat BY <1>2
    <3> QED BY <1>3, <3>1 DEF OpToRel
  <2> QED BY <1>2, <2>1
<1>6. c \in Index(S) BY <1>4, <1>5 DEF Index
<1> QED BY <1>6

(* Where the answers of a pool are from one block, so is its book. *)
LEMMA BooksAreOfOneBlock ==
    ASSUME NEW got, NEW S, NEW alone,
           \A g, h \in got : g[1][1] = h[1][1] => g[2] = h[2]
    PROVE  \A b \in BooksOf(got, S, alone) : Cardinality(b.blocks) = 1
<1> SUFFICES ASSUME NEW p \in Whole(got, S) PROVE Cardinality(Blocks(p, got)) = 1
  BY DEF BooksOf
<1>1. PICK g \in got : g[1] = <<p, 1>>
  <2>1. 1 \in 1..Calls
    <3>1. CASE Calls = 1 BY <3>1
    <3>2. CASE Calls = 2 BY <3>2
    <3> QED BY <3>1, <3>2, DexAssumption
  <2> QED BY <2>1, Zenon DEF Whole
<1>2. Blocks(p, got) = {g[2]} BY <1>1 DEF Blocks
<1>3. \A y : Cardinality({y}) = 1 BY FS_Singleton
<1> QED BY <1>2, <1>3

-----------------------------------------------------------------------------
(* The steps. *)

LEMMA Initially == PoolInit => IInv
BY DEF PoolInit, IInv, Known, Reading, Apart, OneBlock, Resting

(* A cycle that begins has no answer yet. *)
LEMMA BeginKeeps ==
    ASSUME NEW S, Begin(S)
    PROVE  Reading' /\ Apart' /\ OneBlock'
<1>1. CASE S = {} BY <1>1 DEF Begin, Reading, Apart, OneBlock
<1>2. CASE S # {}
  <2>1. cycle' = [at |-> "batch", pools |-> S, todo |-> CallsOf(S), got |-> {}]
    BY <1>2 DEF Begin
  <2> QED BY <2>1 DEF Reading, Apart, OneBlock, CallsOf
<1> QED BY <1>1, <1>2

(* An answered chunk, or an answered or unanswered call of a single read:   *)
(* what remains of the cycle is apart from what it has got.                 *)
LEMMA ProceedKeeps ==
    ASSUME IInv, NEW todo \in SUBSET cycle.todo, NEW got, NEW at,
           at = cycle.at, at \in {"batch", "single"}, Proceed(todo, got, at),
           at = "batch" \/ Calls = 1 =>
               /\ \A g \in got, x \in todo : g[1][1] # x[1]
               /\ \A g, h \in got : g[1][1] = h[1][1] => g[2] = h[2]
    PROVE  Reading' /\ Apart' /\ OneBlock'
<1>1. CASE todo = {}
  <2>1. cycle' = [at |-> "read", books |-> BooksOf(got, cycle.pools, at = "single")]
    BY <1>1 DEF Proceed
  <2>2. Reading' /\ Apart' BY <2>1 DEF Reading, Apart
  <2>3. OneBlock'
    <3> SUFFICES ASSUME NEW b \in BooksOf(got, cycle.pools, at = "single")
                 PROVE  Cardinality(b.blocks) = 1 \/ (b.alone /\ Calls = 2)
      BY <2>1 DEF OneBlock
    <3>1. CASE at = "batch" \/ Calls = 1 BY <3>1, BooksAreOfOneBlock
    <3>2. CASE at = "single" /\ Calls = 2
      <4>1. PICK alone : alone = (at = "single") /\ b.alone = alone BY DEF BooksOf
      <4> QED BY <3>2, <4>1, Zenon
    <3> QED BY <3>1, <3>2, DexAssumption
  <2> QED BY <2>2, <2>3
<1>2. CASE todo # {}
  <2>1. cycle' = [cycle EXCEPT !.at = at, !.todo = todo, !.got = got]
    BY <1>2 DEF Proceed
  <2>2. /\ cycle = [at |-> cycle.at, pools |-> cycle.pools, todo |-> cycle.todo, got |-> cycle.got]
        /\ cycle.todo \subseteq CallsOf(cycle.pools)
    BY DEF IInv, Reading
  <2>3. cycle' = [at |-> at, pools |-> cycle.pools, todo |-> todo, got |-> got]
    BY <2>1, <2>2
  <2> QED BY <2>2, <2>3 DEF Reading, Apart, OneBlock
<1> QED BY <1>1, <1>2

(* The answers of a chunk are of pools that have none yet. *)
LEMMA ReadBatchKeeps ==
    ASSUME IInv, ReadBatch
    PROVE  IInv'
<1>1. PICK c \in SUBSET cycle.todo, ok \in SUBSET cycle.todo : ok \subseteq c /\
         Chunk(c) /\ Proceed(cycle.todo \ c, cycle.got \cup {<<x, block>> : x \in ok}, "batch")
  BY DEF ReadBatch
<1>2. cycle.at = "batch" /\ UNCHANGED existing BY DEF ReadBatch, world
<1>3. PICK S \in SUBSET {x[1] : x \in cycle.todo} : c = CallsOf(S) BY <1>1 DEF Chunk
<1>4. /\ cycle.todo \subseteq CallsOf(cycle.pools)
      /\ \A g \in cycle.got, x \in cycle.todo : g[1][1] # x[1]
      /\ \A g, h \in cycle.got : g[1][1] = h[1][1] => g[2] = h[2]
  BY <1>2 DEF IInv, Reading, Apart
<1> DEFINE new == {<<x, block>> : x \in ok}
           got == cycle.got \cup new
           todo == cycle.todo \ c
<1>5. \A g \in new : g[1][1] \in S /\ g[2] = block BY <1>1, <1>3 DEF CallsOf
<1>6. \A x \in todo : x[1] \notin S BY <1>3, <1>4 DEF CallsOf
<1>7. \A g \in cycle.got : g[1][1] \notin S BY <1>4
<1>8. \A g \in got, x \in todo : g[1][1] # x[1] BY <1>4, <1>5, <1>6
<1>9. \A g, h \in got : g[1][1] = h[1][1] => g[2] = h[2] BY <1>4, <1>5, <1>7
<1>10. Reading' /\ Apart' /\ OneBlock'
  <2>1. Proceed(todo, got, "batch") BY <1>1
  <2> HIDE DEF todo, got
  <2>2. todo \in SUBSET cycle.todo BY DEF todo
  <2> QED BY <1>2, <1>8, <1>9, <2>1, <2>2, ProceedKeeps
<1> QED BY <1>2, <1>10 DEF IInv, Known

(* A pool with one call is read by one call. *)
LEMMA ReadSingleKeeps ==
    ASSUME IInv, ReadSingle
    PROVE  IInv'
<1>1. cycle.at = "single" /\ UNCHANGED existing BY DEF ReadSingle, world
<1>2. PICK x \in cycle.todo :
         \/ Proceed(cycle.todo \ {x}, cycle.got \cup {<<x, block>>}, "single")
         \/ Proceed({y \in cycle.todo : y[1] # x[1]}, cycle.got, "single")
  BY DEF ReadSingle
<1>3. cycle.todo \subseteq CallsOf(cycle.pools) BY <1>1 DEF IInv, Reading
<1>4. Calls = 1 => /\ \A g \in cycle.got, y \in cycle.todo : g[1][1] # y[1]
                   /\ \A g, h \in cycle.got : g[1][1] = h[1][1] => g[2] = h[2]
  BY <1>1 DEF IInv, Apart
<1>5. CASE Proceed(cycle.todo \ {x}, cycle.got \cup {<<x, block>>}, "single")
  <2> DEFINE got == cycle.got \cup {<<x, block>>}
             todo == cycle.todo \ {x}
  <2>1. ASSUME Calls = 1, NEW y \in todo PROVE y[1] # x[1]
    BY <1>3, <2>1 DEF CallsOf
  <2>2. Calls = 1 => /\ \A g \in got, y \in todo : g[1][1] # y[1]
                     /\ \A g, h \in got : g[1][1] = h[1][1] => g[2] = h[2]
    BY <1>4, <2>1
  <2>3. Proceed(todo, got, "single") BY <1>5
  <2>4. todo \in SUBSET cycle.todo OBVIOUS
  <2> HIDE DEF todo, got
  <2>5. Reading' /\ Apart' /\ OneBlock' BY <1>1, <2>2, <2>3, <2>4, ProceedKeeps
  <2> QED BY <1>1, <2>5 DEF IInv, Known
<1>6. CASE Proceed({y \in cycle.todo : y[1] # x[1]}, cycle.got, "single")
  <2> DEFINE todo == {y \in cycle.todo : y[1] # x[1]}
  <2>1. todo \in SUBSET cycle.todo OBVIOUS
  <2>2. Proceed(todo, cycle.got, "single") BY <1>6
  <2> HIDE DEF todo
  <2>3. Reading' /\ Apart' /\ OneBlock' BY <1>1, <1>4, <2>1, <2>2, ProceedKeeps
  <2> QED BY <1>1, <2>3 DEF IInv, Known
<1> QED BY <1>2, <1>5, <1>6

(* The fallback starts over without the answers of the batches. *)
LEMMA FallBackKeeps ==
    ASSUME IInv, FallBack
    PROVE  IInv'
<1>1. cycle = [at |-> cycle.at, pools |-> cycle.pools, todo |-> cycle.todo, got |-> cycle.got]
  BY DEF IInv, Reading, FallBack
<1>2. cycle' = [at |-> "single", pools |-> cycle.pools, todo |-> CallsOf(cycle.pools), got |-> {}]
  BY <1>1 DEF FallBack
<1>3. /\ cycle'.at = "single" /\ cycle'.pools = cycle.pools
      /\ cycle'.todo = CallsOf(cycle.pools) /\ cycle'.got = {}
  BY <1>2
<1>4. Known' BY DEF FallBack, world, IInv, Known
<1>5. Reading' BY <1>2, <1>3 DEF Reading, CallsOf
<1>6. Apart' BY <1>3 DEF Apart
<1>7. OneBlock' BY <1>3 DEF OneBlock
<1> QED BY <1>4, <1>5, <1>6, <1>7 DEF IInv

LEMMA Inductive == IInv /\ [PoolNext]_poolVars => IInv'
<1> SUFFICES ASSUME IInv, [PoolNext]_poolVars PROVE IInv' OBVIOUS
<1>1. CASE UNCHANGED cycle
  <2>1. UNCHANGED existing
    <3>1. CASE CollectorAsks \/ CollectorDiscovered BY <3>1 DEF CollectorAsks, CollectorDiscovered, world
    <3>2. CASE StartPoll \/ PollDiscovered \/ EndPoll BY <3>2 DEF StartPoll, PollDiscovered, EndPoll, world
    <3>3. CASE ReadBatch \/ BatchFails \/ BatchUndecodable \/ ReadSingle
      BY <3>3 DEF ReadBatch, BatchFails, BatchUndecodable, FallBack, ReadSingle, world
    <3>4. CASE NewBlock \/ Fail \/ Recover \/ Pass BY <3>4 DEF NewBlock, Fail, Recover, Pass, world
    <3>5. CASE UNCHANGED poolVars BY <3>5 DEF poolVars
    <3> QED BY <3>1, <3>2, <3>3, <3>4, <3>5 DEF PoolNext, PoolStep
  <2> QED BY <1>1, <2>1 DEF IInv, Known, Reading, Apart, OneBlock
<1>2. CASE StartPoll
  <2>1. UNCHANGED existing BY <1>2 DEF StartPoll, world
  <2>2. CASE cycle' = [at |-> "list"] BY <2>1, <2>2 DEF IInv, Known, Reading, Apart, OneBlock
  <2>3. CASE Begin(byPair) BY <2>1, <2>3, BeginKeeps DEF IInv, Known
  <2> QED BY <1>2, <2>2, <2>3 DEF StartPoll
<1>3. CASE PollDiscovered
  <2>1. Begin(byPair') /\ UNCHANGED existing BY <1>3 DEF PollDiscovered, world
  <2>2. Reading' /\ Apart' /\ OneBlock' BY <2>1, BeginKeeps
  <2> QED BY <2>1, <2>2 DEF IInv, Known
<1>4. CASE ReadBatch BY <1>4, ReadBatchKeeps
<1>5. CASE BatchFails \/ BatchUndecodable BY <1>5, FallBackKeeps DEF BatchFails, BatchUndecodable
<1>6. CASE ReadSingle BY <1>6, ReadSingleKeeps
<1>7. CASE EndPoll
  <2>1. cycle' = [at |-> "idle"] /\ UNCHANGED existing BY <1>7 DEF EndPoll, Resting, world
  <2> QED BY <2>1 DEF IInv, Known, Reading, Apart, OneBlock
<1> QED BY <1>1, <1>2, <1>3, <1>4, <1>5, <1>6, <1>7
       DEF PoolNext, PoolStep, poolVars, CollectorAsks, CollectorDiscovered, NewBlock, Fail,
           Recover, Pass

(* The inductive invariant holds in every reachable state. *)
THEOREM Invariance == PoolSpec => []IInv
<1> QED BY Initially, Inductive, PTL DEF PoolSpec

-----------------------------------------------------------------------------
(* The reserves of a book are of one block, however discovery and polling   *)
(* overlap and whatever is not answered; a V3 pool read on its own is the   *)
(* only exception.                                                          *)
THEOREM BooksAreConsistent == PoolSpec => []OneBlock
<1>1. IInv => OneBlock BY DEF IInv
<1> QED BY <1>1, Invariance, PTL

(* Endpoints that fail never leave a venue without the pools it had.        *)
THEOREM ListSurvivesFailure == PoolSpec => NeverEmptied
<1>1. IInv /\ [PoolNext]_poolVars => [byPair # {} => byPair' # {}]_poolVars
  <2> SUFFICES ASSUME IInv, PoolNext, byPair # {} PROVE byPair' # {}
    BY DEF poolVars
  <2>1. ASSUME NEW t \in Callers, Discovered(t) PROVE byPair' # {}
    <3>1. PICK pools \in Found(t) : Adopt(t, pools) BY <2>1 DEF Discovered
    <3>2. pools \in SUBSET Pool BY DEF Found, IInv, Known
    <3> QED BY <3>1, <3>2, IndexOfSome DEF Adopt
  <2>2. CASE CollectorDiscovered \/ PollDiscovered
    BY <2>1, <2>2 DEF CollectorDiscovered, PollDiscovered, Callers
  <2>3. CASE CollectorAsks \/ StartPoll \/ EndPoll \/ Pass
    BY <2>3 DEF CollectorAsks, StartPoll, EndPoll, Pass
  <2>4. CASE ReadBatch \/ BatchFails \/ BatchUndecodable \/ ReadSingle
    BY <2>4 DEF ReadBatch, BatchFails, BatchUndecodable, FallBack, ReadSingle
  <2>5. CASE NewBlock \/ Fail \/ Recover BY <2>5 DEF NewBlock, Fail, Recover
  <2> QED BY <2>2, <2>3, <2>4, <2>5 DEF PoolNext, PoolStep
<1> QED BY <1>1, Invariance, PTL DEF PoolSpec, NeverEmptied

-----------------------------------------------------------------------------
(* MarketState. *)

(* The discovery is resting or at one of the configured venues.             *)
Placed == discovery = Idle \/ (/\ discovery.at \in 1..Len(setup.order)
                               /\ discovery.waits \in {"listing", "subscribing", "expiring"}
                               /\ discovery = [at |-> discovery.at, waits |-> discovery.waits])

(* The shape of the state, as far as the proofs need it.                    *)
Shape ==
    /\ setup \in Setups
    /\ cache \in [Venues -> Entry] /\ index \subseteq Venues /\ known \subseteq Venues
    /\ missing \in [Venues -> {"no", "new", "due"}]
    /\ poll \in [Pools -> {"idle", "reading"}]
    /\ level \in [Venues -> Levels]
    /\ heard \in [Venues -> 0..2] /\ absent \in [Venues -> 0..2]
    /\ Placed

(* The grace period runs only for a venue that was found without the pair.  *)
Evidence == \A v \in Venues : missing[v] # "no" => absent[v] >= 1

(* The first reading of a level is noted, if it is not taken or frozen out. *)
Confirming == \A v \in Venues \ Pools :
    /\ heard[v] = 1 => Frozen(v) \/ Believed(v) \/ cache[v].suspect
    /\ heard[v] = 2 => Frozen(v) \/ Believed(v)

MarketInv == Shape /\ CacheAgrees /\ Evidence /\ Confirming

(* A quote that is kept is the last of the window. *)
LEMMA WindowGrows ==
    ASSUME NEW w \in Seq(Levels), NEW m \in Levels
    PROVE  LET new == Recent(Append(w, m))
           IN  new \in Seq(Levels) /\ new # <<>> /\ Last(new) = m
<1> DEFINE a == Append(w, m)
<1>1. /\ a \in Seq(Levels) /\ a # <<>> /\ Len(w) \in Nat /\ Len(a) = Len(w) + 1
      /\ a[Len(a)] = m
  BY AppendProperties, LenProperties
<1> HIDE DEF a
<1>2. CASE Len(a) > Window
  <2>1. /\ Tail(a) \in Seq(Levels) /\ Len(Tail(a)) = Len(a) - 1
        /\ \A i \in 1..Len(Tail(a)) : Tail(a)[i] = a[i + 1]
    BY <1>1, HeadTailProperties
  <2>2. Len(a) \in Nat /\ Len(a) >= 2 BY <1>1, <1>2, MarketAssumption
  <2>3. Tail(a)[Len(Tail(a))] = m BY <1>1, <2>1, <2>2
  <2>4. Tail(a) # <<>>
    <3>1. Len(Tail(a)) # 0 BY <2>1, <2>2
    <3>2. Len(<<>>) = 0 BY EmptySeq
    <3> QED BY <3>1, <3>2, Zenon
  <2> QED BY <1>2, <2>1, <2>3, <2>4 DEF Recent, Last, a
<1>3. CASE ~(Len(a) > Window)
  BY <1>1, <1>3 DEF Recent, Last, a
<1> QED BY <1>2, <1>3

LEMMA NothingIsEmpty == Nothing \in Entry /\ ~(Nothing.window # <<>> \/ Nothing.book) /\ ~Nothing.tracked
<1>1. <<>> \in Seq(Levels) BY EmptySeq
<1>2. 0 \in 0..Warmup BY MarketAssumption
<1> QED BY <1>1, <1>2 DEF Nothing, Entry

LEMMA MarketInitially == Init => MarketInv
<1> SUFFICES ASSUME Init PROVE MarketInv OBVIOUS
<1>1. Shape BY NothingIsEmpty DEF Init, Shape, Placed
<1>2. CacheAgrees BY NothingIsEmpty DEF Init, CacheAgrees, Has
<1>3. Evidence BY DEF Init, Evidence
<1>4. Confirming BY DEF Init, Confirming
<1> QED BY <1>1, <1>2, <1>3, <1>4 DEF MarketInv

(* What the discovery does next, and where. *)
LEMMA DiscoveryIsAtAVenue ==
    ASSUME Shape, discovery.waits # "idle"
    PROVE  /\ discovery.at \in 1..Len(setup.order) /\ At \in Venues
           /\ discovery = [at |-> discovery.at, waits |-> discovery.waits]
<1>1. discovery # Idle BY DEF Idle
<1>2. setup.order \in Seq(Venues) BY MarketAssumption DEF Shape
<1> QED BY <1>1, <1>2, ElementOfSeq DEF Shape, Placed, At

LEMMA DiscoveryMoves ==
    ASSUME Shape, setup' = setup,
           \/ discovery = Idle /\ discovery' = [at |-> 1, waits |-> "listing"]
           \/ discovery.waits # "idle" /\ discovery' = Onward
           \/ /\ discovery.waits # "idle"
              /\ discovery' = [discovery EXCEPT !.waits = "subscribing"]
           \/ /\ discovery.waits # "idle"
              /\ discovery' = [discovery EXCEPT !.waits = "expiring"]
    PROVE  Placed'
<1>1. setup.order \in Seq(Venues) /\ setup.order # <<>> BY MarketAssumption DEF Shape
<1>2. Len(setup.order) \in Nat \ {0}
  BY <1>1, LenProperties, EmptySeq
<1>3. CASE discovery = Idle /\ discovery' = [at |-> 1, waits |-> "listing"]
  BY <1>2, <1>3 DEF Placed
<1>4. CASE discovery.waits # "idle" /\ discovery' = Onward
  BY <1>2, <1>4, DiscoveryIsAtAVenue DEF Placed, Onward
<1>5. CASE /\ discovery.waits # "idle"
           /\ discovery' = [discovery EXCEPT !.waits = "subscribing"]
  <2> DEFINE n == discovery.at
  <2>1. discovery = [at |-> n, waits |-> discovery.waits] /\ n \in 1..Len(setup.order)
    BY <1>5, DiscoveryIsAtAVenue
  <2>2. discovery' = [at |-> n, waits |-> "subscribing"] BY <1>5, <2>1
  <2> HIDE DEF n
  <2> QED BY <2>1, <2>2 DEF Placed
<1>6. CASE /\ discovery.waits # "idle"
           /\ discovery' = [discovery EXCEPT !.waits = "expiring"]
  <2> DEFINE n == discovery.at
  <2>1. discovery = [at |-> n, waits |-> discovery.waits] /\ n \in 1..Len(setup.order)
    BY <1>6, DiscoveryIsAtAVenue
  <2>2. discovery' = [at |-> n, waits |-> "expiring"] BY <1>6, <2>1
  <2> HIDE DEF n
  <2> QED BY <2>1, <2>2 DEF Placed
<1> QED BY <1>3, <1>4, <1>5, <1>6

(* The entry of one venue is rewritten and the index follows. *)
Rewritten(v, e) ==
    /\ cache' = [cache EXCEPT ![v] = e]
    /\ index' = IF e.window # <<>> \/ e.book THEN index \cup {v} ELSE index \ {v}

LEMMA RewrittenAgrees ==
    ASSUME Shape, CacheAgrees, NEW v \in Venues, NEW e \in Entry, Rewritten(v, e),
           e.tracked \/ e = Nothing,
           \A u \in Venues \ {v} : u \in known' <=> u \in known,
           v \notin Pools => (e.tracked <=> v \in known')
    PROVE  cache' \in [Venues -> Entry] /\ index' \subseteq Venues /\ CacheAgrees'
<1>1. /\ cache \in [Venues -> Entry] /\ index \subseteq Venues
      /\ index = {u \in Venues : cache[u].window # <<>> \/ cache[u].book}
      /\ \A u \in Venues : ~cache[u].tracked => cache[u] = Nothing
      /\ \A u \in Venues \ Pools : cache[u].tracked <=> u \in known
  BY DEF Shape, CacheAgrees, Has
<1>2. cache' \in [Venues -> Entry] /\ cache'[v] = e /\ \A u \in Venues \ {v} : cache'[u] = cache[u]
  BY <1>1 DEF Rewritten
<1>3. index' = {u \in Venues : cache'[u].window # <<>> \/ cache'[u].book}
  BY <1>1, <1>2 DEF Rewritten
<1>4. \A u \in Venues : ~cache'[u].tracked => cache'[u] = Nothing BY <1>1, <1>2
<1>5. \A u \in Venues \ Pools : cache'[u].tracked <=> u \in known' BY <1>1, <1>2
<1> QED BY <1>2, <1>3, <1>4, <1>5 DEF CacheAgrees, Has

(* What a venue believes depends on its window and its level only. *)
LEMMA SameBelief ==
    ASSUME NEW v, cache'[v].window = cache[v].window, level'[v] = level[v]
    PROVE  (Frozen(v)' <=> Frozen(v)) /\ (Believed(v)' <=> Believed(v))
BY DEF Frozen, Believed, IsInsane, IsOutlier, Price

LEMMA WarmIsBounded == ASSUME NEW o \in Entry PROVE Warmer(o) \in 0..Warmup /\ o.warm \in 0..Warmup
BY MarketAssumption DEF Entry, Warmer, AtMost

Kept(v) == cache'[v].window = cache[v].window /\ cache'[v].suspect = cache[v].suspect

LEMMA TrackingRewrites ==
    ASSUME Shape, CacheAgrees, NEW v \in Venues, cache' = Tracking(v), index' = index
    PROVE  Kept(v) /\ \E e \in Entry : Rewritten(v, e) /\ e.tracked
<1> DEFINE o == cache[v]
           e == [o EXCEPT !.tracked = TRUE]
<1>1. o \in Entry /\ cache \in [Venues -> Entry] BY DEF Shape
<1>2. e \in Entry /\ e.tracked /\ e.window = o.window /\ e.book = o.book /\ e.suspect = o.suspect
  BY <1>1 DEF Entry
<1>3. cache' = [cache EXCEPT ![v] = e] BY DEF Tracking
<1>4. v \in index <=> o.window # <<>> \/ o.book BY DEF CacheAgrees, Has
<1>5. cache'[v] = e BY <1>1, <1>3
<1> HIDE DEF e
<1> QED BY <1>2, <1>3, <1>4, <1>5 DEF Rewritten, Kept

LEMMA BookRewrites ==
    ASSUME Shape, CacheAgrees, NEW v \in Venues, PutBook(v)
    PROVE  /\ Kept(v)
           /\ \/ UNCHANGED <<cache, index>>
              \/ cache[v].tracked /\ \E e \in Entry : Rewritten(v, e) /\ e.tracked
<1>1. CASE ~cache[v].tracked BY <1>1 DEF PutBook, BookIsKept, Kept
<1>2. CASE cache[v].tracked
  <2> DEFINE o == cache[v]
             w == IF v \in Pools THEN Warmer(o) ELSE o.warm
             e == [o EXCEPT !.book = TRUE, !.warm = w]
  <2>1. o \in Entry /\ cache \in [Venues -> Entry] BY DEF Shape
  <2>2. w \in 0..Warmup BY <2>1, WarmIsBounded
  <2>3. e \in Entry /\ e.tracked /\ e.window = o.window /\ e.book /\ e.suspect = o.suspect
    <3> HIDE DEF w
    <3> QED BY <1>2, <2>1, <2>2 DEF Entry
  <2>5. cache' = [cache EXCEPT ![v] = e] BY <1>2 DEF PutBook, BookIsKept
  <2>6. index' = index \cup {v} BY <1>2 DEF PutBook, BookIsKept
  <2>7. cache'[v] = e BY <2>1, <2>5
  <2> HIDE DEF e
  <2> QED BY <1>2, <2>3, <2>5, <2>6, <2>7 DEF Rewritten, Kept
<1> QED BY <1>1, <1>2

LEMMA SeedRewrites ==
    ASSUME Shape, NEW v \in Venues, cache[v].tracked, NEW m \in Levels,
           NEW s \in BOOLEAN, Seed(v, m, s)
    PROVE  \E e \in Entry : Rewritten(v, e) /\ e.tracked /\ e.window # <<>> /\ Last(e.window) = m
<1> DEFINE o == cache[v]
           x == Recent(Append(o.window, m))
           e == [o EXCEPT !.window = x, !.warm = Warmer(o), !.suspect = s]
<1>1. o \in Entry /\ cache \in [Venues -> Entry] BY DEF Shape
<1>2. x \in Seq(Levels) /\ x # <<>> /\ Last(x) = m
  BY <1>1, WindowGrows DEF Entry
<1>3. e \in Entry /\ e.tracked /\ e.window = x
  <2> HIDE DEF x
  <2>1. Warmer(o) \in 0..Warmup BY <1>1, WarmIsBounded
  <2> QED BY <1>1, <1>2, <2>1 DEF Entry
<1>4. cache' = [cache EXCEPT ![v] = e] BY DEF Seed
<1>5. index' = index \cup {v} BY DEF Seed
<1> HIDE DEF e, x
<1> QED BY <1>2, <1>3, <1>4, <1>5 DEF Rewritten

LEMMA NoteRewrites ==
    ASSUME Shape, CacheAgrees, NEW v \in Venues, cache[v].tracked,
           cache' = [cache EXCEPT ![v].suspect = TRUE], index' = index
    PROVE  \E e \in Entry : /\ Rewritten(v, e) /\ e.tracked
                            /\ e.window = cache[v].window /\ e.suspect
<1> DEFINE o == cache[v]
           e == [o EXCEPT !.suspect = TRUE]
<1>1. o \in Entry /\ cache \in [Venues -> Entry] BY DEF Shape
<1>2. e \in Entry /\ e.tracked /\ e.window = o.window /\ e.book = o.book /\ e.suspect
  BY <1>1 DEF Entry
<1>3. cache' = [cache EXCEPT ![v] = e] OBVIOUS
<1>4. v \in index <=> o.window # <<>> \/ o.book BY DEF CacheAgrees, Has
<1> HIDE DEF e
<1> QED BY <1>2, <1>3, <1>4 DEF Rewritten

(* A venue's level is as confirmed as it was where neither it nor what is   *)
(* kept of it changed; one that was not heard has nothing to confirm.       *)
Undisturbed(v) == \/ heard'[v] = 0
                  \/ heard'[v] = heard[v] /\ Kept(v) /\ level'[v] = level[v]

LEMMA ConfirmingKeeps ==
    ASSUME Confirming, \A v \in Venues \ Pools : Undisturbed(v)
    PROVE  Confirming'
<1> SUFFICES ASSUME NEW v \in Venues \ Pools
             PROVE  /\ heard'[v] = 1 => Frozen(v)' \/ Believed(v)' \/ cache'[v].suspect
                    /\ heard'[v] = 2 => Frozen(v)' \/ Believed(v)'
  BY DEF Confirming
<1>1. CASE heard'[v] = 0 BY <1>1
<1>2. CASE heard'[v] = heard[v] /\ Kept(v) /\ level'[v] = level[v]
  BY <1>2, SameBelief DEF Confirming, Kept
<1> QED BY <1>1, <1>2 DEF Undisturbed

LEMMA RewriteLeavesOthers ==
    ASSUME Shape, NEW v \in Venues, NEW e, Rewritten(v, e)
    PROVE  cache'[v] = e /\ \A u \in Venues \ {v} : cache'[u] = cache[u] /\ Kept(u)
BY DEF Shape, Rewritten, Kept

(* A quote is ignored, noted or taken. *)
LEMMA QuoteConfirms ==
    ASSUME MarketInv, NEW v \in Venues, Quote(v)
    PROVE  Confirming'
<1> DEFINE m == level[v]
<1>1. /\ Shape /\ CacheAgrees /\ Confirming /\ cache[v].tracked /\ Upsert(v, m) /\ level' = level
      /\ heard' = [heard EXCEPT ![v] = AtMost(@ + 1, 2)]
  BY DEF Quote, MarketInv
<1>2. /\ m \in Levels /\ heard[v] \in 0..2 /\ v \in Venues \ Pools
      /\ heard'[v] = AtMost(heard[v] + 1, 2)
      /\ \A u \in Venues \ {v} : heard'[u] = heard[u]
  BY <1>1 DEF Shape, Quote, Cex
<1>3. (heard'[v] = 1 /\ heard[v] = 0) \/ (heard'[v] = 2 /\ heard[v] \in {1, 2})
  <2>1. heard[v] = 0 => AtMost(heard[v] + 1, 2) = 1 BY DEF AtMost
  <2>2. heard[v] \in {1, 2} => AtMost(heard[v] + 1, 2) = 2 BY DEF AtMost
  <2>3. heard[v] \in {0, 1, 2} BY <1>2
  <2> QED BY <1>2, <2>1, <2>2, <2>3
<1>4. /\ \A u \in Venues \ {v} : Kept(u)
      /\ \/ Frozen(v)' \/ Believed(v)'
         \/ heard'[v] = 1 /\ cache'[v].suspect
  <2>1. CASE IsInsane(m, v) \/ IsOutlier(m, cache[v].window)
    <3>1. UNCHANGED cache BY <1>1, <2>1 DEF Upsert
    <3>2. Frozen(v) BY <2>1 DEF Frozen
    <3>3. Frozen(v)' BY <1>1, <3>1, <3>2, SameBelief
    <3> QED BY <3>1, <3>3 DEF Kept
  <2>2. CASE ~(IsInsane(m, v) \/ IsOutlier(m, cache[v].window)) /\ IsSuspect(m, v) /\ ~cache[v].suspect
    <3>1. cache' = [cache EXCEPT ![v].suspect = TRUE] /\ index' = index BY <1>1, <2>2 DEF Upsert
    <3>2. PICK e \in Entry : Rewritten(v, e) /\ e.window = cache[v].window /\ e.suspect
      BY <1>1, <3>1, NoteRewrites
    <3>3. cache'[v] = e /\ \A u \in Venues \ {v} : Kept(u) BY <1>1, <3>2, RewriteLeavesOthers
    <3>4. CASE heard'[v] = 1 BY <3>2, <3>3, <3>4
    <3>5. CASE heard[v] \in {1, 2}
      <4>1. Frozen(v) \/ Believed(v) BY <1>1, <1>2, <2>2, <3>5 DEF Confirming
      <4>2. Frozen(v)' \/ Believed(v)' BY <1>1, <3>2, <3>3, <4>1, SameBelief
      <4> QED BY <3>3, <4>2
    <3> QED BY <1>3, <3>4, <3>5
  <2>3. CASE ~(IsInsane(m, v) \/ IsOutlier(m, cache[v].window)) /\ ~(IsSuspect(m, v) /\ ~cache[v].suspect)
    <3>1. Seed(v, m, IsSuspect(m, v)) BY <1>1, <2>3 DEF Upsert
    <3>2. IsSuspect(m, v) \in BOOLEAN BY DEF IsSuspect
    <3>3. PICK e \in Entry : Rewritten(v, e) /\ e.window # <<>> /\ Last(e.window) = m
      BY <1>1, <1>2, <3>1, <3>2, SeedRewrites
    <3>4. cache'[v] = e /\ \A u \in Venues \ {v} : Kept(u) BY <1>1, <3>3, RewriteLeavesOthers
    <3>5. Believed(v)' BY <1>1, <3>3, <3>4 DEF Believed, Price
    <3> QED BY <3>4, <3>5
  <2> QED BY <2>1, <2>2, <2>3
<1>5. ASSUME NEW u \in Venues \ Pools, u # v
      PROVE  /\ heard'[u] = 1 => Frozen(u)' \/ Believed(u)' \/ cache'[u].suspect
             /\ heard'[u] = 2 => Frozen(u)' \/ Believed(u)'
  BY <1>1, <1>2, <1>4, <1>5, SameBelief DEF Confirming, Kept
<1>6. /\ heard'[v] = 1 => Frozen(v)' \/ Believed(v)' \/ cache'[v].suspect
      /\ heard'[v] = 2 => Frozen(v)' \/ Believed(v)'
  BY <1>4
<1> QED BY <1>5, <1>6 DEF Confirming

LEMMA QuoteKeeps ==
    ASSUME MarketInv, NEW v \in Venues, Quote(v)
    PROVE  MarketInv'
<1>1. /\ Shape /\ CacheAgrees /\ cache[v].tracked /\ Upsert(v, level[v]) /\ v \in Venues \ Pools
      /\ heard' = [heard EXCEPT ![v] = AtMost(@ + 1, 2)]
      /\ UNCHANGED <<known, missing, discovery, poll, absent, setup, level>>
  BY DEF Quote, MarketInv, Cex, taskVars, outside
<1>2. cache' \in [Venues -> Entry] /\ index' \subseteq Venues /\ CacheAgrees'
  <2>1. CASE UNCHANGED <<cache, index>> BY <1>1, <2>1 DEF Shape, CacheAgrees, Has
  <2>2. ASSUME NEW e \in Entry, Rewritten(v, e), e.tracked
        PROVE  cache' \in [Venues -> Entry] /\ index' \subseteq Venues /\ CacheAgrees'
    <3>1. v \in known BY <1>1 DEF CacheAgrees
    <3> QED BY <1>1, <2>2, <3>1, RewrittenAgrees
  <2>3. CASE cache' = [cache EXCEPT ![v].suspect = TRUE] /\ index' = index
    BY <1>1, <2>2, <2>3, NoteRewrites
  <2>4. ASSUME NEW s \in BOOLEAN, Seed(v, level[v], s)
        PROVE  cache' \in [Venues -> Entry] /\ index' \subseteq Venues /\ CacheAgrees'
    <3>1. level[v] \in Levels BY <1>1 DEF Shape
    <3> QED BY <1>1, <2>2, <2>4, <3>1, SeedRewrites
  <2>5. IsSuspect(level[v], v) \in BOOLEAN BY DEF IsSuspect
  <2> QED BY <1>1, <2>1, <2>3, <2>4, <2>5 DEF Upsert
<1>3. heard' \in [Venues -> 0..2]
  <2>1. heard[v] \in 0..2 BY <1>1 DEF Shape
  <2>2. AtMost(heard[v] + 1, 2) \in 0..2 BY <2>1 DEF AtMost
  <2> QED BY <1>1, <2>2 DEF Shape
<1>4. Shape' BY <1>1, <1>2, <1>3 DEF Shape, Placed, Idle
<1>5. Evidence' BY <1>1 DEF MarketInv, Evidence
<1> QED BY <1>2, <1>4, <1>5, QuoteConfirms DEF MarketInv

LEMMA BooksKeep ==
    ASSUME MarketInv, NEW v \in Venues, PutBook(v), poll' \in [Pools -> {"idle", "reading"}],
           UNCHANGED <<known, missing, discovery, absent, setup, streamed>>
    PROVE  MarketInv'
<1>1. Shape /\ CacheAgrees /\ Confirming /\ Evidence BY DEF MarketInv
<1>2. cache' \in [Venues -> Entry] /\ index' \subseteq Venues /\ CacheAgrees'
  <2>1. CASE UNCHANGED <<cache, index>> BY <1>1, <2>1 DEF Shape, CacheAgrees, Has
  <2>2. CASE cache[v].tracked /\ \E e \in Entry : Rewritten(v, e) /\ e.tracked
    <3>1. v \notin Pools => v \in known BY <1>1, <2>2 DEF CacheAgrees
    <3> QED BY <1>1, <2>2, <3>1, RewrittenAgrees
  <2> QED BY <1>1, <2>1, <2>2, BookRewrites
<1>3. Shape' BY <1>1, <1>2 DEF Shape, Placed, Idle, streamed
<1>4. Evidence' BY <1>1 DEF Evidence
<1>5. Kept(v) /\ \A u \in Venues \ {v} : Kept(u)
  BY <1>1, BookRewrites, RewriteLeavesOthers DEF Kept
<1>6. Confirming' BY <1>1, <1>5, ConfirmingKeeps DEF Undisturbed, streamed
<1> QED BY <1>2, <1>3, <1>4, <1>6 DEF MarketInv

LEMMA PollsKeep ==
    ASSUME MarketInv, NEW v \in Pools, NEW markets \in BOOLEAN, PollFrom(v, markets),
           UNCHANGED <<index, known, missing, discovery, absent, setup, streamed>>
    PROVE  MarketInv'
<1>1. Shape /\ CacheAgrees /\ Confirming /\ Evidence /\ v \in Venues
  BY MarketAssumption DEF MarketInv
<1>2. /\ cache' \in [Venues -> Entry] /\ index' \subseteq Venues /\ CacheAgrees'
      /\ \A u \in Venues : Kept(u)
  <2>1. CASE ~markets BY <1>1, <2>1 DEF PollFrom, Shape, CacheAgrees, Has, Kept
  <2>2. CASE markets
    <3>1. cache' = Tracking(v) BY <2>2 DEF PollFrom
    <3>2. Kept(v) /\ \E e \in Entry : Rewritten(v, e) /\ e.tracked BY <1>1, <3>1, TrackingRewrites
    <3>3. \A u \in Venues \ {v} : Kept(u) BY <1>1, <3>2, RewriteLeavesOthers
    <3> QED BY <1>1, <3>2, <3>3, RewrittenAgrees
  <2> QED BY <2>1, <2>2
<1>3. poll' \in [Pools -> {"idle", "reading"}] BY <1>1 DEF PollFrom, Shape
<1>4. Shape' BY <1>1, <1>2, <1>3 DEF Shape, Placed, Idle, streamed
<1>5. Evidence' BY <1>1 DEF Evidence
<1>6. Confirming' BY <1>1, <1>2, ConfirmingKeeps DEF Undisturbed, streamed
<1> QED BY <1>2, <1>4, <1>5, <1>6 DEF MarketInv

(* Only discovery tracks a CEX, and it notes it as known in the same step.  *)
LEMMA DiscoverKeeps ==
    ASSUME MarketInv, Discover
    PROVE  MarketInv'
<1>1. /\ Shape /\ CacheAgrees /\ Confirming /\ Evidence
      /\ discovery.waits # "idle" /\ At \in Venues
      /\ UNCHANGED <<index, poll, setup, streamed>>
  BY DiscoveryIsAtAVenue DEF MarketInv, Discover, outside
<1> DEFINE v == At
<1>2. /\ known' = known \cup {v} /\ missing' = [missing EXCEPT ![v] = "no"]
      /\ absent' = [absent EXCEPT ![v] = 0]
  BY DEF Discover
<1>3. Placed'
  <2>1. \/ discovery' = Onward
        \/ discovery' = [discovery EXCEPT !.waits = "subscribing"]
    BY DEF Discover
  <2> QED BY <1>1, <2>1, DiscoveryMoves
<1>4. /\ cache' \in [Venues -> Entry] /\ index' \subseteq Venues /\ CacheAgrees'
      /\ \A u \in Venues : Kept(u)
  <2>1. CASE v \in known
    <3>1. UNCHANGED <<cache, index, known>> BY <1>1, <1>2, <2>1 DEF Discover
    <3> QED BY <1>1, <3>1 DEF Shape, CacheAgrees, Has, Kept
  <2>2. CASE v \notin known
    <3>1. cache' = Tracking(v) BY <2>2 DEF Discover
    <3>2. Kept(v) /\ \E e \in Entry : Rewritten(v, e) /\ e.tracked BY <1>1, <3>1, TrackingRewrites
    <3>3. \A u \in Venues \ {v} : Kept(u) BY <1>1, <3>2, RewriteLeavesOthers
    <3> QED BY <1>1, <1>2, <3>2, <3>3, RewrittenAgrees
  <2> QED BY <2>1, <2>2
<1> v \in Venues BY <1>1
<1> HIDE DEF v
<1>5. /\ known' \subseteq Venues /\ missing' \in [Venues -> {"no", "new", "due"}]
      /\ absent' \in [Venues -> 0..2]
  <2>1. known' \subseteq Venues BY <1>1, <1>2 DEF Shape
  <2>2. missing' \in [Venues -> {"no", "new", "due"}] BY <1>1, <1>2 DEF Shape
  <2>3. absent' \in [Venues -> 0..2] BY <1>1, <1>2 DEF Shape
  <2> QED BY <2>1, <2>2, <2>3
<1>6. Shape' BY <1>1, <1>3, <1>4, <1>5 DEF Shape, Placed, streamed
<1>7. Evidence' BY <1>1, <1>2 DEF Evidence, Shape
<1>8. Confirming' BY <1>1, <1>4, ConfirmingKeeps DEF Undisturbed, streamed
<1> QED BY <1>4, <1>6, <1>7, <1>8 DEF MarketInv

LEMMA UntrackingRewrites ==
    ASSUME Shape, NEW v \in Venues, Untrack(v)
    PROVE  Nothing \in Entry /\ Rewritten(v, Nothing) /\ heard'[v] = 0
<1>1. cache' = [cache EXCEPT ![v] = Nothing] /\ index' = index \ {v}
  BY DEF Untrack
<1> QED BY <1>1, NothingIsEmpty DEF Untrack, Rewritten, Shape

(* A listing without the pair is counted, and the grace period starts with  *)
(* the first one.                                                           *)
LEMMA NotListedKeeps ==
    ASSUME MarketInv, NotListed
    PROVE  MarketInv'
<1>1. /\ Shape /\ CacheAgrees /\ Confirming /\ Evidence
      /\ discovery.waits # "idle" /\ At \in Venues
      /\ UNCHANGED <<poll, setup, level>>
  BY DiscoveryIsAtAVenue DEF MarketInv, NotListed, outside
<1> DEFINE v == At
<1>2. absent' = [absent EXCEPT ![v] = AtMost(@ + 1, 2)] BY DEF NotListed
<1>3. Placed'
  <2>1. \/ discovery' = Onward
        \/ discovery' = [discovery EXCEPT !.waits = "expiring"]
    BY DEF NotListed
  <2> QED BY <1>1, <2>1, DiscoveryMoves
<1>4. \/ /\ known' = known \ {v} /\ Untrack(v)
      \/ UNCHANGED <<cache, index, known, heard>>
  BY DEF NotListed
<1>5. /\ cache' \in [Venues -> Entry] /\ index' \subseteq Venues /\ known' \subseteq Venues
      /\ CacheAgrees' /\ \A u \in Venues : Undisturbed(u)
  <2>1. CASE UNCHANGED <<cache, index, known, heard>>
    BY <1>1, <2>1 DEF Shape, CacheAgrees, Has, Undisturbed, Kept
  <2>2. CASE known' = known \ {v} /\ Untrack(v)
    <3>1. Nothing \in Entry /\ ~Nothing.tracked /\ Rewritten(v, Nothing) /\ heard'[v] = 0
      BY <1>1, <2>2, UntrackingRewrites, NothingIsEmpty
    <3>2. \A u \in Venues \ {v} : Kept(u) /\ heard'[u] = heard[u]
      BY <1>1, <2>2, <3>1, RewriteLeavesOthers DEF Untrack, Shape
    <3>3. \A u \in Venues : Undisturbed(u) BY <1>1, <3>1, <3>2 DEF Undisturbed
    <3>4. known' \subseteq Venues BY <1>1, <2>2 DEF Shape
    <3> QED BY <1>1, <2>2, <3>1, <3>3, <3>4, RewrittenAgrees
  <2> QED BY <1>4, <2>1, <2>2
<1>6. heard' \in [Venues -> 0..2] BY <1>1, <1>4 DEF Shape, Untrack
<1>7. missing' \in [Venues -> {"no", "new", "due"}]
      /\ \A u \in Venues \ {v} : missing'[u] = missing[u]
  BY <1>1 DEF NotListed, Shape
<1>8. /\ absent' \in [Venues -> 0..2] /\ absent'[v] >= 1
      /\ \A u \in Venues \ {v} : absent'[u] = absent[u]
  <2>1. absent \in [Venues -> 0..2] /\ absent[v] \in 0..2 BY <1>1 DEF Shape
  <2>2. AtMost(absent[v] + 1, 2) \in 1..2 BY <2>1 DEF AtMost
  <2> QED BY <1>1, <1>2, <2>1, <2>2
<1> HIDE DEF v
<1>9. Shape' BY <1>1, <1>3, <1>5, <1>6, <1>7, <1>8 DEF Shape, Placed
<1>10. Evidence' BY <1>1, <1>7, <1>8 DEF Evidence
<1>11. Confirming' BY <1>1, <1>5, ConfirmingKeeps
<1> QED BY <1>5, <1>9, <1>10, <1>11 DEF MarketInv

LEMMA MarketInductive == MarketInv /\ [Next]_vars => MarketInv'
<1> SUFFICES ASSUME MarketInv, [Next]_vars PROVE MarketInv' OBVIOUS
<1> USE DEF MarketInv
<1>1. ASSUME NEW v \in Venues, Quote(v) PROVE MarketInv' BY <1>1, QuoteKeeps
<1>2. ASSUME NEW v \in Venues, Book(v) PROVE MarketInv'
  <2>1. PutBook(v) /\ UNCHANGED <<known, missing, discovery, absent, setup, streamed, poll>>
    BY <1>2 DEF Book, taskVars, outside
  <2> QED BY <2>1, BooksKeep DEF Shape
<1>3. ASSUME NEW v \in Venues, Move(v) PROVE MarketInv'
  <2>1. /\ UNCHANGED <<cache, index, known, missing, discovery, poll, absent, setup>>
        /\ heard' = [heard EXCEPT ![v] = 0]
        /\ \E l \in setup.levels[v] \ {level[v]} : level' = [level EXCEPT ![v] = l]
    BY <1>3 DEF Move, taskVars, outside
  <2>2. setup.levels[v] \subseteq Levels BY MarketAssumption DEF Shape
  <2>3. level' \in [Venues -> Levels] /\ \A u \in Venues \ {v} : level'[u] = level[u]
    BY <2>1, <2>2 DEF Shape
  <2>4. \A u \in Venues : Undisturbed(u) BY <2>1, <2>3 DEF Undisturbed, Kept, Shape
  <2>5. Shape' BY <2>1, <2>3 DEF Shape, Placed, Idle
  <2>6. CacheAgrees' /\ Evidence' BY <2>1 DEF CacheAgrees, Has, Evidence
  <2> QED BY <2>4, <2>5, <2>6, ConfirmingKeeps
<1>4. ASSUME NEW v \in Pools, NEW markets \in BOOLEAN, PollFrom(v, markets),
             UNCHANGED <<index, known, missing, discovery, absent, outside, streamed>>
      PROVE  MarketInv'
  BY <1>4, PollsKeep DEF outside
<1>5. ASSUME NEW v \in Pools, PollLists(v) \/ PollListingFails(v) PROVE MarketInv'
  <2>1. Lists(v) \in BOOLEAN /\ (v \in last) \in BOOLEAN BY DEF Lists
  <2> QED BY <1>4, <1>5, <2>1 DEF PollLists, PollListingFails
<1>6. ASSUME NEW v \in Pools, PoolRead(v) PROVE MarketInv'
  <2>1. v \in Venues BY MarketAssumption
  <2>2. poll' \in [Pools -> {"idle", "reading"}] BY <1>6 DEF PoolRead, Shape
  <2> QED BY <1>6, <2>1, <2>2, BooksKeep DEF PoolRead, outside
<1>7. CASE Discover BY <1>7, DiscoverKeeps
<1>8. CASE NotListed BY <1>8, NotListedKeeps
<1>9. ASSUME Shape', Evidence', UNCHANGED <<cache, index, known, streamed>> PROVE MarketInv'
  <2>1. \A u \in Venues : Undisturbed(u) BY <1>9 DEF Undisturbed, Kept, streamed
  <2>2. CacheAgrees' BY <1>9 DEF CacheAgrees, Has
  <2> QED BY <1>9, <2>1, <2>2, ConfirmingKeeps
<1>10. CASE StartDiscovery \/ Resume \/ ListingFails
  <2>1. /\ UNCHANGED <<cache, index, known, missing, poll, absent, streamed, setup>>
        /\ \/ discovery = Idle /\ discovery' = [at |-> 1, waits |-> "listing"]
           \/ discovery.waits # "idle" /\ discovery' = Onward
    BY <1>10 DEF StartDiscovery, Resume, ListingFails, outside
  <2>2. Placed' BY <2>1, DiscoveryMoves
  <2>3. Shape' /\ Evidence' BY <2>1, <2>2 DEF Shape, Placed, Evidence, streamed
  <2> QED BY <1>9, <2>1, <2>3
<1>11. ASSUME NEW v \in Venues, Elapse(v) PROVE MarketInv'
  <2>1. /\ missing[v] = "new" /\ missing' = [missing EXCEPT ![v] = "due"]
        /\ UNCHANGED <<cache, index, known, discovery, poll, absent, streamed, setup>>
    BY <1>11 DEF Elapse, outside
  <2>2. Shape' BY <2>1 DEF Shape, Placed, Idle, streamed
  <2>3. Evidence' BY <2>1 DEF Shape, Evidence
  <2> QED BY <1>9, <2>1, <2>2, <2>3
<1>12. ASSUME NEW v \in Pools, ReadFails(v) PROVE MarketInv'
  <2>1. /\ poll' = [poll EXCEPT ![v] = "idle"]
        /\ UNCHANGED <<cache, index, known, discovery, missing, absent, streamed, setup>>
    BY <1>12 DEF ReadFails, outside
  <2>2. Shape' /\ Evidence' BY <2>1 DEF Shape, Placed, Idle, streamed, Evidence
  <2> QED BY <1>9, <2>1, <2>2
<1>13. CASE Ban \/ (\E v \in Venues : Relist(v)) \/ UNCHANGED vars
  <2>1. UNCHANGED <<cache, index, known, discovery, missing, poll, absent, streamed, setup>>
    BY <1>13 DEF Ban, Relist, vars, taskVars, outside
  <2>2. Shape' /\ Evidence' BY <2>1 DEF Shape, Placed, Idle, streamed, Evidence
  <2> QED BY <1>9, <2>1, <2>2
<1> QED BY <1>1, <1>2, <1>3, <1>5, <1>6, <1>7, <1>8, <1>10, <1>11, <1>12, <1>13
       DEF Next, Streams, Discovery, Polling

(* The inductive invariant holds in every reachable state. *)
THEOREM MarketInvariance == Spec => []MarketInv
<1> QED BY MarketInitially, MarketInductive, PTL DEF Spec

-----------------------------------------------------------------------------
(* The detectors see exactly the venues that are kept: whatever was in      *)
(* flight, a delisted venue leaves no price and no book behind.             *)
THEOREM IndexIsCache == Spec => []CacheAgrees
<1>1. MarketInv => CacheAgrees BY DEF MarketInv
<1> QED BY <1>1, MarketInvariance, PTL

(* A level that a CEX has quoted twice is the price the detectors read,     *)
(* unless the bounds on one step of the price freeze it out.                *)
THEOREM SecondReadingConfirms == Spec => []ConfirmedIsBelieved
<1>1. MarketInv => ConfirmedIsBelieved BY DEF MarketInv, Confirming, ConfirmedIsBelieved
<1> QED BY <1>1, MarketInvariance, PTL

(* Quotes, books, polls and discovery leave what is tracked tracked.        *)
LEMMA OnlyDelistingDrops ==
    ASSUME Shape, CacheAgrees, NEW v \in Venues, cache[v].tracked,
           \/ Discover
           \/ \E u \in Venues : Streams(u)
           \/ \E u \in Pools : PollLists(u) \/ PollListingFails(u) \/ PoolRead(u)
    PROVE  cache'[v].tracked
<1>1. ASSUME NEW u \in Venues, NEW e \in Entry, Rewritten(u, e), e.tracked
      PROVE  cache'[v].tracked
  BY <1>1, RewriteLeavesOthers
<1>2. ASSUME NEW u \in Venues, cache' = Tracking(u), index' = index PROVE cache'[v].tracked
  BY <1>1, <1>2, TrackingRewrites
<1>3. ASSUME NEW u \in Venues, PutBook(u) PROVE cache'[v].tracked
  BY <1>1, <1>3, BookRewrites
<1>4. ASSUME NEW u \in Venues, Quote(u) PROVE cache'[v].tracked
  <2>1. /\ cache[u].tracked /\ Upsert(u, level[u]) /\ level[u] \in Levels
        /\ IsSuspect(level[u], u) \in BOOLEAN
    BY <1>4 DEF Quote, Shape, IsSuspect
  <2>2. CASE UNCHANGED cache BY <2>2
  <2>3. CASE cache' = [cache EXCEPT ![u].suspect = TRUE] /\ index' = index
    BY <1>1, <2>1, <2>3, NoteRewrites
  <2>4. CASE Seed(u, level[u], IsSuspect(level[u], u)) BY <1>1, <2>1, <2>4, SeedRewrites
  <2> QED BY <2>1, <2>2, <2>3, <2>4 DEF Upsert
<1>5. CASE Discover
  <2>1. At \in Venues BY <1>5, DiscoveryIsAtAVenue DEF Discover
  <2>2. cache' = cache \/ cache' = Tracking(At) BY <1>5 DEF Discover
  <2>3. index' = index BY <1>5 DEF Discover
  <2> QED BY <1>2, <2>1, <2>2, <2>3
<1>6. ASSUME NEW u \in Pools, PollLists(u) \/ PollListingFails(u) PROVE cache'[v].tracked
  <2>1. cache' = cache \/ cache' = Tracking(u)
    BY <1>6 DEF PollLists, PollListingFails, PollFrom
  <2>2. u \in Venues /\ index' = index
    BY <1>6, MarketAssumption DEF PollLists, PollListingFails
  <2> QED BY <1>2, <2>1, <2>2
<1>7. ASSUME NEW u \in Pools, PoolRead(u) PROVE cache'[v].tracked
  BY <1>3, <1>7, MarketAssumption DEF PoolRead
<1>8. ASSUME NEW u \in Venues, Book(u) \/ Move(u) PROVE cache'[v].tracked
  BY <1>3, <1>8 DEF Book, Move
<1> QED BY <1>4, <1>5, <1>6, <1>7, <1>8 DEF Streams

LEMMA DroppedAtTheSecond ==
    ASSUME MarketInv, NotListed, NEW v \in Venues, cache[v].tracked, ~cache'[v].tracked
    PROVE  absent'[v] = 2
<1>1. Shape /\ Evidence /\ At \in Venues BY DiscoveryIsAtAVenue DEF MarketInv, NotListed
<1>2. missing[At] = "due" /\ Untrack(At) BY DEF NotListed
<1>3. v = At BY <1>1, <1>2 DEF Untrack, Shape
<1>4. absent[v] \in 0..2 /\ absent[v] >= 1 BY <1>1, <1>2, <1>3 DEF Evidence, Shape
<1>5. absent'[v] = AtMost(absent[v] + 1, 2) BY <1>1, <1>3 DEF NotListed, Shape
<1> QED BY <1>4, <1>5 DEF AtMost

(* A pair that a venue still lists is never dropped there: it takes two     *)
(* listings in a row without it, and failed listings are no evidence.       *)
THEOREM TwoListingsToDrop == Spec => DelistedOnEvidence
<1>1. MarketInv /\ [Next]_vars =>
        [\A v \in Venues : cache[v].tracked /\ ~cache'[v].tracked => absent'[v] = 2]_vars
  <2> SUFFICES ASSUME MarketInv, Next, NEW v \in Venues, cache[v].tracked, ~cache'[v].tracked
               PROVE  absent'[v] = 2
    BY DEF vars
  <2>1. Discover \/ (\E u \in Venues : Streams(u)) \/ (\E u \in Pools : Polling(u) \/ PollListingFails(u))
        => cache'[v].tracked
    BY OnlyDelistingDrops DEF MarketInv, Polling
  <2>2. CASE NotListed BY <2>2, DroppedAtTheSecond
  <2>3. \/ StartDiscovery \/ Resume \/ ListingFails \/ Ban
        \/ \E u \in Venues : Elapse(u) \/ Relist(u)
        \/ \E u \in Pools : ReadFails(u)
        => cache' = cache
    BY DEF StartDiscovery, Resume, ListingFails, Ban, Elapse, Relist, ReadFails
  <2> QED BY <2>1, <2>2, <2>3 DEF Next, Discovery, Polling
<1> QED BY <1>1, MarketInvariance, PTL DEF Spec, DelistedOnEvidence

-----------------------------------------------------------------------------
(* VenueHealth: the anti-flap rule. *)

Good == {"stream", "probe"}

(* An entry whose counter tells the truth: its last `succ` reports are good. *)
Truthful(v) ==
  /\ v \in Health
  /\ Len(v.recent) <= Recovery
  /\ v.succ <= Len(v.recent)
  /\ \A n \in 1..Len(v.recent) : n > Len(v.recent) - v.succ => v.recent[n] \in Good

(* Adding a report keeps the latest ones, at most Recovery of them. *)
LEMMA ReportAppends ==
  ASSUME NEW s \in Seq(Reports), Len(s) <= Recovery, NEW r \in Reports
  PROVE  LET t == Report(s, r) IN
         /\ t \in Seq(Reports)
         /\ Len(t) \in 1..Recovery
         /\ Len(t) = Len(s) + 1 \/ (Len(t) = Recovery /\ Len(s) = Recovery)
         /\ t[Len(t)] = r
         /\ \A n \in 1..(Len(t) - 1) : t[n] = s[n + Len(s) + 1 - Len(t)]
<1> DEFINE a == Append(s, r)
<1>1. /\ a \in Seq(Reports) /\ Len(a) = Len(s) + 1 /\ a[Len(a)] = r
      /\ \A n \in 1..Len(s) : a[n] = s[n]
  OBVIOUS
<1>2. Recovery \in Nat /\ Recovery > 0 /\ Len(s) \in Nat
  BY CountsAssumption
<1>3. CASE Len(a) > Recovery
  <2>1. Report(s, r) = Tail(a)
    BY <1>3 DEF Report
  <2>2. Len(s) = Recovery
    BY <1>1, <1>2, <1>3
  <2>3. /\ Tail(a) \in Seq(Reports) /\ Len(Tail(a)) = Len(s)
        /\ \A n \in 1..Len(s) : Tail(a)[n] = a[n + 1]
    BY <1>1, <1>2
  <2> HIDE DEF a
  <2>4. Tail(a)[Len(s)] = r
    BY <1>1, <1>2, <2>2, <2>3
  <2>5. \A n \in 1..(Len(s) - 1) : Tail(a)[n] = s[n + 1]
    BY <1>1, <1>2, <2>3
  <2>6. PICK t : t = Report(s, r)  OBVIOUS
  <2>7. t = Tail(a)  BY <2>1, <2>6
  <2>8. /\ t \in Seq(Reports) /\ Len(t) = Len(s) /\ t[Len(t)] = r
        /\ \A n \in 1..(Len(t) - 1) : t[n] = s[n + 1]
    BY <2>3, <2>4, <2>5, <2>7, Zenon
  <2>9. Len(s) \in Nat /\ Len(t) \in Nat  BY <1>2, <2>8
  <2>10. \A n \in 1..(Len(t) - 1) : t[n] = s[n + Len(s) + 1 - Len(t)]
    <3>1. TAKE n \in 1..(Len(t) - 1)
    <3>2. t[n] = s[n + 1]  BY <2>8
    <3>3. n + Len(s) + 1 - Len(t) = n + 1  BY <2>8, <2>9
    <3>4. QED  BY <3>2, <3>3, Zenon
  <2>11. QED  BY <1>2, <2>2, <2>6, <2>8, <2>10
<1>4. CASE ~(Len(a) > Recovery)
  <2>1. Report(s, r) = a
    BY <1>4 DEF Report
  <2> HIDE DEF a
  <2>2. QED  BY <1>1, <1>2, <1>4, <2>1
<1>5. QED  BY <1>3, <1>4

LEMMA UpToRange ==
  ASSUME NEW cap \in Nat, NEW n \in 0..cap
  PROVE  UpTo(n, cap) \in 0..cap /\ UpTo(n, cap) <= n + 1
  BY DEF UpTo

LEMMA UpdatedHealth ==
  ASSUME NEW v \in Health, NEW succ \in 0..Recovery, NEW fail \in 0..FailMax,
         NEW age \in 0..MaxAge \cup {NoData}, NEW recent \in Seq(Reports)
  PROVE  [v EXCEPT !.succ = succ, !.fail = fail, !.age = age, !.recent = recent] \in Health
  BY DEF Health

Demoted(v, status, recent) == [v EXCEPT !.status = status, !.succ = 0, !.recent = recent]

Blamed(v, fail, recent) == [v EXCEPT !.succ = 0, !.fail = fail, !.recent = recent]

LEMMA DemotedHealth ==
  ASSUME NEW v \in Health, NEW status \in Statuses, NEW recent \in Seq(Reports)
  PROVE  LET w == Demoted(v, status, recent) IN
         w \in Health /\ w.recent = recent /\ w.succ = 0 /\ w.status = status
<1> DEFINE w == Demoted(v, status, recent)
<1>1. 0 \in 0..Recovery
  BY CountsAssumption
<1>2. w \in Health
  BY <1>1 DEF Health, Demoted
<1>3. w.recent = recent /\ w.succ = 0 /\ w.status = status
  BY DEF Health, Demoted
<1>4. QED  BY <1>2, <1>3

LEMMA FailedHealth ==
  ASSUME NEW v \in Health, NEW fail \in 0..FailMax, NEW recent \in Seq(Reports)
  PROVE  LET w == Blamed(v, fail, recent) IN
         w \in Health /\ w.recent = recent /\ w.succ = 0 /\ w.status = v.status
<1> DEFINE w == Blamed(v, fail, recent)
<1>1. 0 \in 0..Recovery
  BY CountsAssumption
<1>2. w \in Health
  BY <1>1 DEF Health, Blamed
<1>3. w.recent = recent /\ w.succ = 0 /\ w.status = v.status
  BY DEF Health, Blamed
<1>4. QED  BY <1>2, <1>3

(* Counting a good report keeps the entry truthful. *)
LEMMA CountedIsTruthful ==
  ASSUME NEW v, Truthful(v), NEW stream \in BOOLEAN
  PROVE  LET w == Counted(v, stream) IN
         /\ Truthful(w)
         /\ w.status = v.status
         /\ stream => w.recent[Len(w.recent)] = "stream"
         /\ ~stream => w.age = v.age
<1> DEFINE r == IF stream THEN "stream" ELSE "probe"
           t == Report(v.recent, r)
           w == Counted(v, stream)
<1>1. v \in Health /\ v.recent \in Seq(Reports) /\ Len(v.recent) <= Recovery
      /\ v.succ \in 0..Recovery /\ Recovery \in Nat /\ FailMax \in Nat /\ MaxAge \in Nat
  BY CountsAssumption, AgesAssumption DEF Truthful, Health
<1>2. w.succ = UpTo(v.succ, Recovery) /\ w.recent = t /\ w.status = v.status
      /\ w.age = (IF stream THEN 0 ELSE v.age) /\ w.fail = 0
  BY <1>1 DEF Counted, Health
<1>3. r \in Reports /\ r \in Good
  BY DEF Reports, Good
<1>4. /\ t \in Seq(Reports) /\ Len(t) \in 1..Recovery
      /\ Len(t) = Len(v.recent) + 1 \/ (Len(t) = Recovery /\ Len(v.recent) = Recovery)
      /\ t[Len(t)] = r
      /\ \A n \in 1..(Len(t) - 1) : t[n] = v.recent[n + Len(v.recent) + 1 - Len(t)]
  BY <1>1, <1>3, ReportAppends
<1>5. w.succ \in 0..Recovery /\ w.succ <= v.succ + 1
  BY <1>1, <1>2, UpToRange
<1>6. w \in Health
  <2> DEFINE u == UpTo(v.succ, Recovery)
             g == IF stream THEN 0 ELSE v.age
  <2>1. u \in 0..Recovery /\ g \in 0..MaxAge \cup {NoData} /\ 0 \in 0..FailMax
    BY <1>1, UpToRange DEF Health
  <2>2. w = [v EXCEPT !.succ = u, !.fail = 0, !.age = g, !.recent = t]
    BY DEF Counted
  <2>3. t \in Seq(Reports)
    BY <1>4
  <2> HIDE DEF u, g, t, w
  <2>4. [v EXCEPT !.succ = u, !.fail = 0, !.age = g, !.recent = t] \in Health
    BY <1>1, <2>1, <2>3, UpdatedHealth
  <2>5. QED  BY <2>2, <2>4
<1> HIDE DEF t, w, r
<1>7. w.succ <= Len(t)
  BY <1>1, <1>4, <1>5 DEF Truthful
<1>8. ASSUME NEW n \in 1..Len(t), n > Len(t) - w.succ PROVE t[n] \in Good
  <2>1. CASE n = Len(t)  BY <2>1, <1>3, <1>4
  <2>2. CASE n # Len(t)
    <3> DEFINE m == n + Len(v.recent) + 1 - Len(t)
    <3>1. Len(v.recent) \in Nat /\ v.succ <= Len(v.recent)
      BY <1>1 DEF Truthful
    <3>2. n \in 1..(Len(t) - 1) /\ m \in 1..Len(v.recent) /\ m > Len(v.recent) - v.succ
      <4>1. /\ Len(t) \in Nat /\ n \in Nat /\ n >= 1 /\ n <= Len(t) - 1
            /\ v.succ \in Nat /\ w.succ \in Nat
        BY <1>1, <1>4, <1>5, <1>8, <2>2
      <4>2. CASE Len(t) = Len(v.recent) + 1
        BY <1>5, <1>8, <3>1, <4>1, <4>2
      <4>3. CASE Len(t) = Len(v.recent)
        <5>1. PICK k \in Nat : k = Len(t)  BY <4>1
        <5>2. PICK l \in Nat : l = Len(v.recent)  BY <3>1
        <5>3. k = l  BY <4>3, <5>1, <5>2, Zenon
        <5>4. n + l + 1 - k = n + 1  BY <4>1, <5>3
        <5>5. m = n + 1  BY <5>1, <5>2, <5>4, Zenon
        <5>6. n > Len(t) - w.succ /\ w.succ <= v.succ + 1  BY <1>5, <1>8
        <5> HIDE DEF m
        <5>7. QED  BY <3>1, <4>1, <4>3, <5>5, <5>6
      <4>4. QED  BY <1>4, <4>2, <4>3
    <3>3. v.recent[m] \in Good
      BY <3>2 DEF Truthful
    <3>4. QED  BY <1>4, <3>2, <3>3
  <2>3. QED  BY <2>1, <2>2
<1>9. QED  BY <1>2, <1>4, <1>6, <1>7, <1>8 DEF Truthful, r, w

(* Taking a venue out restarts the count; bringing it back changes only the *)
(* status.                                                                  *)
LEMMA TransitionIsTruthful ==
  ASSUME NEW v, Truthful(v), NEW new \in Statuses
  PROVE  LET w == Transition(v, new) IN
         /\ Truthful(w)
         /\ w.status = new
         /\ new = "online" => w.recent = v.recent /\ w.age = v.age
<1> DEFINE w == Transition(v, new)
           t == Report(v.recent, "out")
<1>1. v \in Health /\ v.recent \in Seq(Reports) /\ Len(v.recent) <= Recovery
      /\ v.succ \in 0..Recovery /\ Recovery \in Nat
  BY CountsAssumption DEF Truthful, Health
<1>2. CASE v.status = new
  BY <1>2 DEF Transition
<1>3. CASE v.status # new /\ new = "online"
  <2>1. w = [v EXCEPT !.status = new]
    BY <1>1, <1>3 DEF Transition, Health
  <2>2. w \in Health /\ w.recent = v.recent /\ w.succ = v.succ /\ w.age = v.age
        /\ w.status = new
    BY <1>1, <2>1 DEF Health
  <2> HIDE DEF w
  <2>3. QED  BY <2>2 DEF Truthful, w
<1>4. CASE v.status # new /\ new # "online"
  <2>1. w = Demoted(v, new, t)
    BY <1>4 DEF Transition, Demoted
  <2>2. /\ t \in Seq(Reports) /\ Len(t) \in 1..Recovery
    BY <1>1, ReportAppends DEF Reports
  <2> HIDE DEF t, w
  <2>3. w \in Health /\ w.recent = t /\ w.succ = 0 /\ w.status = new
    BY <1>1, <2>1, <2>2, DemotedHealth
  <2>4. Truthful(w)
    BY <2>2, <2>3 DEF Truthful
  <2>5. QED  BY <1>4, <2>3, <2>4 DEF w
<1>5. QED  BY <1>2, <1>3, <1>4

(* A failed check resets the count and leaves the status alone. *)
LEMMA FailedIsTruthful ==
  ASSUME NEW v, Truthful(v)
  PROVE  Truthful(Failed(v)) /\ Failed(v).status = v.status
<1> DEFINE w == Failed(v)
           t == Report(v.recent, "fail")
           u == UpTo(v.fail, FailMax)
<1>1. v \in Health /\ v.recent \in Seq(Reports) /\ Len(v.recent) <= Recovery
      /\ v.fail \in 0..FailMax /\ Recovery \in Nat /\ FailMax \in Nat
  BY CountsAssumption DEF Truthful, Health
<1>2. w = Blamed(v, u, t)
  BY DEF Failed, Blamed
<1>3. t \in Seq(Reports) /\ Len(t) \in 1..Recovery
  BY <1>1, ReportAppends DEF Reports
<1>4. u \in 0..FailMax
  BY <1>1, UpToRange
<1> HIDE DEF t, u, w
<1>5. w \in Health /\ w.recent = t /\ w.succ = 0 /\ w.status = v.status
  BY <1>1, <1>2, <1>3, <1>4, FailedHealth
<1>6. Truthful(w)
  BY <1>3, <1>5 DEF Truthful
<1>7. QED  BY <1>5, <1>6 DEF w

LEMMA FailuresAreTruthful ==
  ASSUME NEW v, Truthful(v)
  PROVE  /\ Truthful(SoftFailure(v)) /\ SoftFailure(v).status \in {v.status, "api_offline"}
         /\ Truthful(HardFailure(v)) /\ HardFailure(v).status = "api_offline"
<1> DEFINE w == Failed(v)
           o == Transition(w, "api_offline")
<1>1. Truthful(w) /\ w.status = v.status
  BY FailedIsTruthful
<1>2. Truthful(o) /\ o.status = "api_offline"
  <2> HIDE DEF w
  <2>1. QED  BY <1>1, TransitionIsTruthful DEF Statuses
<1>3. HardFailure(v) = o
  BY DEF HardFailure
<1>4. SoftFailure(v) \in {o, w}
  BY DEF SoftFailure
<1> HIDE DEF w, o
<1>5. QED  BY <1>1, <1>2, <1>3, <1>4

(* What RecoveryEarned demands of a venue that has just come back. *)
Earned(v) ==
  /\ Len(v.recent) = Recovery
  /\ \A n \in 1..Recovery : v.recent[n] \in Good
  /\ v.age # NoData => v.recent[Recovery] = "stream"

(* A success brings an offline venue back only when it has earned it. *)
LEMMA SuccessIsEarned ==
  ASSUME NEW v, Truthful(v), NEW stream \in BOOLEAN
  PROVE  /\ Truthful(Success(v, stream))
         /\ v.status \in {"maintenance", "api_offline"} /\ Success(v, stream).status = "online"
              => Earned(Success(v, stream))
<1> DEFINE w == Counted(v, stream)
           o == Transition(w, "online")
           p == \/ v.status = "unknown"
                \/ v.status = "degraded" /\ stream
                \/ (stream \/ v.age = NoData) /\ w.succ >= Recovery
<1>1. /\ Truthful(w) /\ w.status = v.status
      /\ stream => w.recent[Len(w.recent)] = "stream"
      /\ ~stream => w.age = v.age
  BY CountedIsTruthful
<1>2. Success(v, stream) = IF p THEN o ELSE w
  BY Zenon DEF Success
<1>3. /\ Truthful(o) /\ o.recent = w.recent /\ o.age = w.age
  <2> HIDE DEF w
  <2>1. QED  BY <1>1, TransitionIsTruthful DEF Statuses
<1> HIDE DEF w, o
<1>4. ASSUME p, v.status \in {"maintenance", "api_offline"} PROVE Earned(o)
  <2>1. (stream \/ v.age = NoData) /\ w.succ >= Recovery
    BY <1>4
  <2>2. /\ Recovery \in Nat /\ w.succ \in 0..Recovery /\ Len(w.recent) \in Nat
        /\ w.succ <= Len(w.recent) /\ Len(w.recent) <= Recovery
        /\ \A n \in 1..Len(w.recent) : n > Len(w.recent) - w.succ => w.recent[n] \in Good
    BY <1>1, CountsAssumption DEF Truthful, Health
  <2>3. w.succ = Recovery /\ Len(w.recent) = Recovery
    BY <2>1, <2>2
  <2>4. \A n \in 1..Recovery : w.recent[n] \in Good
    BY <2>2, <2>3
  <2>5. w.age # NoData => w.recent[Recovery] = "stream"
    BY <1>1, <2>1, <2>3
  <2>6. QED  BY <1>3, <2>3, <2>4, <2>5 DEF Earned
<1>5. CASE p
  BY <1>2, <1>3, <1>4, <1>5
<1>6. CASE ~p
  BY <1>1, <1>2, <1>6
<1>7. QED  BY <1>5, <1>6

-----------------------------------------------------------------------------
(* The inductive invariant: the counter RecoveryEarned relies on is true. *)

SocketsOK ==
  socket \in [Shards -> [pc : {"dial", "subscribing", "open", "closed", "wait"},
                         attempt : 0..FailMax, slow : BOOLEAN]]

HealthIInv == kind \in Kinds /\ Truthful(venue) /\ SocketsOK

LEMMA HealthInitEstablishes == HealthInit => HealthIInv
<1> SUFFICES ASSUME HealthInit PROVE HealthIInv
  OBVIOUS
<1>1. Recovery \in Nat /\ FailMax \in Nat /\ MaxAge \in Nat
  BY CountsAssumption, AgesAssumption
<1>2. Truthful(Fresh)
  <2>1. Fresh \in Health
    BY <1>1 DEF Fresh, Health, Statuses
  <2>2. Fresh.recent = <<>> /\ Fresh.succ = 0
    BY DEF Fresh
  <2>3. QED  BY <1>1, <2>1, <2>2 DEF Truthful
<1>3. Truthful(HardFailure(Fresh))
  BY <1>2, FailuresAreTruthful
<1>4. SocketsOK
  BY <1>1 DEF HealthInit, SocketsOK
<1>5. QED  BY <1>2, <1>3, <1>4 DEF HealthInit, HealthIInv

(* Every report leaves the entry truthful, and only a success, a demotion  *)
(* or the clock touches the status; Back is what RecoveryEarned forbids.   *)
Back(v, w) == v.status \in {"maintenance", "api_offline"} /\ w.status = "online"

LEMMA ReportsAreTruthful ==
  ASSUME Truthful(venue)
  PROVE  /\ Streaming \/ ProbeSucceeds =>
              Truthful(venue') /\ (Back(venue, venue') => Earned(venue'))
         /\ Faults \/ StalenessPass => Truthful(venue') /\ ~Back(venue, venue')
         /\ Tick => Truthful(venue') /\ ~Back(venue, venue')
<1>1. ASSUME NEW stream \in BOOLEAN, venue' = Success(venue, stream)
      PROVE  Truthful(venue') /\ (Back(venue, venue') => Earned(venue'))
  BY <1>1, SuccessIsEarned DEF Back
<1>2. ASSUME venue' = SoftFailure(venue) \/ venue' = HardFailure(venue)
      PROVE  Truthful(venue') /\ ~Back(venue, venue')
  BY <1>2, FailuresAreTruthful DEF Back
<1>3. ASSUME venue' = HardFailure(SoftFailure(venue))
      PROVE  Truthful(venue') /\ ~Back(venue, venue')
  BY <1>3, FailuresAreTruthful DEF Back
<1>4. ASSUME NEW new \in {"maintenance", "degraded", "api_offline"},
             venue' = Transition(venue, new)
      PROVE  Truthful(venue') /\ ~Back(venue, venue')
  <2>1. new \in Statuses
    BY DEF Statuses
  <2>2. QED  BY <1>4, <2>1, TransitionIsTruthful DEF Back
<1>5. ASSUME Streaming \/ ProbeSucceeds
      PROVE  Truthful(venue') /\ (Back(venue, venue') => Earned(venue'))
  BY <1>1, <1>5 DEF Streaming, Frame, PoolPolled, ProbeSucceeds
<1>6. ASSUME Faults PROVE Truthful(venue') /\ ~Back(venue, venue')
  <2>1. ASSUME NEW i \in Shards, Drop(i) PROVE Truthful(venue') /\ ~Back(venue, venue')
    <3>1. venue' = HardFailure(SoftFailure(venue)) \/ venue' = SoftFailure(venue)
      BY <2>1 DEF Drop
    <3>2. QED  BY <1>2, <1>3, <3>1
  <2>2. QED  BY <1>2, <1>4, <1>6, <2>1 DEF Faults, PoolPollFails, ProbeFails, KillSwitch
<1>7. ASSUME StalenessPass PROVE Truthful(venue') /\ ~Back(venue, venue')
  BY <1>4, <1>7 DEF StalenessPass, CheckStaleness
<1>8. ASSUME Tick PROVE Truthful(venue') /\ ~Back(venue, venue')
  <2>1. venue \in Health /\ MaxAge \in Nat /\ NoData \notin Nat
    BY AgesAssumption DEF Truthful
  <2>2. venue.age + 1 \in 0..MaxAge \cup {NoData}
    BY <1>8, <2>1 DEF Tick, Health
  <2>3. venue' = [venue EXCEPT !.age = venue.age + 1]
    BY <1>8 DEF Tick
  <2>4. /\ venue' \in Health /\ venue'.recent = venue.recent
        /\ venue'.succ = venue.succ /\ venue'.status = venue.status
    BY <2>1, <2>2, <2>3 DEF Health
  <2>5. QED  BY <2>4 DEF Truthful, Back
<1>9. QED  BY <1>5, <1>6, <1>7, <1>8

LEMMA StepPreserves ==
  ASSUME HealthIInv, [HealthNext]_healthVars
  PROVE  HealthIInv' /\ (Back(venue, venue') => Earned(venue'))
<1>1. Truthful(venue) /\ SocketsOK /\ kind \in Kinds
  BY DEF HealthIInv
<1>2. FailMax \in Nat
  BY CountsAssumption
<1>3. Truthful(venue') /\ (Back(venue, venue') => Earned(venue'))
  <2>1. CASE Streaming \/ ProbeSucceeds \/ Faults \/ StalenessPass \/ Tick
    BY <1>1, <2>1, ReportsAreTruthful
  <2>2. CASE venue' = venue
    BY <1>1, <2>2 DEF Back
  <2>3. ASSUME NEW i \in Shards,
               Connect(i) \/ Subscribed(i) \/ SocketCloses(i) \/ Recycle(i) \/ Redial(i)
        PROVE  venue' = venue
    BY <2>3 DEF Connect, Subscribed, SocketCloses, Recycle, Redial
  <2>4. QED  BY <2>1, <2>2, <2>3 DEF HealthNext, healthVars
<1>4. SocketsOK'
  <2>1. ASSUME NEW i \in Shards, Connect(i) \/ Subscribed(i) \/ SocketCloses(i) \/ Redial(i)
        PROVE  SocketsOK'
    BY <1>1, <2>1 DEF SocketsOK, Connect, Subscribed, SocketCloses, Redial
  <2>2. ASSUME NEW i \in Shards, Recycle(i) PROVE SocketsOK'
    BY <1>1, <1>2, <2>2 DEF SocketsOK, Recycle
  <2>3. ASSUME NEW i \in Shards, Drop(i) PROVE SocketsOK'
    <3>1. PICK attempt \in 0..FailMax, slow \in BOOLEAN :
             socket' = [socket EXCEPT ![i] = [pc |-> "wait", attempt |-> attempt, slow |-> slow]]
      <4> DEFINE wasOpen == socket[i].pc \in {"open", "closed"}
                 attempt == UpTo(IF wasOpen THEN 0 ELSE socket[i].attempt, FailMax)
                 slow == attempt >= FailMax
      <4>1. (IF wasOpen THEN 0 ELSE socket[i].attempt) \in 0..FailMax
        BY <1>1, <1>2 DEF SocketsOK
      <4>2. attempt \in 0..FailMax
        BY <1>2, <4>1, UpToRange
      <4>3. slow \in BOOLEAN
        OBVIOUS
      <4>4. socket' = [socket EXCEPT ![i] =
                [pc |-> "wait", attempt |-> attempt, slow |-> slow]]
        BY <2>3 DEF Drop
      <4> HIDE DEF attempt, slow
      <4>5. QED  BY <4>2, <4>3, <4>4
    <3>2. QED  BY <1>1, <3>1 DEF SocketsOK
  <2>4. CASE UNCHANGED socket
    BY <1>1, <2>4 DEF SocketsOK
  <2>5. ASSUME NEW i \in Shards, Frame(i) PROVE UNCHANGED socket
    BY <2>5 DEF Frame
  <2>6. ASSUME PoolPolled \/ PoolPollFails \/ ProbeSucceeds \/ ProbeFails \/ KillSwitch
               \/ StalenessPass \/ Tick
        PROVE  UNCHANGED socket
    BY <2>6 DEF PoolPolled, PoolPollFails, ProbeSucceeds, ProbeFails, KillSwitch,
                StalenessPass, Tick
  <2>7. QED
    BY <2>1, <2>2, <2>3, <2>4, <2>5, <2>6 DEF HealthNext, Streaming, Faults, healthVars
<1>5. (kind \in Kinds)'
  <2>1. ASSUME NEW i \in Shards,
               \/ Connect(i) \/ Subscribed(i) \/ SocketCloses(i) \/ Recycle(i) \/ Redial(i)
               \/ Frame(i) \/ Drop(i)
        PROVE  kind' = kind
    BY <2>1 DEF Connect, Subscribed, SocketCloses, Recycle, Redial, Frame, Drop
  <2>2. ASSUME PoolPolled \/ PoolPollFails \/ ProbeSucceeds \/ ProbeFails \/ KillSwitch
               \/ StalenessPass \/ Tick
        PROVE  kind' = kind
    BY <2>2 DEF PoolPolled, PoolPollFails, ProbeSucceeds, ProbeFails, KillSwitch,
                StalenessPass, Tick
  <2>3. QED  BY <1>1, <2>1, <2>2 DEF HealthNext, Streaming, Faults, healthVars
<1>6. QED  BY <1>3, <1>4, <1>5 DEF HealthIInv, SocketsOK

LEMMA HealthInductive == HealthSpec => []HealthIInv
<1>1. HealthIInv /\ [HealthNext]_healthVars => HealthIInv'
  BY StepPreserves
<1>2. QED  BY HealthInitEstablishes, <1>1, PTL DEF HealthSpec

-----------------------------------------------------------------------------

(* Every variable keeps its shape: an age, a counter or a shard's state     *)
(* never leaves its range, whichever report comes next.                     *)
THEOREM HealthTypeCorrect == HealthSpec => []HealthTypeOK
<1>1. HealthIInv => HealthTypeOK
  BY DEF HealthIInv, Truthful, SocketsOK, HealthTypeOK
<1>2. QED  BY HealthInductive, <1>1, PTL

(* Whatever the shards, the probes, the staleness pass and the admin report *)
(* and in whatever order, a venue taken out returns only after Recovery     *)
(* good reports in a row (record_success, _transition).                     *)
THEOREM RecoveryIsEarned == HealthSpec => RecoveryEarned
<1> DEFINE Step == venue.status \in {"maintenance", "api_offline"} /\ venue'.status = "online" =>
                     /\ Len(venue'.recent) = Recovery
                     /\ \A n \in 1..Recovery : venue'.recent[n] \in {"stream", "probe"}
                     /\ venue'.age # NoData => venue'.recent[Recovery] = "stream"
<1>1. HealthIInv /\ [HealthNext]_healthVars => [Step]_healthVars
  BY StepPreserves DEF Back, Earned, Good
<1>2. QED  BY HealthInductive, <1>1, PTL DEF HealthSpec, RecoveryEarned

-----------------------------------------------------------------------------
(* Who may take a fresh venue out. *)

LEMMA SuccessKeeps ==
  ASSUME NEW v, Truthful(v), NEW stream \in BOOLEAN
  PROVE  Success(v, stream).status \in {v.status, "online"}
<1> DEFINE w == Counted(v, stream)
<1>1. Truthful(w) /\ w.status = v.status
  BY CountedIsTruthful
<1>2. Success(v, stream) \in {w, Transition(w, "online")}
  BY DEF Success
<1> HIDE DEF w
<1>3. Transition(w, "online").status = "online"
  BY <1>1, TransitionIsTruthful DEF Statuses
<1>4. QED  BY <1>1, <1>2, <1>3

(* A soft failure demotes only where the stream is silent. *)
LEMMA SoftFailureNeedsSilence ==
  ASSUME NEW v, Truthful(v), SoftFailure(v).status # v.status
  PROVE  v.age = NoData \/ v.age > IdleWindow
<1>1. Failed(v).status = v.status
  BY FailedIsTruthful
<1>2. Failed(v) = SoftFailure(v) \/ v.age = NoData \/ v.age > IdleWindow
  BY DEF SoftFailure
<1>3. QED  BY <1>1, <1>2

(* A venue whose data is fresh leaves the pool only by the kill switch or   *)
(* when its last connection is gone: one shard's streak of failures, failed *)
(* probes and the staleness pass do not blank it (base_cex._shard_loop,     *)
(* record_failure), as long as every staleness threshold is within the      *)
(* window in which the stream protects the venue.                           *)
THEOREM FreshStays ==
  (\A k \in Kinds : Stale[k] <= IdleWindow) => (HealthSpec => FreshVenueStays)
<1> SUFFICES ASSUME \A k \in Kinds : Stale[k] <= IdleWindow
             PROVE  HealthSpec => FreshVenueStays
  OBVIOUS
<1> DEFINE Stays == Eligible /\ ~Eligible' =>
                      \/ KillSwitch
                      \/ venue.age = NoData \/ venue.age > Stale[kind]
                      \/ kind = "cex" /\ \A i \in Shards : ~Up(i)'
<1>1. HealthIInv /\ [HealthNext]_healthVars => [Stays]_healthVars
  <2> SUFFICES ASSUME HealthIInv, HealthNext, Eligible, ~Eligible' PROVE Stays
    OBVIOUS
  <2>1. Truthful(venue) /\ kind \in Kinds /\ SocketsOK /\ venue.status \in {"online", "degraded"}
    BY DEF HealthIInv, Eligible
  <2>2. venue'.status # venue.status /\ venue'.status # "online" /\ venue' # venue
    BY <2>1 DEF Eligible
  <2>3. ASSUME NEW stream \in BOOLEAN, venue' = Success(venue, stream) PROVE FALSE
    BY <2>1, <2>2, <2>3, SuccessKeeps
  <2>4. ASSUME venue' = SoftFailure(venue) PROVE Stays
    <3>1. venue.age = NoData \/ venue.age > IdleWindow
      BY <2>1, <2>2, <2>4, SoftFailureNeedsSilence
    <3>2. venue.age \in Nat \/ venue.age = NoData
      BY <2>1 DEF Truthful, Health
    <3>3. Stale[kind] \in Nat /\ Stale[kind] <= IdleWindow /\ IdleWindow \in Nat
      BY <2>1, KindsAssumption, CountsAssumption
    <3>4. QED  BY <3>1, <3>2, <3>3
  <2>5. ASSUME NEW i \in Shards, Drop(i) PROVE Stays
    <3> DEFINE wasOpen == socket[i].pc \in {"open", "closed"}
               attempt == UpTo(IF wasOpen THEN 0 ELSE socket[i].attempt, FailMax)
               r == [pc |-> "wait", attempt |-> attempt, slow |-> attempt >= FailMax]
    <3>1. /\ kind = "cex" /\ socket' = [socket EXCEPT ![i] = r]
          /\ venue' = SoftFailure(venue) \/ \A j \in Shards \ {i} : ~Up(j)
      BY <2>5 DEF Drop
    <3>2. r.pc = "wait"
      OBVIOUS
    <3> HIDE DEF r
    <3>3. CASE \A j \in Shards \ {i} : ~Up(j)
      <4>1. \A j \in Shards : socket'[j].pc = (IF j = i THEN "wait" ELSE socket[j].pc)
        BY <2>1, <3>1, <3>2 DEF SocketsOK
      <4>2. QED  BY <3>1, <3>3, <4>1 DEF Up
    <3>4. QED  BY <2>4, <3>1, <3>3
  <2>6. CASE Streaming \/ ProbeSucceeds
    BY <2>3, <2>6 DEF Streaming, Frame, PoolPolled, ProbeSucceeds
  <2>7. CASE Faults
    BY <2>4, <2>5, <2>7 DEF Faults, PoolPollFails, ProbeFails
  <2>8. CASE StalenessPass
    BY <2>8 DEF StalenessPass, CheckStaleness
  <2>9. CASE Tick
    <3>1. venue' = [venue EXCEPT !.age = venue.age + 1]
      BY <2>9 DEF Tick
    <3>2. venue'.status = venue.status
      BY <2>1, <3>1 DEF Truthful, Health
    <3>3. QED  BY <2>2, <3>2
  <2>10. ASSUME NEW i \in Shards,
                Connect(i) \/ Subscribed(i) \/ SocketCloses(i) \/ Recycle(i) \/ Redial(i)
         PROVE  FALSE
    BY <2>2, <2>10 DEF Connect, Subscribed, SocketCloses, Recycle, Redial
  <2>11. QED  BY <2>6, <2>7, <2>8, <2>9, <2>10 DEF HealthNext
<1>2. QED  BY HealthInductive, <1>1, PTL DEF HealthSpec, FreshVenueStays
=============================================================================
