----------------------------- MODULE MarketState -----------------------------
(* The in-memory market state for one pair, and the two tasks that decide     *)
(* which venues it is kept for: scanner/cache/market_state_cache.py, the      *)
(* discovery of scanner/collectors/market_collector.py and the pool poll of   *)
(* scanner/collectors/poll_collectors.py.                                     *)
(*                                                                            *)
(* A CEX streams its current level; what the cache makes of it depends on the *)
(* last price, on the recent window and on the other venues. A DEX has pool   *)
(* books only, read by the poll. Discovery and poll suspend between deciding  *)
(* and writing, so they overlap each other and the streams.                   *)
(*                                                                            *)
(* Abstracted: a quote is its mid; quotes that are malformed, crossed, dated  *)
(* ahead or older than the cached one change nothing and are left out; the    *)
(* retries of one listing are one answer or one failure; ages are read by     *)
(* the consumers (Candidate).                                                 *)
EXTENDS Integers, FiniteSets, Sequences, SequencesExt, Robust

CONSTANTS
    Venues, Pools,    \* all venues, and the DEX ones among them
    Levels,           \* the mids that occur
    Setups,           \* venue sets the program may be configured with
    MaxSane,          \* max_sane_spread_pct
    CrossDeviation,   \* cross_venue_deviation_pct
    MadK,             \* outlier_mad_k
    Window,           \* outlier_window_ticks
    Warmup            \* warmup_samples

ASSUME MarketAssumption ==
    /\ IsFiniteSet(Venues) /\ Pools \subseteq Venues
    /\ Levels \subseteq Nat \ {0}
    /\ \A s \in Setups : /\ s.order \in Seq(Venues) /\ s.order # <<>>
                         /\ s.levels \in [Venues -> SUBSET Levels]
                         /\ s.moving \subseteq Venues /\ s.books \subseteq Venues
    /\ MaxSane \in Nat /\ CrossDeviation \in Nat /\ MadK \in Nat
    /\ Window \in Nat \ {0} /\ Warmup \in Nat \ {0}

VARIABLES
    setup,      \* the configured venues: [order, levels, moving, books]
    cache,      \* per venue: [tracked, window, book, warm, suspect]
    index,      \* _venues_by_pair: the venues the detectors see
    known,      \* MarketCollector._tracked
    missing,    \* _missing_since: "no", "new" or "due" (grace elapsed)
    discovery,  \* the discovery task: the venue it is at and where it waits
    poll,       \* the poll task: "idle" or "reading"
    last,       \* DexPoolCollector._last_markets: is the pair in it?
    listed,     \* outside: the venues that list the pair
    banned,     \* the pair's ticker is in ambiguous_tickers
    level,      \* outside: the mid each CEX streams
    heard,      \* history: quotes of the present level, up to 2
    absent      \* history: listings in a row without the pair, up to 2

taskVars == <<known, missing, discovery, poll, last, absent>>
outside  == <<setup, listed, banned>>
streamed == <<level, heard>>
vars == <<cache, index, taskVars, outside, streamed>>

Entry   == [tracked: BOOLEAN, window: Seq(Levels), book: BOOLEAN,
            warm: 0..Warmup, suspect: BOOLEAN]
Nothing == [tracked |-> FALSE, window |-> <<>>, book |-> FALSE, warm |-> 0,
            suspect |-> FALSE]
Idle    == [at |-> 0, waits |-> "idle"]

TypeOK ==
    /\ setup \in Setups
    /\ cache \in [Venues -> Entry] /\ index \subseteq Venues
    /\ known \subseteq Venues /\ last \subseteq Pools
    /\ missing \in [Venues -> {"no", "new", "due"}]
    /\ discovery \in [at: Nat, waits: {"idle", "listing", "subscribing", "expiring"}]
    /\ poll \in [Pools -> {"idle", "reading"}]
    /\ listed \subseteq Venues /\ banned \in BOOLEAN
    /\ level \in [Venues -> Levels]
    /\ heard \in [Venues -> 0..2] /\ absent \in [Venues -> 0..2]

Here     == ToSet(setup.order)
Cex      == Here \ Pools
Lists(v) == v \in listed
Has(v)   == cache[v].window # <<>> \/ cache[v].book
Price(v) == Last(cache[v].window)

Init ==
    /\ setup \in Setups
    /\ cache = [v \in Venues |-> Nothing]
    /\ index = {} /\ known = {} /\ last = {}
    /\ missing = [v \in Venues |-> "no"]
    /\ discovery = Idle
    /\ poll = [v \in Pools |-> "idle"]
    /\ listed = ToSet(setup.order)
    /\ banned \in BOOLEAN /\ (banned => setup.moving # {})
    /\ level \in [Venues -> Levels]
    /\ \A v \in Venues : IF setup.levels[v] = {}
                         THEN \A l \in Levels : level[v] <= l
                         ELSE level[v] \in setup.levels[v]
    /\ heard = [v \in Venues |-> 0]
    /\ absent = [v \in Venues |-> 0]

------------------------------------------------------------------------------
(* The window of a venue against a new quote.                                 *)
IsOutlier(m, w) == IsMadOutlier(m, w, MadK)

(* _valid_price: further from the last accepted price than is sane.           *)
IsInsane(m, v) == /\ cache[v].window # <<>>
                  /\ Gap(m, Price(v)) * 100 > MaxSane * Price(v)

(* _cross_venue_suspect: far from the median of at least two other venues.    *)
Others(v) == {u \in index \ {v} : cache[u].window # <<>>}
IsSuspect(m, v) ==
    /\ Cardinality(Others(v)) >= 2
    /\ LET med == TwiceMedian([u \in Others(v) |-> Price(u)])
       IN  Gap(2 * m, med) * 100 > CrossDeviation * med

AtMost(a, b)  == IF a < b THEN a ELSE b
Recent(w)     == IF Len(w) > Window THEN Tail(w) ELSE w
Warmer(e)     == AtMost(e.warm + 1, Warmup)

(* upsert_price past its checks.                                              *)
Seed(v, m, suspect) ==
    /\ cache' = [cache EXCEPT ![v] = [cache[v] EXCEPT
           !.window = Recent(Append(cache[v].window, m)), !.warm = Warmer(cache[v]),
           !.suspect = suspect]]
    /\ index' = index \cup {v}

(* The first suspect reading is only noted; the next one, or one that agrees  *)
(* with the other venues, is taken.                                           *)
(* Mutant: noting a suspect reading again asks for another confirmation.      *)
UpsertNeverConfirms(v, m) ==
    IF IsInsane(m, v) \/ IsOutlier(m, cache[v].window) THEN UNCHANGED <<cache, index>>
    ELSE IF IsSuspect(m, v)
         THEN cache' = [cache EXCEPT ![v].suspect = TRUE] /\ UNCHANGED index
         ELSE Seed(v, m, FALSE)
Upsert(v, m) ==
    IF IsInsane(m, v) \/ IsOutlier(m, cache[v].window) THEN UNCHANGED <<cache, index>>
    ELSE IF IsSuspect(m, v) /\ ~cache[v].suspect
         THEN cache' = [cache EXCEPT ![v].suspect = TRUE] /\ UNCHANGED index
         ELSE Seed(v, m, IsSuspect(m, v))
Quote(v) ==
    /\ v \in Cex /\ cache[v].tracked
    /\ Upsert(v, level[v])
    /\ heard' = [heard EXCEPT ![v] = AtMost(@ + 1, 2)]
    /\ UNCHANGED <<taskVars, outside, level>>

(* upsert_book. Pool reads are all the samples a DEX has, so they warm it up. *)
(* Mutant: a book that arrives for an untracked pair is kept.                 *)
BookIsKeptAnyway(v) == TRUE
BookIsKept(v) == cache[v].tracked
PutBook(v) ==
    IF BookIsKept(v)
    THEN /\ cache' = [cache EXCEPT ![v] = [cache[v] EXCEPT !.book = TRUE,
              !.warm = IF v \in Pools THEN Warmer(cache[v]) ELSE cache[v].warm]]
         /\ index' = index \cup {v}
    ELSE UNCHANGED <<cache, index>>
Book(v) ==
    /\ v \in Cex /\ v \in setup.books
    /\ ~cache[v].book
    /\ PutBook(v)
    /\ UNCHANGED <<taskVars, outside, streamed>>

Tracking(v)  == [cache EXCEPT ![v].tracked = TRUE]
Untrack(v) ==
    /\ cache' = [cache EXCEPT ![v] = Nothing]
    /\ index' = index \ {v}
    /\ heard' = [heard EXCEPT ![v] = 0]

------------------------------------------------------------------------------
(* discover_once visits the venues in turn.                                   *)
At == setup.order[discovery.at]
Onward == IF discovery.at = Len(setup.order) THEN Idle
          ELSE [at |-> discovery.at + 1, waits |-> "listing"]

StartDiscovery ==
    /\ discovery = Idle
    /\ discovery' = [at |-> 1, waits |-> "listing"]
    /\ UNCHANGED <<cache, index, known, missing, poll, last, absent, outside, streamed>>

(* A venue whose listing fails is skipped: nothing is delisted by it.         *)
(* Mutant: a failed listing counts as one without the pair.                   *)
ListingFailsAsEmpty ==
    /\ discovery.waits = "listing"
    /\ missing' = IF At \in known /\ missing[At] = "no"
                  THEN [missing EXCEPT ![At] = "new"] ELSE missing
    /\ discovery' = Onward
    /\ UNCHANGED <<cache, index, known, poll, last, absent, outside, streamed>>
ListingFails ==
    /\ discovery.waits = "listing"
    /\ discovery' = Onward
    /\ UNCHANGED <<cache, index, known, missing, poll, last, absent, outside, streamed>>

(* _apply_discovery for a listing with the pair (after _filter_ambiguous): a  *)
(* new pair is tracked before its stream is subscribed.                       *)
Accepted(v) == Lists(v) /\ ~banned
Discover ==
    /\ discovery.waits = "listing" /\ Accepted(At)
    /\ known' = known \cup {At}
    /\ missing' = [missing EXCEPT ![At] = "no"]
    /\ IF At \in known
       THEN UNCHANGED cache /\ discovery' = Onward
       ELSE /\ cache' = Tracking(At)
            /\ discovery' = IF At \in Pools THEN Onward
                            ELSE [discovery EXCEPT !.waits = "subscribing"]
    /\ absent' = [absent EXCEPT ![At] = 0]
    /\ UNCHANGED <<index, poll, last, outside, streamed>>

(* ... and without the pair: it is dropped once the grace period is over.     *)
NotListed ==
    /\ discovery.waits = "listing" /\ ~Accepted(At)
    /\ IF At \in known /\ missing[At] = "due"
       THEN /\ known' = known \ {At}
            /\ missing' = [missing EXCEPT ![At] = "no"]
            /\ Untrack(At)
            /\ discovery' = [discovery EXCEPT !.waits = "expiring"]
       ELSE /\ missing' = IF At \in known /\ missing[At] = "no"
                          THEN [missing EXCEPT ![At] = "new"] ELSE missing
            /\ discovery' = Onward
            /\ UNCHANGED <<cache, index, known, heard>>
    /\ absent' = [absent EXCEPT ![At] = AtMost(@ + 1, 2)]
    /\ UNCHANGED <<poll, last, outside, level>>

(* Back from subscribing, or from force-expiring the pair's signals.          *)
Resume ==
    /\ discovery.waits \in {"subscribing", "expiring"}
    /\ discovery' = Onward
    /\ UNCHANGED <<cache, index, known, missing, poll, last, absent, outside, streamed>>

Elapse(v) ==
    /\ missing[v] = "new"
    /\ missing' = [missing EXCEPT ![v] = "due"]
    /\ UNCHANGED <<cache, index, known, discovery, poll, last, absent, outside, streamed>>

------------------------------------------------------------------------------
(* _poll_venue: the pools of this listing, or of the last one if it failed,   *)
(* are tracked without the collector's filters, then read.                    *)
PollFrom(v, markets) ==
    IF markets THEN cache' = Tracking(v) /\ poll' = [poll EXCEPT ![v] = "reading"]
    ELSE UNCHANGED <<cache, poll>>

PollLists(v) ==
    /\ v \in Here /\ poll[v] = "idle"
    /\ last' = IF Lists(v) THEN last \cup {v} ELSE last \ {v}
    /\ PollFrom(v, Lists(v))
    /\ UNCHANGED <<index, known, missing, discovery, absent, outside, streamed>>
PollListingFails(v) ==
    /\ v \in Here /\ poll[v] = "idle"
    /\ PollFrom(v, v \in last)
    /\ UNCHANGED <<index, known, missing, discovery, last, absent, outside, streamed>>

PoolRead(v) ==
    /\ poll[v] = "reading"
    /\ poll' = [poll EXCEPT ![v] = "idle"]
    /\ PutBook(v)
    /\ UNCHANGED <<known, missing, discovery, last, absent, outside, streamed>>
ReadFails(v) ==
    /\ poll[v] = "reading"
    /\ poll' = [poll EXCEPT ![v] = "idle"]
    /\ UNCHANGED <<cache, index, known, missing, discovery, last, absent, outside,
                   streamed>>

------------------------------------------------------------------------------
Move(v) ==
    /\ \E l \in setup.levels[v] \ {level[v]} : level' = [level EXCEPT ![v] = l]
    /\ heard' = [heard EXCEPT ![v] = 0]
    /\ UNCHANGED <<cache, index, taskVars, outside>>
Relist(v) ==
    /\ v \in setup.moving
    /\ listed' = IF Lists(v) THEN listed \ {v} ELSE listed \cup {v}
    /\ UNCHANGED <<cache, index, taskVars, setup, banned, streamed>>
Ban ==
    /\ setup.moving # {}
    /\ ~banned /\ banned' = TRUE
    /\ UNCHANGED <<cache, index, taskVars, setup, listed, streamed>>

Streams(v) == Quote(v) \/ Book(v) \/ Move(v)
Discovery  == StartDiscovery \/ Discover \/ NotListed \/ Resume
Polling(v) == PollLists(v) \/ PoolRead(v)

Next ==
    \/ \E v \in Venues : Streams(v) \/ Elapse(v) \/ Relist(v)
    \/ \E v \in Pools : Polling(v) \/ PollListingFails(v) \/ ReadFails(v)
    \/ Discovery \/ ListingFails
    \/ Ban

Spec == Init /\ [][Next]_vars

------------------------------------------------------------------------------
(* What the detectors see agrees with what is kept: the pair index names      *)
(* exactly the venues with a price or a book (market_state_cache.py:56), a    *)
(* delisted venue leaves nothing behind whatever was in flight, and the cache *)
(* and the collector agree on the CEXs that are tracked.                      *)
CacheAgrees ==
    /\ index = {v \in Venues : Has(v)}
    /\ \A v \in Venues : ~cache[v].tracked => cache[v] = Nothing
    /\ \A v \in Venues \ Pools : cache[v].tracked <=> v \in known

(* Store the latest price: when a CEX has quoted its present level twice, the *)
(* cache holds it, however far from the other venues it is (the second        *)
(* reading confirms the first, whatever came in between), unless it is too    *)
(* far from the price or the window held already. That is a freeze: neither   *)
(* moves again while the level stays.                                         *)
Frozen(v)   == IsInsane(level[v], v) \/ IsOutlier(level[v], cache[v].window)
Believed(v) == cache[v].window # <<>> /\ Price(v) = level[v]
ConfirmedIsBelieved == \A v \in Venues \ Pools :
    heard[v] = 2 => Frozen(v) \/ Believed(v)

(* Delisting (market_collector.py, 3.2): a venue loses the pair only after    *)
(* two listings in a row came without it; failed listings in between, however *)
(* many, are no evidence.                                                     *)
DelistedOnEvidence == [][\A v \in Venues :
    cache[v].tracked /\ ~cache'[v].tracked => absent'[v] = 2]_vars

(* market_collector.py says of ambiguous tickers that filtering at discovery  *)
(* keeps them out of the tracked set at all, and that one observed later is   *)
(* retired: what is banned and not known to the collector is not tracked.     *)
AmbiguousIsUntracked ==
    \A v \in Venues : banned /\ v \notin known => ~cache[v].tracked
==============================================================================
