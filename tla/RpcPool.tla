------------------------------- MODULE RpcPool -------------------------------
(* The JSON-RPC endpoints of one network: scanner/adapters/rpc_pool.py, and   *)
(* the hedged rpc_call of scanner/adapters/base_dex.py that draws on it.      *)
(*                                                                            *)
(* A call takes the providers in rotation once, when it starts, and races     *)
(* them in batches; calls of pool reads, gas and health probes overlap, so    *)
(* their outcomes reach the circuit breakers in any order.                    *)
(*                                                                            *)
(* Abstracted: score, latency and recency only order the healthy providers of *)
(* one tier, so that order is arbitrary here. Time is counted in ticks; an    *)
(* elapsed cooldown is 0. A streak is counted up to the last threshold it is  *)
(* compared with (StreakCap).                                                 *)
EXTENDS Integers, FiniteSets, SequencesExt

CONSTANTS
    Providers,        \* the configured endpoints
    Primary,          \* those of the paid tier
    Sound,            \* those that answer whenever the network is up
    Calls,            \* tasks that call rpc_call
    FailThreshold,    \* rpc_provider_fail_threshold
    RetireThreshold,  \* rpc_provider_permanent_fail_threshold, 0 = never
    CooldownBase,     \* rpc_provider_cooldown_sec, in ticks
    CooldownMax,      \* rpc_provider_cooldown_max_sec
    Hedge,            \* rpc_hedge_factor
    MaxPerCall        \* rpc_max_providers_per_call

ASSUME PoolAssumption ==
    /\ IsFiniteSet(Providers) /\ Primary \subseteq Providers /\ Sound \subseteq Providers
    /\ FailThreshold \in Nat \ {0} /\ RetireThreshold \in Nat
    /\ CooldownBase \in Nat /\ CooldownBase > 1 /\ CooldownMax \in Nat \ {0}
    /\ Hedge \in Nat \ {0} /\ MaxPerCall \in Nat \ {0}

VARIABLES
    prov,     \* the breaker of each provider
    call,     \* what each caller is waiting for
    network,  \* "up" or "down": outside the program
    alarm     \* _rpc_down_since, and whether rpc_network_down was logged

vars == <<prov, call, network, alarm>>

(* RpcErrorKind; HTTP and RATE_LIMIT are treated alike.                       *)
Kinds == {"unauthorized", "blocked", "timeout", "rpc_error"}
Hard  == {"blocked", "timeout"}

AtMost(a, b) == IF a < b THEN a ELSE b
StreakCap == IF RetireThreshold < 2 * FailThreshold
             THEN 2 * FailThreshold ELSE RetireThreshold

Retired(p) == prov[p].retired # "no"
Healthy(p) == ~Retired(p) /\ prov[p].left = 0
Breaker(p) == CASE ~Healthy(p)                  -> "open"
                [] Healthy(p) /\ prov[p].tripped  -> "half_open"
                [] Healthy(p) /\ ~prov[p].tripped -> "closed"

TypeOK ==
    /\ prov \in [Providers ->
         [streak: 0..StreakCap, other: BOOLEAN, cooldown: 0..CooldownMax,
          left: 0..CooldownMax, tripped: BOOLEAN,
          retired: {"no", "unauthorized", "repeated_failures"}]]
    /\ call \in [Calls -> [todo: Seq(Providers), racing: SUBSET Providers,
                           owed: SUBSET Providers, answered: BOOLEAN]]
    /\ network \in {"up", "down"}
    /\ alarm \in {"none", "down", "reported"}

Proven == [streak |-> 0, other |-> FALSE, cooldown |-> 0, left |-> 0,
           tripped |-> FALSE, retired |-> "no"]

Init ==
    /\ prov = [p \in Providers |-> Proven]
    /\ call = [c \in Calls |-> [todo |-> <<>>, racing |-> {}, owed |-> {},
                                answered |-> FALSE]]
    /\ network = "up"
    /\ alarm = "none"

------------------------------------------------------------------------------
(* order(): the healthy providers, a primary before every public one; with    *)
(* none healthy, the one nearest recovery that is not retired.                *)
(* rank() orders the providers of a tier by success, latency, timeouts and    *)
(* recency, here in any way.                                                  *)
Ranked(S) == {o \in SetToSeqs(S) : \A i, j \in DOMAIN o :
                 o[i] \in Primary /\ o[j] \notin Primary => i < j}
Usable == {p \in Providers : ~Retired(p)}
Soonest(p) == \A q \in Usable :
    \/ prov[p].left < prov[q].left
    \/ prov[p].left = prov[q].left /\ (q \in Primary => p \in Primary)
Orders ==
    LET up == {p \in Providers : Healthy(p)}
    IN  IF up # {} THEN Ranked(up)
        ELSE IF Usable = {} THEN {<<>>}
             ELSE {<<p>> : p \in {q \in Usable : Soonest(q)}}

(* Start of the next batch of a call, or its return when none is left.        *)
Batch(o) == ToSet(SubSeq(o, 1, AtMost(Hedge, Len(o))))
Rest(o)  == SubSeq(o, Hedge + 1, Len(o))

(* rpc_call reads the order once. With every provider retired it returns None *)
(* without a request. owed is history: whom this call has not heard from.     *)
Begin(c) ==
    /\ call[c].racing = {}
    /\ \E full \in Orders :
         LET o == SubSeq(full, 1, AtMost(MaxPerCall, Len(full)))
         IN  call' = [call EXCEPT ![c] =
                 [todo |-> Rest(o), racing |-> Batch(o), owed |-> ToSet(o),
                  answered |-> FALSE]]
    /\ UNCHANGED <<prov, network, alarm>>

------------------------------------------------------------------------------
(* The first answer wins: the other racers are cancelled and not recorded.    *)
(* record_success clears every mark, a retirement too.                        *)
Answer(c, p) ==
    /\ p \in call[c].racing
    /\ network = "up"
    /\ prov' = [prov EXCEPT ![p] = Proven]
    /\ call' = [call EXCEPT ![c] = [todo |-> <<>>, racing |-> {}, owed |-> {},
                                    answered |-> TRUE]]
    /\ UNCHANGED <<network, alarm>>

Retire(b, why) == [b EXCEPT !.retired = why, !.tripped = TRUE, !.left = 0]

(* The streak that trips a breaker: twice as long if it is all timeouts.      *)
Threshold(b) == IF b.other THEN FailThreshold ELSE 2 * FailThreshold

(* Mutant: a failure during the cooldown starts it again.                     *)
MayTripAnyTime(b) == b.retired = "no" /\ b.streak >= Threshold(b)
MayTrip(b) == b.retired = "no" /\ b.left = 0 /\ b.streak >= Threshold(b)

Trip(b, kind) ==
    LET start  == IF kind \in Hard THEN CooldownBase ELSE CooldownBase \div 2
        length == AtMost(CooldownMax,
                         IF b.cooldown = 0 THEN start ELSE 2 * b.cooldown)
    IN  [b EXCEPT !.cooldown = length, !.left = length, !.tripped = TRUE]

Count(b, kind) ==
    [b EXCEPT !.streak = AtMost(@ + 1, StreakCap),
              !.other = @ \/ kind # "timeout"]

(* record_failure on one breaker.                                             *)
RetiresFor(b, kind) ==
    /\ RetireThreshold > 0 /\ kind \in Hard
    /\ b.streak >= RetireThreshold
    /\ b.retired = "no"
Recorded(b0, kind) ==
    LET b == Count(b0, kind)
    IN  CASE kind = "unauthorized" ->
               IF b.retired = "no" THEN Retire(b, "unauthorized") ELSE b
          [] kind # "unauthorized" /\ RetiresFor(b, kind) ->
               Retire(b, "repeated_failures")
          [] kind # "unauthorized" /\ ~RetiresFor(b, kind) /\ MayTrip(b) ->
               Trip(b, kind)
          [] OTHER -> b

(* One racer fails. When its batch has no other, the next one starts, and     *)
(* after the last batch the call returns None.                                *)
(* Mutant: off by one, the last batch is never started.                       *)
NextBatchButLast(k) ==
    IF k.racing # {} \/ Len(k.todo) <= Hedge THEN k
    ELSE [k EXCEPT !.racing = Batch(k.todo), !.todo = Rest(k.todo)]
NextBatch(k) ==
    IF k.racing # {} THEN k
    ELSE [k EXCEPT !.racing = Batch(k.todo), !.todo = Rest(k.todo)]

HeardFrom(k, p) == [k EXCEPT !.racing = @ \ {p}, !.owed = @ \ {p}]

Fail(c, p, kind) ==
    /\ p \in call[c].racing
    /\ p \in Sound => network = "down" /\ kind # "unauthorized"
    /\ prov' = [prov EXCEPT ![p] = Recorded(@, kind)]
    /\ call' = [call EXCEPT ![c] =
           NextBatch(HeardFrom(@, p))]
    /\ UNCHANGED <<network, alarm>>

(* Time passes for every cooldown.                                            *)
Tick ==
    /\ \E p \in Providers : prov[p].left > 0
    /\ prov' = [p \in Providers |->
                   [prov[p] EXCEPT !.left = IF @ > 0 THEN @ - 1 ELSE 0]]
    /\ UNCHANGED <<call, network, alarm>>

------------------------------------------------------------------------------
(* The engine's watch, once a minute: no usable provider is healthy, for the  *)
(* first time or still. A minute is also rpc_network_down_alert_sec. Retired  *)
(* providers are not usable capacity, and one whose cooldown has elapsed is   *)
(* healthy before it has answered.                                            *)
HealthyCount == Cardinality({p \in Usable : Healthy(p)})

(* Mutant: only the start of an outage is looked for.                         *)
WatchStarts ==
    /\ Usable # {} /\ HealthyCount = 0
    /\ alarm' = IF alarm = "none" THEN "down" ELSE "reported"
    /\ UNCHANGED <<prov, call, network>>
Watch ==
    /\ alarm' = CASE Usable # {} /\ HealthyCount = 0 /\ alarm = "none" -> "down"
                  [] Usable # {} /\ HealthyCount = 0 /\ alarm # "none" -> "reported"
                  [] OTHER -> "none"
    /\ UNCHANGED <<prov, call, network>>

Outage  == network = "up"   /\ network' = "down" /\ UNCHANGED <<prov, call, alarm>>
Restore == network = "down" /\ network' = "up"   /\ UNCHANGED <<prov, call, alarm>>

Outcome(c) == \E p \in Providers :
    Answer(c, p) \/ \E kind \in Kinds : Fail(c, p, kind)

Next ==
    \/ \E c \in Calls : Begin(c) \/ Outcome(c)
    \/ Tick \/ Watch \/ Outage \/ Restore

Spec == Init /\ [][Next]_vars

(* Callers come back, a request ends (it has a deadline), time passes, and    *)
(* the engine's minute loop runs.                                             *)
Fairness == /\ \A c \in Calls : WF_vars(Begin(c)) /\ WF_vars(Outcome(c))
            /\ WF_vars(Tick) /\ WF_vars(Watch)
FairSpec == Spec /\ Fairness

------------------------------------------------------------------------------
(* A breaker is open or on probation only on the evidence the thresholds ask  *)
(* for: FailThreshold failures since the last answer, and twice that while    *)
(* they were timeouts only, whichever calls they came from; and its cooldown  *)
(* never outruns its length (record_failure, record_success).                 *)
TrippedOnEvidence == \A p \in Providers :
    /\ prov[p].retired = "no" /\ prov[p].tripped =>
         prov[p].streak >= Threshold(prov[p])
    /\ prov[p].retired = "repeated_failures" => prov[p].streak >= RetireThreshold
    /\ prov[p].left <= prov[p].cooldown
    /\ prov[p].left > 0 => prov[p].tripped

(* The circuit breaker's cycle. A closed breaker does not skip its cooldown;  *)
(* one that tripped, or was retired, closes only by an answer that a call was *)
(* waiting for; and a failure that arrives during a cooldown, from a call     *)
(* that started before it, does not lengthen it.                              *)
BreakerCycle == [][\A p \in Providers :
    /\ Breaker(p) = "closed" => Breaker(p)' # "half_open"
    /\ Breaker(p) # "closed" /\ Breaker(p)' = "closed" =>
         \E c \in Calls : p \in call[c].racing /\ call'[c].answered
    /\ Retired(p) /\ ~Retired(p)' => Breaker(p)' = "closed"
    /\ prov[p].left > 0 => prov'[p].left <= prov[p].left]_vars

(* rpc_call returns None only after every provider it set out with has        *)
(* failed it, whatever the batches and the other calls did meanwhile.         *)
FailsOnlyExhausted == \A c \in Calls :
    call[c].racing = {} /\ ~call[c].answered => call[c].owed = {}

(* Self-healing (rpc_pool.py): from when the network stays up and a sound     *)
(* provider is not retired, calls keep getting answers, and an outage that    *)
(* was reported is over for the watch too.                                    *)
Serving == network = "up" /\ \E p \in Sound : ~Retired(p)
ServesAgain == <>[]Serving =>
    /\ []<>(\E c \in Calls : call[c].answered)
    /\ <>[](alarm = "none")
==============================================================================
