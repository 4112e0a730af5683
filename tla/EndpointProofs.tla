---------------------------- MODULE EndpointProofs ----------------------------
(***************************************************************************)
(* Proofs about the two modules that keep the scanner's connections alive: *)
(* RpcPool, for any providers, callers, thresholds and hedge, and          *)
(* CexStream, for any markets, connections and hosts.                      *)
(*                                                                         *)
(* That a call gives up only when it has heard from every provider needs   *)
(* what it still has to hear from to be racing or ahead of it (Ahead);     *)
(* that no breaker skips its cooldown needs a cooldown to be a tripped     *)
(* breaker's (TrippedOnEvidence).                                          *)
(*                                                                         *)
(* NoSilentPair is inductive with the types.  The work is in discovery,    *)
(* which assigns the new pairs by recursion: over any number of them the   *)
(* connections only grow, by pairs that none had (AssignedGrows).          *)
(***************************************************************************)
EXTENDS RpcPool, CexStream, FiniteSetTheorems, SequenceTheorems, WellFoundedInduction,
        NaturalsInduction, TLAPS

Breakers == [streak: 0..StreakCap, other: BOOLEAN, cooldown: 0..CooldownMax,
             left: 0..CooldownMax, tripped: BOOLEAN,
             retired: {"no", "unauthorized", "repeated_failures"}]
Racers   == [todo: Seq(Providers), racing: SUBSET Providers,
             owed: SUBSET Providers, answered: BOOLEAN]

(* What a call has not heard from is racing or in a batch to come, and no   *)
(* batch is to come once it has nothing racing.                             *)
Ahead(k) ==
    /\ k.owed \subseteq k.racing \cup ToSet(k.todo)
    /\ k.racing = {} => k.todo = <<>>

IInv ==
    /\ TypeOK
    /\ \A c \in Calls : Ahead(call[c])
    /\ TrippedOnEvidence

(* The evidence, for one breaker. *)
Evidence(b) ==
    /\ b.retired = "no" /\ b.tripped => b.streak >= Threshold(b)
    /\ b.retired = "repeated_failures" => b.streak >= RetireThreshold
    /\ b.left <= b.cooldown
    /\ b.left > 0 => b.tripped

-----------------------------------------------------------------------------
(* Batches. *)

LEMMA Numbers ==
    /\ StreakCap \in Nat /\ StreakCap >= 2 * FailThreshold /\ StreakCap >= RetireThreshold
    /\ FailThreshold \in Nat /\ FailThreshold >= 1 /\ RetireThreshold \in Nat
    /\ CooldownMax \in Nat /\ CooldownMax >= 1
    /\ CooldownBase \in Nat /\ CooldownBase >= 2
    /\ Hedge \in Nat /\ Hedge >= 1 /\ MaxPerCall \in Nat /\ MaxPerCall >= 1
BY PoolAssumption DEF StreakCap

(* The next batch and what is left of an order together are the order, and  *)
(* only an empty order has an empty batch.                                  *)
LEMMA BatchAndRest ==
    ASSUME NEW q \in Seq(Providers)
    PROVE  /\ Batch(q) \in SUBSET Providers /\ Rest(q) \in Seq(Providers)
           /\ ToSet(q) \subseteq Batch(q) \cup ToSet(Rest(q))
           /\ Batch(q) = {} => Rest(q) = <<>>
<1> DEFINE n == Len(q)
           m == AtMost(Hedge, n)
           b == SubSeq(q, 1, m)
           r == SubSeq(q, Hedge + 1, n)
<1>1. n \in Nat /\ DOMAIN q = 1..n /\ \A i \in 1..n : q[i] \in Providers
  BY LenProperties, ElementOfSeq
<1>2. m \in Nat /\ m <= n /\ m <= Hedge /\ (m = Hedge \/ m = n) /\ Hedge \in Nat /\ Hedge >= 1
  BY <1>1, Numbers DEF AtMost
<1> HIDE DEF n, m
<1>3. /\ b \in Seq(Providers) /\ Len(b) = m /\ \A i \in 1..m : b[i] = q[i]
      /\ DOMAIN b = 1..m
  <2>1. \A i \in 1..m : q[i] \in Providers BY <1>1, <1>2
  <2>2. /\ b \in Seq(Providers) /\ Len(b) = (IF 1 <= m THEN m - 1 + 1 ELSE 0)
        /\ \A i \in 1..(m - 1 + 1) : b[i] = q[1 + i - 1]
    BY <1>2, <2>1, SubSeqProperties
  <2>3. Len(b) = m BY <1>2, <2>2
  <2>4. \A i \in 1..m : b[i] = q[i] BY <1>2, <2>2
  <2> QED BY <2>2, <2>3, <2>4, LenProperties
<1>4. /\ r \in Seq(Providers) /\ Len(r) = (IF Hedge + 1 <= n THEN n - Hedge ELSE 0)
      /\ \A i \in 1..(n - Hedge) : r[i] = q[Hedge + i]
      /\ DOMAIN r = 1..Len(r)
  <2>1. \A i \in (Hedge + 1)..n : q[i] \in Providers BY <1>1, <1>2
  <2>2. /\ r \in Seq(Providers)
        /\ Len(r) = (IF Hedge + 1 <= n THEN n - (Hedge + 1) + 1 ELSE 0)
        /\ \A i \in 1..(n - (Hedge + 1) + 1) : r[i] = q[(Hedge + 1) + i - 1]
    BY <1>1, <1>2, <2>1, SubSeqProperties
  <2>3. Len(r) = (IF Hedge + 1 <= n THEN n - Hedge ELSE 0) BY <1>1, <1>2, <2>2
  <2>4. \A i \in 1..(n - Hedge) : r[i] = q[Hedge + i] BY <1>1, <1>2, <2>2
  <2> QED BY <2>2, <2>3, <2>4, LenProperties
<1>5. Batch(q) = ToSet(b) /\ Rest(q) = r BY DEF Batch, Rest, n, m
<1> HIDE DEF b, r
<1>6. ToSet(b) \subseteq Providers
  <2>1. \A i \in DOMAIN b : b[i] \in Providers BY <1>1, <1>2, <1>3
  <2> QED BY <2>1, Zenon DEF ToSet
<1>7. ToSet(q) \subseteq ToSet(b) \cup ToSet(r)
  <2> SUFFICES ASSUME NEW i \in 1..n PROVE q[i] \in ToSet(b) \cup ToSet(r)
    BY <1>1, Zenon DEF ToSet
  <2>1. CASE i <= m
    <3>1. i \in DOMAIN b /\ b[i] = q[i] BY <1>2, <1>3, <2>1
    <3> QED BY <3>1, Zenon DEF ToSet
  <2>2. CASE i > m
    <3>1. m = Hedge BY <1>1, <1>2, <2>2
    <3>2. i - Hedge \in 1..(n - Hedge) /\ Hedge + 1 <= n /\ Hedge + (i - Hedge) = i
      BY <1>1, <1>2, <2>2, <3>1
    <3>3. i - Hedge \in DOMAIN r /\ r[i - Hedge] = q[i] BY <1>4, <3>2
    <3> QED BY <3>3, Zenon DEF ToSet
  <2> QED BY <1>1, <1>2, <2>1, <2>2
<1>8. ToSet(b) = {} => r = <<>>
  <2> SUFFICES ASSUME ToSet(b) = {} PROVE r = <<>> OBVIOUS
  <2>1. DOMAIN b = {} BY Zenon DEF ToSet
  <2>2. m = 0
    <3>1. m >= 1 => 1 \in 1..m BY <1>2
    <3> QED BY <1>2, <1>3, <2>1, <3>1
  <2>3. Len(r) = 0 BY <1>1, <1>2, <1>4, <2>2
  <2> QED BY <1>4, <2>3, EmptySeq
<1> QED BY <1>4, <1>5, <1>6, <1>7, <1>8

(* An order is a sequence of providers, also when it is cut. *)
LEMMA OrdersAreSequences ==
    ASSUME NEW o \in Orders
    PROVE  SubSeq(o, 1, AtMost(MaxPerCall, Len(o))) \in Seq(Providers)
<1>1. o \in Seq(Providers)
  <2>1. ASSUME NEW S \in SUBSET Providers, o \in Ranked(S) PROVE o \in Seq(Providers)
    <3>1. Cardinality(S) \in Nat BY PoolAssumption, FS_Subset, FS_CardinalityType
    <3>2. o \in [1..Cardinality(S) -> S] BY <2>1 DEF Ranked, SetToSeqs
    <3>3. o \in [1..Cardinality(S) -> Providers] BY <3>2
    <3> QED BY <3>1, <3>3, SeqDef
  <2>2. CASE o \in Ranked({p \in Providers : Healthy(p)}) BY <2>1, <2>2
  <2>3. CASE o = <<>> BY <2>3, EmptySeq
  <2>4. ASSUME NEW p \in Providers, o = <<p>> PROVE o \in Seq(Providers) BY <2>4
  <2> QED BY <2>2, <2>3, <2>4 DEF Orders, Usable
<1> DEFINE m == AtMost(MaxPerCall, Len(o))
<1>2. m \in Nat /\ m <= Len(o) /\ Len(o) \in Nat BY <1>1, Numbers, LenProperties DEF AtMost
<1> HIDE DEF m
<1>3. \A i \in 1..m : o[i] \in Providers BY <1>1, <1>2, ElementOfSeq
<1>4. SubSeq(o, 1, m) \in Seq(Providers) BY <1>2, <1>3, SubSeqProperties
<1> QED BY <1>4 DEF m

-----------------------------------------------------------------------------
(* One breaker. *)

(* What record_failure makes of a breaker: a count, a retirement or a trip. *)
LEMMA RecordedIs ==
    ASSUME NEW b \in Breakers, NEW kind \in Kinds
    PROVE  \/ Recorded(b, kind) = Count(b, kind)
           \/ /\ Count(b, kind).retired = "no"
              /\ \/ Recorded(b, kind) = Retire(Count(b, kind), "unauthorized")
                 \/ /\ Count(b, kind).streak >= RetireThreshold
                    /\ Recorded(b, kind) = Retire(Count(b, kind), "repeated_failures")
           \/ MayTrip(Count(b, kind)) /\ Recorded(b, kind) = Trip(Count(b, kind), kind)
BY Zenon DEF Recorded, RetiresFor

LEMMA CountIs ==
    ASSUME NEW b \in Breakers, NEW kind \in Kinds
    PROVE  /\ Count(b, kind) \in Breakers
           /\ Count(b, kind).streak >= b.streak
           /\ b.other => Count(b, kind).other
           /\ Count(b, kind).cooldown = b.cooldown /\ Count(b, kind).left = b.left
           /\ Count(b, kind).tripped = b.tripped /\ Count(b, kind).retired = b.retired
<1>1. /\ b.streak \in 0..StreakCap /\ b.other \in BOOLEAN
      /\ AtMost(b.streak + 1, StreakCap) \in 0..StreakCap
      /\ AtMost(b.streak + 1, StreakCap) >= b.streak
  BY Numbers DEF Breakers, AtMost
<1>2. Count(b, kind) = [b EXCEPT !.streak = AtMost(b.streak + 1, StreakCap),
                                 !.other = b.other \/ kind # "timeout"]
  BY DEF Count
<1>3. (b.other \/ kind # "timeout") \in BOOLEAN OBVIOUS
<1> QED BY <1>1, <1>2, <1>3 DEF Breakers

(* The breaker that record_failure leaves. *)
LEMMA RecordedKeeps ==
    ASSUME NEW b \in Breakers, NEW kind \in Kinds, Evidence(b)
    PROVE  LET r == Recorded(b, kind) IN
           /\ r \in Breakers /\ Evidence(r)
           /\ \/ r.left = b.left /\ r.tripped = b.tripped /\ r.retired = b.retired
              \/ b.retired = "no" /\ r.retired # "no" /\ r.left = 0
              \/ b.left = 0 /\ b.retired = "no" /\ r.retired = "no" /\ r.left > 0 /\ r.tripped
<1> DEFINE k == Count(b, kind)
<1>1. /\ k \in Breakers /\ k.streak >= b.streak /\ (b.other => k.other)
      /\ k.cooldown = b.cooldown /\ k.left = b.left /\ k.tripped = b.tripped /\ k.retired = b.retired
  BY CountIs
<1>2. Threshold(k) <= Threshold(b) /\ Threshold(k) \in Nat /\ Threshold(b) \in Nat
  BY <1>1, Numbers DEF Threshold
<1>3. b.streak \in Nat /\ k.streak \in Nat /\ k.left \in 0..CooldownMax /\ k.cooldown \in 0..CooldownMax
  BY <1>1 DEF Breakers
<1>4. Evidence(k) BY <1>1, <1>2, <1>3, Numbers DEF Evidence
<1> HIDE DEF k
<1>5. CASE Recorded(b, kind) = k BY <1>1, <1>4, <1>5
<1>6. ASSUME NEW why \in {"unauthorized", "repeated_failures"}, k.retired = "no",
             why = "repeated_failures" => k.streak >= RetireThreshold,
             Recorded(b, kind) = Retire(k, why)
      PROVE  /\ Recorded(b, kind) \in Breakers /\ Evidence(Recorded(b, kind))
             /\ b.retired = "no" /\ Recorded(b, kind).retired # "no" /\ Recorded(b, kind).left = 0
  <2> DEFINE r == Retire(k, why)
  <2>1. /\ r \in Breakers /\ r.retired = why /\ r.left = 0 /\ r.tripped = TRUE
        /\ r.streak = k.streak /\ r.cooldown = k.cooldown
    <3>1. r = [k EXCEPT !.retired = why, !.tripped = TRUE, !.left = 0] BY DEF Retire
    <3>2. 0 \in 0..CooldownMax BY Numbers
    <3>3. r \in Breakers BY <1>1, <3>1, <3>2 DEF Breakers
    <3>4. r.retired = why /\ r.left = 0 /\ r.streak = k.streak /\ r.cooldown = k.cooldown
      BY <1>1, <3>1 DEF Breakers
    <3>5. r.tripped = TRUE BY <1>1, <3>1 DEF Breakers
    <3> QED BY <3>3, <3>4, <3>5
  <2> HIDE DEF r
  <2>2. Evidence(r) BY <1>3, <1>6, <2>1 DEF Evidence
  <2> QED BY <1>1, <1>6, <2>1, <2>2 DEF r
<1>7. ASSUME MayTrip(k), Recorded(b, kind) = Trip(k, kind)
      PROVE  /\ Recorded(b, kind) \in Breakers /\ Evidence(Recorded(b, kind))
             /\ b.left = 0 /\ b.retired = "no" /\ Recorded(b, kind).retired = "no"
             /\ Recorded(b, kind).left > 0 /\ Recorded(b, kind).tripped
  <2> DEFINE start == IF kind \in Hard THEN CooldownBase ELSE CooldownBase \div 2
             length == AtMost(CooldownMax, IF k.cooldown = 0 THEN start ELSE 2 * k.cooldown)
             r == [k EXCEPT !.cooldown = length, !.left = length, !.tripped = TRUE]
  <2>1. Trip(k, kind) = r BY DEF Trip
  <2>2. k.retired = "no" /\ k.left = 0 /\ k.streak >= Threshold(k) BY <1>7 DEF MayTrip
  <2>3. start \in Nat /\ start >= 1
    <3>1. CooldownBase \div 2 \in Nat /\ CooldownBase \div 2 >= 1 BY Numbers
    <3> QED BY <3>1, Numbers
  <2> HIDE DEF start
  <2>4. length \in 0..CooldownMax /\ length > 0 BY <1>3, <2>3, Numbers DEF AtMost
  <2> HIDE DEF length
  <2>5. /\ r \in Breakers /\ r.left = length /\ r.cooldown = length /\ r.tripped = TRUE
        /\ r.streak = k.streak /\ r.other = k.other /\ r.retired = k.retired
    BY <1>1, <2>4 DEF Breakers
  <2> HIDE DEF r
  <2>6. Threshold(r) = Threshold(k) BY <2>5 DEF Threshold
  <2>7. Evidence(r) BY <2>2, <2>4, <2>5, <2>6 DEF Evidence
  <2> QED BY <1>1, <1>7, <2>1, <2>2, <2>4, <2>5, <2>7
<1>8. \/ Recorded(b, kind) = k
      \/ /\ k.retired = "no"
         /\ \/ Recorded(b, kind) = Retire(k, "unauthorized")
            \/ k.streak >= RetireThreshold /\ Recorded(b, kind) = Retire(k, "repeated_failures")
      \/ MayTrip(k) /\ Recorded(b, kind) = Trip(k, kind)
  BY RecordedIs DEF k
<1>9. CASE k.retired = "no" /\ Recorded(b, kind) = Retire(k, "unauthorized") BY <1>6, <1>9
<1>10. CASE k.retired = "no" /\ k.streak >= RetireThreshold /\ Recorded(b, kind) = Retire(k, "repeated_failures")
  BY <1>6, <1>10
<1>11. CASE MayTrip(k) /\ Recorded(b, kind) = Trip(k, kind) BY <1>7, <1>11
<1> QED BY <1>5, <1>8, <1>9, <1>10, <1>11

LEMMA ProvenIs == Proven \in Breakers /\ Evidence(Proven)
BY Numbers DEF Proven, Breakers, Evidence

-----------------------------------------------------------------------------
(* The steps. *)

LEMMA Typed ==
    TypeOK <=> /\ prov \in [Providers -> Breakers] /\ call \in [Calls -> Racers]
               /\ network \in {"up", "down"} /\ alarm \in {"none", "down", "reported"}
BY DEF TypeOK, Breakers, Racers

LEMMA EvidenceIs == TrippedOnEvidence <=> \A p \in Providers : Evidence(prov[p])
BY DEF TrippedOnEvidence, Evidence

LEMMA Initially == Init => IInv
<1> SUFFICES ASSUME Init PROVE IInv OBVIOUS
<1>1. <<>> \in Seq(Providers) BY EmptySeq
<1>2. [todo |-> <<>>, racing |-> {}, owed |-> {}, answered |-> FALSE] \in Racers
  BY <1>1 DEF Racers
<1>3. prov \in [Providers -> Breakers] /\ call \in [Calls -> Racers]
  BY <1>2, ProvenIs DEF Init
<1>4. network \in {"up", "down"} /\ alarm \in {"none", "down", "reported"} BY DEF Init
<1>5. \A c \in Calls : Ahead(call[c]) BY DEF Init, Ahead
<1>6. \A p \in Providers : Evidence(prov[p]) BY ProvenIs DEF Init
<1> QED BY <1>3, <1>4, <1>5, <1>6, Typed, EvidenceIs DEF IInv

LEMMA BeginKeeps ==
    ASSUME IInv, NEW c \in Calls, Begin(c)
    PROVE  IInv'
<1>1. UNCHANGED <<prov, network, alarm>> BY DEF Begin
<1>2. prov \in [Providers -> Breakers] /\ call \in [Calls -> Racers] /\ \A d \in Calls : Ahead(call[d])
  BY Typed DEF IInv
<1>3. PICK full \in Orders :
         LET o == SubSeq(full, 1, AtMost(MaxPerCall, Len(full)))
         IN  call' = [call EXCEPT ![c] =
                 [todo |-> Rest(o), racing |-> Batch(o), owed |-> ToSet(o), answered |-> FALSE]]
  BY DEF Begin
<1> DEFINE o == SubSeq(full, 1, AtMost(MaxPerCall, Len(full)))
           k == [todo |-> Rest(o), racing |-> Batch(o), owed |-> ToSet(o), answered |-> FALSE]
<1>4. call' = [call EXCEPT ![c] = k] BY <1>3
<1>5. o \in Seq(Providers) BY OrdersAreSequences
<1> HIDE DEF o
<1>6. /\ Batch(o) \in SUBSET Providers /\ Rest(o) \in Seq(Providers)
      /\ ToSet(o) \subseteq Batch(o) \cup ToSet(Rest(o))
      /\ Batch(o) = {} => Rest(o) = <<>>
  BY <1>5, BatchAndRest
<1>7. ToSet(o) \in SUBSET Providers
  <2>1. \A i \in DOMAIN o : o[i] \in Providers BY <1>5, LenProperties, ElementOfSeq
  <2> QED BY <2>1, Zenon DEF ToSet
<1>8. k \in Racers /\ Ahead(k) BY <1>6, <1>7 DEF Racers, Ahead
<1> HIDE DEF k
<1>9. call' \in [Calls -> Racers] /\ \A d \in Calls : Ahead(call'[d])
  BY <1>2, <1>4, <1>8
<1>10. TrippedOnEvidence' BY <1>1 DEF IInv, TrippedOnEvidence, Threshold
<1>11. TypeOK' BY <1>1, <1>9 DEF IInv, TypeOK, Racers
<1> QED BY <1>9, <1>10, <1>11 DEF IInv, Ahead

LEMMA AnswerKeeps ==
    ASSUME IInv, NEW c \in Calls, NEW p \in Providers, Answer(c, p)
    PROVE  IInv'
<1>1. /\ prov' = [prov EXCEPT ![p] = Proven] /\ UNCHANGED <<network, alarm>>
      /\ call' = [call EXCEPT ![c] = [todo |-> <<>>, racing |-> {}, owed |-> {}, answered |-> TRUE]]
  BY DEF Answer
<1>2. /\ prov \in [Providers -> Breakers] /\ call \in [Calls -> Racers]
      /\ \A d \in Calls : Ahead(call[d])
      /\ \A q \in Providers : Evidence(prov[q])
  BY Typed, EvidenceIs DEF IInv
<1>3. prov' \in [Providers -> Breakers] /\ \A q \in Providers : Evidence(prov'[q])
  BY <1>1, <1>2, ProvenIs
<1>4. <<>> \in Seq(Providers) BY EmptySeq
<1>5. call' \in [Calls -> Racers] /\ \A d \in Calls : Ahead(call'[d])
  BY <1>1, <1>2, <1>4 DEF Racers, Ahead
<1>6. TrippedOnEvidence' BY <1>3 DEF TrippedOnEvidence, Evidence, Threshold
<1>7. TypeOK' BY <1>1, <1>3, <1>5 DEF IInv, TypeOK, Racers, Breakers
<1> QED BY <1>5, <1>6, <1>7 DEF IInv, Ahead

(* A racer that fails is heard from, and its batch makes way for the next   *)
(* only when nobody else is racing.                                         *)
LEMMA FailKeeps ==
    ASSUME IInv, NEW c \in Calls, NEW p \in Providers, NEW kind \in Kinds, Fail(c, p, kind)
    PROVE  IInv'
<1> DEFINE left == HeardFrom(call[c], p)
<1>1. /\ prov' = [prov EXCEPT ![p] = Recorded(@, kind)] /\ UNCHANGED <<network, alarm>>
      /\ call' = [call EXCEPT ![c] = NextBatch(left)]
  BY DEF Fail
<1>2. /\ prov \in [Providers -> Breakers] /\ call \in [Calls -> Racers]
      /\ \A d \in Calls : Ahead(call[d])
      /\ \A q \in Providers : Evidence(prov[q])
  BY Typed, EvidenceIs DEF IInv
<1>3. prov' \in [Providers -> Breakers] /\ \A q \in Providers : Evidence(prov'[q])
  <2>1. Recorded(prov[p], kind) \in Breakers /\ Evidence(Recorded(prov[p], kind))
    BY <1>2, RecordedKeeps
  <2> QED BY <1>1, <1>2, <2>1
<1>4. /\ left \in Racers /\ left.todo = call[c].todo
      /\ left.owed \subseteq left.racing \cup ToSet(left.todo)
  BY <1>2 DEF Racers, Ahead, HeardFrom
<1> HIDE DEF left
<1>5. NextBatch(left) \in Racers /\ Ahead(NextBatch(left))
  <2>1. CASE left.racing # {} BY <1>4, <2>1 DEF NextBatch, Ahead
  <2>2. CASE left.racing = {}
    <3>1. left.todo \in Seq(Providers) BY <1>4 DEF Racers
    <3>2. /\ Batch(left.todo) \in SUBSET Providers /\ Rest(left.todo) \in Seq(Providers)
          /\ ToSet(left.todo) \subseteq Batch(left.todo) \cup ToSet(Rest(left.todo))
          /\ Batch(left.todo) = {} => Rest(left.todo) = <<>>
      BY <3>1, BatchAndRest
    <3> DEFINE k == [left EXCEPT !.racing = Batch(left.todo), !.todo = Rest(left.todo)]
    <3>3. NextBatch(left) = k BY <2>2 DEF NextBatch
    <3>4. /\ k \in Racers /\ k.racing = Batch(left.todo) /\ k.todo = Rest(left.todo)
          /\ k.owed = left.owed
      BY <1>4, <3>2 DEF Racers
    <3> HIDE DEF k
    <3> QED BY <1>4, <2>2, <3>2, <3>3, <3>4 DEF Ahead
  <2> QED BY <2>1, <2>2
<1>6. call' \in [Calls -> Racers] /\ \A d \in Calls : Ahead(call'[d])
  BY <1>1, <1>2, <1>5
<1>7. TrippedOnEvidence' BY <1>3 DEF TrippedOnEvidence, Evidence, Threshold
<1>8. TypeOK' BY <1>1, <1>3, <1>6 DEF IInv, TypeOK, Racers, Breakers
<1> QED BY <1>6, <1>7, <1>8 DEF IInv, Ahead

(* A tick of one breaker. *)
LEMMA TickIs ==
    ASSUME NEW b \in Breakers, Evidence(b)
    PROVE  LET r == [b EXCEPT !.left = IF @ > 0 THEN @ - 1 ELSE 0] IN
           /\ r \in Breakers /\ Evidence(r) /\ r.left <= b.left /\ (b.left = 0 => r.left = 0)
           /\ r.tripped = b.tripped /\ r.retired = b.retired
<1> DEFINE n == IF b.left > 0 THEN b.left - 1 ELSE 0
           r == [b EXCEPT !.left = n]
<1>1. b.left \in 0..CooldownMax /\ b.cooldown \in 0..CooldownMax /\ CooldownMax \in Nat
  BY Numbers DEF Breakers
<1>2. n \in 0..CooldownMax /\ n <= b.left /\ (b.left = 0 => n = 0) BY <1>1
<1> HIDE DEF n
<1>3. /\ r \in Breakers /\ r.left = n /\ r.tripped = b.tripped /\ r.retired = b.retired
      /\ r.streak = b.streak /\ r.other = b.other /\ r.cooldown = b.cooldown
  BY <1>2 DEF Breakers
<1>4. Evidence(r) BY <1>1, <1>2, <1>3 DEF Evidence, Threshold
<1> QED BY <1>2, <1>3, <1>4 DEF n

LEMMA TickKeeps ==
    ASSUME IInv, Tick
    PROVE  IInv'
<1>1. /\ prov' = [p \in Providers |-> [prov[p] EXCEPT !.left = IF @ > 0 THEN @ - 1 ELSE 0]]
      /\ UNCHANGED <<call, network, alarm>>
  BY DEF Tick
<1>2. prov \in [Providers -> Breakers] /\ \A q \in Providers : Evidence(prov[q])
  BY Typed, EvidenceIs DEF IInv
<1>3. \A p \in Providers : prov'[p] \in Breakers /\ Evidence(prov'[p])
  <2> SUFFICES ASSUME NEW p \in Providers PROVE prov'[p] \in Breakers /\ Evidence(prov'[p])
    OBVIOUS
  <2>1. prov'[p] = [prov[p] EXCEPT !.left = IF @ > 0 THEN @ - 1 ELSE 0] BY <1>1
  <2> QED BY <1>2, <2>1, TickIs
<1>4. prov' \in [Providers -> Breakers] BY <1>1, <1>3
<1>5. TrippedOnEvidence' BY <1>3 DEF TrippedOnEvidence, Evidence, Threshold
<1>6. TypeOK' BY <1>1, <1>4 DEF IInv, TypeOK, Breakers
<1> QED BY <1>1, <1>5, <1>6 DEF IInv, Ahead

LEMMA OtherKeeps ==
    ASSUME IInv, Watch \/ Outage \/ Restore \/ UNCHANGED vars
    PROVE  IInv'
<1>1. UNCHANGED <<prov, call>> BY DEF Watch, Outage, Restore, vars
<1>2. network' \in {"up", "down"} /\ alarm' \in {"none", "down", "reported"}
  <2>1. CASE Watch
    <3>1. alarm' \in {"none", "down", "reported"} BY <2>1, Zenon DEF Watch
    <3> QED BY <2>1, <3>1 DEF Watch, IInv, TypeOK
  <2>2. CASE Outage \/ Restore \/ UNCHANGED vars
    BY <2>2 DEF Outage, Restore, vars, IInv, TypeOK
  <2> QED BY <2>1, <2>2
<1> QED BY <1>1, <1>2 DEF IInv, TypeOK, Ahead, TrippedOnEvidence, Threshold

LEMMA Inductive == IInv /\ [Next]_vars => IInv'
<1> SUFFICES ASSUME IInv, [Next]_vars PROVE IInv' OBVIOUS
<1>1. ASSUME NEW c \in Calls, Begin(c) PROVE IInv' BY <1>1, BeginKeeps
<1>2. ASSUME NEW c \in Calls, Outcome(c) PROVE IInv'
  BY <1>2, AnswerKeeps, FailKeeps DEF Outcome
<1>3. CASE Tick BY <1>3, TickKeeps
<1>4. CASE Watch \/ Outage \/ Restore \/ UNCHANGED vars BY <1>4, OtherKeeps
<1> QED BY <1>1, <1>2, <1>3, <1>4 DEF Next

(* The inductive invariant holds in every reachable state. *)
THEOREM Invariance == Spec => []IInv
<1> QED BY Initially, Inductive, PTL DEF Spec

-----------------------------------------------------------------------------
(* The breakers and the calls keep their shape and their bounds.            *)
THEOREM TypeCorrect == Spec => []TypeOK
<1>1. IInv => TypeOK BY DEF IInv
<1> QED BY <1>1, Invariance, PTL

(* A breaker opens on the evidence the thresholds ask for.                  *)
THEOREM BreakersNeedEvidence == Spec => []TrippedOnEvidence
<1>1. IInv => TrippedOnEvidence BY DEF IInv
<1> QED BY <1>1, Invariance, PTL

(* rpc_call gives up only when every provider it set out with has failed    *)
(* it, for any hedge, limit and interleaving of calls.                      *)
THEOREM CallsExhaustTheirProviders == Spec => []FailsOnlyExhausted
<1>1. IInv => FailsOnlyExhausted
  <2> SUFFICES ASSUME IInv, NEW c \in Calls, call[c].racing = {} PROVE call[c].owed = {}
    BY DEF FailsOnlyExhausted
  <2>1. call[c].todo = <<>> /\ call[c].owed \subseteq call[c].racing \cup ToSet(call[c].todo)
    BY DEF IInv, Ahead
  <2>2. ToSet(<<>>) = {} BY DEF ToSet
  <2> QED BY <2>1, <2>2
<1> QED BY <1>1, Invariance, PTL

(* A tripped or retired breaker closes by an answer only, and no cooldown   *)
(* is skipped or lengthened, for any thresholds and callers.                *)
THEOREM BreakersCycle == Spec => BreakerCycle
<1> DEFINE Cycle(p) ==
        /\ Breaker(p) = "closed" => Breaker(p)' # "half_open"
        /\ Breaker(p) # "closed" /\ Breaker(p)' = "closed" =>
             \E c \in Calls : p \in call[c].racing /\ call'[c].answered
        /\ Retired(p) /\ ~Retired(p)' => Breaker(p)' = "closed"
        /\ prov[p].left > 0 => prov'[p].left <= prov[p].left
<1>1. IInv /\ [Next]_vars => [\A p \in Providers : Cycle(p)]_vars
  <2> SUFFICES ASSUME IInv, Next, NEW p \in Providers PROVE Cycle(p)
    OBVIOUS
  <2>1. /\ prov \in [Providers -> Breakers] /\ call \in [Calls -> Racers]
        /\ \A q \in Providers : Evidence(prov[q])
    BY Typed, EvidenceIs DEF IInv
  <2>2. prov[p].left \in Nat BY <2>1, Numbers DEF Breakers
  <2>3. CASE prov'[p] = prov[p] BY <2>2, <2>3 DEF Breaker, Healthy, Retired
  <2>4. CASE prov'[p] = Proven /\ \E c \in Calls : p \in call[c].racing /\ call'[c].answered
    BY <2>2, <2>4 DEF Breaker, Healthy, Retired, Proven
  <2>5. CASE /\ prov'[p].left <= prov[p].left /\ (prov[p].left = 0 => prov'[p].left = 0)
             /\ prov'[p].tripped = prov[p].tripped /\ prov'[p].retired = prov[p].retired
    <3>1. prov[p].left > 0 => prov[p].tripped BY <2>1 DEF Evidence
    <3> QED BY <2>2, <2>5, <3>1 DEF Breaker, Healthy, Retired
  <2>6. CASE prov[p].retired = "no" /\ prov'[p].retired # "no" /\ prov'[p].left = 0
    BY <2>2, <2>6 DEF Breaker, Healthy, Retired
  <2>7. CASE /\ prov[p].left = 0 /\ prov[p].retired = "no" /\ prov'[p].retired = "no"
             /\ prov'[p].left > 0 /\ prov'[p].tripped
    BY <2>2, <2>7 DEF Breaker, Healthy, Retired
  <2>8. ASSUME NEW c \in Calls, NEW q \in Providers, Answer(c, q) PROVE Cycle(p)
    <3>1. CASE p = q
      <4>1. prov'[p] = Proven BY <2>1, <2>8, <3>1 DEF Answer
      <4>2. p \in call[c].racing /\ call'[c].answered BY <2>1, <2>8, <3>1 DEF Answer
      <4> QED BY <2>4, <4>1, <4>2
    <3>2. CASE p # q
      <4>1. prov'[p] = prov[p] BY <2>1, <2>8, <3>2 DEF Answer
      <4> QED BY <2>3, <4>1
    <3> QED BY <3>1, <3>2
  <2>9. ASSUME NEW c \in Calls, NEW q \in Providers, NEW kind \in Kinds, Fail(c, q, kind)
        PROVE  Cycle(p)
    <3>1. CASE p = q
      <4>1. prov'[p] = Recorded(prov[p], kind) BY <2>1, <2>9, <3>1 DEF Fail
      <4>2. \/ /\ prov'[p].left = prov[p].left /\ prov'[p].tripped = prov[p].tripped
               /\ prov'[p].retired = prov[p].retired
            \/ prov[p].retired = "no" /\ prov'[p].retired # "no" /\ prov'[p].left = 0
            \/ /\ prov[p].left = 0 /\ prov[p].retired = "no" /\ prov'[p].retired = "no"
               /\ prov'[p].left > 0 /\ prov'[p].tripped
        BY <2>1, <4>1, RecordedKeeps
      <4> QED BY <2>2, <2>5, <2>6, <2>7, <4>2
    <3>2. CASE p # q
      <4>1. prov'[p] = prov[p] BY <2>1, <2>9, <3>2 DEF Fail
      <4> QED BY <2>3, <4>1
    <3> QED BY <3>1, <3>2
  <2>10. CASE Tick
    <3>1. prov'[p] = [prov[p] EXCEPT !.left = IF @ > 0 THEN @ - 1 ELSE 0] BY <2>10 DEF Tick
    <3>2. /\ prov'[p].left <= prov[p].left /\ (prov[p].left = 0 => prov'[p].left = 0)
          /\ prov'[p].tripped = prov[p].tripped /\ prov'[p].retired = prov[p].retired
      BY <2>1, <3>1, TickIs
    <3> QED BY <2>5, <3>2
  <2>11. CASE (\E c \in Calls : Begin(c)) \/ Watch \/ Outage \/ Restore
    BY <2>3, <2>11 DEF Begin, Watch, Outage, Restore
  <2> QED BY <2>8, <2>9, <2>10, <2>11 DEF Next, Outcome
<1> QED BY <1>1, Invariance, PTL DEF Spec, BreakerCycle

-----------------------------------------------------------------------------
(* CexStream. *)

(* Induction, for sets of numbers: the library's least element of a         *)
(* well-founded order.                                                      *)
Less == {ss \in Nat \X Nat : ss[1] < ss[2]}

LEMMA LeastNumber ==
    ASSUME NEW T \in SUBSET Nat, T # {}
    PROVE  \E m \in T : \A k \in T : m <= k
<1>1. IsWellFoundedOn(Less, Nat) BY NatLessThanWellFounded DEF OpToRel, Less
<1>2. PICK m \in T : \A k \in T : ~(<<k, m>> \in Less)
  BY <1>1, WFMin, Zenon
<1>3. \A k \in T : <<k, m>> \in Nat \X Nat OBVIOUS
<1>4. \A k \in T : ~(k < m) BY <1>2, <1>3 DEF Less
<1> QED BY <1>4

LEMMA FromZeroUp ==
    ASSUME NEW T \in SUBSET Nat, 0 \in T, \A n \in T : n + 1 \in T
    PROVE  T = Nat
<1> SUFFICES ASSUME T # Nat PROVE FALSE OBVIOUS
<1>1. Nat \ T \in SUBSET Nat /\ Nat \ T # {} OBVIOUS
<1>2. PICK m \in Nat \ T : \A k \in Nat \ T : m <= k BY <1>1, LeastNumber
<1>3. m # 0 /\ m - 1 \in Nat OBVIOUS
<1>4. m - 1 \in T BY <1>2, <1>3
<1> QED BY <1>3, <1>4

-----------------------------------------------------------------------------
(* Discovery only adds to the connections, and only pairs that none had.    *)
Layouts == {a \in Seq(SUBSET Pairs) : Len(a) <= MaxConns}

Grown(a, b, new) ==
    /\ b \in Layouts /\ Len(a) <= Len(b)
    /\ \A i \in 1..Len(a) : a[i] \subseteq b[i]
    /\ \A i \in 1..Len(b) : \A q \in b[i] :
          \/ i <= Len(a) /\ q \in a[i]
          \/ q \in new /\ \A j \in 1..Len(a) : q \notin a[j]

LEMMA AssignGrows ==
    ASSUME NEW a \in Layouts, NEW p \in Pairs
    PROVE  Grown(a, Assign(a, p), {p})
<1>1. a \in Seq(SUBSET Pairs) /\ Len(a) \in Nat /\ Len(a) <= MaxConns /\ DOMAIN a = 1..Len(a)
  BY LenProperties DEF Layouts
<1>2. \A i \in 1..Len(a) : a[i] \in SUBSET Pairs BY <1>1, ElementOfSeq
<1> DEFINE roomy == {i \in DOMAIN a : Cardinality(a[i]) < MaxPerConn}
<1>3. CASE \E i \in DOMAIN a : p \in a[i]
  <2>1. Assign(a, p) = a BY <1>3 DEF Assign
  <2> QED BY <1>1, <2>1 DEF Grown
<1>4. CASE ~(\E i \in DOMAIN a : p \in a[i]) /\ roomy # {}
  <2> DEFINE i == CHOOSE i \in roomy : \A j \in roomy : i <= j
             b == [a EXCEPT ![i] = @ \cup {p}]
  <2>1. roomy \in SUBSET Nat BY <1>1
  <2>2. \E k \in roomy : \A j \in roomy : k <= j BY <1>4, <2>1, LeastNumber
  <2>3. i \in roomy BY <2>2
  <2>4. Assign(a, p) = b BY <1>4 DEF Assign
  <2> HIDE DEF i
  <2>5. i \in 1..Len(a) /\ a[i] \cup {p} \in SUBSET Pairs BY <1>1, <1>2, <2>3
  <2>6. b \in Seq(SUBSET Pairs) /\ Len(b) = Len(a) BY <1>1, <2>5, ExceptSeq
  <2>7. b[i] = a[i] \cup {p} /\ \A j \in 1..Len(a) : j # i => b[j] = a[j] BY <1>1, <2>5
  <2> HIDE DEF b
  <2>8. \A j \in 1..Len(a) : p \notin a[j] BY <1>1, <1>4
  <2> QED BY <1>1, <2>4, <2>5, <2>6, <2>7, <2>8 DEF Grown, Layouts
<1>5. CASE ~(\E i \in DOMAIN a : p \in a[i]) /\ roomy = {} /\ Len(a) < MaxConns
  <2> DEFINE b == Append(a, {p})
  <2>1. Assign(a, p) = b BY <1>5 DEF Assign
  <2>2. b \in Seq(SUBSET Pairs) /\ Len(b) = Len(a) + 1
        /\ (\A j \in 1..Len(a) : b[j] = a[j]) /\ b[Len(a) + 1] = {p}
    BY <1>1, AppendProperties
  <2> HIDE DEF b
  <2>3. \A j \in 1..Len(a) : p \notin a[j] BY <1>1, <1>5
  <2>4. MaxConns \in Nat BY BudgetAssumption
  <2>5. \A j \in 1..Len(b) : j = Len(a) + 1 \/ j \in 1..Len(a) BY <1>1, <2>2
  <2> QED BY <1>1, <1>5, <2>1, <2>2, <2>3, <2>4, <2>5 DEF Grown, Layouts
<1>6. CASE ~(\E i \in DOMAIN a : p \in a[i]) /\ roomy = {} /\ ~(Len(a) < MaxConns)
  <2>1. Assign(a, p) = a BY <1>6 DEF Assign
  <2> QED BY <1>1, <2>1 DEF Grown
<1> QED BY <1>3, <1>4, <1>5, <1>6

LEMMA GrownAgain ==
    ASSUME NEW a \in Layouts, NEW b, NEW c, NEW old, NEW p, Grown(a, b, old), Grown(b, c, {p})
    PROVE  Grown(a, c, old \cup {p})
<1>1. Len(a) \in Nat /\ Len(b) \in Nat /\ Len(c) \in Nat BY LenProperties DEF Grown, Layouts
<1> QED BY <1>1 DEF Grown

(* The recursion is well founded, so the function is the one it describes.  *)
LEMMA AssignedIs ==
    Assigned = [n \in 0..NPairs |-> IF n = 0 THEN shards ELSE Assign(Assigned[n - 1], n)]
<1> DEFINE Upto(n, g) == g = [k \in 0..n |-> IF k = 0 THEN shards ELSE Assign(g[k - 1], k)]
           T == {n \in Nat : \E g : Upto(n, g)}
<1>1. 0 \in T
  <2>1. Upto(0, [k \in 0..0 |-> shards]) OBVIOUS
  <2> QED BY <2>1
<1>2. ASSUME NEW n \in T PROVE n + 1 \in T
  <2>1. PICK g : Upto(n, g) BY <1>2
  <2> DEFINE h == [k \in 0..(n + 1) |-> IF k = n + 1 THEN Assign(g[n], n + 1) ELSE g[k]]
  <2>2. n \in Nat OBVIOUS
  <2>3. ASSUME NEW k \in 0..(n + 1)
        PROVE  h[k] = IF k = 0 THEN shards ELSE Assign(h[k - 1], k)
    <3>1. CASE k = 0 BY <2>1, <2>2, <3>1
    <3>2. CASE k \in 1..n
      <4>1. h[k] = g[k] /\ h[k - 1] = g[k - 1] /\ k \in 0..n /\ k # 0 BY <2>2, <3>2
      <4>2. g[k] = Assign(g[k - 1], k) BY <2>1, <4>1
      <4> QED BY <4>1, <4>2
    <3>3. CASE k = n + 1
      <4>1. h[k] = Assign(g[n], n + 1) /\ h[k - 1] = g[n] /\ k # 0 BY <2>2, <3>3
      <4> QED BY <3>3, <4>1
    <3> QED BY <2>2, <3>1, <3>2, <3>3
  <2>4. h = [k \in 0..(n + 1) |-> IF k = 0 THEN shards ELSE Assign(h[k - 1], k)] BY <2>3
  <2> HIDE DEF h
  <2>5. Upto(n + 1, h) BY <2>4
  <2> QED BY <2>2, <2>5
<1>3. NPairs \in T
  <2>1. T \in SUBSET Nat OBVIOUS
  <2> HIDE DEF T
  <2>2. T = Nat BY <1>1, <1>2, <2>1, FromZeroUp
  <2> QED BY <2>2, BudgetAssumption
<1>4. \E g : Upto(NPairs, g) BY <1>3
<1> QED BY <1>4 DEF Assigned

LEMMA AssignedGrows ==
    ASSUME shards \in Layouts, NEW n \in 0..NPairs
    PROVE  Grown(shards, Assigned[n], 1..n)
<1> DEFINE T == {k \in Nat : k <= NPairs => Grown(shards, Assigned[k], 1..k)}
<1>0. NPairs \in Nat BY BudgetAssumption
<1>1. 0 \in T
  <2>1. Assigned[0] = shards BY <1>0, AssignedIs
  <2>2. Len(shards) \in Nat BY LenProperties DEF Layouts
  <2>3. Grown(shards, shards, 1..0) BY <2>2 DEF Grown
  <2> QED BY <2>1, <2>3
<1>2. ASSUME NEW k \in T PROVE k + 1 \in T
  <2>1. k \in Nat OBVIOUS
  <2>2. CASE k + 1 <= NPairs
    <3>1. Grown(shards, Assigned[k], 1..k) BY <1>0, <2>1, <2>2
    <3>2. Assigned[k + 1] = Assign(Assigned[k], k + 1)
      <4>1. k + 1 \in 0..NPairs /\ k + 1 # 0 /\ (k + 1) - 1 = k BY <1>0, <2>1, <2>2
      <4> QED BY <4>1, AssignedIs
    <3>3. k + 1 \in Pairs /\ Assigned[k] \in Layouts BY <1>0, <2>1, <2>2, <3>1 DEF Pairs, Grown
    <3>4. Grown(Assigned[k], Assigned[k + 1], {k + 1}) BY <3>2, <3>3, AssignGrows
    <3>5. Grown(shards, Assigned[k + 1], (1..k) \cup {k + 1}) BY <3>1, <3>4, GrownAgain
    <3>6. (1..k) \cup {k + 1} = 1..(k + 1) BY <2>1
    <3>7. Grown(shards, Assigned[k + 1], 1..(k + 1)) BY <3>5, <3>6, Zenon
    <3> QED BY <2>1, <3>7
  <2>3. CASE ~(k + 1 <= NPairs) BY <2>1, <2>3
  <2> QED BY <2>2, <2>3
<1>3. T = Nat
  <2>1. T \in SUBSET Nat OBVIOUS
  <2> HIDE DEF T
  <2> QED BY <1>1, <1>2, <2>1, FromZeroUp
<1>4. n \in T /\ n <= NPairs BY <1>0, <1>3
<1> QED BY <1>4

-----------------------------------------------------------------------------
(* What is next to be pushed is on a connection that was opened.            *)
OpenedFirst == ensuring.todo \subseteq 1..Len(shards)

StreamInv == StreamTypeOK /\ OpenedFirst /\ NoSilentPair

Loops == [pc : {"none", "ready", "dial", "subscribing", "open", "wait"},
          host : (0..Len(world.ws) - 1) \cup {None},
          asked : SUBSET Pairs, left : SUBSET Pairs, dead : BOOLEAN,
          attempt : 0..FailMax, slow : BOOLEAN, cycle : 0..2]
Pushings == [todo : SUBSET Conns, fresh : SUBSET Pairs, conn : Conns \cup {None},
             left : SUBSET Pairs, live : BOOLEAN]

LEMMA OffIs == Off \in Loops /\ NoTask \in Loops /\ Idle \in Pushings
<1>1. 0 \in 0..FailMax BY BudgetAssumption
<1>2. Off \in Loops BY <1>1 DEF Off, Loops
<1>3. NoTask \in Loops
  <2>1. NoTask = [Off EXCEPT !.pc = "none"] BY DEF NoTask
  <2> HIDE DEF Off
  <2> QED BY <1>2, <2>1 DEF Loops
<1>4. Idle \in Pushings BY DEF Idle, Pushings
<1> QED BY <1>2, <1>3, <1>4

LEMMA HostsFollow ==
    ASSUME NEW hosts \in Seq(BOOLEAN) \ {<<>>}, NEW idx \in 0..Len(hosts) - 1
    PROVE  NextHost(hosts, idx) \in 0..Len(hosts) - 1 /\ 0 \in 0..Len(hosts) - 1
<1>1. Len(hosts) \in Nat /\ Len(hosts) # 0 BY LenProperties, EmptySeq
<1>2. \A m \in Nat, n \in Nat \ {0} : m % n \in 0..n - 1 OBVIOUS
<1> DEFINE m == idx + 1
           n == Len(hosts)
<1>3. m \in Nat /\ n \in Nat \ {0} BY <1>1
<1> HIDE DEF m, n
<1>4. m % n \in 0..n - 1 BY <1>2, <1>3
<1>5. NextHost(hosts, idx) = m % n BY DEF NextHost, m, n
<1>6. 0 \in 0..n - 1 BY <1>3
<1> QED BY <1>4, <1>5, <1>6 DEF n

LEMMA StreamInitially == StreamInit => StreamInv
<1> SUFFICES ASSUME StreamInit PROVE StreamInv OBVIOUS
<1>1. world.ws \in Seq(BOOLEAN) \ {<<>>} /\ world.rest \in Seq(BOOLEAN) \ {<<>>}
  BY WorldsAssumption DEF StreamInit
<1>2. 0 \in 0..Len(world.ws) - 1 /\ 0 \in 0..Len(world.rest) - 1
  BY <1>1, LenProperties, EmptySeq
<1>3. shards \in Seq(SUBSET Pairs) /\ Len(shards) = 0 BY EmptySeq DEF StreamInit
<1>4. StreamTypeOK
  <2>1. loop \in [Conns -> Loops] /\ ensuring \in Pushings BY OffIs DEF StreamInit
  <2>2. Len(shards) <= MaxConns BY <1>3, BudgetAssumption
  <2> QED BY <1>2, <1>3, <2>1, <2>2 DEF StreamInit, StreamTypeOK, Loops, Pushings
<1>5. OpenedFirst BY DEF StreamInit, OpenedFirst, Idle
<1>6. \A i \in Conns : ~Up(i) BY DEF StreamInit, Up, NoTask, Off
<1> QED BY <1>4, <1>5, <1>6 DEF StreamInv, NoSilentPair

(* What discovery is going to push on the socket of i. *)
Pushed(i) == (IF ensuring.conn = i /\ ensuring.live THEN ensuring.left ELSE {})
                \cup (IF i \in ensuring.todo THEN ensuring.fresh ELSE {})

Covered(i) == Owned(i) \subseteq loop[i].asked \cup loop[i].left \cup Pushed(i)

LEMMA SilentIs == NoSilentPair <=> \A i \in Conns : Up(i) => Covered(i)
BY DEF NoSilentPair, Awaited, Covered, Pushed

LEMMA TypedStreams ==
    StreamTypeOK <=> /\ world \in Worlds /\ calm \in BOOLEAN
                     /\ shards \in Layouts /\ loop \in [Conns -> Loops] /\ ensuring \in Pushings
                     /\ wsHost \in 0..Len(world.ws) - 1
                     /\ rest \in [host : 0..Len(world.rest) - 1, streak : 0..Len(world.rest) - 1]
BY DEF StreamTypeOK, Layouts, Loops, Pushings

(* One loop takes a step by itself. *)
LEMMA OneLoopKeeps ==
    ASSUME StreamInv, NEW i \in Conns, NEW e \in Loops, loop' = [loop EXCEPT ![i] = e],
           UNCHANGED <<world, calm, shards, ensuring, wsHost, rest>>,
           e.pc \in {"subscribing", "open"} /\ ~e.dead
              => Owned(i) \subseteq e.asked \cup e.left \cup Pushed(i)
    PROVE  StreamInv'
<1>1. StreamTypeOK /\ OpenedFirst /\ \A j \in Conns : Up(j) => Covered(j)
  BY SilentIs DEF StreamInv
<1>2. loop \in [Conns -> Loops] BY <1>1, TypedStreams
<1>3. loop' \in [Conns -> Loops] /\ loop'[i] = e /\ \A j \in Conns \ {i} : loop'[j] = loop[j]
  BY <1>2
<1>4. Loops' = Loops /\ Pushings' = Pushings /\ Layouts' = Layouts
  BY DEF Loops, Pushings, Layouts
<1>5. StreamTypeOK'
  <2>1. loop' \in [Conns -> Loops]' /\ ensuring' \in Pushings' /\ shards' \in Layouts'
    BY <1>1, <1>3, <1>4, TypedStreams
  <2> QED BY <1>1, <2>1 DEF StreamTypeOK, Layouts, Loops, Pushings
<1>6. \A j \in Conns : Owned(j)' = Owned(j) /\ Pushed(j)' = Pushed(j) BY DEF Owned, Pushed
<1>7. ASSUME NEW j \in Conns, Up(j)' PROVE Covered(j)'
  <2>1. CASE j = i BY <1>3, <1>6, <1>7, <2>1 DEF Up, Covered
  <2>2. CASE j # i
    <3>1. loop'[j] = loop[j] BY <1>3, <2>2
    <3>2. Covered(j) BY <1>1, <1>7, <3>1 DEF Up
    <3> QED BY <1>6, <3>1, <3>2 DEF Covered
  <2> QED BY <2>1, <2>2
<1>8. NoSilentPair' BY <1>7 DEF NoSilentPair, Awaited, Covered, Pushed
<1> QED BY <1>1, <1>5, <1>8 DEF StreamInv, OpenedFirst

(* Sockets are lost, and nothing else is. *)
LEMMA LossKeeps ==
    ASSUME StreamInv, loop' \in [Conns -> Loops], ensuring' \in Pushings,
           wsHost' \in 0..Len(world.ws) - 1,
           rest' \in [host : 0..Len(world.rest) - 1, streak : 0..Len(world.rest) - 1],
           ensuring'.todo = ensuring.todo, UNCHANGED <<world, calm, shards>>,
           \A j \in Conns : Up(j)' => /\ Up(j) /\ loop'[j].asked = loop[j].asked
                                      /\ loop'[j].left = loop[j].left
                                      /\ Pushed(j) \subseteq Pushed(j)'
    PROVE  StreamInv'
<1>1. StreamTypeOK /\ OpenedFirst /\ \A j \in Conns : Up(j) => Covered(j)
  BY SilentIs DEF StreamInv
<1>2. Loops' = Loops /\ Pushings' = Pushings /\ Layouts' = Layouts
  BY DEF Loops, Pushings, Layouts
<1>3. StreamTypeOK'
  <2>1. loop' \in [Conns -> Loops]' /\ ensuring' \in Pushings' /\ shards' \in Layouts'
    BY <1>1, <1>2, TypedStreams
  <2> QED BY <1>1, <2>1 DEF StreamTypeOK, Layouts, Loops, Pushings
<1>4. ASSUME NEW j \in Conns, Up(j)' PROVE Covered(j)'
  <2>1. Covered(j) /\ Owned(j)' = Owned(j) BY <1>1, <1>4 DEF Owned
  <2> QED BY <1>4, <2>1 DEF Covered
<1>5. NoSilentPair' BY <1>4 DEF NoSilentPair, Awaited, Covered, Pushed
<1> QED BY <1>1, <1>3, <1>5 DEF StreamInv, OpenedFirst

LEMMA RotationOnlyCloses ==
    ASSUME NEW loops \in [Conns -> Loops]
    PROVE  LET after == RotateProxy(loops)
           IN  /\ after \in [Conns -> Loops]
               /\ \A j \in Conns : /\ after[j].pc = loops[j].pc /\ after[j].asked = loops[j].asked
                                   /\ after[j].left = loops[j].left
                                   /\ loops[j].dead => after[j].dead
<1>1. CASE world.proxies < 2 BY <1>1 DEF RotateProxy
<1>2. CASE ~(world.proxies < 2)
  <2>1. RotateProxy(loops) = [j \in Conns |-> [loops[j] EXCEPT
             !.dead = @ \/ loops[j].pc \in {"dial", "subscribing", "open"}]]
    BY <1>2 DEF RotateProxy
  <2>2. ASSUME NEW j \in Conns, NEW d \in BOOLEAN
        PROVE  LET e == [loops[j] EXCEPT !.dead = d]
               IN  e \in Loops /\ e.pc = loops[j].pc /\ e.asked = loops[j].asked
                   /\ e.left = loops[j].left /\ e.dead = d
    BY DEF Loops
  <2>3. ASSUME NEW j \in Conns
        PROVE  LET e == RotateProxy(loops)[j]
               IN  /\ e \in Loops /\ e.pc = loops[j].pc /\ e.asked = loops[j].asked
                   /\ e.left = loops[j].left /\ (loops[j].dead => e.dead)
    <3> DEFINE d == loops[j].dead \/ loops[j].pc \in {"dial", "subscribing", "open"}
    <3>1. d \in BOOLEAN OBVIOUS
    <3>2. RotateProxy(loops)[j] = [loops[j] EXCEPT !.dead = d] BY <2>1
    <3>3. loops[j].dead => d OBVIOUS
    <3> HIDE DEF d
    <3> QED BY <2>2, <3>1, <3>2, <3>3
  <2>4. RotateProxy(loops) = [j \in Conns |-> RotateProxy(loops)[j]] BY <2>1
  <2> QED BY <2>3, <2>4
<1> QED BY <1>1, <1>2

(* Discovery: what is new on a connection is pushed to it. *)
LEMMA DiscoverKeeps ==
    ASSUME StreamInv, NEW n \in 0..NPairs, Discover(n)
    PROVE  StreamInv'
<1>1. /\ StreamTypeOK /\ OpenedFirst /\ shards \in Layouts /\ loop \in [Conns -> Loops]
      /\ \A j \in Conns : Up(j) => Covered(j)
  BY SilentIs, TypedStreams DEF StreamInv
<1>2. Grown(shards, shards', 1..n) BY <1>1, AssignedGrows DEF Discover
<1> DEFINE changed == {i \in DOMAIN shards' : shards'[i] # Owned(i)}
           fresh == IF changed = {} THEN {} ELSE 1..n \ Subscribed
<1>3. /\ ensuring' = [Idle EXCEPT !.todo = changed, !.fresh = fresh] /\ ensuring = Idle
      /\ UNCHANGED <<world, calm, loop, wsHost>> /\ rest' = [rest EXCEPT !.streak = 0]
  BY DEF Discover
<1>4. /\ shards' \in Layouts /\ Len(shards) \in Nat /\ Len(shards') \in Nat
      /\ DOMAIN shards = 1..Len(shards) /\ DOMAIN shards' = 1..Len(shards')
      /\ Len(shards') <= MaxConns /\ MaxConns \in Nat
  BY <1>1, <1>2, LenProperties, BudgetAssumption DEF Grown, Layouts
<1>5. changed \in SUBSET Conns /\ fresh \in SUBSET Pairs
  BY <1>4, BudgetAssumption DEF Conns, Pairs
<1>6. /\ ensuring' \in Pushings /\ ensuring'.todo = changed /\ ensuring'.fresh = fresh
      /\ ensuring'.conn = None
  <2> HIDE DEF changed, fresh
  <2> QED BY <1>3, <1>5, OffIs DEF Pushings, Idle
<1>7. StreamTypeOK'
  <2>1. loop' \in [Conns -> Loops]' /\ ensuring' \in Pushings' /\ shards' \in Layouts'
    BY <1>1, <1>3, <1>4, <1>6 DEF Loops, Pushings, Layouts
  <2>2. rest' \in [host : 0..Len(world.rest) - 1, streak : 0..Len(world.rest) - 1]
    <3>1. world.rest \in Seq(BOOLEAN) \ {<<>>} BY <1>1, WorldsAssumption DEF StreamTypeOK
    <3>2. 0 \in 0..Len(world.rest) - 1 BY <3>1, LenProperties, EmptySeq
    <3>3. rest \in [host : 0..Len(world.rest) - 1, streak : 0..Len(world.rest) - 1]
      BY <1>1 DEF StreamTypeOK
    <3> QED BY <1>3, <3>2, <3>3
  <2> QED BY <1>1, <1>3, <2>1, <2>2 DEF StreamTypeOK, Layouts, Loops, Pushings
<1>8. OpenedFirst' BY <1>4, <1>6 DEF OpenedFirst
<1>9. ASSUME NEW j \in Conns, Up(j)' PROVE Covered(j)'
  <2>1. Covered(j) /\ Pushed(j) = {} BY <1>1, <1>3, <1>9 DEF Up, Pushed, Idle
  <2>2. ASSUME NEW q \in Owned(j)', q \notin Owned(j) PROVE q \in Pushed(j)'
    <3>1. j \in 1..Len(shards') /\ q \in shards'[j] BY <1>4, <2>2, BudgetAssumption DEF Owned, Conns
    <3>2. q \in 1..n /\ \A k \in 1..Len(shards) : q \notin shards[k]
      BY <1>2, <2>2, <3>1 DEF Grown, Owned
    <3>3. q \notin Subscribed BY <1>4, <3>2 DEF Subscribed, ToSet
    <3>4. j \in changed
      <4>1. Owned(j)' = shards'[j] BY <1>4, <3>1 DEF Owned
      <4> QED BY <1>4, <2>2, <3>1, <4>1
    <3>5. q \in fresh BY <3>2, <3>3, <3>4
    <3> HIDE DEF changed, fresh
    <3> QED BY <1>6, <3>4, <3>5 DEF Pushed
  <2> QED BY <1>3, <2>1, <2>2 DEF Covered
<1>10. NoSilentPair' BY <1>9 DEF NoSilentPair, Awaited, Covered, Pushed
<1> QED BY <1>7, <1>8, <1>10 DEF StreamInv

LEMMA DiscoveryFailsKeeps ==
    ASSUME StreamInv, NEW blocked \in BOOLEAN, DiscoveryFails(blocked)
    PROVE  StreamInv'
<1>1. /\ StreamTypeOK /\ loop \in [Conns -> Loops] /\ ensuring \in Pushings
      /\ world.rest \in Seq(BOOLEAN) \ {<<>>}
  BY TypedStreams, WorldsAssumption DEF StreamInv
<1>2. /\ loop' = loop \/ loop' = RotateProxy(loop)
      /\ UNCHANGED <<world, calm, shards, ensuring, wsHost>>
  BY DEF DiscoveryFails
<1>3. rest' \in [host : 0..Len(world.rest) - 1, streak : 0..Len(world.rest) - 1]
  <2>1. rest.host \in 0..Len(world.rest) - 1 /\ rest.streak \in 0..Len(world.rest) - 1
    BY <1>1 DEF StreamTypeOK
  <2>2. NextHost(world.rest, rest.host) \in 0..Len(world.rest) - 1
    BY <1>1, <2>1, HostsFollow
  <2>3. NextHost(world.rest, rest.streak) \in 0..Len(world.rest) - 1
    BY <1>1, <2>1, HostsFollow
  <2>4. rest' = [host |-> NextHost(world.rest, rest.host),
                 streak |-> NextHost(world.rest, rest.streak)]
    BY DEF DiscoveryFails
  <2> QED BY <2>2, <2>3, <2>4
<1>4. /\ loop' \in [Conns -> Loops]
      /\ \A j \in Conns : /\ loop'[j].pc = loop[j].pc /\ loop'[j].asked = loop[j].asked
                          /\ loop'[j].left = loop[j].left /\ (loop[j].dead => loop'[j].dead)
  <2>1. CASE loop' = loop BY <1>1, <2>1
  <2>2. CASE loop' = RotateProxy(loop) BY <1>1, <2>2, RotationOnlyCloses
  <2> QED BY <1>2, <2>1, <2>2
<1>5. wsHost' \in 0..Len(world.ws) - 1 BY <1>1, <1>2 DEF StreamTypeOK
<1> QED BY <1>1, <1>2, <1>3, <1>4, <1>5, LossKeeps DEF Up, Pushed

(* A loop fails or recycles: its socket is gone, whoever was sending on it. *)
LEMMA ReleasedIs ==
    ASSUME ensuring \in Pushings, NEW i \in Conns
    PROVE  LET c == Released(i)
           IN  /\ c \in Pushings /\ c.todo = ensuring.todo /\ c.fresh = ensuring.fresh
               /\ c.conn = ensuring.conn /\ c.left = ensuring.left
               /\ ensuring.conn # i => c.live = ensuring.live
<1> DEFINE d == ensuring.live /\ ensuring.conn # i
<1>1. d \in BOOLEAN /\ (ensuring.conn # i => d = ensuring.live) BY DEF Pushings
<1>2. Released(i) = [ensuring EXCEPT !.live = d] BY DEF Released
<1> HIDE DEF d
<1> QED BY <1>1, <1>2 DEF Pushings

LEMMA FailsKeeps ==
    ASSUME StreamInv, NEW i \in Conns, ShardFails(i), UNCHANGED calm
    PROVE  StreamInv'
<1> DEFINE attempt == IF loop[i].attempt < FailMax THEN loop[i].attempt + 1 ELSE FailMax
           slow    == attempt = FailMax
           cycle   == IF loop[i].slow THEN (loop[i].cycle + 1) % 3 ELSE 0
           e       == [Off EXCEPT !.pc = "wait", !.attempt = attempt, !.slow = slow,
                                  !.cycle = cycle]
           down    == [loop EXCEPT ![i] = e]
<1>1. /\ StreamTypeOK /\ loop \in [Conns -> Loops] /\ ensuring \in Pushings
      /\ world.ws \in Seq(BOOLEAN) \ {<<>>}
  BY TypedStreams, WorldsAssumption DEF StreamInv
<1>2. e \in Loops /\ e.pc = "wait"
  <2>1. loop[i].attempt \in 0..FailMax /\ loop[i].cycle \in 0..2 /\ FailMax \in Nat
    BY <1>1, BudgetAssumption DEF Loops
  <2>2. attempt \in 0..FailMax /\ slow \in BOOLEAN /\ cycle \in 0..2 BY <2>1
  <2> HIDE DEF attempt, slow, cycle
  <2> QED BY <2>2, OffIs DEF Loops
<1>3. /\ wsHost' = IF slow THEN NextHost(world.ws, wsHost) ELSE wsHost
      /\ loop' = IF slow /\ cycle = 0 THEN RotateProxy(down) ELSE down
      /\ ensuring' = Released(i) /\ UNCHANGED <<world, calm, shards, rest>>
  BY DEF ShardFails
<1> HIDE DEF attempt, slow, cycle, e
<1>4. /\ down \in [Conns -> Loops] /\ down[i].pc = "wait"
      /\ \A j \in Conns \ {i} : down[j] = loop[j]
  BY <1>1, <1>2
<1> HIDE DEF down
<1>5. /\ loop' \in [Conns -> Loops]
      /\ \A j \in Conns : /\ loop'[j].pc = down[j].pc /\ loop'[j].asked = down[j].asked
                          /\ loop'[j].left = down[j].left /\ (down[j].dead => loop'[j].dead)
  <2>1. CASE loop' = down BY <1>4, <2>1
  <2>2. CASE loop' = RotateProxy(down) BY <1>4, <2>2, RotationOnlyCloses
  <2> QED BY <1>3, <2>1, <2>2
<1>6. wsHost' \in 0..Len(world.ws) - 1
  <2>1. wsHost \in 0..Len(world.ws) - 1 BY <1>1 DEF StreamTypeOK
  <2> QED BY <1>1, <1>3, <2>1, HostsFollow
<1>7. ASSUME NEW j \in Conns, Up(j)'
      PROVE  /\ Up(j) /\ loop'[j].asked = loop[j].asked /\ loop'[j].left = loop[j].left
             /\ Pushed(j) \subseteq Pushed(j)'
  <2>1. j # i BY <1>4, <1>5, <1>7 DEF Up
  <2>2. down[j] = loop[j] BY <1>4, <2>1
  <2>3. ensuring.conn = j => ensuring.conn # i BY <2>1
  <2> QED BY <1>1, <1>3, <1>5, <1>7, <2>2, <2>3, ReleasedIs DEF Up, Pushed
<1>8. /\ ensuring' \in Pushings /\ ensuring'.todo = ensuring.todo
      /\ rest' \in [host : 0..Len(world.rest) - 1, streak : 0..Len(world.rest) - 1]
  BY <1>1, <1>3, ReleasedIs DEF StreamTypeOK
<1> QED BY <1>3, <1>5, <1>6, <1>7, <1>8, LossKeeps

LEMMA RecycleKeeps ==
    ASSUME StreamInv, NEW i \in Conns, Recycle(i)
    PROVE  StreamInv'
<1>1. StreamTypeOK /\ loop \in [Conns -> Loops] /\ ensuring \in Pushings
  BY TypedStreams DEF StreamInv
<1>2. /\ loop' = [loop EXCEPT ![i] = Off] /\ ensuring' = Released(i)
      /\ UNCHANGED <<world, calm, shards, wsHost, rest>>
  BY DEF Recycle
<1>3. /\ loop' \in [Conns -> Loops] /\ loop'[i] = Off
      /\ \A j \in Conns \ {i} : loop'[j] = loop[j]
  BY <1>1, <1>2, OffIs
<1>4. ASSUME NEW j \in Conns, Up(j)'
      PROVE  /\ Up(j) /\ loop'[j].asked = loop[j].asked /\ loop'[j].left = loop[j].left
             /\ Pushed(j) \subseteq Pushed(j)'
  <2>1. j # i BY <1>3, <1>4 DEF Up, Off
  <2>2. ensuring.conn = j => ensuring.conn # i BY <2>1
  <2> QED BY <1>1, <1>2, <1>3, <1>4, <2>1, <2>2, ReleasedIs DEF Up, Pushed
<1>5. /\ ensuring' \in Pushings /\ ensuring'.todo = ensuring.todo
      /\ wsHost' \in 0..Len(world.ws) - 1
      /\ rest' \in [host : 0..Len(world.rest) - 1, streak : 0..Len(world.rest) - 1]
  BY <1>1, <1>2, ReleasedIs DEF StreamTypeOK
<1> QED BY <1>2, <1>3, <1>4, <1>5, LossKeeps

(* A connection's own steps. *)
LEMMA RunsKeep ==
    ASSUME StreamInv, NEW i \in Conns,
           Dial(i) \/ Connect(i) \/ Subscribe(i) \/ PeerCloses(i) \/ Wake(i)
    PROVE  StreamInv'
<1>1. /\ StreamTypeOK /\ OpenedFirst /\ loop \in [Conns -> Loops] /\ shards \in Layouts
      /\ \A j \in Conns : Up(j) => Covered(j)
  BY SilentIs, TypedStreams DEF StreamInv
<1>2. UNCHANGED <<world, calm, shards, ensuring, wsHost, rest>>
  BY DEF Dial, Connect, Subscribe, PeerCloses, Wake
<1> DEFINE o == loop[i]
<1>3. o \in Loops BY <1>1
<1>4. CASE Dial(i)
  <2> DEFINE e == [o EXCEPT !.pc = "dial", !.host = wsHost]
  <2>1. e \in Loops /\ e.pc = "dial"
    BY <1>1, <1>3 DEF Loops, StreamTypeOK
  <2>2. loop' = [loop EXCEPT ![i] = e] BY <1>4 DEF Dial
  <2> HIDE DEF e
  <2> QED BY <1>2, <2>1, <2>2, OneLoopKeeps
<1>5. CASE Connect(i)
  <2> DEFINE e == [o EXCEPT !.pc = "subscribing", !.host = None, !.left = Owned(i)]
  <2>1. Owned(i) \in SUBSET Pairs
    <3>1. i \in Nat /\ i >= 1 BY BudgetAssumption DEF Conns
    <3>2. shards \in Seq(SUBSET Pairs) /\ Len(shards) \in Nat BY <1>1, LenProperties DEF Layouts
    <3> QED BY <3>1, <3>2, ElementOfSeq DEF Owned
  <2>2. e \in Loops /\ e.left = Owned(i)
    <3> HIDE DEF o
    <3> QED BY <1>3, <2>1 DEF Loops
  <2>3. loop' = [loop EXCEPT ![i] = e] BY <1>5 DEF Connect
  <2> HIDE DEF e
  <2> QED BY <1>2, <2>2, <2>3, OneLoopKeeps
<1>6. CASE PeerCloses(i)
  <2> DEFINE e == [o EXCEPT !.dead = TRUE]
  <2>1. e \in Loops /\ e.dead BY <1>3 DEF Loops
  <2>2. loop' = [loop EXCEPT ![i] = e] BY <1>6 DEF PeerCloses
  <2> HIDE DEF e
  <2> QED BY <1>2, <2>1, <2>2, OneLoopKeeps
<1>7. CASE Wake(i)
  <2> DEFINE e == [o EXCEPT !.pc = "ready"]
  <2>1. e \in Loops /\ e.pc = "ready" BY <1>3 DEF Loops
  <2>2. loop' = [loop EXCEPT ![i] = e] BY <1>7 DEF Wake
  <2> HIDE DEF e
  <2> QED BY <1>2, <2>1, <2>2, OneLoopKeeps
<1>8. CASE Subscribe(i)
  <2>1. Covered(i) BY <1>1, <1>8 DEF Subscribe, Up
  <2>2. CASE loop[i].left = {}
    <3> DEFINE e == [Off EXCEPT !.pc = "open", !.asked = loop[i].asked]
    <3>1. e \in Loops /\ e.asked = loop[i].asked
      <4> HIDE DEF o
      <4>1. loop[i].asked \in SUBSET Pairs BY <1>3 DEF Loops, o
      <4> QED BY <4>1, OffIs DEF Loops
    <3>2. loop' = [loop EXCEPT ![i] = e] BY <1>8, <2>2 DEF Subscribe
    <3> HIDE DEF e
    <3> QED BY <1>2, <2>1, <2>2, <3>1, <3>2, OneLoopKeeps DEF Covered
  <2>3. ASSUME NEW p \in loop[i].left,
               loop' = [loop EXCEPT ![i].asked = @ \cup {p}, ![i].left = @ \ {p}]
        PROVE  StreamInv'
    <3> DEFINE e == [o EXCEPT !.asked = o.asked \cup {p}, !.left = o.left \ {p}]
    <3>1. o.asked \cup {p} \in SUBSET Pairs /\ o.left \ {p} \in SUBSET Pairs
      BY <1>3 DEF Loops
    <3>2. e \in Loops /\ e.asked = o.asked \cup {p} /\ e.left = o.left \ {p}
      <4> HIDE DEF o
      <4> QED BY <1>3, <3>1 DEF Loops
    <3>3. loop' = [loop EXCEPT ![i] = e] BY <2>3
    <3> HIDE DEF e
    <3> QED BY <1>2, <2>1, <3>2, <3>3, OneLoopKeeps DEF Covered
  <2> QED BY <1>8, <2>2, <2>3 DEF Subscribe
<1> QED BY <1>4, <1>5, <1>6, <1>7, <1>8

LEMMA ReturnedIs ==
    ASSUME NEW c \in Pushings
    PROVE  LET r == Returned(c)
           IN  /\ r \in Pushings /\ r.todo = c.todo /\ r.conn = c.conn
               /\ r.conn # None => r.left = c.left /\ r.live = c.live
               /\ r.todo # {} => r.fresh = c.fresh
<1>1. CASE c.todo = {} /\ c.conn = None
  <2>1. Returned(c) = Idle BY <1>1 DEF Returned
  <2>2. Idle.todo = {} /\ Idle.conn = None BY DEF Idle
  <2> QED BY <1>1, <2>1, <2>2, OffIs
<1>2. CASE ~(c.todo = {} /\ c.conn = None) BY <1>2 DEF Returned
<1> QED BY <1>1, <1>2

(* The push of one connection begins, or is left to its next connect. *)
LEMMA PushToKeeps ==
    ASSUME StreamInv, NEW i \in Conns, PushTo(i)
    PROVE  StreamInv'
<1>1. /\ StreamTypeOK /\ OpenedFirst /\ loop \in [Conns -> Loops] /\ shards \in Layouts
      /\ ensuring \in Pushings /\ \A j \in Conns : Up(j) => Covered(j)
  BY SilentIs, TypedStreams DEF StreamInv
<1> DEFINE o == ensuring
           left == IF Up(i) THEN ensuring.fresh \cap shards[i] ELSE {}
           conn == IF Up(i) THEN i ELSE None
           todo == ensuring.todo \ {i}
           up == Up(i)
           c == [o EXCEPT !.todo = todo, !.conn = conn, !.left = left, !.live = up]
<1>2. /\ ensuring.conn = None /\ i \in ensuring.todo /\ ensuring' = Returned(c)
      /\ loop' = [loop EXCEPT ![i] = IF @.pc = "none" THEN Off ELSE @]
      /\ UNCHANGED <<world, calm, shards, wsHost, rest>>
  BY DEF PushTo
<1>3. c \in Pushings /\ c.todo = todo /\ c.conn = conn /\ c.left = left /\ c.live = up
      /\ c.fresh = ensuring.fresh
  <2>1. /\ todo \in SUBSET Conns /\ conn \in Conns \cup {None} /\ left \in SUBSET Pairs
        /\ up \in BOOLEAN
    BY <1>1 DEF Pushings, Up
  <2> HIDE DEF todo, conn, left, up
  <2> QED BY <1>1, <2>1 DEF Pushings
<1> HIDE DEF c
<1>4. /\ ensuring' \in Pushings /\ ensuring'.todo = todo /\ ensuring'.conn = conn
      /\ ensuring'.conn # None => ensuring'.left = left /\ ensuring'.live = up
      /\ ensuring'.todo # {} => ensuring'.fresh = ensuring.fresh
  BY <1>2, <1>3, ReturnedIs
<1>5. /\ loop' \in [Conns -> Loops] /\ \A j \in Conns \ {i} : loop'[j] = loop[j]
      /\ loop'[i] = loop[i] \/ loop'[i] = Off
  BY <1>1, <1>2, OffIs
<1>6. StreamTypeOK'
  <2>1. loop' \in [Conns -> Loops]' /\ ensuring' \in Pushings' /\ shards' \in Layouts'
    BY <1>1, <1>2, <1>4, <1>5 DEF Loops, Pushings, Layouts
  <2> QED BY <1>1, <1>2, <2>1 DEF StreamTypeOK, Layouts, Loops, Pushings
<1>7. OpenedFirst' BY <1>1, <1>2, <1>4 DEF OpenedFirst
<1>8. None \notin Conns BY BudgetAssumption DEF Conns
<1>9. ASSUME NEW j \in Conns, Up(j)' PROVE Covered(j)'
  <2>1. loop'[j] = loop[j] /\ Up(j)
    <3>1. CASE j = i BY <1>5, <1>9, <3>1 DEF Up, Off
    <3>2. CASE j # i BY <1>5, <1>9, <3>2 DEF Up
    <3> QED BY <3>1, <3>2
  <2>2. Covered(j) /\ Owned(j)' = Owned(j) BY <1>1, <1>2, <2>1 DEF Owned
  <2>3. Owned(j) \cap Pushed(j) \subseteq Pushed(j)'
    <3>1. CASE j = i
      <4>1. Pushed(i) = ensuring.fresh BY <1>2, <1>8 DEF Pushed
      <4>2. Owned(i) = shards[i] BY <1>1, <1>2 DEF OpenedFirst, Owned
      <4>3. Pushed(i)' = left BY <1>4, <1>8, <2>1, <3>1 DEF Pushed
      <4> QED BY <2>1, <3>1, <4>1, <4>2, <4>3
    <3>2. CASE j # i
      <4>1. j \in ensuring'.todo <=> j \in ensuring.todo BY <1>4, <3>2
      <4>2. Pushed(j) = IF j \in ensuring.todo THEN ensuring.fresh ELSE {} BY <1>2, <1>8 DEF Pushed
      <4> QED BY <1>4, <4>1, <4>2 DEF Pushed
    <3> QED BY <3>1, <3>2
  <2> QED BY <2>1, <2>2, <2>3 DEF Covered
<1>10. NoSilentPair' BY <1>9 DEF NoSilentPair, Awaited, Covered, Pushed
<1> QED BY <1>6, <1>7, <1>10 DEF StreamInv

(* A frame is sent on the socket, or what is left is given up: nothing is   *)
(* left, or the socket is closed.                                           *)
LEMMA PushKeeps ==
    ASSUME StreamInv, Push
    PROVE  StreamInv'
<1>1. /\ StreamTypeOK /\ OpenedFirst /\ loop \in [Conns -> Loops] /\ shards \in Layouts
      /\ ensuring \in Pushings /\ \A j \in Conns : Up(j) => Covered(j)
  BY SilentIs, TypedStreams DEF StreamInv
<1> DEFINE i == ensuring.conn
           o == ensuring
<1>2. i \in Conns /\ i # None /\ UNCHANGED <<world, calm, shards, wsHost, rest>>
  BY <1>1 DEF Push, Pushings
<1>3. ASSUME ensuring' \in Pushings, loop' \in [Conns -> Loops], ensuring'.todo = ensuring.todo,
             \A j \in Conns : Up(j)' => Covered(j)'
      PROVE  StreamInv'
  <2>1. loop' \in [Conns -> Loops]' /\ ensuring' \in Pushings' /\ shards' \in Layouts'
    BY <1>1, <1>2, <1>3 DEF Loops, Pushings, Layouts
  <2>2. StreamTypeOK' BY <1>1, <1>2, <2>1 DEF StreamTypeOK, Layouts, Loops, Pushings
  <2>3. OpenedFirst' BY <1>1, <1>2, <1>3 DEF OpenedFirst
  <2>4. NoSilentPair' BY <1>3 DEF NoSilentPair, Awaited, Covered, Pushed
  <2> QED BY <2>2, <2>3, <2>4 DEF StreamInv
<1>4. CASE ensuring.live /\ ~loop[i].dead /\ ensuring.left # {}
  <2>1. PICK p \in ensuring.left : /\ loop' = [loop EXCEPT ![i].asked = @ \cup {p}]
                                   /\ ensuring' = [o EXCEPT !.left = @ \ {p}]
    BY <1>4 DEF Push
  <2> DEFINE l == loop[i]
             e == [l EXCEPT !.asked = l.asked \cup {p}]
  <2>2. /\ ensuring' \in Pushings /\ ensuring'.todo = ensuring.todo
        /\ ensuring'.fresh = ensuring.fresh /\ ensuring'.conn = i
        /\ ensuring'.live = ensuring.live /\ ensuring'.left = ensuring.left \ {p}
    BY <1>1, <2>1 DEF Pushings
  <2>3. e \in Loops /\ e.asked = l.asked \cup {p} /\ e.left = l.left /\ e.pc = l.pc /\ e.dead = l.dead
    <3>1. l \in Loops /\ p \in Pairs BY <1>1, <1>2, <2>1 DEF Pushings
    <3> HIDE DEF l
    <3> QED BY <3>1 DEF Loops
  <2>4. loop' = [loop EXCEPT ![i] = e] BY <2>1
  <2> HIDE DEF e
  <2>5. /\ loop' \in [Conns -> Loops] /\ loop'[i] = e
        /\ \A j \in Conns \ {i} : loop'[j] = loop[j]
    BY <1>1, <1>2, <2>3, <2>4
  <2>6. ASSUME NEW j \in Conns, Up(j)' PROVE Covered(j)'
    <3>1. Owned(j)' = Owned(j) BY <1>2 DEF Owned
    <3>2. CASE j = i
      <4>1. Covered(i) BY <1>1, <1>2, <2>3, <2>5, <2>6, <3>2 DEF Up
      <4> QED BY <2>2, <2>3, <2>5, <3>1, <3>2, <4>1 DEF Covered, Pushed
    <3>3. CASE j # i
      <4>1. loop'[j] = loop[j] BY <2>5, <3>3
      <4>2. Covered(j) BY <1>1, <2>6, <4>1 DEF Up
      <4>3. Pushed(j)' = Pushed(j) BY <2>2, <3>3 DEF Pushed
      <4> QED BY <3>1, <4>1, <4>2, <4>3 DEF Covered
    <3> QED BY <3>2, <3>3
  <2> QED BY <1>3, <2>2, <2>5, <2>6
<1>5. CASE ~(ensuring.live /\ ~loop[i].dead /\ ensuring.left # {})
  <2> DEFINE c == [o EXCEPT !.conn = None, !.left = {}, !.live = FALSE]
  <2>1. ensuring' = Returned(c) /\ loop' = loop BY <1>5 DEF Push
  <2>2. c \in Pushings /\ c.todo = ensuring.todo /\ c.fresh = ensuring.fresh /\ c.conn = None
    BY <1>1 DEF Pushings
  <2> HIDE DEF c
  <2>3. /\ ensuring' \in Pushings /\ ensuring'.todo = ensuring.todo /\ ensuring'.conn = None
        /\ ensuring'.todo # {} => ensuring'.fresh = ensuring.fresh
    BY <2>1, <2>2, ReturnedIs
  <2>4. ASSUME NEW j \in Conns, Up(j)' PROVE Covered(j)'
    <3>1. Covered(j) /\ Owned(j)' = Owned(j) /\ Up(j)
      BY <1>1, <1>2, <2>1, <2>4 DEF Owned, Up
    <3>2. Pushed(j) \subseteq Pushed(j)'
      <4>1. ensuring.conn = j /\ ensuring.live => ensuring.left = {} BY <1>5, <3>1 DEF Up
      <4> QED BY <2>3, <4>1 DEF Pushed
    <3> QED BY <2>1, <3>1, <3>2 DEF Covered
  <2> QED BY <1>1, <1>3, <2>1, <2>3, <2>4
<1> QED BY <1>4, <1>5

LEMMA StreamInductive == StreamInv /\ [StreamNext]_streamVars => StreamInv'
<1> SUFFICES ASSUME StreamInv, [StreamNext]_streamVars PROVE StreamInv' OBVIOUS
<1>1. CASE Discoveries BY <1>1, DiscoverKeeps DEF Discoveries
<1>2. CASE DiscoveryMisses BY <1>2, DiscoveryFailsKeeps DEF DiscoveryMisses
<1>3. CASE Pushes BY <1>3, PushKeeps, PushToKeeps DEF Pushes
<1>4. ASSUME UNCHANGED <<world, shards, loop, ensuring, wsHost, rest>>, calm' \in BOOLEAN
      PROVE  StreamInv'
  <2>1. StreamTypeOK' BY <1>4 DEF StreamInv, StreamTypeOK
  <2>2. OpenedFirst' BY <1>4 DEF StreamInv, OpenedFirst
  <2>3. NoSilentPair' BY <1>4 DEF StreamInv, NoSilentPair, Up, Owned, Awaited
  <2> QED BY <2>1, <2>2, <2>3 DEF StreamInv
<1>5. CASE Calms \/ UNCHANGED streamVars
  BY <1>4, <1>5 DEF Calms, streamVars, StreamInv, StreamTypeOK
<1>6. ASSUME NEW i \in Conns, Dial(i) \/ Connect(i) \/ Subscribe(i) \/ PeerCloses(i) \/ Wake(i)
      PROVE  StreamInv'
  BY <1>6, RunsKeep
<1>7. ASSUME NEW i \in Conns, Refused(i) \/ DialFails(i) \/ Notice(i) \/ Drop(i) PROVE StreamInv'
  BY <1>7, FailsKeeps DEF Refused, DialFails, Notice, Drop, ShardFails
<1>8. ASSUME NEW i \in Conns, Recycle(i) PROVE StreamInv' BY <1>8, RecycleKeeps
<1> QED BY <1>1, <1>2, <1>3, <1>5, <1>6, <1>7, <1>8 DEF StreamNext, Runs

(* Every variable keeps its shape, and no pair of a connection is silently  *)
(* without data on its live socket: whatever discoveries and reconnects     *)
(* overlap, each has been requested there or is about to be.                *)
THEOREM StreamsAreRequested == StreamSpec => [](StreamTypeOK /\ NoSilentPair)
<1>1. StreamInv => StreamTypeOK /\ NoSilentPair BY DEF StreamInv
<1> QED BY <1>1, StreamInitially, StreamInductive, PTL DEF StreamSpec
=============================================================================
