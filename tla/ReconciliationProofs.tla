------------------------ MODULE ReconciliationProofs ------------------------
(***************************************************************************)
(* Proofs about EventQueue, for any symbols, feeds and classifications,    *)
(* and about Reconciliation, which runs a timed pass beside it, for any    *)
(* venues and cadences.                                                    *)
(*                                                                         *)
(* NoChangeLost is not inductive: a symbol without noted groups would      *)
(* allow any stale detector, and the next write notes one group only.      *)
(* What holds is that a stale detector is always triggered by the noted    *)
(* groups (Noted).  BoundedBypass is a matter of the rotation cursor:      *)
(* where it stands bounds how often a tier has been passed (Cursor).       *)
(*                                                                         *)
(* SeenInTime follows from where the loop is: how long it still sleeps or  *)
(* scans bounds what the watched detector may have waited so far (Waited). *)
(***************************************************************************)
EXTENDS Reconciliation, SequenceTheorems, FiniteSetTheorems, TLAPS

(* Nothing is stale but what the noted groups will run, and a stale symbol  *)
(* has a slot or is with the worker.                                        *)
Noted ==
    \A s \in Symbols :
        /\ stale[s] \subseteq Triggered(groups[s])
        /\ stale[s] # {} => s \in pending \/ (worker.pc = "take" /\ worker.symbol = s)

(* Tier 1 is passed in the one turn that starts with tier 2, and tier 2 in  *)
(* the three that do not; tier 1 passes tier 3 in those three as well.      *)
Cursor ==
    /\ passed[1] <= 1 /\ (passed[1] = 1 => starts = 1)
    /\ passed[2] <= (starts + 3) % 4 /\ passed[3] <= (starts + 3) % 4

IInv == TypeOK /\ OneSlotPerSymbol /\ Noted /\ Cursor

-----------------------------------------------------------------------------
(* Queues as sequences without repetition. *)

(* An item that is appended is queued in addition to the others. *)
LEMMA RangeOfAppend ==
    ASSUME NEW S, NEW q \in Seq(S), NEW e \in S
    PROVE  Range(Append(q, e)) = Range(q) \cup {e}
<1>1. /\ Len(Append(q, e)) = Len(q) + 1 /\ Len(q) \in Nat
      /\ \A i \in 1..Len(q) : Append(q, e)[i] = q[i]
      /\ Append(q, e)[Len(q) + 1] = e
      /\ DOMAIN q = 1..Len(q) /\ DOMAIN Append(q, e) = 1..(Len(q) + 1)
  BY AppendProperties, LenProperties
<1>2. Range(q) \cup {e} \subseteq Range(Append(q, e))
  <2>1. Len(q) + 1 \in DOMAIN Append(q, e) BY <1>1
  <2>2. \A i \in DOMAIN q : i \in DOMAIN Append(q, e) BY <1>1
  <2> QED BY <1>1, <2>1, <2>2, Zenon DEF Range
<1>3. ASSUME NEW i \in DOMAIN Append(q, e) PROVE Append(q, e)[i] \in Range(q) \cup {e}
  <2>1. i \in 1..Len(q) \/ i = Len(q) + 1 BY <1>1
  <2> QED BY <1>1, <2>1, Zenon DEF Range
<1> QED BY <1>2, <1>3, Zenon DEF Range

(* A new item leaves a queue without repetition. *)
LEMMA InjectiveAppend ==
    ASSUME NEW S, NEW q \in Seq(S), NEW e \in S, IsInjective(q), e \notin Range(q)
    PROVE  IsInjective(Append(q, e))
<1>1. /\ Len(q) \in Nat
      /\ \A i \in 1..Len(q) : Append(q, e)[i] = q[i]
      /\ Append(q, e)[Len(q) + 1] = e
      /\ DOMAIN q = 1..Len(q) /\ DOMAIN Append(q, e) = 1..(Len(q) + 1)
  BY AppendProperties, LenProperties
<1>2. \A i \in 1..Len(q) : q[i] # e BY <1>1, Zenon DEF Range
<1>3. \A i, j \in 1..Len(q) : q[i] = q[j] => i = j BY <1>1 DEF IsInjective
<1> SUFFICES ASSUME NEW i \in 1..(Len(q) + 1), NEW j \in 1..(Len(q) + 1),
                    Append(q, e)[i] = Append(q, e)[j]
             PROVE  i = j
  BY <1>1 DEF IsInjective
<1> QED BY <1>1, <1>2, <1>3

(* What leaves a queue without repetition is in it no longer. *)
LEMMA RangeOfTail ==
    ASSUME NEW S, NEW q \in Seq(S), q # <<>>, IsInjective(q)
    PROVE  /\ Tail(q) \in Seq(S) /\ IsInjective(Tail(q))
           /\ Head(q) \in Range(q) /\ Head(q) \in S
           /\ Range(Tail(q)) = Range(q) \ {Head(q)}
<1>1. /\ Len(q) \in Nat \ {0} /\ DOMAIN q = 1..Len(q)
      /\ Tail(q) \in Seq(S) /\ Len(Tail(q)) = Len(q) - 1
      /\ DOMAIN Tail(q) = 1..(Len(q) - 1)
      /\ \A i \in 1..(Len(q) - 1) : Tail(q)[i] = q[i + 1]
      /\ Head(q) = q[1] /\ Head(q) \in S
  BY HeadTailProperties, EmptySeq, LenProperties
<1>2. \A i, j \in 1..Len(q) : q[i] = q[j] => i = j BY <1>1 DEF IsInjective
<1>3. IsInjective(Tail(q))
  <2> SUFFICES ASSUME NEW i \in 1..(Len(q) - 1), NEW j \in 1..(Len(q) - 1),
                      Tail(q)[i] = Tail(q)[j]
               PROVE  i = j
    BY <1>1 DEF IsInjective
  <2>1. i + 1 \in 1..Len(q) /\ j + 1 \in 1..Len(q) BY <1>1
  <2> QED BY <1>1, <1>2, <2>1
<1>4. Head(q) \in Range(q)
  <2>1. 1 \in DOMAIN q BY <1>1
  <2> QED BY <1>1, <2>1, Zenon DEF Range
<1>5. Range(Tail(q)) \subseteq Range(q) \ {Head(q)}
  <2> SUFFICES ASSUME NEW i \in 1..(Len(q) - 1)
               PROVE  Tail(q)[i] \in Range(q) \ {Head(q)}
    BY <1>1, Zenon DEF Range
  <2>1. i + 1 \in DOMAIN q /\ 1 \in 1..Len(q) /\ i + 1 # 1 BY <1>1
  <2>2. q[i + 1] # q[1] BY <1>1, <1>2, <2>1
  <2> QED BY <1>1, <2>1, <2>2, Zenon DEF Range
<1>6. Range(q) \ {Head(q)} \subseteq Range(Tail(q))
  <2> SUFFICES ASSUME NEW i \in 1..Len(q), q[i] # q[1]
               PROVE  q[i] \in Range(Tail(q))
    BY <1>1, Zenon DEF Range
  <2>1. i - 1 \in 1..(Len(q) - 1) /\ (i - 1) + 1 = i BY <1>1
  <2>2. Tail(q)[i - 1] = q[i] BY <1>1, <2>1
  <2> QED BY <1>1, <2>1, <2>2, Zenon DEF Range
<1> QED BY <1>1, <1>3, <1>4, <1>5, <1>6

-----------------------------------------------------------------------------
(* The detectors. *)

(* Routing is complete: a detector that reads a group is triggered by it.   *)
LEMMA ReadsTrigger ==
    ASSUME NEW gs \in SUBSET Groups, NEW g \in Groups
    PROVE  {d \in Detectors : g \in Reads[d]} \subseteq Triggered(gs \cup {g})
<1>1. \A d \in Detectors : Reads[d] = Triggers[d] BY DEF Reads, Triggers, Detectors
<1> QED BY <1>1 DEF Triggered

(* Noting one group more triggers no less. *)
LEMMA TriggeredGrows ==
    ASSUME NEW gs, NEW g
    PROVE  Triggered(gs) \subseteq Triggered(gs \cup {g})
BY DEF Triggered

-----------------------------------------------------------------------------
(* The invariant. *)

LEMMA Initially == Init => IInv
<1> SUFFICES ASSUME Init PROVE IInv OBVIOUS
<1>1. TypeOK
  <2>1. tier \in [Symbols -> Tiers] BY RankingsAreTiers DEF Init
  <2>2. queue \in [Tiers -> Seq(Symbols)]
    <3>1. <<>> \in Seq(Symbols) BY EmptySeq
    <3> QED BY <3>1 DEF Init
  <2>3. /\ worker \in [pc : {"scan", "wait", "take", "busy"}, symbol : Symbols \cup {Nobody}]
        /\ worker.pc \in {"take", "busy"} <=> worker.symbol \in Symbols
    BY NobodyIsNoSymbol DEF Init
  <2>4. /\ pending \subseteq Symbols /\ groups \in [Symbols -> SUBSET Groups] /\ starts \in 0..3
        /\ event \in BOOLEAN /\ stale \in [Symbols -> SUBSET Detectors]
    <3>1. pending \subseteq Symbols /\ starts \in 0..3 BY DEF Init
    <3>2. groups \in [Symbols -> SUBSET Groups] BY DEF Init
    <3>3. stale \in [Symbols -> SUBSET Detectors] BY DEF Init
    <3>4. event \in BOOLEAN BY Zenon DEF Init
    <3> QED BY <3>1, <3>2, <3>3, <3>4
  <2>5. passed \in [Tiers -> 0..MaxPassed] BY DEF Init, MaxPassed, Tiers
  <2> QED BY <2>1, <2>2, <2>3, <2>4, <2>5 DEF TypeOK
<1>2. Range(<<>>) = {} /\ IsInjective(<<>>)
  BY DEF Range, IsInjective
<1>3. OneSlotPerSymbol
  BY <1>2 DEF Init, OneSlotPerSymbol, Queued, Tiers
<1>4. Noted BY DEF Init, Noted
<1>5. Cursor BY DEF Init, Cursor, Tiers
<1> QED BY <1>1, <1>3, <1>4, <1>5 DEF IInv

(* put() and the note before it, for one symbol and group. *)
LEMMA WriteKeeps ==
    ASSUME IInv, NEW s \in Symbols, NEW g \in Groups, Write(s, g)
    PROVE  IInv'
<1> USE DEF IInv
<1>1. /\ tier \in [Symbols -> Tiers] /\ queue \in [Tiers -> Seq(Symbols)]
      /\ pending \subseteq Symbols /\ groups \in [Symbols -> SUBSET Groups]
      /\ stale \in [Symbols -> SUBSET Detectors]
      /\ tier[s] \in Tiers /\ queue[tier[s]] \in Seq(Symbols)
  BY DEF TypeOK
<1>2. UNCHANGED <<tier, starts, worker, passed>> BY DEF Write
<1>3. /\ stale' = [stale EXCEPT ![s] = @ \cup {d \in Detectors : g \in Reads[d]}]
      /\ groups' = [groups EXCEPT ![s] = @ \cup {g}]
  BY DEF Write, Note
<1>4. CASE s \in pending
  <2>1. UNCHANGED <<queue, pending, event>> BY <1>4 DEF Write, Put
  <2>2. TypeOK' BY <1>1, <1>2, <1>3, <2>1 DEF TypeOK
  <2>3. OneSlotPerSymbol' BY <2>1 DEF OneSlotPerSymbol, Queued
  <2>4. Noted'
    <3> SUFFICES ASSUME NEW t \in Symbols
                 PROVE  /\ stale'[t] \subseteq Triggered(groups'[t])
                        /\ stale'[t] # {} => t \in pending' \/ (worker'.pc = "take" /\ worker'.symbol = t)
      BY DEF Noted, Triggered
    <3>1. CASE t = s
      BY <1>1, <1>3, <1>4, <2>1, <3>1, ReadsTrigger, TriggeredGrows DEF Noted
    <3>2. CASE t # s
      BY <1>1, <1>2, <1>3, <2>1, <3>2 DEF Noted
    <3> QED BY <3>1, <3>2
  <2>5. Cursor' BY <1>2 DEF Cursor
  <2> QED BY <2>2, <2>3, <2>4, <2>5
<1>5. CASE s \notin pending
  <2>1. /\ queue' = [queue EXCEPT ![tier[s]] = Append(@, s)]
        /\ pending' = pending \cup {s} /\ event' = TRUE
    BY <1>5 DEF Write, Put
  <2>2. queue'[tier[s]] = Append(queue[tier[s]], s) /\ \A p \in Tiers \ {tier[s]} : queue'[p] = queue[p]
    BY <1>1, <2>1
  <2>3. TypeOK'
    <3>1. Append(queue[tier[s]], s) \in Seq(Symbols) BY <1>1, AppendProperties
    <3>2. queue' \in [Tiers -> Seq(Symbols)] BY <1>1, <2>1, <3>1
    <3> QED BY <1>1, <1>2, <1>3, <2>1, <3>2 DEF TypeOK
  <2>4. \A p \in Tiers : s \notin Queued(p) BY <1>5 DEF OneSlotPerSymbol
  <2>5. /\ Range(queue'[tier[s]]) = Range(queue[tier[s]]) \cup {s}
        /\ \A p \in Tiers : p # tier[s] => Range(queue'[p]) = Range(queue[p])
    <3>1. Range(Append(queue[tier[s]], s)) = Range(queue[tier[s]]) \cup {s}
      BY <1>1, RangeOfAppend
    <3> QED BY <1>1, <2>2, <3>1
  <2>6. OneSlotPerSymbol'
    <3>1. \A p \in Tiers : IsInjective(queue'[p])
      <4>1. IsInjective(Append(queue[tier[s]], s))
        BY <1>1, <2>4, InjectiveAppend DEF OneSlotPerSymbol, Queued
      <4> QED BY <1>1, <2>2, <4>1 DEF OneSlotPerSymbol
    <3>2. ASSUME NEW p \in Tiers, NEW q \in Tiers, p # q
          PROVE  Range(queue'[p]) \cap Range(queue'[q]) = {}
      <4>1. Range(queue[p]) \cap Range(queue[q]) = {} BY <3>2 DEF OneSlotPerSymbol, Queued
      <4>2. s \notin Range(queue[p]) /\ s \notin Range(queue[q]) BY <2>4 DEF Queued
      <4>3. CASE p = tier[s] BY <2>5, <3>2, <4>1, <4>2, <4>3, Zenon
      <4>4. CASE q = tier[s] BY <2>5, <3>2, <4>1, <4>2, <4>4, Zenon
      <4>5. CASE p # tier[s] /\ q # tier[s] BY <2>5, <4>1, <4>5, Zenon
      <4> QED BY <4>3, <4>4, <4>5
    <3>3. pending' = UNION {Range(queue'[p]) : p \in Tiers}
      <4>1. pending = UNION {Range(queue[p]) : p \in Tiers} BY DEF OneSlotPerSymbol, Queued
      <4>2. ASSUME NEW x
            PROVE  (\E p \in Tiers : x \in Range(queue'[p]))
                   <=> (\E p \in Tiers : x \in Range(queue[p])) \/ x = s
        BY <1>1, <2>5, Zenon
      <4>3. ASSUME NEW x
            PROVE  x \in pending' <=> x \in UNION {Range(queue'[p]) : p \in Tiers}
        <5>1. x \in pending' <=> x \in pending \/ x = s BY <2>1
        <5>2. x \in pending <=> \E p \in Tiers : x \in Range(queue[p]) BY <4>1
        <5> QED BY <4>2, <5>1, <5>2
      <4> QED BY <4>3
    <3> QED BY <3>1, <3>2, <3>3 DEF OneSlotPerSymbol, Queued
  <2>7. Noted'
    <3> SUFFICES ASSUME NEW t \in Symbols
                 PROVE  /\ stale'[t] \subseteq Triggered(groups'[t])
                        /\ stale'[t] # {} => t \in pending' \/ (worker'.pc = "take" /\ worker'.symbol = t)
      BY DEF Noted, Triggered
    <3>1. CASE t = s
      BY <1>1, <1>3, <2>1, <3>1, ReadsTrigger, TriggeredGrows DEF Noted
    <3>2. CASE t # s
      BY <1>1, <1>2, <1>3, <2>1, <3>2 DEF Noted
    <3> QED BY <3>1, <3>2
  <2>8. Cursor' BY <1>2 DEF Cursor
  <2> QED BY <2>3, <2>6, <2>7, <2>8
<1> QED BY <1>4, <1>5

(* get() takes the head of one tier's queue. *)
LEMMA DequeueKeeps ==
    ASSUME IInv, Dequeue
    PROVE  IInv'
<1> USE DEF IInv
<1>1. PICK p \in Tiers :
         /\ Served(p)
         /\ queue' = [queue EXCEPT ![p] = Tail(@)]
         /\ pending' = pending \ {Head(queue[p])}
         /\ worker' = [pc |-> "take", symbol |-> Head(queue[p])]
         /\ passed' = Bypass(p)
  BY DEF Dequeue
<1>2. /\ starts' = (starts + 1) % 4 /\ UNCHANGED <<tier, groups, event, stale>>
  BY DEF Dequeue
<1>3. /\ queue \in [Tiers -> Seq(Symbols)] /\ pending \subseteq Symbols
      /\ queue[p] \in Seq(Symbols) /\ queue[p] # <<>> /\ IsInjective(queue[p])
      /\ starts \in 0..3 /\ passed \in [Tiers -> 0..MaxPassed]
  BY <1>1 DEF TypeOK, Served, OneSlotPerSymbol
<1>4. /\ Tail(queue[p]) \in Seq(Symbols) /\ IsInjective(Tail(queue[p]))
      /\ Head(queue[p]) \in Range(queue[p]) /\ Head(queue[p]) \in Symbols
      /\ Range(Tail(queue[p])) = Range(queue[p]) \ {Head(queue[p])}
  BY <1>3, RangeOfTail
<1>5. queue'[p] = Tail(queue[p]) /\ \A q \in Tiers \ {p} : queue'[q] = queue[q]
  BY <1>1, <1>3
<1>6. passed' \in [Tiers -> 0..MaxPassed]
  <2>1. \A q \in Tiers : passed'[q] \in 0..MaxPassed BY <1>1, <1>3 DEF Bypass, MaxPassed
  <2> QED BY <1>1, <2>1 DEF Bypass
<1>7. TypeOK'
  <2>1. queue' \in [Tiers -> Seq(Symbols)] BY <1>1, <1>3, <1>4
  <2>2. starts' \in 0..3 BY <1>2, <1>3
  <2>3. /\ worker' \in [pc : {"scan", "wait", "take", "busy"}, symbol : Symbols \cup {Nobody}]
        /\ worker'.pc \in {"take", "busy"} <=> worker'.symbol \in Symbols
    BY <1>1, <1>4
  <2> QED BY <1>1, <1>2, <1>3, <1>6, <2>1, <2>2, <2>3 DEF TypeOK
<1>8. OneSlotPerSymbol'
  <2>1. /\ Queued(p)' = Queued(p) \ {Head(queue[p])} /\ Head(queue[p]) \in Queued(p)
        /\ \A q \in Tiers \ {p} : Queued(q)' = Queued(q)
    BY <1>4, <1>5 DEF Queued
  <2>2. \A q \in Tiers : IsInjective(queue'[q]) BY <1>4, <1>5 DEF OneSlotPerSymbol
  <2>3. \A q, r \in Tiers : q # r => Queued(q)' \cap Queued(r)' = {}
    BY <2>1 DEF OneSlotPerSymbol
  <2>4. pending' = UNION {Queued(q)' : q \in Tiers}
    <3>1. pending = UNION {Queued(q) : q \in Tiers} BY DEF OneSlotPerSymbol
    <3>2. \A q \in Tiers \ {p} : Head(queue[p]) \notin Queued(q)
      BY <2>1 DEF OneSlotPerSymbol
    <3> QED BY <1>1, <2>1, <3>1, <3>2
  <2> QED BY <2>2, <2>3, <2>4 DEF OneSlotPerSymbol, Queued
<1>9. Noted'
  <2>1. worker.pc = "scan" BY DEF Dequeue
  <2> SUFFICES ASSUME NEW t \in Symbols
               PROVE  /\ stale'[t] \subseteq Triggered(groups'[t])
                      /\ stale'[t] # {} => t \in pending' \/ (worker'.pc = "take" /\ worker'.symbol = t)
    BY DEF Noted, Triggered
  <2> QED BY <1>1, <1>2, <2>1 DEF Noted
<1>10. Cursor'
  <2>1. passed'[1] = IF 1 # p /\ queue[1] # <<>>
                     THEN IF passed[1] < 4 THEN passed[1] + 1 ELSE 4 ELSE 0
    BY <1>1 DEF Bypass, Passes, MaxPassed, Tiers
  <2>2. passed'[2] = IF 2 # p /\ queue[2] # <<>>
                     THEN IF passed[2] < 4 THEN passed[2] + 1 ELSE 4 ELSE 0
    BY <1>1 DEF Bypass, Passes, MaxPassed, Tiers
  <2>3. passed'[3] = IF p = 1 /\ queue[3] # <<>>
                     THEN IF passed[3] < 4 THEN passed[3] + 1 ELSE 4 ELSE 0
    BY <1>1 DEF Bypass, Passes, MaxPassed, Tiers
  <2>4. starts # 0 /\ queue[1] # <<>> => p = 1
    <3> SUFFICES ASSUME starts # 0, queue[1] # <<>> PROVE p = 1 OBVIOUS
    <3>1. starts % 4 # 0
      <4>1. starts = 1 \/ starts = 2 \/ starts = 3 BY <1>3
      <4>2. 1 % 4 = 1 /\ 2 % 4 = 2 /\ 3 % 4 = 3 OBVIOUS
      <4> QED BY <4>1, <4>2
    <3>2. Order = <<1, 2, 3>> BY <3>1 DEF Order
    <3> QED BY <1>1, <3>2 DEF Served
  <2>5. starts = 0 /\ queue[2] # <<>> => p = 2
    <3> SUFFICES ASSUME starts = 0, queue[2] # <<>> PROVE p = 2 OBVIOUS
    <3>1. starts % 4 = 0 OBVIOUS
    <3>2. Order = <<2, 3, 1>> BY <3>1 DEF Order
    <3> QED BY <1>1, <3>2 DEF Served
  <2>6. starts = 0 /\ queue[3] # <<>> => p # 1
    <3> SUFFICES ASSUME starts = 0, queue[3] # <<>> PROVE p # 1 OBVIOUS
    <3>1. starts % 4 = 0 OBVIOUS
    <3>2. Order = <<2, 3, 1>> BY <3>1 DEF Order
    <3> QED BY <1>1, <3>2 DEF Served
  <2>7. passed[1] \in 0..4 /\ passed[2] \in 0..4 /\ passed[3] \in 0..4
    BY <1>3 DEF MaxPassed, Tiers
  <2>8. /\ passed[1] <= 1 /\ (passed[1] = 1 => starts = 1)
        /\ passed[2] <= (starts + 3) % 4 /\ passed[3] <= (starts + 3) % 4
    BY DEF Cursor
  <2>9. passed'[1] <= 1 /\ (passed'[1] = 1 => starts' = 1)
    <3>1. CASE starts = 0
      <4>1. starts' = 1 BY <1>2, <3>1
      <4>2. passed[1] = 0 BY <2>7, <2>8, <3>1
      <4> QED BY <2>1, <4>1, <4>2
    <3>2. CASE starts # 0
      <4>1. passed'[1] = 0 BY <2>1, <2>4, <3>2
      <4> QED BY <4>1
    <3> QED BY <3>1, <3>2
  <2>10. passed'[2] <= (starts' + 3) % 4
    <3>1. CASE starts = 0 BY <1>2, <2>2, <2>5, <2>7, <2>8, <3>1
    <3>2. CASE starts = 1 BY <1>2, <2>2, <2>7, <2>8, <3>2
    <3>3. CASE starts = 2 BY <1>2, <2>2, <2>7, <2>8, <3>3
    <3>4. CASE starts = 3 BY <1>2, <2>2, <2>7, <2>8, <3>4
    <3> QED BY <1>3, <3>1, <3>2, <3>3, <3>4
  <2>11. passed'[3] <= (starts' + 3) % 4
    <3>1. CASE starts = 0 BY <1>2, <2>7, <2>8, <2>3, <2>6, <3>1
    <3>2. CASE starts = 1 BY <1>2, <2>7, <2>8, <2>3, <3>2
    <3>3. CASE starts = 2 BY <1>2, <2>7, <2>8, <2>3, <3>3
    <3>4. CASE starts = 3 BY <1>2, <2>7, <2>8, <2>3, <3>4
    <3> QED BY <1>3, <3>1, <3>2, <3>3, <3>4
  <2> QED BY <2>9, <2>10, <2>11 DEF Cursor
<1> QED BY <1>7, <1>8, <1>9, <1>10

(* The detection pass takes what was noted, and runs it all. *)
LEMMA DetectKeeps ==
    ASSUME IInv, Detect
    PROVE  IInv'
<1> USE DEF IInv
<1> DEFINE s == worker.symbol
<1>1. /\ worker.pc = "take" /\ s \in Symbols
      /\ stale' = [stale EXCEPT ![s] = @ \ Routed(s)]
      /\ groups' = [groups EXCEPT ![s] = {}]
      /\ worker' = [worker EXCEPT !.pc = "busy"]
      /\ UNCHANGED <<tier, queue, pending, starts, event, passed>>
  BY DEF Detect, TypeOK
<1>2. /\ stale \in [Symbols -> SUBSET Detectors] /\ groups \in [Symbols -> SUBSET Groups]
  BY DEF TypeOK
<1>3. stale'[s] = {}
  <2>1. Triggered({}) = {} BY DEF Triggered
  <2>2. stale[s] \subseteq Routed(s)
    BY <1>1, <2>1 DEF Noted, Routed
  <2> QED BY <1>1, <1>2, <2>2
<1>4. TypeOK'
  <2>1. /\ worker' \in [pc : {"scan", "wait", "take", "busy"}, symbol : Symbols \cup {Nobody}]
        /\ worker'.pc \in {"take", "busy"} <=> worker'.symbol \in Symbols
    BY <1>1 DEF TypeOK
  <2> QED BY <1>1, <1>2, <2>1 DEF TypeOK
<1>5. OneSlotPerSymbol' BY <1>1 DEF OneSlotPerSymbol, Queued
<1>6. Noted'
  <2> SUFFICES ASSUME NEW t \in Symbols
               PROVE  /\ stale'[t] \subseteq Triggered(groups'[t])
                      /\ stale'[t] # {} => t \in pending' \/ (worker'.pc = "take" /\ worker'.symbol = t)
    BY DEF Noted, Triggered
  <2>1. CASE t = s BY <1>3, <2>1
  <2>2. CASE t # s BY <1>1, <1>2, <2>2 DEF Noted
  <2> QED BY <2>1, <2>2
<1>7. Cursor' BY <1>1 DEF Cursor
<1> QED BY <1>4, <1>5, <1>6, <1>7

(* The worker's other steps change neither queue nor notes. *)
LEMMA WaitKeeps ==
    ASSUME IInv, FindsNothing \/ Wakes \/ TimesOut \/ Finish \/ Reclassify \/ UNCHANGED vars
    PROVE  IInv'
<1> USE DEF IInv
<1>1. UNCHANGED <<queue, pending, groups, stale>>
  BY DEF FindsNothing, Wakes, TimesOut, Finish, Reclassify, vars
<1>2. CASE FindsNothing
  <2>1. /\ worker.pc = "scan" /\ worker' = [worker EXCEPT !.pc = "wait"]
        /\ starts' = (starts + 1) % 4 /\ passed' = [q \in Tiers |-> 0] /\ event' = FALSE
        /\ tier' = tier
    BY <1>2 DEF FindsNothing
  <2>2. TypeOK'
    <3>1. starts' \in 0..3 BY <2>1 DEF TypeOK
    <3>2. passed' \in [Tiers -> 0..MaxPassed] BY <2>1 DEF MaxPassed, Tiers
    <3>3. /\ worker' \in [pc : {"scan", "wait", "take", "busy"}, symbol : Symbols \cup {Nobody}]
          /\ worker'.pc \in {"take", "busy"} <=> worker'.symbol \in Symbols
      BY <2>1 DEF TypeOK
    <3> QED BY <1>1, <2>1, <3>1, <3>2, <3>3 DEF TypeOK
  <2>3. Cursor'
    <3>1. starts \in 0..3 BY DEF TypeOK
    <3>2. (starts' + 3) % 4 >= 0 BY <2>1, <3>1
    <3> QED BY <2>1, <3>2 DEF Cursor, Tiers
  <2>4. Noted' BY <1>1, <2>1 DEF Noted, Triggered
  <2>5. OneSlotPerSymbol' BY <1>1 DEF OneSlotPerSymbol, Queued
  <2> QED BY <2>2, <2>3, <2>4, <2>5
<1>3. CASE Wakes \/ TimesOut \/ Finish \/ Reclassify \/ UNCHANGED vars
  <2>1. UNCHANGED <<starts, event, passed>>
    BY <1>3 DEF Wakes, TimesOut, Finish, Reclassify, vars
  <2>2. worker'.pc # "take" => worker.pc # "take"
    BY <1>3 DEF Wakes, TimesOut, Finish, Reclassify, vars, TypeOK
  <2>3. worker.pc = "take" => worker' = worker
    BY <1>3 DEF Wakes, TimesOut, Finish, Reclassify, vars
  <2>4. TypeOK'
    <3>1. tier' \in [Symbols -> Tiers]
      BY <1>3, RankingsAreTiers DEF Wakes, TimesOut, Finish, Reclassify, vars, TypeOK
    <3>2. /\ worker' \in [pc : {"scan", "wait", "take", "busy"}, symbol : Symbols \cup {Nobody}]
          /\ worker'.pc \in {"take", "busy"} <=> worker'.symbol \in Symbols
      <4>1. CASE Wakes \/ TimesOut
        <5>1. worker.pc = "wait" /\ worker' = [worker EXCEPT !.pc = "scan"]
          BY <4>1 DEF Wakes, TimesOut
        <5> QED BY <5>1 DEF TypeOK
      <4>2. CASE Finish BY <4>2, NobodyIsNoSymbol DEF Finish
      <4>3. CASE Reclassify \/ UNCHANGED vars BY <4>3 DEF Reclassify, vars, TypeOK
      <4> QED BY <1>3, <4>1, <4>2, <4>3
    <3> QED BY <1>1, <2>1, <3>1, <3>2 DEF TypeOK
  <2>5. Noted' BY <1>1, <2>3 DEF Noted, Triggered
  <2>6. Cursor' BY <2>1 DEF Cursor
  <2>7. OneSlotPerSymbol' BY <1>1 DEF OneSlotPerSymbol, Queued
  <2> QED BY <2>4, <2>5, <2>6, <2>7
<1> QED BY <1>2, <1>3

LEMMA Inductive == IInv /\ [Next]_vars => IInv'
<1> SUFFICES ASSUME IInv, [Next]_vars PROVE IInv' OBVIOUS
<1>1. ASSUME NEW s \in Symbols, NEW g \in Groups, Write(s, g) PROVE IInv'
  BY <1>1, WriteKeeps
<1>2. CASE Dequeue BY <1>2, DequeueKeeps
<1>3. CASE Detect BY <1>3, DetectKeeps
<1>4. CASE FindsNothing \/ Wakes \/ TimesOut \/ Finish \/ Reclassify \/ UNCHANGED vars
  BY <1>4, WaitKeeps
<1> QED BY <1>1, <1>2, <1>3, <1>4 DEF Next, Work

(* The inductive invariant holds in every reachable state. *)
THEOREM Invariance == Spec => []IInv
<1> QED BY Initially, Inductive, PTL DEF Spec

-----------------------------------------------------------------------------
(* Every variable of the queue and its worker keeps its shape. *)
THEOREM TypeCorrect == Spec => []TypeOK
<1>1. IInv => TypeOK BY DEF IInv
<1> QED BY <1>1, Invariance, PTL

LEMMA NotedIsEnough == IInv => NoChangeLost
<1> SUFFICES ASSUME IInv, NEW s \in Symbols, NEW d \in stale[s]
             PROVE  /\ s \in pending \/ (worker.pc = "take" /\ worker.symbol = s)
                    /\ groups[s] = {} \/ d \in Triggered(groups[s])
  BY DEF NoChangeLost
<1> QED BY DEF IInv, Noted

LEMMA CursorIsEnough == IInv => BoundedBypass
<1> SUFFICES ASSUME IInv PROVE BoundedBypass OBVIOUS
<1>1. starts \in 0..3 BY DEF IInv, TypeOK
<1>2. (starts + 3) % 4 <= 3 BY <1>1
<1>3. passed[1] \in 0..MaxPassed /\ passed[2] \in 0..MaxPassed /\ passed[3] \in 0..MaxPassed
  BY DEF IInv, TypeOK, Tiers
<1> QED BY <1>1, <1>2, <1>3 DEF IInv, Cursor, BoundedBypass, MaxPassed

(* The backlog is bounded by the tracked symbols: put() coalesces, whatever *)
(* tier a symbol was in when it was queued.                                 *)
THEOREM BacklogIsBounded == Spec => []OneSlotPerSymbol
<1>1. IInv => OneSlotPerSymbol BY DEF IInv
<1> QED BY <1>1, Invariance, PTL

(* No accepted write is lost on its way to the detectors that read it.      *)
THEOREM ChangesAreSeen == Spec => []NoChangeLost
<1> QED BY NotedIsEnough, Invariance, PTL

(* A waiting tier 1 or 2 symbol is passed by one, or three, dequeues at     *)
(* most, and a tier 3 symbol by three of tier 1 in a row: a tier 1 queue    *)
(* that is never empty starves nobody.                                      *)
THEOREM RankedWaitIsBounded == Spec => []BoundedBypass
<1> QED BY CursorIsEnough, Invariance, PTL

-----------------------------------------------------------------------------
(* The pass beside the queue. *)

(* The watched detector; what may pass before a pass finds it due.          *)
Follows == watch[2]
Bound   == IF Forever(Follows) = 0 THEN 1 ELSE Forever(Follows)

NetTypeOK ==
    /\ world \in DOMAIN Worlds /\ watch \in Now.watched
    /\ since \in [Detectors -> Nat] /\ idle \in [Detectors -> Nat]
    /\ DOMAIN net = {"pc", "rest", "left", "due", "took"}
    /\ net.pc \in {"sleep", "scan"} /\ net.rest \in 0..1 /\ net.took \in 0..1
    /\ lag \in Nat /\ lost \in Nat

(* Who waits can be served, so that the next pass which finds it due sees   *)
(* it.  Until `since` has reached the longest cadence nothing has waited    *)
(* for longer than that; from then on the loop's own clock is the bound.    *)
(* In a pass that has run the detector already only later changes wait.     *)
Waited ==
    /\ lag = 0 => lost = 0
    /\ lag > 0 => Sees(watch[1], Follows, offline)
    /\ ~Now.timed => net.pc = "sleep" /\ lag <= 1
    /\ since[Follows] < Forever(Follows) => lag <= since[Follows] + 1
    /\ net.pc = "sleep" => net.took = 0 /\ lag + net.rest <= Bound + 2 + lost
    /\ net.pc = "scan" =>
          /\ since[Follows] >= Forever(Follows) \/ since[Follows] >= net.took
          /\ lag <= Bound + 2 + net.took + lost
          /\ Follows \notin net.due => Forever(Follows) >= 1 /\ lag <= Forever(Follows) + net.took
          /\ Follows \in net.due /\ watch[1] \notin net.left => lag <= net.took + 1

NetIInv == NetTypeOK /\ Waited

(* Two members make a cardinality of two. *)
LEMMA TwoMembers ==
    ASSUME NEW S, IsFiniteSet(S), NEW v \in S
    PROVE  /\ Cardinality(S) >= 1
           /\ \A w \in S : v # w => Cardinality(S) >= 2
<1>1. IsFiniteSet({v}) /\ Cardinality({v}) = 1 BY FS_Singleton
<1>2. Cardinality(S) \in Nat /\ Cardinality(S) >= 1
  <2>1. {v} \subseteq S OBVIOUS
  <2> QED BY <1>1, <2>1, FS_Subset, FS_CardinalityType
<1>3. ASSUME NEW w \in S, v # w PROVE Cardinality(S) >= 2
  <2>1. IsFiniteSet({v} \cup {w}) /\ Cardinality({v} \cup {w}) = 2
    <3>1. w \notin {v} BY <1>3
    <3>2. IsFiniteSet({v} \cup {w}) /\ Cardinality({v} \cup {w}) = Cardinality({v}) + 1
      BY <1>1, <3>1, FS_AddElement, Zenon
    <3> QED BY <1>1, <3>2
  <2>2. {v} \cup {w} \subseteq S OBVIOUS
  <2>3. Cardinality({v} \cup {w}) <= Cardinality(S) BY <2>2, FS_Subset, Zenon
  <2> QED BY <1>2, <2>1, <2>3
<1> QED BY <1>2, <1>3

(* What has two legs to compare passes the engine's eligibility check: it   *)
(* prunes nothing that a detector could have found.                         *)
LEMMA SeesIsEligible ==
    ASSUME NEW s, NEW d \in Detectors, Sees(s, d, offline)
    PROVE  d \in Eligible(s)
<1> DEFINE cex == OnlineOf(s) \cap Cex
           dex == OnlineOf(s) \cap Pools
           nets == {Chain[p] : p \in dex}
<1>1. /\ IsFiniteSet(cex) /\ IsFiniteSet(dex) /\ IsFiniteSet(RatedOf(s)) /\ IsFiniteSet(nets)
  <2>1. cex \subseteq Cex /\ dex \subseteq Pools /\ RatedOf(s) \subseteq Cex BY DEF RatedOf
  <2>2. IsFiniteSet(cex) /\ IsFiniteSet(dex) /\ IsFiniteSet(RatedOf(s))
    BY <2>1, ReconciliationAssumption, FS_Subset, Zenon
  <2>3. IsFiniteSet(nets)
    <3> HIDE DEF dex
    <3> DEFINE f == [p \in dex |-> Chain[p]]
    <3>1. f \in Surjection(dex, nets) BY DEF Surjection
    <3> QED BY <2>2, <3>1, FS_Surjection, Zenon
  <2> QED BY <2>2, <2>3
<1>2. /\ cex = {v \in Cex \ offline : <<v, s>> \in Market}
      /\ dex = {v \in Pools \ offline : <<v, s>> \in Market}
  BY DEF OnlineOf, Venues
<1>3. CASE d = "cex_cex"
  <2>1. PICK v \in cex, w \in cex : v # w BY <1>2, <1>3 DEF Sees
  <2>2. Cardinality(cex) >= 2 BY <1>1, <2>1, TwoMembers, Zenon
  <2> QED BY <1>3, <2>2 DEF Eligible, Detectors
<1>4. CASE d = "cex_dex"
  <2>1. cex # {} /\ dex # {} BY <1>2, <1>4 DEF Sees
  <2>2. Cardinality(cex) >= 1 /\ Cardinality(dex) >= 1 BY <1>1, <2>1, TwoMembers, Zenon
  <2> QED BY <1>4, <2>2 DEF Eligible, Detectors
<1>5. CASE d = "dex_dex"
  <2>1. PICK v \in dex, w \in dex : v # w BY <1>2, <1>5 DEF Sees
  <2>2. Cardinality(dex) >= 2 BY <1>1, <2>1, TwoMembers, Zenon
  <2> QED BY <1>5, <2>2 DEF Eligible, Detectors
<1>6. CASE d = "cross_chain"
  <2>1. PICK v \in dex, w \in dex : Chain[v] # Chain[w] BY <1>2, <1>6 DEF Sees
  <2>2. Cardinality(nets) >= 2
    <3>1. Chain[v] \in nets /\ Chain[w] \in nets BY <2>1
    <3> QED BY <1>1, <2>1, <3>1, TwoMembers, Zenon
  <2> QED BY <1>6, <2>2 DEF Eligible, Detectors
<1>7. CASE d = "funding"
  <2>1. \E v, w \in Cex \ offline : v # w /\ {<<v, s>>, <<w, s>>} \subseteq Carried
    BY <1>7 DEF Sees
  <2>2. PICK v \in RatedOf(s), w \in RatedOf(s) : v # w BY <2>1, Zenon DEF RatedOf
  <2>3. Cardinality(RatedOf(s)) >= 2 BY <1>1, <2>2, TwoMembers, Zenon
  <2> QED BY <1>7, <2>3 DEF Eligible, Detectors
<1> QED BY <1>3, <1>4, <1>5, <1>6, <1>7 DEF Detectors

(* A venue that returns takes no leg away. *)
LEMMA SeesMore ==
    ASSUME NEW s, NEW d \in Detectors, NEW down, NEW less \in SUBSET down, Sees(s, d, down)
    PROVE  Sees(s, d, less)
BY DEF Sees, Detectors

(* A cadence is at most the longest one, which is none of no intervals. *)
LEMMA Cadences ==
    ASSUME NEW d \in Detectors
    PROVE  Base[d] \in Nat /\ Forever(d) \in Nat /\ Cadence(d) \in Nat /\ Cadence(d) <= Forever(d)
<1>1. Base[d] \in Nat /\ Backoff \in Nat \ {0} BY ReconciliationAssumption
<1>2. \A a \in Nat, b \in Nat \ {0} : a * b \in Nat /\ a <= a * b OBVIOUS
<1>3. Base[d] * Backoff \in Nat /\ Base[d] <= Base[d] * Backoff BY <1>1, <1>2
<1> QED BY <1>1, <1>3 DEF Forever, Cadence

(* What the step lemmas know of the watched symbol and detector. *)
LEMMA Watched ==
    ASSUME NetTypeOK
    PROVE  /\ Follows \in Detectors /\ watch[1] \in Symbols
           /\ Now.timed => watch[1] \in Now.pairs
           /\ Forever(Follows) \in Nat /\ Cadence(Follows) <= Forever(Follows)
           /\ Bound \in Nat /\ Bound >= 1 /\ Bound >= Forever(Follows)
           /\ Bound > 1 => Bound = Forever(Follows)
           /\ since[Follows] \in Nat
<1>1. watch \in Symbols \X Detectors /\ (Now.timed => watch[1] \in Now.pairs)
  BY ReconciliationAssumption DEF NetTypeOK, Now
<1>2. Follows \in Detectors /\ watch[1] \in Symbols BY <1>1 DEF Follows
<1>3. Forever(Follows) \in Nat /\ Cadence(Follows) <= Forever(Follows) BY <1>2, Cadences
<1> QED BY <1>1, <1>2, <1>3 DEF Bound, NetTypeOK

LEMMA NetInitially == NetInit => NetIInv
<1> SUFFICES ASSUME NetInit PROVE NetIInv OBVIOUS
<1>1. /\ world \in DOMAIN Worlds /\ watch \in Now.watched
      /\ net = [pc |-> "sleep", rest |-> 0, left |-> {}, due |-> {}, took |-> 0]
      /\ since = [d \in Detectors |-> Forever(d)] /\ idle = [d \in Detectors |-> 0]
      /\ lag = 0 /\ lost = 0
  BY DEF NetInit, Asleep
<1>2. NetTypeOK
  <2>1. since \in [Detectors -> Nat] BY <1>1, Cadences
  <2> QED BY <1>1, <2>1 DEF NetTypeOK
<1>3. Follows \in Detectors /\ Bound \in Nat BY <1>2, Watched
<1>4. since[Follows] = Forever(Follows) /\ Forever(Follows) \in Nat BY <1>1, <1>2, <1>3, Watched
<1>5. Waited BY <1>1, <1>3, <1>4 DEF Waited
<1> QED BY <1>2, <1>5 DEF NetIInv

(* Whatever leaves loop and cadences alone keeps the invariant if it leaves *)
(* `lag` too, ends the waiting, or has something new wait that can be seen. *)
LEMMA OutsideKeeps ==
    ASSUME NetIInv, UNCHANGED <<world, net, since, watch>>, idle' \in [Detectors -> Nat],
           \/ lag' = lag /\ lost' = lost /\ (lag > 0 => Sees(watch[1], Follows, offline)')
           \/ lag' = 0 /\ lost' = 0
           \/ lag = 0 /\ lag' = 1 /\ lost' = lost /\ Sees(watch[1], Follows, offline)'
    PROVE  NetIInv'
<1>1. NetTypeOK /\ Waited BY DEF NetIInv
<1>2. UNCHANGED <<Now, Follows, Bound, Forever(Follows)>> BY DEF Now, Follows, Bound, Forever
<1>3. /\ Forever(Follows) \in Nat /\ Bound \in Nat /\ Bound >= 1 /\ since[Follows] \in Nat
      /\ lag \in Nat /\ lost \in Nat /\ net.took \in 0..1 /\ net.rest \in 0..1
  BY <1>1, Watched DEF NetTypeOK
<1>4. NetTypeOK' BY <1>1, <1>2 DEF NetTypeOK
<1>5. Waited'
  <2>1. CASE lag' = lag /\ lost' = lost /\ (lag > 0 => Sees(watch[1], Follows, offline)')
    BY <1>1, <1>2, <2>1 DEF Waited
  <2>2. CASE lag' = 0 /\ lost' = 0
    BY <1>1, <1>2, <1>3, <2>2 DEF Waited
  <2>3. CASE lag = 0 /\ lag' = 1 /\ lost' = lost /\ Sees(watch[1], Follows, offline)'
    BY <1>1, <1>2, <1>3, <2>3 DEF Waited
  <2> QED BY <2>1, <2>2, <2>3
<1> QED BY <1>4, <1>5 DEF NetIInv

LEMMA EventsKeep ==
    ASSUME NetIInv,
           \/ \E v \in Venues, s \in Symbols, g \in Groups : Arrives(v, s, g)
           \/ WorkerDetects \/ WorkerGoesOn \/ Reranked \/ Publish \/ UNCHANGED allVars
    PROVE  NetIInv'
<1>1. /\ NetTypeOK /\ (lag > 0 => Sees(watch[1], watch[2], offline)) /\ lag \in Nat
      /\ idle \in [Detectors -> Nat] /\ watch[2] \in Detectors /\ (lag = 0 => lost = 0)
  BY Watched DEF NetIInv, Waited, NetTypeOK, Follows
<1>2. ASSUME NEW v \in Venues, NEW s \in Symbols, NEW g \in Groups, Arrives(v, s, g)
      PROVE  NetIInv'
  <2>1. UNCHANGED <<world, offline, net, since, idle, watch, lost>> BY <1>2 DEF Arrives
  <2>2. lag' = lag \/ (lag = 0 /\ lag' = 1 /\ Sees(watch[1], watch[2], offline'))
    BY <1>2 DEF Arrives, Changed
  <2> QED BY <1>1, <2>1, <2>2, OutsideKeeps DEF Follows
<1>3. CASE WorkerDetects
  <2>1. UNCHANGED <<world, offline, net, since, idle, watch>> BY <1>3 DEF WorkerDetects
  <2>2. (lag' = lag /\ (lag' = 0 \/ lost' = lost)) \/ lag' = 0
    BY <1>3 DEF WorkerDetects, Ran, Forget
  <2>3. (lag' = lag /\ lost' = lost) \/ (lag' = 0 /\ lost' = 0)
    BY <1>1, <1>3, <2>2 DEF WorkerDetects, Forget
  <2> QED BY <1>1, <2>1, <2>3, OutsideKeeps DEF Follows
<1>4. CASE WorkerGoesOn \/ Reranked \/ UNCHANGED allVars
  <2>1. UNCHANGED netVars BY <1>4 DEF WorkerGoesOn, Reranked, allVars
  <2> QED BY <1>1, <2>1, OutsideKeeps DEF netVars, Follows
<1>5. CASE Publish
  <2>1. /\ UNCHANGED <<world, offline, net, since, watch, lag, lost>>
        /\ idle' = [idle EXCEPT ![watch[2]] = 0]
    BY <1>5 DEF Publish
  <2>2. idle' \in [Detectors -> Nat] BY <1>1, <2>1
  <2> QED BY <1>1, <2>1, <2>2, OutsideKeeps DEF Follows
<1> QED BY <1>2, <1>3, <1>4, <1>5

LEMMA VenuesKeep ==
    ASSUME NetIInv, NEW v \in Venues, GoesOffline(v) \/ Returns(v)
    PROVE  NetIInv'
<1>1. /\ NetTypeOK /\ (lag > 0 => Sees(watch[1], watch[2], offline)) /\ lag \in Nat
      /\ idle \in [Detectors -> Nat] /\ watch[2] \in Detectors /\ (lag = 0 => lost = 0)
  BY Watched DEF NetIInv, Waited, NetTypeOK, Follows
<1>2. CASE GoesOffline(v)
  <2>1. UNCHANGED <<world, net, since, idle, watch>> BY <1>2 DEF GoesOffline
  <2>2. (lag' = lag /\ Sees(watch[1], watch[2], offline')) \/ lag' = 0
    BY <1>2 DEF GoesOffline
  <2>3. lost' = IF lag' = 0 THEN 0 ELSE lost BY <1>2 DEF GoesOffline, Forget
  <2> QED BY <1>1, <2>1, <2>2, <2>3, OutsideKeeps DEF Follows
<1>3. CASE Returns(v)
  <2>1. /\ UNCHANGED <<world, net, since, idle, watch, lost>> /\ offline' \in SUBSET offline
    BY <1>3 DEF Returns
  <2>2. lag' = lag \/ (lag = 0 /\ lag' = 1 /\ Sees(watch[1], watch[2], offline'))
    BY <1>3 DEF Returns, Changed
  <2>3. lag > 0 => Sees(watch[1], watch[2], offline') BY <1>1, <2>1, SeesMore
  <2> QED BY <1>1, <2>1, <2>2, <2>3, OutsideKeeps DEF Follows
<1> QED BY <1>2, <1>3

(* A pass starts: a detector that has reached its longest cadence is in it. *)
LEMMA PassStartsKeeps ==
    ASSUME NetIInv, PassStarts
    PROVE  NetIInv'
<1>1. NetTypeOK /\ Waited BY DEF NetIInv
<1>2. /\ Now.timed /\ net.pc = "sleep" /\ net.rest = 0
      /\ net' = [pc |-> "scan", rest |-> 0, left |-> IF Due = {} THEN {} ELSE Now.pairs,
                 due |-> Due, took |-> 0]
      /\ UNCHANGED <<world, offline, since, idle, watch, lag, lost>>
  BY DEF PassStarts
<1>3. UNCHANGED <<Now, Follows, Bound, Forever(Follows)>> BY <1>2 DEF Now, Follows, Bound, Forever
<1>4. /\ Follows \in Detectors /\ watch[1] \in Now.pairs /\ Forever(Follows) \in Nat
      /\ Cadence(Follows) <= Forever(Follows) /\ Cadence(Follows) \in Nat
      /\ Bound \in Nat /\ Bound >= Forever(Follows)
      /\ since[Follows] \in Nat /\ lag \in Nat /\ lost \in Nat
  BY <1>1, <1>2, Watched, Cadences DEF NetTypeOK
<1>5. NetTypeOK' BY <1>1, <1>2, <1>3 DEF NetTypeOK
<1>6. Follows \in net'.due => watch[1] \in net'.left BY <1>2, <1>4
<1>7. Follows \notin net'.due => since[Follows] < Forever(Follows)
  BY <1>2, <1>4 DEF Due
<1>8. Waited'
  <2>1. /\ lag <= Bound + 2 + lost /\ (lag = 0 => lost = 0)
        /\ (lag > 0 => Sees(watch[1], Follows, offline))
        /\ (since[Follows] < Forever(Follows) => lag <= since[Follows] + 1)
    BY <1>1, <1>2, <1>4 DEF Waited
  <2>2. net'.pc = "scan" /\ net'.took = 0 /\ Now'.timed BY <1>2, <1>3
  <2>3. /\ Follows \notin net'.due => Forever(Follows) >= 1 /\ lag <= Forever(Follows) + net'.took
    BY <1>4, <1>7, <2>1, <2>2
  <2> QED BY <1>2, <1>3, <1>4, <1>6, <2>1, <2>2, <2>3 DEF Waited
<1> QED BY <1>5, <1>8 DEF NetIInv

(* The watched pair, scanned with the watched detector, has seen it all.    *)
LEMMA ScanPairKeeps ==
    ASSUME NetIInv, NEW s \in Symbols, ScanPair(s)
    PROVE  NetIInv'
<1>1. NetTypeOK /\ Waited BY DEF NetIInv
<1>2. /\ net.pc = "scan" /\ s \in net.left
      /\ net' = [net EXCEPT !.left = @ \ {s}]
      /\ lag' = Ran(s, net.due \cap Eligible(s))
      /\ lost' = IF lag' = 0 THEN 0 ELSE lost
      /\ UNCHANGED <<world, offline, since, idle, watch>>
  BY DEF ScanPair, Forget
<1>3. UNCHANGED <<Now, Follows, Bound, Forever(Follows)>> BY <1>2 DEF Now, Follows, Bound, Forever
<1>4. /\ Follows \in Detectors /\ Forever(Follows) \in Nat /\ Bound \in Nat
      /\ since[Follows] \in Nat /\ lag \in Nat /\ lost \in Nat /\ net.took \in 0..1
  BY <1>1, Watched DEF NetTypeOK
<1>5. lag' = 0 \/ (lag' = lag /\ lost' = lost) BY <1>1, <1>2 DEF Ran, Waited
<1>6. ASSUME s = watch[1], Follows \in net.due PROVE lag' = 0
  <2>1. CASE lag = 0 BY <1>5, <2>1
  <2>2. CASE lag > 0
    <3>1. Follows \in Eligible(s) BY <1>1, <1>4, <1>6, <2>2, SeesIsEligible DEF Waited
    <3> QED BY <1>2, <1>6, <3>1 DEF Ran, Follows
  <2> QED BY <1>4, <2>1, <2>2
<1>7. /\ net'.pc = "scan" /\ net'.due = net.due /\ net'.took = net.took
      /\ net'.rest = net.rest /\ DOMAIN net' = DOMAIN net
  BY <1>2
<1>8. net'.left = net.left \ {s} BY <1>1, <1>2 DEF NetTypeOK
<1>9. NetTypeOK' BY <1>1, <1>2, <1>3, <1>4, <1>5, <1>7 DEF NetTypeOK
<1>10. Waited'
  <2>1. CASE lag' = 0 BY <1>1, <1>2, <1>3, <1>4, <1>7, <2>1 DEF Waited
  <2>2. CASE lag' = lag /\ lost' = lost /\ lag' # 0
    <3>1. Follows \in net'.due /\ watch[1] \notin net'.left
             => Follows \in net.due /\ watch[1] \notin net.left
      BY <1>6, <1>7, <1>8, <2>2
    <3> QED BY <1>1, <1>2, <1>3, <1>4, <1>7, <2>2, <3>1 DEF Waited
  <2> QED BY <1>5, <2>1, <2>2
<1> QED BY <1>9, <1>10 DEF NetIInv

(* A pass ends: what it ran has seen all but what changed meanwhile.        *)
LEMMA PassEndsKeeps ==
    ASSUME NetIInv, PassEnds
    PROVE  NetIInv'
<1>1. NetTypeOK /\ Waited BY DEF NetIInv
<1>2. /\ net.pc = "scan" /\ net.left = {}
      /\ since' = [d \in Detectors |-> IF d \in net.due THEN net.took ELSE since[d]]
      /\ net' = [pc |-> "sleep", rest |-> 1, left |-> {}, due |-> {}, took |-> 0]
      /\ UNCHANGED <<world, offline, idle, watch, lag, lost>>
  BY DEF PassEnds, Asleep
<1>3. UNCHANGED <<Now, Follows, Bound, Forever(Follows)>> BY <1>2 DEF Now, Follows, Bound, Forever
<1>4. /\ Follows \in Detectors /\ Forever(Follows) \in Nat /\ Bound \in Nat /\ Bound >= 1
      /\ Bound >= Forever(Follows)
      /\ since[Follows] \in Nat /\ lag \in Nat /\ lost \in Nat /\ net.took \in 0..1
  BY <1>1, Watched DEF NetTypeOK
<1>5. NetTypeOK' BY <1>1, <1>2, <1>3, <1>4 DEF NetTypeOK
<1>6. since'[Follows] = IF Follows \in net.due THEN net.took ELSE since[Follows]
  BY <1>2, <1>4
<1>7. /\ lag = 0 => lost = 0
      /\ lag > 0 => Sees(watch[1], Follows, offline)
      /\ Now.timed
  BY <1>1, <1>2 DEF Waited
<1>8. /\ since'[Follows] < Forever(Follows) => lag <= since'[Follows] + 1
      /\ lag <= Bound + 1
  <2>1. CASE Follows \in net.due
    <3>1. lag <= net.took + 1 BY <1>1, <1>2, <2>1 DEF Waited
    <3> QED BY <1>4, <1>6, <2>1, <3>1
  <2>2. CASE Follows \notin net.due
    <3>1. lag <= Forever(Follows) + net.took BY <1>1, <1>2, <2>2 DEF Waited
    <3>2. since[Follows] < Forever(Follows) => lag <= since[Follows] + 1 BY <1>1 DEF Waited
    <3> QED BY <1>4, <1>6, <2>2, <3>1, <3>2
  <2> QED BY <2>1, <2>2
<1>9. Waited'
  <2>1. net'.pc = "sleep" /\ net'.took = 0 /\ net'.rest = 1 BY <1>2
  <2>2. lag + 1 <= Bound + 2 + lost BY <1>4, <1>8
  <2> QED BY <1>2, <1>3, <1>7, <1>8, <2>1, <2>2 DEF Waited
<1> QED BY <1>5, <1>9 DEF NetIInv

(* A pass is dropped: what goes by in it, and until the next, is lost.      *)
LEMMA PassFailsKeeps ==
    ASSUME NetIInv, PassFails
    PROVE  NetIInv'
<1>1. NetTypeOK /\ Waited BY DEF NetIInv
<1>2. /\ net.pc = "scan"
      /\ net' = [pc |-> "sleep", rest |-> 1, left |-> {}, due |-> {}, took |-> 0]
      /\ lost' = IF lag = 0 THEN 0 ELSE lost + net.took + 1
      /\ UNCHANGED <<world, offline, since, idle, watch, lag>>
  BY DEF PassFails, Asleep
<1>3. UNCHANGED <<Now, Follows, Bound, Forever(Follows)>> BY <1>2 DEF Now, Follows, Bound, Forever
<1>4. /\ Bound \in Nat /\ lag \in Nat /\ lost \in Nat /\ net.took \in 0..1
  BY <1>1, Watched DEF NetTypeOK
<1>5. NetTypeOK' BY <1>1, <1>2, <1>3, <1>4 DEF NetTypeOK
<1>6. Waited'
  <2>1. net'.pc = "sleep" /\ net'.took = 0 /\ net'.rest = 1 BY <1>2
  <2>2. lag <= Bound + 2 + net.took + lost /\ Now.timed BY <1>1, <1>2 DEF Waited
  <2>3. lag + 1 <= Bound + 2 + lost' BY <1>2, <1>4, <2>2
  <2>4. /\ lag = 0 => lost' = 0
        /\ lag > 0 => Sees(watch[1], Follows, offline)
        /\ since[Follows] < Forever(Follows) => lag <= since[Follows] + 1
    BY <1>1, <1>2 DEF Waited
  <2> QED BY <1>2, <1>3, <2>1, <2>2, <2>3, <2>4 DEF Waited
<1> QED BY <1>5, <1>6 DEF NetIInv

(* An interval passes, in the loop's sleep or in its pass.                  *)
LEMMA TickKeeps ==
    ASSUME NetIInv, Tick
    PROVE  NetIInv'
<1>1. NetTypeOK /\ Waited BY DEF NetIInv
<1>2. /\ Now.timed
      /\ \/ net.pc = "sleep" /\ net.rest > 0 /\ net' = [net EXCEPT !.rest = @ - 1]
         \/ net.pc = "scan" /\ net.took < 1 /\ net' = [net EXCEPT !.took = @ + 1]
      /\ since' = [d \in Detectors |-> Least(since[d] + 1, Forever(d))]
      /\ idle' = [d \in Detectors |-> Least(idle[d] + 1, IdleAfter)]
      /\ lag' = IF lag = 0 THEN 0 ELSE lag + 1
      /\ UNCHANGED <<world, offline, watch, lost>>
  BY DEF Tick
<1>3. UNCHANGED <<Now, Follows, Bound, Forever(Follows)>> BY <1>2 DEF Now, Follows, Bound, Forever
<1>4. /\ Follows \in Detectors /\ Forever(Follows) \in Nat /\ Bound \in Nat
      /\ Bound >= 1 /\ Bound >= Forever(Follows)
      /\ since[Follows] \in Nat /\ lag \in Nat /\ lost \in Nat
      /\ net.took \in 0..1 /\ net.rest \in 0..1
      /\ DOMAIN net = {"pc", "rest", "left", "due", "took"}
  BY <1>1, Watched DEF NetTypeOK
<1>5. /\ net'.pc = net.pc /\ net'.left = net.left /\ net'.due = net.due
      /\ DOMAIN net' = DOMAIN net
      /\ net.pc = "sleep" => net.rest = 1 /\ net'.rest = 0 /\ net'.took = net.took
      /\ net.pc = "scan" => net.took = 0 /\ net'.took = 1 /\ net'.rest = net.rest
  BY <1>2, <1>4
<1>6. NetTypeOK'
  <2>1. since' \in [Detectors -> Nat]
    BY <1>1, <1>2, Cadences DEF NetTypeOK, Least
  <2>2. idle' \in [Detectors -> Nat]
    BY <1>1, <1>2, ReconciliationAssumption DEF NetTypeOK, Least
  <2> QED BY <1>1, <1>2, <1>3, <1>4, <1>5, <2>1, <2>2 DEF NetTypeOK
<1>7. since'[Follows] = IF since[Follows] + 1 < Forever(Follows) THEN since[Follows] + 1
                        ELSE Forever(Follows)
  BY <1>2, <1>4 DEF Least
<1>8. /\ lag' = 0 => lost' = 0
      /\ lag' > 0 => Sees(watch[1], Follows, offline)
      /\ since'[Follows] < Forever(Follows) => lag' <= since'[Follows] + 1
  BY <1>1, <1>2, <1>4, <1>7 DEF Waited
<1>9. CASE net.pc = "sleep"
  <2>1. net'.took = 0 /\ lag' + net'.rest <= Bound + 2 + lost
    BY <1>1, <1>2, <1>4, <1>5, <1>9 DEF Waited
  <2>2. Waited' BY <1>2, <1>3, <1>5, <1>8, <1>9, <2>1 DEF Waited
  <2> QED BY <1>6, <2>2 DEF NetIInv
<1>10. CASE net.pc = "scan"
  <2>1. net'.took = 1 /\ net.took = 0 BY <1>5, <1>10
  <2>2. /\ since'[Follows] >= Forever(Follows) \/ since'[Follows] >= 1
        /\ lag' <= Bound + 2 + net'.took + lost
        /\ Follows \notin net.due => Forever(Follows) >= 1 /\ lag' <= Forever(Follows) + net'.took
        /\ Follows \in net.due /\ watch[1] \notin net.left => lag' <= net'.took + 1
    BY <1>1, <1>2, <1>4, <1>7, <1>10, <2>1 DEF Waited
  <2>3. Waited' BY <1>2, <1>3, <1>5, <1>8, <1>10, <2>1, <2>2 DEF Waited
  <2> QED BY <1>6, <2>3 DEF NetIInv
<1> QED BY <1>1, <1>9, <1>10 DEF NetTypeOK

LEMMA NetInductive == NetIInv /\ [NetNext]_allVars => NetIInv'
<1> SUFFICES ASSUME NetIInv, [NetNext]_allVars PROVE NetIInv' OBVIOUS
<1>1. CASE \/ \E v \in Venues, s \in Symbols, g \in Groups : Arrives(v, s, g)
           \/ WorkerDetects \/ WorkerGoesOn \/ Reranked \/ Publish \/ UNCHANGED allVars
  BY <1>1, EventsKeep
<1>2. CASE \E v \in Venues : GoesOffline(v) \/ Returns(v) BY <1>2, VenuesKeep
<1>3. CASE PassStarts BY <1>3, PassStartsKeeps
<1>4. CASE PassEnds BY <1>4, PassEndsKeeps
<1>5. CASE PassFails BY <1>5, PassFailsKeeps
<1>6. CASE Tick BY <1>6, TickKeeps
<1>7. CASE \E s \in Symbols : ScanPair(s) BY <1>7, ScanPairKeeps
<1> QED BY <1>1, <1>2, <1>3, <1>4, <1>5, <1>6, <1>7 DEF NetNext

(* The net catches what the event path misses, in time: what a detector     *)
(* could find waits one backed-off cadence, up to the next pass and for the *)
(* length of one, whatever venues come and go and however many events there *)
(* are, not counting what goes by in passes that an exception ended.        *)
THEOREM NetIsInTime == NetSpec => []SeenInTime
<1>1. NetIInv => SeenInTime
  <2> SUFFICES ASSUME NetIInv PROVE SeenInTime OBVIOUS
  <2>1. NetTypeOK /\ Waited BY DEF NetIInv
  <2>2. /\ Bound \in Nat /\ lag \in Nat /\ lost \in Nat /\ net.took \in 0..1 /\ net.rest \in 0..1
        /\ net.pc \in {"sleep", "scan"}
    BY <2>1, Watched DEF NetTypeOK
  <2>3. lag <= Bound + 3 + lost BY <2>1, <2>2 DEF Waited
  <2> QED BY <2>3 DEF SeenInTime, Bound, Follows
<1> QED BY <1>1, NetInitially, NetInductive, PTL DEF NetSpec

-----------------------------------------------------------------------------
(* The queue under the pass. *)

(* A pass only ever makes a symbol less stale; its other steps leave the    *)
(* queue alone, and those of the event path are the queue's own.            *)
LEMMA QueueKeeps == IInv /\ [NetNext]_allVars => IInv'
<1> SUFFICES ASSUME IInv, [NetNext]_allVars PROVE IInv' OBVIOUS
<1>1. CASE UNCHANGED vars BY <1>1, Inductive
<1>2. ASSUME NEW v \in Venues, NEW s \in Symbols, NEW g \in Groups, Arrives(v, s, g)
      PROVE  IInv'
  BY <1>2, WriteKeeps DEF Arrives
<1>3. CASE WorkerDetects BY <1>3, DetectKeeps DEF WorkerDetects
<1>4. CASE WorkerGoesOn \/ Reranked
  <2>1. Next BY <1>4 DEF WorkerGoesOn, Reranked, Next, Work
  <2> QED BY <2>1, Inductive
<1>5. ASSUME NEW s \in Symbols, ScanPair(s)
      PROVE  IInv'
  <2>1. /\ stale' = [stale EXCEPT ![s] = @ \ (net.due \cap Eligible(s))]
        /\ UNCHANGED <<tier, queue, pending, groups, starts, event, worker, passed>>
    BY <1>5 DEF ScanPair
  <2>2. /\ TypeOK /\ OneSlotPerSymbol /\ Noted /\ Cursor BY DEF IInv
  <2>3. stale \in [Symbols -> SUBSET Detectors] BY <2>2 DEF TypeOK
  <2>4. \A t \in Symbols : stale'[t] \subseteq stale[t] BY <2>1, <2>3
  <2>5. TypeOK'
    <3>1. stale' \in [Symbols -> SUBSET Detectors] BY <2>1, <2>3
    <3> QED BY <2>1, <2>2, <3>1 DEF TypeOK
  <2>6. OneSlotPerSymbol' /\ Cursor' BY <2>1, <2>2 DEF OneSlotPerSymbol, Queued, Cursor
  <2>7. Noted'
    <3> SUFFICES ASSUME NEW t \in Symbols
                 PROVE  /\ stale'[t] \subseteq Triggered(groups'[t])
                        /\ stale'[t] # {} => t \in pending' \/ (worker'.pc = "take" /\ worker'.symbol = t)
      BY DEF Noted, Triggered
    <3> QED BY <2>1, <2>2, <2>4 DEF Noted
  <2> QED BY <2>5, <2>6, <2>7 DEF IInv
<1>6. CASE \/ Publish \/ PassStarts \/ PassEnds \/ PassFails \/ Tick \/ UNCHANGED allVars
           \/ \E v \in Venues : GoesOffline(v) \/ Returns(v)
  <2>1. UNCHANGED vars
    BY <1>6 DEF Publish, PassStarts, PassEnds, PassFails, Tick, GoesOffline, Returns, allVars
  <2> QED BY <1>1, <2>1
<1> QED BY <1>2, <1>3, <1>4, <1>5, <1>6 DEF NetNext

(* Nothing that the queue promises is lost by the pass beside it: no write  *)
(* misses its detectors, and no ranked symbol is passed more often.         *)
THEOREM QueueStandsUnderPass ==
    NetSpec => [](NoChangeLost /\ BoundedBypass /\ OneSlotPerSymbol)
<1>1. IInv => NoChangeLost /\ BoundedBypass /\ OneSlotPerSymbol
  BY NotedIsEnough, CursorIsEnough DEF IInv
<1>2. NetInit => IInv BY Initially DEF NetInit
<1> QED BY <1>1, <1>2, QueueKeeps, PTL DEF NetSpec
=============================================================================
