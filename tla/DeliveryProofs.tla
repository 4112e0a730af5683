---------------------------- MODULE DeliveryProofs ----------------------------
(***************************************************************************)
(* Proofs about Delivery, for any signals, passes, renders and bounds.     *)
(*                                                                         *)
(* A slot is charged for what was received: a record that is still due is  *)
(* for cards that were received, and whatever was received is charged or   *)
(* has a metered record due (Due).  The last alert is announced: whoever   *)
(* logs the notice goes on to try it, and from the alert that spent the    *)
(* last slot until the attempt some pass is on its way there (Announcing). *)
(* It is tried once: until two passes meet at the marker, whoever wrote it *)
(* is alone and nobody else is still to write it (Once).                   *)
(*                                                                         *)
(* The overshoot is bounded: what is charged or promised to be delivered   *)
(* grows only while a slot is left, and then every handler in flight adds  *)
(* at most its share (Narrow).  Repeats are concurrent: before a cooldown  *)
(* is armed each alert has a pass that sent it and has still to arm, and   *)
(* afterwards only passes already past the filter can add one (Overlap).   *)
(***************************************************************************)
EXTENDS Delivery, FiniteSetTheorems, SequenceTheorems, WellFoundedInduction, TLAPS

Notices == [logged : BOOLEAN, raced : BOOLEAN, tried : Nat, received : BOOLEAN]
Jobs == [pc : Pcs, tier : {"free", "pro"}, cards : SUBSET Signals]

Due ==
    /\ ledger \subseteq got
    /\ \A a \in Actors : At(a, "record") /\ Metered(a) => job[a].cards \subseteq got
    /\ failures = 0 =>
         \A s \in got : s \in ledger \/ \E a \in Actors :
             At(a, "record") /\ Metered(a) /\ s \in job[a].cards

(* The pass is on its way to the notice. *)
Heading(w) ==
    At(w, "logged") \/ At(w, "log") \/ At(w, "notify") \/ (At(w, "allowance") /\ Metered(w))

Announcing ==
    /\ filledBy # "none" => Cardinality(ledger) >= Quota
    /\ failures = 0 =>
         /\ notice.logged => notice.tried > 0 \/ \E w \in Passes : At(w, "notify")
         /\ filledBy = "alert" => notice.tried > 0 \/ \E w \in Passes : Heading(w)

IInv == TypeOK /\ Due /\ Announcing

-----------------------------------------------------------------------------

LEMMA Numbers ==
    /\ Quota \in Nat /\ Quota >= 1 /\ MaxPending \in Nat /\ MaxPending >= 1
    /\ MaxPublished \in Nat /\ MaxFailures \in Nat
BY BoundsAssumption

LEMMA LedgerIsFinite ==
    ASSUME NEW S \in SUBSET Signals, NEW T \in SUBSET S
    PROVE  /\ Cardinality(S) \in Nat /\ Cardinality(T) \in Nat
           /\ Cardinality(T) <= Cardinality(S)
<1>1. IsFiniteSet(S) BY ActorsAssumption, FS_Subset
<1>2. IsFiniteSet(T) BY <1>1, FS_Subset
<1> QED BY <1>1, <1>2, FS_Subset, FS_CardinalityType

LEMMA Initially == Init => IInv
<1> SUFFICES ASSUME Init PROVE IInv OBVIOUS
<1>1. TypeOK
  <2>1. <<>> \in Seq(Signals) /\ Len(<<>>) = 0 BY EmptySeq
  <2>2. queue \in Seq(Signals) /\ Len(queue) <= MaxPending BY <2>1, Numbers DEF Init
  <2>3. job \in [Actors -> Jobs] BY DEF Init, Idle, Jobs, Pcs
  <2>4. notice \in Notices BY DEF Init, Notices
  <2>5. alerts \in [Signals -> Nat] BY DEF Init
  <2>6. published \in 0..MaxPublished /\ failures \in 0..MaxFailures BY Numbers DEF Init
  <2>7. /\ registry \subseteq Signals /\ ledger \subseteq Signals /\ cooling \subseteq Signals
        /\ got \subseteq Signals /\ tier \in {"free", "pro"} /\ filledBy \in {"none", "alert", "list"}
    BY DEF Init
  <2> QED BY <2>2, <2>3, <2>4, <2>5, <2>6, <2>7, Zenon DEF TypeOK, Jobs, Notices
<1>2. Due BY DEF Init, Due, At, Idle
<1>3. Announcing BY DEF Init, Announcing
<1> QED BY <1>1, <1>2, <1>3 DEF IInv

(* What an actor does to its own job leaves the invariant alone if it owes  *)
(* no record before or after and does not leave the way to the notice.      *)
LEMMA JobKeeps ==
    ASSUME IInv, NEW a \in Actors, NEW j \in Jobs, job' = [job EXCEPT ![a] = j],
           ~At(a, "record") \/ ~Metered(a) \/ failures' # 0, j.pc # "record" \/ j.tier # "free",
           failures' = 0 => ~Heading(a) \/ a \notin Passes,
           UNCHANGED <<tier, ledger, cooling, notice, got, alerts, filledBy, published>>,
           failures' \in 0..MaxFailures, failures = 0 \/ failures' # 0,
           registry' \subseteq Signals, queue' \in Seq(Signals), Len(queue') <= MaxPending
    PROVE  IInv'
<1>1. TypeOK /\ Due /\ Announcing BY DEF IInv
<1>2. job \in [Actors -> Jobs] BY <1>1 DEF TypeOK, Jobs
<1>3. job'[a] = j /\ \A b \in Actors \ {a} : job'[b] = job[b] BY <1>2
<1>4. TypeOK'
  <2>1. job' \in [Actors -> Jobs] BY <1>2
  <2> QED BY <1>1, <2>1 DEF TypeOK, Jobs
<1>5. Due'
  <2>1. \A b \in Actors : At(b, "record")' /\ Metered(b)' => job'[b].cards \subseteq got
    BY <1>1, <1>3 DEF Due, At, Metered
  <2>2. ASSUME failures' = 0, NEW s \in got, s \notin ledger
        PROVE  \E b \in Actors : job'[b].pc = "record" /\ job'[b].tier = "free" /\ s \in job'[b].cards
    <3>1. PICK b \in Actors : At(b, "record") /\ Metered(b) /\ s \in job[b].cards
      BY <1>1, <2>2 DEF Due
    <3>2. b # a BY <2>2, <3>1
    <3> QED BY <1>3, <3>1, <3>2 DEF At, Metered
  <2> QED BY <1>1, <2>1, <2>2 DEF Due, At, Metered
<1>6. Announcing'
  <2>1. ASSUME failures' = 0, NEW w \in Passes, Heading(w)
        PROVE  job'[w] = job[w]
    <3>1. w # a /\ w \in Actors BY <2>1 DEF Actors
    <3> QED BY <1>3, <3>1
  <2>2. ASSUME failures' = 0, NEW w \in Passes, At(w, "notify") PROVE job'[w] = job[w]
    BY <2>1, <2>2 DEF Heading
  <2>3. failures' = 0 => /\ notice.logged => notice.tried > 0 \/ \E w \in Passes : job'[w].pc = "notify"
                         /\ filledBy = "alert" => notice.tried > 0 \/ \E w \in Passes : Heading(w)'
    BY <1>1, <2>1, <2>2 DEF Announcing, Heading, At, Metered
  <2> QED BY <1>1, <2>3 DEF Announcing, At
<1> QED BY <1>4, <1>5, <1>6 DEF IInv

-----------------------------------------------------------------------------
(* The engine and the surroundings. *)

LEMMA EngineKeeps ==
    ASSUME IInv, (\E s \in Signals : Publish(s) \/ Archive(s) \/ Elapse(s)) \/ DropStale \/ Upgrade
    PROVE  IInv'
<1>1. TypeOK /\ Due /\ Announcing BY DEF IInv
<1>2. UNCHANGED <<job, ledger, notice, got, filledBy, failures>>
  BY DEF Publish, Archive, Elapse, DropStale, Upgrade, user, engine, ghosts
<1>3. Due' BY <1>1, <1>2 DEF Due, At, Metered
<1>4. Announcing' BY <1>1, <1>2 DEF Announcing, Heading, At, Metered
<1>5. queue \in Seq(Signals) /\ Len(queue) <= MaxPending /\ Len(queue) \in Nat
  BY <1>1, LenProperties DEF TypeOK
<1>6. queue # <<>> => Tail(queue) \in Seq(Signals) /\ Len(Tail(queue)) = Len(queue) - 1
  BY <1>5, HeadTailProperties
<1>7. ASSUME NEW s \in Signals, Publish(s) PROVE TypeOK'
  <2> DEFINE q == IF Len(queue) = MaxPending THEN Tail(queue) ELSE queue
  <2>1. Len(queue) = MaxPending => queue # <<>>
    <3>1. Len(<<>>) = 0 BY EmptySeq
    <3> QED BY <3>1, Numbers
  <2>2. q \in Seq(Signals) /\ Len(q) < MaxPending /\ Len(q) \in Nat BY <1>5, <1>6, <2>1, Numbers
  <2>3. queue' = Append(q, s) /\ registry' = registry \cup {s} /\ published' = published + 1
        /\ published < MaxPublished
    BY <1>7 DEF Publish
  <2> HIDE DEF q
  <2>4. queue' \in Seq(Signals) /\ Len(queue') = Len(q) + 1 BY <2>2, <2>3, AppendProperties
  <2>5. Len(queue') <= MaxPending BY <2>2, <2>4, Numbers
  <2>6. published' \in 0..MaxPublished BY <1>1, <2>3, Numbers DEF TypeOK
  <2> QED BY <1>1, <1>2, <1>7, <2>3, <2>4, <2>5, <2>6 DEF Publish, TypeOK, user
<1>8. ASSUME NEW s \in Signals, Archive(s) PROVE TypeOK'
  BY <1>1, <1>8 DEF Archive, TypeOK, user, ghosts
<1>9. ASSUME NEW s \in Signals, Elapse(s) PROVE TypeOK'
  BY <1>1, <1>9 DEF Elapse, TypeOK, engine
<1>10. CASE DropStale
  <2>1. queue' \in Seq(Signals) /\ Len(queue') <= MaxPending BY <1>5, <1>6, <1>10, Numbers DEF DropStale
  <2> QED BY <1>1, <1>10, <2>1, <1>3, <1>4 DEF DropStale, TypeOK, user, ghosts, IInv
<1>11. CASE Upgrade BY <1>1, <1>3, <1>4, <1>11 DEF Upgrade, TypeOK, engine, ghosts, IInv
<1> QED BY <1>3, <1>4, <1>7, <1>8, <1>9, <1>10, <1>11 DEF IInv

LEMMA DispatchKeeps ==
    ASSUME IInv, NEW w \in Passes, Dispatch(w)
    PROVE  IInv'
<1>1. w \in Actors /\ TypeOK BY DEF Actors, IInv
<1>2. queue \in Seq(Signals) /\ queue # <<>> /\ Len(queue) <= MaxPending /\ Len(queue) \in Nat
  BY <1>1, LenProperties DEF TypeOK, Dispatch
<1>3. /\ Head(queue) \in Signals /\ Tail(queue) \in Seq(Signals)
      /\ Len(Tail(queue)) <= MaxPending
  BY <1>2, HeadTailProperties, Numbers
<1> DEFINE j == [Idle EXCEPT !.pc = "load", !.cards = {Head(queue)}]
<1>4. /\ j \in Jobs /\ j.pc = "load" BY <1>3 DEF Idle, Jobs, Pcs
<1>5. job' = [job EXCEPT ![w] = j] /\ queue' = Tail(queue) /\ UNCHANGED <<registry, user, ghosts>>
  BY DEF Dispatch
<1>6. job[w].pc = "idle" BY DEF Dispatch, Free, At
<1> HIDE DEF j
<1>7. ~At(w, "record") /\ ~Heading(w) BY <1>6 DEF At, Heading
<1>8. registry \subseteq Signals /\ failures \in 0..MaxFailures BY <1>1 DEF TypeOK
<1> QED BY <1>1, <1>3, <1>4, <1>5, <1>7, <1>8, JobKeeps DEF user, ghosts

LEMMA OpenListKeeps ==
    ASSUME IInv, NEW v \in Views, OpenList(v)
    PROVE  IInv'
<1>1. v \in Actors /\ v \notin Passes /\ TypeOK BY ActorsAssumption DEF Actors, IInv
<1> DEFINE j == [pc |-> "budget", tier |-> tier, cards |-> registry]
<1>2. j \in Jobs /\ j.pc = "budget" BY <1>1 DEF TypeOK, Jobs, Pcs
<1>3. job' = [job EXCEPT ![v] = j] /\ UNCHANGED <<engine, user, ghosts>> BY DEF OpenList
<1>4. ~At(v, "record") BY DEF OpenList, Free, At
<1> HIDE DEF j
<1> QED BY <1>1, <1>2, <1>3, <1>4, JobKeeps DEF TypeOK, engine, user, ghosts

(* A failed handler: from now on nothing is promised for failures = 0. *)
LEMMA FailKeeps ==
    ASSUME IInv, NEW a \in Actors, Fail(a)
    PROVE  IInv'
<1>1. TypeOK BY DEF IInv
<1>2. /\ job' = [job EXCEPT ![a] = Idle] /\ failures' = failures + 1 /\ failures < MaxFailures
      /\ UNCHANGED <<engine, user, got, alerts, filledBy, published>>
  BY DEF Fail, Done
<1>3. failures' \in 0..MaxFailures /\ failures' # 0 BY <1>1, <1>2, Numbers DEF TypeOK
<1>4. Idle \in Jobs /\ Idle.pc = "idle" BY DEF Idle, Jobs, Pcs
<1> QED BY <1>1, <1>2, <1>3, <1>4, JobKeeps DEF TypeOK, engine, user

-----------------------------------------------------------------------------
(* Steps of a pass or a render that change its job only. *)

LEMMA JobStepKeeps ==
    ASSUME IInv, NEW a \in Actors, NEW j \in Jobs, job' = [job EXCEPT ![a] = j],
           ~At(a, "record"), j.pc # "record", ~Heading(a) \/ a \notin Passes,
           UNCHANGED <<engine, user, ghosts>>
    PROVE  IInv'
BY JobKeeps DEF engine, user, ghosts, IInv, TypeOK

LEMMA GotoIs ==
    ASSUME IInv, NEW a \in Actors, NEW pc \in Pcs, Goto(a, pc)
    PROVE  \E j \in Jobs : /\ job' = [job EXCEPT ![a] = j] /\ j.pc = pc
                          /\ j.tier = job[a].tier /\ j.cards = job[a].cards
<1>1. job \in [Actors -> Jobs] BY DEF IInv, TypeOK, Jobs
<1> DEFINE j == [job[a] EXCEPT !.pc = pc]
<1>2. job' = [job EXCEPT ![a] = j] BY DEF Goto
<1>3. j \in Jobs /\ j.pc = pc /\ j.tier = job[a].tier /\ j.cards = job[a].cards BY <1>1 DEF Jobs
<1> HIDE DEF j
<1> QED BY <1>2, <1>3

LEMMA IdleIs == Idle \in Jobs /\ Idle.pc = "idle"
BY DEF Idle, Jobs, Pcs

LEMMA EarlyKeeps ==
    ASSUME IInv, NEW w \in Passes, LoadCandidates(w) \/ PhaseOne(w) \/ Gate(w) \/ SendFails(w)
    PROVE  IInv'
<1>1. w \in Actors /\ job \in [Actors -> Jobs] /\ tier \in {"free", "pro"}
  BY DEF Actors, IInv, TypeOK, Jobs
<1>2. /\ ~At(w, "record") /\ ~Heading(w) /\ UNCHANGED <<engine, user, ghosts>>
  BY DEF LoadCandidates, PhaseOne, Gate, SendFails, At, Heading
<1>3. CASE Done(w) BY <1>1, <1>2, <1>3, IdleIs, JobStepKeeps DEF Done
<1>4. ASSUME NEW pc \in {"gate", "send"}, Goto(w, pc) PROVE IInv'
  <2>1. PICK j \in Jobs : job' = [job EXCEPT ![w] = j] /\ j.pc = pc
    BY <1>1, <1>4, GotoIs DEF Pcs
  <2> QED BY <1>1, <1>2, <1>4, <2>1, JobStepKeeps
<1>5. CASE LoadCandidates(w)
  <2> DEFINE j == [job[w] EXCEPT !.pc = "filter", !.tier = tier]
  <2>1. job' = [job EXCEPT ![w] = j] BY <1>1, <1>5 DEF LoadCandidates
  <2>2. j \in Jobs /\ j.pc = "filter" BY <1>1 DEF Jobs, Pcs
  <2> HIDE DEF j
  <2> QED BY <1>1, <1>2, <2>1, <2>2, JobStepKeeps
<1>6. CASE PhaseOne(w) BY <1>3, <1>4, <1>6 DEF PhaseOne
<1>7. CASE Gate(w) BY <1>3, <1>4, <1>7 DEF Gate
<1>8. CASE SendFails(w) BY <1>3, <1>8 DEF SendFails
<1> QED BY <1>5, <1>6, <1>7, <1>8

LEMMA ReadBudgetKeeps ==
    ASSUME IInv, NEW v \in Views, ReadBudget(v)
    PROVE  IInv'
<1>1. v \in Actors /\ v \notin Passes /\ job \in [Actors -> Jobs]
  BY ActorsAssumption DEF Actors, IInv, TypeOK, Jobs
<1>2. ~At(v, "record") /\ UNCHANGED <<engine, user, ghosts>> BY DEF ReadBudget, At
<1>3. CASE Done(v) BY <1>1, <1>2, <1>3, IdleIs, JobStepKeeps DEF Done
<1>4. ASSUME NEW page \in WithinAllowance(v),
             job' = [job EXCEPT ![v].pc = "render", ![v].cards = page]
      PROVE  IInv'
  <2> DEFINE j == [job[v] EXCEPT !.pc = "render", !.cards = page]
  <2>1. page \in SUBSET Signals
    <3>1. page \in SUBSET job[v].cards BY DEF WithinAllowance, Query
    <3> QED BY <1>1, <3>1 DEF Jobs
  <2>2. job' = [job EXCEPT ![v] = j] BY <1>1, <1>4
  <2>3. j \in Jobs /\ j.pc = "render" BY <1>1, <2>1 DEF Jobs, Pcs
  <2> HIDE DEF j
  <2> QED BY <1>1, <1>2, <2>2, <2>3, JobStepKeeps
<1> QED BY <1>3, <1>4 DEF ReadBudget

-----------------------------------------------------------------------------
(* Received, charged, announced. *)

(* What is received on a metered profile is due to be recorded. *)
LEMMA ReceiveKeeps ==
    ASSUME IInv, NEW a \in Actors, At(a, "send") \/ At(a, "render"), Goto(a, "record"),
           got' = (IF Metered(a) THEN got \cup job[a].cards ELSE got),
           alerts' \in [Signals -> Nat],
           UNCHANGED <<engine, user, filledBy, published, failures>>
    PROVE  IInv'
<1>1. TypeOK /\ Due /\ Announcing /\ job \in [Actors -> Jobs] BY DEF IInv, TypeOK, Jobs
<1>2. PICK j \in Jobs : /\ job' = [job EXCEPT ![a] = j] /\ j.pc = "record"
                        /\ j.tier = job[a].tier /\ j.cards = job[a].cards
  BY GotoIs DEF Pcs
<1>3. job'[a] = j /\ \A b \in Actors \ {a} : job'[b] = job[b] BY <1>1, <1>2
<1>4. got \subseteq got' /\ got' \subseteq Signals
  <2>1. job[a].cards \subseteq Signals BY <1>1 DEF Jobs
  <2> QED BY <1>1, <2>1 DEF TypeOK
<1>5. TypeOK'
  <2>1. job' \in [Actors -> Jobs] BY <1>1, <1>2
  <2> QED BY <1>1, <1>4, <2>1 DEF TypeOK, Jobs, engine, user
<1>6. Due'
  <2>1. ledger' = ledger /\ ledger \subseteq got' BY <1>1, <1>4 DEF Due, user
  <2>2. ASSUME NEW b \in Actors, job'[b].pc = "record", job'[b].tier = "free"
        PROVE  job'[b].cards \subseteq got'
    <3>1. CASE b = a BY <1>2, <1>3, <2>2, <3>1 DEF Metered
    <3>2. CASE b # a BY <1>1, <1>3, <1>4, <2>2, <3>2 DEF Due, At, Metered
    <3> QED BY <3>1, <3>2
  <2>3. ASSUME failures = 0, NEW s \in got', s \notin ledger
        PROVE  \E b \in Actors : job'[b].pc = "record" /\ job'[b].tier = "free" /\ s \in job'[b].cards
    <3>1. CASE s \in got
      <4>1. PICK b \in Actors : At(b, "record") /\ Metered(b) /\ s \in job[b].cards
        BY <1>1, <2>3, <3>1 DEF Due
      <4>2. b # a BY <4>1 DEF At
      <4> QED BY <1>3, <4>1, <4>2 DEF At, Metered
    <3>2. CASE s \notin got
      <4>1. Metered(a) /\ s \in job[a].cards BY <2>3, <3>2
      <4> QED BY <1>2, <1>3, <4>1 DEF Metered
    <3> QED BY <3>1, <3>2
  <2> QED BY <2>1, <2>2, <2>3 DEF Due, At, Metered
<1>7. Announcing'
  <2>1. ~Heading(a) BY DEF Heading, At
  <2>2. \A w \in Passes : Heading(w) => job'[w] = job[w] BY <1>3, <2>1 DEF Actors
  <2>3. failures = 0 => /\ notice.logged => notice.tried > 0 \/ \E w \in Passes : job'[w].pc = "notify"
                        /\ filledBy = "alert" => notice.tried > 0 \/ \E w \in Passes : Heading(w)'
    BY <1>1, <2>2 DEF Announcing, Heading, At, Metered
  <2> QED BY <1>1, <2>3 DEF Announcing, At, user
<1> QED BY <1>5, <1>6, <1>7 DEF IInv

LEMMA SendKeeps ==
    ASSUME IInv, NEW w \in Passes, Send(w)
    PROVE  IInv'
<1>1. w \in Actors /\ alerts \in [Signals -> Nat] BY DEF Actors, IInv, TypeOK
<1>2. alerts' = [alerts EXCEPT ![Signal(w)] = @ + 1] BY DEF Send
<1>3. alerts' \in [Signals -> Nat]
  <2>1. \A s \in Signals : alerts'[s] \in Nat BY <1>1, <1>2
  <2> QED BY <1>1, <1>2, <2>1
<1> QED BY <1>1, <1>3, ReceiveKeeps DEF Send

LEMMA RenderKeeps ==
    ASSUME IInv, NEW v \in Views, Render(v)
    PROVE  IInv'
<1>1. v \in Actors /\ alerts \in [Signals -> Nat] BY DEF Actors, IInv, TypeOK
<1> QED BY <1>1, ReceiveKeeps DEF Render

(* A record charges what was received.  The one that spends the last slot   *)
(* in a pass sends that pass on to the notice.                              *)
LEMMA RecordKeeps ==
    ASSUME IInv, NEW a \in Actors, Record(a)
    PROVE  IInv'
<1>1. TypeOK /\ Due /\ Announcing /\ job \in [Actors -> Jobs] BY DEF IInv, TypeOK, Jobs
<1>2. /\ At(a, "record")
      /\ ledger' = (IF Metered(a) THEN ledger \cup job[a].cards ELSE ledger)
      /\ filledBy' = (IF Cardinality(ledger) < Quota /\ Cardinality(ledger') >= Quota
                      THEN IF a \in Views THEN "list" ELSE "alert" ELSE filledBy)
      /\ UNCHANGED <<engine, tier, cooling, notice, got, alerts, published, failures>>
  BY DEF Record
<1>3. PICK j \in Jobs : /\ job' = [job EXCEPT ![a] = j] /\ j.pc \in {"idle", "allowance"}
                        /\ a \notin Views => j.pc = "allowance" /\ j.tier = job[a].tier
  <2>1. CASE a \in Views BY <2>1, IdleIs DEF Record, Done
  <2>2. CASE a \notin Views
    <3>1. Goto(a, "allowance") BY <2>2 DEF Record
    <3> QED BY <2>2, <3>1, GotoIs DEF Pcs
  <2> QED BY <2>1, <2>2
<1>4. job'[a] = j /\ \A b \in Actors \ {a} : job'[b] = job[b] BY <1>1, <1>3
<1>5. /\ ledger \subseteq ledger' /\ ledger' \subseteq got /\ ledger' \subseteq Signals
      /\ Metered(a) => job[a].cards \subseteq ledger'
  BY <1>1, <1>2 DEF Due, TypeOK
<1>6. TypeOK'
  <2>1. job' \in [Actors -> Jobs] BY <1>1, <1>3
  <2>2. filledBy' \in {"none", "alert", "list"} BY <1>1, <1>2 DEF TypeOK
  <2> QED BY <1>1, <1>2, <1>5, <2>1, <2>2 DEF TypeOK, Jobs, engine
<1>7. Due'
  <2>1. ASSUME NEW b \in Actors, job'[b].pc = "record", job'[b].tier = "free"
        PROVE  job'[b].cards \subseteq got
    <3>1. b # a BY <1>3, <1>4, <2>1
    <3> QED BY <1>1, <1>4, <2>1, <3>1 DEF Due, At, Metered
  <2>2. ASSUME failures = 0, NEW s \in got, s \notin ledger'
        PROVE  \E b \in Actors : job'[b].pc = "record" /\ job'[b].tier = "free" /\ s \in job'[b].cards
    <3>1. PICK b \in Actors : At(b, "record") /\ Metered(b) /\ s \in job[b].cards
      BY <1>1, <1>5, <2>2 DEF Due
    <3>2. b # a BY <1>5, <2>2, <3>1
    <3> QED BY <1>4, <3>1, <3>2 DEF At, Metered
  <2> QED BY <1>2, <1>5, <2>1, <2>2 DEF Due, At, Metered
<1>8. Announcing'
  <2>1. /\ Cardinality(ledger) \in Nat /\ Cardinality(ledger') \in Nat
        /\ Cardinality(ledger) <= Cardinality(ledger')
    BY <1>5, LedgerIsFinite
  <2>2. filledBy' # "none" => Cardinality(ledger') >= Quota
    BY <1>1, <1>2, <2>1, Numbers DEF Announcing
  <2>3. ~Heading(a) BY <1>2 DEF Heading, At
  <2>4. \A w \in Passes : Heading(w) => job'[w] = job[w] BY <1>4, <2>3 DEF Actors
  <2>5. failures = 0 /\ notice.logged => notice.tried > 0 \/ \E w \in Passes : job'[w].pc = "notify"
    BY <1>1, <2>4 DEF Announcing, Heading, At
  <2>6. ASSUME failures = 0, filledBy' = "alert"
        PROVE  notice.tried > 0 \/ \E w \in Passes : Heading(w)'
    <3>1. CASE filledBy = "alert" BY <1>1, <2>4, <2>6, <3>1 DEF Announcing, Heading, At, Metered
    <3>2. CASE filledBy # "alert"
      <4>1. Cardinality(ledger) < Quota /\ Cardinality(ledger') >= Quota /\ a \notin Views
        BY <1>2, <2>6, <3>2
      <4>2. Metered(a) BY <1>2, <2>1, <4>1, Numbers
      <4>3. a \in Passes /\ job'[a].pc = "allowance" /\ job'[a].tier = "free"
        BY <1>3, <1>4, <4>1, <4>2 DEF Actors, Metered
      <4> QED BY <4>3 DEF Heading, At, Metered
    <3> QED BY <3>1, <3>2
  <2> QED BY <1>2, <2>2, <2>5, <2>6 DEF Announcing, At
<1> QED BY <1>6, <1>7, <1>8 DEF IInv

(* Once the quota is spent, whoever is on the way to the notice sends it or *)
(* finds it logged by one who will.                                         *)
LEMMA NoticeKeeps ==
    ASSUME IInv, NEW w \in Passes,
           ReadAllowance(w) \/ HasLogged(w) \/ LogNotice(w) \/ SendNotice(w) \/ Arm(w)
    PROVE  IInv'
<1>1. /\ TypeOK /\ Due /\ Announcing /\ job \in [Actors -> Jobs] /\ w \in Actors
      /\ notice \in Notices
  BY DEF IInv, TypeOK, Jobs, Actors, Notices
<1>2. /\ ~At(w, "record")
      /\ UNCHANGED <<registry, queue, tier, ledger, got, alerts, filledBy, published, failures>>
  BY DEF ReadAllowance, HasLogged, LogNotice, SendNotice, Arm, engine, user, ghosts, At
<1>3. PICK j \in Jobs : job' = [job EXCEPT ![w] = j] /\ j.pc # "record"
                        /\ (Goto(w, "logged") => j.pc = "logged")
                        /\ (Goto(w, "log") => j.pc = "log")
                        /\ (Goto(w, "notify") => j.pc = "notify")
  <2>1. ASSUME NEW pc \in {"logged", "arm", "log", "notify"}, Goto(w, pc)
        PROVE  \E j \in Jobs : job' = [job EXCEPT ![w] = j] /\ j.pc = pc
    BY <1>1, <2>1, GotoIs DEF Pcs
  <2>2. ASSUME NEW pc, Goto(w, pc) PROVE job'[w].pc = pc BY <1>1, <2>2 DEF Goto, Jobs
  <2>3. ASSUME NEW j \in Jobs, job' = [job EXCEPT ![w] = j] PROVE job'[w] = j BY <1>1, <2>3
  <2>4. CASE Arm(w)
    <3>1. job' = [job EXCEPT ![w] = Idle] BY <2>4 DEF Arm, Done
    <3> QED BY <2>2, <2>3, <3>1, IdleIs
  <2>5. CASE ReadAllowance(w)
    <3>1. Goto(w, "logged") \/ Goto(w, "arm") BY <2>5 DEF ReadAllowance
    <3> QED BY <2>1, <2>2, <2>3, <3>1
  <2>6. CASE HasLogged(w)
    <3>1. Goto(w, "arm") \/ Goto(w, "log") BY <2>6 DEF HasLogged
    <3> QED BY <2>1, <2>2, <2>3, <3>1
  <2>7. CASE LogNotice(w) \/ SendNotice(w)
    <3>1. Goto(w, "notify") \/ Goto(w, "arm") BY <2>7 DEF LogNotice, SendNotice
    <3> QED BY <2>1, <2>2, <2>3, <3>1
  <2> QED BY <2>4, <2>5, <2>6, <2>7
<1>4. job'[w] = j /\ \A b \in Actors \ {w} : job'[b] = job[b] BY <1>1, <1>3
<1>5. TypeOK'
  <2>1. job' \in [Actors -> Jobs] BY <1>1, <1>3
  <2>2. notice' \in Notices
    <3>1. CASE LogNotice(w) BY <1>1, <3>1 DEF LogNotice, Notices
    <3>2. CASE SendNotice(w)
      <4>1. PICK ok \in BOOLEAN :
              notice' = [notice EXCEPT !.tried = @ + 1, !.received = @ \/ ok]
        BY <3>2 DEF SendNotice
      <4>2. notice.tried + 1 \in Nat /\ (notice.received \/ ok) \in BOOLEAN BY <1>1 DEF Notices
      <4> QED BY <1>1, <4>1, <4>2 DEF Notices
    <3>3. CASE ReadAllowance(w) \/ HasLogged(w) \/ Arm(w)
      BY <1>1, <3>3 DEF ReadAllowance, HasLogged, Arm, user
    <3> QED BY <3>1, <3>2, <3>3
  <2>3. cooling' \subseteq Signals
    <3>1. CASE Arm(w)
      <4>1. job[w].cards \subseteq Signals BY <1>1 DEF Jobs
      <4> QED BY <1>1, <3>1, <4>1 DEF Arm, TypeOK
    <3>2. CASE ~Arm(w)
      BY <1>1, <3>2 DEF ReadAllowance, HasLogged, LogNotice, SendNotice, user, TypeOK
    <3> QED BY <3>1, <3>2
  <2> QED BY <1>1, <1>2, <2>1, <2>2, <2>3 DEF TypeOK, Jobs, Notices
<1>6. Due'
  <2>1. \A b \in Actors : job'[b].pc = "record" => job'[b] = job[b] BY <1>3, <1>4
  <2>2. \A b \in Actors : job[b].pc = "record" => job'[b] = job[b] BY <1>2, <1>4 DEF At
  <2> QED BY <1>1, <1>2, <2>1, <2>2 DEF Due, At, Metered
<1>7. failures = 0 => /\ notice'.logged => notice'.tried > 0 \/ \E v \in Passes : job'[v].pc = "notify"
                      /\ filledBy = "alert" => notice'.tried > 0 \/ \E v \in Passes : Heading(v)'
  <2> SUFFICES ASSUME failures = 0
               PROVE  /\ notice'.logged => notice'.tried > 0 \/ \E v \in Passes : job'[v].pc = "notify"
                      /\ filledBy = "alert" => notice'.tried > 0 \/ \E v \in Passes : Heading(v)'
    OBVIOUS
  <2>1. /\ notice.logged => notice.tried > 0 \/ \E v \in Passes : At(v, "notify")
        /\ filledBy = "alert" => notice.tried > 0 \/ \E v \in Passes : Heading(v)
    BY <1>1 DEF Announcing
  <2>2. \A v \in Passes \ {w} : job'[v] = job[v] BY <1>4 DEF Actors
  <2>3. CASE Arm(w)
    <3>1. ~Heading(w) /\ ~At(w, "notify") /\ notice' = notice BY <2>3 DEF Arm, Heading, At
    <3> QED BY <2>1, <2>2, <3>1 DEF Heading, At, Metered
  <2>4. CASE ReadAllowance(w)
    <3>1. ~At(w, "notify") /\ At(w, "allowance") /\ notice' = notice BY <2>4 DEF ReadAllowance, At, user
    <3>2. filledBy = "alert" /\ Metered(w) => job'[w].pc = "logged"
      <4>1. filledBy = "alert" => Remaining = 0 BY <1>1, LedgerIsFinite, Numbers DEF Announcing, Remaining, TypeOK
      <4> QED BY <1>3, <1>4, <2>4, <4>1 DEF ReadAllowance
    <3>3. \A v \in Passes : Heading(v) /\ filledBy = "alert" => Heading(v)'
      BY <2>2, <3>1, <3>2 DEF Heading, At, Metered
    <3> QED BY <2>1, <2>2, <3>1, <3>3 DEF At
  <2>5. CASE HasLogged(w)
    <3>1. ~At(w, "notify") /\ notice' = notice BY <2>5 DEF HasLogged, At, user
    <3>2. CASE notice.logged
      <4>1. notice.tried > 0 \/ \E v \in Passes \ {w} : job'[v].pc = "notify"
        BY <2>1, <2>2, <3>1, <3>2 DEF At
      <4> QED BY <3>1, <4>1 DEF Heading, At
    <3>3. CASE ~notice.logged
      <4>1. job'[w].pc = "log" BY <1>3, <1>4, <2>5, <3>3 DEF HasLogged
      <4> QED BY <3>1, <3>3, <4>1 DEF Heading, At
    <3> QED BY <3>2, <3>3
  <2>6. CASE LogNotice(w)
    <3>1. job'[w].pc = "notify" BY <1>3, <1>4, <2>6 DEF LogNotice
    <3> QED BY <3>1 DEF Heading, At
  <2>7. CASE SendNotice(w)
    <3>1. notice'.tried = notice.tried + 1 /\ notice.tried \in Nat
      BY <1>1, <2>7 DEF SendNotice, Notices
    <3> QED BY <3>1
  <2> QED BY <2>3, <2>4, <2>5, <2>6, <2>7
<1>8. Announcing' BY <1>1, <1>2, <1>7 DEF Announcing, At
<1> QED BY <1>5, <1>6, <1>8 DEF IInv

LEMMA Inductive == IInv /\ [Next]_vars => IInv'
<1> SUFFICES ASSUME IInv, [Next]_vars PROVE IInv' OBVIOUS
<1>1. CASE (\E s \in Signals : Publish(s) \/ Archive(s) \/ Elapse(s)) \/ DropStale \/ Upgrade
  BY <1>1, EngineKeeps
<1>2. ASSUME NEW w \in Passes, Dispatch(w) PROVE IInv' BY <1>2, DispatchKeeps
<1>3. ASSUME NEW w \in Passes, Pass(w) PROVE IInv'
  <2>1. w \in Actors BY DEF Actors
  <2>2. CASE LoadCandidates(w) \/ PhaseOne(w) \/ Gate(w) \/ SendFails(w) BY <2>2, EarlyKeeps
  <2>3. CASE Send(w) BY <2>3, SendKeeps
  <2>4. CASE Record(w) BY <2>1, <2>4, RecordKeeps
  <2>5. CASE ReadAllowance(w) \/ HasLogged(w) \/ LogNotice(w) \/ SendNotice(w) \/ Arm(w)
    BY <2>5, NoticeKeeps
  <2> QED BY <1>3, <2>2, <2>3, <2>4, <2>5 DEF Pass
<1>4. ASSUME NEW v \in Views, OpenList(v) PROVE IInv' BY <1>4, OpenListKeeps
<1>5. ASSUME NEW v \in Views, View(v) PROVE IInv'
  <2>1. v \in Actors BY DEF Actors
  <2> QED BY <1>5, <2>1, ReadBudgetKeeps, RenderKeeps, RecordKeeps DEF View
<1>6. ASSUME NEW a \in Actors, Fail(a) PROVE IInv' BY <1>6, FailKeeps
<1>7. CASE UNCHANGED vars
  BY <1>7 DEF vars, IInv, TypeOK, Due, Announcing, Heading, At, Metered
<1> QED BY <1>1, <1>2, <1>3, <1>4, <1>5, <1>6, <1>7 DEF Next

(* The inductive invariant holds in every reachable state. *)
THEOREM Invariance == Spec => []IInv
<1> QED BY Initially, Inductive, PTL DEF Spec

-----------------------------------------------------------------------------
(* The queue, the user's rows and the jobs keep their shape; the queue      *)
(* never holds more than MAX_PENDING.                                       *)
THEOREM TypeCorrect == Spec => []TypeOK
<1>1. IInv => TypeOK BY DEF IInv
<1> QED BY <1>1, Invariance, PTL

(* A free slot is spent by a signal that was received, and every signal     *)
(* received spends one or is about to, for any number of passes and lists.  *)
THEOREM SlotsAreForReceipts == Spec => []ChargedIffReceived
<1>1. IInv => ChargedIffReceived
  <2> SUFFICES ASSUME IInv PROVE ChargedIffReceived OBVIOUS
  <2>1. ledger \subseteq got BY DEF IInv, Due
  <2>2. ASSUME failures = 0, NEW s \in got
        PROVE  s \in ledger \/ \E a \in {b \in Actors : At(b, "record")} : s \in job[a].cards
    BY <2>2 DEF IInv, Due
  <2> QED BY <2>1, <2>2 DEF ChargedIffReceived
<1> QED BY <1>1, Invariance, PTL

(* The alert that cut a user off is followed by an attempt at the notice,   *)
(* however many passes race.                                                *)
THEOREM CutOffTriesNotice == Spec => []NoticeIsTried
<1>1. IInv => NoticeIsTried
  <2> SUFFICES ASSUME IInv, CutOff PROVE notice.tried > 0 BY DEF NoticeIsTried
  <2>1. \A w \in Passes : ~Heading(w) BY DEF Heading, At, CutOff
  <2> QED BY <2>1 DEF IInv, Announcing, CutOff
<1> QED BY <1>1, Invariance, PTL

(* Until two passes have met at the marker: the one that wrote it is alone, *)
(* and when it has tried the notice nobody else is on the way there.        *)
Once ==
    ~notice.raced =>
      /\ notice.tried <= 1
      /\ \A v, w \in Passes : At(v, "notify") /\ At(w, "notify") => v = w
      /\ \A w \in Passes : At(w, "notify") => notice.tried = 0
      /\ notice.tried > 0 \/ (\E w \in Passes : At(w, "notify"))
           => notice.logged /\ \A w \in Passes : ~At(w, "log")

(* Passes that do not come to the marker or the notice leave it alone. *)
LEMMA AwayFromNotice ==
    ASSUME Once, notice' = notice,
           \A w \in Passes : job'[w].pc \in {"log", "notify"} => job'[w].pc = job[w].pc
    PROVE  Once'
BY DEF Once, At

LEMMA OnceKept == IInv /\ Once /\ [Next]_vars => Once'
<1> SUFFICES ASSUME IInv, Once, [Next]_vars PROVE Once' OBVIOUS
<1>1. job \in [Actors -> Jobs] /\ notice \in Notices /\ Passes \subseteq Actors
  BY DEF IInv, TypeOK, Jobs, Notices, Actors
<1>2. ASSUME NEW a \in Actors, NEW r, job' = [job EXCEPT ![a] = r]
      PROVE  job'[a] = r /\ \A b \in Actors \ {a} : job'[b] = job[b]
  BY <1>1, <1>2
<1>3. ASSUME NEW a \in Actors, NEW pc, Goto(a, pc)
      PROVE  job'[a].pc = pc /\ \A b \in Actors \ {a} : job'[b] = job[b]
  BY <1>1, <1>3 DEF Goto, Jobs
<1>4. ASSUME NEW a \in Actors, Done(a)
      PROVE  job'[a].pc = "idle" /\ \A b \in Actors \ {a} : job'[b] = job[b]
  <2>1. job' = [job EXCEPT ![a] = Idle] BY <1>4 DEF Done
  <2>2. job'[a] = Idle /\ \A b \in Actors \ {a} : job'[b] = job[b] BY <1>1, <2>1
  <2>3. Idle.pc = "idle" BY IdleIs
  <2> QED BY <2>2, <2>3
<1>5. CASE (\E s \in Signals : Publish(s) \/ Archive(s) \/ Elapse(s)) \/ DropStale \/ Upgrade
  BY <1>5, AwayFromNotice DEF Publish, Archive, Elapse, DropStale, Upgrade, user
<1>6. ASSUME NEW a \in Actors, notice' = notice,
             Done(a) \/ \E pc \in Pcs \ {"log", "notify"} : Goto(a, pc)
      PROVE  Once'
  BY <1>1, <1>3, <1>4, <1>6, AwayFromNotice
<1>7. ASSUME NEW w \in Passes, Dispatch(w) PROVE Once'
  <2>1. notice' = notice /\ job'[w].pc = "load" /\ \A b \in Actors \ {w} : job'[b] = job[b]
    BY <1>1, <1>2, <1>7 DEF Dispatch, Idle, user
  <2> QED BY <1>1, <2>1, AwayFromNotice
<1>8. ASSUME NEW w \in Passes, LoadCandidates(w) PROVE Once'
  <2>1. notice' = notice /\ job'[w].pc = "filter" /\ \A b \in Actors \ {w} : job'[b] = job[b]
    BY <1>1, <1>8 DEF LoadCandidates, user, Jobs
  <2> QED BY <1>1, <2>1, AwayFromNotice
<1>9. ASSUME NEW w \in Passes,
             PhaseOne(w) \/ Gate(w) \/ Send(w) \/ SendFails(w) \/ ReadAllowance(w) \/ Arm(w)
      PROVE  Once'
  <2>1. notice' = notice
    BY <1>9 DEF PhaseOne, Gate, Send, SendFails, ReadAllowance, Arm, user
  <2>2. Done(w) \/ \E pc \in {"gate", "send", "record", "logged", "arm"} : Goto(w, pc)
    BY <1>9 DEF PhaseOne, Gate, Send, SendFails, ReadAllowance, Arm
  <2> QED BY <1>1, <1>6, <2>1, <2>2 DEF Pcs
<1>10. ASSUME NEW a \in Actors, Record(a) PROVE Once'
  <2>1. notice' = notice /\ (Done(a) \/ Goto(a, "allowance")) BY <1>10 DEF Record
  <2> QED BY <1>6, <2>1 DEF Pcs
<1>11. ASSUME NEW w \in Passes, HasLogged(w) PROVE Once'
  <2>1. notice' = notice BY <1>11 DEF HasLogged, user
  <2>2. CASE notice.logged
    <3>1. Goto(w, "arm") BY <1>11, <2>2 DEF HasLogged
    <3> QED BY <1>1, <1>6, <2>1, <3>1 DEF Pcs
  <2>3. CASE ~notice.logged
    <3>1. Goto(w, "log") BY <1>11, <2>3 DEF HasLogged
    <3>2. job'[w].pc = "log" /\ \A b \in Passes \ {w} : job'[b] = job[b] BY <1>1, <1>3, <3>1
    <3>3. \A v \in Passes : job'[v].pc = "notify" => At(v, "notify") BY <3>2 DEF At
    <3> QED BY <1>1, <2>1, <2>3, <3>3 DEF Once, At, Notices
  <2> QED BY <2>2, <2>3
<1>12. ASSUME NEW w \in Passes, LogNotice(w) PROVE Once'
  <2> SUFFICES ASSUME ~notice'.raced PROVE Once' BY DEF Once
  <2>1. /\ At(w, "log") /\ ~notice.raced /\ notice'.tried = notice.tried /\ notice'.logged
        /\ \A v \in Passes \ {w} : ~At(v, "log")
    BY <1>1, <1>12 DEF LogNotice, Notices
  <2>2. notice.tried = 0 /\ \A v \in Passes : ~At(v, "notify")
    BY <1>1, <2>1 DEF Once, Notices
  <2>3. job'[w].pc = "notify" /\ \A b \in Passes \ {w} : job'[b] = job[b]
    BY <1>1, <1>3, <1>12 DEF LogNotice
  <2> QED BY <2>1, <2>2, <2>3 DEF Once, At
<1>13. ASSUME NEW w \in Passes, SendNotice(w) PROVE Once'
  <2> SUFFICES ASSUME ~notice'.raced PROVE Once' BY DEF Once
  <2>1. /\ At(w, "notify") /\ ~notice.raced /\ notice'.tried = notice.tried + 1
        /\ notice'.logged = notice.logged
    BY <1>1, <1>13 DEF SendNotice, Notices
  <2>2. /\ notice.tried = 0 /\ notice.logged
        /\ \A v \in Passes : ~At(v, "log") /\ (v # w => ~At(v, "notify"))
    BY <2>1 DEF Once
  <2>3. job'[w].pc = "arm" /\ \A b \in Passes \ {w} : job'[b] = job[b]
    BY <1>1, <1>3, <1>13 DEF SendNotice
  <2> QED BY <2>1, <2>2, <2>3 DEF Once, At
<1>14. ASSUME NEW v \in Views, OpenList(v) \/ ReadBudget(v) \/ Render(v) PROVE Once'
  <2>1. v \in Actors /\ v \notin Passes BY ActorsAssumption DEF Actors
  <2>2. notice' = notice /\ \A b \in Actors \ {v} : job'[b] = job[b]
    <3>1. CASE OpenList(v) BY <1>1, <1>14, <2>1, <3>1 DEF OpenList, user
    <3>2. CASE ReadBudget(v)
      BY <1>1, <1>14, <2>1, <3>2 DEF ReadBudget, Done, user
    <3>3. CASE Render(v) BY <1>1, <1>3, <2>1, <3>3 DEF Render, user
    <3> QED BY <1>14, <3>1, <3>2, <3>3
  <2> QED BY <1>1, <2>1, <2>2, AwayFromNotice
<1>15. ASSUME NEW a \in Actors, Fail(a) PROVE Once'
  <2>1. notice' = notice /\ Done(a) BY <1>15 DEF Fail, user
  <2> QED BY <1>6, <2>1
<1>16. CASE UNCHANGED vars BY <1>16, AwayFromNotice DEF vars
<1> QED
  BY <1>1, <1>5, <1>7, <1>8, <1>9, <1>10, <1>11, <1>12, <1>13, <1>14, <1>15, <1>16
  DEF Next, Pass, View, Actors

(* The paywall is announced once: again only by passes that met at the      *)
(* marker, both having found it missing.                                    *)
THEOREM NoticeIsNotRepeated == Spec => []RepeatedOnlyByRace
<1>1. Init => Once
  <2> SUFFICES ASSUME Init PROVE Once OBVIOUS
  <2>1. notice.tried = 0 /\ \A w \in Passes : ~At(w, "log") /\ ~At(w, "notify")
    BY DEF Init, At, Idle, Actors
  <2> QED BY <2>1 DEF Once
<1>2. IInv /\ Once => RepeatedOnlyByRace
  BY DEF Once, RepeatedOnlyByRace, IInv, TypeOK
<1> QED BY <1>1, <1>2, OnceKept, Invariance, PTL DEF Spec

-----------------------------------------------------------------------------
(* The bound on the overshoot. *)

(* What a job promises to a metered user: the cards it delivers or records. *)
Holding(r) == r.pc \in {"send", "render", "record"} /\ r.tier = "free"
Holds(r) == IF Holding(r) THEN r.cards ELSE {}
PromisedIn(l, jobs) == l \cup UNION {Holds(jobs[a]) : a \in Actors}
Promised == PromisedIn(ledger, job)

(* What one handler adds at most while a slot is left. *)
Share(a) == IF a \in Views THEN Least(PageSize, Quota) ELSE 1
InFlight(jobs) == {a \in Actors : jobs[a].pc # "idle"}

Narrow ==
    /\ Cardinality(InFlight(job)) <= MaxBusy
    /\ \A w \in Passes : Cardinality(job[w].cards) <= 1
    /\ \A a \in Actors : Cardinality(Holds(job[a]) \ ledger) <= Share(a)
    /\ Cardinality(Promised) <= Quota + Overshoot

LEMMA BoundIsInt == Quota + Overshoot \in Int
<1>1. IsFiniteSet(Views) BY ActorsAssumption, FS_Subset DEF Actors
<1>2. Least(MaxBusy, Cardinality(Views)) \in Int
  BY <1>1, FS_CardinalityType, BoundsAssumption DEF Least
<1>3. Least(PageSize, Quota) - 1 \in Int BY BoundsAssumption DEF Least
<1> QED BY <1>2, <1>3, BoundsAssumption DEF Overshoot

LEMMA SubAdditive ==
    ASSUME NEW A \in SUBSET Signals, NEW B \in SUBSET Signals
    PROVE  Cardinality(A \cup B) <= Cardinality(A) + Cardinality(B)
<1>1. IsFiniteSet(A) /\ IsFiniteSet(B) /\ IsFiniteSet(A \cap B)
  BY ActorsAssumption, FS_Subset
<1>2. Cardinality(A \cup B) = Cardinality(A) + Cardinality(B) - Cardinality(A \cap B)
  BY <1>1, FS_Union
<1> QED BY <1>1, <1>2, FS_CardinalityType

(* By a smallest counterexample. *)
LEMMA UnionBound ==
    ASSUME NEW T \in SUBSET Actors, NEW k \in Nat, NEW f,
           \A a \in T : f[a] \in SUBSET Signals /\ Cardinality(f[a]) <= k
    PROVE  Cardinality(UNION {f[a] : a \in T}) <= k * Cardinality(T)
<1> DEFINE Over(S) == UNION {f[a] : a \in S}
           Bad == {S \in SUBSET T : ~(Cardinality(Over(S)) <= k * Cardinality(S))}
<1>1. IsFiniteSet(T) BY ActorsAssumption, FS_Subset
<1>2. \A S \in SUBSET T : IsFiniteSet(S) /\ Cardinality(S) \in Nat BY <1>1, FS_Subset, FS_CardinalityType
<1>3. \A S \in SUBSET T : Over(S) \in SUBSET Signals OBVIOUS
<1>4. \A C \in SUBSET Signals : IsFiniteSet(C) /\ Cardinality(C) \in Nat
  BY ActorsAssumption, FS_Subset, FS_CardinalityType
<1>5. Bad = {}
  <2> SUFFICES ASSUME Bad # {} PROVE FALSE OBVIOUS
  <2> DEFINE Sizes == {Cardinality(S) : S \in Bad}
  <2>1. Sizes \subseteq Nat /\ Sizes # {} BY <1>2
  <2>2. PICK m \in Sizes : \A n \in Sizes : ~(<<n, m>> \in OpToRel(<, Nat))
    <3>1. IsWellFoundedOn(OpToRel(<, Nat), Nat) BY NatLessThanWellFounded
    <3> HIDE DEF Sizes
    <3> QED BY <2>1, <3>1, WFMin
  <2>3. PICK S \in Bad : Cardinality(S) = m OBVIOUS
  <2>4. S \in SUBSET T /\ ~(Cardinality(Over(S)) <= k * Cardinality(S)) BY <2>3
  <2>5. S # {}
    <3>1. SUFFICES ASSUME S = {} PROVE FALSE OBVIOUS
    <3>2. Over(S) = {} BY <3>1
    <3>3. Cardinality(S) = 0 /\ Cardinality(Over(S)) = 0 BY <3>1, <3>2, FS_EmptySet
    <3> QED BY <2>4, <3>3
  <2>6. PICK a \in S : TRUE BY <2>5
  <2> DEFINE R == S \ {a}
  <2>7. R \in SUBSET T /\ Cardinality(R) = Cardinality(S) - 1 BY <1>2, <2>4, <2>6, FS_RemoveElement
  <2>8. R \notin Bad
    <3>1. SUFFICES ASSUME R \in Bad PROVE FALSE OBVIOUS
    <3>2. Cardinality(R) \in Sizes /\ Cardinality(R) \in Nat /\ m \in Nat BY <2>1, <3>1
    <3>3. Cardinality(R) < m BY <1>2, <2>3, <2>4, <2>7
    <3> QED BY <2>2, <3>2, <3>3 DEF OpToRel
  <2>9. Cardinality(Over(R)) <= k * Cardinality(R) BY <2>7, <2>8
  <2>10. Over(S) = Over(R) \cup f[a] BY <2>6
  <2>11. f[a] \in SUBSET Signals /\ Cardinality(f[a]) <= k BY <2>4, <2>6
  <2>12. Cardinality(Over(S)) <= Cardinality(Over(R)) + Cardinality(f[a])
    <3>1. Over(R) \in SUBSET Signals BY <1>3, <2>7
    <3> HIDE DEF Over, R
    <3> QED BY <2>10, <2>11, <3>1, SubAdditive
  <2>13. /\ Cardinality(Over(S)) \in Nat /\ Cardinality(Over(R)) \in Nat
         /\ Cardinality(f[a]) \in Nat /\ Cardinality(S) \in Nat
    BY <1>2, <1>3, <1>4, <2>4, <2>7, <2>11
  <2> HIDE DEF Over, R, Bad
  <2> DEFINE n == Cardinality(S)
  <2>14. k * (n - 1) + k = k * n BY <2>13
  <2>15. Cardinality(Over(R)) <= k * (n - 1) BY <2>7, <2>9
  <2> QED BY <2>4, <2>11, <2>12, <2>13, <2>14, <2>15
<1> QED BY <1>5

(* While a slot is left, what is charged and in flight is within the bound. *)
LEMMA Counted ==
    ASSUME NEW l \in SUBSET Signals, NEW jobs \in [Actors -> Jobs], Cardinality(l) < Quota,
           Cardinality(InFlight(jobs)) <= MaxBusy,
           \A a \in Actors : Cardinality(Holds(jobs[a]) \ l) <= Share(a)
    PROVE  Cardinality(PromisedIn(l, jobs)) <= Quota + Overshoot
<1> DEFINE f == [a \in Actors |-> Holds(jobs[a]) \ l]
           ByPass == InFlight(jobs) \ Views
           ByView == InFlight(jobs) \cap Views
           k == Least(PageSize, Quota)
           A == UNION {f[a] : a \in ByPass}
           B == UNION {f[a] : a \in ByView}
<1>1. Quota \in Nat /\ MaxBusy \in Nat /\ MaxBusy >= 1 /\ k \in Nat /\ k >= 1
  BY BoundsAssumption DEF Least
<1>2. \A a \in Actors : Holds(jobs[a]) \in SUBSET Signals
  BY DEF Holds, Jobs
<1>3. \A a \in Actors : f[a] \in SUBSET Signals /\ Cardinality(f[a]) <= Share(a) BY <1>2
<1>4. IsFiniteSet(InFlight(jobs)) /\ IsFiniteSet(ByPass) /\ IsFiniteSet(ByView) /\ IsFiniteSet(Views)
  BY ActorsAssumption, FS_Subset DEF InFlight, Actors
<1>5. /\ Cardinality(InFlight(jobs)) \in Nat /\ Cardinality(ByPass) \in Nat
      /\ Cardinality(ByView) \in Nat /\ Cardinality(Views) \in Nat
  BY <1>4, FS_CardinalityType
<1>6. Cardinality(ByPass) + Cardinality(ByView) <= MaxBusy
  <2>1. InFlight(jobs) = ByPass \cup ByView /\ ByPass \cap ByView = {} OBVIOUS
  <2>2. Cardinality(ByPass \cup ByView)
          = Cardinality(ByPass) + Cardinality(ByView) - Cardinality(ByPass \cap ByView)
    BY <1>4, FS_Union
  <2>3. Cardinality(ByPass \cap ByView) = 0 BY <2>1, FS_EmptySet
  <2> HIDE DEF ByPass, ByView
  <2> QED BY <1>1, <1>5, <2>1, <2>2, <2>3
<1>7. Cardinality(ByView) <= Cardinality(Views) BY <1>4, FS_Subset
<1>8. \A C \in SUBSET Signals : IsFiniteSet(C) /\ Cardinality(C) \in Nat
  BY ActorsAssumption, FS_Subset, FS_CardinalityType
<1>9. A \in SUBSET Signals /\ B \in SUBSET Signals BY <1>3 DEF InFlight
<1>10. Cardinality(A) <= Cardinality(ByPass)
  <2>1. \A a \in ByPass : f[a] \in SUBSET Signals /\ Cardinality(f[a]) <= 1
    BY <1>3 DEF InFlight, Share
  <2>2. ByPass \in SUBSET Actors BY DEF InFlight
  <2> HIDE DEF f, ByPass
  <2>3. Cardinality(A) <= 1 * Cardinality(ByPass) BY <2>1, <2>2, UnionBound
  <2> HIDE DEF A
  <2> QED BY <1>5, <2>3
<1>11. Cardinality(B) <= k * Cardinality(ByView)
  <2>1. \A a \in ByView : f[a] \in SUBSET Signals /\ Cardinality(f[a]) <= k
    BY <1>3 DEF InFlight, Share
  <2>2. ByView \in SUBSET Actors BY DEF InFlight
  <2> HIDE DEF f, ByView, k
  <2> QED BY <1>1, <2>1, <2>2, UnionBound
<1>12. PromisedIn(l, jobs) = l \cup (A \cup B)
  <2>1. \A a \in Actors : a \notin InFlight(jobs) => Holds(jobs[a]) = {}
    BY DEF InFlight, Holds, Holding
  <2>2. \A a \in Actors : Holds(jobs[a]) \subseteq l \cup (A \cup B)
    <3> SUFFICES ASSUME NEW a \in Actors, NEW s \in Holds(jobs[a]), s \notin l
                 PROVE  s \in A \/ s \in B
      OBVIOUS
    <3>1. s \in f[a] OBVIOUS
    <3>2. a \in ByPass \/ a \in ByView BY <2>1
    <3> HIDE DEF f, ByPass, ByView
    <3> QED BY <3>1, <3>2
  <2>3. A \cup B \subseteq UNION {Holds(jobs[a]) : a \in Actors}
    <3>1. ByPass \subseteq Actors /\ ByView \subseteq Actors BY DEF InFlight
    <3>2. \A a \in Actors : f[a] \subseteq Holds(jobs[a]) OBVIOUS
    <3> HIDE DEF f, ByPass, ByView
    <3> QED BY <3>1, <3>2
  <2> HIDE DEF A, B
  <2> QED BY <2>2, <2>3 DEF PromisedIn
<1>13. Cardinality(PromisedIn(l, jobs)) <= Cardinality(l) + Cardinality(A) + Cardinality(B)
  <2> HIDE DEF A, B
  <2>1. Cardinality(A \cup B) <= Cardinality(A) + Cardinality(B) BY <1>9, SubAdditive
  <2>2. Cardinality(l \cup (A \cup B)) <= Cardinality(l) + Cardinality(A \cup B)
    BY <1>9, SubAdditive
  <2>3. A \cup B \in SUBSET Signals /\ l \cup (A \cup B) \in SUBSET Signals BY <1>9
  <2> QED BY <1>8, <1>9, <1>12, <2>1, <2>2, <2>3
<1> DEFINE p == Cardinality(ByPass)
           v == Cardinality(ByView)
           most == Least(MaxBusy, Cardinality(Views))
<1>14. v <= most /\ most \in Nat
  BY <1>1, <1>5, <1>6, <1>7 DEF Least
<1>15. v * (k - 1) <= most * (k - 1)
  <2>1. \A x, y, z \in Nat : x <= y => x * z <= y * z OBVIOUS
  <2>2. k - 1 \in Nat /\ v \in Nat BY <1>1, <1>5
  <2> HIDE DEF k, v, most
  <2> QED BY <1>14, <2>1, <2>2
<1>16. k * v = v + v * (k - 1)
  <2> HIDE DEF k, v
  <2> QED BY <1>1, <1>5 DEF v
<1>17. Overshoot = MaxBusy - 1 + most * (k - 1) BY DEF Overshoot
<1>18. Cardinality(l) \in Nat /\ Cardinality(A) \in Nat /\ Cardinality(B) \in Nat BY <1>8, <1>9
<1>19. Cardinality(PromisedIn(l, jobs)) \in Nat
  <2>1. PromisedIn(l, jobs) \in SUBSET Signals BY <1>9, <1>12
  <2> QED BY <1>8, <2>1
<1>20. v * (k - 1) \in Int /\ most * (k - 1) \in Int BY <1>1, <1>5, <1>14
<1> HIDE DEF A, B, k, most, ByPass, ByView, f
<1> QED BY <1>1, <1>5, <1>6, <1>10, <1>11, <1>13, <1>15, <1>16, <1>17, <1>18, <1>19, <1>20

(* A step of one actor stays within the bound if it promises something new  *)
(* only while a slot is left.                                               *)
LEMMA StepIsNarrow ==
    ASSUME IInv, Narrow, NEW a \in Actors, NEW r \in Jobs, job' = [job EXCEPT ![a] = r],
           ledger \subseteq ledger', ledger' \subseteq Signals,
           r.pc = "idle" \/ ~At(a, "idle") \/ Cardinality(InFlight(job)) < MaxBusy,
           a \in Passes => Cardinality(r.cards) <= 1,
           Cardinality(Holds(r) \ ledger') <= Share(a),
           Cardinality(ledger') < Quota \/ ledger' \cup Holds(r) \subseteq Promised
    PROVE  Narrow'
<1>1. job \in [Actors -> Jobs] /\ job' \in [Actors -> Jobs] BY DEF IInv, TypeOK, Jobs
<1>2. job'[a] = r /\ \A b \in Actors \ {a} : job'[b] = job[b] BY <1>1
<1>3. \A C \in SUBSET Signals : IsFiniteSet(C) /\ Cardinality(C) \in Nat
  BY ActorsAssumption, FS_Subset, FS_CardinalityType
<1>4. \A b \in Actors : Holds(job[b]) \in SUBSET Signals /\ Holds(job'[b]) \in SUBSET Signals
  BY <1>1 DEF Holds, Jobs
<1>5. Cardinality(InFlight(job')) <= MaxBusy
  <2>1. IsFiniteSet(InFlight(job)) /\ IsFiniteSet(InFlight(job'))
    BY ActorsAssumption, FS_Subset DEF InFlight
  <2>2. Cardinality(InFlight(job)) \in Nat /\ Cardinality(InFlight(job')) \in Nat /\ MaxBusy \in Nat
    BY <2>1, FS_CardinalityType, BoundsAssumption
  <2>3. CASE r.pc = "idle" \/ ~At(a, "idle")
    <3>1. InFlight(job') \in SUBSET InFlight(job) BY <1>2, <2>3 DEF InFlight, At
    <3>2. Cardinality(InFlight(job')) <= Cardinality(InFlight(job)) BY <2>1, <3>1, FS_Subset
    <3> QED BY <2>2, <3>2 DEF Narrow
  <2>4. CASE Cardinality(InFlight(job)) < MaxBusy
    <3>1. InFlight(job') \in SUBSET (InFlight(job) \cup {a}) BY <1>2 DEF InFlight
    <3>2. /\ IsFiniteSet(InFlight(job) \cup {a})
          /\ Cardinality(InFlight(job) \cup {a}) <= Cardinality(InFlight(job)) + 1
          /\ Cardinality(InFlight(job) \cup {a}) \in Nat
      <4>1. /\ IsFiniteSet(InFlight(job) \cup {a})
            /\ Cardinality(InFlight(job) \cup {a}) =
                 IF a \in InFlight(job) THEN Cardinality(InFlight(job)) ELSE Cardinality(InFlight(job)) + 1
        BY <2>1, FS_AddElement, Zenon
      <4> QED BY <2>2, <4>1
    <3>3. Cardinality(InFlight(job')) <= Cardinality(InFlight(job) \cup {a}) BY <3>1, <3>2, FS_Subset
    <3> QED BY <2>2, <2>4, <3>2, <3>3
  <2> QED BY <2>3, <2>4
<1>6. \A w \in Passes : Cardinality(job'[w].cards) <= 1
  BY <1>2 DEF Narrow, Actors
<1>7. \A b \in Actors : Cardinality(Holds(job'[b]) \ ledger') <= Share(b)
  <2> SUFFICES ASSUME NEW b \in Actors PROVE Cardinality(Holds(job'[b]) \ ledger') <= Share(b)
    OBVIOUS
  <2>1. CASE b = a BY <1>2, <2>1
  <2>2. CASE b # a
    <3>1. Holds(job[b]) \ ledger' \in SUBSET (Holds(job[b]) \ ledger) OBVIOUS
    <3>2. Holds(job[b]) \ ledger \in SUBSET Signals /\ Holds(job[b]) \ ledger' \in SUBSET Signals
      BY <1>4
    <3>3. Cardinality(Holds(job[b]) \ ledger') <= Cardinality(Holds(job[b]) \ ledger)
      BY <1>3, <3>1, <3>2, FS_Subset
    <3>4. Share(b) \in Nat BY BoundsAssumption DEF Share, Least
    <3>5. Cardinality(Holds(job[b]) \ ledger) <= Share(b) BY DEF Narrow
    <3> QED BY <1>2, <1>3, <2>2, <3>2, <3>3, <3>4, <3>5
  <2> QED BY <2>1, <2>2
<1>8. Cardinality(PromisedIn(ledger', job')) <= Quota + Overshoot
  <2>1. CASE Cardinality(ledger') < Quota BY <1>1, <1>5, <1>7, <2>1, Counted
  <2>2. CASE ledger' \cup Holds(r) \subseteq Promised
    <3>1. \A b \in Actors : Holds(job'[b]) \subseteq Promised
      BY <1>2, <2>2 DEF Promised, PromisedIn
    <3>2. PromisedIn(ledger', job') \in SUBSET Promised BY <2>2, <3>1 DEF PromisedIn
    <3>3. Promised \in SUBSET Signals
      BY <1>4 DEF Promised, PromisedIn, IInv, TypeOK
    <3>4. PromisedIn(ledger', job') \in SUBSET Signals BY <3>2, <3>3
    <3>5. Cardinality(PromisedIn(ledger', job')) <= Cardinality(Promised)
      BY <1>3, <3>2, <3>3, FS_Subset
    <3>6. Quota + Overshoot \in Int BY BoundIsInt
    <3>7. Cardinality(Promised) <= Quota + Overshoot BY DEF Narrow
    <3>8. Cardinality(Promised) \in Nat /\ Cardinality(PromisedIn(ledger', job')) \in Nat
      BY <1>3, <3>3, <3>4
    <3> QED BY <3>5, <3>6, <3>7, <3>8
  <2> QED BY <2>1, <2>2
<1> QED BY <1>5, <1>6, <1>7, <1>8 DEF Narrow, Promised

(* A step that leaves the ledger alone and promises nothing new. *)
LEMMA QuietIsNarrow ==
    ASSUME IInv, Narrow, NEW a \in Actors, NEW r \in Jobs, job' = [job EXCEPT ![a] = r],
           ledger' = ledger, r.pc = "idle" \/ ~At(a, "idle"),
           r.cards = job[a].cards \/ r = Idle, Holds(r) \subseteq Holds(job[a])
    PROVE  Narrow'
<1>1. job \in [Actors -> Jobs] /\ ledger \subseteq Signals BY DEF IInv, TypeOK, Jobs
<1>2. Cardinality({}) = 0 BY FS_EmptySet
<1>3. a \in Passes => Cardinality(r.cards) <= 1
  <2>1. CASE r = Idle
    <3>1. r.cards = {} BY <2>1 DEF Idle
    <3> QED BY <1>2, <3>1
  <2>2. CASE r.cards = job[a].cards
    <3>1. \A w \in Passes : Cardinality(job[w].cards) <= 1 BY DEF Narrow
    <3> QED BY <2>2, <3>1
  <2> QED BY <2>1, <2>2
<1>4. Cardinality(Holds(r) \ ledger) <= Share(a)
  <2>1. Holds(job[a]) \in SUBSET Signals /\ Holds(r) \ ledger \in SUBSET (Holds(job[a]) \ ledger)
    BY <1>1 DEF Holds, Jobs
  <2>2. IsFiniteSet(Holds(job[a]) \ ledger) /\ IsFiniteSet(Holds(r) \ ledger)
    BY <2>1, ActorsAssumption, FS_Subset
  <2>3. Cardinality(Holds(r) \ ledger) <= Cardinality(Holds(job[a]) \ ledger)
    BY <2>1, <2>2, FS_Subset
  <2>4. Share(a) \in Nat BY BoundsAssumption DEF Share, Least
  <2> QED BY <2>2, <2>3, <2>4, FS_CardinalityType DEF Narrow
<1>5. ledger \cup Holds(r) \subseteq Promised BY DEF Promised, PromisedIn
<1> QED BY <1>1, <1>3, <1>4, <1>5, StepIsNarrow

LEMMA PassIsNarrow ==
    ASSUME IInv, Narrow, NEW w \in Passes, Pass(w), ~Record(w)
    PROVE  Narrow'
<1>1. w \in Actors /\ w \notin Views /\ job \in [Actors -> Jobs] /\ ledger \subseteq Signals
  BY ActorsAssumption DEF Actors, IInv, TypeOK, Jobs
<1>2. ledger' = ledger /\ ~At(w, "idle")
  BY DEF Pass, LoadCandidates, PhaseOne, Gate, Send, SendFails, ReadAllowance, HasLogged,
         LogNotice, SendNotice, Arm, user, At
<1>3. Idle \in Jobs /\ Idle.pc = "idle" /\ Holds(Idle) = {} BY IdleIs DEF Holds, Holding
<1>4. CASE Done(w) BY <1>1, <1>2, <1>3, <1>4, QuietIsNarrow DEF Done
<1>5. ASSUME NEW pc \in Pcs, Goto(w, pc),
             pc \in {"send", "render", "record"} => At(w, "send")
      PROVE  Narrow'
  <2>1. PICK r \in Jobs : /\ job' = [job EXCEPT ![w] = r] /\ r.pc = pc
                          /\ r.tier = job[w].tier /\ r.cards = job[w].cards
    BY <1>1, <1>5, GotoIs
  <2>2. Holds(r) \subseteq Holds(job[w]) BY <1>5, <2>1 DEF Holds, Holding, At
  <2> QED BY <1>1, <1>2, <2>1, <2>2, QuietIsNarrow
<1>6. CASE LoadCandidates(w)
  <2> DEFINE r == [job[w] EXCEPT !.pc = "filter", !.tier = tier]
  <2>1. job' = [job EXCEPT ![w] = r] BY <1>1, <1>6 DEF LoadCandidates
  <2>2. r \in Jobs /\ r.pc = "filter" /\ r.cards = job[w].cards
    BY <1>1 DEF Jobs, Pcs, IInv, TypeOK
  <2>3. Holds(r) = {} BY <2>2 DEF Holds, Holding
  <2> HIDE DEF r
  <2> QED BY <1>1, <1>2, <2>1, <2>2, <2>3, QuietIsNarrow
<1>7. CASE PhaseOne(w) BY <1>4, <1>5, <1>7 DEF PhaseOne, Pcs
<1>8. CASE Gate(w)
  <2>1. CASE Done(w) BY <1>4, <2>1
  <2>2. CASE Goto(w, "send") /\ ~(Metered(w) /\ Remaining = 0)
    <3>1. PICK r \in Jobs : /\ job' = [job EXCEPT ![w] = r] /\ r.pc = "send"
                            /\ r.tier = job[w].tier /\ r.cards = job[w].cards
      BY <1>1, <2>2, GotoIs DEF Pcs
    <3>2. CASE Metered(w)
      <4>1. Cardinality(ledger) < Quota BY <2>2, <3>2 DEF Remaining
      <4>2. Cardinality(r.cards) <= 1 /\ r.cards \in SUBSET Signals BY <3>1 DEF Narrow, Jobs
      <4>3. Holds(r) \ ledger \in SUBSET r.cards BY DEF Holds
      <4>4. IsFiniteSet(r.cards) BY <4>2, ActorsAssumption, FS_Subset
      <4>5. Cardinality(Holds(r) \ ledger) <= Cardinality(r.cards) BY <4>3, <4>4, FS_Subset
      <4>6. IsFiniteSet(Holds(r) \ ledger) BY <4>3, <4>4, FS_Subset
      <4>7. Cardinality(Holds(r) \ ledger) <= 1
        BY <4>2, <4>4, <4>5, <4>6, FS_CardinalityType
      <4> QED BY <1>1, <1>2, <3>1, <4>1, <4>2, <4>7, StepIsNarrow DEF Share
    <3>3. CASE ~Metered(w)
      <4>1. Holds(r) = {} BY <3>1, <3>3 DEF Holds, Holding, Metered
      <4> QED BY <1>1, <1>2, <3>1, <4>1, QuietIsNarrow
    <3> QED BY <3>2, <3>3
  <2> QED BY <1>8, <2>1, <2>2 DEF Gate
<1>9. CASE Send(w) BY <1>5, <1>9 DEF Send, Pcs
<1>10. CASE SendFails(w) BY <1>4, <1>10 DEF SendFails
<1>11. CASE ReadAllowance(w)
  <2>1. Goto(w, "logged") \/ Goto(w, "arm") BY <1>11 DEF ReadAllowance
  <2> QED BY <1>5, <2>1 DEF Pcs
<1>12. CASE HasLogged(w)
  <2>1. Goto(w, "arm") \/ Goto(w, "log") BY <1>12 DEF HasLogged
  <2> QED BY <1>5, <2>1 DEF Pcs
<1>13. CASE LogNotice(w) \/ SendNotice(w)
  <2>1. Goto(w, "notify") \/ Goto(w, "arm") BY <1>13 DEF LogNotice, SendNotice
  <2> QED BY <1>5, <2>1 DEF Pcs
<1>14. CASE Arm(w) BY <1>4, <1>14 DEF Arm
<1> QED BY <1>6, <1>7, <1>8, <1>9, <1>10, <1>11, <1>12, <1>13, <1>14 DEF Pass

(* What is recorded was promised. *)
LEMMA RecordIsNarrow ==
    ASSUME IInv, Narrow, NEW a \in Actors, Record(a)
    PROVE  Narrow'
<1>1. job \in [Actors -> Jobs] /\ ledger \subseteq Signals /\ At(a, "record")
  BY DEF IInv, TypeOK, Jobs, Record
<1>2. ledger' = ledger \cup Holds(job[a]) BY <1>1 DEF Record, Holds, Holding, Metered, At
<1>3. PICK r \in Jobs : /\ job' = [job EXCEPT ![a] = r] /\ Holds(r) = {}
                        /\ (r.cards = job[a].cards \/ r.cards = {})
  <2>1. CASE Done(a)
    <3>1. Holds(Idle) = {} /\ Idle.cards = {} BY DEF Holds, Holding, Idle
    <3> QED BY <2>1, <3>1, IdleIs DEF Done
  <2>2. CASE Goto(a, "allowance")
    <3>1. PICK r \in Jobs : /\ job' = [job EXCEPT ![a] = r] /\ r.pc = "allowance"
                            /\ r.tier = job[a].tier /\ r.cards = job[a].cards
      BY <2>2, GotoIs DEF Pcs
    <3> QED BY <3>1 DEF Holds, Holding
  <2> QED BY <2>1, <2>2 DEF Record
<1>4. Holds(job[a]) \subseteq Signals BY <1>1 DEF Holds, Jobs
<1>5. ledger' \cup Holds(r) \subseteq Promised BY <1>2, <1>3 DEF Promised, PromisedIn
<1>6. Cardinality({}) = 0 BY FS_EmptySet
<1>7. a \in Passes => Cardinality(r.cards) <= 1
  <2>1. \A w \in Passes : Cardinality(job[w].cards) <= 1 BY DEF Narrow
  <2> QED BY <1>3, <1>6, <2>1
<1>8. Cardinality(Holds(r) \ ledger') <= Share(a)
  <2>1. Holds(r) \ ledger' = {} BY <1>3
  <2>2. Share(a) \in Nat BY BoundsAssumption DEF Share, Least
  <2> QED BY <1>6, <2>1, <2>2
<1>9. r.pc = "idle" \/ ~At(a, "idle") BY <1>1 DEF At
<1> QED BY <1>1, <1>2, <1>3, <1>4, <1>5, <1>7, <1>8, <1>9, StepIsNarrow

LEMMA StartIsNarrow ==
    ASSUME IInv, Narrow, NEW a \in Actors, (a \in Passes /\ Dispatch(a)) \/ (a \in Views /\ OpenList(a))
    PROVE  Narrow'
<1>1. TypeOK /\ ledger \subseteq Signals /\ ledger' = ledger
  BY DEF IInv, TypeOK, Dispatch, OpenList, user
<1>2. PICK r \in Jobs : /\ job' = [job EXCEPT ![a] = r] /\ Holds(r) = {}
                        /\ (a \in Passes => Cardinality(r.cards) <= 1)
  <2>1. CASE a \in Passes /\ Dispatch(a)
    <3> DEFINE r == [Idle EXCEPT !.pc = "load", !.cards = {Head(queue)}]
    <3>1. Head(queue) \in Signals BY <1>1, <2>1, HeadTailProperties DEF Dispatch, TypeOK
    <3>2. r \in Jobs /\ r.pc = "load" /\ r.cards = {Head(queue)} BY <3>1 DEF Idle, Jobs, Pcs
    <3>3. job' = [job EXCEPT ![a] = r] BY <2>1 DEF Dispatch
    <3> HIDE DEF r
    <3>4. Cardinality({Head(queue)}) = 1 BY FS_Singleton
    <3>5. Holds(r) = {} BY <3>2 DEF Holds, Holding
    <3>6. Cardinality(r.cards) <= 1 BY <3>2, <3>4
    <3> QED BY <3>2, <3>3, <3>5, <3>6
  <2>2. CASE a \in Views /\ OpenList(a)
    <3> DEFINE r == [pc |-> "budget", tier |-> tier, cards |-> registry]
    <3>1. r \in Jobs /\ r.pc = "budget" BY <1>1 DEF TypeOK, Jobs, Pcs
    <3>2. job' = [job EXCEPT ![a] = r] BY <2>2 DEF OpenList
    <3> HIDE DEF r
    <3>3. Holds(r) = {} BY <3>1 DEF Holds, Holding
    <3> QED BY <2>2, <3>1, <3>2, <3>3, ActorsAssumption
  <2> QED BY <2>1, <2>2
<1>3. Cardinality(InFlight(job)) < MaxBusy
  <2>1. InFlight(job) = {b \in Actors : ~At(b, "idle")} BY DEF InFlight, At
  <2> QED BY <2>1 DEF Dispatch, OpenList, Free
<1>4. Cardinality(Holds(r) \ ledger') <= Share(a)
  <2>1. Holds(r) \ ledger' = {} BY <1>2
  <2>2. Share(a) \in Nat /\ Cardinality({}) = 0 BY BoundsAssumption, FS_EmptySet DEF Share, Least
  <2> QED BY <2>1, <2>2
<1>5. ledger' \cup Holds(r) \subseteq Promised BY <1>1, <1>2 DEF Promised, PromisedIn
<1> QED BY <1>1, <1>2, <1>3, <1>4, <1>5, StepIsNarrow

LEMMA ViewIsNarrow ==
    ASSUME IInv, Narrow, NEW v \in Views, ReadBudget(v) \/ Render(v)
    PROVE  Narrow'
<1>1. /\ v \in Actors /\ v \notin Passes /\ job \in [Actors -> Jobs]
      /\ ledger \subseteq Signals /\ ledger' = ledger /\ ~At(v, "idle")
  BY ActorsAssumption DEF Actors, IInv, TypeOK, Jobs, ReadBudget, Render, user, At
<1>2. CASE Done(v)
  <2>1. Holds(Idle) = {} BY DEF Holds, Holding, Idle
  <2> QED BY <1>1, <1>2, <2>1, IdleIs, QuietIsNarrow DEF Done
<1>3. CASE Render(v)
  <2>1. PICK r \in Jobs : /\ job' = [job EXCEPT ![v] = r] /\ r.pc = "record"
                          /\ r.tier = job[v].tier /\ r.cards = job[v].cards
    BY <1>1, <1>3, GotoIs DEF Render, Pcs
  <2>2. Holds(r) = Holds(job[v]) BY <1>3, <2>1 DEF Holds, Holding, Render, At
  <2> QED BY <1>1, <2>1, <2>2, QuietIsNarrow
<1>4. ASSUME ~(Metered(v) /\ Remaining = 0), NEW page \in WithinAllowance(v),
             job' = [job EXCEPT ![v].pc = "render", ![v].cards = page]
      PROVE  Narrow'
  <2> DEFINE r == [job[v] EXCEPT !.pc = "render", !.cards = page]
  <2>1. page \in SUBSET Signals /\ Cardinality(page) <= PageSize
        /\ (Metered(v) => Cardinality(page \ ledger) <= Remaining)
    <3>1. page \in SUBSET job[v].cards BY DEF WithinAllowance, Query
    <3> QED BY <1>1, <3>1 DEF Jobs, WithinAllowance
  <2>2. job' = [job EXCEPT ![v] = r] BY <1>1, <1>4
  <2>3. r \in Jobs /\ r.pc = "render" /\ r.cards = page /\ r.tier = job[v].tier
    BY <1>1, <2>1 DEF Jobs, Pcs
  <2> HIDE DEF r
  <2>4. Cardinality({}) = 0 /\ Share(v) \in Nat /\ Share(v) = Least(PageSize, Quota)
    BY BoundsAssumption, FS_EmptySet DEF Share, Least
  <2>5. CASE Metered(v)
    <3>1. Holds(r) = page BY <2>3, <2>5 DEF Holds, Holding, Metered
    <3>2. IsFiniteSet(page) /\ IsFiniteSet(page \ ledger) BY <2>1, ActorsAssumption, FS_Subset
    <3>3. Cardinality(page \ ledger) <= Cardinality(page) BY <3>2, FS_Subset
    <3>4. Cardinality(page) \in Nat /\ Cardinality(page \ ledger) \in Nat
      BY <3>2, FS_CardinalityType
    <3>5. Cardinality(ledger) \in Nat /\ Quota \in Nat /\ PageSize \in Nat
      BY <1>1, ActorsAssumption, FS_Subset, FS_CardinalityType, BoundsAssumption
    <3>6. Cardinality(ledger) < Quota BY <1>4, <2>5 DEF Remaining
    <3>7. Remaining <= Quota BY <3>5, <3>6 DEF Remaining
    <3>8. Cardinality(page \ ledger) <= Least(PageSize, Quota)
      BY <2>1, <2>5, <3>3, <3>4, <3>5, <3>6, <3>7 DEF Least, Remaining
    <3> QED BY <1>1, <2>2, <2>3, <2>4, <3>1, <3>6, <3>8, StepIsNarrow
  <2>6. CASE ~Metered(v)
    <3>1. Holds(r) = {} BY <2>3, <2>6 DEF Holds, Holding, Metered
    <3>2. Holds(r) \ ledger' = {} BY <3>1
    <3>3. ledger' \cup Holds(r) \subseteq Promised BY <1>1, <3>1 DEF Promised, PromisedIn
    <3>4. Cardinality(Holds(r) \ ledger') <= Share(v) BY <2>4, <3>2
    <3> QED BY <1>1, <2>2, <2>3, <3>3, <3>4, StepIsNarrow
  <2> QED BY <2>5, <2>6
<1>5. CASE ReadBudget(v) BY <1>2, <1>4, <1>5 DEF ReadBudget
<1> QED BY <1>3, <1>5

LEMMA Narrowed == IInv /\ Narrow /\ [Next]_vars => Narrow'
<1> SUFFICES ASSUME IInv, Narrow, [Next]_vars PROVE Narrow' OBVIOUS
<1>1. CASE UNCHANGED <<job, ledger>>
  BY <1>1 DEF Narrow, Promised
<1>2. CASE (\E s \in Signals : Publish(s) \/ Archive(s) \/ Elapse(s)) \/ DropStale \/ Upgrade
  BY <1>1, <1>2 DEF Publish, Archive, Elapse, DropStale, Upgrade, user
<1>3. ASSUME NEW w \in Passes, Dispatch(w) PROVE Narrow' BY <1>3, StartIsNarrow DEF Actors
<1>4. ASSUME NEW w \in Passes, Pass(w) PROVE Narrow'
  BY <1>4, PassIsNarrow, RecordIsNarrow DEF Actors
<1>5. ASSUME NEW v \in Views, OpenList(v) PROVE Narrow' BY <1>5, StartIsNarrow DEF Actors
<1>6. ASSUME NEW v \in Views, View(v) PROVE Narrow'
  BY <1>6, ViewIsNarrow, RecordIsNarrow DEF Actors, View
<1>7. ASSUME NEW a \in Actors, Fail(a) PROVE Narrow'
  <2>1. job' = [job EXCEPT ![a] = Idle] /\ ledger' = ledger BY <1>7 DEF Fail, Done, user
  <2>2. Holds(Idle) = {} BY DEF Holds, Holding, Idle
  <2> QED BY <2>1, <2>2, IdleIs, QuietIsNarrow
<1>8. CASE UNCHANGED vars BY <1>1, <1>8 DEF vars
<1> QED BY <1>2, <1>3, <1>4, <1>5, <1>6, <1>7, <1>8 DEF Next

LEMMA InitiallyNarrow == Init => Narrow
<1> SUFFICES ASSUME Init PROVE Narrow OBVIOUS
<1>1. \A a \in Actors : job[a].pc = "idle" /\ job[a].cards = {} /\ Holds(job[a]) = {}
  BY DEF Init, Idle, Holds, Holding
<1>2. Cardinality({}) = 0 BY FS_EmptySet
<1>3. InFlight(job) = {} /\ Promised = {}
  BY <1>1 DEF Init, InFlight, Promised, PromisedIn
<1>4. \A w \in Passes : job[w].cards = {} BY <1>1 DEF Actors
<1>5. \A a \in Actors : Holds(job[a]) \ ledger = {} /\ Share(a) \in Nat
  BY <1>1, BoundsAssumption DEF Share, Least
<1>6. Cardinality(Promised) <= Quota + Overshoot
  <2>1. ledger \in SUBSET Signals /\ job \in [Actors -> Jobs] BY Initially DEF IInv, TypeOK, Jobs
  <2>2. Cardinality(ledger) < Quota BY <1>2, BoundsAssumption DEF Init
  <2>3. Cardinality(InFlight(job)) <= MaxBusy BY <1>2, <1>3, BoundsAssumption
  <2>4. \A a \in Actors : Cardinality(Holds(job[a]) \ ledger) <= Share(a) BY <1>2, <1>5
  <2> QED BY <2>1, <2>2, <2>3, <2>4, Counted DEF Promised
<1>7. Cardinality(InFlight(job)) <= MaxBusy BY <1>2, <1>3, BoundsAssumption
<1>8. \A w \in Passes : Cardinality(job[w].cards) <= 1
  <2> SUFFICES ASSUME NEW w \in Passes PROVE Cardinality(job[w].cards) <= 1 OBVIOUS
  <2>1. job[w].cards = {} BY <1>4
  <2> QED BY <1>2, <2>1
<1>9. \A a \in Actors : Cardinality(Holds(job[a]) \ ledger) <= Share(a)
  <2> SUFFICES ASSUME NEW a \in Actors PROVE Cardinality(Holds(job[a]) \ ledger) <= Share(a)
    OBVIOUS
  <2>1. Holds(job[a]) \ ledger = {} /\ Share(a) \in Nat BY <1>5
  <2> QED BY <1>2, <2>1
<1> QED BY <1>6, <1>7, <1>8, <1>9, Zenon DEF Narrow

(* The bound on what is in flight holds in every reachable state. *)
THEOREM InFlightIsNarrow == Spec => []Narrow
BY InitiallyNarrow, Narrowed, Invariance, PTL DEF Spec

(* However many passes and lists run, the quota is overshot by no more than *)
(* what was in flight when its last slot was spent.                         *)
THEOREM OvershootIsBounded == Spec => []OvershootIsConcurrency
<1>1. IInv /\ Narrow => OvershootIsConcurrency
  <2> SUFFICES ASSUME IInv, Narrow, failures = 0 PROVE Cardinality(got) <= Quota + Overshoot
    BY DEF OvershootIsConcurrency
  <2>1. job \in [Actors -> Jobs] /\ ledger \subseteq Signals BY DEF IInv, TypeOK, Jobs
  <2>2. got \in SUBSET Promised
    <3> SUFFICES ASSUME NEW s \in got, s \notin ledger PROVE s \in Promised
      BY DEF Promised, PromisedIn
    <3>1. PICK a \in Actors : At(a, "record") /\ Metered(a) /\ s \in job[a].cards
      BY DEF IInv, Due
    <3>2. s \in Holds(job[a]) BY <3>1 DEF Holds, Holding, At, Metered
    <3> QED BY <3>2 DEF Promised, PromisedIn
  <2>3. Promised \in SUBSET Signals BY <2>1 DEF Promised, PromisedIn, Holds, Jobs
  <2>4. IsFiniteSet(Promised) BY <2>3, ActorsAssumption, FS_Subset
  <2>5. Cardinality(got) <= Cardinality(Promised) BY <2>2, <2>4, FS_Subset
  <2>6. IsFiniteSet(got) BY <2>2, <2>4, FS_Subset
  <2>7. Cardinality(got) \in Nat /\ Cardinality(Promised) \in Nat BY <2>4, <2>6, FS_CardinalityType
  <2>8. Quota + Overshoot \in Int BY BoundIsInt
  <2>9. Cardinality(Promised) <= Quota + Overshoot BY DEF Narrow
  <2> QED BY <2>5, <2>7, <2>8, <2>9
<1> QED BY <1>1, InFlightIsNarrow, Invariance, PTL

-----------------------------------------------------------------------------
(* Repeated alerts: passes on the way to an alert for s, and past it. *)

ComingPcs == {"gate", "send"}
SentPcs == {"record", "allowance", "logged", "log", "notify", "arm"}
Among(jobs, pcs, s) == {w \in Passes : jobs[w].pc \in pcs /\ s \in jobs[w].cards}
Coming(s) == Among(job, ComingPcs, s)
Sent(s) == Among(job, SentPcs, s)

Overlap ==
    /\ \A w \in Passes : ~At(w, "idle") => \E s \in Signals : job[w].cards = {s}
    /\ failures = 0 => \A s \in Signals :
         IF s \in cooling THEN alerts[s] + Cardinality(Coming(s)) <= MaxBusy
                          ELSE alerts[s] <= Cardinality(Sent(s))

LEMMA PassesAreFinite ==
    ASSUME NEW S \in SUBSET Passes, NEW T \in SUBSET S
    PROVE  /\ IsFiniteSet(S) /\ IsFiniteSet(T) /\ Cardinality(S) \in Nat /\ Cardinality(T) \in Nat
           /\ Cardinality(T) <= Cardinality(S)
<1>1. IsFiniteSet(S) BY ActorsAssumption, FS_Subset DEF Actors
<1>2. IsFiniteSet(T) BY <1>1, FS_Subset
<1> QED BY <1>1, <1>2, FS_Subset, FS_CardinalityType

(* The passes that come and those that sent are all in flight. *)
LEMMA ComingAndSent ==
    ASSUME Narrow, NEW s
    PROVE  /\ Coming(s) \subseteq Passes /\ Sent(s) \subseteq Passes
           /\ Cardinality(Coming(s)) \in Nat /\ Cardinality(Sent(s)) \in Nat
           /\ Cardinality(Coming(s)) + Cardinality(Sent(s)) <= MaxBusy
<1> DEFINE C == Coming(s)
           D == Sent(s)
<1>1. C \in SUBSET Passes /\ D \in SUBSET Passes BY DEF Coming, Sent, Among
<1>2. C \cap D = {} BY DEF Coming, Sent, Among, ComingPcs, SentPcs
<1>3. C \cup D \in SUBSET InFlight(job)
  BY DEF Coming, Sent, Among, ComingPcs, SentPcs, InFlight, Actors
<1> HIDE DEF C, D
<1>4. IsFiniteSet(C) /\ IsFiniteSet(D) /\ Cardinality(C) \in Nat /\ Cardinality(D) \in Nat
  BY <1>1, PassesAreFinite
<1>5. IsFiniteSet(InFlight(job)) BY ActorsAssumption, FS_Subset DEF InFlight
<1>6. Cardinality(C \cup D) <= Cardinality(InFlight(job)) BY <1>3, <1>5, FS_Subset
<1>7. Cardinality(C \cup D) = Cardinality(C) + Cardinality(D) - Cardinality(C \cap D)
  BY <1>4, FS_Union
<1>8. Cardinality(C \cap D) = 0 BY <1>2, FS_EmptySet
<1>9. Cardinality(InFlight(job)) \in Nat /\ MaxBusy \in Nat /\ Cardinality(InFlight(job)) <= MaxBusy
  BY <1>5, FS_CardinalityType, BoundsAssumption DEF Narrow
<1>10. Cardinality(C) + Cardinality(D) <= MaxBusy BY <1>4, <1>6, <1>7, <1>8, <1>9
<1> QED BY <1>1, <1>4, <1>10 DEF C, D

(* A pass that neither sends nor arms: whoever has sent stays so until it   *)
(* arms the cooldown, and nobody newly comes for a cooling signal.          *)
LEMMA QuietOverlaps ==
    ASSUME IInv, Overlap, NEW w \in Passes, NEW r \in Jobs, job' = [job EXCEPT ![w] = r],
           r.pc = "idle" \/ \E s \in Signals : r.cards = {s},
           job[w].pc \in SentPcs => r.pc \in SentPcs /\ r.cards = job[w].cards,
           r.pc \in ComingPcs => \/ job[w].pc \in ComingPcs /\ r.cards = job[w].cards
                                 \/ r.cards \cap cooling = {},
           UNCHANGED <<cooling, alerts, failures>>
    PROVE  Overlap'
<1>1. /\ job \in [Actors -> Jobs] /\ Passes \subseteq Actors /\ alerts \in [Signals -> Nat]
      /\ MaxBusy \in Nat
  BY BoundsAssumption DEF IInv, TypeOK, Jobs, Actors
<1>2. job'[w] = r /\ \A b \in Passes \ {w} : job'[b] = job[b] BY <1>1
<1>3. \A b \in Passes : ~At(b, "idle")' => \E s \in Signals : job'[b].cards = {s}
  BY <1>2 DEF Overlap, At
<1>4. ASSUME failures = 0, NEW s \in Signals
      PROVE  IF s \in cooling THEN alerts[s] + Cardinality(Among(job', ComingPcs, s)) <= MaxBusy
                              ELSE alerts[s] <= Cardinality(Among(job', SentPcs, s))
  <2>1. alerts[s] \in Nat BY <1>1
  <2>2. CASE s \in cooling
    <3>1. Among(job', ComingPcs, s) \in SUBSET Among(job, ComingPcs, s)
      BY <1>2, <2>2 DEF Among
    <3>2. Among(job, ComingPcs, s) \in SUBSET Passes BY DEF Among
    <3>3. alerts[s] + Cardinality(Among(job, ComingPcs, s)) <= MaxBusy
      BY <1>4, <2>2 DEF Overlap, Coming
    <3>4. /\ Cardinality(Among(job', ComingPcs, s)) <= Cardinality(Among(job, ComingPcs, s))
          /\ Cardinality(Among(job', ComingPcs, s)) \in Nat
          /\ Cardinality(Among(job, ComingPcs, s)) \in Nat
      BY <3>1, <3>2, PassesAreFinite
    <3> QED BY <1>1, <2>1, <2>2, <3>3, <3>4
  <2>3. CASE s \notin cooling
    <3>1. Among(job, SentPcs, s) \in SUBSET Among(job', SentPcs, s) BY <1>2 DEF Among
    <3>2. Among(job', SentPcs, s) \in SUBSET Passes BY DEF Among
    <3>3. alerts[s] <= Cardinality(Among(job, SentPcs, s)) BY <1>4, <2>3 DEF Overlap, Sent
    <3>4. /\ Cardinality(Among(job, SentPcs, s)) <= Cardinality(Among(job', SentPcs, s))
          /\ Cardinality(Among(job', SentPcs, s)) \in Nat
          /\ Cardinality(Among(job, SentPcs, s)) \in Nat
      BY <3>1, <3>2, PassesAreFinite
    <3> QED BY <2>1, <2>3, <3>3, <3>4
  <2> QED BY <2>2, <2>3
<1> QED BY <1>3, <1>4 DEF Overlap, Coming, Sent

LEMMA SendOverlaps ==
    ASSUME IInv, Narrow, Overlap, NEW w \in Passes, Send(w)
    PROVE  Overlap'
<1>1. /\ job \in [Actors -> Jobs] /\ w \in Actors /\ Passes \subseteq Actors
      /\ alerts \in [Signals -> Nat] /\ MaxBusy \in Nat
  BY BoundsAssumption DEF IInv, TypeOK, Jobs, Actors
<1>2. PICK c \in Signals : job[w].cards = {c} BY DEF Overlap, Send, At
<1>3. Signal(w) = c BY <1>2 DEF Signal
<1>4. PICK r \in Jobs : job' = [job EXCEPT ![w] = r] /\ r.pc = "record" /\ r.cards = job[w].cards
  BY <1>1, GotoIs DEF Send, Pcs
<1>5. job'[w] = r /\ \A b \in Passes \ {w} : job'[b] = job[b] BY <1>1, <1>4
<1>6. job[w].pc = "send" /\ UNCHANGED <<cooling, failures>> /\ alerts' = [alerts EXCEPT ![c] = @ + 1]
  BY <1>3 DEF Send, At, user
<1>7. \A b \in Passes : ~At(b, "idle")' => \E s \in Signals : job'[b].cards = {s}
  BY <1>2, <1>4, <1>5 DEF Overlap, At
<1>8. ASSUME failures = 0, NEW s \in Signals
      PROVE  IF s \in cooling THEN alerts'[s] + Cardinality(Among(job', ComingPcs, s)) <= MaxBusy
                              ELSE alerts'[s] <= Cardinality(Among(job', SentPcs, s))
  <2>1. alerts[s] \in Nat /\ alerts'[s] = (IF s = c THEN alerts[s] + 1 ELSE alerts[s])
    BY <1>1, <1>6
  <2>2. /\ s \in cooling => alerts[s] + Cardinality(Among(job, ComingPcs, s)) <= MaxBusy
        /\ s \notin cooling => alerts[s] <= Cardinality(Among(job, SentPcs, s))
    BY <1>8 DEF Overlap, Coming, Sent
  <2>3. \A pcs : Among(job, pcs, s) \in SUBSET Passes /\ IsFiniteSet(Among(job, pcs, s))
                 /\ Cardinality(Among(job, pcs, s)) \in Nat
    <3> SUFFICES ASSUME NEW pcs
                 PROVE  Among(job, pcs, s) \in SUBSET Passes /\ IsFiniteSet(Among(job, pcs, s))
                        /\ Cardinality(Among(job, pcs, s)) \in Nat
      OBVIOUS
    <3>1. Among(job, pcs, s) \in SUBSET Passes BY DEF Among
    <3> QED BY <3>1, PassesAreFinite
  <2>4. CASE s = c
    <3>1. Among(job', ComingPcs, s) = Among(job, ComingPcs, s) \ {w} /\ w \in Among(job, ComingPcs, s)
      BY <1>2, <1>4, <1>5, <1>6, <2>4 DEF Among, ComingPcs
    <3>2. Among(job', SentPcs, s) = Among(job, SentPcs, s) \cup {w} /\ w \notin Among(job, SentPcs, s)
      BY <1>2, <1>4, <1>5, <1>6, <2>4 DEF Among, SentPcs
    <3>3. Cardinality(Among(job', ComingPcs, s)) = Cardinality(Among(job, ComingPcs, s)) - 1
      <4>1. IsFiniteSet(Among(job, ComingPcs, s)) BY <2>3
      <4>2. Cardinality(Among(job, ComingPcs, s) \ {w}) =
              IF w \in Among(job, ComingPcs, s) THEN Cardinality(Among(job, ComingPcs, s)) - 1
                                                ELSE Cardinality(Among(job, ComingPcs, s))
        BY <4>1, FS_RemoveElement, Zenon
      <4> QED BY <3>1, <4>2
    <3>4. Cardinality(Among(job', SentPcs, s)) = Cardinality(Among(job, SentPcs, s)) + 1
      <4>1. IsFiniteSet(Among(job, SentPcs, s)) BY <2>3
      <4>2. Cardinality(Among(job, SentPcs, s) \cup {w}) =
              IF w \in Among(job, SentPcs, s) THEN Cardinality(Among(job, SentPcs, s))
                                              ELSE Cardinality(Among(job, SentPcs, s)) + 1
        BY <4>1, FS_AddElement, Zenon
      <4> QED BY <3>2, <4>2
    <3> QED BY <1>1, <2>1, <2>2, <2>3, <2>4, <3>3, <3>4
  <2>5. CASE s # c
    <3>1. Among(job', ComingPcs, s) = Among(job, ComingPcs, s)
          /\ Among(job', SentPcs, s) = Among(job, SentPcs, s)
      BY <1>2, <1>4, <1>5, <2>5 DEF Among
    <3> QED BY <2>1, <2>2, <2>5, <3>1
  <2> QED BY <2>4, <2>5
<1> QED BY <1>6, <1>7, <1>8 DEF Overlap, Coming, Sent

LEMMA ArmOverlaps ==
    ASSUME IInv, Narrow, Overlap, NEW w \in Passes, Arm(w)
    PROVE  Overlap'
<1>1. /\ job \in [Actors -> Jobs] /\ w \in Actors /\ Passes \subseteq Actors
      /\ alerts \in [Signals -> Nat] /\ MaxBusy \in Nat
  BY BoundsAssumption DEF IInv, TypeOK, Jobs, Actors
<1>2. PICK c \in Signals : job[w].cards = {c} BY DEF Overlap, Arm, At
<1>3. /\ job' = [job EXCEPT ![w] = Idle] /\ cooling' = cooling \cup {c}
      /\ UNCHANGED <<alerts, failures>> /\ job[w].pc = "arm"
  BY <1>2 DEF Arm, Done, At, ghosts
<1>4. job'[w] = Idle /\ \A b \in Passes \ {w} : job'[b] = job[b] BY <1>1, <1>3
<1>5. Idle.pc = "idle" /\ Idle.cards = {} BY DEF Idle
<1>6. \A b \in Passes : ~At(b, "idle")' => \E s \in Signals : job'[b].cards = {s}
  BY <1>4, <1>5 DEF Overlap, At
<1>7. ASSUME failures = 0, NEW s \in Signals
      PROVE  IF s \in cooling' THEN alerts[s] + Cardinality(Among(job', ComingPcs, s)) <= MaxBusy
                               ELSE alerts[s] <= Cardinality(Among(job', SentPcs, s))
  <2>1. alerts[s] \in Nat BY <1>1
  <2>2. Among(job', ComingPcs, s) = Coming(s)
    BY <1>3, <1>4, <1>5 DEF Coming, Among, ComingPcs
  <2>3. s # c => Among(job', SentPcs, s) = Sent(s)
    BY <1>2, <1>4, <1>5 DEF Sent, Among
  <2>4. /\ s \in cooling => alerts[s] + Cardinality(Coming(s)) <= MaxBusy
        /\ s \notin cooling => alerts[s] <= Cardinality(Sent(s))
    BY <1>7 DEF Overlap
  <2>5. /\ Cardinality(Coming(s)) \in Nat /\ Cardinality(Sent(s)) \in Nat
        /\ Cardinality(Coming(s)) + Cardinality(Sent(s)) <= MaxBusy
    BY ComingAndSent
  <2> QED BY <1>1, <1>3, <2>1, <2>2, <2>3, <2>4, <2>5
<1> QED BY <1>3, <1>6, <1>7 DEF Overlap, Coming, Sent

LEMMA PassOverlaps ==
    ASSUME IInv, Narrow, Overlap, NEW w \in Passes, Pass(w)
    PROVE  Overlap'
<1>1. w \in Actors /\ job \in [Actors -> Jobs] BY DEF Actors, IInv, TypeOK, Jobs
<1>2. Idle \in Jobs /\ Idle.pc = "idle" BY IdleIs
<1>3. CASE Send(w) BY <1>3, SendOverlaps
<1>4. CASE Arm(w) BY <1>4, ArmOverlaps
<1>5. CASE ~Send(w) /\ ~Arm(w)
  <2>1. UNCHANGED <<cooling, alerts, failures>>
    BY <1>5 DEF Pass, LoadCandidates, PhaseOne, Gate, SendFails, Record, ReadAllowance, HasLogged,
                LogNotice, SendNotice, user, ghosts
  <2>2. PICK c \in Signals : job[w].cards = {c}
    BY <1>5 DEF Overlap, Pass, LoadCandidates, PhaseOne, Gate, SendFails, Record, ReadAllowance,
                HasLogged, LogNotice, SendNotice, At
  <2>3. CASE Done(w) /\ job[w].pc \notin SentPcs
    BY <1>1, <1>2, <2>1, <2>3, QuietOverlaps DEF Done, ComingPcs
  <2>4. ASSUME NEW pc \in Pcs, Goto(w, pc), job[w].pc \in SentPcs => pc \in SentPcs,
               pc \in ComingPcs => job[w].pc \in ComingPcs \/ c \notin cooling
        PROVE  Overlap'
    <3>1. PICK r \in Jobs : /\ job' = [job EXCEPT ![w] = r] /\ r.pc = pc
                            /\ r.tier = job[w].tier /\ r.cards = job[w].cards
      BY <1>1, <2>4, GotoIs
    <3>2. r.pc \in ComingPcs => \/ job[w].pc \in ComingPcs /\ r.cards = job[w].cards
                                \/ r.cards \cap cooling = {}
      BY <2>2, <2>4, <3>1
    <3>3. \E s \in Signals : r.cards = {s} BY <2>2, <3>1
    <3>4. job[w].pc \in SentPcs => r.pc \in SentPcs /\ r.cards = job[w].cards BY <2>4, <3>1
    <3> QED BY <2>1, <3>1, <3>2, <3>3, <3>4, QuietOverlaps
  <2>5. CASE LoadCandidates(w)
    <3> DEFINE r == [job[w] EXCEPT !.pc = "filter", !.tier = tier]
    <3>1. job' = [job EXCEPT ![w] = r] BY <1>1, <2>5 DEF LoadCandidates
    <3>2. r \in Jobs /\ r.pc = "filter" /\ r.cards = job[w].cards
      BY <1>1 DEF Jobs, Pcs, IInv, TypeOK
    <3>3. job[w].pc = "load" BY <2>5 DEF LoadCandidates, At
    <3> HIDE DEF r
    <3>4. r.pc \notin ComingPcs /\ job[w].pc \notin SentPcs BY <3>2, <3>3 DEF ComingPcs, SentPcs
    <3>5. \E s \in Signals : r.cards = {s} BY <2>2, <3>2
    <3> QED BY <2>1, <3>1, <3>2, <3>4, <3>5, QuietOverlaps
  <2>6. CASE PhaseOne(w)
    <3>1. Signal(w) = c BY <2>2 DEF Signal
    <3>2. job[w].pc = "filter" /\ (Done(w) \/ (c \notin cooling /\ Goto(w, "gate")))
      BY <2>6, <3>1 DEF PhaseOne, At
    <3> QED BY <2>3, <2>4, <3>2 DEF SentPcs, Pcs
  <2>7. CASE Gate(w)
    <3>1. job[w].pc = "gate" /\ (Done(w) \/ Goto(w, "send")) BY <2>7 DEF Gate, At
    <3> QED BY <2>3, <2>4, <3>1 DEF SentPcs, ComingPcs, Pcs
  <2>8. CASE SendFails(w)
    <3>1. job[w].pc = "send" /\ Done(w) BY <2>8 DEF SendFails, At
    <3> QED BY <2>3, <3>1 DEF SentPcs
  <2>9. CASE Record(w)
    <3>1. Goto(w, "allowance") BY <2>9, ActorsAssumption DEF Record
    <3> QED BY <2>4, <3>1 DEF SentPcs, ComingPcs, Pcs
  <2>10. CASE ReadAllowance(w) \/ HasLogged(w) \/ LogNotice(w) \/ SendNotice(w)
    <3>1. Goto(w, "logged") \/ Goto(w, "arm") \/ Goto(w, "log") \/ Goto(w, "notify")
      BY <2>10 DEF ReadAllowance, HasLogged, LogNotice, SendNotice
    <3> QED BY <2>4, <3>1 DEF SentPcs, ComingPcs, Pcs
  <2> QED BY <1>5, <2>5, <2>6, <2>7, <2>8, <2>9, <2>10 DEF Pass
<1> QED BY <1>3, <1>4, <1>5

LEMMA DispatchOverlaps ==
    ASSUME IInv, Overlap, NEW w \in Passes, Dispatch(w)
    PROVE  Overlap'
<1> DEFINE r == [Idle EXCEPT !.pc = "load", !.cards = {Head(queue)}]
<1>1. Head(queue) \in Signals BY HeadTailProperties DEF Dispatch, IInv, TypeOK
<1>2. r \in Jobs /\ r.pc = "load" /\ r.cards = {Head(queue)} BY <1>1 DEF Idle, Jobs, Pcs
<1>3. /\ job' = [job EXCEPT ![w] = r] /\ job[w].pc = "idle"
      /\ UNCHANGED <<cooling, alerts, failures>>
  BY DEF Dispatch, Free, At, user, ghosts
<1> HIDE DEF r
<1>4. r.pc \notin ComingPcs /\ job[w].pc \notin SentPcs BY <1>2, <1>3 DEF ComingPcs, SentPcs
<1> QED BY <1>1, <1>2, <1>3, <1>4, QuietOverlaps

(* What leaves the passes, the cooldowns and the alerts alone. *)
LEMMA AsideOverlaps ==
    ASSUME Overlap, \A w \in Passes : job'[w] = job[w], UNCHANGED <<cooling, alerts, failures>>
    PROVE  Overlap'
<1>1. \A pcs, s : Among(job', pcs, s) = Among(job, pcs, s) BY DEF Among
<1> QED BY <1>1 DEF Overlap, Coming, Sent, At

LEMMA ElapseOverlaps ==
    ASSUME IInv, Narrow, Overlap, NEW c \in Signals, Elapse(c)
    PROVE  Overlap'
<1>1. alerts \in [Signals -> Nat] BY DEF IInv, TypeOK
<1>2. /\ UNCHANGED <<job, failures>> /\ cooling' = cooling \ {c} /\ c \in cooling
      /\ alerts' = [alerts EXCEPT ![c] = 0]
  BY DEF Elapse
<1>3. \A s : Cardinality(Sent(s)) \in Nat BY ComingAndSent
<1>4. ASSUME failures = 0, NEW s \in Signals
      PROVE  IF s \in cooling' THEN alerts'[s] + Cardinality(Coming(s)) <= MaxBusy
                               ELSE alerts'[s] <= Cardinality(Sent(s))
  <2>1. CASE s = c
    <3>1. alerts'[s] = 0 /\ s \notin cooling' BY <1>1, <1>2, <2>1
    <3> QED BY <1>3, <3>1
  <2>2. CASE s # c
    <3>1. alerts'[s] = alerts[s] /\ (s \in cooling' <=> s \in cooling) BY <1>1, <1>2, <2>2
    <3> QED BY <1>4, <3>1 DEF Overlap
  <2> QED BY <2>1, <2>2
<1> QED BY <1>2, <1>4 DEF Overlap, Coming, Sent, At

LEMMA FailOverlaps ==
    ASSUME IInv, Overlap, NEW a \in Actors, Fail(a)
    PROVE  Overlap'
<1>1. job' = [job EXCEPT ![a] = Idle] /\ failures' = failures + 1 /\ failures \in Nat
  BY DEF Fail, Done, IInv, TypeOK
<1>2. failures' # 0 BY <1>1
<1>3. job \in [Actors -> Jobs] /\ Passes \subseteq Actors BY DEF IInv, TypeOK, Jobs, Actors
<1>4. \A w \in Passes : job'[w] = job[w] \/ job'[w].pc = "idle" BY <1>1, <1>3, IdleIs
<1> QED BY <1>2, <1>4 DEF Overlap, At

LEMMA Overlapped == IInv /\ Narrow /\ Overlap /\ [Next]_vars => Overlap'
<1> SUFFICES ASSUME IInv, Narrow, Overlap, [Next]_vars PROVE Overlap' OBVIOUS
<1>1. job \in [Actors -> Jobs] BY DEF IInv, TypeOK, Jobs
<1>2. CASE (\E s \in Signals : Publish(s) \/ Archive(s)) \/ DropStale \/ Upgrade
  BY <1>2, AsideOverlaps DEF Publish, Archive, DropStale, Upgrade, user, ghosts
<1>3. CASE \E s \in Signals : Elapse(s) BY <1>3, ElapseOverlaps
<1>4. ASSUME NEW w \in Passes, Dispatch(w) PROVE Overlap' BY <1>4, DispatchOverlaps
<1>5. ASSUME NEW w \in Passes, Pass(w) PROVE Overlap' BY <1>5, PassOverlaps
<1>6. ASSUME NEW v \in Views, OpenList(v) \/ View(v) PROVE Overlap'
  <2>1. v \notin Passes /\ Passes \subseteq Actors BY ActorsAssumption DEF Actors
  <2>2. UNCHANGED <<cooling, alerts, failures>>
    BY <1>6 DEF OpenList, View, ReadBudget, Render, Record, user, ghosts
  <2>3. \A w \in Passes : job'[w] = job[w]
    BY <1>1, <1>6, <2>1 DEF OpenList, View, ReadBudget, Render, Record, Done, Goto
  <2> QED BY <2>2, <2>3, AsideOverlaps
<1>7. ASSUME NEW a \in Actors, Fail(a) PROVE Overlap' BY <1>7, FailOverlaps
<1>8. CASE UNCHANGED vars BY <1>8, AsideOverlaps DEF vars
<1> QED BY <1>2, <1>3, <1>4, <1>5, <1>6, <1>7, <1>8 DEF Next

LEMMA InitiallyOverlap == Init => Overlap
<1> SUFFICES ASSUME Init PROVE Overlap OBVIOUS
<1>1. \A w \in Passes : At(w, "idle") BY DEF Init, Idle, At, Actors
<1>2. \A s \in Signals : alerts[s] = 0 /\ s \notin cooling BY DEF Init
<1>3. \A s : Cardinality(Sent(s)) \in Nat BY InitiallyNarrow, ComingAndSent
<1> QED BY <1>1, <1>2, <1>3 DEF Overlap

(* Without a failure an alert repeats within a cooldown at most as often as *)
(* passes run at once: each pass that sends it began before one armed it.   *)
THEOREM RepeatsAreConcurrent == Spec => []RepeatsOverlap
<1>1. IInv /\ Narrow /\ Overlap => RepeatsOverlap
  <2> SUFFICES ASSUME IInv, Narrow, Overlap, failures = 0, NEW s \in Signals
               PROVE  alerts[s] <= MaxBusy
    BY DEF RepeatsOverlap
  <2>1. alerts[s] \in Nat /\ MaxBusy \in Nat BY BoundsAssumption DEF IInv, TypeOK
  <2>2. /\ Cardinality(Coming(s)) \in Nat /\ Cardinality(Sent(s)) \in Nat
        /\ Cardinality(Coming(s)) + Cardinality(Sent(s)) <= MaxBusy
    BY ComingAndSent
  <2>3. IF s \in cooling THEN alerts[s] + Cardinality(Coming(s)) <= MaxBusy
                         ELSE alerts[s] <= Cardinality(Sent(s))
    BY DEF Overlap
  <2> QED BY <2>1, <2>2, <2>3
<1>2. Spec => []Overlap BY InitiallyOverlap, Overlapped, InFlightIsNarrow, Invariance, PTL DEF Spec
<1> QED BY <1>1, <1>2, InFlightIsNarrow, Invariance, PTL
=============================================================================
