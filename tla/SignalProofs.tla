---------------------------- MODULE SignalProofs ----------------------------
(***************************************************************************)
(* The signals, from their making to their end. The lifecycle invariants   *)
(* hold for any number of routes and venues, any time to live, and any     *)
(* interleaving of the tasks that expire signals. What the pipeline        *)
(* publishes and closes is sound, the profit it claims is cash, a degraded *)
(* venue counts against it, and what the detectors' floors drop would not  *)
(* have been published, for any venues, books, fees and limits.            *)
(***************************************************************************)
EXTENDS SignalLifecycle, Candidate, PricingProofs

(* The tasks of the manager itself do not bear a venue's name. *)
LEMMA TasksApart ==
  /\ Worker \in Tasks /\ Reconciler \in Tasks /\ Discovery \in Tasks
  /\ Worker \notin Venues /\ Reconciler \notin Venues /\ Discovery \notin Venues
  /\ Venues \subseteq Tasks
  BY NamesAreDistinct DEF Tasks, Worker, Reconciler, Discovery

Clocks ==
  /\ age \in [Routes -> Nat] /\ cool \in [Routes -> Nat]
  /\ \A r \in Routes : age[r] <= TTL[r] /\ cool[r] <= Cooldown[r]

LEMMA Durations == \A r \in Routes : TTL[r] \in Nat /\ TTL[r] > 0 /\ Cooldown[r] \in Nat
<1> TAKE r \in Routes
<1>1. TTL[r] \in Nat \ {0} /\ Cooldown[r] \in Nat
  BY RoutesAreConfigured
<1>2. QED  BY <1>1

(* Ages and cooldowns stay within their bounds when a life ends, when one   *)
(* begins, and when time passes.                                            *)
LEMMA ClocksOnExpiry ==
  ASSUME Clocks, NEW r \in Routes,
         age' = [age EXCEPT ![r] = 0], cool' = [cool EXCEPT ![r] = Cooldown[r]]
  PROVE  Clocks'
<1>1. age' \in [Routes -> Nat] /\ cool' \in [Routes -> Nat]
  BY Durations DEF Clocks
<1>2. ASSUME NEW q \in Routes PROVE age'[q] <= TTL[q] /\ cool'[q] <= Cooldown[q]
  <2>1. CASE q = r
    <3>1. age'[q] = 0 /\ cool'[q] = Cooldown[q]  BY <2>1 DEF Clocks
    <3>2. QED  BY <3>1, Durations
  <2>2. CASE q # r
    <3>1. age'[q] = age[q] /\ cool'[q] = cool[q]  BY <2>2 DEF Clocks
    <3>2. QED  BY <3>1 DEF Clocks
  <2>3. QED  BY <2>1, <2>2
<1>3. QED  BY <1>1, <1>2 DEF Clocks

LEMMA ClocksOnAdmission ==
  ASSUME Clocks, NEW r \in Routes, age' = [age EXCEPT ![r] = 0], cool' = cool
  PROVE  Clocks'
<1>1. age' \in [Routes -> Nat]
  BY DEF Clocks
<1>2. ASSUME NEW q \in Routes PROVE age'[q] <= TTL[q]
  <2>1. CASE q = r
    <3>1. age'[q] = 0  BY <2>1 DEF Clocks
    <3>2. QED  BY <3>1, Durations
  <2>2. CASE q # r
    <3>1. age'[q] = age[q]  BY <2>2 DEF Clocks
    <3>2. QED  BY <3>1 DEF Clocks
  <2>3. QED  BY <2>1, <2>2
<1>3. QED  BY <1>1, <1>2 DEF Clocks

LEMMA ClocksOnTick == ASSUME Clocks, Tick PROVE Clocks'
<1>1. ASSUME NEW q \in Routes
      PROVE  /\ age'[q] \in Nat /\ age'[q] <= TTL[q]
             /\ cool'[q] \in Nat /\ cool'[q] <= Cooldown[q]
  <2>1. age[q] \in Nat /\ age[q] <= TTL[q] /\ cool[q] \in Nat /\ cool[q] <= Cooldown[q]
    BY DEF Clocks
  <2>2. age'[q] = age[q] \/ (age[q] # TTL[q] /\ age'[q] = age[q] + 1)
    BY DEF Tick, Due
  <2>3. cool'[q] = IF cool[q] > 0 THEN cool[q] - 1 ELSE 0
    BY DEF Tick
  <2>4. QED  BY <2>1, <2>2, <2>3, Durations
<1>2. age' = [r \in Routes |-> age'[r]] /\ cool' = [r \in Routes |-> cool'[r]]
  BY DEF Tick
<1>3. QED  BY <1>1, <1>2 DEF Clocks

(* Whoever expires a route, and whatever it has left to expire, every       *)
(* variable keeps its shape.                                                *)
LEMMA ExpireTypes ==
  ASSUME TypeOK, NEW t \in Tasks, NEW r \in Routes, NEW rest \in SUBSET Routes,
         Expire(t, r, rest), UNCHANGED <<allowed, history, loop, spawned>>
  PROVE  TypeOK'
<1> USE DEF TypeOK
<1>1. CASE Tracked(r)
  <2>1. /\ active' = active \ {r} /\ handed' = handed \cup {r}
        /\ cool' = [cool EXCEPT ![r] = Cooldown[r]]
        /\ net' = [net EXCEPT ![r] = 0] /\ age' = [age EXCEPT ![r] = 0]
        /\ registry' = [registry EXCEPT ![r] = Unlisted]
        /\ task' = [task EXCEPT ![t] = [todo |-> rest, saving |-> r]]
    BY <1>1 DEF Expire, Forget
  <2>2. /\ age' \in [Routes -> Nat] /\ cool' \in [Routes -> Nat]
        /\ \A q \in Routes : age'[q] <= TTL[q] /\ cool'[q] <= Cooldown[q]
    BY <2>1, ClocksOnExpiry DEF Clocks
  <2>3. net' \in [Routes -> Nets \cup {0}] /\ \A q \in active' : net'[q] \in Nets
    BY <2>1
  <2>4. registry' \in [Routes -> Nets \cup {Unlisted}]
    BY <2>1
  <2>5. task' \in [Tasks -> [todo : SUBSET Routes, saving : Routes \cup {Nothing}]]
    BY <2>1
  <2>6. QED  BY <2>1, <2>2, <2>3, <2>4, <2>5
<1>2. CASE ~Tracked(r)
  <2>1. task' = [task EXCEPT ![t] = [todo |-> rest, saving |-> Nothing]]
        /\ UNCHANGED <<active, handed, net, age, cool, registry>>
    BY <1>2 DEF Expire
  <2>2. task' \in [Tasks -> [todo : SUBSET Routes, saving : Routes \cup {Nothing}]]
    BY <2>1
  <2>3. QED  BY <2>1, <2>2
<1>3. QED  BY <1>1, <1>2

(* Every step keeps the shape of every variable. *)
LEMMA TypeStep == TypeOK /\ [Next]_vars => TypeOK'
<1> SUFFICES ASSUME TypeOK, [Next]_vars PROVE TypeOK'
  OBVIOUS
<1> USE TasksApart
<1>1. ASSUME NEW t \in {Worker, Reconciler}, NEW r \in Routes, Candidate(t, r)
      PROVE  TypeOK'
  <2>1. ASSUME NEW n \in Nets, Admit(t, r, n) PROVE TypeOK'
    <3>1. /\ age \in [Routes -> Nat] /\ cool \in [Routes -> Nat]
          /\ \A q \in Routes : age[q] <= TTL[q] /\ cool[q] <= Cooldown[q]
      BY DEF TypeOK
    <3>2. Clocks'
      BY <2>1, <3>1, ClocksOnAdmission DEF Admit, Clocks
    <3>3. QED  BY <2>1, <3>2 DEF Admit, Show, Clocks, TypeOK
  <2>2. ASSUME NEW n \in Nets, Update(t, r, n) PROVE TypeOK'
    <3>1. Clocks
      BY DEF TypeOK, Clocks
    <3>2. Clocks'
      <4>1. CASE r \in Rolling  BY <2>2, <3>1, <4>1, ClocksOnAdmission DEF Update
      <4>2. CASE r \notin Rolling  BY <2>2, <3>1, <4>2 DEF Update, Clocks
      <4>3. QED  BY <4>1, <4>2
    <3>3. registry' \in [Routes -> Nets \cup {Unlisted}]
      <4>1. registry' = registry \/ registry' = [registry EXCEPT ![r] = n]
        BY <2>2 DEF Update, Show
      <4>2. QED  BY <4>1 DEF TypeOK
    <3>4. net' \in [Routes -> Nets \cup {0}] /\ \A q \in active : net'[q] \in Nets
      BY <2>2 DEF Update, TypeOK
    <3>5. UNCHANGED <<allowed, active, history, handed, loop, task, spawned>>
      BY <2>2 DEF Update
    <3>6. QED  BY <3>2, <3>3, <3>4, <3>5 DEF Clocks, TypeOK
  <2>3. CASE SpreadGone(t, r)
    BY <2>3, ExpireTypes DEF SpreadGone
  <2>4. QED  BY <1>1, <2>1, <2>2, <2>3 DEF Candidate
<1>2. ASSUME NEW t \in Tasks, Run(t) PROVE TypeOK'
  <2>1. CASE ExpireNext(t)
    <3>1. PICK r \in task[t].todo : Expire(t, r, task[t].todo \ {r})
      BY <2>1 DEF ExpireNext
    <3>2. task[t].todo \subseteq Routes
      BY DEF TypeOK
    <3>3. QED  BY <2>1, <3>1, <3>2, ExpireTypes DEF ExpireNext
  <2>2. CASE Archived(t)  BY <2>2 DEF Archived, Suspended, TypeOK
  <2>3. CASE ArchiveFails(t)  BY <2>3 DEF ArchiveFails, TypeOK
  <2>4. QED  BY <1>2, <2>1, <2>2, <2>3 DEF Run
<1>3. CASE Loop
  <2>1. CASE StartSweep  BY <2>1 DEF StartSweep, TypeOK
  <2>2. CASE StartScan  BY <2>2 DEF StartScan, TypeOK
  <2>3. CASE EndScan  BY <2>3 DEF EndScan, TypeOK
  <2>4. QED  BY <1>3, <2>1, <2>2, <2>3 DEF Loop
<1>4. ASSUME NEW v \in Venues, VenueOut(v) PROVE TypeOK'
  BY <1>4 DEF VenueOut, TypeOK
<1>5. ASSUME NEW v \in Venues, VenueBack(v) PROVE TypeOK'
  BY <1>5 DEF VenueBack, TypeOK
<1>6. ASSUME NEW v \in Venues, StartForceExpire(v) PROVE TypeOK'
  BY <1>6 DEF StartForceExpire, TypeOK
<1>7. ASSUME NEW pair, Delist(pair) PROVE TypeOK'
  BY <1>7 DEF Delist, TypeOK
<1>8. CASE Tick
  <2>1. Clocks'
    BY <1>8, ClocksOnTick DEF TypeOK, Clocks
  <2>2. QED  BY <1>8, <2>1 DEF Tick, Clocks, TypeOK
<1>9. CASE UNCHANGED vars
  BY <1>9 DEF vars, TypeOK
<1>10. QED
  BY <1>1, <1>2, <1>3, <1>4, <1>5, <1>6, <1>7, <1>8, <1>9 DEF Next

LEMMA TypeInit == Init => TypeOK
  BY NetsAreNumbers, RoutesAreConfigured DEF Init, TypeOK, AtRest, Unlisted

(* Type correctness: the state of the lifecycle manager, the registry and   *)
(* the tasks keeps its shape.                                               *)
THEOREM TypeCorrect == Spec => []TypeOK
  BY TypeInit, TypeStep, PTL DEF Spec

-----------------------------------------------------------------------------

(* The three invariants and the types are inductive together. *)
IInv == TypeOK /\ ListedIsActive /\ ArchivedOnce /\ IneligibleIsExpiring

(* An expiry keeps them, as long as a venue's own task drops from its list  *)
(* only the route it expires.                                               *)
LEMMA ExpireKeeps ==
  ASSUME IInv, NEW t \in Tasks, NEW r \in Routes, NEW rest \in SUBSET Routes,
         Expire(t, r, rest), UNCHANGED <<allowed, history, loop, spawned>>,
         t \in Venues => task[t].todo \ {r} \subseteq rest
  PROVE  IInv'
<1>1. TypeOK'
  BY ExpireTypes DEF IInv
<1>2. ListedIsActive'
  BY DEF IInv, TypeOK, ListedIsActive, Expire, Tracked, Unlisted
<1>3. ArchivedOnce'
  BY DEF IInv, ArchivedOnce, Expire
<1>4. IneligibleIsExpiring'
  <2> SUFFICES ASSUME NEW q \in Routes, Tracked(q)', NEW v \in VenuesOf[q], v \notin allowed'
               PROVE  (v \in spawned \/ q \in task[v].todo)'
    BY DEF IneligibleIsExpiring
  <2>1. q # r /\ Tracked(q)
    BY DEF Expire, Tracked
  <2>2. v \in Venues /\ v \in Tasks
    BY RoutesAreConfigured, TasksApart
  <2>3. v \in spawned \/ q \in task[v].todo
    BY <2>1 DEF IInv, IneligibleIsExpiring
  <2>4. task'[v].todo = IF v = t THEN rest ELSE task[v].todo
    BY <2>2 DEF Expire, IInv, TypeOK
  <2>5. QED  BY <2>1, <2>2, <2>3, <2>4
<1>5. QED  BY <1>1, <1>2, <1>3, <1>4 DEF IInv

LEMMA InductiveStep == IInv /\ [Next]_vars => IInv'
<1> SUFFICES ASSUME IInv, [Next]_vars PROVE IInv'
  OBVIOUS
<1> USE TasksApart
<1>t. TypeOK /\ TypeOK'
  BY TypeStep DEF IInv
<1>1. ASSUME NEW t \in {Worker, Reconciler}, NEW r \in Routes, Candidate(t, r)
      PROVE  IInv'
  <2>1. ASSUME NEW n \in Nets, Admit(t, r, n) PROVE IInv'
    <3>1. ListedIsActive' /\ ArchivedOnce'
      BY <2>1 DEF Admit, Show, IInv, ListedIsActive, ArchivedOnce, TypeOK, Tracked
    <3>2. IneligibleIsExpiring'
      BY <2>1 DEF Admit, Eligible, IInv, IneligibleIsExpiring, Tracked
    <3>3. QED  BY <1>t, <3>1, <3>2 DEF IInv
  <2>2. ASSUME NEW n \in Nets, Update(t, r, n) PROVE IInv'
    <3>1. ListedIsActive' /\ ArchivedOnce'
      BY <2>2 DEF Update, Show, IInv, ListedIsActive, ArchivedOnce, TypeOK, Tracked
    <3>2. IneligibleIsExpiring'
      BY <2>2 DEF Update, IInv, IneligibleIsExpiring, Tracked
    <3>3. QED  BY <1>t, <3>1, <3>2 DEF IInv
  <2>3. CASE SpreadGone(t, r)
    BY <2>3, ExpireKeeps DEF SpreadGone
  <2>4. QED  BY <1>1, <2>1, <2>2, <2>3 DEF Candidate
<1>2. ASSUME NEW t \in Tasks, Run(t) PROVE IInv'
  <2>1. CASE ExpireNext(t)
    <3>1. PICK r \in task[t].todo : Expire(t, r, task[t].todo \ {r})
      BY <2>1 DEF ExpireNext
    <3>2. task[t].todo \subseteq Routes
      BY <1>t DEF TypeOK
    <3>3. QED  BY <2>1, <3>1, <3>2, ExpireKeeps DEF ExpireNext
  <2>2. CASE Archived(t) \/ ArchiveFails(t)
    <3>1. \A v \in Venues : task'[v].todo = task[v].todo
      BY <1>t, <2>2 DEF Archived, ArchiveFails, TypeOK
    <3>2. UNCHANGED <<allowed, active, registry, handed, spawned>>
      BY <2>2 DEF Archived, ArchiveFails
    <3>3. QED
      BY <1>t, <3>1, <3>2, RoutesAreConfigured
      DEF IInv, ListedIsActive, ArchivedOnce, IneligibleIsExpiring, Tracked
  <2>3. QED  BY <1>2, <2>1, <2>2 DEF Run
<1>3. CASE Loop
  <2>1. \A v \in Venues : task'[v].todo = task[v].todo
    BY <1>t, <1>3 DEF Loop, StartSweep, StartScan, EndScan, TypeOK
  <2>2. UNCHANGED <<allowed, active, registry, handed, spawned>>
    BY <1>3 DEF Loop, StartSweep, StartScan, EndScan
  <2>3. QED
    BY <1>t, <2>1, <2>2, RoutesAreConfigured
    DEF IInv, ListedIsActive, ArchivedOnce, IneligibleIsExpiring, Tracked
<1>4. ASSUME NEW v \in Venues, VenueOut(v) PROVE IInv'
  BY <1>t, <1>4 DEF VenueOut, IInv, ListedIsActive, ArchivedOnce, IneligibleIsExpiring, Tracked
<1>5. ASSUME NEW v \in Venues, VenueBack(v) PROVE IInv'
  BY <1>t, <1>5 DEF VenueBack, IInv, ListedIsActive, ArchivedOnce, IneligibleIsExpiring, Tracked
<1>6. ASSUME NEW v \in Venues, StartForceExpire(v) PROVE IInv'
  <2>1. \A w \in Venues : task'[w].todo = IF w = v
            THEN task[v].todo \cup {r \in Routes : Tracked(r) /\ v \in VenuesOf[r]}
            ELSE task[w].todo
    BY <1>t, <1>6 DEF StartForceExpire, TypeOK
  <2>2. spawned' = spawned \ {v} /\ UNCHANGED <<allowed, active, registry, handed>>
    BY <1>6 DEF StartForceExpire
  <2>3. IneligibleIsExpiring'
    <3> SUFFICES ASSUME NEW q \in Routes, q \in active, NEW w \in VenuesOf[q], w \notin allowed
                 PROVE  w \in spawned' \/ q \in task'[w].todo
      BY <2>2 DEF IneligibleIsExpiring, Tracked
    <3>1. w \in spawned \/ q \in task[w].todo
      BY DEF IInv, IneligibleIsExpiring, Tracked
    <3>2. w \in Venues
      BY RoutesAreConfigured
    <3>3. QED  BY <2>1, <2>2, <3>1, <3>2 DEF Tracked
  <2>4. QED  BY <1>t, <2>2, <2>3 DEF IInv, ListedIsActive, ArchivedOnce, Tracked
<1>7. ASSUME NEW pair, Delist(pair) PROVE IInv'
  <2>1. \A v \in Venues : task'[v].todo = task[v].todo
    BY <1>t, <1>7 DEF Delist, TypeOK
  <2>2. UNCHANGED <<allowed, active, registry, handed, spawned>>
    BY <1>7 DEF Delist
  <2>3. QED
    BY <1>t, <2>1, <2>2, RoutesAreConfigured
    DEF IInv, ListedIsActive, ArchivedOnce, IneligibleIsExpiring, Tracked
<1>8. CASE Tick \/ UNCHANGED vars
  BY <1>t, <1>8 DEF Tick, vars, IInv, ListedIsActive, ArchivedOnce, IneligibleIsExpiring, Tracked
<1>9. QED
  BY <1>1, <1>2, <1>3, <1>4, <1>5, <1>6, <1>7, <1>8 DEF Next

LEMMA Inductive == Spec => []IInv
<1>1. Init => IInv
  BY TypeInit DEF Init, IInv, ListedIsActive, ArchivedOnce, IneligibleIsExpiring, Tracked
<1>2. QED  BY <1>1, InductiveStep, PTL DEF Spec

(* The bot never lists a signal the engine no longer tracks, whichever task *)
(* expired it and however long its archival takes.                          *)
THEOREM ListedSignalsAreActive == Spec => []ListedIsActive
  BY Inductive, PTL DEF IInv

(* However many tasks race to expire a signal, it is archived once. *)
THEOREM NoDoubleArchival == Spec => []ArchivedOnce
  BY Inductive, PTL DEF IInv

(* A signal tracked across a venue that is not eligible is on the list of a *)
(* task that will expire it: no admission or retreat slips past it.         *)
THEOREM NoSignalOutlivesItsVenue == Spec => []IneligibleIsExpiring
  BY Inductive, PTL DEF IInv

------------------------------------------------------------------------------
(* The lifecycle implements LiveSignals. IInv supplies the one hard step:   *)
(* what a venue's task has not reached is on its list, so an empty list     *)
(* means that no signal of a venue that is still out is left.               *)
Owes == spawned \cup {v \in Venues : task[v].todo # {}}

(* A step that leaves the venues and what they owe alone.                   *)
LEMMA TurnsOver ==
  ASSUME TypeOK, active' \subseteq Routes, UNCHANGED <<allowed, Owes>>,
         \A r \in active' \ active : Eligible(r)
  PROVE  [Contract!Next]_Contract!signalVars
<1>1. \A s \in {<<r, VenuesOf[r]>> : r \in active'} \ {<<r, VenuesOf[r]>> : r \in active} :
          s[2] \cap (Venues \ allowed) = {}
  BY DEF Eligible
<1>2. Contract!Turnover
  BY <1>1 DEF Contract!Turnover, Owes
<1>3. QED  BY <1>2 DEF Contract!Next

LEMMA OwesStands ==
  ASSUME spawned' = spawned, \A v \in Venues : task'[v].todo = task[v].todo
  PROVE  Owes' = Owes
  BY DEF Owes

(* An expiry by a task that is no venue's, or by a venue's that goes on.    *)
LEMMA ExpireContract ==
  ASSUME IInv, NEW t \in Tasks, NEW r \in Routes, NEW rest \in SUBSET Routes,
         Expire(t, r, rest), UNCHANGED <<allowed, spawned>>,
         t \in Venues => rest = task[t].todo \ {r} /\ r \in task[t].todo
  PROVE  [Contract!Next]_Contract!signalVars
<1>0. TypeOK  BY DEF IInv
<1>1. active' = active \ {r}  BY DEF Expire, Tracked
<1>2. \A v \in Venues : task'[v].todo = IF v = t THEN rest ELSE task[v].todo
  BY <1>0, TasksApart DEF Expire, TypeOK
<1>3. CASE t \notin Venues \/ rest # {} \/ t \in spawned
  <2>1. Owes' = Owes
    <3>1. \A v \in Venues : v # t => task'[v].todo = task[v].todo  BY <1>2
    <3>2. t \in Venues => task[t].todo # {} /\ task'[t].todo = rest  BY <1>2
    <3>3. QED  BY <1>3, <3>1, <3>2 DEF Owes
  <2>2. active' \subseteq Routes  BY <1>0, <1>1 DEF TypeOK
  <2>3. QED  BY <1>0, <1>1, <2>1, <2>2, TurnsOver
<1>4. CASE t \in Venues /\ rest = {} /\ t \notin spawned
  <2>1. t \in Owes /\ Owes' = Owes \ {t}
    <3>1. \A v \in Venues : v # t => task'[v].todo = task[v].todo  BY <1>2
    <3>2. task'[t].todo = {} /\ task[t].todo # {}  BY <1>2, <1>4
    <3>3. QED  BY <1>4, <3>1, <3>2 DEF Owes
  <2>2. task[t].todo \subseteq {r}  BY <1>4
  <2>3. ASSUME t \notin allowed, NEW q \in active' PROVE t \notin VenuesOf[q]
    <3>1. q \in Routes /\ q \in active /\ q # r  BY <1>0, <1>1 DEF TypeOK
    <3>2. QED  BY <1>4, <2>2, <2>3, <3>1 DEF IInv, IneligibleIsExpiring, Tracked
  <2>4. Contract!Settles(t)
    <3>1. {<<q, VenuesOf[q]>> : q \in active'} \subseteq {<<q, VenuesOf[q]>> : q \in active}
      BY <1>1
    <3>2. t \in Venues \ allowed =>
             \A s \in {<<q, VenuesOf[q]>> : q \in active'} : t \notin s[2]
      BY <2>3
    <3>3. QED  BY <2>1, <3>1, <3>2 DEF Contract!Settles, Owes
  <2>5. QED  BY <1>4, <2>4 DEF Contract!Next
<1>5. QED  BY <1>3, <1>4

LEMMA ContractStep == IInv /\ [Next]_vars => [Contract!Next]_Contract!signalVars
<1> SUFFICES ASSUME IInv, [Next]_vars PROVE [Contract!Next]_Contract!signalVars
  OBVIOUS
<1> USE TasksApart
<1>t. TypeOK /\ TypeOK'
  BY TypeStep DEF IInv
<1>a. active' \subseteq Routes /\ active \subseteq Routes
  BY <1>t DEF TypeOK
<1>1. ASSUME NEW t \in {Worker, Reconciler}, NEW r \in Routes, Candidate(t, r)
      PROVE  [Contract!Next]_Contract!signalVars
  <2>1. ASSUME NEW n \in Nets, Admit(t, r, n) \/ Update(t, r, n)
        PROVE  [Contract!Next]_Contract!signalVars
    <3>1. /\ UNCHANGED <<allowed, spawned, task>>
          /\ \A q \in active' \ active : Eligible(q)
      BY <2>1 DEF Admit, Update
    <3>2. Owes' = Owes  BY <3>1, OwesStands
    <3>3. QED  BY <1>t, <1>a, <3>1, <3>2, TurnsOver
  <2>2. CASE SpreadGone(t, r)
    BY <2>2, ExpireContract DEF SpreadGone
  <2>3. QED  BY <1>1, <2>1, <2>2 DEF Candidate
<1>2. ASSUME NEW t \in Tasks, Run(t) PROVE [Contract!Next]_Contract!signalVars
  <2>1. CASE ExpireNext(t)
    <3>1. PICK r \in task[t].todo : Expire(t, r, task[t].todo \ {r})
      BY <2>1 DEF ExpireNext
    <3>2. task[t].todo \subseteq Routes
      BY <1>t DEF TypeOK
    <3>3. QED  BY <2>1, <3>1, <3>2, ExpireContract DEF ExpireNext
  <2>2. CASE Archived(t) \/ ArchiveFails(t)
    <3>1. \A v \in Venues : task'[v].todo = task[v].todo
      BY <1>t, <2>2 DEF Archived, ArchiveFails, TypeOK
    <3>2. UNCHANGED <<allowed, active, spawned>>
      BY <2>2 DEF Archived, ArchiveFails
    <3>3. QED  BY <1>t, <1>a, <3>1, <3>2, OwesStands, TurnsOver
  <2>3. QED  BY <1>2, <2>1, <2>2 DEF Run
<1>3. CASE Loop \/ (\E pair : Delist(pair)) \/ Tick \/ UNCHANGED vars
  <2>1. \A v \in Venues : task'[v].todo = task[v].todo
    BY <1>t, <1>3 DEF Loop, StartSweep, StartScan, EndScan, Delist, Tick, vars, TypeOK
  <2>2. UNCHANGED <<allowed, active, spawned>>
    BY <1>3 DEF Loop, StartSweep, StartScan, EndScan, Delist, Tick, vars
  <2>3. QED  BY <1>t, <1>a, <2>1, <2>2, OwesStands, TurnsOver
<1>4. ASSUME NEW v \in Venues, VenueOut(v) PROVE Contract!GoesOut(v)
  <2>1. Owes' = Owes \cup {v} /\ Venues \ allowed' = (Venues \ allowed) \cup {v}
    BY <1>4 DEF VenueOut, Owes
  <2>2. QED  BY <1>4, <2>1 DEF VenueOut, Contract!GoesOut, Owes
<1>5. ASSUME NEW v \in Venues, VenueBack(v) PROVE Contract!ComesBack(v)
  <2>1. Venues \ allowed' = (Venues \ allowed) \ {v} /\ v \in Venues \ allowed
    BY <1>5 DEF VenueBack
  <2>2. QED  BY <1>5, <2>1 DEF VenueBack, Contract!ComesBack
<1>6. ASSUME NEW v \in Venues, StartForceExpire(v)
      PROVE  [Contract!Next]_Contract!signalVars
  <2> DEFINE found == {r \in Routes : Tracked(r) /\ v \in VenuesOf[r]}
  <2>1. \A w \in Venues : task'[w].todo = IF w = v THEN task[v].todo \cup found
                                          ELSE task[w].todo
    BY <1>t, <1>6 DEF StartForceExpire, TypeOK
  <2>2. v \in spawned /\ spawned' = spawned \ {v} /\ UNCHANGED <<allowed, active>>
    BY <1>6 DEF StartForceExpire
  <2>3. CASE task[v].todo \cup found # {}
    <3>1. Owes' = Owes
      <4>1. \A w \in Venues : w # v => task'[w].todo = task[w].todo  BY <2>1
      <4>2. task'[v].todo # {}  BY <2>1, <2>3
      <4>3. QED  BY <2>2, <4>1, <4>2 DEF Owes
    <3>2. QED  BY <1>t, <1>a, <2>2, <3>1, TurnsOver
  <2>4. CASE task[v].todo \cup found = {}
    <3>1. v \in Owes /\ Owes' = Owes \ {v}
      <4>1. \A w \in Venues : w # v => task'[w].todo = task[w].todo  BY <2>1
      <4>2. task'[v].todo = {}  BY <2>1, <2>4
      <4>3. QED  BY <2>2, <4>1, <4>2 DEF Owes
    <3>2. \A s \in {<<q, VenuesOf[q]>> : q \in active} : v \notin s[2]
      BY <1>a, <2>4 DEF Tracked
    <3>3. Contract!Settles(v)
      BY <2>2, <3>1, <3>2 DEF Contract!Settles, Owes
    <3>4. QED  BY <3>3 DEF Contract!Next
  <2>5. QED  BY <2>3, <2>4
<1>7. QED
  BY <1>1, <1>2, <1>3, <1>4, <1>5, <1>6 DEF Next, Contract!Next

(* Signals go live only while their venues are in service, and a venue that *)
(* went out is through with its signals only when none is left.             *)
THEOREM LifecycleKeepsContract == Spec => KeepsContract
<1>1. Init => Contract!Init
  BY TasksApart DEF Init, Contract!Init, AtRest
<1>2. QED  BY <1>1, ContractStep, Inductive, PTL DEF Spec, KeepsContract, Contract!Spec

(* What the contract is for: a live signal of a venue that is out is about  *)
(* to be expired.                                                           *)
LEMMA ContractSuffices == Contract!Spec => []Contract!Owed
<1>1. Contract!Init => Contract!Owed
  BY DEF Contract!Init, Contract!Owed
<1>2. Contract!Owed /\ [Contract!Next]_Contract!signalVars => Contract!Owed'
  BY DEF Contract!Owed, Contract!Next, Contract!signalVars, Contract!Turnover,
         Contract!GoesOut, Contract!Settles, Contract!ComesBack
<1>3. QED  BY <1>1, <1>2, PTL DEF Contract!Spec

------------------------------------------------------------------------------
(* From here on, the pipeline that produces the signals (Candidate).        *)

(* Nothing a detector looks at has changed when no venue sent anything.     *)
LEMMA SameSpots ==
  ASSUME UNCHANGED outside
  PROVE  Quoting' = Quoting /\ Pooling' = Pooling /\ Rated' = Rated
  BY DEF outside, Quoting, Pooling, Rated, Here, Now, Up

LEMMA SameSeen == ASSUME UNCHANGED outside PROVE Seen' = Seen
<1>1. market' = market /\ setup' = setup  BY DEF outside
<1>2. CexCex' = CexCex  BY <1>1, SameSpots DEF CexCex, Lowest, Highest
<1>3. CexDex' = CexDex  BY <1>1, SameSpots DEF CexDex, Book
<1>4. DexDex' = DexDex  BY <1>1, SameSpots DEF DexDex, Cheaper, Apart, Book
<1>5. CrossChain' = CrossChain
  BY <1>1, SameSpots DEF CrossChain, Cheaper, Apart, Book
<1>6. Now.lead' = Now.lead  BY <1>1 DEF Now
<1>7. Funding' = Funding
  <2>1. Rated' = Rated  BY SameSpots
  <2>2. Funding' = IF Cardinality(Rated) < 2 \/ ~Now.lead THEN {}
                   ELSE LET low  == Lowest(Rated, LAMBDA v : market[v].rate[1])
                            high == Highest(Rated, LAMBDA v : market[v].rate[1])
                        IN  IF low = high THEN {}
                            ELSE {Opportunity("FUNDING", low, high, None,
                                              Annual(high) \ominus Annual(low))}
    BY <1>1, <1>6, <2>1 DEF Funding, Annual, Lowest, Highest
  <2>3. QED  BY <2>2 DEF Funding
<1>8. QED  BY <1>2, <1>3, <1>4, <1>5, <1>7 DEF Seen, Spots

(* The first gate that fails names the verdict.                             *)
LEMMA FirstFailed ==
  ASSUME NEW s \in SUBSET Nat, s # {}
  PROVE  First(s) \in s /\ \A i \in s : First(s) <= i
<1>1. IsWellFoundedOn(OpToRel(<, Nat), Nat)  BY NatLessThanWellFounded, Zenon
<1>2. PICK i \in s : \A j \in s : ~(<<j, i>> \in OpToRel(<, Nat))
  BY <1>1, WFMin, Zenon
<1>3. \A j \in s : <<j, i>> \in Nat \X Nat  OBVIOUS
<1>4. \A j \in s : ~(j < i)  BY <1>2, <1>3 DEF OpToRel
<1>5. \E k \in s : \A j \in s : k <= j  BY <1>4
<1>6. QED  BY <1>5 DEF First

LEMMA TheGates ==
  ASSUME NEW m
  PROVE  /\ Failed(Gates(m)) \in SUBSET (1..12)
         /\ \A i \in 1..12 : Gates(m)[i][2] # "SIGNAL"
         /\ 1 \in Failed(Gates(m)) <=> ~Plausible(m)
         /\ 2 \in Failed(Gates(m)) <=> ~m.bridged
         /\ 3 \in Failed(Gates(m)) <=> m.net \prec MinNet \/ m.roi \prec MinRoi
         /\ 6 \in Failed(Gates(m)) <=> ~FeesResolved(m.fees)
         /\ 10 \in Failed(Gates(m)) <=> ~m.fresh
         /\ 11 \in Failed(Gates(m)) <=> ~m.up
         /\ Gates(m)[3][2] = "BELOW_MIN_PROFIT"
<1>1. DOMAIN Gates(m) = 1..12  BY DEF Gates
<1>2. \A i \in 1..12 : Gates(m)[i][2] # "SIGNAL"  BY DEF Gates
<1>3. \A i \in 1..12 : i \in Failed(Gates(m)) <=> Gates(m)[i][1]
  BY <1>1 DEF Failed
<1>4. /\ Gates(m)[1][1] <=> (Implausible \prec m.spread)
      /\ Gates(m)[2][1] <=> ~m.bridged
      /\ Gates(m)[3][1] <=> m.net \prec MinNet \/ m.roi \prec MinRoi
      /\ Gates(m)[6][1] <=> ~FeesResolved(m.fees)
      /\ Gates(m)[10][1] <=> ~m.fresh
      /\ Gates(m)[11][1] <=> ~m.up
      /\ Gates(m)[3][2] = "BELOW_MIN_PROFIT"
  BY DEF Gates
<1>5. Failed(Gates(m)) \in SUBSET (1..12)  BY <1>1 DEF Failed
<1>6. Plausible(m) <=> ~(Implausible \prec m.spread)  BY DEF Plausible, \preceq
<1> HIDE DEF Plausible
<1>7. {1, 2, 3, 6, 10, 11} \subseteq 1..12
  OBVIOUS
<1>8. QED  BY <1>2, <1>3, <1>4, <1>5, <1>6, <1>7, Zenon

LEMMA SignalPasses ==
  ASSUME NEW m, Validate(m) = "SIGNAL"
  PROVE  /\ m.bridged /\ m.fresh /\ m.up /\ FeesResolved(m.fees)
         /\ ~(m.net \prec MinNet) /\ ~(m.roi \prec MinRoi)
<1>1. Failed(Gates(m)) = {}
  <2> SUFFICES ASSUME Failed(Gates(m)) # {} PROVE FALSE
    OBVIOUS
  <2>0. Failed(Gates(m)) \in SUBSET (1..12)  BY TheGates
  <2>1. First(Failed(Gates(m))) \in 1..12  BY <2>0, FirstFailed
  <2>2. Validate(m) = Gates(m)[First(Failed(Gates(m)))][2]
    BY DEF Validate, Reason
  <2>3. QED  BY <2>1, <2>2, TheGates
<1>2. QED  BY <1>1, TheGates

LEMMA TooLittleIsClosed ==
  ASSUME NEW m, Plausible(m), m.bridged, m.net \prec MinNet \/ m.roi \prec MinRoi
  PROVE  Validate(m) = "BELOW_MIN_PROFIT"
<1> DEFINE failed == Failed(Gates(m))
<1>1. 1 \notin failed /\ 2 \notin failed /\ 3 \in failed /\ failed \subseteq 1..12
  BY TheGates
<1>2. First(failed) \in failed /\ First(failed) <= 3
  BY <1>1, FirstFailed
<1>3. First(failed) = 3  BY <1>1, <1>2
<1>4. QED  BY <1>1, <1>3, TheGates DEF Validate, Reason

(* What a verdict has to keep to, whoever reaches it.                       *)
Reachable(c) == c.type = "CROSS_CHAIN" => BridgeTime <= MaxBridge
Earns(m) == ~(m.net \prec MinNet) /\ ~(m.roi \prec MinRoi)
Deserved(c, result, m, w) ==
  /\ result = "SIGNAL" => /\ Up(c.buy) /\ Up(c.sell) /\ FeesResolved(m.fees)
                          /\ c.type # "FUNDING" => Oldness(w) <= MaxAge(c)
                          /\ Reachable(c) /\ Earns(m)
  /\ m # None /\ result \notin Closing /\ Plausible(m) /\ Reachable(c) => Earns(m)
  /\ c.type = "FUNDING" \/ ~PreGated(c) \/ result \in Closing

LEMMA ValidatedIsDeserved ==
  ASSUME NEW c, NEW m, NEW w,
         m.bridged = Reachable(c),
         m.up = (Up(c.buy) /\ Up(c.sell)),
         c.type # "FUNDING" => m.fresh = (Oldness(w) <= MaxAge(c)),
         c.type = "FUNDING" \/ ~PreGated(c)
  PROVE  Deserved(c, Validate(m), m, w)
<1>1. ASSUME Validate(m) = "SIGNAL"
      PROVE  /\ Up(c.buy) /\ Up(c.sell) /\ FeesResolved(m.fees)
             /\ c.type # "FUNDING" => Oldness(w) <= MaxAge(c)
             /\ Reachable(c) /\ Earns(m)
  BY <1>1, SignalPasses DEF Earns
<1>2. ASSUME Validate(m) \notin Closing, Plausible(m), Reachable(c)
      PROVE  Earns(m)
  BY <1>2, TooLittleIsClosed DEF Earns, Closing
<1>3. QED  BY <1>1, <1>2 DEF Deserved

LEMMA MeasuredIsDeserved ==
  ASSUME NEW c, NEW w, NEW gas, NEW e, NEW sized,
         NEW m, m = Measured(c, w, gas, e, sized), ~PreGated(c)
  PROVE  Deserved(c, Result(m), m, w)
<1>1. CASE sized.best = None
  <2>1. m = None  BY <1>1 DEF Measured, Assessed
  <2>2. Result(m) = "NO_VIABLE_SIZE"  BY <2>1 DEF Result
  <2>3. QED  BY <2>1, <2>2 DEF Deserved
<1>2. CASE sized.best # None
  <2>1. /\ m.bridged = Reachable(c)
        /\ m.up = (Up(c.buy) /\ Up(c.sell))
        /\ m.fresh = (Oldness(w) <= MaxAge(c))
    BY <1>2 DEF Measured, Assessed, Reachable, VenuesUp
  <2>2. Deserved(c, Validate(m), m, w)  BY <2>1, ValidatedIsDeserved
  <2>3. CASE m = None
    <3>1. Result(m) = "NO_VIABLE_SIZE"  BY <2>3 DEF Result
    <3>2. QED  BY <2>3, <3>1 DEF Deserved
  <2>4. CASE m # None
    <3>1. Result(m) = Validate(m)  BY <2>4 DEF Result
    <3>2. QED  BY <2>2, <3>1
  <2>5. QED  BY <2>3, <2>4
<1>3. QED  BY <1>1, <1>2

LEMMA CarryIsDeserved ==
  ASSUME NEW c, NEW e, c.type = "FUNDING", NEW m, m = CarryMeasured(c, e)
  PROVE  Deserved(c, CarryResult(m), m, None)
<1>1. m.bridged = TRUE /\ m.up = (Up(c.buy) /\ Up(c.sell))
  BY DEF CarryMeasured, CarryOf, Carry
<1>2. Deserved(c, Validate(m), m, None)
  BY <1>1, ValidatedIsDeserved DEF Reachable
<1>3. CarryResult(m) = Validate(m) \/ CarryResult(m) = "UNPROFITABLE_AFTER_FEES"
  BY DEF CarryResult
<1>4. QED  BY <1>2, <1>3 DEF Deserved, Closing

(* Every verdict is deserved, whichever of the assembler's ways it came.    *)
Concluding ==
  /\ \E c, result, m, w, e :
        Conclude(c, result, m, w, e) /\ Deserved(c, result, m, w) /\ UNCHANGED outside
  /\ waiting' = waiting \/ waiting' = None

LEMMA AssembledIsDeserved ==
  ASSUME UNCHANGED outside, waiting' = waiting \/ waiting' = None,
         NEW c, NEW w, NEW gas, NEW sized, Verdict(c, w, gas, sized), ~PreGated(c)
  PROVE  Concluding
<1>1. PICK e \in Now.evidence : Judge(c, Measured(c, w, gas, e, sized), w, e)
  BY DEF Verdict
<1> DEFINE m == Measured(c, w, gas, e, sized)
<1>2. Conclude(c, Result(m), m, w, e)  BY <1>1 DEF Judge
<1>3. Deserved(c, Result(m), m, w)  BY MeasuredIsDeserved
<1> HIDE DEF m
<1>4. QED  BY <1>2, <1>3 DEF Concluding

Waits(c) == Assemble(c) /\ NeedsGas(c)

(* The candidate that waits for gas has passed the pre-gate.                *)
PastPreGate == waiting # None => "of" \in DOMAIN waiting /\ ~PreGated(waiting.of)

LEMMA StepsConclude ==
  ASSUME PastPreGate, CandidateNext
  PROVE  \/ Concluding \/ Detect \/ Pass
         \/ \E c \in queue : Waits(c)
         \/ \E v \in AllVenues : Send(v) \/ GoDown(v) \/ Leave(v) \/ ComeUp(v)
         \/ \E r \in live : Lapse(r)
<1>1. ASSUME NEW c \in queue, Skip(c) \/ NoBook(c) PROVE Concluding
  <2>1. PICK result \in {"BELOW_MIN_PROFIT", "STALE_DATA"} :
            /\ Conclude(c, result, None, None, None)
            /\ result = "STALE_DATA" => ~PreGated(c)
    BY <1>1 DEF Skip, NoBook
  <2>2. UNCHANGED outside /\ waiting' = waiting  BY <1>1 DEF Skip, NoBook
  <2>3. Deserved(c, result, None, None)  BY <2>1 DEF Deserved, Closing
  <2>4. QED  BY <2>1, <2>2, <2>3 DEF Concluding
<1>2. ASSUME NEW c \in queue, Assemble(c), ~NeedsGas(c) PROVE Concluding
  <2>1. UNCHANGED outside /\ waiting' = waiting /\ ~PreGated(c)  BY <1>2 DEF Assemble
  <2>2. Verdict(c, Taken(c), Nil, Sized(Taken(c), Fees(c, Nil)))
    BY <1>2 DEF Assemble
  <2>3. QED  BY <2>1, <2>2, AssembledIsDeserved
<1>3. CASE GasArrives
  <2>1. PICK price \in Now.gas :
            Verdict(waiting.of, waiting, GasOf(waiting.of, price),
                    Sized(waiting, Fees(waiting.of, GasOf(waiting.of, price))))
    BY <1>3 DEF GasArrives
  <2>2. UNCHANGED outside /\ waiting' = None /\ ~PreGated(waiting.of)
    BY <1>3 DEF GasArrives, PastPreGate
  <2>3. QED  BY <2>1, <2>2, AssembledIsDeserved
<1>4. ASSUME NEW c \in queue, AssembleCarry(c) PROVE Concluding
  <2>1. c.type = "FUNDING" /\ UNCHANGED outside /\ waiting' = waiting
    BY <1>4 DEF AssembleCarry
  <2>2. PICK e \in Now.evidence : Settle(c, CarryMeasured(c, e), e)
    BY <1>4 DEF AssembleCarry
  <2> DEFINE m == CarryMeasured(c, e)
  <2>3. Conclude(c, CarryResult(m), m, None, e)  BY <2>2 DEF Settle
  <2>4. Deserved(c, CarryResult(m), m, None)  BY <2>1, CarryIsDeserved
  <2> HIDE DEF m
  <2>5. QED  BY <2>1, <2>3, <2>4 DEF Concluding
<1>5. QED  BY <1>1, <1>2, <1>3, <1>4 DEF CandidateNext, Waits

------------------------------------------------------------------------------
(* The inductive invariant: a live route can be bridged in time, which is   *)
(* why a route that earns too little gets the verdict that closes it; and   *)
(* what is judged after the wait for gas is no candidate that the pre-gate  *)
(* should have closed.                                                      *)
Sound ==
  /\ PublishedIsSound
  /\ CollapseEndsSignal
  /\ PastPreGate
  /\ \A r \in live : r[1] = "CROSS_CHAIN" => BridgeTime <= MaxBridge

LEMMA ConcludeKeeps ==
  ASSUME Sound, UNCHANGED outside, waiting' = waiting \/ waiting' = None,
         NEW c, NEW result, NEW m, NEW w, NEW e,
         Conclude(c, result, m, w, e), Deserved(c, result, m, w)
  PROVE  Sound'
<1>1. /\ said'.kind = "verdict" /\ said'.of = c /\ said'.result = result
      /\ said'.m = m /\ said'.w = w /\ said' # None
  BY DEF Conclude, None
<1>2. live' = IF result = "SIGNAL" THEN live \cup {Route(c)}
              ELSE IF result \in Closing THEN live \ {Route(c)} ELSE live
  BY DEF Conclude, Handle
<1>3. down' = down /\ leaving' = leaving  BY DEF outside
<1>4. Route(c)[1] = c.type /\ Route(c)[2] = {c.buy, c.sell}  BY DEF Route
<1>5. Told("verdict")' /\ ~Told("tick")' /\ (Published' <=> result = "SIGNAL")
  BY <1>1 DEF Told, Published
<1>6. PublishedIsSound'
  <2>1. \A r \in live' : r[2] \cap down' \subseteq leaving'
    <3> SUFFICES ASSUME NEW r \in live' PROVE r[2] \cap down \subseteq leaving
      BY <1>3
    <3>1. CASE r \in live  BY <3>1 DEF Sound, PublishedIsSound
    <3>2. CASE r = Route(c) /\ result = "SIGNAL"
      BY <3>2, <1>4 DEF Deserved, Up
    <3>3. QED  BY <1>2, <3>1, <3>2
  <2>2. ASSUME result = "SIGNAL"
        PROVE  /\ c.buy \notin down' /\ c.sell \notin down'
               /\ None \notin {m.fees.gas, m.fees.withdrawal, m.fees.bridge}
               /\ c.type # "FUNDING" => Oldness(w) <= MaxAge(c)
    BY <2>2, <1>3 DEF Deserved, Up, FeesResolved, Resolved
  <2>3. QED  BY <1>1, <1>5, <2>1, <2>2 DEF PublishedIsSound, Up
<1>7. \A r \in live' : r[1] = "CROSS_CHAIN" => BridgeTime <= MaxBridge
  BY <1>2, <1>4 DEF Sound, Deserved, Reachable
<1>8. CollapseEndsSignal'
  <2> SUFFICES ASSUME Route(c) \in live'
               PROVE  /\ c.type = "FUNDING" \/ ~PreGated(c)
                      /\ m # None /\ Plausible(m) =>
                            MinNet \preceq m.net /\ MinRoi \preceq m.roi
    BY <1>1, <1>5 DEF CollapseEndsSignal, Active
  <2>1. Reachable(c)  BY <1>4, <1>7 DEF Reachable
  <2>2. result \notin Closing  BY <1>2 DEF Closing
  <2>3. QED  BY <2>1, <2>2 DEF Deserved, Earns, \preceq
<1>9. PastPreGate'  BY DEF Sound, PastPreGate
<1>10. QED  BY <1>6, <1>7, <1>8, <1>9 DEF Sound

(* Whatever decides nothing and admits nothing keeps it too.                *)
LEMMA SilenceKeeps ==
  ASSUME Sound, said' = None, live' \subseteq live, PastPreGate',
         \A r \in live' : r[2] \cap down' \subseteq leaving'
  PROVE  Sound'
<1>1. ~Told("verdict")' /\ ~Told("tick")' /\ ~Published'
  BY DEF Told, Published
<1>2. QED  BY <1>1 DEF Sound, PublishedIsSound, CollapseEndsSignal

LEMMA SoundStep == Sound /\ [CandidateNext]_candidateVars => Sound'
<1> SUFFICES ASSUME Sound, [CandidateNext]_candidateVars PROVE Sound'
  OBVIOUS
<1> DEFINE covered(S) == \A r \in S : r[2] \cap down \subseteq leaving
<1>0. covered(live)  BY DEF Sound, PublishedIsSound
<1>1. CASE Detect
  <2>1. /\ UNCHANGED outside /\ live' = live
        /\ said'.kind = "tick" /\ said' # None
        /\ queue' = {c \in Seen : Passes(c)}
    BY <1>1 DEF Detect, None
  <2>2. Told("tick")' /\ ~Told("verdict")' /\ ~Published'
    BY <2>1 DEF Told, Published
  <2>3. \A c \in Seen' : Route(c) \in live' => c \in queue'
    BY <2>1, SameSeen DEF Passes, Active
  <2>4. CollapseEndsSignal'
    BY <2>2, <2>3 DEF CollapseEndsSignal, Active
  <2>5. PublishedIsSound'
    BY <1>0, <2>1, <2>2 DEF PublishedIsSound, outside
  <2>6. PastPreGate'  BY <1>1 DEF Detect, Sound, PastPreGate
  <2>7. QED  BY <2>1, <2>4, <2>5, <2>6 DEF Sound
<1>2. CASE Concluding
  <2>1. PICK c, result, m, w, e :
            Conclude(c, result, m, w, e) /\ Deserved(c, result, m, w) /\ UNCHANGED outside
    BY <1>2 DEF Concluding
  <2>2. waiting' = waiting \/ waiting' = None  BY <1>2 DEF Concluding
  <2>3. QED  BY <2>1, <2>2, ConcludeKeeps
<1>3. ASSUME NEW c \in queue, Waits(c) PROVE Sound'
  <2>1. UNCHANGED outside /\ said' = None /\ live' = live
    BY <1>3 DEF Waits, Assemble
  <2>2. waiting' = Taken(c) /\ ~PreGated(c)  BY <1>3 DEF Waits, Assemble
  <2>3. PastPreGate'  BY <2>2 DEF PastPreGate, Taken
  <2>4. QED  BY <1>0, <2>1, <2>3, SilenceKeeps DEF outside
<1>w. ASSUME waiting' = waiting PROVE PastPreGate'
  BY <1>w DEF Sound, PastPreGate
<1>4. ASSUME NEW v \in AllVenues, Send(v) PROVE Sound'
  BY <1>0, <1>4, <1>w, SilenceKeeps DEF Send
<1>5. ASSUME NEW v \in AllVenues, GoDown(v) PROVE Sound'
  <2>1. down' = down \cup {v} /\ leaving' = leaving \cup {v} /\ said' = None /\ live' = live
        /\ waiting' = waiting
    BY <1>5 DEF GoDown
  <2>2. QED  BY <1>0, <1>w, <2>1, SilenceKeeps
<1>6. ASSUME NEW v \in AllVenues, Leave(v) PROVE Sound'
  <2>1. /\ down' = down /\ leaving' = leaving \ {v} /\ said' = None
        /\ live' = {r \in live : v \notin r[2]} /\ waiting' = waiting
    BY <1>6 DEF Leave
  <2>2. QED  BY <1>0, <1>w, <2>1, SilenceKeeps
<1>7. ASSUME NEW v \in AllVenues, ComeUp(v) PROVE Sound'
  BY <1>0, <1>7, <1>w, SilenceKeeps DEF ComeUp
<1>8. CASE Pass
  <2>1. /\ said' = None /\ live' = live /\ down' = down /\ leaving' = leaving
        /\ waiting' = IF waiting = None THEN None
                      ELSE [waiting EXCEPT !.age = <<Older(@[1]), Older(@[2])>>]
    BY <1>8 DEF Pass
  <2>2. CASE waiting = None
    <3>1. waiting' = waiting  BY <2>1, <2>2
    <3>2. QED  BY <1>0, <1>w, <2>1, <3>1, SilenceKeeps
  <2>3. CASE waiting # None
    <3>1. "of" \in DOMAIN waiting /\ ~PreGated(waiting.of)  BY <2>3 DEF Sound, PastPreGate
    <3>2. DOMAIN waiting' = DOMAIN waiting  BY <2>1, <2>3
    <3>3. waiting'.of = waiting.of  BY <2>1, <2>3, <3>1
    <3>4. PastPreGate'  BY <3>1, <3>2, <3>3 DEF PastPreGate
    <3>5. QED  BY <1>0, <2>1, <3>4, SilenceKeeps
  <2>4. QED  BY <2>2, <2>3
<1>9. ASSUME NEW r \in live, Lapse(r) PROVE Sound'
  BY <1>0, <1>9, <1>w, SilenceKeeps DEF Lapse, outside
<1>10. CASE UNCHANGED candidateVars
  <2>1. UNCHANGED outside /\ said' = said /\ live' = live /\ queue' = queue
        /\ down' = down /\ leaving' = leaving
    BY <1>10 DEF candidateVars, outside
  <2>2. PublishedIsSound'
    BY <2>1 DEF Sound, PublishedIsSound, Published, Told, Up
  <2>3. CollapseEndsSignal'
    BY <2>1, SameSeen DEF Sound, CollapseEndsSignal, Told, Active
  <2>4. PastPreGate'  BY <1>10, <1>w DEF candidateVars
  <2>5. QED  BY <2>1, <2>2, <2>3, <2>4 DEF Sound
<1>p. PastPreGate  BY DEF Sound
<1>11. QED
  BY <1>p, <1>1, <1>2, <1>3, <1>4, <1>5, <1>6, <1>7, <1>8, <1>9, <1>10, StepsConclude

LEMMA AlwaysSound == CandidateSpec => []Sound
<1>1. CandidateInit => Sound
  BY DEF CandidateInit, Sound, PastPreGate, PublishedIsSound, CollapseEndsSignal, Published, Told
<1>2. QED  BY <1>1, SoundStep, PTL DEF CandidateSpec

(* A signal is published only while both venues may carry one, on books     *)
(* within their age and with every fee known, however long it waited for    *)
(* gas; a live route of a venue that is down is about to be expired.        *)
THEOREM PublishedOnWhatHolds == CandidateSpec => []PublishedIsSound
<1>1. Sound => PublishedIsSound  BY DEF Sound
<1>2. QED  BY <1>1, AlwaysSound, PTL

(* A live route that a detector still proposes reaches the assembler however *)
(* small its spread, and no verdict leaves it live on a spread that the      *)
(* pre-gate turns away, or on too little profit, unless its spread was taken *)
(* for an error first.                                                       *)
THEOREM CollapsedSpreadsClose == CandidateSpec => []CollapseEndsSignal
<1>1. Sound => CollapseEndsSignal  BY DEF Sound
<1>2. QED  BY <1>1, AlwaysSound, PTL
------------------------------------------------------------------------------
(* The pipeline implements LiveSignals: what it publishes has both venues   *)
(* up when it is published, and what is published stays until it closes,    *)
(* lapses or a venue leaves.                                                *)
LEMMA LiveTurnsOver ==
  ASSUME down' = down, leaving' = leaving,
         \A r \in live' \ live : r[2] \cap down = {}
  PROVE  [Terms!Next]_Terms!signalVars
<1>1. \A s \in {<<r, r[2]>> : r \in live'} \ {<<r, r[2]>> : r \in live} :
          s[2] \cap down = {}
  OBVIOUS
<1>2. Terms!Turnover  BY <1>1 DEF Terms!Turnover
<1>3. QED  BY <1>2 DEF Terms!Next

LEMMA ConcludeTerms ==
  ASSUME UNCHANGED outside, NEW c, NEW result, NEW m, NEW w, NEW e,
         Conclude(c, result, m, w, e), Deserved(c, result, m, w)
  PROVE  [Terms!Next]_Terms!signalVars
<1>1. live' \subseteq live \cup {Route(c)} /\ (result # "SIGNAL" => live' \subseteq live)
  BY DEF Conclude, Handle
<1>2. down' = down /\ leaving' = leaving  BY DEF outside
<1>3. Route(c)[2] = {c.buy, c.sell}  BY DEF Route
<1>4. result = "SIGNAL" => Route(c)[2] \cap down = {}  BY <1>3 DEF Deserved, Up
<1>5. QED  BY <1>1, <1>2, <1>4, LiveTurnsOver

LEMMA TermsStep == PastPreGate /\ [CandidateNext]_candidateVars => [Terms!Next]_Terms!signalVars
<1> SUFFICES ASSUME PastPreGate, [CandidateNext]_candidateVars
             PROVE  [Terms!Next]_Terms!signalVars
  OBVIOUS
<1>1. CASE Concluding
  <2>1. PICK c, result, m, w, e :
            Conclude(c, result, m, w, e) /\ Deserved(c, result, m, w) /\ UNCHANGED outside
    BY <1>1 DEF Concluding
  <2>2. QED  BY <2>1, ConcludeTerms
<1>2. CASE Detect \/ Pass \/ UNCHANGED candidateVars \/ \E c \in queue : Waits(c)
  <2>1. live' = live /\ down' = down /\ leaving' = leaving
    BY <1>2 DEF Detect, Pass, Waits, Assemble, candidateVars, outside
  <2>2. QED  BY <2>1, LiveTurnsOver
<1>3. CASE \E v \in AllVenues : Send(v)
  BY <1>3, LiveTurnsOver DEF Send
<1>4. CASE \E r \in live : Lapse(r)
  BY <1>4, LiveTurnsOver DEF Lapse, outside
<1>5. ASSUME NEW v \in AllVenues, GoDown(v) PROVE Terms!GoesOut(v)
  BY <1>5 DEF GoDown, Terms!GoesOut
<1>6. ASSUME NEW v \in AllVenues, Leave(v) PROVE Terms!Settles(v)
  BY <1>6 DEF Leave, Terms!Settles
<1>7. ASSUME NEW v \in AllVenues, ComeUp(v) PROVE Terms!ComesBack(v)
  BY <1>7 DEF ComeUp, Terms!ComesBack
<1>8. QED
  BY <1>1, <1>2, <1>3, <1>4, <1>5, <1>6, <1>7, StepsConclude DEF Terms!Next

(* What the pipeline takes from the lifecycle, it keeps to: the outages and *)
(* expiries of Candidate are ones that LiveSignals allows.                  *)
THEOREM PipelineKeepsTerms == CandidateSpec => KeepsTerms
<1>1. CandidateInit => Terms!Init
  BY DEF CandidateInit, Terms!Init
<1>2. Sound => PastPreGate  BY DEF Sound
<1>3. QED  BY <1>1, <1>2, AlwaysSound, TermsStep, PTL DEF CandidateSpec, KeepsTerms, Terms!Spec

-----------------------------------------------------------------------------
(* What is measured of a candidate. Every candidate on its way is of two    *)
(* venues of this market and waits with the books it took; what is said of  *)
(* it is what the arithmetic makes of those books (PricingProofs).          *)

Typed ==
  /\ setup \in DOMAIN Setups
  /\ DOMAIN market = Here /\ \A v \in Here : market[v] \in Now.states[v]
  /\ since \in [Here -> Nat]
Routed(c) ==
  /\ c.buy \in Here /\ c.sell \in Here /\ c.spread \in Fraction
  /\ \/ c.type \in {"CEX_CEX", "FUNDING"} /\ c.buy \notin Pools /\ c.sell \notin Pools
     \/ c.type = "CEX_DEX" /\ (c.buy \in Pools <=> c.sell \notin Pools)
     \/ c.type \in {"DEX_DEX", "CROSS_CHAIN"} /\ c.buy \in Pools /\ c.sell \in Pools
IsTaken(w) ==
  /\ w = [of |-> w.of, buy |-> w.buy, sell |-> w.sell, age |-> w.age, up |-> w.up]
  /\ IsBook(w.buy) /\ IsBook(w.sell) /\ w.age \in Nat \X Nat

LEMMA SetupIs ==
  ASSUME setup \in DOMAIN Setups
  PROVE  IsSetup(Here, Now)
  BY SetupsAssumption DEF Here, Now

LEMMA VenueIs ==
  ASSUME Typed, NEW v \in Here
  PROVE  /\ v \in Cex \/ (v \in Pools /\ v \notin Cex)
         /\ v \notin Pools => v \in Cex /\ market[v].bid \in Price /\ market[v].ask \in Price
                              /\ market[v].rate \in (Fraction \X Nat) \cup {None}
         /\ IsBook(Book(v)) /\ since[v] \in Nat
         /\ v \in Pools => Book(v).type = "DEX" /\ Spot(Book(v)) \in Price
         /\ v \notin Pools => Book(v).type = "CEX"
         /\ IsFiniteSet(Here)
<1>1. setup \in DOMAIN Setups /\ since[v] \in Nat /\ market[v] \in Now.states[v]  BY DEF Typed
<1>2. IsSetup(Here, Now)  BY <1>1, SetupIs
<1>3. IsState(v, market[v]) /\ v \in AllVenues /\ IsFiniteSet(Here)  BY <1>1, <1>2 DEF IsSetup
<1>4. Cex \cap Pools = {}  BY CandidateAssumption
<1>5. v \in Pools => Spot(Book(v)) \in Price  BY <1>3, BookIs DEF IsState, IsDex, Book
<1>6. v \in Cex \/ (v \in Pools /\ v \notin Cex)  BY <1>3, <1>4 DEF AllVenues
<1>7. /\ IsBook(Book(v)) /\ (v \in Pools => Book(v).type = "DEX")
      /\ v \notin Pools => Book(v).type = "CEX"
      /\ v \notin Pools => /\ market[v].bid \in Price /\ market[v].ask \in Price
                          /\ market[v].rate \in (Fraction \X Nat) \cup {None}
  BY <1>3, Zenon DEF IsState, IsDex, Book
<1>8. QED  BY <1>1, <1>3, <1>5, <1>6, <1>7

LEMMA SpreadIs ==
  ASSUME NEW a \in Price, NEW b \in Price
  PROVE  Spread(a, b) \in Fraction
<1>1. a \in Fraction /\ b \in Fraction /\ Nil \prec a  BY DEF Price
<1>2. b \ominus a \in Fraction  BY <1>1, SumOrder
<1>3. QED  BY <1>1, <1>2, QuotientTimes DEF Spread

(* The lowest and the highest of some venues are among them.                *)
LEMMA EndsAre ==
  ASSUME NEW S, IsFiniteSet(S), S # {}, NEW f, \A v \in S : f[v] \in Fraction
  PROVE  /\ \E v \in S : \A w \in S : f[v] \preceq f[w]
         /\ \E v \in S : \A w \in S : f[w] \preceq f[v]
<1> DEFINE R == {p \in S \X S : f[p[1]] \prec f[p[2]]}
           Q == {p \in S \X S : f[p[2]] \prec f[p[1]]}
<1>1. Strict(S, R)
  <2>1. \A v \in S : <<v, v>> \notin R  BY Total
  <2>2. ASSUME NEW u \in S, NEW v \in S, NEW w \in S, <<u, v>> \in R, <<v, w>> \in R
        PROVE  <<u, w>> \in R
    <3>1. f[u] \prec f[v] /\ f[v] \prec f[w]  BY <2>2
    <3>2. f[u] \prec f[w]  BY <3>1, Total
    <3>3. QED  BY <3>2
  <2>3. QED  BY <2>1, <2>2 DEF Strict
<1>2. Strict(S, Q)
  <2>1. \A v \in S : <<v, v>> \notin Q  BY Total
  <2>2. ASSUME NEW u \in S, NEW v \in S, NEW w \in S, <<u, v>> \in Q, <<v, w>> \in Q
        PROVE  <<u, w>> \in Q
    <3>1. f[v] \prec f[u] /\ f[w] \prec f[v]  BY <2>2
    <3>2. f[w] \prec f[u]  BY <3>1, Total
    <3>3. QED  BY <3>2
  <2>3. QED  BY <2>1, <2>2 DEF Strict
<1>3. PICK v \in S : \A w \in S : <<w, v>> \notin R  BY <1>1, Minimal
<1>4. PICK u \in S : \A w \in S : <<w, u>> \notin Q  BY <1>2, Minimal
<1>5. ASSUME NEW w \in S PROVE f[v] \preceq f[w] /\ f[w] \preceq f[u]
  <2>1. ~(f[w] \prec f[v]) /\ ~(f[u] \prec f[w])  BY <1>3, <1>4
  <2>2. QED  BY <2>1 DEF \preceq
<1>6. QED  BY <1>5

LEMMA CexCexRouted == ASSUME Typed, NEW c \in CexCex PROVE Routed(c)
<1> DEFINE ask == [v \in Quoting |-> market[v].ask]
           bid == [v \in Quoting |-> market[v].bid]
           buy == Lowest(Quoting, LAMBDA v : market[v].ask)
           sell == Highest(Quoting, LAMBDA v : market[v].bid)
<1>1. Quoting \subseteq Here /\ \A v \in Quoting : v \in Cex /\ v \notin Pools
  BY CandidateAssumption DEF Quoting
<1>2. \A v \in Quoting : market[v].ask \in Price /\ market[v].bid \in Price
  BY <1>1, VenueIs
<1>3. Quoting # {} /\ IsFiniteSet(Quoting)
  <2>1. Quoting # {}  BY FS_EmptySet DEF CexCex
  <2>2. IsFiniteSet(Here)  BY <1>1, <2>1, VenueIs
  <2>3. QED  BY <1>1, <2>1, <2>2, FS_Subset
<1>4. buy \in Quoting /\ sell \in Quoting
  <2>1. /\ \E v \in Quoting : \A w \in Quoting : ask[v] \preceq ask[w]
        /\ \E v \in Quoting : \A w \in Quoting : bid[w] \preceq bid[v]
    <3>1. \A v \in Quoting : ask[v] \in Fraction /\ bid[v] \in Fraction  BY <1>2 DEF Price
    <3> HIDE DEF ask, bid
    <3>2. QED  BY <1>3, <3>1, EndsAre
  <2>2. QED  BY <2>1 DEF Lowest, Highest
<1> HIDE DEF buy, sell
<1>5. c = Opportunity("CEX_CEX", buy, sell, None, Spread(market[buy].ask, market[sell].bid))
  BY DEF CexCex, buy, sell
<1>6. c.type = "CEX_CEX" /\ c.buy = buy /\ c.sell = sell
      /\ c.spread = Spread(market[buy].ask, market[sell].bid)
  BY <1>5 DEF Opportunity
<1>7. c.spread \in Fraction  BY <1>2, <1>4, <1>6, SpreadIs
<1>8. QED  BY <1>1, <1>4, <1>6, <1>7 DEF Routed

LEMMA WithPoolRouted ==
  ASSUME Typed, NEW c \in CexDex \cup DexDex \cup CrossChain PROVE Routed(c)
<1>1. /\ Quoting \subseteq Here /\ Pooling \subseteq Here
      /\ \A v \in Quoting : v \notin Pools /\ market[v].ask \in Price
           /\ market[v].bid \in Price
      /\ \A p \in Pooling : p \in Pools /\ Spot(Book(p)) \in Price
  BY VenueIs, CandidateAssumption DEF Quoting, Pooling
<1>2. ASSUME c \in CexDex PROVE Routed(c)
  <2> DEFINE Out_(v, p) == Opportunity("CEX_DEX", v, p, Chain[p],
        Spread(market[v].ask, Spot(Book(p))))
             Back_(v, p) == Opportunity("CEX_DEX", p, v, Chain[p],
                Spread(Spot(Book(p)), market[v].bid))
  <2>1. PICK v \in Quoting, p \in Pooling : c \in {Out_(v, p), Back_(v, p)}
    BY <1>2 DEF CexDex
  <2>2. v \in Here /\ p \in Here /\ v \notin Pools /\ p \in Pools  BY <1>1
  <2>3. /\ Spread(market[v].ask, Spot(Book(p))) \in Fraction
        /\ Spread(Spot(Book(p)), market[v].bid) \in Fraction
    BY <1>1, SpreadIs
  <2>4. CASE c = Out_(v, p)
    <3>1. c.type = "CEX_DEX" /\ c.buy = v /\ c.sell = p
            /\ c.spread = Spread(market[v].ask, Spot(Book(p)))
      BY <2>4 DEF Opportunity
    <3>2. QED  BY <2>2, <2>3, <3>1 DEF Routed
  <2>5. CASE c = Back_(v, p)
    <3>1. c.type = "CEX_DEX" /\ c.buy = p /\ c.sell = v
            /\ c.spread = Spread(Spot(Book(p)), market[v].bid)
      BY <2>5 DEF Opportunity
    <3>2. QED  BY <2>2, <2>3, <3>1 DEF Routed
  <2>6. QED  BY <2>1, <2>4, <2>5
<1>3. ASSUME c \in DexDex \cup CrossChain PROVE Routed(c)
  <2>1. PICK p \in Pooling, q \in Pooling :
          c.type \in {"DEX_DEX", "CROSS_CHAIN"} /\ c.buy = p /\ c.sell = q
             /\ c.spread = Apart(p, q)
    <3>1. CASE c \in DexDex
      <4>1. PICK e \in Pooling \X Pooling :
              c = Opportunity("DEX_DEX", e[1], e[2], Chain[e[1]], Apart(e[1], e[2]))
        BY <3>1 DEF DexDex
      <4>2. /\ c.type \in {"DEX_DEX", "CROSS_CHAIN"} /\ c.buy = e[1] /\ c.sell = e[2]
            /\ c.spread = Apart(e[1], e[2])
        BY <4>1 DEF Opportunity
      <4>3. QED  BY <4>2
    <3>2. CASE c \in CrossChain
      <4>1. PICK e \in Pooling \X Pooling :
              c = Opportunity("CROSS_CHAIN", e[1], e[2], None, Apart(e[1], e[2]))
        BY <3>2 DEF CrossChain
      <4>2. /\ c.type \in {"DEX_DEX", "CROSS_CHAIN"} /\ c.buy = e[1] /\ c.sell = e[2]
            /\ c.spread = Apart(e[1], e[2])
        BY <4>1 DEF Opportunity
      <4>3. QED  BY <4>2
    <3>3. QED  BY <1>3, <3>1, <3>2
  <2>2. Apart(p, q) \in Fraction  BY <1>1, SpreadIs DEF Apart
  <2>3. QED  BY <1>1, <2>1, <2>2 DEF Routed
<1>4. QED  BY <1>2, <1>3

LEMMA FundingRouted == ASSUME Typed, NEW c \in Funding PROVE Routed(c) /\ c.type = "FUNDING"
<1> DEFINE rate == [v \in Rated |-> market[v].rate[1]]
           low == Lowest(Rated, LAMBDA v : market[v].rate[1])
           high == Highest(Rated, LAMBDA v : market[v].rate[1])
<1>1. Rated \subseteq Here /\ \A v \in Rated : v \notin Pools
        /\ market[v].rate \in Fraction \X Nat
  BY VenueIs, CandidateAssumption DEF Rated
<1>2. Rated # {} /\ IsFiniteSet(Rated)
  <2>1. Rated # {}  BY FS_EmptySet DEF Funding
  <2>2. IsFiniteSet(Here)  BY <1>1, <2>1, VenueIs
  <2>3. QED  BY <1>1, <2>1, <2>2, FS_Subset
<1>3. low \in Rated /\ high \in Rated
  <2>1. /\ \E v \in Rated : \A w \in Rated : rate[v] \preceq rate[w]
        /\ \E v \in Rated : \A w \in Rated : rate[w] \preceq rate[v]
    <3>1. \A v \in Rated : rate[v] \in Fraction  BY <1>1
    <3> HIDE DEF rate
    <3>2. QED  BY <1>2, <3>1, EndsAre
  <2>2. QED  BY <2>1 DEF Lowest, Highest
<1> HIDE DEF low, high
<1>4. c = Opportunity("FUNDING", low, high, None, Annual(high) \ominus Annual(low))
  BY DEF Funding, low, high
<1>5. c.type = "FUNDING" /\ c.buy = low /\ c.sell = high
        /\ c.spread = Annual(high) \ominus Annual(low)
  BY <1>4 DEF Opportunity
<1>6. Annual(low) \in Fraction /\ Annual(high) \in Fraction
  BY <1>1, <1>3, WholeIs, ProductValue DEF Annual
<1>7. c.spread \in Fraction  BY <1>5, <1>6, SumOrder
<1>8. QED  BY <1>1, <1>3, <1>5, <1>7 DEF Routed

LEMMA SeenRouted == ASSUME Typed, NEW c \in Seen PROVE Routed(c)
  BY CexCexRouted, WithPoolRouted, FundingRouted DEF Seen, Spots

(* The fees of a candidate.                                                 *)
LEMMA FlatIsAmount == ASSUME Typed, NEW v \in Here PROVE Flat(v) \in Amount
  BY VenueIs, CandidateAssumption, Zero DEF Flat, IsDex

LEMMA CandidateFees ==
  ASSUME Typed, NEW c, Routed(c), NEW gas \in Amount \cup {None}
  PROVE  FeesAre(Fees(c, gas))
<1>1. c.buy \in Here /\ c.sell \in Here /\ (c.buy \notin Pools => c.buy \in Cex)
      /\ (c.sell \notin Pools => c.sell \in Cex)
  BY VenueIs DEF Routed
<1>2. Flat(c.buy) \in Amount /\ Flat(c.sell) \in Amount  BY <1>1, FlatIsAmount
<1>3. WithdrawalOf(c) \in Amount \cup {None}
  <2>1. \A v \in Cex : Withdrawal[v] \in Amount \cup {None}  BY CandidateAssumption
  <2>2. CASE c.type = "CEX_CEX"  BY <1>1, <2>1, <2>2 DEF Routed, WithdrawalOf
  <2>3. CASE c.type = "CEX_DEX"  BY <1>1, <2>1, <2>3 DEF Routed, WithdrawalOf, IsDex
  <2>4. CASE c.type \notin {"CEX_CEX", "CEX_DEX"}  BY <2>4, Zero DEF WithdrawalOf
  <2>5. QED  BY <2>2, <2>3, <2>4
<1>4. BridgeFee \in Amount /\ Nil \in Amount  BY CandidateAssumption, Zero
<1>5. QED  BY <1>2, <1>3, <1>4 DEF FeesAre, Fees

LEMMA GasIs ==
  ASSUME Typed, NEW c, Routed(c), NEW price \in Now.gas
  PROVE  GasOf(c, price) \in Amount \cup {None}
<1>1. setup \in DOMAIN Setups  BY DEF Typed
<1>2. \A v \in Here \cap Pools : price[Chain[v]] \in Amount \cup {None}
  BY <1>1, SetupIs DEF IsSetup
<1>3. c.buy \in Here /\ c.sell \in Here  BY DEF Routed
<1>4. CASE \E v \in {c.buy, c.sell} : IsDex(v) /\ price[Chain[v]] = None  BY <1>4 DEF GasOf
<1>5. CASE ~\E v \in {c.buy, c.sell} : IsDex(v) /\ price[Chain[v]] = None
  <2>1. PICK x \in Amount, y \in Amount :
          /\ x = IF IsDex(c.buy) THEN price[Chain[c.buy]] ELSE Nil
          /\ y = IF IsDex(c.sell) THEN price[Chain[c.sell]] ELSE Nil
    BY <1>2, <1>3, <1>5, Zero DEF IsDex
  <2>2. x \oplus y \in Amount  BY Amounts
  <2>3. GasOf(c, price) = x \oplus y  BY <1>5, <2>1 DEF GasOf
  <2>4. QED  BY <2>2, <2>3
<1>6. QED  BY <1>4, <1>5

LEMMA TakenIs ==
  ASSUME Typed, NEW c, Routed(c)
  PROVE  IsTaken(Taken(c)) /\ Taken(c).of = c
<1>1. c.buy \in Here /\ c.sell \in Here  BY DEF Routed
<1>2. IsBook(Book(c.buy)) /\ IsBook(Book(c.sell)) /\ since[c.buy] \in Nat
        /\ since[c.sell] \in Nat
  BY <1>1, VenueIs
<1>3. QED  BY <1>2 DEF Taken, IsTaken

(* What a published signal rests on.                                        *)
Backing(c, m, w, e) ==
  /\ e \in Now.evidence /\ Routed(c) /\ Up(c.buy) /\ Up(c.sell)
  /\ m.conf = ConfidenceOf(c, e, m, w)
  /\ {"net", "score", "depth", "floor", "conf"} \subseteq DOMAIN m
  /\ m.net \in Fraction /\ m.score \in Fraction /\ m.spread \in Fraction
  /\ FeesAre(m.fees)
  /\ c.type # "FUNDING" => IsTaken(w) /\ m.best \in Sweep(w.buy, w.sell, m.fees)
  /\ c.type = "FUNDING" => m.best = None

LEMMA EvidenceIs ==
  ASSUME Typed, NEW e \in Now.evidence, NEW c, Routed(c)
  PROVE  /\ NoiseOf(c, e) \in Fraction \cup {Unknown}
         /\ e.trouble[c.buy] \in Nat /\ e.trouble[c.sell] \in Nat
         /\ Reliability(e) \in Fraction
         /\ c.type = "FUNDING" => /\ RateStability(e.rates[c.buy]) \in Fraction
                                  /\ RateStability(e.rates[c.sell]) \in Fraction
<1>1. setup \in DOMAIN Setups  BY DEF Typed
<1>2. e \in Evidence /\ Here \subseteq AllVenues  BY <1>1, SetupIs DEF IsSetup
<1>3. c.buy \in AllVenues /\ c.sell \in AllVenues  BY <1>2 DEF Routed
<1>4. e.window[c.buy] \in Seq(Nat \ {0}) /\ e.window[c.sell] \in Seq(Nat \ {0})
  BY <1>2, <1>3 DEF Evidence
<1>5. NoiseOf(c, e) \in Fraction \cup {Unknown}  BY <1>4, NoiseIs, WorseNoiseIs DEF NoiseOf
<1>6. Reliability(e) \in Fraction
  <2>1. e.rows \in Seq([reason : STRING, life : Nat])  BY <1>2 DEF Evidence
  <2>2. QED  BY <2>1, ReliabilityIs
<1>7. ASSUME c.type = "FUNDING"
      PROVE  RateStability(e.rates[c.buy]) \in Fraction
         /\ RateStability(e.rates[c.sell]) \in Fraction
  <2>1. c.buy \in Cex /\ c.sell \in Cex  BY <1>7, VenueIs DEF Routed
  <2>2. e.rates[c.buy] \in Seq(Int) /\ e.rates[c.sell] \in Seq(Int)  BY <1>2, <2>1 DEF Evidence
  <2>3. QED  BY <2>2, RateStabilityIs
<1>8. e.trouble[c.buy] \in Nat /\ e.trouble[c.sell] \in Nat  BY <1>2, <1>3 DEF Evidence
<1>9. QED  BY <1>5, <1>6, <1>7, <1>8

LEMMA TripSpread ==
  ASSUME NEW buy, IsBook(buy), NEW sell, IsBook(sell), NEW fees, FeesAre(fees),
         NEW b \in Sweep(buy, sell, fees)
  PROVE  b.net \in Fraction /\ b.usd \in Fraction /\ b.spread \in Fraction
<1>1. PICK usd \in Price, received \in Price : Trip(b, buy, sell, fees, usd, received)
  BY SweepIs
<1>2. PICK x \in Price, y \in Price : x = Best(buy, "buy") /\ y = Best(sell, "sell")  BY BestIs
<1>3. b.spread = Spread(x, y)  BY <1>1, <1>2 DEF Trip, Spread
<1>4. QED  BY <1>1, <1>3, SpreadIs DEF Trip, Price

LEMMA SizedIs ==
  ASSUME NEW w, IsTaken(w), NEW fees, FeesAre(fees), Sized(w, fees).best # None
  PROVE  Sized(w, fees).best \in Sweep(w.buy, w.sell, fees)
<1>1. PICK s : s = Sweep(w.buy, w.sell, fees)  OBVIOUS
<1>2. IsFiniteSet(s) /\ \A b \in s : b.net \in Fraction /\ b.usd \in Fraction
  BY <1>1, SweepIs, TripSpread DEF IsTaken
<1>3. Sized(w, fees).best = IF s = {} THEN None ELSE Recommended(s)
  BY <1>1 DEF Sized, Sizing
<1>4. s # {}  BY <1>3
<1>5. QED  BY <1>1, <1>2, <1>3, <1>4, RecommendedIs

LEMMA MeasuredIsBacked ==
  ASSUME Typed, NEW c, Routed(c), c.type # "FUNDING", NEW w, IsTaken(w),
         NEW gas \in Amount \cup {None}, NEW e \in Now.evidence, NEW m,
         m = Measured(c, w, gas, e, Sized(w, Fees(c, gas))), Result(m) = "SIGNAL"
  PROVE  Backing(c, m, w, e)
<1>1. PICK sized : sized = Sized(w, Fees(c, gas))  OBVIOUS
<1>2. m # None  BY DEF Result
<1>3. PICK best : best = sized.best /\ best # None  BY <1>1, <1>2 DEF Measured, Assessed
<1>4. FeesAre(Fees(c, gas))  BY CandidateFees
<1>5. best \in Sweep(w.buy, w.sell, Fees(c, gas))  BY <1>1, <1>3, <1>4, SizedIs
<1>6. best.net \in Fraction /\ best.spread \in Fraction  BY <1>4, <1>5, TripSpread DEF IsTaken
<1>7. PICK score \in Fraction : score = Score(w.buy, w.sell, NoiseOf(c, e))
  BY EvidenceIs, ScoreIs DEF IsTaken
<1>8. /\ m.best = best /\ m.fees = Fees(c, gas) /\ m.net = best.net /\ m.spread = best.spread
      /\ m.score = score /\ m.conf = SpotConfidence(c, e, Oldness(w), score, best.spread)
      /\ m.up = (Up(c.buy) /\ Up(c.sell))
      /\ {"net", "score", "depth", "floor", "conf"} \subseteq DOMAIN m
  BY <1>1, <1>3, <1>7 DEF Measured, Assessed, VenuesUp
<1>9. Validate(m) = "SIGNAL"  BY <1>2 DEF Result
<1>10. Up(c.buy) /\ Up(c.sell)  BY <1>8, <1>9, SignalPasses
<1>11. m.conf = ConfidenceOf(c, e, m, w)  BY <1>8 DEF ConfidenceOf
<1>12. QED  BY <1>4, <1>5, <1>6, <1>8, <1>10, <1>11 DEF Backing

LEMMA CarryIsBacked ==
  ASSUME Typed, NEW c, Routed(c), c.type = "FUNDING", NEW e \in Now.evidence,
         NEW m, m = CarryMeasured(c, e), CarryResult(m) = "SIGNAL"
  PROVE  Backing(c, m, None, e)
<1>1. c.buy \in Here /\ c.sell \in Here /\ c.spread \in Fraction  BY DEF Routed
<1>2. Notional \in Fraction /\ Hold \in Fraction  BY CandidateAssumption DEF Price
<1>3. PICK gross \in Fraction : gross = Notional \otimes c.spread \otimes Hold
  BY <1>1, <1>2, ProductValue
<1>4. PICK fee \in Fraction : fee = Notional \otimes (Flat(c.buy) \oplus Flat(c.sell))
  <2>1. Flat(c.buy) \in Fraction /\ Flat(c.sell) \in Fraction  BY <1>1, FlatIsAmount, Amounts
  <2>2. Flat(c.buy) \oplus Flat(c.sell) \in Fraction  BY <2>1, SumOrder
  <2>3. QED  BY <1>2, <2>2, ProductValue
<1>5. PICK profit \in Fraction : profit = gross \ominus fee  BY SumOrder
<1>6. CarryLiquidity(c, e).score \in Fraction
  <2>1. IsBook(Book(c.buy)) /\ IsBook(Book(c.sell))  BY <1>1, VenueIs
  <2>2. Score(Book(c.buy), Book(c.sell), NoiseOf(c, e)) \in Fraction
    BY <2>1, EvidenceIs, ScoreIs
  <2>3. MinScore \in Fraction  BY PricingAssumption
  <2>4. Most(MinScore, Score(Book(c.buy), Book(c.sell), NoiseOf(c, e))) \in Fraction
    BY <2>2, <2>3, LeastIs
  <2>5. QED  BY <2>3, <2>4 DEF CarryLiquidity
<1>7. m = Carry(c, e, gross, profit, CarryLiquidity(c, e))
  BY <1>3, <1>4, <1>5 DEF CarryMeasured, CarryOf
<1>8. /\ m.best = None /\ m.fees = Fees(c, Nil) /\ m.net = profit /\ m.spread = c.spread
      /\ m.score = CarryLiquidity(c, e).score /\ m.up = (Up(c.buy) /\ Up(c.sell))
      /\ m.conf = CarryConfidence(c, e, IF since[c.buy] < since[c.sell] THEN since[c.sell]
                                        ELSE since[c.buy])
      /\ {"net", "score", "depth", "floor", "conf"} \subseteq DOMAIN m
  BY <1>7 DEF Carry
<1>9. FeesAre(Fees(c, Nil))  BY CandidateFees, Zero
<1>10. Up(c.buy) /\ Up(c.sell)
  <2>1. Validate(m) = "SIGNAL"  BY DEF CarryResult
  <2>2. QED  BY <1>8, <2>1, SignalPasses
<1>11. m.conf = ConfidenceOf(c, e, m, None)  BY <1>8 DEF ConfidenceOf
<1>12. QED  BY <1>1, <1>5, <1>6, <1>8, <1>9, <1>10, <1>11 DEF Backing

Backed == Published =>
  /\ Backing(said.of, said.m, said.w, said.evidence)
  /\ said.rank = RankOf(said.of, said.evidence, said.m)
(* The inductive invariant: every candidate on its way is of two venues of  *)
(* this market, waits with the books it took, and is published on what has  *)
(* been measured of them.                                                   *)
Provenance ==
  /\ Typed
  /\ \A c \in queue : Routed(c)
  /\ waiting # None => Routed(waiting.of) /\ waiting.of.type # "FUNDING" /\ IsTaken(waiting)
  /\ Backed

LEMMA RoutedStays == ASSUME UNCHANGED setup, NEW c, Routed(c) PROVE Routed(c)'
  BY DEF Routed, Here, Now

LEMMA BackingStays ==
  ASSUME UNCHANGED outside, NEW c, NEW m, NEW w, NEW e, Backing(c, m, w, e)
  PROVE  Backing(c, m, w, e)'
<1>1. setup' = setup /\ since' = since /\ down' = down  BY DEF outside
<1>2. Now' = Now /\ Up(c.buy)' = Up(c.buy) /\ Up(c.sell)' = Up(c.sell)  BY <1>1 DEF Now, Up
<1>3. HealthOf(c, e)' = HealthOf(c, e)  BY <1>1, <1>2 DEF HealthOf, HealthAt
<1>4. ConfidenceOf(c, e, m, w)' = ConfidenceOf(c, e, m, w)
  BY <1>1, <1>3 DEF ConfidenceOf, SpotConfidence, CarryConfidence
<1>5. Routed(c)'  BY <1>1, RoutedStays DEF Backing
<1>6. QED  BY <1>2, <1>4, <1>5 DEF Backing

LEMMA QuietStep ==
  ASSUME said' = None \/ said' = [kind |-> "tick"]
  PROVE  ~Published'
  BY DEF Published, Told, None

LEMMA ConcludedIsBacked ==
  ASSUME UNCHANGED outside, NEW c, NEW result, NEW m, NEW w, NEW e,
         Conclude(c, result, m, w, e), result = "SIGNAL" => Backing(c, m, w, e)
  PROVE  Backed'
<1>1. /\ said'.of = c /\ said'.result = result /\ said'.m = m /\ said'.w = w
           /\ said'.evidence = e
      /\ result = "SIGNAL" => said'.rank = RankOf(c, e, m)
  BY DEF Conclude
<1>2. Published' => result = "SIGNAL"  BY <1>1 DEF Published, Told
<1>3. QED  BY <1>1, <1>2, BackingStays DEF Backed

LEMMA VerdictIsBacked ==
  ASSUME Typed, UNCHANGED outside, NEW c, Routed(c), c.type # "FUNDING", NEW w, IsTaken(w),
         NEW gas \in Amount \cup {None}, Verdict(c, w, gas, Sized(w, Fees(c, gas)))
  PROVE  Backed'
<1>1. PICK e \in Now.evidence : Judge(c, Measured(c, w, gas, e, Sized(w, Fees(c, gas))), w, e)
  BY DEF Verdict
<1>2. PICK m : m = Measured(c, w, gas, e, Sized(w, Fees(c, gas)))  OBVIOUS
<1>3. Conclude(c, Result(m), m, w, e)  BY <1>1, <1>2 DEF Judge
<1>4. Result(m) = "SIGNAL" => Backing(c, m, w, e)  BY <1>2, MeasuredIsBacked
<1>5. QED  BY <1>3, <1>4, ConcludedIsBacked

LEMMA TypedStays == ASSUME Typed, UNCHANGED outside PROVE Typed'
  BY DEF Typed, outside, Here, Now

LEMMA ProvenanceStep == Provenance /\ [CandidateNext]_candidateVars => Provenance'
<1> SUFFICES ASSUME Provenance, [CandidateNext]_candidateVars PROVE Provenance'
  OBVIOUS
<1>0. Typed /\ (\A c \in queue : Routed(c)) /\ Backed
      /\ (waiting # None => Routed(waiting.of) /\ waiting.of.type # "FUNDING"
           /\ IsTaken(waiting))
  BY DEF Provenance
<1> DEFINE Waiting == waiting # None => /\ Routed(waiting.of) /\ waiting.of.type # "FUNDING"
                                        /\ IsTaken(waiting)
<1>a. ASSUME setup' = setup, queue' \subseteq queue PROVE \A c \in queue' : Routed(c)'
  BY <1>0, <1>a, RoutedStays
<1>b. ASSUME setup' = setup, waiting' = waiting PROVE Waiting'
  BY <1>0, <1>b, RoutedStays DEF IsTaken
<1>1. CASE Detect
  <2>1. UNCHANGED outside /\ waiting' = waiting /\ queue' \subseteq Seen
          /\ said' = [kind |-> "tick"]
    BY <1>1 DEF Detect
  <2>2. setup' = setup  BY <2>1 DEF outside
  <2>3. \A c \in queue' : Routed(c)'  BY <1>0, <2>1, <2>2, SeenRouted, RoutedStays
  <2>4. QED  BY <1>0, <1>b, <2>1, <2>2, <2>3, TypedStays, QuietStep DEF Provenance, Backed
<1>2. ASSUME NEW c \in queue, Skip(c) \/ NoBook(c) PROVE Provenance'
  <2>1. UNCHANGED outside /\ waiting' = waiting /\ queue' \subseteq queue
    BY <1>2 DEF Skip, NoBook
  <2>2. PICK result : result # "SIGNAL" /\ Conclude(c, result, None, None, None)
    BY <1>2 DEF Skip, NoBook
  <2>3. Backed'  BY <2>1, <2>2, ConcludedIsBacked
  <2>4. setup' = setup  BY <2>1 DEF outside
  <2>5. QED  BY <1>0, <1>a, <1>b, <2>1, <2>3, <2>4, TypedStays DEF Provenance
<1>3. ASSUME NEW c \in queue, Assemble(c) PROVE Provenance'
  <2>1. UNCHANGED outside /\ queue' \subseteq queue /\ c.type # "FUNDING"  BY <1>3 DEF Assemble
  <2>2. setup' = setup /\ Routed(c)  BY <1>0, <2>1 DEF outside
  <2>3. IsTaken(Taken(c)) /\ Taken(c).of = c  BY <1>0, <2>2, TakenIs
  <2>4. CASE NeedsGas(c)
    <3>1. waiting' = Taken(c) /\ said' = None  BY <1>3, <2>4 DEF Assemble
    <3>2. PICK w : w = Taken(c) /\ IsTaken(w) /\ w.of = c  BY <2>3
    <3>3. Waiting'  BY <2>1, <2>2, <3>1, <3>2, RoutedStays DEF IsTaken
    <3>4. QED
      BY <1>0, <1>a, <2>1, <2>2, <3>1, <3>3, TypedStays, QuietStep DEF Provenance, Backed
  <2>5. CASE ~NeedsGas(c)
    <3>1. waiting' = waiting /\ Verdict(c, Taken(c), Nil, Sized(Taken(c), Fees(c, Nil)))
      BY <1>3, <2>5 DEF Assemble
    <3>2. Backed'  BY <1>0, <2>1, <2>2, <2>3, <3>1, Zero, VerdictIsBacked
    <3>3. QED  BY <1>0, <1>a, <1>b, <2>1, <2>2, <3>1, <3>2, TypedStays DEF Provenance
  <2>6. QED  BY <2>4, <2>5
<1>4. CASE GasArrives
  <2>1. waiting # None /\ waiting' = None /\ UNCHANGED outside /\ queue' = queue
    BY <1>4 DEF GasArrives
  <2>2. PICK price \in Now.gas :
          Verdict(waiting.of, waiting, GasOf(waiting.of, price),
                  Sized(waiting, Fees(waiting.of, GasOf(waiting.of, price))))
    BY <1>4 DEF GasArrives
  <2>3. Routed(waiting.of) /\ waiting.of.type # "FUNDING" /\ IsTaken(waiting)  BY <1>0, <2>1
  <2>4. PICK gas \in Amount \cup {None} : gas = GasOf(waiting.of, price)  BY <1>0, <2>3, GasIs
  <2>5. Backed'  BY <1>0, <2>1, <2>2, <2>3, <2>4, VerdictIsBacked
  <2>6. setup' = setup  BY <2>1 DEF outside
  <2>7. QED  BY <1>0, <1>a, <2>1, <2>5, <2>6, TypedStays DEF Provenance
<1>5. ASSUME NEW c \in queue, AssembleCarry(c) PROVE Provenance'
  <2>1. UNCHANGED outside /\ waiting' = waiting /\ queue' \subseteq queue /\ c.type = "FUNDING"
    BY <1>5 DEF AssembleCarry
  <2>2. PICK e \in Now.evidence : Settle(c, CarryMeasured(c, e), e)  BY <1>5 DEF AssembleCarry
  <2>3. PICK m : m = CarryMeasured(c, e)  OBVIOUS
  <2>4. Conclude(c, CarryResult(m), m, None, e)  BY <2>2, <2>3 DEF Settle
  <2>5. Routed(c)  BY <1>0
  <2>6. CarryResult(m) = "SIGNAL" => Backing(c, m, None, e)
    BY <1>0, <2>1, <2>3, <2>5, CarryIsBacked
  <2>7. Backed'  BY <2>1, <2>4, <2>6, ConcludedIsBacked
  <2>8. setup' = setup  BY <2>1 DEF outside
  <2>9. QED  BY <1>0, <1>a, <1>b, <2>1, <2>7, <2>8, TypedStays DEF Provenance
<1>6. ASSUME NEW v \in AllVenues, Send(v) PROVE Provenance'
  <2>1. PICK s \in Now.states[v] :
          /\ v \in Here /\ market' = [market EXCEPT ![v] = s]
               /\ since' = [since EXCEPT ![v] = 0]
          /\ said' = None /\ setup' = setup /\ queue' = queue /\ waiting' = waiting
    BY <1>6 DEF Send
  <2>2. Typed'  BY <1>0, <2>1 DEF Typed, Here, Now
  <2>3. QED  BY <1>a, <1>b, <2>1, <2>2, QuietStep DEF Provenance, Backed
<1>7. ASSUME NEW v \in AllVenues, GoDown(v) \/ Leave(v) \/ ComeUp(v) PROVE Provenance'
  <2>1. /\ setup' = setup /\ market' = market /\ since' = since /\ queue' = queue
        /\ waiting' = waiting /\ said' = None
    BY <1>7 DEF GoDown, Leave, ComeUp
  <2>2. Typed'  BY <1>0, <2>1 DEF Typed, Here, Now
  <2>3. QED  BY <1>a, <1>b, <2>1, <2>2, QuietStep DEF Provenance, Backed
<1>8. CASE Pass
  <2>1. /\ since' = [v \in Here |-> IF v \in Now.silent THEN Older(since[v]) ELSE since[v]]
        /\ waiting' = IF waiting = None THEN None
                      ELSE [waiting EXCEPT !.age = <<Older(@[1]), Older(@[2])>>]
        /\ setup' = setup /\ market' = market /\ queue' = queue /\ said' = None
    BY <1>8 DEF Pass
  <2>2. \A n \in Nat : Older(n) \in Nat  BY DEF Older
  <2>3. Typed'  BY <1>0, <2>1, <2>2 DEF Typed, Here, Now
  <2>4. Waiting'
    <3>1. CASE waiting = None  BY <2>1, <3>1
    <3>2. CASE waiting # None
      <4>1. IsTaken(waiting) /\ Routed(waiting.of) /\ waiting.of.type # "FUNDING"
        BY <1>0, <3>2
      <4>2. PICK a \in Nat, b \in Nat : waiting.age = <<a, b>>  BY <4>1 DEF IsTaken
      <4>3. PICK c, buy, sell, up :
              waiting = [of |-> c, buy |-> buy, sell |-> sell, age |-> <<a, b>>, up |-> up]
        BY <4>1, <4>2 DEF IsTaken
      <4>4. waiting' = [of |-> c, buy |-> buy, sell |-> sell, age |-> <<Older(a), Older(b)>>,
              up |-> up]
        BY <2>1, <3>2, <4>2, <4>3
      <4>5. IsBook(buy) /\ IsBook(sell) /\ Routed(c) /\ c.type # "FUNDING"
        BY <4>1, <4>3 DEF IsTaken
      <4>6. <<Older(a), Older(b)>> \in Nat \X Nat  BY <2>2
      <4>7. IsTaken(waiting)'  BY <4>4, <4>5, <4>6 DEF IsTaken
      <4>8. Routed(c)'  BY <2>1, <4>5, RoutedStays
      <4>9. QED  BY <4>4, <4>5, <4>7, <4>8
    <3>3. QED  BY <3>1, <3>2
  <2>5. QED  BY <1>a, <2>1, <2>3, <2>4, QuietStep DEF Provenance, Backed
<1>9. ASSUME NEW r \in live, Lapse(r) PROVE Provenance'
  <2>1. UNCHANGED outside /\ queue' = queue /\ waiting' = waiting /\ said' = None
    BY <1>9 DEF Lapse
  <2>2. setup' = setup  BY <2>1 DEF outside
  <2>3. QED  BY <1>0, <1>a, <1>b, <2>1, <2>2, TypedStays, QuietStep DEF Provenance, Backed
<1>10. CASE UNCHANGED candidateVars
  <2>1. UNCHANGED outside /\ queue' = queue /\ waiting' = waiting /\ said' = said
    BY <1>10 DEF candidateVars, outside
  <2>2. Backed'
    <3>1. Published' <=> Published  BY <2>1 DEF Published, Told
    <3>2. QED  BY <1>0, <2>1, <3>1, BackingStays DEF Backed
  <2>3. setup' = setup  BY <2>1 DEF outside
  <2>4. QED  BY <1>0, <1>a, <1>b, <2>1, <2>2, <2>3, TypedStays DEF Provenance
<1>11. QED
  BY <1>1, <1>2, <1>3, <1>4, <1>5, <1>6, <1>7, <1>8, <1>9, <1>10 DEF CandidateNext

LEMMA AlwaysProvenance == CandidateSpec => []Provenance
<1>1. CandidateInit => Provenance
  BY DEF CandidateInit, Provenance, Typed, Backed, Published, Told
<1>2. QED  BY <1>1, ProvenanceStep, PTL DEF CandidateSpec

-----------------------------------------------------------------------------
(* What a signal claims.                                                    *)

LEMMA BackedIsCash == Backed => ClaimIsCash
<1> SUFFICES ASSUME Backed, Published, Spot_(said.m) PROVE ClaimIsCash
  BY DEF ClaimIsCash
<1>1. PICK c, m, w, e : c = said.of /\ m = said.m /\ w = said.w /\ e = said.evidence  OBVIOUS
<1>2. Backing(c, m, w, e) /\ m.best # None  BY <1>1 DEF Backed, Spot_
<1>3. IsTaken(w) /\ m.best \in Sweep(w.buy, w.sell, m.fees) /\ FeesAre(m.fees)
  BY <1>2 DEF Backing
<1>4. PICK b, fees : b = m.best /\ fees = m.fees  OBVIOUS
<1>5. PICK usd \in Price, received \in Price : Trip(b, w.buy, w.sell, fees, usd, received)
  BY <1>3, <1>4, SweepIs DEF IsTaken
<1>6. b.net \preceq received \ominus Paid(w.buy, b.coins) \ominus b.usd \otimes fees.buy
               \ominus received \otimes fees.sell \ominus b.flat
  BY <1>3, <1>4, <1>5, TripIsCash DEF IsTaken
<1>7. received = Received(w.sell, b.coins)
        /\ b.gross \ominus b.net = b.trading \oplus b.slippage \oplus b.flat
  BY <1>5 DEF Trip
<1>8. QED  BY <1>1, <1>4, <1>6, <1>7 DEF ClaimIsCash

(* What is published of a spot signal is no more than the cash it makes,    *)
(* whatever the books, the fees and the gas: the orders it walks are bought *)
(* and sold no better than they are counted, and no cost is left out.       *)
THEOREM ClaimedProfitIsCash == CandidateSpec => []ClaimIsCash
<1>1. Provenance => ClaimIsCash  BY BackedIsCash DEF Provenance
<1>2. QED  BY <1>1, AlwaysProvenance, PTL

------------------------------------------------------------------------------
(* The health of both legs is less for every one that is degraded.          *)
LEMMA HealthOrder ==
  ASSUME NEW c, NEW e, Up(c.buy), Up(c.sell), e.trouble[c.buy] \in Nat,
         e.trouble[c.sell] \in Nat,
         NEW f, f.degraded = {}, f.trouble = e.trouble
  PROVE  /\ HealthOf(c, e) \in Fraction /\ HealthOf(c, f) \in Fraction
         /\ HealthOf(c, e) \preceq HealthOf(c, f)
         /\ /\ \E v \in {c.buy, c.sell} \cap e.degraded :
                  \A u \in {c.buy, c.sell} \ {v} : u \in e.degraded \/ e.trouble[u] = 0
            /\ \A u \in {c.buy, c.sell} : e.trouble[u] <= 55
            => HealthOf(c, e) \oplus Whole(45) \preceq HealthOf(c, f)
<1> DEFINE n(v) == (IF v \in e.degraded THEN 55 ELSE 100) - e.trouble[v]
<1>1. \A v \in {c.buy, c.sell} :
        /\ HealthAt(v, e) = Health(TRUE, v \in e.degraded, e.trouble[v])
        /\ HealthAt(v, f) = Health(TRUE, FALSE, e.trouble[v])
        /\ HealthAt(v, e) \in Fraction /\ HealthAt(v, f) \in Fraction
        /\ HealthAt(v, e) \preceq HealthAt(v, f)
        /\ e.trouble[v] <= 55 => /\ HealthAt(v, e) = Whole(n(v))
                                 /\ HealthAt(v, f) = Whole(100 - e.trouble[v])
  <2> SUFFICES ASSUME NEW v \in {c.buy, c.sell}
               PROVE  /\ HealthAt(v, e) = Health(TRUE, v \in e.degraded, e.trouble[v])
                      /\ HealthAt(v, f) = Health(TRUE, FALSE, e.trouble[v])
                      /\ HealthAt(v, e) \in Fraction /\ HealthAt(v, f) \in Fraction
                      /\ HealthAt(v, e) \preceq HealthAt(v, f)
                      /\ e.trouble[v] <= 55 => /\ HealthAt(v, e) = Whole(n(v))
                                               /\ HealthAt(v, f) = Whole(100 - e.trouble[v])
    OBVIOUS
  <2>1. PICK degraded \in BOOLEAN : degraded <=> v \in e.degraded
    <3>1. CASE v \in e.degraded  BY <3>1, Zenon
    <3>2. CASE v \notin e.degraded  BY <3>2, Zenon
    <3>3. QED  BY <3>1, <3>2, Zenon
  <2>2. PICK trouble \in Nat : trouble = e.trouble[v]  OBVIOUS
  <2>3. Up(v) = TRUE
    <3>1. Up(v)  OBVIOUS
    <3>2. QED  BY <3>1 DEF Up
  <2>4. HealthAt(v, e) = Health(TRUE, degraded, trouble)
          /\ HealthAt(v, f) = Health(TRUE, FALSE, trouble)
    <3>1. (v \in f.degraded) = FALSE  OBVIOUS
    <3>2. QED  BY <2>1, <2>2, <2>3, <3>1 DEF HealthAt
  <2>5. /\ Health(TRUE, degraded, trouble) \in Fraction
             /\ Health(TRUE, FALSE, trouble) \in Fraction
        /\ Health(TRUE, degraded, trouble) \preceq Health(TRUE, FALSE, trouble)
        /\ trouble <= 55 =>
              /\ Health(TRUE, degraded, trouble)
                   = Whole((IF degraded THEN 55 ELSE 100) - trouble)
              /\ Health(TRUE, FALSE, trouble) = Whole(100 - trouble)
    <3>1. TRUE \in BOOLEAN /\ FALSE \in BOOLEAN  OBVIOUS
    <3>2. /\ Health(TRUE, degraded, trouble) \in Fraction
          /\ Health(TRUE, degraded, trouble) \preceq Health(TRUE, FALSE, trouble)
          /\ trouble <= 55 => Health(TRUE, degraded, trouble)
                               = Whole((IF degraded THEN 55 ELSE 100) - trouble)
      BY <3>1, HealthIs
    <3>3. /\ Health(TRUE, FALSE, trouble) \in Fraction
          /\ trouble <= 55 => Health(TRUE, FALSE, trouble)
                               = Whole((IF FALSE THEN 55 ELSE 100) - trouble)
      BY <3>1, HealthIs
    <3>4. QED  BY <3>2, <3>3
  <2>6. QED  BY <2>1, <2>2, <2>4, <2>5
<1>2. HealthOf(c, e) \in Fraction /\ HealthOf(c, f) \in Fraction
  BY <1>1, LeastIs DEF HealthOf
<1>3. HealthOf(c, e) \preceq HealthOf(c, f)
  <2>1. PICK x \in Fraction, y \in Fraction, X \in Fraction, Y \in Fraction :
          /\ x = HealthAt(c.buy, e) /\ y = HealthAt(c.sell, e)
          /\ X = HealthAt(c.buy, f) /\ Y = HealthAt(c.sell, f)
          /\ x \preceq X /\ y \preceq Y
    BY <1>1
  <2>2. Least(x, y) \preceq Least(X, Y)  BY <2>1, Total DEF Least
  <2>3. QED  BY <2>1, <2>2 DEF HealthOf
<1>4. ASSUME NEW v \in {c.buy, c.sell} \cap e.degraded,
             \A u \in {c.buy, c.sell} \ {v} : u \in e.degraded \/ e.trouble[u] = 0,
             \A u \in {c.buy, c.sell} : e.trouble[u] <= 55
      PROVE  HealthOf(c, e) \oplus Whole(45) \preceq HealthOf(c, f)
  <2>1. PICK x \in Int, y \in Int, X \in Int, Y \in Int :
          /\ HealthAt(c.buy, e) = Whole(x) /\ HealthAt(c.sell, e) = Whole(y)
          /\ HealthAt(c.buy, f) = Whole(X) /\ HealthAt(c.sell, f) = Whole(Y)
          /\ x = n(c.buy) /\ y = n(c.sell)
          /\ X = 100 - e.trouble[c.buy] /\ Y = 100 - e.trouble[c.sell]
    BY <1>1, <1>4
  <2>2. (x <= y /\ x + 45 <= X /\ x + 45 <= Y) \/ (y <= x /\ y + 45 <= X /\ y + 45 <= Y)
    <3>1. v = c.buy \/ v = c.sell  OBVIOUS
    <3>2. QED  BY <1>4, <2>1, <3>1
  <2>3. PICK z \in Int, Z \in Int :
          /\ HealthOf(c, e) = Whole(z) /\ HealthOf(c, f) = Whole(Z) /\ z + 45 <= Z
    <3>1. Least(Whole(x), Whole(y)) = IF x <= y THEN Whole(x) ELSE Whole(y)
      BY WholeOrder DEF Least
    <3>2. Least(Whole(X), Whole(Y)) = IF X <= Y THEN Whole(X) ELSE Whole(Y)
      BY WholeOrder DEF Least
    <3>3. QED  BY <2>1, <2>2, <3>1, <3>2 DEF HealthOf
  <2>4. Whole(z) \oplus Whole(45) = Whole(z + 45)  BY WholeSum
  <2>5. Whole(z + 45) \preceq Whole(Z)  BY <2>3, WholeOrder
  <2>6. QED  BY <2>3, <2>4, <2>5
<1>5. QED  BY <1>2, <1>3, <1>4

(* What a venue is worth to the confidence of a signal.                     *)
LEMMA SurerIfFresh ==
  ASSUME Typed, NEW c, NEW m, NEW w, NEW e, Backing(c, m, w, e),
         NEW f, f = [e EXCEPT !.degraded = {}]
  PROVE  /\ ConfidenceOf(c, e, m, w) \in Int /\ ConfidenceOf(c, f, m, w) \in Int
         /\ ConfidenceOf(c, e, m, w) <= ConfidenceOf(c, f, m, w)
         /\ /\ \E v \in {c.buy, c.sell} \cap e.degraded :
                  \A u \in {c.buy, c.sell} \ {v} : u \in e.degraded \/ e.trouble[u] = 0
            /\ \A u \in {c.buy, c.sell} : e.trouble[u] <= 55
            => ConfidenceOf(c, e, m, w) < ConfidenceOf(c, f, m, w)
<1>0. e \in Now.evidence /\ Routed(c) /\ Up(c.buy) /\ Up(c.sell)  BY DEF Backing
<1>1. e \in Evidence /\ Here \subseteq AllVenues  BY <1>0, SetupIs DEF IsSetup, Typed
<1>2. /\ f.degraded = {} /\ f.trouble = e.trouble /\ f.window = e.window /\ f.rates = e.rates
      /\ f.known = e.known /\ f.rows = e.rows /\ f.predicted = e.predicted
  BY <1>1 DEF Evidence
<1>3. /\ NoiseOf(c, f) = NoiseOf(c, e) /\ Reliability(f) = Reliability(e)
  BY <1>2 DEF NoiseOf, Reliability
<1>4. e.trouble[c.buy] \in Nat /\ e.trouble[c.sell] \in Nat  BY <1>0, EvidenceIs
<1>5. PICK h \in Fraction, k \in Fraction :
        /\ h = HealthOf(c, e) /\ k = HealthOf(c, f) /\ h \preceq k
        /\ /\ \E v \in {c.buy, c.sell} \cap e.degraded :
                  \A u \in {c.buy, c.sell} \ {v} : u \in e.degraded \/ e.trouble[u] = 0
           /\ \A u \in {c.buy, c.sell} : e.trouble[u] <= 55
           => h \oplus Whole(45) \preceq k
  BY <1>0, <1>2, <1>4, HealthOrder
<1>6. CASE c.type # "FUNDING"
  <2>1. PICK a \in Fraction : a = Freshness(Oldness(w), BookAge)
    <3>1. Oldness(w) \in Nat  BY <1>6 DEF Backing, IsTaken, Oldness
    <3>2. QED  BY <3>1, FreshnessIs, CandidateAssumption
  <2>2. PICK d \in Fraction : d = SpreadStability(NoiseOf(c, e), All \otimes m.spread)
    <3>1. All \otimes m.spread \in Fraction  BY Hundred, ProductValue DEF Backing
    <3>2. QED  BY <1>0, <3>1, EvidenceIs, StabilityIs
  <2>3. PICK b \in Fraction, r \in Fraction : b = m.score /\ r = Reliability(e)
    BY <1>0, EvidenceIs DEF Backing
  <2>4. /\ ConfidenceOf(c, e, m, w) = Confidence(Facets(a, b, d, h, r, All))
        /\ ConfidenceOf(c, f, m, w) = Confidence(Facets(a, b, d, k, r, All))
    BY <1>3, <1>5, <1>6, <2>1, <2>2, <2>3 DEF ConfidenceOf, SpotConfidence, Facets
  <2>5. /\ Confidence(Facets(a, b, d, h, r, All)) \in Int
        /\ Confidence(Facets(a, b, d, k, r, All)) \in Int
        /\ h \preceq k => Confidence(Facets(a, b, d, h, r, All))
             <= Confidence(Facets(a, b, d, k, r, All))
        /\ h \oplus Whole(45) \preceq k
              => Confidence(Facets(a, b, d, h, r, All))
                 < Confidence(Facets(a, b, d, k, r, All))
    BY Hundred, ConfidenceGrows
  <2>6. QED  BY <1>5, <2>4, <2>5
<1>7. CASE c.type = "FUNDING"
  <2>0. PICK old : old = IF since[c.buy] < since[c.sell] THEN since[c.sell]
          ELSE since[c.buy]  OBVIOUS
  <2>1. PICK a \in Fraction : a = Freshness(old, FundingAge)
    <3>1. old \in Nat  BY <1>0, <2>0, VenueIs DEF Routed
    <3>2. QED  BY <3>1, FreshnessIs, CandidateAssumption
  <2>2. PICK b \in Fraction : b = Least(RateStability(e.rates[c.buy]),
          RateStability(e.rates[c.sell]))
    BY <1>0, <1>7, EvidenceIs, LeastIs
  <2>3. PICK d \in Fraction : d = Announced(e.predicted, TRUE)
    <3>1. 50 + (IF e.predicted THEN 25 ELSE 0) + (IF TRUE THEN 25 ELSE 0) \in Int  OBVIOUS
    <3>2. QED  BY <3>1, WholeIs DEF Announced
  <2>4. /\ ConfidenceOf(c, e, m, w) = FundingConfidence(Reasons(a, b, h, d))
        /\ ConfidenceOf(c, f, m, w) = FundingConfidence(Reasons(a, b, k, d))
    BY <1>2, <1>5, <1>7, <2>0, <2>1, <2>2, <2>3 DEF ConfidenceOf, CarryConfidence, Reasons
  <2>5. /\ FundingConfidence(Reasons(a, b, h, d)) \in Int
        /\ FundingConfidence(Reasons(a, b, k, d)) \in Int
        /\ h \preceq k => FundingConfidence(Reasons(a, b, h, d))
             <= FundingConfidence(Reasons(a, b, k, d))
        /\ h \oplus Whole(45) \preceq k
              => FundingConfidence(Reasons(a, b, h, d))
                 < FundingConfidence(Reasons(a, b, k, d))
    BY FundingConfidenceGrows
  <2>6. QED  BY <1>5, <2>4, <2>5
<1>8. QED  BY <1>6, <1>7

LEMMA BackedRanksBelow == Typed /\ Backed => DegradedRanksBelow
<1> SUFFICES ASSUME Typed, Backed, Published PROVE DegradedRanksBelow
  BY DEF DegradedRanksBelow
<1>1. PICK c, m, w, e : c = said.of /\ m = said.m /\ w = said.w /\ e = said.evidence  OBVIOUS
<1>2. Backing(c, m, w, e) /\ said.rank = RankOf(c, e, m)  BY <1>1 DEF Backed
<1>3. PICK f : f = [e EXCEPT !.degraded = {}]  OBVIOUS
<1>4. PICK i \in Int, j \in Int :
        /\ i = ConfidenceOf(c, e, m, w) /\ j = ConfidenceOf(c, f, m, w) /\ i <= j
        /\ /\ \E v \in {c.buy, c.sell} \cap e.degraded :
                  \A u \in {c.buy, c.sell} \ {v} : u \in e.degraded \/ e.trouble[u] = 0
           /\ \A u \in {c.buy, c.sell} : e.trouble[u] <= 55
           => i < j
  BY <1>2, <1>3, SurerIfFresh
<1>5. PICK n : n = [m EXCEPT !.conf = j]  OBVIOUS
<1>6. /\ m.conf = i /\ n.conf = j /\ n.net = m.net /\ n.score = m.score /\ n.depth = m.depth
      /\ n.floor = m.floor /\ m.net \in Fraction /\ m.score \in Fraction
  BY <1>2, <1>4, <1>5 DEF Backing
<1>7. PICK risk \in DOMAIN Safety :
        risk = Risk(Penalty(c.type, c.type = "CROSS_CHAIN" /\ BridgeTime > SlowBridge,
                            m.depth \prec Whole(2) \otimes m.floor,
                            IF c.type = "FUNDING" THEN 1 ELSE Len(e.window[c.buy])))
  BY DEF Risk, Safety
<1>8. /\ RankOf(c, e, m).score = Composite(m.net, m.score, i, risk)
      /\ RankOf(c, e, n).score = Composite(m.net, m.score, j, risk)
  BY <1>6, <1>7 DEF RankOf, AtRisk, Ranked
<1>9. FullyFresh(c, e, m, w).score = Composite(m.net, m.score, j, risk)
  BY <1>3, <1>4, <1>5, <1>8 DEF FullyFresh
<1>10. /\ i <= j => Composite(m.net, m.score, i, risk)
            \preceq Composite(m.net, m.score, j, risk)
       /\ i < j => Composite(m.net, m.score, i, risk) \prec Composite(m.net, m.score, j, risk)
  BY <1>6, CompositeGrows
<1>11. Below_(c, e, RankOf(c, e, m).score, FullyFresh(c, e, m, w).score)
  BY <1>4, <1>8, <1>9, <1>10 DEF Below_
<1>12. QED  BY <1>1, <1>2, <1>11 DEF DegradedRanksBelow

(* A venue that is only degraded never lifts a signal, and costs it a place *)
(* unless the trouble of the venues costs it that already.                  *)
THEOREM DegradedVenueCosts == CandidateSpec => []DegradedRanksBelow
<1>1. Provenance => DegradedRanksBelow  BY BackedRanksBelow DEF Provenance
<1>2. QED  BY <1>1, AlwaysProvenance, PTL

-----------------------------------------------------------------------------
(* What the floors drop.                                                    *)

(* A venue whose quote is the top of its book is quoted at what its book is *)
(* worth.                                                                   *)
LEMMA TopIsBest ==
  ASSUME Typed, NEW v \in Here, TopIsQuoted(v)
  PROVE  /\ v \in Pools => /\ Best(Book(v), "buy") = Spot(Book(v))
                           /\ Best(Book(v), "sell") = Spot(Book(v))
         /\ v \notin Pools => /\ Best(Book(v), "buy") = market[v].ask
                              /\ Best(Book(v), "sell") = market[v].bid
<1>1. (v \in Pools => Book(v).type = "DEX") /\ (v \notin Pools => Book(v).type = "CEX")
  BY VenueIs
<1>2. CASE v \in Pools  BY <1>1, <1>2 DEF Best
<1>3. CASE v \notin Pools
  <2>1. market[v].ask = Book(v).asks[1][1] /\ market[v].bid = Book(v).bids[1][1]
    BY <1>3 DEF TopIsQuoted, IsDex
  <2>2. QED  BY <1>1, <1>3, <2>1 DEF Best, Levels
<1>4. QED  BY <1>2, <1>3

Priced(c) == c.spread = Spread(Best(Book(c.buy), "buy"), Best(Book(c.sell), "sell"))
LEMMA SpotsArePriced ==
  ASSUME Typed, NEW c \in Spots, TopIsQuoted(c.buy), TopIsQuoted(c.sell)
  PROVE  Routed(c) /\ c.type # "FUNDING" /\ Priced(c)
<1>1. Routed(c)  BY CexCexRouted, WithPoolRouted DEF Spots
<1>2. /\ \A v \in Quoting : v \in Here /\ v \notin Pools
      /\ \A p \in Pooling : p \in Here /\ p \in Pools
  BY CandidateAssumption DEF Quoting, Pooling
<1>3. CASE c \in CexCex
  <2>1. PICK buy, sell :
          c = Opportunity("CEX_CEX", buy, sell, None,
             Spread(market[buy].ask, market[sell].bid))
    BY <1>3 DEF CexCex
  <2>2. c.type = "CEX_CEX" /\ c.spread = Spread(market[c.buy].ask, market[c.sell].bid)
    BY <2>1 DEF Opportunity
  <2>3. c.buy \in Here /\ c.sell \in Here /\ c.buy \notin Pools /\ c.sell \notin Pools
    BY <1>1, <2>2 DEF Routed
  <2>4. QED  BY <1>1, <2>2, <2>3, TopIsBest DEF Priced
<1>4. CASE c \in CexDex
  <2> DEFINE Out_(v, p) == Opportunity("CEX_DEX", v, p, Chain[p],
        Spread(market[v].ask, Spot(Book(p))))
             Back_(v, p) == Opportunity("CEX_DEX", p, v, Chain[p],
                Spread(Spot(Book(p)), market[v].bid))
  <2>1. PICK v \in Quoting, p \in Pooling : c \in {Out_(v, p), Back_(v, p)}
    BY <1>4 DEF CexDex
  <2>2. v \in Here /\ p \in Here /\ v \notin Pools /\ p \in Pools  BY <1>2
  <2>3. CASE c = Out_(v, p)
    <3>1. c.type = "CEX_DEX" /\ c.buy = v /\ c.sell = p
            /\ c.spread = Spread(market[v].ask, Spot(Book(p)))
      BY <2>3 DEF Opportunity
    <3>2. QED  BY <1>1, <2>2, <3>1, TopIsBest DEF Priced
  <2>4. CASE c = Back_(v, p)
    <3>1. c.type = "CEX_DEX" /\ c.buy = p /\ c.sell = v
            /\ c.spread = Spread(Spot(Book(p)), market[v].bid)
      BY <2>4 DEF Opportunity
    <3>2. QED  BY <1>1, <2>2, <3>1, TopIsBest DEF Priced
  <2>5. QED  BY <2>1, <2>3, <2>4
<1>5. CASE c \in DexDex \cup CrossChain
  <2>1. PICK e \in Pooling \X Pooling :
          \/ c = Opportunity("DEX_DEX", e[1], e[2], Chain[e[1]], Apart(e[1], e[2]))
          \/ c = Opportunity("CROSS_CHAIN", e[1], e[2], None, Apart(e[1], e[2]))
    BY <1>5 DEF DexDex, CrossChain
  <2>2. /\ c.type \in {"DEX_DEX", "CROSS_CHAIN"} /\ c.buy \in Pooling /\ c.sell \in Pooling
        /\ c.spread = Spread(Spot(Book(c.buy)), Spot(Book(c.sell)))
    BY <2>1 DEF Opportunity, Apart
  <2>3. QED  BY <1>1, <1>2, <2>2, TopIsBest DEF Priced
<1>6. QED  BY <1>3, <1>4, <1>5 DEF Spots

(* What a round trip brings in is no more than its spread promises.         *)
LEMMA SpreadBounds ==
  ASSUME NEW buy, IsBook(buy), NEW sell, IsBook(sell), NEW fees, NEW usd \in Price,
         NEW received \in Price, NEW b, Trip(b, buy, sell, fees, usd, received)
  PROVE  b.spread \in Fraction /\ received \preceq usd \oplus usd \otimes b.spread
<1>1. PICK x \in Fraction, y \in Fraction :
        x = Best(buy, "buy") /\ y = Best(sell, "sell") /\ Nil \prec x /\ Nil \prec y
  BY BestIs DEF Price
<1>2. PICK s \in Fraction : s = b.spread /\ s \otimes x = y \ominus x
  <2>1. y \ominus x \in Fraction  BY SumOrder
  <2>2. b.spread = (y \ominus x) \oslash x  BY <1>1 DEF Trip
  <2>3. QED  BY <1>1, <2>1, <2>2, QuotientTimes
<1>3. PICK r \in Fraction : r = One \oplus s  BY Zero, SumOrder
<1>4. r \otimes x = y
  <2>1. x \otimes r = x \oplus (y \ominus x)
    <3>1. x \otimes (One \oplus s) = x \otimes One \oplus x \otimes s
      BY Zero, ProductDistributes
    <3>2. x \otimes One = x /\ x \otimes s = y \ominus x
      BY <1>2, ProductOfOne, ProductCommutes
    <3>3. QED  BY <1>3, <3>1, <3>2
  <2>2. x \oplus (y \ominus x) = y
    <3>1. y \ominus x \in Fraction /\ (y \ominus x) \oplus x = y  BY SumOrder, SumLaws
    <3>2. QED  BY <3>1, SumLaws
  <2>3. QED  BY <2>1, <2>2, ProductCommutes
<1>5. Nil \prec r
  <2>1. Nil \prec r <=> Nil \otimes x \prec r \otimes x  BY <1>1, Zero, ProductOrder
  <2>2. QED  BY <1>1, <1>4, <2>1, ProductOfNil
<1>6. PICK c \in Fraction, u \in Fraction, p \in Fraction :
        /\ c = b.coins /\ u = usd /\ p = received
        /\ p \preceq c \otimes y /\ c \otimes x \preceq u
  BY <1>1 DEF Trip, Price
<1>7. c \otimes y \preceq u \otimes r
  <2>1. PICK z \in Fraction : z = c \otimes x  BY ProductValue
  <2>2. z \otimes r \preceq u \otimes r  BY <1>5, <1>6, <2>1, Zero, Total, ProductOrder
  <2>3. z \otimes r = c \otimes (x \otimes r)  BY <2>1, ProductAssociates
  <2>4. x \otimes r = y  BY <1>4, ProductCommutes
  <2>5. QED  BY <2>2, <2>3, <2>4
<1>8. u \otimes r = u \oplus u \otimes s
  <2>1. u \otimes (One \oplus s) = u \otimes One \oplus u \otimes s
    BY Zero, ProductDistributes
  <2>2. QED  BY <1>3, <2>1, ProductOfOne
<1>9. p \preceq u \otimes r
  <2>1. c \otimes y \in Fraction /\ u \otimes r \in Fraction  BY ProductValue
  <2>2. QED  BY <1>6, <1>7, <2>1, Total
<1>10. QED  BY <1>2, <1>6, <1>8, <1>9

Rates(fb, fs, x, roi) == fb \oplus fs \oplus x \oplus roi

LEMMA RatesTimes ==
  ASSUME NEW U \in Fraction, NEW fb \in Fraction, NEW fs \in Fraction, NEW x \in Fraction,
         NEW roi \in Fraction
  PROVE  /\ Rates(fb, fs, x, roi) \in Fraction
         /\ U \otimes Rates(fb, fs, x, roi)
               = Rates(U \otimes fb, U \otimes fs, U \otimes x, U \otimes roi)
<1>1. PICK y \in Fraction : y = fb \oplus fs  BY SumOrder
<1>2. PICK z \in Fraction : z = y \oplus x  BY SumOrder
<1>3. Rates(fb, fs, x, roi) = z \oplus roi /\ z \oplus roi \in Fraction
  BY <1>1, <1>2, SumOrder DEF Rates
<1>4. U \otimes (z \oplus roi) = U \otimes z \oplus U \otimes roi  BY ProductDistributes
<1>5. U \otimes z = U \otimes y \oplus U \otimes x  BY <1>2, ProductDistributes
<1>6. U \otimes y = U \otimes fb \oplus U \otimes fs  BY <1>1, ProductDistributes
<1>7. QED  BY <1>3, <1>4, <1>5, <1>6 DEF Rates

LEMMA LeftIsPositive ==
  ASSUME NEW q \in Fraction, NEW b \in Fraction, NEW d \in Fraction, NEW f \in Fraction,
         NEW k \in Fraction, Nil \preceq b, Nil \preceq d, Nil \preceq f, Nil \preceq k,
         k \preceq q \ominus (b \oplus d) \ominus f
  PROVE  Nil \preceq q
<1>1. PICK n \in Fraction : n = Nil  BY Zero
<1>2. PICK D : /\ Linear(D) /\ q \in Over(D) /\ b \in Over(D) /\ d \in Over(D)
               /\ f \in Over(D) /\ k \in Over(D) /\ n \in Over(D)
  <2>1. Together(q, b, d, f, k, n, n, n)  BY OverEight
  <2>2. QED  BY <2>1 DEF Together
<1>3. QED  BY <1>1, <1>2 DEF Linear

LEMMA RatesFit ==
  ASSUME NEW q \in Fraction, NEW b \in Fraction, NEW d \in Fraction, NEW f \in Fraction,
         NEW k \in Fraction, NEW g \in Fraction, NEW h \in Fraction, NEW a \in Fraction,
         NEW t, t = q \ominus (b \oplus d) \ominus f, k \preceq t,
         q \preceq a, g \preceq d, h \preceq f
  PROVE  Rates(b, g, h, k) \in Fraction /\ Rates(b, g, h, k) \preceq a
<1>1. PICK D \in Positive :
        /\ Linear(D)
        /\ q \in Over(D) /\ b \in Over(D) /\ d \in Over(D) /\ f \in Over(D)
        /\ k \in Over(D) /\ g \in Over(D) /\ h \in Over(D) /\ a \in Over(D)
  <2>1. PICK C \in Positive : q \in Over(C) /\ b \in Over(C) /\ d \in Over(C) /\ f \in Over(C)
    BY OverFour
  <2>2. PICK E \in Positive : Over(C) \subseteq Over(E) /\ k \in Over(E)  BY OverOneMore
  <2>3. PICK F \in Positive : Over(E) \subseteq Over(F) /\ g \in Over(F)  BY OverOneMore
  <2>4. PICK G \in Positive : Over(F) \subseteq Over(G) /\ h \in Over(G)  BY OverOneMore
  <2>5. PICK D \in Positive : Over(G) \subseteq Over(D) /\ a \in Over(D)  BY OverOneMore
  <2>6. QED  BY <2>1, <2>2, <2>3, <2>4, <2>5, Linearity
<1>2. PICK s : s = Rates(b, g, h, k)  OBVIOUS
<1>3. /\ s \in Over(D) /\ Num(s, D) = Num(b, D) + Num(g, D) + Num(h, D) + Num(k, D)
      /\ t \in Over(D) /\ Num(t, D) = Num(q, D) - (Num(b, D) + Num(d, D)) - Num(f, D)
  BY <1>1, <1>2 DEF Linear, Rates
<1>4. Num(h, D) <= Num(f, D) /\ Num(g, D) <= Num(d, D) /\ Num(q, D) <= Num(a, D)
      /\ Num(k, D) <= Num(t, D)
  BY <1>1, <1>2, <1>3 DEF Linear
<1>5. QED  BY <1>1, <1>2, <1>3, <1>4 DEF Linear

(* A round trip that earns its return on the dollars it takes has a spread  *)
(* that covers both rates, that return and the flat costs.                  *)
LEMMA SpreadCovers ==
  ASSUME NEW U \in Price, NEW P \in Price, NEW s \in Fraction, NEW fb \in Amount,
         NEW fs \in Amount,
         NEW F \in Amount, NEW x \in Amount, NEW roi \in Amount,
         P \preceq U \oplus U \otimes s, x \otimes U \preceq F,
         NEW profit \in Fraction, profit = P \ominus U
            \ominus (U \otimes fb \oplus P \otimes fs) \ominus F,
         roi \otimes U \preceq profit
  PROVE  Rates(fb, fs, x, roi) \preceq s
<1>1. /\ U \in Fraction /\ Nil \prec U /\ Nil \preceq U /\ fb \in Fraction /\ Nil \preceq fb
      /\ fs \in Fraction /\ Nil \preceq fs /\ F \in Fraction /\ Nil \preceq F /\ P \in Fraction
      /\ Nil \preceq P /\ x \in Fraction /\ roi \in Fraction /\ Nil \preceq roi
  BY Amounts DEF Price, Amount
<1>2. PICK a \in Fraction, b \in Fraction, d \in Fraction, k \in Fraction :
        a = U \otimes s /\ b = U \otimes fb /\ d = P \otimes fs /\ k = U \otimes roi
  BY <1>1, ProductValue
<1>3. PICK g \in Fraction, h \in Fraction : g = U \otimes fs /\ h = U \otimes x
  BY <1>1, ProductValue
<1>4. Nil \preceq b /\ Nil \preceq k /\ Nil \preceq d /\ h \preceq F
  BY <1>1, <1>2, <1>3, ProductSigns, ProductCommutes
<1>5. PICK q \in Fraction, f \in Fraction, u \in Fraction, p \in Fraction :
        q = P \ominus U /\ f = F /\ u = U /\ p = P
  BY <1>1, SumOrder
<1>6. k \preceq q \ominus (b \oplus d) \ominus f  BY <1>1, <1>2, <1>5, ProductCommutes
<1>7. q \preceq a
  <2>1. PICK D : Linear(D) /\ a \in Over(D) /\ u \in Over(D) /\ p \in Over(D)  BY OverFour
  <2>2. p \preceq u \oplus a /\ q = p \ominus u  BY <1>2, <1>5
  <2>3. QED  BY <2>1, <2>2 DEF Linear
<1>8. Nil \preceq q
  <2>1. Nil \preceq f  BY <1>1, <1>5
  <2>2. QED  BY <1>4, <1>6, <2>1, LeftIsPositive
<1>9. g \preceq d
  <2>1. U \preceq P  BY <1>1, <1>5, <1>8, SumLaws
  <2>2. QED  BY <1>1, <1>2, <1>3, <2>1, ProductOrder
<1>10. Rates(b, g, h, k) \in Fraction /\ Rates(b, g, h, k) \preceq a
  <2>1. h \preceq f  BY <1>4, <1>5
  <2>2. PICK t : t = q \ominus (b \oplus d) \ominus f /\ k \preceq t  BY <1>6
  <2>3. QED  BY <1>7, <1>9, <2>1, <2>2, RatesFit
<1>11. PICK y \in Fraction : y = Rates(fb, fs, x, roi) /\ U \otimes y = Rates(b, g, h, k)
  <2>1. /\ Rates(fb, fs, x, roi) \in Fraction
        /\ U \otimes Rates(fb, fs, x, roi)
              = Rates(U \otimes fb, U \otimes fs, U \otimes x, U \otimes roi)
    <3>1. U \in Fraction /\ fb \in Fraction /\ fs \in Fraction /\ x \in Fraction
            /\ roi \in Fraction
      BY <1>1
    <3>2. QED  BY <3>1, RatesTimes, SMTT(30)
  <2>2. QED  BY <1>2, <1>3, <2>1
<1>12. ~(s \prec y)
  <2>1. s \prec y <=> s \otimes U \prec y \otimes U  BY <1>1, ProductOrder
  <2>2. ~(s \otimes U \prec y \otimes U)
    BY <1>1, <1>2, <1>10, <1>11, ProductCommutes, Total
  <2>3. QED  BY <2>1, <2>2
<1>13. QED  BY <1>11, <1>12, Total

(* What the detectors charge for gas and a bridge is charged of every size. *)
LEMMA FixedIsPaid ==
  ASSUME Typed, NEW c, Routed(c), c.type # "FUNDING", NEW price \in Now.gas, NEW U \in Price,
         U \preceq MaxUsd(Book(c.buy), "buy"), U \preceq MaxUsd(Book(c.sell), "sell"),
         Resolved(Fees(c, GasOf(c, price)))
  PROVE  Fixed(c) \in Amount /\ Fixed(c) \otimes U \preceq FlatOf(Fees(c, GasOf(c, price)))
<1>1. setup \in DOMAIN Setups /\ c.buy \in Here /\ c.sell \in Here  BY DEF Typed, Routed
<1>2. PICK gas \in Amount, draw \in Amount, bridge \in Amount :
        /\ gas = GasOf(c, price) /\ draw = WithdrawalOf(c)
        /\ bridge = IF c.type = "CROSS_CHAIN" THEN BridgeFee ELSE Nil
        /\ FlatOf(Fees(c, GasOf(c, price))) = draw \oplus gas \oplus bridge
  <2>1. FeesAre(Fees(c, GasOf(c, price)))  BY GasIs, CandidateFees
  <2>2. QED  BY <2>1 DEF FeesAre, Fees, FlatOf, OrZero, Resolved
<1>3. U \in Fraction /\ Nil \prec U  BY DEF Price
<1>4. GasFloor \in Amount /\ BridgeFloor \in Amount /\ GasFloor \in Fraction
        /\ BridgeFloor \in Fraction
  BY CandidateAssumption, Amounts
<1>5. PICK x \in Fraction, y \in Fraction : x = GasFloor \otimes U /\ y = BridgeFloor \otimes U
  BY <1>3, <1>4, ProductValue
<1>6. ASSUME NEW v \in {c.buy, c.sell}, v \in Pools
      PROVE  x \preceq gas /\ y \preceq BridgeFee
  <2>1. PICK side \in {"buy", "sell"}, most \in Price : U \preceq most
          /\ most = MaxUsd(Book(v), side)
    <3>1. IsBook(Book(c.buy)) /\ IsBook(Book(c.sell))  BY <1>1, VenueIs
    <3>2. QED  BY <1>6, <3>1, MaxUsdIs
  <2>2. v \in Here /\ market[v] \in Now.states[v] /\ Book(v) = market[v].book
    BY <1>1 DEF Typed, Book
  <2>3. price[Chain[v]] # None /\ price[Chain[v]] \in Amount /\ price[Chain[v]] \preceq gas
    <3>1. gas # None  BY <1>2, NotNone, Amounts
    <3>2. \A u \in {c.buy, c.sell} : IsDex(u) => price[Chain[u]] # None
      BY <1>2, <3>1 DEF GasOf
    <3>3. \A u \in Here \cap Pools : price[Chain[u]] \in Amount \cup {None}
      BY <1>1, SetupIs DEF IsSetup
    <3>4. PICK a \in Amount, b \in Amount :
            /\ a = IF IsDex(c.buy) THEN price[Chain[c.buy]] ELSE Nil
            /\ b = IF IsDex(c.sell) THEN price[Chain[c.sell]] ELSE Nil
            /\ gas = a \oplus b
      <4>1. /\ (IF IsDex(c.buy) THEN price[Chain[c.buy]] ELSE Nil) \in Amount
            /\ (IF IsDex(c.sell) THEN price[Chain[c.sell]] ELSE Nil) \in Amount
        BY <1>1, <3>2, <3>3, Zero DEF IsDex
      <4>2. gas = (IF IsDex(c.buy) THEN price[Chain[c.buy]] ELSE Nil)
                      \oplus (IF IsDex(c.sell) THEN price[Chain[c.sell]] ELSE Nil)
        BY <1>2, <3>1 DEF GasOf
      <4>3. QED  BY <4>1, <4>2
    <3>5. a \preceq gas /\ b \preceq gas
      <4>1. a \in Fraction /\ b \in Fraction /\ Nil \in Fraction /\ Nil \preceq a
              /\ Nil \preceq b
        BY Zero DEF Amount
      <4>2. PICK D : Linear(D) /\ a \in Over(D) /\ b \in Over(D) /\ Nil \in Over(D)
        BY <4>1, OverFour
      <4>3. QED  BY <3>4, <4>1, <4>2 DEF Linear
    <3>6. price[Chain[v]] \in {a, b}  BY <1>6, <3>4 DEF IsDex
    <3>7. QED  BY <1>6, <2>2, <3>2, <3>5, <3>6 DEF IsDex
  <2>4. GasFloor \otimes most \preceq price[Chain[v]]
          /\ BridgeFloor \otimes most \preceq BridgeFee
    BY <1>1, <1>6, <2>1, <2>2, <2>3, FloorsAssumption DEF Here, Now
  <2>5. \A z \in Amount : z \otimes U \preceq z \otimes most
    <3> TAKE z \in Amount
    <3>1. z \in Fraction /\ Nil \preceq z /\ most \in Fraction  BY DEF Amount, Price
    <3>2. U \otimes z \preceq most \otimes z  BY <1>3, <2>1, <3>1, ProductOrder
    <3>3. QED  BY <1>3, <3>1, <3>2, ProductCommutes
  <2>6. /\ GasFloor \otimes most \in Fraction /\ BridgeFloor \otimes most \in Fraction
        /\ BridgeFee \in Fraction /\ gas \in Fraction /\ price[Chain[v]] \in Fraction
    BY <1>4, <2>3, ProductValue, CandidateAssumption DEF Price, Amount
  <2>7. x \preceq GasFloor \otimes most /\ y \preceq BridgeFloor \otimes most
    BY <1>4, <1>5, <2>5
  <2>8. QED  BY <1>5, <2>3, <2>4, <2>6, <2>7, Total
<1>7. /\ draw \in Fraction /\ gas \in Fraction /\ bridge \in Fraction /\ Nil \in Fraction
      /\ Nil \preceq draw /\ Nil \preceq gas /\ Nil \preceq bridge
  BY Zero DEF Amount
<1>8. PICK D : /\ Linear(D) /\ draw \in Over(D) /\ gas \in Over(D) /\ bridge \in Over(D)
               /\ Nil \in Over(D) /\ x \in Over(D) /\ y \in Over(D)
  <2>1. Together(draw, gas, bridge, Nil, x, y, y, y)  BY <1>5, <1>7, OverEight
  <2>2. QED  BY <2>1 DEF Together
<1>9. PICK flat : flat = draw \oplus gas \oplus bridge /\ flat \in Over(D)
                  /\ Num(flat, D) = Num(draw, D) + Num(gas, D) + Num(bridge, D)
  BY <1>8 DEF Linear
<1>10. Num(draw, D) >= 0 /\ Num(gas, D) >= 0 /\ Num(bridge, D) >= 0
  <2>1. Num(Nil, D) = 0  BY <1>8 DEF Linear
  <2>2. QED  BY <1>7, <1>8, <2>1 DEF Linear
<1>11. CASE c.type = "CEX_CEX"
  <2>1. Fixed(c) = Nil /\ Nil \otimes U = Nil  BY <1>3, <1>11, ProductOfNil DEF Fixed
  <2>2. Nil \preceq flat
    <3>1. Num(Nil, D) = 0  BY <1>8 DEF Linear
    <3>2. QED  BY <1>8, <1>9, <1>10, <3>1 DEF Linear
  <2>3. QED  BY <1>2, <1>9, <2>1, <2>2, Zero
<1>12. CASE c.type = "CROSS_CHAIN"
  <2>1. Fixed(c) = GasFloor \oplus BridgeFloor  BY <1>12 DEF Fixed
  <2>2. x \preceq gas /\ y \preceq bridge  BY <1>2, <1>6, <1>12 DEF Routed
  <2>3. (GasFloor \oplus BridgeFloor) \otimes U = x \oplus y
    <3>1. U \otimes (GasFloor \oplus BridgeFloor)
            = U \otimes GasFloor \oplus U \otimes BridgeFloor
      BY <1>3, <1>4, ProductDistributes
    <3>2. GasFloor \oplus BridgeFloor \in Fraction  BY <1>4, SumOrder
    <3>3. QED  BY <1>3, <1>4, <1>5, <3>1, <3>2, ProductCommutes
  <2>4. x \oplus y \preceq flat  BY <1>8, <1>9, <1>10, <2>2 DEF Linear
  <2>5. GasFloor \oplus BridgeFloor \in Amount  BY <1>4, Amounts
  <2>6. QED  BY <1>2, <1>9, <2>1, <2>3, <2>4, <2>5
<1>13. CASE c.type \in {"CEX_DEX", "DEX_DEX"}
  <2>1. Fixed(c) = GasFloor  BY <1>13 DEF Fixed
  <2>2. x \preceq gas  BY <1>6, <1>13 DEF Routed
  <2>3. x \preceq flat  BY <1>8, <1>9, <1>10, <2>2 DEF Linear
  <2>4. QED  BY <1>2, <1>4, <1>5, <1>9, <2>1, <2>3
<1>14. QED  BY <1>11, <1>12, <1>13 DEF Routed

(* The floors that a detector and the pre-gate hold a spread to.            *)
LEMMA FloorIs ==
  ASSUME Typed, NEW c, Routed(c), c.type # "FUNDING", Fixed(c) \in Amount,
         ~ClearsFloor(c) \/ PreGated(c)
  PROVE  c.spread \prec Rates(Flat(c.buy), Flat(c.sell), Fixed(c), MinRoi)
<1>1. PICK fb \in Fraction, fs \in Fraction, x \in Fraction, roi \in Fraction, s \in Fraction :
        /\ fb = Flat(c.buy) /\ fs = Flat(c.sell) /\ x = Fixed(c) /\ roi = MinRoi
             /\ s = c.spread
        /\ Nil \preceq x
  BY FlatIsAmount, PricingAssumption, Amounts DEF Routed, Amount
<1>2. PICK t \in Fraction, u \in Fraction :
        t = fb \oplus fs \oplus roi /\ u = Rates(fb, fs, x, roi) /\ t \preceq u
  <2>1. PICK n \in Fraction : n = Nil  BY Zero
  <2>2. PICK D : /\ Linear(D) /\ fb \in Over(D) /\ fs \in Over(D) /\ x \in Over(D)
                 /\ roi \in Over(D) /\ n \in Over(D)
    <3>1. Together(fb, fs, x, roi, n, n, n, n)  BY OverEight
    <3>2. QED  BY <3>1 DEF Together
  <2>3. PICK t, u : t = fb \oplus fs \oplus roi /\ u = Rates(fb, fs, x, roi)  OBVIOUS
  <2>4. /\ t \in Over(D) /\ Num(t, D) = Num(fb, D) + Num(fs, D) + Num(roi, D)
        /\ u \in Over(D) /\ Num(u, D) = Num(fb, D) + Num(fs, D) + Num(x, D) + Num(roi, D)
        /\ Num(x, D) >= 0
    BY <1>1, <2>1, <2>2, <2>3 DEF Linear, Rates
  <2>5. QED  BY <2>2, <2>3, <2>4 DEF Linear
<1>3. PreGated(c) => s \prec t  BY <1>1, <1>2 DEF PreGated
<1>4. ~ClearsFloor(c) => ~(u \preceq s)  BY <1>1, <1>2 DEF ClearsFloor, Rates
<1>5. s \prec u  BY <1>2, <1>3, <1>4, Total
<1>6. QED  BY <1>1, <1>2, <1>5

LEMMA DroppedSpot ==
  ASSUME Typed, NEW c \in Spots, TopIsQuoted(c.buy), TopIsQuoted(c.sell),
         ~ClearsFloor(c) \/ PreGated(c), NEW price \in Now.gas, NEW e \in Now.evidence,
         NEW fees, fees = Fees(c, GasOf(c, price))
  PROVE  Result(Confident(Measured(c, Taken(c), GasOf(c, price), e, Sized(Taken(c), fees))))
            # "SIGNAL"
<1>1. PICK m : m = Measured(c, Taken(c), GasOf(c, price), e, Sized(Taken(c), fees))  OBVIOUS
<1> SUFFICES ASSUME Result(Confident(m)) = "SIGNAL" PROVE FALSE
  BY <1>1
<1>2. Routed(c) /\ c.type # "FUNDING" /\ Priced(c)  BY SpotsArePriced
<1>3. PICK w : w = Taken(c) /\ IsTaken(w) /\ w.buy = Book(c.buy) /\ w.sell = Book(c.sell)
  <2>1. IsTaken(Taken(c))  BY <1>2, TakenIs
  <2>2. Taken(c).buy = Book(c.buy) /\ Taken(c).sell = Book(c.sell)  BY DEF Taken
  <2>3. QED  BY <2>1, <2>2
<1>4. m # None  BY DEF Confident, Result
<1>5. PICK b : b = Sized(w, fees).best /\ b # None
  BY <1>1, <1>3, <1>4 DEF Measured, Assessed
<1>6. FeesAre(fees)  BY <1>2, GasIs, CandidateFees
<1>7. b \in Sweep(w.buy, w.sell, fees)  BY <1>3, <1>5, <1>6, SizedIs
<1>8. IsBook(w.buy) /\ IsBook(w.sell)  BY <1>3 DEF IsTaken
<1>9. PICK U \in Price, P \in Price :
        U \preceq Depth(w.buy, w.sell) /\ Trip(b, w.buy, w.sell, fees, U, P)
  BY <1>6, <1>7, <1>8, SweepIs
<1>10. m.roi = b.roi /\ m.fees = fees /\ {"roi", "fees", "conf"} \subseteq DOMAIN m
  BY <1>1, <1>3, <1>5 DEF Measured, Assessed
<1>11. PICK n : n = [m EXCEPT !.conf = 100]  OBVIOUS
<1>12. n.roi = b.roi /\ n.fees = fees  BY <1>10, <1>11
<1>13. Validate(n) = "SIGNAL"  BY <1>4, <1>11 DEF Confident, Result
<1>14. Resolved(fees) /\ ~(b.roi \prec MinRoi)  BY <1>12, <1>13, SignalPasses DEF FeesResolved
<1>15. U \preceq MaxUsd(Book(c.buy), "buy") /\ U \preceq MaxUsd(Book(c.sell), "sell")
  <2>1. /\ Depth(w.buy, w.sell) \in Price
        /\ Depth(w.buy, w.sell) \preceq MaxUsd(w.buy, "buy")
        /\ Depth(w.buy, w.sell) \preceq MaxUsd(w.sell, "sell")
        /\ MaxUsd(w.buy, "buy") \in Price /\ MaxUsd(w.sell, "sell") \in Price
    BY <1>8, DepthIs, MaxUsdIs
  <2>2. QED  BY <1>3, <1>9, <2>1, Total DEF Price
<1>16. PICK x \in Amount : x = Fixed(c) /\ x \otimes U \preceq FlatOf(fees)
  BY <1>2, <1>14, <1>15, FixedIsPaid
<1>17. PICK s \in Fraction : s = c.spread /\ P \preceq U \oplus U \otimes s
  <2>1. b.spread \in Fraction /\ P \preceq U \oplus U \otimes b.spread
    BY <1>8, <1>9, SpreadBounds
  <2>2. b.spread = Spread(Best(w.buy, "buy"), Best(w.sell, "sell"))  BY <1>9 DEF Trip, Spread
  <2>3. QED  BY <1>2, <1>3, <2>1, <2>2 DEF Priced
<1>18. PICK fb \in Amount, fs \in Amount :
         fb = Flat(c.buy) /\ fs = Flat(c.sell) /\ fb = fees.buy /\ fs = fees.sell
  <2>1. Flat(c.buy) \in Amount /\ Flat(c.sell) \in Amount  BY <1>2, FlatIsAmount DEF Routed
  <2>2. QED  BY <2>1 DEF Fees
<1>19. PICK F \in Amount, roi \in Amount, profit \in Fraction :
         /\ F = FlatOf(fees) /\ roi = MinRoi /\ profit = b.net
         /\ profit = P \ominus U \ominus (U \otimes fb \oplus P \otimes fs) \ominus F
         /\ b.roi = profit \oslash U
  BY <1>6, <1>9, <1>18, FlatIs, PricingAssumption DEF Trip
<1>20. roi \otimes U \preceq profit
  <2>1. U \in Fraction /\ Nil \prec U /\ roi \in Fraction /\ roi \otimes U \in Fraction
    BY ProductValue, Amounts DEF Price
  <2>2. profit \oslash U \prec roi <=> profit \prec roi \otimes U  BY <2>1, QuotientOrder
  <2>3. QED  BY <1>14, <1>19, <2>1, <2>2, Total
<1>21. Rates(fb, fs, x, roi) \preceq s  BY <1>16, <1>17, <1>19, <1>20, SpreadCovers
<1>22. s \prec Rates(fb, fs, x, roi)  BY <1>2, <1>16, <1>17, <1>18, <1>19, FloorIs
<1>23. Rates(fb, fs, x, roi) \in Fraction  BY <1>16, <1>17, <1>18, <1>19, RatesTimes, Amounts
<1>24. QED  BY <1>21, <1>22, <1>23, Total

(* A carry below what breaks even earns less than the least profit.         *)
LEMMA CarryFallsShort ==
  ASSUME NEW N \in Price, NEW T \in Price, NEW s \in Fraction, NEW least \in Fraction,
         NEW fb \in Fraction, NEW fs \in Fraction,
         s \prec (least \oslash N \oplus fb \oplus fs) \oslash T
  PROVE  /\ (N \otimes s) \otimes T \in Fraction /\ N \otimes (fb \oplus fs) \in Fraction
         /\ ((N \otimes s) \otimes T) \ominus (N \otimes (fb \oplus fs)) \prec least
<1>1. N \in Fraction /\ Nil \prec N /\ T \in Fraction /\ Nil \prec T  BY DEF Price
<1>2. PICK q \in Fraction : q = least \oslash N /\ q \otimes N = least  BY <1>1, QuotientTimes
<1>3. PICK f \in Fraction : f = fb \oplus fs  BY SumOrder
<1>4. PICK z \in Fraction : z = q \oplus f /\ z = q \oplus fb \oplus fs
  <2>1. PICK D : /\ Linear(D) /\ q \in Over(D) /\ fb \in Over(D) /\ fs \in Over(D)  BY OverFour
  <2>2. q \oplus (fb \oplus fs) = q \oplus fb \oplus fs  BY <2>1 DEF Linear
  <2>3. q \oplus f \in Fraction  BY SumOrder
  <2>4. QED  BY <1>3, <2>2, <2>3
<1>5. s \otimes T \prec z  BY <1>1, <1>2, <1>4, QuotientOrder
<1>6. PICK a \in Fraction : a = s \otimes T  BY <1>1, ProductValue
<1>7. a \otimes N \prec z \otimes N  BY <1>1, <1>5, <1>6, ProductOrder
<1>8. PICK g \in Fraction, h \in Fraction : g = a \otimes N /\ h = N \otimes f
  BY <1>1, ProductValue
<1>9. (N \otimes s) \otimes T = g
  <2>1. (N \otimes s) \otimes T = N \otimes a  BY <1>1, <1>6, ProductAssociates
  <2>2. QED  BY <1>1, <1>8, <2>1, ProductCommutes
<1>10. z \otimes N = least \oplus h
  <2>1. N \otimes (q \oplus f) = N \otimes q \oplus N \otimes f  BY <1>1, ProductDistributes
  <2>2. QED  BY <1>1, <1>2, <1>4, <1>8, <2>1, ProductCommutes
<1>11. g \ominus h \prec least
  <2>1. PICK D : /\ Linear(D) /\ g \in Over(D) /\ h \in Over(D) /\ least \in Over(D)
    BY OverFour
  <2>2. g \prec least \oplus h  BY <1>7, <1>8, <1>10
  <2>3. QED  BY <2>1, <2>2 DEF Linear
<1>12. QED  BY <1>3, <1>8, <1>9, <1>11

LEMMA DroppedCarry ==
  ASSUME Typed, NEW c \in Funding, ~ClearsFloor(c), NEW e
  PROVE  Result(Confident(CarryMeasured(c, e))) # "SIGNAL"
<1>1. PICK m : m = CarryMeasured(c, e)  OBVIOUS
<1> SUFFICES ASSUME Result(Confident(m)) = "SIGNAL" PROVE FALSE
  BY <1>1
<1>2. Routed(c) /\ c.type = "FUNDING"  BY FundingRouted
<1>3. c.buy \in Here /\ c.sell \in Here /\ c.buy \in Cex /\ c.sell \in Cex
        /\ c.spread \in Fraction
  BY <1>2, VenueIs DEF Routed
<1>4. PICK fb \in Fraction, fs \in Fraction : fb = Flat(c.buy) /\ fs = Flat(c.sell)
  BY <1>3, FlatIsAmount, Amounts
<1>5. PICK s \in Fraction : s = c.spread  BY <1>3
<1>6. PICK least \in Fraction : least = MinNet  BY PricingAssumption, Amounts
<1>7. Notional \in Price /\ Hold \in Price  BY CandidateAssumption
<1>8. PICK even : even = Breakeven(c.buy, c.sell)
                  /\ even = (least \oslash Notional \oplus fb \oplus fs) \oslash Hold
  BY <1>4, <1>6 DEF Breakeven
<1>9. MinAnnual \preceq even  BY <1>3, <1>8, FloorsAssumption
<1>10. ~(even \preceq s)  BY <1>2, <1>5, <1>8, <1>9 DEF ClearsFloor, Most
<1>11. s \prec even  BY <1>10 DEF \preceq
<1>12. ((Notional \otimes s) \otimes Hold) \ominus (Notional \otimes (fb \oplus fs))
         \prec least
  BY <1>7, <1>8, <1>11, CarryFallsShort
<1>13. PICK profit : profit = ((Notional \otimes s) \otimes Hold)
         \ominus (Notional \otimes (fb \oplus fs))
  OBVIOUS
<1>14. m.net = profit /\ {"net", "conf"} \subseteq DOMAIN m
  BY <1>1, <1>4, <1>5, <1>13 DEF CarryMeasured, CarryOf, Carry
<1>15. m # None  BY DEF Confident, Result
<1>16. PICK n : n = [m EXCEPT !.conf = 100]  OBVIOUS
<1>17. n.net = profit  BY <1>14, <1>16
<1>18. Validate(n) = "SIGNAL"  BY <1>15, <1>16 DEF Confident, Result
<1>19. ~(profit \prec MinNet)  BY <1>17, <1>18, SignalPasses
<1>20. QED  BY <1>6, <1>12, <1>13, <1>19

LEMMA TypedDrops == Typed => DroppedIsRejected
<1> SUFFICES ASSUME Typed, NEW c \in Seen,
                    ~Passes(c) \/ (c.type # "FUNDING" /\ PreGated(c)),
                    TopIsQuoted(c.buy), TopIsQuoted(c.sell),
                    NEW price \in Now.gas, NEW e \in Now.evidence
             PROVE  Result(Confident(IF c.type = "FUNDING" THEN CarryMeasured(c, e)
                           ELSE Measured(c, Taken(c), GasOf(c, price), e,
                                         Sized(Taken(c),
                                            Fees(c, GasOf(c, price)))))) # "SIGNAL"
  BY DEF DroppedIsRejected, Rejected
<1>1. ~ClearsFloor(c) \/ (c.type # "FUNDING" /\ PreGated(c))  BY DEF Passes
<1>2. CASE c \in Spots
  <2>1. c.type # "FUNDING"  BY <1>2, SpotsArePriced
  <2>2. PICK fees : fees = Fees(c, GasOf(c, price))  OBVIOUS
  <2>3. Result(Confident(Measured(c, Taken(c), GasOf(c, price), e,
          Sized(Taken(c), fees)))) # "SIGNAL"
    BY <1>1, <1>2, <2>2, DroppedSpot
  <2>4. QED  BY <2>1, <2>2, <2>3
<1>3. CASE c \in Funding
  <2>1. c.type = "FUNDING"  BY <1>3, FundingRouted
  <2>2. QED  BY <1>1, <1>3, <2>1, DroppedCarry
<1>4. QED  BY <1>2, <1>3 DEF Seen

(* What a detector's floor or the pre-gate drops, no size, no gas price and *)
(* no evidence could have had published: the floors lose nothing, for every *)
(* market, fee and book.                                                    *)
THEOREM FloorsLoseNothing == CandidateSpec => []DroppedIsRejected
<1>1. Provenance => DroppedIsRejected  BY TypedDrops DEF Provenance
<1>2. QED  BY <1>1, AlwaysProvenance, PTL
=============================================================================
