--------------------------- MODULE BackofficeProofs ---------------------------
(***************************************************************************)
(* Proofs about what staff, users and payments write, for any number of    *)
(* them: the two-person rule, that decisions stand, that onboarding only   *)
(* advances.                                                               *)
(*                                                                         *)
(* The rule counts people; the code counts a list that two handlers may    *)
(* read and write back one over the other.  What carries the proof is that *)
(* every list, written or still in a handler's hands, names each person    *)
(* once and only people who pressed (Attested), and that whatever is past  *)
(* the check has the evidence for it (Cleared).                            *)
(*                                                                         *)
(* A column that was not overtaken agrees with whatever is going to be     *)
(* written over it: in a profile that a handler holds it is the row's; in  *)
(* a save or a staff operation, one that was meant to change is read as it *)
(* is, and any other is written as it was read (Standing).                 *)
(***************************************************************************)
EXTENDS Backoffice, FiniteSetTheorems, SequenceTheorems, TLAPS

Rows == [status : {None, "draft", "approved", "sent"}, recipients : Nat,
         confirmed : Seq(Staff)]

(* What the rows and the handlers are. *)
Shape ==
    /\ job \in [Jobs -> Rows]
    /\ desk \in [Staff -> [pc : {"idle", "confirm", "send", "claim", "fan"},
                           job : Jobs \cup {None}, saw : Rows, to : SUBSET Users]]
    /\ \A s \in Staff : desk[s].pc # "idle" => desk[s].job \in Jobs
    /\ pressed \in [Jobs -> SUBSET Staff]
    /\ \A o \in outbox : o.job \in Jobs

(* A job that was not drafted is in nobody's hands. *)
Untouched ==
    \A j \in Jobs : job[j].status = None =>
        /\ job[j] = NoJob
        /\ \A s \in Staff : desk[s].pc = "idle" \/ desk[s].job # j
        /\ \A o \in outbox : o.job # j

(* A list names everybody once, and only people who pressed. *)
Names(list, j) == IsInjective(list) /\ ToSet(list) \subseteq pressed[j]

Attested ==
    /\ \A j \in Jobs : Names(job[j].confirmed, j)
    /\ \A s \in Staff : desk[s].pc = "confirm" =>
          /\ Names(desk[s].saw.confirmed, desk[s].job)
          /\ desk[s].saw.recipients = job[desk[s].job].recipients

(* Two different people confirmed j, if it is a large one. *)
Witnessed(j) == job[j].recipients >= Threshold => \E a, b \in pressed[j] : a # b

Cleared ==
    /\ \A j \in Jobs : job[j].status \in {"approved", "sent"} => Witnessed(j)
    /\ \A s \in Staff : desk[s].pc \in {"claim", "fan"} => Witnessed(desk[s].job)
    /\ \A o \in outbox : Witnessed(o.job)

IInv == Shape /\ Untouched /\ Attested /\ Cleared

-----------------------------------------------------------------------------
(* Lists and people. *)

(* Two different members make two. *)
LEMMA TwoMembers ==
    ASSUME NEW S, IsFiniteSet(S), NEW a \in S, NEW b \in S, a # b
    PROVE  Cardinality(S) >= 2
<1>1. IsFiniteSet({a}) /\ Cardinality({a}) = 1 BY FS_Singleton
<1>2. IsFiniteSet({a} \cup {b}) /\ Cardinality({a} \cup {b}) = 2
  <2>1. b \notin {a} OBVIOUS
  <2>2. IsFiniteSet({a} \cup {b}) /\ Cardinality({a} \cup {b}) = Cardinality({a}) + 1
    BY <1>1, <2>1, FS_AddElement, Zenon
  <2> QED BY <1>1, <2>2
<1>3. Cardinality({a} \cup {b}) <= Cardinality(S)
  <2>1. {a} \cup {b} \in SUBSET S OBVIOUS
  <2> QED BY <2>1, FS_Subset
<1>4. Cardinality(S) \in Nat BY FS_CardinalityType
<1> QED BY <1>2, <1>3, <1>4

(* add_confirmation: who pressed is on the list, and nobody twice. *)
LEMMA ConfirmedNames ==
    ASSUME NEW list \in Seq(Staff), NEW s \in Staff, IsInjective(list)
    PROVE  /\ Confirmed(list, s) \in Seq(Staff) /\ IsInjective(Confirmed(list, s))
           /\ ToSet(Confirmed(list, s)) = ToSet(list) \cup {s}
<1>1. CASE s \in ToSet(list) BY <1>1 DEF Confirmed
<1>2. CASE s \notin ToSet(list)
  <2> DEFINE new == Append(list, s)
  <2>1. Confirmed(list, s) = new BY <1>2 DEF Confirmed
  <2>2. /\ new \in Seq(Staff) /\ Len(new) = Len(list) + 1 /\ Len(list) \in Nat
        /\ \A i \in 1..Len(list) : new[i] = list[i]
        /\ new[Len(list) + 1] = s
        /\ DOMAIN list = 1..Len(list) /\ DOMAIN new = 1..(Len(list) + 1)
    BY AppendProperties, LenProperties
  <2> HIDE DEF new
  <2>3. \A i \in 1..Len(list) : list[i] # s BY <1>2, <2>2, Zenon DEF ToSet
  <2>4. \A i, k \in 1..Len(list) : list[i] = list[k] => i = k BY <2>2 DEF IsInjective
  <2>5. IsInjective(new)
    <3> SUFFICES ASSUME NEW i \in 1..(Len(list) + 1), NEW k \in 1..(Len(list) + 1),
                        new[i] = new[k]
                 PROVE  i = k
      BY <2>2 DEF IsInjective
    <3> QED BY <2>2, <2>3, <2>4
  <2>6. ToSet(new) \subseteq ToSet(list) \cup {s}
    <3> SUFFICES ASSUME NEW i \in DOMAIN new PROVE new[i] \in ToSet(list) \cup {s}
      BY Zenon DEF ToSet
    <3>1. i \in 1..Len(list) \/ i = Len(list) + 1 BY <2>2
    <3> QED BY <2>2, <3>1, Zenon DEF ToSet
  <2>7. ToSet(list) \cup {s} \subseteq ToSet(new)
    <3>1. Len(list) + 1 \in DOMAIN new /\ \A i \in DOMAIN list : i \in DOMAIN new BY <2>2
    <3> QED BY <2>2, <3>1, Zenon DEF ToSet
  <2> QED BY <2>1, <2>2, <2>5, <2>6, <2>7
<1> QED BY <1>1, <1>2

(* A list of two names two people. *)
LEMMA TwoNames ==
    ASSUME NEW list \in Seq(Staff), IsInjective(list), Len(list) >= 2
    PROVE  \E a, b \in ToSet(list) : a # b
<1>1. DOMAIN list = 1..Len(list) /\ Len(list) \in Nat BY LenProperties
<1>2. 1 \in DOMAIN list /\ 2 \in DOMAIN list BY <1>1
<1>3. list[1] # list[2] BY <1>2 DEF IsInjective
<1> QED BY <1>2, <1>3, Zenon DEF ToSet

-----------------------------------------------------------------------------
(* The steps. *)

LEMMA Initially == BackofficeInit => IInv
<1> SUFFICES ASSUME BackofficeInit PROVE IInv OBVIOUS
<1>1. NoJob \in Rows
  <2>1. <<>> \in Seq(Staff) BY EmptySeq
  <2> QED BY <2>1 DEF NoJob, Rows
<1>2. Shape
  <2>1. NoDesk \in [pc : {"idle", "confirm", "send", "claim", "fan"},
                    job : Jobs \cup {None}, saw : Rows, to : SUBSET Users]
    BY <1>1 DEF NoDesk
  <2> QED BY <1>1, <2>1 DEF BackofficeInit, Shape, NoDesk
<1>3. Untouched BY DEF BackofficeInit, Untouched, NoDesk
<1>4. Attested
  <2>1. IsInjective(<<>>) /\ ToSet(<<>>) = {} BY DEF IsInjective, ToSet
  <2> QED BY <2>1 DEF BackofficeInit, Attested, Names, NoDesk, NoJob
<1>5. Cleared BY NoneIsNoStatus DEF BackofficeInit, Cleared, NoJob, NoDesk
<1> QED BY <1>2, <1>3, <1>4, <1>5 DEF IInv

LEMMA UnchangedKeeps ==
    ASSUME IInv, UNCHANGED <<job, desk, pressed, outbox>>
    PROVE  IInv'
BY DEF IInv, Shape, Untouched, Attested, Names, Cleared, Witnessed

LEMMA IdleDesk ==
    /\ NoDesk \in [pc : {"idle"}, job : Jobs \cup {None}, saw : Rows, to : SUBSET Users]
    /\ NoDesk.pc = "idle"
<1>1. <<>> \in Seq(Staff) BY EmptySeq
<1> QED BY <1>1 DEF NoDesk, NoJob, Rows

(* A desk that is put back, or moves on without a claim. *)
LEMMA DeskKeeps ==
    ASSUME IInv, NEW s \in Staff, UNCHANGED <<job, pressed, outbox>>,
           NEW d \in [pc : {"idle", "send", "claim", "fan"}, job : Jobs \cup {None},
                      saw : Rows, to : SUBSET Users],
           desk' = [desk EXCEPT ![s] = d],
           d.pc # "idle" => d.job \in Jobs /\ job[d.job].status # None,
           d.pc \in {"claim", "fan"} => Witnessed(d.job)
    PROVE  IInv'
<1>1. Shape /\ Untouched /\ Attested /\ Cleared BY DEF IInv
<1>2. desk \in [Staff -> [pc : {"idle", "confirm", "send", "claim", "fan"},
                          job : Jobs \cup {None}, saw : Rows, to : SUBSET Users]]
  BY <1>1 DEF Shape
<1>3. desk'[s] = d /\ \A t \in Staff \ {s} : desk'[t] = desk[t] BY <1>2
<1>4. Shape' BY <1>1, <1>2, <1>3 DEF Shape
<1>5. Untouched' BY <1>1, <1>3 DEF Untouched
<1>6. Attested' BY <1>1, <1>3 DEF Attested, Names
<1>7. Cleared' BY <1>1, <1>3 DEF Cleared, Witnessed
<1> QED BY <1>4, <1>5, <1>6, <1>7 DEF IInv

LEMMA DraftKeeps ==
    ASSUME IInv, NEW s \in Staff, NEW j \in Jobs, Draft(s, j)
    PROVE  IInv'
<1>1. Shape /\ Untouched /\ Attested /\ Cleared BY DEF IInv
<1>2. /\ job[j] = NoJob /\ UNCHANGED <<desk, pressed, outbox>>
      /\ job' = [job EXCEPT ![j] = [NoJob EXCEPT !.status = "draft",
                                                 !.recipients = Cardinality(Reachable)]]
  BY DEF Draft
<1>3. Cardinality(Reachable) \in Nat
  <2>1. Reachable \in SUBSET Users BY DEF Reachable
  <2> QED BY <2>1, StaffAndUsersAreFinite, FS_Subset, FS_CardinalityType
<1>4. job \in [Jobs -> Rows] BY <1>1 DEF Shape
<1>5. /\ job'[j] = [status |-> "draft", recipients |-> Cardinality(Reachable), confirmed |-> <<>>]
      /\ \A k \in Jobs \ {j} : job'[k] = job[k]
  BY <1>2, <1>4 DEF NoJob
<1>6. /\ \A t \in Staff : desk[t].pc = "idle" \/ desk[t].job # j
      /\ \A o \in outbox : o.job # j
      /\ job[j].confirmed = <<>>
  BY <1>1, <1>2 DEF Untouched, NoJob
<1>7. Shape'
  <2>1. <<>> \in Seq(Staff) BY EmptySeq
  <2>2. job'[j] \in Rows BY <1>3, <1>5, <2>1 DEF Rows
  <2>3. job' \in [Jobs -> Rows] BY <1>2, <1>4, <1>5, <2>2
  <2> QED BY <1>1, <1>2, <2>3 DEF Shape
<1>8. Untouched' BY <1>1, <1>2, <1>5, NoneIsNoStatus DEF Untouched
<1>9. Attested'
  <2>1. \A k \in Jobs : job'[k].confirmed = job[k].confirmed BY <1>5, <1>6
  <2>2. \A t \in Staff : desk[t].pc = "confirm" =>
            desk[t].job \in Jobs /\ job'[desk[t].job].recipients = job[desk[t].job].recipients
    BY <1>1, <1>5, <1>6 DEF Shape
  <2> QED BY <1>1, <1>2, <2>1, <2>2 DEF Attested, Names
<1>10. Cleared'
  <2>1. \A k \in Jobs \ {j} : Witnessed(k) => Witnessed(k)' BY <1>2, <1>5 DEF Witnessed
  <2>2. \A k \in Jobs : job'[k].status \in {"approved", "sent"} => Witnessed(k)'
    BY <1>1, <1>5, <2>1 DEF Cleared
  <2>3. ASSUME NEW t \in Staff, desk[t].pc \in {"claim", "fan"} PROVE Witnessed(desk[t].job)'
    <3>1. desk[t].job \in Jobs \ {j} /\ Witnessed(desk[t].job)
      BY <1>1, <1>6, <2>3 DEF Shape, Cleared
    <3> QED BY <1>2, <1>5, <3>1 DEF Witnessed
  <2>4. ASSUME NEW o \in outbox PROVE Witnessed(o.job)'
    <3>1. o.job \in Jobs \ {j} /\ Witnessed(o.job) BY <1>1, <1>6 DEF Shape, Cleared
    <3> QED BY <1>2, <1>5, <3>1 DEF Witnessed
  <2> QED BY <1>2, <2>2, <2>3, <2>4 DEF Cleared, Witnessed
<1> QED BY <1>7, <1>8, <1>9, <1>10 DEF IInv

LEMMA PressKeeps ==
    ASSUME IInv, NEW s \in Staff, NEW j \in Jobs, Press(s, j)
    PROVE  IInv'
<1>1. Shape /\ Untouched /\ Attested /\ Cleared BY DEF IInv
<1> DEFINE d == [NoDesk EXCEPT !.pc = "confirm", !.job = j, !.saw = job[j]]
<1>2. desk \in [Staff -> [pc : {"idle", "confirm", "send", "claim", "fan"},
                          job : Jobs \cup {None}, saw : Rows, to : SUBSET Users]]
  BY <1>1 DEF Shape
<1>3. job[j] # NoJob /\ desk' = [desk EXCEPT ![s] = d] /\ UNCHANGED <<job, pressed, outbox>>
  BY DEF Press
<1>4. desk'[s] = d /\ \A t \in Staff \ {s} : desk'[t] = desk[t] BY <1>2, <1>3
<1>5. /\ d \in [pc : {"idle", "confirm", "send", "claim", "fan"},
                job : Jobs \cup {None}, saw : Rows, to : SUBSET Users]
      /\ d.pc = "confirm" /\ d.job = j /\ d.saw = job[j]
  <2>1. job[j] \in Rows BY <1>1 DEF Shape
  <2>2. NoDesk \in [pc : {"idle"}, job : Jobs \cup {None}, saw : Rows, to : SUBSET Users]
    BY IdleDesk
  <2> QED BY <2>1, <2>2
<1> HIDE DEF d
<1>6. Shape' BY <1>1, <1>2, <1>3, <1>4, <1>5 DEF Shape
<1>7. Untouched'
  <2>1. job[j].status # None BY <1>1, <1>3 DEF Untouched
  <2> QED BY <1>1, <1>3, <1>4, <1>5, <2>1 DEF Untouched
<1>8. Attested'
  <2>1. \A k \in Jobs : IsInjective(job[k].confirmed) /\ ToSet(job[k].confirmed) \subseteq pressed[k]
    BY <1>1 DEF Attested, Names
  <2>2. ASSUME NEW t \in Staff, desk'[t].pc = "confirm"
        PROVE  /\ IsInjective(desk'[t].saw.confirmed)
               /\ ToSet(desk'[t].saw.confirmed) \subseteq pressed[desk'[t].job]
               /\ desk'[t].saw.recipients = job[desk'[t].job].recipients
    <3>1. CASE t = s BY <1>4, <1>5, <2>1, <3>1
    <3>2. CASE t # s BY <1>1, <1>4, <2>2, <3>2 DEF Attested, Names
    <3> QED BY <3>1, <3>2
  <2> QED BY <1>3, <2>1, <2>2 DEF Attested, Names
<1>9. Cleared' BY <1>1, <1>3, <1>4, <1>5 DEF Cleared, Witnessed
<1> QED BY <1>6, <1>7, <1>8, <1>9 DEF IInv

(* The list that is written back may lack what another handler has added    *)
(* meanwhile; but it is a list of people who pressed, and counted as such.  *)
LEMMA ConfirmKeeps ==
    ASSUME IInv, NEW s \in Staff, Confirm(s)
    PROVE  IInv'
<1>1. Shape /\ Untouched /\ Attested /\ Cleared BY DEF IInv
<1> DEFINE j == desk[s].job
           saw == desk[s].saw
           names == Confirmed(saw.confirmed, s)
           ready == Len(names) >= Required(saw.recipients)
           status == IF ready /\ saw.status # "approved" THEN "approved" ELSE job[j].status
           confirmed == IF names # saw.confirmed THEN names ELSE job[j].confirmed
           d == IF ready THEN [desk[s] EXCEPT !.pc = "send", !.saw = NoJob] ELSE NoDesk
<1>2. /\ desk[s].pc = "confirm" /\ UNCHANGED outbox
      /\ pressed' = [pressed EXCEPT ![j] = @ \cup {s}]
      /\ desk' = [desk EXCEPT ![s] = d]
  BY DEF Confirm
<1>3. job' = [job EXCEPT ![j].confirmed = IF names # saw.confirmed THEN names ELSE @,
                         ![j].status = IF ready /\ saw.status # "approved" THEN "approved" ELSE @]
  BY DEF Confirm
<1>4. /\ job \in [Jobs -> Rows] /\ pressed \in [Jobs -> SUBSET Staff] /\ j \in Jobs
      /\ desk \in [Staff -> [pc : {"idle", "confirm", "send", "claim", "fan"},
                             job : Jobs \cup {None}, saw : Rows, to : SUBSET Users]]
      /\ saw \in Rows /\ saw.confirmed \in Seq(Staff) /\ job[j] \in Rows
  BY <1>1, <1>2 DEF Shape, Rows
<1>5. /\ names \in Seq(Staff) /\ IsInjective(names) /\ ToSet(names) = ToSet(saw.confirmed) \cup {s}
      /\ ToSet(saw.confirmed) \subseteq pressed[j] /\ saw.recipients = job[j].recipients
  BY <1>1, <1>2, <1>4, ConfirmedNames DEF Attested, Names
<1>6. ready /\ job[j].recipients >= Threshold => Len(names) >= 2 BY <1>5 DEF Required
<1> HIDE DEF j, saw, names, ready
<1>7. /\ job'[j] = [status |-> status, recipients |-> job[j].recipients, confirmed |-> confirmed]
      /\ \A k \in Jobs \ {j} : job'[k] = job[k]
  BY <1>3, <1>4 DEF Rows
<1>8. /\ pressed'[j] = pressed[j] \cup {s} /\ \A k \in Jobs \ {j} : pressed'[k] = pressed[k]
      /\ desk'[s] = d /\ \A t \in Staff \ {s} : desk'[t] = desk[t]
  BY <1>2, <1>4
<1>9. status \in {None, "draft", "approved", "sent"} /\ confirmed \in Seq(Staff)
  BY <1>4, <1>5 DEF Rows
<1>10. /\ d \in [pc : {"idle", "send"}, job : Jobs \cup {None}, saw : Rows, to : SUBSET Users]
       /\ d.pc # "idle" => d.job = j
  <2>1. NoJob \in Rows
    <3>1. <<>> \in Seq(Staff) BY EmptySeq
    <3> QED BY <3>1 DEF NoJob, Rows
  <2>2. NoDesk \in [pc : {"idle", "send"}, job : Jobs \cup {None}, saw : Rows, to : SUBSET Users]
        /\ NoDesk.pc = "idle"
    BY <2>1 DEF NoDesk
  <2>3. desk[s] \in [pc : {"idle", "confirm", "send", "claim", "fan"},
                     job : Jobs \cup {None}, saw : Rows, to : SUBSET Users]
    BY <1>4
  <2>4. [desk[s] EXCEPT !.pc = "send", !.saw = NoJob]
          \in [pc : {"idle", "send"}, job : Jobs \cup {None}, saw : Rows, to : SUBSET Users]
        /\ [desk[s] EXCEPT !.pc = "send", !.saw = NoJob].job = j
    BY <2>1, <2>3 DEF j
  <2> QED BY <2>2, <2>4
<1> HIDE DEF status, confirmed, d
<1>11. Shape'
  <2>1. job'[j] \in Rows BY <1>4, <1>7, <1>9 DEF Rows
  <2>2. job' \in [Jobs -> Rows]
    <3>1. DOMAIN job' = Jobs /\ job' = [k \in Jobs |-> job'[k]] BY <1>3, <1>4
    <3> QED BY <1>4, <1>7, <2>1, <3>1
  <2>3. pressed' \in [Jobs -> SUBSET Staff] BY <1>2, <1>4
  <2> QED BY <1>1, <1>2, <1>4, <1>8, <1>10, <2>2, <2>3 DEF Shape
<1>12. Untouched'
  <2>1. job[j].status # None BY <1>1, <1>2, <1>4 DEF Untouched, j
  <2>2. job'[j].status # None BY <1>7, <2>1, NoneIsNoStatus DEF status
  <2> QED BY <1>1, <1>2, <1>7, <1>8, <1>10, <2>2 DEF Untouched
<1>13. \A k \in Jobs : Witnessed(k) => Witnessed(k)'
  BY <1>7, <1>8 DEF Witnessed
<1>14. ready => (job'[j].recipients >= Threshold => \E a, b \in pressed'[j] : a # b)
  <2> SUFFICES ASSUME ready, job[j].recipients >= Threshold
               PROVE  \E a, b \in pressed'[j] : a # b
    BY <1>7
  <2>1. \E a, b \in ToSet(names) : a # b BY <1>5, <1>6, TwoNames
  <2> QED BY <1>5, <1>8, <2>1
<1>15. Attested'
  <2>1. \A k \in Jobs : ToSet(job[k].confirmed) \subseteq pressed[k] /\ IsInjective(job[k].confirmed)
    BY <1>1 DEF Attested, Names
  <2>2. IsInjective(job'[j].confirmed) /\ ToSet(job'[j].confirmed) \subseteq pressed'[j]
    BY <1>4, <1>5, <1>7, <1>8, <2>1 DEF confirmed
  <2>3. \A k \in Jobs : IsInjective(job'[k].confirmed) /\ ToSet(job'[k].confirmed) \subseteq pressed'[k]
    BY <1>7, <1>8, <2>1, <2>2
  <2>4. ASSUME NEW t \in Staff, desk'[t].pc = "confirm"
        PROVE  /\ IsInjective(desk'[t].saw.confirmed)
               /\ ToSet(desk'[t].saw.confirmed) \subseteq pressed'[desk'[t].job]
               /\ desk'[t].saw.recipients = job'[desk'[t].job].recipients
    <3>1. t # s /\ desk'[t] = desk[t] BY <1>8, <1>10, <2>4
    <3>2. /\ desk[t].job \in Jobs /\ IsInjective(desk[t].saw.confirmed)
          /\ ToSet(desk[t].saw.confirmed) \subseteq pressed[desk[t].job]
          /\ desk[t].saw.recipients = job[desk[t].job].recipients
      BY <1>1, <2>4, <3>1 DEF Shape, Attested, Names
    <3> QED BY <1>7, <1>8, <3>1, <3>2
  <2> QED BY <2>3, <2>4 DEF Attested, Names
<1>16. Cleared'
  <2>1. ASSUME job'[j].status \in {"approved", "sent"}, job'[j].recipients >= Threshold
        PROVE  \E a, b \in pressed'[j] : a # b
    <3>1. CASE ready BY <1>14, <2>1, <3>1
    <3>2. CASE ~ready
      <4>1. job[j].status \in {"approved", "sent"} /\ job[j].recipients >= Threshold
        BY <1>7, <2>1, <3>2 DEF status
      <4>2. \E a, b \in pressed[j] : a # b BY <1>1, <1>4, <4>1 DEF Cleared, Witnessed
      <4> QED BY <1>8, <4>2
    <3> QED BY <3>1, <3>2
  <2>2. ASSUME NEW k \in Jobs, job'[k].status \in {"approved", "sent"} PROVE Witnessed(k)'
    <3>1. CASE k = j BY <2>1, <2>2, <3>1 DEF Witnessed
    <3>2. CASE k # j
      <4>1. Witnessed(k) BY <1>1, <1>7, <2>2, <3>2 DEF Cleared
      <4> QED BY <1>13, <4>1
    <3> QED BY <3>1, <3>2
  <2>3. ASSUME NEW t \in Staff, desk'[t].pc \in {"claim", "fan"} PROVE Witnessed(desk[t].job)' /\ desk'[t] = desk[t]
    <3>1. t # s /\ desk'[t] = desk[t] BY <1>8, <1>10, <2>3
    <3>2. desk[t].job \in Jobs /\ Witnessed(desk[t].job) BY <1>1, <2>3, <3>1 DEF Shape, Cleared
    <3> QED BY <1>7, <1>8, <3>1, <3>2 DEF Witnessed
  <2>4. ASSUME NEW o \in outbox PROVE Witnessed(o.job)'
    <3>1. o.job \in Jobs /\ Witnessed(o.job) BY <1>1 DEF Shape, Cleared
    <3> QED BY <1>13, <3>1
  <2> QED BY <1>2, <2>2, <2>3, <2>4 DEF Cleared, Witnessed
<1> QED BY <1>11, <1>12, <1>15, <1>16 DEF IInv

(* recipients_for lets an approved job through, and it is marked as sent. *)
LEMMA SendReadsKeeps ==
    ASSUME IInv, NEW s \in Staff, SendReads(s)
    PROVE  IInv'
<1>1. Shape /\ Untouched /\ Attested /\ Cleared BY DEF IInv
<1>2. desk[s].pc = "send" /\ UNCHANGED <<job, pressed, outbox>> BY DEF SendReads
<1>3. /\ desk[s] \in [pc : {"idle", "confirm", "send", "claim", "fan"},
                       job : Jobs \cup {None}, saw : Rows, to : SUBSET Users]
      /\ desk[s].job \in Jobs
  BY <1>1, <1>2 DEF Shape
<1>4. CASE job[desk[s].job].status = "approved"
  <2> DEFINE d == [desk[s] EXCEPT !.pc = "claim"]
  <2>1. desk' = [desk EXCEPT ![s] = d] BY <1>4 DEF SendReads
  <2>2. d \in [pc : {"idle", "send", "claim", "fan"}, job : Jobs \cup {None},
               saw : Rows, to : SUBSET Users] /\ d.job = desk[s].job
    BY <1>3
  <2>3. Witnessed(d.job) /\ job[d.job].status # None
    BY <1>1, <1>3, <1>4, <2>2, NoneIsNoStatus DEF Cleared
  <2> HIDE DEF d
  <2> QED BY <1>2, <1>3, <2>1, <2>2, <2>3, DeskKeeps
<1>5. CASE job[desk[s].job].status # "approved"
  <2>1. desk' = [desk EXCEPT ![s] = NoDesk] BY <1>5 DEF SendReads
  <2> QED BY <1>2, <2>1, IdleDesk, DeskKeeps
<1> QED BY <1>4, <1>5

LEMMA SendCommitsKeeps ==
    ASSUME IInv, NEW s \in Staff, SendCommits(s)
    PROVE  IInv'
<1>1. Shape /\ Untouched /\ Attested /\ Cleared BY DEF IInv
<1>2. /\ desk[s].pc = "claim" /\ UNCHANGED <<pressed, outbox>>
      /\ job' = [job EXCEPT ![desk[s].job].status = "sent"]
      /\ desk' = [desk EXCEPT ![s].pc = "fan", ![s].to = Reachable]
  BY DEF SendCommits
<1>3. /\ desk \in [Staff -> [pc : {"idle", "confirm", "send", "claim", "fan"},
                             job : Jobs \cup {None}, saw : Rows, to : SUBSET Users]]
      /\ job \in [Jobs -> Rows]
  BY <1>1 DEF Shape
<1>4. PICK j \in Jobs : j = desk[s].job /\ Witnessed(j) BY <1>1, <1>2 DEF Shape, Cleared
<1>5. /\ job'[j] = [job[j] EXCEPT !.status = "sent"] /\ job[j] \in Rows
      /\ \A k \in Jobs \ {j} : job'[k] = job[k]
  BY <1>2, <1>3, <1>4
<1>6. /\ job'[j] \in Rows /\ job'[j].status = "sent"
      /\ \A k \in Jobs : /\ job'[k].recipients = job[k].recipients
                         /\ job'[k].confirmed = job[k].confirmed
  BY <1>5 DEF Rows
<1>7. /\ desk'[s] = [pc |-> "fan", job |-> desk[s].job, saw |-> desk[s].saw, to |-> Reachable]
      /\ \A t \in Staff \ {s} : desk'[t] = desk[t]
  BY <1>2, <1>3
<1>8. \A t \in Staff : desk'[t].job = desk[t].job /\ desk'[t].saw = desk[t].saw BY <1>7
<1>9. Shape'
  <2>1. job' \in [Jobs -> Rows] BY <1>2, <1>3, <1>4, <1>5, <1>6
  <2>2. Reachable \in SUBSET Users BY DEF Reachable
  <2>3. desk'[s] \in [pc : {"idle", "confirm", "send", "claim", "fan"},
                      job : Jobs \cup {None}, saw : Rows, to : SUBSET Users]
    BY <1>3, <1>7, <2>2
  <2>4. desk' \in [Staff -> [pc : {"idle", "confirm", "send", "claim", "fan"},
                            job : Jobs \cup {None}, saw : Rows, to : SUBSET Users]]
    BY <1>2, <1>3, <1>7, <2>3
  <2> QED BY <1>1, <1>2, <1>4, <1>7, <2>1, <2>4 DEF Shape
<1>10. Untouched'
  <2>1. job'[j].status # None BY <1>6, NoneIsNoStatus
  <2>2. ASSUME NEW k \in Jobs, job'[k].status = None
        PROVE  /\ job'[k] = NoJob /\ \A t \in Staff : desk'[t].pc = "idle" \/ desk'[t].job # k
               /\ \A o \in outbox : o.job # k
    <3>1. k # j /\ job'[k] = job[k] BY <1>5, <2>1, <2>2
    <3> QED BY <1>1, <1>4, <1>7, <2>2, <3>1 DEF Untouched
  <2> QED BY <1>2, <2>2 DEF Untouched
<1>11. Attested'
  <2>1. \A k \in Jobs : IsInjective(job'[k].confirmed) /\ ToSet(job'[k].confirmed) \subseteq pressed[k]
    BY <1>1, <1>6 DEF Attested, Names
  <2>2. ASSUME NEW t \in Staff, desk'[t].pc = "confirm"
        PROVE  /\ IsInjective(desk'[t].saw.confirmed)
               /\ ToSet(desk'[t].saw.confirmed) \subseteq pressed[desk'[t].job]
               /\ desk'[t].saw.recipients = job'[desk'[t].job].recipients
    <3>1. t # s /\ desk'[t] = desk[t] BY <1>7, <2>2
    <3> QED BY <1>1, <1>6, <2>2, <3>1 DEF Shape, Attested, Names
  <2> QED BY <1>2, <2>1, <2>2 DEF Attested, Names
<1>12. Cleared'
  <2>1. \A k \in Jobs : Witnessed(k)' <=> Witnessed(k) BY <1>2, <1>6 DEF Witnessed
  <2>2. ASSUME NEW k \in Jobs, job'[k].status \in {"approved", "sent"} PROVE Witnessed(k)'
    BY <1>1, <1>4, <1>5, <2>1, <2>2 DEF Cleared
  <2>3. ASSUME NEW t \in Staff, desk'[t].pc \in {"claim", "fan"}
        PROVE  desk[t].job \in Jobs /\ Witnessed(desk[t].job)
    BY <1>1, <1>4, <1>7, <2>3 DEF Shape, Cleared
  <2>4. ASSUME NEW t \in Staff, desk'[t].pc \in {"claim", "fan"}
        PROVE  job'[desk'[t].job].recipients >= Threshold => \E a, b \in pressed'[desk'[t].job] : a # b
    <3>1. PICK k \in Jobs : k = desk[t].job /\ Witnessed(k) BY <2>3, <2>4
    <3>2. desk'[t].job = k BY <1>8, <3>1
    <3> QED BY <1>2, <1>6, <3>1, <3>2 DEF Witnessed
  <2>5. ASSUME NEW o \in outbox
        PROVE  job'[o.job].recipients >= Threshold => \E a, b \in pressed'[o.job] : a # b
    BY <1>1, <1>2, <1>6 DEF Shape, Cleared, Witnessed
  <2> QED BY <1>2, <2>2, <2>4, <2>5 DEF Cleared, Witnessed
<1> QED BY <1>9, <1>10, <1>11, <1>12 DEF IInv

LEMMA FanOutKeeps ==
    ASSUME IInv, NEW s \in Staff, FanOut(s)
    PROVE  IInv'
<1>1. Shape /\ Untouched /\ Attested /\ Cleared BY DEF IInv
<1>2. /\ desk[s].pc = "fan" /\ UNCHANGED <<job, pressed>>
      /\ outbox' = outbox \cup {[job |-> desk[s].job, to |-> desk[s].to]}
      /\ desk' = [desk EXCEPT ![s] = NoDesk]
  BY DEF FanOut
<1>3. desk[s].job \in Jobs /\ Witnessed(desk[s].job) /\ job[desk[s].job].status # None
  BY <1>1, <1>2 DEF Shape, Cleared, Untouched
<1>4. \A o \in outbox' : o \in outbox \/ o.job = desk[s].job BY <1>2
<1>5. desk \in [Staff -> [pc : {"idle", "confirm", "send", "claim", "fan"},
                          job : Jobs \cup {None}, saw : Rows, to : SUBSET Users]]
  BY <1>1 DEF Shape
<1>6. desk'[s] = NoDesk /\ NoDesk.pc = "idle" /\ \A t \in Staff \ {s} : desk'[t] = desk[t]
  BY <1>2, <1>5 DEF NoDesk
<1>7. Shape'
  <2>1. desk' \in [Staff -> [pc : {"idle", "confirm", "send", "claim", "fan"},
                            job : Jobs \cup {None}, saw : Rows, to : SUBSET Users]]
    BY <1>2, <1>5, IdleDesk
  <2> QED BY <1>1, <1>2, <1>3, <1>4, <1>6, <2>1 DEF Shape
<1>8. Untouched' BY <1>1, <1>2, <1>3, <1>4, <1>6 DEF Untouched
<1>9. Attested' BY <1>1, <1>2, <1>6 DEF Attested, Names
<1>10. Cleared'
  <2>1. \A t \in Staff : desk'[t].pc \in {"claim", "fan"} => desk'[t] = desk[t] BY <1>6
  <2>2. ASSUME NEW o \in outbox'
        PROVE  job[o.job].recipients >= Threshold => \E a, b \in pressed[o.job] : a # b
    BY <1>1, <1>3, <1>4 DEF Cleared, Witnessed
  <2> QED BY <1>1, <1>2, <2>1, <2>2 DEF Cleared, Witnessed
<1> QED BY <1>7, <1>8, <1>9, <1>10 DEF IInv

LEMMA Inductive == IInv /\ [BackofficeNext]_backVars => IInv'
<1> SUFFICES ASSUME IInv, [BackofficeNext]_backVars PROVE IInv' OBVIOUS
<1>1. CASE Members \/ UNCHANGED backVars
  BY <1>1, UnchangedKeeps DEF Members, backVars, bvars
<1>2. ASSUME NEW s \in Staff, Broadcasts(s) PROVE IInv'
  <2>1. ASSUME NEW j \in Jobs, Draft(s, j) PROVE IInv' BY <2>1, DraftKeeps
  <2>2. ASSUME NEW j \in Jobs, Press(s, j) PROVE IInv' BY <2>2, PressKeeps
  <2>3. CASE Confirm(s) BY <2>3, ConfirmKeeps
  <2>4. CASE SendReads(s) BY <2>4, SendReadsKeeps
  <2>5. CASE SendCommits(s) BY <2>5, SendCommitsKeeps
  <2>6. CASE FanOut(s) BY <2>6, FanOutKeeps
  <2>7. CASE Abandon(s)
    <3>1. desk' = [desk EXCEPT ![s] = NoDesk] /\ UNCHANGED <<job, pressed, outbox>>
      BY <2>7 DEF Abandon
    <3> QED BY <3>1, IdleDesk, DeskKeeps
  <2> QED BY <1>2, <2>1, <2>2, <2>3, <2>4, <2>5, <2>6, <2>7 DEF Broadcasts
<1> QED BY <1>1, <1>2 DEF BackofficeNext

(* The inductive invariant holds in every reachable state. *)
THEOREM Invariance == BackofficeSpec => []IInv
<1> QED BY Initially, Inductive, PTL DEF BackofficeSpec

-----------------------------------------------------------------------------
(* A large broadcast goes out only after two different people confirmed it, *)
(* for any staff, overlap, repetition and failure of their presses.         *)
THEOREM LargeBroadcastsTakeTwo == BackofficeSpec => []TwoPersonRule
<1>1. IInv => TwoPersonRule
  <2> SUFFICES ASSUME IInv, NEW j \in Jobs, job[j].recipients >= Threshold,
                      job[j].status \in {"approved", "sent"} \/ \E o \in outbox : o.job = j
               PROVE  Cardinality(pressed[j]) >= 2
    BY DEF TwoPersonRule
  <2>1. \E a, b \in pressed[j] : a # b BY DEF IInv, Cleared, Witnessed
  <2>2. IsFiniteSet(pressed[j])
    <3>1. pressed[j] \in SUBSET Staff BY DEF IInv, Shape
    <3> QED BY <3>1, StaffAndUsersAreFinite, FS_Subset
  <2> QED BY <2>1, <2>2, TwoMembers
<1> QED BY <1>1, Invariance, PTL

-----------------------------------------------------------------------------
(* What a column was last set to, and who may still set it otherwise.       *)

(* What is between reading a profile and writing it back. *)
TapAgrees(t, r, c) ==
    /\ t.pc \in {"edit", "link"} => t.held[c] = r[c]
    /\ t.pc = "save" => IF c \in t.meant THEN t.saw[c] = r[c] ELSE t.held[c] = t.saw[c]
OrderAgrees(o, r, c) == IF c \in o.meant THEN o.saw[c] = r[c] ELSE o.new[c] = o.saw[c]

Agrees(u, c) ==
    /\ row[u][c] = decided[u][c]
    /\ \A h \in Handlers : HandlerUser[h] = u => TapAgrees(tap[h], row[u], c)
    /\ \A s \in Staff : order[s].user = u => OrderAgrees(order[s], row[u], c)
    /\ \A p \in Purchases :
          buyer[p] = u /\ activation[p] # None_ /\ c \in {"role", "tier"} =>
              activation[p][c] = row[u][c]

Profile(r) == DOMAIN r = Columns /\ r["step"] \in 0..3

Profiles ==
    /\ DOMAIN row = Users /\ DOMAIN decided = Users /\ DOMAIN tap = Handlers
    /\ DOMAIN order = Staff /\ DOMAIN activation = Purchases /\ DOMAIN buyer = Purchases
    /\ \A u \in Users : Profile(row[u])
    /\ \A h \in Handlers : tap[h].pc \in {"edit", "link", "save"} => Profile(tap[h].held)
    /\ \A s \in Staff : order[s].new["step"] = order[s].saw["step"]
    /\ \A p \in Purchases :
          /\ buyer[p] \in Users \cup {None}
          /\ activation[p] # None_ => p \in charged /\ Profile(activation[p])
          /\ p \in charged => buyer[p] # None

(* A save whose handler has not been overtaken does not set onboarding back. *)
Onward ==
    \A h \in Handlers :
        /\ tap[h].pc = "save" /\ <<HandlerUser[h], "step">> \notin overtaken
        => tap[h].held["step"] >= tap[h].saw["step"]

Standing == \A u \in Users, c \in Columns : <<u, c>> \notin overtaken => Agrees(u, c)

Held == Profiles /\ Standing /\ Onward

Advances == \A u \in Users : row'[u].step < row[u].step => <<u, "step">> \in overtaken

(* A column that is not overtaken by this step has not moved under anybody  *)
(* who held it: what they hold still agrees with the row.                   *)
LEMMA HoldersStand ==
    ASSUME Overtakes, NEW u \in Users, NEW c \in Columns, <<u, c>> \notin overtaken', Standing
    PROVE  /\ Agrees(u, c) /\ <<u, c>> \notin overtaken
           /\ \A h \in Handlers :
                 HandlerUser[h] = u /\ tap'[h] = tap[h] => TapAgrees(tap[h], row'[u], c)
           /\ \A s \in Staff :
                 order[s].user = u /\ order'[s] = order[s] => OrderAgrees(order[s], row'[u], c)
           /\ \A p \in Purchases :
                 /\ buyer[p] = u /\ activation[p] # None_ /\ activation'[p] = activation[p]
                 /\ c \in {"role", "tier"}
                 => activation[p][c] = row'[u][c]
<1>1. <<u, c>> \notin overtaken /\ (row[u][c] # row'[u][c] => ~HeldByTap(u, c) /\ ~HeldByOrder(u, c))
  BY Zenon DEF Overtakes
<1>2. Agrees(u, c) BY <1>1 DEF Standing
<1>3. ASSUME NEW h \in Handlers, HandlerUser[h] = u, tap'[h] = tap[h]
      PROVE  TapAgrees(tap[h], row'[u], c)
  BY <1>1, <1>2, <1>3 DEF Agrees, TapAgrees, HeldByTap
<1>4. ASSUME NEW s \in Staff, order[s].user = u, order'[s] = order[s]
      PROVE  OrderAgrees(order[s], row'[u], c)
  BY <1>1, <1>2, <1>4 DEF Agrees, OrderAgrees, HeldByOrder
<1>5. ASSUME NEW p \in Purchases, buyer[p] = u, activation[p] # None_,
             activation'[p] = activation[p], c \in {"role", "tier"}
      PROVE  activation[p][c] = row'[u][c]
  BY <1>1, <1>2, <1>5 DEF Agrees, HeldByOrder
<1> QED BY <1>1, <1>2, <1>3, <1>4, <1>5

(* So a step has to show what it sets, and what those who move hold.        *)
LEMMA AgreesNext ==
    ASSUME Overtakes, NEW u \in Users, NEW c \in Columns, <<u, c>> \notin overtaken', Standing,
           row'[u][c] = decided'[u][c],
           \A h \in Handlers : tap'[h] # tap[h] /\ HandlerUser[h] = u => TapAgrees(tap'[h], row'[u], c),
           \A s \in Staff : order'[s] # order[s] /\ order'[s].user = u => OrderAgrees(order'[s], row'[u], c),
           \A p \in Purchases :
              /\ activation'[p] # activation[p] /\ activation'[p] # None_
              /\ buyer'[p] = u /\ c \in {"role", "tier"}
              => activation'[p][c] = row'[u][c],
           \A p \in Purchases : activation[p] # None_ => buyer'[p] = buyer[p]
    PROVE  Agrees(u, c)'
<1>1. ASSUME NEW h \in Handlers, HandlerUser[h] = u PROVE TapAgrees(tap'[h], row'[u], c)
  BY <1>1, HoldersStand
<1>2. ASSUME NEW s \in Staff, order'[s].user = u PROVE OrderAgrees(order'[s], row'[u], c)
  BY <1>2, HoldersStand
<1>3. ASSUME NEW p \in Purchases, buyer'[p] = u, activation'[p] # None_, c \in {"role", "tier"}
      PROVE  activation'[p][c] = row'[u][c]
  BY <1>3, HoldersStand
<1> QED BY <1>1, <1>2, <1>3 DEF Agrees, TapAgrees, OrderAgrees

(* The operators on profiles. *)
LEMMA StepForward ==
    ASSUME NEW r, Profile(r), NEW n \in 0..3
    PROVE  /\ Profile(AtLeast(r, n)) /\ AtLeast(r, n)["step"] >= r["step"]
           /\ Profile(Onboarded(r)) /\ Onboarded(r)["step"] >= r["step"]
BY DEF Profile, Columns, AtLeast, Onboarded

LEMMA TieredColumns ==
    ASSUME NEW r, Profile(r), NEW tier
    PROVE  /\ Profile(Tiered(r, tier))
           /\ \A c \in Columns \ {"role", "tier"} : Tiered(r, tier)[c] = r[c]
BY DEF Profile, Columns, Tiered

LEMMA ChangesAdvance ==
    ASSUME NEW r, Profile(r), NEW new \in Changed(r)
    PROVE  Profile(new) /\ new["step"] >= r["step"]
<1>1. CASE new = SetLanguage(r) \/ new = SetTimezone(r)
  BY <1>1, StepForward DEF SetLanguage, SetTimezone
<1>2. CASE new = CaptureLink(r) BY <1>2 DEF CaptureLink, Profile, Columns
<1>3. CASE new = r BY <1>3 DEF Profile
<1>4. CASE new \in {Filtered(r, f) : f \in {"default", "own"}}
  BY <1>4 DEF Filtered, Profile, Columns
<1> QED BY <1>1, <1>2, <1>3, <1>4 DEF Changed

-----------------------------------------------------------------------------
(* A handler reads the profile, or is about to save it; nothing is written. *)
LEMMA TapMoves ==
    ASSUME Held, Overtakes, NEW h \in Handlers, NEW t, tap' = [tap EXCEPT ![h] = t],
           UNCHANGED <<evars, row, activation, order, decided>>,
           \/ t.pc \in {"idle", "fresh"}
           \/ t.pc \in {"edit", "link"} /\ t.held = row[HandlerUser[h]]
           \/ /\ t.pc = "save" /\ t.saw = row[HandlerUser[h]] /\ Profile(t.held)
              /\ \A c \in Columns \ t.meant :
                    <<HandlerUser[h], c>> \notin overtaken => t.held[c] = t.saw[c]
              /\ <<HandlerUser[h], "step">> \notin overtaken => t.held["step"] >= t.saw["step"]
    PROVE  Held'
<1>1. Profiles /\ Standing /\ Onward BY DEF Held
<1>2. tap'[h] = t /\ \A g \in Handlers \ {h} : tap'[g] = tap[g] BY <1>1 DEF Profiles
<1>3. HandlerUser[h] \in Users BY HandlersHaveUsers
<1>4. overtaken \subseteq overtaken' BY DEF Overtakes
<1>5. Profiles'
  <2>1. DOMAIN tap' = Handlers BY <1>1 DEF Profiles
  <2>2. \A g \in Handlers : tap'[g].pc \in {"edit", "link", "save"} => Profile(tap'[g].held)
    BY <1>1, <1>2, <1>3 DEF Profiles
  <2> QED BY <1>1, <2>1, <2>2 DEF Profiles, Profile, evars
<1>6. Standing'
  <2> SUFFICES ASSUME NEW u \in Users, NEW c \in Columns, <<u, c>> \notin overtaken'
               PROVE  Agrees(u, c)'
    BY DEF Standing
  <2>1. row'[u][c] = decided'[u][c] BY <1>1, HoldersStand DEF Agrees
  <2>2. ASSUME NEW g \in Handlers, tap'[g] # tap[g], HandlerUser[g] = u
        PROVE  TapAgrees(tap'[g], row'[u], c)
    BY <1>2, <1>4, <2>2 DEF TapAgrees
  <2> QED BY <1>1, <2>1, <2>2, AgreesNext DEF evars
<1>7. Onward' BY <1>1, <1>2, <1>4 DEF Onward
<1> QED BY <1>5, <1>6, <1>7 DEF Held

(* UserService.save has loaded the row: what the handler did not change is  *)
(* what it found there.                                                     *)
LEMMA SavesKeep ==
    ASSUME Held, Overtakes, NEW h \in Handlers, NEW new, NEW ends, Saves(h, new, ends),
           tap[h].pc \in {"edit", "link"}, Profile(new), new["step"] >= tap[h].held["step"]
    PROVE  Held'
<1> DEFINE u == HandlerUser[h]
           t == [pc |-> "save", held |-> new, saw |-> row[u],
                 meant |-> Differ(tap[h].held, new), ends |-> ends]
<1>1. Profiles /\ Standing BY DEF Held
<1>2. tap' = [tap EXCEPT ![h] = t] /\ UNCHANGED <<evars, row, activation, order, decided>>
  BY DEF Saves
<1>3. u \in Users BY HandlersHaveUsers
<1>4. \A c \in Columns : <<u, c>> \notin overtaken => tap[h].held[c] = row[u][c]
  BY <1>1, <1>3 DEF Standing, Agrees, TapAgrees
<1>5. \A c \in Columns \ Differ(tap[h].held, new) : tap[h].held[c] = new[c] BY DEF Differ
<1>6. <<u, "step">> \notin overtaken => new["step"] >= row[u]["step"]
  BY <1>4 DEF Columns
<1>7. /\ t.pc = "save" /\ t.saw = row[u] /\ Profile(t.held)
      /\ \A c \in Columns \ t.meant : <<u, c>> \notin overtaken => t.held[c] = t.saw[c]
      /\ <<u, "step">> \notin overtaken => t.held["step"] >= t.saw["step"]
  BY <1>4, <1>5, <1>6
<1> HIDE DEF t
<1> QED BY <1>2, <1>7, TapMoves

LEMMA NoTapIsIdle == NoTap.pc = "idle" /\ [NoTap EXCEPT !.pc = "fresh"].pc = "fresh"
BY DEF NoTap

(* A transaction commits: what it is about is what it had read, or the row  *)
(* has been overtaken, and it does not set onboarding back.                 *)
Commit(v, saw, new, meant) ==
    /\ row' = [row EXCEPT ![v] = Saved(@, saw, new)] /\ Meaning(v, meant, new)
    /\ \A c \in Columns :
          v \in Users /\ <<v, c>> \notin overtaken =>
              IF c \in meant THEN saw[c] = row[v][c] ELSE new[c] = saw[c]
    /\ new["step"] \in 0..3 \/ new["step"] = saw["step"]
    /\ \/ new["step"] = saw["step"]
       \/ v \in Users /\ <<v, "step">> \notin overtaken => new["step"] >= saw["step"]

(* Whoever moves has finished. *)
Finishes ==
    /\ \A h \in Handlers : tap'[h] # tap[h] => tap'[h].pc \in {"idle", "fresh"}
    /\ \A s \in Staff : order'[s] # order[s] => order'[s] = NoOrder
    /\ \A p \in Purchases : activation'[p] # activation[p] => activation'[p] = None_
    /\ DOMAIN tap' = Handlers /\ DOMAIN order' = Staff /\ DOMAIN activation' = Purchases
    /\ buyer' = buyer /\ charged' = charged

LEMMA CommitKeeps ==
    ASSUME Held, Overtakes, Finishes,
           NEW v, NEW saw, NEW new, NEW meant, Commit(v, saw, new, meant)
    PROVE  Held' /\ Advances
<1> USE DEF Commit, Finishes
<1>1. Profiles /\ Standing /\ Onward BY DEF Held
<1>2. overtaken \subseteq overtaken' BY DEF Overtakes
<1>3. Profiles'
  <2>1. DOMAIN row' = Users /\ DOMAIN decided' = Users BY <1>1 DEF Profiles, Meaning
  <2>2. ASSUME NEW u \in Users PROVE Profile(row'[u])
    <3>1. CASE v = u
      <4>1. row'[u] = Saved(row[u], saw, new) BY <1>1, <3>1 DEF Profiles
      <4>2. Profile(row[u]) BY <1>1 DEF Profiles
      <4>3. "step" \in Columns BY DEF Columns
      <4> QED BY <4>1, <4>2, <4>3 DEF Profile, Saved
    <3>2. CASE v # u
      <4>1. row'[u] = row[u] BY <1>1, <3>2 DEF Profiles
      <4> QED BY <1>1, <4>1 DEF Profiles
    <3> QED BY <3>1, <3>2
  <2>3. ASSUME NEW h \in Handlers, tap'[h].pc \in {"edit", "link", "save"}
        PROVE  Profile(tap'[h].held)
    BY <1>1, <2>3 DEF Profiles
  <2>4. NoOrder.new["step"] = NoOrder.saw["step"] BY DEF NoOrder
  <2>5. ASSUME NEW s \in Staff PROVE order'[s].new["step"] = order'[s].saw["step"]
    <3>1. CASE order'[s] = order[s] BY <1>1, <3>1 DEF Profiles
    <3>2. CASE order'[s] = NoOrder BY <2>4, <3>2
    <3> QED BY <3>1, <3>2
  <2>6. ASSUME NEW p \in Purchases, activation'[p] # None_
        PROVE  p \in charged /\ Profile(activation'[p])
    BY <1>1, <2>6 DEF Profiles
  <2> QED BY <1>1, <2>1, <2>2, <2>3, <2>5, <2>6 DEF Profiles, Profile
<1>4. Standing'
  <2> SUFFICES ASSUME NEW u \in Users, NEW c \in Columns, <<u, c>> \notin overtaken'
               PROVE  Agrees(u, c)'
    BY DEF Standing
  <2>1. row[u][c] = decided[u][c] BY <1>1, HoldersStand DEF Agrees
  <2>2. v = u => IF c \in meant THEN saw[c] = row[u][c] ELSE new[c] = saw[c]
    BY <1>2
  <2>3. row'[u][c] = decided'[u][c]
    <3>1. DOMAIN row = Users /\ DOMAIN decided = Users BY <1>1 DEF Profiles
    <3>2. CASE v = u
      <4>1. row'[u] = Saved(row[u], saw, new) BY <3>1, <3>2
      <4>2. decided'[u][c] = IF c \in meant THEN new[c] ELSE decided[u][c]
        BY <3>1, <3>2 DEF Meaning
      <4>3. Saved(row[u], saw, new)[c] = IF c \in meant THEN new[c] ELSE row[u][c]
        BY <2>2, <3>2 DEF Saved
      <4> QED BY <2>1, <4>1, <4>2, <4>3
    <3>3. CASE v # u
      <4>1. row'[u] = row[u] /\ decided'[u] = decided[u] BY <3>1, <3>3 DEF Meaning
      <4> QED BY <2>1, <4>1
    <3> QED BY <3>2, <3>3
  <2>4. ASSUME NEW h \in Handlers, tap'[h] # tap[h], HandlerUser[h] = u
        PROVE  TapAgrees(tap'[h], row'[u], c)
    BY <2>4 DEF TapAgrees
  <2>5. ASSUME NEW s \in Staff, order'[s] # order[s], order'[s].user = u
        PROVE  OrderAgrees(order'[s], row'[u], c)
    <3>1. order'[s] = NoOrder BY <2>5
    <3> QED BY <3>1 DEF OrderAgrees, NoOrder
  <2> QED BY <1>1, <2>3, <2>4, <2>5, AgreesNext
<1>5. Onward'
  <2> SUFFICES ASSUME NEW h \in Handlers, tap'[h].pc = "save",
                      <<HandlerUser[h], "step">> \notin overtaken'
               PROVE  tap'[h].held["step"] >= tap'[h].saw["step"]
    BY DEF Onward
  <2>1. tap'[h] = tap[h] OBVIOUS
  <2> QED BY <1>1, <1>2, <2>1 DEF Onward
<1>6. Advances
  <2> SUFFICES ASSUME NEW u \in Users, <<u, "step">> \notin overtaken
               PROVE  ~(row'[u]["step"] < row[u]["step"])
    BY DEF Advances
  <2>1. "step" \in Columns /\ row[u]["step"] \in 0..3 /\ DOMAIN row = Users
    BY <1>1 DEF Columns, Profiles, Profile
  <2>2. CASE v = u
    <3>1. row'[u] = Saved(row[u], saw, new) BY <2>1, <2>2
    <3>2. row'[u]["step"] = IF new["step"] # saw["step"] THEN new["step"] ELSE row[u]["step"]
      BY <2>1, <3>1 DEF Saved
    <3>3. new["step"] # saw["step"] => saw["step"] = row[u]["step"] BY <2>1, <2>2
    <3> QED BY <2>1, <2>2, <3>2, <3>3
  <2>3. CASE v # u BY <2>1, <2>3
  <2> QED BY <2>2, <2>3
<1> QED BY <1>3, <1>4, <1>5, <1>6 DEF Held

(* The transactions that commit. *)
LEMMA SaveCommitsKeeps ==
    ASSUME Held, Overtakes, NEW h \in Handlers, SaveCommits(h)
    PROVE  Held' /\ Advances
<1>1. Profiles /\ Standing /\ Onward BY DEF Held
<1> DEFINE v == HandlerUser[h]
           saw == tap[h].saw
           new == tap[h].held
           meant == tap[h].meant
<1>2. /\ tap[h].pc = "save" /\ UNCHANGED <<evars, activation, order>>
      /\ row' = [row EXCEPT ![v] = Saved(@, saw, new)] /\ Meaning(v, meant, new)
      /\ tap' = [tap EXCEPT ![h] = IF @.ends THEN [NoTap EXCEPT !.pc = "fresh"] ELSE NoTap]
  BY DEF SaveCommits
<1>3. v \in Users BY HandlersHaveUsers
<1>4. \A c \in Columns : <<v, c>> \notin overtaken =>
          IF c \in meant THEN saw[c] = row[v][c] ELSE new[c] = saw[c]
  BY <1>1, <1>2, <1>3 DEF Standing, Agrees, TapAgrees
<1>5. new["step"] \in 0..3 /\ (<<v, "step">> \notin overtaken => new["step"] >= saw["step"])
  BY <1>1, <1>2 DEF Profiles, Profile, Onward
<1>6. /\ \A g \in Handlers : tap'[g] # tap[g] => tap'[g].pc \in {"idle", "fresh"}
      /\ DOMAIN tap' = Handlers /\ DOMAIN order' = Staff /\ DOMAIN activation' = Purchases
  BY <1>1, <1>2, NoTapIsIdle DEF Profiles
<1> HIDE DEF v, saw, new, meant
<1>7. Commit(v, saw, new, meant) BY <1>2, <1>4, <1>5 DEF Commit
<1>8. Finishes BY <1>2, <1>6 DEF Finishes, evars
<1> QED BY <1>7, <1>8, CommitKeeps

LEMMA OrderCommitsKeeps ==
    ASSUME Held, Overtakes, NEW s \in Staff, OrderCommits(s)
    PROVE  Held' /\ Advances
<1>1. Profiles /\ Standing BY DEF Held
<1> DEFINE v == order[s].user
           saw == order[s].saw
           new == order[s].new
           meant == order[s].meant
<1>2. /\ row' = [row EXCEPT ![v] = Saved(@, saw, new)] /\ Meaning(v, meant, new)
      /\ order' = [order EXCEPT ![s] = NoOrder] /\ UNCHANGED <<evars, tap, activation>>
  BY DEF OrderCommits
<1>3. \A c \in Columns : v \in Users /\ <<v, c>> \notin overtaken =>
          IF c \in meant THEN saw[c] = row[v][c] ELSE new[c] = saw[c]
  BY <1>1 DEF Standing, Agrees, OrderAgrees
<1>4. new["step"] = saw["step"] BY <1>1 DEF Profiles
<1>5. /\ \A t \in Staff : order'[t] # order[t] => order'[t] = NoOrder
      /\ DOMAIN tap' = Handlers /\ DOMAIN order' = Staff /\ DOMAIN activation' = Purchases
  BY <1>1, <1>2 DEF Profiles
<1> HIDE DEF v, saw, new, meant
<1>6. Commit(v, saw, new, meant) BY <1>2, <1>3, <1>4 DEF Commit
<1>7. Finishes BY <1>2, <1>5 DEF Finishes, evars
<1> QED BY <1>6, <1>7, CommitKeeps

LEMMA ActivateCommitsKeeps ==
    ASSUME Held, Overtakes, NEW p \in Purchases, ActivateCommits(p)
    PROVE  Held' /\ Advances
<1>1. Profiles /\ Standing BY DEF Held
<1> DEFINE v == buyer[p]
           saw == activation[p]
           new == Tiered(activation[p], "pro")
           meant == {"role", "tier"}
<1>2. /\ saw # None_ /\ UNCHANGED <<buyer, charged, tap, order>>
      /\ row' = [row EXCEPT ![v] = Saved(@, saw, new)] /\ Meaning(v, meant, new)
      /\ activation' = [activation EXCEPT ![p] = None_]
  BY DEF ActivateCommits, Grant
<1>3. Profile(saw) BY <1>1, <1>2 DEF Profiles
<1>4. Profile(new) /\ \A c \in Columns \ meant : new[c] = saw[c] BY <1>3, TieredColumns
<1>5. \A c \in Columns : v \in Users /\ <<v, c>> \notin overtaken =>
          IF c \in meant THEN saw[c] = row[v][c] ELSE new[c] = saw[c]
  BY <1>1, <1>2, <1>4 DEF Standing, Agrees
<1>6. new["step"] = saw["step"] BY <1>4 DEF Columns
<1>7. /\ \A q \in Purchases : activation'[q] # activation[q] => activation'[q] = None_
      /\ DOMAIN tap' = Handlers /\ DOMAIN order' = Staff /\ DOMAIN activation' = Purchases
  BY <1>1, <1>2 DEF Profiles
<1> HIDE DEF v, saw, new, meant
<1>8. Commit(v, saw, new, meant) BY <1>2, <1>5, <1>6 DEF Commit
<1>9. Finishes BY <1>2, <1>7 DEF Finishes
<1> QED BY <1>8, <1>9, CommitKeeps

(* The transactions that read. *)
LEMMA OrderReadsKeeps ==
    ASSUME Held, Overtakes, NEW s \in Staff, NEW u \in Users, NEW meant, NEW new,
           OrderReads(s, u, meant, new), "step" \notin meant,
           \A c \in Columns \ meant : new[c] = row[u][c]
    PROVE  Held'
<1>1. Profiles /\ Standing /\ Onward BY DEF Held
<1> DEFINE o == [user |-> u, meant |-> meant, saw |-> row[u], new |-> new]
<1>2. order' = [order EXCEPT ![s] = o] /\ UNCHANGED <<evars, row, tap, activation, decided>>
  BY DEF OrderReads
<1>3. order'[s] = o /\ \A t \in Staff \ {s} : order'[t] = order[t]
  BY <1>1, <1>2 DEF Profiles
<1>4. overtaken \subseteq overtaken' BY DEF Overtakes
<1>5. Profiles'
  <2>1. "step" \in Columns BY DEF Columns
  <2>2. o.new["step"] = o.saw["step"] BY <2>1
  <2>3. DOMAIN order' = Staff BY <1>1, <1>2 DEF Profiles
  <2>4. \A t \in Staff : order'[t].new["step"] = order'[t].saw["step"]
    BY <1>1, <1>3, <2>2 DEF Profiles
  <2> QED BY <1>1, <1>2, <2>3, <2>4 DEF Profiles, Profile, evars
<1>6. Standing'
  <2> SUFFICES ASSUME NEW w \in Users, NEW c \in Columns, <<w, c>> \notin overtaken'
               PROVE  Agrees(w, c)'
    BY DEF Standing
  <2>1. row'[w][c] = decided'[w][c] BY <1>1, <1>2, HoldersStand DEF Agrees
  <2>2. ASSUME NEW t \in Staff, order'[t] # order[t], order'[t].user = w
        PROVE  OrderAgrees(order'[t], row'[w], c)
    <3>1. order'[t] = o /\ w = u BY <1>3, <2>2
    <3> QED BY <1>2, <3>1 DEF OrderAgrees
  <2> QED BY <1>1, <1>2, <2>1, <2>2, AgreesNext DEF evars
<1>7. Onward' BY <1>1, <1>2, <1>4 DEF Onward
<1> QED BY <1>5, <1>6, <1>7 DEF Held

LEMMA ActivateReadsKeeps ==
    ASSUME Held, Overtakes, NEW p \in Purchases, ActivateReads(p)
    PROVE  Held'
<1>1. Profiles /\ Standing /\ Onward BY DEF Held
<1>2. /\ p \in charged /\ activation' = [activation EXCEPT ![p] = row[buyer[p]]]
      /\ UNCHANGED <<evars, row, tap, order, decided>>
  BY DEF ActivateReads
<1>3. /\ activation'[p] = row[buyer[p]] /\ buyer[p] \in Users
      /\ \A q \in Purchases \ {p} : activation'[q] = activation[q]
  BY <1>1, <1>2 DEF Profiles
<1>4. overtaken \subseteq overtaken' BY DEF Overtakes
<1>5. Profiles'
  <2>1. DOMAIN activation' = Purchases BY <1>1, <1>2 DEF Profiles
  <2>2. \A q \in Purchases : activation'[q] # None_ => q \in charged /\ Profile(activation'[q])
    BY <1>1, <1>2, <1>3 DEF Profiles
  <2> QED BY <1>1, <1>2, <2>1, <2>2 DEF Profiles, Profile, evars
<1>6. Standing'
  <2> SUFFICES ASSUME NEW u \in Users, NEW c \in Columns, <<u, c>> \notin overtaken'
               PROVE  Agrees(u, c)'
    BY DEF Standing
  <2>1. row'[u][c] = decided'[u][c] BY <1>1, <1>2, HoldersStand DEF Agrees
  <2>2. ASSUME NEW q \in Purchases, activation'[q] # activation[q], buyer'[q] = u
        PROVE  activation'[q][c] = row'[u][c]
    BY <1>2, <1>3, <2>2 DEF evars
  <2> QED BY <1>1, <1>2, <2>1, <2>2, AgreesNext DEF evars
<1>7. Onward' BY <1>1, <1>2, <1>4 DEF Onward
<1> QED BY <1>5, <1>6, <1>7 DEF Held

(* Checkouts and payments touch no profile. *)
LEMMA CheckoutKeeps ==
    ASSUME Held, Overtakes, UNCHANGED <<row, tap, activation, order, decided>>,
           NEW p \in Purchases, Charge(p) \/ \E u \in Users : Begin(p, u)
    PROVE  Held'
<1>1. Profiles /\ Standing /\ Onward BY DEF Held
<1>2. overtaken \subseteq overtaken' BY DEF Overtakes
<1>3. \A q \in Purchases : activation[q] # None_ => buyer'[q] = buyer[q] /\ q \in charged'
  BY <1>1 DEF Profiles, Charge, Begin
<1>4. Profiles'
  <2>1. DOMAIN buyer' = Purchases BY <1>1 DEF Profiles, Charge, Begin
  <2>2. \A q \in Purchases : buyer'[q] \in Users \cup {None} /\ (q \in charged' => buyer'[q] # None)
    BY <1>1 DEF Profiles, Charge, Begin
  <2> QED BY <1>1, <1>3, <2>1, <2>2 DEF Profiles, Profile
<1>5. Standing'
  <2> SUFFICES ASSUME NEW u \in Users, NEW c \in Columns, <<u, c>> \notin overtaken'
               PROVE  Agrees(u, c)'
    BY DEF Standing
  <2>1. row'[u][c] = decided'[u][c] BY <1>1, HoldersStand DEF Agrees
  <2> QED BY <1>1, <1>3, <2>1, AgreesNext
<1>6. Onward' BY <1>1, <1>2 DEF Onward
<1> QED BY <1>4, <1>5, <1>6 DEF Held
-----------------------------------------------------------------------------
LEMMA HeldInitially == BackofficeInit => Held
<1> SUFFICES ASSUME BackofficeInit PROVE Held OBVIOUS
<1>1. /\ row \in [Users -> {NewUser} \cup {AtLeast(NewUser, n) : n \in 1..2} \cup {Onboarded(NewUser)}]
      /\ tap = [h \in Handlers |-> NoTap] /\ activation = [p \in Purchases |-> None_]
      /\ order = [s \in Staff |-> NoOrder] /\ decided = row
      /\ buyer = [p \in Purchases |-> None] /\ charged = {}
  BY DEF BackofficeInit, MemberInit, Init
<1>2. Profile(NewUser) BY DEF Profile, NewUser, Columns
<1>3. \A u \in Users : Profile(row[u])
  <2> SUFFICES ASSUME NEW u \in Users PROVE Profile(row[u]) OBVIOUS
  <2>1. row[u] = NewUser \/ (\E n \in 1..2 : row[u] = AtLeast(NewUser, n)) \/ row[u] = Onboarded(NewUser)
    BY <1>1
  <2>2. ASSUME NEW n \in 1..2 PROVE Profile(AtLeast(NewUser, n)) BY <1>2, StepForward
  <2>3. Profile(Onboarded(NewUser)) BY <1>2, StepForward
  <2> QED BY <1>2, <2>1, <2>2, <2>3
<1>4. Profiles
  <2>1. NoOrder.new["step"] = NoOrder.saw["step"] BY DEF NoOrder
  <2>2. DOMAIN row = Users BY <1>1
  <2> QED BY <1>1, <1>3, <2>1, <2>2, NoTapIsIdle DEF Profiles
<1>5. Standing BY <1>1, NoTapIsIdle DEF Standing, Agrees, TapAgrees, OrderAgrees, NoOrder
<1>6. Onward BY <1>1, NoTapIsIdle DEF Onward
<1> QED BY <1>4, <1>5, <1>6 DEF Held

LEMMA RowsStay == Held /\ UNCHANGED row => Advances
BY DEF Held, Profiles, Profile, Advances

LEMMA TapKeeps ==
    ASSUME Held, Overtakes, NEW h \in Handlers, Taps(h)
    PROVE  Held' /\ Advances
<1> DEFINE u == HandlerUser[h]
<1>1. tap[h].pc \in {"edit", "link", "save"} => Profile(tap[h].held)
  BY DEF Held, Profiles
<1>2. CASE Open(h)
  <2> DEFINE t == [NoTap EXCEPT !.pc = "edit", !.held = row[u]]
  <2>1. t.pc = "edit" /\ t.held = row[u] BY DEF NoTap
  <2>2. tap' = [tap EXCEPT ![h] = t] /\ UNCHANGED <<evars, row, activation, order, decided>>
    BY <1>2 DEF Open
  <2> HIDE DEF t
  <2> QED BY <2>1, <2>2, TapMoves, RowsStay
<1>3. CASE Edit(h)
  <2>1. PICK new \in Changed(tap[h].held) : tap[h].pc = "edit" /\ Saves(h, new, FALSE)
    BY <1>3 DEF Edit
  <2>2. Profile(new) /\ new["step"] >= tap[h].held["step"] BY <1>1, <2>1, ChangesAdvance
  <2>3. UNCHANGED row BY <2>1 DEF Saves
  <2> QED BY <2>1, <2>2, <2>3, SavesKeep, RowsStay
<1>4. CASE SetCurrency(h)
  <2>1. tap[h].pc = "edit" /\ Saves(h, Onboarded(tap[h].held), TRUE) BY <1>4 DEF SetCurrency
  <2>2. /\ Profile(Onboarded(tap[h].held))
        /\ Onboarded(tap[h].held)["step"] >= tap[h].held["step"]
    BY <1>1, <2>1, StepForward
  <2>3. UNCHANGED row BY <2>1 DEF Saves
  <2> QED BY <2>1, <2>2, <2>3, SavesKeep, RowsStay
<1>5. CASE SaveCommits(h) BY <1>5, SaveCommitsKeeps
<1>6. CASE ReadLink(h)
  <2> DEFINE t == IF row[u].link = None THEN NoTap ELSE [NoTap EXCEPT !.pc = "link", !.held = row[u]]
  <2>1. t.pc = "idle" \/ (t.pc = "link" /\ t.held = row[u]) BY DEF NoTap
  <2>2. tap' = [tap EXCEPT ![h] = t] /\ UNCHANGED <<evars, row, activation, order, decided>>
    BY <1>6 DEF ReadLink
  <2> HIDE DEF t
  <2> QED BY <2>1, <2>2, TapMoves, RowsStay
<1>7. CASE ClearLink(h)
  <2> DEFINE new == [tap[h].held EXCEPT !.link = None]
  <2>1. tap[h].pc = "link" /\ Saves(h, new, FALSE) BY <1>7 DEF ClearLink
  <2>2. Profile(new) /\ new["step"] >= tap[h].held["step"] BY <1>1, <2>1 DEF Profile, Columns
  <2>3. UNCHANGED row BY <2>1 DEF Saves
  <2> HIDE DEF new
  <2> QED BY <2>1, <2>2, <2>3, SavesKeep, RowsStay
<1>8. CASE Leave(h)
  <2>1. tap' = [tap EXCEPT ![h] = NoTap] /\ UNCHANGED <<evars, row, activation, order, decided>>
    BY <1>8 DEF Leave
  <2> QED BY <2>1, NoTapIsIdle, TapMoves, RowsStay
<1> QED BY <1>2, <1>3, <1>4, <1>5, <1>6, <1>7, <1>8 DEF Taps

LEMMA AdministrationKeeps ==
    ASSUME Held, Overtakes, NEW s \in Staff, Administration(s)
    PROVE  Held' /\ Advances
<1>1. CASE OrderCommits(s) BY <1>1, OrderCommitsKeeps
<1>2. ASSUME NEW u \in Users,
             GrantPro(s, u) \/ RevokePro(s, u) \/ SetSuspended(s, u) \/ ResetFilters(s, u)
      PROVE  Held' /\ Advances
  <2>1. Profile(row[u]) BY DEF Held, Profiles
  <2>2. PICK meant, new :
            /\ OrderReads(s, u, meant, new) /\ "step" \notin meant
            /\ \A c \in Columns \ meant : new[c] = row[u][c]
    <3>1. CASE GrantPro(s, u)
      BY <2>1, <3>1, TieredColumns DEF GrantPro, OverrideTier
    <3>2. CASE RevokePro(s, u)
      BY <2>1, <3>2, TieredColumns DEF RevokePro, OverrideTier
    <3>3. CASE SetSuspended(s, u)
      <4>1. PICK b \in BOOLEAN :
                OrderReads(s, u, {"suspended"}, [row[u] EXCEPT !.suspended = b])
        BY <3>3 DEF SetSuspended
      <4>2. \A c \in Columns \ {"suspended"} : [row[u] EXCEPT !.suspended = b][c] = row[u][c]
        BY <2>1 DEF Profile
      <4> QED BY <4>1, <4>2
    <3>4. CASE ResetFilters(s, u)
      <4>1. OrderReads(s, u, {"filter"}, Filtered(row[u], "default")) BY <3>4 DEF ResetFilters
      <4>2. \A c \in Columns \ {"filter"} : Filtered(row[u], "default")[c] = row[u][c]
        BY <2>1 DEF Profile, Filtered
      <4> QED BY <4>1, <4>2
    <3> QED BY <1>2, <3>1, <3>2, <3>3, <3>4
  <2>3. UNCHANGED row BY <2>2 DEF OrderReads
  <2> QED BY <2>2, <2>3, OrderReadsKeeps, RowsStay
<1> QED BY <1>1, <1>2 DEF Administration

LEMMA PaymentsKeep ==
    ASSUME Held, Overtakes, Payments
    PROVE  Held' /\ Advances
<1>1. ASSUME NEW p \in Purchases, ActivateReads(p) PROVE Held' /\ Advances
  <2>1. UNCHANGED row BY <1>1 DEF ActivateReads
  <2> QED BY <1>1, <2>1, ActivateReadsKeeps, RowsStay
<1>2. ASSUME NEW p \in Purchases, ActivateCommits(p) PROVE Held' /\ Advances
  BY <1>2, ActivateCommitsKeeps
<1>3. ASSUME NEW p \in Purchases, Charge(p) \/ \E u \in Users : Begin(p, u),
             UNCHANGED <<row, tap, activation, order, taps, orders, decided>>
      PROVE  Held' /\ Advances
  BY <1>3, CheckoutKeeps, RowsStay
<1> QED BY <1>1, <1>2, <1>3 DEF Payments

(* A broadcast touches no profile. *)
LEMMA ProfilesApart ==
    ASSUME Held, UNCHANGED <<evars, row, tap, activation, order, decided, overtaken>>
    PROVE  Held' /\ Advances
<1>1. Profiles' BY DEF Held, Profiles, Profile, evars
<1>2. Standing' BY DEF Held, Standing, Agrees, TapAgrees, OrderAgrees, evars
<1>3. Onward' BY DEF Held, Onward
<1> QED BY <1>1, <1>2, <1>3, RowsStay DEF Held

LEMMA HeldInductive == Held /\ [BackofficeNext]_backVars => Held' /\ Advances
<1> SUFFICES ASSUME Held, [BackofficeNext]_backVars PROVE Held' /\ Advances OBVIOUS
<1>1. CASE Members
  <2>1. MemberStep /\ Overtakes BY <1>1 DEF Members, MemberNext
  <2> QED BY <2>1, PaymentsKeep, TapKeeps, AdministrationKeeps DEF MemberStep
<1>2. ASSUME NEW s \in Staff, Broadcasts(s) PROVE Held' /\ Advances
  <2>1. UNCHANGED <<evars, row, tap, activation, order, decided, overtaken>>
    BY <1>2 DEF Broadcasts, Draft, Press, Confirm, SendReads, SendCommits, FanOut, Abandon, mvars
  <2> QED BY <2>1, ProfilesApart
<1>3. CASE UNCHANGED backVars BY <1>3, ProfilesApart DEF backVars, mvars
<1> QED BY <1>1, <1>2, <1>3 DEF BackofficeNext

THEOREM HeldInvariance == BackofficeSpec => []Held
<1> QED BY HeldInitially, HeldInductive, PTL DEF BackofficeSpec

(* A column stays as it was last set on purpose, whoever saves what else    *)
(* together with it, unless it changed under somebody who held the profile. *)
THEOREM DecisionsStand == BackofficeSpec => []DecisionStands
<1>1. Held => DecisionStands BY DEF Held, Standing, Agrees, DecisionStands
<1> QED BY <1>1, HeldInvariance, PTL

(* Onboarding is not set back, unless it advanced under a handler.          *)
THEOREM OnboardingIsNotSetBack == BackofficeSpec => OnboardingAdvances
<1>1. Held /\ [BackofficeNext]_backVars =>
          [\A u \in Users : row'[u].step < row[u].step => <<u, "step">> \in overtaken]_mvars
  BY HeldInductive DEF Advances
<1> QED BY <1>1, HeldInvariance, PTL DEF BackofficeSpec, OnboardingAdvances
=============================================================================
