------------------------------ MODULE Backoffice ------------------------------
(***************************************************************************)
(* Broadcasts, beside everything Membership has staff and users do.        *)
(*                                                                         *)
(* A broadcast is drafted with the number of its recipients, confirmed by  *)
(* pressing a button under the preview - whoever can see it, as often as   *)
(* they like - and sent by the press that found enough confirmations.      *)
(* The confirmation, the claim of the recipients and the sending are three *)
(* awaits of one handler; the confirmations are one JSON list, read and    *)
(* written back whole.                                                     *)
(***************************************************************************)
EXTENDS Membership, Sequences, FiniteSets, SequencesExt

CONSTANTS
    Jobs,        \* rows of broadcast_jobs
    Threshold,   \* _LARGE_BROADCAST_THRESHOLD
    MaxPresses   \* bound: presses of the confirm button

ASSUME BackofficeBounds == Threshold \in Nat /\ MaxPresses \in Nat
ASSUME StaffAndUsersAreFinite == IsFiniteSet(Staff) /\ IsFiniteSet(Users)
ASSUME NoneIsNoStatus == None \notin {"draft", "approved", "sent"}

VARIABLES
    job,       \* broadcast_jobs
    desk,      \* each staff member's run of broadcast_confirm
    presses,
    pressed,   \* history: who has confirmed each job
    outbox     \* history: the recipients of every sending

bvars == <<job, desk, presses, pressed, outbox>>
backVars == <<mvars, bvars>>

NoJob  == [status |-> None, recipients |-> 0, confirmed |-> <<>>]
NoDesk == [pc |-> "idle", job |-> None, saw |-> NoJob, to |-> {}]

(* alert_candidates: onboarded and not suspended. *)
Reachable == {u \in Users : row[u].step >= 3 /\ ~row[u].suspended}

(* create_broadcast; the job's size is counted now, and only now.           *)
Draft(s, j) ==
    /\ order[s] = NoOrder /\ desk[s] = NoDesk /\ job[j] = NoJob
    /\ taps < MaxTaps /\ orders < MaxOrders   \* bound: a broadcast stands for a tap and an order
    /\ taps' = taps + 1 /\ orders' = orders + 1
    /\ job' = [job EXCEPT ![j] = [NoJob EXCEPT !.status = "draft",
                                               !.recipients = Cardinality(Reachable)]]
    /\ UNCHANGED <<evars, row, tap, activation, order, decided, overtaken, desk, presses,
                   pressed, outbox>>

Required(recipients) == IF recipients >= Threshold THEN 2 ELSE 1

(* broadcast_confirm has read the job. *)
Press(s, j) ==
    /\ order[s] = NoOrder /\ desk[s] = NoDesk /\ job[j] # NoJob /\ presses < MaxPresses
    /\ desk' = [desk EXCEPT ![s] = [NoDesk EXCEPT !.pc = "confirm", !.job = j, !.saw = job[j]]]
    /\ presses' = presses + 1
    /\ UNCHANGED <<mvars, job, pressed, outbox>>

(* Mutant: a second press of the same person counts. *)
AnyPressConfirms(confirmed, s) == Append(confirmed, s)

Confirmed(confirmed, s) ==
    IF s \in ToSet(confirmed) THEN confirmed ELSE Append(confirmed, s)

(* add_confirmation and the check, committed: the list, and the status once *)
(* there are enough of them, are written if they differ from what was read. *)
Confirm(s) ==
    /\ desk[s].pc = "confirm"
    /\ LET saw   == desk[s].saw
           names == Confirmed(saw.confirmed, s)
           ready == Len(names) >= Required(saw.recipients) IN
         /\ job' = [job EXCEPT
                ![desk[s].job].confirmed = IF names # saw.confirmed THEN names ELSE @,
                ![desk[s].job].status =
                    IF ready /\ saw.status # "approved" THEN "approved" ELSE @]
         /\ desk' = [desk EXCEPT ![s] = IF ready THEN [@ EXCEPT !.pc = "send", !.saw = NoJob]
                                        ELSE NoDesk]
    /\ pressed' = [pressed EXCEPT ![desk[s].job] = @ \cup {s}]
    /\ UNCHANGED <<mvars, presses, outbox>>

(* recipients_for: nobody, unless the job is approved and not yet sent. *)
SendReads(s) ==
    /\ desk[s].pc = "send"
    /\ desk' = [desk EXCEPT ![s] =
           IF job[desk[s].job].status = "approved" THEN [@ EXCEPT !.pc = "claim"] ELSE NoDesk]
    /\ UNCHANGED <<mvars, job, presses, pressed, outbox>>

SendCommits(s) ==
    /\ desk[s].pc = "claim"
    /\ job' = [job EXCEPT ![desk[s].job].status = "sent"]
    /\ desk' = [desk EXCEPT ![s].pc = "fan", ![s].to = Reachable]
    /\ UNCHANGED <<mvars, presses, pressed, outbox>>

FanOut(s) ==
    /\ desk[s].pc = "fan"
    /\ outbox' = outbox \cup {[job |-> desk[s].job, to |-> desk[s].to]}
    /\ desk' = [desk EXCEPT ![s] = NoDesk]
    /\ UNCHANGED <<mvars, job, presses, pressed>>

(* The handler fails or its process ends; a job marked as sent stays so. *)
Abandon(s) ==
    /\ desk[s] # NoDesk
    /\ desk' = [desk EXCEPT ![s] = NoDesk]
    /\ UNCHANGED <<mvars, job, presses, pressed, outbox>>

-----------------------------------------------------------------------------

BackofficeInit ==
    /\ MemberInit
    /\ job = [j \in Jobs |-> NoJob] /\ desk = [s \in Staff |-> NoDesk] /\ presses = 0
    /\ pressed = [j \in Jobs |-> {}] /\ outbox = {}

Broadcasts(s) ==
    \/ \E j \in Jobs : Draft(s, j) \/ Press(s, j)
    \/ Confirm(s) \/ SendReads(s) \/ SendCommits(s) \/ FanOut(s) \/ Abandon(s)

(* Staff press buttons one after the other. *)
Members ==
    /\ MemberNext
    /\ \A s \in Staff : order'[s] # order[s] => desk[s] = NoDesk
    /\ UNCHANGED bvars

BackofficeNext == Members \/ \E s \in Staff : Broadcasts(s)

BackofficeSpec == BackofficeInit /\ [][BackofficeNext]_backVars

-----------------------------------------------------------------------------
(* Properties. *)

(* Two-person rule (R-ADMIN-3, admin_service.py): a broadcast drafted for a *)
(* large audience is sent only after two different people confirmed it,     *)
(* however their presses overlap, repeat or fail half way.                  *)
TwoPersonRule ==
    \A j \in Jobs :
        /\ job[j].recipients >= Threshold
        /\ job[j].status \in {"approved", "sent"} \/ \E o \in outbox : o.job = j
        => Cardinality(pressed[j]) >= 2
=============================================================================
