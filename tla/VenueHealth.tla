---------------------------- MODULE VenueHealth ----------------------------
(***************************************************************************)
(* One venue in the health registry, and everything that reports on it:    *)
(* the websocket shards of a CEX (or the pool polls of a DEX), the health  *)
(* probes, the staleness pass and the admin's kill switch.                 *)
(*                                                                         *)
(* All of them run on one event loop, and the registry's methods do not    *)
(* await, so each report is one step.  What interleaves is the reports:    *)
(* a shard works through dial, subscribe, receive and back off, and any    *)
(* other actor may report between two of its steps.  Ages are in ticks.    *)
(***************************************************************************)
EXTENDS Naturals, Sequences

CONSTANTS
    Kinds,         \* kinds of venue considered: a subset of {"cex", "dex"}
    Shards,        \* websocket connections of a CEX venue
    Recovery,      \* health_recovery_consecutive
    FailMax,       \* ws_fast_reconnect_max
    Stale,         \* stale_cex_ws_sec, stale_dex_rpc_sec: a function on kinds
    OfflineAfter,  \* stale_dex_offline_sec
    IdleWindow,    \* ws_idle_timeout_sec
    MaxAge,        \* bound: an age the clock stops at
    NoData         \* the age of data that never came

ASSUME KindsAssumption == Kinds \subseteq {"cex", "dex"} /\ Stale \in [Kinds -> Nat]
ASSUME CountsAssumption ==
    /\ Recovery \in Nat \ {0} /\ FailMax \in Nat \ {0}
    /\ IdleWindow \in Nat
ASSUME AgesAssumption ==
    /\ OfflineAfter \in Nat /\ MaxAge \in Nat /\ NoData \notin Nat
    /\ OfflineAfter < MaxAge /\ IdleWindow < MaxAge
    /\ \A k \in Kinds : Stale[k] <= OfflineAfter

VARIABLES
    kind,    \* which kind of venue this is
    venue,   \* its VenueHealth entry, with its latest reports
    socket   \* where each shard's loop is

healthVars == <<kind, venue, socket>>

Eligible == venue.status \in {"online", "degraded"}   \* signal_allowed

UpTo(n, cap) == IF n < cap THEN n + 1 ELSE cap

(* The last reports on the venue, newest last: what the properties remember *)
(* of the past.  No action reads it.                                        *)
Report(recent, r) ==
    LET all == Append(recent, r) IN
    IF Len(all) > Recovery THEN Tail(all) ELSE all

-----------------------------------------------------------------------------
(* HealthRegistry. *)

(* Mutant: the count of good checks survives a demotion. *)
TransitionKeepsCount(v, new) ==
    IF v.status = new THEN v
    ELSE [v EXCEPT !.status = new,
                   !.recent = IF new = "online" THEN @ ELSE Report(@, "out")]

Transition(v, new) ==
    IF v.status = new THEN v
    ELSE [v EXCEPT !.status = new,
                   !.succ = IF new = "online" THEN @ ELSE 0,
                   !.recent = IF new = "online" THEN @ ELSE Report(@, "out")]

Counted(v, stream) ==
    [v EXCEPT !.succ = UpTo(@, Recovery),
              !.fail = 0,
              !.age = IF stream THEN 0 ELSE @,
              !.recent = Report(@, IF stream THEN "stream" ELSE "probe")]

(* Mutant: any N successes bring a venue back. *)
SuccessOfAnyKind(v, stream) ==
    LET w == Counted(v, stream) IN
    IF \/ v.status = "unknown"
       \/ w.succ >= Recovery
    THEN Transition(w, "online")
    ELSE w

(* Mutant: only a venue that never streamed may come back. *)
SuccessOfProbesOnly(v, stream) ==
    LET w == Counted(v, stream) IN
    IF \/ v.status = "unknown"
       \/ v.status = "degraded" /\ stream
       \/ v.age = NoData /\ w.succ >= Recovery
    THEN Transition(w, "online")
    ELSE w

(* Cold start and DEGRADED recover on one report; a venue that has streamed *)
(* comes back from offline only on stream-bearing successes.                *)
Success(v, stream) ==
    LET w == Counted(v, stream) IN
    IF \/ v.status = "unknown"
       \/ v.status = "degraded" /\ stream
       \/ (stream \/ v.age = NoData) /\ w.succ >= Recovery
    THEN Transition(w, "online")
    ELSE w

Failed(v) == [v EXCEPT !.succ = 0, !.fail = UpTo(@, FailMax), !.recent = Report(@, "fail")]

HardFailure(v) == Transition(Failed(v), "api_offline")

(* A soft failure is ignored while the stream delivers. *)
SoftFailure(v) ==
    LET w == Failed(v) IN
    IF (v.age = NoData \/ v.age > IdleWindow) /\ w.fail >= FailMax
    THEN Transition(w, "api_offline")
    ELSE w

-----------------------------------------------------------------------------
(* A CEX shard: _shard_loop, _run_shard, _ws_receive_loop. *)

(* The shard's socket exists and is not closed. *)
Up(i) == socket[i].pc \in {"subscribing", "open"}

Connect(i) ==
    /\ kind = "cex" /\ socket[i].pc = "dial"
    /\ socket' = [socket EXCEPT ![i].pc = "subscribing"]
    /\ UNCHANGED <<kind, venue>>

Subscribed(i) ==
    /\ socket[i].pc = "subscribing"
    /\ socket' = [socket EXCEPT ![i].pc = "open"]
    /\ UNCHANGED <<kind, venue>>

(* Any frame that parses counts as stream data. *)
Frame(i) ==
    /\ socket[i].pc = "open"
    /\ venue' = Success(venue, TRUE)
    /\ UNCHANGED <<kind, socket>>

(* The peer closes; the receive loop has yet to notice. *)
SocketCloses(i) ==
    /\ socket[i].pc = "open"
    /\ socket' = [socket EXCEPT ![i].pc = "closed"]
    /\ UNCHANGED <<kind, venue>>

(* Mutant: one shard's escalation takes the whole venue down. *)
DropBlanksVenue(i) ==
    /\ kind = "cex" /\ socket[i].pc \in {"dial", "subscribing", "open", "closed"}
    /\ LET wasOpen == socket[i].pc \in {"open", "closed"}
           attempt == UpTo(IF wasOpen THEN 0 ELSE socket[i].attempt, FailMax)
           slow    == ~wasOpen /\ socket[i].slow
           escalates == attempt >= FailMax /\ ~slow
       IN /\ venue' = IF escalates THEN HardFailure(SoftFailure(venue)) ELSE SoftFailure(venue)
          /\ socket' = [socket EXCEPT ![i] =
                 [pc |-> "wait", attempt |-> attempt, slow |-> attempt >= FailMax]]
    /\ UNCHANGED kind

(* The connection attempt fails, or the connection drops: a soft failure,  *)
(* and a hard one when the fast-reconnect budget runs out and no shard of  *)
(* the venue is connected.  A socket that had come up starts a new streak. *)
Drop(i) ==
    /\ kind = "cex" /\ socket[i].pc \in {"dial", "subscribing", "open", "closed"}
    /\ LET wasOpen == socket[i].pc \in {"open", "closed"}
           attempt == UpTo(IF wasOpen THEN 0 ELSE socket[i].attempt, FailMax)
           slow    == ~wasOpen /\ socket[i].slow
           escalates == attempt >= FailMax /\ ~slow /\ \A j \in Shards \ {i} : ~Up(j)
       IN /\ venue' = IF escalates THEN HardFailure(SoftFailure(venue)) ELSE SoftFailure(venue)
          /\ socket' = [socket EXCEPT ![i] =
                 [pc |-> "wait", attempt |-> attempt, slow |-> attempt >= FailMax]]
    /\ UNCHANGED kind

(* The planned recycle: no failure is recorded, the budget is restored. *)
Recycle(i) ==
    /\ socket[i].pc \in {"open", "closed"}
    /\ socket' = [socket EXCEPT ![i] = [pc |-> "dial", attempt |-> 0, slow |-> FALSE]]
    /\ UNCHANGED <<kind, venue>>

Redial(i) ==
    /\ kind = "cex" /\ socket[i].pc = "wait"
    /\ socket' = [socket EXCEPT ![i].pc = "dial"]
    /\ UNCHANGED <<kind, venue>>

-----------------------------------------------------------------------------
(* A DEX has no push stream: its pool reads are the stream. *)

(* A batch read reports each of its books in turn without awaiting in       *)
(* between: it is this step taken once per book.                            *)
PoolPolled ==
    /\ kind = "dex"
    /\ venue' = Success(venue, TRUE)
    /\ UNCHANGED <<kind, socket>>

PoolPollFails ==
    /\ kind = "dex"
    /\ venue' = SoftFailure(venue)
    /\ UNCHANGED <<kind, socket>>

-----------------------------------------------------------------------------
(* The engine: probes every venue, passes over stale ones; the admin. *)

ProbeSucceeds ==
    /\ venue' = Success(venue, FALSE)
    /\ UNCHANGED <<kind, socket>>

ProbeFails ==
    /\ venue' = SoftFailure(venue)
    /\ UNCHANGED <<kind, socket>>

(* CEX: straight to Maintenance.  DEX: DEGRADED first, Maintenance when the *)
(* gap lasts.                                                               *)
CheckStaleness(v, w) ==
    /\ v.age # NoData /\ v.age > Stale[kind]
    /\ LET gone == kind = "cex" \/ v.age > OfflineAfter IN
         \/ /\ gone
            /\ v.status = "online" \/ (kind = "dex" /\ v.status = "degraded")
            /\ w = Transition(v, "maintenance")
         \/ /\ ~gone /\ v.status = "online"
            /\ w = Transition(v, "degraded")

(* The health pass, with the staleness that the venue's kind is allowed. *)
StalenessPass ==
    /\ CheckStaleness(venue, venue')
    /\ UNCHANGED <<kind, socket>>

KillSwitch ==
    /\ venue' = Transition(venue, "api_offline")
    /\ UNCHANGED <<kind, socket>>

Tick ==
    /\ venue.age # NoData /\ venue.age < MaxAge
    /\ venue' = [venue EXCEPT !.age = @ + 1]
    /\ UNCHANGED <<kind, socket>>

-----------------------------------------------------------------------------

Fresh == [status |-> "unknown", succ |-> 0, fail |-> 0, age |-> NoData, recent |-> <<>>]

(* start(): an adapter that cannot even open its transport is a hard failure. *)
HealthInit ==
    /\ kind \in Kinds
    /\ venue \in {Fresh, HardFailure(Fresh)}
    /\ socket = [i \in Shards |-> [pc |-> "dial", attempt |-> 0, slow |-> FALSE]]

Streaming ==
    \/ \E i \in Shards : Frame(i)
    \/ PoolPolled

Faults ==
    \/ \E i \in Shards : Drop(i)
    \/ PoolPollFails \/ ProbeFails \/ KillSwitch

HealthNext ==
    \/ Streaming \/ Faults \/ ProbeSucceeds \/ StalenessPass \/ Tick
    \/ \E i \in Shards :
          Connect(i) \/ Subscribed(i) \/ SocketCloses(i) \/ Recycle(i) \/ Redial(i)

HealthSpec == HealthInit /\ [][HealthNext]_healthVars

(* The reconciliation loop runs its health pass for as long as the engine   *)
(* lives; nothing else is promised to happen.                               *)
FairHealthSpec == HealthSpec /\ WF_healthVars(StalenessPass)

-----------------------------------------------------------------------------
(* Properties. *)

Reports == {"stream", "probe", "fail", "out"}

Statuses == {"unknown", "online", "degraded", "maintenance", "api_offline"}

Health == [status : Statuses, succ : 0..Recovery, fail : 0..FailMax,
           age : 0..MaxAge \cup {NoData}, recent : Seq(Reports)]

(* Every variable keeps its shape. *)
HealthTypeOK ==
    /\ kind \in Kinds
    /\ venue \in Health
    /\ socket \in [Shards -> [pc : {"dial", "subscribing", "open", "closed", "wait"},
                              attempt : 0..FailMax, slow : BOOLEAN]]

(* Anti-flap: a venue that was taken out comes back only after Recovery     *)
(* good reports in a row, all of them since it was taken out, the last one  *)
(* carrying market data if the venue has ever streamed; whoever reported in *)
(* between.                                                                 *)
RecoveryEarned ==
    [][venue.status \in {"maintenance", "api_offline"} /\ venue'.status = "online" =>
         /\ Len(venue'.recent) = Recovery
         /\ \A n \in 1..Recovery : venue'.recent[n] \in {"stream", "probe"}
         /\ venue'.age # NoData => venue'.recent[Recovery] = "stream"]_healthVars

(* A venue with fresh data is not blanked: apart from the kill switch, it    *)
(* leaves the pool only on stale data, or when its last connection is gone. *)
FreshVenueStays ==
    [][Eligible /\ ~Eligible' =>
         \/ KillSwitch
         \/ venue.age = NoData \/ venue.age > Stale[kind]
         \/ kind = "cex" /\ \A i \in Shards : ~Up(i)']_healthVars

(* A venue whose feed is dead leaves the pool and stays out, however many   *)
(* probes keep answering (the production loop of record_success's comment). *)
DeadFeedLeaves == <>[](venue.age = MaxAge) => <>[](~Eligible)

(* A venue that keeps streaming and stops failing is signal-eligible again  *)
(* and again: no demotion, kill switch or slow retry is for good.           *)
LiveFeedReturns == <>[][~Faults]_healthVars /\ []<><<Streaming>>_healthVars => []<>Eligible
=============================================================================
