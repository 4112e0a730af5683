------------------------------ MODULE CexStream ------------------------------
(***************************************************************************)
(* The websocket side of one CEX adapter: which pairs it streams, on which *)
(* of its connections, and how a connection that fails finds a host that   *)
(* answers.                                                                *)
(*                                                                         *)
(* Each shard (connection) has a loop of its own; the collector's          *)
(* discovery hands the adapter new pairs while the loops run.  Everything  *)
(* shares the WS host index, the REST host index and one HTTP session.  A  *)
(* step here is the code between two awaits: a send, a dial, a sleep.      *)
(***************************************************************************)
EXTENDS Naturals, Sequences, FiniteSets, SequencesExt

CONSTANTS
    NPairs,      \* bound: markets the venue comes to list
    MaxPerConn,  \* ws_max_symbols_per_conn
    MaxConns,    \* ws_max_conns
    FailMax,     \* ws_fast_reconnect_max
    Worlds,      \* configurations: _ws_urls and _rest_urls, as whether each host
                 \* answers, and the number of proxies
    None

ASSUME BudgetAssumption ==
    /\ None \notin Nat /\ NPairs \in Nat /\ MaxPerConn \in Nat \ {0} /\ MaxConns \in Nat \ {0}
    /\ FailMax \in Nat \ {0}
ASSUME WorldsAssumption ==
    \A w \in Worlds :
        /\ w.ws \in Seq(BOOLEAN) \ {<<>>} /\ w.rest \in Seq(BOOLEAN) \ {<<>>}
        /\ w.proxies \in Nat

Pairs == 1..NPairs
Conns == 1..MaxConns

VARIABLES
    world,     \* the element of Worlds this behaviour runs in; it does not change
    calm,      \* environment: from now on only dead hosts fail, and no planned
               \* recycle (one in 23 hours) falls due
    shards,    \* _shards: the pairs of each connection opened so far
    loop,      \* each connection's _shard_loop and its socket
    ensuring,  \* the running _ensure_subscribed
    wsHost,    \* _ws_idx
    rest       \* _rest_idx and _rest_fail_streak

streamVars == <<world, calm, shards, loop, ensuring, wsHost, rest>>

(* Whether the host that an index points at answers. *)
Answers(hosts, idx) == hosts[(idx % Len(hosts)) + 1]

NextHost(hosts, idx) == (idx + 1) % Len(hosts)

Subscribed == UNION ToSet(shards)
Owned(i)   == IF i <= Len(shards) THEN shards[i] ELSE {}

(* _shard_ws[i] is set and not closed. *)
Up(i) == loop[i].pc \in {"subscribing", "open"} /\ ~loop[i].dead

(* The loop's socket is gone: its requests are forgotten. *)
Off == [pc |-> "ready", host |-> None, asked |-> {}, left |-> {}, dead |-> FALSE,
        attempt |-> 0, slow |-> FALSE, cycle |-> 0]
NoTask == [Off EXCEPT !.pc = "none"]
Idle   == [todo |-> {}, fresh |-> {}, conn |-> None, left |-> {}, live |-> FALSE]

(* The call returns once it has nothing left to send. *)
Returned(c) == IF c.todo = {} /\ c.conn = None THEN Idle ELSE c

-----------------------------------------------------------------------------
(* The egress: one session for REST and all sockets. *)

(* _rotate_proxy: the session is rebuilt and the old one closed, which      *)
(* closes every socket of the venue and fails every dial under way.  No-op  *)
(* without a second proxy.                                                  *)
RotateProxy(loops) ==
    IF world.proxies < 2 THEN loops
    ELSE [i \in Conns |-> [loops[i] EXCEPT
             !.dead = @ \/ loops[i].pc \in {"dial", "subscribing", "open"}]]

-----------------------------------------------------------------------------
(* Discovery: get_markets, then subscribe_ticker and subscribe_order_book.  *)

(* _assign_shard: the first connection with room, or a new one, or none. *)
Assign(layout, p) ==
    IF \E i \in DOMAIN layout : p \in layout[i] THEN layout
    ELSE LET roomy == {i \in DOMAIN layout : Cardinality(layout[i]) < MaxPerConn} IN
         IF roomy # {} THEN
              LET i == CHOOSE i \in roomy : \A j \in roomy : i <= j IN
              [layout EXCEPT ![i] = @ \cup {p}]
         ELSE IF Len(layout) < MaxConns THEN Append(layout, {p})
         ELSE layout

(* The listed markets, in their order. *)
Assigned[n \in 0..NPairs] == IF n = 0 THEN shards ELSE Assign(Assigned[n - 1], n)

(* The first n markets are listed: pairs are numbered as they are handed to  *)
(* the adapter.  Each connection's new pairs are yet to be requested on it.  *)
Discover(n) ==
    /\ ensuring = Idle
    /\ Answers(world.rest, rest.host)
    /\ rest' = [rest EXCEPT !.streak = 0]
    /\ shards' = Assigned[n]
    /\ LET changed == {i \in DOMAIN shards' : shards'[i] # Owned(i)} IN
         ensuring' = [Idle EXCEPT !.todo = changed,
                              !.fresh = IF changed = {} THEN {} ELSE 1..n \ Subscribed]
    /\ UNCHANGED <<world, calm, loop, wsHost>>

(* Discovery failed on this host: the next attempt goes to the next one,    *)
(* and a blocked address or a full cycle moves to the next proxy.           *)
DiscoveryFails(blocked) ==
    /\ ensuring = Idle
    /\ blocked \/ calm => ~Answers(world.rest, rest.host)
    /\ LET streak == NextHost(world.rest, rest.streak) IN
         /\ rest' = [host |-> NextHost(world.rest, rest.host), streak |-> streak]
         /\ loop' = IF blocked \/ streak = 0 THEN RotateProxy(loop) ELSE loop
    /\ UNCHANGED <<world, calm, shards, ensuring, wsHost>>

(* Mutant: the handle is set when the initial subscription is through, so   *)
(* pairs that arrive in between find none.                                  *)
PushWhenOpen(i) ==
    /\ ensuring.conn = None /\ i \in ensuring.todo
    /\ LET ready == Up(i) /\ loop[i].pc = "open" IN
         ensuring' = Returned([ensuring EXCEPT !.todo = @ \ {i},
                                   !.conn = IF ready THEN i ELSE None,
                                   !.left = IF ready THEN ensuring.fresh \cap shards[i] ELSE {},
                                   !.live = ready])
    /\ loop' = [loop EXCEPT ![i] = IF @.pc = "none" THEN Off ELSE @]
    /\ UNCHANGED <<world, calm, shards, wsHost, rest>>

(* Mutant: an open connection is left alone, its next connect will do. *)
PushOnConnect(i) ==
    /\ ensuring.conn = None /\ i \in ensuring.todo
    /\ ensuring' = Returned([ensuring EXCEPT !.todo = @ \ {i}])
    /\ loop' = [loop EXCEPT ![i] = IF @.pc = "none" THEN Off ELSE @]
    /\ UNCHANGED <<world, calm, shards, wsHost, rest>>

(* The connection's task is started if there is none; new pairs are pushed  *)
(* to its socket if that is open.  Otherwise the connect will request them. *)
PushTo(i) ==
    /\ ensuring.conn = None /\ i \in ensuring.todo
    /\ ensuring' = Returned([ensuring EXCEPT !.todo = @ \ {i},
                                 !.conn = IF Up(i) THEN i ELSE None,
                                 !.left = IF Up(i) THEN ensuring.fresh \cap shards[i] ELSE {},
                                 !.live = Up(i)])
    /\ loop' = [loop EXCEPT ![i] = IF @.pc = "none" THEN Off ELSE @]
    /\ UNCHANGED <<world, calm, shards, wsHost, rest>>

(* One frame of the live subscription is sent, or the socket turns out to   *)
(* be closed and the rest is left to the reconnect.                         *)
Push ==
    /\ ensuring.conn # None
    /\ IF ensuring.live /\ ~loop[ensuring.conn].dead /\ ensuring.left # {}
       THEN \E p \in ensuring.left :
              /\ loop' = [loop EXCEPT ![ensuring.conn].asked = @ \cup {p}]
              /\ ensuring' = [ensuring EXCEPT !.left = @ \ {p}]
       ELSE /\ ensuring' = Returned([ensuring EXCEPT !.conn = None, !.left = {}, !.live = FALSE])
            /\ UNCHANGED loop
    /\ UNCHANGED <<world, calm, shards, wsHost, rest>>

-----------------------------------------------------------------------------
(* A connection: _shard_loop, _run_shard, _ws_receive_loop. *)

(* The dial goes to the host the shared index points at now. *)
Dial(i) ==
    /\ loop[i].pc = "ready"
    /\ loop' = [loop EXCEPT ![i].pc = "dial", ![i].host = wsHost]
    /\ UNCHANGED <<world, calm, shards, ensuring, wsHost, rest>>

(* The handle is set and the shard's pairs are read without an await in     *)
(* between: whatever is added later finds the handle.                       *)
Connect(i) ==
    /\ loop[i].pc = "dial" /\ ~loop[i].dead /\ Answers(world.ws, loop[i].host)
    /\ loop' = [loop EXCEPT ![i].pc = "subscribing", ![i].host = None, ![i].left = Owned(i)]
    /\ UNCHANGED <<world, calm, shards, ensuring, wsHost, rest>>

(* When the receive loop starts, the connection has come up: what went      *)
(* before no longer counts.                                                 *)
Subscribe(i) ==
    /\ loop[i].pc = "subscribing" /\ ~loop[i].dead
    /\ IF loop[i].left = {}
       THEN loop' = [loop EXCEPT ![i] = [Off EXCEPT !.pc = "open", !.asked = loop[i].asked]]
       ELSE \E p \in loop[i].left :
              loop' = [loop EXCEPT ![i].asked = @ \cup {p}, ![i].left = @ \ {p}]
    /\ UNCHANGED <<world, calm, shards, ensuring, wsHost, rest>>

(* The peer closes; the loop, or a sender, has yet to notice. *)
PeerCloses(i) ==
    /\ Up(i) /\ ~calm
    /\ loop' = [loop EXCEPT ![i].dead = TRUE]
    /\ UNCHANGED <<world, calm, shards, ensuring, wsHost, rest>>

(* Whoever still holds the socket will be told that it is closed. *)
Released(i) == [ensuring EXCEPT !.live = @ /\ ensuring.conn # i]

(* Mutant: the host is changed at the escalation only. *)
EscapesOnce(i) ==
    /\ LET attempt == IF loop[i].attempt < FailMax THEN loop[i].attempt + 1 ELSE FailMax
           slow    == attempt = FailMax
           down    == [loop EXCEPT ![i] = [Off EXCEPT !.pc = "wait", !.attempt = attempt,
                           !.slow = slow]]
       IN /\ wsHost' = IF slow /\ ~loop[i].slow THEN NextHost(world.ws, wsHost) ELSE wsHost
          /\ loop' = IF slow /\ ~loop[i].slow THEN RotateProxy(down) ELSE down
    /\ ensuring' = Released(i)
    /\ UNCHANGED <<world, calm, shards, rest>>

(* A dial or a connection ends in an exception.  From FailMax on the shard   *)
(* is in slow retry: every cycle moves the shared index to the next host,   *)
(* every third (the escalation being the first) the proxy.                  *)
ShardFails(i) ==
    /\ LET attempt == IF loop[i].attempt < FailMax THEN loop[i].attempt + 1 ELSE FailMax
           slow    == attempt = FailMax
           cycle   == IF loop[i].slow THEN (loop[i].cycle + 1) % 3 ELSE 0
           down    == [loop EXCEPT ![i] = [Off EXCEPT !.pc = "wait", !.attempt = attempt,
                           !.slow = slow, !.cycle = cycle]]
       IN /\ wsHost' = IF slow THEN NextHost(world.ws, wsHost) ELSE wsHost
          /\ loop' = IF slow /\ cycle = 0 THEN RotateProxy(down) ELSE down
    /\ ensuring' = Released(i)
    /\ UNCHANGED <<world, calm, shards, rest>>

(* The host does not answer or the session was closed under the dial; or a  *)
(* dial to a host that does answer goes wrong.                              *)
Refused(i) ==
    /\ loop[i].pc = "dial"
    /\ loop[i].dead \/ ~Answers(world.ws, loop[i].host)
    /\ ShardFails(i)
DialFails(i) == loop[i].pc = "dial" /\ Answers(world.ws, loop[i].host) /\ ~calm /\ ShardFails(i)

(* The loop finds its socket closed, or closes it (idle, heartbeat). *)
Notice(i) == loop[i].pc \in {"subscribing", "open"} /\ loop[i].dead /\ ShardFails(i)
Drop(i)   == Up(i) /\ ~calm /\ ShardFails(i)

(* The planned recycle: no failure, the budget is restored. *)
Recycle(i) ==
    /\ loop[i].pc = "open" /\ ~calm
    /\ loop' = [loop EXCEPT ![i] = Off]
    /\ ensuring' = Released(i)
    /\ UNCHANGED <<world, calm, shards, wsHost, rest>>

Wake(i) ==
    /\ loop[i].pc = "wait"
    /\ loop' = [loop EXCEPT ![i].pc = "ready"]
    /\ UNCHANGED <<world, calm, shards, ensuring, wsHost, rest>>

-----------------------------------------------------------------------------

StreamInit ==
    /\ world \in Worlds /\ calm = FALSE
    /\ shards = <<>> /\ loop = [i \in Conns |-> NoTask] /\ ensuring = Idle
    /\ wsHost = 0 /\ rest = [host |-> 0, streak |-> 0]

Discoveries == \E n \in 0..NPairs : Discover(n)
DiscoveryMisses == \E blocked \in BOOLEAN : DiscoveryFails(blocked)

Pushes  == Push \/ \E i \in Conns : PushTo(i)
Runs(i) == Dial(i) \/ Connect(i) \/ Subscribe(i) \/ Refused(i) \/ Notice(i) \/ Wake(i)

Calms ==
    /\ ~calm /\ calm' = TRUE
    /\ UNCHANGED <<world, shards, loop, ensuring, wsHost, rest>>

StreamNext ==
    \/ Discoveries \/ DiscoveryMisses \/ Pushes \/ Calms
    \/ \E i \in Conns :
          Runs(i) \/ Recycle(i) \/ PeerCloses(i) \/ DialFails(i) \/ Drop(i)

StreamSpec == StreamInit /\ [][StreamNext]_streamVars

(* asyncio resumes every task whose await is over; a dial and a send are    *)
(* over sooner or later (they have timeouts), and so is every sleep.  The   *)
(* collector tries its discovery again and again.                           *)
FairStreams ==
    /\ StreamSpec
    /\ WF_streamVars(Pushes) /\ \A i \in Conns : WF_streamVars(Runs(i))
    /\ WF_streamVars(Discoveries \/ DiscoveryMisses)

-----------------------------------------------------------------------------
(* Properties. *)

(* Every variable keeps its shape. *)
StreamTypeOK ==
    /\ world \in Worlds /\ calm \in BOOLEAN
    /\ shards \in Seq(SUBSET Pairs) /\ Len(shards) <= MaxConns
    /\ loop \in [Conns -> [pc : {"none", "ready", "dial", "subscribing", "open", "wait"},
                           host : (0..Len(world.ws) - 1) \cup {None},
                           asked : SUBSET Pairs, left : SUBSET Pairs, dead : BOOLEAN,
                           attempt : 0..FailMax, slow : BOOLEAN, cycle : 0..2]]
    /\ ensuring \in [todo : SUBSET Conns, fresh : SUBSET Pairs, conn : Conns \cup {None},
                 left : SUBSET Pairs, live : BOOLEAN]
    /\ wsHost \in 0..Len(world.ws) - 1
    /\ rest \in [host : 0..Len(world.rest) - 1, streak : 0..Len(world.rest) - 1]

(* What is still to be requested on the socket of i: by its loop, by the    *)
(* discovery's push under way, or by one that is next.                      *)
Awaited(i) ==
    loop[i].left \cup (IF ensuring.conn = i /\ ensuring.live THEN ensuring.left ELSE {})
        \cup (IF i \in ensuring.todo THEN ensuring.fresh ELSE {})

(* No pair is silently without data (the earlier bug named in               *)
(* _ensure_subscribed): whatever discoveries and reconnects overlap, every  *)
(* pair of a connection has been requested on its live socket or is about   *)
(* to be.                                                                   *)
NoSilentPair ==
    \A i \in Conns : Up(i) => Owned(i) \subseteq loop[i].asked \cup Awaited(i)

Streaming ==
    \A p \in Subscribed : \E i \in Conns : Up(i) /\ p \in loop[i].asked

(* Once the network is calm and every host answers, all subscribed pairs are *)
(* requested on live sockets, whatever state the faults left the loops in.  *)
PairsStream == calm /\ FALSE \notin ToSet(world.ws) ~> Streaming

(* A connection that is alone in its trouble reaches a host that answers,   *)
(* wherever it is in the list (`a shard cannot get stuck retrying one dead  *)
(* host`).                                                                  *)
LoneShardEscapes ==
    \A i \in Conns :
        /\ <>(calm /\ TRUE \in ToSet(world.ws))
        /\ <>[](\A j \in Conns \ {i} : loop[j].pc \in {"none", "open"})
        => []<>(loop[i].pc \in {"none", "subscribing", "open"})

(* A venue with one REST host that answers keeps being discovered. *)
DiscoveryEscapes == TRUE \in ToSet(world.rest) => []<>Answers(world.rest, rest.host)

(* Neither rotation, of WS hosts or of REST hosts, is ever trapped by the   *)
(* hosts that do not answer (base_cex.py:84, :93).                          *)
DeadHostsEscaped == LoneShardEscapes /\ DiscoveryEscapes
=============================================================================
