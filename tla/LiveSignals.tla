---------------------------- MODULE LiveSignals ----------------------------
(***************************************************************************)
(* What the live signals promise about the venues they trade on, whoever   *)
(* makes, updates and expires them: a signal goes live only while all its  *)
(* venues are in service; a venue that goes out of service owes the expiry *)
(* of its signals, and is through with it only when none is left, unless   *)
(* it came back in the meantime.                                           *)
(***************************************************************************)
CONSTANT Venues

VARIABLES
    live,   \* signals, each a pair of a name and its venues
    out,    \* venues out of service
    owed    \* ... whose signals have still to be expired

signalVars == <<live, out, owed>>

Init == live = {} /\ out \subseteq Venues /\ owed = {}

Turnover ==
    /\ \A s \in live' \ live : s[2] \cap out = {}
    /\ UNCHANGED <<out, owed>>

GoesOut(v) ==
    /\ out' = out \cup {v}
    /\ owed' = owed \cup {v}
    /\ UNCHANGED live

Settles(v) ==
    /\ v \in owed
    /\ owed' = owed \ {v}
    /\ live' \subseteq live
    /\ v \in out => \A s \in live' : v \notin s[2]
    /\ UNCHANGED out

ComesBack(v) ==
    /\ v \in out
    /\ out' = out \ {v}
    /\ UNCHANGED <<live, owed>>

Next == Turnover \/ \E v \in Venues : GoesOut(v) \/ Settles(v) \/ ComesBack(v)

Spec == Init /\ [][Next]_signalVars

(* A live signal of a venue that is out is about to be expired.             *)
Owed == \A s \in live : s[2] \cap out \subseteq owed
=============================================================================
