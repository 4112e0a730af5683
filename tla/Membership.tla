------------------------------ MODULE Membership ------------------------------
(***************************************************************************)
(* A user's rows - role, tier, suspension, onboarding, deep link, filter - *)
(* when payments, the user's own taps and staff write them at once.        *)
(*                                                                         *)
(* Everybody writes through UserRepository.save_profile: it loads the      *)
(* user, assigns every column, and SQLAlchemy then writes the columns that *)
(* differ from what that transaction has read.  A payment and a staff      *)
(* operation load, change and save in one transaction.  A bot handler      *)
(* changes the profile its middleware had loaded and saves it later.       *)
(*                                                                         *)
(* Which purchases are paid, and activated once, is the promise of the     *)
(* payment side (Entitlement, which Settlement implements).                *)
(***************************************************************************)
EXTENDS Entitlement, Naturals

CONSTANTS
    Handlers,     \* concurrent executions of handlers
    HandlerUser,  \* [Handlers -> Users]: whose tap
    Staff,        \* administrators and support, one operation at a time each
    MaxTaps,      \* bound: handler executions
    MaxOrders     \* bound: operations on users

ASSUME HandlersHaveUsers == HandlerUser \in [Handlers -> Users]
ASSUME MembershipBounds == MaxTaps \in Nat /\ MaxOrders \in Nat

Columns == {"role", "tier", "suspended", "step", "link", "filter"}

VARIABLES
    row,         \* the user's rows
    tap,         \* each handler: where it is, the profile it holds, what its save read
    activation,  \* what the transaction that activates a purchase has read
    order,       \* each staff operation: the user, the columns it is about, what it
                 \* read and what it saves
    taps, orders,
    decided,     \* history: each column as it was last set by somebody who meant to
    overtaken    \* history: columns that changed under somebody who held them

mvars == <<evars, row, tap, activation, order, taps, orders, decided, overtaken>>

None_ == [c \in Columns |-> None]
NoTap   == [pc |-> "idle", held |-> None_, saw |-> None_, meant |-> {}, ends |-> FALSE]
NoOrder == [user |-> None, meant |-> {}, saw |-> None_, new |-> None_]

(* save_profile, flushed: only what differs from what was read is written. *)
Saved(old, saw, new) == [c \in Columns |-> IF new[c] # saw[c] THEN new[c] ELSE old[c]]

Differ(old, new) == {c \in Columns : old[c] # new[c]}

Meaning(u, meant, new) ==
    decided' = [decided EXCEPT ![u] = [c \in Columns |-> IF c \in meant THEN new[c] ELSE @[c]]]

(* Who holds a column of u before and after this step: a handler with a     *)
(* loaded profile all of them, a transaction those it is about.             *)
HeldByTap(u, c) ==
    \E h \in Handlers :
        /\ HandlerUser[h] = u /\ tap'[h] = tap[h]
        /\ tap[h].pc \in {"edit", "link"} \/ (tap[h].pc = "save" /\ c \in tap[h].meant)
HeldByOrder(u, c) ==
    \/ \E s \in Staff : order[s].user = u /\ order'[s] = order[s] /\ c \in order[s].meant
    \/ \E p \in Purchases :
          /\ buyer[p] = u /\ activation[p] # None_ /\ activation'[p] = activation[p]
          /\ c \in {"role", "tier"}

Overtakes ==
    overtaken' = overtaken \cup
        {uc \in Users \X Columns :
            /\ row[uc[1]][uc[2]] # row'[uc[1]][uc[2]]
            /\ HeldByTap(uc[1], uc[2]) \/ HeldByOrder(uc[1], uc[2])}

-----------------------------------------------------------------------------
(* A tap of a user: ContextMiddleware, the handler, UserService.save. *)

(* Suspended users' updates are answered by the middleware. *)
Open(h) ==
    /\ tap[h].pc = "idle" /\ taps < MaxTaps
    /\ ~row[HandlerUser[h]].suspended
    /\ tap' = [tap EXCEPT ![h] = [NoTap EXCEPT !.pc = "edit", !.held = row[HandlerUser[h]]]]
    /\ taps' = taps + 1
    /\ UNCHANGED <<evars, row, activation, order, orders, decided>>

(* set_language, set_timezone and set_currency serve onboarding and the     *)
(* settings screen alike.                                                   *)
AtLeast(profile, n) == [profile EXCEPT !.step = IF @ < n THEN n ELSE @]
Onboarded(profile) ==
    [AtLeast(profile, 3) EXCEPT !.role =
        IF profile.step < 3 /\ @ = "visitor" THEN "free" ELSE @]

(* Mutant: the timezone is the second step, whoever sets it. *)
TimezoneIsStepTwo(profile) == [profile EXCEPT !.step = 2]

SetLanguage(profile) == AtLeast(profile, 1)
SetTimezone(profile) == AtLeast(profile, 2)

(* /start with a payload, until onboarding is over. *)
CaptureLink(profile) == IF profile.step < 3 THEN [profile EXCEPT !.link = "signal"] ELSE profile

(* The filter panel; "Reset" is its default, "Save" changes nothing. *)
Filtered(profile, filter) == [profile EXCEPT !.filter = filter]

Changed(profile) ==
    {SetLanguage(profile), SetTimezone(profile), CaptureLink(profile), profile}
        \cup {Filtered(profile, f) : f \in {"default", "own"}}

(* save's transaction has loaded the row. *)
Saves(h, new, ends) ==
    /\ tap' = [tap EXCEPT ![h] = [pc |-> "save", held |-> new, saw |-> row[HandlerUser[h]],
                                  meant |-> Differ(tap[h].held, new), ends |-> ends]]
    /\ UNCHANGED <<evars, row, activation, order, taps, orders, decided>>

Edit(h) == tap[h].pc = "edit" /\ \E new \in Changed(tap[h].held) : Saves(h, new, FALSE)

(* The currency is the last question: the handler goes on to the link. *)
SetCurrency(h) == tap[h].pc = "edit" /\ Saves(h, Onboarded(tap[h].held), TRUE)

(* Most handlers save nothing; one that fails, or whose process ends, saves  *)
(* nothing more.                                                            *)
Leave(h) ==
    /\ tap[h].pc # "idle"
    /\ tap' = [tap EXCEPT ![h] = NoTap]
    /\ UNCHANGED <<evars, row, activation, order, taps, orders, decided>>

(* Mutant: every column is written. *)
SaveWholeRow(h) ==
    /\ tap[h].pc = "save"
    /\ LET u == HandlerUser[h] IN
         /\ row' = [row EXCEPT ![u] = tap[h].held]
         /\ Meaning(u, tap[h].meant, tap[h].held)
    /\ tap' = [tap EXCEPT ![h] = IF @.ends THEN [NoTap EXCEPT !.pc = "fresh"] ELSE NoTap]
    /\ UNCHANGED <<evars, activation, order, taps, orders>>

SaveCommits(h) ==
    /\ tap[h].pc = "save"
    /\ LET u == HandlerUser[h] IN
         /\ row' = [row EXCEPT ![u] = Saved(@, tap[h].saw, tap[h].held)]
         /\ Meaning(u, tap[h].meant, tap[h].held)
    /\ tap' = [tap EXCEPT ![h] = IF @.ends THEN [NoTap EXCEPT !.pc = "fresh"] ELSE NoTap]
    /\ UNCHANGED <<evars, activation, order, taps, orders>>

(* The link captured before onboarding is read back, cleared and opened. *)
ReadLink(h) ==
    /\ tap[h].pc = "fresh"
    /\ LET fresh == row[HandlerUser[h]] IN
         tap' = [tap EXCEPT ![h] =
            IF fresh.link = None THEN NoTap ELSE [NoTap EXCEPT !.pc = "link", !.held = fresh]]
    /\ UNCHANGED <<evars, row, activation, order, taps, orders, decided>>

ClearLink(h) == tap[h].pc = "link" /\ Saves(h, [tap[h].held EXCEPT !.link = None], FALSE)

Taps(h) ==
    Open(h) \/ Edit(h) \/ SetCurrency(h) \/ SaveCommits(h) \/ ReadLink(h) \/ ClearLink(h)
        \/ Leave(h)

-----------------------------------------------------------------------------
(* SubscriptionService.activate_lifetime, for a purchase that is paid. *)

Tiered(profile, tier) ==
    [profile EXCEPT !.tier = tier, !.role = IF tier = "pro" THEN "paid" ELSE "free"]

ActivateReads(p) ==
    /\ p \in charged \ granted /\ activation[p] = None_
    /\ activation' = [activation EXCEPT ![p] = row[buyer[p]]]
    /\ UNCHANGED <<evars, row, tap, order, taps, orders, decided>>

ActivateCommits(p) ==
    /\ activation[p] # None_
    /\ Grant(p)
    /\ LET u   == buyer[p]
           new == Tiered(activation[p], "pro") IN
         /\ row' = [row EXCEPT ![u] = Saved(@, activation[p], new)]
         /\ Meaning(u, {"role", "tier"}, new)
    /\ activation' = [activation EXCEPT ![p] = None_]
    /\ UNCHANGED <<tap, order, taps, orders>>

(* Checkouts and payments go on meanwhile. *)
Payments ==
    \/ \E p \in Purchases : ActivateReads(p) \/ ActivateCommits(p)
    \/ /\ \E p \in Purchases : Charge(p) \/ \E u \in Users : Begin(p, u)
       /\ UNCHANGED <<row, tap, activation, order, taps, orders, decided>>

-----------------------------------------------------------------------------
(* AdminService: override_tier, set_suspended, reset_filters. *)

OrderReads(s, u, meant, new) ==
    /\ order[s] = NoOrder /\ orders < MaxOrders
    /\ order' = [order EXCEPT ![s] = [user |-> u, meant |-> meant, saw |-> row[u], new |-> new]]
    /\ orders' = orders + 1
    /\ UNCHANGED <<evars, row, tap, activation, taps, decided>>

OverrideTier(s, u, tier) == OrderReads(s, u, {"role", "tier"}, Tiered(row[u], tier))
GrantPro(s, u)  == OverrideTier(s, u, "pro")
RevokePro(s, u) == OverrideTier(s, u, "free")
SetSuspended(s, u) ==
    \E b \in BOOLEAN : OrderReads(s, u, {"suspended"}, [row[u] EXCEPT !.suspended = b])
ResetFilters(s, u) == OrderReads(s, u, {"filter"}, Filtered(row[u], "default"))

OrderCommits(s) ==
    /\ order[s] # NoOrder
    /\ LET u == order[s].user IN
         /\ row' = [row EXCEPT ![u] = Saved(@, order[s].saw, order[s].new)]
         /\ Meaning(u, order[s].meant, order[s].new)
    /\ order' = [order EXCEPT ![s] = NoOrder]
    /\ UNCHANGED <<evars, tap, activation, taps, orders>>

Administration(s) ==
    \/ OrderCommits(s)
    \/ \E u \in Users :
          GrantPro(s, u) \/ RevokePro(s, u) \/ SetSuspended(s, u) \/ ResetFilters(s, u)

-----------------------------------------------------------------------------

NewUser == [role |-> "visitor", tier |-> "free", suspended |-> FALSE, step |-> 0, link |-> None,
            filter |-> "default"]

(* Users have got anywhere in their onboarding. *)
MemberInit ==
    /\ Init
    /\ row \in [Users -> {NewUser} \cup {AtLeast(NewUser, n) : n \in 1..2} \cup {Onboarded(NewUser)}]
    /\ tap = [h \in Handlers |-> NoTap] /\ activation = [p \in Purchases |-> None_]
    /\ order = [s \in Staff |-> NoOrder] /\ taps = 0 /\ orders = 0
    /\ decided = row /\ overtaken = {}

MemberStep == Payments \/ (\E h \in Handlers : Taps(h)) \/ (\E s \in Staff : Administration(s))

MemberNext == MemberStep /\ Overtakes

MemberSpec == MemberInit /\ [][MemberNext]_mvars

-----------------------------------------------------------------------------
(* Properties. *)

(* Whatever is saved together with it, a column stays as the payment, the   *)
(* user or the administrator who set it last has set it: nobody is denied   *)
(* Pro, readmitted or given an old filter by a save about something else -  *)
(* unless that column changed under somebody who already held the profile,  *)
(* the one window a whole-profile save leaves open.                         *)
DecisionStands ==
    \A u \in Users, c \in Columns : row[u][c] # decided[u][c] => <<u, c>> \in overtaken

(* Onboarding only advances, the settings screen included: who has finished *)
(* it goes on being sent signals, unless a handler of an earlier question   *)
(* was still holding the profile.                                           *)
OnboardingAdvances ==
    [][\A u \in Users : row'[u].step < row[u].step => <<u, "step">> \in overtaken]_mvars
=============================================================================
