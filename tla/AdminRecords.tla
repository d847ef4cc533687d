---------------------------- MODULE AdminRecords ----------------------------
(***************************************************************************)
(* What the API writes down for its staff: errors it met, counted by       *)
(* fingerprint, with an alert each (apps/api/src/common/filters and        *)
(* admin/errors, admin/notifications), and changes of a user's status,     *)
(* with an audit row each (admin/users, admin/audit), made from the user's *)
(* page (apps/web/src/app/admin/users/[id]).                               *)
(*                                                                         *)
(* One fingerprint and one user.  A call to the database is a step.        *)
(***************************************************************************)
EXTENDS Integers, Sequences

CONSTANTS Captures,      \* failed requests whose capture can be in flight
          MaxCaptures,   \* failures (bound)
          Tabs,          \* user pages open
          MaxAudit       \* changes of status (bound)

ASSUME RecordsAssumption == {MaxCaptures, MaxAudit} \subseteq Nat

VARIABLES
    event,       \* the fingerprint's row: its occurrenceCount, none if 0, and whether it is open
    capture,     \* where each capture is, and the count it found
    alerts,      \* error.critical notifications
    reached,     \* history: captures whose call to the row succeeded
    userStatus,
    trail,       \* audit rows of the user
    tab,         \* per page: what it is at and shows, and its request
    tangled      \* history: two changes overlapped, or one died half way

errorVars  == <<event, capture, alerts, reached>>
statusVars == <<userStatus, trail, tab, tangled>>
recordVars == <<errorVars, statusVars>>

NoCapture == [at |-> "idle", found |-> 0]
Statuses  == {"ACTIVE", "SUSPENDED"}
NewTab    == [at |-> "loading", shows |-> "none", to |-> "none", before |-> "none"]

RecordsInit ==
    /\ event = [count |-> 0, open |-> FALSE]
    /\ capture = [c \in Captures |-> NoCapture]
    /\ alerts = 0 /\ reached = 0
    /\ userStatus = "ACTIVE"
    /\ trail = <<>>
    /\ tab = [t \in Tabs |-> NewTab]
    /\ tangled = FALSE

-----------------------------------------------------------------------------
(* An error: AllExceptionsFilter.catch, which waits for none of this *)

CaptureGoes(c, step) == capture' = [capture EXCEPT ![c] = [at |-> step, found |-> event.count]]
CaptureEnds(c)       == capture' = [capture EXCEPT ![c] = NoCapture]

\* findUnique by fingerprint.
FindEvent(c) ==
    /\ capture[c] = NoCapture
    /\ CaptureGoes(c, "found")
    /\ UNCHANGED <<event, alerts, reached, statusVars>>

\* Mutant of OneMore: the count found, plus one.
OneMoreThanFound(c) == capture[c].found + 1

\* occurrenceCount: increment 1
OneMore(c) == event.count + 1

\* The row that was found counts and opens again.
CountAgain(c) ==
    /\ capture[c].at = "found" /\ capture[c].found > 0
    /\ reached < MaxCaptures
    /\ event' = [count |-> OneMore(c), open |-> TRUE]
    /\ reached' = reached + 1
    /\ CaptureGoes(c, "reached")
    /\ UNCHANGED <<alerts, statusVars>>

\* No row was found; if one is there by now the fingerprint is taken, and this capture is
\* dropped with all it had to tell.
CreateEvent(c) ==
    /\ capture[c].at = "found" /\ capture[c].found = 0
    /\ IF event.count = 0
       THEN /\ event' = [count |-> 1, open |-> TRUE]
            /\ reached' = reached + 1
            /\ CaptureGoes(c, "reached")
       ELSE CaptureEnds(c) /\ UNCHANGED <<event, reached>>
    /\ UNCHANGED <<alerts, statusVars>>

\* The severity of a status of 500 and more is HIGH.
Alert(c) ==
    /\ capture[c].at = "reached"
    /\ alerts' = alerts + 1
    /\ CaptureEnds(c)
    /\ UNCHANGED <<event, reached, statusVars>>

\* A call rejects, which is swallowed, or the process dies.
CaptureDies(c) ==
    /\ capture[c] # NoCapture
    /\ CaptureEnds(c)
    /\ UNCHANGED <<event, alerts, reached, statusVars>>

\* Resolve in the console, whatever came in since its rows were read.
ResolveEvent ==
    /\ event.open
    /\ event' = [event EXCEPT !.open = FALSE]
    /\ UNCHANGED <<capture, alerts, reached, statusVars>>

-----------------------------------------------------------------------------
(* A user's page *)

TabGoes(t, step) == tab' = [tab EXCEPT ![t].at = step]
Changing         == {t \in Tabs : tab[t].at \in {"read", "updated"}}

\* load(): at first, and after a change.
UserLands(t) ==
    /\ tab[t].at = "loading"
    /\ tab' = [tab EXCEPT ![t] = [NewTab EXCEPT !.at = "idle", !.shows = userStatus]]
    /\ UNCHANGED <<errorVars, userStatus, trail, tangled>>

\* The page says so and offers to load again; a user shown before is gone from it.
UserFails(t) ==
    /\ tab[t].at = "loading"
    /\ tab' = [tab EXCEPT ![t] = NewTab]
    /\ UNCHANGED <<errorVars, userStatus, trail, tangled>>

\* The other of the status on display, while not busy.
Toggle(t) ==
    /\ tab[t].at = "idle"
    /\ Len(trail) < MaxAudit
    /\ \E to \in Statuses \ {tab[t].shows} :
          tab' = [tab EXCEPT ![t] = [@ EXCEPT !.at = "asked", !.to = to]]
    /\ UNCHANGED <<errorVars, userStatus, trail, tangled>>

ReadBefore(t) ==
    /\ tab[t].at = "asked"
    /\ tab' = [tab EXCEPT ![t] = [@ EXCEPT !.at = "read", !.before = userStatus]]
    /\ tangled' = (tangled \/ Changing # {})
    /\ UNCHANGED <<errorVars, userStatus, trail>>

UpdateStatus(t) ==
    /\ tab[t].at = "read"
    /\ userStatus' = tab[t].to
    /\ TabGoes(t, "updated")
    /\ UNCHANGED <<errorVars, trail, tangled>>

\* Mutant of Before: the status is read when the row is written.
BeforeNow(t) == userStatus

Before(t) == tab[t].before

\* audit.record, and the answer.
RecordChange(t) ==
    /\ tab[t].at = "updated"
    /\ trail' = Append(trail, [before |-> Before(t), after |-> tab[t].to])
    /\ TabGoes(t, "loading")
    /\ UNCHANGED <<errorVars, userStatus, tangled>>

\* A call rejects or the process dies: the page is no longer busy, and shows what it did.
ChangeDies(t) ==
    /\ tab[t].at \in {"asked", "read", "updated"}
    /\ tab' = [tab EXCEPT ![t] = [NewTab EXCEPT !.at = "idle", !.shows = tab[t].shows]]
    /\ tangled' = (tangled \/ tab[t].at = "updated")
    /\ UNCHANGED <<errorVars, userStatus, trail>>

-----------------------------------------------------------------------------
ErrorsNext ==
    \/ \E c \in Captures :
          FindEvent(c) \/ CountAgain(c) \/ CreateEvent(c) \/ Alert(c) \/ CaptureDies(c)
    \/ ResolveEvent

StatusNext ==
    \E t \in Tabs :
        \/ UserLands(t) \/ UserFails(t) \/ Toggle(t)
        \/ ReadBefore(t) \/ UpdateStatus(t) \/ RecordChange(t) \/ ChangeDies(t)

RecordsNext == ErrorsNext \/ StatusNext

RecordsSpec == RecordsInit /\ [][RecordsNext]_recordVars

-----------------------------------------------------------------------------
(* Properties *)

\* Every capture that reached the row is counted once, however captures overlap, and
\* alerts somebody at most once.  (Two first captures at once: the second reaches no row.)
CapturesCounted == event.count = reached /\ alerts <= reached

\* The audit trail tells how the user came to its status: each row starts where the one
\* before ended, and nothing has happened since the last.  Not so once two changes have
\* overlapped, or one was made and died before it was recorded.
AuditTellsStory ==
    LET From(i) == IF i = 1 THEN "ACTIVE" ELSE trail[i - 1].after IN
    tangled \/ /\ \A i \in DOMAIN trail : trail[i].before = From(i)
               /\ Changing = {} => userStatus = From(Len(trail) + 1)
=============================================================================
