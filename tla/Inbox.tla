--------------------------------- MODULE Inbox ---------------------------------
(***************************************************************************)
(* One member's inbox: the row that says what was viewed and cleared, made *)
(* by whichever request comes first, and the list and the badge that are   *)
(* computed from it.  Every statement commits by itself, and a request     *)
(* takes the time before the statement that writes it.                     *)
(***************************************************************************)
EXTENDS Integers, FiniteSets

CONSTANTS
    Tabs,           \* requests of the member that can be in flight at once
    ReaderIsAdmin,        \* whether the member is an admin
    ListHours,      \* how far back a list goes: 168 hours if it does not say
    LastHour,       \* bound: the clock
    MaxRows         \* bound: notifications

ASSUME InboxConstants == ListHours \in Nat

VARIABLES
    hour,           \* the clock
    rows,           \* notifications: [created, audience]
    incoming,       \* created_at and audience of one about to be inserted
    shown, cleared,  \* last_viewed_at (0: no row yet) and cleared_at (0: never)
    tab,            \* [at, kind, stamp, shown, cleared]
    touched,        \* history: the row was written after it was made
    dismissRaced           \* history: two requests were about to write it at once

inboxVars == <<hour, rows, incoming, shown, cleared, tab, touched, dismissRaced>>

InboxRequests == {"read", "view", "clear"}
IdleTab == [at |-> "idle", kind |-> "read", stamp |-> 0, shown |-> 0, cleared |-> 0]
NoWatermark == 0
NoStamp == << >>

InboxInit ==
    /\ hour = 1 /\ rows = {} /\ incoming = NoStamp
    /\ shown = NoWatermark /\ cleared = 0
    /\ touched = FALSE /\ dismissRaced = FALSE
    /\ tab = [t \in Tabs |-> IdleTab]

\* create_notification: the time is taken before the insertion.
Compose(audience) ==
    /\ incoming = NoStamp /\ Cardinality(rows) < MaxRows
    /\ incoming' = <<hour, audience>>
    /\ UNCHANGED <<hour, rows, shown, cleared, tab, touched, dismissRaced>>

InsertRow ==
    /\ incoming # NoStamp
    /\ rows' = rows \union {[created |-> incoming[1], audience |-> incoming[2]]}
    /\ incoming' = NoStamp
    /\ UNCHANGED <<hour, shown, cleared, tab, touched, dismissRaced>>

-------------------------------------------------------------------------------
\* get_or_init_state: the look.
LookInState(t, kind) ==
    /\ tab[t].at = "idle"
    /\ tab' = [tab EXCEPT ![t] =
         [IdleTab EXCEPT !.kind = kind, !.shown = shown, !.cleared = cleared,
                         !.stamp = hour,
                         !.at = IF shown = NoWatermark THEN "absent" ELSE "known"]]
    /\ UNCHANGED <<hour, rows, incoming, shown, cleared, touched, dismissRaced>>

\* INSERT ... ON CONFLICT DO NOTHING.
InitState(t) ==
    /\ tab[t].at = "absent"
    /\ shown' = IF shown = NoWatermark THEN tab[t].stamp ELSE shown
    /\ tab' = [tab EXCEPT ![t].at = "made"]
    /\ UNCHANGED <<hour, rows, incoming, cleared, touched, dismissRaced>>

\* The read-back, which returns the winner's row.
ReadBack(t) ==
    /\ tab[t].at = "made"
    /\ tab' = [tab EXCEPT ![t].at = "known", ![t].shown = shown, ![t].cleared = cleared]
    /\ UNCHANGED <<hour, rows, incoming, shown, cleared, touched, dismissRaced>>

\* mark_viewed and clear_all take their own time once they have the row.
Stamp(t) ==
    /\ tab[t].at = "known" /\ tab[t].kind \in {"view", "clear"}
    /\ tab' = [tab EXCEPT ![t].at = "stamped", ![t].stamp = hour]
    /\ dismissRaced' = (dismissRaced \/ \E u \in Tabs : tab[u].at = "stamped")
    /\ UNCHANGED <<hour, rows, incoming, shown, cleared, touched>>

WriteState(t) ==
    /\ tab[t].at = "stamped"
    /\ shown' = tab[t].stamp
    /\ cleared' = IF tab[t].kind = "clear" THEN tab[t].stamp ELSE cleared
    /\ tab' = [tab EXCEPT ![t] = IdleTab]
    /\ touched' = TRUE
    /\ UNCHANGED <<hour, rows, incoming, dismissRaced>>

\* list_notifications and unread_count answer from what they read.
Show(t) ==
    /\ tab[t].at = "known" /\ tab[t].kind = "read"
    /\ tab' = [tab EXCEPT ![t] = IdleTab]
    /\ UNCHANGED <<hour, rows, incoming, shown, cleared, touched, dismissRaced>>

PassHour ==
    /\ hour < LastHour
    /\ hour' = hour + 1
    /\ UNCHANGED <<rows, incoming, shown, cleared, tab, touched, dismissRaced>>

InboxNext ==
    \/ \E audience \in {"all", "admin"} : Compose(audience)
    \/ InsertRow \/ PassHour
    \/ \E t \in Tabs : \/ \E kind \in InboxRequests : LookInState(t, kind)
                       \/ InitState(t) \/ ReadBack(t) \/ Stamp(t) \/ WriteState(t) \/ Show(t)

InboxSpec == InboxInit /\ [][InboxNext]_inboxVars

-------------------------------------------------------------------------------
\* audience_sql.
Visible(n) == ReaderIsAdmin \/ n.audience = "all"

\* What a list goes through, page by page, what it shows as unread, and what the
\* badge counts, from a read row.  Only the list has a window.
Recent(n) == n.created >= hour - ListHours
Listed(c) == {n \in rows : Visible(n) /\ Recent(n) /\ (c # 0 => n.created > c)}
Unread(s, c) == {n \in Listed(c) : n.created > s}
Badge(s) == {n \in rows : Visible(n) /\ n.created > s}

\* First requests that race to make the row agree on it: whoever lost the race
\* answers by the winner's row, until the row is written again.
FirstLoadsAgree ==
    \A t \in Tabs : (tab[t].at = "known" /\ ~touched) => tab[t].shown = shown

\* What the list shows as new is what the badge counts, within the list's window:
\* the badge goes on counting what is older and was not viewed.  It counts nothing
\* that was cleared, as long as no two requests write the row at the same time.
BadgeMatchesList ==
    ~dismissRaced =>
        /\ Unread(shown, cleared) = {n \in Badge(shown) : Recent(n)}
        /\ cleared # 0 => \A n \in Badge(shown) : n.created > cleared

===============================================================================
