----------------------------- MODULE Notifications -----------------------------
(***************************************************************************)
(* The bell in the navigation bar: the newest notifications, read every    *)
(* minute, and the two ways of marking them read, which the page applies   *)
(* to its own copy once the server has answered.  The server says when a   *)
(* notification was read (read_at); the hook looks at a field is_read that *)
(* only its own patches ever set.                                          *)
(***************************************************************************)
EXTENDS Naturals, FiniteSets

CONSTANTS None, LIMIT, MaxCreated, MaxInFlight, MaxLost

VARIABLES
  created, unread,              \* server: notifications so far, those not read
  shown, is_read, panel,        \* the bell: its list, those patched as read, the dropdown
  polls, marks,                 \* requests under way, by slot
  lost                          \* history

bellVars == <<shown, is_read, panel>>
vars == <<created, unread, bellVars, polls, marks, lost>>

Ids == 1..MaxCreated
Slots == 1..MaxInFlight
All == 0                        \* the request that marks every notification

\* asked: the server has not answered; done: its answer is on its way.
Polls == {None} \cup [step : {"asked", "done"}, got : SUBSET Ids]
Marks == {None} \cup [step : {"asked", "done"}, id : Ids \cup {All}]

TypeOK ==
  /\ created \in 0..MaxCreated /\ unread \subseteq 1..created
  /\ shown \subseteq 1..created /\ is_read \subseteq shown /\ panel \in BOOLEAN
  /\ polls \in [Slots -> Polls] /\ marks \in [Slots -> Marks] /\ lost \in 0..MaxLost

Init ==
  /\ created \in 0..1 /\ unread = 1..created
  /\ shown = {} /\ is_read = {} /\ panel = FALSE
  /\ polls = [[s \in Slots |-> None] EXCEPT ![1] = [step |-> "asked", got |-> {}]]
  /\ marks = [s \in Slots |-> None]
  /\ lost = 0

\* list_notifications: the newest LIMIT of them, read or not.
Newest == {n \in 1..created : n + LIMIT > created}
Free(slots) == {s \in Slots : slots[s] = None}

\* The number on the bell.
unreadCount == Cardinality(shown \ is_read)

-----------------------------------------------------------------------------
Notify ==
  /\ created < MaxCreated
  /\ created' = created + 1 /\ unread' = unread \cup {created + 1}
  /\ UNCHANGED <<bellVars, polls, marks, lost>>

Poll(s) ==
  /\ s \in Free(polls)
  /\ polls' = [polls EXCEPT ![s] = [step |-> "asked", got |-> {}]]
  /\ UNCHANGED <<created, unread, bellVars, marks, lost>>

list_notifications(s) ==
  /\ polls[s] # None /\ polls[s].step = "asked"
  /\ polls' = [polls EXCEPT ![s] = [step |-> "done", got |-> Newest]]
  /\ UNCHANGED <<created, unread, bellVars, marks, lost>>

\* The answer replaces the list; no item of it has the field the hook looks at.
refresh(s) ==
  /\ polls[s] # None /\ polls[s].step = "done"
  /\ shown' = polls[s].got /\ is_read' = {}
  /\ polls' = [polls EXCEPT ![s] = None]
  /\ UNCHANGED <<created, unread, panel, marks, lost>>

PollLost(s) ==
  /\ polls[s] # None /\ lost < MaxLost
  /\ polls' = [polls EXCEPT ![s] = None] /\ lost' = lost + 1
  /\ UNCHANGED <<created, unread, bellVars, marks>>

-----------------------------------------------------------------------------
\* The panel opens and closes with the bell, and on a click outside.
TogglePanel == /\ panel' = ~panel
               /\ UNCHANGED <<created, unread, shown, is_read, polls, marks, lost>>

\* A click on a notification, read or not; "Mark all read" while the bell counts any.
MarkAllButton == panel /\ unreadCount > 0
PanelRows == IF panel THEN shown ELSE {}
Click(s, id) ==
  /\ s \in Free(marks)
  /\ IF id = All THEN MarkAllButton ELSE id \in PanelRows
  /\ marks' = [marks EXCEPT ![s] = [step |-> "asked", id |-> id]]
  /\ UNCHANGED <<created, unread, bellVars, polls, lost>>

Marked(id) == IF id = All THEN Ids ELSE {id}

mark_read(s) ==
  /\ marks[s] # None /\ marks[s].step = "asked"
  /\ unread' = unread \ Marked(marks[s].id)
  /\ marks' = [marks EXCEPT ![s].step = "done"]
  /\ UNCHANGED <<created, bellVars, polls, lost>>

\* handleNotificationClick closes the panel once markRead has ended, either way.
AfterMark(s) ==
  /\ marks' = [marks EXCEPT ![s] = None]
  /\ panel' = (panel /\ marks[s].id = All)
  /\ UNCHANGED <<created, shown, polls>>

\* A variant: patches also what is not shown.
MarkReadBlindly(s) ==
  /\ marks[s] # None /\ marks[s].step = "done"
  /\ is_read' = is_read \cup Marked(marks[s].id)
  /\ AfterMark(s) /\ UNCHANGED <<unread, lost>>

markRead(s) ==
  /\ marks[s] # None /\ marks[s].step = "done"
  /\ is_read' = is_read \cup (shown \cap Marked(marks[s].id))
  /\ AfterMark(s) /\ UNCHANGED <<unread, lost>>

\* A request that fails, before or after the server acted, patches nothing.
MarkLost(s) ==
  /\ marks[s] # None /\ lost < MaxLost
  /\ AfterMark(s) /\ UNCHANGED <<unread, is_read>>
  /\ lost' = lost + 1

-----------------------------------------------------------------------------
Next ==
  \/ Notify \/ TogglePanel
  \/ (\E s \in Slots : Poll(s)) \/ (\E s \in Slots : list_notifications(s))
  \/ (\E s \in Slots : refresh(s)) \/ (\E s \in Slots : PollLost(s))
  \/ (\E s \in Slots, id \in Ids \cup {All} : Click(s, id))
  \/ (\E s \in Slots : mark_read(s)) \/ (\E s \in Slots : markRead(s))
  \/ (\E s \in Slots : MarkLost(s))

\* The interval ticks; a request that is not lost is answered.
Answer(s) == list_notifications(s) \/ refresh(s)
Fairness == \A s \in Slots : WF_vars(Poll(s)) /\ WF_vars(Answer(s))

FairSpec == Init /\ [][Next]_vars /\ Fairness

-----------------------------------------------------------------------------
\* A notification that came in while "Mark all read" was being answered is drawn as
\* read though nobody read it; the next poll brings it back: every notification
\* among the newest is counted by the bell sooner or later, unless it is read.
Missing(n) == n \in (unread \cap Newest) \ (shown \ is_read)
NothingMissed == \A n \in Ids : Missing(n) ~> ~Missing(n)
=============================================================================
