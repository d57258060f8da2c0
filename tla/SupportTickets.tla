---------------------------- MODULE SupportTickets ----------------------------
(***************************************************************************)
(* A customer's support page and the agent's tab of the admin page, on the *)
(* same tickets.  Both load the thread of the ticket they select and       *)
(* neither hears of what the other does; the server reads a ticket and     *)
(* writes it back without a lock.  The list of tickets and its filters are *)
(* left out (every ticket can be selected), and the agent's notes.  An     *)
(* agent's call and what it does are one step, the reload's answer another.*)
(***************************************************************************)
EXTENDS Naturals, FiniteSets

CONSTANTS None, Tickets, MaxMessages, MaxSelected, MaxAgent, MaxLost

VARIABLES
  status, thread,                                \* server: per ticket, its replies
  selectedId, detail, detailLoading, views,      \* page: the ticket, its loads under way
  showCreate, creating, created,                 \* page: the form, the ticket it made
  sending, posting,                              \* page: a reply under way
  agentSelected, agentDetail, agentViews,        \* the agent's tab
  selects, written, acts, lost,                  \* history: counters,
  unanswered, adrift                             \* customers who wait; loads that overlapped

serverVars == <<status, thread>>
detailVars == <<selectedId, detail, detailLoading, views>>
createVars == <<showCreate, creating, created>>
replyVars == <<sending, posting>>
agentVars == <<agentSelected, agentDetail, agentViews>>
vars == <<serverVars, detailVars, createVars, replyVars, agentVars, selects, written, acts, lost,
          unanswered, adrift>>

Statuses == {"open", "in_progress", "resolved", "closed"}
Existing == {t \in Tickets : status[t] # None}
Details == [id : Tickets, status : Statuses, messages : SUBSET (1..MaxMessages)]
Views == [n : 1..MaxSelected, id : Tickets, got : Details \cup {None}]
AgentViews == [n : 1..MaxAgent, id : Tickets]

TypeOK ==
  /\ status \in [Tickets -> Statuses \cup {None}]
  /\ thread \in [Tickets -> SUBSET (1..MaxMessages)]
  /\ {selectedId, agentSelected, created} \subseteq Tickets \cup {None}
  /\ detail \in Details \cup {None}
  /\ agentDetail \in [id : Tickets, status : Statuses] \cup {None}
  /\ views \subseteq Views /\ agentViews \subseteq AgentViews
  /\ {detailLoading, showCreate, creating, sending, adrift} \subseteq BOOLEAN
  /\ unanswered \subseteq Tickets
  /\ posting = None \/ (posting.id \in Tickets /\ posting.seen \in Statuses \cup {None})
  /\ selects \in 0..MaxSelected /\ written \in 0..MaxMessages
  /\ acts \in 0..MaxAgent /\ lost \in 0..MaxLost

Init ==
  /\ status \in [Tickets -> {"open", None}] /\ Existing # {} /\ thread = [t \in Tickets |-> {}]
  /\ selectedId = None /\ detail = None /\ detailLoading = FALSE /\ views = {}
  /\ showCreate = FALSE /\ creating = FALSE /\ created = None /\ sending = FALSE /\ posting = None
  /\ agentSelected = None /\ agentDetail = None /\ agentViews = {}
  /\ selects = 0 /\ written = 0 /\ acts = 0 /\ lost = 0 /\ unanswered = {} /\ adrift = FALSE

-----------------------------------------------------------------------------
\* The customer's page: the thread of the ticket selected.

selectTicket(t) ==
  /\ selects < MaxSelected
  /\ selectedId' = t /\ detailLoading' = TRUE
  /\ views' = views \cup {[n |-> selects + 1, id |-> t, got |-> None]}
  /\ selects' = selects + 1
  /\ adrift' = (adrift \/ views # {} \/ posting # None)
  /\ UNCHANGED <<serverVars, detail, replyVars, agentVars, written, acts, lost, unanswered>>

Row(t) == t \in Existing /\ selectTicket(t) /\ UNCHANGED createVars

get_ticket(t) == [id |-> t, status |-> status[t], messages |-> thread[t]]

Read(v) ==
  /\ v \in views /\ v.got = None
  /\ views' = (views \ {v}) \cup {[v EXCEPT !.got = get_ticket(v.id)]}
  /\ UNCHANGED <<serverVars, selectedId, detail, detailLoading, createVars, replyVars, agentVars,
                 selects, written, acts, lost, unanswered, adrift>>

Shown(v) ==
  /\ v \in views /\ v.got # None
  /\ detail' = v.got /\ detailLoading' = FALSE /\ views' = views \ {v}
  /\ UNCHANGED <<serverVars, selectedId, createVars, replyVars, agentVars, selects, written, acts,
                 lost, unanswered, adrift>>

\* The thread shown before comes back on screen.
NotShown(v) ==
  /\ v \in views /\ lost < MaxLost
  /\ detailLoading' = FALSE /\ views' = views \ {v}
  /\ lost' = lost + 1 /\ adrift' = TRUE
  /\ UNCHANGED <<serverVars, selectedId, detail, createVars, replyVars, agentVars, selects,
                 written, acts, unanswered>>

\* What the right half of the page shows: a hint, a spinner or the thread.
ThreadPanel == IF selectedId = None \/ detailLoading THEN None ELSE detail

-----------------------------------------------------------------------------
\* A new ticket, selected when the server's answer comes.

ToggleCreate ==
  /\ showCreate' = ~showCreate
  /\ UNCHANGED <<serverVars, detailVars, creating, created, replyVars, agentVars, selects,
                 written, acts, lost, unanswered, adrift>>

CreateForm == showCreate /\ ~creating
handleCreate(t) ==
  /\ CreateForm /\ t \notin Existing
  /\ creating' = TRUE /\ created' = t /\ status' = [status EXCEPT ![t] = "open"]
  /\ UNCHANGED <<thread, detailVars, showCreate, replyVars, agentVars, selects, written, acts,
                 lost, unanswered, adrift>>

Created ==
  /\ creating
  /\ showCreate' = FALSE /\ creating' = FALSE /\ created' = None
  /\ selectTicket(created)

NotCreated ==
  /\ creating /\ lost < MaxLost
  /\ creating' = FALSE /\ created' = None /\ lost' = lost + 1
  /\ UNCHANGED <<serverVars, detailVars, showCreate, replyVars, agentVars, selects, written, acts,
                 unanswered, adrift>>

-----------------------------------------------------------------------------
\* A reply, to the ticket selected, from the box under the thread shown.

ReplyBox == ThreadPanel # None /\ ThreadPanel.status # "closed" /\ ~sending
handleReply ==
  /\ ReplyBox /\ written < MaxMessages
  /\ sending' = TRUE /\ written' = written + 1
  /\ posting' = [id |-> selectedId, n |-> written', shown |-> ThreadPanel.id, overlap |-> adrift,
                 seen |-> None, raced |-> FALSE, said |-> None]
  /\ UNCHANGED <<serverVars, detailVars, createVars, agentVars, selects, acts, lost, unanswered,
                 adrift>>

\* The server looks at the ticket, and commits what it makes of it.
CheckTicket ==
  /\ posting # None /\ posting.seen = None
  /\ posting' = [posting EXCEPT !.seen = status[posting.id],
                                !.said = IF status[posting.id] = "closed" THEN "error" ELSE None]
  /\ UNCHANGED <<serverVars, detailVars, createVars, sending, agentVars, selects, written, acts,
                 lost, unanswered, adrift>>

\* A variant: a reply reopens nothing.
Unchanged(seen, now) == now

Reopened(seen, now) == IF seen = "resolved" THEN "open" ELSE now
add_message ==
  /\ posting # None /\ posting.seen # None /\ posting.said = None
  /\ status' = [status EXCEPT ![posting.id] = Reopened(posting.seen, @)]
  /\ thread' = [thread EXCEPT ![posting.id] = @ \cup {posting.n}]
  /\ posting' = [posting EXCEPT !.said = "ok"]
  /\ unanswered' = IF posting.raced THEN unanswered ELSE unanswered \cup {posting.id}
  /\ UNCHANGED <<detailVars, createVars, sending, agentVars, selects, written, acts, lost, adrift>>

\* The message is added to whatever thread the page holds by then.
Replied ==
  /\ posting # None /\ posting.said = "ok"
  /\ detail' = IF detail = None THEN None
               ELSE [detail EXCEPT !.messages = @ \cup {posting.n}]
  /\ sending' = FALSE /\ posting' = None
  /\ UNCHANGED <<serverVars, selectedId, detailLoading, views, createVars, agentVars, selects,
                 written, acts, lost, unanswered, adrift>>

\* Refused, or its answer is lost.
NotReplied ==
  /\ posting # None /\ (posting.said = "error" \/ (posting.said = "ok" /\ lost < MaxLost))
  /\ sending' = FALSE /\ posting' = None
  /\ lost' = IF posting.said = "ok" THEN lost + 1 ELSE lost
  /\ UNCHANGED <<serverVars, detailVars, createVars, agentVars, selects, written, acts, unanswered,
                 adrift>>

-----------------------------------------------------------------------------
\* The agent: the thread shown is the last one that came, with no spinner; what the
\* agent does goes to the ticket selected, and reloads it.

AgentLoads(t) == agentViews' = agentViews \cup {[n |-> acts + 1, id |-> t]}

AgentSelects(t) ==
  /\ t \in Existing /\ acts < MaxAgent
  /\ agentSelected' = t /\ AgentLoads(t) /\ acts' = acts + 1
  /\ UNCHANGED <<serverVars, detailVars, createVars, replyVars, agentDetail, selects, written,
                 lost, unanswered, adrift>>

AgentShown(v) ==
  /\ v \in agentViews
  /\ agentDetail' = [id |-> v.id, status |-> status[v.id]] /\ agentViews' = agentViews \ {v}
  /\ UNCHANGED <<serverVars, detailVars, createVars, replyVars, agentSelected, selects, written,
                 acts, lost, unanswered, adrift>>

AgentPanel == agentDetail # None
AgentActs ==
  /\ AgentPanel /\ acts < MaxAgent
  /\ AgentLoads(agentSelected) /\ acts' = acts + 1
  /\ unanswered' = unanswered \ {agentSelected}
  /\ posting' = IF posting # None /\ posting.id = agentSelected /\ posting.seen # None
                THEN [posting EXCEPT !.raced = TRUE] ELSE posting
  /\ UNCHANGED <<detailVars, createVars, sending, agentSelected, agentDetail, selects, lost, adrift>>

handleStatusChange(s) ==
  /\ AgentActs /\ s # agentDetail.status
  /\ status' = [status EXCEPT ![agentSelected] = s]
  /\ UNCHANGED <<thread, written>>

admin_reply ==
  /\ AgentActs /\ written < MaxMessages
  /\ status' = [status EXCEPT ![agentSelected] = IF @ = "open" THEN "in_progress" ELSE @]
  /\ written' = written + 1 /\ thread' = [thread EXCEPT ![agentSelected] = @ \cup {written'}]

-----------------------------------------------------------------------------
Next ==
  \/ (\E t \in Tickets : Row(t)) \/ (\E v \in views : Read(v)) \/ (\E v \in views : Shown(v))
  \/ (\E v \in views : NotShown(v)) \/ ToggleCreate \/ (\E t \in Tickets : handleCreate(t))
  \/ Created \/ NotCreated \/ handleReply \/ CheckTicket \/ add_message \/ Replied \/ NotReplied
  \/ (\E t \in Tickets : AgentSelects(t))
  \/ (\E v \in agentViews : AgentShown(v)) \/ (\E s \in Statuses : handleStatusChange(s))
  \/ admin_reply

Spec == Init /\ [][Next]_vars

-----------------------------------------------------------------------------
\* A customer's reply goes to the ticket whose thread they read when they sent it,
\* unless their loads overlapped or one failed.
ReplyGoesToShown == posting # None /\ ~posting.overlap => posting.id = posting.shown

\* A customer who replied, and whom no agent has answered since, waits on a ticket
\* that is open, whoever resolved or closed it before; unless the agent acted between
\* the server's look at the ticket and its commit.
WaitsOnOpen == \A t \in unanswered : status[t] \in {"open", "in_progress"}

\* The thread a customer reads is of the ticket selected and holds its messages only,
\* with the same exceptions.
ThreadOfSelected ==
  ThreadPanel # None /\ ~adrift =>
    /\ ThreadPanel.id = selectedId
    /\ ThreadPanel.messages \subseteq thread[selectedId]

\* Why: until loads overlap or one fails, at most one is under way, for the ticket
\* selected, and a reply under way is to the ticket whose thread is on screen,
ThreadInv ==
  ~adrift =>
    /\ \A v \in views :
         /\ v.id = selectedId /\ \A w \in views : v = w
         /\ v.got # None => v.got.id = v.id /\ v.got.messages \subseteq thread[v.id]
    /\ detailLoading <=> views # {}
    /\ ~detailLoading /\ detail # None =>
         /\ selectedId \in Tickets /\ detail.id = selectedId
         /\ detail.messages \subseteq thread[selectedId]
    /\ posting # None => posting.id = selectedId /\ ~detailLoading

\* and between the server's look at a ticket and its commit only an agent changes it.
ReplyInv ==
  posting # None =>
    /\ posting.said = "ok" => posting.n \in thread[posting.id]
    /\ posting.seen = "closed" => posting.said = "error"
    /\ posting.seen # None /\ posting.said = None /\ ~posting.raced =>
         status[posting.id] = posting.seen
=============================================================================
