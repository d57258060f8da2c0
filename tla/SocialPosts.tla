---------------------------- MODULE SocialPosts -----------------------------
(***************************************************************************)
(* A listing's social page: one card per platform, ticked when its post is *)
(* out, for the event chosen above the cards.  The server keeps, per event *)
(* of the listing, the platforms posted to: it reads the list and writes   *)
(* it back without a lock.  A card's tick is its own: it knows neither the *)
(* event it was made for nor what the server has.  The captions, the clips *)
(* and the clipboard are left out.                                         *)
(***************************************************************************)
EXTENDS Sequences, Naturals, FiniteSets

CONSTANTS None, Events, Platforms, MaxTicks, MaxMounts, MaxLost

VARIABLES
  events, posted,                              \* server: newest event first, its platforms
  loading, shown, activeEvent, marked,         \* page
  calls,                                       \* page: ticks on their way
  mounts, sent, lost,                          \* history: counters,
  ticked, lossy                                \* ticks and their event; events whose calls
                                               \* overlapped or were lost

serverVars == <<events, posted>>
pageVars == <<loading, shown, activeEvent, marked>>
vars == <<serverVars, pageVars, calls, mounts, sent, lost, ticked, lossy>>

Known == {events[i] : i \in 1..Len(events)}
Newest(s) == IF s = <<>> THEN None ELSE Head(s)
Calls == [n : 1..MaxTicks, of : Events, on : Platforms, got : (SUBSET Platforms) \cup {None}]

TypeOK ==
  /\ {events, shown} \subseteq UNION {[1..n -> Events] : n \in 0..Cardinality(Events)}
  /\ posted \in [Events -> SUBSET Platforms] /\ marked \subseteq Platforms
  /\ activeEvent \in Events \cup {None} /\ loading \in BOOLEAN /\ calls \subseteq Calls
  /\ mounts \in 1..MaxMounts /\ sent \in 0..MaxTicks /\ lost \in 0..MaxLost
  /\ ticked \subseteq Events \X Platforms /\ lossy \subseteq Events

Init ==
  /\ events = <<>> /\ posted = [e \in Events |-> {}]
  /\ loading = TRUE /\ shown = <<>> /\ activeEvent = None /\ marked = {}
  /\ calls = {} /\ mounts = 1 /\ sent = 0 /\ lost = 0 /\ ticked = {} /\ lossy = {}

-----------------------------------------------------------------------------
\* Written by the pipeline's end or through the API, never from this page.
create_listing_event(e) ==
  /\ e \notin Known /\ events' = <<e>> \o events
  /\ UNCHANGED <<posted, pageVars, calls, mounts, sent, lost, ticked, lossy>>

Load ==
  /\ loading /\ loading' = FALSE
  /\ shown' = events /\ activeEvent' = Newest(events)
  /\ UNCHANGED <<serverVars, marked, calls, mounts, sent, lost, ticked, lossy>>

\* The page says there are no events yet.
NotLoaded ==
  /\ loading /\ lost < MaxLost
  /\ loading' = FALSE /\ lost' = lost + 1
  /\ UNCHANGED <<serverVars, shown, activeEvent, marked, calls, mounts, sent, ticked, lossy>>

\* The page is left and opened again: no tick comes back.
Mount ==
  /\ mounts < MaxMounts /\ mounts' = mounts + 1
  /\ loading' = TRUE /\ shown' = <<>> /\ activeEvent' = None /\ marked' = {}
  /\ UNCHANGED <<serverVars, calls, sent, lost, ticked, lossy>>

\* The ticks stay where they are.
setActiveEvent(i) ==
  /\ ~loading /\ activeEvent' = shown[i]
  /\ UNCHANGED <<serverVars, loading, shown, marked, calls, mounts, sent, lost, ticked, lossy>>

-----------------------------------------------------------------------------
Card == ~loading
EventOfTick == activeEvent
Sending(p) ==
  /\ calls' = calls \cup {[n |-> sent + 1, of |-> EventOfTick, on |-> p, got |-> None]}
  /\ sent' = sent + 1
  /\ ticked' = ticked \cup {<<activeEvent, p>>}
  /\ lossy' = lossy \cup {c.of : c \in {d \in calls : d.of = activeEvent}}

handleMarkPosted(p) ==
  /\ Card /\ p \notin marked /\ marked' = marked \cup {p}
  /\ IF activeEvent = None THEN UNCHANGED <<calls, sent, ticked, lossy>>
     ELSE sent < MaxTicks /\ Sending(p)
  /\ UNCHANGED <<serverVars, loading, shown, activeEvent, mounts, lost>>

\* Nothing is sent: the server keeps the platform.
untick(p) ==
  /\ Card /\ p \in marked /\ marked' = marked \ {p}
  /\ UNCHANGED <<serverVars, loading, shown, activeEvent, calls, mounts, sent, lost, ticked, lossy>>

\* The server reads the event's list,
ReadPosted(c) ==
  /\ c \in calls /\ c.got = None
  /\ calls' = (calls \ {c}) \cup {[c EXCEPT !.got = posted[c.of]]}
  /\ UNCHANGED <<serverVars, pageVars, mounts, sent, lost, ticked, lossy>>

\* and writes it back; what it answers is not looked at.
Appended(old, p) == old \cup {p}
mark_posted(c) ==
  /\ c \in calls /\ c.got # None
  /\ posted' = IF c.on \in c.got THEN posted ELSE [posted EXCEPT ![c.of] = Appended(c.got, c.on)]
  /\ calls' = calls \ {c}
  /\ UNCHANGED <<events, pageVars, mounts, sent, lost, ticked, lossy>>

\* Silent: the card stays ticked.
NotMarked(c) ==
  /\ c \in calls /\ lost < MaxLost
  /\ calls' = calls \ {c} /\ lost' = lost + 1 /\ lossy' = lossy \cup {c.of}
  /\ UNCHANGED <<serverVars, pageVars, mounts, sent, ticked>>

-----------------------------------------------------------------------------
Next ==
  \/ (\E e \in Events : create_listing_event(e)) \/ Load \/ NotLoaded \/ Mount
  \/ (\E i \in 1..Len(shown) : setActiveEvent(i))
  \/ (\E p \in Platforms : handleMarkPosted(p)) \/ (\E p \in Platforms : untick(p))
  \/ (\E c \in calls : ReadPosted(c)) \/ (\E c \in calls : mark_posted(c))
  \/ (\E c \in calls : NotMarked(c))

Spec == Init /\ [][Next]_vars

-----------------------------------------------------------------------------
\* A platform ticked for an event is recorded for it once its call has ended, across
\* other events, ticks taken back and pages left; unless two calls for that event
\* overlapped or one was lost.
TickIsRecorded ==
  \A t \in ticked :
    t[1] \in lossy \/ (\E c \in calls : c.of = t[1] /\ c.on = t[2]) \/ t[2] \in posted[t[1]]

\* What is recorded was ticked, for the event that was shown as chosen.
RecordedWasTicked == \A e \in Events : \A p \in posted[e] : <<e, p>> \in ticked

\* Why: a call carries a tick, what it read was ticked, and one that is alone on its event
\* writes back what the server has.
WasTicked(e, p) == <<e, p>> \in ticked
TickInv ==
  \A c \in calls :
    /\ WasTicked(c.of, c.on)
    /\ c.got # None => \A p \in c.got : WasTicked(c.of, p)
    /\ c.of \notin lossy => c.got \in {None, posted[c.of]} /\ \A d \in calls : d.of = c.of => d = c
=============================================================================
