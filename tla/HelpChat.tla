------------------------------- MODULE HelpChat -------------------------------
(***************************************************************************)
(* The help chat: one question at a time, its answer streamed into the     *)
(* last message, a conversation that can be cleared and rated while the    *)
(* answer is still coming.                                                 *)
(***************************************************************************)
EXTENDS Naturals, Sequences, SequencesExt, FiniteSets

CONSTANTS None, MaxQuestions, MaxClears, MaxRatings

VARIABLES
  isOpen, messages, isStreaming, sessionId, stored,  \* the chat, and sessionStorage
  stream, assistantText,                             \* the answer being streamed
  questions, asked, cleared, ratings                 \* history: asked since the last clear

chatVars == <<isOpen, messages, isStreaming, sessionId, stored>>
streamVars == <<stream, assistantText>>
historyVars == <<questions, asked, cleared, ratings>>
vars == <<chatVars, streamVars, historyVars>>

Questions == 1..MaxQuestions
Contents == {"", "text", "error"}
Stages == {"asked", "open", "done"}
\* A message of the user, or an answer to the question it was asked for.
Messages == [role : {"user", "assistant"}, q : Questions, content : Contents,
             feedback : {"up", "down", None}]
\* The identifier of a conversation: the server's, or one that clearChat makes up.
Sessions == {"server", "fresh"}

TypeOK ==
  /\ messages \in Seq(Messages) /\ {isOpen, isStreaming} \subseteq BOOLEAN
  /\ {sessionId, stored} \subseteq Sessions \cup {None}
  /\ stream \in [q : Questions, stage : Stages] \cup {None} /\ assistantText \in Contents
  /\ questions \in 0..MaxQuestions /\ asked \in Seq(Questions) /\ cleared \in 0..MaxClears /\ ratings \in 0..MaxRatings
  /\ Len(messages) <= 3 * MaxQuestions

Init ==
  /\ isOpen = FALSE /\ messages = <<>> /\ isStreaming = FALSE
  /\ stored \in {None, "server"} /\ sessionId = stored
  /\ stream = None /\ assistantText = ""
  /\ questions = 0 /\ asked = <<>> /\ cleared = 0 /\ ratings = 0

Message(role, q, content) == [role |-> role, q |-> q, content |-> content, feedback |-> None]

\* updated[updated.length - 1] = ...: of an empty list nothing is replaced.
Replaced(content) ==
  IF messages = <<>> THEN <<>>
  ELSE [messages EXCEPT ![Len(messages)] = Message("assistant", stream.q, content)]

ToggleOpen ==
  /\ isOpen' = ~isOpen
  /\ UNCHANGED <<messages, isStreaming, sessionId, stored, streamVars, historyVars>>

-----------------------------------------------------------------------------
\* The field, its button and the suggestions of an empty chat; the header's "clear".
ChatPanel == isOpen
InputForm == ChatPanel /\ ~isStreaming

\* handleSubmit, Enter, or a suggestion.
sendMessage(q) ==
  /\ InputForm
  /\ messages' = Append(messages, Message("user", q, "text")) /\ isStreaming' = TRUE
  /\ stream' = [q |-> q, stage |-> "asked"] /\ assistantText' = ""
  /\ UNCHANGED <<isOpen, sessionId, stored, cleared, ratings>>
  /\ q = questions + 1 /\ questions' = q
  /\ asked' = Append(asked, q)

\* The request is refused: its error is the answer.
Refused ==
  /\ stream # None /\ stream.stage = "asked"
  /\ messages' = Append(messages, Message("assistant", stream.q, "error"))
  /\ isStreaming' = FALSE /\ stream' = None
  /\ UNCHANGED <<isOpen, sessionId, stored, assistantText, historyVars>>

\* The body begins: an empty answer is put in place.
Responded ==
  /\ stream # None /\ stream.stage = "asked"
  /\ messages' = Append(messages, Message("assistant", stream.q, ""))
  /\ stream' = [stream EXCEPT !.stage = "open"]
  /\ UNCHANGED <<isOpen, isStreaming, sessionId, stored, assistantText, historyVars>>

SessionEvent ==
  /\ stream # None /\ stream.stage = "open"
  /\ sessionId' = "server" /\ stored' = "server"
  /\ UNCHANGED <<isOpen, messages, isStreaming, streamVars, historyVars>>

\* Events text, error and done: the whole text so far replaces the last message.
TextEvent(content, stage) ==
  /\ stream # None /\ stream.stage = "open"
  /\ assistantText' = content /\ messages' = Replaced(content)
  /\ stream' = [stream EXCEPT !.stage = stage]
  /\ UNCHANGED <<isOpen, isStreaming, sessionId, stored, historyVars>>

text == TextEvent("text", "open")
errorEvent == TextEvent("error", "open")
done == TextEvent(assistantText, "done")

\* The body ends, with or without the event done.
StreamEnded ==
  /\ stream # None /\ stream.stage \in {"open", "done"}
  /\ isStreaming' = FALSE /\ stream' = None
  /\ UNCHANGED <<isOpen, messages, sessionId, stored, assistantText, historyVars>>

\* A variant: the error always goes into the last message.
BrokenReplaces ==
  /\ stream # None
  /\ messages' = Replaced("error") /\ isStreaming' = FALSE /\ stream' = None
  /\ UNCHANGED <<isOpen, sessionId, stored, assistantText, historyVars>>

\* The connection breaks: an answer still empty becomes the error, else one is added.
Broken ==
  /\ stream # None
  /\ messages' = IF messages # <<>> /\ Last(messages).role = "assistant"
                      /\ Last(messages).content = ""
                   THEN Replaced("error")
                   ELSE Append(messages, Message("assistant", stream.q, "error"))
  /\ isStreaming' = FALSE /\ stream' = None
  /\ UNCHANGED <<isOpen, sessionId, stored, assistantText, historyVars>>

-----------------------------------------------------------------------------
\* Clearing does not stop the answer being streamed.
clearChat ==
  /\ ChatPanel /\ cleared < MaxClears
  /\ messages' = <<>>
  /\ sessionId' = "fresh" /\ stored' = "fresh"
  /\ UNCHANGED <<isOpen, isStreaming, streamVars, questions, ratings>>
  /\ asked' = <<>> /\ cleared' = cleared + 1

\* The thumbs under an answer that has begun.
MessageBubble(i) ==
  /\ ChatPanel /\ i \in DOMAIN messages
  /\ messages[i].role = "assistant" /\ messages[i].content # ""

sendFeedback(i, rating) ==
  /\ MessageBubble(i) /\ sessionId # None /\ ratings < MaxRatings
  /\ messages' = [messages EXCEPT ![i].feedback = rating]
  /\ UNCHANGED <<isOpen, isStreaming, sessionId, stored, streamVars, questions, asked, cleared>>
  /\ ratings' = ratings + 1

StreamStep == Refused \/ Responded \/ StreamEnded \/ Broken

Next ==
  \/ ToggleOpen \/ (\E q \in Questions : sendMessage(q))
  \/ Refused \/ Responded \/ SessionEvent \/ text \/ errorEvent \/ done \/ StreamEnded \/ Broken
  \/ clearChat \/ (\E i \in 1..(3 * MaxQuestions), r \in {"up", "down"} : sendFeedback(i, r))

Spec == Init /\ [][Next]_vars

\* The server answers or the connection breaks, and a body ends.
FairSpec == Spec /\ SF_vars(StreamStep)

-----------------------------------------------------------------------------
\* The chat shows every question asked since it was cleared, in order, though each
\* piece of an answer overwrites the last message and clearing does not stop it.
QuestionsKept ==
  \E at \in [DOMAIN asked -> DOMAIN messages] :
    /\ \A i, j \in DOMAIN asked : i < j => at[i] < at[j]
    /\ \A i \in DOMAIN asked : messages[at[i]] = Message("user", asked[i], "text")
    /\ \A k \in DOMAIN messages :
         messages[k].role = "user" => \E i \in DOMAIN asked : at[i] = k

\* An answer stands under the question it answers, and no answer of a cleared
\* conversation stands under a question of the next one.
AnswersFollow ==
  \A i \in DOMAIN messages :
    messages[i].role = "assistant" /\ i > 1 => messages[i - 1].q = messages[i].q

\* The input field is not disabled for ever.
StreamingEnds == isStreaming ~> ~isStreaming
=============================================================================
