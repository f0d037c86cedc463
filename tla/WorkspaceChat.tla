---------------------------- MODULE WorkspaceChat ----------------------------
(***************************************************************************)
(* The dashboard's workspace chat: one turn, from the form to the answer.  *)
(* The turn is prepared from the stored provider, a credential is resolved *)
(* from a second read, the provider is asked once, and a streamed answer   *)
(* runs through a reader task, a bounded channel and the bridge to the     *)
(* dashboard.                                                              *)
(*                                                                         *)
(* A frame is what the provider sends; Delta says what the extraction of   *)
(* its protocol makes of it.  Texts are numbered in the order they are     *)
(* sent, so that a lost, repeated or reordered text shows.                 *)
(***************************************************************************)
EXTENDS Naturals, Sequences, FiniteSets

CONSTANTS MaxReplyTexts,  \* MAX_STREAMED_REPLY_BYTES, in texts, and in thoughts
          PipeSize,       \* STREAM_CHANNEL_CAPACITY
          MaxUpFrames     \* bound: frames the provider sends

ASSUME ChatAssumption == {MaxReplyTexts, PipeSize} \subseteq Nat \ {0} /\ MaxUpFrames \in Nat

VARIABLES chat,      \* the turn: its stage and its form
          source,    \* the stored provider
          upstream,  \* the provider's side of the stream
          pump,      \* the reader task
          pipe,      \* the channel from the reader to the bridge
          screen     \* what the dashboard received, and whether it is still there

chatVars == <<chat, source, upstream, pump, pipe, screen>>

Protocols == {"chat", "responses", "messages", "google"}
Sources   == {"ready", "unready", "gone"}   \* unready: disabled, deleting or without the model

NoPump == [step |-> "none", buffer |-> <<>>, texts |-> 0, thoughts |-> 0, terminal |-> FALSE,
           failed |-> FALSE, paused |-> FALSE]

ChatInit ==
    /\ chat = [stage |-> "form", protocol |-> "chat", streamed |-> TRUE]
    /\ source \in [row : Sources, usable : BOOLEAN]
    /\ upstream = [state |-> "none", sent |-> <<>>]
    /\ pump = NoPump /\ pipe = <<>>
    /\ screen = [got |-> <<>>, open |-> TRUE]

---------------------------------------------------------------------------
(* Before the stream: failures are plain answers. *)

AtStage(stage) == chat.stage = stage
ToStage(stage) == chat' = [chat EXCEPT !.stage = stage]

\* The parts of the form that are parsed, each of which may be refused.
FormParts == {"target", "text", "options", "history", "attachments"}

\* The stored provider is there, enabled, not being deleted, and has the model.
TargetLoaded == source.row = "ready"

\* The form is parsed, the provider and the model are read, the protocol is
\* resolved and the request encoded.
PrepareTurn(refused, protocol, streamed) ==
    /\ AtStage("form")
    /\ chat' = [chat EXCEPT !.protocol = protocol, !.streamed = streamed,
                            !.stage = IF refused = {} /\ TargetLoaded THEN "prepared" ELSE "refused"]
    /\ UNCHANGED <<source, upstream, pump, pipe, screen>>

\* The provider is read again for its credential, the first usable one of
\* its order or its own secret; only an absent provider is an error now.
ResolveTurn ==
    /\ AtStage("prepared")
    /\ ToStage(IF source.row # "gone" /\ source.usable THEN "resolved" ELSE "refused")
    /\ UNCHANGED <<source, upstream, pump, pipe, screen>>

\* The one attempt of a turn that is not streamed: the whole body is the
\* answer, and a failure to send or an error status is the refusal.
RelayOnce(accepted) ==
    /\ AtStage("resolved") /\ ~chat.streamed
    /\ ToStage(IF accepted THEN "answered" ELSE "refused")
    /\ UNCHANGED <<source, upstream, pump, pipe, screen>>

\* The one attempt of a streamed turn: a failure to send, an error status or
\* an answer that is not an event stream ends it; otherwise the reader starts.
OpenStream(accepted) ==
    /\ AtStage("resolved") /\ chat.streamed
    /\ IF accepted
       THEN /\ ToStage("streaming")
            /\ upstream' = [upstream EXCEPT !.state = "open"]
            /\ pump' = [NoPump EXCEPT !.step = "reading"]
       ELSE ToStage("refused") /\ UNCHANGED <<upstream, pump>>
    /\ UNCHANGED <<source, pipe, screen>>

\* Another administrator changes the provider meanwhile.
ChangeSource(row) ==
    /\ chat.stage \in {"form", "prepared"} /\ source.row # row
    /\ source' = [source EXCEPT !.row = row]
    /\ UNCHANGED <<chat, upstream, pump, pipe, screen>>

---------------------------------------------------------------------------
(* What the provider sends, and what the extraction makes of it. *)

\* "last" ends the answer and has text of its own, as the last chunk of a
\* Google stream has; "marker" is [DONE]; "broken" is not JSON; "other" is
\* an event the extraction does not know.
FramesOf(protocol) ==
    {"text", "end", "broken", "other"}
        \cup (IF protocol \in {"chat", "google"} THEN {"last"} ELSE {"thought"})
        \cup (IF protocol = "chat" THEN {"marker"} ELSE {})
        \cup (IF protocol = "responses" THEN {"failed"} ELSE {})
        \cup (IF protocol = "messages" THEN {"usage"} ELSE {})

Says(kind) == kind \in {"text", "last"}
Concludes(kind) == kind \in {"end", "last", "marker", "failed"}

\* chat_completions_delta and google_delta look for the finish reason first,
\* so a frame with both ends the turn and its text is not extracted.
Delta(kind) ==
    CASE kind = "text" -> "text" [] kind = "thought" -> "reasoning"
      [] Concludes(kind) -> "terminal" [] OTHER -> "none"

\* The provider writes one more frame; a chunk is one frame or more, so the
\* reader may find several.
Provide(kind) ==
    /\ upstream.state = "open" /\ Len(upstream.sent) < MaxUpFrames
    /\ kind \in FramesOf(chat.protocol)
    /\ upstream' = [upstream EXCEPT !.sent = Append(@, kind)]
    /\ pump' = [pump EXCEPT !.buffer = Append(@, [kind |-> kind, no |-> Len(upstream.sent) + 1]),
                            !.paused = FALSE]
    /\ UNCHANGED <<chat, source, pipe, screen>>

---------------------------------------------------------------------------
(* The reader task. *)

Reading == pump.step = "reading"

\* The loop is left: the buffer and the connection are dropped.
StopReading(failed) ==
    /\ pump' = [pump EXCEPT !.step = "ending", !.failed = failed, !.buffer = <<>>]
    /\ upstream' = [upstream EXCEPT !.state = "released"]

\* append_delta: the texts and the thoughts are limited apart.
Overflows(out) ==
    \/ out = "text" /\ pump.texts = MaxReplyTexts
    \/ out = "reasoning" /\ pump.thoughts = MaxReplyTexts

\* `send` waits for room in the channel; once the bridge is dropped it fails
\* at once, and the reader goes on.
Room == screen.open => Len(pipe) < PipeSize
Sent(event) == pipe' = IF screen.open THEN Append(pipe, event) ELSE pipe

\* One frame of the buffer; a frame over a limit or without a meaning ends
\* the reading.  After [DONE] the rest waits for the next chunk.
DrainFrames ==
    /\ Reading /\ pump.buffer # <<>> /\ ~pump.paused
    /\ LET f    == Head(pump.buffer)
           rest == [pump EXCEPT !.buffer = Tail(@), !.paused = f.kind = "marker"]
           out  == Delta(f.kind)
       IN \/ /\ f.kind = "broken" \/ Overflows(out)
             /\ StopReading(TRUE) /\ UNCHANGED pipe
          \/ /\ out = "text" /\ ~Overflows(out) /\ Room
             /\ pump' = [rest EXCEPT !.texts = @ + 1]
             /\ Sent([kind |-> "text", no |-> f.no])
             /\ UNCHANGED upstream
          \/ /\ out = "reasoning" /\ ~Overflows(out) /\ Room
             /\ pump' = [rest EXCEPT !.thoughts = @ + 1]
             /\ Sent([kind |-> "reasoning", no |-> f.no])
             /\ UNCHANGED upstream
          \/ /\ f.kind # "broken" /\ out \in {"terminal", "none"}
             /\ pump' = [rest EXCEPT !.terminal = @ \/ out = "terminal"]
             /\ UNCHANGED <<upstream, pipe>>
    /\ UNCHANGED <<chat, source, screen>>

AwaitsChunk == Reading /\ (pump.buffer = <<>> \/ pump.paused)

\* The body ends.
BodyOver ==
    /\ AwaitsChunk /\ StopReading(FALSE)
    /\ UNCHANGED <<chat, source, pipe, screen>>

\* Mutant: the deadlines are armed by the first chunk.
InterruptedOnceStarted ==
    /\ AwaitsChunk /\ upstream.sent # <<>> /\ StopReading(TRUE)
    /\ UNCHANGED <<chat, source, pipe, screen>>

\* A transport error, the idle or the total deadline, or a frame without an
\* end: noticed only while the reader waits for the next chunk.
Interrupted ==
    /\ AwaitsChunk /\ StopReading(TRUE)
    /\ UNCHANGED <<chat, source, pipe, screen>>

VerdictOf == IF pump.terminal THEN "done" ELSE "error"

\* The last event is sent.
ReportEnd ==
    /\ pump.step = "ending" /\ Room /\ Sent([kind |-> VerdictOf, no |-> 0])
    /\ pump' = [NoPump EXCEPT !.step = "over"]
    /\ UNCHANGED <<chat, source, upstream, screen>>

---------------------------------------------------------------------------
(* The bridge and the dashboard. *)

\* The dashboard reads an event; the last one ends the response.
Show ==
    /\ screen.open /\ AtStage("streaming") /\ pipe # <<>>
    /\ screen' = [screen EXCEPT !.got = Append(@, Head(pipe))]
    /\ pipe' = Tail(pipe)
    /\ IF Head(pipe).kind \in {"done", "error"} THEN ToStage("ended") ELSE UNCHANGED chat
    /\ UNCHANGED <<source, upstream, pump>>

\* The bridge is dropped with the channel, and what was in it is lost.
Leaves(stage) ==
    /\ screen.open /\ AtStage("streaming")
    /\ screen' = [screen EXCEPT !.open = FALSE] /\ ToStage(stage) /\ pipe' = <<>>
    /\ UNCHANGED source

\* Mutant: the guard gives the reader up instead of aborting it.
DisconnectDetached == Leaves("left") /\ UNCHANGED <<upstream, pump>>

\* The dashboard goes away: the guard of the bridge aborts the reader, and
\* the provider's connection is closed.
Disconnect ==
    /\ Leaves("left")
    /\ pump' = [NoPump EXCEPT !.step = "over"]
    /\ upstream' = [upstream EXCEPT !.state = "released"]

\* The dashboard goes away before the bridge was first polled: there is no
\* guard yet, and the reader goes on without anybody to read for.
LeaveUnread == screen.got = <<>> /\ Leaves("unread") /\ UNCHANGED <<upstream, pump>>

ChatNext ==
    \/ \E bad \in SUBSET FormParts, streamed \in BOOLEAN, p \in Protocols : PrepareTurn(bad, p, streamed)
    \/ ResolveTurn \/ (\E ok \in BOOLEAN : RelayOnce(ok) \/ OpenStream(ok))
    \/ \E row \in Sources : ChangeSource(row)
    \/ \E kind \in FramesOf(chat.protocol) : Provide(kind)
    \/ DrainFrames \/ BodyOver \/ Interrupted \/ ReportEnd \/ Show \/ Disconnect
    \/ LeaveUnread

\* The runtime polls the reader and its deadlines fire; a dashboard reads
\* what it is sent or goes away.
ChatFairness == /\ WF_chatVars(DrainFrames) /\ WF_chatVars(Interrupted)
                /\ WF_chatVars(ReportEnd) /\ WF_chatVars(Show)

ChatSpec == ChatInit /\ [][ChatNext]_chatVars /\ ChatFairness

---------------------------------------------------------------------------

\* The places of the outcome among the events the dashboard received.
Verdicts == {n \in 1 .. Len(screen.got) : screen.got[n].kind \in {"done", "error"}}

\* The dashboard is told the outcome of a streamed turn once, as its last
\* event, and gets the texts in the order in which the provider sent them.
OneOrderlyAnswer ==
    /\ \A n \in Verdicts : n = Len(screen.got)
    /\ \A i, j \in 1 .. Len(screen.got) :
         (i < j /\ j \notin Verdicts) => screen.got[i].no < screen.got[j].no

\* The provider ended its answer, within the limits of the reply and of the
\* reasoning and before it sent anything that is no frame.
AnswerEnded ==
    \E i \in 1 .. Len(upstream.sent) :
        /\ Concludes(upstream.sent[i])
        /\ \A k \in 1 .. i : upstream.sent[k] # "broken"
        /\ \A kind \in {"text", "thought"} :
              Cardinality({k \in 1 .. i : upstream.sent[k] = kind}) <= MaxReplyTexts

\* A failure after the provider ended the answer is no failure of the turn,
\* and an answer the provider never ended is no success: the comment in
\* pump_upstream_stream, for every place the failure can happen at.
VerdictEarned == \A n \in Verdicts : screen.got[n].kind = "done" <=> AnswerEnded

\* The connection to the provider is held by a reader, and by one that reads
\* for a dashboard; only a dashboard that left before it was sent anything
\* leaves a reader behind.
ConnectionOwned ==
    upstream.state = "open" => /\ Reading
                               /\ screen.open \/ (AtStage("unread") /\ screen.got = <<>>)

\* Every streamed turn ends: the provider's connection is given back, and
\* the dashboard is told the outcome unless it went away.
TurnConcludes ==
    AtStage("streaming") ~> (upstream.state = "released" /\ chat.stage \in {"ended", "left", "unread"})

\* "The reply is complete" when a turn is reported as done: every text the
\* provider sent up to the end of its answer was shown.
ReplyComplete ==
    (\E n \in Verdicts : screen.got[n].kind = "done") =>
        \A i \in 1 .. Len(upstream.sent) :
            (Says(upstream.sent[i]) /\ \A k \in 1 .. i - 1 : ~Concludes(upstream.sent[k]))
                => \E e \in 1 .. Len(screen.got) : screen.got[e] = [kind |-> "text", no |-> i]

\* A chat turn shows one answer, its texts in order, calls it done only if
\* the provider ended it, and reads for nobody who was shown a part of it.
ChatSound ==
    /\ OneOrderlyAnswer
    /\ VerdictEarned
    /\ ConnectionOwned
=============================================================================
