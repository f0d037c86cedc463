------------------------- MODULE StreamTranslation -------------------------
(***************************************************************************)
(* One streamed answer on its way from the provider to the client          *)
(* (gateway/streaming): the preflight that holds the answer back until it  *)
(* has content, the reader that cuts the provider's bytes into SSE frames, *)
(* the frame handlers of the four upstream protocols, and the events they  *)
(* write for the three client protocols.                                   *)
(*                                                                         *)
(* A frame is a record of its kind and, where it has one, the index it     *)
(* addresses; the text and the arguments it carries are one unit long.     *)
(* What the client receives is kept as what a parser of its protocol makes *)
(* of it.  A frame whose delimiter has not arrived is the same as one that *)
(* has not been received, because the reader treats the end of the body as *)
(* a delimiter; keep-alive comments change nothing and are left out.       *)
(***************************************************************************)
EXTENDS Naturals, Sequences, FiniteSets, SequencesExt

CONSTANTS
  MaxFrames,      \* frames one answer may have
  Limit           \* units of sse_buffer_limit_bytes when it is set

ASSUME StreamBounds == MaxFrames \in Nat /\ Limit \in Nat \ {0}

VARIABLES
  route,      \* [up, client, limit]: StreamTranslationConfig; a limit of 0 is none
  stage,      \* preflight, open, closing, or how the stream ended
  prefix,     \* frames the preflight has read and chained before the body
  buffer,     \* frames received by the reader and not yet handled
  xlat,       \* TranslationState
  ending,     \* StreamTerminal of the loop, and what caused an error
  parsed,     \* what the client has made of the events sent to it
  supplied    \* the provider's side: frames left, whether it has finished, its
              \* blocks, and the texts and calls of it that were handled

svars == <<route, stage, prefix, buffer, xlat, ending, parsed, supplied>>

Upstreams == {"chat", "responses", "messages", "google"}
Clients == {"chat", "responses", "messages"}

F(k) == [k |-> k, i |-> 0]
FI(k, i) == [k |-> k, i |-> i]

\* The frames of a protocol.  "text" and "blank" carry text, "stext" is a
\* content_block_start that already has text, "stop", "limit" and "calls" end
\* the answer (finish_reason, stop_reason, finishReason, response.completed),
\* "done" is the sentinel that follows, "junk" is not JSON.
Common == {F("text"), F("blank"), F("error"), F("junk"), F("done"), F("stop")}
FramesOf(up) ==
  Common \cup
  CASE up = "chat" -> {F("think"), F("calls"), F("limit"), FI("call", 1), FI("call", 2), FI("legacy", 0)}
    [] up = "responses" -> {F("image"), F("limit"), F("bare"), FI("call", 1), FI("call", 2), FI("args", 1)}
    [] up = "messages" -> {F("calls"), F("stext"), F("mstop"), F("start"), FI("think", 3), FI("tdelta", 3),
                           FI("call", 1), FI("call", 2), FI("args", 1)} \cup {FI("close", i) : i \in 0..3}
    [] up = "google" -> {F("limit"), F("bad"), F("blocked"), FI("call", 1), FI("call", 2), FI("anon", 0)}

Finishes == {"stop", "calls", "limit", "bare"}

\* The client.  Blocks are the content blocks of a Messages client and the
\* output items of a Responses client; `misplaced` counts the events that open
\* a block twice or address one that is not open, `foreign` those written in
\* another protocol's shape.
NoClient == [starts |-> 0, open |-> {}, misplaced |-> 0, text |-> 0, thoughts |-> 0, calls |-> <<>>,
             foreign |-> 0, images |-> 0, errors |-> 0, final |-> <<>>, done |-> 0, late |-> 0]

E(e) == [e |-> e, i |-> 0, r |-> "-"]
EI(e, i) == [e |-> e, i |-> i, r |-> "-"]
ER(e, r) == [e |-> e, i |-> 0, r |-> r]

\* One event read by a parser of the client's protocol.
Parse(c, v) ==
  LET b == [c EXCEPT !.late = IF c.final # <<>> /\ v.e \notin {"done", "usage"} THEN @ + 1 ELSE @]
      at == v.i \in b.open IN
  CASE v.e = "start"  -> [b EXCEPT !.starts = @ + 1]
    [] v.e = "text"   -> [b EXCEPT !.text = @ + 1]
    [] v.e = "btext"  -> [b EXCEPT !.text = @ + 1, !.misplaced = IF at THEN @ ELSE @ + 1]
    [] v.e = "think"  -> [b EXCEPT !.thoughts = @ + 1]
    [] v.e = "chatthink" -> [b EXCEPT !.foreign = @ + 1]
    [] v.e = "call"   -> [b EXCEPT !.calls = Append(@, v.i)]
    [] v.e = "open"   -> [b EXCEPT !.open = @ \cup {v.i}, !.misplaced = IF at THEN @ + 1 ELSE @]
    [] v.e = "delta"  -> [b EXCEPT !.misplaced = IF at THEN @ ELSE @ + 1]
    [] v.e = "close"  -> [b EXCEPT !.open = @ \ {v.i}, !.misplaced = IF at THEN @ ELSE @ + 1]
    [] v.e = "image"  -> [b EXCEPT !.images = @ + 1]
    [] v.e = "error"  -> [b EXCEPT !.errors = @ + 1]
    [] v.e = "final"  -> [b EXCEPT !.final = Append(@, v.r)]
    [] v.e = "done"   -> [b EXCEPT !.done = @ + 1]
    [] OTHER          -> b

Read(c, events) == FoldLeft(Parse, c, events)

-----------------------------------------------------------------------------
(* The state of a translation and the passes every handler shares.         *)

NewState == [sent |-> FALSE, completed |-> FALSE, finish |-> FALSE, output |-> FALSE, reason |-> "stop",
             usage |-> FALSE, blocks |-> <<>>, open |-> {}, textStarted |-> FALSE, chatText |-> FALSE,
             gText |-> 0, gStarted |-> FALSE, calls |-> <<>>, items |-> {}, itemText |-> 0, forwarded |-> FALSE]

\* The result of a pass: the state, the events it wrote, and whether it failed.
Ok(s, ev) == [s |-> s, ev |-> ev, failed |-> FALSE]
Fail(s) == [s |-> s, ev |-> <<>>, failed |-> TRUE]
Then(r, Pass(_)) ==
  IF r.failed THEN r
  ELSE LET n == Pass(r.s) IN [n EXCEPT !.ev = r.ev \o @]

Over(n) == route.limit # 0 /\ n > route.limit

\* extract_stream_finish, extract_stream_usage (the usage comes with the finish)
\* and the terminal events of the Responses protocol.
ReasonOf(f) == CASE f.k = "limit" -> "length" [] f.k = "calls" -> "tool_calls" [] OTHER -> "stop"

HasUsage(f) == f.k \in Finishes
ResponsesTerminal(f) == route.up = "responses" /\ f.k \in Finishes
NoteUsage(s, f) == [s EXCEPT !.usage = @ \/ HasUsage(f)]

\* pre_pass.  The finish reason of Google is left to its handler; a terminal
\* Responses frame that lists calls ("stop" after calls) says so.
PrePass(s, f) ==
  IF route.up = "google" \/ f.k \notin Finishes THEN NoteUsage(s, f)
  ELSE [NoteUsage(s, f) EXCEPT
          !.finish = TRUE,
          !.reason = IF ResponsesTerminal(f) /\ f.k = "stop" /\ s.items # {} THEN "tool_calls" ELSE ReasonOf(f)]

\* ensure_messages_client_start and ensure_plain_start.
StartEvent == E("start")
MessagesStart(s) ==
  IF route.client = "messages" /\ ~s.sent THEN Ok([s EXCEPT !.sent = TRUE], <<StartEvent>>) ELSE Ok(s, <<>>)
PlainStart(s) ==
  IF route.client # "messages" /\ ~s.sent THEN Ok([s EXCEPT !.sent = TRUE], <<StartEvent>>) ELSE Ok(s, <<>>)

\* extract_stream_text: any text of the frame, white space included.
TextOf(f) == f.k \in {"text", "blank"}

\* encode_stream_text: a Messages client has its text in a block.
TextEvent(at) == IF route.client = "messages" THEN EI("btext", at) ELSE E("text")

\* text_branch, for every upstream but Messages, whose handler writes its own.
TextBranch(f, s) ==
  LET s1 == IF f.k = "text" THEN [s EXCEPT !.output = TRUE, !.chatText = TRUE] ELSE s
      s2 == IF route.up = "google" /\ route.client = "responses" THEN [s1 EXCEPT !.gText = @ + 1] ELSE s1
      start == PlainStart(s2)
      s3 == start.s
      google == route.up = "google" IN
  IF ~TextOf(f) THEN Ok(s, <<>>)
  ELSE IF Over(s2.gText) THEN Fail(s1)
  ELSE IF route.client # "messages" THEN Ok(s3, start.ev \o <<TextEvent(0)>>)
  ELSE IF (google /\ s3.gStarted) \/ (~google /\ s3.textStarted) THEN Ok(s3, <<TextEvent(0)>>)
  ELSE Ok(IF google THEN [s3 EXCEPT !.gStarted = TRUE]
          ELSE [s3 EXCEPT !.textStarted = TRUE, !.open = @ \cup {0}],
          <<EI("open", 0), TextEvent(0)>>)

\* encode_google_tool_call_events: n calls after `base` blocks.
CallEvents(n, base) ==
  LET One(j) == LET at == base + j - 1 IN
        CASE route.client = "chat" -> <<EI("call", j - 1)>>
          [] OTHER -> <<EI("call", at), EI("open", at), EI("delta", at), EI("close", at)>>
  IN FlattenSeq([j \in 1..n |-> One(j)])

Bool(b) == IF b THEN 1 ELSE 0

-----------------------------------------------------------------------------
(* The handlers of the four upstream protocols.                            *)

\* ChatStreamToolCallAccumulator::merge_delta: a call is found by its index, a
\* legacy function_call (index 0 here) by being the one without; arguments count
\* against the limit call by call.
MergeChatCall(f, s) ==
  LET known == {j \in DOMAIN s.calls : s.calls[j].i = f.i}
      at == CHOOSE j \in known : TRUE IN
  IF known = {} THEN Ok([s EXCEPT !.calls = Append(@, [i |-> f.i, n |-> 1])], <<>>)
  ELSE IF Over(s.calls[at].n + 1) THEN Fail(s)
  ELSE Ok([s EXCEPT !.calls[at].n = @ + 1], <<>>)

\* extract_chat_stream_tool_delta and the events of a reasoning and a tool delta,
\* both written in the shape of a Chat chunk.
ToolDelta(f) == f.k \in {"call", "legacy"}
ThoughtEvent == E(IF route.client = "chat" THEN "think" ELSE "chatthink")
ToolDeltaEvent(f, isNew) == IF isNew THEN EI("call", f.i) ELSE E("args")

HandleChat(f, s) ==
  LET merged == IF ToolDelta(f) THEN MergeChatCall(f, s) ELSE Ok(s, <<>>)
      Reasoning(t) ==
        IF f.k # "think" THEN Ok(t, <<>>)
        ELSE Then(PlainStart([t EXCEPT !.output = TRUE]),
                  LAMBDA u : Ok(u, <<ThoughtEvent>>))
      Forward(t) ==
        IF ~ToolDelta(f) THEN Ok(t, <<>>)
        ELSE IF route.client # "chat" THEN Ok([t EXCEPT !.output = TRUE], <<>>)
        ELSE Then(PlainStart([t EXCEPT !.output = TRUE]),
                  LAMBDA u : Ok(u, <<ToolDeltaEvent(f, Len(u.calls) > Len(s.calls))>>))
  IN IF f.k = "error" THEN Fail(s)
     ELSE Then(Then(Then(Then(merged, MessagesStart), Reasoning), LAMBDA t : TextBranch(f, t)), Forward)

\* Anthropic content blocks: messages_stream_ensure_block, then the events of a
\* block_start, a delta or a block_stop.  A thinking or tool block is content
\* from its start; text and arguments are bounded block by block.
KindOf(f) == CASE f.k \in {"start", "stext", "text", "blank"} -> "text"
               [] f.k \in {"think", "tdelta"} -> "thinking"
               [] OTHER -> "tool"
BlockOf(s, i) == {j \in DOMAIN s.blocks : s.blocks[j].i = i}
EnsureBlock(f, s) ==
  IF BlockOf(s, f.i) # {} THEN s
  ELSE [s EXCEPT !.blocks = Append(@, [i |-> f.i, kind |-> KindOf(f), n |-> 0]),
                 !.open = IF route.client = "messages" THEN @ \cup {Len(s.blocks)} ELSE @]
PlaceOf(s, i) == (CHOOSE j \in BlockOf(s, i) : TRUE) - 1

\* Whether the client's protocol has an item for a block of this kind.
HasItem(kind) == route.client = "messages" \/ (route.client = "responses" /\ kind # "text")

BlockStart(f, s) ==
  LET t == EnsureBlock(f, s)
      at == PlaceOf(t, f.i)
      kind == KindOf(f) IN
  IF BlockOf(s, f.i) # {} THEN Ok(s, <<>>)
  ELSE Ok([t EXCEPT !.output = @ \/ kind # "text"],
          (IF kind = "tool" THEN <<EI("call", at)>> ELSE <<>>) \o (IF HasItem(kind) THEN <<EI("open", at)>> ELSE <<>>))

\* append_messages_stream_text and append_messages_stream_arguments.
BlockFull(block) == Over(block.n + 1)

BlockDelta(f, s) ==
  LET t == EnsureBlock(f, s)
      at == PlaceOf(t, f.i)
      kind == KindOf(f) IN
  IF BlockFull(t.blocks[at + 1]) \/ (kind = "tool" /\ t.blocks[at + 1].kind # "tool") THEN Fail(t)
  ELSE Ok([t EXCEPT !.output = @ \/ f.k # "blank", !.blocks[at + 1].n = @ + 1],
          CASE kind = "text" -> <<TextEvent(at)>>
            [] kind = "thinking" -> (IF HasItem(kind) THEN <<EI("delta", at)>> ELSE <<>>) \o <<E("think")>>
            [] OTHER -> IF HasItem(kind) THEN <<EI("delta", at)>> ELSE <<E("args")>>)

BlockStop(f, s) ==
  IF BlockOf(s, f.i) = {} THEN Ok(s, <<>>)
  ELSE LET at == PlaceOf(s, f.i) IN
       Ok([s EXCEPT !.open = @ \ {at}], IF HasItem(s.blocks[at + 1].kind) THEN <<EI("close", at)>> ELSE <<>>)

HandleMessages(f, s) ==
  LET start == MessagesStart([s EXCEPT !.completed = @ \/ f.k = "mstop"])
      t == start.s
      block == CASE f.k \in {"start", "stext", "think", "call"} -> BlockStart(f, t)
                 [] f.k \in {"text", "blank", "tdelta", "args"} -> BlockDelta(f, t)
                 [] f.k = "close" -> BlockStop(f, t)
                 [] OTHER -> Ok(t, <<>>)
  IN IF f.k = "error" THEN Fail(s)
     ELSE IF block.failed THEN Fail(block.s)
     ELSE IF block.ev = <<>> THEN Ok(block.s, start.ev)
     ELSE LET plain == PlainStart(block.s) IN Ok(plain.s, start.ev \o plain.ev \o block.ev)

\* ResponsesStreamAccumulator::observe and reconstruct_response: the items the
\* stream announced, with the text that was streamed for the first position.
Observe(f, s) ==
  CASE f.k = "call" -> [s EXCEPT !.items = @ \cup {f.i}]
    [] f.k = "text" -> [s EXCEPT !.itemText = 1]
    [] OTHER -> s
Rebuilt(s) == [calls |-> Cardinality(s.items), text |-> s.itemText]

\* encode_responses_image_event and encode_responses_tool_event: passed on to a
\* Responses client as they are.
ImageEvent(f) == f.k = "image" /\ route.client = "responses"
ToolEvent(f) == f.k \in {"call", "args"} /\ route.client = "responses"

\* A Responses client that was sent the tool events as they came needs no copy.
AlreadyForwarded(s) == route.client = "responses" /\ s.forwarded

\* emit_terminal_response_events: the output of the terminal response, rebuilt
\* from the stream where the response omits it.
TerminalEvents(s) ==
  LET response == Rebuilt(s)
      n == response.calls
      t == [s EXCEPT !.output = @ \/ n > 0 \/ response.text > 0]
      first == Bool(s.textStarted)
      base == IF route.client = "messages" THEN first ELSE response.text IN
  IF n = 0 THEN Ok(t, <<>>)
  ELSE IF AlreadyForwarded(s) THEN Ok([t EXCEPT !.reason = "tool_calls"], <<>>)
  ELSE Then(PlainStart([t EXCEPT !.reason = "tool_calls",
                                 !.open = IF route.client = "messages" THEN @ \cup first..(first + n - 1) ELSE @]),
            LAMBDA u : Ok(u, CallEvents(n, base)))

HandleResponses(f, s) ==
  LET seen == Observe(f, s)
      t == IF ResponsesTerminal(f)
           THEN [seen EXCEPT !.completed = TRUE, !.reason = IF f.k = "limit" THEN "length" ELSE @] ELSE seen
      Image(u) ==
        IF ~ImageEvent(f) THEN Ok(u, <<>>)
        ELSE Then(PlainStart([u EXCEPT !.output = TRUE]), LAMBDA v : Ok(v, <<E("image")>>))
      Tool(u) ==
        IF ~ToolEvent(f) THEN Ok(u, <<>>)
        ELSE Then(PlainStart([u EXCEPT !.output = TRUE, !.forwarded = TRUE]),
                  LAMBDA v : Ok(v, <<ToolDeltaEvent(f, f.k = "call" /\ f.i \notin s.items)>>))
      Terminal(u) == IF ResponsesTerminal(f) THEN TerminalEvents(u) ELSE Ok(u, <<>>)
  IN IF f.k = "error" THEN Fail(seen)
     ELSE Then(Then(Then(Then(MessagesStart(t), Image), Tool), LAMBDA u : TextBranch(f, u)), Terminal)

\* parse_google_stream_update refuses a blocked prompt and parts it does not know.
GoogleReadable(f) == f.k # "blocked"

\* normalize_google_stream_finish; a reason that reports a malformed call ("bad")
\* is an error.
GoogleFinish(f, s) ==
  CASE f.k = "bad" -> Fail(s)
    [] f.k = "stop" -> Ok([s EXCEPT !.completed = TRUE,
                                    !.reason = IF s.calls # <<>> THEN "tool_calls" ELSE "stop"], <<>>)
    [] f.k = "limit" -> Ok([s EXCEPT !.completed = TRUE, !.reason = "length"], <<>>)
    [] OTHER -> Ok(s, <<>>)

\* merge_google_tool_calls: a call with an id replaces the one with that id, one
\* without (index 0) the first of its name.
MergeGoogleCall(f, s) ==
  LET known == \E j \in DOMAIN s.calls : s.calls[j].i = f.i
      calls == IF f.k \notin {"call", "anon"} \/ known THEN s.calls ELSE Append(s.calls, [i |-> f.i, n |-> 1])
  IN IF Len(calls) > route.limit THEN Fail(s) ELSE Ok([s EXCEPT !.calls = calls], <<>>)

\* completed_tail, which has work to do for a Google upstream only.
CompletedTail(s) ==
  LET n == Len(s.calls)
      base == IF route.client = "messages" THEN Bool(s.gStarted) ELSE Bool(s.gText > 0) IN
  IF ~s.completed \/ n = 0 THEN Ok(s, <<>>)
  ELSE Then(PlainStart([s EXCEPT !.output = TRUE]), LAMBDA t : Ok(t, CallEvents(n, base)))

HandleGoogle(f, s) ==
  IF f.k = "error" \/ ~GoogleReadable(f) THEN Fail(s)
  ELSE LET merged == Then(GoogleFinish(f, s), LAMBDA t : MergeGoogleCall(f, t)) IN
       Then(Then(Then(merged, MessagesStart), LAMBDA u : TextBranch(f, u)), CompletedTail)

Handle(f, s) ==
  LET t == PrePass(s, f) IN
  CASE route.up = "chat" -> HandleChat(f, t)
    [] route.up = "responses" -> HandleResponses(f, t)
    [] route.up = "messages" -> HandleMessages(f, t)
    [] OTHER -> HandleGoogle(f, t)

-----------------------------------------------------------------------------
(* complete_events and fail_events.                                        *)

StopReason(reason) ==
  CASE reason = "tool_calls" -> "calls" [] reason = "length" -> "limit" [] OTHER -> "stop"

\* Calls a Chat upstream streamed, replayed one at a time to the other clients,
\* with the indexes the blocks were reserved under.
ReplayChatCalls(s) ==
  LET n == Len(s.calls)
      first == Bool(s.textStarted)
      t == [s EXCEPT !.reason = IF @ = "stop" THEN "tool_calls" ELSE @,
                     !.open = IF route.client = "messages" /\ n > 0 THEN @ \cup first..(first + n - 1) ELSE @]
  IN Ok(t, FlattenSeq([j \in 1..n |-> CallEvents(1, Bool(s.chatText))]))

Ascending(S) == SetToSortSeq(S, <)

\* messages_stream_finish and google_messages_stream_finish close what is open.
GoogleBlocks(s) == IF s.gStarted THEN <<EI("close", 0)>> ELSE <<>>
OpenBlocks(s) == [j \in 1..Cardinality(s.open) |-> EI("close", Ascending(s.open)[j])]
ClosingBlocks(s) ==
  IF route.client # "messages" THEN <<>>
  ELSE IF route.up = "google" THEN GoogleBlocks(s) ELSE OpenBlocks(s)

\* encode_stream_finish and encode_stream_usage.
FinalEvent(s) == ER("final", StopReason(s.reason))
UsageEvent(s) == IF s.usage THEN <<E("usage")>> ELSE <<>>

CompleteEvents(s) ==
  LET start == IF s.sent THEN <<>> ELSE <<StartEvent>>
      replay == IF route.up = "chat" /\ route.client # "chat" THEN ReplayChatCalls(s) ELSE Ok(s, <<>>)
  IN start \o replay.ev \o ClosingBlocks(replay.s) \o <<FinalEvent(replay.s)>>
     \o (IF route.client = "chat" THEN UsageEvent(s) \o <<E("done")>> ELSE <<>>)

FailEvents == <<E("error")>> \o (IF route.client = "chat" THEN <<E("done")>> ELSE <<>>)

-----------------------------------------------------------------------------
(* The provider, external: any frames of its protocol in an order that     *)
(* protocol allows.                                                        *)

NothingSent == [left |-> MaxFrames, finish |-> FALSE, sealed |-> FALSE, early |-> FALSE, eof |-> FALSE,
                begun |-> {}, ended |-> {}, text |-> 0, calls |-> {}]

Opens(f) == f.k \in {"start", "stext", "think"} \/ (f.k = "call" /\ route.up = "messages")
Sendable(p, f) ==
  /\ p.left > 0 /\ ~p.sealed
  /\ f.k = "mstop" => p.finish
  /\ p.finish => f.k \in {"done", "mstop"}
  /\ Opens(f) => f.i \notin p.begun
  /\ route.up = "messages" /\ f.k \in {"text", "blank", "tdelta", "args", "close"} => f.i \in p.begun \ p.ended
  /\ f.k = "args" /\ route.up = "responses" => f.i \in p.begun
Sent(p, f) ==
  [p EXCEPT !.left = @ - 1, !.finish = @ \/ f.k \in Finishes, !.sealed = f.k \in {"done", "mstop"},
            !.early = @ \/ f.k = "stext",
            !.begun = IF Opens(f) \/ f.k = "call" THEN @ \cup {f.i} ELSE @,
            !.ended = IF f.k = "close" THEN @ \cup {f.i} ELSE @]

\* Chunks of the body, of one or two frames.
Chunks(p) ==
  {<<f>> : f \in {g \in FramesOf(route.up) : Sendable(p, g)}} \cup
  {<<f, g>> : f \in {h \in FramesOf(route.up) : Sendable(p, h)}, g \in FramesOf(route.up)}
Legal(p, chunk) == IF Len(chunk) = 1 THEN TRUE ELSE Sendable(Sent(p, chunk[1]), chunk[2])

-----------------------------------------------------------------------------
(* preflight_stream: one frame at a time until there is content.           *)

\* has_messages_stream_output: a text block may already have text when it starts.
MessagesOutput(f) == f.k \in {"stext", "think", "call", "text", "tdelta", "args"}

\* preflight_frame.  Responses output counts when the terminal response, with
\* what was streamed before it, can be decoded.
FrameHasOutput(f) ==
  \/ f.k = "text" \/ ImageEvent(f)
  \/ route.up = "messages" /\ MessagesOutput(f)
  \/ route.up = "chat" /\ (ToolDelta(f) \/ f.k = "think")
  \/ route.up = "google" /\ f.k \in {"call", "anon"}
  \/ ResponsesTerminal(f) /\ \E j \in DOMAIN prefix : prefix[j].k = "call"
Verdict(f) ==
  IF f.k \in {"junk", "error", "blocked"} THEN "retry"
  ELSE IF f.k = "done" THEN IF route.up = "chat" THEN "retry" ELSE "continue"
  ELSE IF FrameHasOutput(f) THEN "ready"
  ELSE IF f.k \in Finishes \cup {"mstop", "bad"} THEN "retry" ELSE "continue"

PreflightFrame ==
  /\ stage = "preflight"
  /\ \E f \in FramesOf(route.up) :
       /\ Sendable(supplied, f)
       /\ supplied' = Sent(supplied, f)
       /\ LET verdict == IF Over(Len(prefix) + 1) THEN "retry" ELSE Verdict(f) IN
          /\ prefix' = Append(prefix, f)
          /\ stage' = CASE verdict = "ready" -> "open" [] verdict = "retry" -> "retry" [] OTHER -> "preflight"
  /\ UNCHANGED <<route, buffer, xlat, ending, parsed>>

\* The body ends, fails or goes idle before there was content.
PreflightFails ==
  /\ stage = "preflight"
  /\ stage' = "retry"
  /\ UNCHANGED <<route, prefix, buffer, xlat, ending, parsed, supplied>>

-----------------------------------------------------------------------------
(* SseFrameReader::next and the loop of translation_stream.                *)

\* One frame taken from the front of the buffer.
Process(buf, p) ==
  LET f == Head(buf)
      r == Handle(f, xlat) IN
  /\ buffer' = Tail(buf)
  /\ supplied' = [p EXCEPT !.text = IF f.k \in {"text", "blank"} THEN @ + 1 ELSE @,
                           !.calls = IF f.k \in {"call", "legacy", "anon"} THEN @ \cup {f.i} ELSE @]
  /\ \/ /\ f.k = "done"
        /\ xlat' = [xlat EXCEPT !.completed = route.up = "chat"]
        /\ stage' = IF route.up = "chat" THEN "closing" ELSE stage
        /\ ending' = IF route.up = "chat" THEN "completed" ELSE ending
        /\ UNCHANGED parsed
     \/ /\ f.k = "junk" \/ (f.k # "done" /\ r.failed)
        /\ xlat' = IF f.k = "junk" THEN xlat ELSE r.s
        /\ stage' = "closing"
        /\ ending' = "frame"
        /\ parsed' = Read(parsed, <<E("error")>>)
     \/ /\ f.k \notin {"junk", "done"} /\ ~r.failed
        /\ xlat' = r.s
        /\ stage' = IF r.s.completed THEN "closing" ELSE stage
        /\ ending' = IF r.s.completed THEN "completed" ELSE ending
        /\ parsed' = Read(parsed, r.ev)

\* Mutant: an answer that was finished is failed like any other.
ReaderErrorStrict ==
  /\ stage' = "closing"
  /\ ending' = IF xlat.completed THEN "clean" ELSE "reader"
  /\ parsed' = IF xlat.completed THEN parsed ELSE Read(parsed, <<E("error")>>)
\* An error of the reader ends a finished answer quietly and any other with an
\* error event.
ReaderError ==
  LET finished == xlat.completed \/ xlat.finish IN
  /\ stage' = "closing"
  /\ ending' = IF finished THEN "clean" ELSE "reader"
  /\ parsed' = IF finished THEN parsed ELSE Read(parsed, <<E("error")>>)

\* A chunk arrives, from what the preflight has read or from the body; it is
\* appended, and the first frame of the buffer is handed on.
ReadChunk ==
  /\ stage = "open"
  /\ ~supplied.eof
  /\ \E chunk \in IF prefix # <<>> THEN {SubSeq(prefix, 1, n) : n \in 1..(IF Len(prefix) > 1 THEN 2 ELSE 1)}
                   ELSE Chunks(supplied) :
       /\ prefix = <<>> => Legal(supplied, chunk)
       /\ LET p == IF prefix # <<>> THEN supplied ELSE FoldLeft(Sent, supplied, chunk) IN
          /\ prefix' = SubSeq(prefix, Len(chunk) + 1, Len(prefix))
          /\ IF Over(Len(buffer) + Len(chunk))
             THEN ReaderError /\ supplied' = p /\ UNCHANGED <<buffer, xlat>>
             ELSE Process(buffer \o chunk, p)
  /\ UNCHANGED route

\* The body has ended: what is left in the buffer is handed on, then the end.
ReadEnd ==
  /\ stage = "open"
  /\ prefix = <<>>
  /\ IF buffer # <<>> THEN Process(buffer, [supplied EXCEPT !.eof = TRUE])
     ELSE /\ stage' = "closing"
          /\ ending' = "clean"
          /\ supplied' = [supplied EXCEPT !.eof = TRUE]
          /\ UNCHANGED <<buffer, xlat, parsed>>
  /\ UNCHANGED <<route, prefix>>

\* The connection fails, or nothing arrives before the idle or the overall
\* deadline, or a frame is too long or not UTF-8.
ReadFails ==
  /\ stage = "open"
  /\ prefix = <<>>
  /\ ~supplied.eof
  /\ ReaderError
  /\ UNCHANGED <<route, prefix, buffer, xlat, supplied>>

\* What the driver decides after the loop: a finish signal, or a Chat answer
\* with calls, counts as a completion; an answer without content does not.
Concluded ==
  IF xlat.completed THEN xlat
  ELSE IF xlat.finish THEN [xlat EXCEPT !.completed = TRUE]
  ELSE IF route.up = "chat" /\ xlat.calls # <<>>
  THEN [xlat EXCEPT !.completed = TRUE, !.reason = IF @ = "stop" THEN "tool_calls" ELSE @]
  ELSE xlat

Conclude ==
  LET s == Concluded
      cause == IF ending \in {"frame", "reader"} THEN ending
               ELSE IF ~s.completed THEN "short"
               ELSE IF ~s.output THEN "empty" ELSE "none" IN
  /\ stage = "closing"
  /\ xlat' = s
  /\ ending' = cause
  /\ IF cause = "none"
     THEN stage' = "completed" /\ parsed' = Read(parsed, CompleteEvents(s))
     ELSE stage' = "failed" /\ parsed' = Read(parsed, FailEvents)
  /\ UNCHANGED <<route, prefix, buffer, supplied>>

\* The client goes away or the gateway shuts down: no further event.
Leave ==
  /\ stage \in {"open", "closing"}
  /\ stage' = "abandoned"
  /\ UNCHANGED <<route, prefix, buffer, xlat, ending, parsed, supplied>>

StreamInit ==
  /\ route \in [up : Upstreams, client : Clients, limit : {0, Limit}]
  /\ stage = "preflight"
  /\ prefix = <<>>
  /\ buffer = <<>>
  /\ xlat = NewState
  /\ ending = "none"
  /\ parsed = NoClient
  /\ supplied = NothingSent

StreamNext ==
  \/ PreflightFrame \/ PreflightFails
  \/ ReadChunk \/ ReadEnd \/ ReadFails
  \/ Conclude \/ Leave

StreamSpec == StreamInit /\ [][StreamNext]_svars

-----------------------------------------------------------------------------
(* Properties.                                                             *)

\* A stream ends exactly once, and its last event says what the gateway
\* records: a completed one with a single final event and no error, a failed
\* one with an error and no final event, and a Chat client hears [DONE] last
\* in both; nothing is sent after the ending.
EndsOnce ==
  /\ stage = "completed" => Len(parsed.final) = 1 /\ parsed.errors = 0
  /\ stage = "failed" => parsed.final = <<>> /\ parsed.errors > 0
  /\ stage \in {"completed", "failed"} => parsed.done = Bool(route.client = "chat")
  /\ stage \in {"preflight", "open", "retry"} => parsed.final = <<>> /\ parsed.errors = 0
  /\ parsed.late = 0
  /\ parsed.starts = 0 => parsed.text = 0 /\ parsed.calls = <<>>

\* Every text frame that was handled reaches the client exactly once, through
\* the one of the two text paths its protocols take, whatever the pair.
TextOnce == ending \notin {"frame"} => parsed.text = supplied.text

\* A completed answer has announced every call of the provider to the client
\* exactly once, whether it was forwarded, replayed or rebuilt.
CallsOnce == stage = "completed" => Len(parsed.calls) = Cardinality(supplied.calls)

\* The blocks of a Messages client whose upstream speaks Messages or Google are
\* opened once, closed once, and all closed when the answer is complete.
BlocksPaired ==
  route.client = "messages" /\ route.up \in {"messages", "google"} =>
    /\ parsed.misplaced = 0
    /\ stage = "completed" => parsed.open = {}

\* Success is never invented and never withheld: an answer completes only after
\* a finish signal or a Chat tool call, and one that lacked a sentinel only, or
\* that the preflight let through, is not failed for it.
SuccessEarned ==
  /\ stage = "completed" =>
       \/ supplied.finish
       \/ route.up = "chat" /\ (supplied.sealed \/ supplied.calls # {})
  /\ stage = "failed" /\ xlat.finish => ending = "frame" \/ supplied.early
  /\ stage = "failed" /\ ending = "empty" => supplied.early

\* What the driver says of a dropped connection: an answer whose finish signal
\* the provider has delivered is not turned into an error.
FinishSurvives == ending = "reader" => ~supplied.finish

\* What the accumulator reserves block indexes for: every call replayed to a
\* Messages client has a content block of its own.
CallBlocksDistinct ==
  route.client = "messages" => \A j, k \in DOMAIN parsed.calls : parsed.calls[j] = parsed.calls[k] => j = k

\* What a client's parser makes of a translated stream, for every pair of
\* protocols and every way the provider ends: text and calls once and in order,
\* blocks paired, one ending, and success only if the provider finished.
StreamSound ==
    /\ EndsOnce
    /\ TextOnce
    /\ CallsOnce
    /\ BlocksPaired
    /\ SuccessEarned
=============================================================================
