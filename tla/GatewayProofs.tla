--------------------------- MODULE GatewayProofs ---------------------------
(***************************************************************************)
(* Proofs about the request pipeline (GatewayRequest): what a request      *)
(* holds, reports and logs on its way through targets, credentials and     *)
(* retries, for every number of requests and every route.                  *)
(***************************************************************************)
EXTENDS GatewayRequest, FiniteSetTheorems, SequenceTheorems, TLAPS

-----------------------------------------------------------------------------
(* The inductive invariant.                                                *)

Talking == {"keys", "call", "respond"}   \* the request has its target's permit
Leased  == Talking \cup {"stream"}       \* the circuit lease is open

\* What the place of a request says of the rest of it.
PlaceOK(q) ==
    /\ q.pc \in {"target"} \cup Talking => q.left # <<>>
    /\ q.pc \in Leased <=> q.verdict = "open"
    /\ q.pc \in {"respond", "stream"} => q.reply = "ok"
    /\ q.pc = "backoff" => q.attempt + 1 < MaxAttempts

\* A broken stream is remembered until a key is rejected.
FailuresOK(q) ==
    /\ q.pc \in {"resolve", "backoff", "target", "keys"} => ~q.failures.sse /\ q.failures.rejection = None
    /\ q.pc = "call" /\ q.failures.sse /\ q.failures.rejection = None => q.reply = "fault"

BlameOK(q) ==
    /\ q.verdict = "failed" => q.reply = "fault"
    /\ q.verdict = "succeeded" => q.reply = "ok"

\* The answer, and the row of a stream.
AnswerOK(r, q) ==
    /\ q.pc \notin {"stream", "drop", "done"} => q.answer = None /\ q.rows = 0 /\ ~q.finalized
    /\ q.pc = "stream" => q.answer = "ok" /\ r \in Streaming /\ q.rows = 0 /\ ~q.finalized
    /\ q.pc = "drop" => q.answer = "ok" /\ r \in Streaming /\ q.rows = 1 /\ q.finalized
    /\ q.pc = "done" => q.rows = IF q.answer = "ok" /\ r \in Streaming THEN 1 ELSE 0
    /\ q.answer \in ServerErrors => q.attempt = MaxAttempts - 1

RequestOK(r, q) ==
    q \in Request /\ PlaceOK(q) /\ FailuresOK(q) /\ BlameOK(q) /\ AnswerOK(r, q)

\* On a priority route, where the rounds so far have started.
StartsOK(q) ==
    strategy = "priority" =>
        /\ \A x \in q.first : x <= q.attempt
        /\ q.pc \in {"idle", "resolve"} => \A x \in q.first : x < q.attempt

PermitsOK ==
    /\ PermitFollowsTarget
    /\ \A r \in Requests : req[r].pc = "stream" => \E p \in Providers : r \in held[p]

PipelineInv ==
    /\ strategy \in Strategies
    /\ index \in 0..(Len(Route) - 1)
    /\ held \in [Providers -> SUBSET Requests]
    /\ req \in [Requests -> Request]
    /\ \A r \in Requests : RequestOK(r, req[r]) /\ StartsOK(req[r])
    /\ PermitsOK

-----------------------------------------------------------------------------
(* Routes.                                                                 *)

Lefts == UNION {[1..n -> Providers] : n \in 0..Len(Route)}

\* The route is a sequence of providers with at least one target.
LEMMA RouteFacts ==
    /\ Len(Route) \in Nat \ {0}
    /\ Route \in [1..Len(Route) -> Providers]
BY GatewayAssumption

\* What is left of a route is a sequence no longer than the route.
LEMMA LeftSeq ==
    ASSUME NEW s
    PROVE  s \in Lefts <=> s \in Seq(Providers) /\ Len(s) <= Len(Route)
<1>1. ASSUME s \in Lefts PROVE s \in Seq(Providers) /\ Len(s) <= Len(Route)
  <2>1. PICK n \in 0..Len(Route) : s \in [1..n -> Providers]
    BY <1>1 DEF Lefts
  <2>2. n \in Nat
    BY <2>1, RouteFacts
  <2>3. s \in Seq(Providers) /\ Len(s) = n
    BY <2>1, <2>2
  <2> QED BY <2>1, <2>3
<1>2. ASSUME s \in Seq(Providers), Len(s) <= Len(Route) PROVE s \in Lefts
  <2>1. Len(s) \in 0..Len(Route) /\ s \in [1..Len(s) -> Providers]
    BY <1>2, RouteFacts
  <2> QED BY <2>1 DEF Lefts
<1> QED BY <1>1, <1>2

\* Rotated routes are routes.
LEMMA Rotated ==
    ASSUME NEW k \in Nat
    PROVE  RotateLeft(Route, k) \in Lefts /\ RotateLeft(Route, k) # <<>>
<1>1. PICK n \in Nat \ {0} : n = Len(Route)
  BY RouteFacts
<1>2. \A i \in 1..n : ((i - 1 + k) % n) + 1 \in 1..n
  BY <1>1
<1>3. RotateLeft(Route, k) \in [1..n -> Providers]
  BY <1>1, <1>2, RouteFacts DEF RotateLeft
<1>4. RotateLeft(Route, k) \in Seq(Providers) /\ Len(RotateLeft(Route, k)) = n
  BY <1>3
<1> QED BY <1>1, <1>4, LeftSeq

\* A target taken from the front.
LEMMA FrontTarget ==
    ASSUME NEW s \in Lefts, s # <<>>
    PROVE  Head(s) \in Providers /\ Tail(s) \in Lefts
<1>1. s \in Seq(Providers) /\ Len(s) <= Len(Route)
  BY LeftSeq
<1>2. Head(s) \in Providers /\ Tail(s) \in Seq(Providers) /\ Len(Tail(s)) = Len(s) - 1 /\ Len(s) \in Nat
  BY <1>1
<1>3. Len(Tail(s)) <= Len(Route)
  BY <1>1, <1>2, RouteFacts
<1> QED BY <1>2, <1>3, LeftSeq

-----------------------------------------------------------------------------
(* The end of a round, and the next target.                                *)

Failure == [status : Statuses, translation : BOOLEAN, encodable : BOOLEAN,
            rejection : {None, "auth", "quota"}, sse : BOOLEAN]

\* Records of requests, with their parts named.
LEMMA RequestFields ==
    Request = [pc : Running \cup {"idle", "stream", "drop", "done"},
               attempt : 0..(MaxAttempts - 1),
               first : SUBSET (0..(Len(Route) - 1)),
               left : Lefts,
               keys : 0..MaxKeys,
               failures : Failure,
               answer : Statuses \cup {None, "ok", "refused", "timeout", "gone"},
               reply : {None, "ok", "fault", "refusal"},
               verdict : {None, "open", "succeeded", "failed", "released"},
               finalized : BOOLEAN,
               rows : Nat]
BY DEF Request, Lefts, Failure

\* e is q after its round is over, or q on its way to another target.
Same(q, e) ==
    /\ e \in Request /\ e.attempt = q.attempt /\ e.reply = q.reply /\ e.verdict = q.verdict
    /\ e.finalized = q.finalized /\ e.rows = q.rows /\ e.first \subseteq q.first
Over(q, e) ==
    \/ /\ e.pc = "backoff" /\ e.answer = q.answer /\ e.attempt + 1 < MaxAttempts
       /\ ~e.failures.sse /\ e.failures.rejection = None
    \/ e.pc = "done" /\ e.answer # "ok" /\ (e.answer \in ServerErrors => e.attempt = MaxAttempts - 1)
Onward(q, e) ==
    /\ e.pc = "target" /\ e.answer = q.answer /\ e.left # <<>>
    /\ ~e.failures.sse /\ e.failures.rejection = None

Moved(q, e) == Same(q, e) /\ (Over(q, e) \/ Onward(q, e))

\* The verdict v on a lease fits the class c of the last reply under it.
Fair(v, c) ==
    /\ v \in {None, "succeeded", "failed", "released"} /\ c \in {None, "ok", "fault", "refusal"}
    /\ v = "failed" => c = "fault"
    /\ v = "succeeded" => c = "ok"
Settled(e, v, c) == [e EXCEPT !.verdict = v, !.reply = c]

\* Bounds of the records' numbers, and what is not None.
LEMMA Bounds ==
    /\ MaxAttempts \in Nat \ {0} /\ MaxKeys \in Nat \ {0} /\ ProviderLimit \in Nat \ {0}
    /\ <<>> \in Lefts /\ NoFailure \in Failure
<1>1. <<>> \in Lefts
  <2>1. <<>> \in Seq(Providers) /\ Len(<<>>) = 0
    OBVIOUS
  <2>2. Len(<<>>) <= Len(Route)
    BY <2>1, RouteFacts
  <2> QED BY <2>1, <2>2, LeftSeq
<1>2. NoFailure \in Failure
  BY DEF NoFailure, Failure, Statuses
<1> QED BY <1>1, <1>2, GatewayAssumption

\* A request without the locals of its round.
LEMMA ClearedFields ==
    ASSUME NEW q \in Request, NEW c, c = Cleared(q)
    PROVE  /\ c \in Request /\ c.pc = q.pc /\ c.attempt = q.attempt /\ c.first = q.first
           /\ c.answer = q.answer /\ c.reply = q.reply /\ c.verdict = q.verdict
           /\ c.finalized = q.finalized /\ c.rows = q.rows /\ c.failures = NoFailure
<1>1. <<>> \in Lefts /\ NoFailure \in Failure /\ 0 \in 0..MaxKeys
  BY Bounds
<1>2. c = [q EXCEPT !.left = <<>>, !.keys = 0, !.failures = NoFailure]
  BY DEF Cleared
<1> QED BY <1>1, <1>2, RequestFields

\* A closed request has its answer and keeps what it has counted.
LEMMA ClosedFields ==
    ASSUME NEW q \in Request, NEW pc \in {"done", "stream"},
           NEW a \in Statuses \cup {"ok", "refused", "timeout", "gone"}, NEW c, c = Closed(q, pc, a)
    PROVE  /\ c \in Request /\ c.pc = pc /\ c.answer = a /\ c.first = {}
           /\ c.attempt = q.attempt /\ c.reply = q.reply /\ c.verdict = q.verdict
           /\ c.finalized = q.finalized /\ c.rows = q.rows
<1>1. PICK d : d = Cleared(q)
  OBVIOUS
<1>2. /\ d \in Request /\ d.attempt = q.attempt /\ d.reply = q.reply /\ d.verdict = q.verdict
      /\ d.finalized = q.finalized /\ d.rows = q.rows
  BY <1>1, ClearedFields
<1>3. PICK b \in BOOLEAN : b <=> (a = "bad_request" /\ q.failures.encodable)
  OBVIOUS
<1>4. (a = "bad_request" /\ q.failures.encodable) = b
  BY <1>3, Zenon
<1>5. c = [d EXCEPT !.pc = pc, !.answer = a, !.first = {}, !.failures.encodable = b]
  <2>1. c = [d EXCEPT !.pc = pc, !.answer = a, !.first = {},
                      !.failures.encodable = (a = "bad_request" /\ q.failures.encodable)]
    BY <1>1 DEF Closed
  <2> QED BY <1>4, <2>1, Zenon
<1>6. pc \in Running \cup {"idle", "stream", "drop", "done"} /\ {} \in SUBSET (0..(Len(Route) - 1))
  OBVIOUS
<1>7. PICK h : h = [d.failures EXCEPT !.encodable = b]
  OBVIOUS
<1>8. h \in Failure
  <2>1. d.failures \in Failure
    BY <1>2, RequestFields
  <2> QED BY <1>7, <2>1 DEF Failure
<1>9. c = [d EXCEPT !.pc = pc, !.answer = a, !.first = {}, !.failures = h]
  BY <1>2, <1>5, <1>7, RequestFields
<1> QED BY <1>2, <1>6, <1>8, <1>9, RequestFields

\* The end of a round: another one after a pause, or the answer.
LEMMA EndedFields ==
    ASSUME NEW r, NEW q \in Request, q.attempt = req[r].attempt,
           NEW status \in Statuses \cup {"refused"}, NEW e, e = Ended(r, q, status)
    PROVE  Same(q, e) /\ Over(q, e)
<1>1. CASE Retries(r, status)
  <2>1. PICK c : c = Cleared(q)
    OBVIOUS
  <2>2. e = [c EXCEPT !.pc = "backoff"]
    BY <1>1, <2>1 DEF Ended
  <2>3. /\ c \in Request /\ c.attempt = q.attempt /\ c.first = q.first
        /\ c.answer = q.answer /\ c.reply = q.reply /\ c.verdict = q.verdict
        /\ c.finalized = q.finalized /\ c.rows = q.rows /\ c.failures = NoFailure
    BY <2>1, ClearedFields
  <2>4. Same(q, e) /\ e.pc = "backoff" /\ e.answer = q.answer
    BY <2>2, <2>3, RequestFields DEF Same, Running
  <2>5. q.attempt \in Nat /\ e.attempt = q.attempt
    BY <2>4, RequestFields, Bounds DEF Same
  <2>6. e.attempt + 1 < MaxAttempts
    BY <1>1, <2>5, Bounds DEF Retries, LastAttempt
  <2>7. e.failures = NoFailure
    BY <2>2, <2>3, RequestFields
  <2>8. ~e.failures.sse /\ e.failures.rejection = None
    BY <2>7 DEF NoFailure
  <2> QED BY <2>4, <2>6, <2>8 DEF Over
<1>2. CASE ~Retries(r, status)
  <2>1. e = Closed(q, "done", status)
    BY <1>2 DEF Ended
  <2>2. /\ e \in Request /\ e.pc = "done" /\ e.answer = status /\ e.first = {}
        /\ e.attempt = q.attempt /\ e.reply = q.reply /\ e.verdict = q.verdict
        /\ e.finalized = q.finalized /\ e.rows = q.rows
    BY <2>1, ClosedFields
  <2>3. e.answer # "ok"
    BY <2>2 DEF Statuses
  <2>4. e.answer \in ServerErrors => e.attempt = MaxAttempts - 1
    <3>1. e.attempt \in 0..(MaxAttempts - 1)
      BY <2>2, RequestFields
    <3> QED BY <1>2, <2>2, <3>1, Bounds DEF Retries, LastAttempt
  <2> QED BY <2>2, <2>3, <2>4 DEF Same, Over
<1> QED BY <1>1, <1>2

\* On to the next target, or the end of the round.
LEMMA NextTargetFields ==
    ASSUME NEW r, req[r] \in Request, req[r].left # <<>>, NEW f \in Failure,
           NEW e, e = NextTarget(r, f)
    PROVE  Same(req[r], e) /\ (Over(req[r], e) \/ Onward(req[r], e))
<1>1. PICK h : h = [f EXCEPT !.rejection = None, !.sse = FALSE]
  OBVIOUS
<1>2. h \in Failure /\ ~h.sse /\ h.rejection = None
  BY <1>1 DEF Failure
<1>3. PICK q : q = [req[r] EXCEPT !.failures = h, !.left = Tail(@), !.keys = 0, !.pc = "target"]
  OBVIOUS
<1>4. Tail(req[r].left) \in Lefts /\ 0 \in 0..MaxKeys
  BY FrontTarget, RequestFields, Bounds
<1>5. /\ Same(req[r], q) /\ q.pc = "target" /\ q.answer = req[r].answer
      /\ ~q.failures.sse /\ q.failures.rejection = None
  BY <1>2, <1>3, <1>4, RequestFields DEF Same, Running
<1>6. e = IF q.left = <<>> THEN Ended(r, q, FinalStatus(f)) ELSE q
  BY <1>1, <1>3 DEF NextTarget
<1>7. CASE q.left = <<>>
  <2>1. FinalStatus(f) \in Statuses \cup {"refused"}
    BY DEF FinalStatus, Failure, Statuses
  <2>2. Same(q, e) /\ Over(q, e)
    BY <1>5, <1>6, <1>7, <2>1, EndedFields DEF Same
  <2> QED BY <1>5, <2>2 DEF Same, Over
<1>8. CASE q.left # <<>>
  BY <1>5, <1>6, <1>8 DEF Onward
<1> QED BY <1>7, <1>8

\* Out of the loop at once.
LEMMA TerminalFields ==
    ASSUME NEW r, req[r] \in Request, NEW f \in Failure, NEW e, e = Terminal(r, f)
    PROVE  Same(req[r], e) /\ Over(req[r], e)
<1>1. FinalStatus(f) \in Statuses \cup {"refused"}
  BY DEF FinalStatus, Failure, Statuses
<1> QED BY <1>1, EndedFields DEF Terminal

\* A request that has left its target is in order once its lease is settled.
LEMMA LeftTarget ==
    ASSUME NEW r, NEW q, RequestOK(r, q), StartsOK(q), q.pc \in Running, NEW e, Moved(q, e),
           NEW v, NEW c, Fair(v, c), NEW z, z = Settled(e, v, c)
    PROVE  RequestOK(r, z) /\ StartsOK(z) /\ z.pc \in {"target", "backoff", "done"}
<1>1. /\ z \in Request /\ z.pc = e.pc /\ z.attempt = q.attempt /\ z.reply = c /\ z.verdict = v
      /\ z.finalized = q.finalized /\ z.rows = q.rows /\ z.first \subseteq q.first
      /\ z.answer = e.answer /\ z.left = e.left /\ z.failures = e.failures
  BY RequestFields DEF Moved, Same, Settled, Fair
<1>2. q.answer = None /\ q.rows = 0 /\ ~q.finalized
  BY DEF RequestOK, AnswerOK, Running
<1>3. z.pc \in {"target", "backoff", "done"}
  BY <1>1 DEF Over, Onward, Moved
<1>4. PlaceOK(z)
  <2>1. v # "open"
    BY GatewayAssumption DEF Fair
  <2>2. z.verdict # "open"
    BY <1>1, <2>1
  <2>3. z.pc = "target" => z.left # <<>>
    BY <1>1 DEF Moved, Over, Onward
  <2>4. z.pc = "backoff" => z.attempt + 1 < MaxAttempts
    BY <1>1 DEF Moved, Over, Onward, Same
  <2> QED BY <1>3, <2>2, <2>3, <2>4 DEF PlaceOK, Leased, Talking
<1>5. FailuresOK(z)
  BY <1>1, <1>3 DEF FailuresOK, Over, Onward, Moved
<1>6. BlameOK(z)
  BY <1>1 DEF BlameOK, Fair
<1>7. AnswerOK(r, z)
  BY <1>1, <1>2, <1>3, GatewayAssumption DEF AnswerOK, Over, Onward, ServerErrors, Same, Moved
<1>8. StartsOK(z)
  BY <1>1, <1>3 DEF StartsOK
<1> QED BY <1>1, <1>3, <1>4, <1>5, <1>6, <1>7, <1>8 DEF RequestOK

-----------------------------------------------------------------------------
(* Steps of one request.                                                   *)

\* A step replaces the record of its request and no other.
LEMMA GotoEffect ==
    ASSUME PipelineInv, NEW r \in Requests, NEW q \in Request, Goto(r, q)
    PROVE  /\ req' \in [Requests -> Request] /\ req'[r] = q
           /\ \A u \in Requests \ {r} : req'[u] = req[u]
BY DEF PipelineInv, Goto

\* Permits follow requests that let go of theirs.
LEMMA PermitDropped ==
    ASSUME PipelineInv, NEW r \in Requests, NEW q \in Request, Goto(r, q), Drop(r),
           q.pc \notin Talking \cup {"stream", "drop"}
    PROVE  PermitsOK' /\ held' \in [Providers -> SUBSET Requests]
<1>1. req'[r] = q /\ \A u \in Requests \ {r} : req'[u] = req[u]
  BY GotoEffect
<1>2. /\ held \in [Providers -> SUBSET Requests] /\ held' \in [Providers -> SUBSET Requests]
      /\ \A p \in Providers : held'[p] = held[p] \ {r}
  BY DEF PipelineInv, Drop
<1>3. ASSUME NEW p \in Providers, NEW u \in Requests
      PROVE  u \in held[p] <=> \/ req[u].pc \in Talking /\ Target(u) = p
                               \/ req[u].pc \in {"stream", "drop"} /\ u \in held[p]
  BY DEF PipelineInv, PermitsOK, PermitFollowsTarget, Talking
<1>4. ASSUME NEW p \in Providers, NEW u \in Requests
      PROVE  u \in held'[p] <=> \/ req'[u].pc \in Talking /\ Target(u)' = p
                                \/ req'[u].pc \in {"stream", "drop"} /\ u \in held'[p]
  BY <1>1, <1>2, <1>3 DEF Target
<1>5. PermitFollowsTarget'
  BY <1>2, <1>4 DEF PermitFollowsTarget, Talking
<1>6. \A u \in Requests : req'[u].pc = "stream" => \E p \in Providers : u \in held'[p]
  BY <1>1, <1>2 DEF PipelineInv, PermitsOK
<1> QED BY <1>2, <1>5, <1>6 DEF PermitsOK

\* Permits follow requests that keep what they have.
LEMMA PermitKept ==
    ASSUME PipelineInv, NEW r \in Requests, NEW q \in Request, Goto(r, q), held' = held,
           \/ req[r].pc \in Talking /\ q.pc \in Talking /\ q.left = req[r].left
           \/ {req[r].pc, q.pc} \cap (Talking \cup {"stream", "drop"}) = {}
           \/ req[r].pc = "respond" /\ q.pc = "stream"
           \/ req[r].pc = "stream" /\ q.pc = "drop"
    PROVE  PermitsOK' /\ held' \in [Providers -> SUBSET Requests]
<1>1. req'[r] = q /\ \A u \in Requests \ {r} : req'[u] = req[u]
  BY GotoEffect
<1>2. held \in [Providers -> SUBSET Requests]
  BY DEF PipelineInv
<1>3. ASSUME NEW p \in Providers, NEW u \in Requests
      PROVE  u \in held[p] <=> \/ req[u].pc \in Talking /\ Target(u) = p
                               \/ req[u].pc \in {"stream", "drop"} /\ u \in held[p]
  BY DEF PipelineInv, PermitsOK, PermitFollowsTarget, Talking
<1>4. ASSUME NEW p \in Providers, NEW u \in Requests
      PROVE  u \in held'[p] <=> \/ req'[u].pc \in Talking /\ Target(u)' = p
                                \/ req'[u].pc \in {"stream", "drop"} /\ u \in held'[p]
  <2>1. CASE u # r
    BY <1>1, <1>3, <2>1 DEF Target
  <2>2. CASE u = r /\ req[r].pc \in Talking /\ q.pc \in Talking /\ q.left = req[r].left
    BY <1>1, <1>3, <2>2 DEF Target, Talking
  <2>3. CASE u = r /\ {req[r].pc, q.pc} \cap (Talking \cup {"stream", "drop"}) = {}
    BY <1>1, <1>3, <2>3 DEF Target, Talking
  <2>4. CASE u = r /\ q.pc \in {"stream", "drop"}
    BY <1>1, <2>4 DEF Talking
  <2> QED BY <2>1, <2>2, <2>3, <2>4
<1>5. PermitFollowsTarget'
  BY <1>2, <1>4 DEF PermitFollowsTarget, Talking
<1>6. ASSUME NEW u \in Requests, req'[u].pc = "stream" PROVE \E p \in Providers : u \in held'[p]
  <2>1. CASE u # r
    BY <1>1, <1>6, <2>1 DEF PipelineInv, PermitsOK
  <2>2. CASE u = r
    <3>1. q.pc = "stream" /\ req[r].pc = "respond"
      BY <1>1, <1>6, <2>2 DEF Talking
    <3>2. req[r].left # <<>> /\ req[r].left \in Lefts
      BY <3>1, RequestFields DEF PipelineInv, RequestOK, PlaceOK, Talking
    <3>3. Target(r) \in Providers
      BY <3>2, FrontTarget DEF Target
    <3> QED BY <1>3, <2>2, <3>1, <3>3 DEF Talking
  <2> QED BY <2>1, <2>2
<1> QED BY <1>2, <1>5, <1>6 DEF PermitsOK

\* A step that leaves its request in order keeps the invariant.
LEMMA StepKeeps ==
    ASSUME PipelineInv, NEW r \in Requests, NEW q, Goto(r, q), RequestOK(r, q), StartsOK(q),
           UNCHANGED strategy, index' \in 0..(Len(Route) - 1),
           held' \in [Providers -> SUBSET Requests], PermitsOK'
    PROVE  PipelineInv'
<1>1. q \in Request
  BY DEF RequestOK
<1>2. /\ req' \in [Requests -> Request] /\ req'[r] = q
      /\ \A u \in Requests \ {r} : req'[u] = req[u]
  BY <1>1, GotoEffect
<1>3. ASSUME NEW u \in Requests PROVE RequestOK(u, req'[u])
  BY <1>2 DEF PipelineInv
<1>4. ASSUME NEW u \in Requests PROVE StartsOK(req[u])'
  BY <1>2 DEF PipelineInv, StartsOK
<1>5. \A u \in Requests : RequestOK(u, req[u])'
  BY <1>3 DEF RequestOK, PlaceOK, FailuresOK, BlameOK, AnswerOK
<1> QED BY <1>2, <1>4, <1>5 DEF PipelineInv

\* Leaving a target, with or without a permit to drop.
LEMMA LeavesTarget ==
    ASSUME PipelineInv, NEW r \in Requests, req[r].pc \in Running, NEW e,
           Moved(req[r], e), NEW v, NEW c, Fair(v, c), Goto(r, Settled(e, v, c)),
           UNCHANGED <<strategy, index>>,
           Drop(r) \/ (held' = held /\ req[r].pc \notin Talking)
    PROVE  PipelineInv'
<1>1. PICK z : z = Settled(e, v, c)
  OBVIOUS
<1>2. RequestOK(r, req[r]) /\ StartsOK(req[r])
  BY DEF PipelineInv
<1>3. RequestOK(r, z) /\ StartsOK(z) /\ z.pc \in {"target", "backoff", "done"}
  <2>1. PICK q : q = req[r]
    OBVIOUS
  <2>2. /\ RequestOK(r, q) /\ StartsOK(q) /\ q.pc \in Running /\ Moved(q, e)
    BY <1>2, <2>1
  <2> QED BY <1>1, <2>2, LeftTarget
<1>4. z \in Request /\ Goto(r, z)
  BY <1>1, <1>3 DEF RequestOK
<1>5. PermitsOK' /\ held' \in [Providers -> SUBSET Requests]
  <2>1. CASE Drop(r)
    BY <1>3, <1>4, <2>1, PermitDropped DEF Talking
  <2>2. CASE held' = held /\ req[r].pc \notin Talking
    <3>1. {req[r].pc, z.pc} \cap (Talking \cup {"stream", "drop"}) = {}
      BY <1>3, <2>2 DEF Talking, Running
    <3> QED BY <1>4, <2>2, <3>1, PermitKept
  <2> QED BY <2>1, <2>2
<1>6. index' \in 0..(Len(Route) - 1)
  BY DEF PipelineInv
<1> QED BY <1>3, <1>4, <1>5, <1>6, StepKeeps

\* Records of a request in order, for use with the actions.
LEMMA Current ==
    ASSUME PipelineInv, NEW r \in Requests
    PROVE  /\ req[r] \in Request /\ RequestOK(r, req[r]) /\ StartsOK(req[r])
           /\ req[r].failures \in Failure
           /\ index \in 0..(Len(Route) - 1)
BY RequestFields DEF PipelineInv

\* Admission, resolution and the pauses between two rounds.
LEMMA RoundSteps ==
    ASSUME PipelineInv, NEW r \in Requests,
           Admit(r) \/ Refuse(r) \/ Resolve(r) \/ ResolveFails(r) \/ BackoffOver(r)
    PROVE  PipelineInv'
<1>0. PICK q : q = req[r]
  OBVIOUS
<1>1. /\ q \in Request /\ RequestOK(r, q) /\ StartsOK(q) /\ index \in 0..(Len(Route) - 1)
  BY <1>0, Current
<1>2. UNCHANGED <<strategy, held>>
  BY DEF Admit, Refuse, Resolve, ResolveFails, BackoffOver
<1>3. Fresh \in Request
  BY Bounds, RequestFields DEF Fresh
<1>4. ASSUME NEW z, Goto(r, z), RequestOK(r, z), StartsOK(z), index' \in 0..(Len(Route) - 1),
             q.pc \in {"idle", "resolve", "backoff"}, z.pc \in {"resolve", "target", "done"}
      PROVE  PipelineInv'
  <2>1. z \in Request
    BY <1>4 DEF RequestOK
  <2>2. {req[r].pc, z.pc} \cap (Talking \cup {"stream", "drop"}) = {}
    BY <1>0, <1>4 DEF Talking
  <2>3. PermitsOK' /\ held' \in [Providers -> SUBSET Requests]
    BY <1>2, <1>4, <2>1, <2>2, PermitKept
  <2> QED BY <1>2, <1>4, <2>3, StepKeeps
<1>5. CASE Admit(r)
  <2>1. PICK z : z = [Fresh EXCEPT !.pc = "resolve"]
    OBVIOUS
  <2>2. /\ z \in Request /\ z.pc = "resolve" /\ z.first = {} /\ z.verdict = None /\ z.answer = None
        /\ z.rows = 0 /\ z.finalized = FALSE /\ z.failures = NoFailure
    BY <1>3, <2>1, RequestFields DEF Fresh, Running
  <2>3. ~z.failures.sse /\ z.failures.rejection = None
    BY <2>2 DEF NoFailure
  <2>5. RequestOK(r, z)
    BY <2>2, <2>3, GatewayAssumption
    DEF RequestOK, PlaceOK, FailuresOK, BlameOK, AnswerOK, Talking, Leased, ServerErrors
  <2>4. StartsOK(z)
    BY <2>2 DEF StartsOK
  <2> QED BY <1>0, <1>1, <1>4, <1>5, <2>1, <2>2, <2>4, <2>5 DEF Admit
<1>6. CASE Refuse(r)
  <2>1. PICK z : z = [Fresh EXCEPT !.pc = "done", !.answer = "refused"]
    OBVIOUS
  <2>2. /\ z \in Request /\ z.pc = "done" /\ z.first = {} /\ z.verdict = None /\ z.answer = "refused"
        /\ z.rows = 0 /\ z.finalized = FALSE
    BY <1>3, <2>1, RequestFields DEF Fresh
  <2>3. RequestOK(r, z)
    BY <2>2, GatewayAssumption
    DEF RequestOK, PlaceOK, FailuresOK, BlameOK, AnswerOK, Talking, Leased, ServerErrors
  <2>4. StartsOK(z)
    BY <2>2 DEF StartsOK
  <2> QED BY <1>0, <1>1, <1>4, <1>6, <2>1, <2>2, <2>3, <2>4 DEF Refuse
<1>7. CASE Resolve(r)
  <2>1. PICK k : k = Offset(r)
    OBVIOUS
  <2>2. PICK n \in Nat \ {0} : n = Len(Route)
    BY RouteFacts
  <2>3. q.attempt \in Nat /\ q.first \in SUBSET (0..(n - 1))
    BY <1>1, <2>2, RequestFields, Bounds
  <2>4. k \in 0..(n - 1) /\ k \in Nat /\ (strategy = "priority" => k <= q.attempt)
    <3>1. q.attempt % n \in 0..(n - 1) /\ q.attempt % n <= q.attempt
      BY <2>3
    <3>2. k = IF strategy = "round_robin" THEN index ELSE q.attempt % n
      BY <1>0, <2>1, <2>2 DEF Offset
    <3> QED BY <1>1, <2>2, <3>1, <3>2
  <2>5. PICK z : z = [q EXCEPT !.pc = "target", !.left = RotateLeft(Route, k), !.first = @ \cup {k}]
    OBVIOUS
  <2>6. RotateLeft(Route, k) \in Lefts /\ RotateLeft(Route, k) # <<>>
    BY <2>4, Rotated
  <2>7. q.pc = "resolve" /\ Goto(r, z)
    BY <1>0, <1>7, <2>1, <2>5 DEF Resolve
  <2>8. /\ z \in Request /\ z.pc = "target" /\ z.left # <<>> /\ z.first = q.first \cup {k}
        /\ z.attempt = q.attempt /\ z.failures = q.failures /\ z.answer = q.answer
        /\ z.reply = q.reply /\ z.verdict = q.verdict /\ z.finalized = q.finalized /\ z.rows = q.rows
    <3>1. q.first \cup {k} \in SUBSET (0..(Len(Route) - 1))
      BY <2>2, <2>3, <2>4
    <3> QED BY <1>1, <2>5, <2>6, <3>1, RequestFields DEF Running
  <2>9. index' \in 0..(Len(Route) - 1)
    <3>1. (index + 1) % n \in 0..(n - 1)
      BY <1>1, <2>2
    <3> QED BY <1>1, <1>7, <2>2, <3>1 DEF Resolve
  <2>10. StartsOK(z)
    BY <1>1, <2>4, <2>7, <2>8 DEF StartsOK
  <2>11. ~q.failures.sse /\ q.failures.rejection = None
    BY <1>1, <2>7 DEF RequestOK, FailuresOK
  <2>12. RequestOK(r, z)
    BY <1>1, <2>7, <2>8, <2>11
    DEF RequestOK, PlaceOK, FailuresOK, BlameOK, AnswerOK, Talking, Leased, ServerErrors
  <2> QED BY <1>4, <2>7, <2>8, <2>9, <2>10, <2>12
<1>8. CASE ResolveFails(r)
  <2>1. PICK status, e :
            /\ status \in {"refused", "unavailable"}
            /\ q.pc = "resolve" /\ e = Ended(r, req[r], status) /\ Goto(r, e) /\ index' = index
    BY <1>0, <1>8 DEF ResolveFails
  <2>2. status \in Statuses \cup {"refused"}
    BY <2>1 DEF Statuses
  <2>3. Moved(q, e)
    BY <1>0, <1>1, <2>1, <2>2, EndedFields DEF Moved
  <2>4. Fair(q.verdict, q.reply) /\ e = Settled(e, q.verdict, q.reply)
    <3>1. q.verdict # "open"
      BY <1>1, <2>1 DEF RequestOK, PlaceOK, Leased, Talking
    <3>2. Fair(q.verdict, q.reply)
      BY <1>1, <3>1, RequestFields DEF Fair, RequestOK, BlameOK
    <3>3. e \in Request /\ e.verdict = q.verdict /\ e.reply = q.reply
      BY <2>3 DEF Moved, Same
    <3> QED BY <3>2, <3>3, RequestFields DEF Settled
  <2>5. Goto(r, Settled(e, q.verdict, q.reply))
    BY <2>1, <2>4
  <2>6. q.pc \in Running \ Talking
    BY <2>1 DEF Running, Talking
  <2> QED BY <1>0, <1>2, <2>1, <2>3, <2>4, <2>5, <2>6, LeavesTarget
<1>9. CASE BackoffOver(r)
  <2>1. PICK z : z = [q EXCEPT !.pc = "resolve", !.attempt = @ + 1, !.reply = None, !.verdict = None]
    OBVIOUS
  <2>2. q.pc = "backoff" /\ Goto(r, z) /\ index' = index
    BY <1>0, <1>9, <2>1 DEF BackoffOver
  <2>3. q.attempt + 1 < MaxAttempts /\ q.attempt \in Nat
    BY <1>1, <2>2, RequestFields, Bounds DEF RequestOK, PlaceOK
  <2>4. q.attempt + 1 \in 0..(MaxAttempts - 1)
    BY <2>3, Bounds
  <2>5. /\ z \in Request /\ z.pc = "resolve" /\ z.first = q.first /\ z.attempt = q.attempt + 1
        /\ z.failures = q.failures /\ z.answer = q.answer /\ z.reply = None /\ z.verdict = None
        /\ z.finalized = q.finalized /\ z.rows = q.rows
    BY <1>1, <2>1, <2>4, RequestFields DEF Running
  <2>6. RequestOK(r, z)
    BY <1>1, <2>2, <2>5, GatewayAssumption
    DEF RequestOK, PlaceOK, FailuresOK, BlameOK, AnswerOK, Talking, Leased, ServerErrors
  <2>7. \A x \in q.first : x \in Int
    BY <1>1, RequestFields
  <2>8. StartsOK(z)
    BY <1>1, <2>3, <2>5, <2>7 DEF StartsOK
  <2> QED BY <1>1, <1>4, <2>2, <2>5, <2>6, <2>8
<1> QED BY <1>5, <1>6, <1>7, <1>8, <1>9

-----------------------------------------------------------------------------
(* The target loop.                                                        *)

\* Failures stay failures when a target or a credential is given up.
LEMMA FailureUpdates ==
    ASSUME NEW f \in Failure, NEW s \in Statuses
    PROVE  /\ [f EXCEPT !.status = s] \in Failure
           /\ [f EXCEPT !.status = s, !.translation = TRUE] \in Failure
           /\ [f EXCEPT !.encodable = TRUE] \in Failure
BY DEF Failure

\* Records whose lease is settled, however it is written.
LEMMA SettledForms ==
    ASSUME NEW e \in Request, NEW v, NEW c
    PROVE  /\ [Settle(e, v) EXCEPT !.reply = c] = Settled(e, v, c)
           /\ e.reply = c => Settle(e, v) = Settled(e, v, c)
           /\ e.reply = c /\ e.verdict = v => e = Settled(e, v, c)
BY RequestFields DEF Settle, Settled

\* A target that is given up, with the lease settled as v.
LEMMA GivesUp ==
    ASSUME PipelineInv, NEW r \in Requests, req[r].pc \in {"target"} \cup Talking,
           NEW f \in Failure, NEW v, NEW c, Fair(v, c), NEW z, Goto(r, z),
           \/ z = [Settle(NextTarget(r, f), v) EXCEPT !.reply = c]
           \/ z = Settle(NextTarget(r, f), v) /\ c = req[r].reply
           \/ z = NextTarget(r, f) /\ c = req[r].reply /\ v = req[r].verdict,
           UNCHANGED <<strategy, index>>,
           Drop(r) \/ (held' = held /\ req[r].pc \notin Talking)
    PROVE  PipelineInv'
<1>1. req[r] \in Request /\ req[r].left # <<>> /\ req[r].pc \in Running
  BY Current DEF RequestOK, PlaceOK, Talking, Running
<1>2. PICK e : e = NextTarget(r, f)
  OBVIOUS
<1>3. Moved(req[r], e)
  BY <1>1, <1>2, NextTargetFields DEF Moved
<1>4. e \in Request /\ e.reply = req[r].reply /\ e.verdict = req[r].verdict
  BY <1>3 DEF Moved, Same
<1>5. z = Settled(e, v, c)
  BY <1>2, <1>4, SettledForms
<1>6. Goto(r, Settled(e, v, c))
  BY <1>5
<1> QED BY <1>1, <1>3, <1>6, LeavesTarget

\* The lease is not open before a target is prepared.
LEMMA NoLease ==
    ASSUME PipelineInv, NEW r \in Requests, req[r].pc \in Running \ Talking
    PROVE  Fair(req[r].verdict, req[r].reply)
<1>1. PICK q : q = req[r]
  OBVIOUS
<1>2. q \in Request /\ PlaceOK(q) /\ BlameOK(q)
  BY <1>1, Current DEF RequestOK
<1>3. q.verdict # "open"
  BY <1>1, <1>2 DEF PlaceOK, Leased, Talking, Running
<1>4. Fair(q.verdict, q.reply)
  BY <1>2, <1>3, RequestFields DEF Fair, BlameOK
<1> QED BY <1>1, <1>4

\* Targets that are skipped, for whatever reason.
LEMMA SkipSteps ==
    ASSUME PipelineInv, NEW r \in Requests, Skip(r) \/ SkipFull(r)
    PROVE  PipelineInv'
<1>1. PICK f : f = req[r].failures
  OBVIOUS
<1>2. f \in Failure /\ req[r].pc = "target" /\ UNCHANGED <<strategy, index, held>>
  BY <1>1, Current DEF Skip, SkipFull
<1>3. PICK g \in Failure : Goto(r, NextTarget(r, g))
  <2>1. /\ [f EXCEPT !.status = "bad_gateway"] \in Failure
        /\ [f EXCEPT !.status = "unavailable"] \in Failure
        /\ [f EXCEPT !.status = "bad_request", !.translation = TRUE] \in Failure
    BY <1>2, FailureUpdates DEF Statuses
  <2> QED BY <1>1, <1>2, <2>1 DEF Skip, SkipFull
<1>4. Fair(req[r].verdict, req[r].reply) /\ req[r].pc \notin Talking
  BY <1>2, NoLease DEF Running, Talking
<1> QED BY <1>2, <1>3, <1>4, GivesUp

\* The target is prepared.
LEMMA PrepareSteps ==
    ASSUME PipelineInv, NEW r \in Requests, Prepare(r)
    PROVE  PipelineInv'
<1>1. PICK q : q = req[r]
  OBVIOUS
<1>2. /\ q \in Request /\ RequestOK(r, q) /\ StartsOK(q) /\ q.failures \in Failure
      /\ index \in 0..(Len(Route) - 1) /\ q.pc = "target"
  BY <1>1, Current DEF Prepare
<1>3. PICK h : h = [q.failures EXCEPT !.encodable = TRUE]
  OBVIOUS
<1>4. h \in Failure /\ h.sse = q.failures.sse /\ h.rejection = q.failures.rejection
  BY <1>2, <1>3 DEF Failure
<1>5. PICK z : z = [q EXCEPT !.pc = "keys", !.failures = h, !.reply = None, !.verdict = "open"]
  OBVIOUS
<1>6. Goto(r, z)
  <2>1. z = [q EXCEPT !.pc = "keys", !.failures.encodable = TRUE, !.reply = None, !.verdict = "open"]
    BY <1>2, <1>3, <1>5, RequestFields
  <2> QED BY <1>1, <2>1 DEF Prepare
<1>7. /\ z \in Request /\ z.pc = "keys" /\ z.left = q.left /\ z.attempt = q.attempt /\ z.first = q.first
      /\ z.failures = h /\ z.reply = None /\ z.verdict = "open" /\ z.answer = q.answer
      /\ z.finalized = q.finalized /\ z.rows = q.rows
  BY <1>2, <1>4, <1>5, RequestFields DEF Running
<1>8. RequestOK(r, z) /\ StartsOK(z)
  BY <1>2, <1>4, <1>7
  DEF RequestOK, PlaceOK, FailuresOK, BlameOK, AnswerOK, Talking, Leased, ServerErrors, StartsOK
<1>9. PICK t : t = Target(r)
  OBVIOUS
<1>10. t \in Providers /\ t = Head(z.left)
  <2>1. q.left # <<>> /\ q.left \in Lefts
    BY <1>2, RequestFields DEF RequestOK, PlaceOK
  <2> QED BY <1>1, <1>7, <1>9, <2>1, FrontTarget DEF Target
<1>11. /\ held \in [Providers -> SUBSET Requests] /\ held' = [held EXCEPT ![t] = @ \cup {r}]
  BY <1>9 DEF PipelineInv, Prepare
<1>12. held' \in [Providers -> SUBSET Requests]
  BY <1>10, <1>11
<1>13. req'[r] = z /\ \A u \in Requests \ {r} : req'[u] = req[u]
  BY <1>6, <1>7, GotoEffect
<1>14. ASSUME NEW p \in Providers, NEW u \in Requests
       PROVE  u \in held[p] <=> \/ req[u].pc \in Talking /\ Target(u) = p
                                \/ req[u].pc \in {"stream", "drop"} /\ u \in held[p]
  BY DEF PipelineInv, PermitsOK, PermitFollowsTarget, Talking
<1>15. ASSUME NEW p \in Providers, NEW u \in Requests
       PROVE  u \in held'[p] <=> \/ req'[u].pc \in Talking /\ Target(u)' = p
                                 \/ req'[u].pc \in {"stream", "drop"} /\ u \in held'[p]
  <2>1. u \in held'[p] <=> u \in held[p] \/ (p = t /\ u = r)
    BY <1>10, <1>11
  <2>2. CASE u # r
    BY <1>13, <1>14, <2>1, <2>2 DEF Target
  <2>3. CASE u = r
    <3>1. r \notin held[p]
      BY <1>1, <1>2, <1>14 DEF Talking
    <3>2. Target(r)' = t
      BY <1>10, <1>13 DEF Target
    <3> QED BY <1>7, <1>13, <2>1, <2>3, <3>1, <3>2 DEF Talking
  <2> QED BY <2>2, <2>3
<1>16. PermitFollowsTarget'
  BY <1>12, <1>15 DEF PermitFollowsTarget, Talking
<1>17. ASSUME NEW u \in Requests, req'[u].pc = "stream" PROVE \E p \in Providers : u \in held'[p]
  <2>1. u # r /\ req[u].pc = "stream"
    BY <1>7, <1>13, <1>17
  <2>2. PICK p \in Providers : u \in held[p]
    BY <2>1 DEF PipelineInv, PermitsOK
  <2> QED BY <1>10, <1>11, <2>2
<1>18. PermitsOK'
  BY <1>16, <1>17 DEF PermitsOK
<1> QED BY <1>2, <1>6, <1>8, <1>12, <1>18, StepKeeps DEF Prepare

\* A request that goes on with its target keeps the permit and the lease.
LEMMA GoesOn ==
    ASSUME PipelineInv, NEW r \in Requests, NEW q, q = req[r], q.pc \in {"keys", "call"},
           NEW z \in Request, z.pc \in {"call", "respond"}, Goto(r, z), UNCHANGED <<strategy, index, held>>,
           z.left = q.left, z.attempt = q.attempt, z.first = q.first, z.verdict = q.verdict,
           z.answer = q.answer, z.finalized = q.finalized, z.rows = q.rows,
           FailuresOK(z), z.pc = "respond" => z.reply = "ok"
    PROVE  PipelineInv'
<1>1. RequestOK(r, q) /\ StartsOK(q) /\ index \in 0..(Len(Route) - 1)
  BY Current
<1>2. PermitsOK' /\ held' \in [Providers -> SUBSET Requests]
  BY PermitKept DEF Talking
<1>3. PlaceOK(z) /\ BlameOK(z)
  BY <1>1 DEF RequestOK, PlaceOK, BlameOK, Leased, Talking
<1>4. AnswerOK(r, z)
  BY <1>1 DEF RequestOK, AnswerOK
<1>5. StartsOK(z)
  BY <1>1 DEF StartsOK
<1>6. RequestOK(r, z)
  BY <1>3, <1>4 DEF RequestOK
<1> QED BY <1>1, <1>2, <1>5, <1>6, StepKeeps

\* A released lease fits any reply.
LEMMA ReleasedFair ==
    ASSUME NEW c \in {None, "ok", "fault", "refusal"}
    PROVE  Fair("released", c)
BY DEF Fair

\* The credentials of a target.
LEMMA RotationSteps ==
    ASSUME PipelineInv, NEW r \in Requests, StartRotation(r) \/ NoCredential(r) \/ CallSucceeds(r) \/ BuildFails(r)
    PROVE  PipelineInv'
<1>1. PICK q : q = req[r]
  OBVIOUS
<1>2. /\ q \in Request /\ RequestOK(r, q) /\ q.failures \in Failure
      /\ q.reply \in {None, "ok", "fault", "refusal"}
  BY <1>1, Current, RequestFields
<1>3. CASE StartRotation(r)
  <2>1. PICK n \in 1..MaxKeys : Goto(r, [q EXCEPT !.pc = "call", !.keys = n])
    BY <1>1, <1>3 DEF StartRotation
  <2>2. PICK z : z = [q EXCEPT !.pc = "call", !.keys = n]
    OBVIOUS
  <2>3. n \in 0..MaxKeys /\ q.pc = "keys" /\ Goto(r, z) /\ UNCHANGED <<strategy, index, held>>
    <3>1. n \in 0..MaxKeys
      BY <2>1, Bounds
    <3>2. q.pc = "keys" /\ UNCHANGED <<strategy, index, held>>
      BY <1>1, <1>3 DEF StartRotation
    <3> QED BY <2>1, <2>2, <3>1, <3>2
  <2>4. /\ z \in Request /\ z.pc = "call" /\ z.left = q.left /\ z.attempt = q.attempt /\ z.first = q.first
        /\ z.verdict = q.verdict /\ z.answer = q.answer /\ z.finalized = q.finalized /\ z.rows = q.rows
        /\ z.failures = q.failures
    BY <1>2, <2>2, <2>3, RequestFields DEF Running
  <2>5. FailuresOK(z)
    BY <1>2, <2>3, <2>4 DEF RequestOK, FailuresOK
  <2> QED BY <1>1, <2>3, <2>4, <2>5, GoesOn
<1>4. CASE CallSucceeds(r)
  <2>1. PICK z : z = [q EXCEPT !.pc = "respond", !.reply = "ok"]
    OBVIOUS
  <2>2. /\ z \in Request /\ z.pc = "respond" /\ z.left = q.left /\ z.attempt = q.attempt /\ z.first = q.first
        /\ z.verdict = q.verdict /\ z.answer = q.answer /\ z.finalized = q.finalized /\ z.rows = q.rows
        /\ z.reply = "ok"
    BY <1>2, <2>1, RequestFields DEF Running
  <2>3. FailuresOK(z)
    BY <2>2 DEF FailuresOK
  <2>4. q.pc = "call" /\ Goto(r, z) /\ UNCHANGED <<strategy, index, held>>
    BY <1>1, <1>4, <2>1 DEF CallSucceeds
  <2> QED BY <1>1, <2>2, <2>3, <2>4, GoesOn
<1>5. CASE NoCredential(r) \/ BuildFails(r)
  <2>1. PICK z : z = Settle(NextTarget(r, q.failures), "released")
    OBVIOUS
  <2>2. /\ q.pc \in Talking /\ Goto(r, z) /\ Drop(r) /\ UNCHANGED <<strategy, index>>
    BY <1>1, <1>5, <2>1 DEF NoCredential, BuildFails, Talking, Settle
  <2>3. Fair("released", q.reply)
    BY <1>2, ReleasedFair
  <2> QED BY <1>1, <1>2, <2>1, <2>2, <2>3, GivesUp
<1> QED BY <1>3, <1>4, <1>5

-----------------------------------------------------------------------------
(* The credentials of a target, one after the other.                       *)

\* A broken stream counts against the provider unless a key was rejected.
Blamed(f, c) ==
    /\ c \in {None, "ok", "fault", "refusal"}
    /\ f.sse /\ f.rejection = None => c = "fault"

LEMMA AdvanceStep ==
    ASSUME PipelineInv, NEW r \in Requests, req[r].pc = "call", NEW f \in Failure, NEW c,
           Blamed(f, c), Advance(r, f, c), UNCHANGED <<strategy, index>>
    PROVE  PipelineInv'
<1>1. PICK q : q = req[r]
  OBVIOUS
<1>2. q \in Request /\ RequestOK(r, q) /\ q.pc = "call"
  BY <1>1, Current
<1>3. CASE q.keys > 1
  <2>1. PICK z : z = [q EXCEPT !.keys = @ - 1, !.failures = f, !.reply = c]
    OBVIOUS
  <2>2. Goto(r, z) /\ held' = held
    BY <1>1, <1>3, <2>1 DEF Advance
  <2>3. q.keys - 1 \in 0..MaxKeys
    BY <1>2, <1>3, RequestFields, Bounds
  <2>4. /\ z \in Request /\ z.pc = "call" /\ z.left = q.left /\ z.attempt = q.attempt /\ z.first = q.first
        /\ z.verdict = q.verdict /\ z.answer = q.answer /\ z.finalized = q.finalized /\ z.rows = q.rows
        /\ z.failures = f /\ z.reply = c
    BY <1>2, <2>1, <2>3, RequestFields DEF Blamed
  <2>5. FailuresOK(z)
    BY <2>4 DEF FailuresOK, Blamed
  <2> QED BY <1>1, <1>2, <2>2, <2>4, <2>5, GoesOn
<1>4. CASE ~(q.keys > 1)
  <2>1. Goto(r, [OutOfKeys(r, f) EXCEPT !.reply = c]) /\ Drop(r)
    BY <1>1, <1>4 DEF Advance
  <2>2. PICK g \in Failure, v \in {"released", "failed"} :
            OutOfKeys(r, f) = Settle(NextTarget(r, g), v) /\ (v = "failed" => c = "fault")
    <3>1. /\ [f EXCEPT !.status = "quota"] \in Failure
          /\ [f EXCEPT !.status = "bad_gateway"] \in Failure
      BY FailureUpdates DEF Statuses
    <3>2. CASE f.rejection # None
      <4>1. PICK g \in Failure :
                g = [f EXCEPT !.status = IF f.rejection = "quota" THEN "quota" ELSE "bad_gateway"]
        BY <3>1
      <4> QED BY <3>2, <4>1 DEF OutOfKeys
    <3>3. CASE f.rejection = None /\ f.sse
      BY <3>1, <3>3 DEF OutOfKeys, Blamed
    <3>4. CASE f.rejection = None /\ ~f.sse
      BY <3>4 DEF OutOfKeys
    <3> QED BY <3>2, <3>3, <3>4
  <2>3. Fair(v, c)
    BY <2>2 DEF Fair, Blamed
  <2>4. PICK z : z = [Settle(NextTarget(r, g), v) EXCEPT !.reply = c]
    OBVIOUS
  <2>5. Goto(r, z)
    BY <2>1, <2>2, <2>4
  <2>6. req[r].pc \in {"target"} \cup Talking
    BY <1>1, <1>2 DEF Talking
  <2> QED BY <2>1, <2>3, <2>4, <2>5, <2>6, GivesUp
<1> QED BY <1>3, <1>4

\* Credentials that are skipped, rejected or give a broken stream.
LEMMA CredentialSteps ==
    ASSUME PipelineInv, NEW r \in Requests, SkipCredential(r) \/ KeyRejected(r) \/ StreamBreaks(r)
    PROVE  PipelineInv'
<1>1. PICK q, f : q = req[r] /\ f = q.failures
  OBVIOUS
<1>2. q \in Request /\ RequestOK(r, q) /\ f \in Failure /\ q.pc = "call" /\ UNCHANGED <<strategy, index>>
  BY <1>1, Current DEF SkipCredential, KeyRejected, StreamBreaks
<1>3. PICK g, c : g \in Failure /\ Blamed(g, c) /\ Advance(r, g, c)
  <2>1. CASE SkipCredential(r)
    <3>1. PICK g : g = [f EXCEPT !.status = "quota"]
      OBVIOUS
    <3>2. g \in Failure /\ g.sse = f.sse /\ g.rejection = f.rejection
      BY <1>2, <3>1 DEF Failure, Statuses
    <3>3. Blamed(f, q.reply)
      BY <1>1, <1>2, RequestFields DEF Blamed, RequestOK, FailuresOK
    <3>4. Blamed(g, q.reply)
      BY <3>2, <3>3 DEF Blamed
    <3> QED BY <1>1, <1>2, <2>1, <3>1, <3>2, <3>3, <3>4 DEF SkipCredential
  <2>2. CASE KeyRejected(r)
    <3>1. PICK reply \in {"auth", "quota"} : Advance(r, [f EXCEPT !.rejection = reply], Class(reply))
      BY <1>1, <2>2 DEF KeyRejected
    <3>2. PICK g : g = [f EXCEPT !.rejection = reply]
      OBVIOUS
    <3>3. g \in Failure /\ g.rejection = reply
      BY <1>2, <3>1, <3>2 DEF Failure
    <3>4. reply # None
      BY <3>1, GatewayAssumption
    <3>5. Class(reply) = "refusal"
      BY <3>1 DEF Class, Faults
    <3> QED BY <3>1, <3>2, <3>3, <3>4, <3>5 DEF Blamed
  <2>3. CASE StreamBreaks(r)
    <3>1. PICK g : g = [f EXCEPT !.sse = TRUE, !.status = IF r \in Streaming THEN "bad_gateway" ELSE @]
      OBVIOUS
    <3>2. g \in Failure
      BY <1>2, <3>1 DEF Failure, Statuses
    <3>3. Class("broken") = "fault"
      BY DEF Class, Faults
    <3> QED BY <1>1, <2>3, <3>1, <3>2, <3>3 DEF Blamed, StreamBreaks
  <2> QED BY <2>1, <2>2, <2>3
<1> QED BY <1>1, <1>2, <1>3, AdvanceStep

-----------------------------------------------------------------------------
(* The end of a call, of a stream and of a request.                        *)

\* A call fails for good, or its response is unusable.
LEMMA FailedCallSteps ==
    ASSUME PipelineInv, NEW r \in Requests, PreflightFails(r) \/ CallFails(r) \/ Unusable(r)
    PROVE  PipelineInv'
<1>1. PICK q, f : q = req[r] /\ f = q.failures
  OBVIOUS
<1>2. q \in Request /\ f \in Failure /\ q.pc \in Talking /\ Drop(r) /\ UNCHANGED <<strategy, index>>
  BY <1>1, Current DEF PreflightFails, CallFails, Unusable, Talking
<1>3. q.pc \in Running
  BY <1>2 DEF Talking, Running
<1>4. ASSUME NEW g \in Failure, NEW v, NEW c, Fair(v, c),
             Goto(r, [Settle(Terminal(r, g), v) EXCEPT !.reply = c])
      PROVE  PipelineInv'
  <2>1. PICK e : e = Terminal(r, g)
    OBVIOUS
  <2>2. Moved(req[r], e)
    BY <1>1, <1>2, <1>4, <2>1, TerminalFields DEF Moved
  <2>3. e \in Request
    BY <2>2 DEF Moved, Same
  <2>4. Goto(r, Settled(e, v, c))
    BY <1>4, <2>1, <2>3, SettledForms
  <2> QED BY <1>1, <1>2, <1>3, <1>4, <2>2, <2>4, LeavesTarget
<1>5. ASSUME NEW g \in Failure, NEW v, NEW c, Fair(v, c),
             Goto(r, [Settle(NextTarget(r, g), v) EXCEPT !.reply = c])
      PROVE  PipelineInv'
  BY <1>1, <1>2, <1>5, GivesUp
<1>6. CASE PreflightFails(r)
  <2>1. PICK status \in {"client", "quota", "bad_gateway"} :
            Goto(r, [Settle(Terminal(r, [f EXCEPT !.status = status]), "failed") EXCEPT !.reply = "fault"])
    BY <1>1, <1>6 DEF PreflightFails
  <2>2. [f EXCEPT !.status = status] \in Failure
    BY <1>2, <2>1, FailureUpdates DEF Statuses
  <2>3. Fair("failed", "fault")
    BY DEF Fair
  <2> QED BY <1>4, <2>1, <2>2, <2>3
<1>7. CASE CallFails(r)
  <2>1. PICK reply, g, z :
            /\ reply \in Replies \ {"ok", "broken", "preflight"}
            /\ g = [f EXCEPT !.status = StatusFor(reply)]
            /\ z = IF FailsOver(reply) THEN NextTarget(r, g) ELSE Terminal(r, g)
            /\ Goto(r, [Settle(z, VerdictFor(reply)) EXCEPT !.reply = Class(reply)])
    BY <1>1, <1>7 DEF CallFails
  <2>2. StatusFor(reply) \in Statuses
    BY <2>1 DEF StatusFor, Statuses
  <2>3. g \in Failure
    BY <1>2, <2>1, <2>2, FailureUpdates
  <2>4. Fair(VerdictFor(reply), Class(reply))
    BY <2>1 DEF Fair, VerdictFor, Class, Replies, Faults
  <2> QED BY <1>4, <1>5, <2>1, <2>3, <2>4
<1>8. CASE Unusable(r)
  <2>1. Goto(r, [Settle(NextTarget(r, [f EXCEPT !.status = "bad_gateway"]), "failed") EXCEPT !.reply = "fault"])
    BY <1>1, <1>8 DEF Unusable
  <2>2. [f EXCEPT !.status = "bad_gateway"] \in Failure
    BY <1>2, FailureUpdates DEF Statuses
  <2>3. Fair("failed", "fault")
    BY DEF Fair
  <2> QED BY <1>5, <2>1, <2>2, <2>3
<1> QED BY <1>6, <1>7, <1>8

\* A request whose lease is dropped open.
LEMMA ReleasedFields ==
    ASSUME NEW q \in Request, BlameOK(q), NEW d, d = Released(q)
    PROVE  /\ d \in Request /\ Fair(d.verdict, q.reply)
           /\ d.attempt = q.attempt /\ d.reply = q.reply /\ d.first = q.first /\ d.pc = q.pc
           /\ d.finalized = q.finalized /\ d.rows = q.rows /\ d.answer = q.answer
           /\ d.failures = q.failures /\ d.left = q.left
<1>1. CASE q.verdict = "open"
  <2>1. d = [q EXCEPT !.verdict = "released"]
    BY <1>1 DEF Released, Settle
  <2> QED BY <2>1, RequestFields DEF Fair
<1>2. CASE q.verdict # "open"
  <2>1. d = q
    BY <1>2 DEF Released
  <2> QED BY <1>2, <2>1, RequestFields DEF Fair, BlameOK
<1> QED BY <1>1, <1>2

\* Rounds that are broken off: storage fails, the deadline, the client.
LEMMA BrokenOffSteps ==
    ASSUME PipelineInv, NEW r \in Requests, StorageFails(r) \/ Deadline(r) \/ Disconnect(r)
    PROVE  PipelineInv'
<1>1. PICK q, d : q = req[r] /\ d = Released(q)
  OBVIOUS
<1>2. q \in Request /\ BlameOK(q) /\ q.pc \in Running /\ Drop(r) /\ UNCHANGED <<strategy, index>>
  BY <1>1, Current DEF RequestOK, StorageFails, Deadline, Disconnect, Running
<1>3. /\ d \in Request /\ Fair(d.verdict, q.reply)
      /\ d.attempt = q.attempt /\ d.reply = q.reply /\ d.first = q.first
      /\ d.finalized = q.finalized /\ d.rows = q.rows /\ d.answer = q.answer
  BY <1>1, <1>2, ReleasedFields
<1>4. PICK e : Goto(r, e) /\ Same(d, e) /\ Over(d, e)
  <2>1. CASE StorageFails(r)
    <3>1. PICK e : e = Ended(r, d, "unavailable")
      OBVIOUS
    <3>2. Same(d, e) /\ Over(d, e)
      BY <1>1, <1>3, <3>1, EndedFields DEF Statuses
    <3> QED BY <1>1, <2>1, <3>1, <3>2 DEF StorageFails
  <2>2. CASE Deadline(r) \/ Disconnect(r)
    <3>1. PICK a \in {"timeout", "gone"} : Goto(r, Closed(d, "done", a))
      BY <1>1, <2>2 DEF Deadline, Disconnect, Dropped
    <3>2. PICK e : e = Closed(d, "done", a)
      OBVIOUS
    <3>3. /\ e \in Request /\ e.pc = "done" /\ e.answer = a /\ e.first = {}
          /\ e.attempt = d.attempt /\ e.reply = d.reply /\ e.verdict = d.verdict
          /\ e.finalized = d.finalized /\ e.rows = d.rows
      BY <1>3, <3>1, <3>2, ClosedFields
    <3>4. Same(d, e) /\ Over(d, e)
      BY <3>1, <3>3 DEF Same, Over, ServerErrors
    <3> QED BY <3>1, <3>2, <3>4
  <2> QED BY <2>1, <2>2
<1>5. PICK s : s = Settled(e, q.verdict, q.reply)
  OBVIOUS
<1>6. /\ s \in Request /\ s.pc = e.pc /\ s.attempt = e.attempt /\ s.reply = q.reply /\ s.verdict = q.verdict
      /\ s.finalized = e.finalized /\ s.rows = e.rows /\ s.first = e.first /\ s.answer = e.answer
      /\ s.failures = e.failures
  <2>1. e \in Request /\ q.verdict \in {None, "open", "succeeded", "failed", "released"}
        /\ q.reply \in {None, "ok", "fault", "refusal"}
    BY <1>2, <1>4, RequestFields DEF Same
  <2> QED BY <1>5, <2>1, RequestFields DEF Settled
<1>7. Moved(q, s)
  BY <1>3, <1>4, <1>6 DEF Moved, Same, Over
<1>8. e = Settled(s, d.verdict, q.reply)
  <2>1. e \in Request /\ e.verdict = d.verdict /\ e.reply = q.reply
    BY <1>3, <1>4 DEF Same
  <2> QED BY <1>5, <2>1, RequestFields DEF Settled
<1>9. Goto(r, Settled(s, d.verdict, q.reply))
  BY <1>4, <1>8
<1> QED BY <1>1, <1>2, <1>3, <1>7, <1>9, LeavesTarget

\* A stream that has ended and is logged.
Logged(q, v, c) == [q EXCEPT !.verdict = v, !.pc = "drop", !.finalized = TRUE, !.rows = @ + 1, !.reply = c]

\* Answers: decoded at once, or streamed and logged.
LEMMA AnswerSteps ==
    ASSUME PipelineInv, NEW r \in Requests, Decoded(r) \/ StreamOpens(r) \/ Finalize(r) \/ DropLog(r)
    PROVE  PipelineInv'
<1>1. PICK q : q = req[r]
  OBVIOUS
<1>2. /\ q \in Request /\ RequestOK(r, q) /\ StartsOK(q) /\ index \in 0..(Len(Route) - 1)
      /\ UNCHANGED <<strategy, index>>
  BY <1>1, Current DEF Decoded, StreamOpens, Finalize, DropLog
<1>3. ASSUME NEW z, Goto(r, z), RequestOK(r, z), StartsOK(z),
             PermitsOK' /\ held' \in [Providers -> SUBSET Requests]
      PROVE  PipelineInv'
  BY <1>2, <1>3, StepKeeps
<1>4. CASE Decoded(r)
  <2>1. PICK s, z : s = [q EXCEPT !.verdict = "succeeded"] /\ z = Closed(s, "done", "ok")
    OBVIOUS
  <2>2. q.pc = "respond" /\ r \notin Streaming /\ Drop(r) /\ Goto(r, z)
    BY <1>1, <1>4, <2>1 DEF Decoded, Settle
  <2>3. /\ s \in Request /\ s.verdict = "succeeded" /\ s.reply = q.reply /\ s.attempt = q.attempt
        /\ s.finalized = q.finalized /\ s.rows = q.rows
    BY <1>2, <2>1, RequestFields
  <2>4. /\ z \in Request /\ z.pc = "done" /\ z.answer = "ok" /\ z.first = {}
        /\ z.reply = q.reply /\ z.verdict = "succeeded" /\ z.rows = q.rows
    <3>1. z = Closed(s, "done", "ok") /\ s \in Request
      BY <2>1, <2>3
    <3>2. /\ z \in Request /\ z.pc = "done" /\ z.answer = "ok" /\ z.first = {}
          /\ z.reply = s.reply /\ z.verdict = s.verdict /\ z.rows = s.rows
      BY <3>1, ClosedFields
    <3> QED BY <2>3, <3>2
  <2>5. q.reply = "ok" /\ q.rows = 0
    BY <1>2, <2>2 DEF RequestOK, PlaceOK, AnswerOK
  <2>6. RequestOK(r, z) /\ StartsOK(z)
    BY <2>2, <2>4, <2>5
    DEF RequestOK, PlaceOK, FailuresOK, BlameOK, AnswerOK, Talking, Leased, ServerErrors, StartsOK
  <2>7. PermitsOK' /\ held' \in [Providers -> SUBSET Requests]
    BY <2>2, <2>4, PermitDropped DEF Talking
  <2> QED BY <1>3, <2>2, <2>6, <2>7
<1>5. CASE StreamOpens(r)
  <2>1. PICK z : z = Closed(q, "stream", "ok")
    OBVIOUS
  <2>2. q.pc = "respond" /\ r \in Streaming /\ held' = held /\ Goto(r, z)
    BY <1>1, <1>5, <2>1 DEF StreamOpens
  <2>3. /\ z \in Request /\ z.pc = "stream" /\ z.answer = "ok" /\ z.first = {}
        /\ z.reply = q.reply /\ z.verdict = q.verdict /\ z.rows = q.rows /\ z.finalized = q.finalized
    BY <1>2, <2>1, ClosedFields
  <2>4. q.reply = "ok" /\ q.rows = 0 /\ ~q.finalized /\ q.verdict = "open"
    BY <1>2, <2>2 DEF RequestOK, PlaceOK, AnswerOK, Leased, Talking
  <2>5. RequestOK(r, z) /\ StartsOK(z)
    BY <2>2, <2>3, <2>4
    DEF RequestOK, PlaceOK, FailuresOK, BlameOK, AnswerOK, Talking, Leased, ServerErrors, StartsOK
  <2>6. PermitsOK' /\ held' \in [Providers -> SUBSET Requests]
    BY <1>1, <2>2, <2>3, PermitKept
  <2> QED BY <1>3, <2>2, <2>5, <2>6
<1>6. CASE Finalize(r)
  <2>1. PICK v \in {"succeeded", "failed"}, c \in {"ok", "fault"} :
            /\ Goto(r, Logged(q, v, c)) /\ (v = "failed" => c = "fault") /\ (v = "succeeded" => c = "ok")
    <3>1. q.reply = "ok"
      BY <1>1, <1>2, <1>6 DEF Finalize, RequestOK, PlaceOK
    <3>2. [Settle(q, "succeeded") EXCEPT !.pc = "drop", !.finalized = TRUE, !.rows = @ + 1]
          = Logged(q, "succeeded", "ok")
      BY <1>2, <3>1, RequestFields DEF Settle, Logged
    <3>3. [Settle(q, "failed") EXCEPT !.pc = "drop", !.finalized = TRUE, !.rows = @ + 1, !.reply = "fault"]
          = Logged(q, "failed", "fault")
      BY <1>2, RequestFields DEF Settle, Logged
    <3>4. \/ Goto(r, [Settle(q, "succeeded") EXCEPT !.pc = "drop", !.finalized = TRUE, !.rows = @ + 1])
          \/ Goto(r, [Settle(q, "failed") EXCEPT !.pc = "drop", !.finalized = TRUE, !.rows = @ + 1, !.reply = "fault"])
      BY <1>1, <1>6 DEF Finalize
    <3> QED BY <3>2, <3>3, <3>4
  <2>2. q.pc = "stream" /\ held' = held
    BY <1>1, <1>6 DEF Finalize
  <2>7. PICK z : z = Logged(q, v, c) /\ Goto(r, z)
    BY <2>1
  <2>3. q.answer = "ok" /\ r \in Streaming /\ q.rows = 0
    BY <1>2, <2>2 DEF RequestOK, AnswerOK
  <2>4. /\ z \in Request /\ z.pc = "drop" /\ z.answer = "ok" /\ z.first = q.first /\ z.attempt = q.attempt
        /\ z.reply = c /\ z.verdict = v /\ z.rows = 1 /\ z.finalized = TRUE
    <3>1. /\ v \in {None, "open", "succeeded", "failed", "released"}
          /\ c \in {None, "ok", "fault", "refusal"} /\ q.rows + 1 = 1 /\ 1 \in Nat
      BY <2>1, <2>3
    <3>2. z = [q EXCEPT !.verdict = v, !.pc = "drop", !.finalized = TRUE, !.rows = 1, !.reply = c]
      BY <1>2, <2>7, <3>1 DEF Logged
    <3> QED BY <1>2, <2>3, <3>1, <3>2, RequestFields
  <2>5. RequestOK(r, z) /\ StartsOK(z)
    BY <1>2, <2>1, <2>2, <2>3, <2>4
    DEF RequestOK, PlaceOK, FailuresOK, BlameOK, AnswerOK, Talking, Leased, ServerErrors, StartsOK
  <2>6. PermitsOK' /\ held' \in [Providers -> SUBSET Requests]
    BY <1>1, <2>2, <2>4, <2>7, PermitKept
  <2> QED BY <1>3, <2>5, <2>6, <2>7
<1>7. CASE DropLog(r)
  <2>1. PICK d, n, z : /\ d = Released(q) /\ n = (IF q.finalized THEN q.rows ELSE q.rows + 1)
                       /\ z = [d EXCEPT !.pc = "done", !.rows = n]
    OBVIOUS
  <2>2. /\ d \in Request /\ Fair(d.verdict, q.reply)
        /\ d.attempt = q.attempt /\ d.reply = q.reply /\ d.first = q.first
        /\ d.finalized = q.finalized /\ d.rows = q.rows /\ d.answer = q.answer
    BY <1>2, <2>1, ReleasedFields DEF RequestOK
  <2>3. q.pc \in {"stream", "drop"} /\ Drop(r)
    BY <1>1, <1>7 DEF DropLog
  <2>4. Goto(r, z)
    <3>1. z = [Released(q) EXCEPT !.pc = "done", !.rows = IF q.finalized THEN @ ELSE @ + 1]
      BY <2>1, <2>2, RequestFields
    <3> QED BY <1>1, <1>7, <3>1 DEF DropLog
  <2>5. q.answer = "ok" /\ r \in Streaming /\ n = 1
    BY <1>2, <2>1, <2>3 DEF RequestOK, AnswerOK
  <2>6. /\ z \in Request /\ z.pc = "done" /\ z.answer = "ok" /\ z.first = q.first /\ z.attempt = q.attempt
        /\ z.reply = q.reply /\ z.verdict = d.verdict /\ z.rows = 1
    <3>1. z = [d EXCEPT !.pc = "done", !.rows = 1] /\ 1 \in Nat
      BY <2>1, <2>5
    <3> QED BY <2>2, <2>5, <3>1, RequestFields
  <2>7. z.verdict # "open"
    BY <2>2, <2>6, GatewayAssumption DEF Fair
  <2>8. RequestOK(r, z) /\ StartsOK(z)
    BY <1>2, <2>2, <2>3, <2>5, <2>6, <2>7
    DEF RequestOK, PlaceOK, FailuresOK, BlameOK, AnswerOK, Talking, Leased, ServerErrors, StartsOK, Fair
  <2>9. PermitsOK' /\ held' \in [Providers -> SUBSET Requests]
    BY <2>3, <2>4, <2>6, PermitDropped DEF Talking
  <2> QED BY <1>3, <2>4, <2>8, <2>9
<1> QED BY <1>4, <1>5, <1>6, <1>7

-----------------------------------------------------------------------------
(* The theorems.                                                           *)

\* The invariant holds at the start.
LEMMA PipelineStart == Init => PipelineInv
<1> SUFFICES ASSUME Init PROVE PipelineInv
  OBVIOUS
<1>1. Fresh \in Request /\ Len(Route) \in Nat \ {0}
  BY Bounds, RouteFacts, RequestFields DEF Fresh
<1>2. /\ strategy \in Strategies /\ index \in 0..(Len(Route) - 1)
      /\ held \in [Providers -> SUBSET Requests] /\ req \in [Requests -> Request]
  BY <1>1 DEF Init
<1>3. ASSUME NEW r \in Requests PROVE RequestOK(r, req[r]) /\ StartsOK(req[r])
  <2>1. PICK q : q = req[r] /\ q = Fresh
    BY DEF Init
  <2>2. /\ q \in Request /\ q.pc = "idle" /\ q.first = {} /\ q.verdict = None /\ q.answer = None
        /\ q.rows = 0 /\ q.finalized = FALSE
    BY <1>1, <2>1 DEF Fresh
  <2>3. RequestOK(r, q) /\ StartsOK(q)
    BY <2>2, GatewayAssumption
    DEF RequestOK, PlaceOK, FailuresOK, BlameOK, AnswerOK, Talking, Leased, ServerErrors, StartsOK
  <2> QED BY <2>1, <2>3
<1>4. \A r \in Requests : req[r].pc = "idle"
  BY DEF Init, Fresh
<1>5. \A p \in Providers : held[p] = {}
  BY DEF Init
<1>6. PermitsOK
  BY <1>4, <1>5 DEF PermitsOK, PermitFollowsTarget
<1> QED BY <1>2, <1>3, <1>6 DEF PipelineInv

\* Every step keeps the invariant.
LEMMA PipelineStep == PipelineInv /\ [Next]_vars => PipelineInv'
<1> SUFFICES ASSUME PipelineInv, [Next]_vars PROVE PipelineInv'
  OBVIOUS
<1>1. ASSUME NEW r \in Requests, Admit(r) \/ Refuse(r) \/ Step(r) \/ Deadline(r) \/ Disconnect(r)
      PROVE  PipelineInv'
  BY <1>1, RoundSteps, SkipSteps, PrepareSteps, RotationSteps, CredentialSteps, FailedCallSteps,
     BrokenOffSteps, AnswerSteps DEF Step
<1>2. CASE UNCHANGED vars
  BY <1>2 DEF vars, PipelineInv, PermitsOK, PermitFollowsTarget, Target, StartsOK, RequestOK, PlaceOK,
              FailuresOK, BlameOK, AnswerOK
<1> QED BY <1>1, <1>2 DEF Next, AllDone

\* What the invariant says of permits, blame and rows.
LEMMA PipelineMeans == PipelineInv => PipelineSound /\ ServerErrorsRetried
<1> SUFFICES ASSUME PipelineInv PROVE PipelineSound /\ ServerErrorsRetried
  OBVIOUS
<1>1. TypeOK /\ PermitFollowsTarget
  BY DEF PipelineInv, PermitsOK, TypeOK
<1>2. ASSUME NEW r \in Requests
      PROVE  /\ req[r].verdict = "failed" => req[r].reply = "fault"
             /\ req[r].verdict = "succeeded" => req[r].reply = "ok"
             /\ req[r].answer \in ServerErrors => req[r].attempt = MaxAttempts - 1
  BY Current DEF RequestOK, BlameOK, AnswerOK
<1>3. ASSUME NEW r \in Requests, req[r].verdict = "open"
      PROVE  \E p \in Providers : r \in held[p]
  <2>1. req[r].pc \in Leased /\ req[r] \in Request /\ PlaceOK(req[r])
    BY <1>3, Current DEF RequestOK, PlaceOK
  <2>2. CASE req[r].pc = "stream"
    BY <2>2 DEF PipelineInv, PermitsOK
  <2>3. CASE req[r].pc \in Talking
    <3>1. req[r].left # <<>> /\ req[r].left \in Lefts
      BY <2>1, <2>3, RequestFields DEF PlaceOK
    <3>2. Target(r) \in Providers
      BY <3>1, FrontTarget DEF Target
    <3> QED BY <1>1, <2>3, <3>2 DEF PermitFollowsTarget, Talking
  <2> QED BY <2>1, <2>2, <2>3 DEF Leased
<1>4. ASSUME NEW r \in Requests
      PROVE  req[r].rows = IF req[r].answer = "ok" /\ r \in Streaming
                              /\ req[r].pc \in {"drop", "done"} THEN 1 ELSE 0
  <2>1. AnswerOK(r, req[r])
    BY Current DEF RequestOK
  <2> QED BY <2>1 DEF AnswerOK
<1> QED BY <1>1, <1>2, <1>3, <1>4 DEF PipelineSound, BlameProvider, OneRowPerStream, ServerErrorsRetried

\* A request holds a slot of its target only, charges a provider with its own
\* faults only, and logs a stream exactly once, whatever the interleaving of
\* failovers, retries, deadlines and disconnects (orchestrator.rs, flow.rs).
THEOREM PipelineIsSound == Spec => []PipelineSound
<1>1. PipelineInv => PipelineSound
  BY PipelineMeans
<1> QED BY <1>1, PipelineStart, PipelineStep, PTL DEF Spec

\* A step moves one request.
LEMMA MovesOne ==
    ASSUME NEW u, Admit(u) \/ Refuse(u) \/ Step(u) \/ Deadline(u) \/ Disconnect(u)
    PROVE  \E x : Goto(u, x)
<1>1. CASE Admit(u) \/ Refuse(u) \/ Resolve(u) \/ ResolveFails(u) \/ BackoffOver(u)
  BY <1>1, Zenon DEF Admit, Refuse, Resolve, ResolveFails, BackoffOver
<1>2. CASE Skip(u) \/ SkipFull(u) \/ Prepare(u) \/ StorageFails(u) \/ StartRotation(u) \/ NoCredential(u)
  BY <1>2, Zenon DEF Skip, SkipFull, Prepare, StorageFails, StartRotation, NoCredential
<1>3. CASE SkipCredential(u) \/ KeyRejected(u) \/ StreamBreaks(u)
  BY <1>3, Zenon DEF SkipCredential, KeyRejected, StreamBreaks, Advance
<1>4. CASE BuildFails(u) \/ PreflightFails(u) \/ CallFails(u) \/ CallSucceeds(u) \/ Unusable(u)
  BY <1>4, Zenon DEF BuildFails, PreflightFails, CallFails, CallSucceeds, Unusable
<1>5. CASE Decoded(u) \/ StreamOpens(u) \/ Finalize(u) \/ DropLog(u) \/ Deadline(u) \/ Disconnect(u)
  BY <1>5, Zenon DEF Decoded, StreamOpens, Finalize, DropLog, Deadline, Disconnect, Dropped
<1> QED BY <1>1, <1>2, <1>3, <1>4, <1>5 DEF Step

\* A request goes from resolution to its targets by resolving them.
LEMMA TargetsResolved ==
    ASSUME PipelineInv, [Next]_vars, NEW r \in Requests, req[r].pc = "resolve", req'[r].pc = "target"
    PROVE  Resolve(r)
<1>1. req \in [Requests -> Request]
  BY DEF PipelineInv
<1>2. PICK u \in Requests : Admit(u) \/ Refuse(u) \/ Step(u) \/ Deadline(u) \/ Disconnect(u)
  BY DEF Next, AllDone, vars
<1>3. u = r
  <2>1. PICK x : Goto(u, x)
    BY <1>2, MovesOne
  <2>2. u # r => req'[r] = req[r]
    BY <1>1, <2>1 DEF Goto
  <2> QED BY <2>2
<1>4. Resolve(r) \/ ResolveFails(r) \/ Deadline(r) \/ Disconnect(r)
  BY <1>2, <1>3
  DEF Step, Admit, Refuse, BackoffOver, Skip, SkipFull, Prepare, StorageFails, StartRotation, NoCredential,
      SkipCredential, KeyRejected, StreamBreaks, BuildFails, PreflightFails, CallFails, CallSucceeds, Unusable,
      Decoded, StreamOpens, Finalize, DropLog
<1>5. PICK q, d : q = req[r] /\ d = Released(q) /\ q \in Request /\ BlameOK(q)
  BY Current DEF RequestOK
<1>6. ASSUME ResolveFails(r) PROVE FALSE
  <2>1. PICK status, e : status \in {"refused", "unavailable"} /\ e = Ended(r, q, status) /\ Goto(r, e)
    BY <1>5, <1>6 DEF ResolveFails
  <2>2. Same(q, e) /\ Over(q, e)
    BY <1>5, <2>1, EndedFields DEF Statuses
  <2>3. req'[r] = e
    BY <2>1, <2>2, GotoEffect DEF Same
  <2> QED BY <2>2, <2>3 DEF Over
<1>7. ASSUME Deadline(r) \/ Disconnect(r) PROVE FALSE
  <2>1. PICK a, e : a \in {"timeout", "gone"} /\ e = Closed(d, "done", a) /\ Goto(r, e)
    BY <1>5, <1>7 DEF Deadline, Disconnect, Dropped
  <2>2. d \in Request
    BY <1>5, ReleasedFields
  <2>3. e \in Request /\ e.pc = "done"
    BY <2>1, <2>2, ClosedFields
  <2>4. req'[r] = e
    BY <2>1, <2>3, GotoEffect
  <2> QED BY <2>3, <2>4
<1> QED BY <1>4, <1>6, <1>7

\* No server error reaches the client with attempts left, and a retry on a
\* priority route starts at a target the request has not started at
\* (execute_with_server_retries, resolve_gateway_targets).
THEOREM RetriesAreDisciplined == Spec => RetryDiscipline
<1>1. PipelineInv => ServerErrorsRetried
  BY PipelineMeans
<1>2. ASSUME PipelineInv, [Next]_vars, NEW r \in Requests,
             strategy = "priority", req[r].attempt < Len(Route),
             req[r].pc = "resolve", req'[r].pc = "target"
      PROVE  req'[r].first # req[r].first
  <2>1. Resolve(r)
    BY <1>2, TargetsResolved
  <2>2. PICK q, k : q = req[r] /\ k = Offset(r)
    OBVIOUS
  <2>3. q \in Request /\ StartsOK(q)
    BY <1>2, <2>2, Current
  <2>4. k = q.attempt /\ q.attempt \in Nat
    <3>1. q.attempt \in Nat /\ Len(Route) \in Nat \ {0}
      BY <2>3, RequestFields, Bounds, RouteFacts
    <3>2. k = q.attempt % Len(Route)
      BY <1>2, <2>2 DEF Offset
    <3> QED BY <1>2, <2>2, <3>1, <3>2
  <2>5. k \notin q.first
    BY <1>2, <2>2, <2>3, <2>4 DEF StartsOK
  <2>6. req'[r].first = q.first \cup {k}
    <3>1. req \in [Requests -> Request]
      BY <1>2 DEF PipelineInv
    <3>2. PICK z : z = [q EXCEPT !.pc = "target", !.left = RotateLeft(Route, k), !.first = @ \cup {k}]
      OBVIOUS
    <3>3. req'[r] = z
      BY <2>1, <2>2, <3>1, <3>2 DEF Resolve, Goto
    <3> QED BY <2>3, <3>2, <3>3, RequestFields
  <2> QED BY <2>2, <2>5, <2>6
<1>3. PipelineInv /\ [Next]_vars =>
        [\A r \in Requests :
             /\ strategy = "priority" /\ req[r].attempt < Len(Route)
             /\ req[r].pc = "resolve" /\ req'[r].pc = "target"
             => req'[r].first # req[r].first]_vars
  BY <1>2
<1> QED BY <1>1, <1>3, PipelineStart, PipelineStep, PTL DEF Spec, RetryDiscipline, RetriesRotate
=============================================================================
