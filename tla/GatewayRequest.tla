--------------------------- MODULE GatewayRequest ---------------------------
(***************************************************************************)
(* A gateway request from admission to answer: the middleware              *)
(* require_api_key (src/gateway/routes.rs), the deadline and the retry     *)
(* loop of src/gateway/flow.rs, and the target loop of                     *)
(* src/gateway/execution/orchestrator.rs with the stages it calls.         *)
(*                                                                         *)
(* One round of the pipeline walks the route's targets in order.  A target *)
(* is skipped, or it is prepared: the request then holds the provider's    *)
(* bulkhead permit and a circuit lease, and calls the provider with one    *)
(* credential after the other.  A round that ends in a server error is     *)
(* repeated, with the targets rotated, up to MaxAttempts times.            *)
(*                                                                         *)
(* Which keys there are, whether a circuit admits and what continuity does *)
(* with a stream are the subject of KeyRotation, CircuitBreaker and        *)
(* StreamContinuity; here they are choices.                                *)
(***************************************************************************)
EXTENDS Naturals, Sequences, FiniteSets

CONSTANTS Requests,
          Streaming,      \* the requests with "stream": true
          Route,          \* providers of the enabled targets, in failover order
          Strategies,     \* of "priority" and "round_robin"
          ProviderLimit,  \* slots of one provider
          MaxKeys,        \* bound on the credentials of a provider
          MaxAttempts,    \* server_retry_max_attempts
          None

Providers == {Route[i] : i \in 1..Len(Route)}

ASSUME GatewayAssumption ==
    /\ IsFiniteSet(Requests) /\ Streaming \subseteq Requests
    /\ Route \in Seq(Providers) /\ Route # <<>>
    /\ None \notin Providers \cup {"ok", "auth", "quota", "bad_gateway", "unavailable",
                                   "open", "succeeded", "failed"}
    /\ Strategies \subseteq {"priority", "round_robin"} /\ Strategies # {}
    /\ {ProviderLimit, MaxKeys, MaxAttempts} \subseteq Nat \ {0}

VARIABLES strategy,  \* of the route
          index,     \* gates.round_robin, of which only the remainder is used
          held,      \* provider -> requests that have its bulkhead permit
          req        \* request -> where it is, see Request

vars == <<strategy, index, held, req>>

\* What a provider can do with a call.
Replies == {"ok", "quota", "auth", "rejected", "request_timeout", "redirect",
            "server_error", "transport", "broken", "preflight"}
Faults == {"request_timeout", "server_error", "transport", "broken", "preflight"}
\* How the calls of a lease went so far, for BlameProvider.
Class(reply) == CASE reply = "ok" -> "ok" [] reply \in Faults -> "fault" [] OTHER -> "refusal"
Statuses == {"bad_request", "client", "quota", "bad_gateway", "unavailable"}
ServerErrors == {"bad_gateway", "unavailable"}

\* TargetLoopFailures::new.
NoFailure == [status |-> "bad_gateway", translation |-> FALSE,
              encodable |-> FALSE, rejection |-> None, sse |-> FALSE]

\* A request that has not arrived.  `reply` and `verdict` are the class of
\* the last reply under the current lease and what became of the lease.
Fresh == [pc |-> "idle", attempt |-> 0, first |-> {}, left |-> <<>>, keys |-> 0,
          failures |-> NoFailure, answer |-> None, reply |-> None, verdict |-> None,
          finalized |-> FALSE, rows |-> 0]

Init ==
    /\ strategy \in Strategies
    /\ index = 0
    /\ held = [p \in Providers |-> {}]
    /\ req = [r \in Requests |-> Fresh]

Goto(r, q) == req' = [req EXCEPT ![r] = q]
Target(r) == Head(req[r].left)
\* What becomes of the circuit lease; one that is dropped open is released.
Settle(q, verdict) == [q EXCEPT !.verdict = verdict]
Released(q) == IF q.verdict = "open" THEN Settle(q, "released") ELSE q
Drop(r) == held' = [p \in Providers |-> held[p] \ {r}]

-----------------------------------------------------------------------------
(* Admission and the retry loop.                                           *)

\* require_api_key lets the request in, or refuses it: no valid key, the
\* key's rate limit, the in-flight limit, the queue for body processing.
Admit(r) ==
    /\ req[r].pc = "idle"
    /\ Goto(r, [Fresh EXCEPT !.pc = "resolve"])
    /\ UNCHANGED <<strategy, index, held>>

Refuse(r) ==
    /\ req[r].pc = "idle"
    /\ Goto(r, [Fresh EXCEPT !.pc = "done", !.answer = "refused"])
    /\ UNCHANGED <<strategy, index, held>>

RotateLeft(s, n) == [i \in 1..Len(s) |-> s[((i - 1 + n) % Len(s)) + 1]]

\* Mutant: every attempt starts at the preferred target.
OffsetIgnored(r) == IF strategy = "round_robin" THEN index ELSE 0
\* A round-robin route starts each round one target further, whoever runs
\* it; the other routes start each retry of a request one target further.
Offset(r) == IF strategy = "round_robin" THEN index ELSE req[r].attempt % Len(Route)

\* resolve_gateway_targets, under the lock of the round-robin indexes.
Resolve(r) ==
    /\ req[r].pc = "resolve"
    /\ Goto(r, [req[r] EXCEPT !.pc = "target",
                              !.left = RotateLeft(Route, Offset(r)),
                              !.first = @ \cup {Offset(r)}])
    /\ index' = IF strategy = "round_robin" THEN (index + 1) % Len(Route) ELSE index
    /\ UNCHANGED <<strategy, held>>

LastAttempt(r) == req[r].attempt + 1 >= MaxAttempts

\* The locals of a round are gone when it returns; whether some target was
\* encodable is remembered with a 400, for BadRequestMeansUnencodable.
Cleared(q) == [q EXCEPT !.left = <<>>, !.keys = 0, !.failures = NoFailure]
Closed(q, pc, answer) ==
    [Cleared(q) EXCEPT !.pc = pc, !.answer = answer, !.first = {},
                       !.failures.encodable = answer = "bad_request" /\ q.failures.encodable]

\* execute_with_server_retries looks at the response of a round: a server
\* error is tried again after a pause, anything else goes to the client.
Retries(r, status) == status \in ServerErrors /\ ~LastAttempt(r)
Ended(r, q, status) ==
    IF Retries(r, status) THEN [Cleared(q) EXCEPT !.pc = "backoff"]
                          ELSE Closed(q, "done", status)

\* Preparation fails for good (bad body, no such route, key scope), or for
\* now (no usable target), or storage does not answer.
ResolveFails(r) ==
    /\ req[r].pc = "resolve"
    /\ \E status \in {"refused", "unavailable"} :
        Goto(r, Ended(r, req[r], status))
    /\ UNCHANGED <<strategy, index, held>>

BackoffOver(r) ==
    /\ req[r].pc = "backoff"
    /\ Goto(r, [req[r] EXCEPT !.pc = "resolve", !.attempt = @ + 1,
                              !.reply = None, !.verdict = None])
    /\ UNCHANGED <<strategy, index, held>>

-----------------------------------------------------------------------------
(* The target loop.                                                        *)

\* final_failure_response.
FinalStatus(f) == IF f.translation /\ ~f.encodable THEN "bad_request" ELSE f.status

\* On to the next target, or out of the loop with the recorded failure.
NextTarget(r, f) ==
    LET q == [req[r] EXCEPT !.failures = [f EXCEPT !.rejection = None, !.sse = FALSE],
                            !.left = Tail(@), !.keys = 0, !.pc = "target"]
    IN  IF q.left = <<>> THEN Ended(r, q, FinalStatus(f)) ELSE q
\* Out of the loop at once.
Terminal(r, f) == Ended(r, req[r], FinalStatus(f))

Full(p) == Cardinality(held[p]) >= ProviderLimit

\* prepare_target gives the target up: the provider is gone, disabled or
\* misconfigured or its circuit is open (the recorded status stays what it
\* was), its input could not be prepared, or it cannot express the request.
Skip(r) ==
    /\ req[r].pc = "target"
    /\ LET f == req[r].failures IN
       \/ Goto(r, NextTarget(r, f))
       \/ Goto(r, NextTarget(r, [f EXCEPT !.status = "bad_gateway"]))
       \/ Goto(r, NextTarget(r, [f EXCEPT !.status = "bad_request", !.translation = TRUE]))
    /\ UNCHANGED <<strategy, index, held>>

\* try_provider_permit finds the provider full; the lease is dropped.
SkipFull(r) ==
    /\ req[r].pc = "target"
    /\ Full(Target(r))
    /\ Goto(r, NextTarget(r, [req[r].failures EXCEPT !.status = "unavailable"]))
    /\ UNCHANGED <<strategy, index, held>>

\* The target is prepared: the request has the permit and a lease.
Prepare(r) ==
    /\ req[r].pc = "target"
    /\ ~Full(Target(r))
    /\ held' = [held EXCEPT ![Target(r)] = @ \cup {r}]
    /\ Goto(r, [req[r] EXCEPT !.pc = "keys", !.failures.encodable = TRUE,
                              !.reply = None, !.verdict = "open"])
    /\ UNCHANGED <<strategy, index>>

\* CredentialRotation::start.
StartRotation(r) ==
    /\ req[r].pc = "keys"
    /\ \E n \in 1..MaxKeys : Goto(r, [req[r] EXCEPT !.pc = "call", !.keys = n])
    /\ UNCHANGED <<strategy, index, held>>

\* ... finds no usable credential: permit and lease go, the status stays.
NoCredential(r) ==
    /\ req[r].pc = "keys"
    /\ Drop(r)
    /\ Goto(r, [NextTarget(r, req[r].failures) EXCEPT !.verdict = "released"])
    /\ UNCHANGED <<strategy, index>>

\* Storage fails while a provider, its keys or a mark is read or written:
\* the round ends with the storage error.
StorageFails(r) ==
    /\ req[r].pc \in {"target", "keys", "call"}
    /\ Drop(r)
    /\ Goto(r, Ended(r, Released(req[r]), "unavailable"))
    /\ UNCHANGED <<strategy, index>>

-----------------------------------------------------------------------------
(* Calling the provider: dispatch_target, send_request, classify_response. *)

\* all_credentials_rejected.
OutOfKeys(r, f) ==
    IF f.rejection # None
    THEN Settle(NextTarget(r, [f EXCEPT !.status = IF f.rejection = "quota" THEN "quota"
                                                   ELSE "bad_gateway"]), "released")
    ELSE IF f.sse
    THEN Settle(NextTarget(r, [f EXCEPT !.status = "bad_gateway"]), "failed")
    ELSE Settle(NextTarget(r, f), "released")

\* The rotation advances with f recorded.
Advance(r, f, class) ==
    IF req[r].keys > 1
    THEN /\ Goto(r, [req[r] EXCEPT !.keys = @ - 1, !.failures = f, !.reply = class])
         /\ UNCHANGED held
    ELSE /\ Goto(r, [OutOfKeys(r, f) EXCEPT !.reply = class])
         /\ Drop(r)

\* The credential is not sent: its account is in a quota cooldown, or its
\* secret or token cannot be had.
SkipCredential(r) ==
    /\ req[r].pc = "call"
    /\ LET f == req[r].failures IN
       \/ Advance(r, [f EXCEPT !.status = "quota"], req[r].reply)
       \/ Advance(r, f, req[r].reply)
    /\ UNCHANGED <<strategy, index>>

\* A stored key is rejected or over its quota.
KeyRejected(r) ==
    /\ req[r].pc = "call"
    /\ \E reply \in {"auth", "quota"} :
        Advance(r, [req[r].failures EXCEPT !.rejection = reply], Class(reply))
    /\ UNCHANGED <<strategy, index>>

\* The stream breaks before its first output; only a streaming request has
\* a status recorded for it at this point.
StreamBreaks(r) ==
    /\ req[r].pc = "call"
    /\ LET f == req[r].failures IN
       Advance(r, [f EXCEPT !.sse = TRUE,
                            !.status = IF r \in Streaming THEN "bad_gateway" ELSE @], Class("broken"))
    /\ UNCHANGED <<strategy, index>>

\* build_upstream_request fails: next target, nothing recorded but the error.
BuildFails(r) ==
    /\ req[r].pc = "call"
    /\ Drop(r)
    /\ Goto(r, Settle(NextTarget(r, req[r].failures), "released"))
    /\ UNCHANGED <<strategy, index>>

\* The adapter's preparatory call fails: the lease counts a failure and the
\* loop ends, with the status of that call.
PreflightFails(r) ==
    /\ req[r].pc = "call"
    /\ Drop(r)
    /\ \E status \in {"client", "quota", "bad_gateway"} :
        Goto(r, [Settle(Terminal(r, [req[r].failures EXCEPT !.status = status]), "failed")
                    EXCEPT !.reply = "fault"])
    /\ UNCHANGED <<strategy, index>>

\* unsuccessful_status and transport_failure, reply by reply.
StatusFor(reply) ==
    CASE reply = "quota" -> "quota"
      [] reply = "rejected" -> "client"
      [] OTHER -> "bad_gateway"
VerdictFor(reply) ==
    IF reply \in {"server_error", "request_timeout", "transport"} THEN "failed" ELSE "released"
\* can_fail_over_after_provider_rejection.
FailsOver(reply) == reply \notin {"request_timeout", "redirect"}

CallFails(r) ==
    /\ req[r].pc = "call"
    /\ Drop(r)
    /\ \E reply \in Replies \ {"ok", "broken", "preflight"} :
        LET f == [req[r].failures EXCEPT !.status = StatusFor(reply)]
            q == IF FailsOver(reply) THEN NextTarget(r, f) ELSE Terminal(r, f)
        IN  Goto(r, [Settle(q, VerdictFor(reply)) EXCEPT !.reply = Class(reply)])
    /\ UNCHANGED <<strategy, index>>

\* A successful status: the response is handed to stream_response or
\* decode_response, still under permit and lease.
CallSucceeds(r) ==
    /\ req[r].pc = "call"
    /\ Goto(r, [req[r] EXCEPT !.pc = "respond", !.reply = "ok"])
    /\ UNCHANGED <<strategy, index, held>>

\* Mutant: the permit of an unusable response stays with the request.
UnusableKeepsPermit(r) ==
    /\ req[r].pc = "respond"
    /\ Goto(r, [Settle(NextTarget(r, [req[r].failures EXCEPT !.status = "bad_gateway"]), "failed")
                    EXCEPT !.reply = "fault"])
    /\ UNCHANGED <<strategy, index, held>>

\* The body is not an event stream, cannot be read or cannot be decoded.
Unusable(r) ==
    /\ req[r].pc = "respond"
    /\ Drop(r)
    /\ Goto(r, [Settle(NextTarget(r, [req[r].failures EXCEPT !.status = "bad_gateway"]), "failed")
                    EXCEPT !.reply = "fault"])
    /\ UNCHANGED <<strategy, index>>

Decoded(r) ==
    /\ req[r].pc = "respond"
    /\ r \notin Streaming
    /\ Drop(r)
    /\ Goto(r, Closed(Settle(req[r], "succeeded"), "done", "ok"))
    /\ UNCHANGED <<strategy, index>>

-----------------------------------------------------------------------------
(* The streaming answer: StreamLog keeps permit and lease.                 *)

StreamOpens(r) ==
    /\ req[r].pc = "respond"
    /\ r \in Streaming
    /\ Goto(r, Closed(req[r], "stream", "ok"))
    /\ UNCHANGED <<strategy, index, held>>

\* The stream reaches its terminal event, or fails: log_completed_stream,
\* log_failed_stream.
Finalize(r) ==
    /\ req[r].pc = "stream"
    /\ \/ Goto(r, [Settle(req[r], "succeeded") EXCEPT
                        !.pc = "drop", !.finalized = TRUE, !.rows = @ + 1])
       \/ Goto(r, [Settle(req[r], "failed") EXCEPT
                        !.pc = "drop", !.finalized = TRUE, !.rows = @ + 1, !.reply = "fault"])
    /\ UNCHANGED <<strategy, index, held>>

\* The StreamLog is dropped: after its finalization, or because the client
\* has gone or the gateway shuts down.
DropLog(r) ==
    /\ req[r].pc \in {"stream", "drop"}
    /\ Drop(r)
    /\ Goto(r, [Released(req[r]) EXCEPT !.pc = "done",
                                        !.rows = IF req[r].finalized THEN @ ELSE @ + 1])
    /\ UNCHANGED <<strategy, index>>

-----------------------------------------------------------------------------
(* Interruptions.                                                          *)

Running == {"resolve", "target", "keys", "call", "respond", "backoff"}

Dropped(r, answer) ==
    Goto(r, Closed(Released(req[r]), "done", answer))

\* Mutant: streaming requests have no deadline, as their HTTP client has none.
DeadlineUnlessStreaming(r) ==
    /\ req[r].pc \in Running
    /\ r \notin Streaming
    /\ Drop(r)
    /\ Dropped(r, "timeout")
    /\ UNCHANGED <<strategy, index>>

\* The total deadline: the future of the whole retry loop is dropped.
Deadline(r) ==
    /\ req[r].pc \in Running
    /\ Drop(r)
    /\ Dropped(r, "timeout")
    /\ UNCHANGED <<strategy, index>>

\* The client goes away before it has an answer.
Disconnect(r) ==
    /\ req[r].pc \in Running
    /\ Drop(r)
    /\ Dropped(r, "gone")
    /\ UNCHANGED <<strategy, index>>

AllDone == (\A r \in Requests : req[r].pc = "done") /\ UNCHANGED vars

Step(r) ==
    \/ Resolve(r) \/ ResolveFails(r) \/ BackoffOver(r)
    \/ Skip(r) \/ SkipFull(r) \/ Prepare(r) \/ StorageFails(r)
    \/ StartRotation(r) \/ NoCredential(r)
    \/ SkipCredential(r) \/ KeyRejected(r) \/ StreamBreaks(r) \/ BuildFails(r)
    \/ PreflightFails(r) \/ CallFails(r) \/ CallSucceeds(r)
    \/ Unusable(r) \/ Decoded(r) \/ StreamOpens(r) \/ Finalize(r) \/ DropLog(r)

Next ==
    \/ \E r \in Requests : \/ Admit(r) \/ Refuse(r) \/ Step(r)
                           \/ Deadline(r) \/ Disconnect(r)
    \/ AllDone

Spec == Init /\ [][Next]_vars

\* The deadline's timer fires, and a stream ends: the reader's idle timeout
\* sees to a provider that has gone silent, the connection to a client that
\* has.  Nothing else is assumed: a provider may hang, storage may be slow.
FairSpec ==
    Spec /\ \A r \in Requests : WF_vars(Deadline(r)) /\ WF_vars(Finalize(r) \/ DropLog(r))

-----------------------------------------------------------------------------
(* Properties.                                                             *)

Request == [pc : Running \cup {"idle", "stream", "drop", "done"},
            attempt : 0..(MaxAttempts - 1),
            first : SUBSET (0..(Len(Route) - 1)),
            left : UNION {[1..n -> Providers] : n \in 0..Len(Route)},
            keys : 0..MaxKeys,
            failures : [status : Statuses, translation : BOOLEAN,
                        encodable : BOOLEAN, rejection : {None, "auth", "quota"},
                        sse : BOOLEAN],
            answer : Statuses \cup {None, "ok", "refused", "timeout", "gone"},
            reply : {None, "ok", "fault", "refusal"},
            verdict : {None, "open", "succeeded", "failed", "released"},
            finalized : BOOLEAN,
            rows : Nat]

\* Types; in particular a request runs at most MaxAttempts rounds.
TypeOK ==
    /\ strategy \in Strategies
    /\ index \in 0..(Len(Route) - 1)
    /\ held \in [Providers -> SUBSET Requests]
    /\ req \in [Requests -> Request]

\* A request holds the slot of a provider exactly while it talks to it: not
\* of a target it has left, not during a backoff, not after the deadline, and
\* for a stream until its log is dropped.
PermitFollowsTarget ==
    \A p \in Providers : held[p] =
        {r \in Requests : \/ req[r].pc \in {"keys", "call", "respond"} /\ Target(r) = p
                          \/ req[r].pc \in {"stream", "drop"} /\ r \in held[p]}

\* A lease charges the provider with a failure only for a fault of the
\* provider: never for a rejected call, a quota, a client that has gone or
\* the deadline (an adapter's preparatory call that fails is a fault whatever
\* its status, as dispatch_target has it).  A lease is open only while the
\* request has the provider's slot, and a success only if the call was one.
BlameProvider ==
    \A r \in Requests :
        /\ req[r].verdict = "failed" => req[r].reply = "fault"
        /\ req[r].verdict = "succeeded" => req[r].reply = "ok"
        /\ req[r].verdict = "open" => \E p \in Providers : r \in held[p]

\* "retrying request before responding to client": a server error of the
\* pipeline reaches the client only after the last attempt.
ServerErrorsRetried ==
    \A r \in Requests :
        req[r].answer \in ServerErrors => req[r].attempt = MaxAttempts - 1

\* The rounds of a request to a priority route start at different targets
\* as long as there are some it has not started at.
RetriesRotate ==
    [][\A r \in Requests :
         /\ strategy = "priority" /\ req[r].attempt < Len(Route)
         /\ req[r].pc = "resolve" /\ req'[r].pc = "target"
         => req'[r].first # req[r].first]_vars

\* "Every statistics event ... has a request-log row behind it", for the
\* streams: whatever ends a stream, exactly one row is written for it.
OneRowPerStream ==
    \A r \in Requests : req[r].rows = IF req[r].answer = "ok" /\ r \in Streaming
                                         /\ req[r].pc \in {"drop", "done"} THEN 1 ELSE 0

\* Every admitted request ends, and with it all it holds, even when every
\* provider hangs: the deadline covers all rounds and pauses.
RequestsEnd == \A r \in Requests : req[r].pc = "resolve" ~> req[r].pc = "done"

\* "the request shape is not encodable for any provider; the final status
\* becomes BAD_REQUEST": a 400 that the gateway itself issues means that no
\* target of the round could express the request.
BadRequestMeansUnencodable ==
    \A r \in Requests : req[r].answer = "bad_request" => ~req[r].failures.encodable

\* What a request holds, reports and logs while execute_with_server_retries
\* moves it from target to target: a permit for its target only, failures of
\* the provider's own making only, and one row for a stream.
PipelineSound ==
    /\ TypeOK
    /\ PermitFollowsTarget
    /\ BlameProvider
    /\ OneRowPerStream

\* The retry loop of flow.rs: no server error reaches the client with attempts
\* left, and a retry starts at another target.
RetryDiscipline ==
    /\ [](ServerErrorsRetried)
    /\ RetriesRotate
=============================================================================
