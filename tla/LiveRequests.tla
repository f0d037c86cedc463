---------------------------- MODULE LiveRequests ----------------------------
(***************************************************************************)
(* The live view of running requests: state/request_live.rs and the event  *)
(* stream of admin/request_logs.rs.                                        *)
(*                                                                         *)
(* A registry under one lock keeps a row for each running request, up to a *)
(* limit, and counts the others.  Every change is broadcast.  A viewer     *)
(* subscribes, reads a snapshot and then applies events; the broadcast     *)
(* keeps only so many, and a viewer that falls behind is told that it      *)
(* lagged and continues with the oldest event kept.                        *)
(*                                                                         *)
(* Providers and log records of a request are numbered in the order they   *)
(* come up, 0 is null.  `log` and `tokens` are the id and the token counts *)
(* of the latest record, `detail` the rest a row takes from it: credential,*)
(* model and protocols.  An update carries no detail.                      *)
(***************************************************************************)
EXTENDS Integers, Sequences, FiniteSets

CONSTANTS
    Requests, MaxLive,
    EventCapacity,         \* events the broadcast keeps for a slow viewer
    Attempts               \* bound: providers a request tries, and log records it writes

ASSUME LiveAssumption == MaxLive \in Nat /\ EventCapacity \in Nat \ {0} /\ Attempts \in Nat

VARIABLES
    entry,        \* the registry: a row for each tracked request
    untracked,    \* untracked_active
    truncated,
    phase,        \* of each request: new, tracked, uncounted (beyond the limit) or over
    unread,       \* events kept for the viewer
    lagged,       \* older ones were overwritten
    viewer        \* [at, snapshot, rows, count, truncated]

liveVars == <<entry, untracked, truncated, phase, unread, lagged, viewer>>

NoRow == [provider |-> 0, log |-> 0, tokens |-> 0, detail |-> 0, on |-> FALSE]
NoSnapshot == [rows |-> [r \in Requests |-> NoRow], count |-> 0, truncated |-> FALSE]

LiveInit ==
    /\ entry = [r \in Requests |-> NoRow] /\ untracked = 0 /\ truncated = FALSE
    /\ phase = [r \in Requests |-> "new"]
    /\ unread = <<>> /\ lagged = FALSE
    /\ viewer = [at |-> "off", snapshot |-> NoSnapshot, shown |-> NoSnapshot]

Tracked(e) == {r \in Requests : e[r].on}
\* active_request_count
ActiveCount(e, n) == Cardinality(Tracked(e)) + n
Snapshot == [rows |-> entry, count |-> ActiveCount(entry, untracked), truncated |-> truncated]

\* Mutant: the subscription begins with the first event that is asked for.
SubscribedLate == viewer.at = "live"
Subscribed == viewer.at # "off"

\* The broadcast overwrites its oldest event when it is full.
Send(events) ==
    LET all == unread \o events
        over == Len(all) - EventCapacity
    IN IF ~Subscribed THEN UNCHANGED <<unread, lagged>>
       ELSE /\ unread' = IF over > 0 THEN SubSeq(all, over + 1, Len(all)) ELSE all
            /\ lagged' = (lagged \/ over > 0)

Started(r, row, n) == [type |-> "started", id |-> r, row |-> row, count |-> n, truncated |-> FALSE]
Updated(r, row) == [type |-> "updated", id |-> r, row |-> [row EXCEPT !.detail = 0], count |-> 0, truncated |-> FALSE]
Finished(r, n) == [type |-> "finished", id |-> r, row |-> NoRow, count |-> n, truncated |-> FALSE]
Capacity(t, n) == [type |-> "capacity", id |-> "", row |-> NoRow, count |-> n, truncated |-> t]

-----------------------------------------------------------------------------
\* RequestLiveRegistry::start
StartRequest(r) ==
    /\ phase[r] = "new"
    /\ IF Cardinality(Tracked(entry)) < MaxLive
       THEN LET row == [NoRow EXCEPT !.on = TRUE]
                e == [entry EXCEPT ![r] = row]
            IN /\ entry' = e /\ phase' = [phase EXCEPT ![r] = "tracked"]
               /\ Send(<<Started(r, row, ActiveCount(e, untracked))>>)
               /\ UNCHANGED <<untracked, truncated>>
       ELSE /\ untracked' = untracked + 1 /\ truncated' = TRUE
            /\ phase' = [phase EXCEPT ![r] = "uncounted"]
            /\ Send(<<Capacity(TRUE, ActiveCount(entry, untracked + 1))>>)
            /\ UNCHANGED entry
    /\ UNCHANGED viewer

\* update_provider: the next target that is prepared; an untracked request
\* has no row
UpdateProvider(r) ==
    /\ phase[r] = "tracked" /\ entry[r].provider < Attempts
    /\ LET row == [entry[r] EXCEPT !.provider = @ + 1]
       IN entry' = [entry EXCEPT ![r] = row] /\ Send(<<Updated(r, row)>>)
    /\ UNCHANGED <<untracked, truncated, phase, viewer>>

\* update_log: a log record, of an attempt or of a request without one
UpdateLog(r) ==
    /\ phase[r] = "tracked" /\ entry[r].log < Attempts
    /\ LET n   == entry[r].log + 1
           row == [entry[r] EXCEPT !.log = n, !.tokens = n, !.detail = n]
       IN entry' = [entry EXCEPT ![r] = row] /\ Send(<<Updated(r, row)>>)
    /\ UNCHANGED <<untracked, truncated, phase, viewer>>

\* finish, when the last guard of the request is dropped
FinishUncounted(r) ==
    /\ phase[r] = "uncounted" /\ untracked > 0
    /\ untracked' = untracked - 1 /\ truncated' = (untracked' > 0)
    /\ phase' = [phase EXCEPT ![r] = "over"]
    /\ Send(<<Capacity(truncated', ActiveCount(entry, untracked'))>>)
    /\ UNCHANGED <<entry, viewer>>
FinishTracked(r) ==
    /\ phase[r] = "tracked"
    /\ LET e == [entry EXCEPT ![r] = NoRow]
           finished == Finished(r, ActiveCount(e, untracked))
       IN /\ entry' = e /\ truncated' = (untracked > 0)
          /\ Send(IF truncated # truncated' THEN <<finished, Capacity(truncated', ActiveCount(e, untracked))>>
                  ELSE <<finished>>)
    /\ phase' = [phase EXCEPT ![r] = "over"]
    /\ UNCHANGED <<untracked, viewer>>

-----------------------------------------------------------------------------
registry == <<entry, untracked, truncated, phase>>
\* request_events: subscribe, then read the snapshot, then yield it
Subscribe ==
    /\ viewer.at = "off" /\ viewer' = [viewer EXCEPT !.at = "subscribed"]
    /\ unread' = <<>> /\ lagged' = FALSE /\ UNCHANGED registry
TakeSnapshot ==
    /\ viewer.at = "subscribed" /\ viewer' = [viewer EXCEPT !.at = "taken", !.snapshot = Snapshot]
    /\ UNCHANGED <<registry, unread, lagged>>
ShowSnapshot ==
    /\ viewer.at = "taken"
    /\ viewer' = [at |-> "live", snapshot |-> NoSnapshot, shown |-> viewer.snapshot]
    /\ UNCHANGED <<registry, unread, lagged>>

\* An update replaces the provider and the token counts, and the log id
\* unless it is null.
Merged(row, new) ==
    [row EXCEPT !.provider = new.provider, !.tokens = new.tokens,
                !.log = IF new.log = 0 THEN @ ELSE new.log]

\* What the dashboard makes of an event (request.state.ts).
Applied(v, e) ==
    CASE e.type = "started" -> [v EXCEPT !.rows[e.id] = e.row, !.count = e.count]
      [] e.type = "updated" -> [v EXCEPT !.rows[e.id] = IF @.on THEN Merged(@, e.row) ELSE @]
      [] e.type = "finished" -> [v EXCEPT !.rows[e.id] = NoRow, !.count = e.count]
      [] e.type = "capacity" -> [v EXCEPT !.truncated = e.truncated, !.count = e.count]
ReceiveEvent ==
    /\ viewer.at = "live" /\ ~lagged /\ unread # <<>>
    /\ viewer' = [viewer EXCEPT !.shown = Applied(@, Head(unread))]
    /\ unread' = Tail(unread) /\ UNCHANGED <<registry, lagged>>

\* RecvError::Lagged: a new snapshot, and then the events still kept
ReceiveLagged ==
    /\ viewer.at = "live" /\ lagged /\ lagged' = FALSE
    /\ viewer' = [viewer EXCEPT !.shown = Snapshot]
    /\ UNCHANGED <<registry, unread>>

\* The stream ends after five minutes, or the connection breaks; the client
\* connects again.
Disconnect ==
    /\ viewer.at # "off" /\ viewer' = [at |-> "off", snapshot |-> NoSnapshot, shown |-> NoSnapshot]
    /\ unread' = <<>> /\ lagged' = FALSE /\ UNCHANGED registry

LiveNext ==
    \/ \E r \in Requests : StartRequest(r) \/ UpdateProvider(r) \/ UpdateLog(r) \/ FinishTracked(r) \/ FinishUncounted(r)
    \/ Subscribe \/ TakeSnapshot \/ ShowSnapshot \/ ReceiveEvent \/ ReceiveLagged \/ Disconnect
LiveSpec == LiveInit /\ [][LiveNext]_liveVars

-----------------------------------------------------------------------------
(***************************************************************************)
(* The registry counts every running request once, with a row or without,  *)
(* and says "truncated" exactly while some of them have no row.            *)
(***************************************************************************)
RegistryExact ==
    /\ Tracked(entry) = {r \in Requests : phase[r] = "tracked"}
    /\ untracked = Cardinality({r \in Requests : phase[r] = "uncounted"})
    /\ truncated = (untracked > 0)
    /\ Cardinality(Tracked(entry)) <= MaxLive /\ Len(unread) <= EventCapacity

\* Two rows show the same request in the same state, but for the detail.
Agree(a, b) == a.on = b.on /\ a.provider = b.provider /\ a.log = b.log /\ a.tokens = b.tokens

(***************************************************************************)
(* A viewer that has applied everything sent to it shows what the registry *)
(* holds, whatever raced its snapshot and however often it lagged ("Sub-   *)
(* scribe before taking the snapshot so events that race the initial read  *)
(* remain queued", request_logs.rs:273): replaying events that are older   *)
(* than a snapshot does no lasting harm.  What no update carries may be    *)
(* that of an earlier record of the same request, never of a later one.    *)
(***************************************************************************)
ViewConverges ==
    viewer.at = "live" /\ unread = <<>> /\ ~lagged =>
        /\ viewer.shown.count = ActiveCount(entry, untracked) /\ viewer.shown.truncated = truncated
        /\ \A r \in Requests : /\ Agree(viewer.shown.rows[r], entry[r])
                               /\ entry[r].on => viewer.shown.rows[r].detail <= entry[r].detail

\* The live view: the registry accounts for every running request, and a
\* viewer of request_events that has read all its events shows it.
LiveViewSound ==
    /\ RegistryExact
    /\ ViewConverges
=============================================================================
