----------------------------- MODULE Publisher -----------------------------
(***************************************************************************)
(* The MQTT publisher (src/mqtt.rs): a worker puts messages into a bounded *)
(* channel without waiting; a task of the runtime drives the client's      *)
(* event loop, which connects, transmits and is told of acknowledgements;  *)
(* the two share the state of the connection.  Dropping the publisher      *)
(* aborts the task.                                                        *)
(*                                                                         *)
(* The client library is external: what it took from the channel it sends  *)
(* again after a reconnect, until the broker acknowledges it (QoS 1).      *)
(***************************************************************************)
EXTENDS Integers, Sequences, FiniteSets, SequencesExt

CONSTANTS
    OneShot,        \* the publisher of a poll-once, not of the republisher
    Capacity,       \* OUTBOUND_CHANNEL_CAPACITY
    BackoffInitial, BackoffMax,
    MaxBatch,       \* bound: samples of a poll cycle
    MaxMessages,    \* bound: messages in all
    MaxSessions     \* bound: connections that are accepted; the last one holds

ASSUME PublisherAssumption ==
    /\ OneShot \in BOOLEAN
    /\ {Capacity, BackoffInitial, BackoffMax, MaxBatch, MaxMessages, MaxSessions} \subseteq Nat
    /\ BackoffInitial \in 1..BackoffMax

VARIABLES
    worker,     \* what emit_poll_outcome is at; "dropped" after the publisher's end
    left,       \* samples of the cycle still to be enqueued
    next,       \* the next message
    stats,      \* PublishStats of the cycle: the messages "published" counts,
                \* the number of failed ones, reconnects and whether last_error is set
    report,     \* the stats of the last PublishStatus event
    channel,    \* messages the event loop has not taken yet
    loop,       \* what the event loop task is at
    backoff,    \* ReconnectBackoff::current
    wait,       \* the delay the task sleeps
    connected, reconnects, lastError,  \* ConnectionState; last_error only as set or not
    sessions,   \* connections accepted by the broker
    unacked,    \* messages the library has taken and the broker not acknowledged
    received    \* messages the broker has

connection == << loop, backoff, wait, connected, reconnects, lastError, sessions >>
cycle == << worker, left, next, stats, report >>
vars == << cycle, channel, connection, unacked, received >>

Messages == 1..MaxMessages
Disconnect == 0

NoStats == [published |-> {}, failed |-> 0, reconnects |-> 0, error |-> FALSE]

Init ==
    /\ worker = "idle" /\ left = 0 /\ next = 1
    /\ stats = NoStats /\ report = NoStats
    /\ channel = << >>
    /\ loop = "connecting" /\ backoff = BackoffInitial /\ wait = 0
    /\ connected = FALSE /\ reconnects = 0 /\ lastError = FALSE
    /\ sessions = 0
    /\ unacked = {} /\ received = {}

-----------------------------------------------------------------------------
(* The worker: emit_poll_outcome *)

HasRoom == Len(channel) < Capacity

EnqueueUnbounded(message) == channel' = Append(channel, message)

\* try_publish: into the channel, or refused at once when that is full.
Enqueue(message) == channel' = IF HasRoom THEN Append(channel, message) ELSE channel

BeginCycle(count) ==
    /\ worker = "idle"
    /\ OneShot => next = 1
    /\ next + count <= MaxMessages
    /\ worker' = "samples"
    /\ left' = count
    /\ stats' = NoStats
    /\ UNCHANGED << next, report, channel, connection, unacked, received >>

EnqueueSampleBlind ==
    /\ worker = "samples" /\ left > 0
    /\ Enqueue(next)
    /\ stats' = [stats EXCEPT !.published = @ \cup {next}]
    /\ left' = left - 1
    /\ next' = next + 1
    /\ UNCHANGED << worker, report, connection, unacked, received >>

\* One turn of the loop of enqueue_samples.
EnqueueSample ==
    /\ worker = "samples" /\ left > 0
    /\ Enqueue(next)
    /\ stats' = IF HasRoom THEN [stats EXCEPT !.published = @ \cup {next}]
                ELSE [stats EXCEPT !.failed = @ + 1, !.error = TRUE]
    /\ left' = left - 1
    /\ next' = next + 1
    /\ UNCHANGED << worker, report, connection, unacked, received >>

\* The end of enqueue_samples reads the connection's state, an enqueueing error
\* having precedence.
ReadConnection ==
    /\ worker = "samples" /\ left = 0
    /\ stats' = [stats EXCEPT !.reconnects = reconnects, !.error = @ \/ lastError]
    /\ worker' = "health"
    /\ UNCHANGED << left, next, report, channel, connection, unacked, received >>

\* publish_health, whose failure is ignored.
EnqueueHealth ==
    /\ worker = "health"
    /\ Enqueue(next)
    /\ next' = next + 1
    /\ worker' = "report"
    /\ UNCHANGED << left, stats, report, connection, unacked, received >>

\* The events, PublishStatus the last of them.
Report ==
    /\ worker = "report"
    /\ report' = stats
    /\ worker' = IF OneShot THEN "done" ELSE "idle"
    /\ UNCHANGED << left, next, stats, channel, connection, unacked, received >>

\* Drop: a disconnect is queued if there is room, and the task told to abort.
\* poll-once ends after its batch, the republisher when it is stopped.
DropPublisher ==
    /\ worker = IF OneShot THEN "done" ELSE "idle"
    /\ worker' = "dropped"
    /\ Enqueue(Disconnect)
    /\ UNCHANGED << left, next, stats, report, connection, unacked, received >>

Worker ==
    \/ \E count \in 0..MaxBatch : BeginCycle(count)
    \/ EnqueueSample \/ ReadConnection \/ EnqueueHealth \/ Report \/ DropPublisher

-----------------------------------------------------------------------------
(* The event loop task.  Its two updates of the connection's state are two *)
(* steps each, between which the worker may read it.                       *)

ConnAckKeepsBackoff ==
    /\ loop = "connack"
    /\ lastError' = FALSE
    /\ loop' = "connected"
    /\ UNCHANGED << backoff, wait, connected, reconnects, sessions, cycle, channel, unacked, received >>

\* record_connack, first half: the broker has accepted the connection.
ConnAck ==
    /\ loop = "connecting"
    /\ sessions < MaxSessions
    /\ sessions' = sessions + 1
    /\ connected' = TRUE
    /\ loop' = "connack"
    /\ UNCHANGED << backoff, wait, reconnects, lastError, cycle, channel, unacked, received >>

\* Second half, and the reset of the backoff.
ConnAckRecorded ==
    /\ loop = "connack"
    /\ lastError' = FALSE
    /\ backoff' = BackoffInitial
    /\ loop' = "connected"
    /\ UNCHANGED << wait, connected, reconnects, sessions, cycle, channel, unacked, received >>

RecordErrorAlways ==
    /\ connected' = FALSE
    /\ reconnects' = reconnects + 1
    /\ loop' = "error"
    /\ UNCHANGED << backoff, wait, lastError, sessions, cycle, unacked, received >>

\* record_error, first half: only the loss of a connection counts.
RecordError ==
    /\ connected' = FALSE
    /\ reconnects' = IF connected THEN reconnects + 1 ELSE reconnects
    /\ loop' = "error"
    /\ UNCHANGED << backoff, wait, lastError, sessions, cycle, unacked, received >>

\* poll() fails: no connection, or the connection is lost.
ConnectFails ==
    /\ loop = "connecting"
    /\ RecordError
    /\ UNCHANGED channel

ConnectionLost ==
    /\ loop = "connected"
    /\ sessions < MaxSessions
    /\ RecordError
    /\ UNCHANGED channel

GiveUp ==
    /\ loop = "error"
    /\ lastError' = TRUE
    /\ loop' = "aborted"
    /\ UNCHANGED << backoff, wait, connected, reconnects, sessions, cycle, channel, unacked, received >>

\* Second half; the task then sleeps for next_delay().
ErrorRecorded ==
    /\ loop = "error"
    /\ lastError' = TRUE
    /\ wait' = backoff
    /\ backoff' = IF 2 * backoff <= BackoffMax THEN 2 * backoff ELSE BackoffMax
    /\ loop' = "sleeping"
    /\ UNCHANGED << connected, reconnects, sessions, cycle, channel, unacked, received >>

Retry ==
    /\ loop = "sleeping"
    /\ loop' = "connecting"
    /\ UNCHANGED << backoff, wait, connected, reconnects, lastError, sessions, cycle, channel,
                    unacked, received >>

\* The library takes the next message, or the disconnect that ends the session.
Transmit ==
    /\ loop = "connected"
    /\ channel # << >>
    /\ channel' = Tail(channel)
    /\ IF Head(channel) = Disconnect
       THEN RecordError
       ELSE unacked' = unacked \cup {Head(channel)} /\ UNCHANGED << cycle, connection, received >>

Deliver(message) ==
    /\ loop = "connected"
    /\ message \in unacked
    /\ received' = received \cup {message}
    /\ UNCHANGED << cycle, channel, connection, unacked >>

\* Acknowledgements may be lost with the connection: then the message goes
\* twice.
Acknowledge(message) ==
    /\ loop = "connected"
    /\ message \in unacked \cap received
    /\ unacked' = unacked \ {message}
    /\ UNCHANGED << cycle, channel, connection, received >>

\* The abort takes effect at the next await of the task; what it had not sent is
\* gone with it.
Abort ==
    /\ worker = "dropped"
    /\ loop # "aborted"
    /\ loop' = "aborted"
    /\ channel' = << >>
    /\ unacked' = {}
    /\ UNCHANGED << backoff, wait, connected, reconnects, lastError, sessions, cycle, received >>

Task ==
    \/ ConnAckRecorded \/ ErrorRecorded \/ Retry \/ Transmit \/ Abort
    \/ \E message \in Messages : Deliver(message) \/ Acknowledge(message)

Network == ConnAck \/ ConnectFails \/ ConnectionLost

Next == Worker \/ Task \/ Network

Spec == Init /\ [][Next]_vars

\* The worker and the task go on.  The broker accepts a connection that is tried
\* again and again; nothing says when the operator stops the republisher.
FairSpec ==
    /\ Spec
    /\ WF_vars(EnqueueSample \/ ReadConnection \/ EnqueueHealth \/ Report)
    /\ WF_vars(ConnAckRecorded \/ ErrorRecorded \/ Retry)
    /\ WF_vars(ConnectFails \/ ConnAck)
    /\ SF_vars(ConnAck)
    /\ WF_vars(Transmit)
    /\ \A message \in Messages : WF_vars(Deliver(message))
    /\ OneShot => WF_vars(DropPublisher)
    /\ WF_vars(Abort)

-----------------------------------------------------------------------------
Stats == [published : SUBSET Messages, failed : Nat, reconnects : Nat, error : BOOLEAN]

CycleType ==
    /\ worker \in {"idle", "samples", "health", "report", "done", "dropped"}
    /\ left \in Nat /\ next \in Nat
    /\ stats \in Stats /\ report \in Stats

ConnectionType ==
    /\ loop \in {"connecting", "connack", "connected", "error", "sleeping", "aborted"}
    /\ backoff \in BackoffInitial..BackoffMax
    /\ wait \in 0..BackoffMax
    /\ connected \in BOOLEAN /\ lastError \in BOOLEAN
    /\ reconnects \in Nat /\ sessions \in Nat

ChannelType ==
    channel \in Seq(Messages \cup {Disconnect}) /\ Len(channel) <= Capacity

\* The domains of the variables; the channel is never longer than its capacity,
\* a delay never longer than BACKOFF_MAX.
TypeOK ==
    /\ CycleType
    /\ ConnectionType
    /\ ChannelType
    /\ unacked \subseteq Messages /\ received \subseteq Messages

\* The reconnects shown to the operator are the established connections that
\* were lost: attempts that never succeeded, and the first connection, do not
\* count, a worker reading in between or not (record_connack, record_error).
ReconnectsExact == sessions = IF connected THEN reconnects + 1 ELSE reconnects

\* An established connection shows no error of an earlier one, and when it is
\* lost the first retry comes after the initial delay however long the outage
\* before it was (event loop task).
ConnectedIsClean == loop = "connected" => connected /\ ~lastError /\ backoff = BackoffInitial

\* What a report counts as published has not been dropped on the way, whatever
\* the connection did since: it is in the channel, with the library, or at the
\* broker (enqueue_samples), until the task is aborted.
PublishedNotLost ==
    loop # "aborted" => report.published \subseteq received \cup unacked \cup ToSet(channel)

\* A sample that was counted as published reaches the broker, after any outage
\* that ends, unless the operator stops the republisher before.
PublishedArrives ==
    \A message \in Messages :
        message \in report.published ~> (message \in received \/ worker = "dropped")

-----------------------------------------------------------------------------
(* What the repository says of these steps, see the README. *)

\* "MQTT publish complete: {published} published" of a poll-once.
PublishComplete ==
    loop = "aborted" => report.published \subseteq received
=============================================================================
