-------------------------- MODULE PublisherProofs --------------------------
(***************************************************************************)
(* Proofs about Publisher, for every capacity, every backoff and any       *)
(* number of messages and sessions.                                        *)
(***************************************************************************)
EXTENDS Publisher, TLAPS

USE DEF connection, cycle

\* ---- Enqueueing and transmitting, as operations on the channel. ----

\* An enqueued message keeps the channel within its capacity.
LEMMA EnqueueType ==
    ASSUME TypeOK, NEW message \in Messages \cup {Disconnect}, Enqueue(message)
    PROVE  channel' \in Seq(Messages \cup {Disconnect}) /\ Len(channel') <= Capacity
BY PublisherAssumption DEF TypeOK, ChannelType, Enqueue, HasRoom

\* What is enqueued is in the channel, with all that was there before.
LEMMA EnqueueKeeps ==
    ASSUME TypeOK, NEW message \in Messages \cup {Disconnect}, Enqueue(message)
    PROVE  /\ ToSet(channel) \subseteq ToSet(channel)'
           /\ HasRoom => message \in ToSet(channel)'
<1>1. CASE HasRoom
    <2>1. channel \in Seq(Messages \cup {Disconnect})
        BY DEF TypeOK, ChannelType
    <2>2. /\ channel' = Append(channel, message)
          /\ Len(channel') = Len(channel) + 1
          /\ channel'[Len(channel) + 1] = message
          /\ \A i \in 1..Len(channel) : channel'[i] = channel[i]
          /\ DOMAIN channel' = 1..(Len(channel) + 1)
          /\ DOMAIN channel = 1..Len(channel)
          /\ Len(channel) \in Nat
        BY <1>1, <2>1 DEF Enqueue
    <2>3. ToSet(channel)' = { channel'[i] : i \in DOMAIN channel' }
        BY DEF ToSet
    <2>4. ToSet(channel) = { channel[i] : i \in DOMAIN channel }
        BY DEF ToSet
    <2>5. ToSet(channel) \subseteq ToSet(channel)'
        BY <2>2, <2>3, <2>4
    <2> QED
        BY <2>2, <2>3, <2>5
<1>2. CASE ~HasRoom
    BY <1>2 DEF Enqueue
<1> QED
    BY <1>1, <1>2

\* Taking the head loses no other message.
LEMMA TailKeeps ==
    ASSUME TypeOK, channel # << >>
    PROVE  ToSet(channel) = {Head(channel)} \cup ToSet(Tail(channel))
<1>1. channel \in Seq(Messages \cup {Disconnect})
    BY DEF TypeOK, ChannelType
<1>2. /\ Len(channel) \in Nat \ {0}
      /\ DOMAIN channel = 1..Len(channel)
      /\ DOMAIN Tail(channel) = 1..(Len(channel) - 1)
      /\ Head(channel) = channel[1]
      /\ \A i \in 1..(Len(channel) - 1) : Tail(channel)[i] = channel[i + 1]
    BY <1>1
<1>3. ToSet(channel) = { channel[i] : i \in DOMAIN channel }
    BY DEF ToSet
<1>4. ToSet(Tail(channel)) = { Tail(channel)[i] : i \in DOMAIN Tail(channel) }
    BY DEF ToSet
<1>5. ASSUME NEW i \in 1..Len(channel)
      PROVE  channel[i] \in {Head(channel)} \cup ToSet(Tail(channel))
    <2>1. CASE i = 1
        BY <2>1, <1>2
    <2>2. CASE i # 1
        <3>1. i - 1 \in 1..(Len(channel) - 1) /\ Tail(channel)[i - 1] = channel[i]
            BY <2>2, <1>2
        <3> QED
            BY <3>1, <1>2, <1>4
    <2> QED
        BY <2>1, <2>2
<1>6. {Head(channel)} \cup ToSet(Tail(channel)) \subseteq ToSet(channel)
    <2>1. Head(channel) \in ToSet(channel)
        BY <1>2, <1>3
    <2>2. ASSUME NEW i \in 1..(Len(channel) - 1)
          PROVE  Tail(channel)[i] \in ToSet(channel)
        <3>1. i + 1 \in 1..Len(channel) /\ Tail(channel)[i] = channel[i + 1]
            BY <1>2
        <3> QED
            BY <3>1, <1>2, <1>3
    <2> QED
        BY <2>1, <2>2, <1>2, <1>4
<1> QED
    BY <1>2, <1>3, <1>5, <1>6

-----------------------------------------------------------------------------
\* A cycle was begun with room for its messages in the bound.
CycleFits ==
    /\ next >= 1
    /\ worker = "samples" => next + left <= MaxMessages
    /\ worker = "health" => next <= MaxMessages

\* The flag and the place of the task agree, except that an abort leaves the flag.
ConnectionCoherent ==
    /\ loop \in {"connack", "connected"} => connected
    /\ loop \in {"connecting", "error", "sleeping"} => ~connected
    /\ ReconnectsExact
    /\ ConnectedIsClean

\* What the cycle under way has counted as published is not lost either.
CountedNotLost ==
    loop # "aborted"
        => stats.published \cup report.published
             \subseteq received \cup unacked \cup ToSet(channel)

IInv == TypeOK /\ CycleFits /\ ConnectionCoherent /\ CountedNotLost

\* It holds initially.
LEMMA InitInv == Init => IInv
<1> SUFFICES ASSUME Init PROVE IInv
    OBVIOUS
<1>1. TypeOK
    <2>1. NoStats \in Stats
        BY DEF NoStats, Stats
    <2>2. CycleType
        BY <2>1 DEF Init, CycleType
    <2>3. backoff \in BackoffInitial..BackoffMax /\ wait \in 0..BackoffMax
        BY PublisherAssumption DEF Init
    <2>4. connected \in BOOLEAN /\ lastError \in BOOLEAN /\ ~connected
        BY Zenon DEF Init
    <2>5. ConnectionType
        BY <2>3, <2>4 DEF Init, ConnectionType
    <2>6. ChannelType
        BY PublisherAssumption DEF Init, ChannelType
    <2> QED
        BY <2>2, <2>5, <2>6 DEF Init, TypeOK
<1>2. CycleFits /\ ConnectionCoherent
    <2>1. connected \in BOOLEAN /\ ~connected
        BY Zenon DEF Init
    <2>2. loop = "connecting" /\ reconnects = 0 /\ sessions = 0 /\ worker = "idle" /\ next = 1
        BY DEF Init
    <2>3. ReconnectsExact
        BY <2>1, <2>2 DEF ReconnectsExact
    <2>4. CycleFits
        BY <2>2 DEF CycleFits
    <2> QED
        BY <2>1, <2>2, <2>3, <2>4 DEF ConnectionCoherent, ConnectedIsClean
<1>3. CountedNotLost
    BY DEF Init, CountedNotLost, NoStats
<1> QED
    BY <1>1, <1>2, <1>3 DEF IInv

\* A step that leaves the variables of the cycle alone keeps its part of the
\* invariant.
LEMMA CycleUnchanged ==
    ASSUME IInv, UNCHANGED cycle
    PROVE  CycleType' /\ CycleFits'
BY DEF IInv, TypeOK, CycleType, CycleFits

\* The same for the connection's part.
LEMMA ConnectionUnchanged ==
    ASSUME IInv, UNCHANGED connection
    PROVE  ConnectionType' /\ ConnectionCoherent'
BY DEF IInv, TypeOK, ConnectionType, ConnectionCoherent, ReconnectsExact, ConnectedIsClean

\* What is counted as published stays on its way as long as nothing more is
\* counted and messages only move.
LEMMA MessagesKept ==
    ASSUME IInv, UNCHANGED << stats, report >>, loop # "aborted",
           (received \cup unacked \cup ToSet(channel)) \ {Disconnect}
             \subseteq received' \cup unacked' \cup ToSet(channel)'
    PROVE  CountedNotLost'
<1>1. Disconnect \notin stats.published \cup report.published
    BY DEF IInv, TypeOK, CycleType, Stats, Messages, Disconnect
<1> QED
    BY <1>1 DEF IInv, CountedNotLost

-----------------------------------------------------------------------------
\* A cycle begins with nothing counted.
LEMMA BeginCycleInv ==
    ASSUME IInv, NEW count \in 0..MaxBatch, BeginCycle(count)
    PROVE  IInv'
<1>1. stats' = NoStats /\ NoStats \in Stats /\ NoStats.published = {}
    BY DEF BeginCycle, NoStats, Stats
<1>2. CycleType' /\ CycleFits'
    BY <1>1, PublisherAssumption DEF BeginCycle, IInv, TypeOK, CycleType, CycleFits
<1>3. CountedNotLost'
    BY <1>1 DEF BeginCycle, IInv, CountedNotLost
<1>4. ConnectionType' /\ ConnectionCoherent'
    BY ConnectionUnchanged DEF BeginCycle
<1> QED
    BY <1>2, <1>3, <1>4 DEF BeginCycle, IInv, TypeOK, ChannelType

\* A sample is enqueued and counted, or refused and counted as failed.
LEMMA EnqueueSampleInv ==
    ASSUME IInv, EnqueueSample
    PROVE  IInv'
<1>1. next \in Messages /\ Enqueue(next) /\ left - 1 \in Nat
    BY PublisherAssumption DEF EnqueueSample, IInv, TypeOK, CycleType, CycleFits, Messages
<1>2. /\ stats' \in Stats
      /\ stats'.published = IF HasRoom THEN stats.published \cup {next} ELSE stats.published
    <2>1. stats \in Stats
        BY DEF IInv, TypeOK, CycleType
    <2>2. CASE HasRoom
        BY <1>1, <2>1, <2>2 DEF EnqueueSample, Stats
    <2>3. CASE ~HasRoom
        <3>1. stats.failed + 1 \in Nat
            BY <2>1 DEF Stats
        <3>2. stats' = [stats EXCEPT !.failed = stats.failed + 1, !.error = TRUE]
            BY <2>3 DEF EnqueueSample
        <3> QED
            BY <2>1, <2>3, <3>1, <3>2 DEF Stats
    <2> QED
        BY <2>2, <2>3
<1>3. CycleType' /\ CycleFits'
    BY <1>1, <1>2, PublisherAssumption DEF EnqueueSample, IInv, TypeOK, CycleType, CycleFits
<1>4. ChannelType'
    BY <1>1, EnqueueType DEF IInv, ChannelType
<1>5. ToSet(channel) \subseteq ToSet(channel)' /\ (HasRoom => next \in ToSet(channel)')
    BY <1>1, EnqueueKeeps DEF IInv
<1>6. CountedNotLost'
    BY <1>2, <1>5 DEF EnqueueSample, IInv, CountedNotLost
<1>7. ConnectionType' /\ ConnectionCoherent'
    BY ConnectionUnchanged DEF EnqueueSample
<1> QED
    BY <1>3, <1>4, <1>6, <1>7 DEF EnqueueSample, IInv, TypeOK

\* Reading the state of the connection counts nothing.
LEMMA ReadConnectionInv ==
    ASSUME IInv, ReadConnection
    PROVE  IInv'
<1>1. stats \in Stats /\ reconnects \in Nat /\ lastError \in BOOLEAN
    BY DEF IInv, TypeOK, CycleType, ConnectionType
<1>2. /\ DOMAIN stats = {"published", "failed", "reconnects", "error"}
      /\ stats.published \in SUBSET Messages /\ stats.failed \in Nat
      /\ stats.error \in BOOLEAN
    BY <1>1 DEF Stats
<1>3. (stats.error \/ lastError) \in BOOLEAN
    BY <1>1, <1>2
<1>4. stats' = [stats EXCEPT !.reconnects = reconnects, !.error = stats.error \/ lastError]
    BY DEF ReadConnection
<1>5. stats' \in Stats /\ stats'.published = stats.published
    BY <1>1, <1>3, <1>4 DEF Stats
<1>6. CycleType' /\ CycleFits'
    BY <1>5, PublisherAssumption DEF ReadConnection, IInv, TypeOK, CycleType, CycleFits
<1>7. CountedNotLost'
    BY <1>5 DEF ReadConnection, IInv, CountedNotLost
<1>8. ConnectionType' /\ ConnectionCoherent'
    BY ConnectionUnchanged DEF ReadConnection
<1> QED
    BY <1>6, <1>7, <1>8 DEF ReadConnection, IInv, TypeOK, ChannelType

\* A health message counts for nothing; nor does the disconnect of the drop.
LEMMA UncountedInv ==
    ASSUME IInv, EnqueueHealth \/ DropPublisher
    PROVE  IInv'
<1>1. PICK message \in Messages \cup {Disconnect} : Enqueue(message)
    <2>1. CASE EnqueueHealth
        <3>1. next \in Messages
            BY <2>1, PublisherAssumption
               DEF EnqueueHealth, IInv, TypeOK, CycleType, CycleFits, Messages
        <3> QED
            BY <2>1, <3>1 DEF EnqueueHealth
    <2>2. CASE DropPublisher
        BY <2>2 DEF DropPublisher
    <2> QED
        BY <2>1, <2>2
<1>2. CycleType' /\ CycleFits'
    BY DEF EnqueueHealth, DropPublisher, IInv, TypeOK, CycleType, CycleFits
<1>3. ChannelType'
    BY <1>1, EnqueueType DEF IInv, ChannelType
<1>4. ConnectionType' /\ ConnectionCoherent'
    BY ConnectionUnchanged DEF EnqueueHealth, DropPublisher
<1>5. ToSet(channel) \subseteq ToSet(channel)'
    BY <1>1, EnqueueKeeps DEF IInv
<1>6. CountedNotLost'
    BY <1>5 DEF EnqueueHealth, DropPublisher, IInv, CountedNotLost
<1> QED
    BY <1>2, <1>3, <1>4, <1>6 DEF EnqueueHealth, DropPublisher, IInv, TypeOK

\* A report shows what the cycle has counted.
LEMMA ReportInv ==
    ASSUME IInv, Report
    PROVE  IInv'
<1>1. CycleType' /\ CycleFits'
    BY PublisherAssumption DEF Report, IInv, TypeOK, CycleType, CycleFits
<1>2. CountedNotLost'
    BY DEF Report, IInv, CountedNotLost
<1>3. ConnectionType' /\ ConnectionCoherent'
    BY ConnectionUnchanged DEF Report
<1> QED
    BY <1>1, <1>2, <1>3 DEF Report, IInv, TypeOK, ChannelType

\* Every step of the worker preserves the invariant.
LEMMA WorkerInv == IInv /\ Worker => IInv'
BY BeginCycleInv, EnqueueSampleInv, ReadConnectionInv, UncountedInv, ReportInv DEF Worker

-----------------------------------------------------------------------------
\* record_error counts a reconnect for a connection that was established.
LEMMA RecordErrorConnection ==
    ASSUME IInv, RecordError, loop \in {"connecting", "connected"}
    PROVE  ConnectionType' /\ ConnectionCoherent'
<1>1. ConnectionType /\ ConnectionCoherent
    BY DEF IInv, TypeOK
<1>2. connected' \in BOOLEAN /\ lastError' \in BOOLEAN /\ ~connected'
    BY <1>1, Zenon DEF RecordError, ConnectionType
<1>3. /\ loop' = "error" /\ UNCHANGED << backoff, wait, sessions >>
      /\ reconnects' = IF connected THEN reconnects + 1 ELSE reconnects
    BY DEF RecordError
<1>4. reconnects' = sessions /\ sessions \in Nat
    BY <1>1, <1>3 DEF ConnectionType, ConnectionCoherent, ReconnectsExact
<1>5. ConnectionType'
    BY <1>1, <1>2, <1>3, <1>4 DEF ConnectionType
<1>6. ConnectionCoherent'
    BY <1>2, <1>3, <1>4 DEF ConnectionCoherent, ReconnectsExact, ConnectedIsClean
<1> QED
    BY <1>5, <1>6

\* A failed poll keeps every message.
LEMMA PollFailsInv ==
    ASSUME IInv, ConnectFails \/ ConnectionLost
    PROVE  IInv'
<1>1. RecordError /\ channel' = channel /\ loop \in {"connecting", "connected"}
    BY DEF ConnectFails, ConnectionLost
<1>2. ConnectionType' /\ ConnectionCoherent'
    BY <1>1, RecordErrorConnection
<1>3. CycleType' /\ CycleFits'
    BY <1>1, CycleUnchanged DEF RecordError
<1>4. CountedNotLost'
    BY <1>1 DEF IInv, RecordError, CountedNotLost
<1> QED
    BY <1>1, <1>2, <1>3, <1>4 DEF IInv, RecordError, TypeOK, ChannelType

\* The two halves of the recording of a connection, of an error, and a retry.
LEMMA RecordingConnection ==
    ASSUME IInv, ConnAck \/ ConnAckRecorded \/ ErrorRecorded \/ Retry
    PROVE  ConnectionType' /\ ConnectionCoherent'
<1>1. ConnectionType /\ ConnectionCoherent
    BY DEF IInv, TypeOK
<1>2. CASE ConnAck
    BY <1>1, <1>2
       DEF ConnAck, ConnectionType, ConnectionCoherent, ReconnectsExact, ConnectedIsClean
<1>3. CASE ConnAckRecorded
    <2>1. BackoffInitial \in BackoffInitial..BackoffMax
        BY PublisherAssumption
    <2>2. ConnectionType'
        BY <1>1, <1>3, <2>1 DEF ConnAckRecorded, ConnectionType
    <2>3. ConnectionCoherent'
        BY <1>1, <1>3
           DEF ConnAckRecorded, ConnectionType, ConnectionCoherent, ReconnectsExact,
               ConnectedIsClean
    <2> QED
        BY <2>2, <2>3
<1>4. CASE ErrorRecorded
    <2>1. backoff' \in BackoffInitial..BackoffMax /\ wait' \in 0..BackoffMax
        BY <1>1, <1>4, PublisherAssumption DEF ErrorRecorded, ConnectionType
    <2>2. ConnectionType'
        BY <1>1, <1>4, <2>1 DEF ErrorRecorded, ConnectionType
    <2>3. ConnectionCoherent'
        BY <1>1, <1>4
           DEF ErrorRecorded, ConnectionType, ConnectionCoherent, ReconnectsExact,
               ConnectedIsClean
    <2> QED
        BY <2>2, <2>3
<1>5. CASE Retry
    BY <1>1, <1>5
       DEF Retry, ConnectionType, ConnectionCoherent, ReconnectsExact, ConnectedIsClean
<1> QED
    BY <1>2, <1>3, <1>4, <1>5

\* They leave the cycle and the messages alone.
LEMMA RecordingInv ==
    ASSUME IInv, ConnAck \/ ConnAckRecorded \/ ErrorRecorded \/ Retry
    PROVE  IInv'
<1>1. UNCHANGED << cycle, channel, unacked, received >> /\ loop # "aborted"
    BY DEF ConnAck, ConnAckRecorded, ErrorRecorded, Retry
<1>2. CycleType' /\ CycleFits'
    BY <1>1, CycleUnchanged
<1>3. CountedNotLost'
    BY <1>1 DEF IInv, CountedNotLost
<1> QED
    BY <1>1, <1>2, <1>3, RecordingConnection DEF IInv, TypeOK, ChannelType

\* Taking a message from the channel hands it to the library; a disconnect ends
\* the session.
LEMMA TransmitInv ==
    ASSUME IInv, Transmit
    PROVE  IInv'
<1>1. /\ channel # << >> /\ loop = "connected" /\ channel' = Tail(channel)
      /\ channel \in Seq(Messages \cup {Disconnect}) /\ Len(channel) <= Capacity
    BY DEF Transmit, IInv, TypeOK, ChannelType
<1>2. ChannelType' /\ Head(channel) \in Messages \cup {Disconnect}
    BY <1>1, PublisherAssumption DEF ChannelType
<1>3. ToSet(channel) = {Head(channel)} \cup ToSet(channel)'
    BY <1>1, TailKeeps DEF ToSet, IInv
<1>4. CASE Head(channel) = Disconnect
    <2>1. RecordError
        BY <1>4 DEF Transmit
    <2>2. ConnectionType' /\ ConnectionCoherent'
        BY <1>1, <2>1, RecordErrorConnection
    <2>3. CycleType' /\ CycleFits'
        BY <2>1, CycleUnchanged DEF RecordError
    <2>4. CountedNotLost'
        BY <1>1, <1>3, <1>4, <2>1, MessagesKept DEF RecordError
    <2> QED
        BY <1>2, <2>1, <2>2, <2>3, <2>4 DEF RecordError, IInv, TypeOK
<1>5. CASE Head(channel) # Disconnect
    <2>1. /\ unacked' = unacked \cup {Head(channel)}
          /\ UNCHANGED << cycle, connection, received >>
        BY <1>5 DEF Transmit
    <2>2. ConnectionType' /\ ConnectionCoherent'
        BY <2>1, ConnectionUnchanged
    <2>3. CycleType' /\ CycleFits'
        BY <2>1, CycleUnchanged
    <2>4. CountedNotLost'
        BY <1>1, <1>3, <2>1, MessagesKept
    <2> QED
        BY <1>2, <1>5, <2>1, <2>2, <2>3, <2>4 DEF IInv, TypeOK
<1> QED
    BY <1>4, <1>5

\* Delivery and acknowledgement only move messages.
LEMMA DeliveryInv ==
    ASSUME IInv, NEW message \in Messages, Deliver(message) \/ Acknowledge(message)
    PROVE  IInv'
<1>1. UNCHANGED << cycle, channel, connection >> /\ loop # "aborted"
    BY DEF Deliver, Acknowledge
<1>2. CycleType' /\ CycleFits' /\ ConnectionType' /\ ConnectionCoherent'
    BY <1>1, CycleUnchanged, ConnectionUnchanged
<1>3. ToSet(channel)' = ToSet(channel)
    BY <1>1 DEF ToSet
<1>4. CountedNotLost'
    BY <1>1, <1>3, MessagesKept DEF Deliver, Acknowledge
<1> QED
    BY <1>1, <1>2, <1>4 DEF Deliver, Acknowledge, IInv, TypeOK, ChannelType

\* An abort drops what was not sent.
LEMMA AbortInv ==
    ASSUME IInv, Abort
    PROVE  IInv'
<1>1. CycleType' /\ CycleFits'
    BY CycleUnchanged DEF Abort
<1>2. ConnectionType' /\ ConnectionCoherent'
    BY DEF Abort, IInv, TypeOK, ConnectionType, ConnectionCoherent, ReconnectsExact,
           ConnectedIsClean
<1>3. ChannelType'
    BY PublisherAssumption DEF Abort, ChannelType
<1> QED
    BY <1>1, <1>2, <1>3 DEF Abort, IInv, TypeOK, CountedNotLost

\* Every step preserves the invariant.
LEMMA NextInv == IInv /\ [Next]_vars => IInv'
<1> SUFFICES ASSUME IInv, [Next]_vars PROVE IInv'
    OBVIOUS
<1>1. CASE Worker
    BY <1>1, WorkerInv
<1>2. CASE Task
    BY <1>2, RecordingInv, TransmitInv, DeliveryInv, AbortInv DEF Task
<1>3. CASE Network
    BY <1>3, RecordingInv, PollFailsInv DEF Network
<1>4. CASE UNCHANGED vars
    <2>1. CycleType' /\ CycleFits' /\ ConnectionType' /\ ConnectionCoherent'
        BY <1>4, CycleUnchanged, ConnectionUnchanged DEF vars
    <2> QED
        BY <1>4, <2>1 DEF vars, IInv, TypeOK, ChannelType, CountedNotLost, ToSet
<1> QED
    BY <1>1, <1>2, <1>3, <1>4 DEF Next

\* The invariant holds in every reachable state.
THEOREM PublisherInvariance == Spec => []IInv
BY InitInv, NextInv, PTL DEF Spec

\* Types, the capacity of the channel and the cap of the backoff.
THEOREM PublisherTypeCorrect == Spec => []TypeOK
<1>1. IInv => TypeOK
    BY DEF IInv
<1> QED
    BY <1>1, PublisherInvariance, PTL

\* The reconnects shown are the established connections that were lost.
THEOREM ReconnectsAreExact == Spec => []ReconnectsExact
<1>1. IInv => ReconnectsExact
    BY DEF IInv, ConnectionCoherent
<1> QED
    BY <1>1, PublisherInvariance, PTL

\* An established connection shows no old error and starts its backoff afresh.
THEOREM ConnectionStartsClean == Spec => []ConnectedIsClean
<1>1. IInv => ConnectedIsClean
    BY DEF IInv, ConnectionCoherent
<1> QED
    BY <1>1, PublisherInvariance, PTL

\* What was reported as published is on its way or at the broker.
THEOREM PublishedIsNotLost == Spec => []PublishedNotLost
<1>1. IInv => PublishedNotLost
    BY DEF IInv, CountedNotLost, PublishedNotLost
<1> QED
    BY <1>1, PublisherInvariance, PTL
=============================================================================
