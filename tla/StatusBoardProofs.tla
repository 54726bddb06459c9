-------------------------- MODULE StatusBoardProofs --------------------------
(***************************************************************************)
(* Proofs about StatusBoard, for any points, threads and backlog: what is  *)
(* shown of a point was reported of it, a publish status meets the         *)
(* samples it is about, and the board catches up with the worker, as long  *)
(* as no two threads report at once.                                       *)
(*                                                                         *)
(* Events name no thread, so the second one is about their order: in the   *)
(* channel, and where a report is still being sent, a publish status comes *)
(* right after its samples, or these were applied last.                    *)
(***************************************************************************)
EXTENDS StatusBoard, SequenceTheorems, FiniteSetTheorems, TLAPS

(* Types *)

LEMMA EventTypes ==
    /\ \A ps \in SUBSET Points : Failures(ps) \in Events /\ Samples(ps) \in Events
    /\ \A failed \in BOOLEAN, ps \in SUBSET Points : PublishOf(failed, ps) \in Events
    /\ Lifecycle("Stopped") \in Events
BY DEF Events, Failures, Samples, PublishOf, Lifecycle

LEMMA ReportTyped ==
    ASSUME NEW ps \in SUBSET Points, NEW o \in Outcomes(ps)
    PROVE  /\ PollReport(o.samples, o.failures, o.refused) \in Seq(Events)
           /\ o.samples \in SUBSET Points /\ o.failures \in SUBSET Points
           /\ o.refused \in BOOLEAN
<1>1. o.samples \in SUBSET Points /\ o.failures \in SUBSET Points /\ o.refused \in BOOLEAN
    BY DEF Outcomes
<1>2. /\ Failures(o.failures) \in Events
      /\ Samples(o.samples) \in Events
      /\ PublishOf(o.refused, o.samples) \in Events
    BY <1>1, EventTypes
<1> QED
    BY <1>1, <1>2 DEF PollReport

LEMMA IdsTyped ==
    ASSUME NEW ps \in SUBSET Points
    PROVE  IdsOf(ps) \in SUBSET Identities
BY BoardAssumption DEF IdsOf

\* An event leaves the channel or what a thread is sending.
LEMMA HeadTyped ==
    ASSUME NEW queue \in Seq(Events), queue # << >>
    PROVE  Head(queue) \in Events /\ Tail(queue) \in Seq(Events)
OBVIOUS

LEMMA InitTyped == Init => TypeOK
<1> SUFFICES ASSUME Init PROVE TypeOK
    OBVIOUS
<1>1. status \in [Identities -> PointStatus]
    BY DEF Init, Untracked, PointStatus
<1>2. NoRun \in [alive : BOOLEAN, missing : SUBSET Devices,
                 own : [Identities -> {"absent", "fresh", "stale"}]]
    BY DEF NoRun
<1>3. << >> \in Seq(Events) /\ 0 \in 0 .. Capacity
    BY BoardAssumption
<1> QED
    BY <1>1, <1>2, <1>3 DEF Init, TypeOK

LEMMA ClicksTyped ==
    ASSUME TypeOK, ClearAll \/ StartRepublisher \/ \E o \in Onces : StartPollOnce(o)
    PROVE  TypeOK'
<1>1. CASE ClearAll
    BY <1>1 DEF ClearAll, TypeOK, Untracked, PointStatus
<1>2. CASE StartRepublisher
    <2>1. rep' \in [alive : BOOLEAN, missing : SUBSET Devices,
                    own : [Identities -> {"absent", "fresh", "stale"}]]
        BY <1>2 DEF StartRepublisher, NoRun
    <2>2. overlap' \in BOOLEAN
        BY <1>2 DEF StartRepublisher, TypeOK, OthersBusy
    <2> QED
        BY <1>2, <2>1, <2>2 DEF StartRepublisher, TypeOK
<1>3. ASSUME NEW o \in Onces, StartPollOnce(o)
      PROVE  TypeOK'
    <2>1. overlap' \in BOOLEAN
        BY <1>3 DEF StartPollOnce, TypeOK, OthersBusy
    <2> QED
        BY <1>3, <2>1 DEF StartPollOnce, TypeOK, board
<1> QED
    BY <1>1, <1>2, <1>3

LEMMA MarkedTyped ==
    ASSUME NEW own \in [Identities -> {"absent", "fresh", "stale"}],
           NEW ps, NEW as \in {"fresh", "stale"}
    PROVE  Marked(own, ps, as) \in [Identities -> {"absent", "fresh", "stale"}]
BY DEF Marked

\* A thread begins a report.
LEMMA ThreadsTyped ==
    ASSUME TypeOK, RepRefreshes \/ RepPolls \/ RepEnds \/ \E o \in Onces : OnceReports(o)
    PROVE  TypeOK'
<1>1. CASE RepRefreshes
    <2>1. PICK missing \in SUBSET Devices :
             LET newly == PointsOn(missing \ rep.missing)
             IN  /\ rep' = [rep EXCEPT !.missing = missing, !.own = Marked(@, newly, "stale")]
                 /\ sending' = [sending EXCEPT
                       ![Republisher] = IF newly = {} THEN << >> ELSE << Failures(newly) >>]
        BY <1>1 DEF RepRefreshes
    <2>2. PointsOn(missing \ rep.missing) \in SUBSET Points
        BY DEF PointsOn
    <2>3. << Failures(PointsOn(missing \ rep.missing)) >> \in Seq(Events)
        BY <2>2, EventTypes
    <2>4. Marked(rep.own, PointsOn(missing \ rep.missing), "stale")
             \in [Identities -> {"absent", "fresh", "stale"}]
        BY MarkedTyped DEF TypeOK
    <2>5. sending' \in [Threads -> Seq(Events)]
        <3>1. << >> \in Seq(Events)
            OBVIOUS
        <3>2. PICK report \in Seq(Events) : sending' = [sending EXCEPT ![Republisher] = report]
            BY <2>1, <2>3, <3>1
        <3> QED
            BY <3>2 DEF TypeOK
    <2>6. rep' \in [alive : BOOLEAN, missing : SUBSET Devices,
                    own : [Identities -> {"absent", "fresh", "stale"}]]
        BY <2>1, <2>4 DEF TypeOK
    <2> QED
        BY <1>1, <2>5, <2>6 DEF RepRefreshes, TypeOK, board
<1>2. CASE RepPolls
    <2>1. PICK o \in Outcomes(Points \ PointsOn(rep.missing)) :
             /\ rep' = [rep EXCEPT !.own = Marked(Marked(@, o.samples, "fresh"), o.failures, "stale")]
             /\ sending' = [sending EXCEPT
                   ![Republisher] = PollReport(o.samples, o.failures, o.refused)]
        BY <1>2 DEF RepPolls
    <2>2. PollReport(o.samples, o.failures, o.refused) \in Seq(Events)
        BY ReportTyped
    <2>3. Marked(Marked(rep.own, o.samples, "fresh"), o.failures, "stale")
             \in [Identities -> {"absent", "fresh", "stale"}]
        BY MarkedTyped DEF TypeOK
    <2>4. rep' \in [alive : BOOLEAN, missing : SUBSET Devices,
                    own : [Identities -> {"absent", "fresh", "stale"}]]
        BY <2>1, <2>3 DEF TypeOK
    <2> QED
        BY <1>2, <2>1, <2>2, <2>4 DEF RepPolls, TypeOK, board
<1>3. CASE RepEnds
    <2>1. << Lifecycle("Stopped") >> \in Seq(Events)
        BY EventTypes
    <2>2. rep' \in [alive : BOOLEAN, missing : SUBSET Devices,
                    own : [Identities -> {"absent", "fresh", "stale"}]]
        BY <1>3 DEF RepEnds, NoRun
    <2> QED
        BY <1>3, <2>1, <2>2 DEF RepEnds, TypeOK, board
<1>4. ASSUME NEW o \in Onces, OnceReports(o)
      PROVE  TypeOK'
    <2>1. sending' \in [Threads -> Seq(Events)]
        BY <1>4, ReportTyped DEF OnceReports, TypeOK
    <2> QED
        BY <1>4, <2>1 DEF OnceReports, TypeOK, board
<1> QED
    BY <1>1, <1>2, <1>3, <1>4

LEMMA StatusTyped ==
    ASSUME NEW s \in PointStatus, NEW failed \in BOOLEAN
    PROVE  /\ Sampled(s) \in PointStatus
           /\ ReadFailed(s) \in PointStatus
           /\ PublishRecorded(s, failed) \in PointStatus
BY DEF PointStatus, Sampled, ReadFailed, PublishRecorded, Entry

\* What one event makes of the board.
LEMMA AppliedTyped ==
    ASSUME TypeOK, Apply
    PROVE  /\ status' \in [Identities -> PointStatus]
           /\ batch' \in SUBSET Identities
           /\ recent' \in 0 .. Capacity
           /\ active' \in BOOLEAN
<1> DEFINE event == Head(chan)
<1>1. event \in Events
    BY HeadTyped DEF Apply, TypeOK
<1> HIDE DEF event
<1>2. CASE event.kind = "samples" /\ ApplySamples(event.points)
    <2>1. event.points \in SUBSET Points
        BY <1>1, <1>2 DEF Events, Lifecycle
    <2>2. recent' \in 0 .. Capacity
        <3>1. Cardinality(event.points) \in Nat
            BY <2>1, BoardAssumption, FS_Subset, FS_CardinalityType
        <3> QED
            BY <1>2, <3>1, BoardAssumption DEF ApplySamples, Least, TypeOK
    <2> QED
        BY <1>2, <2>1, <2>2, IdsTyped, StatusTyped DEF ApplySamples, RecordSamples, TypeOK
<1>3. CASE event.kind = "failures" /\ ApplyFailures(event.points)
    BY <1>3, StatusTyped DEF ApplyFailures, RecordFailures, TypeOK
<1>4. CASE event.kind = "publish" /\ ApplyPublishStatus(event.failed)
    <2>1. event.failed \in BOOLEAN
        BY <1>1, <1>4 DEF Events, Lifecycle
    <2> QED
        BY <1>4, <2>1, StatusTyped DEF ApplyPublishStatus, TypeOK
<1>5. CASE event.kind = "lifecycle" /\ ApplyStopped
    BY <1>5 DEF ApplyStopped, TypeOK
<1> QED
    BY <1>2, <1>3, <1>4, <1>5 DEF Apply, event

\* Every step keeps the types.
LEMMA StepTyped == TypeOK /\ [Next]_vars => TypeOK'
<1> SUFFICES ASSUME TypeOK, [Next]_vars
             PROVE  TypeOK'
    OBVIOUS
<1>1. ASSUME NEW t \in Threads, Send(t)
      PROVE  TypeOK'
    <2>1. sending[t] \in Seq(Events) /\ sending[t] # << >> /\ chan \in Seq(Events)
        BY <1>1 DEF Send, TypeOK
    <2>2. Append(chan, Head(sending[t])) \in Seq(Events) /\ Tail(sending[t]) \in Seq(Events)
        BY <2>1, HeadTyped
    <2> QED
        BY <1>1, <2>2 DEF Send, TypeOK, board
<1>2. CASE Apply
    <2>1. Tail(chan) \in Seq(Events)
        BY <1>2, HeadTyped DEF Apply, TypeOK
    <2> QED
        BY <1>2, <2>1, AppliedTyped DEF Apply, TypeOK
<1>3. CASE UNCHANGED vars
    BY <1>3 DEF vars, board, TypeOK
<1> QED
    BY <1>1, <1>2, <1>3, ClicksTyped, ThreadsTyped DEF Next

\* Variables keep their shape, and the samples kept are never more than the capacity.
THEOREM BoardTyped == Spec => []TypeOK
BY InitTyped, StepTyped, PTL DEF Spec

-----------------------------------------------------------------------------
(* What is shown was reported *)

\* A point with an entry has a read error, or a sample that is not stale; the last
\* batch was sampled.
Reported ==
    /\ \A i \in Identities :
          status[i].tracked => status[i].failed \/ (status[i].sampled /\ ~status[i].stale)
    /\ \A i \in batch : status[i].tracked /\ status[i].sampled

\* One event keeps it: a publish status only touches the last batch.
LEMMA AppliedReported ==
    ASSUME TypeOK, Reported, Apply
    PROVE  Reported'
<1> DEFINE event == Head(chan)
<1>1. event \in Events
    BY HeadTyped DEF Apply, TypeOK
<1> HIDE DEF event
<1>2. CASE event.kind = "samples" /\ ApplySamples(event.points)
    <2>1. event.points \in SUBSET Points
        BY <1>1, <1>2 DEF Events, Lifecycle
    <2>2. batch' = IdsOf(event.points) /\ batch' \subseteq Identities
        BY <1>2, <2>1, IdsTyped DEF ApplySamples
    <2>3. \A i \in Identities :
             status'[i] = IF i \in batch' THEN Sampled(status[i]) ELSE status[i]
        BY <1>2, <2>2 DEF ApplySamples, RecordSamples
    <2>4. \A i \in Identities : /\ Sampled(status[i]).tracked /\ Sampled(status[i]).sampled
                                /\ ~Sampled(status[i]).stale
        BY DEF TypeOK, PointStatus, Sampled, Entry
    <2> QED
        BY <2>2, <2>3, <2>4 DEF Reported
<1>3. CASE event.kind = "failures" /\ ApplyFailures(event.points)
    <2>1. /\ batch' = batch /\ batch \subseteq Identities
          /\ \A i \in Identities : status'[i] \in {status[i], ReadFailed(status[i])}
        BY <1>3 DEF ApplyFailures, RecordFailures, TypeOK
    <2>2. \A i \in Identities : /\ ReadFailed(status[i]).tracked /\ ReadFailed(status[i]).failed
                                /\ ReadFailed(status[i]).sampled = status[i].sampled
        BY DEF TypeOK, PointStatus, ReadFailed, Entry
    <2> QED
        BY <2>1, <2>2 DEF Reported
<1>4. CASE event.kind = "publish" /\ ApplyPublishStatus(event.failed)
    <2> DEFINE recorded(i) == PublishRecorded(status[i], event.failed)
    <2>1. /\ batch' = batch /\ batch \subseteq Identities
          /\ \A i \in Identities : status'[i] = IF i \in batch THEN recorded(i) ELSE status[i]
        BY <1>4 DEF ApplyPublishStatus, TypeOK
    <2>2. \A i \in Identities : /\ recorded(i).tracked
                                /\ recorded(i).failed = status[i].failed
                                /\ recorded(i).sampled = status[i].sampled
                                /\ recorded(i).stale = status[i].stale
        BY DEF TypeOK, PointStatus, PublishRecorded, Entry
    <2> HIDE DEF recorded
    <2> QED
        BY <2>1, <2>2 DEF Reported
<1>5. CASE event.kind = "lifecycle" /\ ApplyStopped
    BY <1>5 DEF ApplyStopped, Reported
<1> QED
    BY <1>2, <1>3, <1>4, <1>5 DEF Apply, event

LEMMA StepReported == TypeOK /\ Reported /\ [Next]_vars => Reported'
<1> SUFFICES ASSUME TypeOK, Reported, [Next]_vars
             PROVE  Reported'
    OBVIOUS
<1>1. CASE ClearAll
    BY <1>1 DEF ClearAll, Reported, Untracked
<1>2. CASE \/ StartRepublisher \/ RepRefreshes \/ RepPolls \/ RepEnds
           \/ (\E o \in Onces : StartPollOnce(o) \/ OnceReports(o))
           \/ (\E t \in Threads : Send(t)) \/ UNCHANGED vars
    <2>1. UNCHANGED <<status, batch>>
        BY <1>2 DEF StartRepublisher, RepRefreshes, RepPolls, RepEnds, StartPollOnce,
           OnceReports, Send, vars, board
    <2> QED
        BY <2>1 DEF Reported
<1> QED
    BY <1>1, <1>2, AppliedReported DEF Next

\* Nothing is shown of a point that was not reported of it: no "OK" without a sample,
\* no "Stale" without a read error (drain_worker_events, point_status_chip).
THEOREM BoardFromReports == Spec => []NothingFromNowhere
<1>1. Init => Reported
    BY DEF Init, Reported, Untracked
<1>2. TypeOK /\ Reported => NothingFromNowhere
    BY DEF TypeOK, Reported, NothingFromNowhere, Chip, PointStatus
<1> QED
    BY <1>1, <1>2, StepReported, BoardTyped, PTL DEF Spec

-----------------------------------------------------------------------------
(* A publish status meets its samples *)

IsPublish(event) == event.kind = "publish"

\* In a queue, what precedes a publish status are the samples it is about.
Paired(queue) ==
    \A i \in DOMAIN queue : i > 1 /\ IsPublish(queue[i]) => queue[i - 1] = Samples(queue[i].points)

\* A publish status that comes first is about the last batch, unless that was wiped.
Ready(queue) ==
    queue # << >> /\ IsPublish(queue[1]) => batch \in {IdsOf(queue[1].points), {}}

\* The second queue goes on where the first one ends.
Joined(queue, rest) ==
    queue # << >> /\ rest # << >> /\ IsPublish(rest[1])
        => queue[Len(queue)] = Samples(rest[1].points)

InOrder ==
    ~overlap =>
        /\ \A t, u \in Threads : Busy(t) /\ Busy(u) => t = u
        /\ Paired(chan)
        /\ Ready(chan)
        /\ \A t \in Threads : /\ Paired(sending[t])
                              /\ Joined(chan, sending[t])
                              /\ chan = << >> => Ready(sending[t])

\* Reports begin with something else than a publish status.
LEMMA ReportPaired ==
    ASSUME NEW report,
           \/ report = << >>
           \/ \E ps \in SUBSET Points : report = << Failures(ps) >>
           \/ report = << Lifecycle("Stopped") >>
           \/ \E ps \in SUBSET Points : \E o \in Outcomes(ps) :
                 report = PollReport(o.samples, o.failures, o.refused)
    PROVE  Paired(report) /\ Ready(report) /\ Joined(chan, report)
<1>1. CASE report = << >>
    BY <1>1 DEF Paired, Ready, Joined
<1>2. CASE \E event : report = << event >> /\ ~IsPublish(event)
    BY <1>2 DEF Paired, Ready, Joined
<1>3. CASE \E ps \in SUBSET Points : \E o \in Outcomes(ps) :
              report = PollReport(o.samples, o.failures, o.refused)
    <2>1. PICK o : report = << Failures(o.failures), Samples(o.samples),
                               PublishOf(o.refused, o.samples) >>
        BY <1>3 DEF PollReport
    <2>2. /\ DOMAIN report = {1, 2, 3}
          /\ report[1] = Failures(o.failures)
          /\ report[2] = Samples(o.samples)
          /\ report[3] = PublishOf(o.refused, o.samples)
        BY <2>1
    <2>3. /\ ~IsPublish(report[1]) /\ ~IsPublish(report[2])
          /\ report[3].points = o.samples
        BY <2>2 DEF IsPublish, Failures, Samples, PublishOf
    <2> QED
        BY <2>2, <2>3 DEF Paired, Ready, Joined
<1>4. ~IsPublish(Lifecycle("Stopped")) /\ \A ps : ~IsPublish(Failures(ps))
    BY DEF IsPublish, Lifecycle, Failures
<1> QED
    BY <1>1, <1>2, <1>3, <1>4

\* A thread that sent all of its last report, and is alone, begins another one.
LEMMA ReportInOrder ==
    ASSUME TypeOK, InOrder, NEW t \in Threads, NEW report,
           Paired(report), Ready(report), Joined(chan, report),
           sending' = [sending EXCEPT ![t] = report],
           UNCHANGED <<batch, chan, overlap>>,
           \A u \in Threads : Busy(u)' => Busy(u)
    PROVE  InOrder'
<1>1. /\ sending'[t] = report
      /\ \A u \in Threads \ {t} : sending'[u] = sending[u]
    BY DEF TypeOK
<1> QED
    BY <1>1 DEF InOrder, Paired, Ready, Joined

LEMMA ThreadsInOrder ==
    ASSUME TypeOK, InOrder,
           RepRefreshes \/ RepPolls \/ RepEnds \/ \E o \in Onces : OnceReports(o)
    PROVE  InOrder'
<1>1. CASE RepRefreshes \/ RepPolls \/ RepEnds
    <2>1. Republisher \in Threads /\ Busy(Republisher)
        BY <1>1 DEF Threads, Busy, RepRefreshes, RepPolls, RepEnds
    <2>2. PICK report :
             /\ sending' = [sending EXCEPT ![Republisher] = report]
             /\ \/ report = << >>
                \/ \E ps \in SUBSET Points : report = << Failures(ps) >>
                \/ report = << Lifecycle("Stopped") >>
                \/ \E ps \in SUBSET Points : \E o \in Outcomes(ps) :
                      report = PollReport(o.samples, o.failures, o.refused)
        <3>1. CASE RepRefreshes
            <4>1. PICK missing \in SUBSET Devices :
                     sending' = [sending EXCEPT
                        ![Republisher] = IF PointsOn(missing \ rep.missing) = {} THEN << >>
                                         ELSE << Failures(PointsOn(missing \ rep.missing)) >>]
                BY <3>1 DEF RepRefreshes
            <4>2. PointsOn(missing \ rep.missing) \in SUBSET Points
                BY DEF PointsOn
            <4> QED
                BY <4>1, <4>2
        <3>2. CASE RepPolls
            <4>1. Points \ PointsOn(rep.missing) \in SUBSET Points
                OBVIOUS
            <4> QED
                BY <3>2, <4>1 DEF RepPolls
        <3>3. CASE RepEnds
            BY <3>3 DEF RepEnds
        <3> QED
            BY <1>1, <3>1, <3>2, <3>3
    <2>3. Paired(report) /\ Ready(report) /\ Joined(chan, report)
        BY <2>2, ReportPaired
    <2>4. UNCHANGED <<batch, chan, overlap, once>>
        BY <1>1 DEF RepRefreshes, RepPolls, RepEnds, board
    <2>5. \A u \in Threads \ {Republisher} : sending'[u] = sending[u]
        BY <2>2 DEF TypeOK
    <2>6. \A u \in Threads : Busy(u)' => Busy(u)
        BY <2>1, <2>4, <2>5 DEF Busy
    <2> QED
        BY <2>1, <2>2, <2>3, <2>4, <2>6, ReportInOrder
<1>2. ASSUME NEW o \in Onces, OnceReports(o)
      PROVE  InOrder'
    <2>1. o \in Threads /\ o # Republisher /\ Busy(o)
        BY <1>2, BoardAssumption DEF Threads, Busy, OnceReports
    <2>2. PICK report :
             /\ sending' = [sending EXCEPT ![o] = report]
             /\ \/ report = << >>
                \/ \E out \in Outcomes(Points) :
                      report = PollReport(out.samples, out.failures, out.refused)
        <3>1. sending[o] = << >> /\ sending = [sending EXCEPT ![o] = sending[o]]
            BY <1>2, <2>1 DEF OnceReports, MayReport, TypeOK
        <3> QED
            BY <1>2, <3>1 DEF OnceReports
    <2>3. Points \in SUBSET Points
        OBVIOUS
    <2>4. Paired(report) /\ Ready(report) /\ Joined(chan, report)
        BY <2>2, <2>3, ReportPaired
    <2>5. UNCHANGED <<batch, chan, overlap, rep>> /\ once' \subseteq once
        BY <1>2 DEF OnceReports, board
    <2>6. \A u \in Threads \ {o} : sending'[u] = sending[u]
        BY <2>2 DEF TypeOK
    <2>7. \A u \in Threads : Busy(u)' => Busy(u)
        BY <2>1, <2>5, <2>6 DEF Busy
    <2> QED
        BY <2>1, <2>2, <2>4, <2>5, <2>7, ReportInOrder
<1> QED
    BY <1>1, <1>2

\* A thread that starts is alone, or the two overlap.
LEMMA StartsInOrder ==
    ASSUME TypeOK, InOrder,
           StartRepublisher \/ \E o \in Onces : StartPollOnce(o)
    PROVE  InOrder'
<1>1. PICK t \in Threads :
         /\ overlap' = (overlap \/ OthersBusy(t))
         /\ UNCHANGED <<batch, chan, sending>>
         /\ \A u \in Threads \ {t} : Busy(u)' <=> Busy(u)
    <2>1. CASE StartRepublisher
        <3>1. Republisher \in Threads /\ UNCHANGED <<batch, chan, sending, once>>
            BY <2>1 DEF Threads, StartRepublisher
        <3>2. \A u \in Threads \ {Republisher} : Busy(u)' <=> Busy(u)
            BY <3>1 DEF Busy
        <3> QED
            BY <2>1, <3>1, <3>2 DEF StartRepublisher
    <2>2. ASSUME NEW o \in Onces, StartPollOnce(o)
          PROVE  /\ overlap' = (overlap \/ OthersBusy(o))
                 /\ UNCHANGED <<batch, chan, sending>>
                 /\ \A u \in Threads \ {o} : Busy(u)' <=> Busy(u)
        <3>1. UNCHANGED <<batch, chan, sending, rep>> /\ once' = once \cup {o}
            BY <2>2 DEF StartPollOnce, board
        <3>2. \A u \in Threads \ {o} : Busy(u)' <=> Busy(u)
            BY <3>1 DEF Busy
        <3> QED
            BY <2>2, <3>1, <3>2 DEF StartPollOnce
    <2> QED
        BY <2>1, <2>2 DEF Threads
<1> SUFFICES ASSUME ~overlap'
             PROVE  InOrder'
    BY DEF InOrder
<1>2. ~overlap /\ \A u \in Threads \ {t} : ~Busy(u)'
    BY <1>1 DEF OthersBusy
<1>3. \A u, v \in Threads : Busy(u)' /\ Busy(v)' => u = v
    BY <1>2
<1> QED
    BY <1>1, <1>2, <1>3 DEF InOrder, Paired, Ready, Joined

\* The next event of a report joins the channel.
LEMMA SendInOrder ==
    ASSUME TypeOK, InOrder, NEW t \in Threads, Send(t)
    PROVE  InOrder'
<1> SUFFICES ASSUME ~overlap'
             PROVE  InOrder'
    BY DEF InOrder
<1> DEFINE s == sending[t]
<1>1. /\ s \in Seq(Events) /\ s # << >> /\ chan \in Seq(Events)
      /\ chan' = Append(chan, Head(s))
      /\ sending' = [sending EXCEPT ![t] = Tail(s)]
      /\ UNCHANGED <<batch, overlap, rep, once>>
    BY DEF Send, TypeOK, board
<1>2. /\ sending'[t] = Tail(s)
      /\ \A u \in Threads \ {t} : sending'[u] = sending[u]
    BY <1>1 DEF TypeOK
<1>3. /\ Paired(chan) /\ Ready(chan)
      /\ Paired(s) /\ Joined(chan, s) /\ (chan = << >> => Ready(s))
    BY <1>1 DEF InOrder
<1>4. \A u \in Threads \ {t} : sending[u] = << >>
    BY <1>1 DEF InOrder, Busy
<1>5. \A u, v \in Threads : Busy(u)' /\ Busy(v)' => u = v
    <2>1. \A u \in Threads : Busy(u)' => Busy(u)
        BY <1>1, <1>2 DEF Busy
    <2> QED
        BY <1>1, <2>1 DEF InOrder
<1>6. /\ Len(chan) \in Nat /\ DOMAIN chan = 1 .. Len(chan)
      /\ Len(chan') = Len(chan) + 1 /\ DOMAIN chan' = 1 .. Len(chan) + 1
      /\ chan'[Len(chan) + 1] = s[1]
      /\ \A i \in 1 .. Len(chan) : chan'[i] = chan[i]
      /\ chan' # << >>
      /\ chan = << >> <=> Len(chan) = 0
    BY <1>1
<1>7. /\ Len(s) \in Nat \ {0} /\ DOMAIN s = 1 .. Len(s)
      /\ DOMAIN Tail(s) = 1 .. Len(s) - 1
      /\ \A i \in 1 .. Len(s) - 1 : Tail(s)[i] = s[i + 1]
      /\ Tail(s) # << >> => Len(s) > 1
    BY <1>1
<1> HIDE DEF s
<1>8. Paired(chan')
    <2> SUFFICES ASSUME NEW i \in DOMAIN chan', i > 1, IsPublish(chan'[i])
                 PROVE  chan'[i - 1] = Samples(chan'[i].points)
        BY DEF Paired
    <2>1. CASE i \in 1 .. Len(chan)
        <3>1. i - 1 \in 1 .. Len(chan)
            BY <1>6, <2>1
        <3> QED
            BY <1>3, <1>6, <2>1, <3>1 DEF Paired
    <2>2. CASE i = Len(chan) + 1
        <3>1. Len(chan) \in 1 .. Len(chan) /\ i - 1 = Len(chan)
            BY <1>6, <2>2
        <3> QED
            BY <1>1, <1>3, <1>6, <2>2, <3>1 DEF Joined
    <2> QED
        BY <1>6, <2>1, <2>2
<1>9. Ready(chan')
    <2>1. CASE Len(chan) = 0
        BY <1>1, <1>3, <1>6, <2>1 DEF Ready
    <2>2. CASE Len(chan) # 0
        <3>1. 1 \in 1 .. Len(chan) /\ chan # << >>
            BY <1>6, <2>2
        <3> QED
            BY <1>1, <1>3, <1>6, <3>1 DEF Ready
    <2> QED
        BY <2>1, <2>2
<1>10. Paired(Tail(s))
    <2> SUFFICES ASSUME NEW i \in DOMAIN Tail(s), i > 1, IsPublish(Tail(s)[i])
                 PROVE  Tail(s)[i - 1] = Samples(Tail(s)[i].points)
        BY DEF Paired
    <2>1. /\ i + 1 \in DOMAIN s /\ i + 1 > 1 /\ (i + 1) - 1 = i
          /\ Tail(s)[i] = s[i + 1] /\ Tail(s)[i - 1] = s[i]
        BY <1>7
    <2> QED
        BY <1>3, <2>1 DEF Paired
<1>11. Joined(chan', Tail(s))
    <2> SUFFICES ASSUME Tail(s) # << >>, IsPublish(Tail(s)[1])
                 PROVE  chan'[Len(chan')] = Samples(Tail(s)[1].points)
        BY DEF Joined
    <2>1. 2 \in DOMAIN s /\ Tail(s)[1] = s[2] /\ 2 > 1 /\ 2 - 1 = 1
        BY <1>7
    <2> QED
        BY <1>3, <1>6, <2>1 DEF Paired
<1>12. \A u \in Threads : /\ Paired(sending'[u])
                          /\ Joined(chan', sending'[u])
    <2>1. Paired(<< >>) /\ Joined(chan', << >>)
        BY DEF Paired, Joined
    <2> QED
        BY <1>2, <1>4, <1>10, <1>11, <2>1
<1> QED
    BY <1>1, <1>5, <1>6, <1>8, <1>9, <1>12 DEF InOrder, Paired, Joined, Ready

\* The console applies an event: samples make the batch the next event may be about.
LEMMA ApplyInOrder ==
    ASSUME TypeOK, InOrder, Apply
    PROVE  InOrder'
<1> SUFFICES ASSUME ~overlap'
             PROVE  InOrder'
    BY DEF InOrder
<1>1. /\ chan \in Seq(Events) /\ chan # << >>
      /\ chan' = Tail(chan)
      /\ UNCHANGED <<overlap, rep, once, sending>>
    BY DEF Apply, TypeOK
<1>2. /\ Paired(chan)
      /\ \A t \in Threads : Paired(sending[t]) /\ Joined(chan, sending[t])
    BY <1>1 DEF InOrder
<1>3. \A u, v \in Threads : Busy(u)' /\ Busy(v)' => u = v
    BY <1>1 DEF InOrder, Busy
<1>4. /\ Len(chan) \in Nat \ {0} /\ DOMAIN chan = 1 .. Len(chan)
      /\ Len(Tail(chan)) = Len(chan) - 1 /\ DOMAIN Tail(chan) = 1 .. Len(chan) - 1
      /\ \A i \in 1 .. Len(chan) - 1 : Tail(chan)[i] = chan[i + 1]
      /\ Tail(chan) # << >> => Len(chan) > 1
      /\ Tail(chan) = << >> => Len(chan) = 1
      /\ Head(chan) = chan[1]
    <2>1. /\ Len(chan) \in Nat \ {0} /\ DOMAIN chan = 1 .. Len(chan)
          /\ Tail(chan) \in Seq(Events)
          /\ Len(Tail(chan)) = Len(chan) - 1 /\ DOMAIN Tail(chan) = 1 .. Len(chan) - 1
          /\ \A i \in 1 .. Len(chan) - 1 : Tail(chan)[i] = chan[i + 1]
          /\ Head(chan) = chan[1]
        BY <1>1
    <2>2. Tail(chan) # << >> => Len(chan) > 1
        BY <1>1
    <2>3. ASSUME Tail(chan) = << >>
          PROVE  Len(chan) = 1
        <3> DEFINE rest == Tail(chan)
        <3>1. rest \in Seq(Events) /\ rest = << >> /\ Len(rest) = Len(chan) - 1
            BY <2>1, <2>3
        <3> HIDE DEF rest
        <3>2. Len(rest) = 0
            BY <3>1
        <3>3. Len(chan) \in Nat /\ Len(chan) - 1 = 0
            BY <2>1, <3>1, <3>2
        <3> QED
            BY <3>3
    <2> QED
        BY <2>1, <2>2, <2>3
<1>5. ASSUME NEW event, IsPublish(event), chan[1] = Samples(event.points)
      PROVE  batch' = IdsOf(event.points)
    <2>1. Head(chan).kind = "samples" /\ Head(chan).points = event.points
        BY <1>4, <1>5 DEF Samples
    <2> QED
        BY <2>1 DEF Apply, ApplySamples
<1>6. Paired(Tail(chan))
    <2> SUFFICES ASSUME NEW i \in DOMAIN Tail(chan), i > 1, IsPublish(Tail(chan)[i])
                 PROVE  Tail(chan)[i - 1] = Samples(Tail(chan)[i].points)
        BY DEF Paired
    <2>1. /\ i + 1 \in DOMAIN chan /\ i + 1 > 1 /\ (i + 1) - 1 = i
          /\ Tail(chan)[i] = chan[i + 1] /\ Tail(chan)[i - 1] = chan[i]
        BY <1>4
    <2> QED
        BY <1>2, <2>1 DEF Paired
<1>7. Ready(chan)'
    <2> SUFFICES ASSUME Tail(chan) # << >>, IsPublish(Tail(chan)[1])
                 PROVE  batch' = IdsOf(Tail(chan)[1].points)
        BY <1>1 DEF Ready
    <2>1. 2 \in DOMAIN chan /\ Tail(chan)[1] = chan[2] /\ 2 > 1 /\ 2 - 1 = 1
        BY <1>4
    <2> QED
        BY <1>2, <1>5, <2>1 DEF Paired
<1>8. ASSUME NEW t \in Threads
      PROVE  Joined(chan', sending[t])
    <2> SUFFICES ASSUME Tail(chan) # << >>, sending[t] # << >>, IsPublish(sending[t][1])
                 PROVE  Tail(chan)[Len(Tail(chan))] = Samples(sending[t][1].points)
        BY <1>1 DEF Joined
    <2>1. /\ Len(chan) > 1 /\ Len(chan) - 1 \in 1 .. Len(chan) - 1
          /\ Tail(chan)[Len(Tail(chan))] = chan[Len(chan)]
        BY <1>4
    <2> QED
        BY <1>1, <1>2, <2>1 DEF Joined
<1>9. ASSUME NEW t \in Threads, chan' = << >>
      PROVE  Ready(sending[t])'
    <2> SUFFICES ASSUME sending[t] # << >>, IsPublish(sending[t][1])
                 PROVE  batch' = IdsOf(sending[t][1].points)
        BY <1>1 DEF Ready
    <2>1. Len(chan) = 1
        BY <1>1, <1>4, <1>9
    <2> QED
        BY <1>1, <1>2, <1>5, <2>1 DEF Joined
<1> QED
    BY <1>1, <1>2, <1>3, <1>6, <1>7, <1>8, <1>9 DEF InOrder, Paired, Joined, Ready

LEMMA StepInOrder == TypeOK /\ InOrder /\ [Next]_vars => InOrder'
<1> SUFFICES ASSUME TypeOK, InOrder, [Next]_vars
             PROVE  InOrder'
    OBVIOUS
<1>1. CASE ClearAll
    <2>1. batch' = {} /\ UNCHANGED <<chan, sending, rep, once, overlap>>
        BY <1>1 DEF ClearAll
    <2> QED
        BY <2>1 DEF InOrder, Busy, Paired, Ready, Joined
<1>2. CASE UNCHANGED vars
    BY <1>2 DEF vars, board, InOrder, Busy, Paired, Ready, Joined
<1> QED
    BY <1>1, <1>2, StartsInOrder, ThreadsInOrder, SendInOrder, ApplyInOrder DEF Next

\* As long as no two threads that read points were alive at once, a publish status is
\* applied to the points it is about, or to none (PublishStatus in
\* drain_worker_events, which names neither the thread nor the points).
THEOREM StatusesAttributed == Spec => []PublishAttributed
<1>1. Init => InOrder
    BY DEF Init, InOrder, Busy, NoRun, Paired, Ready, Joined
<1>2. TypeOK /\ InOrder => PublishAttributed
    <2>1. TypeOK /\ chan # << >> => Head(chan) = chan[1]
        BY DEF TypeOK
    <2> QED
        BY <2>1 DEF InOrder, Ready, IsPublish, PublishAttributed
<1> QED
    BY <1>1, <1>2, StepInOrder, BoardTyped, PTL DEF Spec

-----------------------------------------------------------------------------
(* The board catches up with the worker *)

\* An event that says whether a point can be read, and what it says.
Concerns(event, i) == event.kind \in {"samples", "failures"} /\ i \in IdsOf(event.points)
Says(event) == IF event.kind = "samples" THEN "fresh" ELSE "stale"

Mentions(queue, i) == \E k \in DOMAIN queue : Concerns(queue[k], i)

\* The last event of the queue that concerns the point, if there is one, says this.
LastSays(queue, i, as) ==
    \A k \in DOMAIN queue :
        /\ Concerns(queue[k], i)
        /\ \A m \in DOMAIN queue : m > k => ~Concerns(queue[m], i)
        => Says(queue[k]) = as

Shows(i, as) ==
    /\ wiped \/ status[i].tracked
    /\ status[i].tracked => (status[i].failed <=> as = "stale")

\* What the worker knows of a point is what the last event about it says, wherever
\* that event is; if none is left, the board shows it.
CatchesUp ==
    rep.alive /\ ~overlap =>
        \A i \in Identities :
            rep.own[i] # "absent" /\ ~Shared(i) =>
                IF Mentions(sending[Republisher], i)
                THEN LastSays(sending[Republisher], i, rep.own[i])
                ELSE IF Mentions(chan, i) THEN LastSays(chan, i, rep.own[i])
                ELSE Shows(i, rep.own[i])

LEMMA MentionedAtEnd ==
    ASSUME NEW queue \in Seq(Events), NEW event \in Events, NEW i
    PROVE  /\ Mentions(Append(queue, event), i) <=> Mentions(queue, i) \/ Concerns(event, i)
           /\ Concerns(event, i) => LastSays(Append(queue, event), i, Says(event))
           /\ ~Concerns(event, i) =>
                 \A as : LastSays(queue, i, as) => LastSays(Append(queue, event), i, as)
<1> DEFINE longer == Append(queue, event)
           n == Len(queue)
<1>1. /\ n \in Nat /\ DOMAIN queue = 1 .. n /\ DOMAIN longer = 1 .. n + 1
      /\ longer[n + 1] = event
      /\ \A k \in 1 .. n : longer[k] = queue[k]
    OBVIOUS
<1> HIDE DEF longer, n
<1>2. Mentions(longer, i) <=> Mentions(queue, i) \/ Concerns(event, i)
    BY <1>1 DEF Mentions
<1>3. ASSUME Concerns(event, i)
      PROVE  LastSays(longer, i, Says(event))
    <2>1. \A k \in 1 .. n + 1 : k # n + 1 => n + 1 > k
        BY <1>1
    <2> QED
        BY <1>1, <1>3, <2>1 DEF LastSays
<1>4. ASSUME ~Concerns(event, i), NEW as, LastSays(queue, i, as)
      PROVE  LastSays(longer, i, as)
    <2> SUFFICES ASSUME NEW k \in DOMAIN longer, Concerns(longer[k], i),
                        \A m \in DOMAIN longer : m > k => ~Concerns(longer[m], i)
                 PROVE  Says(longer[k]) = as
        BY DEF LastSays
    <2>1. k \in DOMAIN queue /\ longer[k] = queue[k]
        BY <1>1, <1>4
    <2>2. \A m \in DOMAIN queue : m > k => ~Concerns(queue[m], i)
        BY <1>1
    <2> QED
        BY <1>4, <2>1, <2>2 DEF LastSays
<1> QED
    BY <1>2, <1>3, <1>4 DEF longer

LEMMA MentionedAtFront ==
    ASSUME NEW queue \in Seq(Events), queue # << >>, NEW i
    PROVE  /\ Mentions(queue, i) <=> Concerns(Head(queue), i) \/ Mentions(Tail(queue), i)
           /\ \A as : LastSays(queue, i, as) => LastSays(Tail(queue), i, as)
           /\ \A as : LastSays(queue, i, as) /\ Concerns(Head(queue), i) /\ ~Mentions(Tail(queue), i)
                         => Says(Head(queue)) = as
<1> DEFINE rest == Tail(queue)
           n == Len(queue)
<1>1. /\ n \in Nat \ {0} /\ DOMAIN queue = 1 .. n /\ DOMAIN rest = 1 .. n - 1
      /\ Head(queue) = queue[1]
      /\ \A k \in 1 .. n - 1 : rest[k] = queue[k + 1]
    OBVIOUS
<1> HIDE DEF rest, n
<1>2. \A k \in 2 .. n : k - 1 \in 1 .. n - 1 /\ rest[k - 1] = queue[k]
    BY <1>1
<1>3. Mentions(queue, i) <=> Concerns(queue[1], i) \/ Mentions(rest, i)
    <2>1. ASSUME NEW k \in 1 .. n - 1
          PROVE  k + 1 \in 1 .. n
        BY <1>1
    <2>2. 1 \in 1 .. n /\ \A k \in 1 .. n : k = 1 \/ k \in 2 .. n
        BY <1>1
    <2> QED
        BY <1>1, <1>2, <2>1, <2>2 DEF Mentions
<1>4. ASSUME NEW as, LastSays(queue, i, as)
      PROVE  LastSays(rest, i, as)
    <2> SUFFICES ASSUME NEW k \in DOMAIN rest, Concerns(rest[k], i),
                        \A m \in DOMAIN rest : m > k => ~Concerns(rest[m], i)
                 PROVE  Says(rest[k]) = as
        BY DEF LastSays
    <2>1. k + 1 \in DOMAIN queue /\ queue[k + 1] = rest[k]
        BY <1>1
    <2>2. ASSUME NEW m \in DOMAIN queue, m > k + 1
          PROVE  ~Concerns(queue[m], i)
        <3>1. m \in 2 .. n /\ m - 1 > k
            BY <1>1, <2>2
        <3> QED
            BY <1>1, <1>2, <3>1
    <2> QED
        BY <1>4, <2>1, <2>2 DEF LastSays
<1>5. ASSUME NEW as, LastSays(queue, i, as), Concerns(queue[1], i), ~Mentions(rest, i)
      PROVE  Says(queue[1]) = as
    <2>1. ASSUME NEW m \in DOMAIN queue, m > 1
          PROVE  ~Concerns(queue[m], i)
        <3>1. m - 1 \in DOMAIN rest /\ rest[m - 1] = queue[m]
            BY <1>1, <1>2, <2>1
        <3> QED
            BY <1>5, <3>1 DEF Mentions
    <2>2. 1 \in DOMAIN queue
        BY <1>1
    <2> QED
        BY <1>5, <2>1, <2>2 DEF LastSays
<1> QED
    BY <1>1, <1>3, <1>4, <1>5 DEF rest

\* What a refresh reports says of each point what the worker noted.
LEMMA FailuresTold ==
    ASSUME NEW ps \in SUBSET Points, NEW i
    PROVE  /\ Mentions(<< Failures(ps) >>, i) <=> i \in IdsOf(ps)
           /\ LastSays(<< Failures(ps) >>, i, "stale")
BY DEF Mentions, LastSays, Concerns, Says, Failures

\* So does the report of a poll, though its events go out in another order than the
\* worker notes them: no point is both sampled and failed, and none shares its identity.
LEMMA PollTold ==
    ASSUME NEW ps \in SUBSET Points, NEW o \in Outcomes(ps), NEW i, ~Shared(i)
    PROVE  LET report == PollReport(o.samples, o.failures, o.refused)
           IN  /\ Mentions(report, i) <=> i \in IdsOf(o.samples) \/ i \in IdsOf(o.failures)
               /\ i \in IdsOf(o.samples) => i \notin IdsOf(o.failures) /\ LastSays(report, i, "fresh")
               /\ i \in IdsOf(o.failures) => LastSays(report, i, "stale")
<1> DEFINE report == PollReport(o.samples, o.failures, o.refused)
<1>1. /\ DOMAIN report = 1 .. 3
      /\ report[1] = Failures(o.failures)
      /\ report[2] = Samples(o.samples)
      /\ report[3] = PublishOf(o.refused, o.samples)
    BY DEF PollReport
<1> HIDE DEF report
<1>2. /\ Concerns(report[1], i) <=> i \in IdsOf(o.failures)
      /\ Concerns(report[2], i) <=> i \in IdsOf(o.samples)
      /\ ~Concerns(report[3], i)
      /\ Says(report[1]) = "stale" /\ Says(report[2]) = "fresh"
    BY <1>1 DEF Concerns, Says, Failures, Samples, PublishOf
<1>3. ~(i \in IdsOf(o.samples) /\ i \in IdsOf(o.failures))
    BY DEF IdsOf, Shared, Outcomes
<1>4. Mentions(report, i) <=> i \in IdsOf(o.samples) \/ i \in IdsOf(o.failures)
    BY <1>1, <1>2 DEF Mentions
<1>5. ASSUME i \in IdsOf(o.samples)
      PROVE  LastSays(report, i, "fresh")
    BY <1>1, <1>2, <1>3, <1>5 DEF LastSays
<1>6. ASSUME i \in IdsOf(o.failures)
      PROVE  LastSays(report, i, "stale")
    BY <1>1, <1>2, <1>3, <1>6 DEF LastSays
<1> QED
    BY <1>3, <1>4, <1>5, <1>6 DEF report

LEMMA RefreshCatchesUp ==
    ASSUME TypeOK, CatchesUp, RepRefreshes
    PROVE  CatchesUp'
<1>1. PICK missing \in SUBSET Devices :
         LET newly == PointsOn(missing \ rep.missing)
         IN  /\ rep' = [rep EXCEPT !.missing = missing, !.own = Marked(@, newly, "stale")]
             /\ sending' = [sending EXCEPT
                   ![Republisher] = IF newly = {} THEN << >> ELSE << Failures(newly) >>]
    BY DEF RepRefreshes
<1> DEFINE newly == PointsOn(missing \ rep.missing)
<1>2. newly \in SUBSET Points
    BY DEF PointsOn
<1>3. /\ sending[Republisher] = << >>
      /\ UNCHANGED <<status, chan, overlap, wiped>>
      /\ rep'.own = Marked(rep.own, newly, "stale")
      /\ rep'.alive = rep.alive
      /\ sending'[Republisher] = IF newly = {} THEN << >> ELSE << Failures(newly) >>
    BY <1>1 DEF RepRefreshes, MayReport, board, TypeOK, Threads
<1> HIDE DEF newly
<1>4. \A i : ~Mentions(<< >>, i)
    BY DEF Mentions
<1> SUFFICES ASSUME rep.alive, ~overlap, NEW i \in Identities,
                    rep'.own[i] # "absent", ~Shared(i)
             PROVE  IF Mentions(sending'[Republisher], i)
                    THEN LastSays(sending'[Republisher], i, rep'.own[i])
                    ELSE IF Mentions(chan', i) THEN LastSays(chan', i, rep'.own[i])
                    ELSE Shows(i, rep.own[i])'
    BY <1>3 DEF CatchesUp
<1>5. rep'.own[i] = IF i \in IdsOf(newly) THEN "stale" ELSE rep.own[i]
    BY <1>3 DEF Marked
<1>6. CASE i \in IdsOf(newly)
    <2>1. sending'[Republisher] = << Failures(newly) >>
        BY <1>3, <1>6 DEF IdsOf
    <2> QED
        BY <1>2, <1>5, <1>6, <2>1, FailuresTold
<1>7. CASE i \notin IdsOf(newly)
    <2>1. ~Mentions(sending'[Republisher], i)
        BY <1>2, <1>3, <1>4, <1>7, FailuresTold
    <2>2. IF Mentions(chan, i) THEN LastSays(chan, i, rep.own[i]) ELSE Shows(i, rep.own[i])
        BY <1>3, <1>4, <1>5, <1>7 DEF CatchesUp
    <2> QED
        BY <1>3, <1>5, <1>7, <2>1, <2>2 DEF Shows
<1> QED
    BY <1>6, <1>7

LEMMA PollCatchesUp ==
    ASSUME TypeOK, CatchesUp, RepPolls
    PROVE  CatchesUp'
<1> DEFINE polled == Points \ PointsOn(rep.missing)
<1>1. PICK o \in Outcomes(polled) :
         /\ rep' = [rep EXCEPT !.own = Marked(Marked(@, o.samples, "fresh"), o.failures, "stale")]
         /\ sending' = [sending EXCEPT
               ![Republisher] = PollReport(o.samples, o.failures, o.refused)]
    BY DEF RepPolls
<1>2. polled \in SUBSET Points
    OBVIOUS
<1> HIDE DEF polled
<1> DEFINE report == PollReport(o.samples, o.failures, o.refused)
<1>3. /\ sending[Republisher] = << >>
      /\ UNCHANGED <<status, chan, overlap, wiped>>
      /\ rep'.own = Marked(Marked(rep.own, o.samples, "fresh"), o.failures, "stale")
      /\ rep'.alive = rep.alive
      /\ sending'[Republisher] = report
    BY <1>1 DEF RepPolls, MayReport, board, TypeOK, Threads
<1> SUFFICES ASSUME rep.alive, ~overlap, NEW i \in Identities,
                    rep'.own[i] # "absent", ~Shared(i)
             PROVE  IF Mentions(sending'[Republisher], i)
                    THEN LastSays(sending'[Republisher], i, rep'.own[i])
                    ELSE IF Mentions(chan', i) THEN LastSays(chan', i, rep'.own[i])
                    ELSE Shows(i, rep.own[i])'
    BY <1>3 DEF CatchesUp
<1>4. rep'.own[i] = IF i \in IdsOf(o.failures) THEN "stale"
                    ELSE IF i \in IdsOf(o.samples) THEN "fresh" ELSE rep.own[i]
    BY <1>3 DEF Marked
<1>5. /\ Mentions(report, i) <=> i \in IdsOf(o.samples) \/ i \in IdsOf(o.failures)
      /\ i \in IdsOf(o.samples) => i \notin IdsOf(o.failures) /\ LastSays(report, i, "fresh")
      /\ i \in IdsOf(o.failures) => LastSays(report, i, "stale")
    BY <1>2, PollTold
<1> HIDE DEF report
<1>6. CASE i \in IdsOf(o.samples) \/ i \in IdsOf(o.failures)
    BY <1>3, <1>4, <1>5, <1>6
<1>7. CASE i \notin IdsOf(o.samples) /\ i \notin IdsOf(o.failures)
    <2>1. ~Mentions(<< >>, i)
        BY DEF Mentions
    <2>2. IF Mentions(chan, i) THEN LastSays(chan, i, rep.own[i]) ELSE Shows(i, rep.own[i])
        BY <1>3, <1>4, <1>7, <2>1 DEF CatchesUp
    <2> QED
        BY <1>3, <1>4, <1>5, <1>7, <2>2 DEF Shows
<1> QED
    BY <1>6, <1>7

\* An event of the republisher moves into the channel; no other thread has any.
LEMMA SendCatchesUp ==
    ASSUME TypeOK, InOrder, CatchesUp, NEW t \in Threads, Send(t)
    PROVE  CatchesUp'
<1> SUFFICES ASSUME rep.alive, ~overlap
             PROVE  CatchesUp'
    BY DEF Send, CatchesUp
<1>1. Republisher \in Threads /\ Busy(Republisher) /\ Busy(t)
    BY DEF Threads, Busy, Send
<1>2. t = Republisher
    BY <1>1 DEF InOrder
<1> DEFINE s == sending[Republisher]
<1>3. /\ s \in Seq(Events) /\ s # << >> /\ chan \in Seq(Events)
      /\ chan' = Append(chan, Head(s))
      /\ sending'[Republisher] = Tail(s)
      /\ UNCHANGED <<status, rep, overlap, wiped>>
    BY <1>1, <1>2 DEF Send, TypeOK, board
<1>4. Head(s) \in Events
    BY <1>3, HeadTyped
<1> HIDE DEF s
<1> SUFFICES ASSUME NEW i \in Identities, rep.own[i] # "absent", ~Shared(i)
             PROVE  IF Mentions(Tail(s), i) THEN LastSays(Tail(s), i, rep.own[i])
                    ELSE IF Mentions(chan', i) THEN LastSays(chan', i, rep.own[i])
                    ELSE Shows(i, rep.own[i])'
    BY <1>3 DEF CatchesUp
<1>5. IF Mentions(s, i) THEN LastSays(s, i, rep.own[i])
      ELSE IF Mentions(chan, i) THEN LastSays(chan, i, rep.own[i]) ELSE Shows(i, rep.own[i])
    BY DEF CatchesUp, s
<1>6. CASE Mentions(Tail(s), i)
    BY <1>3, <1>5, <1>6, MentionedAtFront
<1>7. CASE ~Mentions(Tail(s), i) /\ Concerns(Head(s), i)
    <2>1. Says(Head(s)) = rep.own[i]
        BY <1>3, <1>5, <1>7, MentionedAtFront
    <2> QED
        BY <1>3, <1>4, <1>7, <2>1, MentionedAtEnd
<1>8. CASE ~Mentions(Tail(s), i) /\ ~Concerns(Head(s), i)
    <2>1. ~Mentions(s, i)
        BY <1>3, <1>8, MentionedAtFront
    <2>2. Shows(i, rep.own[i])' <=> Shows(i, rep.own[i])
        BY <1>3 DEF Shows
    <2> QED
        BY <1>3, <1>4, <1>5, <1>8, <2>1, <2>2, MentionedAtEnd
<1> QED
    BY <1>6, <1>7, <1>8

\* An event that concerns the point is shown; any other one changes nothing of it: a
\* publish status finds the entry that the samples made.
LEMMA ApplyShows ==
    ASSUME TypeOK, Reported, Apply, NEW i \in Identities, NEW as \in {"fresh", "stale"}
    PROVE  /\ Concerns(Head(chan), i) /\ Says(Head(chan)) = as => Shows(i, as)'
           /\ ~Concerns(Head(chan), i) /\ Shows(i, as) => Shows(i, as)'
<1> DEFINE event == Head(chan)
<1>1. event \in Events /\ status[i] \in PointStatus /\ wiped' = wiped
    BY HeadTyped DEF Apply, TypeOK
<1> HIDE DEF event
<1>2. CASE event.kind = "samples" /\ ApplySamples(event.points)
    <2>1. status'[i] = IF i \in IdsOf(event.points) THEN Sampled(status[i]) ELSE status[i]
        BY <1>2 DEF ApplySamples, RecordSamples
    <2>2. Sampled(status[i]).tracked /\ ~Sampled(status[i]).failed
        BY <1>1 DEF PointStatus, Sampled, Entry
    <2> QED
        BY <1>1, <1>2, <2>1, <2>2 DEF Shows, Concerns, Says, event
<1>3. CASE event.kind = "failures" /\ ApplyFailures(event.points)
    <2>1. status'[i] = IF i \in IdsOf(event.points) THEN ReadFailed(status[i]) ELSE status[i]
        BY <1>3 DEF ApplyFailures, RecordFailures
    <2>2. ReadFailed(status[i]).tracked /\ ReadFailed(status[i]).failed
        BY <1>1 DEF PointStatus, ReadFailed, Entry
    <2> QED
        BY <1>1, <1>3, <2>1, <2>2 DEF Shows, Concerns, Says, event
<1>4. CASE event.kind = "publish" /\ ApplyPublishStatus(event.failed)
    <2> DEFINE recorded == PublishRecorded(status[i], event.failed)
    <2>1. status'[i] = IF i \in batch THEN recorded ELSE status[i]
        BY <1>4 DEF ApplyPublishStatus
    <2>2. recorded.tracked /\ recorded.failed = status[i].failed
        BY <1>1 DEF PointStatus, PublishRecorded, Entry
    <2>3. i \in batch => status[i].tracked
        BY DEF Reported
    <2>4. status'[i].tracked = status[i].tracked /\ status'[i].failed = status[i].failed
        <3> HIDE DEF recorded
        <3>1. CASE i \notin batch
            BY <2>1, <3>1
        <3>2. CASE i \in batch
            BY <2>1, <2>2, <2>3, <3>2, <1>1 DEF PointStatus, recorded, PublishRecorded, Entry
        <3> QED
            BY <3>1, <3>2
    <2>5. ~Concerns(event, i)
        BY <1>4 DEF Concerns
    <2> QED
        BY <1>1, <2>4, <2>5 DEF Shows, event
<1>5. CASE event.kind = "lifecycle" /\ ApplyStopped
    BY <1>1, <1>5 DEF ApplyStopped, Shows, Concerns, event
<1> QED
    BY <1>2, <1>3, <1>4, <1>5 DEF Apply, event

LEMMA ApplyCatchesUp ==
    ASSUME TypeOK, Reported, CatchesUp, Apply
    PROVE  CatchesUp'
<1>1. /\ chan \in Seq(Events) /\ chan # << >> /\ chan' = Tail(chan)
      /\ UNCHANGED <<rep, sending, overlap, wiped>>
    BY DEF Apply, TypeOK
<1> SUFFICES ASSUME rep.alive, ~overlap, NEW i \in Identities, rep.own[i] # "absent", ~Shared(i),
                    ~Mentions(sending[Republisher], i)
             PROVE  IF Mentions(Tail(chan), i) THEN LastSays(Tail(chan), i, rep.own[i])
                    ELSE Shows(i, rep.own[i])'
    BY <1>1 DEF CatchesUp
<1>2. IF Mentions(chan, i) THEN LastSays(chan, i, rep.own[i]) ELSE Shows(i, rep.own[i])
    BY DEF CatchesUp
<1>3. PICK as \in {"fresh", "stale"} : rep.own[i] = as
    BY DEF TypeOK
<1>4. Shows(i, as)' => Shows(i, rep.own[i])'
    BY <1>1, <1>3 DEF Shows
<1>5. CASE Mentions(Tail(chan), i)
    BY <1>1, <1>2, <1>5, MentionedAtFront
<1>6. CASE ~Mentions(Tail(chan), i) /\ Concerns(Head(chan), i)
    <2>1. Says(Head(chan)) = rep.own[i]
        BY <1>1, <1>2, <1>6, MentionedAtFront
    <2> QED
        BY <1>3, <1>4, <1>6, <2>1, ApplyShows
<1>7. CASE ~Mentions(Tail(chan), i) /\ ~Concerns(Head(chan), i)
    <2>1. Shows(i, rep.own[i])
        BY <1>1, <1>2, <1>7, MentionedAtFront
    <2> QED
        BY <1>3, <1>4, <1>7, <2>1, ApplyShows
<1> QED
    BY <1>5, <1>6, <1>7

LEMMA StepCatchesUp == TypeOK /\ Reported /\ InOrder /\ CatchesUp /\ [Next]_vars => CatchesUp'
<1> SUFFICES ASSUME TypeOK, Reported, InOrder, CatchesUp, [Next]_vars
             PROVE  CatchesUp'
    OBVIOUS
<1>1. CASE ClearAll
    <2>1. /\ wiped' /\ \A i \in Identities : ~status'[i].tracked
          /\ UNCHANGED <<rep, chan, sending, overlap>>
        BY <1>1 DEF ClearAll, Untracked
    <2> QED
        BY <2>1 DEF CatchesUp, Shows
<1>2. CASE StartRepublisher
    BY <1>2 DEF StartRepublisher, NoRun, CatchesUp
<1>3. CASE RepEnds
    BY <1>3 DEF RepEnds, NoRun, CatchesUp
<1>4. ASSUME NEW o \in Onces, StartPollOnce(o) \/ OnceReports(o)
      PROVE  CatchesUp'
    <2> SUFFICES ASSUME rep'.alive, ~overlap'
                 PROVE  FALSE
        BY DEF CatchesUp
    <2>1. rep' = rep /\ Republisher \in Threads \ {o} /\ o \in Threads
        BY <1>4, BoardAssumption DEF StartPollOnce, OnceReports, Threads
    <2>2. Busy(Republisher)
        BY <2>1 DEF Busy
    <2>3. CASE StartPollOnce(o)
        BY <2>1, <2>2, <2>3 DEF StartPollOnce, OthersBusy
    <2>4. CASE OnceReports(o)
        <3>1. Busy(o) /\ ~overlap
            BY <2>1, <2>4 DEF OnceReports, Busy
        <3> QED
            BY <2>1, <2>2, <3>1 DEF InOrder
    <2> QED
        BY <1>4, <2>3, <2>4
<1>5. CASE UNCHANGED vars
    BY <1>5 DEF vars, board, CatchesUp, Shows
<1> QED
    BY <1>1, <1>2, <1>3, <1>4, <1>5, RefreshCatchesUp, PollCatchesUp, SendCatchesUp,
       ApplyCatchesUp DEF Next

\* Once its reports are applied, the board shows what the republisher's own statuses
\* say, from which the health message is made (emit_poll_outcome, emit_refresh_state_change
\* and drain_worker_events).
THEOREM BoardCatchesUp == Spec => []BoardMatchesWorker
<1>1. Init => Reported /\ InOrder /\ CatchesUp
    BY DEF Init, Reported, Untracked, InOrder, Busy, NoRun, Paired, Ready, Joined, CatchesUp
<1>2. TypeOK /\ CatchesUp => BoardMatchesWorker
    <2> SUFFICES ASSUME TypeOK, CatchesUp, rep.alive, sending[Republisher] = << >>, chan = << >>,
                        ~overlap, NEW i \in Identities, rep.own[i] # "absent", ~Shared(i)
                 PROVE  /\ ~wiped => status[i].tracked
                        /\ status[i].tracked => (Chip(i) = "Read error" <=> rep.own[i] = "stale")
                        /\ rep.own[i] = "stale" => OverallKind = "Danger" \/ wiped
        BY DEF BoardMatchesWorker
    <2>1. ~Mentions(<< >>, i)
        BY DEF Mentions
    <2>2. Shows(i, rep.own[i])
        BY <2>1 DEF CatchesUp
    <2>3. status[i].tracked => (Chip(i) = "Read error" <=> status[i].failed)
        BY DEF Chip
    <2>4. status[i].tracked /\ status[i].failed => OverallKind = "Danger"
        BY DEF OverallKind
    <2> QED
        BY <2>2, <2>3, <2>4 DEF Shows
<1> QED
    BY <1>1, <1>2, StepReported, StepInOrder, StepCatchesUp, BoardTyped, PTL DEF Spec
=============================================================================
