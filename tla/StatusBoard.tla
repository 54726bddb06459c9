---------------------------- MODULE StatusBoard ----------------------------
(***************************************************************************)
(* What the console shows of the points (src/app.rs, src/model.rs): the    *)
(* statuses by identity, the last batch of samples, and the chips made of  *)
(* them, fed by the reports of a republisher and of poll-once threads.     *)
(*                                                                         *)
(* A report is up to three events sent one by one, so reports of two       *)
(* threads may interleave.  The console applies an event by itself: a      *)
(* click between two events of the channel is a drain that had collected   *)
(* only the first of them.                                                 *)
(***************************************************************************)
EXTENDS WorkerEvents, Naturals, FiniteSets

CONSTANTS
    Points,      \* the enabled points: changing them touches nothing here
    Identities,
    IdentityOf,  \* PointIdentity::from_point
    DeviceOf,
    Republisher, \* the republisher thread; one at a time, by OneRepublisher of Console
    Onces,       \* poll-once threads; nothing keeps a second one from starting
    Capacity,    \* RECENT_SAMPLE_CAPACITY
    Backlog      \* bound: no thread begins a report while this many events wait

ASSUME BoardAssumption ==
    /\ IsFiniteSet(Points)
    /\ IdentityOf \in [Points -> Identities]
    /\ \A p, q \in Points : IdentityOf[p] = IdentityOf[q] => DeviceOf[p] = DeviceOf[q]
    /\ Republisher \notin Onces
    /\ Capacity \in Nat \ {0}
    /\ Backlog \in Nat

VARIABLES
    status,   \* point_statuses
    batch,    \* last_sample_batch, by identity
    recent,   \* how many samples recent_samples holds
    active,   \* republisher_active: the console believes in a republisher
    rep,      \* the republisher thread
    once,     \* the poll-once threads that run
    chan,     \* the channel
    sending,  \* per thread, the events of the report it is sending
    overlap,  \* history: two threads that read points have been alive at once
    wiped     \* history: the board was cleared since the republisher started

board == <<status, batch, recent, active>>
vars == <<board, rep, once, chan, sending, overlap, wiped>>

Threads == {Republisher} \cup Onces
Devices == { DeviceOf[p] : p \in Points }

IdsOf(ps) == { IdentityOf[p] : p \in ps }
PointsOn(ds) == { p \in Points : DeviceOf[p] \in ds }

-----------------------------------------------------------------------------
(* PointStatus *)

\* The map of statuses is total here: tracked says that there is an entry.  Of
\* the texts, times and counts only matters whether they are there.
PointStatus == [tracked : BOOLEAN, stale : BOOLEAN, sampled : BOOLEAN,
                failed : BOOLEAN,       \* last_error
                unpublished : BOOLEAN]  \* last_publish_error

Untracked == [tracked |-> FALSE, stale |-> TRUE, sampled |-> FALSE,
              failed |-> FALSE, unpublished |-> FALSE]

\* entry(..).or_default()
Entry(s) == [s EXCEPT !.tracked = TRUE]

SampledKeepingError(s) == [Entry(s) EXCEPT !.sampled = TRUE, !.stale = FALSE]

\* record_sample: a publish error stays until a publish status clears it.
Sampled(s) == [Entry(s) EXCEPT !.sampled = TRUE, !.stale = FALSE, !.failed = FALSE]

\* record_read_failure
ReadFailed(s) == [Entry(s) EXCEPT !.stale = TRUE, !.failed = TRUE]

\* record_publish_success, record_publish_failure
PublishRecorded(s, failed) == [Entry(s) EXCEPT !.unpublished = failed]

RecordSamples(map, ps) ==
    [i \in Identities |-> IF i \in IdsOf(ps) THEN Sampled(map[i]) ELSE map[i]]
RecordFailures(map, ps) ==
    [i \in Identities |-> IF i \in IdsOf(ps) THEN ReadFailed(map[i]) ELSE map[i]]

-----------------------------------------------------------------------------
(* Reports *)

\* The publish status with, as history, the points whose samples it is about.
PublishOf(failed, ps) == [kind |-> "publish", failed |-> failed, points |-> ps]

PollReportPublishFirst(samples, failures, refused) ==
    << Failures(failures), PublishOf(refused, samples), Samples(samples) >>

\* emit_poll_outcome: always all three, empty ones included.
PollReport(samples, failures, refused) ==
    << Failures(failures), Samples(samples), PublishOf(refused, samples) >>

\* A cycle may leave out points (a stop was requested); something can be
\* refused by the outbound channel only if something was sampled.
Outcomes(ps) ==
    { o \in [samples : SUBSET ps, failures : SUBSET ps, refused : BOOLEAN] :
        /\ o.samples \cap o.failures = {}
        /\ o.refused => o.samples # {} }

NoRun == [alive |-> FALSE, missing |-> {},
          own |-> [i \in Identities |-> "absent"]]

Busy(t) == sending[t] # << >> \/ (IF t = Republisher THEN rep.alive ELSE t \in once)
OthersBusy(t) == \E u \in Threads \ {t} : Busy(u)

Init ==
    /\ status = [i \in Identities |-> Untracked]
    /\ batch = {}
    /\ recent = 0
    /\ active = FALSE
    /\ rep = NoRun
    /\ once = {}
    /\ chan = << >>
    /\ sending = [t \in Threads |-> << >>]
    /\ overlap = FALSE
    /\ wiped = FALSE

-----------------------------------------------------------------------------
(* Clicks *)

ClearAllKeepingBatch ==
    /\ status' = [i \in Identities |-> Untracked]
    /\ wiped' = TRUE
    /\ UNCHANGED <<batch, recent, active, rep, once, chan, sending, overlap>>

\* The second press of clear_all_points.
ClearAll ==
    /\ status' = [i \in Identities |-> Untracked]
    /\ batch' = {}
    /\ wiped' = TRUE
    /\ UNCHANGED <<recent, active, rep, once, chan, sending, overlap>>

StartRepublisher ==
    /\ ~active
    /\ active' = TRUE
    /\ rep' = [NoRun EXCEPT !.alive = TRUE]
    /\ overlap' = (overlap \/ OthersBusy(Republisher))
    /\ wiped' = FALSE
    /\ UNCHANGED <<status, batch, recent, once, chan, sending>>

StartPollOnce(o) ==
    /\ ~active
    /\ ~Busy(o)
    /\ once' = once \cup {o}
    /\ overlap' = (overlap \/ OthersBusy(o))
    /\ UNCHANGED <<board, rep, chan, sending, wiped>>

-----------------------------------------------------------------------------
(* Threads *)

\* The republisher's own point_statuses, as in Republisher.
Marked(own, ps, as) == [i \in Identities |-> IF i \in IdsOf(ps) THEN as ELSE own[i]]

MayReport(t) == sending[t] = << >> /\ Len(chan) < Backlog

\* A refresh of the device table: any of the devices may be missing after it, and
\* the points of those that were not missing before are reported.
RepRefreshes ==
    /\ rep.alive
    /\ MayReport(Republisher)
    /\ \E missing \in SUBSET Devices :
          LET newly == PointsOn(missing \ rep.missing)
          IN  /\ rep' = [rep EXCEPT !.missing = missing,
                                    !.own = Marked(@, newly, "stale")]
              /\ sending' = [sending EXCEPT
                    ![Republisher] = IF newly = {} THEN << >> ELSE << Failures(newly) >>]
    /\ UNCHANGED <<board, once, chan, overlap, wiped>>

\* A poll cycle.  The worker records the samples before the failures; its events
\* go out the other way round.
RepPolls ==
    /\ rep.alive
    /\ MayReport(Republisher)
    /\ \E o \in Outcomes(Points \ PointsOn(rep.missing)) :
          /\ rep' = [rep EXCEPT !.own = Marked(Marked(@, o.samples, "fresh"), o.failures, "stale")]
          /\ sending' = [sending EXCEPT
                ![Republisher] = PollReport(o.samples, o.failures, o.refused)]
    /\ UNCHANGED <<board, once, chan, overlap, wiped>>

\* The thread ends, by a stop or by a failure.
RepEnds ==
    /\ rep.alive
    /\ MayReport(Republisher)
    /\ rep' = NoRun
    /\ sending' = [sending EXCEPT ![Republisher] = << Lifecycle("Stopped") >>]
    /\ UNCHANGED <<board, once, chan, overlap, wiped>>

\* spawn_poll_and_publish reports once, or not at all when it fails before.
OnceReports(o) ==
    /\ o \in once
    /\ MayReport(o)
    /\ once' = once \ {o}
    /\ \/ \E out \in Outcomes(Points) :
             sending' = [sending EXCEPT
                ![o] = PollReport(out.samples, out.failures, out.refused)]
       \/ UNCHANGED sending
    /\ UNCHANGED <<board, rep, chan, overlap, wiped>>

Send(t) ==
    /\ sending[t] # << >>
    /\ chan' = Append(chan, Head(sending[t]))
    /\ sending' = [sending EXCEPT ![t] = Tail(@)]
    /\ UNCHANGED <<board, rep, once, overlap, wiped>>

-----------------------------------------------------------------------------
(* drain_worker_events *)

LeastUntrimmed(m, n) == n
Least(m, n) == IF m < n THEN m ELSE n

ApplySamples(ps) ==
    /\ status' = RecordSamples(status, ps)
    /\ batch' = IdsOf(ps)
    /\ recent' = Least(Capacity, recent + Cardinality(ps))
    /\ UNCHANGED active

ApplyFailures(ps) ==
    /\ status' = RecordFailures(status, ps)
    /\ UNCHANGED <<batch, recent, active>>

\* To whatever batch came last, whoever sent it.
ApplyPublishStatus(failed) ==
    /\ status' = [i \in Identities |->
                    IF i \in batch THEN PublishRecorded(status[i], failed) ELSE status[i]]
    /\ UNCHANGED <<batch, recent, active>>

ApplyStopped ==
    /\ active' = FALSE
    /\ UNCHANGED <<status, batch, recent>>

Apply ==
    /\ chan # << >>
    /\ LET event == Head(chan)
       IN  \/ event.kind = "samples" /\ ApplySamples(event.points)
           \/ event.kind = "failures" /\ ApplyFailures(event.points)
           \/ event.kind = "publish" /\ ApplyPublishStatus(event.failed)
           \/ event.kind = "lifecycle" /\ ApplyStopped
    /\ chan' = Tail(chan)
    /\ UNCHANGED <<rep, once, sending, overlap, wiped>>

-----------------------------------------------------------------------------
Next ==
    \/ ClearAll
    \/ StartRepublisher
    \/ \E o \in Onces : StartPollOnce(o) \/ OnceReports(o)
    \/ RepRefreshes
    \/ RepPolls
    \/ RepEnds
    \/ \E t \in Threads : Send(t)
    \/ Apply

Spec == Init /\ [][Next]_vars

-----------------------------------------------------------------------------
(* What the operator sees *)

\* point_status_chip
Chip(i) ==
    LET s == status[i]
    IN  IF ~s.tracked THEN "No sample"
        ELSE IF s.failed THEN "Read error"
        ELSE IF s.unpublished THEN "Publish error"
        ELSE IF s.stale THEN "Stale"
        ELSE "OK"

\* overall_point_kind: over the map, whatever is configured by now.
OverallKind ==
    LET shown == { status[i] : i \in { j \in Identities : status[j].tracked } }
    IN  IF \E s \in shown : s.failed THEN "Danger"
        ELSE IF \E s \in shown : s.stale \/ s.unpublished THEN "Warning"
        ELSE IF recent = 0 THEN "Neutral" ELSE "Success"

-----------------------------------------------------------------------------
(* Properties *)

Events ==
    [kind : {"failures", "samples"}, points : SUBSET Points]
    \cup [kind : {"publish"}, failed : BOOLEAN, points : SUBSET Points]
    \cup { Lifecycle("Stopped") }

\* Every variable keeps its shape, recent_samples its capacity.
TypeOK ==
    /\ status \in [Identities -> PointStatus]
    /\ batch \in SUBSET Identities
    /\ recent \in 0 .. Capacity
    /\ active \in BOOLEAN
    /\ rep \in [alive : BOOLEAN, missing : SUBSET Devices,
                own : [Identities -> {"absent", "fresh", "stale"}]]
    /\ once \in SUBSET Onces
    /\ chan \in Seq(Events)
    /\ sending \in [Threads -> Seq(Events)]
    /\ overlap \in BOOLEAN
    /\ wiped \in BOOLEAN

\* A publish status finds the entries of its batch: none is made by it, so no
\* point is ever shown as "Stale" without a read error that says why, and a point
\* is shown as "OK" only if it was sampled.
NothingFromNowhere ==
    \A i \in Identities :
        /\ i \in batch => status[i].tracked /\ status[i].sampled
        /\ Chip(i) # "Stale"
        /\ Chip(i) \in {"OK", "Publish error"} => status[i].sampled

\* The publish status that is applied next is about the samples that were applied
\* last, unless the board was wiped in between: as long as no two threads that
\* read points were alive at once, although events name no thread.
PublishAttributed ==
    (~overlap /\ chan # << >> /\ Head(chan).kind = "publish")
        => batch \in {IdsOf(Head(chan).points), {}}

Shared(i) == \E p, q \in Points : p # q /\ IdentityOf[p] = i /\ IdentityOf[q] = i

\* Once its reports are applied, the board shows what the republisher's own
\* statuses say, from which the health message is made: a point it knows is
\* tracked, and a read error exactly when it is stale there, missing devices included; and
\* the point health is an error as long as the health message counts a stale point.
\* Excepted are two threads at once, two points of one identity (of which one was
\* read and one was not), and what the operator wiped: the republisher tells of a
\* missing device only once.
BoardMatchesWorker ==
    (rep.alive /\ sending[Republisher] = << >> /\ chan = << >> /\ ~overlap) =>
        \A i \in { j \in Identities : rep.own[j] # "absent" /\ ~Shared(j) } :
            /\ ~wiped => status[i].tracked
            /\ status[i].tracked => (Chip(i) = "Read error" <=> rep.own[i] = "stale")
            /\ rep.own[i] = "stale" => OverallKind = "Danger" \/ wiped
=============================================================================
