---------------------------- MODULE Republisher ----------------------------
(***************************************************************************)
(* The worker of the continuous republisher (src/worker.rs, function       *)
(* spawn_republisher) together with the poll cycle it drives               *)
(* (src/bacnet.rs, poll_points_once_with_client).                          *)
(*                                                                         *)
(* One thread keeps the I-Am cache fresh, selects the points that are due, *)
(* reads them device by device, tracks the health of every point and       *)
(* device, and publishes.  The operator may raise the stop flag at any     *)
(* time; devices answer, fail or stay silent as they like.                 *)
(*                                                                         *)
(* Time advances by one unit per Tick.  Each Instant of the code is kept   *)
(* as the time left until it matters (keepaliveIn, resolveIn, dueIn and    *)
(* the remaining part of a backoff), so no counter grows without bound.    *)
(***************************************************************************)
EXTENDS Integers, Sequences, FiniteSets, WorkerEvents

CONSTANTS
    Points,           \* indices of the configured points
    Devices,          \* BACnet device instances
    Identities,       \* values of PointIdentity
    DeviceOf,         \* the device of each point
    IdentityOf,       \* the identity of each point; two points may share one
    Enabled,          \* points whose `enabled` flag is set
    Readable,         \* points PollRequest::from_point accepts
    Interval,         \* poll interval of each point
    KEEPALIVE,        \* DEVICE_TABLE_KEEPALIVE_INTERVAL
    RERESOLVE,        \* DEVICE_RERESOLVE_INTERVAL
    BACKOFF_INITIAL,  \* DEVICE_BACKOFF_INITIAL
    BackoffMax,       \* device_backoff_max_secs, at least BACKOFF_INITIAL
    Concurrency,      \* poll_concurrency
    Horizon,          \* the length at which a poll cycle's clock saturates
    Responsive        \* devices that answer every request that reaches the
                      \* network, except perhaps the first Who-Is

\* The saturation of `elapsed` is exact: no comparison looks beyond Horizon.
ASSUME ConfigAssumption ==
    /\ DeviceOf \in [Points -> Devices]
    /\ IdentityOf \in [Points -> Identities]
    /\ \A p, q \in Points :
          IdentityOf[p] = IdentityOf[q] => DeviceOf[p] = DeviceOf[q]
    /\ Enabled \subseteq Points
    /\ Readable \subseteq Points
    /\ Responsive \subseteq Devices

ASSUME TimeAssumption ==
    /\ Interval \in [Points -> Nat \ {0}]
    /\ KEEPALIVE \in Nat \ {0}
    /\ RERESOLVE \in Nat \ {0}
    /\ BACKOFF_INITIAL \in Nat \ {0}
    /\ BackoffMax \in Nat
    /\ BACKOFF_INITIAL <= BackoffMax
    /\ Horizon \in Nat
    /\ BackoffMax <= Horizon
    /\ \A p \in Points : Interval[p] <= Horizon
    /\ Concurrency \in Nat \ {0}

VARIABLES
    pc,           \* where the worker is
    stop,         \* the stop flag shared with the operator's console
    unresolved,   \* unresolved_devices
    keepaliveIn,  \* time left until last_full_refresh is KEEPALIVE old
    resolveIn,    \* time left until last_resolve_attempt is RERESOLVE old
    dueIn,        \* per point, time left until last_polled is Interval old
    backoff,      \* device_backoffs: delay and time remaining, or NoBackoff
    due,          \* the points of the poll cycle under way
    elapsed,      \* time since `now` was taken, before the cycle started
    group,        \* per device, the stage of its group in the cycle
    samples,      \* points read so far in the cycle
    failures,     \* points that failed so far in the cycle
    status,       \* point_statuses: absent, or fresh, or stale
    health,       \* the retained message on the MQTT health topic
    out           \* the events the last step sent to the console

timerVars == <<keepaliveIn, resolveIn, dueIn, backoff>>
pollVars  == <<due, elapsed, group, samples, failures>>
vars == <<pc, stop, unresolved, timerVars, pollVars, status, health, out>>

-----------------------------------------------------------------------------
(* Small helpers *)

Monus(a, b) == IF a > b THEN a - b ELSE 0
Lesser(a, b) == IF a < b THEN a ELSE b

NoBackoff == [delay |-> 0, remaining |-> 0]
EnabledDevices == {DeviceOf[p] : p \in Enabled}

Terminal == {"stopped", "failed"}
Refreshing == {"initialRefresh", "keepalive", "reresolve"}
\* Places where the clocks the loop compares are running.
Running == {"loop", "keepalive", "reresolve", "poll", "sleep"}
PC == {"spawned", "connect", "select", "stopping"} \cup Refreshing \cup Running \cup Terminal

-----------------------------------------------------------------------------
(* Device table refresh *)

\* What refresh_device_table, asked for these devices, may report as missing:
\* whatever did not answer Who-Is and is no longer in the I-Am cache.
MissingAfterRefresh(targets) == SUBSET targets

UnresolvedPointsOfCycle(devices) == {p \in due : DeviceOf[p] \in devices}

\* record_unresolved_failures: the enabled points it marks as failed ...
UnresolvedPoints(devices) == {p \in Enabled : DeviceOf[p] \in devices}

\* record_read_failure for every point of ps
MarkStale(st, ps) ==
    [i \in Identities |-> IF \E p \in ps : IdentityOf[p] = i THEN "stale" ELSE st[i]]

\* record_sample for every point of ps
MarkFresh(st, ps) ==
    [i \in Identities |-> IF \E p \in ps : IdentityOf[p] = i THEN "fresh" ELSE st[i]]

\* ... and the event it sends, unless there is nothing to report.
FailureReport(ps) == IF ps = {} THEN << >> ELSE << Failures(ps) >>

\* emit_refresh_state_change: only devices that were not missing before count.
NewlyReported(missing) == UnresolvedPoints(missing \ unresolved)

StillUnresolvedNeverCleared(resolved, missing) == unresolved \cup missing

\* apply_refresh_state, for the devices found (resolved) and not found (missing)
StillUnresolved(resolved, missing) == (unresolved \ resolved) \cup missing

BackoffAfterRefresh(resolved) ==
    [d \in Devices |-> IF d \in resolved THEN NoBackoff ELSE backoff[d]]

-----------------------------------------------------------------------------
(* Selection of due points and the results of a poll cycle *)

DueWhileUnresolved ==
    {p \in Enabled : backoff[DeviceOf[p]].remaining = 0 /\ dueIn[p] = 0}

\* due_points
Due == {p \in Enabled : /\ DeviceOf[p] \notin unresolved
                        /\ backoff[DeviceOf[p]].remaining = 0
                        /\ dueIn[p] = 0}

\* The points of the cycle for which a request could be built, by device.
Requests(d) == {p \in due \cap Readable : DeviceOf[p] = d}
Unread(d) == Requests(d) \ (samples \cup failures)
InFlight == {d \in Devices : group[d] \in {"rpm", "individual"}}

DevicesOf(ps) == {DeviceOf[p] : p \in ps}

NextDelayUncapped(b) == IF b = NoBackoff THEN BACKOFF_INITIAL ELSE 2 * b.delay

NextDelay(b) ==
    IF b = NoBackoff THEN Lesser(BACKOFF_INITIAL, BackoffMax)
                     ELSE Lesser(2 * b.delay, BackoffMax)

BackoffAfterPollKeptWhenHealthy ==
    [d \in Devices |->
        IF d \in DevicesOf(failures) \ DevicesOf(samples)
        THEN [delay |-> NextDelay(backoff[d]),
              remaining |-> Monus(NextDelay(backoff[d]), elapsed)]
        ELSE backoff[d]]

\* update_device_backoffs; `until` is counted from the start of the cycle
BackoffAfterPoll ==
    [d \in Devices |->
        IF d \in DevicesOf(samples) THEN NoBackoff
        ELSE IF d \in DevicesOf(failures)
             THEN [delay |-> NextDelay(backoff[d]),
                   remaining |-> Monus(NextDelay(backoff[d]), elapsed)]
             ELSE backoff[d]]

\* samples are recorded first, then failures
StatusAfterPoll == MarkStale(MarkFresh(status, samples), failures)

StaleIn(st) == {i \in Identities : st[i] = "stale"}

StatusOkIgnoringStale(stale, publishFailed) ==
    IF failures = {} /\ ~publishFailed THEN "ok" ELSE "degraded"

\* HealthSnapshot::status
HealthStatus(stale, publishFailed) ==
    IF failures = {} /\ ~publishFailed /\ stale = {} THEN "ok" ELSE "degraded"

\* publish_health: the retained message is replaced if the new one is queued.
HealthAfterPoll(publishFailed, queued) ==
    IF queued THEN HealthStatus(StaleIn(StatusAfterPoll), publishFailed) ELSE health

\* emit_poll_outcome: what the console is told, in this order.
PollReport(publishFailed) ==
    << Failures(failures), Samples(samples), PublishStatus(publishFailed) >>

-----------------------------------------------------------------------------
(* The health topic is retained: an earlier session may have left a message *)
Init ==
    /\ pc = "spawned"
    /\ stop = FALSE
    /\ unresolved = {}
    /\ keepaliveIn = KEEPALIVE
    /\ resolveIn = RERESOLVE
    /\ dueIn = [p \in Points |-> 0]
    /\ backoff = [d \in Devices |-> NoBackoff]
    /\ due = {}
    /\ elapsed = 0
    /\ group = [d \in Devices |-> "done"]
    /\ samples = {}
    /\ failures = {}
    /\ status = [i \in Identities |-> "absent"]
    /\ health \in {"none", "ok", "degraded"}
    /\ out = << >>

-----------------------------------------------------------------------------
(* Start up *)

\* The runtime is built, Starting is sent and the MQTT publisher is created.
Setup ==
    /\ pc = "spawned"
    /\ pc' = "connect"
    /\ out' = << Lifecycle("Starting") >>
    /\ UNCHANGED <<stop, unresolved, timerVars, pollVars, status, health>>

\* run_async cannot build its runtime: nothing of the future runs.
RuntimeFails ==
    /\ pc = "spawned"
    /\ pc' = "failed"
    /\ out' = << Lifecycle("Failed") >>
    /\ UNCHANGED <<stop, unresolved, timerVars, pollVars, status, health>>

\* RumqttPublisher::new fails.
PublisherFails ==
    /\ pc = "spawned"
    /\ pc' = "failed"
    /\ out' = << Lifecycle("Starting"), Lifecycle("Failed") >>
    /\ UNCHANGED <<stop, unresolved, timerVars, pollVars, status, health>>

ClientBuilt ==
    /\ pc = "connect"
    /\ pc' = "initialRefresh"
    /\ out' = << Lifecycle("Running") >>
    /\ UNCHANGED <<stop, unresolved, timerVars, pollVars, status, health>>

ClientFailsSilently ==
    /\ pc = "connect"
    /\ pc' = "failed"
    /\ out' = << >>
    /\ UNCHANGED <<stop, unresolved, timerVars, pollVars, status, health>>

ClientFails ==
    /\ pc = "connect"
    /\ pc' = "failed"
    /\ out' = << Lifecycle("Failed") >>
    /\ UNCHANGED <<stop, unresolved, timerVars, pollVars, status, health>>

\* The first refresh_device_table.  An error leaves no device unresolved, just
\* like an answer that misses none.
InitialRefresh ==
    /\ pc = "initialRefresh"
    /\ \E missing \in MissingAfterRefresh(EnabledDevices) :
          /\ unresolved' = missing
          /\ status' = MarkStale(status, UnresolvedPoints(missing))
          /\ out' = FailureReport(UnresolvedPoints(missing))
    /\ keepaliveIn' = KEEPALIVE
    /\ resolveIn' = RERESOLVE
    /\ pc' = "loop"
    /\ UNCHANGED <<stop, dueIn, backoff, pollVars, health>>

-----------------------------------------------------------------------------
(* The loop *)

StopRequestedIgnored == FALSE

\* The loop condition, read once per iteration.
StopRequested == stop

BeginKeepalive ==
    /\ pc = "loop"
    /\ ~StopRequested
    /\ keepaliveIn = 0
    /\ keepaliveIn' = KEEPALIVE
    /\ resolveIn' = RERESOLVE
    /\ pc' = "keepalive"
    /\ out' = << >>
    /\ UNCHANGED <<stop, unresolved, dueIn, backoff, pollVars, status, health>>

BeginReresolve ==
    /\ pc = "loop"
    /\ ~StopRequested
    /\ keepaliveIn > 0
    /\ unresolved # {}
    /\ resolveIn = 0
    /\ resolveIn' = RERESOLVE
    /\ pc' = "reresolve"
    /\ out' = << >>
    /\ UNCHANGED <<stop, unresolved, keepaliveIn, dueIn, backoff, pollVars, status, health>>

NoRefreshNeeded ==
    /\ pc = "loop"
    /\ ~StopRequested
    /\ keepaliveIn > 0
    /\ unresolved = {} \/ resolveIn > 0
    /\ pc' = "select"
    /\ out' = << >>
    /\ UNCHANGED <<stop, unresolved, timerVars, pollVars, status, health>>

RefreshTargetsKnownOnly ==
    IF pc = "keepalive" THEN EnabledDevices \ unresolved ELSE unresolved

\* refresh_device_table was given this set.
RefreshTargets == IF pc = "keepalive" THEN EnabledDevices ELSE unresolved

RefreshAnswered ==
    /\ pc \in {"keepalive", "reresolve"}
    /\ \E missing \in MissingAfterRefresh(RefreshTargets \ Responsive) :
          LET resolved == RefreshTargets \ missing
          IN  /\ unresolved' = StillUnresolved(resolved, missing)
              /\ backoff' = BackoffAfterRefresh(resolved)
              /\ status' = MarkStale(status, NewlyReported(missing))
              /\ out' = FailureReport(NewlyReported(missing))
    /\ pc' = "select"
    /\ UNCHANGED <<stop, keepaliveIn, resolveIn, dueIn, pollVars, health>>

\* Who-Is could not be sent: the previous state of the table is kept.
RefreshErrs ==
    /\ pc \in {"keepalive", "reresolve"}
    /\ pc' = "select"
    /\ out' = << >>
    /\ UNCHANGED <<stop, unresolved, timerVars, pollVars, status, health>>

NothingDue ==
    /\ pc = "select"
    /\ Due = {}
    /\ pc' = "sleep"
    /\ out' = << >>
    /\ UNCHANGED <<stop, unresolved, timerVars, pollVars, status, health>>

\* A point no request can be built for fails at once; the others are queued in
\* one group per device.
PollStart ==
    /\ pc = "select"
    /\ Due # {}
    /\ due' = Due
    /\ elapsed' = 0
    /\ samples' = {}
    /\ failures' = Due \ Readable
    /\ group' = [d \in Devices |->
                    IF d \in DevicesOf(Due \cap Readable) THEN "queued" ELSE "done"]
    /\ pc' = "poll"
    /\ out' = << >>
    /\ UNCHANGED <<stop, unresolved, timerVars, status, health>>

-----------------------------------------------------------------------------
(* One poll cycle: at most Concurrency groups are read at the same time *)

GroupStart(d) ==
    /\ pc = "poll"
    /\ group[d] = "queued"
    /\ Cardinality(InFlight) < Concurrency
    /\ ~stop
    /\ group' = [group EXCEPT ![d] = "rpm"]
    /\ out' = << >>
    /\ UNCHANGED <<pc, stop, unresolved, timerVars, due, elapsed, samples, failures,
                   status, health>>

GroupCancelled(d) ==
    /\ pc = "poll"
    /\ group[d] = "queued"
    /\ Cardinality(InFlight) < Concurrency
    /\ stop
    /\ group' = [group EXCEPT ![d] = "done"]
    /\ out' = << >>
    /\ UNCHANGED <<pc, stop, unresolved, timerVars, due, elapsed, samples, failures,
                   status, health>>

\* One ReadPropertyMultiple answers everything.  Two requests for the same
\* property never pass its completeness count: only the first one is matched.
RpmOk(d) ==
    /\ pc = "poll"
    /\ group[d] = "rpm"
    /\ \A p, q \in Requests(d) : IdentityOf[p] = IdentityOf[q] => p = q
    /\ samples' = samples \cup Requests(d)
    /\ group' = [group EXCEPT ![d] = "done"]
    /\ out' = << >>
    /\ UNCHANGED <<pc, stop, unresolved, timerVars, due, elapsed, failures, status, health>>

RpmFails(d) ==
    /\ pc = "poll"
    /\ group[d] = "rpm"
    /\ group' = [group EXCEPT ![d] = "individual"]
    /\ out' = << >>
    /\ UNCHANGED <<pc, stop, unresolved, timerVars, due, elapsed, samples, failures,
                   status, health>>

StageAfterFirstRead(d, p) == "done"

\* The stage of a group once p is read, too.
StageAfterRead(d, p) == IF Unread(d) = {p} THEN "done" ELSE "individual"

ReadOk(d) ==
    /\ pc = "poll"
    /\ group[d] = "individual"
    /\ ~stop
    /\ \E p \in Unread(d) :
          /\ samples' = samples \cup {p}
          /\ group' = [group EXCEPT ![d] = StageAfterRead(d, p)]
    /\ out' = << >>
    /\ UNCHANGED <<pc, stop, unresolved, timerVars, due, elapsed, failures, status, health>>

ReadFails(d) ==
    /\ pc = "poll"
    /\ group[d] = "individual"
    /\ ~stop
    /\ d \notin Responsive
    /\ \E p \in Unread(d) :
          /\ failures' = failures \cup {p}
          /\ group' = [group EXCEPT ![d] = StageAfterRead(d, p)]
    /\ out' = << >>
    /\ UNCHANGED <<pc, stop, unresolved, timerVars, due, elapsed, samples, status, health>>

\* The stop flag is seen between two reads: the rest of the group is dropped.
ReadsCancelled(d) ==
    /\ pc = "poll"
    /\ group[d] = "individual"
    /\ stop
    /\ group' = [group EXCEPT ![d] = "done"]
    /\ out' = << >>
    /\ UNCHANGED <<pc, stop, unresolved, timerVars, due, elapsed, samples, failures,
                   status, health>>

\* All groups have ended: the outcome is recorded and published.  The outbound
\* MQTT channel may be full for a sample (publishFailed) or for the health
\* message (which then leaves the retained one as it was).
PollFinish ==
    /\ pc = "poll"
    /\ \A d \in Devices : group[d] = "done"
    /\ dueIn' = [p \in Points |->
                    IF p \in due THEN Monus(Interval[p], elapsed) ELSE dueIn[p]]
    /\ status' = StatusAfterPoll
    /\ backoff' = BackoffAfterPoll
    /\ \E publishFailed, healthQueued \in BOOLEAN :
          /\ publishFailed => samples # {}
          /\ health' = HealthAfterPoll(publishFailed, healthQueued)
          /\ out' = PollReport(publishFailed)
    /\ due' = {} /\ elapsed' = 0 /\ samples' = {} /\ failures' = {}
    /\ pc' = "sleep"
    /\ UNCHANGED <<stop, unresolved, keepaliveIn, resolveIn, group>>

-----------------------------------------------------------------------------
(* Shut down *)

LeaveLoop ==
    /\ pc = "loop"
    /\ StopRequested
    /\ pc' = "stopping"
    /\ out' = << Lifecycle("Stopping") >>
    /\ UNCHANGED <<stop, unresolved, timerVars, pollVars, status, health>>

\* client.stop() ends or is abandoned after CLIENT_STOP_TIMEOUT.
ClientStopped ==
    /\ pc = "stopping"
    /\ pc' = "stopped"
    /\ out' = << Lifecycle("Stopped"), Finished >>
    /\ UNCHANGED <<stop, unresolved, timerVars, pollVars, status, health>>

\* A panic anywhere in the future is caught by run_async.
Panic ==
    /\ pc \notin Terminal \cup {"spawned"}
    /\ pc' = "failed"
    /\ out' = << Finished, Lifecycle("Failed") >>
    /\ UNCHANGED <<stop, unresolved, timerVars, pollVars, status, health>>

-----------------------------------------------------------------------------
(* Time, the operator and the whole system *)

\* tokio::time::sleep ends with the tick; in every other place of Running any
\* number of ticks may pass.
Tick ==
    /\ pc \in Running
    /\ keepaliveIn' = Monus(keepaliveIn, 1)
    /\ resolveIn' = Monus(resolveIn, 1)
    /\ dueIn' = [p \in Points |-> Monus(dueIn[p], 1)]
    /\ backoff' = [d \in Devices |->
                      [delay |-> backoff[d].delay,
                       remaining |-> Monus(backoff[d].remaining, 1)]]
    /\ elapsed' = IF pc = "poll" THEN Lesser(elapsed + 1, Horizon) ELSE elapsed
    /\ pc' = IF pc = "sleep" THEN "loop" ELSE pc
    /\ out' = << >>
    /\ UNCHANGED <<stop, unresolved, due, group, samples, failures, status, health>>

\* stop_republisher: the flag is raised once and never lowered.
RequestStop ==
    /\ pc \notin Terminal
    /\ ~stop
    /\ stop' = TRUE
    /\ out' = << >>
    /\ UNCHANGED <<pc, unresolved, timerVars, pollVars, status, health>>

Rest ==
    /\ pc \in Terminal
    /\ out' = << >>
    /\ UNCHANGED <<pc, stop, unresolved, timerVars, pollVars, status, health>>

GroupStep(d) ==
    \/ GroupStart(d)
    \/ GroupCancelled(d)
    \/ RpmOk(d)
    \/ RpmFails(d)
    \/ ReadOk(d)
    \/ ReadFails(d)
    \/ ReadsCancelled(d)

Worker ==
    \/ Setup
    \/ RuntimeFails
    \/ PublisherFails
    \/ ClientBuilt
    \/ ClientFails
    \/ InitialRefresh
    \/ BeginKeepalive
    \/ BeginReresolve
    \/ NoRefreshNeeded
    \/ RefreshAnswered
    \/ RefreshErrs
    \/ NothingDue
    \/ PollStart
    \/ \E d \in Devices : GroupStep(d)
    \/ PollFinish
    \/ LeaveLoop
    \/ ClientStopped

Next == Worker \/ Panic \/ Tick \/ RequestStop \/ Rest

Spec == Init /\ [][Next]_vars

\* Every await of the worker ends (BACnet requests time out, sleeps and waits
\* are bounded) and time passes; nothing obliges the operator or a panic.
FairSpec == Spec /\ WF_vars(Worker) /\ WF_vars(Tick)

-----------------------------------------------------------------------------
(* Properties *)

\* Every variable keeps its shape; a backoff never exceeds the configured cap.
TypeOK ==
    /\ pc \in PC
    /\ stop \in BOOLEAN
    /\ unresolved \subseteq Devices
    /\ keepaliveIn \in 0..KEEPALIVE
    /\ resolveIn \in 0..RERESOLVE
    /\ dueIn \in [Points -> 0..Horizon]
    /\ backoff \in [Devices -> [delay : 0..BackoffMax, remaining : 0..BackoffMax]]
    /\ due \subseteq Enabled
    /\ elapsed \in 0..Horizon
    /\ group \in [Devices -> {"queued", "rpm", "individual", "done"}]
    /\ samples \subseteq due
    /\ failures \subseteq due
    /\ status \in [Identities -> {"absent", "fresh", "stale"}]
    /\ health \in {"none", "ok", "degraded"}

\* While a device is missing from the I-Am cache every enabled point on it is
\* reported stale (record_unresolved_failures), whatever was read before and
\* whichever cycles ran since.
UnresolvedStale ==
    \A p \in Enabled : DeviceOf[p] \in unresolved => status[IdentityOf[p]] = "stale"

\* A device that is being retried less often (device_backoffs) shows at least
\* one stale point: its silence is never invisible in the point statuses.
BackoffShows ==
    \A d \in Devices : backoff[d] # NoBackoff =>
        \E p \in Enabled : DeviceOf[p] = d /\ status[IdentityOf[p]] = "stale"

\* Until a stop is requested, an enabled point without any status has not been
\* passed over: between cycles it is due and neither the unresolved set nor a
\* backoff holds it back; during a cycle it is being read.
NeverPassedOver ==
    ~stop => \A p \in Enabled : status[IdentityOf[p]] = "absent" =>
        /\ pc \in {"loop", "keepalive", "reresolve", "select", "sleep"} =>
              /\ dueIn[p] = 0
              /\ backoff[DeviceOf[p]] = NoBackoff
              /\ DeviceOf[p] \notin unresolved
        /\ pc = "poll" => p \in due

\* What ties a cycle to the rest of the state.  Before the first refresh no
\* device is unresolved, backed off or reported; between cycles nothing of a
\* cycle is left; during one, no device of it is unresolved, unreadable points
\* have failed, and unless a stop was requested a finished group is read.
CycleCoherent ==
    /\ pc \in {"spawned", "connect", "initialRefresh"} =>
          /\ unresolved = {}
          /\ backoff = [d \in Devices |-> NoBackoff]
          /\ dueIn = [p \in Points |-> 0]
    /\ pc \notin {"poll"} \cup Terminal => due = {}
    /\ pc = "poll" =>
          /\ \A p \in due : DeviceOf[p] \notin unresolved
          /\ due \ Readable \subseteq failures
          /\ ~stop => \A d \in Devices :
                group[d] = "done" => Requests(d) \subseteq samples \cup failures

\* A health message "ok" published by a cycle nobody cancelled tells the truth:
\* every enabled point was read successfully the last time it was tried.
HealthOkHonest ==
    [][ pc = "poll" /\ pc' = "sleep" /\ ~stop /\ health # "ok" /\ health' = "ok"
        => \A p \in Enabled : status'[IdentityOf[p]] = "fresh" ]_vars

\* A stop request is honoured, in whatever await the worker is.
StopHonoured == stop ~> pc \in Terminal

\* A device that answers is read again and again until the worker stops: no
\* backoff, failed refresh or silent neighbour shuts it out for good, as long as
\* the local socket does not refuse every Who-Is for ever.
ResponsiveSampled ==
    SF_vars(RefreshAnswered) =>
        \A p \in Enabled \cap Readable : DeviceOf[p] \in Responsive =>
            []<>(p \in samples \/ stop \/ pc \in Terminal)

\* An unresolved device is asked for again (DEVICE_RERESOLVE_INTERVAL), even if
\* every cycle takes so long that the keepalive always comes first.
UnresolvedRetried ==
    \A d \in Devices : d \in unresolved ~>
        \/ d \notin unresolved
        \/ pc \in {"keepalive", "reresolve"} /\ d \in RefreshTargets
        \/ stop \/ pc \in Terminal

\* A backed-off device is tried again, whatever its failure history.
BackoffEnds ==
    \A d \in Devices : backoff[d] # NoBackoff ~>
        (d \in DevicesOf(due) \/ backoff[d] = NoBackoff \/ d \in unresolved
         \/ stop \/ pc \in Terminal)

\* Nothing is held back for ever: the two ways a device is kept from being read both
\* end in another try.
HeldBackRetried == UnresolvedRetried /\ BackoffEnds

\* What the comment on record_unresolved_failures promises: a point on an
\* unresolved device is reported stale by the health snapshot, so a retained
\* "ok" does not survive.
HealthShowsUnresolved ==
    (health = "ok" /\ UnresolvedPoints(unresolved) # {}) ~>
        (health # "ok" \/ UnresolvedPoints(unresolved) = {} \/ stop \/ pc \in Terminal)
=============================================================================
