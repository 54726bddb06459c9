------------------------- MODULE RepublisherProofs -------------------------
(***************************************************************************)
(* What holds of the republisher worker for every configuration: any set   *)
(* of points and devices, any intervals, any backoff cap; and that it      *)
(* implements the contract the console relies on.                          *)
(***************************************************************************)
EXTENDS RepublisherContract, TLAPS

-----------------------------------------------------------------------------
(* Lemmas about the clocks and the backoff delays *)

\* What is left of a duration is a natural number no longer than the duration.
LEMMA MonusBounds ==
    ASSUME NEW a \in Nat, NEW b \in Nat
    PROVE  Monus(a, b) \in 0..a
BY DEF Monus

\* The next delay of a device is positive and within the configured cap,
\* whether it is the first failure or a later one.
LEMMA NextDelayBounds ==
    ASSUME NEW b \in [delay : 0..BackoffMax, remaining : 0..BackoffMax]
    PROVE  NextDelay(b) \in 0..BackoffMax
<1>1. b.delay \in 0..BackoffMax
  OBVIOUS
<1>2. QED
  BY <1>1, TimeAssumption DEF NextDelay, Lesser

\* Reporting points stale, or fresh, gives every identity a status.
LEMMA MarkStaleType ==
    ASSUME NEW st \in [Identities -> {"absent", "fresh", "stale"}], NEW ps
    PROVE  MarkStale(st, ps) \in [Identities -> {"absent", "fresh", "stale"}]
BY DEF MarkStale

\* record_sample likewise gives every identity a status.
LEMMA MarkFreshType ==
    ASSUME NEW st \in [Identities -> {"absent", "fresh", "stale"}], NEW ps
    PROVE  MarkFresh(st, ps) \in [Identities -> {"absent", "fresh", "stale"}]
BY DEF MarkFresh

-----------------------------------------------------------------------------
(* Type correctness *)

\* A worker about to start has the shape TypeOK asks for.
LEMMA InitTypeOK == Init => TypeOK
<1> SUFFICES ASSUME Init PROVE TypeOK
  OBVIOUS
<1>1. NoBackoff \in [delay : 0..BackoffMax, remaining : 0..BackoffMax]
  BY TimeAssumption DEF NoBackoff
<1>2. backoff \in [Devices -> [delay : 0..BackoffMax, remaining : 0..BackoffMax]]
  BY <1>1 DEF Init
<1>3. keepaliveIn \in 0..KEEPALIVE /\ resolveIn \in 0..RERESOLVE /\ elapsed \in 0..Horizon
  BY TimeAssumption DEF Init
<1>4. dueIn \in [Points -> 0..Horizon]
  BY TimeAssumption DEF Init
<1>5. QED
  BY <1>2, <1>3, <1>4 DEF Init, TypeOK, PC

\* Steps that only move pc and send events.
LEMMA QuietStep ==
    ASSUME TypeOK, pc' \in PC,
           UNCHANGED <<stop, unresolved, timerVars, pollVars, status, health>>
    PROVE  TypeOK'
BY DEF TypeOK, timerVars, pollVars

\* Reading a device group records only points of the cycle.
LEMMA GroupStepTypeOK ==
    ASSUME TypeOK, NEW d \in Devices, GroupStep(d)
    PROVE  TypeOK'
<1>1. /\ UNCHANGED <<pc, stop, unresolved, timerVars, due, elapsed, status, health>>
      /\ group' \in [Devices -> {"queued", "rpm", "individual", "done"}]
      /\ samples' \subseteq due
      /\ failures' \subseteq due
  BY DEF TypeOK, GroupStep, GroupStart, GroupCancelled, RpmOk, RpmFails, ReadOk,
         ReadFails, ReadsCancelled, StageAfterRead, Unread, Requests
<1>2. QED
  BY <1>1 DEF TypeOK, timerVars

\* The end of a cycle keeps every timer and backoff within its bound.
LEMMA PollFinishTypeOK ==
    ASSUME TypeOK, PollFinish
    PROVE  TypeOK'
<1>1. dueIn' \in [Points -> 0..Horizon]
  <2>1. ASSUME NEW p \in Points
        PROVE  (IF p \in due THEN Monus(Interval[p], elapsed) ELSE dueIn[p]) \in 0..Horizon
    <3>1. Monus(Interval[p], elapsed) \in 0..Horizon
      BY TimeAssumption DEF TypeOK, Monus
    <3>2. QED
      BY <3>1 DEF TypeOK
  <2>2. QED
    BY <2>1 DEF PollFinish
<1>2. backoff' \in [Devices -> [delay : 0..BackoffMax, remaining : 0..BackoffMax]]
  <2>1. ASSUME NEW d \in Devices
        PROVE  BackoffAfterPoll[d] \in [delay : 0..BackoffMax, remaining : 0..BackoffMax]
    <3>1. backoff[d] \in [delay : 0..BackoffMax, remaining : 0..BackoffMax]
      BY DEF TypeOK
    <3>2. NextDelay(backoff[d]) \in 0..BackoffMax
      BY <3>1, NextDelayBounds
    <3>3. Monus(NextDelay(backoff[d]), elapsed) \in 0..BackoffMax
      BY <3>2, TimeAssumption DEF TypeOK, Monus
    <3>4. NoBackoff \in [delay : 0..BackoffMax, remaining : 0..BackoffMax]
      BY TimeAssumption DEF NoBackoff
    <3>5. QED
      BY <3>1, <3>2, <3>3, <3>4 DEF BackoffAfterPoll
  <2>2. QED
    BY <2>1 DEF PollFinish, BackoffAfterPoll
<1>3. status' \in [Identities -> {"absent", "fresh", "stale"}]
  BY MarkFreshType, MarkStaleType DEF TypeOK, PollFinish, StatusAfterPoll
<1>4. health' \in {"none", "ok", "degraded"}
  BY DEF TypeOK, PollFinish, HealthAfterPoll, HealthStatus
<1>5. /\ pc' \in PC /\ stop' = stop /\ unresolved' = unresolved
      /\ keepaliveIn' = keepaliveIn /\ resolveIn' = resolveIn
      /\ due' = {} /\ elapsed' = 0 /\ samples' = {} /\ failures' = {} /\ group' = group
  BY DEF PollFinish, PC, Running
<1>6. QED
  BY <1>1, <1>2, <1>3, <1>4, <1>5, TimeAssumption DEF TypeOK

\* Time only takes from the timers.
LEMMA TickTypeOK ==
    ASSUME TypeOK, Tick
    PROVE  TypeOK'
<1>1. pc' \in PC
  BY DEF Tick, TypeOK, PC, Running
<1>2. keepaliveIn' \in 0..KEEPALIVE /\ resolveIn' \in 0..RERESOLVE
  BY TimeAssumption DEF Tick, TypeOK, Monus
<1>3. dueIn' \in [Points -> 0..Horizon]
  BY TimeAssumption DEF Tick, TypeOK, Monus
<1>4. backoff' \in [Devices -> [delay : 0..BackoffMax, remaining : 0..BackoffMax]]
  <2>1. ASSUME NEW d \in Devices
        PROVE  /\ backoff[d].delay \in 0..BackoffMax
               /\ Monus(backoff[d].remaining, 1) \in 0..BackoffMax
    BY TimeAssumption DEF TypeOK, Monus
  <2>2. QED
    BY <2>1 DEF Tick
<1>5. elapsed' \in 0..Horizon
  BY TimeAssumption DEF Tick, TypeOK, Lesser
<1>6. QED
  BY <1>1, <1>2, <1>3, <1>4, <1>5 DEF Tick, TypeOK

\* A refresh of the device table adds only devices of the configuration.
LEMMA RefreshTypeOK ==
    ASSUME TypeOK, InitialRefresh \/ RefreshAnswered
    PROVE  TypeOK'
<1>1. EnabledDevices \subseteq Devices
  BY ConfigAssumption DEF EnabledDevices
<1>2. RefreshTargets \subseteq Devices
  BY <1>1 DEF RefreshTargets, TypeOK
<1>3. NoBackoff \in [delay : 0..BackoffMax, remaining : 0..BackoffMax]
  BY TimeAssumption DEF NoBackoff
<1>4. CASE InitialRefresh
  <2>1. status' \in [Identities -> {"absent", "fresh", "stale"}]
    BY <1>4, MarkStaleType DEF InitialRefresh, MissingAfterRefresh, TypeOK
  <2>2. unresolved' \subseteq Devices /\ pc' \in PC
    BY <1>1, <1>4 DEF InitialRefresh, MissingAfterRefresh, PC, Running
  <2>3. QED
    BY <1>4, <2>1, <2>2, TimeAssumption DEF InitialRefresh, MissingAfterRefresh, TypeOK, pollVars
<1>5. CASE RefreshAnswered
  <2>1. status' \in [Identities -> {"absent", "fresh", "stale"}]
    BY <1>5, MarkStaleType DEF RefreshAnswered, MissingAfterRefresh, TypeOK
  <2>2. unresolved' \subseteq Devices /\ pc' \in PC
    BY <1>2, <1>5 DEF RefreshAnswered, MissingAfterRefresh, StillUnresolved, TypeOK, PC
  <2>3. backoff' \in [Devices -> [delay : 0..BackoffMax, remaining : 0..BackoffMax]]
    BY <1>3, <1>5 DEF RefreshAnswered, MissingAfterRefresh, BackoffAfterRefresh, TypeOK
  <2>4. QED
    BY <1>5, <2>1, <2>2, <2>3 DEF RefreshAnswered, MissingAfterRefresh, TypeOK, pollVars
<1>6. QED
  BY <1>4, <1>5

\* No step leaves the type: one case per action of Next.
LEMMA NextTypeOK == TypeOK /\ [Next]_vars => TypeOK'
<1> SUFFICES ASSUME TypeOK, [Next]_vars
             PROVE  TypeOK'
  OBVIOUS
<1>1. CASE \/ Setup \/ RuntimeFails \/ PublisherFails \/ ClientBuilt \/ ClientFails
           \/ NoRefreshNeeded \/ RefreshErrs \/ NothingDue \/ LeaveLoop
           \/ ClientStopped \/ Panic \/ Rest
  <2>1. pc' \in PC
    BY <1>1 DEF Setup, RuntimeFails, PublisherFails, ClientBuilt, ClientFails,
                NoRefreshNeeded, RefreshErrs, NothingDue, LeaveLoop, ClientStopped,
                Panic, Rest, PC, Refreshing, Running, Terminal, TypeOK
  <2>2. UNCHANGED <<stop, unresolved, timerVars, pollVars, status, health>>
    BY <1>1 DEF Setup, RuntimeFails, PublisherFails, ClientBuilt, ClientFails,
                NoRefreshNeeded, RefreshErrs, NothingDue, LeaveLoop, ClientStopped,
                Panic, Rest
  <2>3. QED
    BY <2>1, <2>2, QuietStep
<1>2. CASE InitialRefresh \/ RefreshAnswered
  BY <1>2, RefreshTypeOK
<1>3. CASE BeginKeepalive
  BY <1>3, TimeAssumption DEF BeginKeepalive, TypeOK, pollVars, PC, Refreshing
<1>4. CASE BeginReresolve
  BY <1>4, TimeAssumption DEF BeginReresolve, TypeOK, pollVars, PC, Refreshing
<1>5. CASE PollStart
  <2>1. Due \subseteq Enabled
    BY DEF Due
  <2>2. QED
    BY <1>5, <2>1, TimeAssumption DEF PollStart, TypeOK, timerVars, PC, Running
<1>6. CASE \E d \in Devices : GroupStep(d)
  BY <1>6, GroupStepTypeOK
<1>7. CASE PollFinish
  BY <1>7, PollFinishTypeOK
<1>8. CASE Tick
  BY <1>8, TickTypeOK
<1>9. CASE RequestStop
  BY <1>9 DEF RequestStop, TypeOK, timerVars, pollVars
<1>10. CASE UNCHANGED vars
  BY <1>10 DEF vars, timerVars, pollVars, TypeOK
<1>11. QED
  BY <1>1, <1>2, <1>3, <1>4, <1>5, <1>6, <1>7, <1>8, <1>9, <1>10 DEF Next, Worker

\* The worker's state keeps its shape in every configuration; in particular
\* update_device_backoffs never exceeds device_backoff_max_secs.
THEOREM TypeCorrect == Spec => []TypeOK
<1>1. Init => TypeOK
  BY InitTypeOK
<1>2. TypeOK /\ [Next]_vars => TypeOK'
  BY NextTypeOK
<1>3. QED
  BY <1>1, <1>2, PTL DEF Spec

-----------------------------------------------------------------------------
(* The inductive invariant                                                 *)
(*                                                                         *)
(* UnresolvedStale alone is not inductive: that a finished cycle cannot    *)
(* freshen a point of an unresolved device needs to know that no such      *)
(* device is in the cycle.  NeverPassedOver needs UnresolvedStale (a point *)
(* that becomes unresolved gets a status) and that a finished group was    *)
(* read.  CycleCoherent states both.                                       *)

IInv == TypeOK /\ CycleCoherent /\ UnresolvedStale /\ BackoffShows /\ NeverPassedOver

\* Steps that leave devices, points and the cycle alone preserve everything
\* that does not depend on where the worker is.
LEMMA StatesKept ==
    ASSUME IInv, UNCHANGED <<unresolved, backoff, status>>
    PROVE  UnresolvedStale' /\ BackoffShows'
BY DEF IInv, UnresolvedStale, BackoffShows

\* What the refresh reports is stale, and nothing it reports becomes fresh.
LEMMA MarkStaleEffect ==
    ASSUME NEW st \in [Identities -> {"absent", "fresh", "stale"}], NEW ps \in SUBSET Points
    PROVE  /\ \A p \in ps : MarkStale(st, ps)[IdentityOf[p]] = "stale"
           /\ \A i \in Identities :
                 st[i] = "stale" => MarkStale(st, ps)[i] = "stale"
           /\ \A i \in Identities :
                 MarkStale(st, ps)[i] = "absent" => st[i] = "absent"
BY ConfigAssumption DEF MarkStale

\* After a cycle: failed points are stale, read points that did not fail are
\* fresh, and identities outside the cycle keep their status.
LEMMA StatusAfterPollEffect ==
    ASSUME TypeOK
    PROVE  /\ \A p \in failures : StatusAfterPoll[IdentityOf[p]] = "stale"
           /\ \A p \in samples : StatusAfterPoll[IdentityOf[p]] # "absent"
           /\ \A i \in Identities :
                 StatusAfterPoll[i] # status[i] =>
                    \E p \in samples \cup failures : IdentityOf[p] = i
           /\ \A i \in Identities :
                 StatusAfterPoll[i] = "absent" => status[i] = "absent"
           /\ \A i \in Identities : StatusAfterPoll[i] = "fresh" =>
                 status[i] = "fresh" \/ \E p \in samples : IdentityOf[p] = i
<1>1. samples \subseteq Points /\ failures \subseteq Points
  BY ConfigAssumption DEF TypeOK
<1>2. \A i \in Identities :
        StatusAfterPoll[i] = IF \E p \in failures : IdentityOf[p] = i THEN "stale"
                             ELSE IF \E p \in samples : IdentityOf[p] = i THEN "fresh"
                             ELSE status[i]
  BY DEF StatusAfterPoll, MarkStale, MarkFresh
<1>3. \A p \in Points : IdentityOf[p] \in Identities
  BY ConfigAssumption
<1>4. QED
  BY <1>1, <1>2, <1>3 DEF TypeOK

\* A worker about to start has reported nothing and holds nothing back.
LEMMA InitIInv == Init => IInv
<1> SUFFICES ASSUME Init PROVE IInv
  OBVIOUS
<1>1. TypeOK
  BY InitTypeOK
<1>2. CycleCoherent
  BY DEF Init, CycleCoherent, Terminal
<1>3. UnresolvedStale
  BY DEF Init, UnresolvedStale
<1>4. BackoffShows
  BY DEF Init, BackoffShows
<1>5. NeverPassedOver
  BY DEF Init, NeverPassedOver
<1>6. QED
  BY <1>1, <1>2, <1>3, <1>4, <1>5 DEF IInv

\* The first refresh reports every point of the devices it misses.
LEMMA InitialRefreshIInv ==
    ASSUME IInv, InitialRefresh
    PROVE  CycleCoherent' /\ UnresolvedStale' /\ BackoffShows' /\ NeverPassedOver'
<1>1. PICK missing \in SUBSET EnabledDevices :
        /\ unresolved' = missing
        /\ status' = MarkStale(status, UnresolvedPoints(missing))
  BY DEF InitialRefresh, MissingAfterRefresh
<1>2. UnresolvedPoints(missing) \in SUBSET Points
  BY ConfigAssumption DEF UnresolvedPoints
<1>3. /\ \A p \in UnresolvedPoints(missing) : status'[IdentityOf[p]] = "stale"
      /\ \A i \in Identities : status[i] = "stale" => status'[i] = "stale"
  BY <1>1, <1>2, MarkStaleEffect DEF IInv, TypeOK
<1>4. \A d \in Devices : backoff'[d] = NoBackoff
  BY DEF IInv, CycleCoherent, InitialRefresh
<1>5. \A p \in Points : dueIn'[p] = 0
  BY DEF IInv, CycleCoherent, InitialRefresh
<1>6. UnresolvedStale'
  BY <1>1, <1>3 DEF UnresolvedStale, UnresolvedPoints
<1>7. BackoffShows'
  BY <1>4 DEF BackoffShows
<1>8. NeverPassedOver'
  <2> SUFFICES ASSUME NEW p \in Enabled, status'[IdentityOf[p]] = "absent"
               PROVE  /\ dueIn'[p] = 0
                      /\ backoff'[DeviceOf[p]] = NoBackoff
                      /\ DeviceOf[p] \notin unresolved'
    BY DEF NeverPassedOver, InitialRefresh
  <2>1. p \in Points /\ DeviceOf[p] \in Devices
    BY ConfigAssumption
  <2>2. QED
    BY <1>4, <1>5, <1>6, <2>1 DEF UnresolvedStale
<1>9. CycleCoherent'
  BY DEF IInv, CycleCoherent, InitialRefresh, pollVars, Terminal
<1>10. QED
  BY <1>6, <1>7, <1>8, <1>9

\* A later refresh reports the devices it newly misses; those missing before
\* were reported then, and no cycle has made them fresh since.
LEMMA RefreshAnsweredIInv ==
    ASSUME IInv, RefreshAnswered
    PROVE  CycleCoherent' /\ UnresolvedStale' /\ BackoffShows' /\ NeverPassedOver'
<1>1. PICK missing \in SUBSET (RefreshTargets \ Responsive) :
        /\ unresolved' = StillUnresolved(RefreshTargets \ missing, missing)
        /\ backoff' = BackoffAfterRefresh(RefreshTargets \ missing)
        /\ status' = MarkStale(status, UnresolvedPoints(missing \ unresolved))
  BY DEF RefreshAnswered, MissingAfterRefresh, NewlyReported
<1>2. UnresolvedPoints(missing \ unresolved) \in SUBSET Points
  BY ConfigAssumption DEF UnresolvedPoints
<1>3. /\ \A p \in UnresolvedPoints(missing \ unresolved) : status'[IdentityOf[p]] = "stale"
      /\ \A i \in Identities : status[i] = "stale" => status'[i] = "stale"
      /\ \A i \in Identities : status'[i] = "absent" => status[i] = "absent"
  <2> DEFINE reported == UnresolvedPoints(missing \ unresolved)
  <2>1. status \in [Identities -> {"absent", "fresh", "stale"}]
    BY DEF IInv, TypeOK
  <2>2. status' = MarkStale(status, reported)
    BY <1>1
  <2>3. reported \in SUBSET Points
    BY <1>2
  <2> HIDE DEF reported
  <2>4. /\ \A p \in reported : status'[IdentityOf[p]] = "stale"
        /\ \A i \in Identities : status[i] = "stale" => status'[i] = "stale"
        /\ \A i \in Identities : status'[i] = "absent" => status[i] = "absent"
    BY <2>1, <2>2, <2>3, MarkStaleEffect
  <2>5. QED
    BY <2>4 DEF reported
<1>4. \A p \in Enabled : p \in Points /\ DeviceOf[p] \in Devices /\ IdentityOf[p] \in Identities
  BY ConfigAssumption
<1>5. \A d \in Devices : backoff'[d] # NoBackoff => backoff[d] # NoBackoff
  BY <1>1 DEF BackoffAfterRefresh
<1>6. UnresolvedStale'
  <2> SUFFICES ASSUME NEW p \in Enabled, DeviceOf[p] \in unresolved'
               PROVE  status'[IdentityOf[p]] = "stale"
    BY DEF UnresolvedStale
  <2>1. CASE DeviceOf[p] \in unresolved
    BY <1>3, <1>4, <2>1 DEF IInv, UnresolvedStale
  <2>2. CASE DeviceOf[p] \in missing \ unresolved
    BY <1>3, <2>2 DEF UnresolvedPoints
  <2>3. QED
    BY <1>1, <2>1, <2>2 DEF StillUnresolved
<1>7. BackoffShows'
  BY <1>3, <1>4, <1>5 DEF IInv, BackoffShows
<1>8. NeverPassedOver'
  <2> SUFFICES ASSUME ~stop', NEW p \in Enabled, status'[IdentityOf[p]] = "absent"
               PROVE  /\ dueIn'[p] = 0
                      /\ backoff'[DeviceOf[p]] = NoBackoff
                      /\ DeviceOf[p] \notin unresolved'
    BY DEF NeverPassedOver, RefreshAnswered
  <2>1. status[IdentityOf[p]] = "absent" /\ ~stop
    BY <1>3, <1>4 DEF RefreshAnswered
  <2>2. dueIn[p] = 0 /\ backoff[DeviceOf[p]] = NoBackoff
    BY <2>1 DEF IInv, NeverPassedOver, RefreshAnswered
  <2>3. QED
    BY <1>4, <1>5, <1>6, <2>2 DEF UnresolvedStale, RefreshAnswered
<1>9. CycleCoherent'
  BY DEF IInv, CycleCoherent, RefreshAnswered, pollVars, Terminal
<1>10. QED
  BY <1>6, <1>7, <1>8, <1>9

\* A group is done only once each of its points was read or failed, unless the
\* stop flag is up.
LEMMA GroupStepIInv ==
    ASSUME IInv, NEW d \in Devices, GroupStep(d)
    PROVE  CycleCoherent' /\ UnresolvedStale' /\ BackoffShows' /\ NeverPassedOver'
<1>1. /\ pc = "poll"
      /\ UNCHANGED <<pc, stop, unresolved, timerVars, due, elapsed, status, health>>
      /\ samples \subseteq samples' /\ failures \subseteq failures'
      /\ \A e \in Devices \ {d} : group'[e] = group[e]
  BY DEF IInv, TypeOK, GroupStep, GroupStart, GroupCancelled, RpmOk, RpmFails, ReadOk,
         ReadFails, ReadsCancelled
<1>2. UnresolvedStale' /\ BackoffShows'
  BY <1>1, StatesKept DEF timerVars
<1>3. NeverPassedOver'
  BY <1>1 DEF IInv, NeverPassedOver
<1>4. ~stop /\ group'[d] = "done" => Requests(d) \subseteq samples' \cup failures'
  <2>1. CASE ReadOk(d)
    BY <2>1 DEF IInv, TypeOK, ReadOk, StageAfterRead, Unread
  <2>2. CASE ReadFails(d)
    BY <2>2 DEF IInv, TypeOK, ReadFails, StageAfterRead, Unread
  <2>3. CASE GroupStart(d) \/ GroupCancelled(d) \/ RpmOk(d) \/ RpmFails(d) \/ ReadsCancelled(d)
    BY <2>3 DEF IInv, TypeOK, GroupStart, GroupCancelled, RpmOk, RpmFails, ReadsCancelled
  <2>4. QED
    BY <2>1, <2>2, <2>3 DEF GroupStep
<1>5. CycleCoherent'
  <2>1. \A e \in Devices : Requests(e)' = Requests(e)
    BY <1>1 DEF Requests
  <2>2. ASSUME ~stop', NEW e \in Devices, group'[e] = "done"
        PROVE  Requests(e)' \subseteq samples' \cup failures'
    BY <1>1, <1>4, <2>1, <2>2 DEF IInv, CycleCoherent
  <2>3. QED
    BY <1>1, <2>2 DEF IInv, CycleCoherent, Terminal
<1>6. QED
  BY <1>2, <1>3, <1>5

\* When a cycle nobody cancelled ends, every enabled point has a status.
LEMMA EveryPointReported ==
    ASSUME IInv, PollFinish, ~stop
    PROVE  \A p \in Enabled : StatusAfterPoll[IdentityOf[p]] # "absent"
<1>1. pc = "poll" /\ \A d \in Devices : group[d] = "done"
  BY DEF PollFinish
<1>2. TypeOK /\ due \subseteq Enabled
  BY DEF IInv, TypeOK
<1>3. \A p \in Enabled : DeviceOf[p] \in Devices /\ IdentityOf[p] \in Identities
  BY ConfigAssumption
<1>4. ASSUME NEW p \in due
      PROVE  p \in samples \cup failures
  <2>1. CASE p \in Readable
    <3>1. p \in Requests(DeviceOf[p]) /\ DeviceOf[p] \in Devices
      BY <1>2, <1>3, <2>1 DEF Requests
    <3>2. Requests(DeviceOf[p]) \subseteq samples \cup failures
      BY <1>1, <3>1 DEF IInv, CycleCoherent
    <3>3. QED
      BY <3>1, <3>2
  <2>2. CASE p \notin Readable
    BY <1>1, <1>4, <2>2 DEF IInv, CycleCoherent
  <2>3. QED
    BY <2>1, <2>2
<1>5. ASSUME NEW p \in Enabled
      PROVE  StatusAfterPoll[IdentityOf[p]] # "absent"
  <2>1. CASE status[IdentityOf[p]] = "absent"
    <3>1. p \in samples \cup failures
      BY <1>1, <1>4, <2>1 DEF IInv, NeverPassedOver
    <3>2. QED
      BY <1>2, <3>1, StatusAfterPollEffect
  <2>2. CASE status[IdentityOf[p]] # "absent"
    BY <1>2, <1>3, <2>2, StatusAfterPollEffect
  <2>3. QED
    BY <2>1, <2>2
<1>6. QED
  BY <1>5

\* The heart of the argument: a cycle ends with the statuses, backoffs and
\* timers of its devices updated together.
LEMMA PollFinishIInv ==
    ASSUME IInv, PollFinish
    PROVE  CycleCoherent' /\ UnresolvedStale' /\ BackoffShows' /\ NeverPassedOver'
<1>1. /\ status' = StatusAfterPoll
      /\ backoff' = BackoffAfterPoll
      /\ UNCHANGED <<stop, unresolved>>
      /\ due' = {}
      /\ pc = "poll" /\ pc' = "sleep"
      /\ \A d \in Devices : group[d] = "done"
  BY DEF PollFinish
<1>2. TypeOK /\ samples \subseteq due /\ failures \subseteq due /\ due \subseteq Enabled
  BY DEF IInv, TypeOK
<1>3. \A p \in Enabled : p \in Points /\ DeviceOf[p] \in Devices /\ IdentityOf[p] \in Identities
  BY ConfigAssumption
<1>4. \A p \in due : DeviceOf[p] \notin unresolved
  BY <1>1 DEF IInv, CycleCoherent
<1>5. UnresolvedStale'
  <2> SUFFICES ASSUME NEW p \in Enabled, DeviceOf[p] \in unresolved
               PROVE  StatusAfterPoll[IdentityOf[p]] = "stale"
    BY <1>1 DEF UnresolvedStale
  <2>1. status[IdentityOf[p]] = "stale"
    BY DEF IInv, UnresolvedStale
  <2>2. ~ \E q \in samples \cup failures : IdentityOf[q] = IdentityOf[p]
    BY <1>2, <1>3, <1>4, ConfigAssumption
  <2>3. QED
    BY <1>2, <1>3, <2>1, <2>2, StatusAfterPollEffect
<1>6. BackoffShows'
  <2> SUFFICES ASSUME NEW d \in Devices, BackoffAfterPoll[d] # NoBackoff
               PROVE  \E p \in Enabled :
                         DeviceOf[p] = d /\ StatusAfterPoll[IdentityOf[p]] = "stale"
    BY <1>1 DEF BackoffShows
  <2>1. d \notin DevicesOf(samples)
    BY DEF BackoffAfterPoll
  <2>2. CASE d \in DevicesOf(failures)
    <3>1. PICK p \in failures : DeviceOf[p] = d
      BY <2>2 DEF DevicesOf
    <3>2. StatusAfterPoll[IdentityOf[p]] = "stale"
      BY <1>2, <3>1, StatusAfterPollEffect
    <3>3. QED
      BY <1>2, <3>1, <3>2
  <2>3. CASE d \notin DevicesOf(failures)
    <3>1. backoff[d] # NoBackoff
      BY <2>1, <2>3 DEF BackoffAfterPoll
    <3>2. PICK p \in Enabled : DeviceOf[p] = d /\ status[IdentityOf[p]] = "stale"
      BY <3>1 DEF IInv, BackoffShows
    <3>3. ~ \E q \in samples \cup failures : IdentityOf[q] = IdentityOf[p]
      <4>1. ASSUME NEW q \in samples \cup failures, IdentityOf[q] = IdentityOf[p]
            PROVE  FALSE
        <5>1. DeviceOf[q] = d
          BY <1>2, <1>3, <3>2, <4>1, ConfigAssumption
        <5>2. QED
          BY <2>1, <2>3, <5>1 DEF DevicesOf
      <4>2. QED
        BY <4>1
    <3>4. StatusAfterPoll[IdentityOf[p]] = "stale"
      BY <1>2, <1>3, <3>2, <3>3, StatusAfterPollEffect
    <3>5. QED
      BY <3>2, <3>4
  <2>4. QED
    BY <2>2, <2>3
<1>7. ~stop => \A p \in Enabled : StatusAfterPoll[IdentityOf[p]] # "absent"
  BY EveryPointReported
<1>8. NeverPassedOver'
  BY <1>1, <1>7 DEF NeverPassedOver
<1>9. CycleCoherent'
  BY <1>1 DEF CycleCoherent, Terminal
<1>10. QED
  BY <1>5, <1>6, <1>8, <1>9

\* Time ends a backoff or makes a point due, which the invariant allows.
LEMMA TickIInv ==
    ASSUME IInv, Tick
    PROVE  CycleCoherent' /\ UnresolvedStale' /\ BackoffShows' /\ NeverPassedOver'
<1>1. /\ UNCHANGED <<stop, unresolved, due, group, samples, failures, status>>
      /\ pc \in Running
      /\ pc' = IF pc = "sleep" THEN "loop" ELSE pc
  BY DEF Tick
<1>2. \A d \in Devices : (backoff'[d] = NoBackoff) <=> (backoff[d] = NoBackoff \/
                             (backoff[d].delay = 0 /\ backoff[d].remaining = 1))
  <2> SUFFICES ASSUME NEW d \in Devices
               PROVE  (backoff'[d] = NoBackoff) <=> (backoff[d] = NoBackoff \/
                             (backoff[d].delay = 0 /\ backoff[d].remaining = 1))
    OBVIOUS
  <2>1. backoff[d] \in [delay : 0..BackoffMax, remaining : 0..BackoffMax]
    BY DEF IInv, TypeOK
  <2>2. backoff'[d] = [delay |-> backoff[d].delay, remaining |-> Monus(backoff[d].remaining, 1)]
    BY DEF Tick
  <2>3. QED
    BY <2>1, <2>2, TimeAssumption DEF NoBackoff, Monus
<1>3. \A d \in Devices : backoff'[d] # NoBackoff => backoff[d] # NoBackoff
  BY <1>2
<1>4. \A p \in Points : dueIn[p] = 0 => dueIn'[p] = 0
  BY DEF Tick, Monus
<1>5. UnresolvedStale' /\ BackoffShows'
  BY <1>1, <1>3 DEF IInv, UnresolvedStale, BackoffShows
<1>6. NeverPassedOver'
  <2>1. \A p \in Enabled : p \in Points /\ DeviceOf[p] \in Devices
    BY ConfigAssumption
  <2>2. QED
    BY <1>1, <1>3, <1>4, <2>1 DEF IInv, NeverPassedOver, Running
<1>7. CycleCoherent'
  <2>1. \A d \in Devices : Requests(d)' = Requests(d)
    BY <1>1 DEF Requests
  <2>2. QED
    BY <1>1, <2>1 DEF IInv, CycleCoherent, Running, Terminal
<1>8. QED
  BY <1>5, <1>6, <1>7

\* Every step preserves the inductive invariant: one case per action of Next.
LEMMA NextIInv == IInv /\ [Next]_vars => IInv'
<1> SUFFICES ASSUME IInv, [Next]_vars
             PROVE  IInv'
  OBVIOUS
<1>1. TypeOK'
  BY NextTypeOK DEF IInv
<1>2. CASE \/ Setup \/ ClientBuilt \/ RuntimeFails \/ PublisherFails \/ ClientFails
           \/ NoRefreshNeeded \/ RefreshErrs \/ NothingDue \/ LeaveLoop
           \/ ClientStopped \/ Panic \/ Rest
  <2>1. /\ UNCHANGED <<stop, unresolved, timerVars, pollVars, status, health>>
        /\ pc' # "poll"
        /\ \/ pc' \in {"connect", "initialRefresh"} /\ pc \in {"spawned", "connect"}
           \/ pc' \in {"select", "sleep", "stopping"}
                 /\ pc \in {"loop", "keepalive", "reresolve", "select"}
           \/ pc' \in Terminal
    BY <1>2 DEF Setup, ClientBuilt, RuntimeFails, PublisherFails, ClientFails,
                NoRefreshNeeded, RefreshErrs, NothingDue, LeaveLoop, ClientStopped,
                Panic, Rest, Terminal
  <2>2. UnresolvedStale' /\ BackoffShows'
    BY <2>1, StatesKept DEF timerVars
  <2>3. NeverPassedOver'
    BY <2>1 DEF IInv, NeverPassedOver, timerVars, pollVars, Terminal
  <2>4. CycleCoherent'
    BY <2>1 DEF IInv, CycleCoherent, timerVars, pollVars, Terminal
  <2>5. QED
    BY <1>1, <2>2, <2>3, <2>4 DEF IInv
<1>3. CASE BeginKeepalive \/ BeginReresolve
  <2>1. /\ UNCHANGED <<stop, unresolved, dueIn, backoff, pollVars, status>>
        /\ pc = "loop" /\ pc' \in {"keepalive", "reresolve"}
    BY <1>3 DEF BeginKeepalive, BeginReresolve
  <2>2. UnresolvedStale' /\ BackoffShows'
    BY <2>1, StatesKept
  <2>3. NeverPassedOver' /\ CycleCoherent'
    BY <2>1 DEF IInv, NeverPassedOver, CycleCoherent, pollVars, Terminal
  <2>4. QED
    BY <1>1, <2>2, <2>3 DEF IInv
<1>4. CASE InitialRefresh
  BY <1>1, <1>4, InitialRefreshIInv DEF IInv
<1>5. CASE RefreshAnswered
  BY <1>1, <1>5, RefreshAnsweredIInv DEF IInv
<1>6. CASE PollStart
  <2>1. /\ UNCHANGED <<stop, unresolved, timerVars, status, health>>
        /\ due' = Due /\ samples' = {} /\ failures' = Due \ Readable
        /\ pc = "select" /\ pc' = "poll"
    BY <1>6 DEF PollStart
  <2>2. UnresolvedStale' /\ BackoffShows'
    BY <2>1, StatesKept DEF timerVars
  <2>3. NeverPassedOver'
    BY <2>1 DEF IInv, NeverPassedOver, Due, NoBackoff
  <2>4. CycleCoherent'
    <3>1. \A p \in due' : DeviceOf[p] \notin unresolved'
      BY <2>1 DEF Due
    <3>2. ASSUME NEW d \in Devices, group'[d] = "done"
          PROVE  Requests(d)' \subseteq samples' \cup failures'
      BY <1>6, <2>1, <3>2 DEF PollStart, Requests, DevicesOf
    <3>3. QED
      BY <2>1, <3>1, <3>2 DEF CycleCoherent, Terminal
  <2>5. QED
    BY <1>1, <2>2, <2>3, <2>4 DEF IInv
<1>7. CASE \E d \in Devices : GroupStep(d)
  BY <1>1, <1>7, GroupStepIInv DEF IInv
<1>8. CASE PollFinish
  BY <1>1, <1>8, PollFinishIInv DEF IInv
<1>9. CASE Tick
  BY <1>1, <1>9, TickIInv DEF IInv
<1>10. CASE RequestStop
  <2>1. /\ UNCHANGED <<pc, unresolved, timerVars, pollVars, status>>
        /\ stop'
    BY <1>10 DEF RequestStop
  <2>2. UnresolvedStale' /\ BackoffShows'
    BY <2>1, StatesKept DEF timerVars
  <2>3. NeverPassedOver' /\ CycleCoherent'
    BY <2>1 DEF IInv, NeverPassedOver, CycleCoherent, timerVars, pollVars
  <2>4. QED
    BY <1>1, <2>2, <2>3 DEF IInv
<1>11. CASE UNCHANGED vars
  <2>1. \A d \in Devices : Requests(d)' = Requests(d)
    BY <1>11 DEF vars, pollVars, Requests
  <2>2. QED
    BY <1>1, <1>11, <2>1, StatesKept
       DEF vars, timerVars, pollVars, IInv, NeverPassedOver, CycleCoherent
<1>12. QED
  BY <1>2, <1>3, <1>4, <1>5, <1>6, <1>7, <1>8, <1>9, <1>10, <1>11 DEF Next, Worker

\* The inductive invariant holds in every reachable state of the worker.
THEOREM Invariance == Spec => []IInv
<1>1. Init => IInv
  BY InitIInv
<1>2. IInv /\ [Next]_vars => IInv'
  BY NextIInv
<1>3. QED
  BY <1>1, <1>2, PTL DEF Spec

-----------------------------------------------------------------------------
(* The properties the runs check *)

\* record_unresolved_failures, the due filter and apply_refresh_state together:
\* no enabled point of an unresolved device ever looks alive.
THEOREM UnresolvedAreStale == Spec => []UnresolvedStale
<1>1. IInv => UnresolvedStale
  BY DEF IInv
<1>2. QED
  BY <1>1, Invariance, PTL

\* update_device_backoffs never holds back a device whose points all look alive.
THEOREM BackoffIsVisible == Spec => []BackoffShows
<1>1. IInv => BackoffShows
  BY DEF IInv
<1>2. QED
  BY <1>1, Invariance, PTL

\* The selection of due points passes no unread point over.
THEOREM NobodyPassedOver == Spec => []NeverPassedOver
<1>1. IInv => NeverPassedOver
  BY DEF IInv
<1>2. QED
  BY <1>1, Invariance, PTL

\* A health message turns "ok" at the end of a cycle nobody cancelled only when
\* the last read of every enabled point succeeded.
THEOREM HealthOkIsHonest == Spec => HealthOkHonest
<1> DEFINE Honest == pc = "poll" /\ pc' = "sleep" /\ ~stop /\ health # "ok" /\ health' = "ok"
                     => \A p \in Enabled : status'[IdentityOf[p]] = "fresh"
<1>1. IInv /\ [Next]_vars => [Honest]_vars
  <2> SUFFICES ASSUME IInv, Next, pc = "poll", pc' = "sleep", ~stop, health # "ok", health' = "ok",
                      NEW p \in Enabled
               PROVE  status'[IdentityOf[p]] = "fresh"
    OBVIOUS
  <2>1. PollFinish
    BY DEF Next, Worker, Setup, RuntimeFails, PublisherFails, ClientBuilt, ClientFails,
           InitialRefresh, BeginKeepalive, BeginReresolve, NoRefreshNeeded, RefreshAnswered,
           RefreshErrs, NothingDue, PollStart, GroupStep, GroupStart, GroupCancelled, RpmOk,
           RpmFails, ReadOk, ReadFails, ReadsCancelled, LeaveLoop, ClientStopped, Panic, Tick,
           RequestStop, Rest, Terminal
  <2>2. StaleIn(StatusAfterPoll) = {}
    BY <2>1 DEF PollFinish, HealthAfterPoll, HealthStatus
  <2>3. StatusAfterPoll[IdentityOf[p]] # "absent"
    BY <2>1, EveryPointReported
  <2>4. IdentityOf[p] \in Identities
    BY ConfigAssumption
  <2>5. StatusAfterPoll \in [Identities -> {"absent", "fresh", "stale"}]
    BY MarkFreshType, MarkStaleType DEF IInv, TypeOK, StatusAfterPoll
  <2>6. StatusAfterPoll[IdentityOf[p]] = "fresh"
    BY <2>2, <2>3, <2>4, <2>5 DEF StaleIn
  <2>7. QED
    BY <2>1, <2>6 DEF PollFinish
<1>2. QED
  BY <1>1, Invariance, PTL DEF Spec, HealthOkHonest

-----------------------------------------------------------------------------
(* The worker implements the contract *)

\* The worker and the contract start alike.
LEMMA InitContract == Init => Contract!Init
BY DEF Init, Contract!Init, PhaseOf, ControlEvents, Running

\* A step that keeps the phase and sends no control event is work.
LEMMA WorkSteps ==
    ASSUME PhaseOf(pc') = PhaseOf(pc), stop' = stop,
           out' = << >> \/ ~IsControl(out'[1])
    PROVE  Contract!Work
BY DEF Contract!Work, ControlEvents

\* A step of the worker that goes through a move of the contract.
LEMMA MoveSteps ==
    ASSUME NEW moves, NEW from, NEW to, NEW sends,
           Contract!Move(from, to, sends) \in moves,
           PhaseOf(pc) = from, PhaseOf(pc') = to, to = "stopping" => stop,
           ControlEvents' = sends, stop' = stop
    PROVE  Contract!MoveBy(moves)
<1>1. Contract!Move(from, to, sends) \in Contract!MovesFrom(moves, PhaseOf(pc), stop)
  BY DEF Contract!MovesFrom, Contract!Move
<1>2. PhaseOf(pc)' = Contract!Move(from, to, sends).to
  BY DEF Contract!Move, PhaseOf
<1>3. ControlEvents' = Contract!Move(from, to, sends).sends
  BY DEF Contract!Move
<1>4. QED
  BY <1>1, <1>2, <1>3 DEF Contract!MoveBy

\* A step that sends control events shows them all to the console.
LEMMA Announced ==
    ASSUME out' # << >>, IsControl(out'[1])
    PROVE  ControlEvents' = out'
BY DEF ControlEvents

\* Start up and shut down are the ordinary moves of the contract.
LEMMA ProceedSteps ==
    ASSUME Setup \/ RuntimeFails \/ PublisherFails \/ ClientBuilt \/ ClientFails
           \/ LeaveLoop \/ ClientStopped
    PROVE  Contract!Proceed
<1> USE DEF PhaseOf, Running, IsControl, Lifecycle, Finished,
            Contract!Lifecycle, Contract!Finished, Contract!OrdinaryMoves
<1>1. CASE Setup
  <2>1. ControlEvents' = << Contract!Lifecycle("Starting") >>
    BY <1>1, Announced DEF Setup
  <2>2. QED
    BY <1>1, <2>1, MoveSteps DEF Setup, Contract!Proceed
<1>2. CASE RuntimeFails
  <2>1. ControlEvents' = << Contract!Lifecycle("Failed") >>
    BY <1>2, Announced DEF RuntimeFails
  <2>2. QED
    BY <1>2, <2>1, MoveSteps DEF RuntimeFails, Contract!Proceed
<1>3. CASE PublisherFails
  <2>1. ControlEvents' = << Contract!Lifecycle("Starting"), Contract!Lifecycle("Failed") >>
    BY <1>3, Announced DEF PublisherFails
  <2>2. QED
    BY <1>3, <2>1, MoveSteps DEF PublisherFails, Contract!Proceed
<1>4. CASE ClientBuilt
  <2>1. ControlEvents' = << Contract!Lifecycle("Running") >>
    BY <1>4, Announced DEF ClientBuilt
  <2>2. QED
    BY <1>4, <2>1, MoveSteps DEF ClientBuilt, Contract!Proceed
<1>5. CASE ClientFails
  <2>1. ControlEvents' = << Contract!Lifecycle("Failed") >>
    BY <1>5, Announced DEF ClientFails
  <2>2. QED
    BY <1>5, <2>1, MoveSteps DEF ClientFails, Contract!Proceed
<1>6. CASE LeaveLoop
  <2>1. ControlEvents' = << Contract!Lifecycle("Stopping") >>
    BY <1>6, Announced DEF LeaveLoop
  <2>2. QED
    BY <1>6, <2>1, MoveSteps DEF LeaveLoop, StopRequested, Contract!Proceed
<1>7. CASE ClientStopped
  <2>1. ControlEvents' = << Contract!Lifecycle("Stopped"), Contract!Finished >>
    BY <1>7, Announced DEF ClientStopped
  <2>2. QED
    BY <1>7, <2>1, MoveSteps DEF ClientStopped, Contract!Proceed
<1>8. QED
  BY <1>1, <1>2, <1>3, <1>4, <1>5, <1>6, <1>7

\* A panic is a crash of the contract, wherever it strikes.
LEMMA CrashSteps ==
    ASSUME TypeOK, Panic
    PROVE  Contract!Crash
<1>1. PhaseOf(pc) \in {"starting", "running", "stopping"}
  BY DEF TypeOK, PC, Panic, Terminal, Refreshing, Running, PhaseOf
<1>2. ControlEvents' = << Contract!Finished, Contract!Lifecycle("Failed") >>
  BY Announced DEF Panic, IsControl, Lifecycle, Finished,
                   Contract!Lifecycle, Contract!Finished
<1>3. PhaseOf(pc') = "failed" /\ stop' = stop
  BY DEF Panic, PhaseOf, Running
<1>4. Contract!Move(PhaseOf(pc), "failed",
                    << Contract!Finished, Contract!Lifecycle("Failed") >>)
        \in Contract!CrashMoves
  BY <1>1 DEF Contract!CrashMoves
<1>5. Contract!MoveBy(Contract!CrashMoves)
  BY <1>2, <1>3, <1>4, MoveSteps
<1>6. QED
  BY <1>5 DEF Contract!Crash

\* Reports about points are no control events.
LEMMA ReportsAreNoControl ==
    /\ \A ps : FailureReport(ps) = << >> \/ ~IsControl(FailureReport(ps)[1])
    /\ \A ps : ~IsControl(Failures(ps))
BY DEF FailureReport, Failures, IsControl

\* Everything between start up and shut down is work, and so are time and rest.
LEMMA WorkingSteps ==
    ASSUME InitialRefresh \/ BeginKeepalive \/ BeginReresolve \/ NoRefreshNeeded
           \/ RefreshAnswered \/ RefreshErrs \/ NothingDue \/ PollStart
           \/ (\E d \in Devices : GroupStep(d)) \/ PollFinish \/ Tick \/ Rest
    PROVE  Contract!Work
<1> USE DEF PhaseOf, Running
<1>1. CASE InitialRefresh
  BY <1>1, WorkSteps, ReportsAreNoControl DEF InitialRefresh
<1>2. CASE BeginKeepalive \/ BeginReresolve \/ NoRefreshNeeded
  BY <1>2, WorkSteps DEF BeginKeepalive, BeginReresolve, NoRefreshNeeded
<1>3. CASE RefreshAnswered
  <2>1. out' = << >> \/ ~IsControl(out'[1])
    BY <1>3, ReportsAreNoControl DEF RefreshAnswered, NewlyReported
  <2>2. QED
    BY <1>3, <2>1, WorkSteps DEF RefreshAnswered
<1>4. CASE RefreshErrs \/ NothingDue \/ PollStart
  BY <1>4, WorkSteps DEF RefreshErrs, NothingDue, PollStart
<1>5. CASE \E d \in Devices : GroupStep(d)
  <2>1. out' = << >> /\ pc' = pc /\ stop' = stop
    BY <1>5 DEF GroupStep, GroupStart, GroupCancelled, RpmOk, RpmFails, ReadOk,
                ReadFails, ReadsCancelled
  <2>2. QED
    BY <2>1, WorkSteps
<1>6. CASE PollFinish
  <2>1. out'[1] = Failures(failures)
    BY <1>6 DEF PollFinish, PollReport
  <2>2. QED
    BY <1>6, <2>1, WorkSteps, ReportsAreNoControl DEF PollFinish
<1>7. CASE Tick
  BY <1>7, WorkSteps DEF Tick
<1>8. CASE Rest
  BY <1>8, WorkSteps DEF Rest
<1>9. QED
  BY <1>1, <1>2, <1>3, <1>4, <1>5, <1>6, <1>7, <1>8

\* The operator's stop request is the contract's.
LEMMA RequestSteps == RequestStop => Contract!RequestStop
<1> SUFFICES ASSUME RequestStop PROVE Contract!RequestStop
  OBVIOUS
<1>1. PhaseOf(pc) \notin Contract!Ended
  BY DEF RequestStop, Terminal, PhaseOf, Running, Contract!Ended
<1>2. PhaseOf(pc)' = PhaseOf(pc) /\ ControlEvents' = << >>
  BY DEF RequestStop, PhaseOf, ControlEvents
<1>3. QED
  BY <1>1, <1>2 DEF RequestStop, Contract!RequestStop

\* Every execution of spawn_republisher is one of the contract: whatever the
\* devices and the broker do, the console receives each change of the thread's
\* life once and in order, and Stopping only after it asked for it.
THEOREM WorkerImplementsContract == Spec => ImplementsContract
<1>1. TypeOK /\ [Next]_vars => [Contract!Next]_Contract!vars
  <2> SUFFICES ASSUME TypeOK, [Next]_vars
               PROVE  [Contract!Next]_Contract!vars
    OBVIOUS
  <2> USE DEF Contract!Next
  <2>1. CASE Worker
    BY <2>1, ProceedSteps, WorkingSteps DEF Worker
  <2>2. CASE Panic
    BY <2>2, CrashSteps
  <2>3. CASE Tick \/ Rest
    BY <2>3, WorkingSteps
  <2>4. CASE RequestStop
    BY <2>4, RequestSteps
  <2>5. CASE UNCHANGED vars
    BY <2>5 DEF vars, Contract!vars, PhaseOf, ControlEvents
  <2>6. QED
    BY <2>1, <2>2, <2>3, <2>4, <2>5 DEF Next
<1>2. QED
  BY <1>1, InitContract, TypeCorrect, PTL DEF Spec, ImplementsContract, Contract!Spec
=============================================================================
