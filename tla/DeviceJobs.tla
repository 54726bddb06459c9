----------------------------- MODULE DeviceJobs -----------------------------
(***************************************************************************)
(* The one-shot jobs that talk to devices (src/bacnet.rs, src/worker.rs):  *)
(* the object scan of one device, the sweep over all devices, and the poll *)
(* of all points.  Each has a client of its own, whose device table it     *)
(* fills with refresh_device_table: one Who-Is for everybody, then passes  *)
(* of Who-Is for ranges of the instances still missing.                    *)
(*                                                                         *)
(* A list is a set here and is gone through in any order.                  *)
(***************************************************************************)
EXTENDS Naturals, FiniteSets, FiniteSetsExt

CONSTANTS
    Devices,        \* device instances
    Points,
    DeviceOf,
    TargetedPasses, \* REFRESH_TARGETED_PASSES
    ChunkSize,      \* REFRESH_TARGETED_CHUNK_SIZE
    MaxObjects,     \* SCAN_ALL_MAX_OBJECTS_PER_DEVICE
    MaxCount        \* bound: the longest object list of a device

ASSUME JobsAssumption ==
    /\ Devices \subseteq Nat
    /\ IsFiniteSet(Devices)
    /\ DeviceOf \in [Points -> Devices]
    /\ {TargetedPasses, MaxObjects, MaxCount} \subseteq Nat
    /\ ChunkSize \in Nat \ {0}

VARIABLES
    kind,     \* "objectScan", "sweep" or "pollOnce"
    devices,  \* the devices it is about
    enabled,  \* pollOnce: the enabled points
    pc,
    table,    \* the device table of the client
    refresh,  \* the call of refresh_device_table
    left,     \* sweep: devices still to come
    target,   \* the device it scans, as a set
    scan,     \* the object list being read: length, index, objects kept
    tally,    \* sweep: progress, devices scanned, failures, unresolved_scans
    report,   \* pollOnce: samples and failures
    asked,    \* history: requests of this refresh that a device had to answer
    seen      \* history: devices in the table at some time of this refresh

vars == <<kind, devices, enabled, pc, table, refresh, left, target, scan, tally,
          report, asked, seen>>

job == <<kind, devices, enabled>>
history == <<asked, seen>>

NoScan == [count |-> 0, index |-> 0, objects |-> 0]
NoReport == [samples |-> {}, failures |-> {}]
Idle == [requested |-> {}, unresolved |-> {}, pass |-> 0, ranges |-> {}, result |-> "none"]

DevicesOf(ps) == { DeviceOf[p] : p \in ps }

Init ==
    /\ \/ kind = "objectScan" /\ enabled = {} /\ \E d \in Devices : devices = {d}
       \/ kind = "sweep" /\ enabled = {} /\ devices \in SUBSET Devices \ {{}}
       \/ kind = "pollOnce" /\ enabled \in SUBSET Points /\ devices = DevicesOf(enabled)
    /\ pc = IF kind = "pollOnce" /\ enabled = {} THEN "done" ELSE "connect"
    /\ table = {}
    /\ refresh = Idle
    /\ left = IF kind = "sweep" THEN devices ELSE {}
    /\ target = IF kind = "objectScan" THEN devices ELSE {}
    /\ scan = NoScan
    /\ tally = [progress |-> 0, scans |-> 0, failures |-> 0, unresolved |-> 0]
    /\ report = NoReport
    /\ asked = [d \in Devices |-> 0]
    /\ seen = {}

-----------------------------------------------------------------------------
(* refresh_device_table *)

\* Instances below d in the sorted list.
Rank(d, ds) == Cardinality({ x \in ds : x < d })

Chunk(k, ds) == { d \in ds : Rank(d, ds) \div ChunkSize = k }
Chunks(ds) == { Chunk(Rank(d, ds) \div ChunkSize, ds) : d \in ds }

\* device_instance_ranges: first and last of each chunk, both included.
RangesExclusive(ds) == { <<Min(c), Max(c) - 1>> : c \in Chunks(ds) }
Ranges(ds) == { <<Min(c), Max(c)>> : c \in Chunks(ds) }

InRange(r) == { d \in Devices : r[1] <= d /\ d <= r[2] }

AskedAgain(ds) == [d \in Devices |-> IF d \in ds THEN asked[d] + 1 ELSE asked[d]]

BeginRefresh(ds) ==
    /\ pc' = "broadcast"
    /\ refresh' = [Idle EXCEPT !.requested = ds]
    /\ asked' = [d \in Devices |-> 0]
    /\ seen' = table

Broadcast ==
    /\ pc = "broadcast"
    /\ pc' = "look"
    /\ asked' = AskedAgain(Devices)
    /\ UNCHANGED <<job, table, refresh, left, target, scan, tally, report, seen>>

\* The end of a window: what is missing is asked for again, or is the result.
Look ==
    /\ pc = "look"
    /\ LET missing == refresh.requested \ table
       IN  IF missing = {} \/ refresh.pass = TargetedPasses
           THEN /\ refresh' = [refresh EXCEPT !.unresolved = missing, !.result = "ok"]
                /\ pc' = "refreshed"
           ELSE /\ refresh' = [refresh EXCEPT !.unresolved = missing, !.pass = @ + 1,
                                              !.ranges = Ranges(missing)]
                /\ pc' = "targeted"
    /\ UNCHANGED <<job, table, left, target, scan, tally, report, history>>

RangeSent(r) ==
    /\ pc = "targeted"
    /\ r \in refresh.ranges
    /\ refresh' = [refresh EXCEPT !.ranges = @ \ {r}]
    /\ pc' = IF refresh'.ranges = {} THEN "look" ELSE "targeted"
    /\ asked' = AskedAgain(InRange(r))
    /\ UNCHANGED <<job, table, left, target, scan, tally, report, seen>>

\* Who-Is could not be sent: the call gives up, whatever it knows by then.
RefreshFails ==
    /\ pc \in {"broadcast", "targeted"}
    /\ pc' = "refreshed"
    /\ refresh' = [Idle EXCEPT !.requested = refresh.requested, !.result = "err"]
    /\ UNCHANGED <<job, table, left, target, scan, tally, report, history>>

-----------------------------------------------------------------------------
(* The jobs *)

Connected ==
    /\ pc = "connect"
    /\ BeginRefresh(devices)
    /\ UNCHANGED <<job, table, left, target, scan, tally, report>>

ConnectFails ==
    /\ pc = "connect"
    /\ pc' = "failed"
    /\ UNCHANGED <<job, table, refresh, left, target, scan, tally, report, history>>

\* scan_device_objects ignores that the device may be unresolved.
ObjectScanGoesOn ==
    /\ pc = "refreshed"
    /\ kind = "objectScan"
    /\ pc' = IF refresh.result = "ok" THEN "count" ELSE "failed"
    /\ UNCHANGED <<job, table, refresh, left, target, scan, tally, report, history>>

\* spawn_scan_all_objects goes on whatever its first refresh says.
SweepStarts ==
    /\ pc = "refreshed"
    /\ kind = "sweep"
    /\ target = {}
    /\ pc' = "next"
    /\ UNCHANGED <<job, table, refresh, left, target, scan, tally, report, history>>

\* Only a device that is not in the table by now has a refresh of its own.
NextDevice(d) ==
    /\ pc = "next"
    /\ d \in left
    /\ left' = left \ {d}
    /\ target' = {d}
    /\ IF d \in table THEN pc' = "count" /\ UNCHANGED <<refresh, history>>
                      ELSE BeginRefresh({d})
    /\ UNCHANGED <<job, table, scan, tally, report>>

CountedAsScanned(failed, unresolved) ==
    [tally EXCEPT !.progress = @ + 1, !.scans = @ + 1,
                  !.failures = IF failed THEN @ + 1 ELSE @,
                  !.unresolved = IF unresolved THEN @ + 1 ELSE @]

\* The device is counted, once, and the sweep goes on with the next one.
CountedAs(failed, unresolved) ==
    LET one(b) == IF b THEN 1 ELSE 0
    IN  [progress   |-> tally.progress + 1,
         scans      |-> tally.scans + one(~failed),
         failures   |-> tally.failures + one(failed),
         unresolved |-> tally.unresolved + one(unresolved)]

ScanFailed ==
    IF kind = "sweep"
    THEN pc' = "next" /\ target' = {} /\ tally' = CountedAs(TRUE, FALSE)
    ELSE pc' = "failed" /\ UNCHANGED <<target, tally>>

FocusedRefreshEnds ==
    /\ pc = "refreshed"
    /\ kind = "sweep"
    /\ target # {}
    /\ \/ /\ refresh.result = "ok" /\ target \cap refresh.unresolved = {}
          /\ pc' = "count"
          /\ UNCHANGED <<target, tally>>
       \/ /\ refresh.result = "ok" /\ target \subseteq refresh.unresolved
          /\ pc' = "next"
          /\ target' = {}
          /\ tally' = CountedAs(TRUE, TRUE)
       \/ refresh.result = "err" /\ ScanFailed
    /\ UNCHANGED <<job, table, refresh, left, scan, report, history>>

CountReadUncapped(n) ==
    /\ pc = "count"
    /\ target \subseteq table
    /\ pc' = "items"
    /\ scan' = [count |-> n, index |-> 0, objects |-> 0]
    /\ UNCHANGED <<job, table, refresh, left, target, tally, report, history>>

\* The label of the device is read before; nothing depends on whether it can be.
CountRead(n) ==
    /\ pc = "count"
    /\ target \subseteq table
    /\ pc' = "items"
    /\ scan' = [count |-> IF n < MaxObjects THEN n ELSE MaxObjects, index |-> 0, objects |-> 0]
    /\ UNCHANGED <<job, table, refresh, left, target, tally, report, history>>

CountFails ==
    /\ pc = "count"
    /\ ScanFailed
    /\ UNCHANGED <<job, table, refresh, left, scan, report, history>>

ItemRetried ==
    /\ pc = "items"
    /\ scan.index < scan.count
    /\ target \subseteq table
    /\ scan' = [scan EXCEPT !.index = @ + 1, !.objects = @ + 1]
    /\ UNCHANGED <<job, pc, table, refresh, left, target, tally, report, history>>

\* An entry that cannot be read or decoded is passed over, as is the device object;
\* of the properties of an object, none has to be readable.
Item ==
    /\ pc = "items"
    /\ scan.index < scan.count
    /\ \E kept \in IF target \subseteq table THEN {0, 1} ELSE {0} :
          scan' = [scan EXCEPT !.index = @ + 1, !.objects = @ + kept]
    /\ UNCHANGED <<job, pc, table, refresh, left, target, tally, report, history>>

ItemsEnd ==
    /\ pc = "items"
    /\ scan.index = scan.count
    /\ IF kind = "sweep"
       THEN pc' = "next" /\ target' = {} /\ tally' = CountedAs(FALSE, FALSE)
       ELSE pc' = "done" /\ UNCHANGED <<target, tally>>
    /\ scan' = NoScan
    /\ UNCHANGED <<job, table, refresh, left, report, history>>

SweepEnds ==
    /\ pc = "next"
    /\ left = {}
    /\ pc' = "done"
    /\ UNCHANGED <<job, table, refresh, left, target, scan, tally, report, history>>

PollOnceGoesOn ==
    /\ pc = "refreshed"
    /\ kind = "pollOnce"
    /\ pc' = IF refresh.result = "ok" THEN "poll" ELSE "failed"
    /\ UNCHANGED <<job, table, refresh, left, target, scan, tally, report, history>>

\* Points of unresolved devices are not read, but fail.
Skipped(ps) == { p \in ps : DeviceOf[p] \in refresh.unresolved }

\* poll_points_once_with_client with no stop flag: a pollable point is read or fails.
\* Nothing of a device that left the table meanwhile can be read.
Polled ==
    /\ pc = "poll"
    /\ LET skipped == Skipped(enabled)
       IN  \E read \in SUBSET { p \in enabled \ skipped : DeviceOf[p] \in table } :
              LET pollable == { p \in enabled : DeviceOf[p] \notin refresh.unresolved }
              IN  report' = [samples |-> read, failures |-> (pollable \ read) \cup skipped]
    /\ pc' = "done"
    /\ UNCHANGED <<job, table, refresh, left, target, scan, tally, history>>

\* run_async catches it, and the job is over.
Panic ==
    /\ pc \notin {"done", "failed"}
    /\ pc' = "failed"
    /\ UNCHANGED <<job, table, refresh, left, target, scan, tally, report, history>>

-----------------------------------------------------------------------------
(* The client, which handles I-Am on a task of its own *)

Over == pc \in {"done", "failed"}

IAm(d) ==
    /\ pc # "connect" /\ ~Over
    /\ d \notin table
    /\ table' = table \cup {d}
    /\ seen' = seen \cup {d}
    /\ UNCHANGED <<job, pc, refresh, left, target, scan, tally, report, asked>>

\* The library may drop an entry.
Forget(d) ==
    /\ ~Over
    /\ d \in table
    /\ table' = table \ {d}
    /\ UNCHANGED <<job, pc, refresh, left, target, scan, tally, report, history>>

Job ==
    \/ Connected \/ ConnectFails
    \/ Broadcast \/ Look \/ RefreshFails
    \/ \E r \in refresh.ranges : RangeSent(r)
    \/ ObjectScanGoesOn \/ SweepStarts \/ FocusedRefreshEnds \/ PollOnceGoesOn
    \/ \E d \in Devices : NextDevice(d)
    \/ (\E n \in 0 .. MaxCount : CountRead(n)) \/ CountFails
    \/ Item \/ ItemsEnd
    \/ SweepEnds
    \/ Polled

Next == Job \/ Panic \/ \E d \in Devices : IAm(d) \/ Forget(d)

Spec == Init /\ [][Next]_vars /\ WF_vars(Job)

-----------------------------------------------------------------------------
(* Properties *)

\* Every variable keeps its shape.
TypeOK ==
    /\ kind \in {"objectScan", "sweep", "pollOnce"}
    /\ devices \in SUBSET Devices
    /\ enabled \in SUBSET Points
    /\ pc \in {"connect", "broadcast", "look", "targeted", "refreshed", "next", "count",
               "items", "poll", "done", "failed"}
    /\ {table, left, target, seen} \subseteq SUBSET Devices
    /\ refresh \in [requested : SUBSET Devices, unresolved : SUBSET Devices,
                    pass : 0 .. TargetedPasses, ranges : SUBSET (Nat \X Nat),
                    result : {"none", "ok", "err"}]
    /\ scan \in [count : 0 .. MaxObjects, index : 0 .. MaxObjects, objects : 0 .. MaxObjects]
    /\ tally \in [progress : Nat, scans : Nat, failures : Nat, unresolved : Nat]
    /\ report \in [samples : SUBSET Points, failures : SUBSET Points]
    /\ asked \in [Devices -> Nat]

\* What refresh_device_table returns is earned: a device it calls resolved was in the
\* table, and one it calls unresolved was either lost again or let every chance pass,
\* the broadcast and one targeted Who-Is in each pass, whatever chunk it fell into.
RefreshSound ==
    pc = "refreshed" /\ refresh.result = "ok" =>
        /\ refresh.requested \ refresh.unresolved \subseteq seen
        /\ \A d \in refresh.unresolved \ seen : asked[d] >= 1 + TargetedPasses

\* The sums in "Scanned .. across .. device(s) (.. failure(s), .. unresolved)": every
\* device of the sweep was scanned or is a failure, never both, whichever of the ways
\* out of the loop was taken, and the progress shown ends at the total.
SweepAccounts ==
    kind = "sweep" =>
        /\ tally.progress = tally.scans + tally.failures
        /\ tally.unresolved <= tally.failures
        /\ tally.progress + Cardinality(left) + Cardinality(target) = Cardinality(devices)
        /\ pc = "done" => tally.progress = Cardinality(devices)

\* A poll-once that ends reports every enabled point, as a sample or as a failure.
PollOnceReportsAll ==
    kind = "pollOnce" /\ pc = "done" =>
        /\ report.samples \cup report.failures = enabled
        /\ report.samples \cap report.failures = {}

JobsAccount == SweepAccounts /\ PollOnceReportsAll

\* Every job ends, whether devices answer or not.
JobEnds == <>Over
=============================================================================
