-------------------------- MODULE DeviceJobsProofs --------------------------
(***************************************************************************)
(* Proofs about DeviceJobs, for any devices, points and chunk size: what   *)
(* a refresh of the device table returns is earned, a sweep accounts for   *)
(* every device, a poll-once for every point.                              *)
(*                                                                         *)
(* The argument about a refresh is that the ranges of a pass cover what is *)
(* missing: each device has its chunk, and lies between the least and the  *)
(* greatest instance of it.                                                *)
(***************************************************************************)
EXTENDS OneShotJobs, FiniteSetTheorems, WellFoundedInduction, TLAPS

(* The least and the greatest of a finite set of numbers *)

LEMMA LeastExists ==
    ASSUME NEW ds \in SUBSET Nat, ds # {}
    PROVE  \E x \in ds : \A y \in ds : x <= y
<1> DEFINE below == { pair \in Nat \X Nat : pair[1] < pair[2] }
<1>1. IsWellFoundedOn(below, Nat)
    BY NatLessThanWellFounded DEF OpToRel
<1> HIDE DEF below
<1>2. PICK x \in ds : \A y \in ds : <<y, x>> \notin below
    BY <1>1, WFMin
<1>3. \A y \in ds : ~(y < x)
    BY <1>2 DEF below
<1> QED
    BY <1>3

\* A finite set of numbers is bounded: among its unbounded subsets there would be a
\* smallest one, which loses no bound with one of its elements.
LEMMA Bounded ==
    ASSUME NEW ds \in SUBSET Nat, IsFiniteSet(ds)
    PROVE  \E b \in Nat : \A y \in ds : y <= b
<1> DEFINE BoundedSet(es) == \E b \in Nat : \A y \in es : y <= b
           sizes == { n \in Nat : \E es \in SUBSET ds : ~BoundedSet(es) /\ Cardinality(es) = n }
<1>1. SUFFICES ASSUME sizes # {}
               PROVE  FALSE
    BY FS_CardinalityType
<1>2. PICK n \in sizes : \A k \in sizes : n <= k
    <2>1. sizes \in SUBSET Nat
        OBVIOUS
    <2> HIDE DEF sizes
    <2> QED
        BY <1>1, <2>1, LeastExists
<1>3. PICK es \in SUBSET ds : ~BoundedSet(es) /\ Cardinality(es) = n
    BY <1>2
<1>4. PICK x \in es : TRUE
    BY <1>3
<1>5. IsFiniteSet(es)
    BY FS_Subset
<1>6. IsFiniteSet(es \ {x}) /\ Cardinality(es \ {x}) = n - 1
    BY <1>3, <1>4, <1>5, FS_RemoveElement
<1>7. n \in Nat /\ n - 1 \in Nat
    BY <1>6, FS_CardinalityType
<1>8. BoundedSet(es \ {x})
    <2>1. ~(n <= n - 1)
        BY <1>7
    <2>2. n - 1 \notin sizes
        BY <1>2, <2>1
    <2> QED
        BY <1>6, <1>7, <2>2
<1>9. PICK b \in Nat : \A y \in es \ {x} : y <= b
    BY <1>8
<1>10. x \in Nat /\ es \subseteq Nat
    BY <1>4
<1>11. \A y \in es : y <= b + x
    BY <1>9, <1>10
<1> QED
    BY <1>3, <1>10, <1>11

LEMMA GreatestExists ==
    ASSUME NEW ds \in SUBSET Nat, IsFiniteSet(ds), ds # {}
    PROVE  \E x \in ds : \A y \in ds : x >= y
<1>1. PICK b \in Nat : \A y \in ds : y <= b
    BY Bounded
<1> DEFINE room == { n \in Nat : \E y \in ds : n = b - y }
<1>2. room \in SUBSET Nat /\ room # {}
    <2>1. PICK y \in ds : TRUE
        OBVIOUS
    <2>2. b - y \in Nat
        BY <1>1, <2>1
    <2> QED
        BY <2>1, <2>2
<1>3. PICK n \in room : \A k \in room : n <= k
    <2> HIDE DEF room
    <2> QED
        BY <1>2, LeastExists
<1>4. PICK x \in ds : n = b - x
    BY <1>3
<1>5. \A y \in ds : b - x <= b - y
    BY <1>1, <1>3, <1>4
<1>6. \A y \in ds : x >= y
    BY <1>1, <1>4, <1>5
<1> QED
    BY <1>6

LEMMA MinAndMax ==
    ASSUME NEW ds \in SUBSET Nat, IsFiniteSet(ds), NEW d \in ds
    PROVE  /\ Min(ds) \in ds /\ Min(ds) <= d
           /\ Max(ds) \in ds /\ d <= Max(ds)
<1>1. Min(ds) \in ds /\ \A y \in ds : Min(ds) <= y
    BY LeastExists DEF Min
<1>2. Max(ds) \in ds /\ \A y \in ds : Max(ds) >= y
    BY GreatestExists DEF Max
<1> QED
    BY <1>1, <1>2

\* device_instance_ranges covers what it was made for, whatever the chunk size.
LEMMA RangesCover ==
    ASSUME NEW ds \in SUBSET Devices, NEW d \in ds
    PROVE  \E r \in Ranges(ds) : d \in InRange(r)
<1> DEFINE k == Rank(d, ds) \div ChunkSize
           chunk == Chunk(k, ds)
<1>1. chunk \in Chunks(ds)
    BY DEF Chunks
<1>2. d \in chunk /\ chunk \subseteq ds
    BY DEF Chunk
<1>3. chunk \in SUBSET Nat /\ IsFiniteSet(chunk)
    BY <1>2, JobsAssumption, FS_Subset
<1> HIDE DEF chunk
<1>4. /\ Min(chunk) <= d /\ d <= Max(chunk)
    BY <1>2, <1>3, MinAndMax
<1>5. <<Min(chunk), Max(chunk)>> \in Ranges(ds)
    BY <1>1 DEF Ranges
<1> QED
    BY <1>4, <1>5 DEF InRange

-----------------------------------------------------------------------------
(* The inductive invariant *)

\* An entry that is kept was looked at, and none is looked at beyond the count.
ScanWithinCount == scan.objects <= scan.index /\ scan.index <= scan.count

\* While a refresh is under way, a device that was not in the table at any time of it
\* was asked in every pass so far, or is going to be by a range still to be sent.
Earned ==
    /\ table \subseteq seen
    /\ pc = "broadcast" => refresh.pass = 0
    /\ pc = "look" => \A d \in refresh.requested \ seen : asked[d] >= 1 + refresh.pass
    /\ pc = "targeted" =>
          \A d \in refresh.requested \ seen :
             \/ asked[d] >= 1 + refresh.pass
             \/ asked[d] >= refresh.pass /\ \E r \in refresh.ranges : d \in InRange(r)
    /\ RefreshSound

\* A sweep is at one device from NextDevice until it is counted.
AtDevice ==
    kind = "sweep" =>
        /\ target = {} \/ \E d \in Devices : target = {d}
        /\ pc \in {"count", "items"} => target # {}
        /\ pc \in {"connect", "next", "done"} => target = {}
        /\ pc = "done" => left = {}
        /\ pc # "poll"

\* The stages a poll-once never comes to.
PollOnceStages == kind = "pollOnce" => pc \notin {"next", "count", "items"}

IInv ==
    /\ TypeOK
    /\ ScanWithinCount
    /\ Earned
    /\ AtDevice
    /\ PollOnceStages
    /\ JobsAccount

-----------------------------------------------------------------------------
(* Types *)

\* The ranges are pairs of instances.
LEMMA RangesTyped ==
    ASSUME NEW ds \in SUBSET Devices
    PROVE  Ranges(ds) \subseteq Nat \X Nat
<1> SUFFICES ASSUME NEW c \in Chunks(ds)
             PROVE  <<Min(c), Max(c)>> \in Nat \X Nat
    BY DEF Ranges
<1>1. PICK d \in ds : c = Chunk(Rank(d, ds) \div ChunkSize, ds)
    BY DEF Chunks
<1>2. d \in c /\ c \subseteq ds
    BY <1>1 DEF Chunk
<1>3. c \in SUBSET Nat /\ IsFiniteSet(c)
    BY <1>2, JobsAssumption, FS_Subset
<1> QED
    BY <1>2, <1>3, MinAndMax

LEMMA CountedAsTyped ==
    ASSUME TypeOK, NEW failed \in BOOLEAN, NEW unresolved \in BOOLEAN
    PROVE  /\ CountedAs(failed, unresolved)
                  \in [progress : Nat, scans : Nat, failures : Nat, unresolved : Nat]
           /\ CountedAs(failed, unresolved).progress = tally.progress + 1
           /\ CountedAs(failed, unresolved).scans + CountedAs(failed, unresolved).failures
                  = tally.scans + tally.failures + 1
           /\ (unresolved => failed) =>
                 (tally.unresolved <= tally.failures =>
                    CountedAs(failed, unresolved).unresolved <= CountedAs(failed, unresolved).failures)
BY DEF TypeOK, CountedAs

LEMMA BeginTyped ==
    ASSUME TypeOK, NEW ds \in SUBSET Devices, BeginRefresh(ds)
    PROVE  /\ pc' = "broadcast"
           /\ refresh' \in [requested : SUBSET Devices, unresolved : SUBSET Devices,
                            pass : 0 .. TargetedPasses, ranges : SUBSET (Nat \X Nat),
                            result : {"none", "ok", "err"}]
           /\ refresh'.requested = ds /\ refresh'.pass = 0 /\ refresh'.result = "none"
           /\ asked' \in [Devices -> Nat]
           /\ seen' = table
BY JobsAssumption DEF BeginRefresh, Idle

LEMMA AskedTyped ==
    ASSUME TypeOK, NEW ds
    PROVE  /\ AskedAgain(ds) \in [Devices -> Nat]
           /\ \A d \in Devices : AskedAgain(ds)[d] = IF d \in ds THEN asked[d] + 1 ELSE asked[d]
BY DEF TypeOK, AskedAgain

LEMMA InitTyped == Init => TypeOK /\ ScanWithinCount
<1> SUFFICES ASSUME Init PROVE TypeOK /\ ScanWithinCount
    OBVIOUS
<1>1. kind \in {"objectScan", "sweep", "pollOnce"} /\ enabled \in SUBSET Points
      /\ devices \in SUBSET Devices
    BY JobsAssumption DEF Init, DevicesOf
<1>2. pc \in {"connect", "done"}
    BY DEF Init
<1>3. {table, left, target, seen} \subseteq SUBSET Devices
    BY <1>1 DEF Init
<1>4. /\ refresh \in [requested : SUBSET Devices, unresolved : SUBSET Devices,
                      pass : 0 .. TargetedPasses, ranges : SUBSET (Nat \X Nat),
                      result : {"none", "ok", "err"}]
      /\ scan \in [count : 0 .. MaxObjects, index : 0 .. MaxObjects, objects : 0 .. MaxObjects]
      /\ tally \in [progress : Nat, scans : Nat, failures : Nat, unresolved : Nat]
    BY JobsAssumption DEF Init, Idle, NoScan
<1>5. /\ report \in [samples : SUBSET Points, failures : SUBSET Points]
      /\ asked \in [Devices -> Nat]
    BY DEF Init, NoReport
<1>6. ScanWithinCount
    BY DEF Init, NoScan, ScanWithinCount
<1> QED
    BY <1>1, <1>2, <1>3, <1>4, <1>5, <1>6 DEF TypeOK

LEMMA RefreshTyped ==
    ASSUME TypeOK, ScanWithinCount,
           Broadcast \/ Look \/ (\E r \in refresh.ranges : RangeSent(r)) \/ RefreshFails
    PROVE  TypeOK' /\ ScanWithinCount'
<1>1. CASE Broadcast
    BY <1>1, AskedTyped DEF Broadcast, TypeOK, ScanWithinCount, job
<1>2. CASE Look
    <2>1. refresh' \in [requested : SUBSET Devices, unresolved : SUBSET Devices,
                        pass : 0 .. TargetedPasses, ranges : SUBSET (Nat \X Nat),
                        result : {"none", "ok", "err"}]
        <3>1. refresh.requested \ table \in SUBSET Devices
            BY DEF TypeOK
        <3>2. refresh.pass # TargetedPasses => refresh.pass + 1 \in 0 .. TargetedPasses
            BY JobsAssumption DEF TypeOK
        <3>3. Ranges(refresh.requested \ table) \in SUBSET (Nat \X Nat)
            BY <3>1, RangesTyped
        <3>4. \/ refresh' = [refresh EXCEPT !.unresolved = refresh.requested \ table,
                                            !.result = "ok"]
              \/ /\ refresh.pass # TargetedPasses
                 /\ refresh' = [refresh EXCEPT !.unresolved = refresh.requested \ table,
                                               !.pass = @ + 1,
                                               !.ranges = Ranges(refresh.requested \ table)]
            BY <1>2 DEF Look
        <3> QED
            BY <3>1, <3>2, <3>3, <3>4 DEF TypeOK
    <2>2. pc' \in {"refreshed", "targeted"}
        BY <1>2 DEF Look
    <2> QED
        BY <1>2, <2>1, <2>2 DEF Look, TypeOK, ScanWithinCount, job, history
<1>3. ASSUME NEW r \in refresh.ranges, RangeSent(r)
      PROVE  TypeOK' /\ ScanWithinCount'
    BY <1>3, AskedTyped DEF RangeSent, TypeOK, ScanWithinCount, job
<1>4. CASE RefreshFails
    <2>1. refresh' \in [requested : SUBSET Devices, unresolved : SUBSET Devices,
                        pass : 0 .. TargetedPasses, ranges : SUBSET (Nat \X Nat),
                        result : {"none", "ok", "err"}]
        <3>1. refresh' = [Idle EXCEPT !.requested = refresh.requested, !.result = "err"]
            BY <1>4 DEF RefreshFails
        <3>2. refresh' = [requested |-> refresh.requested, unresolved |-> {}, pass |-> 0,
                          ranges |-> {}, result |-> "err"]
            BY <3>1 DEF Idle
        <3>3. 0 \in 0 .. TargetedPasses
            BY JobsAssumption
        <3> QED
            BY <3>2, <3>3 DEF TypeOK
    <2> QED
        BY <1>4, <2>1 DEF RefreshFails, TypeOK, ScanWithinCount, job, history
<1> QED
    BY <1>1, <1>2, <1>3, <1>4

LEMMA JobTyped ==
    ASSUME TypeOK, ScanWithinCount,
           \/ Connected \/ ConnectFails \/ ObjectScanGoesOn \/ SweepStarts
           \/ FocusedRefreshEnds \/ PollOnceGoesOn \/ SweepEnds \/ Polled
           \/ \E d \in Devices : NextDevice(d)
    PROVE  TypeOK' /\ ScanWithinCount'
<1>1. CASE Connected
    BY <1>1, BeginTyped DEF Connected, TypeOK, ScanWithinCount, job
<1>2. CASE ConnectFails \/ ObjectScanGoesOn \/ SweepStarts \/ PollOnceGoesOn \/ SweepEnds
    BY <1>2 DEF ConnectFails, ObjectScanGoesOn, SweepStarts, PollOnceGoesOn, SweepEnds,
       TypeOK, ScanWithinCount, job, history
<1>3. CASE FocusedRefreshEnds
    <2>1. tally' \in [progress : Nat, scans : Nat, failures : Nat, unresolved : Nat]
        BY <1>3, CountedAsTyped DEF FocusedRefreshEnds, ScanFailed, TypeOK
    <2>2. pc' \in {"count", "next", "failed"} /\ target' \in SUBSET Devices
        BY <1>3 DEF FocusedRefreshEnds, ScanFailed, TypeOK
    <2> QED
        BY <1>3, <2>1, <2>2 DEF FocusedRefreshEnds, TypeOK, ScanWithinCount, job, history
<1>4. CASE Polled
    <2>1. report' \in [samples : SUBSET Points, failures : SUBSET Points]
        BY <1>4 DEF Polled, Skipped, TypeOK
    <2> QED
        BY <1>4, <2>1 DEF Polled, TypeOK, ScanWithinCount, job, history
<1>5. ASSUME NEW d \in Devices, NextDevice(d)
      PROVE  TypeOK' /\ ScanWithinCount'
    <2>1. CASE d \in table
        BY <1>5, <2>1 DEF NextDevice, TypeOK, ScanWithinCount, job, history
    <2>2. CASE d \notin table
        BY <1>5, <2>2, BeginTyped DEF NextDevice, TypeOK, ScanWithinCount, job
    <2> QED
        BY <2>1, <2>2
<1> QED
    BY <1>1, <1>2, <1>3, <1>4, <1>5

LEMMA ScanTyped ==
    ASSUME TypeOK, ScanWithinCount,
           (\E n \in 0 .. MaxCount : CountRead(n)) \/ CountFails \/ Item \/ ItemsEnd
    PROVE  TypeOK' /\ ScanWithinCount'
<1>1. ASSUME NEW n \in 0 .. MaxCount, CountRead(n)
      PROVE  TypeOK' /\ ScanWithinCount'
    BY <1>1, JobsAssumption DEF CountRead, TypeOK, ScanWithinCount, job, history
<1>2. CASE CountFails
    <2>1. tally' \in [progress : Nat, scans : Nat, failures : Nat, unresolved : Nat]
        BY <1>2, CountedAsTyped DEF CountFails, ScanFailed, TypeOK
    <2>2. pc' \in {"next", "failed"} /\ target' \in SUBSET Devices
        BY <1>2 DEF CountFails, ScanFailed, TypeOK
    <2> QED
        BY <1>2, <2>1, <2>2 DEF CountFails, TypeOK, ScanWithinCount, job, history
<1>3. CASE Item
    <2>1. PICK kept \in {0, 1} :
             scan' = [scan EXCEPT !.index = @ + 1, !.objects = @ + kept]
        BY <1>3 DEF Item
    <2>2. /\ scan' \in [count : 0 .. MaxObjects, index : 0 .. MaxObjects, objects : 0 .. MaxObjects]
          /\ scan'.objects <= scan'.index /\ scan'.index <= scan'.count
        <3>1. /\ scan.count \in Nat /\ scan.index \in Nat /\ scan.objects \in Nat
              /\ scan.count <= MaxObjects /\ MaxObjects \in Nat
            BY JobsAssumption DEF TypeOK
        <3>2. scan.index < scan.count /\ scan.objects <= scan.index
            BY <1>3 DEF Item, ScanWithinCount
        <3>3. /\ scan' = [count |-> scan.count, index |-> scan.index + 1,
                          objects |-> scan.objects + kept]
            BY <2>1 DEF TypeOK
        <3> QED
            BY <3>1, <3>2, <3>3
    <2> QED
        BY <1>3, <2>2 DEF Item, TypeOK, ScanWithinCount, job, history
<1>4. CASE ItemsEnd
    <2>1. tally' \in [progress : Nat, scans : Nat, failures : Nat, unresolved : Nat]
        BY <1>4, CountedAsTyped DEF ItemsEnd, TypeOK
    <2>2. pc' \in {"next", "done"} /\ target' \in SUBSET Devices
        BY <1>4 DEF ItemsEnd, TypeOK
    <2>3. scan' \in [count : 0 .. MaxObjects, index : 0 .. MaxObjects, objects : 0 .. MaxObjects]
          /\ ScanWithinCount'
        BY <1>4, JobsAssumption DEF ItemsEnd, NoScan, ScanWithinCount
    <2> QED
        BY <1>4, <2>1, <2>2, <2>3 DEF ItemsEnd, TypeOK, job, history
<1> QED
    BY <1>1, <1>2, <1>3, <1>4

\* Every step keeps the types.
LEMMA StepTyped == TypeOK /\ ScanWithinCount /\ [Next]_vars => TypeOK' /\ ScanWithinCount'
<1> SUFFICES ASSUME TypeOK, ScanWithinCount, [Next]_vars
             PROVE  TypeOK' /\ ScanWithinCount'
    OBVIOUS
<1>1. CASE Job
    BY <1>1, RefreshTyped, JobTyped, ScanTyped DEF Job
<1>2. CASE Panic \/ \E d \in Devices : IAm(d) \/ Forget(d)
    BY <1>2 DEF Panic, IAm, Forget, TypeOK, ScanWithinCount, job, history
<1>3. CASE UNCHANGED vars
    BY <1>3 DEF vars, job, history, TypeOK, ScanWithinCount
<1> QED
    BY <1>1, <1>2, <1>3 DEF Next

-----------------------------------------------------------------------------
(* A refresh *)

\* A step that neither asks nor looks, nor begins a refresh, keeps what is earned.
LEMMA EarnedKept ==
    ASSUME Earned, table' \subseteq seen', seen \subseteq seen',
           UNCHANGED <<refresh, asked>>,
           pc' = pc \/ pc' \notin {"broadcast", "look", "targeted", "refreshed"}
    PROVE  Earned'
BY DEF Earned, RefreshSound

\* A refresh begins with no pass made and nobody asked.
LEMMA BeginEarned ==
    ASSUME TypeOK, NEW ds \in SUBSET Devices, BeginRefresh(ds), table' = table
    PROVE  Earned'
BY BeginTyped DEF Earned, RefreshSound

LEMMA BroadcastEarned ==
    ASSUME TypeOK, Earned, Broadcast
    PROVE  Earned'
<1>1. /\ pc = "broadcast" /\ pc' = "look" /\ asked' = AskedAgain(Devices)
      /\ UNCHANGED <<table, refresh, seen>>
    BY DEF Broadcast
<1>2. refresh.pass = 0 /\ refresh.requested \subseteq Devices
    BY <1>1 DEF Earned, TypeOK
<1>3. \A d \in Devices : asked'[d] >= 1
    BY <1>1, AskedTyped DEF TypeOK
<1> QED
    BY <1>1, <1>2, <1>3 DEF Earned, RefreshSound

\* The ranges of the next pass cover every device that is missing at this look.
LEMMA LookEarned ==
    ASSUME TypeOK, Earned, Look
    PROVE  Earned'
<1> DEFINE missing == refresh.requested \ table
<1>1. /\ pc = "look" /\ UNCHANGED <<table, asked, seen>>
      /\ table \subseteq seen
      /\ \A d \in refresh.requested \ seen : asked[d] >= 1 + refresh.pass
      /\ missing \in SUBSET Devices
      /\ refresh.pass \in Nat /\ asked \in [Devices -> Nat]
    BY DEF Look, Earned, TypeOK, history
<1>2. CASE missing = {} \/ refresh.pass = TargetedPasses
    <2>1. refresh' = [refresh EXCEPT !.unresolved = missing, !.result = "ok"] /\ pc' = "refreshed"
        BY <1>2 DEF Look
    <2>2. refresh'.requested = refresh.requested /\ refresh'.unresolved = missing
        BY <2>1 DEF TypeOK
    <2>3. \A d \in missing \ seen : asked[d] >= 1 + TargetedPasses
        BY <1>1, <1>2
    <2> QED
        BY <1>1, <2>1, <2>2, <2>3 DEF Earned, RefreshSound
<1>3. CASE ~(missing = {} \/ refresh.pass = TargetedPasses)
    <2>1. /\ refresh' = [refresh EXCEPT !.unresolved = missing, !.pass = @ + 1,
                                        !.ranges = Ranges(missing)]
          /\ pc' = "targeted"
        BY <1>3 DEF Look
    <2>2. /\ refresh'.requested = refresh.requested
          /\ refresh'.pass = refresh.pass + 1
          /\ refresh'.ranges = Ranges(missing)
        BY <2>1 DEF TypeOK
    <2>3. \A d \in missing : \E r \in Ranges(missing) : d \in InRange(r)
        BY <1>1, RangesCover
    <2>4. \A d \in refresh'.requested \ seen' :
             asked'[d] >= refresh'.pass /\ \E r \in refresh'.ranges : d \in InRange(r)
        BY <1>1, <2>2, <2>3
    <2> QED
        BY <1>1, <2>1, <2>4 DEF Earned, RefreshSound
<1> QED
    BY <1>2, <1>3

\* One range less to send, and those in it were asked once more.
LEMMA RangeEarned ==
    ASSUME TypeOK, Earned, NEW r \in refresh.ranges, RangeSent(r)
    PROVE  Earned'
<1>1. /\ pc = "targeted"
      /\ refresh' = [refresh EXCEPT !.ranges = @ \ {r}]
      /\ pc' = IF refresh'.ranges = {} THEN "look" ELSE "targeted"
      /\ asked' = AskedAgain(InRange(r))
      /\ UNCHANGED <<table, seen>>
    BY DEF RangeSent
<1>2. /\ refresh'.requested = refresh.requested
      /\ refresh'.pass = refresh.pass /\ refresh.pass \in Nat
      /\ refresh'.ranges = refresh.ranges \ {r}
      /\ refresh.requested \subseteq Devices
    BY <1>1 DEF TypeOK
<1>3. \A d \in Devices : /\ asked[d] \in Nat
                         /\ asked'[d] = IF d \in InRange(r) THEN asked[d] + 1 ELSE asked[d]
    BY <1>1, AskedTyped DEF TypeOK
<1>4. ASSUME NEW d \in refresh.requested \ seen
      PROVE  \/ asked'[d] >= 1 + refresh.pass
             \/ /\ asked'[d] >= refresh.pass
                /\ \E q \in refresh.ranges \ {r} : d \in InRange(q)
    <2>1. \/ asked[d] >= 1 + refresh.pass
          \/ asked[d] >= refresh.pass /\ \E q \in refresh.ranges : d \in InRange(q)
        BY <1>1 DEF Earned
    <2>2. CASE d \in InRange(r)
        BY <1>2, <1>3, <2>1, <2>2
    <2>3. CASE d \notin InRange(r)
        BY <1>2, <1>3, <2>1, <2>3
    <2> QED
        BY <2>2, <2>3
<1>5. pc' \in {"look", "targeted"} /\ (pc' = "look" => refresh'.ranges = {})
    BY <1>1
<1> QED
    BY <1>1, <1>2, <1>4, <1>5 DEF Earned, RefreshSound

\* Every step keeps it.
LEMMA StepEarned ==
    ASSUME TypeOK, Earned, [Next]_vars
    PROVE  Earned'
<1>1. CASE Broadcast \/ Look \/ \E r \in refresh.ranges : RangeSent(r)
    BY <1>1, BroadcastEarned, LookEarned, RangeEarned
<1>2. CASE RefreshFails
    <2>1. pc' = "refreshed" /\ refresh'.result = "err" /\ UNCHANGED <<table, asked, seen>>
        BY <1>2 DEF RefreshFails, history, Idle
    <2> QED
        BY <2>1 DEF Earned, RefreshSound
<1>3. CASE Connected
    BY <1>3, BeginEarned DEF Connected, TypeOK
<1>4. ASSUME NEW d \in Devices, NextDevice(d)
      PROVE  Earned'
    <2>1. CASE d \in table
        BY <1>4, <2>1, EarnedKept DEF NextDevice, history, Earned
    <2>2. CASE d \notin table
        BY <1>4, <2>2, BeginEarned DEF NextDevice
    <2> QED
        BY <2>1, <2>2
<1>5. CASE \/ ConnectFails \/ ObjectScanGoesOn \/ SweepStarts \/ FocusedRefreshEnds
           \/ PollOnceGoesOn \/ SweepEnds \/ Polled \/ Panic
           \/ (\E n \in 0 .. MaxCount : CountRead(n)) \/ CountFails \/ Item \/ ItemsEnd
    <2>1. /\ UNCHANGED <<table, refresh, asked, seen>>
          /\ pc' \notin {"broadcast", "look", "targeted", "refreshed"}
        BY <1>5 DEF ConnectFails, ObjectScanGoesOn, SweepStarts, FocusedRefreshEnds,
           PollOnceGoesOn, SweepEnds, Polled, Panic, CountRead, CountFails, Item, ItemsEnd,
           ScanFailed, history
    <2> QED
        BY <2>1, EarnedKept DEF Earned
<1>6. ASSUME NEW d \in Devices, IAm(d) \/ Forget(d)
      PROVE  Earned'
    <2>1. /\ table' \subseteq seen' /\ seen \subseteq seen'
          /\ UNCHANGED <<refresh, asked, pc>>
        BY <1>6 DEF IAm, Forget, history, Earned
    <2> QED
        BY <2>1, EarnedKept
<1>7. CASE UNCHANGED vars
    BY <1>7, EarnedKept DEF vars, history, Earned
<1> QED
    BY <1>1, <1>2, <1>3, <1>4, <1>5, <1>6, <1>7 DEF Next, Job

-----------------------------------------------------------------------------
(* A sweep *)

\* Where a sweep is, over the steps that count nothing.
LEMMA PlaceKept ==
    ASSUME TypeOK, AtDevice, SweepAccounts, UNCHANGED <<kind, devices, target, left, tally>>,
           kind = "sweep" =>
              /\ pc' # "poll"
              /\ pc' \in {"count", "items"} => target # {}
              /\ pc' \in {"connect", "next"} => target = {}
              /\ pc' = "done" => pc = "done" \/ (target = {} /\ left = {})
    PROVE  AtDevice' /\ SweepAccounts'
<1> SUFFICES ASSUME kind = "sweep"
             PROVE  AtDevice' /\ SweepAccounts'
    BY DEF AtDevice, SweepAccounts
<1>1. AtDevice'
    BY DEF AtDevice
<1>2. pc' = "done" => tally.progress = Cardinality(devices)
    <2>1. CASE pc' = "done" /\ pc # "done"
        <3>1. target = {} /\ left = {} /\ Cardinality({}) = 0
            BY <2>1, FS_EmptySet
        <3> QED
            BY <3>1 DEF SweepAccounts, TypeOK
    <2> QED
        BY <2>1 DEF SweepAccounts
<1> QED
    BY <1>1, <1>2 DEF SweepAccounts

\* The device leaves the loop, counted once.
LEMMA DeviceCounted ==
    ASSUME TypeOK, AtDevice, SweepAccounts, kind = "sweep", target # {},
           NEW failed \in BOOLEAN, NEW unresolved \in BOOLEAN, unresolved => failed,
           tally' = CountedAs(failed, unresolved), target' = {}, pc' = "next",
           UNCHANGED <<kind, devices, left>>
    PROVE  AtDevice' /\ SweepAccounts'
<1>1. Cardinality(target) = 1 /\ Cardinality({}) = 0
    BY FS_Singleton, FS_EmptySet DEF AtDevice
<1>2. /\ tally.progress \in Nat /\ tally.scans \in Nat /\ tally.failures \in Nat
      /\ tally'.progress = tally.progress + 1
      /\ tally'.scans + tally'.failures = tally.scans + tally.failures + 1
      /\ tally'.unresolved <= tally'.failures
    BY CountedAsTyped DEF TypeOK, SweepAccounts
<1>3. Cardinality(left) \in Nat /\ Cardinality(devices) \in Nat
    BY JobsAssumption, FS_Subset, FS_CardinalityType DEF TypeOK
<1>4. /\ tally'.progress = tally'.scans + tally'.failures
      /\ tally'.progress + Cardinality(left') + Cardinality(target') = Cardinality(devices')
    BY <1>1, <1>2, <1>3 DEF SweepAccounts
<1> QED
    BY <1>2, <1>4 DEF AtDevice, SweepAccounts

LEMMA NextDevicePlaced ==
    ASSUME TypeOK, AtDevice, SweepAccounts, kind = "sweep", NEW d \in Devices, NextDevice(d)
    PROVE  AtDevice' /\ SweepAccounts'
<1>1. /\ target = {} /\ d \in left /\ left' = left \ {d} /\ target' = {d}
      /\ pc' \in {"count", "broadcast"}
      /\ UNCHANGED <<kind, devices, tally>>
    BY DEF NextDevice, BeginRefresh, AtDevice, job
<1>2. IsFiniteSet(left)
    BY JobsAssumption, FS_Subset DEF TypeOK
<1>3. /\ Cardinality(left') = Cardinality(left) - 1
      /\ Cardinality(target) = 0 /\ Cardinality(target') = 1
      /\ Cardinality(left) \in Nat
    BY <1>1, <1>2, FS_RemoveElement, FS_EmptySet, FS_Singleton, FS_CardinalityType
<1>4. tally.progress \in Nat
    BY DEF TypeOK
<1>5. tally.progress + Cardinality(left') + Cardinality(target') = Cardinality(devices)
    BY <1>3, <1>4 DEF SweepAccounts
<1> QED
    BY <1>1, <1>5 DEF AtDevice, SweepAccounts

\* Every step keeps it.
LEMMA StepPlaced ==
    ASSUME TypeOK, AtDevice, SweepAccounts, [Next]_vars
    PROVE  AtDevice' /\ SweepAccounts'
<1>0. CASE kind # "sweep"
    <2>1. kind' = kind
        BY DEF Next, Job, Connected, ConnectFails, Broadcast, Look, RefreshFails, RangeSent,
           ObjectScanGoesOn, SweepStarts, FocusedRefreshEnds, PollOnceGoesOn, NextDevice,
           CountRead, CountFails, Item, ItemsEnd, SweepEnds, Polled, Panic, IAm, Forget,
           vars, job
    <2> QED
        BY <1>0, <2>1 DEF AtDevice, SweepAccounts
<1> SUFFICES ASSUME kind = "sweep"
             PROVE  AtDevice' /\ SweepAccounts'
    BY <1>0
<1>1. CASE \/ Connected \/ ConnectFails \/ Broadcast \/ Look \/ RefreshFails
           \/ (\E r \in refresh.ranges : RangeSent(r))
           \/ ObjectScanGoesOn \/ SweepStarts \/ PollOnceGoesOn \/ SweepEnds \/ Polled
           \/ Panic \/ (\E n \in 0 .. MaxCount : CountRead(n)) \/ Item
    <2>1. UNCHANGED <<kind, devices, target, left, tally>>
        BY <1>1 DEF Connected, ConnectFails, Broadcast, Look, RefreshFails, RangeSent,
           ObjectScanGoesOn, SweepStarts, PollOnceGoesOn, SweepEnds, Polled, Panic,
           CountRead, Item, job
    <2>2. /\ pc' # "poll"
          /\ pc' \in {"count", "items"} => target # {}
          /\ pc' \in {"connect", "next"} => target = {}
          /\ pc' = "done" => pc = "done" \/ (target = {} /\ left = {})
        <3>1. CASE SweepEnds
            BY <3>1 DEF SweepEnds, AtDevice
        <3>2. ~Polled
            BY DEF Polled, AtDevice
        <3>3. CASE ~SweepEnds
            BY <1>1, <3>2, <3>3 DEF Connected, BeginRefresh, ConnectFails, Broadcast, Look,
               RefreshFails, RangeSent, ObjectScanGoesOn, SweepStarts, PollOnceGoesOn, Panic,
               CountRead, Item, AtDevice
        <3> QED
            BY <3>1, <3>3
    <2> QED
        BY <2>1, <2>2, PlaceKept
<1>2. CASE FocusedRefreshEnds
    <2>1. CASE pc' = "count"
        BY <1>2, <2>1, PlaceKept DEF FocusedRefreshEnds, ScanFailed, job
    <2>2. CASE pc' # "count"
        <3>1. \E unresolved \in BOOLEAN : tally' = CountedAs(TRUE, unresolved)
            BY <1>2, <2>2 DEF FocusedRefreshEnds, ScanFailed
        <3>2. /\ target # {} /\ target' = {} /\ pc' = "next"
              /\ UNCHANGED <<kind, devices, left>>
            BY <1>2, <2>2 DEF FocusedRefreshEnds, ScanFailed, job
        <3> QED
            BY <3>1, <3>2, DeviceCounted
    <2> QED
        BY <2>1, <2>2
<1>3. CASE CountFails
    <2>1. /\ target # {} /\ target' = {} /\ pc' = "next" /\ tally' = CountedAs(TRUE, FALSE)
          /\ UNCHANGED <<kind, devices, left>>
        BY <1>3 DEF CountFails, ScanFailed, AtDevice, job
    <2> QED
        BY <2>1, DeviceCounted
<1>4. CASE ItemsEnd
    <2>1. /\ target # {} /\ target' = {} /\ pc' = "next" /\ tally' = CountedAs(FALSE, FALSE)
          /\ UNCHANGED <<kind, devices, left>>
        BY <1>4 DEF ItemsEnd, AtDevice, job
    <2> QED
        BY <2>1, DeviceCounted
<1>5. CASE \E d \in Devices : NextDevice(d)
    BY <1>5, NextDevicePlaced
<1>6. CASE (\E d \in Devices : IAm(d) \/ Forget(d)) \/ UNCHANGED vars
    <2>1. UNCHANGED <<kind, devices, target, left, tally, pc>>
        BY <1>6 DEF IAm, Forget, vars, job
    <2> QED
        BY <2>1 DEF AtDevice, SweepAccounts
<1> QED
    BY <1>1, <1>2, <1>3, <1>4, <1>5, <1>6 DEF Next, Job

-----------------------------------------------------------------------------
(* A poll-once *)

\* Every step keeps it: the points that are read, fail or are skipped are all.
LEMMA StepPolled ==
    ASSUME PollOnceStages, PollOnceReportsAll, [Next]_vars
    PROVE  PollOnceStages' /\ PollOnceReportsAll'
<1>1. CASE Polled
    <2>1. PICK read \in SUBSET { p \in enabled \ Skipped(enabled) : DeviceOf[p] \in table } :
             report' = [samples |-> read,
                        failures |-> ({ p \in enabled : DeviceOf[p] \notin refresh.unresolved }
                                        \ read) \cup Skipped(enabled)]
        BY <1>1 DEF Polled
    <2>2. /\ report'.samples \cup report'.failures = enabled
          /\ report'.samples \cap report'.failures = {}
        BY <2>1 DEF Skipped
    <2> QED
        BY <1>1, <2>2 DEF Polled, job, PollOnceStages, PollOnceReportsAll
<1>2. CASE \/ Connected \/ ConnectFails \/ Broadcast \/ Look \/ RefreshFails
           \/ (\E r \in refresh.ranges : RangeSent(r))
           \/ ObjectScanGoesOn \/ SweepStarts \/ PollOnceGoesOn \/ SweepEnds
           \/ Panic \/ (\E n \in 0 .. MaxCount : CountRead(n)) \/ CountFails \/ Item \/ ItemsEnd
           \/ FocusedRefreshEnds \/ \E d \in Devices : NextDevice(d)
    <2>1. /\ kind' = kind
          /\ kind = "pollOnce" => pc' \notin {"next", "count", "items", "done"}
        BY <1>2 DEF Connected, BeginRefresh, ConnectFails, Broadcast, Look, RefreshFails,
           RangeSent, ObjectScanGoesOn, SweepStarts, PollOnceGoesOn, SweepEnds, Panic,
           CountRead, CountFails, ScanFailed, Item, ItemsEnd, FocusedRefreshEnds, NextDevice,
           job, PollOnceStages
    <2> QED
        BY <2>1 DEF PollOnceStages, PollOnceReportsAll
<1>3. CASE (\E d \in Devices : IAm(d) \/ Forget(d)) \/ UNCHANGED vars
    BY <1>3 DEF IAm, Forget, vars, job, PollOnceStages, PollOnceReportsAll
<1> QED
    BY <1>1, <1>2, <1>3 DEF Next, Job

-----------------------------------------------------------------------------
(* Theorems *)

LEMMA InitHolds == Init => IInv
<1> SUFFICES ASSUME Init PROVE IInv
    OBVIOUS
<1>1. Earned
    BY DEF Init, Earned, RefreshSound
<1>2. AtDevice /\ PollOnceStages
    BY DEF Init, AtDevice, PollOnceStages
<1>3. SweepAccounts
    <2>1. Cardinality({}) = 0
        BY FS_EmptySet
    <2>2. Cardinality(devices) \in Nat
        BY InitTyped, JobsAssumption, FS_Subset, FS_CardinalityType DEF TypeOK
    <2> QED
        BY <2>1, <2>2 DEF Init, SweepAccounts
<1>4. PollOnceReportsAll
    BY DEF Init, PollOnceReportsAll, NoReport
<1> QED
    BY <1>1, <1>2, <1>3, <1>4, InitTyped DEF IInv, JobsAccount

LEMMA StepHolds == IInv /\ [Next]_vars => IInv'
BY StepTyped, StepEarned, StepPlaced, StepPolled DEF IInv, JobsAccount

\* The inductive invariant.
THEOREM JobsInvariant == Spec => []IInv
BY InitHolds, StepHolds, PTL DEF Spec

\* Variables keep their shape; no object list is gone through beyond the cap.
THEOREM JobsTyped == Spec => []TypeOK
<1>1. IInv => TypeOK
    BY DEF IInv
<1> QED
    BY <1>1, JobsInvariant, PTL

\* refresh_device_table gives a device up only after a broadcast and one targeted
\* Who-Is in every pass, however the instances fall into chunks.
THEOREM RefreshEarned == Spec => []RefreshSound
<1>1. IInv => RefreshSound
    BY DEF IInv, Earned
<1> QED
    BY <1>1, JobsInvariant, PTL

\* The sums of a sweep add up on every way out of its loop, and a poll-once reports
\* every enabled point (spawn_scan_all_objects, poll_points_once).
THEOREM JobsAccounted == Spec => []JobsAccount
<1>1. IInv => JobsAccount
    BY DEF IInv
<1> QED
    BY <1>1, JobsInvariant, PTL

-----------------------------------------------------------------------------
(* Discoveries *)

\* It is on an interface it took from those left, which was not asked before.
OnInterface ==
    /\ stage \in {"send", "window"} =>
          /\ round <= BroadcastPasses
          /\ \E i \in Interfaces : on = {i} /\ i \notin untried
    /\ stage = "send" => \A i \in on : broadcasts[i] <= round - 1
    /\ stage = "window" => \A i \in on : broadcasts[i] <= round
    /\ \A i \in untried : broadcasts[i] = 0

\* What was heard in windows is collected, or in the table of the client whose window
\* it is.
Collected == heard \subseteq IF stage = "window" THEN found \cup heardHere ELSE found

\* Under Strict nothing was skipped up to here.
Complete ==
    strict /\ stage # "failed" =>
        /\ ~warned
        /\ \A i \in Interfaces \ untried :
              broadcasts[i] = IF stage = "send" /\ i \in on THEN round - 1
                              ELSE IF stage = "window" /\ i \in on THEN round
                              ELSE BroadcastPasses

\* A discovery ends when no interface is left, and fails under Skip only then.
Ends ==
    /\ stage = "done" => untried = {}
    /\ stage = "failed" /\ ~strict => ~bound

DiscoveryInv == D!TypeOK /\ OnInterface /\ Collected /\ Complete /\ Ends

LEMMA InitDiscovers == D!Init => DiscoveryInv
<1> SUFFICES ASSUME D!Init PROVE DiscoveryInv
    OBVIOUS
<1>1. Interfaces # {} /\ BroadcastPasses \in Nat \ {0}
    BY DiscoveryBounds DEF D!DiscoveryAssumption
<1>2. round \in 1 .. BroadcastPasses + 1 /\ broadcasts \in [Interfaces -> 0 .. BroadcastPasses]
    BY <1>1 DEF D!Init
<1>3. D!TypeOK
    BY <1>2 DEF D!Init, D!TypeOK
<1>4. OnInterface /\ Collected /\ Complete /\ Ends
    BY <1>1 DEF D!Init, OnInterface, Collected, Complete, Ends
<1> QED
    BY <1>3, <1>4 DEF DiscoveryInv

LEMMA BindDiscovers ==
    ASSUME DiscoveryInv, NEW i \in Interfaces, D!BindSucceeds(i) \/ D!BindFails(i)
    PROVE  DiscoveryInv'
<1>1. BroadcastPasses \in Nat \ {0}
    BY DiscoveryBounds DEF D!DiscoveryAssumption
<1>2. CASE D!BindSucceeds(i)
    <2>1. D!TypeOK'
        <3>1. round' \in 1 .. BroadcastPasses + 1
            BY <1>1, <1>2 DEF D!BindSucceeds
        <3> QED
            BY <1>2, <3>1 DEF D!BindSucceeds, DiscoveryInv, D!TypeOK
    <2>2. OnInterface'
        BY <1>1, <1>2 DEF D!BindSucceeds, DiscoveryInv, D!TypeOK, OnInterface
    <2>3. Complete'
        BY <1>1, <1>2 DEF D!BindSucceeds, DiscoveryInv, D!TypeOK, OnInterface, Complete
    <2> QED
        BY <1>2, <2>1, <2>2, <2>3 DEF D!BindSucceeds, DiscoveryInv, Collected, Ends
<1>3. CASE D!BindFails(i)
    <2>1. D!TypeOK' /\ OnInterface' /\ Collected'
        BY <1>3 DEF D!BindFails, D!Objection, DiscoveryInv, D!TypeOK, OnInterface, Collected
    <2>2. Complete' /\ Ends'
        BY <1>3 DEF D!BindFails, D!Objection, DiscoveryInv, Complete, Ends
    <2> QED
        BY <2>1, <2>2 DEF DiscoveryInv
<1> QED
    BY <1>2, <1>3

LEMMA PassDiscovers ==
    ASSUME DiscoveryInv, D!PassSent \/ D!PassFails
    PROVE  DiscoveryInv'
<1>1. BroadcastPasses \in Nat \ {0} /\ round \in Nat /\ round <= BroadcastPasses
    BY DiscoveryBounds DEF D!DiscoveryAssumption, DiscoveryInv, OnInterface, D!TypeOK,
       D!PassSent, D!PassFails
<1>2. PICK i \in Interfaces : on = {i} /\ i \notin untried
    BY DEF DiscoveryInv, OnInterface, D!PassSent, D!PassFails
<1>3. CASE D!PassSent
    <2>a. broadcasts \in [Interfaces -> 0 .. BroadcastPasses]
        BY DEF DiscoveryInv, D!TypeOK
    <2>1. /\ broadcasts' = [broadcasts EXCEPT ![i] = @ + 1]
          /\ broadcasts[i] \in Nat /\ broadcasts[i] <= round - 1
        <3>1. broadcasts' = [j \in Interfaces |-> IF j \in on THEN broadcasts[j] + 1
                                                             ELSE broadcasts[j]]
            BY <1>3 DEF D!PassSent
        <3>2. \A j \in Interfaces : j \in on <=> j = i
            BY <1>2
        <3>3. broadcasts[i] \in Nat /\ broadcasts[i] <= round - 1
            BY <1>1, <1>2, <1>3, <2>a DEF D!PassSent, DiscoveryInv, OnInterface
        <3> QED
            BY <2>a, <3>1, <3>2, <3>3
    <2>2. D!TypeOK'
        BY <1>1, <1>2, <1>3, <2>1 DEF D!PassSent, DiscoveryInv, D!TypeOK
    <2>3. OnInterface'
        BY <1>1, <1>2, <1>3, <2>1 DEF D!PassSent, DiscoveryInv, D!TypeOK, OnInterface
    <2>4. Complete'
        BY <1>1, <1>2, <1>3, <2>1 DEF D!PassSent, DiscoveryInv, D!TypeOK, Complete
    <2> QED
        BY <1>3, <2>2, <2>3, <2>4 DEF D!PassSent, DiscoveryInv, Collected, Ends
<1>4. CASE D!PassFails
    <2>1. D!TypeOK'
        <3>1. round' \in 1 .. BroadcastPasses + 1
            BY <1>1, <1>4 DEF D!PassFails, DiscoveryInv, D!TypeOK
        <3>2. stage' \in {"bind", "send", "failed"} /\ warned' \in BOOLEAN
            BY <1>4 DEF D!PassFails, D!Objection, D!AfterPass, DiscoveryInv, D!TypeOK
        <3> QED
            BY <1>4, <3>1, <3>2 DEF D!PassFails, DiscoveryInv, D!TypeOK
    <2>2. OnInterface'
        BY <1>1, <1>2, <1>4 DEF D!PassFails, D!Objection, D!AfterPass, DiscoveryInv, D!TypeOK,
           OnInterface
    <2>3. Complete' /\ Collected' /\ Ends'
        BY <1>4 DEF D!PassFails, D!Objection, D!AfterPass, DiscoveryInv, Complete, Collected, Ends
    <2> QED
        BY <2>1, <2>2, <2>3 DEF DiscoveryInv
<1> QED
    BY <1>3, <1>4

LEMMA CollectDiscovers ==
    ASSUME DiscoveryInv, D!Collect
    PROVE  DiscoveryInv'
<1>1. /\ BroadcastPasses \in Nat \ {0} /\ round \in Nat /\ round <= BroadcastPasses
      /\ stage = "window" /\ stage' \in {"send", "bind"}
      /\ stage' = "send" <=> round < BroadcastPasses
    BY DiscoveryBounds DEF D!DiscoveryAssumption, DiscoveryInv, OnInterface, D!TypeOK,
       D!Collect, D!AfterPass
<1>2. D!TypeOK'
    BY <1>1 DEF D!Collect, DiscoveryInv, D!TypeOK
<1>3. OnInterface'
    BY <1>1 DEF D!Collect, DiscoveryInv, D!TypeOK, OnInterface
<1>4. Complete'
    BY <1>1 DEF D!Collect, DiscoveryInv, Complete
<1>5. Collected' /\ Ends'
    BY <1>1 DEF D!Collect, DiscoveryInv, Collected, Ends
<1> QED
    BY <1>2, <1>3, <1>4, <1>5 DEF DiscoveryInv

LEMMA StepDiscovers == DiscoveryInv /\ (D!Next \/ UNCHANGED discovery) => DiscoveryInv'
<1> SUFFICES ASSUME DiscoveryInv, D!Next \/ UNCHANGED discovery
             PROVE  DiscoveryInv'
    OBVIOUS
<1>1. CASE D!Finish
    BY <1>1 DEF D!Finish, DiscoveryInv, D!TypeOK, OnInterface, Collected, Complete, Ends
<1>2. ASSUME NEW d \in Devices, D!IAm(d)
      PROVE  DiscoveryInv'
    BY <1>2 DEF D!IAm, DiscoveryInv, D!TypeOK, OnInterface, Collected, Complete, Ends
<1>3. CASE UNCHANGED discovery
    BY <1>3 DEF discovery, DiscoveryInv, D!TypeOK, OnInterface, Collected, Complete, Ends
<1> QED
    BY <1>1, <1>2, <1>3, BindDiscovers, PassDiscovers, CollectDiscovers DEF D!Next, D!Step

\* Variables keep their shape, of a job as of a discovery.
THEOREM OneShotTyped == OneShotSpec => []BothTypeOK
<1>1. OneShotInit => IInv /\ DiscoveryInv
    BY InitHolds, InitDiscovers DEF OneShotInit
<1>2. IInv /\ DiscoveryInv /\ [OneShotNext]_<<vars, discovery, discovers>>
         => IInv' /\ DiscoveryInv'
    BY StepHolds, StepDiscovers DEF OneShotNext
<1>3. IInv /\ DiscoveryInv => BothTypeOK
    BY DEF IInv, DiscoveryInv, BothTypeOK
<1> QED
    BY <1>1, <1>2, <1>3, PTL DEF OneShotSpec

\* discover_devices reports whoever was heard in a window, whatever failed elsewhere, and
\* keeps what its failure policy says: a result under Strict is complete.
THEOREM DiscoveryKeepsItsWord == OneShotSpec => []DiscoveryHonest
<1>1. OneShotInit => DiscoveryInv
    BY InitDiscovers DEF OneShotInit
<1>2. DiscoveryInv /\ [OneShotNext]_<<vars, discovery, discovers>> => DiscoveryInv'
    BY StepDiscovers DEF OneShotNext
<1>3. DiscoveryInv => DiscoveryHonest
    BY DEF DiscoveryInv, Collected, Complete, Ends, DiscoveryHonest, D!HeardIsReported,
       D!PolicyKept
<1> QED
    BY <1>1, <1>2, <1>3, PTL DEF OneShotSpec
=============================================================================
