-------------------------- MODULE PointStoreProofs --------------------------
(***************************************************************************)
(* Proofs about PointStore: what is saved is what a restart brings back, a *)
(* wipe removes what was announced, an editor saves to the point it was    *)
(* opened on, and an import keeps the configured points, for lists and     *)
(* scans of any length.                                                    *)
(*                                                                         *)
(* The first two hold whatever the merge computes; the others rest on what *)
(* AlgorithmProofs says of it.                                             *)
(***************************************************************************)
EXTENDS PointStore, AlgorithmProofs, SequenceTheorems

\* Every save leaves the list it was given in the file, or says that it failed.
LEMMA SaveEstablishes ==
    ASSUME NEW list, SaveConfig(list)
    PROVE  saved' => Load(disk)' = list
BY DEF SaveConfig, Load, Intact, Unusable

\* A start that is said to have loaded the file did.
LEMMA StartLoads ==
    ASSUME NEW content, NEW start \in LoadOrDefault(content)
    PROVE  /\ start.located \in BOOLEAN /\ start.saved \in BOOLEAN
           /\ start.points = Load(content) \/ start.points = << >>
           /\ start.saved => start.points = Load(content)
<1>1. \/ start = [points |-> Load(content), located |-> TRUE, saved |-> TRUE]
      \/ \E found \in BOOLEAN : start = [points |-> << >>, located |-> found, saved |-> FALSE]
    BY DEF LoadOrDefault
<1>2. CASE start = [points |-> Load(content), located |-> TRUE, saved |-> TRUE]
    <2>1. start.points = Load(content) /\ start.located = TRUE /\ start.saved = TRUE
        BY <1>2
    <2> QED
        BY <2>1
<1>3. ASSUME NEW found \in BOOLEAN, start = [points |-> << >>, located |-> found, saved |-> FALSE]
      PROVE  start.points = << >> /\ start.located \in BOOLEAN /\ start.saved = FALSE
    BY <1>3
<1> QED
    BY <1>1, <1>2, <1>3

\* A step that leaves the list and the file keeps them in agreement.
LEMMA FileKept ==
    ASSUME SavedIsLoaded, UNCHANGED << points, file >>
    PROVE  SavedIsLoaded'
BY DEF SavedIsLoaded, file, Load

\* The steps of the editor keep memory and file in agreement.
LEMMA EditsSaved ==
    ASSUME SavedIsLoaded, Edits
    PROVE  SavedIsLoaded'
<1>1. CASE NewPoint \/ OtherClick
    BY <1>1, FileKept DEF NewPoint, OtherClick
<1>2. CASE SaveSettings
    <2>1. SaveConfig(points) /\ points' = points
        BY <1>2 DEF SaveSettings
    <2> QED
        BY <2>1, SaveEstablishes DEF SavedIsLoaded
<1>3. ASSUME NEW index \in DOMAIN points, EditPoint(index)
      PROVE  SavedIsLoaded'
    BY <1>3, FileKept DEF EditPoint
<1>4. ASSUME NEW index \in DOMAIN points, DeletePoint(index) \/ TogglePoint(index)
      PROVE  SavedIsLoaded'
    <2>1. SaveConfig(points')
        BY <1>4 DEF DeletePoint, TogglePoint
    <2> QED
        BY <2>1, SaveEstablishes DEF SavedIsLoaded
<1>5. ASSUME NEW typed \in Typed, SaveNewPoint(typed) \/ SaveSelectedPoint(typed)
      PROVE  SavedIsLoaded'
    <2>1. SaveConfig(points')
        BY <1>5 DEF SaveNewPoint, SaveSelectedPoint
    <2> QED
        BY <2>1, SaveEstablishes DEF SavedIsLoaded
<1> QED
    BY <1>1, <1>2, <1>3, <1>4, <1>5 DEF Edits

\* So do the steps of scans: an import saves the list it brings.
LEMMA ScansSaved ==
    ASSUME SavedIsLoaded, ScanSteps
    PROVE  SavedIsLoaded'
<1>1. CASE Discover
    BY <1>1, FileKept DEF Discover
<1>2. ASSUME NEW j \in Jobs, NEW scan, StartScan(j, scan)
      PROVE  SavedIsLoaded'
    BY <1>2, FileKept DEF StartScan
<1>3. ASSUME NEW j \in Jobs, ScanFails(j)
      PROVE  SavedIsLoaded'
    BY <1>3, FileKept DEF ScanFails
<1>4. ASSUME NEW j \in Jobs, NEW count \in 0..MaxObjects, ObjectsDrained(j, count)
      PROVE  SavedIsLoaded'
    BY <1>4, FileKept DEF ObjectsDrained
<1>5. ASSUME NEW j \in Jobs, NEW found \in Scans, ImportDrained(j, found)
      PROVE  SavedIsLoaded'
    <2>1. SaveConfig(points')
        BY <1>5 DEF ImportDrained
    <2> QED
        BY <2>1, SaveEstablishes DEF SavedIsLoaded
<1> QED
    BY <1>1, <1>2, <1>3, <1>4, <1>5 DEF ScanSteps

\* Every step of the program and of the operator keeps them in agreement.
LEMMA StepSaved == SavedIsLoaded /\ [Next]_vars => SavedIsLoaded'
<1> SUFFICES ASSUME SavedIsLoaded, [Next]_vars
             PROVE  SavedIsLoaded'
    OBVIOUS
<1>1. CASE ArmClear
    BY <1>1, FileKept DEF ArmClear
<1>2. CASE Wipe
    <2>1. SaveConfig(points')
        BY <1>2 DEF Wipe
    <2> QED
        BY <2>1, SaveEstablishes DEF SavedIsLoaded
<1>3. CASE Restart
    <2>1. disk' = disk /\ (saved' => points' = Load(disk))
        BY <1>3, StartLoads DEF Restart
    <2> QED
        BY <2>1 DEF SavedIsLoaded, Load
<1>4. CASE UNCHANGED vars
    BY <1>4, FileKept DEF vars
<1> QED
    BY <1>1, <1>2, <1>3, <1>4, EditsSaved, ScansSaved DEF Next

\* The list the operator sees is the one a start would load, if this start did and no
\* save failed since (save_config_with_status after every change of the list).
THEOREM SavedListIsLoaded == Spec => []SavedIsLoaded
<1>1. Init => SavedIsLoaded
    BY StartLoads DEF Init, SavedIsLoaded
<1> QED
    BY <1>1, StepSaved, PTL DEF Spec

\* A restart at any point brings back the list the operator saw, unless a save had
\* failed or one of the two starts did not load the file.
THEOREM RestartLosesNothing == Spec => RestartKeepsPoints
<1>1. SavedIsLoaded => [Restart /\ saved /\ saved' => points' = points]_vars
    BY StartLoads DEF SavedIsLoaded, Restart
<1> QED
    BY <1>1, SavedListIsLoaded, PTL DEF RestartKeepsPoints

-----------------------------------------------------------------------------
\* A step that disarms, or keeps what was armed and the two lists, keeps the
\* announcement true.
LEMMA DisarmedOrKept ==
    ASSUME ArmedIsCurrent,
           \/ armed' = NotArmed
           \/ armed' = armed /\ points' = points /\ objects' = objects
    PROVE  ArmedIsCurrent'
BY DEF ArmedIsCurrent, NotArmed

\* What scans do to a pending wipe: a click disarms it, a drained list marks it.
LEMMA ScansArmed ==
    ASSUME ArmedIsCurrent, ScanSteps
    PROVE  ArmedIsCurrent'
<1>1. CASE Discover
    BY <1>1, DisarmedOrKept DEF Discover, Disarm
<1>2. ASSUME NEW j \in Jobs, NEW scan, StartScan(j, scan)
      PROVE  ArmedIsCurrent'
    BY <1>2, DisarmedOrKept DEF StartScan, Disarm
<1>3. ASSUME NEW j \in Jobs, ScanFails(j)
      PROVE  ArmedIsCurrent'
    BY <1>3, DisarmedOrKept DEF ScanFails
<1>4. ASSUME NEW j \in Jobs,
             \/ \E count \in 0..MaxObjects : ObjectsDrained(j, count)
             \/ \E found \in Scans : ImportDrained(j, found)
      PROVE  ArmedIsCurrent'
    <2>1. armed' = [armed EXCEPT !.drained = armed.set]
        BY <1>4 DEF ObjectsDrained, ImportDrained, ListsReplaced
    <2> QED
        BY <2>1 DEF ArmedIsCurrent
<1> QED
    BY <1>1, <1>2, <1>3, <1>4 DEF ScanSteps

\* Every step keeps the announcement of a pending wipe true, or marks it.
LEMMA StepArmed == ArmedIsCurrent /\ [Next]_vars => ArmedIsCurrent'
<1> SUFFICES ASSUME ArmedIsCurrent, [Next]_vars
             PROVE  ArmedIsCurrent'
    OBVIOUS
<1>1. CASE Edits
    <2>1. armed' = NotArmed
        BY <1>1 DEF Edits, NewPoint, OtherClick, SaveSettings, EditPoint, DeletePoint,
                    TogglePoint, SaveNewPoint, SaveSelectedPoint, Disarm
    <2> QED
        BY <2>1, DisarmedOrKept
<1>2. CASE ArmClear
    BY <1>2 DEF ArmClear, ArmedIsCurrent
<1>3. CASE Wipe \/ Restart
    BY <1>3, DisarmedOrKept DEF Wipe, Restart, Disarm
<1>4. CASE UNCHANGED vars
    BY <1>4, DisarmedOrKept DEF vars
<1> QED
    BY <1>1, <1>2, <1>3, <1>4, ScansArmed DEF Next

\* The second press of "clear all" removes what the first announced, unless an
\* event replaced a list in between.
THEOREM WipeAsAnnounced == Spec => []ArmedIsCurrent
<1>1. Init => ArmedIsCurrent
    BY DEF Init, ArmedIsCurrent, NotArmed
<1> QED
    BY <1>1, StepArmed, PTL DEF Spec

-----------------------------------------------------------------------------
(* The list of points *)

\* Points have the fields of KnownPoints, which the merge tells apart.
LEMMA PointsArePoints ==
    /\ Point = Pointlike({ p.id : p \in KnownPoints }, { p.tag : p \in KnownPoints },
                         { p.label : p \in KnownPoints })
    /\ Typed \subseteq Point
    /\ \A found \in Scans : found \in Seq(Point)
<1>1. Typed \subseteq KnownPoints /\ KnownPoints \subseteq Point
    BY PointsAssumption DEF KnownPoints
<1>2. \A found \in Scans : found \in Seq(KnownPoints)
    BY PointsAssumption
<1>3. \A found \in Scans : found \in Seq(Point)
    <2> SUFFICES ASSUME NEW found \in Scans
                 PROVE  found \in Seq(Point)
        OBVIOUS
    <2>1. found \in Seq(KnownPoints) /\ KnownPoints \subseteq Point
        BY <1>1, <1>2
    <2> QED
        BY <2>1
<1>4. Typed \subseteq Point
    BY <1>1
<1> QED
    BY <1>3, <1>4 DEF Point, Pointlike

LEMMA ImportMerges ==
    ASSUME NEW given \in Seq(Point), NEW found \in Scans
    PROVE  LET merged == Merge(given, found).points
           IN  /\ merged \in Seq(Point)
               /\ Len(given) <= Len(merged)
               /\ \A i \in DOMAIN given : /\ merged[i].id = given[i].id
                                          /\ merged[i].enabled = given[i].enabled
BY PointsArePoints, MergeKeeps

LEMMA PointRemoved ==
    ASSUME NEW list \in Seq(Point), NEW index \in DOMAIN list
    PROVE  RemoveAt(list, index) \in Seq(Point)
<1>1. Len(list) \in Nat /\ index \in 1 .. Len(list) /\ DOMAIN list = 1 .. Len(list)
    OBVIOUS
<1>2. SubSeq(list, 1, index - 1) \in Seq(Point)
    BY <1>1, SubSeqProperties
<1>3. SubSeq(list, index + 1, Len(list)) \in Seq(Point)
    BY <1>1, SubSeqProperties
<1> QED
    BY <1>2, <1>3, ConcatProperties DEF RemoveAt

LEMMA PointToggled ==
    ASSUME NEW list \in Seq(Point), NEW index \in DOMAIN list
    PROVE  LET toggled == [list EXCEPT ![index].enabled = ~@]
           IN  /\ toggled \in Seq(Point)
               /\ DOMAIN toggled = DOMAIN list
               /\ \A i \in DOMAIN list : toggled[i].id = list[i].id
<1>1. list[index] \in Point
    OBVIOUS
<1>2. /\ [list[index] EXCEPT !.enabled = ~@] \in Point
      /\ [list[index] EXCEPT !.enabled = ~@].id = list[index].id
    BY <1>1 DEF Point
<1> QED
    BY <1>2

\* Whatever becomes of a save, the file is one of points or unusable.
LEMMA SaveTyped ==
    ASSUME NEW list \in Seq(Point), SaveConfig(list), disk \in [parses : BOOLEAN, points : Seq(Point)],
           disk.parses \/ disk = Unusable
    PROVE  /\ disk' \in [parses : BOOLEAN, points : Seq(Point)]
           /\ (disk.parses \/ disk = Unusable)'
           /\ saved' \in BOOLEAN /\ located' = located
<1>1. Intact(list) \in [parses : BOOLEAN, points : Seq(Point)] /\ Intact(list).parses
    BY DEF Intact
<1>2. Unusable \in [parses : BOOLEAN, points : Seq(Point)]
    <2>1. << >> \in Seq(Point)
        OBVIOUS
    <2> QED
        BY <2>1 DEF Unusable
<1>3. /\ saved' \in BOOLEAN /\ located' = located
      /\ disk' = Intact(list) \/ disk' = disk \/ disk' = Unusable
    BY DEF SaveConfig
<1> QED
    BY <1>1, <1>2, <1>3

LEMMA LoadTyped ==
    ASSUME disk \in [parses : BOOLEAN, points : Seq(Point)]
    PROVE  Load(disk) \in Seq(Point)
BY DEF Load

\* The types of the parts that a step changes.
Opened == [id : { p.id : p \in KnownPoints } \cup {Blank}, drained : BOOLEAN]
Armed == [set : BOOLEAN, points : Nat, objects : Nat, drained : BOOLEAN]
JobState == [kind : {"idle", "objects", "all"}, given : Seq(Point)]

LEMMA ConstantsTyped ==
    /\ NothingOpened \in Opened /\ NotArmed \in Armed
    /\ Idle \in JobState /\ ObjectScan \in JobState
    /\ \A given \in Seq(Point) : ScanAll(given) \in JobState
    /\ \A point \in Point, drained \in BOOLEAN :
          [id |-> point.id, drained |-> drained] \in Opened
<1>1. << >> \in Seq(Point)
    OBVIOUS
<1> QED
    BY <1>1 DEF NothingOpened, NotArmed, Idle, ObjectScan, ScanAll, Opened, Armed, JobState, Point

LEMMA InitPoints == Init => TypeOK /\ SelectedIsOpened
<1> SUFFICES ASSUME Init PROVE TypeOK /\ SelectedIsOpened
    OBVIOUS
<1>1. /\ disk \in [parses : BOOLEAN, points : Seq(Point)]
      /\ disk.parses \/ disk = Unusable
    <2>1. \A point \in Typed : << point >> \in Seq(Point)
        BY PointsArePoints
    <2>2. << >> \in Seq(Point)
        OBVIOUS
    <2>3. CASE disk = Unusable
        BY <2>2, <2>3 DEF Unusable
    <2>4. CASE \E point \in Typed : disk = Intact(<< point >>)
        BY <2>1, <2>4 DEF Intact
    <2> QED
        BY <2>3, <2>4 DEF Init
<1>2. points \in Seq(Point) /\ located \in BOOLEAN /\ saved \in BOOLEAN
    <2>1. Load(disk) \in Seq(Point) /\ << >> \in Seq(Point)
        BY <1>1, LoadTyped
    <2> QED
        BY <2>1, StartLoads DEF Init
<1> QED
    BY <1>1, <1>2, ConstantsTyped
       DEF Init, TypeOK, SelectedIsOpened, None, Opened, Armed, JobState

PointsInv == TypeOK /\ SelectedIsOpened

\* A step that changes no list and not the editor keeps it.
LEMMA ListsKept ==
    ASSUME PointsInv, UNCHANGED << points, selected, opened, file >>,
           objects' \in Nat, armed' \in Armed, job' \in [Jobs -> JobState]
    PROVE  PointsInv'
BY DEF PointsInv, TypeOK, SelectedIsOpened, Armed, JobState, Unusable, file

\* A click that saves a list keeps it, if the editor is still on its point.
LEMMA ListSaved ==
    ASSUME PointsInv, NEW list \in Seq(Point), points' = list, SaveConfig(list), Disarm,
           objects' \in Nat, job' = job, selected' \in Nat, opened' \in Opened,
           SelectedIsOpened'
    PROVE  PointsInv'
<1>1. /\ disk' \in [parses : BOOLEAN, points : Seq(Point)]
      /\ (disk.parses \/ disk = Unusable)'
      /\ located' \in BOOLEAN /\ saved' \in BOOLEAN
    BY SaveTyped DEF PointsInv, TypeOK
<1>2. armed' \in Armed
    BY ConstantsTyped DEF Disarm
<1> QED
    BY <1>1, <1>2 DEF PointsInv, TypeOK, Armed, Opened

LEMMA EditorReset ==
    ASSUME ResetEditor
    PROVE  selected' \in Nat /\ opened' \in Opened /\ SelectedIsOpened'
BY ConstantsTyped DEF ResetEditor, SelectedIsOpened, None

LEMMA EditsTyped ==
    ASSUME PointsInv, Edits
    PROVE  PointsInv'
<1>1. /\ points \in Seq(Point) /\ Len(points) \in Nat /\ DOMAIN points = 1 .. Len(points)
      /\ selected \in Nat /\ opened \in Opened /\ objects \in Nat
      /\ job \in [Jobs -> JobState] /\ NotArmed \in Armed
    BY ConstantsTyped DEF PointsInv, TypeOK, Opened, JobState
<1>2. CASE NewPoint
    <2>1. selected' \in Nat /\ opened' \in Opened /\ SelectedIsOpened'
        BY <1>2, EditorReset DEF NewPoint
    <2> QED
        BY <1>1, <1>2, <2>1 DEF NewPoint, Disarm, PointsInv, TypeOK, Opened, Armed, Unusable, file
<1>3. CASE OtherClick
    BY <1>1, <1>3, ListsKept DEF OtherClick, Disarm
<1>4. CASE SaveSettings
    BY <1>1, <1>4, ListSaved DEF SaveSettings, PointsInv, SelectedIsOpened
<1>5. ASSUME NEW index \in DOMAIN points, EditPoint(index)
      PROVE  PointsInv'
    <2>1. points[index] \in Point
        BY <1>1
    <2>2. opened' \in Opened /\ selected' \in Nat
        <3>1. opened' = [id |-> points[index].id, drained |-> FALSE] /\ selected' = index
            BY <1>5 DEF EditPoint
        <3>2. [id |-> points[index].id, drained |-> FALSE] \in Opened
            BY <2>1, ConstantsTyped
        <3> QED
            BY <1>1, <3>1, <3>2
    <2>3. SelectedIsOpened'
        BY <1>5 DEF EditPoint, SelectedIsOpened
    <2> QED
        BY <1>1, <1>5, <2>2, <2>3
           DEF EditPoint, Disarm, PointsInv, TypeOK, Opened, Armed, Unusable, file
<1>6. ASSUME NEW index \in DOMAIN points, DeletePoint(index)
      PROVE  PointsInv'
    BY <1>1, <1>6, PointRemoved, EditorReset, ListSaved DEF DeletePoint
<1>7. ASSUME NEW index \in DOMAIN points, TogglePoint(index)
      PROVE  PointsInv'
    <2>1. /\ points' \in Seq(Point) /\ DOMAIN points' = DOMAIN points
          /\ \A i \in DOMAIN points : points'[i].id = points[i].id
        BY <1>1, <1>7, PointToggled DEF TogglePoint
    <2>2. SelectedIsOpened'
        BY <1>7, <2>1 DEF TogglePoint, PointsInv, SelectedIsOpened
    <2> QED
        BY <1>1, <1>7, <2>1, <2>2, ListSaved DEF TogglePoint
<1>8. ASSUME NEW typed \in Typed, SaveNewPoint(typed)
      PROVE  PointsInv'
    <2>1. typed \in Point
        BY PointsArePoints
    <2>2. /\ points' \in Seq(Point) /\ selected' \in Nat /\ selected' \in DOMAIN points'
          /\ points'[selected'] = typed
        BY <1>1, <1>8, <2>1, AppendProperties DEF SaveNewPoint
    <2>3. opened' \in Opened /\ SelectedIsOpened'
        BY <1>8, <2>1, <2>2, ConstantsTyped DEF SaveNewPoint, SelectedIsOpened
    <2> QED
        BY <1>1, <1>8, <2>2, <2>3, ListSaved DEF SaveNewPoint
<1>9. ASSUME NEW typed \in Typed, SaveSelectedPoint(typed)
      PROVE  PointsInv'
    <2>1. typed \in Point
        BY PointsArePoints
    <2>2. /\ points' \in Seq(Point) /\ DOMAIN points' = DOMAIN points
          /\ selected \in DOMAIN points => points'[selected] = typed
        BY <1>1, <1>9, <2>1 DEF SaveSelectedPoint
    <2>3. opened' = [id |-> typed.id, drained |-> opened.drained]
        BY <1>1, <1>9 DEF SaveSelectedPoint, Opened
    <2>4. opened' \in Opened
        BY <1>1, <2>1, <2>3, ConstantsTyped DEF Opened
    <2>5. SelectedIsOpened'
        BY <1>9, <2>2, <2>3 DEF SaveSelectedPoint, PointsInv, SelectedIsOpened
    <2> QED
        BY <1>1, <1>9, <2>2, <2>4, <2>5, ListSaved DEF SaveSelectedPoint
<1> QED
    BY <1>2, <1>3, <1>4, <1>5, <1>6, <1>7, <1>8, <1>9 DEF Edits

LEMMA ScansTyped ==
    ASSUME PointsInv, ScanSteps
    PROVE  PointsInv'
<1>1. /\ points \in Seq(Point) /\ opened \in Opened /\ armed \in Armed /\ objects \in Nat
      /\ selected \in Nat /\ job \in [Jobs -> JobState]
      /\ disk \in [parses : BOOLEAN, points : Seq(Point)] /\ (disk.parses \/ disk = Unusable)
    BY DEF PointsInv, TypeOK, Opened, Armed, JobState
<1>2. [armed EXCEPT !.drained = armed.set] \in Armed
    BY <1>1 DEF Armed
<1>3. CASE Discover
    BY <1>1, <1>3, ConstantsTyped, ListsKept DEF Discover, Disarm
<1>4. ASSUME NEW j \in Jobs, StartScan(j, ObjectScan) \/ StartScan(j, ScanAll(points))
      PROVE  PointsInv'
    <2>1. job' \in [Jobs -> JobState]
        BY <1>1, <1>4, ConstantsTyped DEF StartScan
    <2> QED
        BY <1>1, <1>4, <2>1, ConstantsTyped, ListsKept DEF StartScan, Disarm
<1>5. ASSUME NEW j \in Jobs, ScanFails(j)
      PROVE  PointsInv'
    BY <1>1, <1>5, ConstantsTyped, ListsKept DEF ScanFails
<1>6. ASSUME NEW j \in Jobs, NEW count \in 0 .. MaxObjects, ObjectsDrained(j, count)
      PROVE  PointsInv'
    <2>1. objects' \in Nat /\ job' \in [Jobs -> JobState] /\ armed' \in Armed
        BY <1>1, <1>2, <1>6, ConstantsTyped, PointsAssumption DEF ObjectsDrained
    <2> QED
        BY <1>6, <2>1, ListsKept DEF ObjectsDrained
<1>7. ASSUME NEW j \in Jobs, NEW found \in Scans, ImportDrained(j, found)
      PROVE  PointsInv'
    <2>1. job[j].given \in Seq(Point)
        BY <1>1 DEF JobState
    <2>2. points' \in Seq(Point)
        BY <1>7, <2>1, ImportMerges DEF ImportDrained, ImportOutcome
    <2>3. SaveConfig(points') /\ selected' = selected
        BY <1>7 DEF ImportDrained
    <2>4. /\ disk' \in [parses : BOOLEAN, points : Seq(Point)]
          /\ (disk.parses \/ disk = Unusable)'
          /\ saved' \in BOOLEAN /\ located' \in BOOLEAN
        BY <1>1, <2>2, <2>3, SaveTyped DEF PointsInv, TypeOK
    <2>5. objects' \in Nat
        <3>1. found \in Seq(Point)
            BY PointsArePoints
        <3> QED
            BY <1>7, <3>1 DEF ImportDrained
    <2>6. job' \in [Jobs -> JobState] /\ armed' \in Armed
        BY <1>1, <1>2, <1>7, ConstantsTyped DEF ImportDrained, ListsReplaced
    <2>7. opened' = [opened EXCEPT !.drained = selected # None]
        BY <1>7 DEF ImportDrained, ListsReplaced
    <2>8. opened' \in Opened /\ opened'.drained = (selected # None)
        BY <1>1, <2>7 DEF Opened
    <2>9. SelectedIsOpened'
        BY <2>3, <2>8 DEF SelectedIsOpened
    <2> QED
        BY <1>1, <2>2, <2>3, <2>4, <2>5, <2>6, <2>8, <2>9
           DEF PointsInv, TypeOK, Opened, Armed, JobState
<1> QED
    BY <1>3, <1>4, <1>5, <1>6, <1>7 DEF ScanSteps

LEMMA StepTyped == PointsInv /\ [Next]_vars => PointsInv'
<1> SUFFICES ASSUME PointsInv, [Next]_vars
             PROVE  PointsInv'
    OBVIOUS
<1>1. /\ points \in Seq(Point) /\ opened \in Opened /\ armed \in Armed /\ objects \in Nat
      /\ selected \in Nat /\ job \in [Jobs -> JobState]
      /\ disk \in [parses : BOOLEAN, points : Seq(Point)]
    BY DEF PointsInv, TypeOK, Opened, Armed, JobState
<1>2. CASE ArmClear
    <2>1. armed' \in Armed
        BY <1>1, <1>2 DEF ArmClear, Armed
    <2> QED
        BY <1>1, <1>2, <2>1, ListsKept DEF ArmClear
<1>3. CASE Wipe
    <2>1. << >> \in Seq(Point)
        OBVIOUS
    <2> QED
        BY <1>3, <2>1, EditorReset, ListSaved DEF Wipe
<1>4. CASE Restart
    <2>1. points' \in Seq(Point) /\ located' \in BOOLEAN /\ saved' \in BOOLEAN
        <3>1. Load(disk) \in Seq(Point) /\ << >> \in Seq(Point)
            BY <1>1, LoadTyped
        <3> QED
            BY <1>4, <3>1, StartLoads DEF Restart
    <2>2. selected' \in Nat /\ opened' \in Opened /\ SelectedIsOpened'
        BY <1>4, EditorReset DEF Restart
    <2>3. job' \in [Jobs -> JobState] /\ armed' \in Armed
        BY <1>4, ConstantsTyped DEF Restart
    <2> QED
        BY <1>4, <2>1, <2>2, <2>3
           DEF Restart, PointsInv, TypeOK, Opened, Armed, JobState, Unusable
<1>5. CASE UNCHANGED vars
    BY <1>1, <1>5, ListsKept DEF vars
<1> QED
    BY <1>2, <1>3, <1>4, <1>5, EditsTyped, ScansTyped DEF Next

LEMMA PointsInvariant == Spec => []PointsInv
<1>1. Init => PointsInv
    BY InitPoints DEF PointsInv
<1> QED
    BY <1>1, StepTyped, PTL DEF Spec

\* Variables keep their shape.
THEOREM PointsTyped == Spec => []TypeOK
<1>1. PointsInv => TypeOK
    BY DEF PointsInv
<1> QED
    BY <1>1, PointsInvariant, PTL

\* The editor saves to the point it was opened on, wherever the list has been since,
\* unless a scan replaced the list.
THEOREM EditorOnItsPoint == Spec => []SelectedIsOpened
<1>1. PointsInv => SelectedIsOpened
    BY DEF PointsInv
<1> QED
    BY <1>1, PointsInvariant, PTL

\* A scan-all that was not overtaken by an edit drops, moves and disables no
\* configured point.
THEOREM ImportsKeepPoints == Spec => ImportKeepsPoints
<1>1. PointsInv =>
        [\A j \in Jobs, found \in Scans :
            ImportDrained(j, found) /\ job[j].given = points
              => /\ Len(points) <= Len(points')
                 /\ \A i \in DOMAIN points :
                       /\ points'[i].id = points[i].id
                       /\ points'[i].enabled = points[i].enabled]_vars
    <2> SUFFICES ASSUME PointsInv, NEW j \in Jobs, NEW found \in Scans,
                        ImportDrained(j, found), job[j].given = points
                 PROVE  /\ Len(points) <= Len(points')
                        /\ \A i \in DOMAIN points :
                              /\ points'[i].id = points[i].id
                              /\ points'[i].enabled = points[i].enabled
        OBVIOUS
    <2>1. points \in Seq(Point)
        BY DEF PointsInv, TypeOK
    <2>2. points' = Merge(points, found).points
        BY DEF ImportDrained, ImportOutcome
    <2> QED
        BY <2>1, <2>2, ImportMerges
<1> QED
    BY <1>1, PointsInvariant, PTL DEF ImportKeepsPoints
=============================================================================
