----------------------------- MODULE PointStore -----------------------------
(***************************************************************************)
(* The list of configured points (src/app.rs), edited by the operator,     *)
(* replaced by the outcome of a scan-all that started from an older copy   *)
(* of it (src/worker.rs), and kept in the configuration file               *)
(* (src/config.rs).                                                        *)
(*                                                                         *)
(* The operator's actions and the drain of the event channel are handled   *)
(* one at a time by the thread of the user interface; a scan runs beside.  *)
(***************************************************************************)
EXTENDS ImportMerge

CONSTANTS
    Typed,      \* the points the operator enters in the editor
    Scans,      \* what a scan-all may find: sequences of points
    Jobs,       \* scans that may be under way at a time
    MaxPoints,  \* bound: points are added and scans given lists up to this length
    MaxObjects  \* bound: objects an object scan finds

KnownPoints == Typed \cup UNION { ToSet(found) : found \in Scans }

Point == [id : { p.id : p \in KnownPoints }, tag : { p.tag : p \in KnownPoints },
          label : { p.label : p \in KnownPoints }, enabled : BOOLEAN]

\* Points have these fields, and a scan finds a list of them.
ASSUME PointsAssumption ==
    /\ KnownPoints \subseteq Point
    /\ \A found \in Scans : found \in Seq(KnownPoints)
    /\ MaxObjects \in Nat

VARIABLES
    points,     \* config.points
    selected,   \* selected_point: the index the editor will save to, or None
    opened,     \* the point the editor was opened on, and whether events that
                \* replace lists were drained since (history)
    objects,    \* scanned_objects.len()
    armed,      \* clear_points_armed, with the numbers the message announced
                \* and whether lists were replaced since (history)
    job,        \* what each scan is, and the points it was given
    disk,       \* the configuration file
    located,    \* whether the path of the file was found at the start
    saved       \* the file was loaded at the start, and the last save since, if any,
                \* was to it and succeeded (history)

file == << disk, located, saved >>
vars == << points, selected, opened, objects, armed, job, file >>

None == 0
NothingOpened == [id |-> Blank, drained |-> FALSE]
NotArmed == [set |-> FALSE, points |-> 0, objects |-> 0, drained |-> FALSE]

Idle == [kind |-> "idle", given |-> << >>]
ObjectScan == [kind |-> "objects", given |-> << >>]
ScanAll(given) == [kind |-> "all", given |-> given]

Intact(list) == [parses |-> TRUE, points |-> list]
\* No file, or one that was cut short.  "ui" has no default and is written after
\* the points, so a shortened file never parses as a shorter list.
Unusable == [parses |-> FALSE, points |-> << >>]

\* load_from_path: whatever goes wrong, the defaults, which have no points.
Load(content) == IF content.parses THEN content.points ELSE << >>

\* load_or_default: what the file says; or the defaults, if it cannot be read this time,
\* intact as it may be, or its path is not found.
LoadOrDefault(content) ==
    { [points |-> Load(content), located |-> TRUE, saved |-> TRUE] }
      \cup { [points |-> << >>, located |-> found, saved |-> FALSE] : found \in BOOLEAN }

SaveConfigTorn(list) ==
    /\ \/ located /\ disk' = Intact(list) /\ saved' = TRUE
       \/ disk' \in {disk, [Unusable EXCEPT !.points = list]} /\ saved' = FALSE
    /\ UNCHANGED located

\* save_config_with_status: the file is written in place.  The write may fail
\* before the file is opened, or after it was truncated.  Without a path, another
\* file is written, which no start reads.
SaveConfig(list) ==
    /\ \/ located /\ disk' = Intact(list) /\ saved' = TRUE
       \/ disk' \in {disk} \cup (IF located THEN {Unusable} ELSE {}) /\ saved' = FALSE
    /\ UNCHANGED located

KeepArmed == armed' = armed

\* update: every message but a press of "clear all" and the drain disarms it.
Disarm == armed' = NotArmed

\* PointEditor::new() in the editor, for no point of the list.
ResetEditor == selected' = None /\ opened' = NothingOpened

-----------------------------------------------------------------------------
Init ==
    /\ disk \in {Unusable} \cup { Intact(<< point >>) : point \in Typed }
    /\ \E start \in LoadOrDefault(disk) :
          points = start.points /\ located = start.located /\ saved = start.saved
    /\ selected = None
    /\ opened = NothingOpened
    /\ objects = 0
    /\ armed = NotArmed
    /\ job = [j \in Jobs |-> Idle]

\* add_object_as_point fills the editor with a point that is in no list yet;
\* "New point" with a default one.
NewPoint ==
    /\ Disarm /\ ResetEditor
    /\ UNCHANGED << points, objects, job, file >>

EditPoint(index) ==
    /\ index \in DOMAIN points
    /\ selected' = index
    /\ opened' = [id |-> points[index].id, drained |-> FALSE]
    /\ Disarm
    /\ UNCHANGED << points, objects, job, file >>

\* "Save point" with nothing selected: the new point is appended and selected.
SaveNewPoint(typed) ==
    /\ selected = None
    /\ Len(points) < MaxPoints
    /\ points' = Append(points, typed)
    /\ selected' = Len(points) + 1
    /\ opened' = [id |-> typed.id, drained |-> FALSE]
    /\ SaveConfig(points')
    /\ Disarm
    /\ UNCHANGED << objects, job >>

\* "Save point" over the selected index, which the list may not have any more:
\* then nothing but the unchanged list is saved.
SaveSelectedPoint(typed) ==
    /\ selected # None
    /\ points' = IF selected \in DOMAIN points
                 THEN [points EXCEPT ![selected] = typed] ELSE points
    /\ opened' = [opened EXCEPT !.id = typed.id]
    /\ SaveConfig(points')
    /\ Disarm
    /\ UNCHANGED << selected, objects, job >>

\* Any other click, a save the editor refuses or a scan refused as another one
\* is under way included.
OtherClick ==
    /\ Disarm
    /\ UNCHANGED << points, selected, opened, objects, job, file >>

DeletePointOnly(index) ==
    /\ index \in DOMAIN points
    /\ points' = RemoveAt(points, index)
    /\ SaveConfig(points')
    /\ Disarm
    /\ UNCHANGED << selected, opened, objects, job >>

DeletePoint(index) ==
    /\ index \in DOMAIN points
    /\ points' = RemoveAt(points, index)
    /\ ResetEditor
    /\ SaveConfig(points')
    /\ Disarm
    /\ UNCHANGED << objects, job >>

TogglePointUnsaved(index) ==
    /\ index \in DOMAIN points
    /\ points' = [points EXCEPT ![index].enabled = ~@]
    /\ Disarm
    /\ UNCHANGED << selected, opened, objects, job, file >>

TogglePoint(index) ==
    /\ index \in DOMAIN points
    /\ points' = [points EXCEPT ![index].enabled = ~@]
    /\ SaveConfig(points')
    /\ Disarm
    /\ UNCHANGED << selected, opened, objects, job >>

\* The theme, the interface and the settings form save the whole configuration.
SaveSettings ==
    /\ SaveConfig(points)
    /\ Disarm
    /\ UNCHANGED << points, selected, opened, objects, job >>

-----------------------------------------------------------------------------
(* Clear all: the first press arms, the second wipes.  The button is only  *)
(* there when one of the lists has something in it.                        *)

SomethingToClear == Len(points) > 0 \/ objects > 0

ArmClear ==
    /\ SomethingToClear
    /\ ~armed.set
    /\ armed' = [set |-> TRUE, points |-> Len(points), objects |-> objects,
                 drained |-> FALSE]
    /\ UNCHANGED << points, selected, opened, objects, job, file >>

Wipe ==
    /\ SomethingToClear
    /\ armed.set
    /\ points' = << >>
    /\ objects' = 0
    /\ ResetEditor
    /\ Disarm
    /\ SaveConfig(points')
    /\ UNCHANGED job

-----------------------------------------------------------------------------
(* Scans.  Starting one is a click; its outcome comes with the drain, which *)
(* neither disarms nor touches the editor.                                  *)

StartScan(j, scan) ==
    /\ job[j] = Idle
    /\ Len(scan.given) <= MaxPoints
    /\ job' = [job EXCEPT ![j] = scan]
    /\ objects' = 0
    /\ Disarm
    /\ UNCHANGED << points, selected, opened, file >>

\* start_discovery clears the objects too.
Discover ==
    /\ objects' = 0
    /\ Disarm
    /\ UNCHANGED << points, selected, opened, job, file >>

\* What the operator was shown before may have changed under the operator.
ListsReplaced ==
    /\ armed' = [armed EXCEPT !.drained = armed.set]
    /\ opened' = [opened EXCEPT !.drained = selected # None]

\* The Objects event of an object scan.
ObjectsDrained(j, count) ==
    /\ job[j].kind = "objects"
    /\ objects' = count
    /\ job' = [job EXCEPT ![j] = Idle]
    /\ armed' = [armed EXCEPT !.drained = armed.set]
    /\ UNCHANGED << points, selected, opened, file >>

\* A scan that fails, or whose thread panics, reports no list.
ScanFails(j) ==
    /\ job[j] # Idle
    /\ job' = [job EXCEPT ![j] = Idle]
    /\ UNCHANGED << points, selected, opened, objects, armed, file >>

ImportOutcome(j, found) == Merge(job[j].given, found)

\* The BulkTagImport event: the list becomes what the scan made of the list it
\* was given.
ImportDrained(j, found) ==
    /\ job[j].kind = "all"
    /\ points' = ImportOutcome(j, found).points
    /\ objects' = Len(found)
    /\ job' = [job EXCEPT ![j] = Idle]
    /\ ListsReplaced
    /\ SaveConfig(points')
    /\ UNCHANGED selected

-----------------------------------------------------------------------------
\* The process ends, by a crash or by closing the window, and starts again.
\* Dying within a save is a save that fails, then this.
Restart ==
    /\ \E start \in LoadOrDefault(disk) :
          points' = start.points /\ located' = start.located /\ saved' = start.saved
    /\ ResetEditor
    /\ objects' = 0
    /\ armed' = NotArmed
    /\ job' = [j \in Jobs |-> Idle]
    /\ UNCHANGED disk

Edits ==
    \/ NewPoint \/ OtherClick \/ SaveSettings
    \/ \E index \in DOMAIN points : EditPoint(index) \/ DeletePoint(index) \/ TogglePoint(index)
    \/ \E typed \in Typed : SaveNewPoint(typed) \/ SaveSelectedPoint(typed)

ScanSteps ==
    \/ Discover
    \/ \E j \in Jobs :
        \/ StartScan(j, ObjectScan) \/ StartScan(j, ScanAll(points))
        \/ ScanFails(j)
        \/ \E count \in 0..MaxObjects : ObjectsDrained(j, count)
        \/ \E found \in Scans : ImportDrained(j, found)

Next == Edits \/ ArmClear \/ Wipe \/ ScanSteps \/ Restart

Spec == Init /\ [][Next]_vars

-----------------------------------------------------------------------------
\* The domains of the variables; a file that does not parse has no points.
TypeOK ==
    /\ points \in Seq(Point)
    /\ selected \in Nat
    /\ opened \in [id : { p.id : p \in KnownPoints } \cup {Blank}, drained : BOOLEAN]
    /\ objects \in Nat
    /\ armed \in [set : BOOLEAN, points : Nat, objects : Nat, drained : BOOLEAN]
    /\ job \in [Jobs -> [kind : {"idle", "objects", "all"}, given : Seq(Point)]]
    /\ disk \in [parses : BOOLEAN, points : Seq(Point)]
    /\ disk.parses \/ disk = Unusable
    /\ located \in BOOLEAN /\ saved \in BOOLEAN

\* What was saved is what a start loads: if the file was loaded and no save failed since,
\* the list the operator sees is the one in the file.
SavedIsLoaded == saved => Load(disk) = points

\* A restart at any point, also in the middle of a scan or with a wipe pending,
\* loses no edit of the list unless a save failed, or one of the two starts did not
\* load the file (save_config_with_status after each edit, load_or_default).
RestartKeepsPoints == [][Restart /\ saved /\ saved' => points' = points]_vars

\* selected_point is an index into a list that shrinks and grows: unless a scan
\* replaced the list since the editor was opened, it is the index of the point
\* the editor was opened on.
SelectedIsOpened ==
    selected # None /\ ~opened.drained
        => selected \in DOMAIN points /\ points[selected].id = opened.id

\* The second press of "clear all" removes what the first one announced, unless
\* events replaced a list in between: every other action of the operator
\* cancels (update in src/app.rs).
ArmedIsCurrent ==
    armed.set /\ ~armed.drained => armed.points = Len(points) /\ armed.objects = objects

\* A scan-all that was not overtaken by an edit keeps every configured point at
\* its place, with its identity and its enabled flag (merge_imported_points).
ImportKeepsPoints ==
    [][\A j \in Jobs, found \in Scans :
          ImportDrained(j, found) /\ job[j].given = points
            => /\ Len(points) <= Len(points')
               /\ \A i \in DOMAIN points :
                     /\ points'[i].id = points[i].id
                     /\ points'[i].enabled = points[i].enabled]_vars

-----------------------------------------------------------------------------
(* What the repository says of these steps, see the README. *)

\* "{added} point(s) added" of the message that ends a scan-all.
ImportAsReported ==
    [][\A j \in Jobs, found \in Scans :
          ImportDrained(j, found)
            => Len(points') = Len(points) + ImportOutcome(j, found).added]_vars
=============================================================================
