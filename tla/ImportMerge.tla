---------------------------- MODULE ImportMerge ----------------------------
(***************************************************************************)
(* merge_imported_points (src/import.rs): the points a scan-all found are  *)
(* merged into the configured ones.  A point is what the merge and the     *)
(* point list tell apart: its identity (device, object and property), its  *)
(* tag path, its device label and whether it is enabled.                   *)
(***************************************************************************)
EXTENDS Naturals, Sequences, SequencesExt

CONSTANT Blank  \* a tag path or a label of nothing but white space

FirstOfIdentity(points, id) == SelectInSeq(points, LAMBDA point : point.id = id)

\* Where index_by_id finds the identity: the last point that has it, or 0.
IndexOfIdentity(points, id) == SelectLastInSeq(points, LAMBDA point : point.id = id)

UpdatedWhole(point, found) == found

\* What an imported point changes in the configured one: the two texts, never
\* the point's identity, its interval or whether it is enabled.
Updated(point, found) ==
    [point EXCEPT !.tag = IF found.tag = Blank THEN @ ELSE found.tag,
                  !.label = IF found.label = Blank THEN @ ELSE found.label]

Counted(condition) == IF condition THEN 1 ELSE 0

MergeOne(merge, found) ==
    LET index == IndexOfIdentity(merge.points, found.id)
    IN  IF index = 0
        THEN [merge EXCEPT !.points = Append(@, found), !.added = @ + 1]
        ELSE LET point == merge.points[index]
             IN  [merge EXCEPT !.points[index] = Updated(point, found),
                               !.updated = @ + Counted(Updated(point, found) # point)]

Merge(existing, imported) ==
    FoldLeft(MergeOne, [points |-> existing, added |-> 0, updated |-> 0], imported)
=============================================================================
