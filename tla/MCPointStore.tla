---------------------------- MODULE MCPointStore ----------------------------
(***************************************************************************)
(* An instance of PointStore for TLC: the operator adds the points of one  *)
(* identity, scans find these and others.  All texts are the same here:    *)
(* what the merge does with them is checked in Algorithms.                 *)
(***************************************************************************)
EXTENDS PointStore

CONSTANTS a, b, text

Seen(id) == [id |-> id, tag |-> text, label |-> text, enabled |-> TRUE]

MCTyped == { Seen(a) }
MCScans == { << >>, << Seen(b) >>, << Seen(b), Seen(a) >> }
=============================================================================
