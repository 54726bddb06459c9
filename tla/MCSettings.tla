----------------------------- MODULE MCSettings -----------------------------
(***************************************************************************)
(* Instance of Settings for TLC, with the pure parts of the program: a     *)
(* behaviour is about the settings, or is the computation of one result,   *)
(* while the rest stays as it is.                                          *)
(***************************************************************************)
EXTENDS Settings, Algorithms

VARIABLE aboutSettings

MCOld == {2}

MCInit ==
    /\ aboutSettings \in BOOLEAN
    /\ Init
    /\ IF aboutSettings
       THEN input = [of |-> "nothing"] /\ output = NotYet
       ELSE disk = NoFile /\ saved /\ AlgorithmInit

MCNext ==
    /\ \/ aboutSettings /\ Next /\ UNCHANGED algorithm
       \/ ~aboutSettings /\ AlgorithmNext /\ UNCHANGED vars
    /\ UNCHANGED aboutSettings

MCSpec == MCInit /\ [][MCNext]_<<vars, algorithm, aboutSettings>>
=============================================================================
