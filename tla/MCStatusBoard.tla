--------------------------- MODULE MCStatusBoard ---------------------------
(***************************************************************************)
(* Instance of StatusBoard for TLC: points of different identities on      *)
(* different devices, which are interchangeable.                           *)
(***************************************************************************)
EXTENDS StatusBoard, TLC

CONSTANTS p, q

MCPoints == {p, q}
MCIdentityOf == [x \in MCPoints |-> x]
MCDeviceOf == [x \in MCPoints |-> x]

Interchangeable == Permutations(MCPoints)
=============================================================================
