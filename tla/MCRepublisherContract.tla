------------------------ MODULE MCRepublisherContract ------------------------
(***************************************************************************)
(* Instances of RepublisherContract for TLC: the small configurations of   *)
(* MCRepublisher, checked against the abstract contract.                   *)
(***************************************************************************)
EXTENDS RepublisherContract, MCRepublisher
==============================================================================
