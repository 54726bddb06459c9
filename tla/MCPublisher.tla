---------------------------- MODULE MCPublisher ----------------------------
(***************************************************************************)
(* Instances of Publisher for TLC; the .cfg files give the numbers.        *)
(***************************************************************************)
EXTENDS Publisher
=============================================================================
