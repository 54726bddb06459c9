---------------------------- MODULE MCDeviceJobs ----------------------------
(***************************************************************************)
(* Instance of OneShotJobs for TLC.                                        *)
(***************************************************************************)
EXTENDS OneShotJobs

MCPoints == 1 .. 3
MCDeviceOf == [p \in MCPoints |-> IF p < 3 THEN 1 ELSE 3]
=============================================================================
