---------------------------- MODULE OneShotJobs ----------------------------
(***************************************************************************)
(* The one-shot jobs together: a behaviour is that of one job that talks   *)
(* to devices (DeviceJobs) or that of one discovery (Discovery), while the *)
(* other one stays as it is.  They run in threads of their own, each with  *)
(* clients of its own, and share nothing.                                  *)
(***************************************************************************)
EXTENDS DeviceJobs

CONSTANTS
    Interfaces,     \* of a discovery
    BroadcastPasses \* DISCOVERY_BROADCAST_PASSES

VARIABLES
    discovers, \* it is a discovery
    stage, strict, untried, on, round, anySent, heardHere, found, bound, warned, heard, broadcasts

discovery == <<stage, strict, untried, on, round, anySent, heardHere, found, bound,
               warned, heard, broadcasts>>

D == INSTANCE Discovery WITH Passes <- BroadcastPasses, left <- untried, asked <- broadcasts

ASSUME DiscoveryBounds == D!DiscoveryAssumption

\* Which job it is does not matter to a discovery.
SomeJob == kind = "objectScan" /\ devices = {CHOOSE d \in Devices : TRUE}

OneShotInit ==
    /\ discovers \in BOOLEAN
    /\ Init
    /\ D!Init
    /\ discovers => SomeJob
    /\ ~discovers => strict

OneShotNext ==
    /\ UNCHANGED discovers
    /\ \/ discovers /\ D!Next /\ UNCHANGED vars
       \/ ~discovers /\ Next /\ UNCHANGED discovery

OneShotSpec ==
    /\ OneShotInit
    /\ [][OneShotNext]_<<vars, discovery, discovers>>
    /\ WF_vars(~discovers /\ Job /\ UNCHANGED <<discovery, discovers>>)
    /\ WF_discovery(discovers /\ D!Step /\ UNCHANGED <<vars, discovers>>)

-----------------------------------------------------------------------------
(* The properties of both *)

\* The shapes of all variables.
BothTypeOK == TypeOK /\ D!TypeOK

\* What was heard is reported, and the two policies keep their promise: see
\* HeardIsReported and PolicyKept of Discovery.
DiscoveryHonest == D!HeardIsReported /\ D!PolicyKept

\* The one that runs ends.
AllEnd == IF discovers THEN <>(stage \in {"done", "failed"}) ELSE JobEnds
=============================================================================
