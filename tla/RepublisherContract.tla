------------------------ MODULE RepublisherContract ------------------------
(***************************************************************************)
(* The detailed worker implements the contract the console relies on.  The *)
(* refinement mapping forgets everything but the phase of the thread and   *)
(* the control events of its last step.                                    *)
(***************************************************************************)
EXTENDS Republisher

\* The phase of the contract for each place of the worker.
PhaseOf(place) ==
    IF place = "connect" THEN "starting"
    ELSE IF place \in Running \cup {"initialRefresh", "select"} THEN "running"
    ELSE place

\* A step sends control events or reports about points, never both.
ControlEvents == IF out # << >> /\ IsControl(out[1]) THEN out ELSE << >>

Contract == INSTANCE WorkerContract
    WITH phase <- PhaseOf(pc), stop <- stop, out <- ControlEvents

\* Every step of spawn_republisher is a step of the contract: events are sent
\* once and in order, and Stopping is announced only after a stop request.
ImplementsContract == Contract!Spec

\* With the fairness of the worker the contract's own fairness follows.
ImplementsFairContract == Contract!FairSpec
=============================================================================
