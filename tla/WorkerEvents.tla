---------------------------- MODULE WorkerEvents ----------------------------
(***************************************************************************)
(* The events worker threads send to the console over one FIFO channel     *)
(* (WorkerEvent in src/worker.rs; log lines are left out), and the life of *)
(* a republisher thread as those events show it.                           *)
(***************************************************************************)
EXTENDS Sequences

Lifecycle(state) == [kind |-> "lifecycle", state |-> state]
Finished         == [kind |-> "finished"]
Failures(ps)     == [kind |-> "failures", points |-> ps]
Samples(ps)      == [kind |-> "samples", points |-> ps]
PublishStatus(failed) == [kind |-> "publish", failed |-> failed]
ScanProgress     == [kind |-> "progress"]
\* A list of devices, of which only matters whether it is empty.
DevicesFound(some) == [kind |-> "devices", some |-> some]

\* The events that tell the console where a thread is in its life.
IsControl(event) == event.kind \in {"lifecycle", "finished"}

-----------------------------------------------------------------------------
(* The life of a republisher thread *)

Phases == {"spawned", "starting", "running", "stopping", "stopped", "failed"}
Ended == {"stopped", "failed"}

Move(from, to, sends) == [from |-> from, to |-> to, sends |-> sends]

\* What a thread does when nothing panics: run_async may fail to build its
\* runtime, the MQTT publisher and the BACnet client may fail to start, and the
\* loop ends when the stop flag is seen.
OrdinaryMoves ==
    { Move("spawned",  "starting", << Lifecycle("Starting") >>),
      Move("spawned",  "failed",   << Lifecycle("Failed") >>),
      Move("spawned",  "failed",   << Lifecycle("Starting"), Lifecycle("Failed") >>),
      Move("starting", "running",  << Lifecycle("Running") >>),
      Move("starting", "failed",   << Lifecycle("Failed") >>),
      Move("running",  "stopping", << Lifecycle("Stopping") >>),
      Move("stopping", "stopped",  << Lifecycle("Stopped"), Finished >>) }

CrashMovesFinishedOnly ==
    { Move(from, "failed", << Finished >>) : from \in {"starting", "running", "stopping"} }

\* A panic is caught by run_async, which reports Finished; spawn_republisher
\* then reports Failed because the future did not complete.
CrashMoves ==
    { Move(from, "failed", << Finished, Lifecycle("Failed") >>) :
        from \in {"starting", "running", "stopping"} }

\* The moves of a thread in this phase, given its stop flag.
MovesFrom(moves, phase, stop) ==
    { m \in moves : m.from = phase /\ (m.to = "stopping" => stop) }
=============================================================================
