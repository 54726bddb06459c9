------------------------------ MODULE Console ------------------------------
(***************************************************************************)
(* The operator's console (src/app.rs) and the worker threads it spawns:   *)
(* republisher threads, which live by WorkerContract, and one-shot jobs    *)
(* (discovery, object scans, scan-all, poll-once).                         *)
(*                                                                         *)
(* Every thread sends its events over one FIFO channel.  The console       *)
(* collects what is queued every 250 ms and applies it event by event      *)
(* before it handles the next click.  Events carry no thread id, so the    *)
(* console must infer from their order whose they are.                     *)
(*                                                                         *)
(* The lists of points, objects, samples and failures some events carry    *)
(* are left out: nothing here depends on them.                             *)
(***************************************************************************)
EXTENDS WorkerEvents, Integers

CONSTANTS
    Runs,     \* republisher threads; one that ended may be spawned again
    Jobs,     \* one-shot threads, likewise
    NoRun,    \* no stop flag is held
    Backlog   \* bound: the operator does not click while this many events wait

ASSUME ConsoleAssumption ==
    /\ NoRun \notin Runs
    /\ Runs \cap Jobs = {}
    /\ Backlog \in Nat

VARIABLES
    ui,       \* what the console believes
    inbox,    \* collected events it has not applied yet
    chan,     \* the channel
    run,      \* per republisher thread, its phase and its stop flag
    job,      \* per one-shot thread, its kind and phase
    sending   \* per thread, the events it is about to send

vars == <<ui, inbox, chan, run, job, sending>>

Kinds == {"discover", "objectScan", "scanAll", "pollOnce"}
Threads == Runs \cup Jobs

UI == [state    : {"Starting", "Running", "Stopping", "Stopped", "Failed"},
       stop     : Runs \cup {NoRun},   \* republisher_stop
       working  : BOOLEAN,
       progress : BOOLEAN,             \* scan_progress is Some
       devices  : BOOLEAN]             \* the device list is not empty

\* republisher_active
Active == ui.state \in {"Starting", "Running", "Stopping"}

RunAlive(r) == run[r].phase \notin Ended
JobAlive(j) == job[j].phase \in {"spawned", "running"}
Lost(j) == job[j].phase = "lost"

\* Once a thread has ended, its kind and its stop flag are forgotten.
IdleJob(phase) == [kind |-> "discover", phase |-> phase]
EndedRun(phase) == [phase |-> phase, stop |-> FALSE]

FreeRun(r) == ~RunAlive(r) /\ sending[r] = << >>
FreeJob(j) == ~JobAlive(j) /\ ~Lost(j) /\ sending[j] = << >>

Init ==
    /\ ui = [state |-> "Stopped", stop |-> NoRun, working |-> FALSE,
             progress |-> FALSE, devices |-> FALSE]
    /\ inbox = << >>
    /\ chan = << >>
    /\ run = [r \in Runs |-> EndedRun("stopped")]
    /\ job = [j \in Jobs |-> IdleJob("done")]
    /\ sending = [t \in Threads |-> << >>]

-----------------------------------------------------------------------------
(* Clicks.  A click is handled between two drains, never inside one.       *)

Click == inbox = << >> /\ Len(chan) < Backlog

SpawnJob(kind) ==
    /\ \E j \in Jobs :
          /\ FreeJob(j)
          /\ job' = [job EXCEPT ![j] = [kind |-> kind, phase |-> "spawned"]]
    /\ UNCHANGED <<inbox, chan, run, sending>>

StartDiscovery ==
    /\ Click
    /\ SpawnJob("discover")
    /\ ui' = [ui EXCEPT !.working = TRUE, !.devices = FALSE]

\* Offered next to a discovered device.
StartObjectScan ==
    /\ Click
    /\ ui.devices
    /\ SpawnJob("objectScan")
    /\ ui' = [ui EXCEPT !.working = TRUE]

StartScanAll ==
    /\ Click
    /\ ~ui.working
    /\ ui.devices
    /\ SpawnJob("scanAll")
    /\ ui' = [ui EXCEPT !.working = TRUE, !.progress = TRUE]

\* The configuration is taken to be valid with at least one enabled point;
\* otherwise this click and the next one only change the status line.
StartPollOnce ==
    /\ Click
    /\ ~Active
    /\ SpawnJob("pollOnce")
    /\ ui' = [ui EXCEPT !.working = TRUE]

MayStartUnlessRunning == ui.state \notin {"Starting", "Running"}

MayStart == ~Active

StartRepublisher ==
    /\ Click
    /\ MayStart
    /\ \E r \in Runs :
          /\ FreeRun(r)
          /\ run' = [run EXCEPT ![r] = [phase |-> "spawned", stop |-> FALSE]]
          /\ ui' = [ui EXCEPT !.state = "Starting", !.stop = r]
    /\ UNCHANGED <<inbox, chan, job, sending>>

StopRepublisher ==
    /\ Click
    /\ ui.stop # NoRun
    /\ run' = [run EXCEPT ![ui.stop].stop = RunAlive(ui.stop)]
    /\ ui' = [ui EXCEPT !.state = "Stopping"]
    /\ UNCHANGED <<inbox, chan, job, sending>>

-----------------------------------------------------------------------------
(* Worker threads.  Between two sends anything else may happen.            *)

MoveRun(r, moves) ==
    /\ sending[r] = << >>
    /\ \E m \in MovesFrom(moves, run[r].phase, run[r].stop) :
          /\ run' = [run EXCEPT ![r] = IF m.to \in Ended THEN EndedRun(m.to)
                                       ELSE [@ EXCEPT !.phase = m.to]]
          /\ sending' = [sending EXCEPT ![r] = m.sends]
    /\ UNCHANGED <<ui, inbox, chan, job>>

RunProceeds(r) == MoveRun(r, OrdinaryMoves)
RunCrashes(r) == MoveRun(r, CrashMoves)

MoveJob(j, from, to, sends) ==
    /\ job[j].phase = from
    /\ sending[j] = << >>
    /\ job' = [job EXCEPT ![j] = IF to \in {"done", "lost"} THEN IdleJob(to)
                                 ELSE [@ EXCEPT !.phase = to]]
    /\ sending' = [sending EXCEPT ![j] = sends]
    /\ UNCHANGED <<ui, inbox, chan, run>>

JobStarts(j) ==
    MoveJob(j, "spawned", "running",
            IF job[j].kind = "scanAll" THEN << ScanProgress >> ELSE << >>)

\* run_async cannot build the runtime: it logs and returns; nobody looks at
\* the result of a one-shot job.
JobLost(j) == MoveJob(j, "spawned", "lost", << >>)

\* What a job reports at its end.
DiscoveryResults == { << DevicesFound(some), Finished >> : some \in BOOLEAN }
ScanAllResults == { << ScanProgress, DevicesFound(TRUE), Finished >> }

\* A failure, like a panic, is reported by Finished alone; so is, to the eyes of
\* this module, the end of an object scan or of a poll-once.
Results(kind) ==
    { << Finished >> }
    \cup (IF kind = "discover" THEN DiscoveryResults ELSE {})
    \cup (IF kind = "scanAll" THEN ScanAllResults ELSE {})

JobEnds(j) == \E sends \in Results(job[j].kind) : MoveJob(j, "running", "done", sends)

Send(t) ==
    /\ sending[t] # << >>
    /\ chan' = Append(chan, Head(sending[t]))
    /\ sending' = [sending EXCEPT ![t] = Tail(@)]
    /\ UNCHANGED <<ui, inbox, run, job>>

-----------------------------------------------------------------------------
(* drain_worker_events *)

Collect ==
    /\ inbox = << >>
    /\ chan # << >>
    /\ inbox' = chan
    /\ chan' = << >>
    /\ UNCHANGED <<ui, run, job, sending>>

ApplyLifecycleUnguarded(state) ==
    [ui EXCEPT !.state = state, !.stop = IF state \in {"Stopped", "Failed"} THEN NoRun ELSE @]

ApplyLifecycleKeepingFlag(state) ==
    IF ui.state = "Stopping" /\ state \in {"Starting", "Running"} THEN ui
    ELSE [ui EXCEPT !.state = state, !.stop = IF state = "Stopped" THEN NoRun ELSE @]

ApplyLifecycleReleasingEarly(state) ==
    IF ui.state = "Stopping" /\ state \in {"Starting", "Running"} THEN ui
    ELSE [ui EXCEPT !.state = state,
                    !.stop = IF state \in {"Stopping", "Stopped", "Failed"} THEN NoRun ELSE @]

\* apply_republisher_lifecycle: what was sent before the stop request was seen
\* does not take the console back out of Stopping.
ApplyLifecycle(state) ==
    IF ui.state = "Stopping" /\ state \in {"Starting", "Running"} THEN ui
    ELSE [ui EXCEPT !.state = state,
                    !.stop = IF state \in {"Stopped", "Failed"} THEN NoRun ELSE @]

Applied(event) ==
    CASE event.kind = "lifecycle" -> ApplyLifecycle(event.state)
      [] event.kind = "finished"  -> [ui EXCEPT !.working = FALSE, !.progress = FALSE]
      [] event.kind = "progress"  -> [ui EXCEPT !.progress = TRUE]
      [] event.kind = "devices"   -> [ui EXCEPT !.devices = event.some]

Apply ==
    /\ inbox # << >>
    /\ ui' = Applied(Head(inbox))
    /\ inbox' = Tail(inbox)
    /\ UNCHANGED <<chan, run, job, sending>>

-----------------------------------------------------------------------------
Operator ==
    \/ StartDiscovery
    \/ StartObjectScan
    \/ StartScanAll
    \/ StartPollOnce
    \/ StartRepublisher
    \/ StopRepublisher

JobStep(j) ==
    \/ JobStarts(j)
    \/ JobLost(j)
    \/ JobEnds(j)

Next ==
    \/ Operator
    \/ \E r \in Runs : RunProceeds(r) \/ RunCrashes(r)
    \/ \E j \in Jobs : JobStep(j)
    \/ \E t \in Threads : Send(t)
    \/ Collect
    \/ Apply

Spec == Init /\ [][Next]_vars

\* Threads go on, the drain timer fires; nobody has to click or to crash.
FairSpec ==
    /\ Spec
    /\ \A r \in Runs : WF_vars(RunProceeds(r))
    /\ \A j \in Jobs : WF_vars(JobStep(j))
    /\ \A t \in Threads : WF_vars(Send(t))
    /\ WF_vars(Collect)
    /\ WF_vars(Apply)

-----------------------------------------------------------------------------
(* Properties *)

\* Every variable keeps its shape; a stop flag is held exactly while the
\* console counts a republisher as active.
TypeOK ==
    /\ ui \in UI
    /\ Active <=> ui.stop # NoRun
    /\ run \in [Runs -> [phase : Phases, stop : BOOLEAN]]
    /\ job \in [Jobs -> [kind : Kinds, phase : {"spawned", "running", "done", "lost"}]]
    /\ DOMAIN sending = Threads

\* At most one republisher polls: two would read every device and publish every
\* sample twice.  The console only knows what the events told it.
OneRepublisher ==
    \A q, r \in Runs : RunAlive(q) /\ RunAlive(r) => q = r

\* The stop flag the console holds is the one of the running republisher:
\* whatever runs can be stopped, also while old events are still queued.
StoppableWhileAlive ==
    \A r \in Runs : RunAlive(r) => ui.stop = r /\ Active

\* After a click on Stop, events sent before the thread saw the flag never make
\* the console show the republisher as starting or running again.
StoppingStays ==
    [][ui.state = "Stopping" => ui'.state \in {"Stopping", "Stopped", "Failed"}]_vars

\* A start is answered: Starting does not stay on the screen for ever.
StartSettles == ui.state = "Starting" ~> ui.state # "Starting"

\* A stop is answered: the console learns that the republisher has ended.
StopSettles == ui.state = "Stopping" ~> ui.state \in {"Stopped", "Failed"}

\* The busy flag and the progress bar of a job go away again, unless a thread
\* ended without a word.
BusyEnds ==
    (ui.working \/ ui.progress) ~>
        ((~ui.working /\ ~ui.progress) \/ \E j \in Jobs : Lost(j))

\* Whatever the console says is going on comes to an end.
EverythingSettles == StartSettles /\ StopSettles /\ BusyEnds
=============================================================================
