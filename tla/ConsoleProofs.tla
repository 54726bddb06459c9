---------------------------- MODULE ConsoleProofs ----------------------------
(***************************************************************************)
(* Proofs about Console: for any number of threads and any backlog, no two *)
(* republishers are alive at once, and the one that is can be stopped.     *)
(*                                                                         *)
(* The console may start a republisher once it has applied a Stopped or    *)
(* Failed.  That this is safe rests on where such a last word may be: it   *)
(* is under way exactly when the thread the console holds the flag of has  *)
(* ended, it is the last thing the thread says of its life, and when       *)
(* no flag is held nothing is under way at all.                            *)
(***************************************************************************)
EXTENDS Console, SequenceTheorems, TLAPS

States == {"Starting", "Running", "Stopping", "Stopped", "Failed"}

Event ==
    { Lifecycle(s) : s \in States }
    \cup {Finished, ScanProgress}
    \cup { DevicesFound(some) : some \in BOOLEAN }

OfLife(event) == event.kind = "lifecycle"
LastWord(event) == OfLife(event) /\ event.state \in {"Stopped", "Failed"}

Silent(queue) == \A i \in DOMAIN queue : ~OfLife(queue[i])
SaysEnd(queue) == \E i \in DOMAIN queue : LastWord(queue[i])

\* After a last word there is none about the same life.
EndIsLast(queue) ==
    \A i, k \in DOMAIN queue : LastWord(queue[i]) /\ i < k => ~OfLife(queue[k])

Typed ==
    /\ ui \in UI
    /\ run \in [Runs -> [phase : Phases, stop : BOOLEAN]]
    /\ job \in [Jobs -> [kind : Kinds, phase : {"spawned", "running", "done", "lost"}]]
    /\ inbox \in Seq(Event)
    /\ chan \in Seq(Event)
    /\ sending \in [Threads -> Seq(Event)]

\* An end is under way, in any of the queues.
EndUnderWay == SaysEnd(inbox) \/ SaysEnd(chan) \/ \E t \in Threads : SaysEnd(sending[t])

Ordered ==
    /\ EndIsLast(inbox)
    /\ EndIsLast(chan)
    /\ \A t \in Threads : EndIsLast(sending[t])
    /\ SaysEnd(inbox) => Silent(chan) /\ \A t \in Threads : Silent(sending[t])
    /\ SaysEnd(chan) => \A t \in Threads : Silent(sending[t])

\* Only the thread whose flag is held speaks of its life or is alive, and it is alive
\* until its end is under way.
Attributed ==
    /\ \A t \in Threads \ (Runs \cap {ui.stop}) : Silent(sending[t])
    /\ \A r \in Runs : RunAlive(r) => ui.stop = r
    /\ ui.stop = NoRun => Silent(inbox) /\ Silent(chan)
    /\ ui.stop # NoRun => (EndUnderWay <=> ~RunAlive(ui.stop))

IInv ==
    /\ Typed
    /\ Active <=> ui.stop # NoRun
    /\ Ordered
    /\ Attributed

-----------------------------------------------------------------------------
(* Events and queues *)

LEMMA EventFacts ==
    /\ \A s \in States : /\ Lifecycle(s) \in Event /\ OfLife(Lifecycle(s))
                         /\ LastWord(Lifecycle(s)) <=> s \in {"Stopped", "Failed"}
    /\ Finished \in Event /\ ~OfLife(Finished)
    /\ ScanProgress \in Event /\ ~OfLife(ScanProgress)
    /\ \A some \in BOOLEAN : DevicesFound(some) \in Event /\ ~OfLife(DevicesFound(some))
    /\ \A event \in Event : OfLife(event) => event.state \in States
<1>1. ASSUME NEW s \in States
      PROVE  /\ Lifecycle(s) \in Event /\ OfLife(Lifecycle(s))
             /\ LastWord(Lifecycle(s)) <=> s \in {"Stopped", "Failed"}
    <2>1. Lifecycle(s).kind = "lifecycle" /\ Lifecycle(s).state = s
        BY DEF Lifecycle
    <2> QED
        BY <2>1 DEF Event, OfLife, LastWord
<1>2. /\ Finished \in Event /\ ~OfLife(Finished)
      /\ ScanProgress \in Event /\ ~OfLife(ScanProgress)
    BY DEF Event, OfLife, Finished, ScanProgress
<1>3. ASSUME NEW some \in BOOLEAN
      PROVE  DevicesFound(some) \in Event /\ ~OfLife(DevicesFound(some))
    <2>1. DevicesFound(some).kind = "devices"
        BY DEF DevicesFound
    <2> QED
        BY <2>1 DEF Event, OfLife
<1>4. ASSUME NEW event \in Event, OfLife(event)
      PROVE  event.state \in States
    <2>1. PICK s \in States : event = Lifecycle(s)
        BY <1>2, <1>3, <1>4 DEF Event
    <2> QED
        BY <2>1 DEF Lifecycle
<1> QED
    BY <1>1, <1>2, <1>3, <1>4

LEMMA EmptyQueue ==
    /\ << >> \in Seq(Event)
    /\ Silent(<< >>) /\ EndIsLast(<< >>) /\ ~SaysEnd(<< >>)
BY DEF Silent, EndIsLast, SaysEnd

\* The first event leaves a queue.
LEMMA TailFacts ==
    ASSUME NEW queue \in Seq(Event), queue # << >>, EndIsLast(queue)
    PROVE  /\ Head(queue) \in Event
           /\ Tail(queue) \in Seq(Event)
           /\ EndIsLast(Tail(queue))
           /\ Silent(queue) => ~OfLife(Head(queue)) /\ Silent(Tail(queue))
           /\ LastWord(Head(queue)) => Silent(Tail(queue))
           /\ SaysEnd(queue) <=> LastWord(Head(queue)) \/ SaysEnd(Tail(queue))
<1>1. /\ Head(queue) = queue[1] /\ 1 \in DOMAIN queue
      /\ DOMAIN queue = 1 .. Len(queue)
      /\ Len(queue) \in Nat \ {0}
    OBVIOUS
<1>2. /\ Tail(queue) \in Seq(Event)
      /\ DOMAIN Tail(queue) = 1 .. Len(queue) - 1
      /\ \A i \in 1 .. Len(queue) - 1 : Tail(queue)[i] = queue[i + 1]
    BY <1>1
<1>3. \A i \in DOMAIN queue : i = 1 \/ (i - 1 \in DOMAIN Tail(queue) /\ queue[i] = Tail(queue)[i - 1])
    BY <1>1, <1>2
<1>4. \A i \in DOMAIN Tail(queue) : i + 1 \in DOMAIN queue /\ i + 1 > 1 /\ Tail(queue)[i] = queue[i + 1]
    BY <1>1, <1>2
<1>5. EndIsLast(Tail(queue))
    BY <1>1, <1>2, <1>4 DEF EndIsLast
<1>6. LastWord(Head(queue)) => Silent(Tail(queue))
    BY <1>1, <1>2, <1>4 DEF EndIsLast, Silent
<1>7. SaysEnd(queue) <=> LastWord(Head(queue)) \/ SaysEnd(Tail(queue))
    BY <1>1, <1>3, <1>4 DEF SaysEnd
<1>8. Silent(queue) => ~OfLife(Head(queue)) /\ Silent(Tail(queue))
    BY <1>1, <1>4 DEF Silent
<1>9. Head(queue) \in Event
    BY <1>1
<1> QED
    BY <1>2, <1>5, <1>6, <1>7, <1>8, <1>9

\* An event joins a queue in which no last word has come yet, or is not of a life.
LEMMA AppendFacts ==
    ASSUME NEW queue \in Seq(Event), NEW event \in Event, EndIsLast(queue),
           SaysEnd(queue) => ~OfLife(event)
    PROVE  /\ Append(queue, event) \in Seq(Event)
           /\ EndIsLast(Append(queue, event))
           /\ SaysEnd(Append(queue, event)) <=> SaysEnd(queue) \/ LastWord(event)
           /\ Silent(queue) /\ ~OfLife(event) => Silent(Append(queue, event))
<1> DEFINE longer == Append(queue, event)
<1>1. /\ longer \in Seq(Event)
      /\ DOMAIN queue = 1 .. Len(queue)
      /\ DOMAIN longer = 1 .. Len(queue) + 1
      /\ longer[Len(queue) + 1] = event
      /\ \A i \in 1 .. Len(queue) : longer[i] = queue[i]
      /\ Len(queue) \in Nat
    OBVIOUS
<1> HIDE DEF longer
<1>2. EndIsLast(longer)
    <2> SUFFICES ASSUME NEW i \in DOMAIN longer, NEW k \in DOMAIN longer,
                        LastWord(longer[i]), i < k
                 PROVE  ~OfLife(longer[k])
        BY DEF EndIsLast
    <2>1. i \in DOMAIN queue /\ longer[i] = queue[i]
        BY <1>1
    <2>2. SaysEnd(queue)
        BY <2>1 DEF SaysEnd
    <2> QED
        BY <1>1, <2>1, <2>2 DEF EndIsLast
<1>3. SaysEnd(longer) <=> SaysEnd(queue) \/ LastWord(event)
    BY <1>1 DEF SaysEnd
<1>4. Silent(queue) /\ ~OfLife(event) => Silent(longer)
    BY <1>1 DEF Silent
<1> QED
    BY <1>1, <1>2, <1>3, <1>4 DEF longer

\* A queue that says no end about a life says nothing of it that is a last word.
LEMMA SilentSaysNoEnd ==
    ASSUME NEW queue, Silent(queue)
    PROVE  ~SaysEnd(queue) /\ EndIsLast(queue)
BY DEF Silent, SaysEnd, EndIsLast, LastWord

\* What is said in one or two events.
LEMMA ShortQueues ==
    ASSUME NEW a \in Event, NEW b \in Event
    PROVE  /\ << a >> \in Seq(Event)
           /\ << a, b >> \in Seq(Event)
           /\ SaysEnd(<< a >>) <=> LastWord(a)
           /\ SaysEnd(<< a, b >>) <=> LastWord(a) \/ LastWord(b)
           /\ EndIsLast(<< a >>)
           /\ EndIsLast(<< a, b >>) <=> (LastWord(a) => ~OfLife(b))
           /\ ~OfLife(a) => Silent(<< a >>)
           /\ ~OfLife(a) /\ ~OfLife(b) => Silent(<< a, b >>)
<1>1. /\ << a >> \in Seq(Event) /\ DOMAIN << a >> = {1} /\ << a >>[1] = a
      /\ << a, b >> \in Seq(Event) /\ DOMAIN << a, b >> = {1, 2}
      /\ << a, b >>[1] = a /\ << a, b >>[2] = b
    OBVIOUS
<1>2. SaysEnd(<< a >>) <=> LastWord(a)
    BY <1>1 DEF SaysEnd
<1>3. SaysEnd(<< a, b >>) <=> LastWord(a) \/ LastWord(b)
    BY <1>1 DEF SaysEnd
<1>4. EndIsLast(<< a >>)
    BY <1>1 DEF EndIsLast
<1>5. EndIsLast(<< a, b >>) <=> (LastWord(a) => ~OfLife(b))
    BY <1>1 DEF EndIsLast
<1>6. ~OfLife(a) => Silent(<< a >>)
    BY <1>1 DEF Silent
<1>7. ~OfLife(a) /\ ~OfLife(b) => Silent(<< a, b >>)
    BY <1>1 DEF Silent
<1> QED
    BY <1>1, <1>2, <1>3, <1>4, <1>5, <1>6, <1>7

\* A republisher thread says its last word exactly when it ends, and nothing of its
\* life after that.
LEMMA MovesFacts ==
    ASSUME NEW m \in OrdinaryMoves \cup CrashMoves
    PROVE  /\ m.from \notin Ended
           /\ m.to \in Phases
           /\ m.sends \in Seq(Event)
           /\ EndIsLast(m.sends)
           /\ SaysEnd(m.sends) <=> m.to \in Ended
<1> DEFINE starting == Lifecycle("Starting")
           running == Lifecycle("Running")
           stopping == Lifecycle("Stopping")
           stopped == Lifecycle("Stopped")
           failed == Lifecycle("Failed")
<1>1. /\ {starting, running, stopping, stopped, failed, Finished} \subseteq Event
      /\ ~LastWord(starting) /\ ~LastWord(running) /\ ~LastWord(stopping)
      /\ LastWord(stopped) /\ LastWord(failed)
      /\ ~OfLife(Finished) /\ ~LastWord(Finished)
    BY EventFacts DEF States, LastWord
<1> HIDE DEF starting, running, stopping, stopped, failed
<1>2. \/ m = Move("spawned",  "starting", << starting >>)
      \/ m = Move("spawned",  "failed",   << failed >>)
      \/ m = Move("spawned",  "failed",   << starting, failed >>)
      \/ m = Move("starting", "running",  << running >>)
      \/ m = Move("starting", "failed",   << failed >>)
      \/ m = Move("running",  "stopping", << stopping >>)
      \/ m = Move("stopping", "stopped",  << stopped, Finished >>)
      \/ \E from \in {"starting", "running", "stopping"} :
            m = Move(from, "failed", << Finished, failed >>)
    BY DEF OrdinaryMoves, CrashMoves, starting, running, stopping, stopped, failed
<1>3. \A from, to, sends :
         LET mv == Move(from, to, sends)
         IN  mv.from = from /\ mv.to = to /\ mv.sends = sends
    BY DEF Move
<1>4. /\ m.from \in {"spawned", "starting", "running", "stopping"}
      /\ m.to \in Phases
    BY <1>2, <1>3 DEF Phases
<1>5. \/ /\ m.to \notin Ended
         /\ m.sends \in {<< starting >>, << running >>, << stopping >>}
      \/ /\ m.to \in Ended
         /\ m.sends \in {<< failed >>, << starting, failed >>, << stopped, Finished >>,
                         << Finished, failed >>}
    BY <1>2, <1>3 DEF Ended
<1>6. /\ m.sends \in Seq(Event)
      /\ EndIsLast(m.sends)
      /\ SaysEnd(m.sends) <=> m.to \in Ended
    BY <1>1, <1>5, ShortQueues
<1> QED
    BY <1>4, <1>6 DEF Ended

\* One-shot threads say nothing of the life of a republisher.
LEMMA JobsAreSilent ==
    ASSUME NEW kind, NEW sends \in Results(kind) \cup {<< >>, << ScanProgress >>}
    PROVE  sends \in Seq(Event) /\ Silent(sends)
<1>1. /\ Finished \in Event /\ ~OfLife(Finished)
      /\ ScanProgress \in Event /\ ~OfLife(ScanProgress)
      /\ \A some \in BOOLEAN : DevicesFound(some) \in Event /\ ~OfLife(DevicesFound(some))
    BY EventFacts
<1>2. CASE sends = << ScanProgress, DevicesFound(TRUE), Finished >>
    <2>1. PICK found \in Event : ~OfLife(found) /\ sends = << ScanProgress, found, Finished >>
        BY <1>1, <1>2
    <2>2. /\ sends \in Seq(Event) /\ DOMAIN sends = {1, 2, 3}
          /\ sends[1] = ScanProgress /\ sends[2] = found /\ sends[3] = Finished
        BY <1>1, <2>1
    <2> QED
        BY <1>1, <2>1, <2>2 DEF Silent
<1>3. CASE \E some \in BOOLEAN : sends = << DevicesFound(some), Finished >>
    BY <1>1, <1>3, ShortQueues
<1>4. CASE sends \in {<< Finished >>, << ScanProgress >>}
    BY <1>1, <1>4, ShortQueues
<1>5. CASE sends = << >>
    BY <1>5, EmptyQueue
<1> QED
    BY <1>2, <1>3, <1>4, <1>5 DEF Results, DiscoveryResults, ScanAllResults

-----------------------------------------------------------------------------
(* One lemma per group of actions *)

\* The console starts with nothing under way.
LEMMA InitHolds == Init => IInv
<1> SUFFICES ASSUME Init PROVE IInv
    OBVIOUS
<1>1. Typed
    BY EmptyQueue DEF Init, Typed, UI, EndedRun, IdleJob, Phases, Kinds, Threads
<1>2. ~Active /\ ui.stop = NoRun
    BY DEF Init, Active
<1>3. \A r \in Runs : ~RunAlive(r)
    BY DEF Init, RunAlive, EndedRun, Ended
<1>4. /\ Silent(inbox) /\ Silent(chan) /\ \A t \in Threads : Silent(sending[t])
      /\ EndIsLast(inbox) /\ EndIsLast(chan) /\ \A t \in Threads : EndIsLast(sending[t])
      /\ ~SaysEnd(inbox) /\ ~SaysEnd(chan)
    BY EmptyQueue DEF Init
<1> QED
    BY <1>1, <1>2, <1>3, <1>4 DEF IInv, Ordered, Attributed

\* What the proofs of steps have in common: queues and threads as they were.
LEMMA NothingSaid ==
    ASSUME IInv, UNCHANGED <<inbox, chan, run, sending>>, Typed',
           ui'.stop = ui.stop, Active' <=> ui'.stop # NoRun
    PROVE  IInv'
BY DEF IInv, Ordered, Attributed, EndUnderWay, RunAlive

\* Clicks on jobs: of what matters here, they change nothing.
LEMMA JobClicks ==
    ASSUME IInv, StartDiscovery \/ StartObjectScan \/ StartScanAll \/ StartPollOnce
    PROVE  IInv'
<1>1. /\ UNCHANGED <<inbox, chan, run, sending>>
      /\ ui' \in UI /\ ui'.stop = ui.stop /\ ui'.state = ui.state
      /\ \E j \in Jobs, kind \in Kinds : job' = [job EXCEPT ![j] = [kind |-> kind, phase |-> "spawned"]]
    BY DEF StartDiscovery, StartObjectScan, StartScanAll, StartPollOnce, SpawnJob, IInv,
           Typed, UI, Kinds
<1>2. Typed'
    BY <1>1 DEF IInv, Typed
<1>3. Active' <=> ui'.stop # NoRun
    BY <1>1 DEF IInv, Active
<1> QED
    BY <1>1, <1>2, <1>3, NothingSaid

\* A start: no flag is held, so nothing of any life is under way.
LEMMA StartHolds ==
    ASSUME IInv, StartRepublisher
    PROVE  IInv'
<1>1. PICK r \in Runs :
         /\ run' = [run EXCEPT ![r] = [phase |-> "spawned", stop |-> FALSE]]
         /\ ui' = [ui EXCEPT !.state = "Starting", !.stop = r]
    BY DEF StartRepublisher
<1>2. UNCHANGED <<inbox, chan, job, sending>>
    BY DEF StartRepublisher
<1>3. ui.stop = NoRun
    BY DEF StartRepublisher, MayStart, IInv
<1>4. ui' \in UI /\ ui'.stop = r /\ ui'.state = "Starting" /\ r # NoRun
    BY <1>1, ConsoleAssumption DEF IInv, Typed, UI
<1>5. Typed'
    BY <1>1, <1>2, <1>4 DEF IInv, Typed, Phases
<1>6. Active' <=> ui'.stop # NoRun
    BY <1>4 DEF Active
<1>7. /\ Silent(inbox) /\ Silent(chan) /\ \A t \in Threads : Silent(sending[t])
    BY <1>3, ConsoleAssumption DEF IInv, Attributed
<1>8. ~EndUnderWay
    BY <1>7, SilentSaysNoEnd DEF EndUnderWay
<1>9. Ordered'
    BY <1>2 DEF IInv, Ordered
<1>10. run[r].phase = run[r].phase /\ run'[r].phase = "spawned"
       /\ \A q \in Runs \ {r} : run'[q] = run[q]
    BY <1>1 DEF IInv, Typed
<1>11. RunAlive(r)' /\ \A q \in Runs \ {r} : RunAlive(q)' <=> RunAlive(q)
    BY <1>10 DEF RunAlive, Ended
<1>12. \A q \in Runs : ~RunAlive(q)
    BY <1>3, ConsoleAssumption DEF IInv, Attributed
<1>13. EndUnderWay' <=> EndUnderWay
    BY <1>2 DEF EndUnderWay
<1>14. Attributed'
    BY <1>2, <1>4, <1>7, <1>8, <1>11, <1>12, <1>13 DEF Attributed
<1> QED
    BY <1>5, <1>6, <1>9, <1>14 DEF IInv

\* A stop: the flag that is held is kept, the thread goes on.
LEMMA StopHolds ==
    ASSUME IInv, StopRepublisher
    PROVE  IInv'
<1>1. /\ UNCHANGED <<inbox, chan, job, sending>>
      /\ ui' = [ui EXCEPT !.state = "Stopping"]
      /\ run' = [run EXCEPT ![ui.stop].stop = RunAlive(ui.stop)]
      /\ ui.stop # NoRun
    BY DEF StopRepublisher
<1>2. ui' \in UI /\ ui'.stop = ui.stop /\ ui'.state = "Stopping"
    BY <1>1 DEF IInv, Typed, UI
<1>3. RunAlive(ui.stop) \in BOOLEAN
    BY DEF RunAlive
<1>4. /\ run' \in [Runs -> [phase : Phases, stop : BOOLEAN]]
      /\ \A q \in Runs : run'[q].phase = run[q].phase
    <2>1. run \in [Runs -> [phase : Phases, stop : BOOLEAN]]
        BY DEF IInv, Typed
    <2> DEFINE stopped == [run[ui.stop] EXCEPT !.stop = RunAlive(ui.stop)]
    <2>2. ASSUME ui.stop \in Runs
          PROVE  stopped \in [phase : Phases, stop : BOOLEAN] /\ stopped.phase = run[ui.stop].phase
        BY <1>3, <2>1, <2>2
    <2>3. run' = [run EXCEPT ![ui.stop] = stopped]
        BY <1>1
    <2> HIDE DEF stopped
    <2>4. \A q \in Runs : run'[q] = IF q = ui.stop THEN stopped ELSE run[q]
        BY <2>1, <2>3
    <2>5. \A q \in Runs : /\ run'[q] \in [phase : Phases, stop : BOOLEAN]
                          /\ run'[q].phase = run[q].phase
        BY <2>1, <2>2, <2>4
    <2>6. run' = [q \in Runs |-> run'[q]]
        BY <2>1, <2>3
    <2> QED
        BY <2>5, <2>6
<1>5. Typed'
    BY <1>1, <1>2, <1>4 DEF IInv, Typed
<1>6. \A q \in Runs : RunAlive(q)' <=> RunAlive(q)
    BY <1>4 DEF RunAlive
<1>7. Active' <=> ui'.stop # NoRun
    BY <1>1, <1>2 DEF Active
<1>8. ui.stop \in Runs
    BY <1>1 DEF IInv, Typed, UI
<1>9. Ordered' /\ (EndUnderWay' <=> EndUnderWay)
    BY <1>1 DEF IInv, Ordered, EndUnderWay
<1>10. Attributed'
    BY <1>1, <1>2, <1>6, <1>8, <1>9 DEF IInv, Attributed, RunAlive
<1> QED
    BY <1>5, <1>7, <1>9, <1>10 DEF IInv

\* Queues that lie where they are, but for one thread that begins to say something.
LEMMA SendingTyped ==
    ASSUME IInv, NEW t \in Threads, NEW sends \in Seq(Event),
           sending' = [sending EXCEPT ![t] = sends]
    PROVE  /\ sending' \in [Threads -> Seq(Event)]
           /\ sending'[t] = sends
           /\ \A u \in Threads \ {t} : sending'[u] = sending[u]
BY DEF IInv, Typed

\* A step of the republisher thread, which is the one the flag of is held: its end is
\* under way from the moment it has ended.
LEMMA RunMoves ==
    ASSUME IInv, NEW r \in Runs, RunProceeds(r) \/ RunCrashes(r)
    PROVE  IInv'
<1>1. PICK m \in OrdinaryMoves \cup CrashMoves :
         /\ m.from = run[r].phase
         /\ run' = [run EXCEPT ![r] = IF m.to \in Ended THEN EndedRun(m.to)
                                      ELSE [@ EXCEPT !.phase = m.to]]
         /\ sending' = [sending EXCEPT ![r] = m.sends]
    BY DEF RunProceeds, RunCrashes, MoveRun, MovesFrom
<1>2. sending[r] = << >> /\ UNCHANGED <<ui, inbox, chan, job>>
    BY DEF RunProceeds, RunCrashes, MoveRun
<1>3. /\ m.from \notin Ended
      /\ m.to \in Phases
      /\ m.sends \in Seq(Event)
      /\ EndIsLast(m.sends)
      /\ SaysEnd(m.sends) <=> m.to \in Ended
    BY MovesFacts
<1>4. RunAlive(r)
    BY <1>1, <1>3 DEF RunAlive
<1>5. ui.stop = r /\ r # NoRun
    BY <1>4, ConsoleAssumption DEF IInv, Attributed
<1>6. ~EndUnderWay
    BY <1>4, <1>5 DEF IInv, Attributed
<1>7. r \in Threads
    BY DEF Threads
<1>8. /\ sending' \in [Threads -> Seq(Event)]
      /\ sending'[r] = m.sends
      /\ \A u \in Threads \ {r} : sending'[u] = sending[u]
    BY <1>1, <1>3, <1>7, SendingTyped
<1>9. /\ run' \in [Runs -> [phase : Phases, stop : BOOLEAN]]
      /\ run'[r].phase = m.to
      /\ \A q \in Runs \ {r} : run'[q] = run[q]
    BY <1>1, <1>3 DEF IInv, Typed, EndedRun
<1>10. Typed'
    BY <1>2, <1>8, <1>9 DEF IInv, Typed
<1>11. Ordered'
    BY <1>2, <1>3, <1>6, <1>8 DEF IInv, Ordered, EndUnderWay
<1>12. EndUnderWay' <=> m.to \in Ended
    BY <1>2, <1>3, <1>6, <1>7, <1>8 DEF EndUnderWay
<1>13. RunAlive(r)' <=> m.to \notin Ended
    BY <1>9 DEF RunAlive
<1>14. \A q \in Runs \ {r} : RunAlive(q)' <=> RunAlive(q)
    BY <1>9 DEF RunAlive
<1>15. Attributed'
    BY <1>2, <1>5, <1>8, <1>12, <1>13, <1>14 DEF IInv, Attributed
<1> QED
    BY <1>2, <1>10, <1>11, <1>15 DEF IInv, Active

\* A step of a one-shot thread.
LEMMA JobMoves ==
    ASSUME IInv, NEW j \in Jobs, JobStep(j)
    PROVE  IInv'
<1>1. PICK sends \in Seq(Event), to \in {"running", "done", "lost"} :
         /\ Silent(sends)
         /\ sending[j] = << >>
         /\ sending' = [sending EXCEPT ![j] = sends]
         /\ job' = [job EXCEPT ![j] = IF to \in {"done", "lost"} THEN IdleJob(to)
                                      ELSE [@ EXCEPT !.phase = to]]
         /\ UNCHANGED <<ui, inbox, chan, run>>
    <2>1. CASE JobStarts(j)
        BY <2>1, JobsAreSilent DEF JobStarts, MoveJob
    <2>2. CASE JobLost(j)
        BY <2>2, JobsAreSilent DEF JobLost, MoveJob
    <2>3. CASE JobEnds(j)
        BY <2>3, JobsAreSilent DEF JobEnds, MoveJob
    <2> QED
        BY <2>1, <2>2, <2>3 DEF JobStep
<1>2. j \in Threads /\ j \notin Runs
    BY ConsoleAssumption DEF Threads
<1>3. /\ sending' \in [Threads -> Seq(Event)]
      /\ sending'[j] = sends
      /\ \A u \in Threads \ {j} : sending'[u] = sending[u]
    BY <1>1, <1>2, SendingTyped
<1>4. job' \in [Jobs -> [kind : Kinds, phase : {"spawned", "running", "done", "lost"}]]
    BY <1>1 DEF IInv, Typed, IdleJob, Kinds
<1>5. Typed'
    BY <1>1, <1>3, <1>4 DEF IInv, Typed
<1>6. \A t \in Threads : /\ Silent(sending[t]) => Silent(sending'[t])
                         /\ SaysEnd(sending'[t]) <=> SaysEnd(sending[t])
                         /\ EndIsLast(sending'[t])
    BY <1>1, <1>3, EmptyQueue, SilentSaysNoEnd DEF IInv, Ordered
<1>7. Ordered' /\ (EndUnderWay' <=> EndUnderWay)
    BY <1>1, <1>6 DEF IInv, Ordered, EndUnderWay
<1>8. Attributed'
    BY <1>1, <1>6, <1>7 DEF IInv, Attributed, RunAlive
<1> QED
    BY <1>1, <1>5, <1>7, <1>8 DEF IInv, Active

\* An event of a life gets into the channel only from the thread the flag of is held,
\* and none before it is a last word.
LEMMA SendHolds ==
    ASSUME IInv, NEW t \in Threads, Send(t)
    PROVE  IInv'
<1> DEFINE event == Head(sending[t])
           rest == Tail(sending[t])
<1>1. /\ sending[t] \in Seq(Event) /\ sending[t] # << >>
      /\ EndIsLast(sending[t])
      /\ chan' = Append(chan, event)
      /\ sending' = [sending EXCEPT ![t] = rest]
      /\ UNCHANGED <<ui, inbox, run, job>>
    BY DEF Send, IInv, Typed, Ordered
<1>2. /\ event \in Event
      /\ rest \in Seq(Event)
      /\ EndIsLast(rest)
      /\ Silent(sending[t]) => ~OfLife(event) /\ Silent(rest)
      /\ LastWord(event) => Silent(rest)
      /\ SaysEnd(sending[t]) <=> LastWord(event) \/ SaysEnd(rest)
    BY <1>1, TailFacts
<1> HIDE DEF event, rest
<1>3. /\ chan \in Seq(Event) /\ EndIsLast(chan)
      /\ SaysEnd(chan) => ~OfLife(event)
    BY <1>2 DEF IInv, Typed, Ordered
<1>4. /\ chan' \in Seq(Event)
      /\ EndIsLast(chan')
      /\ SaysEnd(chan') <=> SaysEnd(chan) \/ LastWord(event)
      /\ Silent(chan) /\ ~OfLife(event) => Silent(chan')
    BY <1>1, <1>2, <1>3, AppendFacts
<1>5. /\ sending' \in [Threads -> Seq(Event)]
      /\ sending'[t] = rest
      /\ \A u \in Threads \ {t} : sending'[u] = sending[u]
    BY <1>1, <1>2, SendingTyped
<1>6. Typed'
    BY <1>1, <1>4, <1>5 DEF IInv, Typed
<1>7. OfLife(event) => \A u \in Threads \ {t} : Silent(sending[u])
    BY <1>2 DEF IInv, Attributed
<1>8. SaysEnd(chan') => \A u \in Threads : Silent(sending'[u])
    BY <1>2, <1>4, <1>5, <1>7 DEF IInv, Ordered, LastWord
<1>9. SaysEnd(inbox) => Silent(chan') /\ \A u \in Threads : Silent(sending'[u])
    BY <1>2, <1>4, <1>5 DEF IInv, Ordered
<1>10. Ordered'
    BY <1>1, <1>2, <1>4, <1>5, <1>8, <1>9 DEF IInv, Ordered
<1>11. EndUnderWay' <=> EndUnderWay
    BY <1>1, <1>2, <1>4, <1>5 DEF EndUnderWay
<1>12. \A u \in Threads : Silent(sending[u]) => Silent(sending'[u])
    BY <1>2, <1>5
<1>13. ui.stop = NoRun => Silent(inbox) /\ Silent(chan')
    BY <1>2, <1>4, ConsoleAssumption DEF IInv, Attributed
<1>14. Attributed'
    BY <1>1, <1>11, <1>12, <1>13 DEF IInv, Attributed, RunAlive
<1> QED
    BY <1>1, <1>6, <1>10, <1>14 DEF IInv, Active

LEMMA CollectHolds ==
    ASSUME IInv, Collect
    PROVE  IInv'
<1>1. /\ inbox = << >> /\ inbox' = chan /\ chan' = << >>
      /\ UNCHANGED <<ui, run, job, sending>>
    BY DEF Collect
<1>2. Typed' /\ (Active' <=> ui'.stop # NoRun)
    BY <1>1, EmptyQueue DEF IInv, Typed, Active
<1>3. Ordered' /\ (EndUnderWay' <=> EndUnderWay)
    BY <1>1, EmptyQueue DEF IInv, Ordered, EndUnderWay
<1>4. Attributed'
    BY <1>1, <1>3, EmptyQueue DEF IInv, Attributed, RunAlive
<1> QED
    BY <1>2, <1>3, <1>4 DEF IInv

\* What an event makes of the console.
LEMMA AppliedFacts ==
    ASSUME ui \in UI, NEW event \in Event, ui' = Applied(event)
    PROVE  /\ ui' \in UI
           /\ ~OfLife(event) => ui'.stop = ui.stop /\ ui'.state = ui.state
           /\ OfLife(event) /\ ~LastWord(event) =>
                 /\ ui'.stop = ui.stop
                 /\ ui'.state \in {"Starting", "Running", "Stopping"}
                 /\ ui.state = "Stopping" => ui'.state = "Stopping"
           /\ LastWord(event) => ui'.stop = NoRun /\ ui'.state \in {"Stopped", "Failed"}
<1>1. CASE OfLife(event)
    <2>1. PICK s \in States : event.kind = "lifecycle" /\ event.state = s
        BY <1>1, EventFacts DEF OfLife
    <2>2. ui' = ApplyLifecycle(s)
        BY <2>1 DEF Applied
    <2>3. LastWord(event) <=> s \in {"Stopped", "Failed"}
        BY <2>1 DEF LastWord, OfLife
    <2>4. CASE ui.state = "Stopping" /\ s \in {"Starting", "Running"}
        BY <1>1, <2>2, <2>3, <2>4 DEF ApplyLifecycle
    <2>5. CASE ~(ui.state = "Stopping" /\ s \in {"Starting", "Running"})
        <3>1. ui' = [ui EXCEPT !.state = s,
                               !.stop = IF s \in {"Stopped", "Failed"} THEN NoRun ELSE @]
            BY <2>2, <2>5 DEF ApplyLifecycle
        <3>2. /\ ui' \in UI
              /\ ui'.state = s
              /\ ui'.stop = IF s \in {"Stopped", "Failed"} THEN NoRun ELSE ui.stop
            BY <3>1 DEF UI, States
        <3> QED
            BY <1>1, <2>3, <2>5, <3>2 DEF States
    <2> QED
        BY <2>4, <2>5
<1>2. CASE ~OfLife(event)
    <2>1. \/ event.kind = "finished"
          \/ event.kind = "progress"
          \/ event.kind = "devices" /\ event.some \in BOOLEAN
        BY <1>2, EventFacts DEF Event, Finished, ScanProgress, DevicesFound
    <2>2. \/ ui' = [ui EXCEPT !.working = FALSE, !.progress = FALSE]
          \/ ui' = [ui EXCEPT !.progress = TRUE]
          \/ event.some \in BOOLEAN /\ ui' = [ui EXCEPT !.devices = event.some]
        BY <2>1 DEF Applied
    <2> QED
        BY <1>2, <2>2 DEF UI, LastWord
<1> QED
    BY <1>1, <1>2

\* The last word of a thread is applied: the flag is released, and nothing of any
\* life is under way any more.
LEMMA ApplyHolds ==
    ASSUME IInv, Apply
    PROVE  IInv'
<1> DEFINE event == Head(inbox)
           rest == Tail(inbox)
<1>1. /\ inbox \in Seq(Event) /\ inbox # << >> /\ EndIsLast(inbox)
      /\ ui \in UI /\ ui' = Applied(event)
      /\ inbox' = rest
      /\ UNCHANGED <<chan, run, job, sending>>
    BY DEF Apply, IInv, Typed, Ordered
<1>2. /\ event \in Event
      /\ rest \in Seq(Event)
      /\ EndIsLast(rest)
      /\ Silent(inbox) => ~OfLife(event) /\ Silent(rest)
      /\ LastWord(event) => Silent(rest)
      /\ SaysEnd(inbox) <=> LastWord(event) \/ SaysEnd(rest)
    BY <1>1, TailFacts
<1> HIDE DEF event, rest
<1>3. /\ ui' \in UI
      /\ ~OfLife(event) => ui'.stop = ui.stop /\ ui'.state = ui.state
      /\ OfLife(event) /\ ~LastWord(event) =>
            /\ ui'.stop = ui.stop
            /\ ui'.state \in {"Starting", "Running", "Stopping"}
      /\ LastWord(event) => ui'.stop = NoRun /\ ui'.state \in {"Stopped", "Failed"}
    BY <1>1, <1>2, AppliedFacts
<1>4. Typed'
    BY <1>1, <1>2, <1>3 DEF IInv, Typed
<1>5. Ordered'
    BY <1>1, <1>2 DEF IInv, Ordered
<1>6. OfLife(event) => ui.stop # NoRun
    BY <1>2 DEF IInv, Attributed
<1>7. Active' <=> ui'.stop # NoRun
    BY <1>3, <1>6 DEF IInv, Active, LastWord
<1>8. CASE ~LastWord(event)
    <2>1. EndUnderWay' <=> EndUnderWay
        BY <1>1, <1>2, <1>8 DEF EndUnderWay
    <2>2. ui'.stop = ui.stop
        BY <1>3, <1>8
    <2>3. ui.stop = NoRun => Silent(rest) /\ Silent(chan)
        BY <1>2 DEF IInv, Attributed
    <2>4. Attributed'
        BY <1>1, <2>1, <2>2, <2>3 DEF IInv, Attributed, RunAlive
    <2> QED
        BY <1>4, <1>5, <1>7, <2>4 DEF IInv
<1>9. CASE LastWord(event)
    <2>1. SaysEnd(inbox) /\ Silent(rest)
        BY <1>2, <1>9
    <2>2. Silent(chan) /\ \A t \in Threads : Silent(sending[t])
        BY <2>1 DEF IInv, Ordered
    <2>3. \A r \in Runs : ~RunAlive(r)
        BY <1>6, <1>9, <2>1 DEF IInv, Attributed, EndUnderWay, LastWord
    <2>4. ui'.stop = NoRun
        BY <1>3, <1>9
    <2>5. Attributed'
        BY <1>1, <2>1, <2>2, <2>3, <2>4 DEF Attributed, RunAlive
    <2> QED
        BY <1>4, <1>5, <1>7, <2>5 DEF IInv
<1> QED
    BY <1>8, <1>9

\* Every step keeps the invariant.
LEMMA StepHolds == IInv /\ [Next]_vars => IInv'
<1> SUFFICES ASSUME IInv, [Next]_vars
             PROVE  IInv'
    OBVIOUS
<1>1. CASE Operator
    BY <1>1, JobClicks, StartHolds, StopHolds DEF Operator
<1>2. CASE UNCHANGED vars
    BY <1>2 DEF vars, IInv, Typed, Active, Ordered, Attributed, EndUnderWay, RunAlive
<1> QED
    BY <1>1, <1>2, RunMoves, JobMoves, SendHolds, CollectHolds, ApplyHolds DEF Next

\* The inductive invariant.
THEOREM ConsoleInvariant == Spec => []IInv
BY InitHolds, StepHolds, PTL DEF Spec

-----------------------------------------------------------------------------
(* Theorems *)

\* Variables keep their shape, and a flag is held exactly while the console counts a
\* republisher as active.
THEOREM ConsoleTyped == Spec => []TypeOK
<1>1. IInv => TypeOK
    BY DEF IInv, Typed, TypeOK
<1> QED
    BY <1>1, ConsoleInvariant, PTL

\* No two republishers are alive at once, however many were started and stopped and
\* however late their events are drained (start_republisher, drain_worker_events).
THEOREM OneRepublisherAlways == Spec => []OneRepublisher
<1>1. IInv => OneRepublisher
    BY DEF IInv, Attributed, OneRepublisher
<1> QED
    BY <1>1, ConsoleInvariant, PTL

\* A republisher that is alive is the one a click on Stop would stop.
THEOREM AlwaysStoppable == Spec => []StoppableWhileAlive
<1>1. IInv => StoppableWhileAlive
    BY ConsoleAssumption DEF IInv, Attributed, StoppableWhileAlive
<1> QED
    BY <1>1, ConsoleInvariant, PTL

\* Events that were sent before the stop was seen do not take the console back
\* (apply_republisher_lifecycle).
THEOREM StoppingStaysAlways == Spec => StoppingStays
<1>1. IInv /\ [Next]_vars
         => [ui.state = "Stopping" => ui'.state \in {"Stopping", "Stopped", "Failed"}]_vars
    <2> SUFFICES ASSUME IInv, [Next]_vars, ui.state = "Stopping"
                 PROVE  ui'.state \in {"Stopping", "Stopped", "Failed"}
        OBVIOUS
    <2>1. CASE Operator
        <3>1. ~StartRepublisher
            BY DEF StartRepublisher, MayStart, Active
        <3> QED
            BY <2>1, <3>1 DEF Operator, StartDiscovery, StartObjectScan, StartScanAll,
               StartPollOnce, StopRepublisher, IInv, Typed, UI
    <2>2. CASE Apply
        <3>1. Head(inbox) \in Event
            BY <2>2, TailFacts DEF Apply, IInv, Typed, Ordered
        <3> QED
            BY <2>2, <3>1, AppliedFacts DEF Apply, IInv, Typed
    <2>3. CASE \/ \E r \in Runs : RunProceeds(r) \/ RunCrashes(r)
               \/ \E j \in Jobs : JobStep(j)
               \/ \E t \in Threads : Send(t)
               \/ Collect
               \/ UNCHANGED vars
        BY <2>3 DEF RunProceeds, RunCrashes, MoveRun, JobStep, JobStarts, JobLost, JobEnds,
           MoveJob, Send, Collect, vars
    <2> QED
        BY <2>1, <2>2, <2>3 DEF Next
<1> QED
    BY <1>1, ConsoleInvariant, PTL DEF Spec, StoppingStays
=============================================================================
