--------------------------- MODULE WorkerContract ---------------------------
(***************************************************************************)
(* What a republisher thread promises the console, whatever it does to     *)
(* BACnet devices and the MQTT broker: it announces each change of its     *)
(* life once and in order, it goes on until it is told to stop or fails,   *)
(* and a stop request ends it.                                             *)
(***************************************************************************)
EXTENDS WorkerEvents

VARIABLES
    phase,  \* where the thread is in its life
    stop,   \* its stop flag
    out     \* the control events of its last step

vars == <<phase, stop, out>>

Init == phase = "spawned" /\ stop = FALSE /\ out = << >>

MoveBy(moves) ==
    /\ \E m \in MovesFrom(moves, phase, stop) : phase' = m.to /\ out' = m.sends
    /\ UNCHANGED stop

Proceed == MoveBy(OrdinaryMoves)
Crash == MoveBy(CrashMoves)

\* The thread works, or time passes: nothing is announced.
Work == out' = << >> /\ UNCHANGED <<phase, stop>>

RequestStop ==
    /\ phase \notin Ended
    /\ ~stop
    /\ stop' = TRUE
    /\ out' = << >>
    /\ UNCHANGED phase

Next == Proceed \/ Crash \/ Work \/ RequestStop

Spec == Init /\ [][Next]_vars
FairSpec == Spec /\ WF_vars(Proceed)
=============================================================================
