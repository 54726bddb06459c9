----------------------------- MODULE Discovery -----------------------------
(***************************************************************************)
(* discover_devices (src/bacnet.rs): one interface after the other, each   *)
(* with a client of its own, Who-Is is broadcast several times; what is    *)
(* heard in the window after a broadcast is collected.  A failure ends the *)
(* discovery or is skipped, as discovery_bind_failure_policy says.         *)
(*                                                                         *)
(* The interfaces are sorted in the code; here they come in any order.     *)
(* client.stop() does not fail: the transport's stop never does.           *)
(***************************************************************************)
EXTENDS Naturals

CONSTANTS
    Devices,
    Interfaces,  \* target_interfaces, never empty
    Passes       \* DISCOVERY_BROADCAST_PASSES

\* Assumed of the constants wherever this module is used.
DiscoveryAssumption == Interfaces # {} /\ Passes \in Nat \ {0}

VARIABLES
    stage,     \* where the discovery is
    strict,    \* the policy: Strict, or else Skip
    left,      \* interfaces not yet tried
    on,        \* the interface it is on, as a set
    round,     \* the pass on this interface
    anySent,   \* any_pass_sent
    heardHere, \* the client's device table
    found,     \* by_instance
    bound,     \* bound_any
    warned,    \* there are warnings
    heard,     \* history: heard in a window that followed a broadcast
    asked      \* history: broadcasts per interface

vars == <<stage, strict, left, on, round, anySent, heardHere, found, bound, warned, heard, asked>>

Init ==
    /\ stage = "bind"
    /\ strict \in BOOLEAN
    /\ left = Interfaces
    /\ on = {}
    /\ round = 1
    /\ anySent = FALSE
    /\ heardHere = {}
    /\ found = {}
    /\ bound = FALSE
    /\ warned = FALSE
    /\ heard = {}
    /\ asked = [i \in Interfaces |-> 0]

BindSucceeds(i) ==
    /\ stage = "bind"
    /\ i \in left
    /\ left' = left \ {i}
    /\ on' = {i}
    /\ bound' = TRUE
    /\ round' = 1
    /\ anySent' = FALSE
    /\ heardHere' = {}
    /\ stage' = "send"
    /\ UNCHANGED <<strict, found, warned, heard, asked>>

\* Under Strict the discovery fails, under Skip there is a warning.
Objection(goOn) ==
    IF strict THEN stage' = "failed" /\ UNCHANGED warned
              ELSE stage' = goOn /\ warned' = TRUE

BindFails(i) ==
    /\ stage = "bind"
    /\ i \in left
    /\ left' = left \ {i}
    /\ Objection("bind")
    /\ UNCHANGED <<strict, on, round, anySent, heardHere, found, bound, heard, asked>>

AfterPass == IF round < Passes THEN "send" ELSE "bind"

PassSent ==
    /\ stage = "send"
    /\ stage' = "window"
    /\ anySent' = TRUE
    /\ asked' = [i \in Interfaces |-> IF i \in on THEN asked[i] + 1 ELSE asked[i]]
    /\ UNCHANGED <<strict, left, on, round, heardHere, found, bound, warned, heard>>

\* No window follows a pass that was not sent, not even the last one.
PassFails ==
    /\ stage = "send"
    /\ Objection(AfterPass)
    /\ round' = round + 1
    /\ UNCHANGED <<strict, left, on, anySent, heardHere, found, bound, heard, asked>>

\* I-Am, unasked for or late: also outside of the windows.
IAm(d) ==
    /\ stage \in {"send", "window"}
    /\ d \notin heardHere
    /\ heardHere' = heardHere \cup {d}
    /\ heard' = IF stage = "window" THEN heard \cup {d} ELSE heard
    /\ UNCHANGED <<stage, strict, left, on, round, anySent, found, bound, warned, asked>>

CollectThisInterface ==
    /\ stage = "window"
    /\ found' = heardHere
    /\ stage' = AfterPass
    /\ round' = round + 1
    /\ UNCHANGED <<strict, left, on, anySent, heardHere, bound, warned, heard, asked>>

\* collect_discovered_devices, into the map of all interfaces.
Collect ==
    /\ stage = "window"
    /\ found' = found \cup heardHere
    /\ stage' = AfterPass
    /\ round' = round + 1
    /\ UNCHANGED <<strict, left, on, anySent, heardHere, bound, warned, heard, asked>>

Finish ==
    /\ stage = "bind"
    /\ left = {}
    /\ stage' = IF bound THEN "done" ELSE "failed"
    /\ UNCHANGED <<strict, left, on, round, anySent, heardHere, found, bound, warned, heard, asked>>

Step ==
    \/ \E i \in Interfaces : BindSucceeds(i) \/ BindFails(i)
    \/ PassSent
    \/ PassFails
    \/ Collect
    \/ Finish

Next == Step \/ \E d \in Devices : IAm(d)

Spec == Init /\ [][Next]_vars /\ WF_vars(Step)

-----------------------------------------------------------------------------
(* Properties *)

\* Every variable keeps its shape.
TypeOK ==
    /\ stage \in {"bind", "send", "window", "done", "failed"}
    /\ left \in SUBSET Interfaces
    /\ on \in SUBSET Interfaces
    /\ round \in 1 .. Passes + 1
    /\ {strict, anySent, bound, warned} \subseteq BOOLEAN
    /\ {heardHere, found, heard} \subseteq SUBSET Devices
    /\ asked \in [Interfaces -> 0 .. Passes]

\* What was heard on any interface in the window after a broadcast is reported,
\* whatever failed on other interfaces or in later passes.
HeardIsReported == stage = "done" => heard \subseteq found

\* The two policies mean what config.rs says of them: under Strict a result is
\* complete, with every broadcast sent on every interface and no warning; under Skip
\* the discovery fails only if no interface could be bound at all.
PolicyKept ==
    /\ stage = "done" /\ strict => ~warned /\ \A i \in Interfaces : asked[i] = Passes
    /\ stage = "failed" /\ ~strict => ~bound
=============================================================================
