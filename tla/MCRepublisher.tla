--------------------------- MODULE MCRepublisher ---------------------------
(***************************************************************************)
(* Instances of Republisher for TLC.                                       *)
(*                                                                         *)
(* Six points on two devices: p1 and p2 on d1 are the same BACnet          *)
(*   property and p3 on d1 has an unknown object type, so nothing of d1 is *)
(*   ever read by ReadPropertyMultiple; p4, p5 and the disabled p6 are     *)
(*   ordinary points of d2.                                                *)
(* Two points on two devices, one of which answers, for liveness.          *)
(* One point, for the counterexample.                                      *)
(***************************************************************************)
EXTENDS Republisher, TLC

CONSTANTS d1, d2, p1, p2, p3, p4, p5, p6

TwoDevices == {d1, d2}
SixPoints == {p1, p2, p3, p4, p5, p6}
SixPointsDevice == [p \in SixPoints |-> IF p \in {p1, p2, p3} THEN d1 ELSE d2]
SixPointsIdentity == [p \in SixPoints |-> IF p = p2 THEN p1 ELSE p]
FiveIdentities == SixPoints \ {p2}
SixPointsInterval == [p \in SixPoints |-> IF p \in {p2, p4} THEN 2 ELSE 1]
EnabledOfSix == SixPoints \ {p6}
ReadableOfSix == SixPoints \ {p3}

OneDevice == {d1}
OnePoint == {p1}
OnePointDevice == p1 :> d1
OnePointIdentity == p1 :> p1
OnePointInterval == p1 :> 1

TwoPoints == {p1, p3}
TwoPointsDevice == p1 :> d1 @@ p3 :> d2
TwoPointsIdentity == p1 :> p1 @@ p3 :> p3
TwoPointsInterval == p1 :> 1 @@ p3 :> 1

NoDevice == {}
=============================================================================
