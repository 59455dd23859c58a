------------------------------- MODULE MCWsn -------------------------------
(***************************************************************************)
(* Instances of WsnEngine for TLC.  One grid unit is 5 m, one energy unit  *)
(* is what 160 bits cost at 2.5 nJ per bit (0.4 microjoule), so that the   *)
(* radio constants keep the proportions of the code: electronics 50 nJ ->  *)
(* 20, idle 40 nJ -> 16, amplifier 100 pJ * 25 m^2 = 2.5 nJ -> 1, control  *)
(* packet 160 bits -> 1, data packet 800 bits -> 5.  The field is layout   *)
(* 1: 100 m wide, base station at <50, 150>, DE = 30 m, PT = 10 m.         *)
(***************************************************************************)
EXTENDS WsnProperties, TLC

At(a, b) == [x |-> a, y |-> b]

MCBaseStation == At(10, 30)

(* Nodes 0 and 1 lie within PT of each other, node 2 far from both.        *)
Near3 == (0 :> At(10, 10)) @@ (1 :> At(11, 10)) @@ (2 :> At(4, 18))
(* Nodes 0 and 2 are equally far from node 1.                              *)
Line3 == (0 :> At(6, 12)) @@ (1 :> At(10, 12)) @@ (2 :> At(14, 12))
(* Nodes 0 and 1 are far from the base station, 2 lies half-way and could  *)
(* be a gateway for both, 3 is aside.                                      *)
Relay4 == (0 :> At(9, 1)) @@ (1 :> At(11, 3)) @@ (2 :> At(10, 15)) @@ (3 :> At(9, 20))

Placements3 == {Near3, Line3}
PlacementsRelay == {Relay4}

(* Two pairs within PT, far apart. *)
Pairs4 == (0 :> At(5, 9)) @@ (1 :> At(6, 9)) @@ (2 :> At(14, 12)) @@ (3 :> At(15, 12))
(* Three within PT and one far: the cluster of the three overflows. *)
Crowd4 == (0 :> At(5, 9)) @@ (1 :> At(6, 9)) @@ (2 :> At(5, 10)) @@ (3 :> At(14, 12))
PlacementsPairs == {Pairs4}
PlacementsCrowd == {Pairs4, Crowd4}

(* An event near the base station side and one at the far side. *)
EventsFarNear == {At(10, 2), At(10, 17)}
EventsOne == {At(10, 12)}

=============================================================================
