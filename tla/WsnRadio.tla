------------------------------ MODULE WsnRadio ------------------------------
(***************************************************************************)
(* The first-order radio model and the geometry of scratch/                *)
(* wsn-protocol-model.h.                                                   *)
(*                                                                         *)
(* The code computes with doubles in joules and metres.  Here energies are *)
(* integers in a fixed unit and points lie on an integer grid; a distance  *)
(* is represented by its square, so that every comparison of distances the *)
(* code makes is a comparison of squares and TxCost, which uses d * d,     *)
(* needs no root.                                                          *)
(***************************************************************************)
EXTENDS Integers

CONSTANTS
  Eelec,        \* kEelec: electronics energy per bit unit
  Eamp,         \* kEamp: amplifier energy per bit unit and squared distance unit
  Eidle,        \* kEidle: idle listening per bit unit
  DataBits,     \* kDataBits, in bit units
  ControlBits,  \* kControlBits, in bit units
  Area,         \* m_area: the side of the field
  BaseStation   \* <m_bsX, m_bsY>

Point == [x : Nat, y : Nat]

ASSUME RadioAssumption ==
  /\ Eelec \in Nat \ {0}
  /\ Eamp \in Nat
  /\ Eidle \in Nat
  /\ DataBits \in Nat
  /\ ControlBits \in Nat \ {0}
  /\ Area \in Nat
  /\ BaseStation \in Point

Dist2(p, q) == (p.x - q.x) * (p.x - q.x) + (p.y - q.y) * (p.y - q.y)

TxCost(bits, d2) == bits * Eelec + bits * (Eamp * d2)
RxCost(bits) == bits * Eelec
IdleCost(bits) == bits * Eidle

(* Square of the half-diagonal sqrt(2) * (Area / 2) every broadcast is     *)
(* charged for.                                                            *)
BcastDist2 == (Area * Area) \div 2

=============================================================================
