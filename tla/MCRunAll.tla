------------------------------ MODULE MCRunAll ------------------------------
(* Instance of RunAll for TLC. *)
EXTENDS RunAll

R(round, dead) == [round |-> round, dead |-> dead]

(* All dead in round 1; one dead in round 2; nobody dead in the window; a  *)
(* death after the window.                                                 *)
Short == <<R(1, 2)>>
Long == <<R(1, 0), R(2, 1)>>
Deathless == <<R(1, 0), R(2, 0)>>
Late == <<R(1, 0), R(2, 0), R(3, 0), R(4, 1)>>

(* The three kinds of run in any order, and ties; LECMAC+ does as LECMAC. *)
Order(lecmac, leach, esmac) ==
  [j \in Job |-> [lecmac |-> lecmac, leach |-> leach, esmac |-> esmac, lecmac_plus |-> lecmac][j[2]]]

MCOutcomes ==
  {Order(x, y, z) : x \in {Long, Deathless}, y \in {Short, Long}, z \in {Short, Deathless}}
    \cup {Order(Short, Long, Deathless), Order(Short, Deathless, Long),
          Order(Late, Deathless, Long)}

(* Nothing, or the files of a batch in which all died at once. *)
MCOldFiles == {[j \in Job |-> <<>>], [j \in Job |-> Short]}

=============================================================================
