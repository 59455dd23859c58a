----------------------------- MODULE WsnResults -----------------------------
(***************************************************************************)
(* What the two analysis scripts make of the result files: the first and   *)
(* last node death (FND, LND) of a run and the verdicts on the order of    *)
(* the protocols, of plot_results.py and of parse_traces.py.  A file is    *)
(* the sequence of its rows [round, dead]; a file that is missing or has   *)
(* no row is the empty sequence, as parse_file makes no difference.        *)
(***************************************************************************)
EXTENDS Integers, Sequences

CONSTANT Window   \* MAX_ROUNDS of plot_results.py (6000)

ASSUME WindowAssumption == Window \in Nat

Protocols == <<"lecmac", "leach", "esmac", "lecmac_plus">>
Protocol == {Protocols[i] : i \in DOMAIN Protocols}

DeadRows(rows) == {i \in DOMAIN rows : rows[i].dead > 0}

FirstDead(rows) ==
  IF DeadRows(rows) = {} THEN 0
  ELSE rows[CHOOSE i \in DeadRows(rows) : \A j \in DeadRows(rows) : i <= j].round

LastDead(rows) ==
  IF DeadRows(rows) = {} THEN 0
  ELSE rows[CHOOSE i \in DeadRows(rows) : \A j \in DeadRows(rows) : i >= j].round

-----------------------------------------------------------------------------
(* plot_results.py *)

(* Mutation of FndLnd: no round stands for a run without a death. *)
FndLndZero(rows) == [fnd |-> FirstDead(rows), lnd |-> LastDead(rows)]

(* A run without a death counts as one whose nodes die after the window. *)
FndLnd(rows) ==
  IF FirstDead(rows) = 0
  THEN [fnd |-> Window + 1, lnd |-> Window + 1]
  ELSE [fnd |-> FirstDead(rows), lnd |-> LastDead(rows)]

(* info of one layout: an entry for each protocol with data. *)
Info(files) == [p \in {q \in DOMAIN files : files[q] # <<>>} |-> FndLnd(files[p])]

(* dict.get with the default 0. *)
Fnd(info, p) == IF p \in DOMAIN info THEN info[p].fnd ELSE 0
Lnd(info, p) == IF p \in DOMAIN info THEN info[p].lnd ELSE 0

Capped(info) == Lnd(info, "lecmac") > Window

(* Mutation of BaseOk: LEACH and ES-MAC are not compared. *)
BaseOkLecmac(info) ==
  /\ Fnd(info, "leach") < Fnd(info, "lecmac")
  /\ Capped(info) \/ Lnd(info, "leach") < Lnd(info, "lecmac")

BaseOk(info) ==
  /\ Fnd(info, "esmac") < Fnd(info, "leach") /\ Fnd(info, "leach") < Fnd(info, "lecmac")
  /\ Lnd(info, "esmac") < Lnd(info, "leach")
  /\ Capped(info) \/ Lnd(info, "leach") < Lnd(info, "lecmac")

(* lnd["lecmac"] is looked up although LECMAC may have no data. *)
ValidationRaises(info) ==
  /\ "lecmac_plus" \in DOMAIN info
  /\ "lecmac" \notin DOMAIN info

(* validate_ordering: layouts without any data are skipped, and the        *)
(* comparison with LECMAC+ is printed but not part of the result.          *)
ValidateOrdering(infos) ==
  \A l \in DOMAIN infos : DOMAIN infos[l] # {} => BaseOk(infos[l])

-----------------------------------------------------------------------------
(* parse_traces.py *)

(* "x or inf" compared with >=; 0 stands for None. *)
AtLeast(x, y) == x = 0 \/ (y # 0 /\ x >= y)

ParserOrdering(files) ==
  /\ AtLeast(FirstDead(files["lecmac"]), FirstDead(files["leach"]))
  /\ AtLeast(FirstDead(files["leach"]), FirstDead(files["esmac"]))
  /\ AtLeast(LastDead(files["lecmac"]), LastDead(files["leach"]))
  /\ AtLeast(LastDead(files["leach"]), LastDead(files["esmac"]))

=============================================================================
