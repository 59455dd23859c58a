------------------------------- MODULE NsRng -------------------------------
(***************************************************************************)
(* The random number streams of ns-3: the globals of rng-seed-manager.cc,  *)
(* the stream a RandomVariableStream is given (random-variable-stream.cc)  *)
(* and the place in the generator's cycle it starts from (rng-stream.cc).  *)
(*                                                                         *)
(* The numbers are scaled down: Bits stands for the 64 bits of a stream or *)
(* substream index, 2^StreamShift for the 2^127 numbers of a stream,       *)
(* 2^RunShift for the 2^76 of a substream and Modulus for m2.              *)
(***************************************************************************)
EXTENDS Integers, Sequences, SequencesExt

CONSTANTS
  Bits, StreamShift, RunShift,
  Modulus   \* seeds from Modulus on are refused

ASSUME RngAssumption ==
  /\ Bits \in Nat \ {0} /\ RunShift \in Nat /\ StreamShift \in Nat
  /\ RunShift < StreamShift /\ Modulus \in Nat \ {0}

(* The upper half of the stream indices is for streams set by hand. *)
Half == 2 ^ (Bits - 1)

(* The place in the cycle nth * 2^by numbers further: for each bit of nth, *)
(* the highest first, the state is multiplied by the matrix that advances  *)
(* it by a power of two.                                                   *)
AdvanceNthBy(nth, by, place) ==
  LET Bit(k) == (nth \div 2 ^ k) % 2
  IN  FoldLeft(LAMBDA at, k : at + Bit(k) * 2 ^ (by + k), place, [i \in 1 .. Bits |-> Bits - i])

-----------------------------------------------------------------------------
(***************************************************************************)
(* What the calls do to a process: its seed and run, the index of the next *)
(* automatic stream and whether it has given up (NS_FATAL_ERROR).          *)
(***************************************************************************)
Process == [seed |-> 1, run |-> 1, next |-> 0, failed |-> FALSE]

ValidSeed(p) == p.seed # 0 /\ p.seed < Modulus

(* new RngStream(seed, stream, run) *)
Generator(p, stream) ==
  [seed |-> p.seed, run |-> p.run, stream |-> stream,
   place |-> AdvanceNthBy(p.run, RunShift, AdvanceNthBy(stream, StreamShift, 0))]

(* SetStream(-1), which no program of the project calls with another       *)
(* value: the variable is given the stream p.next, if the seed is valid    *)
(* and the asserted bound on automatic streams not passed.                 *)
Refused(p) == ~ValidSeed(p) \/ p.next > Half

(* Mutation of AfterSetStream: the next index is the same again. *)
AfterSetStreamSame(p) == [p EXCEPT !.failed = Refused(p)]

AfterSetStream(p) == [p EXCEPT !.failed = Refused(p), !.next = @ + 1]

=============================================================================
