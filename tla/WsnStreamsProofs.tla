-------------------------- MODULE WsnStreamsProofs --------------------------
(***************************************************************************)
(* The random number streams: where AdvanceNthBy arrives, that no two      *)
(* variables of a process share a place in the cycle, and that two         *)
(* protocols under one seed draw the same numbers for the same use.        *)
(***************************************************************************)
EXTENDS WsnStreams, InductionLemmas, SequenceTheorems

-----------------------------------------------------------------------------
(***************************************************************************)
(* AdvanceNthBy.                                                           *)
(***************************************************************************)
(* A number is twice its half and the last bit. *)
LEMMA HalfAndBit ==
  ASSUME NEW n \in Nat, NEW m \in Nat
  PROVE  /\ n \div 2 ^ m \in Nat /\ (n \div 2 ^ m) % 2 \in 0 .. 1
         /\ n \div 2 ^ m = 2 * (n \div 2 ^ (m + 1)) + ((n \div 2 ^ m) % 2)
<1> DEFINE d == 2 ^ m
           q == n \div d
           r == n % d
           h == q \div 2
           b == q % 2
<1>1. d \in Nat \ {0} /\ 2 ^ (m + 1) = 2 * d
  BY PowerType, PowerOfNext
<1> HIDE DEF d
<1>2. q \in Nat /\ r \in 0 .. d - 1 /\ n = q * d + r
  BY <1>1, Division
<1> HIDE DEF q, r
<1>3. h \in Nat /\ b \in 0 .. 1 /\ q = h * 2 + b
  BY <1>2, Division
<1> HIDE DEF h, b
<1>4. n = h * (2 * d) + (b * d + r)
  <2>1. (h * 2 + b) * d = h * (2 * d) + b * d
    BY <1>1, <1>3
  <2> QED
    BY <1>1, <1>2, <1>3, <2>1
<1>5. b * d + r \in 0 .. (2 * d) - 1
  <2>1. b * d = 0 \/ b * d = d
    BY <1>1, <1>3
  <2> QED
    BY <1>1, <1>2, <2>1
<1>6. n \div (2 * d) = h
  <2> DEFINE e == 2 * d
             t == b * d + r
  <2>1. e \in Nat \ {0} /\ t \in 0 .. e - 1 /\ n = h * e + t
    BY <1>1, <1>4, <1>5
  <2> HIDE DEF e, t
  <2>2. (h * e + t) \div e = h
    BY <1>3, <2>1
  <2>3. n \div e = h
    BY <2>1, <2>2
  <2> QED
    BY <2>3 DEF e
<1>7. q = 2 * h + b
  BY <1>3
<1> QED
  BY <1>1, <1>2, <1>3, <1>6, <1>7 DEF d, q, b

(* The loop over the bits adds up to nth * 2 ^ by. *)
LEMMA AdvanceArrives ==
  ASSUME NEW nth \in 0 .. 2 ^ Bits - 1, NEW by \in Nat, NEW place \in Nat
  PROVE  AdvanceNthBy(nth, by, place) = place + nth * 2 ^ by
<1> DEFINE I == 1 .. Bits
           Bit(n) == (nth \div 2 ^ n) % 2
           top(s) == CHOOSE a \in s : \A c \in s : a >= c
           add(n) == Bit(Bits - n) * 2 ^ (by + (Bits - n))
           op == [p \in I \X Nat |-> p[2] + add(p[1])]
           x == [s \in (SUBSET I) \ {{}} |-> top(s)]
           f(iter) == [s \in SUBSET I |->
                         IF s = {} THEN place ELSE iter[s \ {top(s)}] + add(top(s))]
           F == CHOOSE iter : iter = f(iter)
<1>0. Bits \in Nat /\ IsFiniteSet(I) /\ nth \in Nat /\ 2 ^ Bits \in Nat
  <2>1. Bits \in Nat
    BY RngAssumption
  <2>2. 2 ^ Bits \in Nat
    BY <2>1, PowerType
  <2> QED
    BY <2>1, <2>2, FS_Interval
<1>1. \A s \in SUBSET I : s # {} =>
        /\ top(s) \in s /\ x[s] = top(s)
        /\ \A c \in s : top(s) >= c
  <2> SUFFICES ASSUME NEW s \in SUBSET I, s # {}
               PROVE  \E a \in s : \A c \in s : a >= c
    OBVIOUS
  <2>1. s \in SUBSET (0 .. Bits)
    BY <1>0
  <2>2. PICK a \in s : \A c \in s : c <= a
    BY <1>0, <2>1, LargestExists
  <2>3. \A c \in s : a >= c
    BY <1>0, <2>1, <2>2
  <2> QED
    BY <2>3
<1>2. \A n \in I : add(n) \in Nat /\ Bit(Bits - n) \in 0 .. 1
  <2> SUFFICES ASSUME NEW n \in I PROVE add(n) \in Nat /\ Bit(Bits - n) \in 0 .. 1
    OBVIOUS
  <2>1. Bits - n \in Nat /\ by + (Bits - n) \in Nat
    BY <1>0
  <2>2. Bit(Bits - n) \in 0 .. 1
    BY <1>0, <2>1, HalfAndBit
  <2>3. 2 ^ (by + (Bits - n)) \in Nat
    BY <2>1, PowerType
  <2> HIDE DEF Bit
  <2> QED
    BY <2>2, <2>3
<1> HIDE DEF top, add
<1>3. op \in [I \X Nat -> Nat]
  BY <1>2
<1>4. x \in Choosers(I)
  BY <1>1 DEF Choosers
<1> HIDE DEF Bit
<1>5. PICK G \in FoldsOf(I, Nat, place, op, x) : TRUE
  <2> HIDE DEF op, x, I
  <2> QED
    BY <1>0, <1>3, <1>4, SubsetRecursion
<1>6. G \in [SUBSET I -> Nat] /\ G[{}] = place
      /\ \A s \in SUBSET I : s # {} => G[s] = G[s \ {top(s)}] + add(top(s))
  <2>1. G \in [SUBSET I -> Nat] /\ G[{}] = place
        /\ \A s \in SUBSET I : s # {} => G[s] = op[<<x[s], G[s \ {x[s]}]>>]
    <3> HIDE DEF op, x, I
    <3> QED
      BY <1>5 DEF FoldsOf
  <2> SUFFICES ASSUME NEW s \in SUBSET I, s # {}
               PROVE  G[s] = G[s \ {top(s)}] + add(top(s))
    BY <2>1
  <2>2. x[s] = top(s) /\ top(s) \in I /\ G[s \ {top(s)}] \in Nat
    <3> HIDE DEF x
    <3> QED
      BY <1>1, <2>1
  <2> HIDE DEF x
  <2> QED
    BY <2>1, <2>2
<1>7. G = f(G)
  BY <1>6
<1>8. F = f(F)
  <2> HIDE DEF f
  <2> QED
    BY <1>7
<1>9. AdvanceNthBy(nth, by, place) = F[I]
  <2> DEFINE seq == [j \in 1 .. Bits |-> Bits - j]
             g(iter) == [s \in SUBSET (DOMAIN seq) |->
                           IF s = {} THEN place
                           ELSE iter[s \ {top(s)}]
                                  + Bit(seq[top(s)]) * 2 ^ (by + seq[top(s)])]
             H == CHOOSE iter : iter = g(iter)
  <2>1. AdvanceNthBy(nth, by, place) = H[DOMAIN seq]
    <3> HIDE DEF seq
    <3>1. FoldLeft(LAMBDA c, n : c + Bit(n) * 2 ^ (by + n), place, seq) = H[DOMAIN seq]
      BY DEF FoldLeft, MapThenFoldSet, Max, top
    <3> QED
      BY <3>1 DEF AdvanceNthBy, seq, Bit
  <2>2. DOMAIN seq = I /\ \A n \in I : seq[n] = Bits - n
    OBVIOUS
  <2> HIDE DEF seq
  <2>3. ASSUME NEW iter
        PROVE  g(iter) = f(iter)
    <3>1. \A s \in SUBSET I : s # {} =>
            Bit(seq[top(s)]) * 2 ^ (by + seq[top(s)]) = add(top(s))
      <4> SUFFICES ASSUME NEW s \in SUBSET I, s # {}
                   PROVE  Bit(seq[top(s)]) * 2 ^ (by + seq[top(s)]) = add(top(s))
        OBVIOUS
      <4>1. top(s) \in I
        BY <1>1
      <4> QED
        BY <2>2, <4>1 DEF add
    <3> QED
      BY <2>2, <3>1
  <2>4. H = F
    <3> HIDE DEF f, g
    <3> QED
      BY <2>3
  <2> HIDE DEF H, F
  <2> QED
    BY <2>1, <2>2, <2>4
<1> HIDE DEF F, op, x
<1>10. /\ F[{}] = place
       /\ \A s \in SUBSET I : s # {} => F[s] = F[s \ {top(s)}] + add(top(s))
  BY <1>8
<1> DEFINE sum(j) == place + (nth \div 2 ^ (Bits - j)) * 2 ^ (by + (Bits - j))
           T == {j \in Nat : j <= Bits => F[1 .. j] = sum(j)}
<1>11. 0 \in T
  <2>1. nth \div 2 ^ (Bits - 0) = 0
    <3>1. Bits - 0 = Bits
      BY <1>0
    <3>2. 2 ^ Bits \in Nat \ {0}
      BY <1>0, PowerType
    <3> DEFINE d == 2 ^ Bits
    <3> HIDE DEF d
    <3>3. d \in Nat \ {0} /\ nth \in 0 .. d - 1
      BY <3>2 DEF d
    <3>4. (0 * d + nth) \div d = 0
      BY <3>3
    <3>5. 0 * d + nth = nth
      BY <3>3
    <3> QED
      BY <3>1, <3>4, <3>5 DEF d
  <2>2. 2 ^ (by + (Bits - 0)) \in Nat
    BY <1>0, PowerType
  <2>3. sum(0) = place
    BY <2>1, <2>2
  <2>4. 1 .. 0 = {}
    OBVIOUS
  <2> QED
    BY <1>10, <2>3, <2>4
<1>12. ASSUME NEW j \in Nat, j \in T
       PROVE  j + 1 \in T
  <2> SUFFICES ASSUME j + 1 <= Bits PROVE F[1 .. j + 1] = sum(j + 1)
    OBVIOUS
  <2> DEFINE n == j + 1
             m == Bits - n
  <2>1. j <= Bits /\ 1 .. n \in SUBSET I /\ n \in 1 .. n /\ n \in I /\ m \in Nat
        /\ Bits - j = m + 1 /\ by + (Bits - j) = by + m + 1 /\ by + m \in Nat
    BY <1>0
  <2>2. top(1 .. n) = n
    <3>1. top(1 .. n) \in 1 .. n /\ top(1 .. n) >= n
      BY <1>1, <2>1
    <3> QED
      BY <3>1
  <2>3. (1 .. n) \ {n} = 1 .. j
    OBVIOUS
  <2>4. F[1 .. n] = F[1 .. j] + add(n)
    BY <1>10, <2>1, <2>2, <2>3
  <2>5. F[1 .. j] = place + (nth \div 2 ^ (m + 1)) * 2 ^ (by + m + 1)
    BY <1>12, <2>1
  <2>6. add(n) = ((nth \div 2 ^ m) % 2) * 2 ^ (by + m)
    BY DEF add, Bit
  <2>7. /\ nth \div 2 ^ m \in Nat /\ (nth \div 2 ^ m) % 2 \in 0 .. 1
        /\ nth \div 2 ^ m = 2 * (nth \div 2 ^ (m + 1)) + ((nth \div 2 ^ m) % 2)
        /\ nth \div 2 ^ (m + 1) \in Nat
    BY <1>0, <2>1, m + 1 \in Nat, HalfAndBit
  <2>8. 2 ^ (by + m + 1) = 2 * 2 ^ (by + m) /\ 2 ^ (by + m) \in Nat
    BY <2>1, PowerOfNext
  <2>9. \A q, e \in Nat : \A b \in 0 .. 1 : q * (2 * e) + b * e = (2 * q + b) * e
    OBVIOUS
  <2> DEFINE q == nth \div 2 ^ (m + 1)
             b == (nth \div 2 ^ m) % 2
             e == 2 ^ (by + m)
  <2>10. q * (2 * e) + b * e = (2 * q + b) * e
    BY <2>7, <2>8, <2>9
  <2>11. q * (2 * e) \in Nat /\ b * e \in Nat
    BY <2>7, <2>8
  <2>12. F[1 .. n] = (place + q * (2 * e)) + b * e
    BY <2>4, <2>5, <2>6, <2>8
  <2>13. F[1 .. n] = place + (nth \div 2 ^ m) * e
    <3> HIDE DEF q, b, e
    <3>1. nth \div 2 ^ m = 2 * q + b
      BY <2>7 DEF q, b
    <3> QED
      BY <2>10, <2>11, <2>12, <3>1
  <2> QED
    BY <2>13
<1>13. Bits \in T
  <2> HIDE DEF T
  <2> QED
    BY <1>0, <1>11, <1>12, SetInduction
<1>14. F[I] = place + (nth \div 2 ^ 0) * 2 ^ (by + 0)
  <2>1. Bits - Bits = 0 /\ Bits <= Bits
    BY <1>0
  <2> QED
    BY <1>13, <2>1
<1>15. nth \div 2 ^ 0 = nth /\ by + 0 = by
  <2>1. nth \div 1 = nth
    BY <1>0
  <2> QED
    BY <2>1, PowerOfZero
<1> QED
  BY <1>9, <1>14, <1>15

-----------------------------------------------------------------------------
(***************************************************************************)
(* Generators.                                                             *)
(***************************************************************************)
Uses == {"field", "event", "election"} \X Nat

(* The generator of a stream in run 1 of a seed. *)
PlaceOf(stream) == AdvanceNthBy(1, RunShift, AdvanceNthBy(stream, StreamShift, 0))
Rng(seed, stream) == [seed |-> seed, run |-> 1, stream |-> stream, place |-> PlaceOf(stream)]

(* The variables a process may have created. *)
Variable == {[use |-> u, rng |-> Rng(s, n)] : u \in Uses, s \in Nat, n \in 0 .. Half}

ProcState == [seed : Nat, run : {1}, next : Nat, failed : BOOLEAN]

(* The cycle has twice Half places. *)
LEMMA HalfType == Half \in Nat \ {0} /\ 2 ^ Bits = 2 * Half
<1>1. Bits - 1 \in Nat /\ (Bits - 1) + 1 = Bits
  BY RngAssumption
<1> QED
  BY <1>1, PowerType, PowerOfNext DEF Half

(* A stream begins at its multiple of 2 ^ StreamShift, its first run at the *)
(* next multiple of 2 ^ RunShift.                                           *)
LEMMA StreamPlace ==
  ASSUME NEW n \in 0 .. Half
  PROVE  PlaceOf(n) = n * 2 ^ StreamShift + 2 ^ RunShift
<1>1. /\ n \in 0 .. 2 ^ Bits - 1 /\ 1 \in 0 .. 2 ^ Bits - 1
      /\ StreamShift \in Nat /\ RunShift \in Nat
  BY HalfType, RngAssumption
<1>2. 2 ^ StreamShift \in Nat /\ 2 ^ RunShift \in Nat
  BY <1>1, PowerType
<1>3. AdvanceNthBy(n, StreamShift, 0) = 0 + n * 2 ^ StreamShift
  BY <1>1, AdvanceArrives
<1>4. n * 2 ^ StreamShift \in Nat /\ 0 + n * 2 ^ StreamShift = n * 2 ^ StreamShift
  BY <1>1, <1>2
<1>5. PlaceOf(n) = n * 2 ^ StreamShift + 1 * 2 ^ RunShift
  BY <1>1, <1>3, <1>4, AdvanceArrives DEF PlaceOf
<1> QED
  BY <1>2, <1>5

(* Two automatic streams within the bound of SetStream start at different  *)
(* places of the cycle (random-variable-stream.cc:113-121).                *)
THEOREM PlacesApart ==
  ASSUME NEW m \in 0 .. Half, NEW n \in 0 .. Half, PlaceOf(m) = PlaceOf(n)
  PROVE  m = n
<1>1. 2 ^ StreamShift \in Nat \ {0} /\ 2 ^ RunShift \in Nat /\ m \in Nat /\ n \in Nat
  BY PowerType, RngAssumption, HalfType
<1>2. m * 2 ^ StreamShift + 2 ^ RunShift = n * 2 ^ StreamShift + 2 ^ RunShift
  BY StreamPlace
<1> DEFINE d == 2 ^ StreamShift
           e == 2 ^ RunShift
<1> HIDE DEF d, e
<1>3. d \in Nat \ {0} /\ e \in Nat /\ m * d + e = n * d + e
  BY <1>1, <1>2 DEF d, e
<1>4. m * d = n * d
  <2>1. m * d \in Nat /\ n * d \in Nat
    BY <1>1, <1>3
  <2> QED
    BY <1>3, <2>1
<1>5. (m * d + 0) \div d = m /\ (n * d + 0) \div d = n
  BY <1>1, <1>3
<1> QED
  BY <1>4, <1>5

-----------------------------------------------------------------------------
(***************************************************************************)
(* The variables of a process have rising streams.                         *)
(***************************************************************************)
Rising(ds, bound) ==
  /\ \A n \in 1 .. Len(ds) : ds[n].rng.stream < bound
  /\ \A m, n \in 1 .. Len(ds) : m < n => ds[m].rng.stream < ds[n].rng.stream

(* The fields of a random variable. *)
LEMMA VariableFields ==
  ASSUME NEW v \in Variable
  PROVE  /\ v.use \in Uses /\ v.rng.stream \in 0 .. Half /\ v.rng.stream \in Nat
         /\ v.rng.place = PlaceOf(v.rng.stream)
<1>1. PICK u \in Uses, s \in Nat, n \in 0 .. Half : v = [use |-> u, rng |-> Rng(s, n)]
  BY DEF Variable
<1>2. v.use = u /\ v.rng = Rng(s, n) /\ Rng(s, n).stream = n /\ Rng(s, n).place = PlaceOf(n)
  BY <1>1 DEF Rng
<1> QED
  BY <1>2, HalfType

(* The elements of a sequence are of its kind. *)
LEMMA ElementIn ==
  ASSUME NEW ds \in Seq(Variable), NEW n \in 1 .. Len(ds)
  PROVE  ds[n] \in Variable
OBVIOUS

(* A larger stream at the end keeps the streams rising. *)
LEMMA RisingAppend ==
  ASSUME NEW ds \in Seq(Variable), NEW v \in Variable, NEW b \in Nat, v.rng.stream = b,
         Rising(ds, b)
  PROVE  Append(ds, v) \in Seq(Variable) /\ Rising(Append(ds, v), b + 1)
<1> DEFINE es == Append(ds, v)
<1>1. /\ es \in Seq(Variable) /\ Len(ds) \in Nat /\ Len(es) = Len(ds) + 1
      /\ es[Len(ds) + 1] = v /\ \A n \in 1 .. Len(ds) : es[n] = ds[n]
  OBVIOUS
<1> HIDE DEF es
<1>2. \A n \in 1 .. Len(ds) : es[n].rng.stream < b /\ es[n].rng.stream \in Nat
  BY <1>1, ElementIn, VariableFields DEF Rising
<1>3. \A n \in 1 .. Len(es) : es[n].rng.stream < b + 1
  <2> SUFFICES ASSUME NEW n \in 1 .. Len(es) PROVE es[n].rng.stream < b + 1
    OBVIOUS
  <2>1. n \in 1 .. Len(ds) \/ n = Len(ds) + 1
    BY <1>1
  <2> QED
    BY <1>1, <1>2, <2>1
<1>4. \A m, n \in 1 .. Len(es) : m < n => es[m].rng.stream < es[n].rng.stream
  <2> SUFFICES ASSUME NEW m \in 1 .. Len(es), NEW n \in 1 .. Len(es), m < n
               PROVE  es[m].rng.stream < es[n].rng.stream
    OBVIOUS
  <2>1. m \in 1 .. Len(ds) /\ (n \in 1 .. Len(ds) \/ n = Len(ds) + 1)
    BY <1>1
  <2>2. CASE n \in 1 .. Len(ds)
    BY <1>1, <2>1, <2>2 DEF Rising
  <2>3. CASE n = Len(ds) + 1
    BY <1>1, <1>2, <2>1, <2>3
  <2> QED
    BY <2>1, <2>2, <2>3
<1> QED
  BY <1>1, <1>3, <1>4 DEF Rising, es

(* Streams below a counter stay below a larger one. *)
LEMMA RisingMore ==
  ASSUME NEW ds \in Seq(Variable), NEW b \in Nat, NEW c \in Nat, b <= c, Rising(ds, b)
  PROVE  Rising(ds, c)
<1>1. \A n \in 1 .. Len(ds) : ds[n].rng.stream \in Nat
  BY ElementIn, VariableFields
<1> QED
  BY <1>1 DEF Rising

-----------------------------------------------------------------------------
(***************************************************************************)
(* The invariants of the two processes.                                    *)
(***************************************************************************)
Stage == {"seed", "anim", "field", "loop", "elect", "diagLeach", "diagSeed", "diagLecmac",
          "done", "failed"}

StreamsInv ==
  /\ main \in [Run -> CommandLine]
  /\ at \in [Run -> Stage]
  /\ proc \in [Run -> ProcState]
  /\ round \in [Run -> Nat]
  /\ draws \in [Run -> Seq(Variable)]
  /\ \A i \in Run : Rising(draws[i], proc[i].next)

(* The stream of each use in a simulation without animation. *)
StreamOf(use) ==
  CASE use[1] = "field" -> 0
    [] use[1] = "event" -> 2 * use[2] - 1
    [] OTHER -> 2 * use[2]

Simulates(i) == main[i].program \in Entry /\ ~main[i].anim

(* Such a process has created its variables in the order of the streams.   *)
UsesAt(i) ==
  /\ at[i] \in {"seed", "field", "loop", "elect", "failed", "done"}
  /\ at[i] \in {"seed", "field"} => proc[i].next = 0 /\ round[i] = 0
  /\ at[i] = "loop" => proc[i].next = 1 + 2 * round[i]
  /\ at[i] = "elect" => proc[i].next = 2 * round[i]
  /\ at[i] # "seed" => proc[i].seed = main[i].seed
  /\ \A n \in 1 .. Len(draws[i]) :
       draws[i][n].rng = Rng(main[i].seed, StreamOf(draws[i][n].use))

UsesInv == \A i \in Run : Simulates(i) => UsesAt(i)

(* A call of SetStream(-1). *)
LEMMA DrawFacts ==
  ASSUME StreamsInv, NEW i \in Run, NEW use \in Uses, Draw(i, use)
  PROVE  /\ proc' \in [Run -> ProcState] /\ draws' \in [Run -> Seq(Variable)]
         /\ \A j \in Run : j # i => proc'[j] = proc[j] /\ draws'[j] = draws[j]
         /\ proc'[i].next = proc[i].next + 1 /\ proc'[i].seed = proc[i].seed
         /\ Rising(draws'[i], proc'[i].next)
         /\ \/ draws'[i] = draws[i]
            \/ draws'[i] = Append(draws[i], [use |-> use, rng |-> Rng(proc[i].seed, proc[i].next)])
<1> DEFINE p == proc[i]
           v == [use |-> use, rng |-> Rng(p.seed, p.next)]
<1>1. /\ p \in ProcState /\ draws[i] \in Seq(Variable) /\ Rising(draws[i], p.next)
      /\ proc \in [Run -> ProcState] /\ draws \in [Run -> Seq(Variable)]
  BY DEF StreamsInv
<1>2. p.next \in Nat /\ p.seed \in Nat /\ p.run = 1 /\ p.next + 1 \in Nat
  BY <1>1 DEF ProcState
<1>3. AfterSetStream(p) \in ProcState /\ AfterSetStream(p).next = p.next + 1
      /\ AfterSetStream(p).seed = p.seed
  <2>1. Refused(p) \in BOOLEAN
    BY DEF Refused, ValidSeed
  <2> QED
    BY <1>1, <1>2, <2>1 DEF AfterSetStream, ProcState
<1>4. proc' = [proc EXCEPT ![i] = AfterSetStream(p)]
      /\ draws' = [draws EXCEPT ![i] = draws[i] \o Created(i, use)]
  BY DEF Draw
<1>5. /\ proc' \in [Run -> ProcState] /\ proc'[i] = AfterSetStream(p)
      /\ \A j \in Run : j # i => proc'[j] = proc[j] /\ draws'[j] = draws[j]
      /\ draws'[i] = draws[i] \o Created(i, use)
  <2> HIDE DEF p
  <2> QED
    BY <1>1, <1>3, <1>4
<1>6. CASE Refused(p)
  <2>1. Created(i, use) = <<>>
    BY <1>6 DEF Created
  <2>2. draws'[i] = draws[i]
    BY <1>1, <1>5, <2>1, ConcatEmptySeq
  <2>3. Rising(draws'[i], p.next + 1)
    BY <1>1, <1>2, <2>2, RisingMore
  <2>4. draws' \in [Run -> Seq(Variable)]
    BY <1>1, <1>4, <1>5, <2>2
  <2> QED
    BY <1>3, <1>5, <2>2, <2>3, <2>4
<1>7. CASE ~Refused(p)
  <2>1. p.next \in 0 .. Half
    BY <1>2, <1>7, HalfType DEF Refused
  <2>2. Generator(p, p.next) = Rng(p.seed, p.next)
    BY <1>2 DEF Generator, Rng, PlaceOf
  <2>3. Created(i, use) = <<v>>
    BY <1>7, <2>2 DEF Created
  <2>4. v \in Variable /\ v.rng.stream = p.next
    BY <1>2, <2>1 DEF Variable, Rng
  <2> HIDE DEF v
  <2>5. draws'[i] = Append(draws[i], v)
    BY <1>1, <1>5, <2>3, <2>4, AppendIsConcat
  <2>6. draws'[i] \in Seq(Variable) /\ Rising(draws'[i], p.next + 1)
    BY <1>1, <1>2, <2>4, <2>5, RisingAppend
  <2>7. draws' \in [Run -> Seq(Variable)]
    BY <1>1, <1>4, <1>5, <2>6
  <2> QED
    BY <1>3, <1>5, <2>5, <2>6, <2>7 DEF v
<1> QED
  BY <1>6, <1>7

(* Where main goes. *)
LEMMA GotoFacts ==
  ASSUME StreamsInv, NEW i \in Run, NEW place \in Stage, Goto(i, place)
  PROVE  /\ at' \in [Run -> Stage] /\ at'[i] \in {"failed", place}
         /\ \A j \in Run : j # i => at'[j] = at[j]
<1> DEFINE to == IF proc'[i].failed THEN "failed" ELSE place
<1>1. to \in {"failed", place} /\ to \in Stage
  BY DEF Stage
<1>2. at' = [at EXCEPT ![i] = to] /\ at \in [Run -> Stage]
  BY DEF Goto, StreamsInv
<1> HIDE DEF to
<1> QED
  BY <1>1, <1>2

(* A process whose stream counter does not go back. *)
LEMMA ProcFacts ==
  ASSUME StreamsInv, NEW i \in Run, NEW p \in ProcState, p.next >= proc[i].next,
         proc' = [proc EXCEPT ![i] = p], draws' = draws
  PROVE  /\ proc' \in [Run -> ProcState] /\ proc'[i] = p
         /\ \A j \in Run : j # i => proc'[j] = proc[j]
         /\ \A j \in Run : Rising(draws'[j], proc'[j].next)
<1>1. /\ proc' \in [Run -> ProcState] /\ proc'[i] = p
      /\ \A j \in Run : j # i => proc'[j] = proc[j]
      /\ proc[i] \in ProcState /\ draws[i] \in Seq(Variable) /\ Rising(draws[i], proc[i].next)
  BY DEF StreamsInv
<1>2. Rising(draws[i], p.next)
  BY <1>1, RisingMore DEF ProcState
<1> QED
  BY <1>1, <1>2 DEF StreamsInv

(* The initial states have both invariants. *)
LEMMA InitStreams == Init => StreamsInv /\ UsesInv
<1> SUFFICES ASSUME Init PROVE StreamsInv /\ UsesInv
  OBVIOUS
<1>1. /\ main \in [Run -> CommandLine] /\ at = [i \in Run |-> "seed"]
      /\ proc = [i \in Run |-> Process] /\ round = [i \in Run |-> 0]
      /\ draws = [i \in Run |-> <<>>]
  BY DEF Init
<1>2. Process \in ProcState /\ Process.next = 0
  BY DEF Process, ProcState
<1>3. \A i \in Run : draws[i] = <<>> /\ Len(draws[i]) = 0 /\ draws[i] \in Seq(Variable)
  BY <1>1
<1>4. StreamsInv
  <2>1. at \in [Run -> Stage] /\ round \in [Run -> Nat]
    BY <1>1 DEF Stage
  <2>2. proc \in [Run -> ProcState]
    BY <1>1, <1>2
  <2>3. draws \in [Run -> Seq(Variable)]
    BY <1>1, <1>3
  <2>4. \A i \in Run : Rising(draws[i], proc[i].next)
    BY <1>3 DEF Rising
  <2> QED
    BY <1>1, <2>1, <2>2, <2>3, <2>4 DEF StreamsInv
<1>5. UsesInv
  BY <1>1, <1>2, <1>3 DEF UsesInv, UsesAt
<1> QED
  BY <1>4, <1>5

(* A variable created in its turn. *)
InTurn(i, use, place) ==
  Simulates(i) =>
    /\ at[i] \in {"field", "loop", "elect"} /\ proc[i].next = StreamOf(use)
    /\ \/ place = "loop" /\ proc[i].next + 1 = 1 + 2 * round'[i]
       \/ place = "elect" /\ proc[i].next + 1 = 2 * round'[i]

(* A step of one process that creates a variable. *)
LEMMA DrawKeeps ==
  ASSUME StreamsInv, UsesInv, NEW i \in Run, NEW use \in Uses, Draw(i, use),
         NEW place \in Stage, Goto(i, place), main' = main,
         round' \in [Run -> Nat], \A j \in Run : j # i => round'[j] = round[j],
         InTurn(i, use, place)
  PROVE  StreamsInv' /\ UsesInv'
<1>1. /\ proc' \in [Run -> ProcState] /\ draws' \in [Run -> Seq(Variable)]
      /\ \A j \in Run : j # i => proc'[j] = proc[j] /\ draws'[j] = draws[j]
      /\ proc'[i].next = proc[i].next + 1 /\ proc'[i].seed = proc[i].seed
      /\ Rising(draws'[i], proc'[i].next)
      /\ \/ draws'[i] = draws[i]
         \/ draws'[i] = Append(draws[i], [use |-> use, rng |-> Rng(proc[i].seed, proc[i].next)])
  BY DrawFacts
<1>2. /\ at' \in [Run -> Stage] /\ at'[i] \in {"failed", place}
      /\ \A j \in Run : j # i => at'[j] = at[j]
  BY GotoFacts
<1>3. StreamsInv'
  BY <1>1, <1>2 DEF StreamsInv
<1>4. ASSUME NEW j \in Run, Simulates(j)'
      PROVE  UsesAt(j)'
  <2>1. Simulates(j)
    BY <1>4 DEF Simulates
  <2>2. UsesAt(j)
    BY <2>1 DEF UsesInv
  <2>3. CASE j # i
    BY <1>1, <1>2, <2>2, <2>3 DEF UsesAt
  <2>4. CASE j = i
    <3>1. proc[i].seed = main[i].seed
      BY <2>1, <2>2, <2>4 DEF UsesAt, InTurn
    <3>2. \A n \in 1 .. Len(draws'[i]) :
            draws'[i][n].rng = Rng(main[i].seed, StreamOf(draws'[i][n].use))
      <4> DEFINE v == [use |-> use, rng |-> Rng(proc[i].seed, proc[i].next)]
      <4>1. \A n \in 1 .. Len(draws[i]) :
              draws[i][n].rng = Rng(main[i].seed, StreamOf(draws[i][n].use))
        BY <2>2, <2>4 DEF UsesAt
      <4>2. CASE draws'[i] = draws[i]
        BY <4>1, <4>2
      <4>3. CASE draws'[i] = Append(draws[i], v)
        <5>1. v.rng = Rng(main[i].seed, StreamOf(v.use))
          BY <2>1, <2>4, <3>1 DEF InTurn
        <5> HIDE DEF v
        <5>2. /\ draws[i] \in Seq(Variable) /\ Len(draws'[i]) = Len(draws[i]) + 1
              /\ draws'[i][Len(draws[i]) + 1] = v /\ Len(draws[i]) \in Nat
              /\ \A n \in 1 .. Len(draws[i]) : draws'[i][n] = draws[i][n]
          BY <4>3 DEF StreamsInv
        <5>3. \A n \in 1 .. Len(draws'[i]) : n \in 1 .. Len(draws[i]) \/ n = Len(draws[i]) + 1
          BY <5>2
        <5> QED
          BY <4>1, <5>1, <5>2, <5>3
      <4> QED
        BY <1>1, <4>2, <4>3
    <3> QED
      BY <1>1, <1>2, <2>1, <2>4, <3>1, <3>2 DEF UsesAt, InTurn
  <2> QED
    BY <2>3, <2>4
<1> QED
  BY <1>3, <1>4 DEF UsesInv

(* A step of one process that creates none. *)
LEMMA SeedKeeps ==
  ASSUME StreamsInv, UsesInv, NEW i \in Run, NEW p \in ProcState, p.next >= proc[i].next,
         proc' = [proc EXCEPT ![i] = p], UNCHANGED <<main, round, draws>>,
         at' \in [Run -> Stage], \A j \in Run : j # i => at'[j] = at[j],
         Simulates(i) =>
           \/ /\ at[i] = "seed" /\ at'[i] \in {"failed", "field"}
              /\ p.seed = main[i].seed /\ p.next = proc[i].next
           \/ at[i] # "seed" /\ at'[i] = "done" /\ p = proc[i]
  PROVE  StreamsInv' /\ UsesInv'
<1>1. /\ proc' \in [Run -> ProcState] /\ proc'[i] = p
      /\ \A j \in Run : j # i => proc'[j] = proc[j]
      /\ \A j \in Run : Rising(draws'[j], proc'[j].next)
  BY ProcFacts
<1>2. StreamsInv'
  BY <1>1 DEF StreamsInv
<1>3. ASSUME NEW j \in Run, Simulates(j)'
      PROVE  UsesAt(j)'
  <2>1. Simulates(j)
    BY <1>3 DEF Simulates
  <2>2. UsesAt(j)
    BY <2>1 DEF UsesInv
  <2>3. CASE j # i
    BY <1>1, <2>2, <2>3 DEF UsesAt
  <2>4. CASE j = i
    BY <1>1, <2>1, <2>2, <2>4 DEF UsesAt
  <2> QED
    BY <2>3, <2>4
<1> QED
  BY <1>2, <1>3 DEF UsesInv

(* Seeding leaves the stream counter alone. *)
LEMMA SeededType ==
  ASSUME NEW p \in ProcState, NEW seed \in Nat
  PROVE  Seeded(p, seed) \in ProcState /\ Seeded(p, seed).next = p.next
         /\ Seeded(p, seed).next >= p.next /\ Seeded(p, seed).seed = seed
<1>1. Seeded(p, seed) \in ProcState /\ Seeded(p, seed).next = p.next /\ p.next \in Nat
      /\ Seeded(p, seed).seed = seed
  BY DEF Seeded, ProcState
<1> QED
  BY <1>1

(* Every step keeps both invariants. *)
LEMMA StreamsStep ==
  ASSUME StreamsInv, UsesInv, NEW i \in Run, Step(i)
  PROVE  StreamsInv' /\ UsesInv'
<1>0. /\ proc[i] \in ProcState /\ proc[i].next \in Nat /\ round[i] \in Nat
      /\ main[i].seed \in Nat /\ round \in [Run -> Nat] /\ at \in [Run -> Stage]
      /\ Simulates(i) => UsesAt(i) /\ main[i].program # "diag" /\ ~main[i].anim
  BY WsnStreamsAssumption
  DEF StreamsInv, UsesInv, ProcState, CommandLine, Simulates, Entry
<1>1. CASE SetSeed(i)
  <2> DEFINE place == CASE main[i].anim -> "anim"
                        [] main[i].program = "diag" -> "diagLeach"
                        [] OTHER -> "field"
  <2>1. /\ at[i] = "seed" /\ Goto(i, place) /\ UNCHANGED <<main, round, draws>>
        /\ proc' = [proc EXCEPT ![i] = Seeded(proc[i], main[i].seed)]
    BY <1>1 DEF SetSeed
  <2>2. place \in Stage /\ (Simulates(i) => place = "field")
    BY <1>0 DEF Stage, CommandLine, StreamsInv
  <2> HIDE DEF place
  <2>3. /\ at' \in [Run -> Stage] /\ at'[i] \in {"failed", place}
        /\ \A j \in Run : j # i => at'[j] = at[j]
    BY <2>1, <2>2, GotoFacts
  <2>4. Seeded(proc[i], main[i].seed) \in ProcState
        /\ Seeded(proc[i], main[i].seed).next >= proc[i].next
        /\ Seeded(proc[i], main[i].seed).next = proc[i].next
        /\ Seeded(proc[i], main[i].seed).seed = main[i].seed
    BY <1>0, SeededType
  <2> QED
    BY <2>1, <2>2, <2>3, <2>4, SeedKeeps
<1>2. CASE Animate(i)
  <2>1. PICK n \in AnimStreams :
          proc' = [proc EXCEPT ![i].failed = ~ValidSeed(proc[i]), ![i].next = @ + n]
    BY <1>2 DEF Animate
  <2> DEFINE p == [proc[i] EXCEPT !.failed = ~ValidSeed(proc[i]), !.next = @ + n]
  <2>2. n \in Nat /\ ValidSeed(proc[i]) \in BOOLEAN
    BY WsnStreamsAssumption DEF ValidSeed
  <2>3. p \in ProcState /\ p.next >= proc[i].next
    <3>1. proc[i].next + n \in Nat /\ proc[i].next + n >= proc[i].next
      BY <1>0, <2>2
    <3>2. p \in ProcState /\ p.next = proc[i].next + n
      BY <1>0, <2>2, <3>1 DEF ProcState
    <3> QED
      BY <3>1, <3>2
  <2>4. proc' = [proc EXCEPT ![i] = p]
    BY <2>1 DEF StreamsInv
  <2>5. /\ at[i] = "anim" /\ Goto(i, "field") /\ UNCHANGED <<main, round, draws>>
    BY <1>2 DEF Animate
  <2>6. /\ at' \in [Run -> Stage] /\ \A j \in Run : j # i => at'[j] = at[j]
    BY <2>5, GotoFacts DEF Stage
  <2>7. ~Simulates(i)
    BY <1>0, <2>5 DEF UsesAt
  <2> HIDE DEF p
  <2> QED
    BY <2>3, <2>4, <2>5, <2>6, <2>7, SeedKeeps
<1>3. CASE PrepareNodes(i)
  <2>1. /\ at[i] = "field" /\ Draw(i, <<"field", 0>>) /\ Goto(i, "loop")
        /\ UNCHANGED <<main, round>>
    BY <1>3 DEF PrepareNodes
  <2>2. <<"field", 0>> \in Uses /\ "loop" \in Stage /\ StreamOf(<<"field", 0>>) = 0
    BY DEF Uses, Stage, StreamOf
  <2>3. Simulates(i) => proc[i].next = 0 /\ round[i] = 0
    BY <1>0, <2>1 DEF UsesAt
  <2>4. InTurn(i, <<"field", 0>>, "loop")
    BY <2>1, <2>2, <2>3 DEF InTurn
  <2> QED
    BY <1>0, <2>1, <2>2, <2>4, DrawKeeps
<1>4. CASE SimulateRound(i)
  <2> DEFINE r == round[i] + 1
  <2>1. /\ at[i] = "loop" /\ round' = [round EXCEPT ![i] = r] /\ Draw(i, <<"event", r>>)
        /\ Goto(i, "elect") /\ main' = main
    BY <1>0, <1>4 DEF SimulateRound
  <2>2. /\ <<"event", r>> \in Uses /\ "elect" \in Stage
        /\ StreamOf(<<"event", r>>) = 2 * r - 1
    BY <1>0 DEF Uses, Stage, StreamOf
  <2>3. Simulates(i) => proc[i].next = 1 + 2 * round[i]
    BY <1>0, <2>1 DEF UsesAt
  <2>4. /\ round' \in [Run -> Nat] /\ round'[i] = r
        /\ \A j \in Run : j # i => round'[j] = round[j]
    BY <1>0, <2>1
  <2>5. Simulates(i) => proc[i].next = 2 * r - 1 /\ proc[i].next + 1 = 2 * r
    BY <1>0, <2>3
  <2>6. InTurn(i, <<"event", r>>, "elect")
    BY <2>1, <2>2, <2>4, <2>5 DEF InTurn
  <2> HIDE DEF r
  <2> QED
    BY <2>1, <2>2, <2>4, <2>6, DrawKeeps
<1>5. CASE SelectClusterHeads(i)
  <2>1. /\ at[i] = "elect" /\ Draw(i, <<"election", round[i]>>) /\ Goto(i, "loop")
        /\ UNCHANGED <<main, round>>
    BY <1>5 DEF SelectClusterHeads
  <2>2. /\ <<"election", round[i]>> \in Uses /\ "loop" \in Stage
        /\ StreamOf(<<"election", round[i]>>) = 2 * round[i]
    BY <1>0 DEF Uses, Stage, StreamOf
  <2>3. Simulates(i) => proc[i].next = 2 * round[i] /\ proc[i].next + 1 = 1 + 2 * round[i]
    BY <1>0, <2>1 DEF UsesAt
  <2>4. /\ round' \in [Run -> Nat] /\ \A j \in Run : j # i => round'[j] = round[j]
    BY <1>0, <2>1
  <2>5. InTurn(i, <<"election", round[i]>>, "loop")
    BY <2>1, <2>2, <2>3 DEF InTurn
  <2> QED
    BY <2>1, <2>2, <2>4, <2>5, DrawKeeps
<1>6. CASE Finish(i)
  <2>1. /\ at[i] = "loop" /\ at' = [at EXCEPT ![i] = "done"]
        /\ UNCHANGED <<main, proc, round, draws>>
    BY <1>6 DEF Finish
  <2>2. at' \in [Run -> Stage] /\ at'[i] = "done" /\ \A j \in Run : j # i => at'[j] = at[j]
    BY <1>0, <2>1 DEF Stage
  <2>3. proc' = [proc EXCEPT ![i] = proc[i]]
    BY <2>1 DEF StreamsInv
  <2>4. proc[i].next >= proc[i].next
    BY <1>0
  <2> QED
    BY <1>0, <2>1, <2>2, <2>3, <2>4, SeedKeeps
<1>7. CASE Diagnose(i)
  <2> DEFINE place == IF at[i] = "diagLeach" THEN "diagSeed" ELSE "done"
  <2>1. /\ at[i] \in {"diagLeach", "diagLecmac"} /\ Draw(i, <<"field", 0>>) /\ Goto(i, place)
        /\ UNCHANGED <<main, round>>
    BY <1>7 DEF Diagnose
  <2>2. <<"field", 0>> \in Uses /\ place \in Stage
    BY DEF Uses, Stage
  <2>3. ~Simulates(i)
    BY <1>0, <2>1 DEF UsesAt
  <2>4. InTurn(i, <<"field", 0>>, place)
    BY <2>3 DEF InTurn
  <2> HIDE DEF place
  <2> QED
    BY <1>0, <2>1, <2>2, <2>4, DrawKeeps
<1>8. CASE DiagnoseAgain(i)
  <2>1. /\ at[i] = "diagSeed" /\ Goto(i, "diagLecmac") /\ UNCHANGED <<main, round, draws>>
        /\ proc' = [proc EXCEPT ![i] = Seeded(proc[i], main[i].seed)]
    BY <1>8 DEF DiagnoseAgain
  <2>2. /\ at' \in [Run -> Stage] /\ \A j \in Run : j # i => at'[j] = at[j]
    BY <2>1, GotoFacts DEF Stage
  <2>3. ~Simulates(i)
    BY <1>0, <2>1 DEF UsesAt
  <2>4. Seeded(proc[i], main[i].seed) \in ProcState
        /\ Seeded(proc[i], main[i].seed).next >= proc[i].next
    BY <1>0, SeededType
  <2> QED
    BY <2>1, <2>2, <2>3, <2>4, SeedKeeps
<1> QED
  BY <1>1, <1>2, <1>3, <1>4, <1>5, <1>6, <1>7, <1>8 DEF Step

(* Both invariants hold in every state. *)
THEOREM StreamsKept == Spec => [](StreamsInv /\ UsesInv)
<1>1. Init => StreamsInv /\ UsesInv
  BY InitStreams
<1>2. StreamsInv /\ UsesInv /\ [Next]_vars => (StreamsInv /\ UsesInv)'
  <2> SUFFICES ASSUME StreamsInv, UsesInv, [Next]_vars PROVE StreamsInv' /\ UsesInv'
    OBVIOUS
  <2>1. CASE UNCHANGED vars
    BY <2>1 DEF vars, StreamsInv, UsesInv, Simulates, UsesAt
  <2>2. CASE Next
    BY <2>2, StreamsStep DEF Next
  <2> QED
    BY <2>1, <2>2
<1> QED
  BY <1>1, <1>2, PTL DEF Spec

-----------------------------------------------------------------------------
(***************************************************************************)
(* Theorems.                                                               *)
(***************************************************************************)
(* No two variables a process creates start at the same place: the stream  *)
(* index only grows, SetSeed does not take it back (wsn-diag.cc:41), and   *)
(* AdvanceNthBy (rng-stream.cc:388-404) takes no two indices up to the     *)
(* bound of SetStream to one place.                                        *)
THEOREM OwnStreamsCorrect == Spec => []OwnStreams
<1>1. ASSUME StreamsInv
      PROVE  OwnStreams
  <2> SUFFICES ASSUME NEW i \in Run, NEW j \in DOMAIN draws[i], NEW n \in DOMAIN draws[i],
                      draws[i][j].rng.place = draws[i][n].rng.place
               PROVE  j = n
    BY DEF OwnStreams
  <2>1. /\ draws[i] \in Seq(Variable) /\ Rising(draws[i], proc[i].next)
        /\ j \in 1 .. Len(draws[i]) /\ n \in 1 .. Len(draws[i]) /\ j \in Nat /\ n \in Nat
    BY <1>1 DEF StreamsInv
  <2> DEFINE a == draws[i][j]
             b == draws[i][n]
  <2>2. /\ a.rng.stream \in 0 .. Half /\ b.rng.stream \in 0 .. Half
        /\ a.rng.stream \in Nat /\ b.rng.stream \in Nat
        /\ a.rng.place = PlaceOf(a.rng.stream) /\ b.rng.place = PlaceOf(b.rng.stream)
    BY <2>1, ElementIn, VariableFields
  <2>3. a.rng.stream = b.rng.stream
    <3> HIDE DEF a, b
    <3>1. a.rng.place = b.rng.place
      BY DEF a, b
    <3> QED
      BY <2>2, <3>1, PlacesApart
  <2>4. ~(j < n) /\ ~(n < j)
    BY <2>1, <2>2, <2>3 DEF Rising
  <2> QED
    BY <2>1, <2>4
<1>2. StreamsInv => OwnStreams
  BY <1>1
<1> QED
  BY <1>2, StreamsKept, PTL

(* Two simulations of any two protocols under one seed, without animation, *)
(* draw the same numbers for the same use: the field comes from stream 0,  *)
(* the event and the election of round r from streams 2r - 1 and 2r.       *)
THEOREM SameDrawsCorrect == Spec => []SameDraws
<1>1. ASSUME StreamsInv, UsesInv
      PROVE  SameDraws
  <2> SUFFICES ASSUME main[1].seed = main[2].seed,
                      \A i \in Run : main[i].program \in Entry /\ ~main[i].anim,
                      NEW d \in Drawn(1), NEW e \in Drawn(2), d.use = e.use
               PROVE  d.rng = e.rng
    BY DEF SameDraws
  <2>1. 1 \in Run /\ 2 \in Run
    BY DEF Run
  <2>2. /\ draws[1] \in Seq(Variable) /\ draws[2] \in Seq(Variable)
        /\ UsesAt(1) /\ UsesAt(2)
    BY <1>1, <2>1 DEF StreamsInv, UsesInv, Simulates
  <2>3. PICK j \in 1 .. Len(draws[1]) : d = draws[1][j]
    BY <2>2 DEF Drawn, Range
  <2>4. PICK n \in 1 .. Len(draws[2]) : e = draws[2][n]
    BY <2>2 DEF Drawn, Range
  <2>5. d.rng = Rng(main[1].seed, StreamOf(d.use)) /\ e.rng = Rng(main[2].seed, StreamOf(e.use))
    BY <2>2, <2>3, <2>4 DEF UsesAt
  <2> QED
    BY <2>5
<1>2. StreamsInv /\ UsesInv => SameDraws
  BY <1>1
<1> QED
  BY <1>2, StreamsKept, PTL

=============================================================================
