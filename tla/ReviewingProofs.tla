-------------------------- MODULE ReviewingProofs --------------------------
(***************************************************************************)
(* What specialists read, for any evidence, any limits, any answers and    *)
(* any number of outages and restarts.                                     *)
(*                                                                         *)
(* ReviewInv follows every fragment: the items of a round stand for all    *)
(* fragments and no two for the same one, the answers of the round stand   *)
(* for the items before place, and a checkpoint stands for what its input  *)
(* did, whatever attempt it is of.  OnceInv adds the history that bounds   *)
(* the calls: without faults an attempt is one computation, and as long as *)
(* its evidence is the same, every checkpoint is of a call of it.          *)
(*                                                                         *)
(* First the functions that recurse over data.  What they compute is shown *)
(* by an induction over a set of numbers, which needs no operator for a    *)
(* parameter, and so does that such a function exists at all.              *)
(***************************************************************************)
EXTENDS Reviewing, FiniteSetTheorems, WellFoundedInduction, TLAPS

\* A set that has 0 and the successor of each of its numbers has them all: the
\* least number that it had not would have a predecessor that it has.
LEMMA Induction ==
  ASSUME NEW S, 0 \in S, \A n \in Nat : n \in S => n + 1 \in S
  PROVE  Nat \subseteq S
<1> DEFINE T == Nat \ S
<1>1. SUFFICES ASSUME T # {} PROVE FALSE
  OBVIOUS
<1>2. PICK x \in T : \A y \in T : ~ (<<y, x>> \in OpToRel(<, Nat))
  BY <1>1, NatLessThanWellFounded, WFMin, T \subseteq Nat
<1>3. \A y \in T : ~(y < x)
  BY <1>2 DEF OpToRel
<1>4. x # 0 /\ x \in Nat
  OBVIOUS
<1>5. x - 1 \in Nat /\ x - 1 < x
  BY <1>4
<1>6. x - 1 \in S
  BY <1>3, <1>5
<1> QED BY <1>5, <1>6
-----------------------------------------------------------------------------
(* Recursion over data.                                                    *)
\* A function that each step takes from the one before exists.
StaysIn(step, n, V) == \A k \in 1..n : \A v \in V : step[<<k, v>>] \in V
Follows(f, base, step, n) == f[0] = base /\ \A k \in 1..n : f[k] = step[<<k, f[k - 1]>>]

LEMMA Recursion ==
  ASSUME NEW V, NEW base \in V, NEW n \in Nat, NEW step, StaysIn(step, n, V)
  PROVE  \E f \in [0..n -> V] : Follows(f, base, step, n)
<1> USE DEF Follows, StaysIn
<1> DEFINE From(f, m) == Follows(f, base, step, m)
           S == {m \in Nat : m <= n => \E f \in [0..m -> V] : From(f, m)}
<1>1. 0 \in S
  <2>1. [k \in 0..0 |-> base] \in [0..0 -> V] /\ From([k \in 0..0 |-> base], 0)
    OBVIOUS
  <2> QED BY <2>1
<1>2. ASSUME NEW m \in Nat, m \in S PROVE m + 1 \in S
  <2> SUFFICES ASSUME m + 1 <= n PROVE \E f \in [0..(m + 1) -> V] : From(f, m + 1)
    OBVIOUS
  <2>1. PICK f \in [0..m -> V] : From(f, m)
    BY <1>2
  <2> DEFINE g == [k \in 0..(m + 1) |-> IF k = m + 1 THEN step[<<m + 1, f[m]>>] ELSE f[k]]
  <2>2. step[<<m + 1, f[m]>>] \in V
    <3>1. m + 1 \in 1..n /\ f[m] \in V
      OBVIOUS
    <3> QED BY <3>1
  <2>3. g \in [0..(m + 1) -> V]
    BY <2>2
  <2>4. g[0] = base
    BY <2>1
  <2>5. ASSUME NEW k \in 1..(m + 1) PROVE g[k] = step[<<k, g[k - 1]>>]
    <3>1. g[k - 1] = f[k - 1]
      OBVIOUS
    <3>2. CASE k = m + 1
      <4>1. k - 1 = m /\ g[k - 1] = f[m]
        BY <3>1, <3>2
      <4>2. g[k] = step[<<m + 1, f[m]>>]
        BY <3>2
      <4> QED BY <3>2, <4>1, <4>2
    <3>3. CASE k \in 1..m
      BY <2>1, <3>1, <3>3
    <3> QED BY <3>2, <3>3
  <2> QED BY <2>3, <2>4, <2>5
<1> HIDE DEF S
<1>3. n \in S
  BY <1>1, <1>2, Induction
<1> QED BY <1>3 DEF S

\* What Size adds up.
Sized(batch) == Len(batch) \in Nat /\ DOMAIN batch = 1..Len(batch) /\ \A i \in DOMAIN batch : batch[i].size \in Nat

Totals(f, batch) ==
    /\ f \in [0..Len(batch) -> Nat]
    /\ f[0] = 0
    /\ \A k \in 1..Len(batch) : f[k] = f[k - 1] + batch[k].size

\* Size is the last of the running totals.
LEMMA SizeIs ==
  ASSUME NEW batch, Sized(batch)
  PROVE  \E f : Totals(f, batch) /\ Size(batch) = f[Len(batch)]
<1> DEFINE n == Len(batch)
           Is(f) == f = [k \in 0..n |-> IF k = 0 THEN 0 ELSE f[k - 1] + batch[k].size]
           step == [e \in (1..n) \X Nat |-> e[2] + batch[e[1]].size]
<1>1. n \in Nat /\ \A k \in 1..n : batch[k].size \in Nat
  BY DEF Sized
<1>2. \A k \in 1..n : \A v \in Nat : step[<<k, v>>] = v + batch[k].size /\ step[<<k, v>>] \in Nat
  BY <1>1
<1> HIDE DEF n, step
<1>3. PICK f \in [0..n -> Nat] : Follows(f, 0, step, n)
  <2>1. StaysIn(step, n, Nat)
    BY <1>2 DEF StaysIn
  <2>2. n \in Nat /\ 0 \in Nat
    BY <1>1
  <2> QED BY <2>1, <2>2, Recursion, Zenon
<1>4. \A k \in 1..n : f[k - 1] \in Nat
  BY <1>1
<1>5. \A k \in 1..n : f[k] = f[k - 1] + batch[k].size
  BY <1>2, <1>3, <1>4 DEF Follows
<1>6. Is(f)
  BY <1>1, <1>3, <1>5 DEF Follows
<1> DEFINE h == CHOOSE g : Is(g)
<1>7. Is(h)
  BY <1>6
<1>8. Size(batch) = h[n]
  BY DEF Size, n
<1> HIDE DEF h
<1>9. h[0] = 0 /\ \A k \in 1..n : h[k] = h[k - 1] + batch[k].size
  BY <1>1, <1>7
<1> DEFINE S == {m \in Nat : m <= n => h[m] \in Nat}
<1>10. 0 \in S
  BY <1>9
<1>11. ASSUME NEW m \in Nat, m \in S PROVE m + 1 \in S
  <2> SUFFICES ASSUME m + 1 <= n PROVE h[m + 1] \in Nat
    OBVIOUS
  <2>1. m + 1 \in 1..n /\ (m + 1) - 1 = m /\ h[m] \in Nat
    BY <1>1, <1>11
  <2>2. h[m + 1] = h[m] + batch[m + 1].size
    BY <1>9, <2>1
  <2> QED BY <1>1, <2>1, <2>2
<1>12. \A m \in Nat : m \in S
  <2> HIDE DEF S
  <2> QED BY <1>10, <1>11, Induction
<1>13. h \in [0..n -> Nat]
  <2>1. \A k \in 0..n : h[k] \in Nat
    BY <1>1, <1>12
  <2> QED BY <1>7, <2>1
<1> QED BY <1>8, <1>9, <1>13 DEF Totals, n

\* One more item adds its size.
LEMMA SizeOfLonger ==
  ASSUME NEW b, NEW c, Sized(b), Sized(c), Len(c) = Len(b) + 1, \A i \in 1..Len(b) : c[i] = b[i]
  PROVE  Size(c) = Size(b) + c[Len(c)].size
<1>1. PICK f : Totals(f, b) /\ Size(b) = f[Len(b)]
  BY SizeIs
<1>2. PICK g : Totals(g, c) /\ Size(c) = g[Len(c)]
  BY SizeIs
<1> DEFINE n == Len(b)
           S == {m \in Nat : m <= n => f[m] = g[m]}
<1>3. n \in Nat
  BY DEF Sized
<1>4. 0 \in S
  BY <1>1, <1>2 DEF Totals
<1>5. ASSUME NEW m \in Nat, m \in S PROVE m + 1 \in S
  <2> SUFFICES ASSUME m + 1 <= n PROVE f[m + 1] = g[m + 1]
    OBVIOUS
  <2>1. m + 1 \in 1..n /\ m + 1 \in 1..Len(c) /\ (m + 1) - 1 = m /\ f[m] = g[m]
    BY <1>3, <1>5
  <2>2. f[m + 1] = f[m] + b[m + 1].size /\ g[m + 1] = g[m] + c[m + 1].size
    BY <1>1, <1>2, <2>1 DEF Totals
  <2> QED BY <2>1, <2>2
<1>6. f[n] = g[n]
  <2> HIDE DEF S
  <2>1. n \in S
    BY <1>3, <1>4, <1>5, Induction
  <2> QED BY <1>3, <2>1 DEF S
<1>7. Len(c) \in 1..Len(c) /\ Len(c) - 1 = n
  BY <1>3
<1>8. g[Len(c)] = g[n] + c[Len(c)].size
  BY <1>2, <1>7 DEF Totals
<1> QED BY <1>1, <1>2, <1>6, <1>8

\* Nothing has no size.
LEMMA SizeOfNone == Size(<<>>) = 0
<1>1. Sized(<<>>) /\ Len(<<>>) = 0
  BY DEF Sized
<1> QED BY <1>1, SizeIs DEF Totals

\* A size is a number.
LEMMA SizeIsNat == ASSUME NEW b, Sized(b) PROVE Size(b) \in Nat
BY SizeIs DEF Totals, Sized
-----------------------------------------------------------------------------
(* Fragments, and the entries of all evidence.                             *)
\* The arithmetic of fragments: quotients and multiples of Step.
LEMMA Division ==
  ASSUME NEW a \in Nat, NEW s \in Nat \ {0}
  PROVE  a \div s \in Nat /\ (a \div s) * s <= a /\ a < (a \div s) * s + s
<1>1. s > 0
  OBVIOUS
<1>2. a = (s * (a \div s)) + (a % s) /\ a % s \in 0..(s - 1) /\ a \div s \in Int
  BY <1>1
<1>3. a \div s >= 0
  BY <1>1
<1>4. s * (a \div s) = (a \div s) * s
  BY <1>2
<1> QED BY <1>2, <1>3, <1>4

LEMMA Multiples ==
  ASSUME NEW x \in Int, NEW y \in Int, NEW s \in Nat, x <= y
  PROVE  x * s <= y * s /\ x * s \in Int /\ y * s \in Int
<1>1. (y - x) * s >= 0 /\ (y - x) * s = y * s - x * s
  OBVIOUS
<1> QED BY <1>1

LEMMA Successor ==
  ASSUME NEW x \in Int, NEW s \in Int
  PROVE  (x + 1) * s = x * s + s /\ (x - 1) * s = x * s - s
OBVIOUS

\* The settings let fragments advance.
LEMMA StepIs == Step \in Nat \ {0} /\ FragmentSize = Step + Overlap /\ FragmentSize \in Nat \ {0} /\ Overlap \in Nat
BY ReviewingAssumption DEF Step

Piece == [length : Nat, streamed : BOOLEAN, media : BOOLEAN]

\* How many fragments there are, where they begin, and that they reach the end.
LEMMA FragmentsAre ==
  ASSUME NEW who, NEW piece \in Piece
  PROVE  \E n \in Nat \ {0} :
            /\ DOMAIN Fragments(who, piece) = 1..n
            /\ \A k \in 1..n : Fragments(who, piece)[k] = Fragment((k - 1) * Step, piece.length)
            /\ n = 1 \/ (n - 1) * Step < piece.length
            /\ piece.length <= (n - 1) * Step + FragmentSize
<1> DEFINE l == piece.length
           Cut(n) == [k \in 1..n |-> Fragment((k - 1) * Step, l)]
<1>1. l \in Nat
  BY DEF Piece
<1>2. ASSUME NEW n \in Nat \ {0}, Fragments(who, piece) = Cut(n),
             n = 1 \/ (n - 1) * Step < l, l <= (n - 1) * Step + FragmentSize
      PROVE  /\ DOMAIN Fragments(who, piece) = 1..n
             /\ \A k \in 1..n : Fragments(who, piece)[k] = Fragment((k - 1) * Step, piece.length)
             /\ n = 1 \/ (n - 1) * Step < piece.length
             /\ piece.length <= (n - 1) * Step + FragmentSize
  BY <1>2
<1>3. CASE l <= FragmentSize /\ who = "grader"
  <2>1. Fragments(who, piece) = Cut(1)
    <3>1. CASE piece.streamed
      BY <1>3, <3>1 DEF Fragments, StreamedFragments
    <3>2. CASE ~piece.streamed
      <4>1. Fragments(who, piece) = <<Fragment(0, l)>>
        BY <1>3, <3>2 DEF Fragments, EncodedFragments
      <4>2. (1 - 1) * Step = 0
        BY StepIs
      <4> QED BY <4>1, <4>2
    <3> QED BY <3>1, <3>2
  <2>2. l <= (1 - 1) * Step + FragmentSize
    BY <1>1, <1>3, StepIs
  <2> HIDE DEF Cut, l
  <2> QED BY <1>2, <2>1, <2>2
<1>4. CASE ~(who = "grader" /\ piece.streamed) /\ ~(l <= FragmentSize /\ who = "grader")
  <2> DEFINE g == Greatest(1, l)
             n == (g + Step - 1) \div Step
  <2>1. Fragments(who, piece) = Cut(n)
    BY <1>4 DEF Fragments, EncodedFragments
  <2>2. g \in Nat /\ g >= 1 /\ l <= g /\ (g = l \/ (g = 1 /\ l = 0))
    BY <1>1 DEF Greatest
  <2> HIDE DEF Cut, l, g
  <2>3. n \in Nat /\ n * Step <= g + Step - 1 /\ g + Step - 1 < (n * Step) + Step
    <3>1. g + Step - 1 \in Nat
      BY <2>2, StepIs
    <3> QED BY <3>1, StepIs, Division
  <2> HIDE DEF n
  <2>4. n # 0
    <3> SUFFICES ASSUME n = 0 PROVE FALSE
      OBVIOUS
    <3>1. 0 * Step = 0
      BY StepIs
    <3> QED BY <2>2, <2>3, <3>1, StepIs
  <2>5. (n - 1) * Step = (n * Step) - Step /\ n * Step \in Int
    BY <2>3, StepIs, Successor
  <2> DEFINE o == (n - 1) * Step
  <2>6. 1 <= n - 1 => 1 * Step <= o
    <3>1. n - 1 \in Int
      BY <2>3
    <3> QED BY <3>1, StepIs, Multiples
  <2> HIDE DEF o
  <2>7. o = (n * Step) - Step
    BY <2>5 DEF o
  <2>8. n = 1 \/ o < l
    <3> SUFFICES ASSUME n # 1 PROVE o < l
      OBVIOUS
    <3>1. Step <= o
      BY <2>3, <2>4, <2>6, StepIs
    <3> QED BY <1>1, <2>2, <2>3, <2>5, <2>7, <3>1, StepIs
  <2>9. l <= o + FragmentSize
    BY <1>1, <2>2, <2>3, <2>5, <2>7, StepIs
  <2> QED BY <1>2, <2>1, <2>3, <2>4, <2>8, <2>9 DEF o
<1>5. CASE who = "grader" /\ piece.streamed /\ l > FragmentSize
  <2> DEFINE m == (l - Overlap - 1) \div Step
  <2>1. Fragments(who, piece) = Cut(1 + m)
    BY <1>1, <1>5, StepIs DEF Fragments, StreamedFragments
  <2> HIDE DEF Cut
  <2>2. m \in Nat /\ m * Step <= l - Overlap - 1 /\ l - Overlap - 1 < (m * Step) + Step
    <3>1. l - Overlap - 1 \in Nat
      BY <1>1, <1>5, StepIs
    <3> QED BY <3>1, StepIs, Division
  <2> HIDE DEF l, m
  <2>3. 1 + m \in Nat \ {0} /\ (1 + m) - 1 = m /\ m * Step \in Int
    BY <2>2, StepIs
  <2>4. m * Step < l /\ l <= m * Step + FragmentSize
    BY <1>1, <2>2, <2>3, StepIs
  <2> QED BY <1>2, <2>1, <2>3, <2>4
<1>6. ~(l <= FragmentSize) => l > FragmentSize
  BY <1>1, StepIs
<1> QED BY <1>3, <1>4, <1>5, <1>6

\* A fragment is not empty unless its piece is.
LEMMA FragmentsFit ==
  ASSUME NEW who, NEW piece \in Piece, NEW k \in DOMAIN Fragments(who, piece)
  PROVE  /\ (k - 1) * Step \in Nat
         /\ (k - 1) * Step < piece.length \/ k = 1
         /\ Fragments(who, piece)[k].offset = (k - 1) * Step
         /\ Fragments(who, piece)[k].length = Least(FragmentSize, piece.length - (k - 1) * Step)
         /\ Fragments(who, piece)[k].length \in Nat
<1> DEFINE l == piece.length
           o == (k - 1) * Step
<1>1. PICK n \in Nat \ {0} :
            /\ DOMAIN Fragments(who, piece) = 1..n
            /\ \A i \in 1..n : Fragments(who, piece)[i] = Fragment((i - 1) * Step, piece.length)
            /\ n = 1 \/ (n - 1) * Step < piece.length
  BY FragmentsAre
<1>2. k \in 1..n /\ l \in Nat
  BY <1>1 DEF Piece
<1>3. Fragments(who, piece)[k] = Fragment(o, l)
  BY <1>1, <1>2
<1>4. o \in Nat
  <2>1. k - 1 \in Nat
    BY <1>2
  <2> QED BY <2>1, StepIs
<1>5. o < l \/ k = 1
  <2>1. CASE n = 1
    BY <1>2, <2>1
  <2>2. CASE n # 1
    <3>1. (k - 1) * Step <= (n - 1) * Step /\ (n - 1) * Step \in Int
      BY <1>2, StepIs, Multiples
    <3>2. (n - 1) * Step < l
      BY <1>1, <2>2
    <3> QED BY <1>2, <1>4, <3>1, <3>2
  <2> QED BY <2>1, <2>2
<1>6. k = 1 => o = 0
  BY StepIs
<1> HIDE DEF o
<1>7. Fragments(who, piece)[k].offset = o /\ Fragments(who, piece)[k].length = Least(FragmentSize, l - o)
  BY <1>3 DEF Fragment
<1>8. Least(FragmentSize, l - o) \in Nat
  BY <1>2, <1>4, <1>5, <1>6, StepIs DEF Least
<1> QED BY <1>4, <1>5, <1>7, <1>8 DEF o

\* Every character of a piece is in one of its fragments.
LEMMA EveryCharacter ==
  ASSUME NEW who, NEW piece \in Piece, NEW c \in 0..(piece.length - 1)
  PROVE  \E k \in DOMAIN Fragments(who, piece) :
            c \in Fragments(who, piece)[k].offset..(Fragments(who, piece)[k].offset + Fragments(who, piece)[k].length - 1)
<1> DEFINE l == piece.length
           q == c \div Step
           Holds(k) == k \in DOMAIN Fragments(who, piece) /\ (k - 1) * Step <= c /\ c < (k - 1) * Step + FragmentSize
<1>1. l \in Nat /\ c \in Nat /\ c < l
  BY DEF Piece
<1>2. ASSUME NEW k, Holds(k)
      PROVE  c \in Fragments(who, piece)[k].offset..(Fragments(who, piece)[k].offset + Fragments(who, piece)[k].length - 1)
  <2> DEFINE o == (k - 1) * Step
  <2>1. /\ o \in Nat /\ o <= c /\ c < o + FragmentSize
        /\ Fragments(who, piece)[k].offset = o
        /\ Fragments(who, piece)[k].length = Least(FragmentSize, l - o)
    BY <1>2, FragmentsFit
  <2> HIDE DEF o
  <2> QED BY <1>1, <2>1, StepIs DEF Least
<1>3. PICK n \in Nat \ {0} :
            /\ DOMAIN Fragments(who, piece) = 1..n
            /\ l <= (n - 1) * Step + FragmentSize
  BY FragmentsAre
<1>4. q \in Nat /\ q * Step <= c /\ c < (q * Step) + Step
  BY <1>1, StepIs, Division
<1> HIDE DEF q
<1>5. q * Step \in Nat
  BY <1>4, StepIs
<1>6. CASE q + 1 <= n
  <2>1. q + 1 \in 1..n /\ (q + 1) - 1 = q
    BY <1>4, <1>6
  <2>2. Holds(q + 1)
    BY <1>1, <1>3, <1>4, <1>5, <2>1, StepIs
  <2> QED BY <1>2, <2>2
<1>7. CASE ~(q + 1 <= n)
  <2>1. (n - 1) * Step <= q * Step /\ (n - 1) * Step \in Int
    <3>1. n - 1 \in Int /\ n - 1 <= q
      BY <1>3, <1>4, <1>7
    <3> QED BY <1>4, <3>1, StepIs, Multiples
  <2>2. n \in DOMAIN Fragments(who, piece)
    BY <1>3
  <2>3. Holds(n)
    BY <1>1, <1>3, <1>4, <1>5, <2>1, <2>2, StepIs
  <2> QED BY <1>2, <2>3
<1> QED BY <1>6, <1>7

Flattens(g, seqs) ==
    /\ g[0] = <<>>
    /\ \A k \in 1..Len(seqs) : g[k] = g[k - 1] \o seqs[k]
    /\ FlattenSeq(seqs) = g[Len(seqs)]

\* FlattenSeq appends one sequence after another.
LEMMA FlattenIs ==
  ASSUME NEW E, NEW seqs \in Seq(Seq(E)), Len(seqs) # 0
  PROVE  \E g \in [0..Len(seqs) -> Seq(E)] : Flattens(g, seqs)
<1> DEFINE n == Len(seqs)
           V == Seq(E)
           step == [e \in (1..n) \X V |-> e[2] \o seqs[e[1]]]
           Is(h) == h = [i \in 1..n |-> IF i = 1 THEN seqs[i] ELSE h[i - 1] \o seqs[i]]
<1>1. n \in Nat \ {0} /\ \A k \in 1..n : seqs[k] \in V
  OBVIOUS
<1>2. \A v \in V : \A k \in 1..n : v \o seqs[k] \in V
  BY <1>1
<1>3. <<>> \in V /\ \A k \in 1..n : <<>> \o seqs[k] = seqs[k]
  BY <1>1
<1> HIDE DEF n, V
<1>4. \A k \in 1..n : \A v \in V : step[<<k, v>>] = v \o seqs[k] /\ step[<<k, v>>] \in V
  BY <1>2
<1> HIDE DEF step
<1>5. PICK f \in [0..n -> V] : Follows(f, <<>>, step, n)
  <2>1. StaysIn(step, n, V)
    BY <1>4 DEF StaysIn
  <2> QED BY <1>1, <1>3, <2>1, Recursion
<1>6. \A k \in 1..n : f[k] = f[k - 1] \o seqs[k]
  <2>1. \A k \in 1..n : f[k - 1] \in V
    BY <1>1
  <2> QED BY <1>4, <1>5, <2>1 DEF Follows
<1> DEFINE restricted == [i \in 1..n |-> f[i]]
<1>7. Is(restricted)
  <2>1. f[1] = seqs[1]
    <3>1. 1 \in 1..n /\ 1 - 1 = 0
      BY <1>1
    <3>2. f[1] = f[0] \o seqs[1] /\ f[0] = <<>>
      BY <1>5, <1>6, <3>1 DEF Follows
    <3> QED BY <1>3, <3>1, <3>2
  <2>2. \A i \in 1..n : i # 1 => restricted[i - 1] = f[i - 1]
    BY <1>1
  <2>3. \A i \in 1..n : restricted[i] = IF i = 1 THEN seqs[i] ELSE restricted[i - 1] \o seqs[i]
    BY <1>1, <1>6, <2>1, <2>2
  <2> HIDE DEF restricted
  <2>4. restricted = [i \in 1..n |-> restricted[i]]
    BY DEF restricted
  <2> QED BY <2>3, <2>4
<1> DEFINE h == CHOOSE x : Is(x)
<1>8. Is(h)
  BY <1>7
<1>9. FlattenSeq(seqs) = h[n]
  BY DEF FlattenSeq, n
<1> HIDE DEF h
<1>10. h[1] = seqs[1] /\ \A i \in 2..n : h[i] = h[i - 1] \o seqs[i]
  <2>1. \A i \in 1..n : h[i] = IF i = 1 THEN seqs[i] ELSE h[i - 1] \o seqs[i]
    BY <1>8
  <2>2. 1 \in 1..n /\ \A i \in 2..n : i \in 1..n /\ i # 1
    BY <1>1
  <2> HIDE DEF Is
  <2> QED BY <2>1, <2>2
<1> DEFINE S == {m \in Nat : m + 1 <= n => h[m + 1] \in V}
<1>11. 0 \in S
  BY <1>1, <1>10
<1>12. ASSUME NEW m \in Nat, m \in S PROVE m + 1 \in S
  <2> SUFFICES ASSUME m + 2 <= n PROVE h[m + 2] \in V
    OBVIOUS
  <2>1. m + 2 \in 2..n /\ (m + 2) - 1 = m + 1 /\ h[m + 1] \in V
    BY <1>1, <1>12
  <2>2. h[m + 2] = h[m + 1] \o seqs[m + 2]
    BY <1>10, <2>1
  <2> QED BY <1>1, <1>2, <2>1, <2>2
<1>13. \A m \in Nat : m \in S
  <2> HIDE DEF S
  <2> QED BY <1>11, <1>12, Induction
<1> DEFINE g == [k \in 0..n |-> IF k = 0 THEN <<>> ELSE h[k]]
<1>14. g \in [0..n -> V]
  <2>1. \A k \in 1..n : h[k] \in V
    <3> SUFFICES ASSUME NEW k \in 1..n PROVE h[k] \in V
      OBVIOUS
    <3>1. k - 1 \in Nat /\ (k - 1) + 1 = k /\ k <= n
      BY <1>1
    <3> QED BY <1>13, <3>1
  <2> QED BY <1>1, <1>3, <2>1
<1>15. ASSUME NEW k \in 1..n PROVE g[k] = g[k - 1] \o seqs[k]
  <2>1. k \in 0..n /\ k - 1 \in 0..n /\ k # 0
    BY <1>1
  <2>2. CASE k = 1
    <3>1. g[k] = seqs[k] /\ g[k - 1] = <<>>
      BY <1>10, <2>1, <2>2
    <3> QED BY <1>3, <3>1
  <2>3. CASE k # 1
    <3>1. k \in 2..n /\ k - 1 # 0
      BY <1>1, <2>3
    <3>2. g[k] = h[k] /\ g[k - 1] = h[k - 1]
      BY <2>1, <3>1
    <3> QED BY <1>10, <3>1, <3>2
  <2> QED BY <2>2, <2>3
<1>16. g[0] = <<>> /\ g[n] = h[n]
  BY <1>1
<1> QED BY <1>9, <1>14, <1>15, <1>16 DEF n, V, Flattens

Entry == [id : Nat \X Nat \X Nat, size : Nat, media : BOOLEAN]
Ids(entries) == {entries[i].id : i \in DOMAIN entries}
FragmentIds(who, number, evidence) ==
    UNION {{<<number, p, k>> : k \in DOMAIN Fragments(who, evidence[p])} : p \in DOMAIN evidence}

\* What is in a concatenation, and that it has nothing twice.
LEMMA IdsOfBoth ==
  ASSUME NEW a \in Seq(Entry), NEW b \in Seq(Entry)
  PROVE  Ids(a \o b) = Ids(a) \cup Ids(b)
<1>1. DOMAIN (a \o b) = 1..(Len(a) + Len(b)) /\ DOMAIN a = 1..Len(a) /\ DOMAIN b = 1..Len(b)
      /\ Len(a) \in Nat /\ Len(b) \in Nat
  OBVIOUS
<1>2. \A i \in 1..Len(a) : (a \o b)[i] = a[i]
  OBVIOUS
<1>3. \A i \in 1..Len(b) : (a \o b)[Len(a) + i] = b[i]
  OBVIOUS
<1>4. Ids(a) \subseteq Ids(a \o b)
  BY <1>1, <1>2 DEF Ids
<1>5. Ids(b) \subseteq Ids(a \o b)
  <2> SUFFICES ASSUME NEW i \in DOMAIN b PROVE b[i].id \in Ids(a \o b)
    BY DEF Ids
  <2>1. Len(a) + i \in DOMAIN (a \o b)
    BY <1>1
  <2> QED BY <1>1, <1>3, <2>1 DEF Ids
<1>6. Ids(a \o b) \subseteq Ids(a) \cup Ids(b)
  <2> SUFFICES ASSUME NEW i \in DOMAIN (a \o b) PROVE (a \o b)[i].id \in Ids(a) \cup Ids(b)
    BY DEF Ids
  <2>1. CASE i \in 1..Len(a)
    BY <1>1, <1>2, <2>1 DEF Ids
  <2>2. CASE i \notin 1..Len(a)
    <3>1. i - Len(a) \in 1..Len(b) /\ Len(a) + (i - Len(a)) = i
      BY <1>1, <2>2
    <3> QED BY <1>1, <1>3, <3>1 DEF Ids
  <2> QED BY <2>1, <2>2
<1> QED BY <1>4, <1>5, <1>6

Distinct(entries) == \A i, j \in DOMAIN entries : i # j => entries[i].id # entries[j].id

LEMMA DistinctBoth ==
  ASSUME NEW a \in Seq(Entry), NEW b \in Seq(Entry), Distinct(a), Distinct(b), Ids(a) \cap Ids(b) = {}
  PROVE  Distinct(a \o b)
<1> SUFFICES ASSUME NEW i \in DOMAIN (a \o b), NEW j \in DOMAIN (a \o b), i < j
             PROVE  (a \o b)[i].id # (a \o b)[j].id
  <2>1. DOMAIN (a \o b) \subseteq Nat
    OBVIOUS
  <2> QED BY <2>1 DEF Distinct
<1>1. DOMAIN (a \o b) = 1..(Len(a) + Len(b)) /\ DOMAIN a = 1..Len(a) /\ DOMAIN b = 1..Len(b)
      /\ Len(a) \in Nat /\ Len(b) \in Nat
  OBVIOUS
<1>2. \A k \in 1..Len(a) : (a \o b)[k] = a[k]
  OBVIOUS
<1>3. \A k \in 1..Len(b) : (a \o b)[Len(a) + k] = b[k]
  OBVIOUS
<1>4. CASE j <= Len(a)
  <2>1. i \in 1..Len(a) /\ j \in 1..Len(a) /\ i # j
    BY <1>1, <1>4
  <2> QED BY <1>1, <1>2, <2>1 DEF Distinct
<1>5. CASE i > Len(a)
  <2>1. i - Len(a) \in 1..Len(b) /\ j - Len(a) \in 1..Len(b) /\ i - Len(a) # j - Len(a)
        /\ Len(a) + (i - Len(a)) = i /\ Len(a) + (j - Len(a)) = j
    BY <1>1, <1>5
  <2> QED BY <1>1, <1>3, <2>1 DEF Distinct
<1>6. CASE i <= Len(a) /\ j > Len(a)
  <2>1. i \in 1..Len(a) /\ j - Len(a) \in 1..Len(b) /\ Len(a) + (j - Len(a)) = j
    BY <1>1, <1>6
  <2>2. (a \o b)[i].id \in Ids(a)
    BY <1>1, <1>2, <2>1 DEF Ids
  <2>3. (a \o b)[j].id \in Ids(b)
    BY <1>1, <1>3, <2>1 DEF Ids
  <2> QED BY <2>2, <2>3
<1> QED BY <1>1, <1>4, <1>5, <1>6

\* The entries are those of every fragment of every piece, each once.
LEMMA EntriesAre ==
  ASSUME NEW who, NEW number \in Nat, NEW evidence \in Seq(Piece)
  PROVE  /\ Entries(who, number, evidence) \in Seq(Entry)
         /\ Ids(Entries(who, number, evidence)) = FragmentIds(who, number, evidence)
         /\ Distinct(Entries(who, number, evidence))
<1> DEFINE n == Len(evidence)
           Of(p) == [k \in DOMAIN Fragments(who, evidence[p]) |->
                       [id |-> <<number, p, k>>, size |-> Fragments(who, evidence[p])[k].length, media |-> evidence[p].media]]
           seqs == [p \in DOMAIN evidence |-> Of(p)]
<1>1. n \in Nat /\ DOMAIN evidence = 1..n /\ \A p \in 1..n : evidence[p] \in Piece
  OBVIOUS
<1>2. Entries(who, number, evidence) = FlattenSeq(seqs)
  BY DEF Entries
<1>3. ASSUME NEW p \in 1..n
      PROVE  /\ Of(p) \in Seq(Entry)
             /\ Ids(Of(p)) = {<<number, p, k>> : k \in DOMAIN Fragments(who, evidence[p])}
             /\ Distinct(Of(p))
  <2> DEFINE f == Fragments(who, evidence[p])
  <2>1. evidence[p] \in Piece
    BY <1>1
  <2>2. PICK m \in Nat \ {0} : DOMAIN f = 1..m
    BY <2>1, FragmentsAre
  <2>3. \A k \in 1..m : f[k].length \in Nat
    BY <2>1, <2>2, FragmentsFit
  <2> HIDE DEF f
  <2>4. Of(p) = [k \in 1..m |-> [id |-> <<number, p, k>>, size |-> f[k].length, media |-> evidence[p].media]]
    BY <2>2 DEF f
  <2>5. \A k \in 1..m : [id |-> <<number, p, k>>, size |-> f[k].length, media |-> evidence[p].media] \in Entry
    BY <1>1, <2>1, <2>3 DEF Entry, Piece
  <2> HIDE DEF Of
  <2>6. \A k \in 1..m : Of(p)[k].id = <<number, p, k>> /\ Of(p)[k] \in Entry
    BY <2>4, <2>5
  <2>7. Of(p) \in Seq(Entry)
    BY <2>4, <2>6
  <2>8. DOMAIN Of(p) = 1..m
    BY <2>4
  <2>9. Ids(Of(p)) = {<<number, p, k>> : k \in 1..m}
    BY <2>6, <2>8 DEF Ids
  <2>10. Distinct(Of(p))
    BY <2>6, <2>8 DEF Distinct
  <2> QED BY <2>2, <2>7, <2>9, <2>10 DEF f
<1> HIDE DEF Of
<1>4. seqs \in Seq(Seq(Entry)) /\ Len(seqs) = n /\ \A p \in 1..n : seqs[p] = Of(p)
  <2>1. seqs = [p \in 1..n |-> Of(p)]
    BY <1>1
  <2>2. \A p \in 1..n : Of(p) \in Seq(Entry)
    BY <1>3
  <2> HIDE DEF n
  <2> QED BY <1>1, <2>1, <2>2
<1> HIDE DEF seqs
<1>5. CASE n = 0
  <2>1. FlattenSeq(seqs) = <<>>
    <3>1. seqs = <<>>
      BY <1>4, <1>5
    <3> QED BY <3>1 DEF FlattenSeq
  <2>2. Ids(<<>>) = {} /\ Distinct(<<>>) /\ <<>> \in Seq(Entry)
    BY DEF Ids, Distinct
  <2>3. FragmentIds(who, number, evidence) = {}
    BY <1>1, <1>5 DEF FragmentIds
  <2> QED BY <1>2, <2>1, <2>2, <2>3
<1>6. CASE n # 0
  <2>1. PICK g \in [0..n -> Seq(Entry)] :
            /\ g[0] = <<>>
            /\ \A k \in 1..n : g[k] = g[k - 1] \o seqs[k]
            /\ FlattenSeq(seqs) = g[n]
    <3>1. \E g \in [0..Len(seqs) -> Seq(Entry)] : Flattens(g, seqs)
      BY <1>4, <1>6, FlattenIs
    <3> QED BY <1>4, <3>1 DEF Flattens
  <2> DEFINE IdsOf(p) == {<<number, p, k>> : k \in DOMAIN Fragments(who, evidence[p])}
             Pieces(m) == UNION {IdsOf(p) : p \in 1..m}
             S == {m \in Nat : m <= n => Ids(g[m]) = Pieces(m) /\ Distinct(g[m])}
  <2> HIDE DEF n
  <2>2. 0 \in S
    <3>1. Ids(<<>>) = {} /\ Distinct(<<>>)
      BY DEF Ids, Distinct
    <3> QED BY <2>1, <3>1
  <2>3. ASSUME NEW m \in Nat, m \in S PROVE m + 1 \in S
    <3> SUFFICES ASSUME m + 1 <= n PROVE Ids(g[m + 1]) = Pieces(m + 1) /\ Distinct(g[m + 1])
      OBVIOUS
    <3>1. m + 1 \in 1..n /\ (m + 1) - 1 = m /\ m \in 0..n /\ m <= n
      BY <1>1
    <3>2. /\ g[m + 1] = g[m] \o Of(m + 1)
          /\ g[m] \in Seq(Entry) /\ Of(m + 1) \in Seq(Entry)
          /\ Ids(g[m]) = Pieces(m) /\ Distinct(g[m])
          /\ Ids(Of(m + 1)) = IdsOf(m + 1) /\ Distinct(Of(m + 1))
      BY <1>3, <1>4, <2>1, <2>3, <3>1
    <3>3. Pieces(m + 1) = Pieces(m) \cup IdsOf(m + 1)
      <4>1. 1..(m + 1) = (1..m) \cup {m + 1}
        OBVIOUS
      <4> HIDE DEF IdsOf
      <4> QED BY <4>1
    <3>4. Pieces(m) \cap IdsOf(m + 1) = {}
      OBVIOUS
    <3> HIDE DEF Pieces, IdsOf
    <3>5. Ids(g[m + 1]) = Ids(g[m]) \cup Ids(Of(m + 1))
      BY <3>2, IdsOfBoth
    <3>6. Distinct(g[m + 1])
      BY <3>2, <3>4, DistinctBoth
    <3> QED BY <3>2, <3>3, <3>5, <3>6
  <2>4. n \in S
    <3> HIDE DEF S
    <3> QED BY <1>1, <2>2, <2>3, Induction
  <2>5. Pieces(n) = FragmentIds(who, number, evidence)
    BY <1>1 DEF FragmentIds
  <2>6. Ids(g[n]) = Pieces(n) /\ Distinct(g[n]) /\ g[n] \in Seq(Entry)
    BY <1>1, <2>1, <2>4
  <2> QED BY <1>2, <2>1, <2>5, <2>6
<1> QED BY <1>5, <1>6
-----------------------------------------------------------------------------
(* The inductive invariant of a review.                                    *)
\* A set of numbers that has a bound has a greatest.
LEMMA MaxIs ==
  ASSUME NEW S \in SUBSET Nat, S # {}, NEW b \in Nat, \A x \in S : x <= b
  PROVE  Max(S) \in S /\ \A x \in S : x <= Max(S)
<1>1. \E x \in S : \A y \in S : x >= y
  <2> SUFFICES ASSUME \A x \in S : \E y \in S : ~(x >= y) PROVE FALSE
    OBVIOUS
  <2> DEFINE T == {m \in Nat : \E x \in S : x >= m}
  <2>1. 0 \in T
    <3>1. PICK x \in S : TRUE
      OBVIOUS
    <3>2. x \in Nat /\ x >= 0
      OBVIOUS
    <3> QED BY <3>2
  <2>2. ASSUME NEW m \in Nat, m \in T PROVE m + 1 \in T
    <3>1. PICK x \in S : x >= m
      BY <2>2
    <3>2. PICK y \in S : ~(x >= y)
      OBVIOUS
    <3>3. y >= m + 1
      BY <3>1, <3>2
    <3> QED BY <3>3
  <2>3. b + 1 \in T
    <3> HIDE DEF T
    <3> QED BY <2>1, <2>2, Induction
  <2> QED BY <2>3
<1>2. Max(S) \in S /\ \A y \in S : Max(S) >= y
  BY <1>1 DEF Max
<1> QED BY <1>2

FragmentId == Nat \X Nat \X Nat
Summary == [size : Nat, covers : SUBSET FragmentId]
Item == Entry \cup Summary

TypeOK ==
    /\ role \in {"grader", "tweaker"} /\ notes \in Nat
    /\ attempt \in {1, 2} /\ source \in Sources
    /\ pc \in {"asking", "keeping", "deciding", "reporting", "decided", "unscored", "stopped", "stuck"}
    /\ maximum \in 0..Maximum /\ round \in Nat
    /\ round = 0 => items = Entries(role, attempt, source)
    /\ round > 0 => items \in Seq(Summary)
    /\ place \in 1..(Len(items) + 1)
    /\ reduced \in Seq(Summary)

\* What the call about a batch accounts for, and an item for itself.
CoversOf(r, batch) == IF r = 0 THEN Ids(batch) ELSE Covered(batch)
CoversAt(i) == IF round = 0 THEN {items[i].id} ELSE items[i].covers

AnswerInv ==
    /\ pc = "keeping" => Unread /\ answer = {[size |-> Length, covers |-> Covers]}
    /\ pc = "reporting" => \E r : answer = {r}
    /\ pc \notin {"keeping", "reporting", "stopped"} => answer = {}

KeptInv ==
    \A call \in DOMAIN kept :
        /\ kept[call].output \in Summary
        /\ kept[call].output.covers = CoversOf(call[1], kept[call].input)

CoverInv ==
    /\ UNION {CoversAt(i) : i \in DOMAIN items} = Everything
    /\ \A i, j \in DOMAIN items : i # j => CoversAt(i) \cap CoversAt(j) = {}
    /\ Covered(reduced) = UNION {CoversAt(i) : i \in 1..(place - 1)}
    /\ Disjoint(reduced)

DecidingInv == pc \in {"deciding", "reporting"} => round > 0 /\ Size(items) <= maximum /\ reduced = <<>>

ReviewInv == TypeOK /\ AnswerInv /\ KeptInv /\ CoverInv /\ DecidingInv
-----------------------------------------------------------------------------
(* Batches.                                                                *)
\* Evidence is a sequence of pieces.
LEMMA SourceIs == Sources \subseteq Seq(Piece)
BY ReviewingAssumption DEF Piece

\* Entries and answers can be added up.
LEMMA SizedItems ==
  ASSUME NEW batch \in Seq(Item)
  PROVE  Sized(batch)
<1>1. \A item \in Item : item.size \in Nat
  BY DEF Item, Entry, Summary
<1>2. \A i \in DOMAIN batch : batch[i] \in Item
  OBVIOUS
<1>3. Len(batch) \in Nat /\ DOMAIN batch = 1..Len(batch)
  OBVIOUS
<1> QED BY <1>1, <1>2, <1>3 DEF Sized

\* The items of a round are entries or answers of the last.
LEMMA ItemsAre ==
  ASSUME TypeOK
  PROVE  /\ items \in Seq(Item) /\ Len(items) \in Nat /\ DOMAIN items = 1..Len(items)
         /\ round = 0 => items \in Seq(Entry) /\ Ids(items) = Everything /\ Distinct(items)
         /\ Sized(items)
<1>1. CASE round = 0
  <2>1. items = Entries(role, attempt, source) /\ attempt \in Nat /\ source \in Seq(Piece)
    BY <1>1, SourceIs DEF TypeOK
  <2>2. items \in Seq(Entry) /\ Distinct(items)
    BY <2>1, EntriesAre
  <2>3. Ids(items) = Everything
    <3>1. ToSet(items) = {items[i] : i \in DOMAIN items}
      BY DEF ToSet
    <3> QED BY <2>1, <3>1 DEF Everything, Ids
  <2>4. items \in Seq(Item)
    <3>1. \A i \in 1..Len(items) : items[i] \in Item
      BY <2>2 DEF Item
    <3> QED BY <2>2, <3>1
  <2>5. Sized(items)
    BY <2>4, SizedItems
  <2> QED BY <2>2, <2>3, <2>4, <2>5
<1>2. CASE round # 0
  <2>1. items \in Seq(Summary)
    BY <1>2 DEF TypeOK
  <2>2. items \in Seq(Item)
    <3>1. \A i \in 1..Len(items) : items[i] \in Item
      BY <2>1 DEF Item
    <3> QED BY <2>1, <3>1
  <2>3. Sized(items)
    BY <2>2, SizedItems
  <2> QED BY <1>2, <2>1, <2>2, <2>3
<1> QED BY <1>1, <1>2

\* The next items, counted from place.
LEMMA UptoIs ==
  ASSUME TypeOK, NEW n \in place..Len(items)
  PROVE  /\ Upto(n) \in Seq(Item) /\ Len(Upto(n)) = n - place + 1 /\ DOMAIN Upto(n) = 1..(n - place + 1)
         /\ \A i \in 1..(n - place + 1) : Upto(n)[i] = items[place + i - 1]
         /\ Sized(Upto(n))
<1>1. items \in Seq(Item) /\ place \in 1..Len(items) /\ Len(items) \in Nat /\ Sized(items) /\ DOMAIN items = 1..Len(items)
  BY ItemsAre DEF TypeOK
<1>2. n \in 1..Len(items) /\ n - place + 1 \in Nat
  BY <1>1
<1>3. /\ Upto(n) \in Seq(Item) /\ Len(Upto(n)) = n - place + 1
      /\ \A i \in 1..(n - place + 1) : Upto(n)[i] = items[place + i - 1]
  BY <1>1, <1>2 DEF Upto
<1>4. DOMAIN Upto(n) = 1..(n - place + 1)
  BY <1>3
<1>5. \A i \in 1..(n - place + 1) : place + i - 1 \in DOMAIN items
  BY <1>1, <1>2
<1>6. Sized(Upto(n))
  BY <1>1, <1>2, <1>3, <1>4, <1>5 DEF Sized
<1> QED BY <1>3, <1>4, <1>6

\* A batch begins at place and has at least one item, when there is one; and
\* it is one, or the last one fitted.
LEMMA BatchIs ==
  ASSUME TypeOK, Unread
  PROVE  \/ items = <<>> /\ Batch = <<>> /\ place = 1
         \/ /\ items # <<>>
            /\ \E n \in place..Len(items) :
                  /\ Batch = Upto(n)
                  /\ n = place \/ (n - 1 \in place..Len(items) /\ Fits(Upto(n - 1), items[n]))
<1>1. Len(items) \in Nat /\ place \in 1..(Len(items) + 1) /\ items \in Seq(Item)
  BY ItemsAre DEF TypeOK
<1>2. CASE items = <<>>
  BY <1>1, <1>2 DEF Batch
<1>3. CASE items # <<>>
  <2> DEFINE S == {n \in place..Len(items) : \A k \in (place + 1)..n : Fits(Upto(k - 1), items[k])}
  <2>1. place \in place..Len(items)
    BY <1>1, <1>3 DEF Unread
  <2>2. place \in S
    <3>1. (place + 1)..place = {}
      BY <1>1
    <3> HIDE DEF Fits
    <3> QED BY <2>1, <3>1
  <2>3. S \in SUBSET Nat /\ \A x \in S : x <= Len(items)
    BY <1>1
  <2>4. Max(S) \in S
    <3> HIDE DEF S
    <3> QED BY <1>1, <2>2, <2>3, MaxIs
  <2>5. Batch = Upto(Max(S))
    BY <1>3 DEF Batch
  <2> DEFINE n == Max(S)
  <2>6. n \in place..Len(items) /\ \A k \in (place + 1)..n : Fits(Upto(k - 1), items[k])
    BY <2>4
  <2> HIDE DEF n, S
  <2>7. n = place \/ (n - 1 \in place..Len(items) /\ Fits(Upto(n - 1), items[n]))
    <3> SUFFICES ASSUME n # place PROVE n - 1 \in place..Len(items) /\ Fits(Upto(n - 1), items[n])
      OBVIOUS
    <3>1. n \in (place + 1)..n /\ n - 1 \in place..Len(items)
      BY <1>1, <2>6
    <3> QED BY <2>6, <3>1
  <2> QED BY <1>3, <2>5, <2>6, <2>7 DEF n
<1> QED BY <1>2, <1>3

\* What a call is about, by the items in it.
LEMMA CoversAre ==
  ASSUME TypeOK, NEW i \in DOMAIN items
  PROVE  CoversAt(i) \subseteq FragmentId
<1>1. CASE round = 0
  <2>1. items[i] \in Entry
    BY <1>1, ItemsAre
  <2> QED BY <1>1, <2>1 DEF CoversAt, Entry, FragmentId
<1>2. CASE round # 0
  <2>1. items[i] \in Summary
    BY <1>2 DEF TypeOK
  <2> QED BY <1>2, <2>1 DEF CoversAt, Summary
<1> QED BY <1>1, <1>2

\* What the call under way is about.
LEMMA BatchCovers ==
  ASSUME TypeOK, Unread
  PROVE  /\ Batch \in Seq(Item) /\ Len(Batch) \in Nat
         /\ place + Len(Batch) \in 1..(Len(items) + 1)
         /\ Covers = CoversOf(round, Batch)
         /\ Covers = UNION {CoversAt(i) : i \in place..(place + Len(Batch) - 1)}
         /\ Covers \in SUBSET FragmentId
<1>1. Covers = CoversOf(round, Batch)
  BY DEF Covers, CoversOf, Ids
<1>2. Len(items) \in Nat /\ place \in 1..(Len(items) + 1) /\ DOMAIN items = 1..Len(items)
  BY ItemsAre DEF TypeOK
<1>3. CASE items = <<>> /\ Batch = <<>> /\ place = 1
  <2>1. CoversOf(round, <<>>) = {}
    BY DEF CoversOf, Ids, Covered
  <2>2. <<>> \in Seq(Item) /\ Len(<<>>) = 0
    OBVIOUS
  <2> QED BY <1>1, <1>2, <1>3, <2>1, <2>2
<1>4. ASSUME NEW n \in place..Len(items), Batch = Upto(n)
      PROVE  /\ Batch \in Seq(Item) /\ Len(Batch) \in Nat
             /\ place + Len(Batch) \in 1..(Len(items) + 1)
             /\ Covers = UNION {CoversAt(i) : i \in place..(place + Len(Batch) - 1)}
             /\ Covers \in SUBSET FragmentId
  <2>1. /\ Batch \in Seq(Item) /\ Len(Batch) = n - place + 1 /\ DOMAIN Batch = 1..(n - place + 1)
        /\ \A i \in 1..(n - place + 1) : Batch[i] = items[place + i - 1]
    BY <1>4, UptoIs
  <2>2. /\ Len(Batch) \in Nat /\ place + Len(Batch) - 1 = n /\ place + Len(Batch) = n + 1
        /\ n + 1 \in 1..(Len(items) + 1)
    BY <1>2, <2>1
  <2>3. \A i \in 1..(n - place + 1) : \E j \in place..n : Batch[i] = items[j]
    <3> SUFFICES ASSUME NEW i \in 1..(n - place + 1) PROVE \E j \in place..n : Batch[i] = items[j]
      OBVIOUS
    <3>1. place + i - 1 \in place..n
      BY <1>2
    <3> QED BY <2>1, <3>1
  <2>4. \A j \in place..n : \E i \in 1..(n - place + 1) : Batch[i] = items[j]
    <3> SUFFICES ASSUME NEW j \in place..n PROVE \E i \in 1..(n - place + 1) : Batch[i] = items[j]
      OBVIOUS
    <3>1. j - place + 1 \in 1..(n - place + 1) /\ place + (j - place + 1) - 1 = j
      BY <1>2
    <3>2. Batch[j - place + 1] = items[j]
      BY <2>1, <3>1
    <3> QED BY <3>1, <3>2
  <2>5. CASE round = 0
    <3>1. Covers = {Batch[i].id : i \in 1..(n - place + 1)}
      BY <2>1, <2>5 DEF Covers
    <3>2. Covers = {items[j].id : j \in place..n}
      <4>1. ASSUME NEW i \in 1..(n - place + 1) PROVE Batch[i].id \in {items[j].id : j \in place..n}
        BY <2>3
      <4>2. ASSUME NEW j \in place..n PROVE items[j].id \in {Batch[i].id : i \in 1..(n - place + 1)}
        <5>1. PICK i \in 1..(n - place + 1) : Batch[i] = items[j]
          BY <2>4
        <5> QED BY <5>1
      <4> QED BY <4>1, <4>2, <3>1
    <3>3. UNION {CoversAt(j) : j \in place..n} = {items[j].id : j \in place..n}
      BY <2>5 DEF CoversAt
    <3>4. \A j \in place..n : CoversAt(j) \subseteq FragmentId
      BY <1>2, CoversAre
    <3>5. Covers = UNION {CoversAt(j) : j \in place..n}
      BY <3>2, <3>3
    <3> QED BY <2>1, <2>2, <3>4, <3>5
  <2>6. CASE round # 0
    <3>1. Covers = UNION {Batch[i].covers : i \in 1..(n - place + 1)}
      BY <2>1, <2>6 DEF Covers, Covered
    <3>2. {Batch[i].covers : i \in 1..(n - place + 1)} = {items[j].covers : j \in place..n}
      <4>1. ASSUME NEW i \in 1..(n - place + 1) PROVE Batch[i].covers \in {items[j].covers : j \in place..n}
        BY <2>3
      <4>2. ASSUME NEW j \in place..n PROVE items[j].covers \in {Batch[i].covers : i \in 1..(n - place + 1)}
        <5>1. PICK i \in 1..(n - place + 1) : Batch[i] = items[j]
          BY <2>4
        <5> QED BY <5>1
      <4> QED BY <4>1, <4>2
    <3>3. {CoversAt(j) : j \in place..n} = {items[j].covers : j \in place..n}
      BY <2>6 DEF CoversAt
    <3>4. Covers = UNION {CoversAt(j) : j \in place..n}
      BY <3>1, <3>2, <3>3
    <3>5. \A j \in place..n : CoversAt(j) \subseteq FragmentId
      BY <1>2, CoversAre
    <3> QED BY <2>1, <2>2, <3>4, <3>5
  <2> QED BY <2>5, <2>6
<1> QED BY <1>1, <1>3, <1>4, BatchIs

\* The answer that the validator accepts.
LEMMA LengthIs == ASSUME TypeOK, Unread PROVE Length \in Nat
<1>1. Size(Batch) \in Nat
  BY BatchCovers, SizedItems, SizeIsNat
<1>2. Size(Batch) \div 2 \in Nat
  BY <1>1, Division
<1> QED BY <1>1, <1>2 DEF Length, Greatest, TypeOK

LEMMA AnswerIs ==
  ASSUME TypeOK, Unread
  PROVE  /\ [size |-> Length, covers |-> Covers] \in Summary
         /\ [size |-> Length, covers |-> Covers].covers = Covers
BY LengthIs, BatchCovers DEF Summary

\* An answer about the next batch keeps account of the items.
LEMMA TakeKeeps ==
  ASSUME TypeOK, CoverInv, Unread, NEW output \in Summary, output.covers = Covers, Take(output),
         UNCHANGED <<role, round, items, attempt, source>>
  PROVE  /\ CoverInv' /\ reduced' \in Seq(Summary) /\ place' \in 1..(Len(items) + 1)
<1>1. /\ Len(Batch) \in Nat /\ place + Len(Batch) \in 1..(Len(items) + 1)
      /\ Covers = UNION {CoversAt(i) : i \in place..(place + Len(Batch) - 1)}
  BY BatchCovers
<1>2. reduced' = Append(reduced, output) /\ place' = place + Len(Batch)
  BY DEF Take
<1>3. /\ reduced \in Seq(Summary) /\ place \in 1..(Len(items) + 1) /\ Len(items) \in Nat /\ DOMAIN items = 1..Len(items)
  BY ItemsAre DEF TypeOK
<1>4. /\ reduced' \in Seq(Summary) /\ DOMAIN reduced = 1..Len(reduced) /\ DOMAIN reduced' = 1..(Len(reduced) + 1)
      /\ Len(reduced) \in Nat
      /\ \A i \in 1..Len(reduced) : reduced'[i] = reduced[i]
      /\ reduced'[Len(reduced) + 1] = output
  BY <1>2, <1>3
<1>5. \A i : CoversAt(i)' = CoversAt(i)
  BY DEF CoversAt
<1>6. Everything' = Everything
  BY DEF Everything
<1>7. Covered(reduced)' = Covered(reduced) \cup Covers
  <2>1. {reduced'[i].covers : i \in 1..(Len(reduced) + 1)} = {reduced[i].covers : i \in 1..Len(reduced)} \cup {output.covers}
    BY <1>4
  <2>2. Covered(reduced') = UNION {reduced'[i].covers : i \in 1..(Len(reduced) + 1)}
    BY <1>4 DEF Covered
  <2>3. Covered(reduced) = UNION {reduced[i].covers : i \in 1..Len(reduced)}
    BY <1>4 DEF Covered
  <2>4. Covered(reduced)' = Covered(reduced')
    BY DEF Covered
  <2> QED BY <2>1, <2>2, <2>3, <2>4
<1>8. Covered(reduced)' = UNION {CoversAt(i) : i \in 1..(place' - 1)}
  <2> DEFINE b == place + Len(Batch)
  <2>1. (1..(place - 1)) \cup (place..(b - 1)) = 1..(b - 1)
    BY <1>1, <1>3
  <2>2. Covered(reduced)' = (UNION {CoversAt(i) : i \in 1..(place - 1)}) \cup (UNION {CoversAt(i) : i \in place..(b - 1)})
    <3>1. Covered(reduced) = UNION {CoversAt(i) : i \in 1..(place - 1)}
      BY DEF CoverInv
    <3>2. Covers = UNION {CoversAt(i) : i \in place..(b - 1)}
      <4>1. place + Len(Batch) - 1 = b - 1
        BY <1>1, <1>3
      <4> HIDE DEF b
      <4> QED BY <1>1, <4>1
    <3> HIDE DEF b
    <3> QED BY <1>7, <3>1, <3>2
  <2>3. b = place'
    BY <1>2
  <2> HIDE DEF b
  <2>4. (UNION {CoversAt(i) : i \in 1..(place - 1)}) \cup (UNION {CoversAt(i) : i \in place..(b - 1)})
           = UNION {CoversAt(i) : i \in 1..(b - 1)}
    BY <2>1
  <2> QED BY <2>2, <2>3, <2>4
<1>9. \A i \in DOMAIN reduced : reduced[i].covers \cap Covers = {}
  <2>1. Covered(reduced) \cap Covers = {}
    <3> SUFFICES ASSUME NEW x, x \in Covered(reduced), x \in Covers PROVE FALSE
      OBVIOUS
    <3>1. PICK i \in 1..(place - 1) : x \in CoversAt(i)
      BY DEF CoverInv
    <3>2. PICK j \in place..(place + Len(Batch) - 1) : x \in CoversAt(j)
      BY <1>1
    <3>3. i \in DOMAIN items /\ j \in DOMAIN items /\ i # j
      BY <1>1, <1>3
    <3> QED BY <3>1, <3>2, <3>3 DEF CoverInv
  <2> QED BY <2>1 DEF Covered
<1>10. Disjoint(reduced)'
  <2> SUFFICES ASSUME NEW i \in DOMAIN reduced', NEW j \in DOMAIN reduced', i < j
               PROVE  reduced'[i].covers \cap reduced'[j].covers = {}
    BY <1>4 DEF Disjoint
  <2>1. i \in 1..Len(reduced)
    BY <1>4
  <2>2. CASE j \in 1..Len(reduced)
    BY <1>4, <2>1, <2>2 DEF CoverInv, Disjoint
  <2>3. CASE j = Len(reduced) + 1
    BY <1>4, <1>9, <2>1, <2>3
  <2> QED BY <1>4, <2>2, <2>3
<1>11. UNION {CoversAt(i)' : i \in DOMAIN items} = Everything
  BY <1>5 DEF CoverInv
<1> QED BY <1>1, <1>2, <1>4, <1>5, <1>6, <1>8, <1>10, <1>11 DEF CoverInv

(* What a call is about is determined by the round that it is part of and  *)
(* by the place in it.                                                     *)
FitsWhen(who, r, limit, batch, item) ==
    IF r = 0
    THEN /\ Size(batch) + item.size <= Maximum
         /\ who = "grader" =>
               /\ Len(batch) < MaxEntries
               /\ item.media => Cardinality({i \in DOMAIN batch : batch[i].media}) < MaxMedia
    ELSE Size(batch) + item.size <= IF who = "grader" THEN Greatest(PackFloor, limit \div 2) ELSE Maximum

BatchWhen(who, r, limit, list, from) ==
    IF list = <<>> THEN <<>>
    ELSE SubSeq(list, from, Max({n \in from..Len(list) :
            \A k \in (from + 1)..n : FitsWhen(who, r, limit, SubSeq(list, from, k - 1), list[k])}))

LengthWhen(long, short, r, batch) ==
    IF r = 0 THEN long ELSE IF short THEN Greatest(1, Size(batch) \div 2) ELSE Size(batch)

LEMMA BatchNow == Batch = BatchWhen(role, round, maximum, items, place)
BY Zenon DEF Batch, BatchWhen, Upto, Fits, FitsPrompt, PackLimit, FitsWhen

LEMMA BatchNext == Batch' = BatchWhen(role', round', maximum', items', place')
BY Zenon DEF Batch, BatchWhen, Upto, Fits, FitsPrompt, PackLimit, FitsWhen

LEMMA LengthNow == Length = LengthWhen(notes, concise, round, Batch)
BY Zenon DEF Length, LengthWhen

LEMMA LengthNext == Length' = LengthWhen(notes', concise', round', Batch')
BY Zenon DEF Length, LengthWhen

LEMMA CoversNow == Covers = CoversOf(round, Batch)
BY Zenon DEF Covers, CoversOf, Ids

LEMMA CoversNext == Covers' = CoversOf(round', Batch')
BY Zenon DEF Covers, CoversOf, Ids, Covered
-----------------------------------------------------------------------------
(* A review begins, goes on and ends.                                      *)
FreshState ==
    /\ attempt \in {1, 2} /\ source \in Sources /\ role \in {"grader", "tweaker"} /\ notes \in Nat
    /\ pc = "asking" /\ maximum = Maximum /\ round = 0
    /\ items = Entries(role, attempt, source) /\ place = 1 /\ reduced = <<>> /\ answer = {}

\* Where a review begins, every fragment is an item.
LEMMA FreshIs == FreshState => TypeOK /\ AnswerInv /\ CoverInv /\ DecidingInv
<1> SUFFICES ASSUME FreshState PROVE TypeOK /\ AnswerInv /\ CoverInv /\ DecidingInv
  OBVIOUS
<1>1. items \in Seq(Entry)
  <2>1. attempt \in Nat /\ source \in Seq(Piece)
    BY SourceIs DEF FreshState
  <2> QED BY <2>1, EntriesAre DEF FreshState
<1>2. Maximum \in Nat
  BY ReviewingAssumption
<1>3. TypeOK
  <2>1. place \in 1..(Len(items) + 1)
    BY <1>1 DEF FreshState
  <2>2. reduced \in Seq(Summary)
    BY DEF FreshState
  <2> QED BY <1>2, <2>1, <2>2 DEF FreshState, TypeOK
<1>4. Ids(items) = Everything /\ Distinct(items)
  BY <1>3, ItemsAre DEF FreshState
<1>5. \A i : CoversAt(i) = {items[i].id}
  BY DEF CoversAt, FreshState
<1>6. CoverInv
  <2>1. UNION {CoversAt(i) : i \in DOMAIN items} = Everything
    BY <1>4, <1>5 DEF Ids
  <2>2. \A i, j \in DOMAIN items : i # j => CoversAt(i) \cap CoversAt(j) = {}
    BY <1>4, <1>5 DEF Distinct
  <2>3. Covered(reduced) = {} /\ Disjoint(reduced)
    BY DEF FreshState, Covered, Disjoint
  <2>4. 1..(place - 1) = {}
    BY DEF FreshState
  <2> QED BY <2>1, <2>2, <2>3, <2>4 DEF CoverInv
<1> QED BY <1>3, <1>6 DEF FreshState, AnswerInv, DecidingInv

\* What items stand for depends on nothing else.
LEMMA CoverStays ==
  ASSUME CoverInv, UNCHANGED <<role, attempt, source, round, items, place, reduced>>
  PROVE  CoverInv'
<1>1. \A i : CoversAt(i)' = CoversAt(i)
  BY DEF CoversAt
<1>2. Everything' = Everything /\ Covered(reduced)' = Covered(reduced) /\ Disjoint(reduced)' = Disjoint(reduced)
  BY DEF Everything, Covered, Disjoint
<1> QED BY <1>1, <1>2 DEF CoverInv

\* Each action keeps ReviewInv.
LEMMA ReviewInitially == Init => ReviewInv
<1> SUFFICES ASSUME Init PROVE ReviewInv
  OBVIOUS
<1>1. FreshState
  BY ReviewingAssumption DEF Init, FreshState
<1>2. KeptInv
  BY DEF Init, KeptInv
<1> QED BY <1>1, <1>2, FreshIs DEF ReviewInv

LEMMA RecallKeeps == ASSUME ReviewInv, Recall PROVE ReviewInv'
<1> USE DEF ReviewInv
<1>1. /\ pc = "asking" /\ Unread /\ Call \in DOMAIN kept /\ kept[Call].input = Batch
      /\ Take(kept[Call].output)
      /\ UNCHANGED <<setting, input, pc, maximum, round, items, tries, answer, kept, report, answered, faults>>
  BY DEF Recall, Asking, Kept, Reusable
<1>2. kept[Call].output \in Summary /\ kept[Call].output.covers = Covers
  <2>1. Call[1] = round
    BY DEF Call
  <2> QED BY <1>1, <2>1, CoversNow DEF KeptInv
<1>3. CoverInv' /\ reduced' \in Seq(Summary) /\ place' \in 1..(Len(items) + 1)
  BY <1>1, <1>2, TakeKeeps DEF input, setting
<1>4. TypeOK'
  BY <1>1, <1>3 DEF TypeOK, setting, input
<1>5. AnswerInv'
  BY <1>1 DEF AnswerInv
<1>6. KeptInv'
  BY <1>1 DEF KeptInv
<1>7. DecidingInv'
  BY <1>1 DEF DecidingInv
<1> QED BY <1>3, <1>4, <1>5, <1>6, <1>7

LEMMA AskValidKeeps == ASSUME ReviewInv, AskValid PROVE ReviewInv'
<1> USE DEF ReviewInv
<1>1. /\ pc = "asking" /\ Unread /\ pc' = "keeping" /\ answer' = {[size |-> Length, covers |-> Covers]}
      /\ UNCHANGED <<setting, input, maximum, round, items, place, reduced, kept, report, faults>>
  BY DEF AskValid, Asking
<1>2. CoverInv'
  BY <1>1, CoverStays DEF input, setting
<1>3. TypeOK'
  BY <1>1 DEF TypeOK, setting, input
<1>4. Batch' = Batch
  BY <1>1, BatchNow, BatchNext DEF setting
<1>5. Length' = Length /\ Covers' = Covers
  BY <1>1, <1>4, LengthNow, LengthNext, CoversNow, CoversNext DEF setting
<1>6. AnswerInv'
  <2>1. Unread'
    BY <1>1 DEF Unread
  <2> QED BY <1>1, <1>5, <2>1 DEF AnswerInv
<1>7. KeptInv'
  BY <1>1 DEF KeptInv
<1>8. DecidingInv'
  BY <1>1 DEF DecidingInv
<1> QED BY <1>2, <1>3, <1>6, <1>7, <1>8

LEMMA AskInvalidKeeps == ASSUME ReviewInv, AskInvalid PROVE ReviewInv'
<1> USE DEF ReviewInv
<1>1. /\ pc = "asking" /\ pc' \in {"asking", "stopped"}
      /\ UNCHANGED <<setting, input, maximum, round, items, place, reduced, answer, kept, report>>
  BY DEF AskInvalid, Asking
<1>2. CoverInv'
  BY <1>1, CoverStays DEF input, setting
<1>3. TypeOK'
  BY <1>1 DEF TypeOK, setting, input
<1> QED BY <1>1, <1>2, <1>3 DEF AnswerInv, KeptInv, DecidingInv

LEMMA KeepKeeps == ASSUME ReviewInv, Keep PROVE ReviewInv'
<1> USE DEF ReviewInv
<1> DEFINE a == [size |-> Length, covers |-> Covers]
<1>1. /\ pc = "keeping" /\ Unread /\ answer = {a}
      /\ UNCHANGED <<setting, input, maximum, round, items, tries, report, answered, faults>>
      /\ pc' = "asking" /\ answer' = {}
  BY DEF Keep, AnswerInv
<1>2. /\ kept' = [call \in DOMAIN kept \cup {Call} |->
                    IF call = Call THEN [input |-> Batch, output |-> a] ELSE kept[call]]
      /\ Take(a)
  <2> HIDE DEF a
  <2> QED BY <1>1 DEF Keep
<1>3. a \in Summary /\ a.covers = Covers
  BY <1>1, AnswerIs
<1> HIDE DEF a
<1>4. CoverInv' /\ reduced' \in Seq(Summary) /\ place' \in 1..(Len(items) + 1)
  BY <1>1, <1>2, <1>3, TakeKeeps DEF input, setting
<1>5. TypeOK'
  BY <1>1, <1>4 DEF TypeOK, setting, input
<1>6. KeptInv'
  <2> SUFFICES ASSUME NEW call \in DOMAIN kept'
               PROVE  /\ kept'[call].output \in Summary
                      /\ kept'[call].output.covers = CoversOf(call[1], kept'[call].input)
    BY DEF KeptInv, CoversOf, Ids, Covered
  <2>1. CASE call = Call
    <3>1. kept'[call].output = a /\ kept'[call].input = Batch
      BY <1>2, <2>1
    <3>2. call[1] = round
      BY <2>1 DEF Call
    <3> QED BY <1>3, <3>1, <3>2, CoversNow
  <2>2. CASE call # Call
    <3>1. kept'[call] = kept[call] /\ call \in DOMAIN kept
      BY <1>2, <2>2
    <3> QED BY <3>1 DEF KeptInv
  <2> QED BY <2>1, <2>2
<1>7. AnswerInv' /\ DecidingInv'
  BY <1>1 DEF AnswerInv, DecidingInv
<1> QED BY <1>4, <1>5, <1>6, <1>7

LEMMA EndRoundKeeps == ASSUME ReviewInv, EndRound PROVE ReviewInv'
<1> USE DEF ReviewInv
<1>1. /\ pc = "asking" /\ ~Unread
      /\ items' = reduced /\ place' = 1 /\ round' = round + 1 /\ reduced' = <<>>
      /\ maximum' \in {maximum, Greatest(HalfFloor, maximum \div 2)}
      /\ pc' \in {"deciding", "stuck", "asking"}
      /\ pc' = "deciding" => Size(reduced) <= maximum'
      /\ UNCHANGED <<setting, input, tries, answer, kept, report, answered, faults>>
  BY DEF EndRound, RoundOver
<1>2. /\ reduced \in Seq(Summary) /\ place \in 1..(Len(items) + 1) /\ Len(items) \in Nat /\ DOMAIN items = 1..Len(items)
  BY ItemsAre DEF TypeOK
<1>3. place = Len(items) + 1 /\ 1..(place - 1) = DOMAIN items
  BY <1>1, <1>2 DEF Unread
<1>4. maximum' \in 0..Maximum
  <2>1. maximum \in Nat /\ maximum <= Maximum /\ HalfFloor \in 0..Maximum /\ Maximum \in Nat
    BY ReviewingAssumption DEF TypeOK
  <2>2. maximum \div 2 \in Nat /\ maximum \div 2 <= maximum
    BY <2>1
  <2> QED BY <1>1, <2>1, <2>2 DEF Greatest
<1>5. TypeOK'
  <2>1. round' \in Nat /\ round' > 0
    BY <1>1 DEF TypeOK
  <2>2. place' \in 1..(Len(items') + 1) /\ reduced' \in Seq(Summary)
    BY <1>1, <1>2
  <2> QED BY <1>1, <1>2, <1>4, <2>1, <2>2 DEF TypeOK, setting, input
<1>6. CoverInv'
  <2>1. round' # 0
    BY <1>1 DEF TypeOK
  <2>2. \A i : CoversAt(i)' = reduced[i].covers
    BY <1>1, <2>1 DEF CoversAt
  <2>3. UNION {reduced[i].covers : i \in DOMAIN reduced} = Everything
    BY <1>3 DEF CoverInv, Covered
  <2>4. Everything' = Everything
    BY <1>1 DEF Everything, input, setting
  <2>5. \A i, j \in DOMAIN reduced : i # j => reduced[i].covers \cap reduced[j].covers = {}
    BY DEF CoverInv, Disjoint
  <2>6. Covered(reduced)' = {} /\ Disjoint(reduced)'
    BY <1>1 DEF Covered, Disjoint
  <2>7. 1..(place' - 1) = {}
    BY <1>1
  <2> QED BY <1>1, <2>2, <2>3, <2>4, <2>5, <2>6, <2>7 DEF CoverInv
<1>7. AnswerInv' /\ KeptInv'
  BY <1>1 DEF AnswerInv, KeptInv
<1>8. DecidingInv'
  BY <1>1 DEF DecidingInv, TypeOK
<1> QED BY <1>5, <1>6, <1>7, <1>8

\* A restart forgets all but the checkpoints, whatever the attempt.
LEMMA BeginKeeps ==
  ASSUME ReviewInv, NEW number \in {1, 2}, NEW evidence \in Sources, Begin(number, evidence), UNCHANGED <<setting, kept>>
  PROVE  ReviewInv'
<1>1. FreshState'
  BY DEF Begin, FreshState, ReviewInv, TypeOK, setting
<1>2. FreshState' => (TypeOK /\ AnswerInv /\ CoverInv /\ DecidingInv)'
  BY FreshIs, PTL
<1>3. KeptInv'
  BY DEF ReviewInv, KeptInv
<1> QED BY <1>1, <1>2, <1>3 DEF ReviewInv

\* GiveUp, Decide, RecallReport and Stop, and steps of nobody.
LEMMA OthersKeep ==
  ASSUME ReviewInv, UNCHANGED <<setting, input, maximum, round, items, place, reduced, answer, kept>>,
         pc' = pc \/ pc' \in {"decided", "unscored", "stopped", "stuck"},
         pc \in {"keeping", "reporting"} => pc' \in {pc, "stopped"}, pc = "stopped" => pc' = pc
  PROVE  ReviewInv'
<1> USE DEF ReviewInv
<1>1. CoverInv'
  BY CoverStays DEF input, setting
<1>2. TypeOK'
  BY DEF TypeOK, setting, input
<1>3. AnswerInv'
  <2>1. Batch' = Batch
    BY BatchNow, BatchNext DEF setting
  <2>2. Length' = Length /\ Covers' = Covers
    BY <2>1, LengthNow, LengthNext, CoversNow, CoversNext DEF setting
  <2>3. Unread' = Unread
    BY DEF Unread
  <2> QED BY <2>2, <2>3 DEF AnswerInv
<1>4. KeptInv' /\ DecidingInv'
  BY DEF KeptInv, DecidingInv
<1> QED BY <1>1, <1>2, <1>3, <1>4

LEMMA AskReportKeeps == ASSUME ReviewInv, AskReport PROVE ReviewInv'
<1>1. /\ pc = "deciding" /\ pc' \in {"deciding", "stopped", "reporting"}
      /\ pc' = "reporting" => \E r : answer' = {r}
      /\ pc' # "reporting" => answer' = answer
      /\ UNCHANGED <<setting, input, maximum, round, items, place, reduced, kept>>
  BY Zenon DEF AskReport
<1>2. CASE pc' # "reporting"
  BY <1>1, <1>2, OthersKeep
<1>3. CASE pc' = "reporting"
  <2> USE DEF ReviewInv
  <2>1. CoverInv'
    BY <1>1, CoverStays DEF input, setting
  <2>2. TypeOK'
    BY <1>1, <1>3 DEF TypeOK, setting, input
  <2> QED BY <1>1, <1>3, <2>1, <2>2 DEF AnswerInv, KeptInv, DecidingInv
<1> QED BY <1>2, <1>3

LEMMA KeepReportKeeps == ASSUME ReviewInv, KeepReport PROVE ReviewInv'
<1> USE DEF ReviewInv
<1>1. /\ pc = "reporting" /\ pc' = "decided" /\ answer' = {}
      /\ UNCHANGED <<setting, input, maximum, round, items, place, reduced, kept>>
  BY DEF KeepReport
<1>2. CoverInv'
  BY <1>1, CoverStays DEF input, setting
<1>3. TypeOK'
  BY <1>1 DEF TypeOK, setting, input
<1> QED BY <1>1, <1>2, <1>3 DEF AnswerInv, KeptInv, DecidingInv

LEMMA ReviewStep == ReviewInv /\ [Next]_vars => ReviewInv'
<1> SUFFICES ASSUME ReviewInv, [Next]_vars PROVE ReviewInv'
  OBVIOUS
<1>1. CASE Recall
  BY <1>1, RecallKeeps
<1>2. CASE AskValid
  BY <1>2, AskValidKeeps
<1>3. CASE Keep
  BY <1>3, KeepKeeps
<1>4. CASE EndRound
  BY <1>4, EndRoundKeeps
<1>5. CASE GiveUp
  BY <1>5, OthersKeep DEF GiveUp, RoundOver
<1>6. CASE Decide
  <2>1. /\ pc = "deciding" /\ pc' \in {"deciding", "decided", "unscored", "stopped"}
        /\ UNCHANGED <<setting, input, maximum, round, items, place, reduced, answer, kept>>
    BY <1>6, Zenon DEF Decide
  <2> QED BY <2>1, OthersKeep
<1>7. CASE AskInvalid
  BY <1>7, AskInvalidKeeps
<1>8. CASE Stop
  BY <1>8, OthersKeep DEF Stop
<1>9. CASE Resume
  BY <1>9, BeginKeeps DEF Resume, ReviewInv, TypeOK
<1>10. CASE Reexecute
  <2>1. PICK evidence \in Sources : Begin(2, evidence) /\ UNCHANGED <<setting, kept>>
    BY <1>10 DEF Reexecute
  <2> QED BY <2>1, BeginKeeps
<1>11. CASE UNCHANGED vars
  BY <1>11, OthersKeep DEF vars
<1>12. CASE RecallReport
  BY <1>12, OthersKeep DEF RecallReport
<1>13. CASE AskReport
  BY <1>13, AskReportKeeps
<1>14. CASE KeepReport
  BY <1>14, KeepReportKeeps
<1> QED BY <1>1, <1>2, <1>3, <1>4, <1>5, <1>6, <1>7, <1>8, <1>9, <1>10, <1>11, <1>12, <1>13, <1>14 DEF Next, Work

\* Whatever is answered and wherever a review is cut short and begun again,
\* with the same evidence or that of another execution, its items stand for
\* every fragment once (specialists.py:370-600).
THEOREM ReviewIsInvariant == Spec => []ReviewInv
BY ReviewInitially, ReviewStep, PTL DEF Spec

\* README.md:169: what is decided from stands for every fragment of the
\* attempt, none twice, and the fragments for every character, whatever the
\* lengths, the sizes of fragments and prompts, and the rounds it takes.
THEOREM FragmentsAreReviewed == Spec => []EveryFragmentOnce
<1>1. ReviewInv => EveryFragmentOnce
  <2> SUFFICES ASSUME ReviewInv PROVE EveryFragmentOnce
    OBVIOUS
  <2>1. ASSUME pc = "deciding" PROVE Covered(items) = Everything /\ Disjoint(items)
    <3>1. round # 0
      BY <2>1 DEF ReviewInv, DecidingInv
    <3>2. \A i : CoversAt(i) = items[i].covers
      BY <3>1 DEF CoversAt
    <3> QED BY <3>2 DEF ReviewInv, CoverInv, Covered, Disjoint
  <2>2. ASSUME NEW p \in DOMAIN source, NEW c \in 0..(source[p].length - 1)
        PROVE  \E k \in DOMAIN Fragments(role, source[p]) :
                  c \in Fragments(role, source[p])[k].offset..(Fragments(role, source[p])[k].offset + Fragments(role, source[p])[k].length - 1)
    <3>1. source[p] \in Piece
      BY SourceIs DEF ReviewInv, TypeOK
    <3> QED BY <3>1, EveryCharacter
  <2> QED BY <2>1, <2>2 DEF EveryFragmentOnce
<1> QED BY <1>1, ReviewIsInvariant, PTL

\* What fits is no longer than a prompt.
LEMMA FitIsBounded ==
  ASSUME TypeOK, NEW batch, NEW item, Size(batch) + item.size \in Int, Fits(batch, item)
  PROVE  Size(batch) + item.size <= Maximum
<1>1. maximum \in Nat /\ maximum <= Maximum /\ PackFloor \in 0..Maximum /\ Maximum \in Nat
  BY ReviewingAssumption DEF TypeOK
<1>2. maximum \div 2 \in Nat /\ maximum \div 2 <= maximum
  BY <1>1
<1>3. PackLimit \in Int /\ PackLimit <= Maximum
  BY <1>1, <1>2 DEF PackLimit, Greatest
<1> QED BY <1>1, <1>3 DEF Fits, FitsPrompt

\* specialists.py:453-460, :522-567: no decision is asked for with more than
\* a prompt holds, and no call with more unless a single item is longer.
THEOREM PromptsAreBounded == Spec => []BoundedPrompts
<1>1. ReviewInv => BoundedPrompts
  <2> SUFFICES ASSUME ReviewInv PROVE BoundedPrompts
    OBVIOUS
  <2>1. ASSUME pc = "deciding" PROVE Size(items) <= Maximum
    <3>1. Size(items) \in Nat
      BY ItemsAre, SizeIsNat DEF ReviewInv
    <3> QED BY <2>1, <3>1, ReviewingAssumption DEF ReviewInv, DecidingInv, TypeOK
  <2>2. ASSUME Asking PROVE Size(Batch) <= Maximum \/ Len(Batch) = 1
    <3>1. TypeOK /\ Unread
      BY <2>2 DEF Asking, ReviewInv
    <3>2. CASE items = <<>> /\ Batch = <<>>
      BY <3>2, SizeOfNone, ReviewingAssumption
    <3>3. ASSUME NEW n \in place..Len(items), Batch = Upto(n),
                 n = place \/ (n - 1 \in place..Len(items) /\ Fits(Upto(n - 1), items[n]))
          PROVE  Size(Batch) <= Maximum \/ Len(Batch) = 1
      <4>0. place \in Nat /\ Len(items) \in Nat /\ n \in Nat /\ Sized(items) /\ n \in DOMAIN items
        BY <3>1, ItemsAre DEF TypeOK
      <4>1. CASE n = place
        <5>1. Len(Upto(n)) = n - place + 1
          BY <3>1, UptoIs
        <5>2. n - place + 1 = 1
          BY <4>0, <4>1
        <5> QED BY <3>3, <5>1, <5>2
      <4>2. CASE n # place
        <5> DEFINE b == Upto(n - 1)
                   c == Upto(n)
        <5>1. n - 1 \in place..Len(items) /\ Fits(b, items[n])
          BY <3>3, <4>2
        <5>2. /\ Sized(b) /\ Sized(c) /\ Len(b) = (n - 1) - place + 1 /\ Len(c) = n - place + 1
              /\ \A i \in 1..((n - 1) - place + 1) : b[i] = items[place + i - 1]
              /\ \A i \in 1..(n - place + 1) : c[i] = items[place + i - 1]
          BY <3>1, <5>1, UptoIs
        <5> HIDE DEF b, c
        <5>3. Len(c) = Len(b) + 1 /\ \A i \in 1..Len(b) : c[i] = b[i]
          BY <4>0, <5>1, <5>2
        <5>4. c[Len(c)] = items[n]
          <6>1. Len(c) \in 1..(n - place + 1) /\ place + Len(c) - 1 = n
            BY <4>0, <4>2, <5>1, <5>2
          <6> QED BY <5>2, <6>1
        <5>5. Size(c) = Size(b) + items[n].size
          BY <5>2, <5>3, <5>4, SizeOfLonger
        <5>6. Size(b) + items[n].size \in Int
          <6>1. Size(b) \in Nat /\ items[n].size \in Nat
            BY <4>0, <5>2, SizeIsNat DEF Sized
          <6> QED BY <6>1
        <5> QED BY <3>1, <3>3, <5>1, <5>5, <5>6, FitIsBounded DEF c
      <4> QED BY <4>1, <4>2
    <3> QED BY <3>1, <3>2, <3>3, BatchIs
  <2> QED BY <2>1, <2>2 DEF BoundedPrompts
<1> QED BY <1>1, ReviewIsInvariant, PTL
-----------------------------------------------------------------------------
(* Without faults an attempt is one computation.  Work is how far it got,  *)
(* After what it does next.                                                *)
Now == [round |-> round, maximum |-> maximum, items |-> items, place |-> place, reduced |-> reduced]
Start == [round |-> 0, maximum |-> Maximum, items |-> Entries(role, 1, source), place |-> 1, reduced |-> <<>>]

UnreadAt(w) == w.place <= Len(w.items) \/ (w.items = <<>> /\ w.reduced = <<>>)
BatchAt(w) == BatchWhen(role, w.round, w.maximum, w.items, w.place)
OutputAt(w) == [size |-> LengthWhen(notes, concise, w.round, BatchAt(w)), covers |-> CoversOf(w.round, BatchAt(w))]

Taken(w) == [round |-> w.round, maximum |-> w.maximum, items |-> w.items,
             place |-> w.place + Len(BatchAt(w)), reduced |-> Append(w.reduced, OutputAt(w))]
LimitAfter(w) == IF role = "grader" /\ w.round > 0 /\ Len(w.reduced) >= Len(w.items) /\ Size(w.reduced) >= Size(w.items)
                 THEN Greatest(HalfFloor, w.maximum \div 2) ELSE w.maximum
Ended(w) == [round |-> w.round + 1, maximum |-> LimitAfter(w), items |-> w.reduced, place |-> 1, reduced |-> <<>>]
After(w) == IF UnreadAt(w) THEN Taken(w) ELSE Ended(w)

Same(v, w) == v.round = w.round /\ Len(v.reduced) = Len(w.reduced)
Before(v, w) == v.round < w.round \/ (v.round = w.round /\ Len(v.reduced) < Len(w.reduced))

\* What the last call decides from.
Fit(w) == w.round > 0 /\ w.reduced = <<>> /\ Size(w.items) <= w.maximum

\* What has been reached of it, up to the last.
Chain(reached, last) ==
    /\ \A w \in reached : w.round \in Nat /\ w.reduced \in Seq(Summary)
    /\ Start \in reached /\ last \in reached
    /\ \A v, w \in reached : Same(v, w) => v = w
    /\ \A w \in reached : w # last => Before(w, last) /\ After(w) \in reached /\ ~Fit(w)

\* Every checkpoint is of a call of it, and the report of its end.
Written(reached) ==
    report # {} => \E w \in reached : \E r : Fit(w) /\ report = {[input |-> w.items, output |-> r]}

Recorded(reached) ==
    \A call \in DOMAIN kept : \E w \in reached :
        /\ UnreadAt(w) /\ call = <<w.round, Len(w.reduced) + 1>>
        /\ kept[call] = [input |-> BatchAt(w), output |-> OutputAt(w)]

Going == {"asking", "keeping", "deciding", "reporting"}

HistoryInv ==
    attempt = 1 =>
        \E reached, last :
            /\ Chain(reached, last) /\ Recorded(reached) /\ Written(reached)
            /\ pc \in Going => Now \in reached

CountInv ==
    /\ IsFiniteSet(answer) /\ IsFiniteSet(DOMAIN kept) /\ IsFiniteSet(report)
    /\ answered \in Nat /\ faults \in Nat
    /\ attempt = 1 /\ pc = "keeping" => Call \notin DOMAIN kept
    /\ attempt = 1 /\ pc = "reporting" => report = {}
    /\ attempt = 1 => answered <= Cardinality(DOMAIN kept) + Cardinality(report) + faults
                                   + IF pc \in {"keeping", "reporting"} THEN 1 ELSE 0

\* A round is begun only when the last one's answers do not fit.
AskingInv == pc \in {"asking", "keeping"} /\ round > 0 /\ reduced = <<>> => ~(Size(items) <= maximum)

OnceInv == ReviewInv /\ AskingInv /\ HistoryInv /\ CountInv
-----------------------------------------------------------------------------
\* The fields of what was reached.
LEMMA FieldsAre ==
  /\ Now.round = round /\ Now.maximum = maximum /\ Now.items = items /\ Now.place = place /\ Now.reduced = reduced
  /\ Start.round = 0 /\ Start.reduced = <<>>
  /\ \A w : Taken(w).round = w.round /\ Taken(w).reduced = Append(w.reduced, OutputAt(w))
  /\ \A w : Ended(w).round = w.round + 1 /\ Ended(w).reduced = <<>>
BY DEF Now, Start, Taken, Ended

\* Where the computation is, the next call is the next of the model.
LEMMA AtNow ==
  /\ UnreadAt(Now) = Unread /\ BatchAt(Now) = Batch
  /\ OutputAt(Now) = [size |-> Length, covers |-> Covers]
  /\ Fit(Now) = (round > 0 /\ reduced = <<>> /\ Size(items) <= maximum)
<1>1. UnreadAt(Now) = Unread
  BY FieldsAre DEF UnreadAt, Unread
<1>2. BatchAt(Now) = Batch
  BY FieldsAre, BatchNow DEF BatchAt
<1>3. OutputAt(Now) = [size |-> Length, covers |-> Covers]
  BY <1>1, <1>2, FieldsAre, LengthNow, CoversNow DEF OutputAt
<1>4. Fit(Now) = (round > 0 /\ reduced = <<>> /\ Size(items) <= maximum)
  BY FieldsAre DEF Fit
<1> QED BY <1>1, <1>2, <1>3, <1>4

\* The computation depends on the setting and the source only.
LEMMA ChainStays ==
  ASSUME UNCHANGED <<setting, source>>
  PROVE  /\ \A w : BatchAt(w)' = BatchAt(w) /\ OutputAt(w)' = OutputAt(w) /\ After(w)' = After(w)
         /\ \A reached, last : Chain(reached, last) => Chain(reached, last)'
<1>1. role' = role /\ notes' = notes /\ concise' = concise /\ source' = source
  BY DEF setting
<1>2. \A w : BatchAt(w)' = BatchAt(w)
  BY <1>1 DEF BatchAt
<1>3. \A w : OutputAt(w)' = OutputAt(w)
  BY <1>1, <1>2 DEF OutputAt
<1>4. \A w : After(w)' = After(w)
  <2>1. \A w : LimitAfter(w)' = LimitAfter(w)
    BY <1>1 DEF LimitAfter
  <2> QED BY <1>2, <1>3, <2>1 DEF After, Taken, Ended
<1>5. Start' = Start
  BY <1>1 DEF Start
<1> QED BY <1>2, <1>3, <1>4, <1>5 DEF Chain

\* Checkpoints stay what they are, and more may be reached.
LEMMA RecordedStays ==
  ASSUME UNCHANGED <<setting, source, kept>>
  PROVE  \A reached : Recorded(reached) => Recorded(reached)'
BY ChainStays DEF Recorded

LEMMA WrittenStays ==
  ASSUME UNCHANGED report
  PROVE  \A reached : Written(reached) => Written(reached)'
BY DEF Written, Fit

LEMMA WrittenMore ==
  ASSUME NEW reached, NEW more, Written(reached), reached \subseteq more
  PROVE  Written(more)
BY DEF Written

LEMMA RecordedMore ==
  ASSUME NEW reached, NEW more, Recorded(reached), reached \subseteq more
  PROVE  Recorded(more)
BY DEF Recorded

\* What comes after something reached can be reached too.
LEMMA ChainGrows ==
  ASSUME NEW reached, NEW last, Chain(reached, last), NEW w \in reached, ~Fit(w),
         UnreadAt(w) => OutputAt(w) \in Summary
  PROVE  \E more, end : Chain(more, end) /\ reached \subseteq more /\ After(w) \in more
<1>1. CASE w # last
  BY <1>1 DEF Chain
<1>2. CASE w = last
  <2> DEFINE new == After(w)
  <2>1. w.round \in Nat /\ w.reduced \in Seq(Summary)
    BY DEF Chain
  <2>2. new.round \in Nat /\ new.reduced \in Seq(Summary) /\ Before(w, new)
    <3>1. CASE UnreadAt(w)
      <4>1. new.round = w.round /\ new.reduced = Append(w.reduced, OutputAt(w))
        BY <3>1, FieldsAre DEF After
      <4>2. Append(w.reduced, OutputAt(w)) \in Seq(Summary) /\ Len(Append(w.reduced, OutputAt(w))) = Len(w.reduced) + 1
            /\ Len(w.reduced) \in Nat
        BY <2>1, <3>1
      <4> QED BY <2>1, <4>1, <4>2 DEF Before
    <3>2. CASE ~UnreadAt(w)
      <4>1. new.round = w.round + 1 /\ new.reduced = <<>>
        BY <3>2, FieldsAre DEF After
      <4> QED BY <2>1, <4>1 DEF Before
    <3> QED BY <3>1, <3>2
  <2> HIDE DEF new
  <2>3. \A v \in reached : v.round \in Nat /\ Len(v.reduced) \in Nat
    BY DEF Chain
  <2>4. Len(new.reduced) \in Nat
    BY <2>2
  <2>5. \A v \in reached : Before(v, new)
    <3> SUFFICES ASSUME NEW v \in reached, v # last PROVE Before(v, new)
      BY <1>2, <2>2
    <3>1. Before(v, w)
      BY <1>2 DEF Chain
    <3> QED BY <2>2, <2>3, <2>4, <3>1 DEF Before
  <2>6. \A v \in reached : ~Same(v, new) /\ ~Same(new, v) /\ v # new
    BY <2>2, <2>3, <2>4, <2>5 DEF Before, Same
  <2>7. Chain(reached \cup {new}, new)
    <3>1. \A u, v \in reached \cup {new} : Same(u, v) => u = v
      BY <2>6 DEF Chain
    <3>2. ASSUME NEW v \in reached PROVE After(v) \in reached \cup {new}
      BY <1>2 DEF Chain, new
    <3>3. \A v \in reached : ~Fit(v)
      BY <1>2 DEF Chain
    <3> QED BY <2>2, <2>5, <3>1, <3>2, <3>3 DEF Chain
  <2> QED BY <2>7 DEF new
<1> QED BY <1>1, <1>2
-----------------------------------------------------------------------------
\* An answer takes the computation one call further.
LEMMA NowTaken ==
  ASSUME Unread, Take(OutputAt(Now)), UNCHANGED <<maximum, round, items>>
  PROVE  Now' = After(Now)
<1>1. After(Now) = Taken(Now)
  BY AtNow DEF After
<1>2. Taken(Now) = [round |-> round, maximum |-> maximum, items |-> items,
                    place |-> place + Len(Batch), reduced |-> Append(reduced, OutputAt(Now))]
  BY AtNow, FieldsAre DEF Taken
<1>3. Now' = [round |-> round', maximum |-> maximum', items |-> items', place |-> place', reduced |-> reduced']
  BY DEF Now
<1> QED BY <1>1, <1>2, <1>3 DEF Take

\* Nothing else that is reached is at the place of the call under way.
LEMMA OnlyNow ==
  ASSUME NEW reached, NEW last, Chain(reached, last), Now \in reached,
         NEW w \in reached, Call = <<w.round, Len(w.reduced) + 1>>
  PROVE  w = Now
<1>1. Len(w.reduced) \in Nat /\ Len(reduced) \in Nat
  BY FieldsAre DEF Chain
<1>2. w.round = round /\ Len(w.reduced) + 1 = Len(reduced) + 1
  BY DEF Call
<1>3. Same(w, Now)
  BY <1>1, <1>2, FieldsAre DEF Same
<1> QED BY <1>3 DEF Chain

\* A checkpoint of the call under way is reused.
LEMMA KeptNow ==
  ASSUME NEW reached, NEW last, Chain(reached, last), Recorded(reached), Now \in reached, Call \in DOMAIN kept
  PROVE  kept[Call] = [input |-> Batch, output |-> OutputAt(Now)]
<1>1. PICK w \in reached : Call = <<w.round, Len(w.reduced) + 1>>
                           /\ kept[Call] = [input |-> BatchAt(w), output |-> OutputAt(w)]
  BY DEF Recorded
<1>2. w = Now
  BY <1>1, OnlyNow
<1> QED BY <1>1, <1>2, AtNow

\* The next call has an answer.
LEMMA OutputNow ==
  ASSUME ReviewInv, Unread
  PROVE  OutputAt(Now) \in Summary
BY AnswerIs, AtNow DEF ReviewInv

\* Steps that make no checkpoint and stay where they are.
LEMMA HistoryStays ==
  ASSUME HistoryInv, UNCHANGED <<setting, source, kept, report>>, attempt' = attempt,
         pc' \in Going => pc \in Going /\ Now' = Now
  PROVE  HistoryInv'
<1> SUFFICES ASSUME attempt = 1
             PROVE  \E reached, last : Chain(reached, last)' /\ Recorded(reached)' /\ Written(reached)'
                                       /\ (pc' \in Going => Now' \in reached)
  BY DEF HistoryInv, Going
<1>1. PICK reached, last : Chain(reached, last) /\ Recorded(reached) /\ Written(reached)
                           /\ (pc \in Going => Now \in reached)
  BY DEF HistoryInv
<1> QED BY <1>1, ChainStays, RecordedStays, WrittenStays

\* The computation goes on, with or without a call.
LEMMA HistoryGrows ==
  ASSUME OnceInv, pc = "asking", UNCHANGED <<setting, source, kept, report>>, attempt' = attempt,
         attempt = 1 => Now' = After(Now)
  PROVE  HistoryInv'
<1> SUFFICES ASSUME attempt = 1
             PROVE  \E reached, last : Chain(reached, last)' /\ Recorded(reached)' /\ Written(reached)'
                                       /\ (pc' \in Going => Now' \in reached)
  BY DEF HistoryInv, Going
<1>1. PICK reached, last : Chain(reached, last) /\ Recorded(reached) /\ Written(reached) /\ Now \in reached
  BY DEF OnceInv, HistoryInv, Going
<1>2. UnreadAt(Now) => OutputAt(Now) \in Summary
  BY AtNow, OutputNow DEF OnceInv
<1>3. ~Fit(Now)
  BY AtNow DEF OnceInv, AskingInv
<1>4. PICK more, end : Chain(more, end) /\ reached \subseteq more /\ After(Now) \in more
  BY <1>1, <1>2, <1>3, ChainGrows
<1>5. Recorded(more) /\ Written(more)
  BY <1>1, <1>4, RecordedMore, WrittenMore
<1> QED BY <1>4, <1>5, ChainStays, RecordedStays, WrittenStays

\* Steps that count no answer.
LEMMA CountStays ==
  ASSUME CountInv, UNCHANGED <<kept, report, answered>>, attempt' = attempt, IsFiniteSet(answer'),
         \/ pc \notin {"keeping", "reporting"} /\ faults' = faults
         \/ faults' = faults + 1,
         pc' \notin {"keeping", "reporting"}
  PROVE  CountInv'
<1>1. Cardinality(DOMAIN kept) \in Nat /\ Cardinality(report) \in Nat
  BY FS_CardinalityType DEF CountInv
<1> QED BY <1>1 DEF CountInv

\* Each action keeps OnceInv.
LEMMA OnceInitially == Init => OnceInv
<1> SUFFICES ASSUME Init PROVE OnceInv
  OBVIOUS
<1>1. ReviewInv
  BY ReviewInitially
<1>2. HistoryInv
  <2>1. Now = Start
    BY DEF Init, Now, Start
  <2>2. Chain({Start}, Start)
    <3>1. Start.round \in Nat /\ Start.reduced \in Seq(Summary)
      BY FieldsAre
    <3> QED BY <3>1, Zenon DEF Chain
  <2>3. Recorded({Start})
    BY DEF Init, Recorded
  <2>4. Written({Start})
    BY DEF Init, Written
  <2> QED BY <2>1, <2>2, <2>3, <2>4 DEF HistoryInv
<1>3. CountInv
  <2>1. answer = {} /\ DOMAIN kept = {} /\ report = {} /\ answered = 0 /\ faults = 0 /\ pc = "asking"
    BY DEF Init
  <2> QED BY <2>1, FS_EmptySet DEF CountInv
<1>4. AskingInv
  BY DEF Init, AskingInv
<1> QED BY <1>1, <1>2, <1>3, <1>4 DEF OnceInv

LEMMA RecallOnce == ASSUME OnceInv, Recall PROVE AskingInv' /\ HistoryInv' /\ CountInv'
<1>1. /\ pc = "asking" /\ Unread /\ Call \in DOMAIN kept
      /\ Take(kept[Call].output)
      /\ UNCHANGED <<setting, input, pc, maximum, round, items, tries, answer, kept, report, answered, faults>>
  BY DEF Recall, Asking, Kept, Reusable
<1>2. ASSUME attempt = 1 PROVE Now' = After(Now)
  <2>1. PICK reached, last : Chain(reached, last) /\ Recorded(reached) /\ Now \in reached
    BY <1>1, <1>2 DEF OnceInv, HistoryInv, Going
  <2>2. kept[Call].output = OutputAt(Now)
    BY <1>1, <2>1, KeptNow
  <2> QED BY <1>1, <2>2, NowTaken
<1>3. HistoryInv'
  BY <1>1, <1>2, HistoryGrows DEF input
<1>4. CountInv'
  BY <1>1, CountStays DEF OnceInv, CountInv, input
<1>5. reduced' # <<>>
  BY <1>1 DEF Take, OnceInv, ReviewInv, TypeOK
<1> QED BY <1>3, <1>4, <1>5 DEF AskingInv

LEMMA AskValidOnce == ASSUME OnceInv, AskValid PROVE AskingInv' /\ HistoryInv' /\ CountInv'
<1>1. /\ pc = "asking" /\ Unread /\ ~Kept
      /\ answer' = {[size |-> Length, covers |-> Covers]} /\ answered' = answered + 1 /\ pc' = "keeping"
      /\ UNCHANGED <<setting, input, maximum, round, items, place, reduced, kept, report, faults>>
  BY DEF AskValid, Asking
<1>2. Now' = Now
  BY <1>1 DEF Now
<1>3. HistoryInv'
  BY <1>1, <1>2, HistoryStays DEF OnceInv, input, Going
<1>4. Call' = Call
  BY <1>1 DEF Call
<1>5. ASSUME attempt = 1 PROVE Call \notin DOMAIN kept
  <2>1. PICK reached, last : Chain(reached, last) /\ Recorded(reached) /\ Now \in reached
    BY <1>1, <1>5 DEF OnceInv, HistoryInv, Going
  <2> SUFFICES ASSUME Call \in DOMAIN kept PROVE FALSE
    OBVIOUS
  <2>2. kept[Call].input = Batch
    BY <2>1, KeptNow
  <2> QED BY <1>1, <2>2 DEF Kept, Reusable
<1>6. IsFiniteSet(answer')
  BY <1>1, FS_Singleton
<1>7. Cardinality(DOMAIN kept) \in Nat /\ Cardinality(report) \in Nat
  BY FS_CardinalityType DEF OnceInv, CountInv
<1>8. CountInv'
  BY <1>1, <1>4, <1>5, <1>6, <1>7 DEF OnceInv, CountInv, input
<1>9. AskingInv'
  BY <1>1 DEF OnceInv, AskingInv
<1> QED BY <1>3, <1>8, <1>9

LEMMA KeepOnce == ASSUME OnceInv, Keep PROVE AskingInv' /\ HistoryInv' /\ CountInv'
<1>1. /\ pc = "keeping" /\ Unread /\ answer = {OutputAt(Now)} /\ answer' = {} /\ pc' = "asking"
      /\ UNCHANGED <<setting, input, maximum, round, items, tries, report, answered, faults>>
  BY AtNow DEF Keep, OnceInv, ReviewInv, AnswerInv
<1>2. /\ kept' = [call \in DOMAIN kept \cup {Call} |->
                    IF call = Call THEN [input |-> Batch, output |-> OutputAt(Now)] ELSE kept[call]]
      /\ Take(OutputAt(Now))
  BY <1>1 DEF Keep
<1>3. Now' = After(Now)
  BY <1>1, <1>2, NowTaken
<1>4. setting' = setting /\ source' = source /\ attempt' = attempt
  BY <1>1 DEF input
<1>5. ASSUME attempt = 1
      PROVE  \E reached, last : Chain(reached, last)' /\ Recorded(reached)' /\ Written(reached)'
                                /\ (pc' \in Going => Now' \in reached)
  <2>1. PICK reached, last : Chain(reached, last) /\ Recorded(reached) /\ Written(reached) /\ Now \in reached
    BY <1>1, <1>5 DEF OnceInv, HistoryInv, Going
  <2>2. UnreadAt(Now) /\ OutputAt(Now) \in Summary
    BY <1>1, AtNow, OutputNow DEF OnceInv
  <2>3. ~Fit(Now)
    BY <1>1, AtNow DEF OnceInv, AskingInv
  <2>4. PICK more, end : Chain(more, end) /\ reached \subseteq more /\ After(Now) \in more
    BY <2>1, <2>2, <2>3, ChainGrows
  <2>5. Recorded(more)'
    <3> SUFFICES ASSUME NEW call \in DOMAIN kept'
                 PROVE  \E w \in more : /\ UnreadAt(w) /\ call = <<w.round, Len(w.reduced) + 1>>
                                        /\ kept'[call] = [input |-> BatchAt(w)', output |-> OutputAt(w)']
      BY DEF Recorded, UnreadAt
    <3>1. \A w : BatchAt(w)' = BatchAt(w) /\ OutputAt(w)' = OutputAt(w)
      BY <1>4, ChainStays
    <3>2. CASE call = Call
      <4>1. Call = <<Now.round, Len(Now.reduced) + 1>>
        BY FieldsAre DEF Call
      <4>2. kept'[call] = [input |-> BatchAt(Now), output |-> OutputAt(Now)]
        BY <1>2, <3>2, AtNow
      <4>3. Now \in more
        BY <2>1, <2>4
      <4> QED BY <2>2, <3>1, <3>2, <4>1, <4>2, <4>3
    <3>3. CASE call # Call
      <4>1. call \in DOMAIN kept /\ kept'[call] = kept[call]
        BY <1>2, <3>3
      <4>2. PICK w \in reached : /\ UnreadAt(w) /\ call = <<w.round, Len(w.reduced) + 1>>
                                 /\ kept[call] = [input |-> BatchAt(w), output |-> OutputAt(w)]
        BY <2>1, <4>1 DEF Recorded
      <4> QED BY <2>4, <3>1, <4>1, <4>2
    <3> QED BY <3>2, <3>3
  <2>6. Chain(more, end)'
    BY <1>4, <2>4, ChainStays
  <2>7. Written(more)'
    BY <1>1, <2>1, <2>4, WrittenMore, WrittenStays
  <2> QED BY <1>3, <2>4, <2>5, <2>6, <2>7
<1>6. HistoryInv'
  BY <1>4, <1>5 DEF HistoryInv
<1>7. IsFiniteSet(DOMAIN kept) /\ Cardinality(DOMAIN kept) \in Nat /\ Cardinality(report) \in Nat
  BY FS_CardinalityType DEF OnceInv, CountInv
<1>8. DOMAIN kept' = DOMAIN kept \cup {Call}
  BY <1>2
<1>9. /\ IsFiniteSet(DOMAIN kept')
      /\ Call \notin DOMAIN kept => Cardinality(DOMAIN kept') = Cardinality(DOMAIN kept) + 1
  BY <1>7, <1>8, FS_AddElement
<1>10. IsFiniteSet(answer')
  BY <1>1, FS_EmptySet
<1>11. CountInv'
  BY <1>1, <1>4, <1>7, <1>9, <1>10 DEF OnceInv, CountInv
<1>12. AskingInv'
  <2>1. reduced' # <<>>
    BY <1>2 DEF Take, OnceInv, ReviewInv, TypeOK
  <2> QED BY <2>1 DEF AskingInv
<1> QED BY <1>6, <1>11, <1>12

LEMMA EndRoundOnce == ASSUME OnceInv, EndRound PROVE AskingInv' /\ HistoryInv' /\ CountInv'
<1>1. /\ pc = "asking" /\ ~Unread /\ pc' \in {"asking", "deciding", "stuck"}
      /\ maximum' = IF role = "grader" /\ round > 0 /\ GainedNothing THEN Greatest(HalfFloor, maximum \div 2) ELSE maximum
      /\ items' = reduced /\ place' = 1 /\ round' = round + 1 /\ reduced' = <<>>
      /\ pc' = "asking" => ~(Size(reduced) <= maximum')
      /\ UNCHANGED <<setting, input, tries, answer, kept, report, answered, faults>>
  BY DEF EndRound, RoundOver
<1>2. Now' = After(Now)
  <2>1. After(Now) = Ended(Now)
    BY <1>1, AtNow DEF After
  <2>2. LimitAfter(Now) = maximum'
    BY <1>1, FieldsAre DEF LimitAfter, GainedNothing
  <2>3. Ended(Now) = [round |-> round + 1, maximum |-> maximum', items |-> reduced, place |-> 1, reduced |-> <<>>]
    BY <2>2, FieldsAre DEF Ended
  <2>4. Now' = [round |-> round', maximum |-> maximum', items |-> items', place |-> place', reduced |-> reduced']
    BY DEF Now
  <2> QED BY <1>1, <2>1, <2>3, <2>4
<1>3. HistoryInv'
  BY <1>1, <1>2, HistoryGrows DEF input
<1>4. CountInv'
  BY <1>1, CountStays DEF OnceInv, CountInv, input
<1>5. AskingInv'
  BY <1>1 DEF AskingInv
<1> QED BY <1>3, <1>4, <1>5

\* Decide, RecallReport, GiveUp, AskInvalid and Stop, and steps of nobody: the computation
\* stays where it is, or is left for good or until it is begun again.
LEMMA OthersOnce ==
  ASSUME OnceInv, UNCHANGED <<setting, input, kept, report, answered, answer>>,
         pc' \in Going => pc' = pc /\ UNCHANGED <<maximum, round, items, place, reduced>>,
         faults' \in {faults, faults + 1}, pc \in {"keeping", "reporting"} => pc' = pc \/ faults' = faults + 1
  PROVE  AskingInv' /\ HistoryInv' /\ CountInv'
<1>1. HistoryInv'
  <2>1. pc' \in Going => pc \in Going /\ Now' = Now
    BY DEF Now
  <2> QED BY <2>1, HistoryStays DEF OnceInv, input
<1>2. CountInv'
  <2>1. CASE pc' \notin {"keeping", "reporting"}
    <3>1. faults' = faults + 1 \/ (pc \notin {"keeping", "reporting"} /\ faults' = faults)
      BY <2>1
    <3> QED BY <2>1, <3>1, CountStays DEF OnceInv, CountInv, input
  <2>2. CASE pc' \in {"keeping", "reporting"}
    <3>1. Call' = Call /\ pc' = pc
      BY <2>2 DEF Call, Going
    <3>2. Cardinality(DOMAIN kept) \in Nat /\ Cardinality(report) \in Nat
      BY FS_CardinalityType DEF OnceInv, CountInv
    <3> QED BY <2>2, <3>1, <3>2 DEF OnceInv, CountInv, input
  <2> QED BY <2>1, <2>2
<1>3. AskingInv'
  BY DEF OnceInv, AskingInv, Going
<1> QED BY <1>1, <1>2, <1>3

\* A report is asked for only when there is none.
LEMMA NothingReported ==
  ASSUME OnceInv, pc = "deciding", attempt = 1, ~Reported
  PROVE  report = {}
<1>1. PICK reached, last : Chain(reached, last) /\ Written(reached) /\ Now \in reached
  BY DEF OnceInv, HistoryInv, Going
<1>2. Fit(Now)
  BY AtNow DEF OnceInv, ReviewInv, DecidingInv
<1> SUFFICES ASSUME report # {} PROVE FALSE
  OBVIOUS
<1>3. PICK w \in reached : \E r : Fit(w) /\ report = {[input |-> w.items, output |-> r]}
  BY <1>1 DEF Written
<1>4. w = last /\ Now = last
  BY <1>1, <1>2, <1>3 DEF Chain
<1>5. w.items = items
  BY <1>4, FieldsAre
<1> QED BY <1>3, <1>5 DEF Reported

LEMMA AskReportOnce == ASSUME OnceInv, AskReport PROVE AskingInv' /\ HistoryInv' /\ CountInv'
<1>1. /\ pc = "deciding" /\ ~Reported
      /\ UNCHANGED <<setting, input, maximum, round, items, place, reduced, kept, report>>
      /\ \/ /\ pc' = "reporting" /\ answered' = answered + 1 /\ faults' = faults
            /\ \E r : answer' = {r}
         \/ /\ pc' \in {"deciding", "stopped"} /\ faults' \in {faults, faults + 1}
            /\ UNCHANGED <<answer, answered>>
  BY Zenon DEF AskReport
<1>2. CASE pc' # "reporting"
  BY <1>1, <1>2, OthersOnce DEF Going
<1>3. CASE pc' = "reporting"
  <2>1. Now' = Now
    BY <1>1 DEF Now
  <2>2. HistoryInv'
    BY <1>1, <1>3, <2>1, HistoryStays DEF OnceInv, input, Going
  <2>3. IsFiniteSet(answer')
    BY <1>1, <1>3, FS_Singleton
  <2>4. Cardinality(DOMAIN kept) \in Nat /\ Cardinality(report) \in Nat
    BY FS_CardinalityType DEF OnceInv, CountInv
  <2>5. attempt = 1 => report = {}
    BY <1>1, NothingReported
  <2>6. CountInv'
    BY <1>1, <1>3, <2>3, <2>4, <2>5 DEF OnceInv, CountInv, input
  <2> QED BY <1>3, <2>2, <2>6 DEF AskingInv
<1> QED BY <1>2, <1>3

LEMMA KeepReportOnce == ASSUME OnceInv, KeepReport PROVE AskingInv' /\ HistoryInv' /\ CountInv'
<1>1. /\ pc = "reporting" /\ pc' = "decided" /\ answer' = {}
      /\ UNCHANGED <<setting, input, maximum, round, items, place, reduced, tries, kept, answered, faults>>
  BY DEF KeepReport
<1>2. PICK r : answer = {r}
  BY <1>1 DEF OnceInv, ReviewInv, AnswerInv
<1>3. report' = {[input |-> items, output |-> r]}
  BY <1>2 DEF KeepReport
<1>4. HistoryInv'
  <2> SUFFICES ASSUME attempt = 1
               PROVE  \E reached, last : Chain(reached, last)' /\ Recorded(reached)' /\ Written(reached)'
    BY <1>1 DEF HistoryInv, Going, input
  <2>1. PICK reached, last : Chain(reached, last) /\ Recorded(reached) /\ Now \in reached
    BY <1>1 DEF OnceInv, HistoryInv, Going
  <2>2. Fit(Now) /\ Now.items = items
    BY <1>1, AtNow, FieldsAre DEF OnceInv, ReviewInv, DecidingInv
  <2>3. Written(reached)'
    BY <1>3, <2>1, <2>2, Zenon DEF Written, Fit
  <2> QED BY <1>1, <2>1, <2>3, ChainStays, RecordedStays DEF input
<1>5. CountInv'
  <2>1. IsFiniteSet(answer') /\ IsFiniteSet(report') /\ Cardinality(report') = 1
    BY <1>1, <1>3, FS_EmptySet, FS_Singleton
  <2>2. Cardinality(DOMAIN kept) \in Nat /\ (attempt = 1 => Cardinality(report) = 0)
    BY <1>1, FS_CardinalityType, FS_EmptySet DEF OnceInv, CountInv
  <2> QED BY <1>1, <2>1, <2>2 DEF OnceInv, CountInv, input
<1> QED BY <1>1, <1>4, <1>5 DEF AskingInv

LEMMA ResumeOnce == ASSUME OnceInv, Resume PROVE AskingInv' /\ HistoryInv' /\ CountInv'
<1>1. /\ pc = "stopped" /\ pc' = "asking" /\ attempt' = attempt /\ source' = source
      /\ maximum' = Maximum /\ round' = 0 /\ items' = Entries(role, attempt, source) /\ place' = 1
      /\ reduced' = <<>> /\ answer' = {}
      /\ UNCHANGED <<setting, kept, report, answered, faults>>
  BY DEF Resume, Begin
<1>2. HistoryInv'
  <2> SUFFICES ASSUME attempt = 1
               PROVE  \E reached, last : Chain(reached, last)' /\ Recorded(reached)' /\ Written(reached)'
                                         /\ (pc' \in Going => Now' \in reached)
    BY <1>1 DEF HistoryInv, Going
  <2>1. PICK reached, last : Chain(reached, last) /\ Recorded(reached) /\ Written(reached)
    BY DEF OnceInv, HistoryInv
  <2>2. Now' = Start
    BY <1>1 DEF Now, Start
  <2>3. Now' \in reached
    BY <2>1, <2>2 DEF Chain
  <2> QED BY <1>1, <2>1, <2>3, ChainStays, RecordedStays, WrittenStays
<1>3. CountInv'
  <2>1. IsFiniteSet(answer')
    BY <1>1, FS_EmptySet
  <2> QED BY <1>1, <2>1, CountStays DEF OnceInv, CountInv
<1> QED BY <1>1, <1>2, <1>3 DEF AskingInv

LEMMA ReexecuteOnce == ASSUME OnceInv, Reexecute PROVE AskingInv' /\ HistoryInv' /\ CountInv'
<1>1. /\ attempt' = 2 /\ answered' = 0 /\ faults' = MaxFaults /\ answer' = {} /\ pc' = "asking" /\ round' = 0
      /\ kept' = kept /\ report' = report
  BY DEF Reexecute, Begin
<1>2. IsFiniteSet(answer')
  BY <1>1, FS_EmptySet
<1>3. MaxFaults \in Nat
  BY ReviewingAssumption
<1> QED BY <1>1, <1>2, <1>3 DEF OnceInv, AskingInv, HistoryInv, CountInv

LEMMA OnceStep == OnceInv /\ [Next]_vars => OnceInv'
<1> SUFFICES ASSUME OnceInv, [Next]_vars PROVE OnceInv'
  OBVIOUS
<1>1. ReviewInv'
  BY ReviewStep DEF OnceInv
<1>2. AskingInv' /\ HistoryInv' /\ CountInv'
  <2>1. CASE Recall
    BY <2>1, RecallOnce
  <2>2. CASE AskValid
    BY <2>2, AskValidOnce
  <2>3. CASE Keep
    BY <2>3, KeepOnce
  <2>4. CASE EndRound
    BY <2>4, EndRoundOnce
  <2>5. CASE GiveUp
    BY <2>5, OthersOnce DEF GiveUp, RoundOver, Going
  <2>6. CASE Decide
    <3>1. /\ pc = "deciding" /\ pc' \in {"deciding", "decided", "unscored", "stopped"}
          /\ faults' \in {faults, faults + 1}
          /\ UNCHANGED <<setting, input, maximum, round, items, place, reduced, answer, kept, report, answered>>
      BY <2>6, Zenon DEF Decide
    <3> QED BY <3>1, OthersOnce DEF Going
  <2>7. CASE AskInvalid
    <3>1. /\ pc = "asking" /\ pc' \in {pc, "stopped"} /\ faults' \in {faults, faults + 1}
          /\ UNCHANGED <<setting, input, maximum, round, items, place, reduced, answer, kept, report, answered>>
      BY <2>7 DEF AskInvalid, Asking
    <3> QED BY <3>1, OthersOnce DEF Going
  <2>8. CASE Stop
    BY <2>8, OthersOnce DEF Stop, Going
  <2>9. CASE Resume
    BY <2>9, ResumeOnce
  <2>10. CASE Reexecute
    BY <2>10, ReexecuteOnce
  <2>11. CASE UNCHANGED vars
    <3>1. pc' = pc /\ faults' = faults
          /\ UNCHANGED <<setting, input, maximum, round, items, place, reduced, answer, kept, report, answered>>
      BY <2>11 DEF vars
    <3> QED BY <3>1, OthersOnce DEF OnceInv, CountInv
  <2>12. CASE RecallReport
    BY <2>12, OthersOnce DEF RecallReport, Going
  <2>13. CASE AskReport
    BY <2>13, AskReportOnce
  <2>14. CASE KeepReport
    BY <2>14, KeepReportOnce
  <2> QED BY <2>1, <2>2, <2>3, <2>4, <2>5, <2>6, <2>7, <2>8, <2>9, <2>10, <2>11, <2>12, <2>13, <2>14 DEF Next, Work
<1> QED BY <1>1, <1>2 DEF OnceInv

\* README.md:276: all valid answers are kept but those that outages and
\* crashes take, so only what they took is asked for again, however often a
\* review of the same evidence is begun anew (specialists.py:54-72).
THEOREM AnswersAreKept == Spec => []LittleIsRepeated
<1>1. OnceInv => LittleIsRepeated
  <2> SUFFICES ASSUME OnceInv, attempt = 1
               PROVE  answered <= Cardinality(DOMAIN kept) + Cardinality(report) + Cardinality(answer) + faults
    BY DEF LittleIsRepeated
  <2>1. Cardinality(DOMAIN kept) \in Nat /\ Cardinality(report) \in Nat /\ Cardinality(answer) \in Nat
    BY FS_CardinalityType DEF OnceInv, CountInv
  <2>2. pc \in {"keeping", "reporting"} => Cardinality(answer) = 1
    BY FS_Singleton DEF OnceInv, ReviewInv, AnswerInv
  <2> QED BY <2>1, <2>2 DEF OnceInv, CountInv
<1>2. Spec => []OnceInv
  BY OnceInitially, OnceStep, PTL DEF Spec
<1> QED BY <1>1, <1>2, PTL
=============================================================================
