------------------------------- MODULE Loops --------------------------------
(***************************************************************************)
(* How the loops of this program are followed, turn by turn, whatever they *)
(* compute: an induction over the natural numbers that needs no operator   *)
(* for its hypothesis (it is derived here from facts about finite sets),   *)
(* that a recursive function exists, and what a fold over a sequence does. *)
(*                                                                         *)
(* Then the loops of the text helpers in Strings, for texts of any length  *)
(* over any alphabet, as facts about their operators:                      *)
(*                                                                         *)
(*   patterns   the places from which the rest of a pattern matches        *)
(*              (Rests) and the lengths its beginning can stand for        *)
(*              (Meanings) meet at every place of the pattern              *)
(*              (MeetInTheMiddle);                                         *)
(*   splitting  a turn touches the last piece only (TouchesLast), so what  *)
(*              is split on both sides of a delimiter is split together    *)
(*              (SplitBoth), whichever of the splitters does it            *)
(*              (SplitAtOne, WordStepIs);                                  *)
(*   lines      the switches and arguments of a command line after each    *)
(*              of its words (AppendedIs, ArgumentsGrow, PositionsGrow);   *)
(*              what is true of every line that is made (Kept) and why     *)
(*              such a line is made again from its words (ReadAgain), its  *)
(*              writing (WrittenAgain) and its switches (CopiedAll).       *)
(***************************************************************************)
EXTENDS Strings, FiniteSetTheorems, FunctionTheorems, SequenceTheorems, TLAPS

(* Induction on a set: the set of the n whose predecessors are all in S  *)
(* is closed under n + 1; were it bounded, n + 1 would map a finite set  *)
(* onto itself less one element.                                         *)
LEMMA InductionOver ==
    ASSUME NEW S, 0 \in S, \A n \in Nat : n \in S => n + 1 \in S
    PROVE  \A n \in Nat : n \in S
  <1>1. SUFFICES ASSUME NEW t \in Nat, t \notin S PROVE FALSE
    OBVIOUS
  <1> DEFINE D == {n \in Nat : \A m \in 0..n : m \in S}
             f == [n \in D |-> n + 1]
  <1>2. 0 \in D /\ \A n \in D : n + 1 \in D
    <2>1. 0 \in D OBVIOUS
    <2>2. ASSUME NEW n \in D PROVE n + 1 \in D
      <3>1. n \in S /\ n + 1 \in S OBVIOUS
      <3>2. \A m \in 0..(n + 1) : m \in 0..n \/ m = n + 1 OBVIOUS
      <3> QED BY <3>1, <3>2
    <2> QED BY <2>1, <2>2
  <1>3. D \subseteq 0..t
    BY <1>1
  <1>4. IsFiniteSet(D) /\ Cardinality(D) \in Nat
    <2>1. IsFiniteSet(0..t)
      BY FS_Interval
    <2> QED BY <2>1, <1>3, FS_Subset, FS_CardinalityType
  <1>5. f \in Bijection(D, D \ {0})
    <2>1. f \in [D -> D \ {0}] BY <1>2
    <2>2. \A x, y \in D : f[x] = f[y] => x = y OBVIOUS
    <2>3. \A y \in D \ {0} : \E x \in D : f[x] = y
      <3> TAKE y \in D \ {0}
      <3>1. y - 1 \in D /\ f[y - 1] = y OBVIOUS
      <3> QED BY <3>1
    <2> HIDE DEF D, f
    <2> QED BY <2>1, <2>2, <2>3, Fun_IsBij
  <1> HIDE DEF D, f
  <1>6. Cardinality(D) = Cardinality(D \ {0})
    BY <1>4, <1>5, FS_Bijection DEF ExistsBijection
  <1>7. Cardinality(D \ {0}) = Cardinality(D) - 1
    BY <1>2, <1>4, FS_RemoveElement
  <1> QED BY <1>4, <1>6, <1>7

(* The same for the first n + 1 numbers: how a loop over a history is    *)
(* followed.                                                             *)
LEMMA InductionUpTo ==
    ASSUME NEW n \in Nat, NEW S, 0 \in S, \A k \in 1..n : k - 1 \in S => k \in S
    PROVE  \A k \in 0..n : k \in S
  <1> DEFINE T == {k \in Nat : k <= n => k \in S}
  <1>1. \A k \in Nat : k \in T
    <2>1. 0 \in T OBVIOUS
    <2>2. \A k \in Nat : k \in T => k + 1 \in T OBVIOUS
    <2> HIDE DEF T
    <2> QED BY <2>1, <2>2, InductionOver
  <1> QED BY <1>1

(* f is computed by recursion: from base, each value by g from the one at  *)
(* p[k], an earlier one.                                                   *)
Recursion(f, base, g, p, n, A) ==
    /\ f \in [0..n -> A]
    /\ f[0] = base
    /\ \A k \in 1..n : f[k] = g[<<k, f[p[k]]>>]

(* There is such a function: the one of the first numbers can be extended. *)
LEMMA RecursionExists ==
    ASSUME NEW n \in Nat, NEW A, NEW base \in A, NEW g \in [(1..n) \X A -> A],
           NEW p, \A k \in 1..n : p[k] \in 0..k - 1
    PROVE  \E f : Recursion(f, base, g, p, n, A)
  <1> DEFINE Below(k) == \E f : Recursion(f, base, g, p, k, A)
             K == {k \in Nat : Below(k)}
  <1>1. 0 \in K
    <2> DEFINE f == [i \in 0..0 |-> base]
    <2>1. f \in [0..0 -> A] /\ f[0] = base /\ 1..0 = {} OBVIOUS
    <2> HIDE DEF f
    <2>2. Recursion(f, base, g, p, 0, A) BY <2>1 DEF Recursion
    <2> QED BY <2>2
  <1>2. ASSUME NEW k \in 1..n, k - 1 \in K PROVE k \in K
    <2>1. PICK f : Recursion(f, base, g, p, k - 1, A) BY <1>2
    <2> DEFINE h == [i \in 0..k |-> IF i = k THEN g[<<k, f[p[k]]>>] ELSE f[i]]
    <2>2. f \in [0..(k - 1) -> A] /\ f[0] = base
      BY <2>1 DEF Recursion
    <2>3. \A j \in 1..(k - 1) : f[j] = g[<<j, f[p[j]]>>]
      BY <2>1 DEF Recursion
    <2>4. p[k] \in 0..(k - 1) /\ f[p[k]] \in A BY <2>2
    <2>5. g[<<k, f[p[k]]>>] \in A BY <2>4
    <2>6. h \in [0..k -> A]
      <3>1. ASSUME NEW i \in 0..k
            PROVE  (IF i = k THEN g[<<k, f[p[k]]>>] ELSE f[i]) \in A
        <4>1. CASE i = k BY <2>5, <4>1
        <4>2. CASE i # k
          <5>1. i \in 0..(k - 1) BY <4>2
          <5> QED BY <2>2, <4>2, <5>1
        <4> QED BY <4>1, <4>2
      <3> QED BY <3>1
    <2>7. \A i \in 0..(k - 1) : h[i] = f[i] OBVIOUS
    <2>8. h[k] = g[<<k, f[p[k]]>>] OBVIOUS
    <2> HIDE DEF h
    <2>9. ASSUME NEW j \in 1..k PROVE h[j] = g[<<j, h[p[j]]>>]
      <3>1. p[j] \in 0..(j - 1) /\ p[j] \in 0..(k - 1) OBVIOUS
      <3>2. h[p[j]] = f[p[j]] BY <2>7, <3>1
      <3>3. CASE j = k BY <2>8, <3>2, <3>3
      <3>4. CASE j # k
        <4>1. j \in 1..(k - 1) /\ j \in 0..(k - 1) BY <3>4
        <4> QED BY <2>3, <2>7, <3>2, <4>1
      <3> QED BY <3>3, <3>4
    <2>10. h[0] = base
      <3>1. 0 \in 0..(k - 1) OBVIOUS
      <3> QED BY <2>2, <2>7, <3>1
    <2>11. Recursion(h, base, g, p, k, A)
      BY <2>6, <2>9, <2>10 DEF Recursion
    <2> QED BY <2>11
  <1>3. \A k \in 0..n : k \in K
    <2> HIDE DEF K
    <2> QED BY <1>1, <1>2, InductionUpTo
  <1> QED BY <1>3

(* Max, of the community modules, is the element that bounds the set.    *)
LEMMA MaxIs ==
    ASSUME NEW S, S \subseteq Int, NEW k \in S, \A i \in S : i <= k
    PROVE  Max(S) = k
  <1>1. \A x \in S : (\A y \in S : x >= y) => x = k
    OBVIOUS
  <1>2. k \in S /\ \A y \in S : k >= y
    OBVIOUS
  <1> QED BY <1>1, <1>2 DEF Max

(* What a fold takes last from 1..k, and what it leaves.                 *)
LEMMA IntervalTop ==
    ASSUME NEW k \in Nat \ {0}
    PROVE  Max(1..k) = k /\ (1..k) \ {k} = 1..(k - 1) /\ 1..k # {}
  <1>1. 1..k \subseteq Int /\ k \in 1..k /\ \A i \in 1..k : i <= k
    OBVIOUS
  <1>2. Max(1..k) = k
    BY <1>1, MaxIs
  <1>3. (1..k) \ {k} = 1..(k - 1)
    OBVIOUS
  <1> QED BY <1>1, <1>2, <1>3

(* A set of positions has a last one.                                    *)
LEMMA MaxOfInterval ==
    ASSUME NEW n \in Nat, NEW s \in SUBSET (1..n), s # {}
    PROVE  Max(s) \in s /\ \A i \in s : i <= Max(s)
  <1> DEFINE Topped(t) == \E m \in t : \A i \in t : i <= m
             K == {k \in Nat : \A t \in SUBSET (1..k) : t # {} => Topped(t)}
  <1>1. 0 \in K
    <2>1. 1..0 = {} OBVIOUS
    <2> QED BY <2>1
  <1>2. ASSUME NEW k \in Nat, k \in K PROVE k + 1 \in K
    <2>1. SUFFICES ASSUME NEW t \in SUBSET (1..(k + 1)), t # {} PROVE Topped(t)
      <3> HIDE DEF Topped
      <3> QED BY <2>1
    <2>2. CASE k + 1 \in t
      BY <2>2
    <2>3. CASE k + 1 \notin t
      <3>1. t \in SUBSET (1..k) BY <2>3
      <3> QED BY <1>2, <2>1, <3>1
    <2> QED BY <2>2, <2>3
  <1>3. n \in K
    <2> HIDE DEF K
    <2> QED BY <1>1, <1>2, InductionOver
  <1>4. PICK m \in s : \A i \in s : i <= m
    BY <1>3
  <1>5. Max(s) = m
    <2>1. s \subseteq Int OBVIOUS
    <2> QED BY <1>4, <2>1, MaxIs
  <1> QED BY <1>4, <1>5

(* g is the function FoldLeft computes with, for the step f on A.          *)
Folds(g, f, base, seq, n, A) ==
    /\ g \in [SUBSET (1..n) -> A]
    /\ \A s \in SUBSET (1..n) :
          g[s] = IF s = {} THEN base
                           ELSE f[<<g[s \ {Max(s)}], seq[Max(s)]>>]

(* h is a candidate for it, whose values are not known to be in A.         *)
FoldsFrom(h, f, base, seq, n, A) ==
    /\ h[{}] = base
    /\ \A s \in SUBSET (1..n) : s # {} /\ h[s \ {Max(s)}] \in A =>
          h[s] = f[<<h[s \ {Max(s)}], seq[Max(s)]>>]

(* r holds the results of the first steps: the loop, as a sequence.        *)
Steps(r, f, base, seq, n, A, end) ==
    /\ r \in [0..n -> A]
    /\ r[0] = base /\ r[n] = end
    /\ \A k \in 1..n : r[k] = f[<<r[k - 1], seq[k]>>]

(* There is such a function: the union of its restrictions to the first  *)
(* positions is one.                                                     *)
LEMMA FoldExists ==
    ASSUME NEW A, NEW E, NEW f \in [A \X E -> A], NEW base \in A,
           NEW n \in Nat, NEW seq, \A i \in 1..n : seq[i] \in E
    PROVE  \E g : Folds(g, f, base, seq, n, A)
  <1> DEFINE Step(g, s) == IF s = {} THEN base ELSE f[<<g[s \ {Max(s)}], seq[Max(s)]>>]
             Is(g, k) == \A s \in SUBSET (1..k) : g[s] = Step(g, s)
             Folded(k) == \E g \in [SUBSET (1..k) -> A] : Is(g, k)
             K == {k \in Nat : k <= n => Folded(k)}
  <1>1. 0 \in K
    <2> DEFINE g == [s \in SUBSET (1..0) |-> base]
    <2>1. \A s \in SUBSET (1..0) : s = {}
      <3>1. 1..0 = {} OBVIOUS
      <3> QED BY <3>1
    <2>2. g \in [SUBSET (1..0) -> A] OBVIOUS
    <2>3. Is(g, 0) BY <2>1
    <2> HIDE DEF g, Is
    <2> QED BY <2>2, <2>3
  <1>2. ASSUME NEW k \in 1..n, k - 1 \in K PROVE k \in K
    <2>1. PICK g \in [SUBSET (1..(k - 1)) -> A] : Is(g, k - 1)
      <3>1. Folded(k - 1)
        <4> HIDE DEF Folded
        <4> QED BY <1>2
      <3> HIDE DEF Is
      <3> QED BY <3>1
    <2> DEFINE h == [s \in SUBSET (1..k) |->
                        IF k \in s THEN f[<<g[s \ {k}], seq[k]>>] ELSE g[s]]
    <2>2. ASSUME NEW s \in SUBSET (1..k), k \in s
          PROVE  s \ {k} \in SUBSET (1..(k - 1)) /\ Max(s) = k /\ s # {}
      <3>1. s \subseteq Int /\ \A i \in s : i <= k OBVIOUS
      <3>2. Max(s) = k BY <2>2, <3>1, MaxIs
      <3> QED BY <2>2, <3>2
    <2>3. ASSUME NEW s \in SUBSET (1..k), k \notin s
          PROVE  s \in SUBSET (1..(k - 1))
      BY <2>3
    <2>4. h \in [SUBSET (1..k) -> A]
      <3>1. ASSUME NEW s \in SUBSET (1..k)
            PROVE  (IF k \in s THEN f[<<g[s \ {k}], seq[k]>>] ELSE g[s]) \in A
        <4>1. CASE k \in s
          <5>1. g[s \ {k}] \in A /\ seq[k] \in E BY <2>1, <2>2, <4>1
          <5> QED BY <4>1, <5>1
        <4>2. CASE k \notin s
          BY <2>1, <2>3, <4>2
        <4> QED BY <4>1, <4>2
      <3> QED BY <3>1
    <2>5. ASSUME NEW s \in SUBSET (1..k) PROVE h[s] = Step(h, s)
      <3>1. CASE k \in s
        <4>1. h[s \ {k}] = g[s \ {k}] OBVIOUS
        <4>2. h[s] = f[<<g[s \ {k}], seq[k]>>] BY <3>1
        <4> HIDE DEF h
        <4> QED BY <2>2, <3>1, <4>1, <4>2
      <3>2. CASE k \notin s
        <4>1. h[s] = g[s] BY <3>2
        <4>2. g[s] = Step(g, s) BY <2>1, <2>3, <3>2
        <4>3. h[s \ {Max(s)}] = g[s \ {Max(s)}]
          <5>1. k \notin s \ {Max(s)} /\ s \ {Max(s)} \in SUBSET (1..k) BY <3>2
          <5> QED BY <5>1
        <4> HIDE DEF h
        <4> QED BY <4>1, <4>2, <4>3
      <3> QED BY <3>1, <3>2
    <2>6. Is(h, k) BY <2>5
    <2> HIDE DEF h, Is
    <2> QED BY <2>4, <2>6
  <1>3. n \in K
    <2> HIDE DEF K
    <2>1. \A k \in 0..n : k \in K BY <1>1, <1>2, InductionUpTo
    <2> QED BY <2>1
  <1>4. Folded(n)
    <2> HIDE DEF Folded
    <2> QED BY <1>3
  <1>5. PICK g \in [SUBSET (1..n) -> A] : Is(g, n)
    <2> HIDE DEF Is
    <2> QED BY <1>4
  <1> QED BY <1>5 DEF Folds

(* FoldLeft is the loop it stands for: each result is a step from the    *)
(* last.                                                                 *)
LEMMA FoldSteps ==
    ASSUME NEW A, NEW E, NEW f \in [A \X E -> A], NEW base \in A,
           NEW n \in Nat, NEW seq, \A i \in 1..n : seq[i] \in E,
           NEW h, FoldsFrom(h, f, base, seq, n, A)
    PROVE  \E r : Steps(r, f, base, seq, n, A, h[1..n])
  <1>1. ASSUME NEW k \in 1..n, h[1..(k - 1)] \in A
        PROVE  h[1..k] = f[<<h[1..(k - 1)], seq[k]>>] /\ h[1..k] \in A
    <2>1. /\ 1..k \in SUBSET (1..n) /\ 1..k # {}
          /\ Max(1..k) = k /\ (1..k) \ {k} = 1..(k - 1)
      <3>1. k \in Nat \ {0} /\ 1..k \in SUBSET (1..n) OBVIOUS
      <3> QED BY <3>1, IntervalTop
    <2>2. h[1..k] = f[<<h[1..(k - 1)], seq[k]>>]
      BY <1>1, <2>1 DEF FoldsFrom
    <2> QED BY <1>1, <2>2
  <1> DEFINE S == {k \in Nat : h[1..k] \in A}
  <1>2. \A k \in 0..n : k \in S
    <2>1. 0 \in S
      <3>1. 1..0 = {} OBVIOUS
      <3> QED BY <3>1 DEF FoldsFrom
    <2>2. ASSUME NEW k \in 1..n, k - 1 \in S PROVE k \in S
      <3>1. h[1..(k - 1)] \in A BY <2>2
      <3>2. h[1..k] \in A BY <1>1, <3>1
      <3> QED BY <3>2
    <2> HIDE DEF S
    <2> QED BY <2>1, <2>2, InductionUpTo
  <1> DEFINE r == [k \in 0..n |-> h[1..k]]
  <1>3. r \in [0..n -> A] BY <1>2
  <1>4. r[0] = base
    <2>1. 1..0 = {} OBVIOUS
    <2> QED BY <2>1 DEF FoldsFrom
  <1>5. \A k \in 1..n : r[k] = f[<<r[k - 1], seq[k]>>]
    <2> TAKE k \in 1..n
    <2>1. k - 1 \in 0..n /\ r[k] = h[1..k] /\ r[k - 1] = h[1..(k - 1)] OBVIOUS
    <2>2. h[1..(k - 1)] \in A BY <1>2, <2>1
    <2> HIDE DEF r
    <2> QED BY <1>1, <2>1, <2>2
  <1>6. r[n] = h[1..n] OBVIOUS
  <1> HIDE DEF r
  <1> QED BY <1>3, <1>4, <1>5, <1>6 DEF Steps

-----------------------------------------------------------------------------
(* Places found by a scan.                                                 *)

(* A set of offsets has a last one: how a scan from the right ends.        *)
LEMMA LastOfRange ==
    ASSUME NEW a \in Int, NEW b \in Int, NEW S, S \subseteq a..b, S # {}
    PROVE  Max(S) \in S /\ \A i \in S : i <= Max(S)
  <1> DEFINE n == b - a + 1
             T == {k \in 1..n : k + a - 1 \in S}
  <1>1. n \in Nat /\ T \in SUBSET (1..n) /\ T # {}
    <2>1. PICK i \in S : TRUE OBVIOUS
    <2>2. i \in a..b /\ i - a + 1 \in 1..n /\ i - a + 1 + a - 1 = i BY <2>1
    <2>3. n \in Nat BY <2>2
    <2>4. i - a + 1 \in T BY <2>2
    <2>5. T \subseteq 1..n OBVIOUS
    <2> HIDE DEF n, T
    <2> QED BY <2>3, <2>4, <2>5
  <1>2. Max(T) \in T /\ \A k \in T : k <= Max(T)
    <2> HIDE DEF n, T
    <2> QED BY <1>1, MaxOfInterval
  <1> DEFINE m == Max(T) + a - 1
  <1>3. m \in S BY <1>2
  <1>4. ASSUME NEW i \in S PROVE i <= m
    <2>1. i - a + 1 \in T BY <1>4
    <2>2. i - a + 1 <= Max(T) /\ Max(T) \in Int BY <1>2, <2>1
    <2> QED BY <2>2
  <1>5. S \subseteq Int OBVIOUS
  <1> HIDE DEF m
  <1>6. Max(S) = m BY <1>3, <1>4, <1>5, MaxIs
  <1> QED BY <1>3, <1>4, <1>6

(* ... and a first one: how a scan from the left does.                     *)
LEMMA FirstOfRange ==
    ASSUME NEW a \in Int, NEW b \in Int, NEW S, S \subseteq a..b, S # {}
    PROVE  Min(S) \in S /\ \A i \in S : Min(S) <= i
  <1> DEFINE T == {k \in -b..-a : -k \in S}
  <1>1. -b \in Int /\ -a \in Int /\ T \subseteq -b..-a /\ T # {}
    <2>1. PICK i \in S : TRUE OBVIOUS
    <2>2. i \in a..b /\ -i \in T BY <2>1
    <2> QED BY <2>2
  <1>2. Max(T) \in T /\ \A k \in T : k <= Max(T)
    <2> HIDE DEF T
    <2> QED BY <1>1, LastOfRange
  <1> DEFINE m == -Max(T)
  <1>3. m \in S /\ S \subseteq Int /\ m \in Int BY <1>2
  <1>4. ASSUME NEW i \in S PROVE m <= i
    <2>1. -i \in T BY <1>4
    <2>2. -i <= Max(T) /\ Max(T) \in Int /\ i \in Int BY <1>2, <1>3, <2>1
    <2> QED BY <2>2
  <1> HIDE DEF m
  <1>5. \A x \in S : (\A y \in S : x <= y) => x = m
    BY <1>3, <1>4
  <1>6. Min(S) = m
    BY <1>3, <1>4, <1>5 DEF Min
  <1> QED BY <1>3, <1>4, <1>6

-----------------------------------------------------------------------------
(* Pieces of a text.                                                       *)

Piece(s, b, e) == SubSeq(s, b + 1, e)

(* What is in the piece from b to e.                                       *)
LEMMA PieceIs ==
    ASSUME NEW s \in Seq(STRING), NEW b \in Nat, NEW e \in Nat, b <= e, e <= Len(s)
    PROVE  /\ Piece(s, b, e) \in Seq(STRING)
           /\ Len(Piece(s, b, e)) = e - b
           /\ \A i \in 1..e - b : Piece(s, b, e)[i] = s[b + i]
           /\ DOMAIN Piece(s, b, e) = 1..e - b
  <1>1. b + 1 \in Int /\ \A i \in b + 1..e : s[i] \in STRING
    BY ElementOfSeq
  <1>2. /\ Piece(s, b, e) \in Seq(STRING)
        /\ Len(Piece(s, b, e)) = IF b + 1 <= e THEN e - (b + 1) + 1 ELSE 0
        /\ \A i \in 1..e - (b + 1) + 1 : Piece(s, b, e)[i] = s[b + 1 + i - 1]
    BY <1>1, SubSeqProperties DEF Piece
  <1>3. Len(Piece(s, b, e)) = e - b BY <1>2
  <1>4. \A i \in 1..e - b : Piece(s, b, e)[i] = s[b + i]
    <2> TAKE i \in 1..e - b
    <2>1. i \in 1..e - (b + 1) + 1 /\ b + 1 + i - 1 = b + i OBVIOUS
    <2> QED BY <1>2, <2>1
  <1>5. DOMAIN Piece(s, b, e) = 1..e - b
    BY <1>2, <1>3
  <1> QED BY <1>2, <1>3, <1>4, <1>5

(* Two pieces side by side are a piece.                                    *)
LEMMA PieceConcat ==
    ASSUME NEW s \in Seq(STRING), NEW b \in Nat, NEW m \in Nat, NEW e \in Nat,
           b <= m, m <= e, e <= Len(s)
    PROVE  Piece(s, b, m) \o Piece(s, m, e) = Piece(s, b, e)
  <1>1. b + 1 \in 1..Len(s) + 1 /\ m \in (b + 1) - 1..Len(s) /\ e \in m..Len(s)
    BY LenProperties
  <1> QED BY <1>1, ConcatAdjacentSubSeq DEF Piece

(* An empty piece, and one of one character.                               *)
LEMMA PieceSmall ==
    ASSUME NEW s \in Seq(STRING), NEW b \in Nat, b <= Len(s)
    PROVE  /\ Piece(s, b, b) = <<>>
           /\ b < Len(s) => Piece(s, b, b + 1) = <<s[b + 1]>>
  <1>1. Piece(s, b, b) = <<>>
    BY SubSeqEmpty DEF Piece
  <1>2. ASSUME b < Len(s) PROVE Piece(s, b, b + 1) = <<s[b + 1]>>
    <2> DEFINE p == Piece(s, b, b + 1)
               q == <<s[b + 1]>>
    <2>1. b + 1 \in 1..Len(s) /\ b + 1 <= Len(s) BY <1>2, LenProperties
    <2>2. s[b + 1] \in STRING BY <2>1, ElementOfSeq
    <2>3. p \in Seq(STRING) /\ Len(p) = 1 /\ p[1] = s[b + 1]
      <3> DEFINE e == b + 1
      <3>1. e \in Nat /\ b <= e /\ e <= Len(s) /\ e - b = 1 /\ p = Piece(s, b, e) BY <2>1
      <3> HIDE DEF p, e
      <3>2. p \in Seq(STRING) /\ Len(p) = e - b /\ \A i \in 1..e - b : p[i] = s[b + i]
        BY <3>1, PieceIs
      <3>3. 1 \in 1..1 OBVIOUS
      <3> QED BY <3>1, <3>2, <3>3
    <2>4. q \in Seq(STRING) /\ Len(q) = 1 /\ q[1] = s[b + 1] BY <2>2
    <2> HIDE DEF p, q
    <2>5. \A i \in 1..Len(p) : p[i] = q[i]
      <3> SUFFICES ASSUME NEW i \in 1..Len(p) PROVE p[i] = q[i] OBVIOUS
      <3>1. i = 1 BY <2>3
      <3> QED BY <2>3, <2>4, <3>1
    <2>6. p = q BY <2>3, <2>4, <2>5, SeqEqual
    <2> QED BY <2>6 DEF p, q
  <1> QED BY <1>1, <1>2

(* A piece without a character of C.                                       *)
LEMMA PieceWithout ==
    ASSUME NEW s \in Seq(STRING), NEW b \in Nat, NEW e \in Nat, b <= e, e <= Len(s),
           NEW C, \A i \in b..e - 1 : s[i + 1] \notin C
    PROVE  Range(Piece(s, b, e)) \cap C = {}
  <1> DEFINE p == Piece(s, b, e)
  <1>1. DOMAIN p = 1..e - b /\ \A i \in 1..e - b : p[i] = s[b + i]
    BY PieceIs
  <1> HIDE DEF p
  <1>2. ASSUME NEW i \in 1..e - b PROVE p[i] \notin C
    <2>1. b + i - 1 \in b..e - 1 /\ (b + i - 1) + 1 = b + i OBVIOUS
    <2>2. s[b + i] \notin C BY <2>1
    <2> QED BY <1>1, <2>2
  <1>3. Range(p) = {p[i] : i \in 1..e - b} BY <1>1 DEF Range
  <1> QED BY <1>2, <1>3 DEF p

(* The first character of a piece, and the rest.                           *)
LEMMA PieceHead ==
    ASSUME NEW s \in Seq(STRING), NEW b \in Nat, NEW e \in Nat, b < e, e <= Len(s)
    PROVE  /\ Piece(s, b, e) # <<>>
           /\ Head(Piece(s, b, e)) = s[b + 1]
           /\ Tail(Piece(s, b, e)) = Piece(s, b + 1, e)
  <1>1. b + 1 \in 1..Len(s) /\ e \in b + 1..Len(s)
    BY LenProperties
  <1>2. Head(Piece(s, b, e)) = s[b + 1] /\ Tail(Piece(s, b, e)) = Piece(s, b + 1, e)
    BY <1>1, HeadTailOfSubSeq DEF Piece
  <1>3. Len(Piece(s, b, e)) # 0
    BY PieceIs
  <1>4. Len(<<>>) = 0 OBVIOUS
  <1> QED BY <1>2, <1>3, <1>4

(* Behind a place the text is worth what its rest is, if what is before it *)
(* is worth nothing.                                                       *)
RestOf(s, t, b) ==
    /\ Len(t) \in Nat /\ Len(s) = b + Len(t)
    /\ \A i \in 1..Len(t) : t[i] = s[b + i]

-----------------------------------------------------------------------------
(* Patterns.                                                               *)

(* R[j] are the places of s from which on the pattern p matches from j on, *)
(* one character of the pattern after the other, from the last one back.   *)
RestOfOne(s, ch, later) ==
    IF ch = "*" THEN {i \in 1..Len(s) + 1 : \E k \in later : i <= k}
    ELSE {i \in 1..Len(s) : MatchesHere(ch, s[i]) /\ i + 1 \in later}

Rests(R, s, p) ==
    /\ R \in [1..Len(p) + 1 -> SUBSET (1..Len(s) + 1)]
    /\ R[Len(p) + 1] = {Len(s) + 1}
    /\ \A j \in 1..Len(p) : R[j] = RestOfOne(s, p[j], R[j + 1])

(* There are such places for every text and pattern.                       *)
LEMMA RestsExist ==
    ASSUME NEW s \in Seq(STRING), NEW p \in Seq(STRING)
    PROVE  \E R : Rests(R, s, p)
  <1> DEFINE a == Len(s)
             b == Len(p)
             A == SUBSET (1..a + 1)
             g == [x \in (1..b) \X A |-> RestOfOne(s, p[b + 1 - x[1]], x[2])]
             q == [k \in 1..b |-> k - 1]
  <1>1. a \in Nat /\ b \in Nat BY LenProperties
  <1>2. g \in [(1..b) \X A -> A]
    <2>1. ASSUME NEW ch, NEW later PROVE RestOfOne(s, ch, later) \in A
      BY <1>1 DEF RestOfOne
    <2> HIDE DEF A
    <2> QED BY <2>1
  <1>3. {a + 1} \in A BY <1>1
  <1>4. \A k \in 1..b, y \in A : g[<<k, y>>] = RestOfOne(s, p[b + 1 - k], y)
    <2> HIDE DEF A, b
    <2> QED OBVIOUS
  <1> HIDE DEF A, b, g
  <1>5. \A k \in 1..b : q[k] = k - 1 /\ q[k] \in 0..k - 1 BY <1>1
  <1> HIDE DEF q
  <1>6. PICK f : Recursion(f, {a + 1}, g, q, b, A) BY <1>1, <1>2, <1>3, <1>5, RecursionExists
  <1>7. f \in [0..b -> A] /\ f[0] = {a + 1} BY <1>6 DEF Recursion
  <1>8. ASSUME NEW k \in 1..b PROVE f[k] = RestOfOne(s, p[b + 1 - k], f[k - 1])
    <2>1. q[k] = k - 1 /\ k - 1 \in 0..b BY <1>1, <1>5
    <2>2. f[k - 1] \in A BY <1>7, <2>1
    <2>3. f[k] = g[<<k, f[k - 1]>>] BY <1>6, <2>1 DEF Recursion
    <2> QED BY <1>4, <2>2, <2>3
  <1> DEFINE R == [j \in 1..b + 1 |-> f[b + 1 - j]]
  <1>9. \A j \in 1..b + 1 : b + 1 - j \in 0..b /\ R[j] = f[b + 1 - j] BY <1>1
  <1>10. R \in [1..b + 1 -> A]
    <2>1. \A j \in 1..b + 1 : f[b + 1 - j] \in A BY <1>7, <1>9
    <2> QED BY <2>1
  <1>11. R[b + 1] = {a + 1}
    <2>1. b + 1 \in 1..b + 1 /\ b + 1 - (b + 1) = 0 BY <1>1
    <2> QED BY <1>7, <1>9, <2>1
  <1>12. ASSUME NEW j \in 1..b PROVE R[j] = RestOfOne(s, p[j], R[j + 1])
    <2>1. /\ b + 1 - j \in 1..b /\ b + 1 - (b + 1 - j) = j
          /\ (b + 1 - j) - 1 = b + 1 - (j + 1) /\ j + 1 \in 1..b + 1 /\ j \in 1..b + 1
      BY <1>1
    <2> HIDE DEF R
    <2>2. R[j] = f[b + 1 - j] /\ R[j + 1] = f[b + 1 - (j + 1)] BY <1>9, <2>1
    <2> QED BY <1>8, <2>1, <2>2
  <1> HIDE DEF R
  <1> QED BY <1>10, <1>11, <1>12 DEF Rests, A, b

(* M[j] are the lengths of what the first j characters of p stand for.     *)
MeaningOfOne(s, ch, before) ==
    IF ch = "*" THEN {i \in 0..Len(s) : \E k \in before : k <= i}
    ELSE {i \in 1..Len(s) :
            /\ i - 1 \in before
            /\ ch = "?" \/ ch = s[i] \/ {ch, s[i]} \subseteq PathSlash}

Meanings(M, s, p) ==
    /\ M \in [0..Len(p) -> SUBSET (0..Len(s))]
    /\ M[0] = {0}
    /\ \A j \in 1..Len(p) : M[j] = MeaningOfOne(s, p[j], M[j - 1])

(* There are such lengths for every text and pattern.                      *)
LEMMA MeaningsExist ==
    ASSUME NEW s \in Seq(STRING), NEW p \in Seq(STRING)
    PROVE  \E M : Meanings(M, s, p)
  <1> DEFINE a == Len(s)
             b == Len(p)
             A == SUBSET (0..a)
             g == [x \in (1..b) \X A |-> MeaningOfOne(s, p[x[1]], x[2])]
             q == [k \in 1..b |-> k - 1]
  <1>1. a \in Nat /\ b \in Nat BY LenProperties
  <1>2. g \in [(1..b) \X A -> A]
    <2>1. ASSUME NEW ch, NEW before PROVE MeaningOfOne(s, ch, before) \in A
      BY <1>1 DEF MeaningOfOne
    <2> HIDE DEF A
    <2> QED BY <2>1
  <1>3. {0} \in A BY <1>1
  <1>4. \A k \in 1..b, y \in A : g[<<k, y>>] = MeaningOfOne(s, p[k], y)
    <2> HIDE DEF A, b
    <2> QED OBVIOUS
  <1> HIDE DEF A, b, g
  <1>5. \A k \in 1..b : q[k] = k - 1 /\ q[k] \in 0..k - 1 BY <1>1
  <1> HIDE DEF q
  <1>6. PICK M : Recursion(M, {0}, g, q, b, A) BY <1>1, <1>2, <1>3, <1>5, RecursionExists
  <1>7. M \in [0..b -> A] /\ M[0] = {0} BY <1>6 DEF Recursion
  <1>8. ASSUME NEW k \in 1..b PROVE M[k] = MeaningOfOne(s, p[k], M[k - 1])
    <2>1. q[k] = k - 1 /\ k - 1 \in 0..b BY <1>1, <1>5
    <2>2. M[k - 1] \in A BY <1>7, <2>1
    <2>3. M[k] = g[<<k, M[k - 1]>>] BY <1>6, <2>1 DEF Recursion
    <2> QED BY <1>4, <2>2, <2>3
  <1> QED BY <1>7, <1>8 DEF Meanings, A, b

(* What MatchesHere accepts is what the meaning allows.                    *)
LEMMA MatchesHereIs ==
    ASSUME NEW ch, NEW c
    PROVE  MatchesHere(ch, c) <=> (ch = "?" \/ ch = c \/ {ch, c} \subseteq PathSlash)
  BY DEF MatchesHere

(* A pattern may be cut anywhere: the text is matched if what the first    *)
(* part can stand for is followed by what the rest matches.                *)
LEMMA MeetInTheMiddle ==
    ASSUME NEW s \in Seq(STRING), NEW p \in Seq(STRING),
           NEW R, Rests(R, s, p), NEW M, Meanings(M, s, p)
    PROVE  1 \in R[1] <=> Len(s) \in M[Len(p)]
  <1> DEFINE a == Len(s)
             b == Len(p)
             Meet(j) == \E i \in M[j] : i + 1 \in R[j + 1]
             S == {j \in Nat : (1 \in R[1]) <=> Meet(j)}
  <1>1. a \in Nat /\ b \in Nat BY LenProperties
  <1>2. /\ R \in [1..b + 1 -> SUBSET (1..a + 1)] /\ R[b + 1] = {a + 1}
        /\ M \in [0..b -> SUBSET (0..a)] /\ M[0] = {0}
        /\ \A j \in 1..b : R[j] = RestOfOne(s, p[j], R[j + 1])
        /\ \A j \in 1..b : M[j] = MeaningOfOne(s, p[j], M[j - 1])
    BY DEF Rests, Meanings
  <1> HIDE DEF b
  <1>3. 0 \in S BY <1>2
  <1>4. ASSUME NEW j \in 1..b PROVE Meet(j - 1) <=> Meet(j)
    <2> DEFINE now == R[j + 1]
               before == M[j - 1]
               ch == p[j]
    <2>1. /\ now \in SUBSET (1..a + 1) /\ before \in SUBSET (0..a)
          /\ R[(j - 1) + 1] = RestOfOne(s, ch, now) /\ M[j] = MeaningOfOne(s, ch, before)
      <3>1. j - 1 \in 0..b /\ j + 1 \in 1..b + 1 /\ (j - 1) + 1 = j BY <1>1
      <3> QED BY <1>2, <3>1
    <2> HIDE DEF now, before, ch
    <2> SUFFICES (\E i \in before : i + 1 \in RestOfOne(s, ch, now))
                    <=> (\E i \in MeaningOfOne(s, ch, before) : i + 1 \in now)
      BY <2>1 DEF now, before
    <2>2. CASE ch = "*"
      <3>1. \A i : i \in RestOfOne(s, ch, now) <=> i \in 1..a + 1 /\ \E k \in now : i <= k
        BY <2>2 DEF RestOfOne
      <3>2. \A i : i \in MeaningOfOne(s, ch, before)
                      <=> i \in 0..a /\ \E k \in before : k <= i
        BY <2>2 DEF MeaningOfOne
      <3>3. ASSUME NEW i \in before, i + 1 \in RestOfOne(s, ch, now)
            PROVE  \E k \in MeaningOfOne(s, ch, before) : k + 1 \in now
        <4>1. PICK k \in now : i + 1 <= k BY <3>1, <3>3
        <4>2. k \in 1..a + 1 /\ i \in 0..a BY <2>1
        <4>3. k - 1 \in 0..a /\ i <= k - 1 /\ (k - 1) + 1 = k BY <1>1, <4>1, <4>2
        <4> QED BY <3>2, <4>3
      <3>4. ASSUME NEW i \in MeaningOfOne(s, ch, before), i + 1 \in now
            PROVE  \E k \in before : k + 1 \in RestOfOne(s, ch, now)
        <4>1. i \in 0..a BY <3>2
        <4>2. PICK k \in before : k <= i BY <3>2
        <4>3. k \in 0..a BY <2>1
        <4>4. k + 1 \in 1..a + 1 /\ k + 1 <= i + 1 BY <1>1, <4>1, <4>2, <4>3
        <4> QED BY <3>1, <3>4, <4>4
      <3> QED BY <3>3, <3>4
    <2>3. CASE ch # "*"
      <3>1. \A i : i \in RestOfOne(s, ch, now)
                      <=> i \in 1..a /\ MatchesHere(ch, s[i]) /\ i + 1 \in now
        BY <2>3 DEF RestOfOne
      <3>2. \A i : i \in MeaningOfOne(s, ch, before)
                      <=> i \in 1..a /\ i - 1 \in before /\ MatchesHere(ch, s[i])
        BY <2>3, MatchesHereIs DEF MeaningOfOne
      <3>3. ASSUME NEW i \in before, i + 1 \in RestOfOne(s, ch, now)
            PROVE  \E k \in MeaningOfOne(s, ch, before) : k + 1 \in now
        <4>1. i \in 0..a BY <2>1
        <4>2. (i + 1) - 1 = i BY <4>1
        <4> QED BY <3>1, <3>2, <3>3, <4>2
      <3>4. ASSUME NEW i \in MeaningOfOne(s, ch, before), i + 1 \in now
            PROVE  \E k \in before : k + 1 \in RestOfOne(s, ch, now)
        <4>1. i \in 1..a /\ (i - 1) + 1 = i BY <3>2
        <4> QED BY <3>1, <3>2, <3>4, <4>1
      <3> QED BY <3>3, <3>4
    <2> QED BY <2>2, <2>3
  <1>5. ASSUME NEW j \in 1..b, j - 1 \in S PROVE j \in S
    <2>1. j \in Nat /\ j - 1 \in Nat BY <1>1
    <2> HIDE DEF Meet
    <2> QED BY <1>4, <1>5, <2>1
  <1>6. \A j \in 0..b : j \in S
    <2> HIDE DEF S
    <2> QED BY <1>1, <1>3, <1>5, InductionUpTo
  <1>7. (1 \in R[1]) <=> Meet(b)
    <2> HIDE DEF Meet
    <2> QED BY <1>1, <1>6
  <1>8. Meet(b) <=> a \in M[b]
    <2>1. M[b] \subseteq 0..a BY <1>1, <1>2
    <2>2. \A i \in 0..a : i + 1 \in R[b + 1] <=> i = a BY <1>1, <1>2
    <2> QED BY <2>1, <2>2
  <1> QED BY <1>7, <1>8 DEF b

(* How far the pattern and the text go together before a star or the end   *)
(* of one of them, and where the stars that begin at x end.                *)
InPlace(s, p, i, j) == Min({FirstOf(From(p, j), {"*"}) - 1, Len(s) + 1 - i})

BehindStars(p, x) == Min({k \in x..Len(p) : p[k] # "*"} \cup {Len(p) + 1})

(* What MatchVlogPattern decides at i and j, if f answers its calls.       *)
Begins(f, s, p, i, j) ==
    LET m == InPlace(s, p, i, j)
        behind == BehindStars(p, j + m)
    IN  /\ \A k \in 0..m - 1 : MatchesHere(p[j + k], s[i + k])
        /\ IF j + m > Len(p) THEN i + m > Len(s)
           ELSE behind > Len(p) \/ \E k \in i + m..Len(s) : k \in f[behind]

(* Min of two numbers.                                                     *)
LEMMA LesserOf ==
    ASSUME NEW x \in Int, NEW y \in Int
    PROVE  Min({x, y}) = IF x <= y THEN x ELSE y
  <1> DEFINE m == IF x <= y THEN x ELSE y
  <1>1. m \in {x, y} /\ m <= x /\ m <= y /\ m \in Int OBVIOUS
  <1> HIDE DEF m
  <1>2. \A n \in {x, y} : (\A k \in {x, y} : n <= k) => n = m BY <1>1
  <1>3. Min({x, y}) = m BY <1>1, <1>2 DEF Min
  <1> QED BY <1>3 DEF m

(* find_first_of stops at the first of the characters, or at the end.      *)
LEMMA FirstOfIs ==
    ASSUME NEW s, Len(s) \in Nat, NEW C
    PROVE  /\ FirstOf(s, C) \in 1..Len(s) + 1
           /\ \A i \in 1..Len(s) : i < FirstOf(s, C) => s[i] \notin C
           /\ FirstOf(s, C) <= Len(s) => s[FirstOf(s, C)] \in C
  <1> DEFINE n == Len(s)
             P == {i \in 1..n : s[i] \in C}
             e == n + 1
             T == P \cup {e}
             m == FirstOf(s, C)
  <1>1. T \subseteq 1..e /\ T # {} /\ e \in Int /\ 1 \in Int OBVIOUS
  <1>2. Min(T) \in T /\ \A i \in T : Min(T) <= i
    <2> HIDE DEF T, e
    <2> QED BY <1>1, FirstOfRange
  <1>3. m = Min(T) BY DEF FirstOf
  <1> HIDE DEF m
  <1>4. n \in Nat /\ m \in 1..n + 1 /\ (m <= n => m \in P) BY <1>1, <1>2, <1>3
  <1>5. ASSUME NEW i \in 1..n, i < m PROVE s[i] \notin C
    <2>1. i \notin T BY <1>2, <1>3, <1>4, <1>5
    <2> QED BY <2>1
  <1> QED BY <1>4, <1>5 DEF m

(* The stars end at the first character that is none, or at the end.       *)
LEMMA BehindStarsIs ==
    ASSUME NEW p \in Seq(STRING), NEW x \in 1..Len(p) + 1
    PROVE  /\ BehindStars(p, x) \in x..Len(p) + 1
           /\ \A k \in x..BehindStars(p, x) - 1 : p[k] = "*"
           /\ BehindStars(p, x) <= Len(p) => p[BehindStars(p, x)] # "*"
  <1> DEFINE b == Len(p)
             P == {k \in x..b : p[k] # "*"}
             e == b + 1
             T == P \cup {e}
             m == BehindStars(p, x)
  <1>1. b \in Nat /\ x \in 1..b + 1 BY LenProperties
  <1> HIDE DEF b
  <1>2. T \subseteq x..e /\ T # {} /\ e \in Int /\ x \in Int BY <1>1
  <1>3. Min(T) \in T /\ \A i \in T : Min(T) <= i
    <2> HIDE DEF T, e
    <2> QED BY <1>1, <1>2, FirstOfRange
  <1>4. m = Min(T) BY DEF BehindStars, b
  <1> HIDE DEF m
  <1>5. m \in x..b + 1 /\ (m <= b => m \in P) BY <1>1, <1>3, <1>4
  <1>6. ASSUME NEW k \in x..m - 1 PROVE p[k] = "*"
    <2>1. k \notin T BY <1>1, <1>3, <1>4, <1>5
    <2>2. k \in x..b BY <1>1, <1>5
    <2> QED BY <2>1, <2>2
  <1> QED BY <1>5, <1>6 DEF b, m

(* In place the pattern has no star, and at the end of it a star follows   *)
(* or the text or the pattern ends.                                        *)
Together(s, p, i, j, m) ==
    /\ m \in Nat /\ i + m <= Len(s) + 1 /\ j + m <= Len(p) + 1
    /\ \A k \in 0..m - 1 : p[j + k] # "*"
    /\ \/ i + m = Len(s) + 1
       \/ j + m = Len(p) + 1
       \/ j + m <= Len(p) /\ p[j + m] = "*"

(* So it is with what InPlace answers: the loop stops at the first reason. *)
LEMMA InPlaceIs ==
    ASSUME NEW s \in Seq(STRING), NEW p \in Seq(STRING),
           NEW i \in 1..Len(s) + 1, NEW j \in 1..Len(p) + 1
    PROVE  Together(s, p, i, j, InPlace(s, p, i, j))
  <1> DEFINE a == Len(s)
             b == Len(p)
             t == From(p, j)
             l == b + 1 - j
             m == InPlace(s, p, i, j)
             f == FirstOf(t, {"*"})
  <1>1. a \in Nat /\ b \in Nat /\ j \in 1..b + 1 /\ i \in 1..a + 1 BY LenProperties
  <1>2. l \in Nat BY <1>1
  <1>3. Len(t) = l /\ \A k \in 1..l : t[k] = p[j + k - 1]
    <2>1. Piece(p, j - 1, b) = t
      <3>1. (j - 1) + 1 = j BY <1>1
      <3> QED BY <3>1 DEF Piece, From
    <2>2. j - 1 \in Nat /\ j - 1 <= b /\ b <= b /\ b - (j - 1) = l BY <1>1
    <2> DEFINE c == j - 1
    <2>3. /\ Len(Piece(p, c, b)) = b - c
          /\ \A k \in 1..b - c : Piece(p, c, b)[k] = p[c + k]
      <3> HIDE DEF c
      <3> QED BY <1>1, <2>2, PieceIs DEF c
    <2>4. \A k \in 1..l : c + k = j + k - 1 BY <1>1, <1>2
    <2> QED BY <2>1, <2>2, <2>3, <2>4
  <1> HIDE DEF t, l
  <1>4. /\ f \in 1..l + 1
        /\ \A k \in 1..l : k < f => t[k] # "*"
        /\ f <= l => t[f] = "*"
    <2>1. /\ f \in 1..Len(t) + 1
          /\ \A k \in 1..Len(t) : k < f => t[k] \notin {"*"}
          /\ f <= Len(t) => t[f] \in {"*"}
      <3> HIDE DEF f
      <3> QED BY <1>2, <1>3, FirstOfIs DEF f
    <2> HIDE DEF f
    <2> QED BY <1>3, <2>1
  <1> HIDE DEF f
  <1>5. m = IF f - 1 <= a + 1 - i THEN f - 1 ELSE a + 1 - i
    <2>1. f - 1 \in Int /\ a + 1 - i \in Int BY <1>1, <1>2, <1>4
    <2>2. m = Min({f - 1, a + 1 - i}) BY DEF InPlace, f, t
    <2> HIDE DEF m
    <2> QED BY <2>1, <2>2, LesserOf
  <1> HIDE DEF m
  <1>6. /\ m \in Nat /\ i + m <= a + 1 /\ m <= f - 1 /\ f - 1 <= l
        /\ i + m = a + 1 \/ m = f - 1
    BY <1>1, <1>2, <1>4, <1>5
  <1>7. j + l = b + 1 /\ j + m <= b + 1 BY <1>1, <1>2, <1>4, <1>6 DEF l
  <1>8. ASSUME NEW k \in 0..m - 1 PROVE p[j + k] # "*"
    <2>1. k + 1 \in 1..l /\ k + 1 < f /\ j + (k + 1) - 1 = j + k
      BY <1>1, <1>2, <1>4, <1>6
    <2> QED BY <1>3, <1>4, <2>1
  <1>9. \/ i + m = a + 1
        \/ j + m = b + 1
        \/ j + m <= b /\ p[j + m] = "*"
    <2>1. CASE i + m = a + 1 BY <2>1
    <2>2. CASE m = f - 1 /\ f <= l
      <3>1. f \in 1..l /\ j + f - 1 = j + m /\ j + m <= b
        BY <1>1, <1>2, <1>4, <1>7, <2>2
      <3> QED BY <1>3, <1>4, <2>2, <3>1
    <2>3. CASE m = f - 1 /\ f = l + 1
      <3>1. m = l BY <1>2, <1>4, <2>3
      <3> QED BY <1>7, <3>1
    <2> QED BY <1>2, <1>4, <1>6, <2>1, <2>2, <2>3
  <1> QED BY <1>6, <1>7, <1>8, <1>9 DEF Together, m

(* Without a star the text matches in place or not at all.                 *)
LEMMA InPlaceMatches ==
    ASSUME NEW s \in Seq(STRING), NEW p \in Seq(STRING), NEW R, Rests(R, s, p),
           NEW i \in 1..Len(s) + 1, NEW j \in 1..Len(p) + 1, NEW m \in Nat,
           i + m <= Len(s) + 1, j + m <= Len(p) + 1, \A k \in 0..m - 1 : p[j + k] # "*"
    PROVE  i \in R[j] <=> /\ \A k \in 0..m - 1 : MatchesHere(p[j + k], s[i + k])
                          /\ i + m \in R[j + m]
  <1> DEFINE a == Len(s)
             b == Len(p)
             Here(n) == \A k \in 0..n - 1 : MatchesHere(p[j + k], s[i + k])
             Cut(n) == i \in R[j] <=> Here(n) /\ i + n \in R[j + n]
             S == {n \in Nat : Cut(n)}
  <1>1. a \in Nat /\ b \in Nat /\ i \in 1..a + 1 /\ j \in 1..b + 1 BY LenProperties
  <1>2. \A x \in 1..b : R[x] = RestOfOne(s, p[x], R[x + 1]) BY DEF Rests
  <1>3. i + m <= a + 1 /\ j + m <= b + 1 OBVIOUS
  <1> HIDE DEF a, b
  <1>4. 0 \in S
    <2>1. i + 0 = i /\ j + 0 = j /\ 0..0 - 1 = {} BY <1>1
    <2> QED BY <2>1
  <1>5. ASSUME NEW n \in 1..m, n - 1 \in S PROVE n \in S
    <2> DEFINE q == n - 1
               x == j + q
               y == i + q
    <2>1. /\ q \in 0..m - 1 /\ q \in Nat /\ n \in Nat
          /\ x \in 1..b /\ y \in 1..a /\ x + 1 = j + n /\ y + 1 = i + n
      BY <1>1, <1>3
    <2>2. i \in R[j] <=> Here(q) /\ y \in R[x] BY <1>5
    <2>3. p[x] # "*" BY <2>1
    <2>4. R[x] = RestOfOne(s, p[x], R[x + 1]) BY <1>2, <2>1
    <2>5. y \in R[x] <=> MatchesHere(p[x], s[y]) /\ y + 1 \in R[x + 1]
      <3> HIDE DEF x, y
      <3> QED BY <2>1, <2>3, <2>4 DEF RestOfOne, a
    <2>6. Here(n) <=> Here(q) /\ MatchesHere(p[x], s[y])
      <3>1. \A k : k \in 0..n - 1 <=> k \in 0..q - 1 \/ k = q BY <2>1
      <3> HIDE DEF q
      <3> QED BY <3>1
    <2>7. Cut(n)
      <3> HIDE DEF Here, x, y, q
      <3> QED BY <2>1, <2>2, <2>5, <2>6
    <2> HIDE DEF Cut
    <2> QED BY <2>1, <2>7
  <1>6. \A n \in 0..m : n \in S
    <2> HIDE DEF S
    <2> QED BY <1>4, <1>5, InductionUpTo
  <1>7. Cut(m)
    <2> HIDE DEF Cut
    <2> QED BY <1>6
  <1> QED BY <1>7

(* Behind stars the text may go on anywhere.                               *)
LEMMA StarsMatch ==
    ASSUME NEW s \in Seq(STRING), NEW p \in Seq(STRING), NEW R, Rests(R, s, p),
           NEW y \in 1..Len(s) + 1, NEW x \in 1..Len(p), NEW z \in x + 1..Len(p) + 1,
           \A k \in x..z - 1 : p[k] = "*"
    PROVE  y \in R[x] <=> \E k \in R[z] : y <= k
  <1> DEFINE a == Len(s)
             b == Len(p)
             Later(n) == y \in R[x] <=> \E k \in R[x + 1 + n] : y <= k
             S == {n \in Nat : Later(n)}
  <1>1. a \in Nat /\ b \in Nat /\ y \in 1..a + 1 /\ x \in 1..b /\ z \in x + 1..b + 1
    BY LenProperties
  <1>2. /\ R \in [1..b + 1 -> SUBSET (1..a + 1)]
        /\ \A w \in 1..b : R[w] = RestOfOne(s, p[w], R[w + 1])
    BY DEF Rests
  <1> HIDE DEF b
  <1>3. ASSUME NEW w \in x..z - 1, NEW v \in 1..a + 1
        PROVE  v \in R[w] <=> \E k \in R[w + 1] : v <= k
    <2>1. p[w] = "*" /\ w \in 1..b BY <1>1
    <2>2. R[w] = RestOfOne(s, "*", R[w + 1]) BY <1>2, <2>1
    <2> QED BY <2>2 DEF RestOfOne
  <1> HIDE DEF a
  <1>4. 0 \in S
    <2>1. x \in x..z - 1 /\ x + 1 + 0 = x + 1 BY <1>1
    <2> QED BY <1>1, <1>3, <2>1
  <1> DEFINE t == z - x - 1
  <1>5. ASSUME NEW n \in 1..t, n - 1 \in S PROVE n \in S
    <2> DEFINE w == x + 1 + (n - 1)
    <2>1. w \in x..z - 1 /\ w + 1 = x + 1 + n /\ w \in 1..b + 1 /\ w + 1 \in 1..b + 1 /\ n \in Nat
      BY <1>1
    <2>2. y \in R[x] <=> \E k \in R[w] : y <= k BY <1>5
    <2> HIDE DEF w
    <2>3. R[w] \subseteq 1..a + 1 /\ R[w + 1] \subseteq 1..a + 1 BY <1>2, <2>1
    <2>4. ASSUME NEW k \in R[w], y <= k PROVE \E l \in R[w + 1] : y <= l
      <3>1. k \in 1..a + 1 BY <2>3
      <3>2. PICK l \in R[w + 1] : k <= l BY <1>3, <2>1, <2>4, <3>1
      <3>3. l \in 1..a + 1 BY <2>3
      <3>4. y <= l BY <1>1, <2>4, <3>1, <3>2, <3>3
      <3> QED BY <3>4
    <2>5. ASSUME NEW l \in R[w + 1], y <= l PROVE \E k \in R[w] : y <= k
      <3>1. l \in 1..a + 1 /\ l <= l BY <1>1, <2>3
      <3>2. l \in R[w] BY <1>3, <2>1, <3>1
      <3> QED BY <2>5, <3>2
    <2>6. y \in R[x] <=> \E l \in R[x + 1 + n] : y <= l BY <2>1, <2>2, <2>4, <2>5
    <2> QED BY <2>1, <2>6
  <1>6. t \in Nat /\ x + 1 + t = z BY <1>1
  <1>7. \A n \in 0..t : n \in S
    <2> HIDE DEF S, t
    <2> QED BY <1>4, <1>5, <1>6, InductionUpTo
  <1>8. Later(t)
    <2>1. t \in 0..t BY <1>6
    <2> HIDE DEF Later
    <2> QED BY <1>7, <2>1
  <1> QED BY <1>6, <1>8

(* A pattern that goes on with another character needs a text that does.   *)
LEMMA NothingLeft ==
    ASSUME NEW s \in Seq(STRING), NEW p \in Seq(STRING), NEW R, Rests(R, s, p),
           NEW x \in 1..Len(p), p[x] # "*"
    PROVE  Len(s) + 1 \notin R[x]
  <1>1. Len(s) \in Nat /\ R[x] = RestOfOne(s, p[x], R[x + 1]) BY LenProperties DEF Rests
  <1>2. R[x] \subseteq 1..Len(s) BY <1>1 DEF RestOfOne
  <1> QED BY <1>1, <1>2

(* What MatchVlogPattern decides with right answers is right.              *)
LEMMA BeginsIs ==
    ASSUME NEW s \in Seq(STRING), NEW p \in Seq(STRING), NEW R, Rests(R, s, p),
           NEW i \in 1..Len(s) + 1, NEW j \in 1..Len(p) + 1
    PROVE  i \in R[j] <=> Begins(R, s, p, i, j)
  <1> DEFINE a == Len(s)
             b == Len(p)
             m == InPlace(s, p, i, j)
             x == j + m
             y == i + m
             z == BehindStars(p, x)
             Here == \A k \in 0..m - 1 : MatchesHere(p[j + k], s[i + k])
             Goes == IF x > b THEN y > a ELSE z > b \/ \E k \in y..a : k \in R[z]
  <1>1. a \in Nat /\ b \in Nat /\ i \in 1..a + 1 /\ j \in 1..b + 1 BY LenProperties
  <1>2. /\ m \in Nat /\ y <= a + 1 /\ x <= b + 1
        /\ \A k \in 0..m - 1 : p[j + k] # "*"
        /\ y = a + 1 \/ x = b + 1 \/ (x <= b /\ p[x] = "*")
    <2>1. Together(s, p, i, j, m) BY InPlaceIs
    <2> HIDE DEF m
    <2> QED BY <2>1 DEF Together
  <1>3. Begins(R, s, p, i, j) <=> Here /\ Goes BY DEF Begins
  <1> HIDE DEF m
  <1>4. i \in R[j] <=> Here /\ y \in R[x] BY <1>2, InPlaceMatches
  <1>5. y \in 1..a + 1 /\ x \in 1..b + 1 BY <1>1, <1>2
  <1> HIDE DEF x, y
  <1>6. /\ z \in x..b + 1
        /\ \A k \in x..z - 1 : p[k] = "*"
        /\ z <= b => p[z] # "*"
    BY <1>5, BehindStarsIs
  <1> HIDE DEF z
  <1>7. R[b + 1] = {a + 1} /\ R \in [1..b + 1 -> SUBSET (1..a + 1)] BY DEF Rests
  <1>8. y \in R[x] <=> Goes
    <2>1. CASE x = b + 1
      BY <1>1, <1>5, <1>7, <2>1
    <2>2. CASE x <= b /\ p[x] = "*"
      <3>1. z \in x + 1..b + 1 /\ x \in 1..b
        BY <1>1, <1>5, <1>6, <2>2
      <3>2. y \in R[x] <=> \E k \in R[z] : y <= k
        <4> HIDE DEF a, b
        <4> QED BY <1>5, <1>6, <3>1, StarsMatch DEF a, b
      <3>3. CASE z = b + 1
        <4>1. a + 1 \in R[z] /\ y <= a + 1 BY <1>1, <1>5, <1>7, <3>3
        <4>2. Goes BY <1>1, <2>2, <3>1, <3>3
        <4> QED BY <3>2, <4>1, <4>2
      <3>4. CASE z <= b
        <4>1. z \in 1..b /\ p[z] # "*" BY <1>1, <1>6, <3>1, <3>4
        <4>2. a + 1 \notin R[z] BY <4>1, NothingLeft
        <4>3. R[z] \subseteq 1..a + 1 BY <1>1, <1>7, <4>1
        <4>4. (\E k \in R[z] : y <= k) <=> (\E k \in y..a : k \in R[z])
          BY <1>1, <1>5, <4>2, <4>3
        <4>5. Goes <=> \E k \in y..a : k \in R[z] BY <1>1, <1>5, <2>2, <4>1
        <4> QED BY <3>2, <4>4, <4>5
      <3> QED BY <1>1, <3>1, <3>3, <3>4
    <2>3. CASE x <= b /\ p[x] # "*"
      <3>1. y = a + 1 BY <1>1, <1>2, <1>5, <2>3
      <3>2. x \in 1..b BY <1>1, <1>5, <2>3
      <3>3. a + 1 \notin R[x] BY <2>3, <3>2, NothingLeft
      <3>4. z = x
        <4>1. z > x => x \in x..z - 1 BY <1>1, <1>5, <1>6
        <4> QED BY <1>1, <1>5, <1>6, <2>3, <4>1
      <3>5. ~Goes
        <4>1. y..a = {} BY <1>1, <3>1
        <4> QED BY <1>1, <2>3, <3>2, <3>4, <4>1
      <3> QED BY <3>1, <3>3, <3>5
    <2> QED BY <1>1, <1>5, <2>1, <2>2, <2>3
  <1> HIDE DEF Here, Goes
  <1> QED BY <1>3, <1>4, <1>8

(* It calls itself for a later place in the pattern only.                  *)
LEMMA BeginsSame ==
    ASSUME NEW s \in Seq(STRING), NEW p \in Seq(STRING), NEW f, NEW R,
           NEW i \in 1..Len(s) + 1, NEW j \in 1..Len(p) + 1,
           \A x \in j + 1..Len(p) + 1 : f[x] = R[x]
    PROVE  Begins(f, s, p, i, j) <=> Begins(R, s, p, i, j)
  <1> DEFINE a == Len(s)
             b == Len(p)
             m == InPlace(s, p, i, j)
             x == j + m
             y == i + m
             z == BehindStars(p, x)
             Goes(g) == IF x > b THEN y > a ELSE z > b \/ \E k \in y..a : k \in g[z]
  <1>1. a \in Nat /\ b \in Nat /\ i \in 1..a + 1 /\ j \in 1..b + 1 BY LenProperties
  <1>2. /\ m \in Nat /\ y <= a + 1 /\ x <= b + 1
        /\ y = a + 1 \/ x = b + 1 \/ (x <= b /\ p[x] = "*")
    <2>1. Together(s, p, i, j, m) BY InPlaceIs
    <2> HIDE DEF m
    <2> QED BY <2>1 DEF Together
  <1>3. y \in 1..a + 1 /\ x \in j..b + 1 /\ x \in 1..b + 1 BY <1>1, <1>2
  <1>4. Goes(f) <=> Goes(R)
    <2> HIDE DEF x, y, m
    <2>1. z \in x..b + 1 /\ (z <= b => p[z] # "*") BY <1>3, BehindStarsIs
    <2> HIDE DEF z
    <2>2. CASE y = a + 1
      <3>1. y..a = {} BY <1>1, <2>2
      <3> QED BY <3>1
    <2>3. CASE x = b + 1 BY <1>1, <2>3
    <2>4. CASE x <= b /\ p[x] = "*" /\ z <= b
      <3>1. z # x BY <2>1, <2>4
      <3>2. z \in j + 1..b + 1 BY <1>1, <1>3, <2>1, <3>1
      <3>3. f[z] = R[z] BY <3>2
      <3> QED BY <3>3
    <2>5. CASE z > b BY <2>5
    <2> QED BY <1>1, <1>2, <1>3, <2>1, <2>2, <2>3, <2>4, <2>5
  <1>5. (Begins(f, s, p, i, j) <=> Begins(R, s, p, i, j)) <=> TRUE
    <2> DEFINE Here == \A k \in 0..m - 1 : MatchesHere(p[j + k], s[i + k])
    <2>1. Begins(f, s, p, i, j) <=> Here /\ Goes(f) BY DEF Begins
    <2>2. Begins(R, s, p, i, j) <=> Here /\ Goes(R) BY DEF Begins
    <2> HIDE DEF Here, Goes
    <2> QED BY <1>4, <2>1, <2>2
  <1> QED BY <1>5

(* So the places MatchVlogPattern finds are those where the rest matches.  *)
LEMMA MatchVlogPatternIs ==
    ASSUME NEW s \in Seq(STRING), NEW p \in Seq(STRING), NEW R, Rests(R, s, p)
    PROVE  MatchVlogPattern(s, p) <=> 1 \in R[1]
  <1> DEFINE a == Len(s)
             b == Len(p)
             D == 1..b + 1
             Found(f, j) == {i \in 1..a + 1 : Begins(f, s, p, i, j)}
             Is(f) == f = [j \in D |-> Found(f, j)]
             chosen == CHOOSE f : Is(f)
  <1>1. a \in Nat /\ b \in Nat BY LenProperties
  <1>2. MatchVlogPattern(s, p) <=> 1 \in chosen[1]
    BY Zenon DEF MatchVlogPattern, Begins, InPlace, BehindStars
  <1>3. R \in [D -> SUBSET (1..a + 1)] BY DEF Rests
  <1>4. ASSUME NEW j \in D PROVE R[j] = Found(R, j)
    <2>1. \A i \in 1..a + 1 : i \in R[j] <=> Begins(R, s, p, i, j) BY BeginsIs
    <2>2. R[j] \subseteq 1..a + 1 BY <1>3
    <2> HIDE DEF a
    <2> QED BY <2>1, <2>2
  <1> HIDE DEF D
  <1>5. Is(R)
    <2> HIDE DEF Found
    <2> QED BY <1>3, <1>4
  <1>6. Is(chosen)
    <2> HIDE DEF Is
    <2> QED BY <1>5
  <1> HIDE DEF chosen
  <1>7. \A j \in D : chosen[j] = Found(chosen, j)
    <2> HIDE DEF Found
    <2> QED BY <1>6
  <1> DEFINE T == {n \in Nat : n <= b => \A j \in b + 1 - n..b + 1 : chosen[j] = R[j]}
  <1>8. ASSUME NEW j \in D, \A x \in j + 1..b + 1 : chosen[x] = R[x]
        PROVE  chosen[j] = R[j]
    <2>1. \A i \in 1..a + 1 : Begins(chosen, s, p, i, j) <=> Begins(R, s, p, i, j)
      BY <1>8, BeginsSame DEF D
    <2>2. Found(chosen, j) = Found(R, j) BY <2>1
    <2> HIDE DEF Found
    <2> QED BY <1>4, <1>7, <2>2
  <1> HIDE DEF Is, b, a
  <1>9. 0 \in T
    <2>1. b + 1 \in D /\ (b + 1) + 1..b + 1 = {} BY <1>1 DEF D
    <2>2. chosen[b + 1] = R[b + 1] BY <1>8, <2>1
    <2>3. \A j \in b + 1 - 0..b + 1 : j = b + 1 BY <1>1
    <2> QED BY <2>2, <2>3
  <1>10. ASSUME NEW n \in 1..b, n - 1 \in T PROVE n \in T
    <2> DEFINE l == b + 1 - n
    <2>1. l \in D /\ l + 1 = b + 1 - (n - 1) /\ n \in Nat /\ n - 1 <= b BY <1>1 DEF D
    <2>2. \A x \in l + 1..b + 1 : chosen[x] = R[x] BY <1>10, <2>1
    <2>3. chosen[l] = R[l]
      <3> HIDE DEF l
      <3> QED BY <1>8, <2>1, <2>2
    <2>4. \A x \in l..b + 1 : x = l \/ x \in l + 1..b + 1 BY <1>1, <2>1
    <2>5. \A x \in l..b + 1 : chosen[x] = R[x]
      <3> HIDE DEF l
      <3> QED BY <2>2, <2>3, <2>4
    <2> QED BY <2>1, <2>5
  <1>11. \A n \in 0..b : n \in T
    <2> HIDE DEF T
    <2> QED BY <1>1, <1>9, <1>10, InductionUpTo
  <1>12. chosen[1] = R[1]
    <2>1. b \in T /\ 1 \in b + 1 - b..b + 1 /\ b <= b BY <1>1, <1>11
    <2> QED BY <2>1
  <1> QED BY <1>2, <1>12

(* u is v and possibly more.                                               *)
Extends(u, v) ==
    /\ Len(v) \in Nat /\ Len(u) \in Nat /\ Len(v) <= Len(u)
    /\ \A k \in 1..Len(v) : u[k] = v[k]

(* A turn of the loop of SplitStringT: pieces there are always.            *)
Pieces(C) == Seq(Seq(C)) \ {<<>>}

PieceStep(c, pieces, ch) ==
    IF ch = c THEN Append(pieces, <<>>)
    ELSE Append(Front(pieces), Append(Last(pieces), ch))

PieceSteps(r, s, c, C) ==
    /\ r \in [0..Len(s) -> Pieces(C)]
    /\ r[0] = << <<>> >> /\ r[Len(s)] = SplitStringDontTrim(s, c)
    /\ \A k \in 1..Len(s) : r[k] = PieceStep(c, r[k - 1], s[k])

(* It touches the last piece only, or adds one.                            *)
TouchesLast(next, pieces, more) ==
    /\ Len(pieces) \in Nat \ {0} /\ Len(next) \in Nat
    /\ more => Len(next) = Len(pieces) + 1 /\ next[Len(pieces)] = pieces[Len(pieces)]
    /\ ~more => Len(next) = Len(pieces)
    /\ \A k \in 1..Len(pieces) - 1 : next[k] = pieces[k]

(* A delimiter begins a piece, another character goes into the last one.   *)
LEMMA PieceStepIs ==
    ASSUME NEW C, NEW c, NEW pieces \in Pieces(C), NEW ch \in C,
           NEW next, next = PieceStep(c, pieces, ch)
    PROVE  next \in Pieces(C) /\ TouchesLast(next, pieces, ch = c)
  <1> DEFINE T == Seq(C)
             n == Len(pieces)
  <1>1. pieces \in Seq(T) /\ pieces # <<>> BY DEF Pieces
  <1>2. <<>> \in T BY EmptySeq
  <1>3. ASSUME NEW x \in Seq(C) PROVE Append(x, ch) \in Seq(C)
    BY <1>3, AppendProperties
  <1> HIDE DEF T, n
  <1>4. n \in Nat \ {0} BY <1>1, EmptySeq DEF n
  <1>5. CASE ch = c
    <2>1. next = Append(pieces, <<>>) BY <1>5 DEF PieceStep
    <2>2. /\ next \in Seq(T) /\ next # <<>> /\ Len(next) = n + 1
          /\ \A i \in 1..n : next[i] = pieces[i]
      BY <1>1, <1>2, <2>1, AppendProperties DEF n
    <2>3. next \in Pieces(C) BY <2>2 DEF Pieces, T
    <2>4. n \in 1..n /\ \A k \in 1..n - 1 : k \in 1..n BY <1>4
    <2>5. next[n] = pieces[n] /\ \A k \in 1..n - 1 : next[k] = pieces[k] BY <2>2, <2>4
    <2>6. Len(next) \in Nat BY <1>4, <2>2
    <2>7. TouchesLast(next, pieces, TRUE) BY <1>4, <2>2, <2>5, <2>6 DEF TouchesLast, n
    <2> QED BY <1>5, <2>3, <2>7
  <1>6. CASE ch # c
    <2> DEFINE front == SubSeq(pieces, 1, n - 1)
               last == Append(pieces[n], ch)
    <2>1. next = Append(front, last) BY <1>6 DEF PieceStep, Front, Last, n
    <2>2. n \in 1..n /\ 1 \in Int /\ n - 1 \in Int /\ \A i \in 1..n - 1 : i \in 1..n BY <1>4
    <2>3. \A i \in 1..n : pieces[i] \in T BY <1>1, ElementOfSeq DEF n
    <2>4. last \in T BY <1>3, <2>2, <2>3 DEF T
    <2>5. /\ front \in Seq(T)
          /\ Len(front) = IF 1 <= n - 1 THEN (n - 1) - 1 + 1 ELSE 0
          /\ \A i \in 1..(n - 1) - 1 + 1 : front[i] = pieces[1 + i - 1]
      BY <2>2, <2>3, SubSeqProperties
    <2> HIDE DEF front, last
    <2>6. Len(front) = n - 1 BY <1>4, <2>5
    <2>7. \A i \in 1..n - 1 : front[i] = pieces[i]
      <3> TAKE i \in 1..n - 1
      <3>1. i \in 1..(n - 1) - 1 + 1 /\ 1 + i - 1 = i BY <1>4
      <3> QED BY <2>5, <3>1
    <2>8. /\ next \in Seq(T) /\ next # <<>> /\ Len(next) = Len(front) + 1
          /\ \A i \in 1..Len(front) : next[i] = front[i]
      BY <2>1, <2>4, <2>5, AppendProperties
    <2>9. Len(next) = n BY <1>4, <2>6, <2>8
    <2>10. \A i \in 1..n - 1 : next[i] = pieces[i] BY <2>6, <2>7, <2>8
    <2>11. next \in Pieces(C) BY <2>8 DEF Pieces, T
    <2>12. TouchesLast(next, pieces, FALSE) BY <1>4, <2>9, <2>10 DEF TouchesLast, n
    <2> QED BY <1>6, <2>11, <2>12
  <1> QED BY <1>5, <1>6

(* SplitStringDontTrim as that loop.                                       *)
LEMMA SplitSteps ==
    ASSUME NEW C, NEW s \in Seq(C), NEW c
    PROVE  \E r : PieceSteps(r, s, c, C)
  <1> DEFINE n == Len(s)
             b == << <<>> >>
             f == [x \in Pieces(C) \X C |-> PieceStep(c, x[1], x[2])]
             Is(g) == g = [S \in SUBSET (1..n) |->
                             IF S = {} THEN b
                             ELSE PieceStep(c, g[S \ {Max(S)}], s[Max(S)])]
             h == CHOOSE g : Is(g)
  <1>1. f \in [Pieces(C) \X C -> Pieces(C)]
    <2>1. ASSUME NEW x \in Pieces(C), NEW ch \in C PROVE PieceStep(c, x, ch) \in Pieces(C)
      BY PieceStepIs
    <2> QED BY <2>1
  <1>2. \A a \in Pieces(C), t \in C : f[<<a, t>>] = PieceStep(c, a, t)
    OBVIOUS
  <1>3. b \in Pieces(C)
    <2>1. <<>> \in Seq(C) OBVIOUS
    <2>2. b \in Seq(Seq(C)) /\ b # <<>> BY <2>1
    <2> HIDE DEF b
    <2> QED BY <2>2 DEF Pieces
  <1>4. n \in Nat /\ (\A i \in 1..n : s[i] \in C) /\ DOMAIN s = 1..n
    BY LenProperties, ElementOfSeq
  <1>5. SplitStringDontTrim(s, c) = h[1..n]
    BY <1>4 DEF SplitStringDontTrim, FoldLeft, MapThenFoldSet, PieceStep
  <1> HIDE DEF f, n, b
  <1>6. \A S \in SUBSET (1..n) : S # {} => s[Max(S)] \in C
    BY <1>4, MaxOfInterval
  <1>7. PICK g : Folds(g, f, b, s, n, Pieces(C))
    BY <1>1, <1>3, <1>4, FoldExists
  <1>8. Is(g)
    BY <1>2, <1>6, <1>7 DEF Folds
  <1>9. Is(h)
    <2> HIDE DEF Is
    <2> QED BY <1>8
  <1> HIDE DEF h
  <1>10. FoldsFrom(h, f, b, s, n, Pieces(C))
    BY <1>2, <1>6, <1>9 DEF FoldsFrom
  <1>11. PICK r : Steps(r, f, b, s, n, Pieces(C), h[1..n])
    BY <1>1, <1>3, <1>4, <1>10, FoldSteps
  <1>12. ASSUME NEW k \in 1..n PROVE r[k] = PieceStep(c, r[k - 1], s[k])
    <2>1. k - 1 \in 0..n BY <1>4
    <2>2. r[k - 1] \in Pieces(C) /\ s[k] \in C BY <1>4, <1>11, <2>1 DEF Steps
    <2> QED BY <1>2, <1>11, <2>2 DEF Steps
  <1> QED BY <1>5, <1>11, <1>12 DEF n, b, Steps, PieceSteps

(* What follows a delimiter changes no piece before it.                    *)
LEMMA SplitExtends ==
    ASSUME NEW C, NEW s \in Seq(C), NEW t \in Seq(C), t # <<>>
    PROVE  Extends(SplitStringDontTrim(s \o t, t[1]), SplitStringDontTrim(s, t[1]))
  <1> DEFINE c == t[1]
             u == s \o t
             n == Len(s)
             l == Len(t)
  <1>1. n \in Nat /\ l \in Nat \ {0} BY EmptySeq, LenProperties
  <1>2. /\ u \in Seq(C) /\ Len(u) = n + l
        /\ \A i \in 1..n + l : u[i] = IF i <= n THEN s[i] ELSE t[i - n]
    BY ConcatProperties
  <1> HIDE DEF u, n, l
  <1>3. (\A i \in 1..n : u[i] = s[i]) /\ u[n + 1] = c
    <2>1. n + 1 \in 1..n + l /\ (n + 1) - n = 1 /\ ~(n + 1 <= n) BY <1>1
    <2>2. \A i \in 1..n : i \in 1..n + l /\ i <= n BY <1>1
    <2> QED BY <1>2, <2>1, <2>2
  <1> HIDE DEF c
  <1>4. \A i \in 1..n + l : u[i] \in C BY <1>2, ElementOfSeq
  <1>5. PICK r : PieceSteps(r, s, c, C) BY SplitSteps
  <1>6. PICK w : PieceSteps(w, u, c, C) BY <1>2, SplitSteps
  <1>7. /\ r \in [0..n -> Pieces(C)] /\ r[0] = << <<>> >>
        /\ r[n] = SplitStringDontTrim(s, c)
        /\ \A k \in 1..n : r[k] = PieceStep(c, r[k - 1], s[k])
    BY <1>5 DEF PieceSteps, n
  <1>8. /\ w \in [0..n + l -> Pieces(C)] /\ w[0] = << <<>> >>
        /\ w[n + l] = SplitStringDontTrim(u, c)
        /\ \A k \in 1..n + l : w[k] = PieceStep(c, w[k - 1], u[k])
    BY <1>2, <1>6 DEF PieceSteps
  <1>9. w[n] = r[n]
    <2> DEFINE S == {k \in Nat : w[k] = r[k]}
    <2>1. 0 \in S BY <1>7, <1>8
    <2>2. ASSUME NEW k \in 1..n, k - 1 \in S PROVE k \in S
      <3>1. k \in 1..n + l /\ k \in Nat /\ w[k - 1] = r[k - 1] BY <1>1, <2>2
      <3>2. w[k] = r[k] BY <1>3, <1>7, <1>8, <3>1
      <3> QED BY <3>1, <3>2
    <2> HIDE DEF S
    <2>3. \A k \in 0..n : k \in S BY <1>1, <2>1, <2>2, InductionUpTo
    <2>4. n \in S BY <1>1, <2>3
    <2> QED BY <2>4 DEF S
  <1> DEFINE m == Len(r[n])
             Kept(pieces) == Len(pieces) > m /\ \A k \in 1..m : pieces[k] = r[n][k]
             K == {k \in Nat : Kept(w[n + 1 + k])}
  <1>10. r[n] \in Pieces(C) /\ m \in Nat \ {0}
    <2>1. r[n] \in Pieces(C) BY <1>1, <1>7
    <2>2. r[n] \in Seq(Seq(C)) /\ r[n] # <<>> BY <2>1 DEF Pieces
    <2> QED BY <2>1, <2>2, EmptySeq
  <1>11. 0 \in K
    <2> DEFINE next == w[n + 1]
               pieces == r[n]
    <2>1. next = PieceStep(c, pieces, c)
      <3>1. n + 1 \in 1..n + l /\ (n + 1) - 1 = n BY <1>1
      <3> QED BY <1>3, <1>8, <1>9, <3>1
    <2>2. c \in C
      <3>1. n + 1 \in 1..n + l BY <1>1
      <3> QED BY <1>3, <1>4, <3>1
    <2> HIDE DEF next, pieces
    <2>3. pieces \in Pieces(C) /\ m = Len(pieces) BY <1>10 DEF pieces
    <2>4. /\ Len(next) = Len(pieces) + 1
          /\ \A k \in 1..Len(pieces) - 1 : next[k] = pieces[k]
          /\ next[Len(pieces)] = pieces[Len(pieces)]
      <3>1. TouchesLast(next, pieces, TRUE) BY <2>1, <2>2, <2>3, PieceStepIs
      <3> QED BY <3>1 DEF TouchesLast
    <2> HIDE DEF m
    <2>5. \A k \in 1..m : k \in 1..m - 1 \/ k = m BY <1>10
    <2>6. Len(next) > m /\ \A k \in 1..m : next[k] = pieces[k] BY <1>10, <2>3, <2>4, <2>5
    <2>7. n + 1 + 0 = n + 1 /\ 0 \in Nat BY <1>1
    <2>8. Kept(w[n + 1]) BY <2>6 DEF next, pieces
    <2> HIDE DEF Kept
    <2> QED BY <2>7, <2>8
  <1>12. ASSUME NEW k \in 1..l - 1, k - 1 \in K PROVE k \in K
    <2> DEFINE x == n + 1 + k
               pieces == w[x - 1]
               next == w[x]
               ch == u[x]
    <2>1. /\ x \in 1..n + l /\ x - 1 \in 0..n + l /\ x - 1 = n + 1 + (k - 1)
          /\ k \in Nat
      BY <1>1
    <2>2. Kept(pieces)
      <3> HIDE DEF Kept
      <3> QED BY <1>12, <2>1
    <2>3. pieces \in Pieces(C) /\ next = PieceStep(c, pieces, ch) /\ ch \in C
      <3> HIDE DEF x
      <3> QED BY <1>4, <1>8, <2>1
    <2> HIDE DEF pieces, next, ch
    <2>4. /\ Len(pieces) \in Nat /\ Len(next) \in Nat /\ Len(next) >= Len(pieces)
          /\ \A i \in 1..Len(pieces) - 1 : next[i] = pieces[i]
      <3>1. TouchesLast(next, pieces, ch = c) BY <2>3, PieceStepIs
      <3>2. CASE ch = c BY <3>1, <3>2 DEF TouchesLast
      <3>3. CASE ch # c BY <3>1, <3>3 DEF TouchesLast
      <3> QED BY <3>2, <3>3
    <2> HIDE DEF m
    <2>5. \A i \in 1..m : i \in 1..Len(pieces) - 1 BY <1>10, <2>2, <2>4
    <2>6. Kept(next) BY <1>10, <2>2, <2>4, <2>5
    <2> HIDE DEF Kept
    <2> QED BY <2>1, <2>6 DEF next
  <1>13. l - 1 \in K
    <2> HIDE DEF K
    <2>1. l - 1 \in Nat /\ l - 1 \in 0..l - 1 BY <1>1
    <2> DEFINE q == l - 1
    <2> HIDE DEF q
    <2>2. \A k \in 0..q : k \in K BY <1>11, <1>12, <2>1, InductionUpTo DEF q
    <2> QED BY <2>1, <2>2 DEF q
  <1>14. Kept(w[n + l])
    <2>1. n + 1 + (l - 1) = n + l BY <1>1
    <2> HIDE DEF Kept
    <2> QED BY <1>13, <2>1
  <1>15. Len(w[n + l]) \in Nat
    <2>1. w[n + l] \in Pieces(C) BY <1>1, <1>8
    <2>2. w[n + l] \in Seq(Seq(C)) BY <2>1 DEF Pieces
    <2> QED BY <2>2, LenProperties
  <1>16. Extends(w[n + l], r[n]) BY <1>10, <1>14, <1>15 DEF Extends
  <1> QED BY <1>7, <1>8, <1>16 DEF u, c

(* A function on 1..n is a sequence of n elements.                         *)
LEMMA SequenceOf ==
    ASSUME NEW n \in Nat, NEW g, g = [k \in 1..n |-> g[k]]
    PROVE  Len(g) = n /\ g \in Seq({g[k] : k \in 1..n}) /\ DOMAIN g = 1..n
  <1> DEFINE S == {g[k] : k \in 1..n}
  <1>1. \A k \in 1..n : g[k] \in S OBVIOUS
  <1> HIDE DEF S
  <1>2. g \in [1..n -> S] BY <1>1
  <1>3. g \in Seq(S) BY <1>2, SeqDef
  <1>4. Len(g) \in Nat /\ DOMAIN g = 1..Len(g) BY <1>3, LenProperties
  <1>5. DOMAIN g = 1..n BY <1>2
  <1>6. Len(g) = n
    <2>1. \A i \in Int : i \in 1..n <=> i \in 1..Len(g) BY <1>4, <1>5
    <2>2. n \in 1..Len(g) \/ n = 0 BY <2>1
    <2>3. Len(g) \in 1..n \/ Len(g) = 0 BY <1>4, <2>1
    <2> QED BY <1>4, <2>1, <2>2, <2>3
  <1> QED BY <1>3, <1>5, <1>6 DEF S

(* The same of SplitString, which trims the pieces.                        *)
LEMMA SplitStringExtends ==
    ASSUME NEW C, NEW s \in Seq(C), NEW t \in Seq(C), t # <<>>,
           NEW u, u = SplitString(s \o t, t[1]), NEW v, v = SplitString(s, t[1])
    PROVE  /\ Extends(u, v)
           /\ DOMAIN u = 1..Len(u) /\ DOMAIN v = 1..Len(v)
  <1> DEFINE x == SplitStringDontTrim(s \o t, t[1])
             y == SplitStringDontTrim(s, t[1])
  <1>1. Extends(x, y) BY SplitExtends
  <1>2. /\ u = [k \in 1..Len(x) |-> TrimString(x[k])]
        /\ v = [k \in 1..Len(y) |-> TrimString(y[k])]
    BY DEF SplitString
  <1> HIDE DEF x, y
  <1>3. /\ Len(y) \in Nat /\ Len(x) \in Nat /\ Len(y) <= Len(x)
        /\ \A k \in 1..Len(y) : x[k] = y[k]
    BY <1>1 DEF Extends
  <1>4. Len(u) = Len(x) /\ DOMAIN u = 1..Len(x)
    <2>1. u = [k \in 1..Len(x) |-> u[k]] BY <1>2
    <2> QED BY <1>3, <2>1, SequenceOf
  <1>5. Len(v) = Len(y) /\ DOMAIN v = 1..Len(y)
    <2>1. v = [k \in 1..Len(y) |-> v[k]] BY <1>2
    <2> QED BY <1>3, <2>1, SequenceOf
  <1>6. \A k \in 1..Len(y) : u[k] = v[k]
    <2> TAKE k \in 1..Len(y)
    <2>1. k \in 1..Len(x) BY <1>3
    <2> QED BY <1>2, <1>3, <2>1
  <1> QED BY <1>3, <1>4, <1>5, <1>6 DEF Extends

(* The loop of SplitStringIntoKeyValuePairs over the pieces.               *)
PairsOf(words, c) ==
    FoldLeft(LAMBDA pairs, part : IF part = <<>> THEN pairs
                                  ELSE Append(pairs, SplitStringIntoKeyValues(part, c)),
             <<>>, words)

PairStep(c, pairs, part) ==
    IF part = <<>> THEN pairs ELSE Append(pairs, SplitStringIntoKeyValues(part, c))

PairSteps(r, words, c, A) ==
    /\ r \in [0..Len(words) -> Seq(A)]
    /\ r[0] = <<>> /\ r[Len(words)] = PairsOf(words, c)
    /\ \A k \in 1..Len(words) : r[k] = PairStep(c, r[k - 1], words[k])

(* PairsOf as that loop.                                                   *)
LEMMA PairLoop ==
    ASSUME NEW words, Len(words) \in Nat, DOMAIN words = 1..Len(words), NEW c
    PROVE  \E A, r : PairSteps(r, words, c, A)
  <1> DEFINE n == Len(words)
             E == {words[k] : k \in 1..n}
             A == {SplitStringIntoKeyValues(x, c) : x \in E}
             T == Seq(A)
             b == <<>>
             f == [x \in T \X E |-> PairStep(c, x[1], x[2])]
             Is(g) == g = [S \in SUBSET (1..n) |->
                             IF S = {} THEN b
                             ELSE PairStep(c, g[S \ {Max(S)}], words[Max(S)])]
             h == CHOOSE g : Is(g)
  <1>1. n \in Nat /\ (\A i \in 1..n : words[i] \in E) /\ DOMAIN words = 1..n
    OBVIOUS
  <1>2. f \in [T \X E -> T]
    <2>1. ASSUME NEW x \in T, NEW part \in E PROVE PairStep(c, x, part) \in T
      <3>1. SplitStringIntoKeyValues(part, c) \in A OBVIOUS
      <3> HIDE DEF A, E
      <3>2. Append(x, SplitStringIntoKeyValues(part, c)) \in T BY <3>1, AppendProperties
      <3> QED BY <3>2 DEF PairStep
    <2> HIDE DEF T, E
    <2> QED BY <2>1
  <1>3. \A a \in T, e \in E : f[<<a, e>>] = PairStep(c, a, e)
    <2> HIDE DEF T, E
    <2> QED OBVIOUS
  <1>4. b \in T BY EmptySeq
  <1>5. PairsOf(words, c) = h[1..n]
    <2> HIDE DEF n
    <2> QED BY <1>1 DEF PairsOf, FoldLeft, MapThenFoldSet, PairStep
  <1> HIDE DEF f, n, E, A, T, b
  <1>6. \A S \in SUBSET (1..n) : S # {} => words[Max(S)] \in E
    BY <1>1, MaxOfInterval
  <1>7. PICK g : Folds(g, f, b, words, n, T)
    BY <1>1, <1>2, <1>4, FoldExists
  <1>8. Is(g)
    BY <1>3, <1>6, <1>7 DEF Folds
  <1>9. Is(h)
    <2> HIDE DEF Is
    <2> QED BY <1>8
  <1> HIDE DEF h
  <1>10. FoldsFrom(h, f, b, words, n, T)
    BY <1>3, <1>6, <1>9 DEF FoldsFrom
  <1>11. PICK r : Steps(r, f, b, words, n, T, h[1..n])
    BY <1>1, <1>2, <1>4, <1>10, FoldSteps
  <1>12. ASSUME NEW k \in 1..n PROVE r[k] = PairStep(c, r[k - 1], words[k])
    <2>1. k - 1 \in 0..n BY <1>1
    <2>2. r[k - 1] \in T /\ words[k] \in E BY <1>1, <1>11, <2>1 DEF Steps
    <2> QED BY <1>3, <1>11, <2>2 DEF Steps
  <1>13. PairSteps(r, words, c, A)
    BY <1>5, <1>11, <1>12 DEF n, b, T, Steps, PairSteps
  <1> QED BY <1>13

(* More pieces change no pair.                                             *)
LEMMA PairsExtend ==
    ASSUME NEW u, DOMAIN u = 1..Len(u), NEW v, DOMAIN v = 1..Len(v), Extends(u, v), NEW c
    PROVE  Extends(PairsOf(u, c), PairsOf(v, c))
  <1> DEFINE n == Len(v)
             l == Len(u) - n
  <1>1. n \in Nat /\ l \in Nat /\ Len(u) = n + l /\ Len(u) \in Nat BY DEF Extends
  <1>2. \A k \in 1..n : u[k] = v[k] BY DEF Extends
  <1>3. PICK A, r : PairSteps(r, v, c, A) BY <1>1, PairLoop
  <1>4. PICK B, w : PairSteps(w, u, c, B) BY <1>1, PairLoop
  <1> HIDE DEF l, n
  <1>5. /\ r \in [0..n -> Seq(A)] /\ r[0] = <<>> /\ r[n] = PairsOf(v, c)
        /\ \A k \in 1..n : r[k] = PairStep(c, r[k - 1], v[k])
    BY <1>3 DEF PairSteps, n
  <1>6. /\ w \in [0..n + l -> Seq(B)] /\ w[0] = <<>> /\ w[n + l] = PairsOf(u, c)
        /\ \A k \in 1..n + l : w[k] = PairStep(c, w[k - 1], u[k])
    BY <1>1, <1>4 DEF PairSteps
  <1>7. w[n] = r[n]
    <2> DEFINE S == {k \in Nat : w[k] = r[k]}
    <2>1. 0 \in S BY <1>5, <1>6
    <2>2. ASSUME NEW k \in 1..n, k - 1 \in S PROVE k \in S
      <3>1. k \in 1..n + l /\ k \in Nat /\ w[k - 1] = r[k - 1] BY <1>1, <2>2
      <3>2. w[k] = r[k] BY <1>2, <1>5, <1>6, <3>1
      <3> QED BY <3>1, <3>2
    <2> HIDE DEF S
    <2>3. \A k \in 0..n : k \in S BY <1>1, <2>1, <2>2, InductionUpTo
    <2>4. n \in S BY <1>1, <2>3
    <2> QED BY <2>4 DEF S
  <1> DEFINE K == {k \in Nat : Extends(w[n + k], r[n])}
  <1>8. Len(r[n]) \in Nat
    <2>1. r[n] \in Seq(A) BY <1>1, <1>5
    <2> QED BY <2>1, LenProperties
  <1>9. 0 \in K
    <2>1. n + 0 = n BY <1>1
    <2> QED BY <1>7, <1>8, <2>1 DEF Extends
  <1>10. ASSUME NEW k \in 1..l, k - 1 \in K PROVE k \in K
    <2> DEFINE x == n + k
               pairs == w[x - 1]
               next == w[x]
               part == u[x]
    <2>1. x \in 1..n + l /\ x - 1 \in 0..n + l /\ x - 1 = n + (k - 1) /\ k \in Nat
      BY <1>1
    <2>2. Extends(pairs, r[n]) BY <1>10, <2>1
    <2>3. pairs \in Seq(B) /\ next \in Seq(B) /\ next = PairStep(c, pairs, part)
      <3>1. x \in 0..n + l BY <2>1
      <3> HIDE DEF x
      <3> QED BY <1>6, <2>1, <3>1
    <2> DEFINE e == SplitStringIntoKeyValues(part, c)
    <2> HIDE DEF pairs, next, part, e
    <2>4. Extends(next, r[n])
      <3>1. CASE part = <<>> BY <2>2, <2>3, <3>1 DEF PairStep
      <3>2. CASE part # <<>>
        <4>1. next = Append(pairs, e) BY <2>3, <3>2 DEF PairStep, e
        <4> DEFINE D == B \cup {e}
        <4>2. pairs \in Seq(D) /\ e \in D BY <2>3, SeqMonotonic
        <4> HIDE DEF D
        <4>3. /\ Len(next) = Len(pairs) + 1
              /\ \A i \in 1..Len(pairs) : next[i] = pairs[i]
          BY <4>1, <4>2, AppendProperties
        <4> QED BY <2>2, <4>3 DEF Extends
      <3> QED BY <3>1, <3>2
    <2> QED BY <2>1, <2>4 DEF next
  <1>11. l \in K
    <2> HIDE DEF K
    <2>1. \A k \in 0..l : k \in K BY <1>1, <1>9, <1>10, InductionUpTo
    <2> QED BY <1>1, <2>1
  <1> QED BY <1>5, <1>6, <1>11

(* What separates the pairs of the switch.                                 *)
Comma == ","

(* More text behind a comma changes no level of the switch.                *)
LEMMA LevelsExtend ==
    ASSUME NEW C, NEW s \in Seq(C), NEW t \in Seq(C), t # <<>>, t[1] = Comma
    PROVE  Extends(VlogInfo(s \o t), VlogInfo(s))
  <1> DEFINE x == s \o t
             u == SplitString(x, Comma)
             v == SplitString(s, Comma)
             a == PairsOf(u, "=")
             b == PairsOf(v, "=")
             Level(q, k) == [pattern |-> q[k].key, vlog_level |-> atoi(q[k].value)]
             g == VlogInfo(x)
             h == VlogInfo(s)
  <1>1. Extends(u, v) /\ DOMAIN u = 1..Len(u) /\ DOMAIN v = 1..Len(v)
    <2>1. u = SplitString(s \o t, t[1]) /\ v = SplitString(s, t[1]) OBVIOUS
    <2> HIDE DEF u, v
    <2> QED BY <2>1, SplitStringExtends
  <1>2. Extends(a, b)
    <2> HIDE DEF u, v
    <2> QED BY <1>1, PairsExtend
  <1>3. g = [k \in 1..Len(a) |-> Level(a, k)] /\ h = [k \in 1..Len(b) |-> Level(b, k)]
    BY Zenon DEF VlogInfo, SplitStringIntoKeyValuePairs, PairsOf, Comma
  <1> HIDE DEF a, b, g, h
  <1>4. /\ Len(b) \in Nat /\ Len(a) \in Nat /\ Len(b) <= Len(a)
        /\ \A k \in 1..Len(b) : a[k] = b[k]
    BY <1>2 DEF Extends
  <1>5. \A k \in 1..Len(b) : Level(a, k) = Level(b, k) BY <1>4
  <1> HIDE DEF Level
  <1>6. Len(g) = Len(a)
    <2>1. g = [k \in 1..Len(a) |-> g[k]] BY <1>3
    <2> QED BY <1>4, <2>1, SequenceOf
  <1>7. Len(h) = Len(b)
    <2>1. h = [k \in 1..Len(b) |-> h[k]] BY <1>3
    <2> QED BY <1>4, <2>1, SequenceOf
  <1>8. \A k \in 1..Len(b) : g[k] = h[k]
    <2> TAKE k \in 1..Len(b)
    <2> DEFINE i == Len(b)
               j == Len(a)
    <2>1. i \in Nat /\ j \in Nat /\ i <= j /\ k \in 1..i BY <1>4
    <2>2. k \in 1..j
      <3> HIDE DEF i, j
      <3> QED BY <2>1
    <2> QED BY <1>3, <1>5, <2>2
  <1>9. Extends(g, h) BY <1>4, <1>6, <1>7, <1>8 DEF Extends
  <1> QED BY <1>9 DEF g, h

(* The first pattern that matches decides, whatever follows it.            *)
LEMMA FirstDecides ==
    ASSUME NEW u, NEW v, Extends(u, v), NEW max, NEW file,
           NEW level, GetVlogLevel(v, max, file) = level, level # max
    PROVE  GetVlogLevel(u, max, file) = level
  <1> DEFINE Target(p) == IF Range(p) \cap PathSlash # {} THEN file ELSE GetModule(file)
             Hit(l) == MatchVlogPattern(Target(l.pattern), l.pattern)
             H(w) == {k \in 1..Len(w) : Hit(w[k])}
  <1>1. /\ Len(v) \in Nat /\ Len(u) \in Nat /\ Len(v) <= Len(u)
        /\ \A k \in 1..Len(v) : u[k] = v[k]
    BY DEF Extends
  <1>2. ASSUME NEW w
        PROVE  GetVlogLevel(w, max, file)
                  = IF H(w) = {} THEN max ELSE w[Min(H(w))].vlog_level
    BY Zenon DEF GetVlogLevel
  <1> HIDE DEF Hit
  <1>3. H(v) # {} /\ level = v[Min(H(v))].vlog_level
    <2> HIDE DEF H
    <2> QED BY <1>2
  <1> DEFINE n == Len(v)
  <1>4. H(v) \subseteq 1..n /\ \A k \in 1..n : k \in H(u) <=> k \in H(v) BY <1>1
  <1>5. H(u) \subseteq 1..Len(u) OBVIOUS
  <1> HIDE DEF H, n
  <1>6. n \in Nat /\ 1 \in Int BY <1>1 DEF n
  <1> DEFINE m == Min(H(v))
  <1>7. m \in H(v) /\ \A k \in H(v) : m <= k BY <1>3, <1>4, <1>6, FirstOfRange
  <1>8. m \in H(u) /\ m \in 1..n BY <1>4, <1>7
  <1>9. \A k \in H(u) : m <= k
    <2> TAKE k \in H(u)
    <2>1. CASE k \in 1..n BY <1>4, <1>7, <2>1
    <2>2. CASE k \notin 1..n BY <1>1, <1>5, <1>6, <1>8, <2>2
    <2> QED BY <2>1, <2>2
  <1> HIDE DEF m
  <1>10. Min(H(u)) = m
    <2>1. H(u) \subseteq Int BY <1>5
    <2>2. \A k \in H(u) : (\A i \in H(u) : k <= i) => k = m BY <1>8, <1>9, <2>1
    <2> QED BY <1>8, <1>9, <2>2 DEF Min
  <1>11. u[m] = v[m] /\ H(u) # {} BY <1>1, <1>8 DEF n
  <1> QED BY <1>2, <1>3, <1>10, <1>11 DEF m

-----------------------------------------------------------------------------
(* Command lines.                                                          *)

(* Trimming once is enough.                                                *)
LEMMA TrimTwice ==
    ASSUME NEW C, NEW s \in Seq(C)
    PROVE  TrimString(TrimString(s)) = TrimString(s)
  <1> DEFINE Kept(x) == {i \in 1..Len(x) : x[i] \notin Space}
             n == Len(s)
             t == TrimString(s)
  <1>1. n \in Nat BY LenProperties
  <1>2. CASE Kept(s) = {}
    <2>1. t = <<>> BY <1>2 DEF TrimString
    <2> HIDE DEF t
    <2>2. {i \in 1..Len(t) : t[i] \notin Space} = {} BY <2>1
    <2>3. TrimString(t) = <<>> BY <2>2 DEF TrimString
    <2> QED BY <2>1, <2>3 DEF t
  <1>3. CASE Kept(s) # {}
    <2> DEFINE m == Min(Kept(s))
               l == Max(Kept(s))
    <2>1. t = SubSeq(s, m, l) BY <1>3 DEF TrimString
    <2>2. Kept(s) \subseteq 1..n OBVIOUS
    <2>3. m \in Kept(s) /\ l \in Kept(s) /\ m <= l
      <3> HIDE DEF n
      <3>1. m \in Kept(s) /\ \A i \in Kept(s) : m <= i
        <4> HIDE DEF Kept
        <4> QED BY <1>1, <1>3, <2>2, FirstOfRange
      <3>2. l \in Kept(s)
        <4> HIDE DEF Kept
        <4> QED BY <1>1, <1>3, <2>2, LastOfRange
      <3> QED BY <3>1, <3>2
    <2>4. m \in 1..n /\ l \in 1..n /\ s[m] \notin Space /\ s[l] \notin Space BY <2>3
    <2> HIDE DEF m, l, t
    <2> DEFINE k == l - m + 1
    <2>5. t \in Seq(C) /\ Len(t) = k /\ \A i \in 1..k : t[i] = s[m + i - 1]
      BY <2>1, <2>3, <2>4, SubSeqProperties
    <2>6. k \in Nat /\ 1 \in 1..k /\ k \in 1..k /\ m + k - 1 = l /\ m + 1 - 1 = m
      BY <1>1, <2>3, <2>4
    <2>7. t[1] = s[m] /\ t[k] = s[l] BY <2>5, <2>6
    <2> HIDE DEF k, Kept
    <2> DEFINE K == {i \in 1..Len(t) : t[i] \notin Space}
    <2>8. 1 \in K /\ k \in K /\ K \subseteq 1..k BY <2>4, <2>5, <2>6, <2>7
    <2>9. Max(K) = k
      <3>1. K \subseteq Int /\ \A i \in K : i <= k BY <2>6, <2>8
      <3> HIDE DEF K
      <3> QED BY <2>8, <3>1, MaxIs
    <2>10. Min(K) = 1
      <3> HIDE DEF K
      <3>1. 1 \in Int /\ k \in Int /\ K \subseteq 1..k /\ K # {} BY <2>6, <2>8
      <3>2. Min(K) \in K /\ \A i \in K : Min(K) <= i BY <3>1, FirstOfRange
      <3>3. Min(K) <= 1 /\ Min(K) \in 1..k BY <2>8, <3>2
      <3> QED BY <2>6, <3>3
    <2>11. TrimString(t) = IF K = {} THEN <<>> ELSE SubSeq(t, Min(K), Max(K))
      BY DEF TrimString
    <2> HIDE DEF K
    <2>12. TrimString(t) = SubSeq(t, 1, Len(t)) BY <2>5, <2>8, <2>9, <2>10, <2>11
    <2>13. SubSeq(t, 1, Len(t)) = t BY <2>5, SubSeqFull
    <2> QED BY <2>12, <2>13 DEF t
  <1> QED BY <1>2, <1>3

(* The words of a line: the program name apart, which SplitString always   *)
(* answers, they are trimmed.                                              *)
WordsAre(words) ==
    /\ Len(words) \in Nat /\ DOMAIN words = 1..Len(words)
    /\ words \in Seq({words[i] : i \in 1..Len(words)})
    /\ \A i \in 1..Len(words) : TrimString(words[i]) = words[i]

LEMMA WordsOf ==
    ASSUME NEW C, NEW s \in Seq(C), NEW c, NEW words, words = Tail(SplitString(s, c))
    PROVE  WordsAre(words) /\ SplitString(s, c) # <<>>
  <1> DEFINE parts == SplitStringDontTrim(s, c)
             all == SplitString(s, c)
  <1>1. PICK r : PieceSteps(r, s, c, C) BY SplitSteps
  <1>2. parts \in Pieces(C)
    <2> HIDE DEF parts
    <2>1. Len(s) \in 0..Len(s) BY LenProperties
    <2> QED BY <1>1, <2>1 DEF PieceSteps, parts
  <1>3. parts \in Seq(Seq(C)) /\ parts # <<>> BY <1>2 DEF Pieces
  <1>4. all = [k \in 1..Len(parts) |-> TrimString(parts[k])] BY DEF SplitString
  <1> HIDE DEF parts, all
  <1>5. Len(parts) \in Nat \ {0} /\ \A k \in 1..Len(parts) : parts[k] \in Seq(C)
    BY <1>3, EmptySeq, LenProperties, ElementOfSeq
  <1> DEFINE n == Len(parts)
             D == {all[k] : k \in 1..n}
  <1>6. Len(all) = n /\ all \in Seq(D)
    <2>1. all = [k \in 1..n |-> all[k]] BY <1>4
    <2> QED BY <1>5, <2>1, SequenceOf
  <1>7. \A k \in 1..n : all[k] = TrimString(parts[k]) BY <1>4
  <1>8. \A k \in 1..n : TrimString(all[k]) = all[k]
    BY <1>5, <1>7, TrimTwice
  <1>9. all # <<>>
    <2> HIDE DEF n, D
    <2>1. n # 0 BY <1>5 DEF n
    <2> QED BY <1>6, <2>1, EmptySeq
  <1> HIDE DEF D
  <1>10. words \in Seq(D) /\ Len(words) = n - 1 /\ \A k \in 1..n - 1 : words[k] = all[k + 1]
    BY <1>6, <1>9, HeadTailProperties DEF all
  <1>11. Len(words) \in Nat /\ DOMAIN words = 1..Len(words) BY <1>10, LenProperties
  <1>12. words \in Seq({words[i] : i \in 1..Len(words)})
    <2> DEFINE l == Len(words)
               W == {words[i] : i \in 1..l}
    <2>1. words = [k \in 1..l |-> words[k]] BY <1>10, LenProperties
    <2>2. l \in Nat BY <1>11
    <2>3. \A k \in 1..l : words[k] \in W OBVIOUS
    <2> HIDE DEF l, W
    <2>4. words \in [1..l -> W] BY <2>1, <2>3
    <2>5. words \in Seq(W) BY <2>2, <2>4, SeqDef
    <2> QED BY <2>5 DEF l, W
  <1>13. \A i \in 1..Len(words) : TrimString(words[i]) = words[i]
    <2> TAKE i \in 1..Len(words)
    <2>1. i + 1 \in 1..n /\ i \in 1..n - 1 BY <1>5, <1>10
    <2> QED BY <1>8, <1>10, <2>1
  <1> QED BY <1>9, <1>11, <1>12, <1>13 DEF WordsAre, all

(* The elements of a line: the program, the switches and the arguments.    *)
Elements(argv, program, switches, arguments) ==
    argv = <<program>> \o switches \o arguments

(* They can be told by their positions.                                    *)
LEMMA ElementsAre ==
    ASSUME NEW W, NEW e \in W, NEW sw \in Seq(W), NEW args \in Seq(W),
           NEW argv, Elements(argv, e, sw, args)
    PROVE  /\ argv \in Seq(W) /\ Len(sw) \in Nat /\ Len(args) \in Nat
           /\ Len(argv) = 1 + Len(sw) + Len(args) /\ argv[1] = e
           /\ \A i \in 1..Len(sw) : argv[1 + i] = sw[i]
           /\ \A i \in 1..Len(args) : argv[1 + Len(sw) + i] = args[i]
  <1> DEFINE one == <<e>>
             n == Len(sw)
             l == Len(args)
             u == one \o sw
  <1>1. one \in Seq(W) /\ Len(one) = 1 /\ one[1] = e OBVIOUS
  <1>2. n \in Nat /\ l \in Nat BY LenProperties
  <1>3. argv = u \o args BY DEF Elements
  <1> HIDE DEF one
  <1>4. u \in Seq(W) /\ Len(u) = 1 + n
        /\ \A i \in 1..1 + n : u[i] = IF i <= 1 THEN one[i] ELSE sw[i - 1]
    <2>1. /\ u \in Seq(W) /\ Len(u) = Len(one) + n
          /\ \A i \in 1..Len(one) + n : u[i] = IF i <= Len(one) THEN one[i] ELSE sw[i - Len(one)]
      BY <1>1, ConcatProperties
    <2> HIDE DEF u, n
    <2> QED BY <1>1, <2>1
  <1> HIDE DEF u
  <1>5. argv \in Seq(W) /\ Len(argv) = 1 + n + l
        /\ \A i \in 1..1 + n + l : argv[i] = IF i <= 1 + n THEN u[i] ELSE args[i - (1 + n)]
    <2>1. /\ argv \in Seq(W) /\ Len(argv) = Len(u) + l
          /\ \A i \in 1..Len(u) + l : argv[i] = IF i <= Len(u) THEN u[i] ELSE args[i - Len(u)]
      BY <1>3, <1>4, ConcatProperties
    <2> HIDE DEF n, l
    <2> QED BY <1>4, <2>1
  <1> HIDE DEF n, l
  <1>6. argv[1] = e
    <2>1. 1 \in 1..1 + n + l /\ 1 <= 1 + n /\ 1 \in 1..1 + n BY <1>2
    <2> QED BY <1>1, <1>4, <1>5, <2>1
  <1>7. ASSUME NEW i \in 1..n PROVE argv[1 + i] = sw[i]
    <2>1. /\ 1 + i \in 1..1 + n + l /\ 1 + i <= 1 + n /\ 1 + i \in 1..1 + n /\ ~(1 + i <= 1)
          /\ (1 + i) - 1 = i
      BY <1>2
    <2> QED BY <1>4, <1>5, <2>1
  <1>8. ASSUME NEW i \in 1..l PROVE argv[1 + n + i] = args[i]
    <2>1. 1 + n + i \in 1..1 + n + l /\ ~(1 + n + i <= 1 + n) /\ (1 + n + i) - (1 + n) = i
      BY <1>2
    <2> QED BY <1>5, <2>1
  <1> QED BY <1>2, <1>5, <1>6, <1>7, <1>8 DEF n, l

(* Whatever has those elements at those positions is the line.             *)
LEMMA ElementsOf ==
    ASSUME NEW W, NEW e \in W, NEW sw \in Seq(W), NEW args \in Seq(W),
           NEW argv \in Seq(W), Len(argv) = 1 + Len(sw) + Len(args), argv[1] = e,
           \A i \in 1..Len(sw) : argv[1 + i] = sw[i],
           \A i \in 1..Len(args) : argv[1 + Len(sw) + i] = args[i]
    PROVE  Elements(argv, e, sw, args)
  <1> DEFINE a == <<e>> \o sw \o args
             n == Len(sw)
             l == Len(args)
  <1>1. Elements(a, e, sw, args) BY DEF Elements
  <1> HIDE DEF a
  <1>2. /\ a \in Seq(W) /\ n \in Nat /\ l \in Nat /\ Len(a) = 1 + n + l /\ a[1] = e
        /\ \A i \in 1..n : a[1 + i] = sw[i]
        /\ \A i \in 1..l : a[1 + n + i] = args[i]
    BY <1>1, ElementsAre
  <1>3. ASSUME NEW i \in 1..Len(a) PROVE a[i] = argv[i]
    <2> HIDE DEF n, l
    <2>1. i = 1 \/ i - 1 \in 1..n \/ i - (1 + n) \in 1..l BY <1>2, <1>3
    <2>2. 1 + (i - 1) = i /\ 1 + n + (i - (1 + n)) = i BY <1>2
    <2>3. CASE i = 1 BY <1>2, <2>3
    <2>4. CASE i - 1 \in 1..n
      <3>1. argv[1 + (i - 1)] = sw[i - 1] BY <2>4 DEF n
      <3> QED BY <1>2, <2>2, <2>4, <3>1
    <2>5. CASE i - (1 + n) \in 1..l
      <3>1. argv[1 + n + (i - (1 + n))] = args[i - (1 + n)] BY <2>5 DEF n, l
      <3> QED BY <1>2, <2>2, <2>5, <3>1
    <2> QED BY <2>1, <2>3, <2>4, <2>5
  <1>4. a = argv BY <1>2, <1>3, SeqEqual
  <1> QED BY <1>1, <1>4

(* The switches and the arguments, read from a line.                       *)
LEMMA ElementsRead ==
    ASSUME NEW W, NEW e \in W, NEW sw \in Seq(W), NEW args \in Seq(W),
           NEW argv, Elements(argv, e, sw, args)
    PROVE  SubSeq(argv, 2, Len(sw) + 1) = sw /\ From(argv, Len(sw) + 2) = args
  <1> DEFINE n == Len(sw)
             l == Len(args)
             t == SubSeq(argv, 2, n + 1)
             u == From(argv, n + 2)
  <1>1. /\ argv \in Seq(W) /\ n \in Nat /\ l \in Nat
        /\ Len(argv) = 1 + n + l
        /\ \A i \in 1..n : argv[1 + i] = sw[i]
        /\ \A i \in 1..l : argv[1 + n + i] = args[i]
    BY ElementsAre
  <1> HIDE DEF n, l
  <1>2. \A i \in 1..1 + n + l : argv[i] \in W BY <1>1, ElementOfSeq
  <1>3. t \in Seq(W) /\ Len(t) = n /\ \A i \in 1..n : t[i] = argv[1 + i]
    <2>1. \A i \in 2..n + 1 : argv[i] \in W BY <1>1, <1>2
    <2>2. 2 \in Int /\ n + 1 \in Int /\ (n + 1) - 2 + 1 = n /\ (n = 0 <=> ~(2 <= n + 1))
      BY <1>1
    <2>3. \A i \in 1..n : 2 + i - 1 = 1 + i BY <1>1
    <2>4. t \in Seq(W) /\ Len(t) = (IF 2 <= n + 1 THEN n ELSE 0)
          /\ \A i \in 1..n : t[i] = argv[2 + i - 1]
      BY <2>1, <2>2, SubSeqProperties
    <2> HIDE DEF t
    <2> QED BY <1>1, <2>2, <2>3, <2>4
  <1>4. u \in Seq(W) /\ Len(u) = l /\ \A i \in 1..l : u[i] = argv[1 + n + i]
    <2> DEFINE b == n + 2
               f == 1 + n + l
    <2>1. \A i \in b..f : argv[i] \in W BY <1>1, <1>2
    <2>2. b \in Int /\ f \in Int /\ f - b + 1 = l /\ (l = 0 <=> ~(b <= f))
      BY <1>1
    <2>3. \A i \in 1..l : b + i - 1 = 1 + n + i BY <1>1
    <2>4. u = SubSeq(argv, b, f) BY <1>1 DEF From
    <2> HIDE DEF b, f, u
    <2>5. u \in Seq(W) /\ Len(u) = (IF b <= f THEN l ELSE 0)
          /\ \A i \in 1..l : u[i] = argv[b + i - 1]
      BY <2>1, <2>2, <2>4, SubSeqProperties
    <2> QED BY <1>1, <2>2, <2>3, <2>5
  <1> HIDE DEF t, u
  <1>5. t = sw
    <2>1. Len(t) = Len(sw) /\ \A i \in 1..Len(t) : t[i] = sw[i] BY <1>1, <1>3 DEF n
    <2> QED BY <1>3, <2>1, SeqEqual
  <1>6. u = args
    <2>1. Len(u) = Len(args) /\ \A i \in 1..Len(u) : u[i] = args[i] BY <1>1, <1>4 DEF l
    <2> QED BY <1>4, <2>1, SeqEqual
  <1> QED BY <1>5, <1>6 DEF t, u, n

(* A switch goes behind the switches, an argument behind the arguments.    *)
LEMMA ElementAdded ==
    ASSUME NEW W, NEW e \in W, NEW sw \in Seq(W), NEW args \in Seq(W), NEW x \in W,
           NEW argv, Elements(argv, e, sw, args)
    PROVE  /\ Elements(InsertAt(argv, Len(sw) + 2, x), e, Append(sw, x), args)
           /\ Elements(Append(argv, x), e, sw, Append(args, x))
  <1> DEFINE n == Len(sw)
             l == Len(args)
             t == <<e>> \o sw
             one == <<x>>
  <1>1. one \in Seq(W) /\ <<e>> \in Seq(W) OBVIOUS
  <1>2. t \in Seq(W) /\ Len(t) = n + 1 /\ argv \in Seq(W) /\ Len(argv) = 1 + n + l
        /\ n \in Nat /\ l \in Nat /\ argv = t \o args
    <2>1. t \in Seq(W) BY <1>1, ConcatProperties
    <2>2. Len(t) = n + 1 BY <1>1, ConcatProperties, LenProperties
    <2>3. argv = t \o args BY DEF Elements
    <2> QED BY <2>1, <2>2, <2>3, ElementsAre
  <1>3. Append(sw, x) = sw \o one /\ Append(args, x) = args \o one
        /\ Append(argv, x) = argv \o one
    BY <1>2, AppendIsConcat
  <1>4. SubSeq(argv, 1, n + 1) = t
    <2> HIDE DEF t
    <2>1. CASE l = 0
      <3>1. args = <<>> BY <2>1, EmptySeq DEF l
      <3>2. argv = t BY <1>2, <3>1, ConcatEmptySeq
      <3> QED BY <1>2, <3>2, SubSeqFull
    <2>2. CASE l # 0
      <3>1. 1 \in 1..Len(t) /\ n + 1 \in 1..Len(t) BY <1>2
      <3>2. SubSeq(argv, 1, n + 1) = SubSeq(t, 1, n + 1) BY <1>2, <3>1, SubSeqOfConcat1
      <3> QED BY <1>2, <3>2, SubSeqFull
    <2> QED BY <2>1, <2>2
  <1>5. SubSeq(argv, n + 2, Len(argv)) = args BY ElementsRead DEF From
  <1>6. InsertAt(argv, n + 2, x) = (t \o one) \o args
    <2>1. (n + 2) - 1 = n + 1 BY <1>2
    <2> QED BY <1>4, <1>5, <2>1 DEF InsertAt
  <1>7. t \o one = <<e>> \o Append(sw, x) BY <1>1, <1>3, ConcatAssociative
  <1>8. Append(argv, x) = t \o Append(args, x)
    <2> HIDE DEF t, one
    <2> QED BY <1>1, <1>2, <1>3, ConcatAssociative
  <1> QED BY <1>6, <1>7, <1>8 DEF Elements

(* The arguments of a line without the first terminator, as in GetArgs.    *)
Ends(arguments) == \E i \in 1..Len(arguments) : arguments[i] = kSwitchTerminator

Without(arguments) ==
    LET first == FirstOf(arguments, {kSwitchTerminator})
    IN  IF first > Len(arguments) THEN arguments ELSE RemoveAt(arguments, first)

(* Arguments without a terminator are all there, and one is left out.      *)
LEMMA ArgumentsGrow ==
    ASSUME NEW W, NEW args \in Seq(W), NEW x \in W, ~Ends(args)
    PROVE  /\ Without(args) = args
           /\ Ends(Append(args, x)) <=> x = kSwitchTerminator
           /\ Without(Append(args, x)) = IF x = kSwitchTerminator THEN args ELSE Append(args, x)
  <1> DEFINE n == Len(args)
             t == Append(args, x)
             c == kSwitchTerminator
             first == FirstOf(t, {c})
  <1>1. n \in Nat /\ t \in Seq(W) /\ Len(t) = n + 1 /\ t[n + 1] = x
        /\ \A i \in 1..n : t[i] = args[i]
    BY LenProperties, AppendProperties
  <1>2. \A i \in 1..n : args[i] # c BY DEF Ends
  <1>3. Without(args) = args
    <2>1. /\ FirstOf(args, {c}) \in 1..n + 1
          /\ FirstOf(args, {c}) <= n => args[FirstOf(args, {c})] \in {c}
      BY <1>1, FirstOfIs
    <2>2. FirstOf(args, {c}) > n
      <3> HIDE DEF c, n
      <3> DEFINE m == FirstOf(args, {c})
      <3>1. m \in 1..n + 1 /\ (m <= n => args[m] = c) BY <2>1
      <3> HIDE DEF m
      <3> QED BY <1>1, <1>2, <3>1 DEF m
    <2> QED BY <2>2 DEF Without
  <1>4. first \in 1..n + 2 /\ (\A i \in 1..n + 1 : i < first => t[i] # c)
        /\ (first <= n + 1 => t[first] = c)
    <2> HIDE DEF c, t
    <2>1. /\ first \in 1..Len(t) + 1
          /\ \A i \in 1..Len(t) : i < first => t[i] \notin {c}
          /\ first <= Len(t) => t[first] \in {c}
      BY <1>1, FirstOfIs
    <2> HIDE DEF first
    <2> QED BY <1>1, <2>1
  <1>5. Without(t) = IF first > n + 1 THEN t ELSE RemoveAt(t, first)
    BY <1>1 DEF Without
  <1>6. Ends(t) <=> x = c
    <2> HIDE DEF t, n
    <2>1. Ends(t) <=> \E i \in 1..n + 1 : t[i] = c BY <1>1 DEF Ends
    <2>2. n + 1 \in 1..n + 1 BY <1>1
    <2>3. \A i \in 1..n + 1 : i \in 1..n \/ i = n + 1 BY <1>1
    <2> QED BY <1>1, <1>2, <2>1, <2>2, <2>3
  <1> HIDE DEF first, c
  <1>7. CASE x = c
    <2>1. first = n + 1
      <3>1. \A i \in 1..n : t[i] # c BY <1>1, <1>2
      <3> HIDE DEF n, t
      <3>2. first \notin 1..n BY <1>1, <1>4, <3>1
      <3>3. n + 1 \in 1..n + 1 /\ t[n + 1] = c BY <1>1, <1>7
      <3>4. ~(n + 1 < first) BY <1>4, <3>3
      <3> QED BY <1>1, <1>4, <3>2, <3>4
    <2>2. RemoveAt(t, n + 1) = args
      <3>1. t = args \o <<x>> BY AppendIsConcat
      <3>2. RemoveAt(t, n + 1) = SubSeq(t, 1, (n + 1) - 1) \o SubSeq(t, (n + 1) + 1, n + 1)
        BY <1>1 DEF RemoveAt
      <3> HIDE DEF t
      <3>3. SubSeq(t, (n + 1) + 1, n + 1) = <<>> BY <1>1, SubSeqEmpty
      <3>4. SubSeq(t, 1, n) = args
        <4>1. CASE n = 0
          <5>1. args = <<>> BY <4>1, EmptySeq
          <5>2. SubSeq(t, 1, n) = <<>> BY <4>1, SubSeqEmpty
          <5> QED BY <5>1, <5>2
        <4>2. CASE n # 0
          <5>1. 1 \in 1..n /\ n \in 1..n BY <1>1, <4>2
          <5>2. <<x>> \in Seq(W) OBVIOUS
          <5>3. SubSeq(t, 1, n) = SubSeq(args, 1, n) BY <3>1, <5>1, <5>2, SubSeqOfConcat1
          <5> QED BY <5>3, SubSeqFull
        <4> QED BY <4>1, <4>2
      <3>5. (n + 1) - 1 = n BY <1>1
      <3> QED BY <3>2, <3>3, <3>4, <3>5, ConcatEmptySeq
    <2>3. ~(first > n + 1) BY <1>1, <2>1
    <2> QED BY <1>3, <1>5, <1>6, <1>7, <2>1, <2>2, <2>3 DEF c
  <1>8. CASE x # c
    <2>1. first > n + 1
      <3> HIDE DEF n, t
      <3>1. \A i \in 1..n + 1 : i \in 1..n \/ i = n + 1 BY <1>1
      <3>2. \A i \in 1..n + 1 : t[i] # c BY <1>1, <1>2, <1>8, <3>1
      <3> QED BY <1>1, <1>4, <3>2
    <2> QED BY <1>3, <1>5, <1>6, <1>8, <2>1 DEF c
  <1> QED BY <1>7, <1>8

(* Behind a terminator every argument counts, another terminator too.      *)
LEMMA ArgumentsGoOn ==
    ASSUME NEW W, NEW args \in Seq(W), NEW x \in W, Ends(args)
    PROVE  /\ Without(args) \in Seq(W)
           /\ Ends(Append(args, x))
           /\ Without(Append(args, x)) = Append(Without(args), x)
  <1> DEFINE n == Len(args)
             t == Append(args, x)
             c == kSwitchTerminator
             a == FirstOf(args, {c})
             b == FirstOf(t, {c})
  <1>1. n \in Nat /\ t \in Seq(W) /\ Len(t) = n + 1 /\ t[n + 1] = x
        /\ \A i \in 1..n : t[i] = args[i]
    BY LenProperties, AppendProperties
  <1>2. PICK j \in 1..n : args[j] = c BY DEF Ends
  <1>3. a \in 1..n + 1 /\ (\A i \in 1..n : i < a => args[i] # c) /\ (a <= n => args[a] = c)
    <2> HIDE DEF c
    <2>1. /\ a \in 1..Len(args) + 1
          /\ \A i \in 1..Len(args) : i < a => args[i] \notin {c}
          /\ a <= Len(args) => args[a] \in {c}
      BY <1>1, FirstOfIs
    <2> HIDE DEF a
    <2> QED BY <1>1, <2>1
  <1>4. b \in 1..n + 2 /\ (\A i \in 1..n + 1 : i < b => t[i] # c)
        /\ (b <= n + 1 => t[b] = c)
    <2> HIDE DEF c, t
    <2>1. /\ b \in 1..Len(t) + 1
          /\ \A i \in 1..Len(t) : i < b => t[i] \notin {c}
          /\ b <= Len(t) => t[b] \in {c}
      BY <1>1, FirstOfIs
    <2> HIDE DEF b
    <2> QED BY <1>1, <2>1
  <1>5. Without(args) = IF a > n THEN args ELSE RemoveAt(args, a) BY DEF Without
  <1>6. Without(t) = IF b > n + 1 THEN t ELSE RemoveAt(t, b) BY <1>1 DEF Without
  <1>7. Ends(t)
    <2> HIDE DEF t, n
    <2>1. j \in 1..n + 1 /\ t[j] = c BY <1>1, <1>2
    <2> QED BY <1>1, <2>1 DEF Ends
  <1> HIDE DEF a, b, c, t, n
  <1>8. a \in 1..n /\ args[a] = c
    <2>1. ~(j < a) BY <1>2, <1>3
    <2> QED BY <1>1, <1>2, <1>3, <2>1
  <1>9. b = a
    <2>1. a \in 1..n + 1 /\ t[a] = c BY <1>1, <1>8
    <2>2. ~(a < b) BY <1>4, <2>1
    <2>3. b \in 1..n /\ b <= a /\ b <= n + 1 BY <1>1, <1>4, <1>8, <2>2
    <2>4. args[b] = c BY <1>1, <1>4, <2>3
    <2>5. ~(b < a) BY <1>3, <2>3, <2>4
    <2> QED BY <1>1, <1>8, <2>3, <2>5
  <1> DEFINE before == SubSeq(args, 1, a - 1)
             behind == SubSeq(args, a + 1, n)
             one == <<x>>
  <1>10. RemoveAt(args, a) = before \o behind BY DEF RemoveAt, n
  <1>11. RemoveAt(t, a) = SubSeq(t, 1, a - 1) \o SubSeq(t, a + 1, n + 1)
    BY <1>1 DEF RemoveAt
  <1>12. \A i \in 1..n : args[i] \in W BY ElementOfSeq DEF n
  <1>13. before \in Seq(W) /\ behind \in Seq(W) /\ one \in Seq(W)
    <2>1. /\ 1 \in Int /\ a - 1 \in Int /\ a + 1 \in Int /\ n \in Int
          /\ (\A i \in 1..a - 1 : args[i] \in W) /\ \A i \in a + 1..n : args[i] \in W
      BY <1>1, <1>8, <1>12
    <2> QED BY <2>1, SubSeqProperties
  <1>14. args \in Seq(W) /\ n = Len(args) /\ t = args \o one /\ a \in 1..n
    BY <1>8, AppendIsConcat DEF t, n
  <1>15. SubSeq(t, 1, a - 1) = before
    <2>1. CASE a = 1
      <3>1. a - 1 < 1 /\ 1 \in Int /\ a - 1 \in Int BY <2>1
      <3> QED BY <3>1, SubSeqEmpty
    <2>2. CASE a # 1
      <3>1. 1 \in 1..n /\ a - 1 \in 1..n BY <1>1, <1>8, <2>2
      <3> HIDE DEF one
      <3> QED BY <1>13, <1>14, <3>1, SubSeqOfConcat1
    <2> QED BY <2>1, <2>2
  <1>16. SubSeq(t, a + 1, n + 1) = behind \o one
    <2>1. a + 1 \in 1..Len(t) + 1 /\ n \in (a + 1) - 1..Len(t) /\ n + 1 \in n..Len(t)
      BY <1>1, <1>8
    <2>2. SubSeq(t, a + 1, n) \o SubSeq(t, n + 1, n + 1) = SubSeq(t, a + 1, n + 1)
      BY <1>1, <2>1, ConcatAdjacentSubSeq
    <2>3. SubSeq(t, a + 1, n) = behind
      <3>1. CASE a = n
        <4>1. n < a + 1 /\ n \in Int /\ a + 1 \in Int BY <1>1, <3>1
        <4> QED BY <4>1, SubSeqEmpty
      <3>2. CASE a # n
        <4>1. a + 1 \in 1..n /\ n \in 1..n BY <1>1, <1>8, <3>2
        <4> HIDE DEF one
        <4> QED BY <1>13, <1>14, <4>1, SubSeqOfConcat1
      <3> QED BY <3>1, <3>2
    <2>4. SubSeq(t, n + 1, n + 1) = one
      <3>1. Len(one) = 1 /\ n + 1 \in Len(args) + 1..Len(args) + Len(one)
            /\ (n + 1) - Len(args) = 1
        BY <1>1, <1>14
      <3>2. SubSeq(t, n + 1, n + 1) = SubSeq(one, 1, 1)
        <4> HIDE DEF one
        <4> DEFINE m == n + 1
        <4>1. m \in Len(args) + 1..Len(args) + Len(one) /\ m - Len(args) = 1 BY <3>1
        <4> HIDE DEF m
        <4>2. SubSeq(args \o one, m, m) = SubSeq(one, m - Len(args), m - Len(args))
          BY <1>13, <4>1, SubSeqOfConcat2
        <4> QED BY <1>14, <4>1, <4>2 DEF m
      <3>3. SubSeq(one, 1, Len(one)) = one
        <4> HIDE DEF one
        <4> QED BY <1>13, SubSeqFull
      <3> QED BY <3>1, <3>2, <3>3
    <2> QED BY <2>2, <2>3, <2>4
  <1>17. Append(before \o behind, x) = before \o (behind \o one)
    <2> HIDE DEF before, behind
    <2>1. before \o behind \in Seq(W) BY <1>13, ConcatProperties
    <2>2. Append(before \o behind, x) = (before \o behind) \o one BY <2>1, AppendIsConcat
    <2> HIDE DEF one
    <2> QED BY SMTT(30), <1>13, <2>2, ConcatAssociative
  <1>18. Without(args) = before \o behind BY <1>1, <1>5, <1>8, <1>10
  <1>19. Without(t) = before \o (behind \o one)
    <2>1. ~(b > n + 1) BY <1>1, <1>8, <1>9
    <2>2. Without(t) = RemoveAt(t, a) BY <1>6, <1>9, <2>1
    <2> HIDE DEF before, behind, one
    <2> QED BY <1>11, <1>15, <1>16, <2>2
  <1>20. Without(args) \in Seq(W)
    <2> HIDE DEF before, behind
    <2> QED BY <1>13, <1>18, ConcatProperties
  <1> QED BY <1>7, <1>17, <1>18, <1>19, <1>20 DEF t

(* The values of the switches at the positions S: each name has the last.  *)
ValuesAre(f, words, S) ==
    LET Of(key) == {i \in S : SwitchKey(words[i]) = key}
    IN  /\ DOMAIN f = {SwitchKey(words[i]) : i \in S}
        /\ \A key \in DOMAIN f : f[key] = SwitchValue(words[Max(Of(key))])

(* A later value replaces an earlier one.                                  *)
LEMMA ValueAdded ==
    ASSUME NEW words, NEW k \in Nat, NEW S, S \subseteq 1..k, NEW f, ValuesAre(f, words, S),
           NEW w, w = words[k + 1]
    PROVE  ValuesAre(SetSwitch(f, SwitchKey(w), SwitchValue(w)), words, S \cup {k + 1})
  <1> DEFINE g == SetSwitch(f, SwitchKey(w), SwitchValue(w))
             T == S \cup {k + 1}
             Of(D, key) == {i \in D : SwitchKey(words[i]) = key}
             name == SwitchKey(w)
  <1>1. /\ DOMAIN f = {SwitchKey(words[i]) : i \in S}
        /\ \A key \in DOMAIN f : f[key] = SwitchValue(words[Max(Of(S, key))])
    BY DEF ValuesAre
  <1>2. DOMAIN g = DOMAIN f \cup {name} /\ g[name] = SwitchValue(w)
        /\ \A key \in DOMAIN f : key # name => g[key] = f[key]
    BY DEF SetSwitch
  <1> HIDE DEF g, name
  <1>3. DOMAIN g = {SwitchKey(words[i]) : i \in T} BY <1>1, <1>2 DEF name
  <1>4. ASSUME NEW key \in DOMAIN g PROVE g[key] = SwitchValue(words[Max(Of(T, key))])
    <2>1. CASE key = name
      <3>1. k + 1 \in Of(T, key) BY <2>1 DEF name
      <3>2. T \subseteq Int /\ \A i \in T : i <= k + 1 OBVIOUS
      <3>3. Of(T, key) \subseteq T OBVIOUS
      <3> HIDE DEF Of, T
      <3>4. Max(Of(T, key)) = k + 1 BY <3>1, <3>2, <3>3, MaxIs
      <3> QED BY <1>2, <2>1, <3>4
    <2>2. CASE key # name
      <3>1. Of(T, key) = Of(S, key) BY <2>2 DEF name
      <3>2. key \in DOMAIN f BY <1>2, <2>2
      <3> HIDE DEF Of
      <3> QED BY <1>1, <1>2, <2>2, <3>1, <3>2
    <2> QED BY <2>1, <2>2
  <1> QED BY <1>3, <1>4 DEF ValuesAre, g

(* A line has these fields and no others.                                  *)
Fields(l) == l = [argv |-> l.argv, begin |-> l.begin, switches |-> l.switches,
                  parsing |-> l.parsing]

(* What AppendArgument does with a word that is trimmed.                   *)
LEMMA AppendedIs ==
    ASSUME NEW l, Fields(l), NEW w, TrimString(w) = w, NEW next, next = AppendArgument(l, w)
    PROVE  /\ Fields(next)
           /\ next.parsing <=> l.parsing /\ w # kSwitchTerminator
           /\ IF (l.parsing /\ w # kSwitchTerminator) /\ IsSwitch(w)
              THEN /\ next.argv = InsertAt(l.argv, l.begin, CombinedSwitch(w))
                   /\ next.begin = l.begin + 1
                   /\ next.switches = SetSwitch(l.switches, SwitchKey(w), SwitchValue(w))
              ELSE /\ next.argv = Append(l.argv, w) /\ next.begin = l.begin
                   /\ next.switches = l.switches
  <1> DEFINE p == l.parsing /\ w # kSwitchTerminator
             read == [l EXCEPT !.parsing = p]
  <1>1. read = [argv |-> l.argv, begin |-> l.begin, switches |-> l.switches, parsing |-> p]
    BY DEF Fields
  <1>2. next = IF p /\ IsSwitch(w) THEN AppendSwitch(read, w) ELSE AppendArg(read, w)
    BY DEF AppendArgument
  <1> HIDE DEF read, p
  <1>3. read.argv = l.argv /\ read.begin = l.begin /\ read.switches = l.switches
    BY <1>1
  <1>4. CASE p /\ IsSwitch(w)
    <2> DEFINE x == InsertAt(l.argv, l.begin, CombinedSwitch(w))
               y == l.begin + 1
               z == SetSwitch(l.switches, SwitchKey(w), SwitchValue(w))
    <2>1. next = [read EXCEPT !.argv = x, !.begin = y, !.switches = z]
      BY <1>2, <1>3, <1>4 DEF AppendSwitch
    <2> HIDE DEF x, y, z
    <2>2. next = [argv |-> x, begin |-> y, switches |-> z, parsing |-> p] BY <1>1, <2>1
    <2>3. /\ next.argv = x /\ next.begin = y /\ next.switches = z /\ next.parsing = p
          /\ Fields(next)
      BY <2>2 DEF Fields
    <2>4. (l.parsing /\ w # kSwitchTerminator) /\ IsSwitch(w) BY <1>4 DEF p
    <2>5. next.parsing <=> l.parsing /\ w # kSwitchTerminator BY <2>3 DEF p
    <2> QED BY <2>3, <2>4, <2>5 DEF x, y, z
  <1>5. CASE ~(p /\ IsSwitch(w))
    <2> DEFINE x == Append(l.argv, w)
    <2>1. next = [read EXCEPT !.argv = x] BY <1>2, <1>3, <1>5 DEF AppendArg
    <2> HIDE DEF x
    <2>2. next = [argv |-> x, begin |-> l.begin, switches |-> l.switches, parsing |-> p]
      BY <1>1, <2>1
    <2>3. /\ next.argv = x /\ next.begin = l.begin /\ next.switches = l.switches
          /\ next.parsing = p /\ Fields(next)
      BY <2>2 DEF Fields
    <2>4. ~((l.parsing /\ w # kSwitchTerminator) /\ IsSwitch(w)) BY <1>5 DEF p
    <2>5. next.parsing <=> l.parsing /\ w # kSwitchTerminator BY <2>3 DEF p
    <2> QED BY <2>3, <2>4, <2>5 DEF x
  <1> QED BY <1>4, <1>5

(* The words before the terminator that are switches, the terminator       *)
(* apart, and the words that are neither, of the first k.                  *)
Terminator(words) == FirstOf(words, {kSwitchTerminator})

SwitchesAt(words, k) == {i \in 1..k : i < Terminator(words) /\ IsSwitch(words[i])}

OthersAt(words, k) == (1..k) \ (SwitchesAt(words, k) \cup {Terminator(words)})

AllWords(words) == {words[i] : i \in 1..Len(words)}
                     \cup {CombinedSwitch(words[i]) : i \in 1..Len(words)} \cup {<<>>}

(* The positions after one word more.                                      *)
LEMMA PositionsGrow ==
    ASSUME NEW words, Len(words) \in Nat, NEW k \in Nat, k + 1 <= Len(words)
    PROVE  LET stop == Terminator(words)
               S == SwitchesAt(words, k)
               T == SwitchesAt(words, k + 1)
               O == OthersAt(words, k)
               P == OthersAt(words, k + 1)
           IN  /\ stop \in 1..Len(words) + 1 /\ S \subseteq 1..k /\ O \subseteq 1..k
               /\ words[k + 1] = kSwitchTerminator => stop <= k + 1
               /\ stop = k + 1 => words[k + 1] = kSwitchTerminator
               /\ IF k + 1 < stop /\ IsSwitch(words[k + 1]) THEN T = S \cup {k + 1} /\ P = O
                  ELSE T = S /\ P = IF k + 1 = stop THEN O ELSE O \cup {k + 1}
  <1> DEFINE stop == Terminator(words)
             c == kSwitchTerminator
             S == SwitchesAt(words, k)
             T == SwitchesAt(words, k + 1)
             n == Len(words)
  <1>1. stop \in 1..n + 1 /\ (\A i \in 1..n : i < stop => words[i] # c)
        /\ (stop <= n => words[stop] = c)
    <2> HIDE DEF c, n
    <2>1. /\ FirstOf(words, {c}) \in 1..n + 1
          /\ \A i \in 1..n : i < FirstOf(words, {c}) => words[i] \notin {c}
          /\ FirstOf(words, {c}) <= n => words[FirstOf(words, {c})] \in {c}
      BY FirstOfIs DEF n
    <2>2. stop = FirstOf(words, {c}) BY DEF Terminator, c
    <2> HIDE DEF stop
    <2> QED BY <2>1, <2>2
  <1>2. k + 1 \in 1..n /\ \A i \in 1..k + 1 : i \in 1..k \/ i = k + 1 OBVIOUS
  <1>3. 1..k + 1 = (1..k) \cup {k + 1} /\ k + 1 \notin 1..k OBVIOUS
  <1>4. S = {i \in 1..k : i < stop /\ IsSwitch(words[i])}
        /\ T = {i \in 1..k + 1 : i < stop /\ IsSwitch(words[i])}
    BY DEF SwitchesAt
  <1>5. OthersAt(words, k) = (1..k) \ (S \cup {stop})
        /\ OthersAt(words, k + 1) = (1..k + 1) \ (T \cup {stop})
    BY DEF OthersAt
  <1> HIDE DEF S, T, stop, c
  <1>6. IF k + 1 < stop /\ IsSwitch(words[k + 1]) THEN T = S \cup {k + 1} ELSE T = S
    <2> HIDE DEF n
    <2> QED BY <1>3, <1>4
  <1>7. S \subseteq 1..k /\ OthersAt(words, k) \subseteq 1..k BY <1>4, <1>5
  <1>8. IF k + 1 < stop /\ IsSwitch(words[k + 1])
        THEN OthersAt(words, k + 1) = OthersAt(words, k)
        ELSE OthersAt(words, k + 1)
               = IF k + 1 = stop THEN OthersAt(words, k) ELSE OthersAt(words, k) \cup {k + 1}
    <2> HIDE DEF n
    <2>1. CASE k + 1 < stop /\ IsSwitch(words[k + 1])
      BY <1>3, <1>5, <1>6, <1>7, <2>1
    <2>2. CASE ~(k + 1 < stop /\ IsSwitch(words[k + 1]))
      <3>1. T = S BY <1>6, <2>2
      <3> QED BY <1>3, <1>5, <1>7, <2>2, <3>1
    <2> QED BY <2>1, <2>2
  <1>9. words[k + 1] = c => stop <= k + 1 BY <1>1, <1>2
  <1>10. stop = k + 1 => words[k + 1] = c BY <1>1, <1>2
  <1> QED BY <1>1, <1>6, <1>7, <1>8, <1>9, <1>10 DEF S, T, stop, c, n

(* The loop over all words, as ParseFromString runs it.                    *)
LineSteps(r, words) ==
    /\ r[0] = NoProgram
    /\ \A k \in 1..Len(words) : r[k] = AppendArgument(r[k - 1], words[k])
    /\ r[Len(words)] = FoldLeft(AppendArgument, NoProgram, words)

(* Lines over the words of a line, with begin_args_ inside argv_.          *)
LinesOver(words) ==
    LET K == {SwitchKey(words[i]) : i \in 1..Len(words)}
        V == {SwitchValue(words[i]) : i \in 1..Len(words)}
    IN  {l \in [argv : Seq(AllWords(words)), begin : Nat \ {0},
                switches : UNION {[D -> V] : D \in SUBSET K}, parsing : BOOLEAN] :
           l.begin <= Len(l.argv) + 1}

(* A turn leads from such a line to such a line.                           *)
LEMMA LinesClosed ==
    ASSUME NEW words, WordsAre(words), NEW l \in LinesOver(words), NEW i \in 1..Len(words)
    PROVE  AppendArgument(l, words[i]) \in LinesOver(words)
  <1> DEFINE W == AllWords(words)
             K == {SwitchKey(words[j]) : j \in 1..Len(words)}
             V == {SwitchValue(words[j]) : j \in 1..Len(words)}
             F == UNION {[D -> V] : D \in SUBSET K}
             w == words[i]
             next == AppendArgument(l, w)
  <1>1. w \in W /\ CombinedSwitch(w) \in W /\ SwitchKey(w) \in K /\ SwitchValue(w) \in V
    BY DEF AllWords
  <1>2. l \in [argv : Seq(W), begin : Nat \ {0}, switches : F, parsing : BOOLEAN]
        /\ l.begin <= Len(l.argv) + 1
    BY DEF LinesOver
  <1>3. TrimString(w) = w BY DEF WordsAre
  <1> HIDE DEF W, K, V, F
  <1>4. /\ l.argv \in Seq(W) /\ l.begin \in Nat \ {0} /\ l.switches \in F
        /\ Fields(l)
    BY <1>2 DEF Fields
  <1> HIDE DEF w
  <1>5. /\ Fields(next)
        /\ next.parsing <=> l.parsing /\ w # kSwitchTerminator
        /\ \/ /\ next.argv = InsertAt(l.argv, l.begin, CombinedSwitch(w))
              /\ next.begin = l.begin + 1
              /\ next.switches = SetSwitch(l.switches, SwitchKey(w), SwitchValue(w))
           \/ /\ next.argv = Append(l.argv, w) /\ next.begin = l.begin
              /\ next.switches = l.switches
    <2> HIDE DEF next
    <2>1. next = AppendArgument(l, w) BY DEF next
    <2> QED BY <1>3, <1>4, <2>1, AppendedIs
  <1>6. next.parsing \in BOOLEAN
    <2>1. next.parsing = (l.parsing /\ TrimString(w) # kSwitchTerminator)
      BY <1>2 DEF AppendArgument, AppendSwitch, AppendArg
    <2> QED BY <2>1
  <1> HIDE DEF next
  <1> SUFFICES /\ next.argv \in Seq(W) /\ next.begin \in Nat \ {0} /\ next.switches \in F
               /\ next.begin <= Len(next.argv) + 1
    <2>1. next \in [argv : Seq(W), begin : Nat \ {0}, switches : F, parsing : BOOLEAN]
      BY <1>5, <1>6 DEF Fields
    <2>2. next \in LinesOver(words) BY <2>1 DEF LinesOver, W, K, V, F
    <2> QED BY <2>2 DEF next, w
  <1>7. Len(l.argv) \in Nat BY <1>4, LenProperties
  <1>8. CASE /\ next.argv = InsertAt(l.argv, l.begin, CombinedSwitch(w))
             /\ next.begin = l.begin + 1
             /\ next.switches = SetSwitch(l.switches, SwitchKey(w), SwitchValue(w))
    <2> DEFINE s == l.argv
               b == l.begin
               x == CombinedSwitch(w)
               u == SubSeq(s, 1, b - 1)
               v == SubSeq(s, b, Len(s))
               one == <<x>>
               n == Len(s)
    <2>1. s \in Seq(W) /\ b \in 1..n + 1 /\ n \in Nat /\ x \in W BY <1>1, <1>2, <1>4, <1>7
    <2>2. next.argv = (u \o one) \o v BY <1>8 DEF InsertAt
    <2> HIDE DEF s, b, x, n
    <2>3. \A j \in 1..n : s[j] \in W BY <2>1, ElementOfSeq DEF n
    <2>4. u \in Seq(W) /\ Len(u) = b - 1
      <3>1. /\ 1 \in Int /\ b - 1 \in Int /\ (\A j \in 1..b - 1 : s[j] \in W)
            /\ (IF 1 <= b - 1 THEN (b - 1) - 1 + 1 ELSE 0) = b - 1
        BY <2>1, <2>3
      <3> QED BY <3>1, SubSeqProperties
    <2>5. v \in Seq(W) /\ Len(v) = n - b + 1
      <3>1. /\ b \in Int /\ n \in Int /\ (\A j \in b..n : s[j] \in W)
            /\ (IF b <= n THEN n - b + 1 ELSE 0) = n - b + 1
        BY <2>1, <2>3
      <3>2. v = SubSeq(s, b, n) BY DEF n
      <3> QED BY <3>1, <3>2, SubSeqProperties
    <2>6. one \in Seq(W) /\ Len(one) = 1 BY <2>1
    <2> HIDE DEF u, v, one
    <2>7. u \o one \in Seq(W) /\ Len(u \o one) = Len(u) + Len(one) BY <2>4, <2>6, ConcatProperties
    <2>8. (u \o one) \o v \in Seq(W) /\ Len((u \o one) \o v) = Len(u \o one) + Len(v)
      BY <2>5, <2>7, ConcatProperties
    <2>9. next.argv \in Seq(W) /\ Len(next.argv) = n + 1
      BY <2>1, <2>2, <2>4, <2>5, <2>6, <2>7, <2>8
    <2>10. next.begin \in Nat \ {0} /\ next.begin <= Len(next.argv) + 1
      BY <1>8, <2>1, <2>9 DEF b
    <2>11. next.switches \in F
      <3> DEFINE h == l.switches
                 g == SetSwitch(h, SwitchKey(w), SwitchValue(w))
      <3>1. PICK D \in SUBSET K : h \in [D -> V] BY <1>4 DEF F
      <3>2. g = [key \in D \cup {SwitchKey(w)} |->
                   IF key = SwitchKey(w) THEN SwitchValue(w) ELSE h[key]]
        BY <3>1 DEF SetSwitch
      <3>3. g \in [D \cup {SwitchKey(w)} -> V] BY <1>1, <3>1, <3>2
      <3>4. D \cup {SwitchKey(w)} \in SUBSET K BY <1>1
      <3>5. next.switches = g BY <1>8
      <3> HIDE DEF g, h
      <3> QED BY <3>3, <3>4, <3>5 DEF F
    <2> QED BY <2>9, <2>10, <2>11
  <1>9. CASE /\ next.argv = Append(l.argv, w) /\ next.begin = l.begin
             /\ next.switches = l.switches
    <2>1. next.argv \in Seq(W) /\ Len(next.argv) = Len(l.argv) + 1
      BY <1>1, <1>4, <1>9, AppendProperties
    <2> QED BY <1>2, <1>4, <1>7, <1>9, <2>1
  <1> QED BY <1>5, <1>8, <1>9

(* That loop, run to its end, is the fold of InitFromArgv.                 *)
LEMMA LineLoop ==
    ASSUME NEW words, WordsAre(words)
    PROVE  \E r : LineSteps(r, words)
  <1> DEFINE n == Len(words)
             E == {words[k] : k \in 1..n}
             T == LinesOver(words)
             b == NoProgram
             f == [x \in T \X E |-> AppendArgument(x[1], x[2])]
             Is(g) == g = [S \in SUBSET (1..n) |->
                             IF S = {} THEN b
                             ELSE AppendArgument(g[S \ {Max(S)}], words[Max(S)])]
             h == CHOOSE g : Is(g)
  <1>1. n \in Nat /\ (\A i \in 1..n : words[i] \in E) /\ DOMAIN words = 1..n
    BY DEF WordsAre
  <1>2. f \in [T \X E -> T]
    <2>1. ASSUME NEW x \in T, NEW part \in E PROVE AppendArgument(x, part) \in T
      <3>1. PICK i \in 1..Len(words) : part = words[i] BY <2>1
      <3> QED BY <2>1, <3>1, LinesClosed
    <2> HIDE DEF T, E
    <2> QED BY <2>1
  <1>3. \A a \in T, e \in E : f[<<a, e>>] = AppendArgument(a, e)
    <2> HIDE DEF T, E
    <2> QED OBVIOUS
  <1>4. b \in T
    <2> DEFINE W == AllWords(words)
               K == {SwitchKey(words[j]) : j \in 1..Len(words)}
               V == {SwitchValue(words[j]) : j \in 1..Len(words)}
               F == UNION {[D -> V] : D \in SUBSET K}
               e == <<>>
    <2>1. e \in W BY DEF AllWords
    <2> HIDE DEF W, K, V
    <2>2. e \in F
      <3>1. e \in Seq(V) /\ Len(e) = 0 /\ 1..0 = {} BY EmptySeq
      <3> HIDE DEF e
      <3>2. e \in [{} -> V] BY <3>1, LenProperties
      <3> QED BY <3>2
    <2>3. b = [argv |-> <<e>>, begin |-> 2, switches |-> e, parsing |-> TRUE]
      BY DEF NoProgram
    <2> HIDE DEF F, e
    <2>4. <<e>> \in Seq(W) /\ Len(<<e>>) = 1 BY <2>1
    <2>5. b \in [argv : Seq(W), begin : Nat \ {0}, switches : F, parsing : BOOLEAN]
          /\ b.begin <= Len(b.argv) + 1
      BY <2>2, <2>3, <2>4
    <2> QED BY <2>5 DEF LinesOver, W, K, V, F
  <1>5. FoldLeft(AppendArgument, NoProgram, words) = h[1..n]
    <2> HIDE DEF n
    <2> QED BY <1>1 DEF FoldLeft, MapThenFoldSet
  <1> HIDE DEF f, n, E, T, b
  <1>6. \A S \in SUBSET (1..n) : S # {} => words[Max(S)] \in E
    BY <1>1, MaxOfInterval
  <1>7. PICK g : Folds(g, f, b, words, n, T)
    BY <1>1, <1>2, <1>4, FoldExists
  <1>8. Is(g)
    BY <1>3, <1>6, <1>7 DEF Folds
  <1>9. Is(h)
    <2> HIDE DEF Is
    <2> QED BY <1>8
  <1> HIDE DEF h
  <1>10. FoldsFrom(h, f, b, words, n, T)
    BY <1>3, <1>6, <1>9 DEF FoldsFrom
  <1>11. PICK r : Steps(r, f, b, words, n, T, h[1..n])
    BY <1>1, <1>2, <1>4, <1>10, FoldSteps
  <1>12. ASSUME NEW k \in 1..n PROVE r[k] = AppendArgument(r[k - 1], words[k])
    <2>1. k - 1 \in 0..n BY <1>1
    <2>2. r[k - 1] \in T /\ words[k] \in E BY <1>1, <1>11, <2>1 DEF Steps
    <2> QED BY <1>3, <1>11, <2>2 DEF Steps
  <1>13. LineSteps(r, words)
    BY <1>5, <1>11, <1>12 DEF n, b, Steps, LineSteps
  <1> QED BY <1>13

(* The first of the words that are left.                                   *)
LEMMA FirstLeft ==
    ASSUME NEW words, WordsAre(words), NEW k \in 0..Len(words), NEW left,
           left = From(words, k + 1)
    PROVE  /\ Len(left) = Len(words) - k
           /\ left # <<>> => /\ k < Len(words) /\ Head(left) = words[k + 1]
                             /\ Tail(left) = From(words, k + 2)
  <1> DEFINE n == Len(words)
             W == {words[i] : i \in 1..n}
  <1>1. n \in Nat /\ words \in Seq(W) /\ k \in 0..n BY DEF WordsAre
  <1>2. \A i \in 1..n : words[i] \in W OBVIOUS
  <1>3. left = SubSeq(words, k + 1, n) BY DEF From
  <1> HIDE DEF n, W
  <1>4. left \in Seq(W) /\ Len(left) = n - k /\ \A i \in 1..n - k : left[i] = words[k + i]
    <2>1. /\ k + 1 \in Int /\ n \in Int /\ (\A i \in k + 1..n : words[i] \in W)
          /\ n - (k + 1) + 1 = n - k /\ (IF k + 1 <= n THEN n - k ELSE 0) = n - k
          /\ \A i \in 1..n - k : k + 1 + i - 1 = k + i
      BY <1>1, <1>2
    <2>2. /\ left \in Seq(W)
          /\ Len(left) = IF k + 1 <= n THEN n - (k + 1) + 1 ELSE 0
          /\ \A i \in 1..n - (k + 1) + 1 : left[i] = words[k + 1 + i - 1]
      <3> DEFINE b == k + 1
      <3>1. b \in Int /\ n \in Int /\ \A i \in b..n : words[i] \in W BY <2>1
      <3>2. left = SubSeq(words, b, n) BY <1>3
      <3> HIDE DEF b
      <3>3. /\ SubSeq(words, b, n) \in Seq(W)
            /\ Len(SubSeq(words, b, n)) = IF b <= n THEN n - b + 1 ELSE 0
            /\ \A i \in 1..n - b + 1 : SubSeq(words, b, n)[i] = words[b + i - 1]
        BY <3>1, SubSeqProperties
      <3> QED BY <3>2, <3>3 DEF b
    <2> QED BY <2>1, <2>2
  <1>5. ASSUME left # <<>>
        PROVE  /\ k < n /\ Head(left) = words[k + 1]
               /\ Tail(left) = From(words, k + 2)
    <2>1. Len(left) # 0 BY <1>4, <1>5, EmptySeq
    <2>2. k < n /\ 1 \in 1..n - k BY <1>1, <1>4, <2>1
    <2>3. Head(left) = left[1] BY <1>4, <1>5
    <2>4. Tail(left) = SubSeq(left, 2, n - k) BY <1>4, <1>5, TailIsSubSeq
    <2>5. SubSeq(left, 2, n - k) = SubSeq(words, k + 2, n)
      <3> DEFINE t == SubSeq(left, 2, n - k)
                 u == SubSeq(words, k + 2, n)
                 l == n - k - 1
      <3>1. t \in Seq(W) /\ Len(t) = l /\ \A i \in 1..l : t[i] = left[i + 1]
        <4>1. /\ 2 \in Int /\ n - k \in Int
              /\ (\A i \in 2..n - k : left[i] \in W)
              /\ (n - k) - 2 + 1 = l /\ (IF 2 <= n - k THEN l ELSE 0) = l
              /\ \A i \in 1..l : 2 + i - 1 = i + 1
          <5>1. \A i \in 1..n - k : left[i] \in W BY <1>4, ElementOfSeq
          <5> QED BY <1>1, <2>2, <5>1
        <4>2. /\ t \in Seq(W)
              /\ Len(t) = IF 2 <= n - k THEN (n - k) - 2 + 1 ELSE 0
              /\ \A i \in 1..(n - k) - 2 + 1 : t[i] = left[2 + i - 1]
          BY <4>1, SubSeqProperties
        <4> HIDE DEF t, l
        <4> QED BY <4>1, <4>2
      <3>2. u \in Seq(W) /\ Len(u) = l /\ \A i \in 1..l : u[i] = words[k + 1 + i]
        <4>1. /\ k + 2 \in Int /\ n \in Int
              /\ (\A i \in k + 2..n : words[i] \in W)
              /\ n - (k + 2) + 1 = l /\ (IF k + 2 <= n THEN l ELSE 0) = l
              /\ \A i \in 1..l : k + 2 + i - 1 = k + 1 + i
          BY <1>1, <1>2, <2>2
        <4>2. /\ u \in Seq(W)
              /\ Len(u) = IF k + 2 <= n THEN n - (k + 2) + 1 ELSE 0
              /\ \A i \in 1..n - (k + 2) + 1 : u[i] = words[k + 2 + i - 1]
          BY <4>1, SubSeqProperties
        <4> HIDE DEF u, l
        <4> QED BY <4>1, <4>2
      <3>3. \A i \in 1..l : left[i + 1] = words[k + 1 + i]
        <4> TAKE i \in 1..l
        <4>1. i + 1 \in 1..n - k /\ k + (i + 1) = k + 1 + i BY <1>1
        <4> QED BY <1>4, <4>1
      <3> HIDE DEF t, u, l
      <3>4. \A i \in 1..Len(t) : t[i] = u[i] BY <3>1, <3>2, <3>3
      <3>5. t = u BY <3>1, <3>2, <3>4, SeqEqual
      <3> QED BY <3>5 DEF t, u
    <2> QED BY <1>4, <2>2, <2>3, <2>4, <2>5 DEF From, n
  <1> QED BY <1>4, <1>5 DEF n

(* The pieces before the last, and the last, which is being made.          *)
LEMMA FrontOfAppend ==
    ASSUME NEW T, NEW front \in Seq(T), NEW last \in T,
           NEW pieces, pieces = Append(front, last)
    PROVE  Front(pieces) = front /\ Last(pieces) = last /\ Len(pieces) = Len(front) + 1
  <1> DEFINE n == Len(front)
  <1>1. /\ pieces \in Seq(T) /\ Len(pieces) = n + 1 /\ pieces[n + 1] = last
        /\ \A i \in 1..n : pieces[i] = front[i]
    BY AppendProperties
  <1>2. n \in Nat /\ (n + 1) - 1 = n BY LenProperties
  <1>3. Last(pieces) = last BY <1>1 DEF Last
  <1>4. Front(pieces) = SubSeq(pieces, 1, n) BY <1>1, <1>2 DEF Front
  <1> DEFINE u == SubSeq(pieces, 1, n)
  <1>5. u \in Seq(T) /\ Len(u) = n /\ \A i \in 1..n : u[i] = pieces[i]
    <2>1. /\ 1 \in Int /\ n \in Int /\ (\A i \in 1..n : pieces[i] \in T)
          /\ (IF 1 <= n THEN n - 1 + 1 ELSE 0) = n /\ n - 1 + 1 = n
          /\ \A i \in 1..n : 1 + i - 1 = i
      <3>1. \A i \in 1..n : i \in 1..Len(pieces) BY <1>1, <1>2
      <3>2. \A i \in 1..n : pieces[i] \in T BY <1>1, <3>1, ElementOfSeq
      <3> QED BY <1>2, <3>2
    <2>2. /\ u \in Seq(T) /\ Len(u) = IF 1 <= n THEN n - 1 + 1 ELSE 0
          /\ \A i \in 1..n - 1 + 1 : u[i] = pieces[1 + i - 1]
      BY <2>1, SubSeqProperties
    <2> HIDE DEF u, n
    <2> QED BY <2>1, <2>2
  <1> HIDE DEF u, n
  <1>6. u = front
    <2>1. \A i \in 1..n : u[i] = front[i] BY <1>1, <1>5
    <2>2. Len(u) = Len(front) BY <1>5 DEF n
    <2> QED BY <1>5, <2>1, <2>2, SeqEqual DEF n
  <1> QED BY <1>1, <1>3, <1>4, <1>6 DEF u, n

(* A turn of the splitting loop, told by the two.                          *)
LastMoves(next, pieces, front, last, c, ch) ==
    /\ ch = c => next = Append(pieces, <<>>)
    /\ ch # c => next = Append(front, Append(last, ch))

LEMMA PieceStepOn ==
    ASSUME NEW T, NEW c, NEW ch, NEW front \in Seq(T), NEW last \in T,
           NEW pieces, pieces = Append(front, last),
           NEW next, next = PieceStep(c, pieces, ch)
    PROVE  LastMoves(next, pieces, front, last, c, ch)
  <1>1. Front(pieces) = front /\ Last(pieces) = last BY FrontOfAppend
  <1> QED BY <1>1 DEF PieceStep, LastMoves

(* Where c does not occur.                                                 *)
Lacks(x, c) == \A i \in 1..Len(x) : x[i] # c

LEMMA LacksAppend ==
    ASSUME NEW C, NEW x \in Seq(C), NEW ch \in C, NEW c, ch # c, Lacks(x, c)
    PROVE  Lacks(Append(x, ch), c)
  <1> DEFINE n == Len(x)
             t == Append(x, ch)
  <1>1. /\ Len(t) = n + 1 /\ t[n + 1] = ch /\ \A i \in 1..n : t[i] = x[i]
    BY AppendProperties
  <1>2. n \in Nat BY LenProperties
  <1>3. \A i \in 1..n : x[i] # c BY DEF Lacks
  <1> HIDE DEF n, t
  <1>4. \A i \in 1..n + 1 : i \in 1..n \/ i = n + 1 BY <1>2
  <1>5. \A i \in 1..Len(t) : t[i] # c BY <1>1, <1>3, <1>4
  <1> QED BY <1>5 DEF Lacks, t

(* No piece has the delimiter.                                             *)
LEMMA PiecesWithout ==
    ASSUME NEW C, NEW s \in Seq(C), NEW c, NEW parts, parts = SplitStringDontTrim(s, c)
    PROVE  parts \in Pieces(C) /\ \A k \in 1..Len(parts) : Lacks(parts[k], c)
  <1> DEFINE n == Len(s)
             T == {x \in Seq(C) : Lacks(x, c)}
             Good(p) == p \in Seq(T) /\ p # <<>>
  <1>1. n \in Nat /\ \A i \in 1..n : s[i] \in C BY LenProperties, ElementOfSeq
  <1>2. PICK r : PieceSteps(r, s, c, C) BY SplitSteps
  <1> HIDE DEF n
  <1>3. /\ r \in [0..n -> Pieces(C)] /\ r[0] = << <<>> >> /\ r[n] = parts
        /\ \A k \in 1..n : r[k] = PieceStep(c, r[k - 1], s[k])
    BY <1>2 DEF PieceSteps, n
  <1>4. <<>> \in T
    <2>1. <<>> \in Seq(C) /\ Len(<<>>) = 0 BY EmptySeq
    <2>2. Lacks(<<>>, c) BY <2>1 DEF Lacks
    <2> QED BY <2>1, <2>2
  <1>5. \A x \in T, ch \in C : ch # c => Append(x, ch) \in T
    <2> TAKE x \in T, ch \in C
    <2> HAVE ch # c
    <2>1. Append(x, ch) \in Seq(C) BY AppendProperties
    <2> QED BY <2>1, LacksAppend
  <1>6. \A x \in T : x \in Seq(C) /\ Lacks(x, c) OBVIOUS
  <1> HIDE DEF T
  <1> DEFINE S == {k \in Nat : Good(r[k])}
  <1>7. 0 \in S
    <2> DEFINE e == <<>>
    <2>1. e \in T BY <1>4
    <2> HIDE DEF e
    <2>2. <<e>> \in Seq(T) /\ Len(<<e>>) = 1 BY <2>1
    <2>3. Len(<<>>) = 0 OBVIOUS
    <2>4. Good(<<e>>) BY <2>2, <2>3
    <2>5. r[0] = <<e>> BY <1>3 DEF e
    <2> HIDE DEF Good
    <2> QED BY <2>4, <2>5
  <1>8. ASSUME NEW k \in 1..n, k - 1 \in S PROVE k \in S
    <2>1. Good(r[k - 1]) BY <1>8
    <2>2. PICK front \in Seq(T), last \in T : r[k - 1] = Append(front, last)
      BY <2>1, SequenceEmptyOrAppend
    <2>3. s[k] \in C BY <1>1
    <2> DEFINE ch == s[k]
               p == Append(front, last)
    <2>4. r[k] = IF ch = c THEN Append(p, <<>>) ELSE Append(front, Append(last, ch))
      <3> HIDE DEF ch, p
      <3>1. r[k] = PieceStep(c, p, ch) BY <1>3, <2>2 DEF ch, p
      <3>2. p = Append(front, last) BY DEF p
      <3> DEFINE next == r[k]
      <3>3. next = PieceStep(c, p, ch) BY <3>1
      <3> HIDE DEF next
      <3>4. LastMoves(next, p, front, last, c, ch) BY <3>2, <3>3, PieceStepOn
      <3> QED BY <3>4 DEF LastMoves, next
    <2> HIDE DEF ch
    <2>5. p \in Seq(T) BY AppendProperties
    <2> HIDE DEF p
    <2>6. Append(p, <<>>) \in Seq(T) /\ Append(p, <<>>) # <<>>
      BY <1>4, <2>5, AppendProperties
    <2>7. ch # c => Append(front, Append(last, ch)) \in Seq(T)
                    /\ Append(front, Append(last, ch)) # <<>>
      <3> SUFFICES ASSUME ch # c PROVE Append(front, Append(last, ch)) \in Seq(T)
                    /\ Append(front, Append(last, ch)) # <<>>
        OBVIOUS
      <3> DEFINE x == Append(last, ch)
      <3>1. x \in T BY <1>5, <2>3 DEF ch
      <3> HIDE DEF x
      <3>2. Append(front, x) \in Seq(T) /\ Append(front, x) # <<>>
        BY <3>1, AppendProperties
      <3> QED BY <3>2 DEF x
    <2>8. Good(r[k]) BY <2>4, <2>6, <2>7
    <2> HIDE DEF Good
    <2> QED BY <1>1, <2>8
  <1> HIDE DEF S
  <1>9. \A k \in 0..n : k \in S BY <1>1, <1>7, <1>8, InductionUpTo
  <1>10. n \in S BY <1>1, <1>9
  <1>11. Good(r[n]) BY <1>10 DEF S
  <1>12. parts \in Seq(T) BY <1>3, <1>11
  <1>13. \A k \in 1..Len(parts) : parts[k] \in T BY <1>12, ElementOfSeq
  <1>14. parts \in Pieces(C) BY <1>1, <1>3
  <1> QED BY <1>6, <1>13, <1>14

(* A text without the delimiter is one piece.                              *)
LEMMA SplitOne ==
    ASSUME NEW C, NEW s \in Seq(C), NEW c, Lacks(s, c)
    PROVE  SplitStringDontTrim(s, c) = <<s>>
  <1> DEFINE n == Len(s)
             e == <<>>
             parts == SplitStringDontTrim(s, c)
  <1>1. n \in Nat /\ \A i \in 1..n : s[i] \in C /\ s[i] # c
    BY LenProperties, ElementOfSeq DEF Lacks
  <1>2. PICK r : PieceSteps(r, s, c, C) BY SplitSteps
  <1> HIDE DEF n
  <1>3. /\ r[0] = <<e>> /\ r[n] = SplitStringDontTrim(s, c)
        /\ \A k \in 1..n : r[k] = PieceStep(c, r[k - 1], s[k])
    BY <1>2 DEF PieceSteps, n
  <1> DEFINE K == {k \in Nat : r[k] = Append(e, SubSeq(s, 1, k))}
  <1>4. 0 \in K
    <2>1. SubSeq(s, 1, 0) = e BY SubSeqEmpty
    <2>2. Append(<<>>, e) = <<e>>
      <3> HIDE DEF e
      <3> QED OBVIOUS
    <2>3. r[0] = Append(<<>>, e) BY <1>3, <2>2
    <2> QED BY <2>1, <2>3 DEF e
  <1>5. ASSUME NEW k \in 1..n, k - 1 \in K PROVE k \in K
    <2> DEFINE x == SubSeq(s, 1, k - 1)
               ch == s[k]
    <2>1. x \in Seq(C)
      <3>1. /\ 1 \in Int /\ k - 1 \in Int /\ \A i \in 1..k - 1 : s[i] \in C
        BY <1>1
      <3> QED BY <3>1, SubSeqProperties
    <2>2. SubSeq(s, 1, k) = Append(x, ch)
      <3>1. 1 \in 1..Len(s) /\ k \in 1..Len(s) BY <1>1 DEF n
      <3>2. SubSeq(s, 1, k) = SubSeq(s, 1, k - 1) \o <<s[k]>> BY <3>1, SubSeqRecursiveSecond
      <3> HIDE DEF x
      <3>3. Append(x, ch) = x \o <<ch>> BY <1>1, <2>1, AppendIsConcat
      <3> QED BY <3>2, <3>3 DEF x
    <2>3. r[k - 1] = Append(e, x) BY <1>5
    <2>4. ch # c /\ ch \in C BY <1>1
    <2> HIDE DEF x, ch
    <2> DEFINE T == Seq(C)
               pieces == r[k - 1]
    <2>5. r[k] = PieceStep(c, pieces, ch) BY <1>3 DEF ch
    <2>6. e \in Seq(T) /\ x \in T BY <2>1, EmptySeq
    <2> HIDE DEF e, T, pieces
    <2>7. r[k] = Append(e, Append(x, ch))
      <3>1. pieces = Append(e, x) BY <2>3 DEF pieces
      <3> DEFINE next == r[k]
      <3>2. next = PieceStep(c, pieces, ch) BY <2>5
      <3> HIDE DEF next
      <3>3. LastMoves(next, pieces, e, x, c, ch) BY <2>6, <3>1, <3>2, PieceStepOn
      <3> QED BY <2>4, <3>3 DEF next, LastMoves
    <2>8. r[k] = Append(e, SubSeq(s, 1, k)) BY <2>2, <2>7
    <2> QED BY <1>1, <2>8
  <1> HIDE DEF K
  <1>6. \A k \in 0..n : k \in K BY <1>1, <1>4, <1>5, InductionUpTo
  <1>7. n \in K BY <1>1, <1>6
  <1>8. parts = Append(e, SubSeq(s, 1, n)) BY <1>3, <1>7 DEF K
  <1>9. SubSeq(s, 1, n) = s BY SubSeqFull DEF n
  <1>10. Append(<<>>, s) = <<s>> OBVIOUS
  <1> QED BY <1>8, <1>9, <1>10 DEF e, parts

(* What is before a delimiter and what is behind it are split on their own. *)
Joined(s, c, t) == s \o <<c>> \o t

LEMMA SplitBoth ==
    ASSUME NEW C, NEW s \in Seq(C), NEW t \in Seq(C), NEW c \in C,
           NEW u, u = Joined(s, c, t)
    PROVE  SplitStringDontTrim(u, c) = SplitStringDontTrim(s, c) \o SplitStringDontTrim(t, c)
  <1> DEFINE n == Len(s)
             l == Len(t)
             one == <<c>>
             T == Seq(C)
             Q == Seq(T)
  <1>1. n \in Nat /\ l \in Nat BY LenProperties
  <1>2. one \in Seq(C) /\ Len(one) = 1 /\ one[1] = c OBVIOUS
  <1>3. u = (s \o one) \o t BY DEF Joined
  <1> HIDE DEF one
  <1>4. /\ u \in Seq(C) /\ Len(u) = n + 1 + l
        /\ (\A i \in 1..n : u[i] = s[i]) /\ u[n + 1] = c
        /\ \A i \in 1..l : u[n + 1 + i] = t[i]
    <2> DEFINE v == s \o one
    <2>1. /\ v \in Seq(C) /\ Len(v) = n + 1
          /\ \A i \in 1..n + 1 : v[i] = IF i <= n THEN s[i] ELSE one[i - n]
      <3>1. /\ v \in Seq(C) /\ Len(v) = n + Len(one)
            /\ \A i \in 1..n + Len(one) : v[i] = IF i <= n THEN s[i] ELSE one[i - n]
        BY <1>2, ConcatProperties
      <3> HIDE DEF v, n
      <3> QED BY <1>2, <3>1
    <2>2. u = v \o t BY <1>3
    <2> HIDE DEF v
    <2>3. /\ u \in Seq(C) /\ Len(u) = n + 1 + l
          /\ \A i \in 1..n + 1 + l : u[i] = IF i <= n + 1 THEN v[i] ELSE t[i - (n + 1)]
      <3> DEFINE z == v \o t
      <3>1. /\ z \in Seq(C) /\ Len(z) = Len(v) + l
            /\ \A i \in 1..Len(v) + l : z[i] = IF i <= Len(v) THEN v[i] ELSE t[i - Len(v)]
        BY ZenonT(40), <2>1, ConcatProperties
      <3>2. u = z BY <2>2
      <3> HIDE DEF z
      <3> HIDE DEF n, l
      <3> QED BY <2>1, <3>1, <3>2
    <2> HIDE DEF n, l
    <2>4. \A i \in 1..n : u[i] = s[i]
      <3> TAKE i \in 1..n
      <3>1. i \in 1..n + 1 /\ i \in 1..n + 1 + l /\ i <= n + 1 /\ i <= n BY <1>1
      <3> QED BY <2>1, <2>3, <3>1
    <2>5. u[n + 1] = c
      <3>1. /\ n + 1 \in 1..n + 1 /\ n + 1 \in 1..n + 1 + l /\ n + 1 <= n + 1
            /\ ~(n + 1 <= n) /\ (n + 1) - n = 1
        BY <1>1
      <3> QED BY <1>2, <2>1, <2>3, <3>1
    <2>6. \A i \in 1..l : u[n + 1 + i] = t[i]
      <3> TAKE i \in 1..l
      <3>1. /\ n + 1 + i \in 1..n + 1 + l /\ ~(n + 1 + i <= n + 1)
            /\ (n + 1 + i) - (n + 1) = i
        BY <1>1
      <3> QED BY <2>3, <3>1
    <2> QED BY <2>3, <2>4, <2>5, <2>6
  <1>5. PICK r : PieceSteps(r, s, c, C) BY SplitSteps
  <1>6. PICK q : PieceSteps(q, t, c, C) BY SplitSteps
  <1>7. PICK w : PieceSteps(w, u, c, C) BY <1>4, SplitSteps
  <1>8. /\ r \in [0..n -> Pieces(C)] /\ r[0] = << <<>> >> /\ r[n] = SplitStringDontTrim(s, c)
        /\ \A k \in 1..n : r[k] = PieceStep(c, r[k - 1], s[k])
    BY <1>5 DEF PieceSteps, n
  <1>9. /\ q \in [0..l -> Pieces(C)] /\ q[0] = << <<>> >> /\ q[l] = SplitStringDontTrim(t, c)
        /\ \A k \in 1..l : q[k] = PieceStep(c, q[k - 1], t[k])
    BY <1>6 DEF PieceSteps, l
  <1>10. /\ w[0] = << <<>> >> /\ w[n + 1 + l] = SplitStringDontTrim(u, c)
         /\ \A k \in 1..n + 1 + l : w[k] = PieceStep(c, w[k - 1], u[k])
    BY <1>4, <1>7 DEF PieceSteps
  <1>11. \A i \in 1..l : t[i] \in C BY ElementOfSeq DEF l
  <1> HIDE DEF n, l
  <1>12. w[n] = r[n]
    <2> DEFINE S == {k \in Nat : w[k] = r[k]}
    <2>1. 0 \in S BY <1>8, <1>10
    <2>2. ASSUME NEW k \in 1..n, k - 1 \in S PROVE k \in S
      <3>1. k \in 1..n + 1 + l /\ k \in Nat /\ w[k - 1] = r[k - 1] BY <1>1, <2>2
      <3>2. w[k] = r[k] BY <1>4, <1>8, <1>10, <3>1
      <3> QED BY <3>1, <3>2
    <2> HIDE DEF S
    <2>3. \A k \in 0..n : k \in S BY <1>1, <2>1, <2>2, InductionUpTo
    <2>4. n \in S BY <1>1, <2>3
    <2> QED BY <2>4 DEF S
  <1> DEFINE p == r[n]
             e == <<>>
  <1>13. p \in Q /\ p # <<>>
    <2>1. n \in 0..n BY <1>1
    <2> QED BY <1>8, <2>1 DEF Pieces
  <1>14. e \in T BY EmptySeq
  <1>15. \A k \in 0..l : q[k] \in Q /\ q[k] # <<>> BY <1>9 DEF Pieces
  <1> HIDE DEF T, p
  <1>16. w[n + 1] = p \o <<e>>
    <2>1. n + 1 \in 1..n + 1 + l /\ (n + 1) - 1 = n BY <1>1
    <2>2. w[n + 1] = PieceStep(c, p, c) BY <1>4, <1>10, <1>12, <2>1 DEF p
    <2>3. PieceStep(c, p, c) = Append(p, e) BY DEF PieceStep
    <2> HIDE DEF e
    <2> QED BY <1>13, <1>14, <2>2, <2>3, AppendIsConcat
  <1> DEFINE K == {k \in Nat : w[n + 1 + k] = p \o q[k]}
  <1>17. 0 \in K
    <2>1. q[0] = <<e>> BY <1>9
    <2>2. n + 1 + 0 = n + 1 BY <1>1
    <2> HIDE DEF e
    <2> QED BY <1>16, <2>1, <2>2
  <1>18. ASSUME NEW k \in 1..l, k - 1 \in K PROVE k \in K
    <2> DEFINE x == q[k - 1]
               ch == t[k]
    <2>1. k - 1 \in 0..l /\ k \in Nat /\ n + 1 + k \in 1..n + 1 + l
          /\ (n + 1 + k) - 1 = n + 1 + (k - 1)
      BY <1>1
    <2>2. x \in Q /\ x # <<>> BY <1>15, <2>1
    <2>3. w[n + 1 + k] = PieceStep(c, p \o x, ch)
      <3>1. w[n + 1 + (k - 1)] = p \o x BY <1>18
      <3>2. u[n + 1 + k] = ch BY <1>4
      <3>3. w[n + 1 + k] = PieceStep(c, w[(n + 1 + k) - 1], u[n + 1 + k]) BY <1>10, <2>1
      <3> QED BY <2>1, <3>1, <3>2, <3>3
    <2>4. q[k] = PieceStep(c, x, ch) BY <1>9
    <2>5. ch \in C BY <1>11
    <2> HIDE DEF x, ch
    <2>6. PICK front \in Seq(T), last \in T : x = Append(front, last)
      BY <2>2, SequenceEmptyOrAppend
    <2> DEFINE z == Append(last, ch)
    <2>7. z \in T BY <2>5, AppendProperties DEF T
    <2> HIDE DEF z, e
    <2>8. x = front \o <<last>> /\ Append(front, z) = front \o <<z>> /\ Append(x, e) = x \o <<e>>
      BY <1>14, <2>2, <2>6, <2>7, AppendIsConcat
    <2>9. <<last>> \in Seq(T) /\ <<z>> \in Seq(T) /\ <<e>> \in Seq(T) BY <1>14, <2>7
    <2> DEFINE y == p \o front
               px == p \o x
    <2>10. y \in Seq(T) /\ px \in Seq(T) BY <1>13, <2>2, ConcatProperties
    <2>11. px = y \o <<last>>
      <3> DEFINE a == <<last>>
      <3> HIDE DEF a
      <3>1. (p \o front) \o a = p \o (front \o a) BY <1>13, <2>9, ConcatAssociative DEF a
      <3> QED BY <2>8, <3>1 DEF a
    <2>12. p \o (front \o <<z>>) = y \o <<z>>
      <3> DEFINE a == <<z>>
      <3> HIDE DEF a
      <3>1. (p \o front) \o a = p \o (front \o a) BY <1>13, <2>9, ConcatAssociative DEF a
      <3> QED BY <3>1 DEF a
    <2>13. p \o (x \o <<e>>) = px \o <<e>>
      <3> DEFINE a == <<e>>
      <3> HIDE DEF a
      <3>1. (p \o x) \o a = p \o (x \o a) BY SMTT(30), <1>13, <2>2, <2>9, ConcatAssociative DEF a
      <3> QED BY <3>1 DEF a
    <2> HIDE DEF y
    <2>14. px = Append(y, last) BY <2>10, <2>11, AppendIsConcat
    <2>15. Append(y, z) = y \o <<z>> BY <2>7, <2>10, AppendIsConcat
    <2>16. Append(px, e) = px \o <<e>>
      <3> HIDE DEF px
      <3> QED BY <1>14, <2>10, AppendIsConcat
    <2>17. PieceStep(c, x, ch) = IF ch = c THEN Append(x, e) ELSE Append(front, z)
      <3> DEFINE next == PieceStep(c, x, ch)
      <3>1. next = PieceStep(c, x, ch) OBVIOUS
      <3> HIDE DEF next
      <3>2. LastMoves(next, x, front, last, c, ch) BY <2>6, <3>1, PieceStepOn
      <3> QED BY <3>1, <3>2 DEF e, z, LastMoves
    <2>18. PieceStep(c, px, ch) = IF ch = c THEN Append(px, e) ELSE Append(y, z)
      <3> HIDE DEF px
      <3> DEFINE next == PieceStep(c, px, ch)
      <3>1. next = PieceStep(c, px, ch) OBVIOUS
      <3> HIDE DEF next
      <3>2. LastMoves(next, px, y, last, c, ch) BY <2>10, <2>14, <3>1, PieceStepOn
      <3> QED BY <3>1, <3>2 DEF e, z, LastMoves
    <2>19. PieceStep(c, px, ch) = p \o PieceStep(c, x, ch)
      <3> HIDE DEF px
      <3>1. CASE ch = c BY <2>8, <2>13, <2>16, <2>17, <2>18, <3>1
      <3>2. CASE ch # c BY <2>8, <2>12, <2>15, <2>17, <2>18, <3>2
      <3> QED BY <3>1, <3>2
    <2> QED BY <2>1, <2>3, <2>4, <2>19
  <1> HIDE DEF K
  <1>19. \A k \in 0..l : k \in K BY <1>1, <1>17, <1>18, InductionUpTo
  <1>20. l \in K BY <1>1, <1>19
  <1>21. w[n + 1 + l] = p \o q[l] BY <1>20 DEF K
  <1> QED BY <1>8, <1>9, <1>10, <1>21 DEF p

(* Words are split at blanks, and a word has none.                         *)
kBlank == " "

Bare(x) == Lacks(x, kBlank)

LEMMA BlankIsSpace == \A ch : ch \notin Space <=> ch # kBlank
  BY DEF Space, kBlank

(* There is nothing to trim.                                               *)
LEMMA TrimBare ==
    ASSUME NEW C, NEW s \in Seq(C), Bare(s)
    PROVE  TrimString(s) = s
  <1> DEFINE n == Len(s)
             kept == {i \in 1..n : s[i] \notin Space}
  <1>1. n \in Nat BY LenProperties
  <1>2. kept = 1..n BY BlankIsSpace DEF Bare, Lacks
  <1>3. TrimString(s) = IF kept = {} THEN <<>> ELSE SubSeq(s, Min(kept), Max(kept))
    BY DEF TrimString
  <1>4. CASE n = 0
    <2>1. s = <<>> BY <1>4, EmptySeq
    <2>2. kept = {} BY <1>2, <1>4
    <2> HIDE DEF kept
    <2> QED BY <1>3, <2>1, <2>2
  <1>5. CASE n # 0
    <2> HIDE DEF kept
    <2> HIDE DEF n
    <2>5. n \in 1..n /\ 1 \in 1..n BY <1>1, <1>5
    <2>1. n \in kept /\ 1 \in kept /\ kept # {} BY <1>2, <2>5
    <2>2. Max(kept) = n
      <3>1. kept \subseteq Int /\ \A i \in kept : i <= n BY <1>1, <1>2
      <3> QED BY <2>1, <3>1, MaxIs
    <2>3. Min(kept) = 1
      <3>1. 1 \in Int /\ n \in Int /\ kept \subseteq 1..n BY <1>1, <1>2
      <3>2. Min(kept) \in kept /\ \A i \in kept : Min(kept) <= i BY <2>1, <3>1, FirstOfRange
      <3> QED BY <1>1, <1>2, <2>1, <3>2
    <2>4. SubSeq(s, 1, n) = s BY SubSeqFull DEF n
    <2> QED BY <1>3, <2>1, <2>2, <2>3, <2>4
  <1> QED BY <1>4, <1>5

(* Splitting at blanks leaves nothing to trim.                             *)
LEMMA SplitAtBlanks ==
    ASSUME NEW C, NEW s \in Seq(C), NEW words, words = SplitString(s, kBlank)
    PROVE  /\ words = SplitStringDontTrim(s, kBlank)
           /\ words \in Seq(Seq(C)) /\ words # <<>>
           /\ \A i \in 1..Len(words) : words[i] \in Seq(C) /\ Bare(words[i])
  <1> DEFINE parts == SplitStringDontTrim(s, kBlank)
             n == Len(parts)
             T == Seq(C)
  <1>1. parts \in Pieces(C) /\ \A k \in 1..Len(parts) : Lacks(parts[k], kBlank)
    <2> HIDE DEF parts
    <2>1. parts = SplitStringDontTrim(s, kBlank) BY DEF parts
    <2> QED BY <2>1, PiecesWithout
  <1>2. parts \in Seq(T) /\ parts # <<>> BY <1>1 DEF Pieces
  <1>3. words = [k \in 1..n |-> TrimString(parts[k])] BY DEF SplitString
  <1> HIDE DEF parts
  <1>4. \A k \in 1..n : parts[k] \in T BY <1>2, ElementOfSeq
  <1>5. n \in Nat /\ parts = [k \in 1..n |-> parts[k]] BY <1>2, LenProperties
  <1>6. \A k \in 1..n : TrimString(parts[k]) = parts[k]
    <2> TAKE k \in 1..n
    <2>1. parts[k] \in Seq(C) /\ Bare(parts[k]) BY <1>1, <1>4 DEF Bare
    <2> QED BY <2>1, TrimBare
  <1> HIDE DEF n
  <1>7. words = [k \in 1..n |-> parts[k]] BY <1>3, <1>6
  <1>8. words = parts BY <1>5, <1>7
  <1> QED BY <1>1, <1>2, <1>4, <1>8 DEF parts, n, Bare

(* A bare word behind a blank is one word more.                            *)
LEMMA WordJoined ==
    ASSUME NEW C, kBlank \in C, NEW s \in Seq(C), NEW x \in Seq(C), Bare(x),
           NEW t, t = Joined(s, kBlank, x)
    PROVE  t \in Seq(C) /\ SplitString(t, kBlank) = Append(SplitString(s, kBlank), x)
  <1> DEFINE T == Seq(C)
             one == <<kBlank>>
             words == SplitString(s, kBlank)
             all == SplitString(t, kBlank)
  <1>1. one \in Seq(C) OBVIOUS
  <1>2. t = (s \o one) \o x BY DEF Joined
  <1>3. t \in Seq(C)
    <2> HIDE DEF one
    <2> DEFINE u == s \o one
    <2>1. u \in Seq(C) BY <1>1, ConcatProperties
    <2>2. t = u \o x BY <1>2
    <2> HIDE DEF u
    <2> QED BY <2>1, <2>2, ConcatProperties
  <1>4. SplitStringDontTrim(t, kBlank) = SplitStringDontTrim(s, kBlank) \o SplitStringDontTrim(x, kBlank)
    BY SplitBoth
  <1>5. SplitStringDontTrim(x, kBlank) = <<x>> BY SplitOne DEF Bare
  <1>6. words = SplitStringDontTrim(s, kBlank) /\ words \in Seq(T)
    <2> HIDE DEF words
    <2>1. words = SplitString(s, kBlank) BY DEF words
    <2> QED BY <2>1, SplitAtBlanks
  <1>7. all = SplitStringDontTrim(t, kBlank)
    <2> HIDE DEF all
    <2>1. all = SplitString(t, kBlank) BY DEF all
    <2> QED BY <1>3, <2>1, SplitAtBlanks
  <1> HIDE DEF words, all
  <1>8. all = words \o <<x>> BY <1>4, <1>5, <1>6, <1>7
  <1>9. Append(words, x) = words \o <<x>>
    <2>1. x \in T OBVIOUS
    <2> HIDE DEF T
    <2> QED BY <1>6, <2>1, AppendIsConcat
  <1> QED BY <1>3, <1>8, <1>9 DEF words, all

(* A turn of SplitStringAlongWhitespace, and the loop.                     *)
WordStep(found, ch) ==
    IF ch \notin Space THEN Append(Front(found), Append(Last(found), ch))
    ELSE IF Last(found) = <<>> THEN found ELSE Append(found, <<>>)

WordsFound(s) ==
    FoldLeft(LAMBDA found, ch : IF ch \notin Space
                                THEN Append(Front(found), Append(Last(found), ch))
                                ELSE IF Last(found) = <<>> THEN found
                                ELSE Append(found, <<>>),
             << <<>> >>, s)

WordSteps(r, s, C) ==
    /\ r \in [0..Len(s) -> Pieces(C)]
    /\ r[0] = << <<>> >> /\ r[Len(s)] = WordsFound(s)
    /\ \A k \in 1..Len(s) : r[k] = WordStep(r[k - 1], s[k])

(* It goes on with the last word, or begins one.                           *)
WordMoves(next, found, front, last, ch) ==
    /\ ch # kBlank => next = Append(front, Append(last, ch))
    /\ ch = kBlank => next = IF last = <<>> THEN found ELSE Append(found, <<>>)

LEMMA WordStepOn ==
    ASSUME NEW T, NEW ch, NEW front \in Seq(T), NEW last \in T,
           NEW found, found = Append(front, last),
           NEW next, next = WordStep(found, ch)
    PROVE  WordMoves(next, found, front, last, ch)
  <1>1. Front(found) = front /\ Last(found) = last BY FrontOfAppend
  <1>2. ch \notin Space <=> ch # kBlank BY BlankIsSpace
  <1> QED BY <1>1, <1>2 DEF WordStep, WordMoves

LEMMA WordStepIs ==
    ASSUME NEW C, NEW found \in Pieces(C), NEW ch \in C, NEW next, next = WordStep(found, ch)
    PROVE  next \in Pieces(C)
  <1> DEFINE T == Seq(C)
             e == <<>>
  <1>1. found \in Seq(T) /\ found # <<>> BY DEF Pieces
  <1>2. e \in T BY EmptySeq
  <1>3. ASSUME NEW x \in T PROVE Append(x, ch) \in T BY <1>3, AppendProperties
  <1>4. ASSUME next \in Seq(T), next # <<>> PROVE next \in Pieces(C) BY <1>4 DEF Pieces
  <1> HIDE DEF T
  <1>5. PICK front \in Seq(T), last \in T : found = Append(front, last)
    BY <1>1, SequenceEmptyOrAppend
  <1>6. WordMoves(next, found, front, last, ch) BY <1>5, WordStepOn
  <1> DEFINE x == Append(last, ch)
  <1>7. x \in T BY <1>3
  <1> HIDE DEF x, e
  <1>8. Append(front, x) \in Seq(T) /\ Append(front, x) # <<>> BY <1>7, AppendProperties
  <1>9. Append(found, e) \in Seq(T) /\ Append(found, e) # <<>> BY <1>1, <1>2, AppendProperties
  <1>10. next = found \/ next = Append(front, x) \/ next = Append(found, e)
    BY <1>6 DEF WordMoves, x, e
  <1> QED BY <1>1, <1>4, <1>8, <1>9, <1>10

LEMMA WordStepsExist ==
    ASSUME NEW C, NEW s \in Seq(C)
    PROVE  \E r : WordSteps(r, s, C)
  <1> DEFINE n == Len(s)
             b == << <<>> >>
             f == [x \in Pieces(C) \X C |-> WordStep(x[1], x[2])]
             Is(g) == g = [S \in SUBSET (1..n) |->
                             IF S = {} THEN b
                             ELSE WordStep(g[S \ {Max(S)}], s[Max(S)])]
             h == CHOOSE g : Is(g)
  <1>1. f \in [Pieces(C) \X C -> Pieces(C)]
    <2>1. ASSUME NEW x \in Pieces(C), NEW ch \in C PROVE WordStep(x, ch) \in Pieces(C)
      BY WordStepIs
    <2> QED BY <2>1
  <1>2. \A a \in Pieces(C), t \in C : f[<<a, t>>] = WordStep(a, t)
    OBVIOUS
  <1>3. b \in Pieces(C)
    <2>1. <<>> \in Seq(C) OBVIOUS
    <2>2. b \in Seq(Seq(C)) /\ b # <<>> BY <2>1
    <2> HIDE DEF b
    <2> QED BY <2>2 DEF Pieces
  <1>4. n \in Nat /\ (\A i \in 1..n : s[i] \in C) /\ DOMAIN s = 1..n
    BY LenProperties, ElementOfSeq
  <1>5. WordsFound(s) = h[1..n]
    BY <1>4 DEF WordsFound, FoldLeft, MapThenFoldSet, WordStep
  <1> HIDE DEF f, n, b
  <1>6. \A S \in SUBSET (1..n) : S # {} => s[Max(S)] \in C
    BY <1>4, MaxOfInterval
  <1>7. PICK g : Folds(g, f, b, s, n, Pieces(C))
    BY <1>1, <1>3, <1>4, FoldExists
  <1>8. Is(g)
    BY <1>2, <1>6, <1>7 DEF Folds
  <1>9. Is(h)
    <2> HIDE DEF Is
    <2> QED BY <1>8
  <1> HIDE DEF h
  <1>10. FoldsFrom(h, f, b, s, n, Pieces(C))
    BY <1>2, <1>6, <1>9 DEF FoldsFrom
  <1>11. PICK r : Steps(r, f, b, s, n, Pieces(C), h[1..n])
    BY <1>1, <1>3, <1>4, <1>10, FoldSteps
  <1>12. ASSUME NEW k \in 1..n PROVE r[k] = WordStep(r[k - 1], s[k])
    <2>1. k - 1 \in 0..n BY <1>4
    <2>2. r[k - 1] \in Pieces(C) /\ s[k] \in C BY <1>4, <1>11, <2>1 DEF Steps
    <2> QED BY <1>2, <1>11, <2>2 DEF Steps
  <1> QED BY <1>5, <1>11, <1>12 DEF n, b, Steps, WordSteps

(* The pieces that are not empty.                                          *)
Filled(s) == [i \in {k \in 1..Len(s) : s[k] # <<>>} |-> s[i]]

(* The pieces, trimmed.                                                    *)
TrimmedTo(words, parts, C) ==
    /\ parts \in Seq(Seq(C)) /\ Len(parts) \in Nat /\ Len(words) = Len(parts)
    /\ \A k \in 1..Len(parts) : words[k] = TrimString(parts[k])
    /\ words \in Seq({words[k] : k \in 1..Len(words)})

LEMMA TrimmedPieces ==
    ASSUME NEW C, NEW s \in Seq(C), NEW c, NEW parts, parts = SplitStringDontTrim(s, c),
           NEW words, words = SplitString(s, c)
    PROVE  TrimmedTo(words, parts, C)
  <1>1. parts \in Pieces(C) BY PiecesWithout
  <1>2. parts \in Seq(Seq(C)) BY <1>1 DEF Pieces
  <1> DEFINE n == Len(parts)
  <1>3. n \in Nat BY <1>2, LenProperties
  <1>4. words = [k \in 1..n |-> TrimString(parts[k])] BY DEF SplitString
  <1> HIDE DEF n
  <1>5. words = [k \in 1..n |-> words[k]] BY <1>4
  <1>6. Len(words) = n /\ words \in Seq({words[k] : k \in 1..n}) BY <1>3, <1>5, SequenceOf
  <1>7. \A k \in 1..n : words[k] = TrimString(parts[k]) BY <1>4
  <1> QED BY <1>2, <1>3, <1>6, <1>7 DEF n, TrimmedTo

(* SplitString on both sides of a delimiter.                               *)
LEMMA SplitStringBoth ==
    ASSUME NEW C, NEW s \in Seq(C), NEW t \in Seq(C), NEW c \in C,
           NEW u, u = Joined(s, c, t)
    PROVE  SplitString(u, c) = SplitString(s, c) \o SplitString(t, c)
  <1> DEFINE p == SplitStringDontTrim(s, c)
             q == SplitStringDontTrim(t, c)
             r == SplitStringDontTrim(u, c)
             x == SplitString(s, c)
             y == SplitString(t, c)
             z == SplitString(u, c)
             T == Seq(C)
  <1>1. u \in Seq(C)
    <2>1. <<c>> \in Seq(C) OBVIOUS
    <2> DEFINE one == <<c>>
               v == s \o one
    <2> HIDE DEF one
    <2>2. v \in Seq(C) BY <2>1, ConcatProperties DEF one
    <2>3. u = v \o t BY DEF Joined, one
    <2> HIDE DEF v
    <2> QED BY <2>2, <2>3, ConcatProperties
  <1>2. r = p \o q BY SplitBoth
  <1>3. TrimmedTo(x, p, C)
    <2> HIDE DEF p, x
    <2>1. p = SplitStringDontTrim(s, c) /\ x = SplitString(s, c) BY DEF p, x
    <2> QED BY <2>1, TrimmedPieces
  <1>4. TrimmedTo(y, q, C)
    <2> HIDE DEF q, y
    <2>1. q = SplitStringDontTrim(t, c) /\ y = SplitString(t, c) BY DEF q, y
    <2> QED BY <2>1, TrimmedPieces
  <1>5. TrimmedTo(z, r, C)
    <2> HIDE DEF r, z
    <2>1. r = SplitStringDontTrim(u, c) /\ z = SplitString(u, c) BY DEF r, z
    <2> QED BY <1>1, <2>1, TrimmedPieces
  <1>13. /\ p \in Seq(T) /\ Len(p) \in Nat /\ Len(x) = Len(p)
         /\ \A k \in 1..Len(p) : x[k] = TrimString(p[k])
         /\ x \in Seq({x[k] : k \in 1..Len(x)})
    <2> HIDE DEF p, x
    <2> QED BY <1>3 DEF TrimmedTo
  <1>14. /\ q \in Seq(T) /\ Len(q) \in Nat /\ Len(y) = Len(q)
         /\ \A k \in 1..Len(q) : y[k] = TrimString(q[k])
         /\ y \in Seq({y[k] : k \in 1..Len(y)})
    <2> HIDE DEF q, y
    <2> QED BY <1>4 DEF TrimmedTo
  <1>15. /\ Len(z) = Len(r) /\ \A k \in 1..Len(r) : z[k] = TrimString(r[k])
         /\ z \in Seq({z[k] : k \in 1..Len(z)})
    <2> HIDE DEF r, z
    <2> QED BY <1>5 DEF TrimmedTo
  <1> HIDE DEF p, q, r, x, y, z, T
  <1> DEFINE X == {x[k] : k \in 1..Len(x)}
             Y == {y[k] : k \in 1..Len(y)}
             Z == {z[k] : k \in 1..Len(z)}
             W == X \cup Y \cup Z
             b == x \o y
             n == Len(p)
             l == Len(q)
  <1>6. x \in Seq(W) /\ y \in Seq(W) /\ z \in Seq(W)
    <2>1. x \in Seq(X) /\ y \in Seq(Y) /\ z \in Seq(Z) BY <1>13, <1>14, <1>15
    <2>2. X \subseteq W /\ Y \subseteq W /\ Z \subseteq W OBVIOUS
    <2> HIDE DEF X, Y, Z, W
    <2> QED BY <2>1, <2>2, SeqMonotonic
  <1> HIDE DEF X, Y, Z, W
  <1>7. /\ b \in Seq(W) /\ Len(b) = n + l
        /\ \A i \in 1..n + l : b[i] = IF i <= n THEN x[i] ELSE y[i - n]
    <2>1. /\ b \in Seq(W) /\ Len(b) = Len(x) + Len(y)
          /\ \A i \in 1..Len(x) + Len(y) : b[i] = IF i <= Len(x) THEN x[i] ELSE y[i - Len(x)]
      BY <1>6, ConcatProperties
    <2> HIDE DEF b
    <2> QED BY <1>13, <1>14, <2>1
  <1>8. /\ Len(r) = n + l
        /\ \A i \in 1..n + l : r[i] = IF i <= n THEN p[i] ELSE q[i - n]
    BY <1>2, <1>13, <1>14, ConcatProperties
  <1>9. n \in Nat /\ l \in Nat BY <1>13, <1>14
  <1> HIDE DEF b, n, l
  <1>10. ASSUME NEW i \in 1..n + l PROVE z[i] = b[i]
    <2>1. z[i] = TrimString(r[i]) BY <1>15, <1>8
    <2>2. CASE i <= n
      <3>1. i \in 1..n BY <1>9, <2>2
      <3>2. x[i] = TrimString(p[i]) BY <1>13, <3>1 DEF n
      <3> QED BY <1>7, <1>8, <2>1, <2>2, <3>2
    <2>3. CASE ~(i <= n)
      <3>1. i - n \in 1..l BY <1>9, <2>3
      <3>2. y[i - n] = TrimString(q[i - n]) BY <1>14, <3>1 DEF l
      <3> QED BY <1>7, <1>8, <2>1, <2>3, <3>2
    <2> QED BY <2>2, <2>3
  <1>11. Len(z) = n + l BY <1>15, <1>8
  <1>12. z = b BY <1>6, <1>7, <1>10, <1>11, SeqEqual
  <1> QED BY <1>12 DEF z, b, x, y

(* What is left from a place on: the pieces after the next delimiter       *)
(* behind the one that it ends.                                            *)
Ahead(s, c, b) == {i \in b..Len(s) : s[i] = c}

SplitFrom(s, c, b, more) ==
    IF Ahead(s, c, b) = {} THEN <<TrimString(From(s, b))>>
    ELSE <<TrimString(SubSeq(s, b, Min(Ahead(s, c, b)) - 1))>> \o more[Min(Ahead(s, c, b)) + 1]

LEMMA SplitOnward ==
    ASSUME NEW C, NEW s \in Seq(C), NEW c \in C, NEW b \in 1..Len(s) + 1,
           NEW g, \A i \in 1..Len(s) + 1 : g[i] = SplitString(From(s, i), c)
    PROVE  /\ SplitString(From(s, b), c) = SplitFrom(s, c, b, g)
           /\ Ahead(s, c, b) # {} => Min(Ahead(s, c, b)) \in b..Len(s)
  <1> DEFINE n == Len(s)
             H == Ahead(s, c, b)
             v == From(s, b)
  <1>1. n \in Nat /\ \A i \in 1..n : s[i] \in C BY LenProperties, ElementOfSeq
  <1>2. H = {i \in b..n : s[i] = c} BY DEF Ahead
  <1>3. ASSUME NEW i \in Int, NEW j \in Int, 1 <= i, j <= n
        PROVE  /\ SubSeq(s, i, j) \in Seq(C)
               /\ Len(SubSeq(s, i, j)) = IF i <= j THEN j - i + 1 ELSE 0
               /\ \A k \in 1..j - i + 1 : SubSeq(s, i, j)[k] = s[i + k - 1]
    <2>1. \A k \in i..j : s[k] \in C BY <1>1, <1>3
    <2> HIDE DEF n
    <2> QED BY <2>1, SubSeqProperties
  <1>4. ASSUME NEW x \in Seq(C), Lacks(x, c) PROVE SplitString(x, c) = <<TrimString(x)>>
    <2>1. SplitStringDontTrim(x, c) = <<x>> BY <1>4, SplitOne
    <2> DEFINE parts == SplitStringDontTrim(x, c)
               words == SplitString(x, c)
               t == TrimString(x)
    <2>2. words = [k \in 1..Len(parts) |-> TrimString(parts[k])] BY DEF SplitString
    <2>3. parts = <<x>> /\ Len(<<x>>) = 1 /\ <<x>>[1] = x BY <2>1
    <2> HIDE DEF parts, words
    <2>4. words = [k \in 1..1 |-> TrimString(x)]
      <3>1. Len(parts) = 1 /\ \A k \in 1..1 : parts[k] = x BY <2>3
      <3> QED BY <2>2, <3>1
    <2> HIDE DEF t
    <2>5. [k \in 1..1 |-> t] = <<t>> OBVIOUS
    <2> QED BY <2>4, <2>5 DEF words, t
  <1> HIDE DEF n, H
  <1>5. CASE H = {}
    <2>1. v = SubSeq(s, b, n) BY DEF From, n
    <2>2. b \in Int /\ n \in Int /\ 1 <= b /\ n <= n /\ b \in 1..n + 1 BY <1>1 DEF n
    <2>3. /\ v \in Seq(C) /\ Len(v) = (IF b <= n THEN n - b + 1 ELSE 0)
          /\ \A k \in 1..n - b + 1 : v[k] = s[b + k - 1]
      <3> DEFINE w == SubSeq(s, b, n)
      <3>1. /\ w \in Seq(C) /\ Len(w) = (IF b <= n THEN n - b + 1 ELSE 0)
            /\ \A k \in 1..n - b + 1 : w[k] = s[b + k - 1]
        BY <1>3, <2>2
      <3>2. v = w BY <2>1
      <3> HIDE DEF v, w
      <3> QED BY <3>1, <3>2
    <2> HIDE DEF v
    <2>4. Len(v) = n - b + 1 BY <2>2, <2>3
    <2>5. Lacks(v, c)
      <3> SUFFICES ASSUME NEW k \in 1..Len(v) PROVE v[k] # c BY DEF Lacks
      <3>1. k \in 1..n - b + 1 /\ b + k - 1 \in b..n BY <2>2, <2>4
      <3> QED BY <1>2, <1>5, <2>3, <3>1
    <2>6. SplitString(v, c) = <<TrimString(v)>> BY <1>4, <2>3, <2>5
    <2> QED BY <1>5, <2>6 DEF SplitFrom, v, H
  <1>6. CASE H # {}
    <2> DEFINE m == Min(H)
               x == SubSeq(s, b, m - 1)
               y == From(s, m + 1)
    <2>1. m \in H /\ \A i \in H : m <= i
      <3>1. b \in Int /\ n \in Int /\ H \subseteq b..n BY <1>1, <1>2
      <3> QED BY <1>6, <3>1, FirstOfRange
    <2>2. m \in b..n /\ s[m] = c BY <1>2, <2>1
    <2>3. \A i \in b..m - 1 : s[i] # c
      <3> TAKE i \in b..m - 1
      <3>1. i \in b..n /\ ~(m <= i) BY <1>1, <2>2
      <3> QED BY <1>2, <2>1, <3>1
    <2> HIDE DEF m
    <2>4. b \in 1..n + 1 BY DEF n
    <2>5. x \in Seq(C) /\ Len(x) = m - b /\ \A k \in 1..m - b : x[k] = s[b + k - 1]
      <3>1. b \in Int /\ m - 1 \in Int /\ 1 <= b /\ m - 1 <= n BY <1>1, <2>2, <2>4
      <3>2. /\ x \in Seq(C) /\ Len(x) = IF b <= m - 1 THEN (m - 1) - b + 1 ELSE 0
            /\ \A k \in 1..(m - 1) - b + 1 : x[k] = s[b + k - 1]
        BY <1>3, <3>1
      <3> HIDE DEF x
      <3> QED BY <2>2, <2>4, <3>2
    <2>6. y \in Seq(C) /\ Len(y) = n - m /\ \A k \in 1..n - m : y[k] = s[m + k]
      <3>1. m + 1 \in Int /\ n \in Int /\ 1 <= m + 1 /\ n <= n BY <1>1, <2>2, <2>4
      <3> DEFINE w == SubSeq(s, m + 1, n)
      <3>2. /\ w \in Seq(C) /\ Len(w) = IF m + 1 <= n THEN n - (m + 1) + 1 ELSE 0
            /\ \A k \in 1..n - (m + 1) + 1 : w[k] = s[(m + 1) + k - 1]
        BY <1>3, <3>1
      <3>3. y = w BY DEF From, n
      <3> HIDE DEF y, w
      <3>4. Len(w) = n - m /\ n - (m + 1) + 1 = n - m BY <1>1, <2>2, <2>4, <3>2
      <3>5. \A k \in 1..n - m : (m + 1) + k - 1 = m + k BY <1>1, <2>2, <2>4
      <3> QED BY <3>2, <3>3, <3>4, <3>5
    <2>7. v = Joined(x, c, y)
      <3> DEFINE one == <<c>>
                 xo == x \o one
                 w == xo \o y
                 z == SubSeq(s, b, n)
      <3>1. v = z BY DEF From, n
      <3>2. z \in Seq(C) /\ Len(z) = n - b + 1 /\ \A k \in 1..n - b + 1 : z[k] = s[b + k - 1]
        <4>1. b \in Int /\ n \in Int /\ 1 <= b /\ n <= n BY <1>1, <2>4
        <4>2. /\ z \in Seq(C) /\ Len(z) = IF b <= n THEN n - b + 1 ELSE 0
              /\ \A k \in 1..n - b + 1 : z[k] = s[b + k - 1]
          BY <1>3, <4>1
        <4> HIDE DEF z
        <4> QED BY <1>1, <2>4, <4>2
      <3>3. one \in Seq(C) /\ Len(one) = 1 /\ one[1] = c OBVIOUS
      <3> HIDE DEF one, z, x, y, v
      <3>4. /\ xo \in Seq(C) /\ Len(xo) = m - b + 1
            /\ \A i \in 1..m - b + 1 : xo[i] = IF i <= m - b THEN x[i] ELSE one[i - (m - b)]
        <4>1. /\ xo \in Seq(C) /\ Len(xo) = Len(x) + Len(one)
              /\ \A i \in 1..Len(x) + Len(one) :
                    xo[i] = IF i <= Len(x) THEN x[i] ELSE one[i - Len(x)]
          BY <2>5, <3>3, ConcatProperties
        <4> HIDE DEF xo
        <4> QED BY <2>5, <3>3, <4>1
      <3> HIDE DEF xo
      <3>5. /\ w \in Seq(C) /\ Len(w) = m - b + 1 + (n - m)
            /\ \A i \in 1..m - b + 1 + (n - m) :
                  w[i] = IF i <= m - b + 1 THEN xo[i] ELSE y[i - (m - b + 1)]
        <4>1. /\ w \in Seq(C) /\ Len(w) = Len(xo) + Len(y)
              /\ \A i \in 1..Len(xo) + Len(y) :
                    w[i] = IF i <= Len(xo) THEN xo[i] ELSE y[i - Len(xo)]
          BY <2>6, <3>4, ConcatProperties
        <4> HIDE DEF w
        <4> QED BY <2>6, <3>4, <4>1
      <3> HIDE DEF w
      <3>6. ASSUME NEW i \in 1..n - b + 1 PROVE w[i] = z[i]
        <4>1. z[i] = s[b + i - 1] BY <3>2
        <4>2. i \in 1..m - b + 1 + (n - m) BY <1>1, <2>2, <2>4
        <4>3. CASE i <= m - b
          <5>1. i \in 1..m - b /\ i \in 1..m - b + 1 /\ i <= m - b + 1 BY <2>2, <2>4, <4>3
          <5> QED BY <2>5, <3>4, <3>5, <4>1, <4>2, <4>3, <5>1
        <4>4. CASE i = m - b + 1
          <5>1. /\ i \in 1..m - b + 1 /\ i <= m - b + 1 /\ ~(i <= m - b) /\ i - (m - b) = 1
                /\ b + i - 1 = m
            BY <2>2, <2>4, <4>4
          <5> QED BY <2>2, <3>3, <3>4, <3>5, <4>1, <4>2, <5>1
        <4>5. CASE i > m - b + 1
          <5>1. /\ ~(i <= m - b + 1) /\ i - (m - b + 1) \in 1..n - m
                /\ m + (i - (m - b + 1)) = b + i - 1
            BY <1>1, <2>2, <2>4, <4>5
          <5> QED BY <2>6, <3>5, <4>1, <4>2, <5>1
        <4> QED BY <2>2, <2>4, <4>3, <4>4, <4>5
      <3>7. Len(w) = n - b + 1 BY <1>1, <2>2, <2>4, <3>5
      <3>8. w = z BY <3>2, <3>5, <3>6, <3>7, SeqEqual
      <3> QED BY <3>1, <3>8 DEF Joined, w, xo, one
    <2> HIDE DEF v, x
    <2>8. SplitString(v, c) = SplitString(x, c) \o SplitString(y, c)
      <3> HIDE DEF y
      <3>1. x \in Seq(C) /\ y \in Seq(C) /\ c \in C BY <2>5, <2>6
      <3> QED BY SMTT(30), <2>7, <3>1, SplitStringBoth
    <2>9. Lacks(x, c)
      <3> SUFFICES ASSUME NEW k \in 1..Len(x) PROVE x[k] # c BY DEF Lacks
      <3>1. k \in 1..m - b /\ b + k - 1 \in b..m - 1 BY <2>2, <2>4, <2>5
      <3> QED BY <2>3, <2>5, <3>1
    <2>10. SplitString(x, c) = <<TrimString(x)>> BY <1>4, <2>5, <2>9
    <2>11. g[m + 1] = SplitString(y, c)
      <3>1. m + 1 \in 1..Len(s) + 1 BY <1>1, <2>2, <2>4 DEF n
      <3> QED BY <3>1
    <2>12. SplitString(v, c) = <<TrimString(x)>> \o g[m + 1] BY <2>8, <2>10, <2>11
    <2>13. SplitFrom(s, c, b, g) = <<TrimString(x)>> \o g[m + 1]
      BY <1>6 DEF SplitFrom, H, x, m
    <2> QED BY <2>2, <2>12, <2>13 DEF v, m, H, n
  <1> QED BY <1>5, <1>6 DEF H, n, v

(* A delimiter of one letter is found where the letter is: what is split   *)
(* there is what SplitString splits.                                       *)
LEMMA SplitAtOne ==
    ASSUME NEW C, NEW s \in Seq(C), NEW c \in C, NEW one, one = <<c>>
    PROVE  SplitStringUsingSubstr(s, one) = SplitString(s, c)
  <1> DEFINE n == Len(s)
             Hits(b) == {i \in b..Len(s) - Len(one) + 1 : SubSeq(s, i, i + Len(one) - 1) = one}
             Is(f) == f = [b \in 1..n + 1 |->
                 IF Hits(b) = {} THEN <<TrimString(From(s, b))>>
                 ELSE <<TrimString(SubSeq(s, b, Min(Hits(b)) - 1))>> \o f[Min(Hits(b)) + Len(one)]]
             g == [b \in 1..n + 1 |-> SplitString(From(s, b), c)]
             h == CHOOSE f : Is(f)
  <1>1. n \in Nat /\ \A i \in 1..n : s[i] \in C BY LenProperties, ElementOfSeq
  <1>2. Len(one) = 1 OBVIOUS
  <1>3. ASSUME NEW b \in 1..n + 1 PROVE Hits(b) = Ahead(s, c, b)
    <2>1. n - 1 + 1 = n /\ b \in Int /\ 1 <= b BY <1>1
    <2>2. ASSUME NEW i \in b..n PROVE SubSeq(s, i, i + 1 - 1) = one <=> s[i] = c
      <3>1. i \in 1..n /\ i + 1 - 1 = i BY <1>1, <2>1
      <3> DEFINE x == SubSeq(s, i, i)
      <3>2. x \in Seq(C) /\ Len(x) = 1 /\ x[1] = s[i]
        <4>1. /\ i \in Int /\ \A k \in i..i : s[k] \in C BY <1>1, <3>1
        <4>2. /\ x \in Seq(C) /\ Len(x) = IF i <= i THEN i - i + 1 ELSE 0
              /\ \A k \in 1..i - i + 1 : x[k] = s[i + k - 1]
          BY <4>1, SubSeqProperties
        <4>3. i - i + 1 = 1 /\ 1 \in 1..1 /\ i + 1 - 1 = i BY <3>1
        <4> HIDE DEF x
        <4> QED BY <4>2, <4>3
      <3> HIDE DEF x
      <3>3. one \in Seq(C) /\ one[1] = c OBVIOUS
      <3>4. s[i] = c => x = one
        <4> SUFFICES ASSUME s[i] = c PROVE x = one OBVIOUS
        <4>1. \A k \in 1..Len(x) : x[k] = one[k] BY <3>2, <3>3
        <4> QED BY <1>2, <3>2, <3>3, <4>1, SeqEqual
      <3> QED BY <3>1, <3>2, <3>3, <3>4 DEF x
    <2>3. {i \in b..n : SubSeq(s, i, i + 1 - 1) = one} = {i \in b..n : s[i] = c} BY <2>2
    <2>4. Hits(b) = {i \in b..n : SubSeq(s, i, i + 1 - 1) = one} BY <1>2, <2>1
    <2> QED BY <2>3, <2>4 DEF Ahead
  <1>4. \A f : Is(f) <=> f = [b \in 1..n + 1 |-> SplitFrom(s, c, b, f)]
    <2> TAKE f
    <2>1. \A b \in 1..n + 1 :
             (IF Hits(b) = {} THEN <<TrimString(From(s, b))>>
              ELSE <<TrimString(SubSeq(s, b, Min(Hits(b)) - 1))>> \o f[Min(Hits(b)) + Len(one)])
               = SplitFrom(s, c, b, f)
      <3> TAKE b \in 1..n + 1
      <3>1. Hits(b) = Ahead(s, c, b) BY <1>3
      <3> HIDE DEF Hits
      <3> QED BY <1>2, <3>1 DEF SplitFrom
    <2> HIDE DEF Hits
    <2> QED BY <2>1
  <1>5. SplitStringUsingSubstr(s, one) = h[1]
    BY DEF SplitStringUsingSubstr
  <1> HIDE DEF Is
  <1>6. \A i \in 1..n + 1 : g[i] = SplitString(From(s, i), c) OBVIOUS
  <1>7. g = [b \in 1..n + 1 |-> g[b]] OBVIOUS
  <1> HIDE DEF g, n
  <1>8. ASSUME NEW b \in 1..n + 1
        PROVE  /\ g[b] = SplitFrom(s, c, b, g)
               /\ Ahead(s, c, b) # {} => Min(Ahead(s, c, b)) + 1 \in b + 1..n + 1
    <2>1. b \in 1..Len(s) + 1 /\ \A i \in 1..Len(s) + 1 : g[i] = SplitString(From(s, i), c)
      BY <1>6 DEF n
    <2>2. /\ SplitString(From(s, b), c) = SplitFrom(s, c, b, g)
          /\ Ahead(s, c, b) # {} => Min(Ahead(s, c, b)) \in b..Len(s)
      BY <2>1, SplitOnward
    <2>3. \A m \in b..n : m + 1 \in b + 1..n + 1 BY <1>1
    <2> QED BY <1>6, <2>2, <2>3 DEF n
  <1>9. Is(g)
    <2>1. g = [b \in 1..n + 1 |-> SplitFrom(s, c, b, g)] BY <1>7, <1>8
    <2> QED BY <1>4, <2>1
  <1>10. Is(h)
    <2>1. \E f : Is(f) BY <1>9
    <2> QED BY <2>1
  <1>11. h = [b \in 1..n + 1 |-> SplitFrom(s, c, b, h)] BY <1>4, <1>10
  <1> HIDE DEF h
  <1> DEFINE K == {k \in Nat : \A b \in 1..n + 1 : b >= n + 1 - k => h[b] = g[b]}
  <1>12. ASSUME NEW b \in 1..n + 1, \A i \in b + 1..n + 1 : h[i] = g[i] PROVE h[b] = g[b]
    <2>1. h[b] = SplitFrom(s, c, b, h) BY <1>11
    <2>2. SplitFrom(s, c, b, h) = SplitFrom(s, c, b, g)
      <3>1. CASE Ahead(s, c, b) = {} BY <3>1 DEF SplitFrom
      <3>2. CASE Ahead(s, c, b) # {}
        <4>1. h[Min(Ahead(s, c, b)) + 1] = g[Min(Ahead(s, c, b)) + 1] BY <1>8, <1>12, <3>2
        <4> QED BY <3>2, <4>1 DEF SplitFrom
      <3> QED BY <3>1, <3>2
    <2> QED BY <1>8, <2>1, <2>2
  <1>13. 0 \in K
    <2>1. h[n + 1] = g[n + 1]
      <3>1. n + 1 \in 1..n + 1 /\ (n + 1) + 1..n + 1 = {} BY <1>1
      <3> QED BY <1>12, <3>1
    <2>2. \A b \in 1..n + 1 : b >= n + 1 - 0 => b = n + 1 BY <1>1
    <2> QED BY <2>1, <2>2
  <1>14. ASSUME NEW k \in Nat, k \in K PROVE k + 1 \in K
    <2> SUFFICES ASSUME NEW b \in 1..n + 1, b >= n + 1 - (k + 1) PROVE h[b] = g[b]
      OBVIOUS
    <2>1. \A i \in b + 1..n + 1 : i \in 1..n + 1 /\ i >= n + 1 - k BY <1>1
    <2>2. \A i \in b + 1..n + 1 : h[i] = g[i] BY <1>14, <2>1
    <2> QED BY <1>12, <2>2
  <1> HIDE DEF K
  <1>15. \A k \in Nat : k \in K BY <1>13, <1>14, InductionOver
  <1>16. n \in K BY <1>1, <1>15
  <1>17. h[1] = g[1]
    <2>1. 1 \in 1..n + 1 /\ 1 >= n + 1 - n BY <1>1
    <2> QED BY <1>16, <2>1 DEF K
  <1>18. g[1] = SplitString(s, c)
    <2>1. 1 \in 1..n + 1 BY <1>1
    <2>2. From(s, 1) = s BY SubSeqFull DEF From
    <2> QED BY <1>6, <2>1, <2>2
  <1> QED BY <1>5, <1>17, <1>18

(* The characters of a text that is split at signs.                        *)
kEquals == "="

Letters == STRING \cup {kBlank, kEquals}

LEMMA LettersAre ==
    /\ kBlank \in Letters /\ kEquals \in Letters
    /\ \A s : s \in Seq(STRING) => s \in Seq(Letters)
  <1>1. STRING \subseteq Letters /\ kBlank \in Letters /\ kEquals \in Letters BY DEF Letters
  <1>2. \A s \in Seq(STRING) : s \in Seq(Letters) BY <1>1, SeqMonotonic
  <1> QED BY <1>1, <1>2

(* Dashes before a name, and the sign behind it.                           *)
kDash == "-"

LEMMA SignsDiffer ==
    /\ kDash # kEquals /\ kDash # kBlank /\ kEquals # kBlank
    /\ kSwitchTerminator = <<kDash, kDash>>
  BY DEF kDash, kEquals, kBlank, kSwitchTerminator

(* A part of a text, by its places.                                        *)
LEMMA PartIs ==
    ASSUME NEW C, NEW s \in Seq(C), NEW i \in Nat \ {0}, NEW j \in Int, j <= Len(s),
           NEW x, x = SubSeq(s, i, j)
    PROVE  /\ x \in Seq(C) /\ Len(x) = (IF i <= j THEN j - i + 1 ELSE 0)
           /\ \A k \in 1..Len(x) : x[k] = s[i + k - 1]
  <1>1. \A k \in i..j : s[k] \in C
    <2> TAKE k \in i..j
    <2>1. k \in 1..Len(s) BY LenProperties
    <2> QED BY <2>1, ElementOfSeq
  <1> DEFINE y == SubSeq(s, i, j)
  <1>2. /\ y \in Seq(C) /\ Len(y) = (IF i <= j THEN j - i + 1 ELSE 0)
        /\ \A k \in 1..j - i + 1 : y[k] = s[i + k - 1]
    BY <1>1, SubSeqProperties
  <1>3. x = y OBVIOUS
  <1> HIDE DEF y
  <1>4. \A k \in 1..Len(y) : k \in 1..j - i + 1 BY <1>2
  <1> QED BY <1>2, <1>3, <1>4

(* A text that lacks a character lacks it in its parts.                    *)
LEMMA PartLacks ==
    ASSUME NEW C, NEW s \in Seq(C), NEW i \in Nat \ {0}, NEW j \in Int, j <= Len(s),
           NEW c, Lacks(s, c)
    PROVE  Lacks(SubSeq(s, i, j), c)
  <1> DEFINE x == SubSeq(s, i, j)
  <1>1. /\ x \in Seq(C) /\ Len(x) = (IF i <= j THEN j - i + 1 ELSE 0)
        /\ \A k \in 1..Len(x) : x[k] = s[i + k - 1]
    <2> HIDE DEF x
    <2>1. x = SubSeq(s, i, j) BY DEF x
    <2> QED BY <2>1, PartIs
  <1> HIDE DEF x
  <1>2. ASSUME NEW k \in 1..Len(x) PROVE x[k] # c
    <2>1. i + k - 1 \in 1..Len(s) BY <1>1, LenProperties
    <2> QED BY <1>1, <2>1 DEF Lacks
  <1> QED BY <1>2 DEF Lacks, x

(* A switch prefix begins with a dash.                                     *)
LEMMA PrefixIs ==
    ASSUME NEW C, NEW s \in Seq(C)
    PROVE  /\ GetSwitchPrefixLength(s) \in 0..2 /\ GetSwitchPrefixLength(s) <= Len(s)
           /\ IsSwitch(s) <=> Len(s) >= 1 /\ s[1] = kDash
           /\ s = kSwitchTerminator => GetSwitchPrefixLength(s) = 2
  <1> DEFINE n == Len(s)
             two == SubSeq(s, 1, 2)
             p == GetSwitchPrefixLength(s)
  <1>1. n \in Nat BY LenProperties
  <1>2. kSwitchTerminator = <<kDash, kDash>> BY SignsDiffer
  <1>3. p = IF n >= 2 /\ two = kSwitchTerminator THEN 2
            ELSE IF n >= 1 /\ s[1] = kDash THEN 1 ELSE 0
    BY DEF GetSwitchPrefixLength, kSwitchTerminator, kDash
  <1> DEFINE cc == kSwitchTerminator
  <1>4. cc[1] = kDash /\ Len(cc) = 2 BY <1>2
  <1>5. n >= 2 => two[1] = s[1]
    <2> SUFFICES ASSUME n >= 2 PROVE two[1] = s[1] OBVIOUS
    <2> HIDE DEF two
    <2>1. two = SubSeq(s, 1, 2) BY DEF two
    <2>2. 1 \in Nat \ {0} /\ 2 \in Int /\ 2 <= Len(s) BY DEF n
    <2>3. /\ Len(two) = (IF 1 <= 2 THEN 2 - 1 + 1 ELSE 0)
          /\ \A k \in 1..Len(two) : two[k] = s[1 + k - 1]
      BY <2>1, <2>2, PartIs
    <2>4. 1 \in 1..Len(two) /\ 1 + 1 - 1 = 1 BY <2>3
    <2> QED BY <2>3, <2>4
  <1>6. s = cc => n = 2 /\ two = cc
    <2>1. SubSeq(s, 1, Len(s)) = s BY SubSeqFull
    <2> QED BY <1>4, <2>1
  <1> HIDE DEF n, two, cc, p
  <1>7. p > 0 <=> n >= 1 /\ s[1] = kDash BY <1>1, <1>3, <1>4, <1>5 DEF cc
  <1>8. p \in 0..2 /\ p <= n BY <1>1, <1>3
  <1>9. s = cc => p = 2 BY <1>3, <1>6 DEF cc
  <1> QED BY <1>7, <1>8, <1>9 DEF p, n, cc, IsSwitch

(* Without a sign all is name.                                             *)
LEMMA NameOnly ==
    ASSUME NEW C, NEW s \in Seq(C), Lacks(s, kEquals)
    PROVE  SwitchString(s) = s /\ SwitchValue(s) = <<>> /\ CombinedSwitch(s) = s
  <1> DEFINE n == Len(s)
             S == {kEquals}
             m == FirstOf(s, S)
  <1>1. n \in Nat BY LenProperties
  <1>2. m = n + 1
    <2> HIDE DEF S
    <2>1. /\ m \in 1..Len(s) + 1
          /\ m <= Len(s) => s[m] \in S
      BY <1>1, FirstOfIs
    <2> HIDE DEF m
    <2>2. ~(m <= n)
      <3> SUFFICES ASSUME m <= n PROVE FALSE OBVIOUS
      <3>1. m \in 1..n /\ s[m] = kEquals BY <2>1 DEF S
      <3> QED BY <3>1 DEF Lacks
    <2> QED BY <1>1, <2>1, <2>2
  <1>3. S = {"="} BY DEF kEquals
  <1> HIDE DEF m
  <1>4. m = FirstOf(s, {"="}) BY <1>3 DEF m
  <1>5. SwitchString(s) = s
    <2>1. SwitchString(s) = SubSeq(s, 1, m - 1) BY <1>4 DEF SwitchString, Upto
    <2>2. m - 1 = Len(s) BY <1>1, <1>2
    <2> QED BY <2>1, <2>2, SubSeqFull
  <1>6. SwitchValue(s) = <<>>
    <2>1. SwitchValue(s) = SubSeq(s, m + 1, Len(s)) BY <1>4 DEF SwitchValue, From
    <2>2. m + 1 \in Int /\ Len(s) \in Int /\ Len(s) < m + 1 BY <1>1, <1>2
    <2> QED BY <2>1, <2>2, SubSeqEmpty
  <1> QED BY <1>5, <1>6 DEF CombinedSwitch

(* With one, the switch is the word, or loses the sign at its end.         *)
LEMMA CombinedIs ==
    ASSUME NEW C, NEW s \in Seq(C), NEW x, x = CombinedSwitch(s)
    PROVE  \/ x = s
           \/ /\ SwitchValue(s) = <<>> /\ x = SwitchString(s) /\ Lacks(x, kEquals)
              /\ x = SubSeq(s, 1, Len(x)) /\ Len(x) \in Nat /\ Len(x) < Len(s)
              /\ s[Len(x) + 1] = kEquals
  <1> DEFINE n == Len(s)
             S == {kEquals}
             m == FirstOf(s, S)
  <1>1. n \in Nat BY LenProperties
  <1>2. /\ m \in 1..n + 1 /\ (\A i \in 1..n : i < m => s[i] \notin S)
        /\ m <= n => s[m] \in S
    <2> HIDE DEF S
    <2>1. /\ m \in 1..Len(s) + 1 /\ (\A i \in 1..Len(s) : i < m => s[i] \notin S)
          /\ m <= Len(s) => s[m] \in S
      BY <1>1, FirstOfIs
    <2> HIDE DEF m
    <2> QED BY <2>1
  <1>3. S = {"="} BY DEF kEquals
  <1> HIDE DEF m
  <1>4. m = FirstOf(s, {"="}) BY <1>3 DEF m
  <1> DEFINE u == SubSeq(s, 1, m - 1)
             v == SubSeq(s, m + 1, n)
  <1>5. SwitchString(s) = u /\ SwitchValue(s) = v
    BY <1>4 DEF SwitchString, SwitchValue, Upto, From
  <1>6. /\ u \in Seq(C) /\ Len(u) = m - 1
        /\ \A k \in 1..m - 1 : u[k] = s[k]
    <2> HIDE DEF u
    <2>1. u = SubSeq(s, 1, m - 1) BY DEF u
    <2>2. 1 \in Nat \ {0} /\ m - 1 \in Int /\ m - 1 <= Len(s) BY <1>1, <1>2
    <2>3. /\ u \in Seq(C) /\ Len(u) = (IF 1 <= m - 1 THEN m - 1 - 1 + 1 ELSE 0)
          /\ \A k \in 1..Len(u) : u[k] = s[1 + k - 1]
      BY <2>1, <2>2, PartIs
    <2>4. Len(u) = m - 1 /\ \A k \in 1..m - 1 : 1 + k - 1 = k BY <1>2, <2>3
    <2> QED BY <2>3, <2>4
  <1>7. Lacks(u, kEquals)
    <2> HIDE DEF u
    <2>1. \A k \in 1..m - 1 : k \in 1..n /\ k < m BY <1>1, <1>2
    <2>2. \A k \in 1..m - 1 : s[k] # kEquals BY <1>2, <2>1
    <2> QED BY <1>6, <2>2 DEF Lacks
  <1>8. CASE m = n + 1
    <2>1. u = s
      <3>1. m - 1 = Len(s) BY <1>1, <1>8
      <3> QED BY <3>1, SubSeqFull
    <2> HIDE DEF u
    <2>2. x = s BY <1>7, <2>1, NameOnly
    <2> QED BY <2>2
  <1>9. CASE m <= n
    <2>1. m \in 1..n /\ s[m] = kEquals BY <1>2, <1>9
    <2>2. CASE v = <<>>
      <3>1. x = u BY <1>5, <2>2 DEF CombinedSwitch
      <3>2. Len(x) = m - 1 BY <1>6, <3>1
      <3>3. m - 1 \in Nat /\ m - 1 < n /\ (m - 1) + 1 = m BY <1>1, <2>1
      <3>4. x = SubSeq(s, 1, Len(x)) BY <3>1, <3>2
      <3> HIDE DEF u, v
      <3>5. SwitchValue(s) = <<>> /\ x = SwitchString(s) BY <1>5, <2>2, <3>1
      <3>6. Lacks(x, kEquals) BY <1>7, <3>1
      <3>7. Len(x) \in Nat /\ Len(x) < Len(s) /\ s[Len(x) + 1] = kEquals
        BY <2>1, <3>2, <3>3
      <3> QED BY <3>4, <3>5, <3>6, <3>7
    <2>3. CASE v # <<>>
      <3>1. x = u \o <<kEquals>> \o v BY <1>5, <2>3 DEF CombinedSwitch, kEquals
      <3>2. SubSeq(s, 1, m - 1) \o SubSeq(s, m, n) = SubSeq(s, 1, n)
        <4>1. /\ 1 \in 1..Len(s) + 1 /\ m - 1 \in 1 - 1..Len(s) /\ n \in m - 1..Len(s)
              /\ m - 1 + 1 = m
          BY <1>1, <2>1
        <4> DEFINE k == m - 1
        <4> HIDE DEF k, n
        <4>2. SubSeq(s, 1, k) \o SubSeq(s, k + 1, n) = SubSeq(s, 1, n)
          BY <4>1, ConcatAdjacentSubSeq DEF k
        <4> QED BY <4>1, <4>2 DEF k
      <3>3. SubSeq(s, m, n) = <<s[m]>> \o v
        <4>1. m \in 1..Len(s) /\ n \in m..Len(s) BY <1>1, <2>1
        <4> QED BY <4>1, SubSeqRecursiveFirst
      <3>4. SubSeq(s, 1, n) = s BY SubSeqFull
      <3>5. v \in Seq(C) /\ <<kEquals>> \in Seq(C)
        <4>1. s[m] \in C BY <2>1, ElementOfSeq
        <4>2. kEquals \in C BY <2>1, <4>1
        <4>3. m + 1 \in Nat \ {0} /\ n \in Int /\ n <= Len(s) BY <1>1, <2>1
        <4> HIDE DEF v
        <4>4. v = SubSeq(s, m + 1, n) BY DEF v
        <4>5. v \in Seq(C) BY <4>3, <4>4, PartIs
        <4> QED BY <4>2, <4>5
      <3> DEFINE one == <<kEquals>>
      <3>6. s = u \o (one \o v) BY <2>1, <3>2, <3>3, <3>4
      <3>7. x = (u \o one) \o v BY <3>1
      <3> HIDE DEF u, v, one
      <3>8. (u \o one) \o v = u \o (one \o v) BY <1>6, <3>5, ConcatAssociative DEF one
      <3> QED BY <3>6, <3>7, <3>8
    <2> QED BY <2>2, <2>3
  <1>10. m = n + 1 \/ m <= n BY <1>1, <1>2
  <1> QED BY <1>8, <1>9, <1>10

(* What argv_ keeps of a switch is the same switch, and is read so again,  *)
(* if it has a name.                                                       *)
SameSwitch(x, w) ==
    /\ SwitchKey(x) = SwitchKey(w) /\ SwitchValue(x) = SwitchValue(w)
    /\ CombinedSwitch(x) = x
    /\ Bare(w) => Bare(x)
    /\ IsSwitch(w) => IsSwitch(x)
    /\ IsSwitch(w) /\ SwitchKey(w) # <<>> => x # kSwitchTerminator

LEMMA CombinedAgain ==
    ASSUME NEW C, NEW w \in Seq(C), NEW x, x = CombinedSwitch(w)
    PROVE  x \in Seq(C) /\ SameSwitch(x, w)
  <1>1. \/ x = w
        \/ /\ SwitchValue(w) = <<>> /\ x = SwitchString(w) /\ Lacks(x, kEquals)
           /\ x = SubSeq(w, 1, Len(x)) /\ Len(x) \in Nat /\ Len(x) < Len(w)
           /\ w[Len(x) + 1] = kEquals
    BY CombinedIs
  <1>2. /\ x \in Seq(C) /\ SwitchString(x) = SwitchString(w) /\ SwitchValue(x) = SwitchValue(w)
        /\ CombinedSwitch(x) = x /\ (Bare(w) => Bare(x)) /\ (IsSwitch(w) => IsSwitch(x))
    <2>1. CASE x = w
      <3>1. CombinedSwitch(x) = x BY <2>1
      <3> QED BY <2>1, <3>1
    <2>2. CASE /\ SwitchValue(w) = <<>> /\ x = SwitchString(w) /\ Lacks(x, kEquals)
               /\ x = SubSeq(w, 1, Len(x)) /\ Len(x) \in Nat /\ Len(x) < Len(w)
               /\ w[Len(x) + 1] = kEquals
      <3> DEFINE m == Len(x)
      <3>1. m \in Nat /\ m < Len(w) /\ x = SubSeq(w, 1, m) /\ w[m + 1] = kEquals BY <2>2
      <3> HIDE DEF m
      <3>2. Len(w) \in Nat BY LenProperties
      <3>3. 1 \in Nat \ {0} /\ m \in Int /\ m <= Len(w) BY <3>1, <3>2
      <3>4. /\ x \in Seq(C) /\ Len(x) = (IF 1 <= m THEN m - 1 + 1 ELSE 0)
            /\ \A k \in 1..Len(x) : x[k] = w[1 + k - 1]
        BY <3>1, <3>3, PartIs
      <3>5. Bare(w) => Bare(x)
        <4> SUFFICES ASSUME Lacks(w, kBlank) PROVE Lacks(x, kBlank) BY DEF Bare
        <4>1. Lacks(SubSeq(w, 1, m), kBlank) BY <3>3, PartLacks
        <4> QED BY <3>1, <4>1
      <3>6. IsSwitch(w) => IsSwitch(x)
        <4> SUFFICES ASSUME IsSwitch(w) PROVE IsSwitch(x) OBVIOUS
        <4>1. w[1] = kDash BY PrefixIs
        <4>2. m # 0
          <5> SUFFICES ASSUME m = 0 PROVE FALSE OBVIOUS
          <5>1. w[1] = kEquals BY <3>1
          <5> QED BY <4>1, <5>1, SignsDiffer
        <4>3. Len(x) = m /\ 1 \in 1..Len(x) /\ 1 + 1 - 1 = 1 BY <3>1, <3>4, <4>2
        <4>4. Len(x) >= 1 /\ x[1] = kDash BY <3>4, <4>1, <4>3
        <4> QED BY <3>4, <4>4, PrefixIs
      <3>7. SwitchString(x) = x /\ SwitchValue(x) = <<>> /\ CombinedSwitch(x) = x
        BY <2>2, <3>4, NameOnly
      <3> QED BY <2>2, <3>4, <3>5, <3>6, <3>7
    <2> QED BY <1>1, <2>1, <2>2
  <1>3. SwitchKey(x) = SwitchKey(w) BY <1>2 DEF SwitchKey
  <1>4. ASSUME SwitchKey(w) # <<>> PROVE x # kSwitchTerminator
    <2> SUFFICES ASSUME x = kSwitchTerminator PROVE FALSE OBVIOUS
    <2>1. x = <<kDash, kDash>> BY SignsDiffer
    <2>2. Len(x) = 2 /\ x[1] = kDash /\ x[2] = kDash BY <2>1
    <2>3. Lacks(x, kEquals)
      <3>1. \A i \in 1..2 : i = 1 \/ i = 2 OBVIOUS
      <3> QED BY <2>2, <3>1, SignsDiffer DEF Lacks
    <2>4. SwitchString(x) = x BY <1>2, <2>3, NameOnly
    <2>5. GetSwitchPrefixLength(x) = 2 BY <1>2, PrefixIs
    <2>6. SwitchKey(x) = SubSeq(x, 2 + 1, Len(x)) BY <2>4, <2>5 DEF SwitchKey, From
    <2>7. SwitchKey(x) = <<>>
      <3>1. 2 + 1 \in Int /\ Len(x) \in Int /\ Len(x) < 2 + 1 BY <2>2
      <3> QED BY <2>6, <3>1, SubSeqEmpty
    <2> QED BY <1>3, <1>4, <2>7
  <1> QED BY <1>2, <1>3, <1>4 DEF SameSwitch

(* The line made of words, and words without blanks.                       *)
LineOf(words) == FoldLeft(AppendArgument, NoProgram, words)

BareWords(words, C) ==
    words \in Seq(Seq(C)) /\ \A i \in 1..Len(words) : Bare(words[i])

LEMMA BareWordsAre ==
    ASSUME NEW C, NEW words, BareWords(words, C)
    PROVE  WordsAre(words)
  <1> DEFINE n == Len(words)
             T == Seq(C)
             g == [k \in 1..n |-> words[k]]
  <1>1. words \in Seq(T) /\ \A i \in 1..n : Bare(words[i]) BY DEF BareWords
  <1>2. n \in Nat /\ words \in [1..n -> T] BY <1>1, LenProperties
  <1>3. \A i \in 1..n : TrimString(words[i]) = words[i]
    <2> TAKE i \in 1..n
    <2>1. words[i] \in Seq(C) /\ Bare(words[i]) BY <1>1, <1>2
    <2> QED BY <2>1, TrimBare
  <1>4. g = words
    <2> HIDE DEF T, n
    <2> QED BY <1>2
  <1>5. Len(words) = n /\ words \in Seq({words[k] : k \in 1..n}) /\ DOMAIN words = 1..n
    <2> HIDE DEF n
    <2>1. words = [k \in 1..n |-> words[k]] BY <1>4
    <2> QED BY <1>2, <2>1, SequenceOf
  <1> QED BY <1>2, <1>3, <1>5 DEF WordsAre

LEMMA BareAppend ==
    ASSUME NEW C, NEW words, BareWords(words, C), NEW x \in Seq(C), Bare(x)
    PROVE  BareWords(Append(words, x), C)
  <1> DEFINE T == Seq(C)
             n == Len(words)
             t == Append(words, x)
  <1>1. words \in Seq(T) /\ x \in T /\ \A i \in 1..n : Bare(words[i]) BY DEF BareWords
  <1> HIDE DEF T
  <1>2. /\ n \in Nat /\ t \in Seq(T) /\ Len(t) = n + 1 /\ t[n + 1] = x
        /\ \A i \in 1..n : t[i] = words[i]
    BY <1>1, LenProperties, AppendProperties
  <1> HIDE DEF t, n
  <1>3. ASSUME NEW i \in 1..Len(t) PROVE Bare(t[i])
    <2>1. i \in 1..n \/ i = n + 1 BY <1>2
    <2> QED BY <1>1, <1>2, <2>1
  <1> QED BY <1>2, <1>3 DEF BareWords, T, t

(* A word more is a turn more.                                             *)
LEMMA LineOfMore ==
    ASSUME NEW C, NEW words, BareWords(words, C), NEW x \in Seq(C), Bare(x),
           NEW all, all = Append(words, x)
    PROVE  LineOf(all) = AppendArgument(LineOf(words), x)
  <1> DEFINE n == Len(words)
  <1>1. BareWords(all, C) BY BareAppend
  <1>2. WordsAre(words) /\ WordsAre(all) BY <1>1, BareWordsAre
  <1>3. PICK r : LineSteps(r, words) BY <1>2, LineLoop
  <1>4. PICK q : LineSteps(q, all) BY <1>2, LineLoop
  <1>5. /\ n \in Nat /\ Len(all) = n + 1 /\ all[n + 1] = x
        /\ \A i \in 1..n : all[i] = words[i]
    <2> DEFINE T == Seq(C)
    <2>1. words \in Seq(T) /\ x \in T BY DEF BareWords
    <2> HIDE DEF T
    <2> QED BY <2>1, LenProperties, AppendProperties
  <1>6. /\ r[0] = NoProgram /\ r[n] = LineOf(words)
        /\ \A k \in 1..n : r[k] = AppendArgument(r[k - 1], words[k])
    BY <1>3 DEF LineSteps, LineOf
  <1>7. /\ q[0] = NoProgram /\ q[n + 1] = LineOf(all)
        /\ \A k \in 1..n + 1 : q[k] = AppendArgument(q[k - 1], all[k])
    BY <1>4, <1>5 DEF LineSteps, LineOf
  <1> HIDE DEF n
  <1> DEFINE K == {k \in Nat : q[k] = r[k]}
  <1>8. 0 \in K BY <1>6, <1>7
  <1>9. ASSUME NEW k \in 1..n, k - 1 \in K PROVE k \in K
    <2>1. k \in 1..n + 1 /\ k \in Nat /\ q[k - 1] = r[k - 1] BY <1>5, <1>9
    <2>2. q[k] = r[k] BY <1>5, <1>6, <1>7, <2>1
    <2> QED BY <2>1, <2>2
  <1> HIDE DEF K
  <1>10. \A k \in 0..n : k \in K BY <1>5, <1>8, <1>9, InductionUpTo
  <1>11. n \in K BY <1>5, <1>10
  <1>12. q[n] = r[n] BY <1>11 DEF K
  <1>13. n + 1 \in 1..n + 1 /\ (n + 1) - 1 = n BY <1>5
  <1>14. q[n + 1] = AppendArgument(q[(n + 1) - 1], all[n + 1]) BY <1>7, <1>13
  <1> QED BY <1>5, <1>6, <1>7, <1>12, <1>13, <1>14

LEMMA LineOfNone == LineOf(<<>>) = NoProgram
  <1> DEFINE e == <<>>
  <1>1. e \in Seq(Seq(STRING)) /\ Len(e) = 0 BY EmptySeq
  <1> HIDE DEF e
  <1>2. BareWords(e, STRING) BY <1>1 DEF BareWords
  <1>3. WordsAre(e) BY <1>2, BareWordsAre
  <1>4. PICK r : LineSteps(r, e) BY <1>3, LineLoop
  <1>5. r[0] = NoProgram /\ r[0] = LineOf(e) BY <1>1, <1>4 DEF LineSteps, LineOf
  <1> QED BY <1>5 DEF e

(* A line, by the switches and the arguments it was made of.               *)
LineWith(sw, args, f, p) ==
    [argv |-> << <<>> >> \o sw \o args, begin |-> Len(sw) + 2, switches |-> f, parsing |-> p]

(* A turn with a switch, and with any other word.                          *)
Taken(next, sw, args, f, p, x) ==
    IF (p /\ x # kSwitchTerminator) /\ IsSwitch(x)
    THEN next = LineWith(Append(sw, CombinedSwitch(x)), args,
                         SetSwitch(f, SwitchKey(x), SwitchValue(x)), TRUE)
    ELSE next = LineWith(sw, Append(args, x), f, p /\ x # kSwitchTerminator)

LEMMA TurnRead ==
    ASSUME NEW C, NEW sw \in Seq(Seq(C)), NEW args \in Seq(Seq(C)), NEW f, NEW p \in BOOLEAN,
           NEW x \in Seq(C), Bare(x), NEW l, l = LineWith(sw, args, f, p),
           NEW next, next = AppendArgument(l, x)
    PROVE  Taken(next, sw, args, f, p, x)
  <1> DEFINE W == Seq(C)
             e == <<>>
             c == kSwitchTerminator
             y == CombinedSwitch(x)
             g == SetSwitch(f, SwitchKey(x), SwitchValue(x))
  <1>1. TrimString(x) = x BY TrimBare
  <1>2. y \in W /\ x \in W /\ e \in W
    <2> HIDE DEF y
    <2>1. y = CombinedSwitch(x) BY DEF y
    <2>2. y \in Seq(C) BY <2>1, CombinedAgain
    <2> QED BY <2>2, EmptySeq
  <1>3. /\ Fields(l) /\ l.argv = <<e>> \o sw \o args /\ l.begin = Len(sw) + 2 /\ l.switches = f
        /\ l.parsing = p
    <2> DEFINE a == <<e>> \o sw \o args
               b == Len(sw) + 2
    <2>1. l = [argv |-> a, begin |-> b, switches |-> f, parsing |-> p] BY DEF LineWith
    <2> HIDE DEF a, b
    <2>2. Fields(l) /\ l.argv = a /\ l.begin = b /\ l.switches = f /\ l.parsing = p
      BY <2>1 DEF Fields
    <2> QED BY <2>2 DEF a, b
  <1>4. Elements(l.argv, e, sw, args) BY <1>3 DEF Elements
  <1>5. /\ Fields(next)
        /\ next.parsing <=> l.parsing /\ x # c
        /\ IF (l.parsing /\ x # c) /\ IsSwitch(x)
           THEN /\ next.argv = InsertAt(l.argv, l.begin, y) /\ next.begin = l.begin + 1
                /\ next.switches = SetSwitch(l.switches, SwitchKey(x), SwitchValue(x))
           ELSE /\ next.argv = Append(l.argv, x) /\ next.begin = l.begin
                /\ next.switches = l.switches
    <2> HIDE DEF y, c
    <2>1. Fields(l) /\ TrimString(x) = x /\ next = AppendArgument(l, x) BY <1>1, <1>3
    <2>2. /\ Fields(next)
          /\ next.parsing <=> l.parsing /\ x # kSwitchTerminator
          /\ IF (l.parsing /\ x # kSwitchTerminator) /\ IsSwitch(x)
             THEN /\ next.argv = InsertAt(l.argv, l.begin, CombinedSwitch(x))
                  /\ next.begin = l.begin + 1
                  /\ next.switches = SetSwitch(l.switches, SwitchKey(x), SwitchValue(x))
             ELSE /\ next.argv = Append(l.argv, x) /\ next.begin = l.begin
                  /\ next.switches = l.switches
      BY <2>1, AppendedIs
    <2> QED BY <2>2 DEF y, c
  <1>6. next.parsing \in BOOLEAN
    <2>1. next.parsing = (l.parsing /\ TrimString(x) # kSwitchTerminator)
      <3> DEFINE q == l.parsing /\ TrimString(x) # kSwitchTerminator
                 r == [l EXCEPT !.parsing = q]
      <3>1. r.parsing = q /\ DOMAIN r = {"argv", "begin", "switches", "parsing"}
        BY <1>3 DEF Fields
      <3>2. next = IF q /\ IsSwitch(x) THEN AppendSwitch(r, x) ELSE AppendArg(r, x)
        BY <1>1 DEF AppendArgument
      <3> HIDE DEF q, r
      <3>3. next.parsing = q BY <3>1, <3>2 DEF AppendSwitch, AppendArg
      <3> QED BY <3>3 DEF q
    <2> QED BY <2>1
  <1>7. sw \in Seq(W) /\ args \in Seq(W) OBVIOUS
  <1> HIDE DEF W, y, c
  <1>8. /\ Elements(InsertAt(l.argv, Len(sw) + 2, y), e, Append(sw, y), args)
        /\ Elements(Append(l.argv, x), e, sw, Append(args, x))
    <2> DEFINE argv == l.argv
    <2>1. Elements(argv, e, sw, args) BY <1>4
    <2> HIDE DEF e, argv
    <2>2. Elements(InsertAt(argv, Len(sw) + 2, y), e, Append(sw, y), args)
      BY <1>2, <1>7, <2>1, ElementAdded
    <2>3. Elements(Append(argv, x), e, sw, Append(args, x))
      BY <1>2, <1>7, <2>1, ElementAdded
    <2> QED BY <2>2, <2>3 DEF argv
  <1>9. CASE (p /\ x # c) /\ IsSwitch(x)
    <2>1. next.argv = InsertAt(l.argv, Len(sw) + 2, y) /\ next.begin = Len(sw) + 2 + 1
          /\ next.switches = g
      BY <1>3, <1>5, <1>9
    <2>2. Len(Append(sw, y)) = Len(sw) + 1 /\ Len(sw) \in Nat
      BY <1>2, <1>7, AppendProperties, LenProperties
    <2>3. next.begin = Len(Append(sw, y)) + 2 BY <2>1, <2>2
    <2>4. next.argv = <<e>> \o Append(sw, y) \o args BY <1>8, <2>1 DEF Elements
    <2>5. next.parsing = TRUE BY <1>3, <1>5, <1>6, <1>9
    <2>6. next = LineWith(Append(sw, y), args, g, TRUE)
      <3> DEFINE a == <<e>> \o Append(sw, y) \o args
                 b == Len(Append(sw, y)) + 2
      <3>1. next.argv = a /\ next.begin = b BY <2>3, <2>4
      <3> HIDE DEF a, b, g
      <3>2. next = [argv |-> a, begin |-> b, switches |-> g, parsing |-> TRUE]
        BY <1>5, <2>1, <2>5, <3>1 DEF Fields
      <3> QED BY <3>2 DEF a, b, LineWith
    <2> QED BY <1>9, <2>6 DEF y, c, Taken
  <1>10. CASE ~((p /\ x # c) /\ IsSwitch(x))
    <2>1. next.argv = Append(l.argv, x) /\ next.begin = Len(sw) + 2 /\ next.switches = f
      BY <1>3, <1>5, <1>10
    <2>2. next.argv = <<e>> \o sw \o Append(args, x) BY <1>8, <2>1 DEF Elements
    <2>3. next.parsing = (p /\ x # c) BY <1>3, <1>5, <1>6
    <2>4. next = LineWith(sw, Append(args, x), f, p /\ x # c)
      <3> DEFINE a == <<e>> \o sw \o Append(args, x)
                 b == Len(sw) + 2
                 q == p /\ x # c
      <3>1. next.argv = a /\ next.begin = b /\ next.parsing = q BY <2>1, <2>2, <2>3
      <3> HIDE DEF a, b, q
      <3>2. next = [argv |-> a, begin |-> b, switches |-> f, parsing |-> q]
        BY <1>5, <2>1, <3>1 DEF Fields
      <3> QED BY <3>2 DEF a, b, q, LineWith
    <2> QED BY <1>10, <2>4 DEF c, Taken
  <1> QED BY <1>9, <1>10

(* The name of a switch is a text.                                         *)
LEMMA KeyIsText ==
    ASSUME NEW C, NEW x \in Seq(C)
    PROVE  SwitchKey(x) \in Seq(C)
  <1> DEFINE s == SwitchString(x)
             m == FirstOf(x, {"="})
             p == GetSwitchPrefixLength(s)
             k == SubSeq(s, p + 1, Len(s))
  <1>1. Len(x) \in Nat BY LenProperties
  <1>2. m \in 1..Len(x) + 1
    <2> DEFINE S == {"="}
    <2> HIDE DEF S
    <2>1. FirstOf(x, S) \in 1..Len(x) + 1 BY <1>1, FirstOfIs
    <2> QED BY <2>1 DEF S
  <1>3. s \in Seq(C)
    <2>1. s = SubSeq(x, 1, m - 1) BY DEF SwitchString, Upto
    <2> HIDE DEF s, m
    <2>2. 1 \in Nat \ {0} /\ m - 1 \in Int /\ m - 1 <= Len(x) BY <1>1, <1>2
    <2> QED BY <2>1, <2>2, PartIs
  <1> HIDE DEF s
  <1>4. p \in 0..2 /\ Len(s) \in Nat BY <1>3, PrefixIs, LenProperties
  <1> HIDE DEF p
  <1>5. p + 1 \in Nat \ {0} /\ Len(s) \in Int /\ Len(s) <= Len(s) BY <1>4
  <1>6. k \in Seq(C)
    <2> HIDE DEF k
    <2>1. k = SubSeq(s, p + 1, Len(s)) BY DEF k
    <2> QED BY <1>3, <1>5, <2>1, PartIs
  <1>7. SwitchKey(x) = k BY DEF SwitchKey, From, k, p, s
  <1> QED BY <1>6, <1>7

(* What is said of every line that is made: the words in it have no blanks,*)
(* a switch is kept in the form in which it is read again, an argument is  *)
(* no switch unless a terminator is before it, and the loop goes on until  *)
(* one.  The switches alone, if none is called "" or begins with a dash,   *)
(* are read as the line without its arguments.                             *)
Named(f) == \A key \in DOMAIN f : key # <<>> /\ key[1] # kDash

Stable(sw) == \A j \in 1..Len(sw) : CombinedSwitch(sw[j]) = sw[j]

Closed(args) ==
    \A j \in 1..Len(args) : IsSwitch(args[j]) => \E i \in 1..j : args[i] = kSwitchTerminator

Values(f) ==
    /\ IsFiniteSet(DOMAIN f) /\ DOMAIN f \subseteq Seq(Letters)
    /\ f = [key \in DOMAIN f |-> f[key]]

Kept(l, sw, args) ==
    /\ BareWords(sw, Letters) /\ BareWords(args, Letters)
    /\ Stable(sw) /\ Closed(args) /\ Values(l.switches)
    /\ l = LineWith(sw, args, l.switches, ~Ends(args))
    /\ Named(l.switches) => LineOf(sw) = LineWith(sw, <<>>, l.switches, TRUE)

LEMMA StableAppend ==
    ASSUME NEW W, NEW sw \in Seq(W), Stable(sw), NEW x \in W, CombinedSwitch(x) = x
    PROVE  Stable(Append(sw, x))
  <1> DEFINE t == Append(sw, x)
             n == Len(sw)
  <1>1. n \in Nat /\ Len(t) = n + 1 /\ t[n + 1] = x /\ \A i \in 1..n : t[i] = sw[i]
    BY LenProperties, AppendProperties
  <1> HIDE DEF t
  <1>2. ASSUME NEW j \in 1..Len(t) PROVE CombinedSwitch(t[j]) = t[j]
    <2>1. j = n + 1 \/ j \in 1..n BY <1>1
    <2>2. CASE j = n + 1 BY <1>1, <2>2
    <2>3. CASE j \in 1..n BY <1>1, <2>3 DEF Stable
    <2> QED BY <2>1, <2>2, <2>3
  <1> QED BY <1>2 DEF Stable, t

LEMMA ClosedAppend ==
    ASSUME NEW W, NEW args \in Seq(W), Closed(args), NEW x \in W,
           IsSwitch(x) => Ends(args) \/ x = kSwitchTerminator
    PROVE  Closed(Append(args, x))
  <1> DEFINE t == Append(args, x)
             n == Len(args)
             c == kSwitchTerminator
  <1>1. n \in Nat /\ Len(t) = n + 1 /\ t[n + 1] = x /\ \A i \in 1..n : t[i] = args[i]
    BY LenProperties, AppendProperties
  <1>2. Ends(args) => \E i \in 1..n : args[i] = c BY DEF Ends
  <1> HIDE DEF t, c, n
  <1>3. ASSUME NEW j \in 1..Len(t), IsSwitch(t[j]) PROVE \E i \in 1..j : t[i] = c
    <2>1. j = n + 1 \/ j \in 1..n BY <1>1
    <2>2. CASE j = n + 1
      <3>1. CASE Ends(args)
        <4>1. PICK i \in 1..n : args[i] = c BY <1>2, <3>1
        <4>2. i \in 1..j /\ t[i] = c BY <1>1, <2>2, <4>1
        <4> QED BY <4>2
      <3>2. CASE x = c
        <4>1. j \in 1..j /\ t[j] = c BY <1>1, <2>2, <3>2
        <4> QED BY <4>1
      <3> QED BY <1>1, <1>3, <2>2, <3>1, <3>2 DEF c
    <2>3. CASE j \in 1..n
      <3>1. IsSwitch(args[j]) BY <1>1, <1>3, <2>3
      <3>2. PICK i \in 1..j : args[i] = c BY <2>3, <3>1 DEF Closed, c, n
      <3>3. i \in 1..n BY <1>1, <2>3
      <3>4. t[i] = c BY <1>1, <3>2, <3>3
      <3> QED BY <3>4
    <2> QED BY <2>1, <2>2, <2>3
  <1> QED BY <1>3 DEF Closed, t, c

(* A terminator, once among the arguments, stays there.                    *)
LEMMA EndsAppend ==
    ASSUME NEW W, NEW args \in Seq(W), NEW x \in W
    PROVE  Ends(Append(args, x)) <=> Ends(args) \/ x = kSwitchTerminator
  <1> DEFINE t == Append(args, x)
             n == Len(args)
             c == kSwitchTerminator
  <1>1. n \in Nat /\ Len(t) = n + 1 /\ t[n + 1] = x /\ \A i \in 1..n : t[i] = args[i]
    BY LenProperties, AppendProperties
  <1> HIDE DEF t, n, c
  <1>2. 1..Len(t) = (1..n) \cup {n + 1} BY <1>1
  <1>3. (\E i \in 1..Len(t) : t[i] = c) <=> (\E i \in 1..n : args[i] = c) \/ x = c
    BY <1>1, <1>2
  <1> QED BY <1>3 DEF Ends, t, n, c

LEMMA ValuesSet ==
    ASSUME NEW f, Values(f), NEW key \in Seq(Letters), NEW v, NEW g, g = SetSwitch(f, key, v)
    PROVE  Values(g) /\ (Named(g) => Named(f) /\ key # <<>>)
  <1>1. g = [k \in DOMAIN f \cup {key} |-> IF k = key THEN v ELSE f[k]] BY DEF SetSwitch
  <1>2. DOMAIN g = DOMAIN f \cup {key} BY <1>1
  <1>3. IsFiniteSet(DOMAIN f) /\ DOMAIN f \subseteq Seq(Letters) BY DEF Values
  <1>4. IsFiniteSet(DOMAIN f \cup {key}) BY <1>3, FS_AddElement
  <1>5. g = [k \in DOMAIN g |-> g[k]] BY <1>1
  <1>6. Values(g) BY <1>2, <1>3, <1>4, <1>5 DEF Values
  <1>7. Named(g) => Named(f) /\ key # <<>> BY <1>2 DEF Named
  <1> QED BY <1>6, <1>7

(* An empty line is such a line, and every turn leads from one to one.     *)
LEMMA KeptAtFirst == Kept(NoProgram, <<>>, <<>>)
  <1> DEFINE e == <<>>
             one == <<e>>
  <1>1. e \in Seq(Seq(Letters)) /\ Len(e) = 0 /\ 1..0 = {} /\ DOMAIN e = {} BY EmptySeq
  <1>2. one \in Seq(Seq(Letters))
    <2>1. e \in Seq(Letters) BY EmptySeq
    <2> HIDE DEF e
    <2> QED BY <2>1
  <1>3. one \o <<>> = one
    <2> HIDE DEF one
    <2> QED BY <1>2, ConcatEmptySeq
  <1>4. NoProgram = [argv |-> one, begin |-> 2, switches |-> e, parsing |-> TRUE]
    BY DEF NoProgram
  <1>5. LineOf(e) = NoProgram BY LineOfNone
  <1>6. e = [key \in DOMAIN e |-> e[key]] BY <1>1
  <1>7. IsFiniteSet(DOMAIN e)
    <2> HIDE DEF e
    <2> QED BY <1>1, FS_EmptySet
  <1>8. one \o e \o e = one BY <1>3
  <1> HIDE DEF e, one
  <1>9. BareWords(e, Letters) /\ Stable(e) /\ Closed(e) /\ ~Ends(e) /\ Values(e)
    BY <1>1, <1>6, <1>7 DEF BareWords, Stable, Closed, Ends, Values
  <1>10. NoProgram.switches = e BY <1>4
  <1>11. NoProgram = LineWith(e, e, e, TRUE)
    <2>1. Len(e) + 2 = 2 BY <1>1
    <2> QED BY <1>4, <1>8, <2>1 DEF LineWith, one, e
  <1>12. Kept(NoProgram, e, e)
    <2>1. (~Ends(e)) = TRUE BY <1>9
    <2>2. LineOf(e) = LineWith(e, <<>>, e, TRUE) BY <1>5, <1>11 DEF e
    <2> QED BY <1>9, <1>10, <1>11, <2>1, <2>2 DEF Kept
  <1> QED BY <1>12 DEF e

LEMMA KeptGrows ==
    ASSUME NEW l, NEW sw, NEW args, Kept(l, sw, args), NEW x \in Seq(Letters), Bare(x),
           NEW next, next = AppendArgument(l, x)
    PROVE  \E s, a : Kept(next, s, a)
  <1> DEFINE C == Letters
             W == Seq(C)
             c == kSwitchTerminator
             e == <<>>
             f == l.switches
             p == ~Ends(args)
             y == CombinedSwitch(x)
             key == SwitchKey(x)
             v == SwitchValue(x)
             g == SetSwitch(f, key, v)
  <1>1. /\ BareWords(sw, C) /\ BareWords(args, C) /\ Stable(sw) /\ Closed(args) /\ Values(f)
        /\ l = LineWith(sw, args, f, p)
        /\ Named(f) => LineOf(sw) = LineWith(sw, e, f, TRUE)
    BY DEF Kept
  <1>2. sw \in Seq(W) /\ args \in Seq(W) BY <1>1 DEF BareWords
  <1>3. y \in Seq(C) /\ SameSwitch(y, x)
    <2> HIDE DEF C, y
    <2>1. y = CombinedSwitch(x) BY DEF y
    <2> QED BY <2>1, CombinedAgain DEF C
  <1>4. key \in Seq(C) BY KeyIsText
  <1>5. p \in BOOLEAN OBVIOUS
  <1>6. Taken(next, sw, args, f, p, x)
    <2> HIDE DEF C, f, p
    <2> QED BY <1>1, <1>2, <1>5, TurnRead DEF C, W
  <1>7. CASE (p /\ x # c) /\ IsSwitch(x)
    <2> DEFINE s == Append(sw, y)
    <2>1. next = LineWith(s, args, g, TRUE) BY <1>6, <1>7 DEF Taken
    <2>2. next.switches = g BY <2>1 DEF LineWith
    <2>3. y \in W /\ CombinedSwitch(y) = y /\ Bare(y) /\ SwitchKey(y) = key /\ SwitchValue(y) = v
          /\ IsSwitch(y) /\ (key # <<>> => y # c)
      BY <1>3, <1>7 DEF SameSwitch
    <2>4. BareWords(s, C)
      <3> HIDE DEF C, y
      <3> QED BY <1>1, <2>3, BareAppend DEF W
    <2>5. Stable(s)
      <3> HIDE DEF W, y
      <3> QED BY <1>1, <1>2, <2>3, StableAppend
    <2>6. Values(g) /\ (Named(g) => Named(f) /\ key # <<>>)
      <3> HIDE DEF f, key, v
      <3> QED BY <1>1, <1>4, ValuesSet DEF C
    <2>7. ASSUME Named(g) PROVE LineOf(s) = LineWith(s, e, g, TRUE)
      <3> DEFINE k == LineOf(sw)
                 b == LineOf(s)
      <3>1. k = LineWith(sw, e, f, TRUE) BY <1>1, <2>6, <2>7
      <3>2. y # c BY <2>3, <2>6, <2>7
      <3>3. b = AppendArgument(k, y)
        <4> HIDE DEF s, y, C
        <4>1. s = Append(sw, y) BY DEF s
        <4>2. LineOf(s) = AppendArgument(LineOf(sw), y) BY <1>1, <2>3, <4>1, LineOfMore DEF W
        <4> QED BY <4>2
      <3>4. e \in Seq(W) BY EmptySeq
      <3> HIDE DEF k, b
      <3>5. Taken(b, sw, e, f, TRUE, y)
        <4>1. TRUE \in BOOLEAN /\ y \in Seq(C) /\ Bare(y) BY <2>3
        <4> HIDE DEF C, y, e, f
        <4> QED BY <1>2, <2>3, <3>1, <3>3, <3>4, <4>1, TurnRead DEF W
      <3>6. b = LineWith(Append(sw, CombinedSwitch(y)), e,
                         SetSwitch(f, SwitchKey(y), SwitchValue(y)), TRUE)
        BY <2>3, <3>2, <3>5 DEF Taken
      <3>7. b = LineWith(s, e, g, TRUE) BY <2>3, <3>6
      <3> QED BY <3>7 DEF b
    <2>8. (~Ends(args)) = TRUE BY <1>7
    <2> HIDE DEF s, g
    <2>9. Kept(next, s, args) BY <1>1, <2>1, <2>2, <2>4, <2>5, <2>6, <2>7, <2>8 DEF Kept
    <2> QED BY <2>9
  <1>8. CASE ~((p /\ x # c) /\ IsSwitch(x))
    <2> DEFINE a == Append(args, x)
               q == p /\ x # c
    <2>1. next = LineWith(sw, a, f, q) BY <1>6, <1>8 DEF Taken
    <2>2. next.switches = f BY <2>1 DEF LineWith
    <2>3. x \in W OBVIOUS
    <2>4. BareWords(a, C)
      <3> HIDE DEF C
      <3> QED BY <1>1, <2>3, BareAppend DEF W
    <2>5. Closed(a)
      <3>1. IsSwitch(x) => Ends(args) \/ x = kSwitchTerminator BY <1>8
      <3> HIDE DEF W
      <3> QED BY <1>1, <1>2, <2>3, <3>1, ClosedAppend
    <2>6. q = ~Ends(a)
      <3>1. Ends(a) <=> Ends(args) \/ x = kSwitchTerminator
        <4> HIDE DEF W
        <4> QED BY <1>2, <2>3, EndsAppend
      <3> QED BY <3>1
    <2> HIDE DEF a, q, f
    <2>7. Kept(next, sw, a) BY <1>1, <2>1, <2>2, <2>4, <2>5, <2>6 DEF Kept
    <2> QED BY <2>7
  <1> QED BY <1>7, <1>8

(* One element more of a sequence.                                         *)
LEMMA PrefixMore ==
    ASSUME NEW W, NEW s \in Seq(W), NEW k \in 1..Len(s)
    PROVE  /\ SubSeq(s, 1, k - 1) \in Seq(W) /\ s[k] \in W
           /\ SubSeq(s, 1, k) = Append(SubSeq(s, 1, k - 1), s[k])
           /\ Len(SubSeq(s, 1, k - 1)) = k - 1
           /\ \A i \in 1..k - 1 : SubSeq(s, 1, k - 1)[i] = s[i]
  <1> DEFINE x == SubSeq(s, 1, k - 1)
  <1>1. Len(s) \in Nat /\ s[k] \in W BY LenProperties, ElementOfSeq
  <1>2. 1 \in Nat \ {0} /\ k - 1 \in Int /\ k - 1 <= Len(s) BY <1>1
  <1>3. /\ x \in Seq(W) /\ Len(x) = (IF 1 <= k - 1 THEN k - 1 - 1 + 1 ELSE 0)
        /\ \A i \in 1..Len(x) : x[i] = s[1 + i - 1]
    <2> HIDE DEF x
    <2>1. x = SubSeq(s, 1, k - 1) BY DEF x
    <2> QED BY <1>2, <2>1, PartIs
  <1>4. SubSeq(s, 1, k) = SubSeq(s, 1, k - 1) \o <<s[k]>>
    <2>1. 1 \in 1..Len(s) /\ k \in 1..Len(s) BY <1>1
    <2> QED BY <2>1, SubSeqRecursiveSecond
  <1> HIDE DEF x
  <1>5. Append(x, s[k]) = x \o <<s[k]>> BY <1>1, <1>3, AppendIsConcat
  <1>6. Len(x) = k - 1 BY <1>1, <1>3
  <1>7. \A i \in 1..k - 1 : x[i] = s[i]
    <2> TAKE i \in 1..k - 1
    <2>1. i \in 1..Len(x) /\ 1 + i - 1 = i BY <1>6
    <2> QED BY <1>3, <2>1
  <1> QED BY <1>1, <1>3, <1>4, <1>5, <1>6, <1>7 DEF x

(* The switches and the arguments, read again, are the line.               *)
LEMMA ReadAgain ==
    ASSUME NEW l, NEW sw, NEW args, Kept(l, sw, args), Named(l.switches)
    PROVE  LineOf(sw \o args) = l /\ BareWords(sw \o args, Letters)
  <1> DEFINE C == Letters
             W == Seq(C)
             c == kSwitchTerminator
             f == l.switches
             n == Len(args)
             a(k) == SubSeq(args, 1, k)
             Good(k) == /\ BareWords(sw \o a(k), C)
                        /\ LineOf(sw \o a(k)) = LineWith(sw, a(k), f, ~Ends(a(k)))
             K == {k \in Nat : Good(k)}
  <1>1. /\ BareWords(sw, C) /\ BareWords(args, C) /\ Closed(args)
        /\ l = LineWith(sw, args, f, ~Ends(args))
        /\ LineOf(sw) = LineWith(sw, <<>>, f, TRUE)
    BY DEF Kept
  <1>2. sw \in Seq(W) /\ args \in Seq(W) /\ \A i \in 1..n : Bare(args[i])
    BY <1>1 DEF BareWords
  <1>3. n \in Nat BY <1>2, LenProperties
  <1> HIDE DEF W, C, f, n
  <1>4. 0 \in K
    <2>1. a(0) = <<>> BY SubSeqEmpty
    <2>2. sw \o <<>> = sw BY <1>2, ConcatEmptySeq
    <2>3. (~Ends(<<>>)) = TRUE
      <3> DEFINE e == <<>>
      <3>1. Len(e) = 0 OBVIOUS
      <3> HIDE DEF e
      <3>2. ~Ends(e) BY <3>1 DEF Ends
      <3> QED BY <3>2 DEF e
    <2> QED BY <1>1, <2>1, <2>2, <2>3
  <1>5. ASSUME NEW k \in 1..n, k - 1 \in K PROVE k \in K
    <2> DEFINE b == a(k - 1)
               x == args[k]
               t == sw \o b
               p == ~Ends(b)
               next == LineOf(Append(t, x))
    <2>1. BareWords(t, C) /\ LineOf(t) = LineWith(sw, b, f, p) BY <1>5
    <2>2. /\ b \in Seq(W) /\ x \in W /\ a(k) = Append(b, x) /\ Len(b) = k - 1
          /\ \A i \in 1..k - 1 : b[i] = args[i]
      BY <1>2, PrefixMore DEF n
    <2>3. Bare(x) BY <1>2
    <2> HIDE DEF b, x, p, a
    <2>4. sw \o Append(b, x) = Append(t, x)
      <3>1. t \in Seq(W) /\ <<x>> \in Seq(W) BY <1>2, <2>2, ConcatProperties
      <3>2. Append(b, x) = b \o <<x>> BY <2>2, AppendIsConcat
      <3>3. Append(t, x) = t \o <<x>>
        <4> HIDE DEF t
        <4> QED BY <2>2, <3>1, AppendIsConcat
      <3> DEFINE one == <<x>>
      <3> HIDE DEF one
      <3>4. (sw \o b) \o one = sw \o (b \o one)
        BY <1>2, <2>2, <3>1, ConcatAssociative DEF one
      <3> QED BY <3>2, <3>3, <3>4 DEF one
    <2> HIDE DEF t
    <2>5. BareWords(Append(t, x), C) BY <2>1, <2>2, <2>3, BareAppend DEF W
    <2>6. next = AppendArgument(LineOf(t), x)
      <3> DEFINE all == Append(t, x)
      <3>1. all = Append(t, x) OBVIOUS
      <3> HIDE DEF all
      <3>2. LineOf(all) = AppendArgument(LineOf(t), x)
        BY <2>1, <2>2, <2>3, <3>1, LineOfMore DEF W
      <3> QED BY <3>2 DEF all
    <2>7. Taken(next, sw, b, f, p, x)
      <3> DEFINE m == LineOf(t)
      <3>1. p \in BOOLEAN BY DEF p
      <3>2. m = LineWith(sw, b, f, p) /\ next = AppendArgument(m, x) BY <2>1, <2>6
      <3> HIDE DEF m, next
      <3> QED BY <1>2, <2>2, <2>3, <3>1, <3>2, TurnRead DEF W
    <2>8. ~((p /\ x # c) /\ IsSwitch(x))
      <3> SUFFICES ASSUME IsSwitch(x), x # c PROVE Ends(b) BY DEF p
      <3>1. PICK i \in 1..k : args[i] = c BY <1>1 DEF Closed, x, n
      <3>2. i # k BY <3>1 DEF x
      <3>3. i \in 1..k - 1 BY <1>3, <3>2
      <3>4. b[i] = c /\ i \in 1..Len(b) BY <2>2, <3>1, <3>3
      <3> QED BY <3>4 DEF Ends
    <2>9. next = LineWith(sw, Append(b, x), f, p /\ x # c) BY <2>7, <2>8 DEF Taken
    <2>10. (~Ends(Append(b, x))) = (p /\ x # c)
      <3>1. Ends(Append(b, x)) <=> Ends(b) \/ x = c BY <2>2, EndsAppend
      <3> QED BY <3>1 DEF p
    <2> HIDE DEF next
    <2>11. BareWords(sw \o a(k), C)
           /\ LineOf(sw \o a(k)) = LineWith(sw, a(k), f, ~Ends(a(k)))
      BY <2>2, <2>4, <2>5, <2>9, <2>10 DEF next
    <2>12. k \in Nat BY <1>3
    <2> QED BY <2>11, <2>12
  <1>6. \A k \in 0..n : k \in K
    <2> HIDE DEF K
    <2> QED BY <1>3, <1>4, <1>5, InductionUpTo
  <1>7. Good(n) BY <1>3, <1>6
  <1>8. a(n) = args BY <1>2, SubSeqFull DEF n
  <1> QED BY <1>1, <1>7, <1>8 DEF C

(* The elements of argv_ after the first.                                  *)
Behind(l, t) ==
    /\ l.argv \in Seq(Seq(Letters)) /\ l.argv # <<>> /\ l.argv[1] = <<>>
    /\ Tail(l.argv) = t /\ t \in Seq(Seq(Letters))

LEMMA TailOfLine ==
    ASSUME NEW l, NEW sw, NEW args, Kept(l, sw, args)
    PROVE  Behind(l, sw \o args)
  <1> DEFINE W == Seq(Letters)
             e == <<>>
             one == <<e>>
             t == sw \o args
             u == one \o t
  <1>1. sw \in Seq(W) /\ args \in Seq(W) BY DEF Kept, BareWords
  <1>2. l.argv = (one \o sw) \o args
    <2>1. l = LineWith(sw, args, l.switches, ~Ends(args)) BY DEF Kept
    <2> DEFINE x == (one \o sw) \o args
               b == Len(sw) + 2
               p == ~Ends(args)
               f == l.switches
    <2>2. l = [argv |-> x, begin |-> b, switches |-> f, parsing |-> p] BY <2>1 DEF LineWith
    <2> HIDE DEF x, b, p, f
    <2>3. l.argv = x BY <2>2
    <2> QED BY <2>3 DEF x
  <1>3. e \in W BY EmptySeq
  <1> HIDE DEF W, e
  <1>4. one \in Seq(W) /\ Len(one) = 1 /\ one[1] = e BY <1>3
  <1> HIDE DEF one
  <1>5. l.argv = u BY <1>1, <1>2, <1>4, ConcatAssociative
  <1>6. t \in Seq(W) BY <1>1, ConcatProperties
  <1> HIDE DEF t
  <1>7. /\ u \in Seq(W) /\ Len(u) = 1 + Len(t) /\ Len(t) \in Nat
        /\ \A i \in 1..Len(one) + Len(t) : u[i] = IF i <= Len(one) THEN one[i] ELSE t[i - Len(one)]
    BY SMTT(30), <1>4, <1>6, ConcatProperties, LenProperties
  <1> HIDE DEF u
  <1>8. u # <<>> BY <1>7, EmptySeq
  <1>9. /\ Tail(u) \in Seq(W) /\ Len(Tail(u)) = Len(u) - 1
        /\ \A i \in 1..Len(u) - 1 : Tail(u)[i] = u[i + 1]
    BY <1>7, <1>8, HeadTailProperties
  <1>10. Tail(u) = t
    <2>1. ASSUME NEW i \in 1..Len(Tail(u)) PROVE Tail(u)[i] = t[i]
      <3>1. i \in 1..Len(u) - 1 /\ i + 1 \in 1..Len(one) + Len(t) /\ ~(i + 1 <= Len(one))
            /\ (i + 1) - Len(one) = i
        BY <1>4, <1>7, <1>9
      <3> QED BY <1>7, <1>9, <3>1
    <2> QED BY <1>6, <1>7, <1>9, <2>1, SeqEqual
  <1>11. u[1] = e
    <2>1. 1 \in 1..Len(one) + Len(t) /\ 1 <= Len(one) BY <1>4, <1>7
    <2> QED BY <1>4, <1>7, <2>1
  <1> QED BY <1>5, <1>6, <1>7, <1>8, <1>10, <1>11 DEF Behind, W, e, t

(* Appending the elements of a line to the empty line makes it again.      *)
LEMMA AppendedAgain ==
    ASSUME NEW l, NEW sw, NEW args, Kept(l, sw, args), Named(l.switches)
    PROVE  AppendArguments(NoProgram, l) = l
  <1>1. Tail(l.argv) = sw \o args BY TailOfLine DEF Behind
  <1>2. [NoProgram EXCEPT !.parsing = TRUE] = NoProgram
    <2> DEFINE e == <<>>
               one == <<e>>
               p == TRUE
    <2>1. NoProgram = [argv |-> one, begin |-> 2, switches |-> e, parsing |-> p]
      BY DEF NoProgram
    <2> HIDE DEF e, one, p
    <2>2. [NoProgram EXCEPT !.parsing = p] = NoProgram BY <2>1
    <2> QED BY <2>2 DEF p
  <1>3. LineOf(sw \o args) = l BY ReadAgain
  <1> QED BY <1>1, <1>2, <1>3 DEF AppendArguments, LineOf

(* A line in writing: each word behind a blank.                            *)
Spelled(base, words) == FoldLeft(LAMBDA a, x : a \o <<" ">> \o x, base, words)

WriteSteps(r, base, words, C) ==
    /\ r \in [0..Len(words) -> Seq(C)]
    /\ r[0] = base /\ r[Len(words)] = Spelled(base, words)
    /\ \A k \in 1..Len(words) : r[k] = Joined(r[k - 1], kBlank, words[k])

LEMMA WriteLoop ==
    ASSUME NEW C, kBlank \in C, NEW words, BareWords(words, C), NEW base \in Seq(C)
    PROVE  \E r : WriteSteps(r, base, words, C)
  <1> DEFINE n == Len(words)
             T == Seq(C)
             f == [x \in T \X T |-> Joined(x[1], kBlank, x[2])]
             Is(g) == g = [S \in SUBSET (1..n) |->
                             IF S = {} THEN base
                             ELSE Joined(g[S \ {Max(S)}], kBlank, words[Max(S)])]
             h == CHOOSE g : Is(g)
  <1>1. words \in Seq(T) /\ \A i \in 1..n : Bare(words[i]) BY DEF BareWords
  <1>2. \A a, x \in T : Joined(a, kBlank, x) \in T
    <2> DEFINE one == <<kBlank>>
    <2>1. one \in Seq(C) OBVIOUS
    <2> TAKE a, x \in T
    <2> HIDE DEF one
    <2> DEFINE u == a \o one
    <2>2. u \in Seq(C) BY <2>1, ConcatProperties
    <2> HIDE DEF u
    <2>3. u \o x \in Seq(C) BY <2>2, ConcatProperties
    <2> QED BY <2>3 DEF u, one, Joined
  <1> HIDE DEF T
  <1>3. f \in [T \X T -> T]
    <2>1. ASSUME NEW a \in T, NEW x \in T PROVE Joined(a, kBlank, x) \in T BY <1>2
    <2> QED BY <2>1
  <1>4. \A a, x \in T : f[<<a, x>>] = Joined(a, kBlank, x) OBVIOUS
  <1>5. n \in Nat /\ (\A i \in 1..n : words[i] \in T) /\ DOMAIN words = 1..n
    BY <1>1, LenProperties, ElementOfSeq
  <1>6. Spelled(base, words) = h[1..n]
    BY <1>5 DEF Spelled, FoldLeft, MapThenFoldSet, Joined, kBlank
  <1> HIDE DEF f, n
  <1>7. \A S \in SUBSET (1..n) : S # {} => words[Max(S)] \in T
    BY <1>5, MaxOfInterval
  <1>8. base \in T BY DEF T
  <1>9. PICK g : Folds(g, f, base, words, n, T)
    BY <1>3, <1>5, <1>8, FoldExists
  <1>10. Is(g)
    BY <1>4, <1>7, <1>9 DEF Folds
  <1>11. Is(h)
    <2> HIDE DEF Is
    <2> QED BY <1>10
  <1> HIDE DEF h
  <1>12. FoldsFrom(h, f, base, words, n, T)
    BY ZenonT(40), <1>4, <1>7, <1>11 DEF FoldsFrom
  <1>13. PICK r : Steps(r, f, base, words, n, T, h[1..n])
    BY <1>3, <1>5, <1>8, <1>12, FoldSteps
  <1>14. ASSUME NEW k \in 1..n PROVE r[k] = Joined(r[k - 1], kBlank, words[k])
    <2>1. k - 1 \in 0..n BY <1>5
    <2>2. r[k - 1] \in T /\ words[k] \in T BY <1>5, <1>13, <2>1 DEF Steps
    <2> QED BY <1>4, <1>13, <2>2 DEF Steps
  <1> QED BY <1>6, <1>13, <1>14 DEF n, T, Steps, WriteSteps

(* The words are split off again.                                          *)
LEMMA WrittenSplit ==
    ASSUME NEW C, kBlank \in C, NEW words, BareWords(words, C), NEW base \in Seq(C),
           NEW all, all = Spelled(base, words)
    PROVE  all \in Seq(C) /\ SplitString(all, kBlank) = SplitString(base, kBlank) \o words
  <1> DEFINE n == Len(words)
             T == Seq(C)
             u == SplitString(base, kBlank)
             a(k) == SubSeq(words, 1, k)
  <1>1. words \in Seq(T) /\ \A i \in 1..n : Bare(words[i]) BY DEF BareWords
  <1>2. n \in Nat /\ \A i \in 1..n : words[i] \in T BY <1>1, LenProperties, ElementOfSeq
  <1>3. PICK r : WriteSteps(r, base, words, C) BY WriteLoop
  <1>4. /\ r \in [0..n -> Seq(C)] /\ r[0] = base /\ r[n] = all
        /\ \A k \in 1..n : r[k] = Joined(r[k - 1], kBlank, words[k])
    BY <1>3 DEF WriteSteps
  <1>5. u \in Seq(T)
    <2> HIDE DEF u
    <2>1. u = SplitString(base, kBlank) BY DEF u
    <2> QED BY <2>1, SplitAtBlanks DEF T
  <1> DEFINE K == {k \in Nat : SplitString(r[k], kBlank) = u \o a(k)}
  <1>6. 0 \in K
    <2>1. a(0) = <<>> BY SubSeqEmpty
    <2> HIDE DEF u, a
    <2>2. u \o <<>> = u BY <1>5, ConcatEmptySeq
    <2>3. SplitString(r[0], kBlank) = u BY <1>4 DEF u
    <2> QED BY <2>1, <2>2, <2>3
  <1>7. ASSUME NEW k \in 1..n, k - 1 \in K PROVE k \in K
    <2> DEFINE s == r[k - 1]
               x == words[k]
               b == a(k - 1)
               t == r[k]
    <2>1. k - 1 \in 0..n BY <1>2
    <2>2. s \in Seq(C) /\ x \in Seq(C) /\ Bare(x) BY <1>1, <1>2, <1>4, <2>1
    <2>3. t = Joined(s, kBlank, x) BY <1>4
    <2>4. b \in Seq(T) /\ a(k) = Append(b, x) BY <1>1, PrefixMore
    <2>5. SplitString(s, kBlank) = u \o b BY <1>7
    <2> HIDE DEF u, a, s, x, b, t
    <2>6. SplitString(t, kBlank) = Append(SplitString(s, kBlank), x)
      BY <2>2, <2>3, WordJoined, ZenonT(40)
    <2>7. x \in T BY <2>2
    <2> HIDE DEF T
    <2>8. Append(u \o b, x) = u \o Append(b, x)
      <3> DEFINE one == <<x>>
                 v == u \o b
      <3>1. one \in Seq(T) /\ v \in Seq(T) BY <1>5, <2>4, <2>7, ConcatProperties
      <3>2. Append(b, x) = b \o one BY <2>4, <2>7, AppendIsConcat
      <3>3. Append(v, x) = v \o one
        <4> HIDE DEF v
        <4> QED BY <2>7, <3>1, AppendIsConcat
      <3> HIDE DEF one
      <3>4. (u \o b) \o one = u \o (b \o one) BY <1>5, <2>4, <3>1, ConcatAssociative
      <3> QED BY <3>2, <3>3, <3>4
    <2>9. SplitString(t, kBlank) = u \o a(k) BY <2>4, <2>5, <2>6, <2>8
    <2> QED BY <1>2, <2>9 DEF t
  <1>8. \A k \in 0..n : k \in K
    <2> HIDE DEF K
    <2> QED BY <1>2, <1>6, <1>7, InductionUpTo
  <1>9. SplitString(r[n], kBlank) = u \o a(n)
    <2> HIDE DEF u, a
    <2>1. n \in K BY <1>2, <1>8
    <2> QED BY <2>1
  <1>10. a(n) = words BY <1>1, SubSeqFull
  <1>11. r[n] \in Seq(C) BY <1>2, <1>4
  <1> QED BY <1>4, <1>9, <1>10, <1>11

(* A switch that is found again before the first terminator is one that    *)
(* was kept as a switch: writing it changes nothing.                       *)
LEMMA TextsSame ==
    ASSUME NEW l, NEW sw, NEW args, Kept(l, sw, args), NEW t, t = sw \o args,
           NEW i \in 1..Len(t), i < Terminator(t), IsSwitch(t[i])
    PROVE  CombinedSwitch(t[i]) = t[i]
  <1> DEFINE W == Seq(Letters)
             n == Len(sw)
             m == Len(args)
             c == kSwitchTerminator
  <1>1. sw \in Seq(W) /\ args \in Seq(W) /\ Stable(sw) /\ Closed(args) BY DEF Kept, BareWords
  <1>2. /\ t \in Seq(W) /\ Len(t) = n + m /\ n \in Nat /\ m \in Nat
        /\ \A j \in 1..n + m : t[j] = IF j <= n THEN sw[j] ELSE args[j - n]
    <2> DEFINE u == sw \o args
    <2> HIDE DEF W
    <2>1. /\ u \in Seq(W) /\ Len(u) = n + m /\ n \in Nat /\ m \in Nat
          /\ \A j \in 1..n + m : u[j] = IF j <= n THEN sw[j] ELSE args[j - n]
      BY <1>1, ConcatProperties, LenProperties
    <2>2. t = u OBVIOUS
    <2> HIDE DEF u
    <2> QED BY <2>1, <2>2
  <1> HIDE DEF n, m, c
  <1>3. CASE i <= n
    <2>1. i \in 1..n /\ t[i] = sw[i] BY <1>2, <1>3
    <2>2. CombinedSwitch(sw[i]) = sw[i] BY <1>1, <2>1 DEF Stable, n
    <2> QED BY <2>1, <2>2
  <1>4. CASE ~(i <= n)
    <2>1. i - n \in 1..m /\ t[i] = args[i - n] BY SMTT(30), <1>2, <1>4
    <2>2. PICK j \in 1..i - n : args[j] = c BY <1>1, <2>1 DEF Closed, c, m
    <2>3. n + j \in 1..n + m /\ ~(n + j <= n) /\ (n + j) - n = j /\ n + j <= i
      <3>1. i \in Int /\ i <= n + m /\ n \in Nat /\ m \in Nat BY <1>2
      <3>2. j \in Int /\ 1 <= j /\ j <= i - n BY <3>1
      <3> QED BY <3>1, <3>2
    <2>4. t[n + j] = c BY <1>2, <2>2, <2>3
    <2>5. \A k \in 1..Len(t) : k < Terminator(t) => t[k] # c
      <3> DEFINE S == {c}
                 b == FirstOf(t, S)
      <3>1. Terminator(t) = b BY DEF Terminator, c
      <3>2. \A k \in 1..Len(t) : k < b => t[k] \notin S
        <4> HIDE DEF S
        <4>1. Len(t) \in Nat BY <1>2
        <4> QED BY <4>1, FirstOfIs
      <3> HIDE DEF b
      <3> QED BY <3>1, <3>2
    <2>6. Terminator(t) \in Int
      <3> DEFINE S == {c}
      <3> HIDE DEF S
      <3>1. FirstOf(t, S) \in 1..Len(t) + 1
        <4>1. Len(t) \in Nat BY <1>2
        <4> QED BY <4>1, FirstOfIs
      <3> QED BY <1>2, <3>1 DEF S, Terminator, c
    <2>7. n + j < Terminator(t)
      <3>1. i \in Int BY <1>2
      <3> QED BY <1>2, <2>2, <2>3, <2>6, <3>1
    <2> QED BY <1>2, <2>3, <2>4, <2>5, <2>7
  <1> QED BY <1>3, <1>4

(* What is written of a line is read as the line.                          *)
LEMMA WrittenAgain ==
    ASSUME NEW l, NEW sw, NEW args, Kept(l, sw, args), Named(l.switches),
           TrimString(GetCommandLineString(l)) # <<>>
    PROVE  ParseFromString(GetCommandLineString(l)) = l
  <1> DEFINE C == Letters
             W == Seq(C)
             e == <<>>
             t == sw \o args
             n == Len(t)
             texts == [i \in 1..n |-> IF i < Terminator(t) /\ IsSwitch(t[i])
                                      THEN CombinedSwitch(t[i]) ELSE t[i]]
             all == GetCommandLineString(l)
  <1>1. Tail(l.argv) = t /\ l.argv[1] = e /\ t \in Seq(W) /\ l.argv \in Seq(W) /\ l.argv # e
    BY TailOfLine DEF Behind
  <1>2. LineOf(t) = l /\ BareWords(t, C) BY ReadAgain
  <1>3. all = Spelled(e, texts)
    <2> HIDE DEF t
    <2> QED BY <1>1 DEF GetCommandLineString, Spelled, Terminator
  <1> HIDE DEF W
  <1>4. n \in Nat /\ t \in [1..n -> W] BY <1>1, LenProperties
  <1>5. texts = t
    <2>1. ASSUME NEW i \in 1..n, i < Terminator(t), IsSwitch(t[i]) PROVE CombinedSwitch(t[i]) = t[i]
      <3> HIDE DEF t
      <3>1. t = sw \o args BY DEF t
      <3> QED BY <2>1, <3>1, TextsSame
    <2> HIDE DEF t, n
    <2>2. texts = [i \in 1..n |-> t[i]] BY <2>1
    <2> QED BY <1>4, <2>2
  <1> HIDE DEF texts, t, n, all, e
  <1>6. e \in Seq(C) /\ kBlank \in C BY LettersAre, EmptySeq DEF e
  <1>7. all = Spelled(e, t) BY <1>3, <1>5
  <1>8. SplitString(all, kBlank) = SplitString(e, kBlank) \o t
    <2> HIDE DEF C
    <2> QED BY <1>2, <1>6, <1>7, WrittenSplit
  <1>9. SplitString(e, kBlank) = <<e>>
    <2>1. Len(e) = 0 BY DEF e
    <2>2. Lacks(e, kBlank) BY <2>1 DEF Lacks
    <2> DEFINE u == SplitString(e, kBlank)
    <2>3. u = SplitStringDontTrim(e, kBlank)
      <3> HIDE DEF u, C
      <3>1. u = SplitString(e, kBlank) BY DEF u
      <3> QED BY <1>6, <3>1, SplitAtBlanks
    <2>4. SplitStringDontTrim(e, kBlank) = <<e>>
      <3> HIDE DEF C
      <3> QED BY <1>6, <2>2, SplitOne
    <2> QED BY <2>3, <2>4
  <1> DEFINE u == SplitString(all, kBlank)
             one == <<e>>
  <1>10. u = one \o t BY <1>8, <1>9
  <1>11. Tail(u) = t
    <2>1. one \in Seq(W) /\ Len(one) = 1 BY <1>6 DEF W
    <2> HIDE DEF one, u
    <2>2. /\ u \in Seq(W) /\ Len(u) = 1 + n
          /\ \A i \in 1..1 + n : u[i] = IF i <= 1 THEN one[i] ELSE t[i - 1]
      <3> DEFINE z == one \o t
      <3>1. /\ z \in Seq(W) /\ Len(z) = Len(one) + Len(t)
            /\ \A i \in 1..Len(one) + Len(t) : z[i] = IF i <= Len(one) THEN one[i] ELSE t[i - Len(one)]
        BY <1>1, <2>1, ConcatProperties
      <3> HIDE DEF z
      <3>2. u = z BY <1>10 DEF z
      <3> QED BY <2>1, <3>1, <3>2 DEF n
    <2>3. u # <<>> BY <1>4, <2>2, EmptySeq
    <2>4. /\ Tail(u) \in Seq(W) /\ Len(Tail(u)) = Len(u) - 1
          /\ \A i \in 1..Len(u) - 1 : Tail(u)[i] = u[i + 1]
      BY <2>2, <2>3, HeadTailProperties
    <2>5. ASSUME NEW i \in 1..Len(Tail(u)) PROVE Tail(u)[i] = t[i]
      <3>1. i \in 1..Len(u) - 1 /\ i + 1 \in 1..1 + n /\ ~(i + 1 <= 1) /\ (i + 1) - 1 = i
        BY <1>4, <2>2, <2>4
      <3> QED BY <2>2, <2>4, <3>1
    <2>6. Len(Tail(u)) = Len(t) BY <1>4, <2>2, <2>4 DEF n
    <2> QED BY <1>1, <2>4, <2>5, <2>6, SeqEqual
  <1> HIDE DEF u
  <1>12. ParseFromString(all) = LineOf(Tail(u))
    <2>1. TrimString(all) # <<>> BY DEF all
    <2> QED BY <2>1 DEF ParseFromString, InitFromArgv, LineOf, u, kBlank
  <1> QED BY <1>2, <1>11, <1>12 DEF all

(* The names of a finite set, one after the other.                         *)
Lists(names, D, n) ==
    /\ n \in Nat /\ names \in [1..n -> D] /\ names \in Seq(D) /\ Len(names) = n
    /\ \A d \in D : \E i \in 1..n : names[i] = d

LEMMA NamesAre ==
    ASSUME NEW D, IsFiniteSet(D), NEW names, names = SetToSeq(D), NEW n, n = Cardinality(D)
    PROVE  Lists(names, D, n)
  <1>1. n \in Nat /\ ExistsBijection(1..n, D) BY FS_CardinalityType
  <1>2. PICK f : f \in Bijection(1..n, D) BY <1>1 DEF ExistsBijection
  <1>3. f \in [1..n -> D] /\ IsInjective(f) BY <1>2 DEF Bijection, Injection
  <1>4. names \in [1..n -> D] /\ IsInjective(names)
    <2>1. names = CHOOSE g \in [1..n -> D] : IsInjective(g) BY DEF SetToSeq
    <2> QED BY <1>3, <2>1
  <1>5. names \in Injection(1..n, D) BY <1>4 DEF Injection
  <1>6. IsFiniteSet(1..n) /\ Cardinality(1..n) = n
    <2>1. 1 \in Int /\ n \in Int BY <1>1
    <2>2. IsFiniteSet(1..n) /\ Cardinality(1..n) = IF 1 > n THEN 0 ELSE n - 1 + 1
      BY <2>1, FS_Interval
    <2>3. (IF 1 > n THEN 0 ELSE n - 1 + 1) = n BY <1>1
    <2> QED BY <2>2, <2>3
  <1>7. names \in Surjection(1..n, D) BY <1>5, <1>6, FS_Injection
  <1>8. \A d \in D : \E i \in 1..n : names[i] = d BY <1>7 DEF Surjection
  <1>9. names \in Seq(D) BY <1>1, <1>4, SeqDef
  <1>10. Len(names) = n
    <2>1. names = [k \in 1..n |-> names[k]] BY <1>4
    <2> QED BY <1>1, <2>1, SequenceOf
  <1> QED BY <1>1, <1>4, <1>8, <1>9, <1>10 DEF Lists

(* A line of switches alone, copied from f, with the texts a.              *)
Copied(f, a, S) ==
    [argv |-> a, begin |-> Len(a) + 1, switches |-> [key \in S |-> f[key]], parsing |-> TRUE]

NativeText(name, value) ==
    (IF IsSwitch(name) THEN <<>> ELSE kSwitchTerminator)
        \o name \o (IF value = <<>> THEN <<>> ELSE <<"=">> \o value)

CopyStep(source, to, name) ==
    IF HasSwitch(source, name) THEN AppendSwitchNative(to, name, GetSwitchValue(source, name))
    ELSE to

CopyGrows(l, f, a, S, name, x) ==
    CopyStep(l, Copied(f, a, S), name) = Copied(f, Append(a, x), S \cup {name})

LEMMA CopiedMore ==
    ASSUME NEW l, NEW f, f = l.switches, Named(f), DOMAIN f \subseteq Seq(Letters),
           NEW W, NEW a \in Seq(W), NEW S, NEW name \in DOMAIN f,
           NEW x, x = NativeText(name, f[name]), x \in W
    PROVE  CopyGrows(l, f, a, S, name, x)
  <1> DEFINE to == Copied(f, a, S)
             v == f[name]
             n == Len(a)
             key == From(name, GetSwitchPrefixLength(name) + 1)
             h == [k \in S |-> f[k]]
             g == [k \in S \cup {name} |-> f[k]]
             t == Append(a, x)
             p == TRUE
  <1>1. n \in Nat /\ t \in Seq(W) /\ Len(t) = n + 1 BY LenProperties, AppendProperties
  <1>2. CopyStep(l, to, name) = AppendSwitchNative(to, name, v)
    <2> HIDE DEF to
    <2> QED BY DEF CopyStep, HasSwitch, GetSwitchValue
  <1>3. key = name
    <2>1. name \in Seq(Letters) /\ name # <<>> /\ name[1] # kDash BY DEF Named
    <2>2. GetSwitchPrefixLength(name) = 0
      <3>1. GetSwitchPrefixLength(name) \in 0..2 /\ ~IsSwitch(name) BY <2>1, PrefixIs
      <3> QED BY <3>1 DEF IsSwitch
    <2>3. key = SubSeq(name, 1, Len(name)) BY <2>2 DEF From
    <2> QED BY <2>1, <2>3, SubSeqFull
  <1>4. InsertAt(a, n + 1, x) = t
    <2>1. SubSeq(a, 1, (n + 1) - 1) = a
      <3>1. (n + 1) - 1 = Len(a) BY <1>1
      <3> QED BY <3>1, SubSeqFull
    <2>2. SubSeq(a, n + 1, Len(a)) = <<>>
      <3>1. n + 1 \in Int /\ Len(a) \in Int /\ Len(a) < n + 1 BY <1>1
      <3> QED BY <3>1, SubSeqEmpty
    <2> DEFINE one == <<x>>
               b == n + 1
    <2>3. InsertAt(a, b, x) = SubSeq(a, 1, b - 1) \o one \o SubSeq(a, b, Len(a))
      BY DEF InsertAt
    <2>4. one \in Seq(W) OBVIOUS
    <2>5. a \o one \in Seq(W) BY <2>4, ConcatProperties
    <2>6. (a \o one) \o <<>> = a \o one
      <3> DEFINE y == a \o one
      <3>1. y \in Seq(W) BY <2>5
      <3> HIDE DEF y
      <3>2. y \o <<>> = y BY <3>1, ConcatEmptySeq
      <3> QED BY <3>2 DEF y
    <2>7. t = a \o one BY AppendIsConcat
    <2> HIDE DEF t, one
    <2> QED BY <2>1, <2>2, <2>3, <2>6, <2>7
  <1>5. SetSwitch(h, name, v) = g
    <2>1. DOMAIN h = S OBVIOUS
    <2>2. SetSwitch(h, name, v) = [k \in S \cup {name} |-> IF k = name THEN v ELSE h[k]]
      BY <2>1 DEF SetSwitch
    <2>3. \A k \in S \cup {name} : (IF k = name THEN v ELSE h[k]) = f[k] OBVIOUS
    <2> HIDE DEF h
    <2> QED BY <2>2, <2>3
  <1> HIDE DEF t, v, h, g, p, key
  <1>6. to = [argv |-> a, begin |-> n + 1, switches |-> h, parsing |-> p] BY DEF Copied, h, p
  <1> HIDE DEF to
  <1>7. to.argv = a /\ to.begin = n + 1 /\ to.switches = h BY <1>6
  <1>8. AppendSwitchNative(to, name, v)
          = [to EXCEPT !.argv = InsertAt(to.argv, to.begin, x), !.begin = to.begin + 1,
                       !.switches = SetSwitch(to.switches, key, v)]
    BY DEF AppendSwitchNative, NativeText, key, v
  <1>9. AppendSwitchNative(to, name, v)
          = [to EXCEPT !.argv = t, !.begin = n + 1 + 1, !.switches = g]
    BY <1>3, <1>4, <1>5, <1>7, <1>8
  <1>10. AppendSwitchNative(to, name, v)
           = [argv |-> t, begin |-> n + 1 + 1, switches |-> g, parsing |-> p]
    BY <1>6, <1>9
  <1>11. AppendSwitchNative(to, name, v) = [argv |-> t, begin |-> Len(t) + 1, switches |-> g, parsing |-> p]
    BY <1>1, <1>10
  <1> QED BY <1>2, <1>11 DEF CopyGrows, Copied, t, g, p, to

(* What copying can make of an empty line.                                 *)
CopyTexts(f) == {NativeText(name, f[name]) : name \in DOMAIN f} \cup {<<>>}

Copies(f) == {Copied(f, a, S) : a \in Seq(CopyTexts(f)), S \in SUBSET (DOMAIN f)}

(* CopySwitchesFrom as a loop over the names.                              *)
CopySteps(r, l, names) ==
    /\ r \in [0..Len(names) -> Copies(l.switches)]
    /\ r[0] = NoProgram /\ r[Len(names)] = CopySwitchesFrom(NoProgram, l, names)
    /\ \A k \in 1..Len(names) : r[k] = CopyStep(l, r[k - 1], names[k])

LEMMA CopyLoop ==
    ASSUME NEW l, Named(l.switches), DOMAIN l.switches \subseteq Seq(Letters),
           NEW names \in Seq(DOMAIN l.switches)
    PROVE  \E r : CopySteps(r, l, names)
  <1> DEFINE n == Len(names)
             D == DOMAIN l.switches
             T == Copies(l.switches)
             b == NoProgram
             f == [x \in T \X D |-> CopyStep(l, x[1], x[2])]
             Is(g) == g = [S \in SUBSET (1..n) |->
                             IF S = {} THEN b
                             ELSE CopyStep(l, g[S \ {Max(S)}], names[Max(S)])]
             h == CHOOSE g : Is(g)
  <1>1. \A to \in T, name \in D : CopyStep(l, to, name) \in T
    <2> TAKE to \in T, name \in D
    <2> DEFINE v == l.switches
               W == CopyTexts(v)
               x == NativeText(name, v[name])
    <2>1. PICK a \in Seq(W), S \in SUBSET D : to = Copied(v, a, S) BY DEF Copies
    <2>2. x \in W BY DEF CopyTexts
    <2>3. v = l.switches /\ Named(v) /\ DOMAIN v \subseteq Seq(Letters) /\ name \in DOMAIN v
          /\ x = NativeText(name, v[name])
      OBVIOUS
    <2>4. S \cup {name} \in SUBSET (DOMAIN v) /\ T = Copies(v) OBVIOUS
    <2> HIDE DEF v, W, x, T, D
    <2>5. CopyStep(l, Copied(v, a, S), name) = Copied(v, Append(a, x), S \cup {name})
      <3>1. a \in Seq(W) OBVIOUS
      <3>2. CopyGrows(l, v, a, S, name, x) BY <2>2, <2>3, <3>1, CopiedMore
      <3> QED BY <3>2 DEF CopyGrows
    <2>6. Append(a, x) \in Seq(W) BY <2>2, AppendProperties
    <2> DEFINE u == Append(a, x)
               R == S \cup {name}
    <2>7. u \in Seq(W) /\ R \in SUBSET (DOMAIN v) /\ CopyStep(l, to, name) = Copied(v, u, R)
      BY <2>1, <2>4, <2>5, <2>6
    <2> HIDE DEF u, R
    <2> QED BY <2>4, <2>7 DEF Copies, W
  <1>2. b \in T
    <2> DEFINE e == <<>>
               v == l.switches
               W == CopyTexts(v)
               a == <<e>>
               p == TRUE
               g == [key \in {} |-> v[key]]
    <2>1. e \in W BY DEF CopyTexts
    <2>2. a \in Seq(W) /\ Len(a) = 1
      <3> HIDE DEF e, W
      <3> QED BY <2>1
    <2>3. g = e
      <3>1. e = [key \in DOMAIN e |-> e[key]] /\ DOMAIN e = {} BY EmptySeq
      <3>2. DOMAIN g = {} /\ g = [key \in DOMAIN g |-> g[key]] OBVIOUS
      <3> HIDE DEF e, g
      <3>3. [key \in DOMAIN g |-> g[key]] = [key \in DOMAIN e |-> e[key]] BY <3>1, <3>2
      <3> QED BY <3>1, <3>2, <3>3
    <2>4. b = [argv |-> a, begin |-> 2, switches |-> e, parsing |-> p] BY DEF NoProgram
    <2> HIDE DEF a, e, g, p
    <2>5. b = [argv |-> a, begin |-> Len(a) + 1, switches |-> g, parsing |-> p]
      <3>1. Len(a) + 1 = 2 BY <2>2
      <3> QED BY <2>3, <2>4, <3>1
    <2>6. b = Copied(v, a, {}) BY <2>5 DEF Copied, g, p
    <2>7. {} \in SUBSET D OBVIOUS
    <2> HIDE DEF W, b
    <2> QED BY <2>2, <2>6, <2>7 DEF Copies, W
  <1> HIDE DEF T
  <1>3. f \in [T \X D -> T]
    <2>1. ASSUME NEW to \in T, NEW name \in D PROVE CopyStep(l, to, name) \in T BY <1>1
    <2> HIDE DEF D
    <2> QED BY <2>1
  <1>4. \A to \in T, name \in D : f[<<to, name>>] = CopyStep(l, to, name)
    <2> HIDE DEF D
    <2> QED OBVIOUS
  <1>5. n \in Nat /\ (\A i \in 1..n : names[i] \in D) /\ DOMAIN names = 1..n
    BY LenProperties, ElementOfSeq
  <1>6. CopySwitchesFrom(NoProgram, l, names) = h[1..n]
    BY <1>5 DEF CopySwitchesFrom, FoldLeft, MapThenFoldSet, CopyStep
  <1> HIDE DEF f, n, D, b
  <1>7. \A S \in SUBSET (1..n) : S # {} => names[Max(S)] \in D
    BY <1>5, MaxOfInterval
  <1>8. PICK g : Folds(g, f, b, names, n, T)
    BY <1>2, <1>3, <1>5, FoldExists
  <1>9. Is(g)
    BY <1>4, <1>7, <1>8 DEF Folds
  <1>10. Is(h)
    <2> HIDE DEF Is
    <2> QED BY <1>9
  <1> HIDE DEF h
  <1>11. FoldsFrom(h, f, b, names, n, T)
    BY <1>4, <1>7, <1>10 DEF FoldsFrom
  <1>12. PICK r : Steps(r, f, b, names, n, T, h[1..n])
    BY <1>2, <1>3, <1>5, <1>11, FoldSteps
  <1>13. ASSUME NEW k \in 1..n PROVE r[k] = CopyStep(l, r[k - 1], names[k])
    <2>1. k - 1 \in 0..n BY <1>5
    <2>2. r[k - 1] \in T /\ names[k] \in D BY <1>5, <1>12, <2>1 DEF Steps
    <2> QED BY <1>4, <1>12, <2>2 DEF Steps
  <1> QED BY <1>6, <1>12, <1>13 DEF n, b, T, Steps, CopySteps

(* The copy has the switches and no argument.                              *)
LEMMA CopiedAll ==
    ASSUME NEW l, NEW f, f = l.switches, Values(f), Named(f),
           NEW copy, copy = CopySwitchesFrom(NoProgram, l, SetToSeq(DOMAIN f))
    PROVE  copy.switches = f /\ GetArgs(copy) = <<>>
  <1> DEFINE D == DOMAIN f
             W == CopyTexts(f)
             names == SetToSeq(D)
             n == Cardinality(D)
  <1>1. IsFiniteSet(D) /\ D \subseteq Seq(Letters) /\ f = [key \in D |-> f[key]] BY DEF Values
  <1>2. /\ n \in Nat /\ names \in Seq(D) /\ Len(names) = n
        /\ (\A i \in 1..n : names[i] \in D) /\ \A d \in D : \E i \in 1..n : names[i] = d
    <2> HIDE DEF D, names, n
    <2>1. names = SetToSeq(D) /\ n = Cardinality(D) BY DEF names, n
    <2>2. Lists(names, D, n) BY <1>1, <2>1, NamesAre
    <2> QED BY <2>2 DEF Lists
  <1> HIDE DEF names, n
  <1>3. PICK r : CopySteps(r, l, names) BY <1>1, <1>2, CopyLoop
  <1>4. /\ r \in [0..n -> Copies(f)] /\ r[n] = copy
        /\ \A k \in 1..n : r[k] = CopyStep(l, r[k - 1], names[k])
    BY <1>2, <1>3 DEF CopySteps, names
  <1>5. \A k \in 0..n : \E a \in Seq(W), S \in SUBSET D : r[k] = Copied(f, a, S)
    <2> TAKE k \in 0..n
    <2>1. r[k] \in Copies(f) BY <1>4
    <2> QED BY <2>1 DEF Copies
  <1>6. ASSUME NEW a, NEW S PROVE DOMAIN (Copied(f, a, S).switches) = S BY DEF Copied
  <1> DEFINE Has(k) == {names[i] : i \in 1..k} \subseteq DOMAIN (r[k].switches)
             K == {k \in Nat : Has(k)}
  <1>7. 0 \in K OBVIOUS
  <1>8. ASSUME NEW k \in 1..n, k - 1 \in K PROVE k \in K
    <2>1. k - 1 \in 0..n /\ names[k] \in D BY <1>2
    <2>2. PICK a \in Seq(W), S \in SUBSET D : r[k - 1] = Copied(f, a, S) BY <1>5, <2>1
    <2> DEFINE name == names[k]
               x == NativeText(name, f[name])
    <2>3. x \in W BY <2>1 DEF CopyTexts
    <2>11. x = NativeText(name, f[name]) /\ name \in DOMAIN f /\ DOMAIN f \subseteq Seq(Letters)
      BY <1>1, <2>1
    <2> HIDE DEF x, W, name
    <2>4. CopyStep(l, Copied(f, a, S), name) = Copied(f, Append(a, x), S \cup {name})
      <3>1. CopyGrows(l, f, a, S, name, x) BY <2>3, <2>11, CopiedMore
      <3> QED BY <3>1 DEF CopyGrows
    <2>5. r[k] = Copied(f, Append(a, x), S \cup {name}) BY <1>4, <2>2, <2>4 DEF name
    <2>6. DOMAIN (r[k].switches) = S \cup {name} BY <1>6, <2>5
    <2>7. {names[i] : i \in 1..k - 1} \subseteq S
      <3>1. DOMAIN (r[k - 1].switches) = S BY <1>6, <2>2
      <3> QED BY <1>8, <3>1
    <2>8. \A i \in 1..k : i \in 1..k - 1 \/ i = k OBVIOUS
    <2>9. \A i \in 1..k : names[i] \in S \cup {name} BY <2>7, <2>8 DEF name
    <2>10. Has(k) BY <2>6, <2>9
    <2> QED BY <2>10
  <1>9. \A k \in 0..n : k \in K
    <2> HIDE DEF K
    <2> QED BY <1>2, <1>7, <1>8, InductionUpTo
  <1>10. Has(n) /\ n \in 0..n BY <1>2, <1>9
  <1>11. PICK a \in Seq(W), S \in SUBSET D : copy = Copied(f, a, S) BY <1>4, <1>5, <1>10
  <1>12. S = D
    <2>1. DOMAIN (r[n].switches) = S BY <1>4, <1>6, <1>11
    <2>2. \A d \in D : d \in S BY <1>2, <1>10, <2>1
    <2> QED BY <2>2
  <1> HIDE DEF W, D
  <1>13. /\ copy.argv = a /\ copy.begin = Len(a) + 1 /\ copy.switches = [key \in S |-> f[key]]
    <2> DEFINE b == Len(a) + 1
               g == [key \in S |-> f[key]]
    <2>1. copy = [argv |-> a, begin |-> b, switches |-> g, parsing |-> TRUE] BY <1>11 DEF Copied
    <2> HIDE DEF b, g
    <2>2. copy.argv = a /\ copy.begin = b /\ copy.switches = g BY <2>1
    <2> QED BY <2>2 DEF b, g
  <1>14. From(copy.argv, copy.begin) = <<>>
    <2>1. Len(a) + 1 \in Int /\ Len(a) \in Int /\ Len(a) < Len(a) + 1 BY LenProperties
    <2>2. SubSeq(a, Len(a) + 1, Len(a)) = <<>> BY <2>1, SubSeqEmpty
    <2> QED BY <1>13, <2>2 DEF From
  <1>15. GetArgs(copy) = Without(From(copy.argv, copy.begin)) BY DEF GetArgs, Without
  <1>16. Without(<<>>) = <<>>
    <2> DEFINE e == <<>>
    <2>1. e \in Seq(Seq(Letters)) /\ Len(e) = 0 /\ e \in Seq(Letters) BY EmptySeq
    <2> HIDE DEF e
    <2>2. ~Ends(e) BY <2>1 DEF Ends
    <2>3. Without(e) = e BY <2>1, <2>2, ArgumentsGrow
    <2> QED BY <2>3 DEF e
  <1> QED BY <1>1, <1>12, <1>13, <1>14, <1>15, <1>16

(* What is put in front of argv_ moves begin_args_ with it.                *)
LEMMA WrappedSame ==
    ASSUME NEW C, NEW wrapper \in Seq(C), wrapper # <<>>, NEW W, NEW l, Fields(l),
           l.argv \in Seq(W), l.begin \in Nat \ {0}, l.begin <= Len(l.argv) + 1,
           NEW next, next = PrependWrapper(l, wrapper)
    PROVE  GetArgs(next) = GetArgs(l) /\ next.switches = l.switches
  <1> DEFINE words == SplitString(wrapper, kBlank)
             U == W \cup Seq(C)
             argv == l.argv
             b == l.begin
             n == Len(words)
             m == Len(argv)
             s == words \o argv
  <1>1. words \in Seq(Seq(C))
    <2> HIDE DEF words
    <2>1. words = SplitString(wrapper, kBlank) BY DEF words
    <2> QED BY <2>1, SplitAtBlanks
  <1>2. next = [l EXCEPT !.argv = s, !.begin = b + n]
    <2>1. PrependWrapper(l, wrapper) = [l EXCEPT !.argv = words \o @, !.begin = @ + Len(words)]
      BY DEF PrependWrapper, kBlank
    <2> HIDE DEF words
    <2> QED BY <2>1 DEF Fields
  <1> HIDE DEF words
  <1>3. words \in Seq(U) /\ argv \in Seq(U)
    <2>1. W \subseteq U /\ Seq(C) \subseteq U OBVIOUS
    <2> HIDE DEF U
    <2> QED BY <1>1, <2>1, SeqMonotonic
  <1> HIDE DEF argv, U
  <1>4. n \in Nat /\ m \in Nat /\ s \in Seq(U) /\ Len(s) = n + m
    BY <1>3, LenProperties, ConcatProperties
  <1>5. next.argv = s /\ next.begin = b + n /\ next.switches = l.switches
    <2> HIDE DEF s, n
    <2> QED BY <1>2 DEF Fields
  <1>6. SubSeq(s, b + n, n + m) = SubSeq(argv, b, m)
    <2>1. b \in Nat \ {0} /\ b <= m + 1 BY DEF b, m, argv
    <2> HIDE DEF b
    <2>2. CASE b <= m
      <3> HIDE DEF n, m
      <3>1. b + n \in n + 1..n + m /\ n + m \in n + 1..n + m /\ (b + n) - n = b
            /\ (n + m) - n = m
        BY <1>4, <2>1, <2>2
      <3> DEFINE i == b + n
                 j == n + m
      <3> HIDE DEF i, j
      <3>2. i \in Len(words) + 1..Len(words) + Len(argv) /\ j \in Len(words) + 1..Len(words) + Len(argv)
        BY <3>1 DEF n, m, i, j
      <3>3. SubSeq(words \o argv, i, j) = SubSeq(argv, i - Len(words), j - Len(words))
        BY <1>3, <3>2, SubSeqOfConcat2
      <3> QED BY <3>1, <3>3 DEF i, j, n
    <2>3. CASE b = m + 1
      <3>1. b \in Int /\ m \in Int /\ m < b /\ b + n \in Int /\ n + m \in Int /\ n + m < b + n
        BY <1>4, <2>1, <2>3
      <3> HIDE DEF n, m, s
      <3>2. SubSeq(argv, b, m) = <<>> BY <3>1, SubSeqEmpty
      <3>3. SubSeq(s, b + n, n + m) = <<>>
        <4> DEFINE i == b + n
                   j == n + m
        <4>1. i \in Int /\ j \in Int /\ j < i BY <3>1
        <4> HIDE DEF i, j
        <4>2. SubSeq(s, i, j) = <<>> BY <4>1, SubSeqEmpty
        <4> QED BY <4>2 DEF i, j
      <3> QED BY <3>2, <3>3
    <2> QED BY <1>4, <2>1, <2>2, <2>3
  <1>7. From(next.argv, next.begin) = From(l.argv, l.begin)
    BY <1>4, <1>5, <1>6 DEF From, b, m, argv
  <1> QED BY <1>5, <1>7 DEF GetArgs
=============================================================================
