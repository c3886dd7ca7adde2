----------------------------- MODULE DataLemmas -----------------------------
(***************************************************************************)
(* Lemmas about the data structures of the runtime, which the proofs of    *)
(* its components share: every search for "the first free" index or        *)
(* address is the least element of a set of numbers, and every queue is a  *)
(* sequence whose elements are counted.                                    *)
(***************************************************************************)
EXTENDS FiniteSetsExt, Functions, FiniteSetTheorems, SequenceTheorems,
        WellFoundedInduction, TLAPS

(* Min of a non-empty set of natural numbers is its least element.         *)
LEMMA MinIsLeast ==
  ASSUME NEW T, T \subseteq Nat, T # {}
  PROVE  /\ Min(T) \in T
         /\ \A y \in T : Min(T) <= y
<1> DEFINE R == OpToRel(<, Nat)
<1>1. \E x \in T : \A y \in T : <<y, x>> \notin R
  <2>1. IsWellFoundedOn(R, Nat)
    BY NatLessThanWellFounded
  <2> HIDE DEF R
  <2> QED BY <2>1, WFMin
<1>2. \A x, y \in Nat : <<y, x>> \notin R => x <= y
  BY DEF OpToRel
<1>3. \E x \in T : \A y \in T : x <= y
  BY <1>1, <1>2
<1> QED BY <1>3 DEF Min

-----------------------------------------------------------------------------
(* Appending adds one element to the range of a sequence, Tail adds none.  *)
LEMMA RangeSteps ==
  ASSUME NEW S, NEW s \in Seq(S)
  PROVE  /\ \A f \in S : Range(Append(s, f)) \subseteq Range(s) \cup {f}
         /\ s # << >> => Range(Tail(s)) \subseteq Range(s) /\ Head(s) \in Range(s)
<1>1. ASSUME NEW f \in S PROVE Range(Append(s, f)) \subseteq Range(s) \cup {f}
  BY AppendProperties DEF Range
<1>2. ASSUME s # << >> PROVE Range(Tail(s)) \subseteq Range(s) /\ Head(s) \in Range(s)
  <2>1. /\ Len(s) \in Nat \ {0} /\ DOMAIN s = 1..Len(s) /\ Head(s) = s[1]
        /\ DOMAIN Tail(s) = 1..(Len(s) - 1)
        /\ \A i \in 1..(Len(s) - 1) : Tail(s)[i] = s[i + 1]
    BY <1>2, HeadTailProperties, LenProperties, EmptySeq
  <2> QED BY <2>1 DEF Range
<1> QED BY <1>1, <1>2

(* How many frames of the set H a queue or a receive buffer holds.         *)
HowMany(H, s) == Cardinality({i \in DOMAIN s : s[i] \in H})

(* A queue holds finitely many frames of a set, and the empty one none.    *)
LEMMA HowManyType ==
  ASSUME NEW S, NEW s \in Seq(S), NEW H
  PROVE  /\ IsFiniteSet({i \in DOMAIN s : s[i] \in H})
         /\ HowMany(H, s) \in Nat
         /\ HowMany(H, << >>) = 0
<1>1. DOMAIN s = 1..Len(s) /\ Len(s) \in Nat
  BY LenProperties
<1>2. IsFiniteSet({i \in DOMAIN s : s[i] \in H})
  <2>1. IsFiniteSet(1..Len(s))
    BY <1>1, FS_Interval
  <2>2. {i \in DOMAIN s : s[i] \in H} \in SUBSET (1..Len(s))
    BY <1>1
  <2> QED BY <2>1, <2>2, FS_Subset
<1>3. {i \in DOMAIN << >> : << >>[i] \in H} = {}
  OBVIOUS
<1> QED BY <1>2, <1>3, FS_CardinalityType, FS_EmptySet DEF HowMany

(* Appending a frame of H adds one, appending another frame none.          *)
LEMMA HowManyAppend ==
  ASSUME NEW S, NEW s \in Seq(S), NEW g \in S, NEW H
  PROVE  HowMany(H, Append(s, g)) = IF g \in H THEN HowMany(H, s) + 1 ELSE HowMany(H, s)
<1> DEFINE t == Append(s, g)
           before == {i \in DOMAIN s : s[i] \in H}
           after  == {i \in DOMAIN t : t[i] \in H}
<1>1. /\ DOMAIN s = 1..Len(s) /\ Len(s) \in Nat
      /\ DOMAIN t = 1..(Len(s) + 1)
      /\ \A i \in 1..Len(s) : t[i] = s[i]
      /\ t[Len(s) + 1] = g
  BY AppendProperties, LenProperties
<1>2. IsFiniteSet(before)
  BY HowManyType
<1>3. CASE g \in H
  <2>1. after = before \cup {Len(s) + 1} /\ Len(s) + 1 \notin before
    BY <1>1, <1>3
  <2> QED BY <1>2, <1>3, <2>1, FS_AddElement DEF HowMany
<1>4. CASE g \notin H
  <2>1. after = before
    BY <1>1, <1>4
  <2> QED BY <1>4, <2>1 DEF HowMany
<1> QED BY <1>3, <1>4

(* Removing the head takes one away when it is in H, and none otherwise.   *)
LEMMA HowManyTail ==
  ASSUME NEW S, NEW s \in Seq(S), s # << >>, NEW H
  PROVE  HowMany(H, s) = IF Head(s) \in H THEN HowMany(H, Tail(s)) + 1 ELSE HowMany(H, Tail(s))
<1> DEFINE t == Tail(s)
           whole == {i \in DOMAIN s : s[i] \in H}
           rest  == {i \in DOMAIN t : t[i] \in H}
<1>1. /\ DOMAIN s = 1..Len(s) /\ Len(s) \in Nat \ {0} /\ Head(s) = s[1]
      /\ DOMAIN t = 1..(Len(s) - 1)
      /\ \A i \in 1..(Len(s) - 1) : t[i] = s[i + 1]
  BY HeadTailProperties, LenProperties, EmptySeq
<1>2. IsFiniteSet(whole) /\ IsFiniteSet(rest)
  BY HeadTailProperties, HowManyType
<1>3. Cardinality(whole \ {1}) = Cardinality(rest)
  <2> DEFINE shift == [i \in rest |-> i + 1]
  <2>0. rest \subseteq Int /\ whole \subseteq Int
    BY <1>1
  <2>1. shift \in [rest -> whole \ {1}]
    BY <1>1
  <2>2. shift \in Surjection(rest, whole \ {1})
    <3>1. \A j \in whole \ {1} : j - 1 \in rest /\ shift[j - 1] = j
      BY <1>1
    <3> QED BY <2>1, <3>1 DEF Surjection
  <2>3. shift \in Injection(rest, whole \ {1})
    <3>1. \A i, j \in rest : shift[i] = shift[j] => i = j
      BY <2>0
    <3> QED BY <2>1, <3>1 DEF Injection, IsInjective
  <2>4. ExistsBijection(rest, whole \ {1})
    BY <2>2, <2>3 DEF ExistsBijection, Bijection
  <2> QED BY <1>2, <2>4, FS_Bijection
<1>4. Cardinality(whole \ {1}) = IF 1 \in whole THEN Cardinality(whole) - 1 ELSE Cardinality(whole)
  BY <1>2, FS_RemoveElement
<1>5. Cardinality(whole) \in Nat
  BY <1>2, FS_CardinalityType
<1>6. 1 \in whole <=> Head(s) \in H
  BY <1>1
<1>7. HowMany(H, s) = Cardinality(whole) /\ HowMany(H, Tail(s)) = Cardinality(rest)
  BY DEF HowMany
<1> HIDE DEF whole, rest, t
<1> QED BY <1>3, <1>4, <1>5, <1>6, <1>7

(* How often frame f occurs in a queue or a receive buffer.                *)
Copies(f, s) == HowMany({f}, s)

LEMMA CopiesType ==
  ASSUME NEW S, NEW s \in Seq(S), NEW f
  PROVE  Copies(f, s) \in Nat /\ Copies(f, << >>) = 0
BY HowManyType DEF Copies

LEMMA CopiesAppend ==
  ASSUME NEW S, NEW s \in Seq(S), NEW g \in S, NEW f
  PROVE  Copies(f, Append(s, g)) = IF g = f THEN Copies(f, s) + 1 ELSE Copies(f, s)
BY HowManyAppend DEF Copies

LEMMA CopiesTail ==
  ASSUME NEW S, NEW s \in Seq(S), s # << >>, NEW f
  PROVE  Copies(f, s) = IF Head(s) = f THEN Copies(f, Tail(s)) + 1 ELSE Copies(f, Tail(s))
BY HowManyTail DEF Copies

-----------------------------------------------------------------------------
(* Sequences: an entry at the end, the first one taken away                *)

(* A sequence over a set is one over a larger set.                         *)
LEMMA SeqLarger ==
  ASSUME NEW S, NEW T, S \subseteq T, NEW t \in Seq(S)
  PROVE  t \in Seq(T)
<1>1. Len(t) \in Nat /\ t \in [1..Len(t) -> S]
  BY LenProperties
<1>2. t \in [1..Len(t) -> T]
  BY <1>1
<1> QED BY <1>1, <1>2, SeqDef

(* The same for the whole range, when the new entry is known to be there.  *)
LEMMA RangeAppend ==
  ASSUME NEW S, NEW s \in Seq(S), NEW x \in S
  PROVE  Range(Append(s, x)) = Range(s) \cup {x}
<1>1. /\ DOMAIN Append(s, x) = 1..(Len(s) + 1) /\ DOMAIN s = 1..Len(s) /\ Len(s) \in Nat
      /\ \A p \in 1..Len(s) : Append(s, x)[p] = s[p]
      /\ Append(s, x)[Len(s) + 1] = x
  BY AppendProperties, LenProperties
<1>2. 1..(Len(s) + 1) = (1..Len(s)) \cup {Len(s) + 1}
  BY <1>1
<1> QED BY <1>1, <1>2 DEF Range

(* A new entry goes to the end of a sequence.                              *)
LEMMA AppendSteps ==
  ASSUME NEW S, NEW s \in Seq(S), NEW x \in S, NEW u, u = Append(s, x)
  PROVE  /\ u \in Seq(S) /\ Len(u) = Len(s) + 1 /\ u[Len(u)] = x
         /\ DOMAIN u = DOMAIN s \cup {Len(u)} /\ Len(u) \notin DOMAIN s /\ Len(u) \in DOMAIN u
         /\ \A p \in DOMAIN s : u[p] = s[p]
         /\ u # s
         /\ DOMAIN s = 1..Len(s) /\ DOMAIN u = 1..Len(u) /\ Len(s) \in Nat /\ Len(u) \in Nat
<1>1. /\ u \in Seq(S) /\ Len(u) = Len(s) + 1
      /\ \A p \in 1..Len(s) : u[p] = s[p]
      /\ u[Len(s) + 1] = x
  BY AppendProperties
<1>2. DOMAIN s = 1..Len(s) /\ DOMAIN u = 1..Len(u) /\ Len(s) \in Nat
  BY <1>1, LenProperties
<1> DEFINE m == Len(s)
           l == Len(u)
<1>3. l = m + 1 /\ m \in Nat
  BY <1>1, <1>2
<1> HIDE DEF l, m
<1>4. l \in Nat /\ 1..l = (1..m) \cup {l} /\ l \notin 1..m /\ l \in 1..l /\ l # m
  BY <1>3
<1>5. u # s
  BY <1>4 DEF l, m
<1> QED BY <1>1, <1>2, <1>4, <1>5 DEF l, m

(* Taking the first frame from a sequence.                                 *)
LEMMA InboxHead ==
  ASSUME NEW S, NEW q \in Seq(S), q # <<>>
  PROVE  Head(q) \in S /\ Tail(q) \in Seq(S) /\ Len(Tail(q)) = Len(q) - 1 /\ Len(q) \in Nat
BY HeadTailProperties, LenProperties

(* A sequence is one over its own range.                                   *)
LEMMA OverItsRange ==
  ASSUME NEW S, NEW s \in Seq(S)
  PROVE  s \in Seq(Range(s)) /\ DOMAIN s = 1..Len(s) /\ Len(s) \in Nat
<1> DEFINE c == Len(s)
           T == Range(s)
<1>1. DOMAIN s = 1..c /\ c \in Nat /\ s \in [1..c -> S]
  BY LenProperties
<1>2. s \in [1..c -> T]
  BY <1>1 DEF Range
<1> HIDE DEF T, c
<1>3. s \in Seq(T)
  BY <1>1, <1>2
<1> QED BY <1>1, <1>3 DEF T, c

(* Numbers of one parity that all change by one, or by nothing or two,     *)
(* stay of one parity.                                                     *)
LEMMA Halves ==
  ASSUME NEW a \in Nat, NEW b \in Nat, NEW c \in Nat, NEW d \in Nat, a % 2 = b % 2
  PROVE  /\ (c = a \/ c + 2 = a) /\ (d = b \/ d + 2 = b) => c % 2 = d % 2
         /\ c = a + 1 /\ d = b + 1 => c % 2 = d % 2
OBVIOUS

-----------------------------------------------------------------------------
(* Loops. FoldLeft over a sequence applies an operator to the elements     *)
(* from the first to the last. It is defined by a recursion over sets of   *)
(* indices, for which the first lemmas show that it has a solution and     *)
(* what the solution is.                                                   *)

(* Induction over an initial segment of the natural numbers: the set B of  *)
(* the numbers for which something holds takes the place of the induction  *)
(* formula.                                                                *)
LEMMA CountUp ==
  ASSUME NEW n \in Nat, NEW B, 0 \in B, \A k \in 1..n : k - 1 \in B => k \in B
  PROVE  \A k \in 0..n : k \in B
<1> DEFINE Missing == {k \in 0..n : k \notin B}
<1> SUFFICES ASSUME Missing # {} PROVE FALSE
  OBVIOUS
<1>1. Min(Missing) \in Missing /\ \A k \in Missing : Min(Missing) <= k
  BY MinIsLeast
<1> DEFINE m == Min(Missing)
<1>2. m \in 1..n /\ m - 1 \in 0..n
  BY <1>1
<1>3. m - 1 \notin Missing
  BY <1>1, <1>2
<1> QED BY <1>1, <1>2, <1>3

(* Max of a non-empty set of positions is its greatest element.            *)
LEMMA MaxIsGreatest ==
  ASSUME NEW n \in Nat, NEW T, T \subseteq 1..n, T # {}
  PROVE  /\ Max(T) \in T
         /\ \A y \in T : y <= Max(T)
<1> DEFINE D == {n - x : x \in T}
<1>1. D \subseteq Nat /\ D # {}
  <2>1. \A x \in T : n - x \in Nat
    OBVIOUS
  <2>2. PICK x \in T : TRUE
    OBVIOUS
  <2>3. n - x \in D
    OBVIOUS
  <2> QED BY <2>1, <2>3
<1>2. Min(D) \in D /\ \A y \in D : Min(D) <= y
  BY <1>1, MinIsLeast
<1>3. PICK x \in T : Min(D) = n - x
  BY <1>2
<1>4. \A y \in T : x >= y
  <2> TAKE y \in T
  <2>1. n - x <= n - y
    BY <1>2, <1>3
  <2> QED BY <2>1
<1>5. \E z \in T : \A y \in T : z >= y
  BY <1>4
<1>6. Max(T) \in T /\ \A y \in T : Max(T) >= y
  BY <1>5 DEF Max
<1> QED BY <1>6

(* F solves the recursion of a fold from the left over n elements, where g *)
(* takes the result so far and a position to the next result.              *)
Folds(F, n, base, g) ==
  \A u \in SUBSET (1..n) : F[u] = IF u = {} THEN base ELSE g[<<F[u \ {Max(u)}], Max(u)>>]

\* The same, as far as the results are in R.
FoldsIn(R, F, n, base, g) ==
  \A u \in SUBSET (1..n) :
    /\ u = {} => F[u] = base
    /\ u # {} /\ F[u \ {Max(u)}] \in R => F[u] = g[<<F[u \ {Max(u)}], Max(u)>>]

\* The results after 0, 1, ..., n elements, the last one being that of F.
Runs(h, F, n, base, g) ==
  h[0] = base /\ h[n] = F[1..n] /\ \A k \in 1..n : h[k] = g[<<h[k - 1], k>>]

(* The recursion has a solution.                                           *)
LEMMA FoldExists ==
  ASSUME NEW n \in Nat, NEW R, NEW base \in R, NEW g \in [R \X (1..n) -> R]
  PROVE  \E F \in [SUBSET (1..n) -> R] : Folds(F, n, base, g)
<1> DEFINE Solves(F, k) == \A u \in SUBSET (1..k) :
             F[u] = IF u = {} THEN base ELSE g[<<F[u \ {Max(u)}], Max(u)>>]
           B == {k \in 0..n : \E F \in [SUBSET (1..k) -> R] : Solves(F, k)}
<1>1. 0 \in B
  <2> DEFINE F == [u \in SUBSET (1..0) |-> base]
  <2>1. F \in [SUBSET (1..0) -> R] /\ 1..0 = {}
    OBVIOUS
  <2>2. Solves(F, 0)
    BY <2>1
  <2> HIDE DEF Solves, F
  <2>3. \E X \in [SUBSET (1..0) -> R] : Solves(X, 0)
    BY <2>1, <2>2
  <2>4. 0 \in 0..n
    OBVIOUS
  <2> QED BY <2>3, <2>4
<1>2. ASSUME NEW k \in 1..n, k - 1 \in B PROVE k \in B
  <2>1. PICK F \in [SUBSET (1..(k - 1)) -> R] : Solves(F, k - 1)
    BY <1>2
  <2> DEFINE G == [u \in SUBSET (1..k) |->
                    IF k \in u THEN g[<<F[u \ {k}], k>>] ELSE F[u]]
  <2>2. ASSUME NEW u \in SUBSET (1..k), k \in u
        PROVE  Max(u) = k /\ u \ {k} \in SUBSET (1..(k - 1)) /\ u # {}
    <3>0. u \subseteq 1..k /\ k \in Nat
      OBVIOUS
    <3>1. Max(u) \in u /\ \A y \in u : y <= Max(u)
      BY <2>2, <3>0, MaxIsGreatest
    <3>2. Max(u) = k
      <4>1. Max(u) \in 1..k /\ k <= Max(u)
        BY <2>2, <3>0, <3>1
      <4> QED BY <4>1
    <3>3. \A y \in u \ {k} : y \in 1..(k - 1)
      BY <3>0
    <3> QED BY <2>2, <3>2, <3>3
  <2>3. ASSUME NEW u \in SUBSET (1..k), k \notin u
        PROVE  u \in SUBSET (1..(k - 1)) /\ u \ {Max(u)} \in SUBSET (1..(k - 1))
    <3>1. \A y \in u : y \in 1..(k - 1)
      BY <2>3
    <3> QED BY <3>1
  <2>4. G \in [SUBSET (1..k) -> R]
    BY <2>2, <2>3
  <2>5. ASSUME NEW u \in SUBSET (1..k)
        PROVE  G[u] = IF u = {} THEN base ELSE g[<<G[u \ {Max(u)}], Max(u)>>]
    <3>1. CASE k \in u
      <4>1. u \ {k} \in SUBSET (1..k) /\ k \notin u \ {k}
        OBVIOUS
      <4>2. G[u \ {k}] = F[u \ {k}]
        BY <4>1
      <4> QED BY <2>2, <3>1, <4>2
    <3>2. CASE k \notin u
      <4>1. G[u] = F[u]
        BY <3>2
      <4>2. u \in SUBSET (1..(k - 1))
        BY <2>3, <3>2
      <4>3. u # {} => G[u \ {Max(u)}] = F[u \ {Max(u)}]
        BY <2>3, <3>2
      <4> QED BY <2>1, <4>1, <4>2, <4>3
    <3> QED BY <3>1, <3>2
  <2>6. Solves(G, k)
    BY <2>5
  <2> HIDE DEF Solves, G
  <2> QED BY <2>4, <2>6
<1> HIDE DEF B
<1>3. \A k \in 0..n : k \in B
  BY <1>1, <1>2, CountUp
<1>4. n \in B
  BY <1>3
<1> QED BY <1>4 DEF B, Folds

(* Every solution of that recursion goes through the prefixes of the n     *)
(* elements.                                                               *)
LEMMA FoldSteps ==
  ASSUME NEW n \in Nat, NEW R, NEW base \in R, NEW g \in [R \X (1..n) -> R], NEW F,
         FoldsIn(R, F, n, base, g)
  PROVE  \E h \in [0..n -> R] : Runs(h, F, n, base, g)
<1> DEFINE B == {k \in 0..n : F[1..k] \in R}
           h == [k \in 0..n |-> F[1..k]]
<1>1. F[1..0] = base
  <2>1. 1..0 = {} /\ {} \in SUBSET (1..n)
    OBVIOUS
  <2> QED BY <2>1 DEF FoldsIn
<1>2. ASSUME NEW k \in 1..n, F[1..(k - 1)] \in R
      PROVE  F[1..k] = g[<<F[1..(k - 1)], k>>]
  <2>1. 1..k \in SUBSET (1..n) /\ 1..k # {} /\ k \in 1..k
    OBVIOUS
  <2>2. Max(1..k) \in 1..k /\ \A y \in 1..k : y <= Max(1..k)
    BY <2>1, MaxIsGreatest
  <2>3. Max(1..k) = k
    BY <2>1, <2>2
  <2>4. (1..k) \ {k} = 1..(k - 1)
    OBVIOUS
  <2> QED BY <1>2, <2>1, <2>3, <2>4 DEF FoldsIn
<1>3. 0 \in B
  BY <1>1
<1>4. ASSUME NEW k \in 1..n, k - 1 \in B PROVE k \in B
  <2>1. F[1..k] = g[<<F[1..(k - 1)], k>>] /\ F[1..(k - 1)] \in R
    BY <1>2, <1>4
  <2>2. F[1..k] \in R
    BY <2>1
  <2> QED BY <2>2
<1>5. \A k \in 0..n : k \in B
  <2> HIDE DEF B
  <2> QED BY <1>3, <1>4, CountUp
<1>6. h \in [0..n -> R]
  BY <1>5
<1>7. \A k \in 1..n : k - 1 \in 0..n /\ k \in 0..n
  OBVIOUS
<1>8. \A k \in 1..n : h[k] = g[<<h[k - 1], k>>]
  BY <1>2, <1>5, <1>7
<1>9. h[0] = base /\ h[n] = F[1..n]
  BY <1>1
<1> HIDE DEF h
<1> QED BY <1>6, <1>8, <1>9 DEF Runs

(* Results of a fold whose operator follows g on R: they exist, and they   *)
(* go through the prefixes.                                                *)
LEMMA FoldRuns ==
  ASSUME NEW n \in Nat, NEW R, NEW base \in R, NEW g \in [R \X (1..n) -> R], NEW it,
         ASSUME NEW F \in [SUBSET (1..n) -> R], Folds(F, n, base, g)
         PROVE  FoldsIn(R, it, n, base, g)
  PROVE  \E h \in [0..n -> R] : Runs(h, it, n, base, g)
<1>1. \E F \in [SUBSET (1..n) -> R] : Folds(F, n, base, g)
  BY FoldExists
<1>2. FoldsIn(R, it, n, base, g)
  BY <1>1
<1> QED BY <1>2, FoldSteps
=============================================================================
