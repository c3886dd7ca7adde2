-------------------------- MODULE EndpointsProofs --------------------------
(***************************************************************************)
(* What the registration of endpoints and the devices guarantee for every  *)
(* number of nodes, every configuration that the schemas accept and every  *)
(* size of the tables, queues and buffers.                                 *)
(*                                                                         *)
(* Part 1 follows the loops of setup through the tables; part 2 shows what *)
(* the handlers do to a node, among them the two loops over the listeners, *)
(* and the types; part 3 is about togglers, part 4 about mirrors.          *)
(***************************************************************************)
EXTENDS Endpoints, DataLemmas

-----------------------------------------------------------------------------
(* Part 1.  The loops.  For every operator that a loop applies: the loop,  *)
(* what it takes for its results to stay in R, and its results after 0, 1, *)
(* ... elements.                                                           *)

Filled(base, s) == FoldLeft(IntoFreeSlot, base, s)

FilledIn(R, X) == \A r \in R, x \in X : IntoFreeSlot(r, x) \in R

FilledVia(h, base, s) ==
  /\ h[0] = base /\ h[Len(s)] = Filled(base, s)
  /\ \A k \in 1..Len(s) : h[k] = IntoFreeSlot(h[k - 1], s[k])

(* IntoFreeSlot is applied once per element, from the first to the last.   *)
LEMMA FreeSlotSteps ==
  ASSUME NEW R, NEW base \in R, NEW X, NEW s \in Seq(X),
         FilledIn(R, X)
  PROVE  \E h \in [0..Len(s) -> R] : FilledVia(h, base, s)
<1> DEFINE n == Len(s)
           g == [x \in R \X (1..n) |-> IntoFreeSlot(x[1], s[x[2]])]
           Sol(F) == F = [u \in SUBSET DOMAIN s |->
                           IF u = {} THEN base ELSE IntoFreeSlot(F[u \ {Max(u)}], s[Max(u)])]
           it == CHOOSE F : Sol(F)
<1>1. n \in Nat /\ DOMAIN s = 1..n /\ \A k \in 1..n : s[k] \in X
  BY LenProperties, ElementOfSeq
<1>2. Filled(base, s) = it[1..n]
  BY <1>1 DEF Filled, FoldLeft, MapThenFoldSet
<1> HIDE DEF n
<1>3. g \in [R \X (1..n) -> R] /\ \A r \in R, k \in 1..n : g[<<r, k>>] = IntoFreeSlot(r, s[k])
  BY <1>1 DEF FilledIn
<1> HIDE DEF g
<1>4. ASSUME NEW F \in [SUBSET (1..n) -> R], Folds(F, n, base, g) PROVE FoldsIn(R, it, n, base, g)
  <2>1. \A u \in SUBSET (1..n) : u # {} => Max(u) \in 1..n /\ u \ {Max(u)} \in SUBSET (1..n)
    BY <1>1, MaxIsGreatest
  <2>2. F = [u \in SUBSET (1..n) |-> F[u]]
    OBVIOUS
  <2>3. \A u \in SUBSET (1..n) :
          F[u] = IF u = {} THEN base ELSE IntoFreeSlot(F[u \ {Max(u)}], s[Max(u)])
    BY <1>3, <1>4, <2>1 DEF Folds
  <2>4. Sol(F)
    BY <1>1, <2>2, <2>3
  <2>5. Sol(it)
    <3> HIDE DEF Sol
    <3> QED BY <2>4
  <2> HIDE DEF it
  <2> QED BY <1>1, <1>3, <2>1, <2>5 DEF FoldsIn
<1> HIDE DEF it
<1>5. PICK h \in [0..n -> R] : Runs(h, it, n, base, g)
  BY <1>1, <1>3, <1>4, FoldRuns
<1>6. \A k \in 1..n : k - 1 \in 0..n
  BY <1>1
<1>7. \A k \in 1..n : h[k] = IntoFreeSlot(h[k - 1], s[k])
  BY <1>3, <1>5, <1>6 DEF Runs
<1> QED BY <1>2, <1>5, <1>7 DEF n, Runs, FilledVia

AllDeclared(d, base, s) == FoldLeft(LAMBDA a, i : Declare(d, a, i), base, s)

AllDeclaredIn(d, R, X) == \A r \in R, x \in X : Declare(d, r, x) \in R

AllDeclaredVia(d, h, base, s) ==
  /\ h[0] = base /\ h[Len(s)] = AllDeclared(d, base, s)
  /\ \A k \in 1..Len(s) : h[k] = Declare(d, h[k - 1], s[k])

(* Declare is applied once per element, from the first to the last.        *)
LEMMA DeclareSteps ==
  ASSUME NEW d, NEW R, NEW base \in R, NEW X, NEW s \in Seq(X),
         AllDeclaredIn(d, R, X)
  PROVE  \E h \in [0..Len(s) -> R] : AllDeclaredVia(d, h, base, s)
<1> DEFINE n == Len(s)
           g == [x \in R \X (1..n) |-> Declare(d, x[1], s[x[2]])]
           Sol(F) == F = [u \in SUBSET DOMAIN s |->
                           IF u = {} THEN base ELSE Declare(d, F[u \ {Max(u)}], s[Max(u)])]
           it == CHOOSE F : Sol(F)
<1>1. n \in Nat /\ DOMAIN s = 1..n /\ \A k \in 1..n : s[k] \in X
  BY LenProperties, ElementOfSeq
<1>2. AllDeclared(d, base, s) = it[1..n]
  BY <1>1 DEF AllDeclared, FoldLeft, MapThenFoldSet
<1> HIDE DEF n
<1>3. g \in [R \X (1..n) -> R] /\ \A r \in R, k \in 1..n : g[<<r, k>>] = Declare(d, r, s[k])
  BY <1>1 DEF AllDeclaredIn
<1> HIDE DEF g
<1>4. ASSUME NEW F \in [SUBSET (1..n) -> R], Folds(F, n, base, g) PROVE FoldsIn(R, it, n, base, g)
  <2>1. \A u \in SUBSET (1..n) : u # {} => Max(u) \in 1..n /\ u \ {Max(u)} \in SUBSET (1..n)
    BY <1>1, MaxIsGreatest
  <2>2. F = [u \in SUBSET (1..n) |-> F[u]]
    OBVIOUS
  <2>3. \A u \in SUBSET (1..n) :
          F[u] = IF u = {} THEN base ELSE Declare(d, F[u \ {Max(u)}], s[Max(u)])
    BY <1>3, <1>4, <2>1 DEF Folds
  <2>4. Sol(F)
    BY <1>1, <2>2, <2>3
  <2>5. Sol(it)
    <3> HIDE DEF Sol
    <3> QED BY <2>4
  <2> HIDE DEF it
  <2> QED BY <1>1, <1>3, <2>1, <2>5 DEF FoldsIn
<1> HIDE DEF it
<1>5. PICK h \in [0..n -> R] : Runs(h, it, n, base, g)
  BY <1>1, <1>3, <1>4, FoldRuns
<1>6. \A k \in 1..n : k - 1 \in 0..n
  BY <1>1
<1>7. \A k \in 1..n : h[k] = Declare(d, h[k - 1], s[k])
  BY <1>3, <1>5, <1>6 DEF Runs
<1> QED BY <1>2, <1>5, <1>7 DEF n, Runs, AllDeclaredVia

AllOwned(base, s) == FoldLeft(Own, base, s)

AllOwnedIn(R, X) == \A r \in R, x \in X : Own(r, x) \in R

AllOwnedVia(h, base, s) ==
  /\ h[0] = base /\ h[Len(s)] = AllOwned(base, s)
  /\ \A k \in 1..Len(s) : h[k] = Own(h[k - 1], s[k])

(* Own is applied once per element, from the first to the last.            *)
LEMMA OwnSteps ==
  ASSUME NEW R, NEW base \in R, NEW X, NEW s \in Seq(X),
         AllOwnedIn(R, X)
  PROVE  \E h \in [0..Len(s) -> R] : AllOwnedVia(h, base, s)
<1> DEFINE n == Len(s)
           g == [x \in R \X (1..n) |-> Own(x[1], s[x[2]])]
           Sol(F) == F = [u \in SUBSET DOMAIN s |->
                           IF u = {} THEN base ELSE Own(F[u \ {Max(u)}], s[Max(u)])]
           it == CHOOSE F : Sol(F)
<1>1. n \in Nat /\ DOMAIN s = 1..n /\ \A k \in 1..n : s[k] \in X
  BY LenProperties, ElementOfSeq
<1>2. AllOwned(base, s) = it[1..n]
  BY <1>1 DEF AllOwned, FoldLeft, MapThenFoldSet
<1> HIDE DEF n
<1>3. g \in [R \X (1..n) -> R] /\ \A r \in R, k \in 1..n : g[<<r, k>>] = Own(r, s[k])
  BY <1>1 DEF AllOwnedIn
<1> HIDE DEF g
<1>4. ASSUME NEW F \in [SUBSET (1..n) -> R], Folds(F, n, base, g) PROVE FoldsIn(R, it, n, base, g)
  <2>1. \A u \in SUBSET (1..n) : u # {} => Max(u) \in 1..n /\ u \ {Max(u)} \in SUBSET (1..n)
    BY <1>1, MaxIsGreatest
  <2>2. F = [u \in SUBSET (1..n) |-> F[u]]
    OBVIOUS
  <2>3. \A u \in SUBSET (1..n) :
          F[u] = IF u = {} THEN base ELSE Own(F[u \ {Max(u)}], s[Max(u)])
    BY <1>3, <1>4, <2>1 DEF Folds
  <2>4. Sol(F)
    BY <1>1, <2>2, <2>3
  <2>5. Sol(it)
    <3> HIDE DEF Sol
    <3> QED BY <2>4
  <2> HIDE DEF it
  <2> QED BY <1>1, <1>3, <2>1, <2>5 DEF FoldsIn
<1> HIDE DEF it
<1>5. PICK h \in [0..n -> R] : Runs(h, it, n, base, g)
  BY <1>1, <1>3, <1>4, FoldRuns
<1>6. \A k \in 1..n : k - 1 \in 0..n
  BY <1>1
<1>7. \A k \in 1..n : h[k] = Own(h[k - 1], s[k])
  BY <1>3, <1>5, <1>6 DEF Runs
<1> QED BY <1>2, <1>5, <1>7 DEF n, Runs, AllOwnedVia

AllForStates(base, s) == FoldLeft(ForStates, base, s)

AllForStatesIn(R, X) == \A r \in R, x \in X : ForStates(r, x) \in R

AllForStatesVia(h, base, s) ==
  /\ h[0] = base /\ h[Len(s)] = AllForStates(base, s)
  /\ \A k \in 1..Len(s) : h[k] = ForStates(h[k - 1], s[k])

(* ForStates is applied once per element, from the first to the last.      *)
LEMMA ForStatesSteps ==
  ASSUME NEW R, NEW base \in R, NEW X, NEW s \in Seq(X),
         AllForStatesIn(R, X)
  PROVE  \E h \in [0..Len(s) -> R] : AllForStatesVia(h, base, s)
<1> DEFINE n == Len(s)
           g == [x \in R \X (1..n) |-> ForStates(x[1], s[x[2]])]
           Sol(F) == F = [u \in SUBSET DOMAIN s |->
                           IF u = {} THEN base ELSE ForStates(F[u \ {Max(u)}], s[Max(u)])]
           it == CHOOSE F : Sol(F)
<1>1. n \in Nat /\ DOMAIN s = 1..n /\ \A k \in 1..n : s[k] \in X
  BY LenProperties, ElementOfSeq
<1>2. AllForStates(base, s) = it[1..n]
  BY <1>1 DEF AllForStates, FoldLeft, MapThenFoldSet
<1> HIDE DEF n
<1>3. g \in [R \X (1..n) -> R] /\ \A r \in R, k \in 1..n : g[<<r, k>>] = ForStates(r, s[k])
  BY <1>1 DEF AllForStatesIn
<1> HIDE DEF g
<1>4. ASSUME NEW F \in [SUBSET (1..n) -> R], Folds(F, n, base, g) PROVE FoldsIn(R, it, n, base, g)
  <2>1. \A u \in SUBSET (1..n) : u # {} => Max(u) \in 1..n /\ u \ {Max(u)} \in SUBSET (1..n)
    BY <1>1, MaxIsGreatest
  <2>2. F = [u \in SUBSET (1..n) |-> F[u]]
    OBVIOUS
  <2>3. \A u \in SUBSET (1..n) :
          F[u] = IF u = {} THEN base ELSE ForStates(F[u \ {Max(u)}], s[Max(u)])
    BY <1>3, <1>4, <2>1 DEF Folds
  <2>4. Sol(F)
    BY <1>1, <2>2, <2>3
  <2>5. Sol(it)
    <3> HIDE DEF Sol
    <3> QED BY <2>4
  <2> HIDE DEF it
  <2> QED BY <1>1, <1>3, <2>1, <2>5 DEF FoldsIn
<1> HIDE DEF it
<1>5. PICK h \in [0..n -> R] : Runs(h, it, n, base, g)
  BY <1>1, <1>3, <1>4, FoldRuns
<1>6. \A k \in 1..n : k - 1 \in 0..n
  BY <1>1
<1>7. \A k \in 1..n : h[k] = ForStates(h[k - 1], s[k])
  BY <1>3, <1>5, <1>6 DEF Runs
<1> QED BY <1>2, <1>5, <1>7 DEF n, Runs, AllForStatesVia

AllForEvents(base, s) == FoldLeft(ForEvents, base, s)

AllForEventsIn(R, X) == \A r \in R, x \in X : ForEvents(r, x) \in R

AllForEventsVia(h, base, s) ==
  /\ h[0] = base /\ h[Len(s)] = AllForEvents(base, s)
  /\ \A k \in 1..Len(s) : h[k] = ForEvents(h[k - 1], s[k])

(* ForEvents is applied once per element, from the first to the last.      *)
LEMMA ForEventsSteps ==
  ASSUME NEW R, NEW base \in R, NEW X, NEW s \in Seq(X),
         AllForEventsIn(R, X)
  PROVE  \E h \in [0..Len(s) -> R] : AllForEventsVia(h, base, s)
<1> DEFINE n == Len(s)
           g == [x \in R \X (1..n) |-> ForEvents(x[1], s[x[2]])]
           Sol(F) == F = [u \in SUBSET DOMAIN s |->
                           IF u = {} THEN base ELSE ForEvents(F[u \ {Max(u)}], s[Max(u)])]
           it == CHOOSE F : Sol(F)
<1>1. n \in Nat /\ DOMAIN s = 1..n /\ \A k \in 1..n : s[k] \in X
  BY LenProperties, ElementOfSeq
<1>2. AllForEvents(base, s) = it[1..n]
  BY <1>1 DEF AllForEvents, FoldLeft, MapThenFoldSet
<1> HIDE DEF n
<1>3. g \in [R \X (1..n) -> R] /\ \A r \in R, k \in 1..n : g[<<r, k>>] = ForEvents(r, s[k])
  BY <1>1 DEF AllForEventsIn
<1> HIDE DEF g
<1>4. ASSUME NEW F \in [SUBSET (1..n) -> R], Folds(F, n, base, g) PROVE FoldsIn(R, it, n, base, g)
  <2>1. \A u \in SUBSET (1..n) : u # {} => Max(u) \in 1..n /\ u \ {Max(u)} \in SUBSET (1..n)
    BY <1>1, MaxIsGreatest
  <2>2. F = [u \in SUBSET (1..n) |-> F[u]]
    OBVIOUS
  <2>3. \A u \in SUBSET (1..n) :
          F[u] = IF u = {} THEN base ELSE ForEvents(F[u \ {Max(u)}], s[Max(u)])
    BY <1>3, <1>4, <2>1 DEF Folds
  <2>4. Sol(F)
    BY <1>1, <2>2, <2>3
  <2>5. Sol(it)
    <3> HIDE DEF Sol
    <3> QED BY <2>4
  <2> HIDE DEF it
  <2> QED BY <1>1, <1>3, <2>1, <2>5 DEF FoldsIn
<1> HIDE DEF it
<1>5. PICK h \in [0..n -> R] : Runs(h, it, n, base, g)
  BY <1>1, <1>3, <1>4, FoldRuns
<1>6. \A k \in 1..n : k - 1 \in 0..n
  BY <1>1
<1>7. \A k \in 1..n : h[k] = ForEvents(h[k - 1], s[k])
  BY <1>3, <1>5, <1>6 DEF Runs
<1> QED BY <1>2, <1>5, <1>7 DEF n, Runs, AllForEventsVia

AllHearState(m, f, base, s) == FoldLeft(LAMBDA l, x : HearState(m, f, l, x), base, s)

AllHearStateIn(m, f, R, X) == \A r \in R, x \in X : HearState(m, f, r, x) \in R

AllHearStateVia(m, f, h, base, s) ==
  /\ h[0] = base /\ h[Len(s)] = AllHearState(m, f, base, s)
  /\ \A k \in 1..Len(s) : h[k] = HearState(m, f, h[k - 1], s[k])

(* HearState is applied once per element, from the first to the last.      *)
LEMMA HearStateSteps ==
  ASSUME NEW m, NEW f, NEW R, NEW base \in R, NEW X, NEW s \in Seq(X),
         AllHearStateIn(m, f, R, X)
  PROVE  \E h \in [0..Len(s) -> R] : AllHearStateVia(m, f, h, base, s)
<1> DEFINE n == Len(s)
           g == [x \in R \X (1..n) |-> HearState(m, f, x[1], s[x[2]])]
           Sol(F) == F = [u \in SUBSET DOMAIN s |->
                           IF u = {} THEN base ELSE HearState(m, f, F[u \ {Max(u)}], s[Max(u)])]
           it == CHOOSE F : Sol(F)
<1>1. n \in Nat /\ DOMAIN s = 1..n /\ \A k \in 1..n : s[k] \in X
  BY LenProperties, ElementOfSeq
<1>2. AllHearState(m, f, base, s) = it[1..n]
  BY <1>1 DEF AllHearState, FoldLeft, MapThenFoldSet
<1> HIDE DEF n
<1>3. g \in [R \X (1..n) -> R] /\ \A r \in R, k \in 1..n : g[<<r, k>>] = HearState(m, f, r, s[k])
  BY <1>1 DEF AllHearStateIn
<1> HIDE DEF g
<1>4. ASSUME NEW F \in [SUBSET (1..n) -> R], Folds(F, n, base, g) PROVE FoldsIn(R, it, n, base, g)
  <2>1. \A u \in SUBSET (1..n) : u # {} => Max(u) \in 1..n /\ u \ {Max(u)} \in SUBSET (1..n)
    BY <1>1, MaxIsGreatest
  <2>2. F = [u \in SUBSET (1..n) |-> F[u]]
    OBVIOUS
  <2>3. \A u \in SUBSET (1..n) :
          F[u] = IF u = {} THEN base ELSE HearState(m, f, F[u \ {Max(u)}], s[Max(u)])
    BY <1>3, <1>4, <2>1 DEF Folds
  <2>4. Sol(F)
    BY <1>1, <2>2, <2>3
  <2>5. Sol(it)
    <3> HIDE DEF Sol
    <3> QED BY <2>4
  <2> HIDE DEF it
  <2> QED BY <1>1, <1>3, <2>1, <2>5 DEF FoldsIn
<1> HIDE DEF it
<1>5. PICK h \in [0..n -> R] : Runs(h, it, n, base, g)
  BY <1>1, <1>3, <1>4, FoldRuns
<1>6. \A k \in 1..n : k - 1 \in 0..n
  BY <1>1
<1>7. \A k \in 1..n : h[k] = HearState(m, f, h[k - 1], s[k])
  BY <1>3, <1>5, <1>6 DEF Runs
<1> QED BY <1>2, <1>5, <1>7 DEF n, Runs, AllHearStateVia

AllHearEvent(m, f, base, s) == FoldLeft(LAMBDA l, x : HearEvent(m, f, l, x), base, s)

AllHearEventIn(m, f, R, X) == \A r \in R, x \in X : HearEvent(m, f, r, x) \in R

AllHearEventVia(m, f, h, base, s) ==
  /\ h[0] = base /\ h[Len(s)] = AllHearEvent(m, f, base, s)
  /\ \A k \in 1..Len(s) : h[k] = HearEvent(m, f, h[k - 1], s[k])

(* HearEvent is applied once per element, from the first to the last.      *)
LEMMA HearEventSteps ==
  ASSUME NEW m, NEW f, NEW R, NEW base \in R, NEW X, NEW s \in Seq(X),
         AllHearEventIn(m, f, R, X)
  PROVE  \E h \in [0..Len(s) -> R] : AllHearEventVia(m, f, h, base, s)
<1> DEFINE n == Len(s)
           g == [x \in R \X (1..n) |-> HearEvent(m, f, x[1], s[x[2]])]
           Sol(F) == F = [u \in SUBSET DOMAIN s |->
                           IF u = {} THEN base ELSE HearEvent(m, f, F[u \ {Max(u)}], s[Max(u)])]
           it == CHOOSE F : Sol(F)
<1>1. n \in Nat /\ DOMAIN s = 1..n /\ \A k \in 1..n : s[k] \in X
  BY LenProperties, ElementOfSeq
<1>2. AllHearEvent(m, f, base, s) = it[1..n]
  BY <1>1 DEF AllHearEvent, FoldLeft, MapThenFoldSet
<1> HIDE DEF n
<1>3. g \in [R \X (1..n) -> R] /\ \A r \in R, k \in 1..n : g[<<r, k>>] = HearEvent(m, f, r, s[k])
  BY <1>1 DEF AllHearEventIn
<1> HIDE DEF g
<1>4. ASSUME NEW F \in [SUBSET (1..n) -> R], Folds(F, n, base, g) PROVE FoldsIn(R, it, n, base, g)
  <2>1. \A u \in SUBSET (1..n) : u # {} => Max(u) \in 1..n /\ u \ {Max(u)} \in SUBSET (1..n)
    BY <1>1, MaxIsGreatest
  <2>2. F = [u \in SUBSET (1..n) |-> F[u]]
    OBVIOUS
  <2>3. \A u \in SUBSET (1..n) :
          F[u] = IF u = {} THEN base ELSE HearEvent(m, f, F[u \ {Max(u)}], s[Max(u)])
    BY <1>3, <1>4, <2>1 DEF Folds
  <2>4. Sol(F)
    BY <1>1, <2>2, <2>3
  <2>5. Sol(it)
    <3> HIDE DEF Sol
    <3> QED BY <2>4
  <2> HIDE DEF it
  <2> QED BY <1>1, <1>3, <2>1, <2>5 DEF FoldsIn
<1> HIDE DEF it
<1>5. PICK h \in [0..n -> R] : Runs(h, it, n, base, g)
  BY <1>1, <1>3, <1>4, FoldRuns
<1>6. \A k \in 1..n : k - 1 \in 0..n
  BY <1>1
<1>7. \A k \in 1..n : h[k] = HearEvent(m, f, h[k - 1], s[k])
  BY <1>3, <1>5, <1>6 DEF Runs
<1> QED BY <1>2, <1>5, <1>7 DEF n, Runs, AllHearEventVia

-----------------------------------------------------------------------------
(* The tables of the adapter                                               *)

OwnedSlot  == [entity : Nat, endpoint : Nat, handler : Nat]
StateSlot  == [device : Nat, entity : Nat]
EventSlot  == [device : Nat, binding : Nat, entity : Nat]

AdapterTables == [owned : Seq(OwnedSlot), states : Seq(StateSlot), events : Seq(EventSlot)]

(* The declarations of a configuration have the types of the YAML schemas. *)
LEMMA DeclarationType ==
  ASSUME NEW d \in Seq(Declaration), NEW i \in DOMAIN d
  PROVE  /\ i \in Nat /\ i # 0 /\ i \in 1..Len(d)
         /\ d[i].entity \in Nat /\ d[i].endpoint \in Nat /\ d[i].source \in Nat
         /\ d[i].bindings \in Seq(Binding)
         /\ d[i].kind \in {"switch", "light", "sensor", "button"}
         /\ d[i].source # NoEntity => d[i].kind = "switch"
         /\ d[i].bindings # <<>> => TakesCommands(d[i])
<1>1. DOMAIN d = 1..Len(d) /\ Len(d) \in Nat /\ d[i] \in Declaration
  BY LenProperties, ElementOfSeq
<1>2. /\ d[i] \in [kind : {"switch", "light", "sensor", "button"}, entity : Nat, endpoint : Nat,
                   source : Nat, bindings : Seq(Binding)]
      /\ d[i].source # NoEntity => d[i].kind = "switch"
      /\ d[i].bindings # <<>> => TakesCommands(d[i])
  BY <1>1 DEF Declaration
<1>3. i \in Nat /\ i # 0 /\ i \in 1..Len(d)
  BY <1>1
<1> QED BY <1>2, <1>3

(* What the generated calls of one declaration pass to the adapter.        *)
LEMMA ListenerTypes ==
  ASSUME NEW d \in Seq(Declaration), NEW i \in DOMAIN d
  PROVE  /\ Owned(d, i) \in OwnedSlot /\ Owned(d, i).handler \in {NoHandler, i}
         /\ Owned(d, i).handler = i => TakesCommands(d[i])
         /\ StateListener(d, i) \in StateSlot
         /\ EventListeners(d, i) \in Seq(EventSlot)
         /\ Len(EventListeners(d, i)) = Len(d[i].bindings)
         /\ DOMAIN EventListeners(d, i) = DOMAIN d[i].bindings
<1>1. /\ i \in Nat /\ d[i].entity \in Nat /\ d[i].endpoint \in Nat /\ d[i].source \in Nat
      /\ d[i].bindings \in Seq(Binding)
  BY DeclarationType
<1>2. Owned(d, i) \in OwnedSlot /\ Owned(d, i).handler \in {NoHandler, i}
  BY <1>1 DEF Owned, OwnedSlot, NoHandler
<1>3. Owned(d, i).handler = i => TakesCommands(d[i])
  BY <1>1, DeclarationType DEF Owned, NoHandler
<1>4. StateListener(d, i) \in StateSlot
  BY <1>1 DEF StateListener, StateSlot
<1> DEFINE bs == d[i].bindings
<1>5. DOMAIN bs = 1..Len(bs) /\ Len(bs) \in Nat
  BY <1>1, LenProperties
<1>6. \A b \in DOMAIN bs : b \in Nat /\ bs[b].entity \in Nat
  <2>1. bs \in Seq(Binding)
    BY <1>1
  <2> HIDE DEF bs
  <2>2. \A b \in DOMAIN bs : b \in Nat /\ bs[b] \in Binding
    BY <1>5, <2>1, ElementOfSeq
  <2> QED BY <2>2 DEF Binding
<1>7. EventListeners(d, i) \in [1..Len(bs) -> EventSlot]
  <2>1. \A b \in 1..Len(bs) : [device |-> i, binding |-> b, entity |-> bs[b].entity] \in EventSlot
    BY <1>1, <1>5, <1>6 DEF EventSlot
  <2>2. EventListeners(d, i) =
          [b \in 1..Len(bs) |-> [device |-> i, binding |-> b, entity |-> bs[b].entity]]
    BY <1>5 DEF EventListeners
  <2> HIDE DEF bs
  <2> QED BY <2>1, <2>2
<1>8. EventListeners(d, i) \in Seq(EventSlot) /\ Len(EventListeners(d, i)) = Len(bs)
  <2> DEFINE el == EventListeners(d, i)
             c  == Len(bs)
  <2>0. c \in Nat /\ el \in [1..c -> EventSlot]
    BY <1>5, <1>7
  <2> HIDE DEF el, c
  <2>1. el \in Seq(EventSlot)
    BY <2>0
  <2>2. DOMAIN el = 1..Len(el) /\ Len(el) \in Nat /\ DOMAIN el = 1..c
    BY <2>0, <2>1, LenProperties
  <2>3. Len(el) = c
    BY <2>0, <2>2
  <2> QED BY <2>1, <2>3 DEF el, c
<1> QED BY <1>2, <1>3, <1>4, <1>5, <1>7, <1>8

(* A table keeps its type, its size and its entries; a new one goes to the *)
(* end.                                                                    *)
LEMMA FreeSlot ==
  ASSUME NEW S, NEW t \in Seq(S), NEW x \in S, NEW u, u = IntoFreeSlot(t, x)
  PROVE  /\ u \in Seq(S)
         /\ Len(t) <= TableSize => Len(u) <= TableSize
         /\ DOMAIN t \subseteq DOMAIN u /\ \A p \in DOMAIN t : u[p] = t[p]
         /\ \A p \in DOMAIN u \ DOMAIN t : u[p] = x /\ p = Len(t) + 1
         /\ Len(t) < TableSize => Len(u) = Len(t) + 1 /\ Len(u) \in DOMAIN u /\ u[Len(u)] = x
         /\ Len(t) >= TableSize => u = t
         /\ DOMAIN t = 1..Len(t) /\ Len(t) \in Nat /\ DOMAIN u = 1..Len(u) /\ Len(u) \in Nat
<1>1. DOMAIN t = 1..Len(t) /\ Len(t) \in Nat /\ TableSize \in Nat \ {0}
  BY LenProperties, TableAssumption
<1>2. CASE Len(t) < TableSize
  <2>1. u = Append(t, x)
    BY <1>2 DEF IntoFreeSlot
  <2>2. /\ Append(t, x) \in Seq(S) /\ Len(Append(t, x)) = Len(t) + 1
        /\ DOMAIN Append(t, x) = 1..(Len(t) + 1)
        /\ \A p \in 1..Len(t) : Append(t, x)[p] = t[p]
        /\ Append(t, x)[Len(t) + 1] = x
    BY AppendProperties, LenProperties
  <2>3. /\ u \in Seq(S) /\ Len(u) = Len(t) + 1 /\ DOMAIN u = 1..(Len(t) + 1)
        /\ \A p \in 1..Len(t) : u[p] = t[p]
        /\ u[Len(t) + 1] = x
    BY <2>1, <2>2
  <2>4. \A p \in DOMAIN u \ DOMAIN t : p = Len(t) + 1
    BY <1>1, <2>3
  <2>5. Len(u) <= TableSize /\ Len(u) \in Nat /\ DOMAIN u = 1..Len(u) /\ Len(u) \in DOMAIN u
        /\ DOMAIN t \subseteq DOMAIN u /\ ~(Len(t) >= TableSize)
    BY <1>1, <1>2, <2>3
  <2> QED BY <1>1, <2>3, <2>4, <2>5
<1>3. CASE ~(Len(t) < TableSize)
  BY <1>1, <1>3 DEF IntoFreeSlot
<1> QED BY <1>2, <1>3

-----------------------------------------------------------------------------
\* Declaration i has its slot, or a reason why not.
Placed(d, i, t) ==
  \/ \E p \in DOMAIN t : Same(t[p], d[i])
  \/ Full(t)
  \/ \E j \in 1 .. i - 1 : Clash(d[j], d[i]) /\ ~Same(d[j], d[i])

\* What the table of the endpoints is after k declarations.
OwnedOK(d, k, t) ==
  /\ t \in Seq(OwnedSlot) /\ Len(t) <= TableSize
  /\ \A p, q \in DOMAIN t : p # q => ~Clash(t[p], t[q])
  /\ \A p \in DOMAIN t : t[p].handler # NoHandler =>
       /\ t[p].handler \in DOMAIN d /\ TakesCommands(d[t[p].handler])
       /\ Same(t[p], d[t[p].handler])
  /\ \A p \in DOMAIN t : \E i \in 1..k : Same(t[p], d[i])
  /\ \A i \in 1..k : Placed(d, i, t)

\* A handler changes neither entity nor endpoint.
LEMMA AddOwned ==
  ASSUME NEW d \in Seq(Declaration), NEW k \in 1..Len(d), NEW t, OwnedOK(d, k - 1, t)
  PROVE  OwnedOK(d, k, AddOwnedEndpoint(t, Owned(d, k)))
<1> DEFINE o == Owned(d, k)
           u == AddOwnedEndpoint(t, o)
<1>1. /\ t \in Seq(OwnedSlot) /\ Len(t) <= TableSize /\ Len(t) \in Nat /\ DOMAIN t = 1..Len(t)
      /\ \A p \in DOMAIN t : t[p] \in OwnedSlot
  BY LenProperties, ElementOfSeq DEF OwnedOK
<1>2. DOMAIN d = 1..Len(d) /\ Len(d) \in Nat /\ k \in DOMAIN d /\ k \in Nat /\ k - 1 \in Nat
  BY LenProperties
<1>3. /\ o \in OwnedSlot /\ o.entity = d[k].entity /\ o.endpoint = d[k].endpoint
      /\ o.handler # NoHandler => o.handler = k /\ TakesCommands(d[k])
  <2>1. o \in OwnedSlot /\ o.handler \in {NoHandler, k} /\ (o.handler = k => TakesCommands(d[k]))
    BY <1>2, ListenerTypes
  <2> QED BY <2>1 DEF Owned
<1>4. \A x : (Same(x, o) <=> Same(x, d[k])) /\ (Clash(x, o) <=> Clash(x, d[k]))
  BY <1>3 DEF Same, Clash
<1> HIDE DEF o
<1>5. CASE \E p \in DOMAIN t : Clash(t[p], o)
  <2> DEFINE new(p) == IF Same(t[p], o) /\ o.handler # NoHandler
                       THEN [t[p] EXCEPT !.handler = o.handler] ELSE t[p]
  <2>1. u = [p \in DOMAIN t |-> new(p)]
    BY <1>5 DEF AddOwnedEndpoint
  <2>2. ASSUME NEW p \in DOMAIN t
        PROVE  /\ new(p) \in OwnedSlot
               /\ new(p).entity = t[p].entity /\ new(p).endpoint = t[p].endpoint
               /\ \/ new(p).handler = t[p].handler
                  \/ new(p).handler = k /\ TakesCommands(d[k]) /\ Same(t[p], d[k])
    <3>1. CASE Same(t[p], o) /\ o.handler # NoHandler
      <4>1. new(p) = [t[p] EXCEPT !.handler = k] /\ TakesCommands(d[k]) /\ Same(t[p], d[k])
        BY <1>3, <1>4, <3>1
      <4>2. t[p] \in OwnedSlot
        BY <1>1
      <4> QED BY <1>2, <4>1, <4>2 DEF OwnedSlot
    <3>2. CASE ~(Same(t[p], o) /\ o.handler # NoHandler)
      BY <1>1, <3>2
    <3> QED BY <3>1, <3>2
  <2> HIDE DEF new, u
  <2>3. u \in [1..Len(t) -> OwnedSlot] /\ DOMAIN u = DOMAIN t
    BY <1>1, <2>1, <2>2
  <2>4. u \in Seq(OwnedSlot) /\ Len(u) = Len(t)
    <3>1. u \in Seq(OwnedSlot)
      BY <1>1, <2>3
    <3>2. DOMAIN u = 1..Len(u) /\ Len(u) \in Nat
      BY <3>1, LenProperties
    <3> QED BY <1>1, <2>3, <3>1, <3>2
  <2>5. \A p \in DOMAIN t :
          /\ u[p].entity = t[p].entity /\ u[p].endpoint = t[p].endpoint
          /\ \/ u[p].handler = t[p].handler
             \/ u[p].handler = k /\ TakesCommands(d[k]) /\ Same(t[p], d[k])
    BY <2>1, <2>2
  <2>6. \A p, q \in DOMAIN u : p # q => ~Clash(u[p], u[q])
    BY <2>3, <2>5 DEF OwnedOK, Clash
  <2>7. \A p \in DOMAIN u : \A x : Same(u[p], x) <=> Same(t[p], x)
    BY <2>3, <2>5 DEF Same
  <2>8. \A p \in DOMAIN u : u[p].handler # NoHandler =>
          /\ u[p].handler \in DOMAIN d /\ TakesCommands(d[u[p].handler])
          /\ Same(u[p], d[u[p].handler])
    BY <1>2, <2>3, <2>5, <2>7 DEF OwnedOK
  <2>9. \A p \in DOMAIN u : \E i \in 1..k : Same(u[p], d[i])
    <3>1. 1..(k - 1) \subseteq 1..k
      BY <1>2
    <3> QED BY <2>3, <2>7, <3>1 DEF OwnedOK
  <2>10. ASSUME NEW i \in 1..(k - 1) PROVE Placed(d, i, u)
    <3>1. Placed(d, i, t)
      BY <2>10 DEF OwnedOK
    <3> QED BY <2>3, <2>4, <2>7, <3>1 DEF Placed, Full
  <2>11. Placed(d, k, u)
    <3>1. PICK p \in DOMAIN t : Clash(t[p], d[k])
      BY <1>4, <1>5
    <3>2. CASE Same(t[p], d[k])
      BY <2>3, <2>7, <3>2 DEF Placed
    <3>3. CASE ~Same(t[p], d[k])
      <4>1. PICK i \in 1..(k - 1) : Same(t[p], d[i])
        BY DEF OwnedOK
      <4>2. Clash(d[i], d[k]) /\ ~Same(d[i], d[k])
        BY <3>1, <3>3, <4>1 DEF Clash, Same
      <4> QED BY <4>1, <4>2 DEF Placed
    <3> QED BY <3>2, <3>3
  <2>12. \A i \in 1..k : i = k \/ i \in 1..(k - 1)
    BY <1>2
  <2> QED BY <1>1, <2>4, <2>6, <2>8, <2>9, <2>10, <2>11, <2>12 DEF OwnedOK, u, o
<1>6. CASE ~\E p \in DOMAIN t : Clash(t[p], o)
  <2>1. u = IntoFreeSlot(t, o)
    BY <1>6 DEF AddOwnedEndpoint
  <2> HIDE DEF u
  <2>2. /\ u \in Seq(OwnedSlot) /\ Len(u) <= TableSize
        /\ DOMAIN t \subseteq DOMAIN u /\ \A p \in DOMAIN t : u[p] = t[p]
        /\ \A p \in DOMAIN u \ DOMAIN t : u[p] = o /\ p = Len(t) + 1
        /\ Len(t) < TableSize => Len(u) \in DOMAIN u /\ u[Len(u)] = o
        /\ Len(t) >= TableSize => u = t
    <3>1. t \in Seq(OwnedSlot) /\ o \in OwnedSlot /\ Len(t) <= TableSize
      BY <1>1, <1>3
    <3> QED BY ONLY <2>1, <3>1, FreeSlot
  <2>3. \A p, q \in DOMAIN u : p # q => ~Clash(u[p], u[q])
    <3> SUFFICES ASSUME NEW p \in DOMAIN u, NEW q \in DOMAIN u, p # q PROVE ~Clash(u[p], u[q])
      OBVIOUS
    <3>1. \A x, y : Clash(x, y) <=> Clash(y, x)
      BY DEF Clash
    <3>2. p \in DOMAIN t \/ q \in DOMAIN t
      BY <2>2
    <3> QED BY <1>6, <2>2, <3>1, <3>2 DEF OwnedOK
  <2>4. \A p \in DOMAIN u : u[p].handler # NoHandler =>
          /\ u[p].handler \in DOMAIN d /\ TakesCommands(d[u[p].handler])
          /\ Same(u[p], d[u[p].handler])
    <3>1. o.handler # NoHandler => o.handler = k /\ TakesCommands(d[k]) /\ Same(o, d[k])
      BY <1>3 DEF Same
    <3> QED BY <1>2, <2>2, <3>1 DEF OwnedOK
  <2>5. \A p \in DOMAIN u : \E i \in 1..k : Same(u[p], d[i])
    <3>1. 1..(k - 1) \subseteq 1..k /\ k \in 1..k
      BY <1>2
    <3>2. Same(o, d[k])
      BY <1>3 DEF Same
    <3> QED BY <2>2, <3>1, <3>2 DEF OwnedOK
  <2>6. Full(t) => Full(u)
    BY <1>1, <2>2 DEF Full
  <2>7. ASSUME NEW i \in 1..(k - 1) PROVE Placed(d, i, u)
    <3>1. Placed(d, i, t)
      BY <2>7 DEF OwnedOK
    <3> QED BY <2>2, <2>6, <3>1 DEF Placed
  <2>8. Placed(d, k, u)
    <3>1. CASE Len(t) < TableSize
      <4>1. Same(u[Len(u)], d[k])
        BY <1>3, <2>2, <3>1 DEF Same
      <4> QED BY <2>2, <3>1, <4>1 DEF Placed
    <3>2. CASE ~(Len(t) < TableSize)
      <4>1. Full(t)
        <5>1. Len(t) <= TableSize /\ Len(t) \in Nat /\ TableSize \in Nat
          BY <1>1, TableAssumption
        <5> QED BY <3>2, <5>1 DEF Full
      <4> QED BY <2>6, <4>1 DEF Placed
    <3> QED BY <3>1, <3>2
  <2>9. \A i \in 1..k : i = k \/ i \in 1..(k - 1)
    BY <1>2
  <2> QED BY <2>2, <2>3, <2>4, <2>5, <2>7, <2>8, <2>9 DEF OwnedOK, u, o
<1> QED BY <1>5, <1>6

(* The table t holds the entries of W once each, as far as it has room.    *)
Keeps(t, W) ==
  /\ t \in Seq(W) /\ Len(t) <= TableSize
  /\ \A p, q \in DOMAIN t : p # q => t[p] # t[q]
  /\ \A w \in W : Contains(t, w) \/ Full(t)

(* A table that takes a new entry keeps it, or is full.                    *)
LEMMA KeepsOne ==
  ASSUME NEW W, NEW t, Keeps(t, W), NEW x, x \notin W
  PROVE  Keeps(IntoFreeSlot(t, x), W \cup {x})
<1> DEFINE u == IntoFreeSlot(t, x)
           V == W \cup {x}
<1>1. t \in Seq(W) /\ t \in Seq(V) /\ x \in V /\ u = IntoFreeSlot(t, x) /\ Len(t) <= TableSize
  <2>1. t \in Seq(W) /\ Len(t) <= TableSize /\ W \subseteq V
    BY DEF Keeps
  <2>2. t \in Seq(V)
    BY <2>1, SeqLarger
  <2> QED BY <2>1, <2>2
<1>2. \A p \in DOMAIN t : t[p] \in W
  BY <1>1, ElementOfSeq, LenProperties
<1> HIDE DEF u, V
<1>3. /\ u \in Seq(V) /\ Len(u) <= TableSize
      /\ DOMAIN t \subseteq DOMAIN u /\ \A p \in DOMAIN t : u[p] = t[p]
      /\ \A p \in DOMAIN u \ DOMAIN t : u[p] = x /\ p = Len(t) + 1
      /\ Len(t) < TableSize => Len(u) \in DOMAIN u /\ u[Len(u)] = x
      /\ Len(t) >= TableSize => u = t
      /\ DOMAIN t = 1..Len(t) /\ Len(t) \in Nat /\ DOMAIN u = 1..Len(u) /\ Len(u) \in Nat
  BY ONLY <1>1, FreeSlot
<1>4. \A p, q \in DOMAIN u : p # q => u[p] # u[q]
  <2>1. \A p, q \in DOMAIN t : p # q => t[p] # t[q]
    BY DEF Keeps
  <2> QED BY <1>2, <1>3, <2>1
<1>5. Full(t) => Full(u)
  <2>1. TableSize \in Nat
    BY TableAssumption
  <2> QED BY <1>3, <2>1 DEF Full
<1>6. \A w \in W : Contains(u, w) \/ Full(u)
  <2> TAKE w \in W
  <2>1. Contains(t, w) \/ Full(t)
    BY DEF Keeps
  <2>2. Contains(t, w) => Contains(u, w)
    <3>1. Contains(t, w) => \E p \in DOMAIN t : t[p] = w
      BY <1>3 DEF Contains
    <3>2. (\E p \in DOMAIN u : u[p] = w) => Contains(u, w)
      BY <1>3 DEF Contains
    <3> QED BY <1>3, <3>1, <3>2
  <2> QED BY <1>5, <2>1, <2>2
<1>7. Contains(u, x) \/ Full(u)
  <2>1. CASE Len(t) < TableSize
    BY <1>3, <2>1 DEF Contains
  <2>2. CASE ~(Len(t) < TableSize)
    <3>1. Full(t)
      <4>1. TableSize \in Nat /\ Len(t) \in Nat /\ Len(t) <= TableSize
        BY TableAssumption, <1>1, <1>3
      <4> QED BY <2>2, <4>1 DEF Full
    <3> QED BY <1>5, <3>1
  <2> QED BY <2>1, <2>2
<1> QED BY <1>3, <1>4, <1>6, <1>7 DEF Keeps, u, V

(* The same for a sequence of new entries that differ.                     *)
LEMMA KeepsAll ==
  ASSUME NEW W, NEW t, Keeps(t, W), NEW X, NEW s \in Seq(X),
         \A b \in DOMAIN s : s[b] \notin W,
         \A b, c \in DOMAIN s : b # c => s[b] # s[c]
  PROVE  Keeps(Filled(t, s), W \cup Range(s))
<1> DEFINE n == Len(s)
           V == W \cup X
           R == Seq(V)
           upto(c) == W \cup {s[b] : b \in 1..c}
<1>1. n \in Nat /\ DOMAIN s = 1..n /\ \A b \in 1..n : s[b] \in X
  BY LenProperties, ElementOfSeq
<1>2. t \in R
  <2>1. t \in Seq(W)
    BY DEF Keeps
  <2>2. W \subseteq V
    OBVIOUS
  <2> HIDE DEF V
  <2> QED BY <2>1, <2>2, SeqLarger
<1>3. FilledIn(R, X)
  <2> SUFFICES ASSUME NEW r \in R, NEW x \in X PROVE IntoFreeSlot(r, x) \in R
    BY DEF FilledIn
  <2>1. x \in V /\ r \in Seq(V) /\ IntoFreeSlot(r, x) = IntoFreeSlot(r, x)
    OBVIOUS
  <2> HIDE DEF V
  <2> QED BY <2>1, FreeSlot
<1> HIDE DEF R
<1>4. PICK h \in [0..n -> R] :
           /\ h[0] = t /\ h[n] = Filled(t, s)
           /\ \A k \in 1..n : h[k] = IntoFreeSlot(h[k - 1], s[k])
  <2>1. \E h \in [0..n -> R] : FilledVia(h, t, s)
    BY <1>2, <1>3, FreeSlotSteps
  <2> QED BY <2>1 DEF FilledVia
<1> HIDE DEF n
<1> DEFINE B == {c \in 0..n : Keeps(h[c], upto(c))}
<1>5. 0 \in B
  <2>1. upto(0) = W /\ 0 \in 0..n
    BY <1>1
  <2> QED BY <1>4, <2>1
<1>6. ASSUME NEW c \in 1..n, c - 1 \in B PROVE c \in B
  <2>1. Keeps(h[c - 1], upto(c - 1)) /\ c \in 0..n
    BY <1>1, <1>6
  <2>2. s[c] \notin upto(c - 1)
    <3>1. s[c] \notin W
      BY <1>1
    <3>2. \A b \in 1..(c - 1) : b \in 1..n /\ b # c
      BY <1>1
    <3>3. \A b \in 1..(c - 1) : s[b] # s[c]
      BY <1>1, <3>2
    <3> QED BY <3>1, <3>3
  <2>3. upto(c) = upto(c - 1) \cup {s[c]}
    <3>1. 1..c = (1..(c - 1)) \cup {c}
      BY <1>1
    <3> QED BY <3>1
  <2> HIDE DEF upto
  <2>4. Keeps(IntoFreeSlot(h[c - 1], s[c]), upto(c - 1) \cup {s[c]})
    BY <2>1, <2>2, KeepsOne
  <2> QED BY <1>4, <2>1, <2>3, <2>4
<1>7. n \in B
  <2> HIDE DEF B
  <2>1. \A c \in 0..n : c \in B
    BY <1>1, <1>5, <1>6, CountUp
  <2> QED BY <1>1, <2>1
<1>8. upto(n) = W \cup Range(s)
  BY <1>1 DEF Range
<1> HIDE DEF upto
<1> QED BY <1>4, <1>7, <1>8

-----------------------------------------------------------------------------
\* The listeners that the first k declarations call for.
StatesTo(d, k) == {StateListener(d, i) : i \in {j \in 1..k : d[j].source # NoEntity}}
EventsTo(d, k) == UNION {Range(EventListeners(d, i)) : i \in 1..k}

\* The tables of the adapter after k declarations.
AdapterOK(d, k, a) ==
  /\ OwnedOK(d, k, a.owned)
  /\ Keeps(a.states, StatesTo(d, k))
  /\ Keeps(a.events, EventsTo(d, k))

(* No two listeners that a configuration calls for are the same.           *)
LEMMA ListenersDiffer ==
  ASSUME NEW d \in Seq(Declaration), NEW k \in 1..Len(d)
  PROVE  /\ StateListener(d, k) \notin StatesTo(d, k - 1)
         /\ \A b \in DOMAIN EventListeners(d, k) : EventListeners(d, k)[b] \notin EventsTo(d, k - 1)
         /\ \A b, c \in DOMAIN EventListeners(d, k) :
              b # c => EventListeners(d, k)[b] # EventListeners(d, k)[c]
         /\ EventsTo(d, k) = EventsTo(d, k - 1) \cup Range(EventListeners(d, k))
         /\ StatesTo(d, k) = StatesTo(d, k - 1) \cup
              IF d[k].source # NoEntity THEN {StateListener(d, k)} ELSE {}
<1>1. /\ DOMAIN d = 1..Len(d) /\ Len(d) \in Nat /\ k \in Nat
      /\ 1..k = (1..(k - 1)) \cup {k} /\ \A i \in 1..(k - 1) : i # k /\ i \in DOMAIN d
  BY LenProperties
<1>2. \A i : \A b \in DOMAIN EventListeners(d, i) :
        EventListeners(d, i)[b].device = i /\ EventListeners(d, i)[b].binding = b
  BY DEF EventListeners
<1>3. \A i : StateListener(d, i).device = i
  BY DEF StateListener
<1>4. StateListener(d, k) \notin StatesTo(d, k - 1)
  BY <1>1, <1>3 DEF StatesTo
<1>5. \A b \in DOMAIN EventListeners(d, k) : EventListeners(d, k)[b] \notin EventsTo(d, k - 1)
  BY <1>1, <1>2 DEF EventsTo, Range
<1>6. EventsTo(d, k) = EventsTo(d, k - 1) \cup Range(EventListeners(d, k))
  BY <1>1 DEF EventsTo
<1>7. StatesTo(d, k) = StatesTo(d, k - 1) \cup
              IF d[k].source # NoEntity THEN {StateListener(d, k)} ELSE {}
  BY <1>1 DEF StatesTo
<1> QED BY <1>2, <1>4, <1>5, <1>6, <1>7

(* One declaration keeps the types of the adapter's tables.                *)
LEMMA DeclareType ==
  ASSUME NEW d \in Seq(Declaration), NEW i \in DOMAIN d, NEW a \in AdapterTables
  PROVE  Declare(d, a, i) \in AdapterTables
<1>1. a.owned \in Seq(OwnedSlot) /\ a.states \in Seq(StateSlot) /\ a.events \in Seq(EventSlot)
  BY DEF AdapterTables
<1>2. Owned(d, i) \in OwnedSlot /\ StateListener(d, i) \in StateSlot
      /\ EventListeners(d, i) \in Seq(EventSlot) /\ Owned(d, i).handler \in Nat
  BY ListenerTypes DEF OwnedSlot
<1>3. AddOwnedEndpoint(a.owned, Owned(d, i)) \in Seq(OwnedSlot)
  <2> DEFINE t == a.owned
             o == Owned(d, i)
             new(p) == IF Same(t[p], o) /\ o.handler # NoHandler
                       THEN [t[p] EXCEPT !.handler = o.handler] ELSE t[p]
  <2>1. t \in Seq(OwnedSlot) /\ o \in OwnedSlot /\ o.handler \in Nat
    BY <1>1, <1>2
  <2> HIDE DEF t, o
  <2>2. Len(t) \in Nat /\ DOMAIN t = 1..Len(t) /\ \A p \in DOMAIN t : t[p] \in OwnedSlot
    BY <2>1, ElementOfSeq, LenProperties
  <2>3. \A p \in DOMAIN t : new(p) \in OwnedSlot
    BY <2>1, <2>2 DEF OwnedSlot
  <2>4. [p \in DOMAIN t |-> new(p)] \in Seq(OwnedSlot)
    <3> HIDE DEF new
    <3> QED BY <2>2, <2>3, SeqDef
  <2>5. IntoFreeSlot(t, o) \in Seq(OwnedSlot)
    BY <2>1, FreeSlot
  <2>6. \/ AddOwnedEndpoint(t, o) = [p \in DOMAIN t |-> new(p)]
        \/ AddOwnedEndpoint(t, o) = IntoFreeSlot(t, o)
    BY DEF AddOwnedEndpoint
  <2>7. AddOwnedEndpoint(t, o) \in Seq(OwnedSlot)
    <3> HIDE DEF new
    <3> QED BY <2>4, <2>5, <2>6
  <2> QED BY <2>7 DEF t, o
<1>4. IntoFreeSlot(a.states, StateListener(d, i)) \in Seq(StateSlot)
  BY <1>1, <1>2, FreeSlot
<1>5. Filled(a.events, EventListeners(d, i)) \in Seq(EventSlot)
  <2> DEFINE s == EventListeners(d, i)
             R == Seq(EventSlot)
  <2>1. FilledIn(R, EventSlot)
    BY FreeSlot DEF FilledIn
  <2>2. s \in Seq(EventSlot) /\ a.events \in R /\ Len(s) \in Nat
    BY <1>1, <1>2, LenProperties
  <2> HIDE DEF s, R
  <2>3. PICK h \in [0..Len(s) -> R] : h[Len(s)] = Filled(a.events, s)
    <3>1. \E h \in [0..Len(s) -> R] : FilledVia(h, a.events, s)
      BY <2>1, <2>2, FreeSlotSteps
    <3> QED BY <3>1 DEF FilledVia
  <2>4. Len(s) \in 0..Len(s)
    BY <2>2
  <2>5. Filled(a.events, s) \in R
    BY <2>3, <2>4
  <2> QED BY <2>5 DEF s, R
<1> QED BY <1>1, <1>3, <1>4, <1>5 DEF Declare, AdapterTables, Filled

(* One declaration keeps the order in the adapter's tables.                *)
LEMMA DeclareKeeps ==
  ASSUME NEW d \in Seq(Declaration), NEW k \in 1..Len(d), NEW a, AdapterOK(d, k - 1, a)
  PROVE  AdapterOK(d, k, Declare(d, a, k))
<1>1. k \in DOMAIN d
  BY LenProperties
<1>2. OwnedOK(d, k, AddOwnedEndpoint(a.owned, Owned(d, k)))
  BY AddOwned DEF AdapterOK
<1>3. Keeps(IF d[k].source = NoEntity THEN a.states
            ELSE IntoFreeSlot(a.states, StateListener(d, k)), StatesTo(d, k))
  <2>1. Keeps(a.states, StatesTo(d, k - 1))
    BY DEF AdapterOK
  <2>2. Keeps(IntoFreeSlot(a.states, StateListener(d, k)), StatesTo(d, k - 1) \cup {StateListener(d, k)})
    BY <2>1, ListenersDiffer, KeepsOne
  <2>3. StatesTo(d, k) = StatesTo(d, k - 1) \cup
              IF d[k].source # NoEntity THEN {StateListener(d, k)} ELSE {}
    BY ListenersDiffer
  <2>4. CASE d[k].source = NoEntity
    <3>1. StatesTo(d, k) = StatesTo(d, k - 1)
      BY <2>3, <2>4
    <3> QED BY <2>1, <2>4, <3>1
  <2>5. CASE d[k].source # NoEntity
    <3>1. StatesTo(d, k) = StatesTo(d, k - 1) \cup {StateListener(d, k)}
      BY <2>3, <2>5
    <3> QED BY <2>2, <2>5, <3>1
  <2> QED BY <2>4, <2>5
<1>4. Keeps(Filled(a.events, EventListeners(d, k)), EventsTo(d, k))
  <2> DEFINE s == EventListeners(d, k)
             W == EventsTo(d, k - 1)
  <2>1. /\ Keeps(a.events, W) /\ s \in Seq(EventSlot)
        /\ \A b \in DOMAIN s : s[b] \notin W
        /\ \A b, c \in DOMAIN s : b # c => s[b] # s[c]
        /\ EventsTo(d, k) = W \cup Range(s)
    BY <1>1, ListenersDiffer, ListenerTypes DEF AdapterOK
  <2> HIDE DEF s, W
  <2>2. Keeps(Filled(a.events, s), W \cup Range(s))
    BY <2>1, KeepsAll
  <2> QED BY <2>1, <2>2 DEF s
<1> QED BY <1>2, <1>3, <1>4 DEF Declare, AdapterOK, Filled

(* The adapter's tables after all declarations.                            *)
LEMMA AdapterTablesOK ==
  ASSUME NEW d \in Seq(Declaration)
  PROVE  Adapter(d) \in AdapterTables /\ AdapterOK(d, Len(d), Adapter(d))
<1> DEFINE n == Len(d)
           s == [i \in DOMAIN d |-> i]
<1>1. n \in Nat /\ DOMAIN d = 1..n
  BY LenProperties
<1>2. s \in Seq(1..n) /\ Len(s) = n
  <2> DEFINE T == 1..n
  <2>1. s \in [1..n -> T]
    BY <1>1
  <2> HIDE DEF s, n, T
  <2>2. s \in Seq(T)
    BY <1>1, <2>1
  <2>3. DOMAIN s = 1..Len(s) /\ Len(s) \in Nat /\ DOMAIN s = 1..n
    BY <2>1, <2>2, LenProperties
  <2>4. Len(s) = n
    <3> DEFINE c == Len(s)
    <3>1. 1..c = 1..n /\ c \in Nat /\ n \in Nat
      BY <1>1, <2>3
    <3> HIDE DEF c
    <3>2. c = n
      BY <3>1
    <3> QED BY <3>2 DEF c
  <2> QED BY <2>2, <2>4 DEF T
<1>3. Undeclared \in AdapterTables /\ AdapterOK(d, 0, Undeclared)
  <2>1. <<>> \in Seq(OwnedSlot) /\ <<>> \in Seq(StateSlot) /\ <<>> \in Seq(EventSlot)
    BY EmptySeq
  <2>2. Undeclared \in AdapterTables
    BY <2>1 DEF Undeclared, AdapterTables
  <2>3. Len(<<>>) = 0 /\ 0 <= TableSize /\ 1..0 = {} /\ DOMAIN <<>> = {}
    <3>1. TableSize \in Nat
      BY TableAssumption
    <3> QED BY <3>1
  <2>4. OwnedOK(d, 0, <<>>)
    BY <2>1, <2>3 DEF OwnedOK
  <2>5. StatesTo(d, 0) = {} /\ EventsTo(d, 0) = {}
    BY <2>3 DEF StatesTo, EventsTo
  <2>6. Keeps(<<>>, {})
    <3>1. <<>> \in Seq({})
      BY EmptySeq
    <3> QED BY <2>3, <3>1 DEF Keeps
  <2> QED BY <2>2, <2>4, <2>5, <2>6 DEF AdapterOK, Undeclared
<1>4. AllDeclaredIn(d, AdapterTables, 1..n)
  BY <1>1, DeclareType DEF AllDeclaredIn
<1>5. \A k \in 1..n : s[k] = k
  BY <1>1
<1>6. Adapter(d) = AllDeclared(d, Undeclared, s)
  BY DEF Adapter, AllDeclared
<1> HIDE DEF s, n
<1>7. PICK h \in [0..n -> AdapterTables] :
           /\ h[0] = Undeclared /\ h[n] = Adapter(d)
           /\ \A k \in 1..n : h[k] = Declare(d, h[k - 1], s[k])
  <2>1. \E h \in [0..Len(s) -> AdapterTables] : AllDeclaredVia(d, h, Undeclared, s)
    BY <1>2, <1>3, <1>4, DeclareSteps
  <2> QED BY <1>2, <1>6, <2>1 DEF AllDeclaredVia
<1> DEFINE B == {k \in 0..n : AdapterOK(d, k, h[k])}
<1>8. 0 \in B
  BY <1>1, <1>3, <1>7
<1>9. ASSUME NEW k \in 1..n, k - 1 \in B PROVE k \in B
  <2>1. AdapterOK(d, k - 1, h[k - 1]) /\ k \in 1..Len(d) /\ k \in 0..n
    BY <1>1, <1>9 DEF n
  <2>2. AdapterOK(d, k, Declare(d, h[k - 1], k))
    BY <2>1, DeclareKeeps
  <2> QED BY <1>5, <1>7, <2>1, <2>2
<1>10. n \in B /\ n \in 0..n
  <2> HIDE DEF B
  <2>1. \A k \in 0..n : k \in B
    BY <1>1, <1>8, <1>9, CountUp
  <2> QED BY <1>1, <2>1
<1> QED BY <1>7, <1>10 DEF n

(* Contains of a sequence is membership in its range.                      *)
LEMMA ContainsRange ==
  ASSUME NEW S, NEW s \in Seq(S), NEW e
  PROVE  Contains(s, e) <=> e \in Range(s)
<1>1. DOMAIN s = 1..Len(s)
  BY LenProperties
<1> QED BY <1>1 DEF Contains, Range

-----------------------------------------------------------------------------
RuntimeTables ==
  [owned : Seq([entity : Nat, endpoint : Nat]), handlers : Seq([endpoint : Nat, device : Nat]),
   observed : Seq(Nat), states : Seq(StateSlot), events : Seq(EventSlot)]

\* Exactly the entities of the listeners are observed.
Watching(r) ==
  /\ Len(r.observed) <= TableSize
  /\ Range(r.observed) = {l.entity : l \in Range(r.states) \cup Range(r.events)}

\* What the listener l finds in table t and leaves in u, o being the observed entities.
Joins(t, u, l, o) ==
  /\ u = t \/ (u = Append(t, l) /\ l.entity # NoEntity /\ Len(t) # TableSize)
  /\ u = Append(t, l) \/ l.entity = NoEntity \/ Len(t) = TableSize \/ Full(o)

(* The table of observed entities takes one more entity, or is full.       *)
LEMMA ObservedLonger ==
  ASSUME NEW o \in Seq(Nat), Len(o) <= TableSize, NEW e \in Nat
  PROVE  /\ Len(o) < TableSize =>
              /\ IntoFreeSlot(o, e) = Append(o, e) /\ Append(o, e) \in Seq(Nat)
              /\ Len(Append(o, e)) <= TableSize
              /\ Range(Append(o, e)) = Range(o) \cup {e} /\ Contains(Append(o, e), e)
         /\ ~(Len(o) < TableSize) => IntoFreeSlot(o, e) = o /\ Full(o)
         /\ Contains(o, e) <=> e \in Range(o)
<1>1. Len(o) \in Nat /\ TableSize \in Nat
  BY LenProperties, TableAssumption
<1>2. Append(o, e) \in Seq(Nat) /\ Len(Append(o, e)) = Len(o) + 1
  BY AppendProperties
<1>3. Range(Append(o, e)) = Range(o) \cup {e} /\ Contains(Append(o, e), e)
  <2>1. Range(Append(o, e)) = Range(o) \cup {e}
    BY RangeAppend
  <2>2. Contains(Append(o, e), e) <=> e \in Range(Append(o, e))
    BY <1>2, ContainsRange
  <2> QED BY <2>1, <2>2
<1>4. Contains(o, e) <=> e \in Range(o)
  BY ContainsRange
<1>5. Len(o) < TableSize => Len(Append(o, e)) <= TableSize
  BY <1>1, <1>2
<1>6. ~(Len(o) < TableSize) => Full(o)
  BY <1>1 DEF Full
<1> QED BY <1>2, <1>3, <1>4, <1>5, <1>6 DEF IntoFreeSlot

\* The entity is observed, or there is no room for it.
LEMMA Observing ==
  ASSUME NEW r \in RuntimeTables, Len(r.observed) <= TableSize, NEW e \in Nat \ {NoEntity},
         NEW q, q = RegisterObservedEntity(r, e)
  PROVE  \/ /\ Observes(q, e) /\ q \in RuntimeTables /\ Len(q.observed) <= TableSize
            /\ q.owned = r.owned /\ q.handlers = r.handlers
            /\ q.states = r.states /\ q.events = r.events
            /\ Range(q.observed) = Range(r.observed) \cup {e}
            /\ Full(r.observed) => Full(q.observed)
         \/ ~Observes(q, e) /\ Full(r.observed)
<1> DEFINE o == r.observed
<1>1. o \in Seq(Nat) /\ Len(o) <= TableSize /\ e \in Nat
  BY DEF RuntimeTables
<1>2. /\ Len(o) < TableSize =>
            /\ IntoFreeSlot(o, e) = Append(o, e) /\ Append(o, e) \in Seq(Nat)
            /\ Len(Append(o, e)) <= TableSize
            /\ Range(Append(o, e)) = Range(o) \cup {e} /\ Contains(Append(o, e), e)
      /\ ~(Len(o) < TableSize) => IntoFreeSlot(o, e) = o /\ Full(o)
      /\ Contains(o, e) <=> e \in Range(o)
  BY <1>1, ObservedLonger
<1>3. CASE Observes(r, e)
  <2>1. q = r
    BY <1>3 DEF RegisterObservedEntity
  <2>2. Range(o) = Range(o) \cup {e}
    BY <1>2, <1>3 DEF Observes
  <2> QED BY <1>1, <1>3, <2>1, <2>2
<1>4. CASE ~Observes(r, e) /\ Len(o) < TableSize
  <2>1. q = [r EXCEPT !.observed = Append(@, e)]
    BY <1>2, <1>4 DEF RegisterObservedEntity
  <2>2. /\ q \in RuntimeTables /\ q.observed = Append(o, e)
        /\ q.owned = r.owned /\ q.handlers = r.handlers
        /\ q.states = r.states /\ q.events = r.events
    BY <1>2, <1>4, <2>1 DEF RuntimeTables
  <2>3. ~Full(o)
    <3>1. Len(o) \in Nat /\ TableSize \in Nat
      BY <1>1, LenProperties, TableAssumption
    <3> QED BY <1>4, <3>1 DEF Full
  <2> QED BY <1>2, <1>4, <2>2, <2>3 DEF Observes
<1>5. CASE ~Observes(r, e) /\ ~(Len(o) < TableSize)
  <2>1. q = r
    BY <1>2, <1>5 DEF RegisterObservedEntity, RuntimeTables
  <2> QED BY <1>2, <1>5, <2>1
<1> QED BY <1>3, <1>4, <1>5

(* A state listener joins its table exactly if its entity is observed.     *)
LEMMA ForStatesJoins ==
  ASSUME NEW r \in RuntimeTables, Watching(r), NEW l \in StateSlot, NEW u, u = ForStates(r, l)
  PROVE  /\ u \in RuntimeTables /\ Watching(u)
         /\ u.owned = r.owned /\ u.handlers = r.handlers /\ u.events = r.events
         /\ Joins(r.states, u.states, l, u.observed)
         /\ Full(r.observed) => Full(u.observed)
<1> DEFINE q == RegisterObservedEntity(r, l.entity)
<1>1. /\ Len(r.observed) <= TableSize /\ l.entity \in Nat
      /\ r.states \in Seq(StateSlot)
  BY DEF RuntimeTables, StateSlot, Watching
<1>2. Append(r.states, l) \in Seq(StateSlot) /\ Range(Append(r.states, l)) = Range(r.states) \cup {l}
  BY <1>1, RangeAppend, AppendProperties
<1>3. CASE l.entity = NoEntity \/ Len(r.states) = TableSize
  <2>1. u = r
    BY <1>3 DEF ForStates, RegisterListener
  <2> QED BY <1>3, <2>1 DEF Joins
<1>4. CASE ~(l.entity = NoEntity \/ Len(r.states) = TableSize)
  <2>1. u = IF Observes(q, l.entity) THEN [q EXCEPT !.states = Append(@, l)] ELSE r
    BY <1>4 DEF ForStates, RegisterListener
  <2>2. \/ /\ Observes(q, l.entity) /\ q \in RuntimeTables /\ Len(q.observed) <= TableSize
           /\ q.owned = r.owned /\ q.handlers = r.handlers
           /\ q.states = r.states /\ q.events = r.events
           /\ Range(q.observed) = Range(r.observed) \cup {l.entity}
           /\ Full(r.observed) => Full(q.observed)
        \/ ~Observes(q, l.entity) /\ Full(r.observed)
    BY <1>1, <1>4, Observing
  <2> HIDE DEF q
  <2>3. CASE Observes(q, l.entity)
    <3>1. /\ u \in RuntimeTables /\ u.owned = r.owned /\ u.handlers = r.handlers
          /\ u.events = r.events /\ u.observed = q.observed /\ u.states = Append(r.states, l)
      BY <1>2, <2>1, <2>2, <2>3 DEF RuntimeTables
    <3>2. Watching(u)
      <4>1. Range(u.states) = Range(r.states) \cup {l}
            /\ Range(u.observed) = Range(r.observed) \cup {l.entity}
        BY <1>2, <2>2, <2>3, <3>1
      <4>2. Len(u.observed) <= TableSize
        BY <2>2, <2>3, <3>1
      <4> QED BY <3>1, <4>1, <4>2 DEF Watching
    <3> QED BY <1>4, <2>2, <2>3, <3>1, <3>2 DEF Joins
  <2>4. CASE ~Observes(q, l.entity)
    BY <2>1, <2>2, <2>4 DEF Joins
  <2> QED BY <2>3, <2>4
<1> QED BY <1>3, <1>4

(* An event listener joins its table exactly if its entity is observed.    *)
LEMMA ForEventsJoins ==
  ASSUME NEW r \in RuntimeTables, Watching(r), NEW l \in EventSlot, NEW u, u = ForEvents(r, l)
  PROVE  /\ u \in RuntimeTables /\ Watching(u)
         /\ u.owned = r.owned /\ u.handlers = r.handlers /\ u.states = r.states
         /\ Joins(r.events, u.events, l, u.observed)
         /\ Full(r.observed) => Full(u.observed)
<1> DEFINE q == RegisterObservedEntity(r, l.entity)
<1>1. /\ Len(r.observed) <= TableSize /\ l.entity \in Nat
      /\ r.events \in Seq(EventSlot)
  BY DEF RuntimeTables, EventSlot, Watching
<1>2. Append(r.events, l) \in Seq(EventSlot) /\ Range(Append(r.events, l)) = Range(r.events) \cup {l}
  BY <1>1, RangeAppend, AppendProperties
<1>3. CASE l.entity = NoEntity \/ Len(r.events) = TableSize
  <2>1. u = r
    BY <1>3 DEF ForEvents, RegisterListener
  <2> QED BY <1>3, <2>1 DEF Joins
<1>4. CASE ~(l.entity = NoEntity \/ Len(r.events) = TableSize)
  <2>1. u = IF Observes(q, l.entity) THEN [q EXCEPT !.events = Append(@, l)] ELSE r
    BY <1>4 DEF ForEvents, RegisterListener
  <2>2. \/ /\ Observes(q, l.entity) /\ q \in RuntimeTables /\ Len(q.observed) <= TableSize
           /\ q.owned = r.owned /\ q.handlers = r.handlers
           /\ q.states = r.states /\ q.events = r.events
           /\ Range(q.observed) = Range(r.observed) \cup {l.entity}
           /\ Full(r.observed) => Full(q.observed)
        \/ ~Observes(q, l.entity) /\ Full(r.observed)
    BY <1>1, <1>4, Observing
  <2> HIDE DEF q
  <2>3. CASE Observes(q, l.entity)
    <3>1. /\ u \in RuntimeTables /\ u.owned = r.owned /\ u.handlers = r.handlers
          /\ u.states = r.states /\ u.observed = q.observed /\ u.events = Append(r.events, l)
      BY <1>2, <2>1, <2>2, <2>3 DEF RuntimeTables
    <3>2. Watching(u)
      <4>1. Range(u.events) = Range(r.events) \cup {l}
            /\ Range(u.observed) = Range(r.observed) \cup {l.entity}
        BY <1>2, <2>2, <2>3, <3>1
      <4>2. Len(u.observed) <= TableSize
        BY <2>2, <2>3, <3>1
      <4> QED BY <3>1, <4>1, <4>2 DEF Watching
    <3> QED BY <1>4, <2>2, <2>3, <3>1, <3>2 DEF Joins
  <2>4. CASE ~Observes(q, l.entity)
    BY <2>1, <2>2, <2>4 DEF Joins
  <2> QED BY <2>3, <2>4
<1> QED BY <1>3, <1>4

\* The table u of the runtime after k listeners of the adapter's table t.
Merges(t, k, u, o) ==
  /\ Len(u) <= k
  /\ \A p \in DOMAIN u : \E j \in 1..k : u[p] = t[j] /\ t[j].entity # NoEntity
  /\ \A p, q \in DOMAIN u : p # q => u[p] # u[q]
  /\ \A j \in 1..k : t[j].entity # NoEntity => Contains(u, t[j]) \/ Full(o)

(* One more listener of the adapter's table, in the loop of setup.         *)
LEMMA MergesNext ==
  ASSUME NEW S, NEW t \in Seq(S), Len(t) <= TableSize,
         \A i, j \in DOMAIN t : i # j => t[i] # t[j],
         NEW k \in 1..Len(t), NEW u \in Seq(S), NEW v, NEW o, NEW o2,
         Merges(t, k - 1, u, o), Joins(u, v, t[k], o2), Full(o) => Full(o2)
  PROVE  Merges(t, k, v, o2)
<1>1. /\ DOMAIN t = 1..Len(t) /\ Len(t) \in Nat /\ k \in Nat /\ t[k] \in S
      /\ DOMAIN u = 1..Len(u) /\ Len(u) \in Nat /\ TableSize \in Nat
  BY LenProperties, ElementOfSeq, TableAssumption
<1>2. 1..k = (1..(k - 1)) \cup {k} /\ k \notin 1..(k - 1) /\ Len(u) <= k - 1 /\ 1..k \subseteq DOMAIN t
  BY <1>1 DEF Merges
<1>3. Len(u) # TableSize
  <2> DEFINE a == Len(u)
             b == Len(t)
  <2>1. a <= k - 1 /\ k \in 1..b /\ b <= TableSize /\ a \in Nat /\ b \in Nat /\ TableSize \in Nat
    BY <1>1, <1>2
  <2> HIDE DEF a, b
  <2>2. a # TableSize
    BY <2>1
  <2> QED BY <2>2 DEF a
<1>4. CASE v = u
  <2>1. \A j \in 1..k : t[j].entity # NoEntity => Contains(v, t[j]) \/ Full(o2)
    <3>1. t[k].entity # NoEntity => Contains(v, t[k]) \/ Full(o2)
      <4>1. v # Append(u, t[k])
        <5> SUFFICES ASSUME v = Append(u, t[k]) PROVE FALSE
          OBVIOUS
        <5>1. t[k] \in S /\ u \in Seq(S) /\ v = Append(u, t[k])
          BY <1>1
        <5>2. v # u
          BY ONLY <5>1, AppendSteps
        <5> QED BY <1>4, <5>2
      <4> QED BY <1>3, <4>1 DEF Joins
    <3> QED BY <1>2, <1>4, <3>1 DEF Merges
  <2>2. Len(v) <= k
    BY <1>1, <1>2, <1>4
  <2> QED BY <1>2, <1>4, <2>1, <2>2 DEF Merges
<1>5. CASE v = Append(u, t[k]) /\ t[k].entity # NoEntity
  <2>1. /\ Len(v) = Len(u) + 1 /\ DOMAIN v = DOMAIN u \cup {Len(v)} /\ Len(v) \in DOMAIN v
        /\ \A p \in DOMAIN u : v[p] = u[p]
        /\ v[Len(v)] = t[k] /\ DOMAIN v = 1..Len(v)
    <3>1. t[k] \in S /\ u \in Seq(S) /\ v = Append(u, t[k])
      BY <1>1, <1>5
    <3> QED BY ONLY <3>1, AppendSteps
  <2>2. Len(v) <= k
    BY <1>1, <1>2, <2>1
  <2>3. \A p \in DOMAIN v : \E j \in 1..k : v[p] = t[j] /\ t[j].entity # NoEntity
    BY <1>1, <1>2, <1>5, <2>1 DEF Merges
  <2>4. \A p \in DOMAIN u : u[p] # t[k]
    <3> TAKE p \in DOMAIN u
    <3>1. PICK j \in 1..(k - 1) : u[p] = t[j]
      BY <1>1 DEF Merges
    <3> QED BY <1>2, <3>1
  <2>5. \A p, q \in DOMAIN v : p # q => v[p] # v[q]
    BY <1>1, <2>1, <2>4 DEF Merges
  <2>6. \A x : Contains(u, x) => Contains(v, x)
    BY <1>1, <2>1 DEF Contains
  <2>7. Contains(v, t[k])
    BY <2>1 DEF Contains
  <2>8. \A j \in 1..k : t[j].entity # NoEntity => Contains(v, t[j]) \/ Full(o2)
    BY <1>2, <2>6, <2>7 DEF Merges
  <2> QED BY <2>2, <2>3, <2>5, <2>8 DEF Merges
<1> QED BY <1>4, <1>5 DEF Joins

(* Before that loop.                                                       *)
LEMMA MergesNone ==
  ASSUME NEW t, NEW o
  PROVE  Merges(t, 0, <<>>, o)
<1>1. Len(<<>>) = 0 /\ 1..0 = {} /\ DOMAIN <<>> = {}
  OBVIOUS
<1> QED BY <1>1 DEF Merges

-----------------------------------------------------------------------------
\* The endpoints and handlers of the runtime after k entries of the table t.
Registers(t, k, r) ==
  /\ r \in RuntimeTables
  /\ Len(r.owned) <= k /\ Len(r.handlers) <= k
  /\ \A p, q \in DOMAIN r.owned : p # q => ~Clash(r.owned[p], r.owned[q])
  /\ \A p \in DOMAIN r.owned : \E j \in 1..k : t[j].entity # NoEntity /\ Same(r.owned[p], t[j])
  /\ \A j \in 1..k : t[j].entity # NoEntity => \E p \in DOMAIN r.owned : Same(r.owned[p], t[j])
  /\ \A p \in DOMAIN r.handlers : \E j \in 1..k :
       t[j].handler # NoHandler /\ r.handlers[p] = [endpoint |-> t[j].endpoint, device |-> t[j].handler]
  /\ r.observed = <<>> /\ r.states = <<>> /\ r.events = <<>>

(* One more endpoint of the adapter's table, in the first loop of setup.   *)
LEMMA RegistersNext ==
  ASSUME NEW t \in Seq(OwnedSlot), Len(t) <= TableSize,
         \A i, j \in DOMAIN t : i # j => ~Clash(t[i], t[j]),
         NEW k \in 1..Len(t), NEW r, Registers(t, k - 1, r)
  PROVE  Registers(t, k, Own(r, t[k]))
<1> DEFINE x == t[k]
           S == [entity : Nat, endpoint : Nat]
           H == [endpoint : Nat, device : Nat]
           y == [entity |-> x.entity, endpoint |-> x.endpoint]
           z == [endpoint |-> x.endpoint, device |-> x.handler]
           w == r.owned
           u == RegisterOwnedEntity(w, x)
           g == r.handlers
           v == RegisterEndpoint(g, x)
<1>1. /\ DOMAIN t = 1..Len(t) /\ Len(t) \in Nat /\ k \in Nat /\ x \in OwnedSlot
      /\ w \in Seq(S) /\ g \in Seq(H) /\ r \in RuntimeTables
      /\ DOMAIN w = 1..Len(w) /\ Len(w) \in Nat /\ DOMAIN g = 1..Len(g) /\ Len(g) \in Nat
      /\ TableSize \in Nat /\ Len(w) <= k - 1 /\ Len(g) <= k - 1
  <2>1. r \in RuntimeTables /\ Len(w) <= k - 1 /\ Len(g) <= k - 1
    BY DEF Registers
  <2>2. w \in Seq(S) /\ g \in Seq(H)
    BY <2>1 DEF RuntimeTables
  <2> QED BY <2>1, <2>2, LenProperties, ElementOfSeq, TableAssumption
<1>2. y \in S /\ z \in H
  BY <1>1 DEF OwnedSlot
<1>3. 1..k = (1..(k - 1)) \cup {k} /\ k \notin 1..(k - 1) /\ 1..k \subseteq DOMAIN t
  BY <1>1
<1>4. Len(w) < TableSize /\ Len(g) < TableSize
  BY <1>1
<1>5. /\ u \in Seq(S) /\ Len(u) <= k
      /\ \A p, q \in DOMAIN u : p # q => ~Clash(u[p], u[q])
      /\ \A p \in DOMAIN u : \E j \in 1..k : t[j].entity # NoEntity /\ Same(u[p], t[j])
      /\ \A j \in 1..k : t[j].entity # NoEntity => \E p \in DOMAIN u : Same(u[p], t[j])
  <2>1. /\ \A p, q \in DOMAIN w : p # q => ~Clash(w[p], w[q])
        /\ \A p \in DOMAIN w : \E j \in 1..(k - 1) : t[j].entity # NoEntity /\ Same(w[p], t[j])
        /\ \A j \in 1..(k - 1) : t[j].entity # NoEntity => \E p \in DOMAIN w : Same(w[p], t[j])
    BY DEF Registers
  <2>2. \A p \in DOMAIN w : ~Clash(w[p], x)
    <3> TAKE p \in DOMAIN w
    <3>1. PICK j \in 1..(k - 1) : Same(w[p], t[j])
      BY <2>1
    <3>2. ~Clash(t[j], t[k])
      BY <1>3, <3>1
    <3> QED BY <3>1, <3>2 DEF Clash, Same
  <2>3. CASE x.entity = NoEntity
    <3>1. u = w
      BY <2>3 DEF RegisterOwnedEntity
    <3>2. Len(u) <= k
      BY <1>1, <3>1
    <3> HIDE DEF u
    <3> QED BY <1>1, <1>3, <2>1, <2>3, <3>1, <3>2
  <2>4. CASE x.entity # NoEntity
    <3>1. u = Append(w, y)
      BY <1>4, <2>2, <2>4 DEF RegisterOwnedEntity, IntoFreeSlot
    <3>2. /\ u \in Seq(S) /\ Len(u) = Len(w) + 1
          /\ DOMAIN u = DOMAIN w \cup {Len(u)} /\ Len(u) \in DOMAIN u
          /\ \A p \in DOMAIN w : u[p] = w[p]
          /\ u[Len(u)] = y
      <4> HIDE DEF u, y, w, S
      <4> QED BY <1>1, <1>2, <3>1, AppendSteps
    <3>3. Len(u) <= k
      BY <1>1, <3>2
    <3>4. \A a : (Clash(a, x) <=> Clash(a, y)) /\ (Clash(a, y) <=> Clash(y, a)) /\ Same(y, x)
      BY DEF Clash, Same
    <3> HIDE DEF u, y, x
    <3>5. \A p, q \in DOMAIN u : p # q => ~Clash(u[p], u[q])
      BY <2>1, <2>2, <3>2, <3>3, <3>4
    <3>6. \A p \in DOMAIN u : \E j \in 1..k : t[j].entity # NoEntity /\ Same(u[p], t[j])
      BY <1>3, <2>1, <2>4, <3>2, <3>3, <3>4 DEF x
    <3>7. \A j \in 1..k : t[j].entity # NoEntity => \E p \in DOMAIN u : Same(u[p], t[j])
      BY <1>3, <2>1, <3>2, <3>3, <3>4 DEF x
    <3> QED BY <3>2, <3>3, <3>5, <3>6, <3>7
  <2> QED BY <2>3, <2>4
<1>6. /\ v \in Seq(H) /\ Len(v) <= k
      /\ \A p \in DOMAIN v : \E j \in 1..k :
           t[j].handler # NoHandler /\ v[p] = [endpoint |-> t[j].endpoint, device |-> t[j].handler]
  <2>1. \A p \in DOMAIN g : \E j \in 1..(k - 1) :
           t[j].handler # NoHandler /\ g[p] = [endpoint |-> t[j].endpoint, device |-> t[j].handler]
    BY DEF Registers
  <2>2. CASE v = g
    <3>1. Len(v) <= k
      BY <1>1, <2>2
    <3> HIDE DEF v
    <3> QED BY <1>1, <1>3, <2>1, <2>2, <3>1
  <2>3. CASE v = Append(g, z) /\ x.handler # NoHandler
    <3>1. /\ v \in Seq(H) /\ Len(v) = Len(g) + 1 /\ DOMAIN v = DOMAIN g \cup {Len(v)}
          /\ \A p \in DOMAIN g : v[p] = g[p]
          /\ v[Len(v)] = z
      <4> HIDE DEF v, g, z, H
      <4> QED BY <1>1, <1>2, <2>3, AppendSteps
    <3>2. Len(v) <= k
      BY <1>1, <3>1
    <3>3. k \in 1..k /\ v[Len(v)] = [endpoint |-> t[k].endpoint, device |-> t[k].handler]
          /\ t[k].handler # NoHandler
      BY <1>3, <2>3, <3>1
    <3>4. 1..(k - 1) \subseteq 1..k
      BY <1>3
    <3> HIDE DEF v, x, z, g
    <3> QED BY <2>1, <3>1, <3>2, <3>3, <3>4
  <2>4. v = g \/ (v = Append(g, z) /\ x.handler # NoHandler)
    BY <1>4 DEF RegisterEndpoint, IntoFreeSlot
  <2> QED BY <2>2, <2>3, <2>4
<1> DEFINE new == Own(r, x)
<1>7. /\ new \in RuntimeTables /\ new.owned = u /\ new.handlers = v
      /\ new.observed = <<>> /\ new.states = <<>> /\ new.events = <<>>
  <2>1. new = [r EXCEPT !.owned = u, !.handlers = v]
    BY DEF Own
  <2>2. u \in Seq(S) /\ v \in Seq(H) /\ r \in RuntimeTables
        /\ r.observed = <<>> /\ r.states = <<>> /\ r.events = <<>>
    BY <1>1, <1>5, <1>6 DEF Registers
  <2> HIDE DEF u, v, new
  <2> QED BY <2>1, <2>2 DEF RuntimeTables
<1> HIDE DEF u, v
<1>8. Registers(t, k, new)
  <2> HIDE DEF new
  <2> QED BY <1>5, <1>6, <1>7 DEF Registers
<1> QED BY <1>8

(* The runtime's tables before setup.                                      *)
LEMMA UnregisteredOK ==
  /\ Unregistered \in RuntimeTables /\ Watching(Unregistered)
  /\ \A t : Registers(t, 0, Unregistered)
<1>1. /\ <<>> \in Seq([entity : Nat, endpoint : Nat]) /\ <<>> \in Seq([endpoint : Nat, device : Nat])
      /\ <<>> \in Seq(Nat) /\ <<>> \in Seq(StateSlot) /\ <<>> \in Seq(EventSlot)
  BY EmptySeq
<1>2. Unregistered \in RuntimeTables
  BY <1>1 DEF Unregistered, RuntimeTables
<1>3. Len(<<>>) = 0 /\ 1..0 = {} /\ DOMAIN <<>> = {} /\ Range(<<>>) = {}
  BY DEF Range
<1>4. 0 <= TableSize
  BY TableAssumption
<1>5. Watching(Unregistered)
  BY <1>3, <1>4 DEF Watching, Unregistered
<1>6. \A t : Registers(t, 0, Unregistered)
  BY <1>2, <1>3 DEF Registers, Unregistered
<1> QED BY <1>2, <1>5, <1>6

(* The first loop keeps the types of the runtime's tables.                 *)
LEMMA OwnType ==
  ASSUME NEW r \in RuntimeTables, NEW x \in OwnedSlot
  PROVE  Own(r, x) \in RuntimeTables
<1> DEFINE S == [entity : Nat, endpoint : Nat]
           H == [endpoint : Nat, device : Nat]
           u == RegisterOwnedEntity(r.owned, x)
           v == RegisterEndpoint(r.handlers, x)
<1>1. /\ r.owned \in Seq(S) /\ r.handlers \in Seq(H)
      /\ [entity |-> x.entity, endpoint |-> x.endpoint] \in S
      /\ [endpoint |-> x.endpoint, device |-> x.handler] \in H
  BY DEF RuntimeTables, OwnedSlot
<1>2. u \in Seq(S)
  <2> HIDE DEF S
  <2> QED BY <1>1, FreeSlot DEF RegisterOwnedEntity
<1>3. v \in Seq(H)
  <2> HIDE DEF H
  <2> QED BY <1>1, FreeSlot DEF RegisterEndpoint
<1>4. Own(r, x) = [r EXCEPT !.owned = u, !.handlers = v]
  BY DEF Own
<1> HIDE DEF u, v
<1> QED BY <1>2, <1>3, <1>4 DEF RuntimeTables

(* The first loop of setup.                                                *)
LEMMA OwnLoop ==
  ASSUME NEW t \in Seq(OwnedSlot), Len(t) <= TableSize,
         \A i, j \in DOMAIN t : i # j => ~Clash(t[i], t[j])
  PROVE  Registers(t, Len(t), AllOwned(Unregistered, t))
<1> DEFINE n == Len(t)
           r == AllOwned(Unregistered, t)
<1>1. n \in Nat
  BY LenProperties
<1>2. AllOwnedIn(RuntimeTables, OwnedSlot)
  BY OwnType DEF AllOwnedIn
<1>3. PICK h \in [0..n -> RuntimeTables] :
        /\ h[0] = Unregistered /\ h[n] = r
        /\ \A k \in 1..n : h[k] = Own(h[k - 1], t[k])
  <2>1. \E h \in [0..n -> RuntimeTables] : AllOwnedVia(h, Unregistered, t)
    BY <1>2, UnregisteredOK, OwnSteps
  <2> QED BY <2>1 DEF AllOwnedVia
<1> DEFINE B == {k \in 0..n : Registers(t, k, h[k])}
<1>4. 0 \in B
  BY <1>1, <1>3, UnregisteredOK
<1>5. ASSUME NEW k \in 1..n, k - 1 \in B PROVE k \in B
  <2>1. Registers(t, k - 1, h[k - 1]) /\ k \in 0..n /\ k \in 1..Len(t)
    BY <1>1, <1>5
  <2>2. Registers(t, k, Own(h[k - 1], t[k]))
    BY <2>1, RegistersNext
  <2> QED BY <1>3, <2>1, <2>2
<1> HIDE DEF B, n, r
<1>6. n \in B
  <2>1. \A k \in 0..n : k \in B
    BY <1>1, <1>4, <1>5, CountUp
  <2> QED BY <1>1, <2>1
<1> QED BY <1>3, <1>6 DEF B, n, r

(* The loop of setup over the states listeners.                            *)
LEMMA ForStatesLoop ==
  ASSUME NEW t \in Seq(StateSlot), Len(t) <= TableSize,
         \A i, j \in DOMAIN t : i # j => t[i] # t[j],
         NEW base \in RuntimeTables, Watching(base), base.states = <<>>, NEW r, r = AllForStates(base, t)
  PROVE  /\ r \in RuntimeTables /\ Watching(r)
         /\ r.owned = base.owned /\ r.handlers = base.handlers /\ r.events = base.events
         /\ Merges(t, Len(t), r.states, r.observed)
         /\ Full(base.observed) => Full(r.observed)
<1> DEFINE n == Len(t)
           R == {q \in RuntimeTables : Watching(q)}
           OK(q, k) == /\ q.owned = base.owned /\ q.handlers = base.handlers /\ q.events = base.events
                       /\ Merges(t, k, q.states, q.observed)
                       /\ Full(base.observed) => Full(q.observed)
<1>1. n \in Nat /\ \A k \in 1..n : t[k] \in StateSlot
  BY LenProperties, ElementOfSeq
<1>2. AllForStatesIn(R, StateSlot)
  BY ForStatesJoins DEF AllForStatesIn
<1>3. PICK h \in [0..n -> R] :
        /\ h[0] = base /\ h[n] = r
        /\ \A k \in 1..n : h[k] = ForStates(h[k - 1], t[k])
  <2>1. base \in R
    OBVIOUS
  <2> HIDE DEF R
  <2>2. \E h \in [0..n -> R] : AllForStatesVia(h, base, t)
    BY <1>2, <2>1, ForStatesSteps
  <2> QED BY <2>2 DEF AllForStatesVia
<1> DEFINE B == {k \in 0..n : OK(h[k], k)}
<1>4. 0 \in B
  <2>1. OK(base, 0) /\ 0 \in 0..n
    BY <1>1, MergesNone
  <2> HIDE DEF OK, R
  <2> QED BY <1>3, <2>1
<1>5. ASSUME NEW k \in 1..n, k - 1 \in B PROVE k \in B
  <2> DEFINE q == h[k - 1]
             p == h[k]
  <2>1. OK(q, k - 1) /\ k \in 0..n /\ k \in 1..Len(t) /\ k - 1 \in 0..n
    BY <1>1, <1>5
  <2>2. q \in RuntimeTables /\ Watching(q) /\ t[k] \in StateSlot /\ p = ForStates(q, t[k])
        /\ q.states \in Seq(StateSlot)
    BY <1>1, <1>3, <2>1 DEF RuntimeTables
  <2> HIDE DEF q, p, R
  <2>3. /\ p.owned = q.owned /\ p.handlers = q.handlers /\ p.events = q.events
        /\ Joins(q.states, p.states, t[k], p.observed)
        /\ Full(q.observed) => Full(p.observed)
    BY <2>2, ForStatesJoins
  <2>4. Merges(t, k, p.states, p.observed)
    BY <2>1, <2>2, <2>3, MergesNext
  <2>5. OK(p, k)
    BY <2>1, <2>3, <2>4
  <2> QED BY <2>1, <2>5 DEF p
<1> HIDE DEF B, n, OK
<1>6. n \in B /\ n \in 0..n
  <2>1. \A k \in 0..n : k \in B
    BY <1>1, <1>4, <1>5, CountUp
  <2> QED BY <1>1, <2>1
<1>7. h[n] \in R
  BY <1>3, <1>6
<1>8. OK(r, n) /\ r \in RuntimeTables /\ Watching(r)
  BY <1>3, <1>6, <1>7 DEF B
<1> QED BY <1>8 DEF OK, n

(* The loop of setup over the events listeners.                            *)
LEMMA ForEventsLoop ==
  ASSUME NEW t \in Seq(EventSlot), Len(t) <= TableSize,
         \A i, j \in DOMAIN t : i # j => t[i] # t[j],
         NEW base \in RuntimeTables, Watching(base), base.events = <<>>, NEW r, r = AllForEvents(base, t)
  PROVE  /\ r \in RuntimeTables /\ Watching(r)
         /\ r.owned = base.owned /\ r.handlers = base.handlers /\ r.states = base.states
         /\ Merges(t, Len(t), r.events, r.observed)
         /\ Full(base.observed) => Full(r.observed)
<1> DEFINE n == Len(t)
           R == {q \in RuntimeTables : Watching(q)}
           OK(q, k) == /\ q.owned = base.owned /\ q.handlers = base.handlers /\ q.states = base.states
                       /\ Merges(t, k, q.events, q.observed)
                       /\ Full(base.observed) => Full(q.observed)
<1>1. n \in Nat /\ \A k \in 1..n : t[k] \in EventSlot
  BY LenProperties, ElementOfSeq
<1>2. AllForEventsIn(R, EventSlot)
  BY ForEventsJoins DEF AllForEventsIn
<1>3. PICK h \in [0..n -> R] :
        /\ h[0] = base /\ h[n] = r
        /\ \A k \in 1..n : h[k] = ForEvents(h[k - 1], t[k])
  <2>1. base \in R
    OBVIOUS
  <2> HIDE DEF R
  <2>2. \E h \in [0..n -> R] : AllForEventsVia(h, base, t)
    BY <1>2, <2>1, ForEventsSteps
  <2> QED BY <2>2 DEF AllForEventsVia
<1> DEFINE B == {k \in 0..n : OK(h[k], k)}
<1>4. 0 \in B
  <2>1. OK(base, 0) /\ 0 \in 0..n
    BY <1>1, MergesNone
  <2> HIDE DEF OK, R
  <2> QED BY <1>3, <2>1
<1>5. ASSUME NEW k \in 1..n, k - 1 \in B PROVE k \in B
  <2> DEFINE q == h[k - 1]
             p == h[k]
  <2>1. OK(q, k - 1) /\ k \in 0..n /\ k \in 1..Len(t) /\ k - 1 \in 0..n
    BY <1>1, <1>5
  <2>2. q \in RuntimeTables /\ Watching(q) /\ t[k] \in EventSlot /\ p = ForEvents(q, t[k])
        /\ q.events \in Seq(EventSlot)
    BY <1>1, <1>3, <2>1 DEF RuntimeTables
  <2> HIDE DEF q, p, R
  <2>3. /\ p.owned = q.owned /\ p.handlers = q.handlers /\ p.states = q.states
        /\ Joins(q.events, p.events, t[k], p.observed)
        /\ Full(q.observed) => Full(p.observed)
    BY <2>2, ForEventsJoins
  <2>4. Merges(t, k, p.events, p.observed)
    BY <2>1, <2>2, <2>3, MergesNext
  <2>5. OK(p, k)
    BY <2>1, <2>3, <2>4
  <2> QED BY <2>1, <2>5 DEF p
<1> HIDE DEF B, n, OK
<1>6. n \in B /\ n \in 0..n
  <2>1. \A k \in 0..n : k \in B
    BY <1>1, <1>4, <1>5, CountUp
  <2> QED BY <1>1, <2>1
<1>7. h[n] \in R
  BY <1>3, <1>6
<1>8. OK(r, n) /\ r \in RuntimeTables /\ Watching(r)
  BY <1>3, <1>6, <1>7 DEF B
<1> QED BY <1>8 DEF OK, n

-----------------------------------------------------------------------------
\* How the tables r of the runtime come from the tables a of the adapter.
SetupOK(a, r) ==
  /\ r \in RuntimeTables /\ Watching(r)
  /\ \E q : Registers(a.owned, Len(a.owned), q) /\ r.owned = q.owned /\ r.handlers = q.handlers
  /\ Merges(a.states, Len(a.states), r.states, r.observed)
  /\ Merges(a.events, Len(a.events), r.events, r.observed)

(* The three loops of setup one after the other.                           *)
LEMMA SetupTables ==
  ASSUME NEW d \in Seq(Declaration)
  PROVE  SetupOK(Adapter(d), Tables(d))
<1> DEFINE a == Adapter(d)
           q == AllOwned(Unregistered, a.owned)
           s == AllForStates(q, a.states)
           r == AllForEvents(s, a.events)
<1>1. Tables(d) = r
  BY DEF Tables, Setup, AllOwned, AllForStates, AllForEvents
<1>2. a \in AdapterTables /\ AdapterOK(d, Len(d), a)
  BY AdapterTablesOK
<1> HIDE DEF a
<1>3. /\ a.owned \in Seq(OwnedSlot) /\ a.states \in Seq(StateSlot) /\ a.events \in Seq(EventSlot)
      /\ Len(a.owned) <= TableSize /\ Len(a.states) <= TableSize /\ Len(a.events) <= TableSize
      /\ \A i, j \in DOMAIN a.owned : i # j => ~Clash(a.owned[i], a.owned[j])
      /\ \A i, j \in DOMAIN a.states : i # j => a.states[i] # a.states[j]
      /\ \A i, j \in DOMAIN a.events : i # j => a.events[i] # a.events[j]
  BY <1>2 DEF AdapterTables, AdapterOK, OwnedOK, Keeps
<1>4. Registers(a.owned, Len(a.owned), q)
  BY <1>3, OwnLoop
<1> HIDE DEF q
<1>5. /\ q \in RuntimeTables /\ q.observed = <<>> /\ q.states = <<>> /\ q.events = <<>>
  BY <1>4 DEF Registers
<1>6. Watching(q)
  <2>1. Len(<<>>) = 0 /\ Range(<<>>) = {}
    BY DEF Range
  <2>2. 0 <= TableSize
    BY TableAssumption
  <2> QED BY <1>5, <2>1, <2>2 DEF Watching
<1>7. /\ s \in RuntimeTables /\ Watching(s)
      /\ s.owned = q.owned /\ s.handlers = q.handlers /\ s.events = q.events
      /\ Merges(a.states, Len(a.states), s.states, s.observed)
  BY <1>3, <1>5, <1>6, ForStatesLoop
<1> HIDE DEF s
<1>8. /\ r \in RuntimeTables /\ Watching(r)
      /\ r.owned = s.owned /\ r.handlers = s.handlers /\ r.states = s.states
      /\ Merges(a.events, Len(a.events), r.events, r.observed)
      /\ Full(s.observed) => Full(r.observed)
  BY <1>3, <1>5, <1>7, ForEventsLoop
<1> HIDE DEF r
<1>9. Merges(a.states, Len(a.states), r.states, r.observed)
  BY <1>7, <1>8 DEF Merges
<1>10. SetupOK(a, r)
  BY <1>4, <1>7, <1>8, <1>9 DEF SetupOK
<1> QED BY <1>1, <1>10 DEF a

(* Tables that come about this way belong together.                        *)
LEMMA TablesConsistent ==
  ASSUME NEW d \in Seq(Declaration), NEW r, SetupOK(Adapter(d), r)
  PROVE  Consistent(d, r)
<1> DEFINE a == Adapter(d)
           t == a.owned
<1>1. a \in AdapterTables /\ AdapterOK(d, Len(d), a)
  BY AdapterTablesOK
<1>2. PICK q : Registers(t, Len(t), q) /\ r.owned = q.owned /\ r.handlers = q.handlers
  BY DEF SetupOK
<1> HIDE DEF a
<1>3. /\ t \in Seq(OwnedSlot) /\ DOMAIN t = 1..Len(t)
      /\ \A i, j \in DOMAIN t : i # j => ~Clash(t[i], t[j])
      /\ \A j \in DOMAIN t : t[j].handler # NoHandler =>
           /\ t[j].handler \in DOMAIN d /\ TakesCommands(d[t[j].handler])
           /\ Same(t[j], d[t[j].handler])
  <2>1. OwnedOK(d, Len(d), t)
    BY <1>1 DEF AdapterOK
  <2> HIDE DEF t
  <2> QED BY <2>1, LenProperties DEF OwnedOK
<1> HIDE DEF t
<1>4. \A p, s \in DOMAIN r.owned : p # s => ~Clash(r.owned[p], r.owned[s])
  BY <1>2 DEF Registers
<1>5. ASSUME NEW p \in DOMAIN r.handlers
      PROVE  /\ TakesCommands(d[r.handlers[p].device])
             /\ d[r.handlers[p].device].endpoint = r.handlers[p].endpoint
             /\ \A m \in DOMAIN r.owned : r.owned[m].endpoint = r.handlers[p].endpoint =>
                  r.owned[m].entity = d[r.handlers[p].device].entity
  <2>1. PICK j \in 1..Len(t) :
          t[j].handler # NoHandler /\ r.handlers[p] = [endpoint |-> t[j].endpoint, device |-> t[j].handler]
    BY <1>2 DEF Registers
  <2>2. r.handlers[p].device = t[j].handler /\ r.handlers[p].endpoint = t[j].endpoint
    BY <2>1
  <2>3. TakesCommands(d[t[j].handler]) /\ Same(t[j], d[t[j].handler])
    BY <1>3, <2>1
  <2>4. ASSUME NEW m \in DOMAIN r.owned, r.owned[m].endpoint = t[j].endpoint
        PROVE  r.owned[m].entity = t[j].entity
    <3>1. PICK i \in 1..Len(t) : Same(r.owned[m], t[i])
      BY <1>2 DEF Registers
    <3>2. i = j
      BY <1>3, <2>4, <3>1 DEF Same, Clash
    <3> QED BY <3>1, <3>2 DEF Same
  <2> QED BY <2>2, <2>3, <2>4 DEF Same
<1>6. Range(r.observed) = {l.entity : l \in Range(r.states) \cup Range(r.events)}
  BY DEF SetupOK, Watching
<1> QED BY <1>4, <1>5, <1>6 DEF Consistent

(* A listener of the adapter's table is in the one of the runtime, too.    *)
LEMMA MergedListener ==
  ASSUME NEW t, NEW u, NEW o, Merges(t, Len(t), u, o),
         NEW W, Keeps(t, W), NEW l \in W, l.entity # NoEntity
  PROVE  Contains(u, l) \/ Full(t) \/ Full(o)
<1>1. Contains(t, l) \/ Full(t)
  BY DEF Keeps
<1>2. ASSUME NEW j \in 1..Len(t), t[j] = l PROVE Contains(u, l) \/ Full(o)
  BY <1>2 DEF Merges
<1> QED BY <1>1, <1>2 DEF Contains

(* Tables that come about this way are complete.                           *)
LEMMA TablesAreComplete ==
  ASSUME NEW d \in Seq(Declaration), NEW r, SetupOK(Adapter(d), r)
  PROVE  Complete(d, r)
<1> DEFINE a == Adapter(d)
           t == a.owned
<1>1. a \in AdapterTables /\ AdapterOK(d, Len(d), a) /\ DOMAIN d = 1..Len(d)
  BY AdapterTablesOK, LenProperties
<1>2. /\ \E q : Registers(t, Len(t), q) /\ r.owned = q.owned /\ r.handlers = q.handlers
      /\ Merges(a.states, Len(a.states), r.states, r.observed)
      /\ Merges(a.events, Len(a.events), r.events, r.observed)
  BY DEF SetupOK
<1> HIDE DEF a
<1>3. ASSUME NEW i \in DOMAIN d
      PROVE  \/ \E k \in DOMAIN r.owned : Same(r.owned[k], d[i])
             \/ d[i].entity = NoEntity \/ Full(t)
             \/ \E j \in 1 .. i - 1 : Clash(d[j], d[i]) /\ ~Same(d[j], d[i])
  <2>1. Placed(d, i, t) /\ t \in Seq(OwnedSlot)
    <3>1. OwnedOK(d, Len(d), t)
      BY <1>1 DEF AdapterOK
    <3> HIDE DEF t
    <3> QED BY <1>1, <3>1 DEF OwnedOK
  <2>2. ASSUME NEW p \in DOMAIN t, Same(t[p], d[i]), d[i].entity # NoEntity
        PROVE  \E k \in DOMAIN r.owned : Same(r.owned[k], d[i])
    <3>1. PICK q : Registers(t, Len(t), q) /\ r.owned = q.owned
      BY <1>2
    <3>2. p \in 1..Len(t) /\ t[p].entity # NoEntity
      BY <2>1, <2>2, LenProperties DEF Same
    <3>3. PICK k \in DOMAIN r.owned : Same(r.owned[k], t[p])
      BY <3>1, <3>2 DEF Registers
    <3>4. Same(r.owned[k], d[i])
      BY <2>2, <3>3 DEF Same
    <3> QED BY <3>4
  <2> HIDE DEF t
  <2> QED BY <2>1, <2>2 DEF Placed
<1>4. ASSUME NEW i \in DOMAIN d, d[i].source # NoEntity
      PROVE  Contains(r.states, StateListener(d, i)) \/ Full(a.states) \/ Full(r.observed)
  <2>1. StateListener(d, i) \in StatesTo(d, Len(d)) /\ StateListener(d, i).entity = d[i].source
    BY <1>1, <1>4 DEF StatesTo, StateListener
  <2>2. Keeps(a.states, StatesTo(d, Len(d)))
    BY <1>1 DEF AdapterOK
  <2> QED BY <1>2, <1>4, <2>1, <2>2, MergedListener
<1>5. ASSUME NEW i \in DOMAIN d, NEW b \in DOMAIN d[i].bindings, d[i].bindings[b].entity # NoEntity
      PROVE  Contains(r.events, EventListeners(d, i)[b]) \/ Full(a.events) \/ Full(r.observed)
  <2>1. b \in DOMAIN EventListeners(d, i) /\ EventListeners(d, i)[b].entity = d[i].bindings[b].entity
    BY DEF EventListeners
  <2>2. EventListeners(d, i)[b] \in EventsTo(d, Len(d))
    BY <1>1, <2>1 DEF EventsTo, Range
  <2>3. Keeps(a.events, EventsTo(d, Len(d)))
    BY <1>1 DEF AdapterOK
  <2> QED BY <1>2, <1>5, <2>1, <2>2, <2>3, MergedListener
<1> QED BY <1>3, <1>4, <1>5 DEF Complete, a

\* The configuration and what has been made of it at the start.
ConfigOK ==
  /\ layout \in [Nodes -> Seq(Declaration)]
  /\ tables = [n \in Nodes |-> Tables(layout[n])]

(* No step changes the configuration.                                      *)
LEMMA NextConfig == [Next]_vars => config' = config
<1> SUFFICES ASSUME [Next]_vars PROVE config' = config
  OBVIOUS
<1>1. CASE UNCHANGED vars
  BY <1>1 DEF vars
<1>2. ASSUME NEW n \in Nodes, NEW i \in Devices(n),
             LocalChange(n, i) \/ SensorChange(n, i) \/ WriteLight(n, i)
      PROVE  config' = config
  BY <1>2 DEF LocalChange, SensorChange, WriteLight
<1>3. ASSUME NEW n \in Nodes, NEW i, NEW g, PublishEvent(n, i, g) \/ HandleCommand(n, g)
      PROVE  config' = config
  BY <1>3 DEF PublishEvent, HandleCommand
<1>4. ASSUME NEW n \in Nodes, NEW m, NEW p,
             \/ Transmit(n) \/ Refuse(n) \/ Receive(n) \/ Adopt(n) \/ Restart(n)
             \/ Learn(n, m, p)
      PROVE  config' = config
  BY <1>4 DEF Transmit, Refuse, Receive, Adopt, Restart, Learn
<1> QED BY <1>1, <1>2, <1>3, <1>4 DEF Next

(* The tables are always those that setup made.                            *)
LEMMA ConfigInvariant == Spec => []ConfigOK
<1>1. Init => ConfigOK
  BY EndpointsAssumption DEF Init, ConfigOK
<1>2. ConfigOK /\ [Next]_vars => ConfigOK'
  BY NextConfig DEF ConfigOK, config
<1> QED BY <1>1, <1>2, PTL DEF Spec

(* Entities and endpoints of a node are unique, a command reaches a device *)
(* that was declared under its endpoint, and exactly the entities that     *)
(* somebody listens to are observed, for every configuration the schemas   *)
(* accept and any size of the tables (add_owned_endpoint,                  *)
(* register_owned_entity, register_endpoint, register_state_listener,      *)
(* register_event_listener).                                               *)
THEOREM TablesBelongTogether == Spec => []TablesAgree
<1>1. ConfigOK => TablesAgree
  <2> SUFFICES ASSUME ConfigOK, NEW n \in Nodes PROVE Consistent(layout[n], tables[n])
    BY DEF TablesAgree
  <2>1. layout[n] \in Seq(Declaration) /\ tables[n] = Tables(layout[n])
    BY DEF ConfigOK
  <2> QED BY <2>1, SetupTables, TablesConsistent
<1> QED BY <1>1, ConfigInvariant, PTL

(* Nothing that is declared is missing in the tables without one of the    *)
(* reasons that Complete names: a full table, an entity 0, an earlier      *)
(* declaration that it clashes with.                                       *)
THEOREM DeclarationsRegistered == Spec => []TablesComplete
<1>1. ConfigOK => TablesComplete
  <2> SUFFICES ASSUME ConfigOK, NEW n \in Nodes PROVE Complete(layout[n], tables[n])
    BY DEF TablesComplete
  <2>1. layout[n] \in Seq(Declaration) /\ tables[n] = Tables(layout[n])
    BY DEF ConfigOK
  <2> QED BY <2>1, SetupTables, TablesAreComplete
<1> QED BY <1>1, ConfigInvariant, PTL

-----------------------------------------------------------------------------
(* Part 2.  The steps of a node                                            *)

(* What the rest of the proofs uses of the tables r of a configuration d.  *)
Wired(d, r) ==
  /\ r \in RuntimeTables
  /\ \A t \in DOMAIN r : Len(r[t]) <= TableSize
  /\ \A k, l \in DOMAIN r.owned : k # l => ~Clash(r.owned[k], r.owned[l])
  /\ \A k \in DOMAIN r.owned : r.owned[k].entity # NoEntity
  /\ \A h \in Range(r.handlers) : h.device \in DOMAIN d /\ TakesCommands(d[h.device])
  /\ \A x \in Range(r.states) :
       /\ x.device \in DOMAIN d /\ x = StateListener(d, x.device)
       /\ d[x.device].source = x.entity /\ x.entity # NoEntity /\ d[x.device].kind = "switch"
  /\ \A x \in Range(r.events) :
       /\ x.device \in DOMAIN d /\ x.binding \in DOMAIN d[x.device].bindings
       /\ x = EventListeners(d, x.device)[x.binding]
       /\ d[x.device].bindings[x.binding].entity = x.entity /\ x.entity # NoEntity
       /\ TakesCommands(d[x.device])
  /\ \A k, l \in DOMAIN r.events : k # l => r.events[k] # r.events[l]

(* The runtime's listeners are those of the adapter, without the entity 0. *)
LEMMA MergedFrom ==
  ASSUME NEW t, NEW u, NEW o, Merges(t, Len(t), u, o), NEW W, Keeps(t, W)
  PROVE  /\ \A x \in Range(u) : x \in W /\ x.entity # NoEntity
         /\ Len(u) <= Len(t) /\ Len(t) <= TableSize
<1>1. t \in Seq(W) /\ Len(t) <= TableSize
  BY DEF Keeps
<1>2. \A j \in 1..Len(t) : t[j] \in W
  BY <1>1, ElementOfSeq
<1>3. \A x \in Range(u) : \E j \in 1..Len(t) : x = t[j] /\ t[j].entity # NoEntity
  BY DEF Merges, Range
<1> QED BY <1>1, <1>2, <1>3 DEF Merges

(* What setup makes of a configuration is wired.                           *)
LEMMA TablesWired ==
  ASSUME NEW d \in Seq(Declaration), NEW r, SetupOK(Adapter(d), r)
  PROVE  Wired(d, r)
<1> DEFINE a == Adapter(d)
           t == a.owned
<1>1. a \in AdapterTables /\ AdapterOK(d, Len(d), a) /\ DOMAIN d = 1..Len(d) /\ TableSize \in Nat
  BY AdapterTablesOK, LenProperties, TableAssumption
<1>2. PICK q : Registers(t, Len(t), q) /\ r.owned = q.owned /\ r.handlers = q.handlers
  BY DEF SetupOK
<1>3. /\ Merges(a.states, Len(a.states), r.states, r.observed)
      /\ Merges(a.events, Len(a.events), r.events, r.observed)
      /\ r \in RuntimeTables /\ Len(r.observed) <= TableSize
  BY DEF SetupOK, Watching
<1> HIDE DEF a
<1>4. /\ Keeps(a.states, StatesTo(d, Len(d))) /\ Keeps(a.events, EventsTo(d, Len(d)))
      /\ OwnedOK(d, Len(d), t)
  BY <1>1 DEF AdapterOK
<1> HIDE DEF t
<1>5. /\ \A x \in Range(r.states) : x \in StatesTo(d, Len(d)) /\ x.entity # NoEntity
      /\ Len(r.states) <= Len(a.states) /\ Len(a.states) <= TableSize
  BY <1>3, <1>4, MergedFrom
<1>6. /\ \A x \in Range(r.events) : x \in EventsTo(d, Len(d)) /\ x.entity # NoEntity
      /\ Len(r.events) <= Len(a.events) /\ Len(a.events) <= TableSize
  BY <1>3, <1>4, MergedFrom
<1>7. ASSUME NEW x \in Range(r.states)
      PROVE  /\ x.device \in DOMAIN d /\ x = StateListener(d, x.device)
             /\ d[x.device].source = x.entity /\ x.entity # NoEntity /\ d[x.device].kind = "switch"
  <2>1. PICK i \in 1..Len(d) : x = StateListener(d, i) /\ d[i].source # NoEntity
    BY <1>5 DEF StatesTo
  <2>2. x.device = i /\ x.entity = d[i].source
    BY <2>1 DEF StateListener
  <2>3. d[i].kind = "switch"
    BY <1>1, <2>1, DeclarationType
  <2> QED BY <1>1, <2>1, <2>2, <2>3
<1>8. ASSUME NEW x \in Range(r.events)
      PROVE  /\ x.device \in DOMAIN d /\ x.binding \in DOMAIN d[x.device].bindings
             /\ x = EventListeners(d, x.device)[x.binding]
             /\ d[x.device].bindings[x.binding].entity = x.entity /\ x.entity # NoEntity
             /\ TakesCommands(d[x.device])
  <2>1. PICK i \in 1..Len(d) : x \in Range(EventListeners(d, i))
    BY <1>6 DEF EventsTo
  <2>2. PICK b \in DOMAIN EventListeners(d, i) : x = EventListeners(d, i)[b]
    BY <2>1 DEF Range
  <2>3. /\ b \in DOMAIN d[i].bindings /\ x.device = i /\ x.binding = b
        /\ x.entity = d[i].bindings[b].entity
    BY <2>2 DEF EventListeners
  <2>4. d[i].bindings # <<>>
    <3>1. DOMAIN <<>> = {}
      OBVIOUS
    <3> QED BY <2>3, <3>1
  <2>5. TakesCommands(d[i])
    BY <1>1, <2>4, DeclarationType
  <2> QED BY <1>1, <1>6, <2>2, <2>3, <2>5
<1>9. \A k, l \in DOMAIN r.owned : k # l => ~Clash(r.owned[k], r.owned[l])
  BY <1>2 DEF Registers
<1>10. \A k \in DOMAIN r.owned : r.owned[k].entity # NoEntity
  <2> TAKE k \in DOMAIN r.owned
  <2>1. \E j \in 1..Len(t) : t[j].entity # NoEntity /\ Same(r.owned[k], t[j])
    BY <1>2 DEF Registers
  <2> QED BY <2>1 DEF Same
<1>11. ASSUME NEW h \in Range(r.handlers)
       PROVE  h.device \in DOMAIN d /\ TakesCommands(d[h.device])
  <2>0. PICK p \in DOMAIN r.handlers : h = r.handlers[p]
    BY DEF Range
  <2>1. PICK j \in 1..Len(t) : t[j].handler # NoHandler /\ h.device = t[j].handler
    <3>1. \E j \in 1..Len(t) : t[j].handler # NoHandler
            /\ r.handlers[p] = [endpoint |-> t[j].endpoint, device |-> t[j].handler]
      BY <1>2 DEF Registers
    <3> QED BY <2>0, <3>1
  <2>2. DOMAIN t = 1..Len(t)
    BY <1>4, LenProperties DEF OwnedOK
  <2> QED BY <1>4, <2>1, <2>2 DEF OwnedOK
<1>12. /\ Len(r.owned) <= TableSize /\ Len(r.handlers) <= TableSize
       /\ Len(r.states) <= TableSize /\ Len(r.events) <= TableSize
  <2>1. /\ Len(r.owned) <= Len(t) /\ Len(r.handlers) <= Len(t) /\ Len(t) <= TableSize
    BY <1>2, <1>4 DEF Registers, OwnedOK
  <2>2. /\ t \in Seq(OwnedSlot) /\ a.states \in Seq(StateSlot) /\ a.events \in Seq(EventSlot)
    BY <1>1, <1>4 DEF OwnedOK, AdapterTables
  <2>3. /\ r.owned \in Seq([entity : Nat, endpoint : Nat])
        /\ r.handlers \in Seq([endpoint : Nat, device : Nat])
        /\ r.states \in Seq(StateSlot) /\ r.events \in Seq(EventSlot)
    BY <1>3 DEF RuntimeTables
  <2>4. /\ Len(r.owned) \in Nat /\ Len(r.handlers) \in Nat /\ Len(t) \in Nat
        /\ Len(r.states) \in Nat /\ Len(r.events) \in Nat
        /\ Len(a.states) \in Nat /\ Len(a.events) \in Nat
    BY <2>2, <2>3, LenProperties
  <2> QED BY <1>1, <1>5, <1>6, <2>1, <2>4
<1>13. \A f \in DOMAIN r : Len(r[f]) <= TableSize
  <2>1. DOMAIN r = {"owned", "handlers", "observed", "states", "events"}
    BY <1>3 DEF RuntimeTables
  <2> QED BY <1>3, <1>12, <2>1
<1>14. \A k, l \in DOMAIN r.events : k # l => r.events[k] # r.events[l]
  BY <1>3 DEF Merges
<1> QED BY <1>3, <1>7, <1>8, <1>9, <1>10, <1>11, <1>13, <1>14 DEF Wired

\* The configuration has types, and the tables are made of it.
Installed ==
  /\ layout \in [Nodes -> Seq(Declaration)]
  /\ \A n \in Nodes : Wired(layout[n], tables[n])

(* Every node always has the tables of its configuration.                  *)
LEMMA InstalledInvariant == Spec => []Installed
<1>1. ConfigOK => Installed
  <2> SUFFICES ASSUME ConfigOK PROVE Installed
    OBVIOUS
  <2>1. ASSUME NEW n \in Nodes PROVE Wired(layout[n], tables[n])
    <3>1. layout[n] \in Seq(Declaration) /\ tables[n] = Tables(layout[n])
      BY DEF ConfigOK
    <3> QED BY <3>1, SetupTables, TablesWired
  <2> QED BY <2>1 DEF ConfigOK, Installed
<1> QED BY <1>1, ConfigInvariant, PTL

(* What is known of one device of a node.                                  *)
LEMMA DeviceType ==
  ASSUME Installed, NEW n \in Nodes, NEW i \in Devices(n)
  PROVE  /\ layout[n] \in Seq(Declaration) /\ i \in Nat
         /\ layout[n][i].endpoint \in Nat /\ layout[n][i].source \in Nat
         /\ Kind(n, i) \in {"switch", "light", "sensor", "button"}
         /\ layout[n][i].bindings \in Seq(Binding)
         /\ layout[n][i].source # NoEntity => Kind(n, i) = "switch"
         /\ layout[n][i].bindings # <<>> => TakesCommands(layout[n][i])
         /\ TakesCommands(layout[n][i]) <=> Kind(n, i) \in {"switch", "light"}
         /\ i \in Lights(layout[n]) <=> Kind(n, i) = "light"
<1>1. layout[n] \in Seq(Declaration) /\ i \in DOMAIN layout[n]
  BY DEF Installed, Devices
<1>2. TakesCommands(layout[n][i]) <=> Kind(n, i) \in {"switch", "light"}
  BY DEF TakesCommands, Kind
<1>3. i \in Lights(layout[n]) <=> Kind(n, i) = "light"
  BY <1>1 DEF Lights, Kind
<1> QED BY <1>1, <1>2, <1>3, DeclarationType DEF Kind

-----------------------------------------------------------------------------
\* The frames that node n queues: states only of devices under an endpoint it owns.
StateFrames(n) ==
  [kind : {"state"}, source : {n},
   endpoint : {p \in Nat : Owns(n, p) /\ Publishers(n, p) # {}}, value : {Off, On}]

EventFrames(n) == [kind : {"event"}, source : {n}, endpoint : Nat, gesture : Gestures]

Sent == UNION {StateFrames(m) \cup EventFrames(m) : m \in Nodes}

\* The states of node n between two of its steps; a light always has a value.
LocalType(n) ==
  [value : [Devices(n) -> {Off, On, Unset}], dirty : SUBSET Lights(layout[n]),
   mute : SUBSET Devices(n), states : Seq(StateFrames(n)), events : Seq(EventFrames(n))]

Locals(n) ==
  {l \in LocalType(n) :
    /\ Len(l.states) <= QueueSize /\ Len(l.events) <= QueueSize
    /\ \A i \in Lights(layout[n]) : l.value[i] # Unset}

\* Device i of node n has published v or was refused: l has become u.
Published(n, i, v, l, u) ==
  LET p == layout[n][i].endpoint
      f == State(n, p, v)
  IN  /\ u.value = l.value /\ u.dirty = l.dirty /\ u.events = l.events
      /\ \/ u.mute = l.mute \cup {i} /\ u.states = l.states
         \/ /\ u.mute = l.mute \ {i} /\ f \in StateFrames(n)
            /\ \/ Waiting(l, p) = {} /\ u.states = Append(l.states, f)
               \/ /\ Waiting(l, p) # {}
                  /\ u.states = [k \in DOMAIN l.states |->
                                  IF k \in Waiting(l, p) THEN f ELSE l.states[k]]

(* What publish_state does to the queue and the history of a node.         *)
LEMMA PublishSteps ==
  ASSUME Installed, NEW n \in Nodes, NEW l \in Locals(n), NEW i \in Devices(n),
         Kind(n, i) # "button", NEW v \in {Off, On}, NEW u, u = Publish(n, l, i, v)
  PROVE  u \in Locals(n) /\ Published(n, i, v, l, u)
<1> DEFINE p == layout[n][i].endpoint
           f == State(n, p, v)
           S == StateFrames(n)
           q == l.states
           W == Waiting(l, p)
           r == [k \in DOMAIN q |-> IF k \in W THEN f ELSE q[k]]
<1>1. /\ l \in LocalType(n) /\ q \in Seq(S) /\ Len(q) <= QueueSize /\ Len(l.events) <= QueueSize
      /\ \A j \in Lights(layout[n]) : l.value[j] # Unset
      /\ Len(q) \in Nat /\ DOMAIN q = 1..Len(q) /\ \A k \in DOMAIN q : q[k] \in S
      /\ QueueSize \in Nat
  <2>1. l \in LocalType(n) /\ Len(q) <= QueueSize /\ Len(l.events) <= QueueSize
        /\ \A j \in Lights(layout[n]) : l.value[j] # Unset
    BY DEF Locals
  <2>2. q \in Seq(S)
    BY <2>1 DEF LocalType
  <2>3. Len(q) \in Nat /\ DOMAIN q = 1..Len(q) /\ \A k \in DOMAIN q : q[k] \in S
    BY <2>2, LenProperties, ElementOfSeq
  <2> QED BY <2>1, <2>2, <2>3, EndpointsAssumption
<1>2. CASE ~(n \in assigned /\ Owns(n, p)) \/ (W = {} /\ Len(q) = QueueSize)
  <2>1. u = [l EXCEPT !.mute = @ \cup {i}]
    BY <1>2 DEF Publish
  <2>2. /\ u \in LocalType(n) /\ u.mute = l.mute \cup {i} /\ u.states = l.states
        /\ u.value = l.value /\ u.dirty = l.dirty /\ u.events = l.events
    <3>1. l \in LocalType(n)
      BY <1>1
    <3> QED BY ONLY <2>1, <3>1, i \in Devices(n) DEF LocalType
  <2>3. u \in Locals(n)
    BY <1>1, <2>2 DEF Locals
  <2>4. Published(n, i, v, l, u)
    BY <2>2 DEF Published
  <2> QED BY <2>3, <2>4
<1>3. CASE ~(~(n \in assigned /\ Owns(n, p)) \/ (W = {} /\ Len(q) = QueueSize))
  <2>1. u = [l EXCEPT !.mute = @ \ {i}, !.states = IF W = {} THEN Append(@, f) ELSE
              [k \in DOMAIN @ |-> IF k \in W THEN f ELSE @[k]]]
    BY <1>3 DEF Publish
  <2>2. f \in S
    <3>1. i \in Publishers(n, p) /\ p \in Nat
      BY DeviceType DEF Publishers
    <3> QED BY <1>3, <3>1 DEF StateFrames, State
  <2> DEFINE w == IF W = {} THEN Append(q, f) ELSE r
  <2>3. w \in Seq(S) /\ Len(w) <= QueueSize
    <3>1. CASE W = {}
      <4>1. Append(q, f) \in Seq(S) /\ Len(Append(q, f)) = Len(q) + 1
        <5> HIDE DEF S, q
        <5> QED BY <1>1, <2>2, AppendProperties
      <4>2. Len(q) # QueueSize
        BY <1>3, <3>1
      <4> DEFINE a == Len(q)
      <4>3. a + 1 <= QueueSize
        <5>1. a \in Nat /\ a <= QueueSize /\ a # QueueSize /\ QueueSize \in Nat
          BY <1>1, <4>2
        <5> HIDE DEF a
        <5> QED BY <5>1
      <4> QED BY <3>1, <4>1, <4>3
    <3>2. CASE W # {}
      <4> HIDE DEF W, S, q
      <4>1. r \in [1..Len(q) -> S]
        BY <1>1, <2>2
      <4>2. r \in Seq(S)
        <5> DEFINE c == Len(q)
        <5>1. c \in Nat /\ r \in [1..c -> S]
          BY <1>1, <4>1
        <5> HIDE DEF c, r
        <5> QED BY <5>1
      <4>3. Len(r) = Len(q)
        <5>1. DOMAIN r = 1..Len(r) /\ Len(r) \in Nat
          BY <4>2, LenProperties
        <5>2. DOMAIN r = 1..Len(q)
          BY <1>1
        <5> DEFINE b == Len(r)
                   c == Len(q)
        <5>3. 1..b = 1..c /\ b \in Nat /\ c \in Nat
          BY <1>1, <5>1, <5>2
        <5> HIDE DEF b, c
        <5>4. b = c
          BY <5>3
        <5> QED BY <5>4 DEF b, c
      <4> QED BY <1>1, <3>2, <4>2, <4>3
    <3> QED BY <3>1, <3>2
  <2>4. u = [l EXCEPT !.mute = @ \ {i}, !.states = w]
    BY <2>1
  <2>5. /\ u \in LocalType(n) /\ u.mute = l.mute \ {i} /\ u.states = w
        /\ u.value = l.value /\ u.dirty = l.dirty /\ u.events = l.events
    <3> HIDE DEF w
    <3> QED BY <1>1, <2>3, <2>4 DEF LocalType
  <2>6. u \in Locals(n)
    <3> HIDE DEF w
    <3> QED BY <1>1, <2>3, <2>5 DEF Locals
  <2>7. Published(n, i, v, l, u)
    <3>1. CASE W = {}
      BY <2>2, <2>5, <3>1 DEF Published
    <3>2. CASE W # {}
      BY <2>2, <2>5, <3>2 DEF Published
    <3> QED BY <3>1, <3>2
  <2> QED BY <2>6, <2>7
<1> QED BY <1>2, <1>3

(* What a queue leaves is given by its last frame of that kind.            *)
LEMMA AfterLast ==
  ASSUME NEW S, NEW q \in Seq(S), NEW frames, NEW v
  PROVE  /\ (\A k \in DOMAIN q : q[k] \notin frames) => After(q, frames, v) = v
         /\ \A k \in DOMAIN q :
              q[k] \in frames /\ (\A y \in DOMAIN q : q[y] \in frames => y <= k)
                => After(q, frames, v) = q[k].value
         /\ \/ \A k \in DOMAIN q : q[k] \notin frames
            \/ \E k \in DOMAIN q :
                 q[k] \in frames /\ (\A y \in DOMAIN q : q[y] \in frames => y <= k)
<1> DEFINE hits == {k \in DOMAIN q : q[k] \in frames}
<1>1. DOMAIN q = 1..Len(q) /\ Len(q) \in Nat
  BY LenProperties
<1>2. After(q, frames, v) = IF hits = {} THEN v ELSE q[Max(hits)].value
  BY DEF After
<1>3. hits # {} => Max(hits) \in hits /\ \A y \in hits : y <= Max(hits)
  BY <1>1, MaxIsGreatest
<1>4. ASSUME NEW k \in DOMAIN q, q[k] \in frames, \A y \in DOMAIN q : q[y] \in frames => y <= k
      PROVE  hits # {} /\ Max(hits) = k
  <2>1. k \in hits /\ Max(hits) \in hits
    BY <1>3, <1>4
  <2>2. k <= Max(hits) /\ Max(hits) <= k
    BY <1>3, <1>4, <2>1
  <2>3. k \in Nat /\ Max(hits) \in Nat
    BY <1>1, <2>1
  <2> HIDE DEF hits
  <2> QED BY <2>1, <2>2, <2>3
<1>5. hits = {} <=> \A k \in DOMAIN q : q[k] \notin frames
  OBVIOUS
<1>6. hits # {} => \E k \in DOMAIN q :
                 q[k] \in frames /\ (\A y \in DOMAIN q : q[y] \in frames => y <= k)
  <2> SUFFICES ASSUME hits # {}
               PROVE  \E k \in DOMAIN q :
                 q[k] \in frames /\ (\A y \in DOMAIN q : q[y] \in frames => y <= k)
    OBVIOUS
  <2>1. Max(hits) \in DOMAIN q /\ q[Max(hits)] \in frames
    BY <1>3
  <2>2. \A y \in DOMAIN q : q[y] \in frames => y <= Max(hits)
    BY <1>3
  <2> QED BY <2>1, <2>2
<1> HIDE DEF hits
<1>7. hits = {} => After(q, frames, v) = v
  BY <1>2
<1>8. \A k \in DOMAIN q :
        q[k] \in frames /\ (\A y \in DOMAIN q : q[y] \in frames => y <= k)
          => After(q, frames, v) = q[k].value
  BY <1>2, <1>4
<1> QED BY <1>5, <1>6, <1>7, <1>8

(* A frame that comes last decides, another one makes no difference.       *)
LEMMA AfterAppend ==
  ASSUME NEW S, NEW q \in Seq(S), NEW f \in S, NEW frames, NEW v
  PROVE  After(Append(q, f), frames, v) = IF f \in frames THEN f.value ELSE After(q, frames, v)
<1> DEFINE u == Append(q, f)
           m == Len(u)
<1>1. /\ u \in Seq(S) /\ m = Len(q) + 1 /\ u[m] = f
      /\ DOMAIN u = DOMAIN q \cup {m} /\ m \notin DOMAIN q /\ m \in DOMAIN u
      /\ \A p \in DOMAIN q : u[p] = q[p]
      /\ DOMAIN q = 1..Len(q) /\ DOMAIN u = 1..m /\ Len(q) \in Nat /\ m \in Nat
  <2> DEFINE w == Append(q, f)
  <2>1. w = Append(q, f)
    OBVIOUS
  <2> HIDE DEF w
  <2>2. /\ w \in Seq(S) /\ Len(w) = Len(q) + 1 /\ w[Len(w)] = f
        /\ DOMAIN w = DOMAIN q \cup {Len(w)} /\ Len(w) \notin DOMAIN q /\ Len(w) \in DOMAIN w
        /\ \A p \in DOMAIN q : w[p] = q[p]
        /\ DOMAIN q = 1..Len(q) /\ DOMAIN w = 1..Len(w) /\ Len(q) \in Nat /\ Len(w) \in Nat
    BY <2>1, AppendSteps
  <2> QED BY <2>1, <2>2
<1> HIDE DEF u, m
<1>2. CASE f \in frames
  <2>1. \A y \in DOMAIN u : y <= m
    BY <1>1
  <2>2. After(u, frames, v) = u[m].value
    BY <1>1, <1>2, <2>1, AfterLast
  <2> QED BY <1>1, <1>2, <2>2 DEF u
<1>3. CASE f \notin frames
  <2>1. CASE \A k \in DOMAIN q : q[k] \notin frames
    <3>1. After(q, frames, v) = v
      BY <2>1, AfterLast
    <3>2. \A k \in DOMAIN u : u[k] \notin frames
      BY <1>1, <1>3, <2>1
    <3>3. After(u, frames, v) = v
      BY <1>1, <3>2, AfterLast
    <3> QED BY <1>3, <3>1, <3>3 DEF u
  <2>2. ASSUME NEW k \in DOMAIN q, q[k] \in frames,
               \A y \in DOMAIN q : q[y] \in frames => y <= k
        PROVE  After(u, frames, v) = After(q, frames, v)
    <3>1. After(q, frames, v) = q[k].value
      BY <2>2, AfterLast
    <3>2. k \in DOMAIN u /\ u[k] \in frames /\ \A y \in DOMAIN u : u[y] \in frames => y <= k
      BY <1>1, <1>3, <2>2
    <3>3. After(u, frames, v) = u[k].value
      BY <1>1, <3>2, AfterLast
    <3> QED BY <1>1, <3>1, <3>3
  <2> QED BY <1>3, <2>1, <2>2, AfterLast DEF u
<1> QED BY <1>2, <1>3

(* The frame that comes first counts before the others.                    *)
LEMMA AfterHead ==
  ASSUME NEW S, NEW q \in Seq(S), q # <<>>, NEW frames, NEW v
  PROVE  After(q, frames, v)
           = After(Tail(q), frames, IF Head(q) \in frames THEN Head(q).value ELSE v)
<1> DEFINE t == Tail(q)
           w == IF Head(q) \in frames THEN Head(q).value ELSE v
<1>1. /\ DOMAIN q = 1..Len(q) /\ Len(q) \in Nat \ {0} /\ Head(q) = q[1]
      /\ t \in Seq(S) /\ DOMAIN t = 1..(Len(q) - 1)
      /\ \A i \in 1..(Len(q) - 1) : t[i] = q[i + 1]
  BY HeadTailProperties, LenProperties, EmptySeq
<1> HIDE DEF t
<1>2. \A k \in DOMAIN q : k = 1 \/ (k - 1 \in DOMAIN t /\ t[k - 1] = q[k])
  BY <1>1
<1>3. \A k \in DOMAIN t : k + 1 \in DOMAIN q /\ t[k] = q[k + 1] /\ k \in Nat
  BY <1>1
<1>4. ASSUME \A k \in DOMAIN t : t[k] \notin frames
      PROVE  After(q, frames, v) = After(t, frames, w)
  <2>1. After(t, frames, w) = w
    BY <1>1, <1>4, AfterLast
  <2>2. CASE Head(q) \in frames
    <3>1. 1 \in DOMAIN q /\ q[1] \in frames /\ \A y \in DOMAIN q : q[y] \in frames => y <= 1
      <4>1. \A y \in DOMAIN q : q[y] \in frames => y = 1
        BY <1>2, <1>4
      <4> QED BY <1>1, <2>2, <4>1
    <3>2. After(q, frames, v) = q[1].value
      BY <3>1, AfterLast
    <3> QED BY <1>1, <2>1, <2>2, <3>2
  <2>3. CASE Head(q) \notin frames
    <3>1. \A k \in DOMAIN q : q[k] \notin frames
      BY <1>1, <1>2, <1>4, <2>3
    <3>2. After(q, frames, v) = v
      BY <3>1, AfterLast
    <3> QED BY <2>1, <2>3, <3>2
  <2> QED BY <2>2, <2>3
<1>5. ASSUME NEW k \in DOMAIN t, t[k] \in frames, \A y \in DOMAIN t : t[y] \in frames => y <= k
      PROVE  After(q, frames, v) = After(t, frames, w)
  <2> HIDE DEF w
  <2>1. After(t, frames, w) = t[k].value
    <3>1. t \in Seq(S)
      BY <1>1
    <3> QED BY ONLY <1>5, <3>1, AfterLast
  <2>2. k + 1 \in DOMAIN q /\ q[k + 1] \in frames
    BY <1>3, <1>5
  <2>3. ASSUME NEW y \in DOMAIN q, q[y] \in frames PROVE y <= k + 1
    <3>1. k \in Nat /\ y \in Nat
      BY <1>1, <1>3
    <3>2. CASE y = 1
      BY <3>1, <3>2
    <3>3. CASE y # 1
      <4>1. y - 1 <= k
        BY <1>2, <1>5, <2>3, <3>3
      <4> QED BY <3>1, <4>1
    <3> QED BY <3>2, <3>3
  <2>4. After(q, frames, v) = q[k + 1].value
    BY <2>2, <2>3, AfterLast
  <2> QED BY <1>3, <2>1, <2>4
<1> HIDE DEF w
<1>6. After(q, frames, v) = After(t, frames, w)
  <2>1. \/ \A k \in DOMAIN t : t[k] \notin frames
        \/ \E k \in DOMAIN t : t[k] \in frames /\ (\A y \in DOMAIN t : t[y] \in frames => y <= k)
    <3>1. t \in Seq(S)
      BY <1>1
    <3> QED BY ONLY <3>1, AfterLast
  <2> QED BY <1>4, <1>5, <2>1
<1> QED BY <1>6 DEF t, w

(* Frames that take the places of others of the same endpoint: they decide *)
(* for their device and make no difference to the others.                  *)
LEMMA AfterReplaced ==
  ASSUME NEW S, NEW q \in Seq(S), NEW W \in SUBSET DOMAIN q, NEW f \in S, NEW frames, NEW v,
         NEW r, r = [k \in DOMAIN q |-> IF k \in W THEN f ELSE q[k]]
  PROVE  /\ f \in frames /\ W # {} /\ (\A k \in DOMAIN q : q[k] \in frames => k \in W)
              => After(r, frames, v) = f.value
         /\ f \notin frames /\ (\A k \in W : q[k] \notin frames)
              => After(r, frames, v) = After(q, frames, v)
<1>1. DOMAIN r = DOMAIN q /\ DOMAIN q = 1..Len(q) /\ Len(q) \in Nat /\ \A k \in DOMAIN q : q[k] \in S
  BY LenProperties, ElementOfSeq
<1>2. r \in Seq(S)
  <2>1. r \in [1..Len(q) -> S]
    BY <1>1
  <2> DEFINE c == Len(q)
  <2>2. c \in Nat /\ r \in [1..c -> S]
    BY <1>1, <2>1
  <2> HIDE DEF c
  <2> QED BY <2>2
<1>3. ASSUME f \in frames, W # {}, \A k \in DOMAIN q : q[k] \in frames => k \in W
      PROVE  After(r, frames, v) = f.value
  <2>1. \A k \in DOMAIN r : r[k] \in frames => r[k] = f
    BY <1>1, <1>3
  <2>2. PICK k \in W : TRUE
    BY <1>3
  <2>3. k \in DOMAIN r /\ r[k] \in frames
    BY <1>1, <1>3, <2>2
  <2>4. PICK l \in DOMAIN r : r[l] \in frames /\ (\A y \in DOMAIN r : r[y] \in frames => y <= l)
    BY <1>2, <2>3, AfterLast
  <2>5. After(r, frames, v) = r[l].value
    BY <1>2, <2>4, AfterLast
  <2> QED BY <2>1, <2>4, <2>5
<1>4. ASSUME f \notin frames, \A k \in W : q[k] \notin frames
      PROVE  After(r, frames, v) = After(q, frames, v)
  <2>1. \A k \in DOMAIN q : (r[k] \in frames <=> q[k] \in frames) /\ (q[k] \in frames => r[k] = q[k])
    BY <1>1, <1>4
  <2>2. {k \in DOMAIN r : r[k] \in frames} = {k \in DOMAIN q : q[k] \in frames}
    BY <1>1, <2>1
  <2>3. CASE \A k \in DOMAIN q : q[k] \notin frames
    <3>1. \A k \in DOMAIN r : r[k] \notin frames
      BY <1>1, <2>1, <2>3
    <3>2. After(q, frames, v) = v
      BY <2>3, AfterLast
    <3>3. After(r, frames, v) = v
      BY <1>2, <3>1, AfterLast
    <3> QED BY <3>2, <3>3
  <2>4. ASSUME NEW k \in DOMAIN q, q[k] \in frames, \A y \in DOMAIN q : q[y] \in frames => y <= k
        PROVE  After(r, frames, v) = After(q, frames, v)
    <3>1. After(q, frames, v) = q[k].value
      BY <2>4, AfterLast
    <3>2. k \in DOMAIN r /\ r[k] \in frames /\ \A y \in DOMAIN r : r[y] \in frames => y <= k
      BY <1>1, <2>1, <2>4
    <3>3. After(r, frames, v) = r[k].value
      BY <1>2, <3>2, AfterLast
    <3> QED BY <2>1, <2>4, <3>1, <3>3
  <2> QED BY <2>3, <2>4, AfterLast
<1> QED BY <1>3, <1>4

-----------------------------------------------------------------------------
(* What a step of a node shows of its devices                              *)

\* Device j of node m is the only one that publishes under its endpoint.
Sole(m, j) == j \in Devices(m) /\ Publishers(m, layout[m][j].endpoint) = {j}

Speaks(l, j) == l.value[j] # Unset /\ j \notin l.dirty \cup l.mute

\* Whoever receives the frames that wait in l will show the state of j.
Tells(m, j, l) ==
  Speaks(l, j) => \A v : After(l.states, From(<<m, j>>), v) = l.value[j]

\* From l to u nothing has changed for those who watch j.
Stays(m, j, l, u) ==
  /\ u.value[j] = l.value[j] /\ (Speaks(u, j) => Speaks(l, j))
  /\ \A v : After(u.states, From(<<m, j>>), v) = After(l.states, From(<<m, j>>), v)
  /\ \A f \in Range(u.states) : f.endpoint = layout[m][j].endpoint => f \in Range(l.states)

Shown(m, l, u) == \A j : Sole(m, j) => Tells(m, j, u) \/ Stays(m, j, l, u)

(* Two steps that show what they change show it together.                  *)
LEMMA ShownTransitive ==
  ASSUME NEW m, NEW l, NEW u, NEW w, Shown(m, l, u), Shown(m, u, w)
  PROVE  Shown(m, l, w)
<1> SUFFICES ASSUME NEW j, Sole(m, j), ~Tells(m, j, w) PROVE Stays(m, j, l, w)
  BY DEF Shown
<1>1. Stays(m, j, u, w)
  BY DEF Shown
<1>2. ~Tells(m, j, u)
  BY <1>1 DEF Stays, Tells
<1>3. Stays(m, j, l, u)
  BY <1>2 DEF Shown
<1> QED BY <1>1, <1>3 DEF Stays

(* A step that leaves states and queue alone has nothing to show.          *)
LEMMA StaysSame ==
  ASSUME NEW m, NEW l, NEW u, u.value = l.value, u.dirty = l.dirty, u.mute = l.mute,
         u.states = l.states
  PROVE  Shown(m, l, u)
BY DEF Shown, Stays, Speaks

\* A frame of a node is one of device j if it bears its endpoint.
LEMMA FramesOf ==
  ASSUME Installed, NEW n \in Nodes, NEW j \in Devices(n), NEW f \in StateFrames(n)
  PROVE  /\ f \in From(<<n, j>>) <=> f.endpoint = layout[n][j].endpoint
         /\ f.value \in {Off, On} /\ f \in Frame /\ f.kind = "state" /\ f.source = n
<1>1. /\ f \in [kind : {"state"}, source : {n}, endpoint : Nat, value : {Off, On}]
  BY DEF StateFrames
<1>2. f \in Frame
  BY <1>1 DEF Frame
<1>3. <<n, j>>[1] = n /\ <<n, j>>[2] = j
  OBVIOUS
<1> QED BY <1>1, <1>2, <1>3 DEF From, Declared

\* A published state decides what others will show of its device.
LEMMA PublishShows ==
  ASSUME Installed, NEW n \in Nodes, NEW l \in Locals(n), NEW i \in Devices(n),
         Kind(n, i) # "button", NEW v \in {Off, On}, NEW u, u = Publish(n, l, i, v),
         NEW j, Sole(n, j)
  PROVE  /\ i = j /\ l.value[i] = v => Tells(n, j, u)
         /\ i # j => Stays(n, j, l, u)
<1> DEFINE p == layout[n][i].endpoint
           f == State(n, p, v)
           q == l.states
           r == u.states
           W == Waiting(l, p)
           F == From(<<n, j>>)
           S == StateFrames(n)
<1>1. /\ u \in Locals(n)
      /\ u.value = l.value /\ u.dirty = l.dirty /\ u.events = l.events
      /\ \/ u.mute = l.mute \cup {i} /\ r = q
         \/ /\ u.mute = l.mute \ {i} /\ f \in S
            /\ \/ W = {} /\ r = Append(q, f)
               \/ W # {} /\ r = [k \in DOMAIN q |-> IF k \in W THEN f ELSE q[k]]
  <2>1. u \in Locals(n) /\ Published(n, i, v, l, u)
    BY PublishSteps
  <2> QED BY <2>1 DEF Published
<1>2. /\ q \in Seq(S) /\ DOMAIN q = 1..Len(q) /\ Len(q) \in Nat /\ \A k \in DOMAIN q : q[k] \in S
      /\ W \in SUBSET DOMAIN q
  <2>1. q \in Seq(S)
    BY DEF Locals, LocalType
  <2>2. W \in SUBSET DOMAIN q
    BY DEF Waiting
  <2> QED BY <2>1, <2>2, LenProperties, ElementOfSeq
<1>3. f.value = v /\ f.endpoint = p
  BY DEF State
<1>4. \A g \in S : g \in F <=> g.endpoint = layout[n][j].endpoint
  BY FramesOf DEF Sole
<1>5. i # j => p # layout[n][j].endpoint
  BY DEF Sole, Publishers
<1>6. \A k \in DOMAIN q : k \in W <=> q[k].endpoint = p
  BY DEF Waiting
<1> HIDE DEF W, F, S, f, q, r
<1>7. CASE u.mute = l.mute \cup {i} /\ r = q
  <2>1. i = j => ~Speaks(u, j)
    BY <1>7 DEF Speaks
  <2>2. i # j => Stays(n, j, l, u)
    BY <1>1, <1>7 DEF Stays, Speaks, q, r
  <2> QED BY <2>1, <2>2 DEF Tells
<1>8. CASE /\ u.mute = l.mute \ {i} /\ f \in S
           /\ W = {} /\ r = Append(q, f)
  <2>1. \A x : After(r, F, x) = IF f \in F THEN v ELSE After(q, F, x)
    BY <1>2, <1>3, <1>8, AfterAppend
  <2>2. f \in F <=> i = j
    BY <1>3, <1>4, <1>5, <1>8
  <2>3. i = j /\ l.value[i] = v => Tells(n, j, u)
    BY <1>1, <2>1, <2>2 DEF Tells, r, F
  <2>4. ASSUME i # j PROVE Stays(n, j, l, u)
    <3>1. \A g \in Range(r) : g \in Range(q) \/ g = f
      BY <1>2, <1>8, RangeAppend
    <3>2. \A g \in Range(r) : g.endpoint = layout[n][j].endpoint => g \in Range(q)
      BY <1>3, <1>5, <2>4, <3>1
    <3>3. \A x : After(r, F, x) = After(q, F, x)
      BY <2>1, <2>2, <2>4
    <3> QED BY <1>1, <1>8, <2>4, <3>2, <3>3 DEF Stays, Speaks, q, r, F
  <2> QED BY <2>3, <2>4
<1>9. CASE /\ u.mute = l.mute \ {i} /\ f \in S
           /\ W # {} /\ r = [k \in DOMAIN q |-> IF k \in W THEN f ELSE q[k]]
  <2>1. /\ f \in F /\ (\A k \in DOMAIN q : q[k] \in F => k \in W) => \A x : After(r, F, x) = v
        /\ f \notin F /\ (\A k \in W : q[k] \notin F) => \A x : After(r, F, x) = After(q, F, x)
    <3>1. q \in Seq(S) /\ W \in SUBSET DOMAIN q /\ f \in S
          /\ r = [k \in DOMAIN q |-> IF k \in W THEN f ELSE q[k]]
      BY <1>2, <1>9
    <3>2. ASSUME NEW x
          PROVE  /\ f \in F /\ W # {} /\ (\A k \in DOMAIN q : q[k] \in F => k \in W)
                      => After(r, F, x) = f.value
                 /\ f \notin F /\ (\A k \in W : q[k] \notin F)
                      => After(r, F, x) = After(q, F, x)
      BY ONLY <3>1, AfterReplaced
    <3> QED BY <1>3, <1>9, <3>2
  <2>2. f \in F <=> i = j
    BY <1>3, <1>4, <1>5, <1>9
  <2>3. i = j /\ l.value[i] = v => Tells(n, j, u)
    <3> SUFFICES ASSUME i = j, l.value[i] = v PROVE Tells(n, j, u)
      OBVIOUS
    <3>1. \A k \in DOMAIN q : q[k] \in F => k \in W
      BY <1>2, <1>4, <1>6
    <3> QED BY <1>1, <2>1, <2>2, <3>1 DEF Tells, r, F
  <2>4. ASSUME i # j PROVE Stays(n, j, l, u)
    <3>1. \A k \in W : q[k] \notin F
      BY <1>2, <1>4, <1>5, <1>6, <2>4
    <3>2. \A g \in Range(r) : g.endpoint = layout[n][j].endpoint => g \in Range(q)
      BY <1>3, <1>5, <1>9, <2>4 DEF Range
    <3>3. \A x : After(r, F, x) = After(q, F, x)
      BY <2>1, <2>2, <2>4, <3>1
    <3> QED BY <1>1, <1>9, <2>4, <3>2, <3>3 DEF Stays, Speaks, q, r, F
  <2> QED BY <2>3, <2>4
<1> QED BY <1>1, <1>7, <1>8, <1>9

(* The parts of a node's state and their types.                            *)
LEMMA LocalParts ==
  ASSUME NEW n, NEW l \in Locals(n)
  PROVE  /\ l \in LocalType(n)
         /\ l.value \in [Devices(n) -> {Off, On, Unset}]
         /\ l.dirty \in SUBSET Lights(layout[n]) /\ l.mute \in SUBSET Devices(n)
         /\ l.states \in Seq(StateFrames(n)) /\ l.events \in Seq(EventFrames(n))
         /\ Len(l.states) <= QueueSize /\ Len(l.events) <= QueueSize
         /\ \A i \in Lights(layout[n]) : l.value[i] # Unset
BY DEF Locals, LocalType

\* The only device that has changed its state is i, which shows v now.
Effect(n, i, v, l, u) ==
  /\ u \in Locals(n) /\ u.value = [l.value EXCEPT ![i] = v] /\ u.events = l.events
  /\ Shown(n, l, u)

Showing(l, i, v) == [l EXCEPT !.value[i] = v]

ShownBy(n, i, v, l, u) ==
  /\ u.value = [l.value EXCEPT ![i] = v] /\ u.value[i] = v
  /\ u.dirty = l.dirty /\ u.mute = l.mute /\ u.states = l.states /\ u.events = l.events
  /\ \A j \in Devices(n) : j # i => u.value[j] = l.value[j]

(* A device of a node may take any state.                                  *)
LEMMA SetValueType ==
  ASSUME NEW n, NEW l \in Locals(n), NEW i \in Devices(n), NEW v \in {Off, On},
         NEW u, u = Showing(l, i, v)
  PROVE  u \in Locals(n) /\ ShownBy(n, i, v, l, u)
<1>1. l \in LocalType(n) /\ l.value \in [Devices(n) -> {Off, On, Unset}]
  BY LocalParts
<1>2. [l.value EXCEPT ![i] = v] \in [Devices(n) -> {Off, On, Unset}]
  BY <1>1
<1>3. /\ u.value = [l.value EXCEPT ![i] = v] /\ u \in LocalType(n)
      /\ u.dirty = l.dirty /\ u.mute = l.mute /\ u.states = l.states /\ u.events = l.events
  BY <1>1, <1>2 DEF LocalType, Showing
<1>4. u.value[i] = v /\ \A j \in Devices(n) : j # i => u.value[j] = l.value[j]
  BY <1>1, <1>3
<1>5. \A j \in Lights(layout[n]) : u.value[j] # Unset
  <2>1. v # Unset
    BY DEF Off, On, Unset
  <2>2. \A j \in Lights(layout[n]) : j \in Devices(n)
    BY DEF Lights, Devices
  <2> QED BY <1>4, <2>1, <2>2, LocalParts
<1>6. Len(u.states) <= QueueSize /\ Len(u.events) <= QueueSize
  BY <1>3, LocalParts
<1>7. u \in Locals(n)
  BY <1>3, <1>5, <1>6 DEF Locals
<1> QED BY <1>3, <1>4, <1>7 DEF ShownBy

(* HacanSwitch::apply_state changes one device and shows it.               *)
LEMMA ApplyStateEffect ==
  ASSUME Installed, NEW n \in Nodes, NEW l \in Locals(n), NEW i \in Devices(n),
         Kind(n, i) # "button", NEW v \in {Off, On}
  PROVE  Effect(n, i, v, l, ApplyState(n, l, i, v))
<1>1. CASE l.value[i] = v
  <2>1. ApplyState(n, l, i, v) = l
    BY <1>1 DEF ApplyState
  <2>2. l.value = [l.value EXCEPT ![i] = v]
    BY <1>1, LocalParts
  <2>3. Shown(n, l, l)
    BY StaysSame
  <2> QED BY <2>1, <2>2, <2>3 DEF Effect
<1>2. CASE l.value[i] # v
  <2> DEFINE k == Showing(l, i, v)
             u == Publish(n, k, i, v)
  <2>1. ApplyState(n, l, i, v) = u
    BY <1>2 DEF ApplyState, Showing
  <2>2. /\ k \in Locals(n) /\ k.value = [l.value EXCEPT ![i] = v] /\ k.value[i] = v
        /\ k.dirty = l.dirty /\ k.mute = l.mute /\ k.states = l.states /\ k.events = l.events
        /\ \A j \in Devices(n) : j # i => k.value[j] = l.value[j]
    <3>1. k \in Locals(n) /\ ShownBy(n, i, v, l, k)
      BY SetValueType
    <3> HIDE DEF k
    <3> QED BY <3>1 DEF ShownBy
  <2> HIDE DEF k
  <2>3. u \in Locals(n) /\ Published(n, i, v, k, u)
    <3>1. k \in Locals(n) /\ u = Publish(n, k, i, v)
      BY <2>2
    <3> HIDE DEF u
    <3> QED BY <3>1, PublishSteps
  <2>4. u.value = k.value /\ u.events = k.events
    BY <2>3 DEF Published
  <2>5. ASSUME NEW j, Sole(n, j) PROVE Tells(n, j, u) \/ Stays(n, j, l, u)
    <3>1. i = j => Tells(n, j, u)
      BY <2>2, <2>5, PublishShows
    <3>2. i # j => Stays(n, j, k, u)
      BY <2>2, <2>5, PublishShows
    <3>3. i # j /\ Stays(n, j, k, u) => Stays(n, j, l, u)
      BY <2>2, <2>5 DEF Stays, Speaks, Sole
    <3> QED BY <3>1, <3>2, <3>3
  <2> HIDE DEF u
  <2> QED BY <2>1, <2>2, <2>3, <2>4, <2>5 DEF Effect, Shown
<1> QED BY <1>1, <1>2

(* A light call changes one device, whose output is still to be written.   *)
LEMMA PerformCallEffect ==
  ASSUME Installed, NEW n \in Nodes, NEW l \in Locals(n), NEW i \in Devices(n),
         Kind(n, i) = "light", NEW v \in {Off, On}
  PROVE  Effect(n, i, v, l, PerformCall(l, i, v))
<1> DEFINE k == Showing(l, i, v)
           u == PerformCall(l, i, v)
<1>1. /\ k \in Locals(n) /\ k.value = [l.value EXCEPT ![i] = v] /\ k.value[i] = v
      /\ k.dirty = l.dirty /\ k.mute = l.mute /\ k.states = l.states /\ k.events = l.events
      /\ \A j \in Devices(n) : j # i => k.value[j] = l.value[j]
  <2>1. k \in Locals(n) /\ ShownBy(n, i, v, l, k)
    BY SetValueType
  <2> HIDE DEF k
  <2> QED BY <2>1 DEF ShownBy
<1>2. u = [l EXCEPT !.value = [l.value EXCEPT ![i] = v], !.dirty = l.dirty \cup {i}]
  <2>1. l \in LocalType(n)
    BY LocalParts
  <2>2. u = [l EXCEPT !.value[i] = v, !.dirty = @ \cup {i}]
    BY DEF PerformCall
  <2> HIDE DEF u
  <2> QED BY <2>1, <2>2 DEF LocalType
<1>3. i \in Lights(layout[n])
  BY DeviceType
<1>4. /\ u \in LocalType(n) /\ u.value = [l.value EXCEPT ![i] = v] /\ u.dirty = l.dirty \cup {i}
      /\ u.mute = l.mute /\ u.states = l.states /\ u.events = l.events
  <2>1. l \in LocalType(n)
    BY LocalParts
  <2>2. [l.value EXCEPT ![i] = v] \in [Devices(n) -> {Off, On, Unset}]
    BY LocalParts
  <2> HIDE DEF u
  <2> QED BY <1>2, <1>3, <2>1, <2>2 DEF LocalType
<1> HIDE DEF u, k
<1>5. u \in Locals(n)
  BY <1>1, <1>4, LocalParts DEF Locals
<1>6. ASSUME NEW j, Sole(n, j) PROVE Tells(n, j, u) \/ Stays(n, j, l, u)
  <2>1. j = i => Tells(n, j, u)
    BY <1>4 DEF Tells, Speaks
  <2>2. j # i => Stays(n, j, l, u)
    <3>1. j # i => u.value[j] = l.value[j]
      BY <1>1, <1>4, <1>6 DEF Sole
    <3> QED BY <1>4, <3>1 DEF Stays, Speaks
  <2> QED BY <2>1, <2>2
<1> QED BY <1>4, <1>5, <1>6 DEF Effect, Shown, u

(* The same for either kind of device.                                     *)
LEMMA SetEffect ==
  ASSUME Installed, NEW n \in Nodes, NEW l \in Locals(n), NEW i \in Devices(n),
         Kind(n, i) \in {"switch", "light"}, NEW v \in {Off, On}
  PROVE  Effect(n, i, v, l, Set(n, l, i, v))
BY ApplyStateEffect, PerformCallEffect DEF Set

\* The state of a device after an action.
Wanted(action, v) ==
  CASE action = "toggle" -> Toggled(v) [] action = "turn_on" -> On [] action = "turn_off" -> Off

(* An event action changes one device, to what the action wants.           *)
LEMMA ActionEffect ==
  ASSUME Installed, NEW n \in Nodes, NEW l \in Locals(n), NEW i \in Devices(n),
         Kind(n, i) \in {"switch", "light"}, NEW action \in {"toggle", "turn_on", "turn_off"}
  PROVE  /\ Wanted(action, l.value[i]) \in {Off, On}
         /\ Effect(n, i, Wanted(action, l.value[i]), l, ApplyEventAction(n, l, i, action))
<1> DEFINE v == Wanted(action, l.value[i])
<1>1. v \in {Off, On}
  BY DEF Wanted, Toggled
<1>2. ApplyEventAction(n, l, i, action) = Set(n, l, i, v)
  BY DEF ApplyEventAction, Wanted
<1> HIDE DEF v
<1>3. Effect(n, i, v, l, Set(n, l, i, v))
  BY <1>1, SetEffect
<1> QED BY <1>1, <1>2, <1>3 DEF v

-----------------------------------------------------------------------------
(* What the listeners of a node do with a frame                            *)

(* A state listener belongs to a switch with that source.                  *)
LEMMA StateListenerDevice ==
  ASSUME Installed, NEW n \in Nodes, NEW x \in Range(tables[n].states)
  PROVE  /\ x.device \in Devices(n) /\ Kind(n, x.device) = "switch"
         /\ layout[n][x.device].source = x.entity /\ x.entity # NoEntity
         /\ x = StateListener(layout[n], x.device)
BY DEF Installed, Wired, Devices, Kind

(* An event listener belongs to a binding of a switch or a light.          *)
LEMMA EventListenerDevice ==
  ASSUME Installed, NEW n \in Nodes, NEW x \in Range(tables[n].events),
         NEW b, b = layout[n][x.device].bindings[x.binding]
  PROVE  /\ x.device \in Devices(n) /\ Kind(n, x.device) \in {"switch", "light"}
         /\ x.binding \in DOMAIN layout[n][x.device].bindings
         /\ b \in Binding /\ b.entity = x.entity /\ x.entity # NoEntity
         /\ x = EventListeners(layout[n], x.device)[x.binding]
<1>1. /\ x.device \in Devices(n) /\ TakesCommands(layout[n][x.device])
      /\ x.binding \in DOMAIN layout[n][x.device].bindings
      /\ b.entity = x.entity /\ x.entity # NoEntity
      /\ x = EventListeners(layout[n], x.device)[x.binding]
  BY DEF Installed, Wired, Devices
<1>2. layout[n][x.device].bindings \in Seq(Binding) /\ Kind(n, x.device) \in {"switch", "light"}
  BY <1>1, DeviceType
<1>3. b \in Binding
  <2> DEFINE bs == layout[n][x.device].bindings
  <2>1. bs \in Seq(Binding) /\ x.binding \in DOMAIN bs
    BY <1>1, <1>2
  <2> HIDE DEF bs
  <2>2. bs[x.binding] \in Binding
    BY <2>1, LenProperties, ElementOfSeq
  <2> QED BY <2>2 DEF bs
<1> QED BY <1>1, <1>2, <1>3

HeardState(n, f, x, l, u) ==
  \/ ~Listens(n, f, x) /\ u = l
  \/ Listens(n, f, x) /\ Effect(n, x.device, f.value, l, u)

(* What one state listener does with a state frame.                        *)
LEMMA HearStateEffect ==
  ASSUME Installed, NEW n \in Nodes, NEW l \in Locals(n), NEW x \in Range(tables[n].states),
         NEW f, f.value \in {Off, On}
  PROVE  HeardState(n, f, x, l, HearState(n, f, l, x))
<1>1. x.device \in Devices(n) /\ Kind(n, x.device) # "button"
  BY StateListenerDevice
<1> QED BY <1>1, ApplyStateEffect DEF HearState, HeardState

\* The listener x reacts to the event f.
Reacts(n, f, x) ==
  Listens(n, f, x) /\ layout[n][x.device].bindings[x.binding].gesture = f.gesture

\* What the listener x makes of the value v of its device.
Reaction(n, x, v) == Wanted(layout[n][x.device].bindings[x.binding].action, v)

HeardEvent(n, f, x, l, u) ==
  \/ ~Reacts(n, f, x) /\ u = l
  \/ Reacts(n, f, x) /\ Effect(n, x.device, Reaction(n, x, l.value[x.device]), l, u)

(* What one event listener does with an event frame.                       *)
LEMMA HearEventEffect ==
  ASSUME Installed, NEW n \in Nodes, NEW l \in Locals(n), NEW x \in Range(tables[n].events), NEW f
  PROVE  HeardEvent(n, f, x, l, HearEvent(n, f, l, x))
<1> DEFINE b == layout[n][x.device].bindings[x.binding]
<1>1. /\ x.device \in Devices(n) /\ Kind(n, x.device) \in {"switch", "light"}
      /\ b.action \in {"toggle", "turn_on", "turn_off"}
  BY EventListenerDevice DEF Binding
<1> HIDE DEF b
<1>2. Effect(n, x.device, Wanted(b.action, l.value[x.device]), l,
             ApplyEventAction(n, l, x.device, b.action))
  BY <1>1, ActionEffect
<1> QED BY <1>2 DEF HearEvent, HeardEvent, Reacts, Reaction, b

\* Device i of node n hears the state in f.
Heard(n, f, i) == \E x \in Range(tables[n].states) : x.device = i /\ Listens(n, f, x)

\* The listeners of node n have handled the state frame f, and l has become u.
MirroredTo(n, f, l, u) ==
  /\ u \in Locals(n) /\ u.events = l.events /\ Shown(n, l, u)
  /\ \A i \in Devices(n) : u.value[i] = IF Heard(n, f, i) THEN f.value ELSE l.value[i]

(* The loop over the state listeners in handle: the devices that hear the  *)
(* frame show its value, the others keep theirs.                           *)
LEMMA MirroredSteps ==
  ASSUME Installed, NEW n \in Nodes, local[n] \in Locals(n), NEW f, f.value \in {Off, On}
  PROVE  MirroredTo(n, f, local[n], Mirrored(n, f))
<1> DEFINE t == tables[n].states
           X == Range(t)
           c == Len(t)
           base == local[n]
           R == Locals(n)
           u == Mirrored(n, f)
<1>1. t \in Seq(X) /\ DOMAIN t = 1..c /\ c \in Nat
  <2>1. t \in Seq(StateSlot)
    BY DEF Installed, Wired, RuntimeTables
  <2> HIDE DEF t
  <2> QED BY <2>1, OverItsRange
<1>2. u = AllHearState(n, f, base, t)
  BY DEF Mirrored, AllHearState
<1>3. AllHearStateIn(n, f, R, X)
  <2> SUFFICES ASSUME NEW l \in R, NEW x \in X PROVE HearState(n, f, l, x) \in R
    BY DEF AllHearStateIn
  <2>1. HeardState(n, f, x, l, HearState(n, f, l, x))
    BY HearStateEffect
  <2> QED BY <2>1 DEF HeardState, Effect
<1>4. PICK h \in [0..c -> R] :
        /\ h[0] = base /\ h[c] = u
        /\ \A k \in 1..c : h[k] = HearState(n, f, h[k - 1], t[k])
  <2> HIDE DEF t, X, R, u, base
  <2>1. \E h \in [0..Len(t) -> R] : AllHearStateVia(n, f, h, base, t)
    BY <1>1, <1>3, HearStateSteps DEF R, base
  <2> QED BY <1>2, <2>1 DEF AllHearStateVia
<1> DEFINE Told(i, k) == \E p \in 1..k : t[p].device = i /\ Listens(n, f, t[p])
           OK(k) == /\ h[k].events = base.events /\ Shown(n, base, h[k])
                    /\ \A i \in Devices(n) :
                         h[k].value[i] = IF Told(i, k) THEN f.value ELSE base.value[i]
           B == {k \in 0..c : OK(k)}
<1> HIDE DEF t, X, c, R, u
<1>5. 0 \in B
  <2>1. 1..0 = {} /\ 0 \in 0..c
    BY <1>1
  <2>2. Shown(n, base, base)
    BY StaysSame
  <2> QED BY <1>4, <2>1, <2>2
<1>6. ASSUME NEW k \in 1..c, k - 1 \in B PROVE k \in B
  <2> DEFINE l == h[k - 1]
             w == h[k]
             x == t[k]
  <2>1. /\ l \in Locals(n) /\ x \in Range(tables[n].states) /\ w = HearState(n, f, l, x)
        /\ k \in 0..c /\ OK(k - 1)
    <3>1. k \in 0..c /\ k - 1 \in 0..c /\ k \in DOMAIN t
      BY <1>1
    <3>2. t[k] \in Range(t)
      BY <3>1 DEF Range
    <3> QED BY <1>4, <1>6, <3>1, <3>2 DEF t, R
  <2>2. 1..k = (1..(k - 1)) \cup {k}
    BY <1>1
  <2>3. \A i : Told(i, k) <=> Told(i, k - 1) \/ (x.device = i /\ Listens(n, f, x))
    BY <2>2
  <2> HIDE DEF l, w, x, Told
  <2>4. CASE ~Listens(n, f, x) /\ w = l
    BY <2>1, <2>3, <2>4 DEF l, w
  <2>5. CASE Listens(n, f, x) /\ Effect(n, x.device, f.value, l, w)
    <3>1. /\ w.value = [l.value EXCEPT ![x.device] = f.value] /\ w.events = l.events /\ Shown(n, l, w)
      BY <2>5 DEF Effect
    <3>2. Shown(n, base, w)
      BY <2>1, <3>1, ShownTransitive DEF l
    <3>3. l.value \in [Devices(n) -> {Off, On, Unset}]
      BY <2>1, LocalParts
    <3>4. ASSUME NEW i \in Devices(n)
          PROVE  w.value[i] = IF Told(i, k) THEN f.value ELSE base.value[i]
      <4>1. w.value[i] = IF i = x.device THEN f.value ELSE l.value[i]
        BY <3>1, <3>3
      <4>2. l.value[i] = IF Told(i, k - 1) THEN f.value ELSE base.value[i]
        BY <2>1 DEF l
      <4> QED BY <2>3, <2>5, <4>1, <4>2
    <3> QED BY <2>1, <3>1, <3>2, <3>4 DEF l, w
  <2>6. \/ ~Listens(n, f, x) /\ w = l
        \/ Listens(n, f, x) /\ Effect(n, x.device, f.value, l, w)
    <3>1. HeardState(n, f, x, l, w)
      BY <2>1, HearStateEffect
    <3> QED BY <3>1 DEF HeardState
  <2> QED BY <2>4, <2>5, <2>6
<1> HIDE DEF B, OK
<1>7. c \in B /\ c \in 0..c
  <2>1. \A k \in 0..c : k \in B
    BY <1>1, <1>5, <1>6, CountUp
  <2> QED BY <1>1, <2>1
<1>8. OK(c) /\ u \in Locals(n)
  BY <1>4, <1>7 DEF B, R
<1>9. \A i : Told(i, c) <=> Heard(n, f, i)
  BY <1>1 DEF Heard, Range, t
<1> HIDE DEF Told
<1>10. /\ u.events = base.events /\ Shown(n, base, u)
       /\ \A i \in Devices(n) : u.value[i] = IF Heard(n, f, i) THEN f.value ELSE base.value[i]
  BY <1>4, <1>8, <1>9 DEF OK
<1> QED BY <1>8, <1>10 DEF MirroredTo, u

(* The listeners of node n have handled the event f, and l has become u: a *)
(* device has kept its state if none of its listeners reacts, and a device *)
(* with one listener only has done what that one wants.                    *)
ActedTo(n, f, l, u) ==
  /\ u \in Locals(n) /\ u.events = l.events /\ Shown(n, l, u)
  /\ \A i \in Devices(n) :
       /\ (\A x \in Range(tables[n].events) : x.device = i => ~Reacts(n, f, x))
            => u.value[i] = l.value[i]
       /\ \A x \in Range(tables[n].events) :
            /\ x.device = i /\ Reacts(n, f, x)
            /\ \A y \in Range(tables[n].events) : y.device = i => y = x
            => u.value[i] = Reaction(n, x, l.value[i])

(* The loop over the event listeners in handle.                            *)
LEMMA ActedSteps ==
  ASSUME Installed, NEW n \in Nodes, local[n] \in Locals(n), NEW f
  PROVE  ActedTo(n, f, local[n], Acted(n, f))
<1> DEFINE t == tables[n].events
           X == Range(t)
           c == Len(t)
           base == local[n]
           R == Locals(n)
           u == Acted(n, f)
<1>1. /\ t \in Seq(X) /\ DOMAIN t = 1..c /\ c \in Nat
      /\ \A k, p \in DOMAIN t : k # p => t[k] # t[p]
  <2>1. t \in Seq(EventSlot) /\ \A k, p \in DOMAIN t : k # p => t[k] # t[p]
    BY DEF Installed, Wired, RuntimeTables
  <2> HIDE DEF t
  <2> QED BY <2>1, OverItsRange
<1>2. u = AllHearEvent(n, f, base, t)
  BY DEF Acted, AllHearEvent
<1>3. AllHearEventIn(n, f, R, X)
  <2> SUFFICES ASSUME NEW l \in R, NEW x \in X PROVE HearEvent(n, f, l, x) \in R
    BY DEF AllHearEventIn
  <2>1. HeardEvent(n, f, x, l, HearEvent(n, f, l, x))
    BY HearEventEffect
  <2> QED BY <2>1 DEF HeardEvent, Effect
<1>4. PICK h \in [0..c -> R] :
        /\ h[0] = base /\ h[c] = u
        /\ \A k \in 1..c : h[k] = HearEvent(n, f, h[k - 1], t[k])
  <2> HIDE DEF t, X, R, u, base
  <2>1. \E h \in [0..Len(t) -> R] : AllHearEventVia(n, f, h, base, t)
    BY <1>1, <1>3, HearEventSteps DEF R, base
  <2> QED BY <1>2, <2>1 DEF AllHearEventVia
<1> DEFINE Struck(i, k) == {p \in 1..k : t[p].device = i /\ Reacts(n, f, t[p])}
           Done(i, k) ==
             /\ Struck(i, k) = {} => h[k].value[i] = base.value[i]
             /\ \A p : Struck(i, k) = {p} => h[k].value[i] = Reaction(n, t[p], base.value[i])
           OK(k) == /\ h[k].events = base.events /\ Shown(n, base, h[k])
                    /\ \A i \in Devices(n) : Done(i, k)
           B == {k \in 0..c : OK(k)}
<1> HIDE DEF t, X, c, R, u
<1>5. 0 \in B
  <2>1. 1..0 = {} /\ 0 \in 0..c
    BY <1>1
  <2>2. Shown(n, base, base)
    BY StaysSame
  <2>3. \A i : Struck(i, 0) = {}
    BY <2>1
  <2> HIDE DEF Struck
  <2> QED BY <1>4, <2>1, <2>2, <2>3
<1>6. ASSUME NEW k \in 1..c, k - 1 \in B PROVE k \in B
  <2> DEFINE l == h[k - 1]
             w == h[k]
             x == t[k]
  <2>1. /\ l \in Locals(n) /\ x \in Range(tables[n].events) /\ w = HearEvent(n, f, l, x)
        /\ k \in 0..c /\ OK(k - 1)
    <3>1. k \in 0..c /\ k - 1 \in 0..c /\ k \in DOMAIN t
      BY <1>1
    <3>2. t[k] \in Range(t)
      BY <3>1 DEF Range
    <3> QED BY <1>4, <1>6, <3>1, <3>2 DEF t, R
  <2>2. 1..k = (1..(k - 1)) \cup {k} /\ k \notin 1..(k - 1)
    BY <1>1
  <2>3. /\ \A i : Struck(i, k) = IF x.device = i /\ Reacts(n, f, x) THEN Struck(i, k - 1) \cup {k}
                               ELSE Struck(i, k - 1)
        /\ \A i : k \notin Struck(i, k - 1)
    BY <2>2
  <2> HIDE DEF l, w, x, Struck
  <2>4. CASE ~Reacts(n, f, x) /\ w = l
    BY <2>1, <2>3, <2>4 DEF l, w
  <2>5. CASE Reacts(n, f, x) /\ Effect(n, x.device, Reaction(n, x, l.value[x.device]), l, w)
    <3> DEFINE v == Reaction(n, x, l.value[x.device])
    <3>1. /\ w.value = [l.value EXCEPT ![x.device] = v] /\ w.events = l.events /\ Shown(n, l, w)
      BY <2>5 DEF Effect
    <3> HIDE DEF v
    <3>2. Shown(n, base, w)
      BY <2>1, <3>1, ShownTransitive DEF l
    <3>3. l.value \in [Devices(n) -> {Off, On, Unset}]
      BY <2>1, LocalParts
    <3>4. ASSUME NEW i \in Devices(n) PROVE Done(i, k)
      <4>1. w.value[i] = IF i = x.device THEN v ELSE l.value[i]
        BY <3>1, <3>3
      <4>2. CASE i # x.device
        <5>1. Struck(i, k) = Struck(i, k - 1) /\ Done(i, k - 1)
          BY <2>1, <2>3, <4>2
        <5> QED BY <4>1, <4>2, <5>1 DEF l, w
      <4>3. CASE i = x.device
        <5>1. Struck(i, k) = Struck(i, k - 1) \cup {k} /\ k \notin Struck(i, k - 1) /\ Done(i, k - 1)
          BY <2>1, <2>3, <2>5, <4>3
        <5>2. Struck(i, k) # {}
          BY <5>1
        <5>3. ASSUME NEW p, Struck(i, k) = {p} PROVE h[k].value[i] = Reaction(n, t[p], base.value[i])
          <6>1. p = k /\ Struck(i, k - 1) = {}
            BY <5>1, <5>3
          <6>2. l.value[i] = base.value[i]
            BY <5>1, <6>1 DEF l
          <6> QED BY <4>1, <4>3, <6>1, <6>2 DEF v, w, x
        <5> QED BY <5>2, <5>3
      <4> QED BY <4>2, <4>3
    <3> HIDE DEF Done
    <3> QED BY <2>1, <3>1, <3>2, <3>4 DEF l, w
  <2>6. \/ ~Reacts(n, f, x) /\ w = l
        \/ Reacts(n, f, x) /\ Effect(n, x.device, Reaction(n, x, l.value[x.device]), l, w)
    <3>1. HeardEvent(n, f, x, l, w)
      BY <2>1, HearEventEffect
    <3> QED BY <3>1 DEF HeardEvent
  <2> QED BY <2>4, <2>5, <2>6
<1> HIDE DEF B, OK
<1>7. c \in B /\ c \in 0..c
  <2>1. \A k \in 0..c : k \in B
    BY <1>1, <1>5, <1>6, CountUp
  <2> QED BY <1>1, <2>1
<1>8. OK(c) /\ u \in Locals(n)
  BY <1>4, <1>7 DEF B, R
<1>9. ASSUME NEW i \in Devices(n), \A x \in X : x.device = i => ~Reacts(n, f, x)
      PROVE  u.value[i] = base.value[i]
  <2>1. Struck(i, c) = {}
    BY <1>1, <1>9 DEF Range, X
  <2> HIDE DEF Struck
  <2> QED BY <1>4, <1>8, <2>1 DEF OK
<1>10. ASSUME NEW i \in Devices(n), NEW x \in X, x.device = i, Reacts(n, f, x),
              \A y \in X : y.device = i => y = x
       PROVE  u.value[i] = Reaction(n, x, base.value[i])
  <2>1. PICK p \in 1..c : t[p] = x
    BY <1>1 DEF Range, X
  <2>2. \A k \in 1..c : k \in Struck(i, c) => t[k] = x
    BY <1>1, <1>10 DEF Range, X
  <2>3. Struck(i, c) = {p}
    BY <1>1, <1>10, <2>1, <2>2
  <2> HIDE DEF Struck
  <2> QED BY <1>4, <1>8, <2>1, <2>3 DEF OK
<1>11. u.events = base.events /\ Shown(n, base, u)
  BY <1>4, <1>8 DEF OK
<1> HIDE DEF Struck
<1> QED BY <1>8, <1>9, <1>10, <1>11 DEF ActedTo, u, X, t

-----------------------------------------------------------------------------
(* The inductive part of TypeOK: frames and directories name endpoints     *)
(* that their node owns.                                                   *)
TypesOK ==
  /\ assigned \subseteq Nodes
  /\ known \in [Nodes -> SUBSET (Nodes \X Nat)]
  /\ \A n \in Nodes : \A x \in known[n] : Owns(x[1], x[2])
  /\ DOMAIN local = Nodes /\ \A n \in Nodes : local[n] \in Locals(n)
  /\ DOMAIN inbox = Nodes
  /\ \A n \in Nodes : inbox[n] \in Seq(Sent) /\ Len(inbox[n]) <= MaxBuffer
  /\ deaf \subseteq AllDevices

(* What is made of the configuration only.                                 *)
LEMMA FixedTypes ==
  ASSUME config' = config
  PROVE  /\ \A n : Devices(n)' = Devices(n) /\ Locals(n)' = Locals(n)
         /\ \A n, p : Owns(n, p)' = Owns(n, p)
         /\ AllDevices' = AllDevices /\ Sent' = Sent
<1>1. layout' = layout /\ tables' = tables
  BY DEF config
<1>2. \A n : Devices(n)' = Devices(n)
  BY <1>1 DEF Devices
<1>3. \A n, p : (Owns(n, p)' = Owns(n, p)) /\ Publishers(n, p)' = Publishers(n, p)
  BY <1>1 DEF Owns, Publishers, Devices, Kind
<1>4. \A n : StateFrames(n)' = StateFrames(n)
  BY <1>3 DEF StateFrames
<1>5. \A n : LocalType(n)' = LocalType(n)
  BY <1>1, <1>2, <1>4 DEF LocalType, EventFrames
<1>6. \A n : Locals(n)' = Locals(n)
  BY <1>1, <1>5 DEF Locals
<1>7. AllDevices' = AllDevices
  BY <1>2 DEF AllDevices
<1>8. Sent' = Sent
  BY <1>4 DEF Sent, EventFrames
<1> QED BY <1>2, <1>3, <1>6, <1>7, <1>8

(* A step of node n to u, in which the devices in lost lose touch with     *)
(* their input.                                                            *)
StepTo(n, u, lost) ==
  /\ Becomes(n, u, lost)
  /\ u \in Locals(n) /\ u.events = local[n].events /\ Shown(n, local[n], u)
  /\ lost \subseteq {n} \X Devices(n)

\* No switch and no light but those in lost has changed its state.
Quiet(n, u, lost) ==
  \A i \in Devices(n) : Kind(n, i) \in {"switch", "light"} /\ <<n, i>> \notin lost
                          => u.value[i] = local[n].value[i]

(* A change of one device is quiet about all the others.                   *)
LEMMA EffectQuiet ==
  ASSUME NEW n, local[n] \in Locals(n), NEW i \in Devices(n), NEW v, NEW u, NEW lost,
         Effect(n, i, v, local[n], u),
         lost = {<<n, i>>} \/ (lost = {} /\ Kind(n, i) = "sensor"), Becomes(n, u, lost)
  PROVE  StepTo(n, u, lost) /\ Quiet(n, u, lost)
<1>1. u \in Locals(n) /\ u.events = local[n].events /\ Shown(n, local[n], u)
      /\ u.value = [local[n].value EXCEPT ![i] = v]
  BY DEF Effect
<1>2. local[n].value \in [Devices(n) -> {Off, On, Unset}]
  BY LocalParts
<1>3. \A j \in Devices(n) : j # i => u.value[j] = local[n].value[j]
  BY <1>1, <1>2
<1>4. lost \subseteq {n} \X Devices(n)
  OBVIOUS
<1>5. StepTo(n, u, lost)
  BY <1>1, <1>4 DEF StepTo
<1>6. Quiet(n, u, lost)
  <2> SUFFICES ASSUME NEW j \in Devices(n), Kind(n, j) \in {"switch", "light"}, <<n, j>> \notin lost
               PROVE  u.value[j] = local[n].value[j]
    BY DEF Quiet
  <2>1. j # i
    OBVIOUS
  <2> QED BY <1>3, <2>1
<1> QED BY <1>5, <1>6

Local(n, i, p) == LocalChange(n, i) \/ SensorChange(n, i) \/ WriteLight(n, i) \/ HandleCommand(n, p)

(* The loop of a light publishes its state and changes none.               *)
LEMMA WriteLightStep ==
  ASSUME Installed, TypesOK, NEW n \in Nodes, NEW i, WriteLight(n, i)
  PROVE  \E u : StepTo(n, u, {}) /\ Quiet(n, u, {})
<1> DEFINE l == local[n]
           v == l.value[i]
           k == [l EXCEPT !.dirty = l.dirty \ {i}]
           u == Publish(n, k, i, v)
<1>1. l \in Locals(n) /\ i \in l.dirty
  BY DEF TypesOK, WriteLight
<1>2. i \in Lights(layout[n]) /\ i \in Devices(n) /\ Kind(n, i) = "light"
  <2>1. i \in Lights(layout[n]) /\ i \in Devices(n)
    BY <1>1, LocalParts DEF Lights, Devices
  <2> QED BY <2>1, DeviceType
<1>3. v \in {Off, On} /\ l \in LocalType(n)
  BY <1>1, <1>2, LocalParts
<1>4. /\ k \in LocalType(n) /\ k.value = l.value /\ k.dirty = l.dirty \ {i} /\ k.mute = l.mute
      /\ k.states = l.states /\ k.events = l.events
  <2> HIDE DEF l
  <2> QED BY <1>3 DEF LocalType
<1>5. Becomes(n, u, {})
  <2>1. [l EXCEPT !.dirty = @ \ {i}] = k
    OBVIOUS
  <2>2. Becomes(n, Publish(n, [l EXCEPT !.dirty = @ \ {i}], i, v), {})
    BY DEF WriteLight
  <2> QED BY <2>1, <2>2
<1> HIDE DEF k, l, v
<1>6. k \in Locals(n)
  BY <1>1, <1>4, LocalParts DEF Locals
<1>7. u \in Locals(n) /\ Published(n, i, v, k, u)
  <2> HIDE DEF u
  <2>1. u = Publish(n, k, i, v) /\ Kind(n, i) # "button"
    BY <1>2 DEF u
  <2> QED BY <1>2, <1>3, <1>6, <2>1, PublishSteps
<1>8. u.value = k.value /\ u.events = k.events
  BY <1>7 DEF Published
<1>9. ASSUME NEW j, Sole(n, j) PROVE Tells(n, j, u) \/ Stays(n, j, l, u)
  <2>1. i = j => Tells(n, j, u)
    BY <1>2, <1>3, <1>4, <1>6, <1>9, PublishShows DEF v
  <2>2. i # j => Stays(n, j, k, u)
    BY <1>2, <1>3, <1>6, <1>9, PublishShows
  <2>3. i # j /\ Stays(n, j, k, u) => Stays(n, j, l, u)
    BY <1>4 DEF Stays, Speaks
  <2> QED BY <2>1, <2>2, <2>3
<1> HIDE DEF u
<1>10. StepTo(n, u, {}) /\ Quiet(n, u, {})
  BY <1>4, <1>5, <1>7, <1>8, <1>9 DEF StepTo, Quiet, Shown, l
<1> QED BY <1>10

(* What happens at one node of itself: nothing but that node changes.      *)
LEMMA LocalSteps ==
  ASSUME Installed, TypesOK, NEW n \in Nodes, NEW i \in Devices(n), NEW p, Local(n, i, p)
  PROVE  /\ UNCHANGED <<config, assigned, known, inbox>>
         /\ \E u, lost : StepTo(n, u, lost) /\ Quiet(n, u, lost)
<1>1. local[n] \in Locals(n)
  BY DEF TypesOK
<1>2. ASSUME LocalChange(n, i) PROVE \E u, lost : StepTo(n, u, lost) /\ Quiet(n, u, lost)
  <2>1. PICK v \in {Off, On} : Becomes(n, Set(n, local[n], i, v), {<<n, i>>})
    BY <1>2 DEF LocalChange
  <2>2. Effect(n, i, v, local[n], Set(n, local[n], i, v))
    BY <1>1, <1>2, SetEffect DEF LocalChange
  <2> QED BY <1>1, <2>1, <2>2, EffectQuiet
<1>3. ASSUME SensorChange(n, i) PROVE \E u, lost : StepTo(n, u, lost) /\ Quiet(n, u, lost)
  <2>1. PICK v \in {Off, On} \ {local[n].value[i]} :
          Becomes(n, Publish(n, [local[n] EXCEPT !.value[i] = v], i, v), {})
    BY <1>3 DEF SensorChange
  <2>2. ApplyState(n, local[n], i, v) = Publish(n, [local[n] EXCEPT !.value[i] = v], i, v)
    BY <2>1 DEF ApplyState
  <2>3. Kind(n, i) = "sensor"
    BY <1>3 DEF SensorChange
  <2>4. Effect(n, i, v, local[n], ApplyState(n, local[n], i, v))
    BY <1>1, <2>3, ApplyStateEffect
  <2>5. Becomes(n, ApplyState(n, local[n], i, v), {})
    BY <2>1, <2>2
  <2> QED BY <1>1, <2>3, <2>4, <2>5, EffectQuiet
<1>4. ASSUME WriteLight(n, i) PROVE \E u, lost : StepTo(n, u, lost) /\ Quiet(n, u, lost)
  BY <1>4, WriteLightStep
<1>5. ASSUME HandleCommand(n, p) PROVE \E u, lost : StepTo(n, u, lost) /\ Quiet(n, u, lost)
  <2>1. PICK h \in Range(tables[n].handlers), v \in {Off, On} :
          Becomes(n, Set(n, local[n], h.device, v), {<<n, h.device>>})
    BY <1>5 DEF HandleCommand
  <2>2. h.device \in Devices(n) /\ Kind(n, h.device) \in {"switch", "light"}
    BY <2>1, DeviceType DEF Installed, Wired, Devices
  <2>3. Effect(n, h.device, v, local[n], Set(n, local[n], h.device, v))
    BY <1>1, <2>2, SetEffect
  <2> QED BY <1>1, <2>1, <2>2, <2>3, EffectQuiet
<1>6. UNCHANGED <<config, assigned, known, inbox>>
  BY DEF Local, LocalChange, SensorChange, WriteLight, HandleCommand
<1> QED BY <1>2, <1>3, <1>4, <1>5, <1>6 DEF Local

(* What a frame on its way to a node may be.                               *)
LEMMA SentFrame ==
  ASSUME NEW f \in Sent
  PROVE  /\ f.source \in Nodes /\ f.endpoint \in Nat
         /\ \/ f.kind = "state" /\ f \in StateFrames(f.source) /\ f.value \in {Off, On}
               /\ Owns(f.source, f.endpoint) /\ Publishers(f.source, f.endpoint) # {}
            \/ f.kind = "event" /\ f \in EventFrames(f.source)
         /\ f \in Frame
<1>1. PICK m \in Nodes : f \in StateFrames(m) \cup EventFrames(m)
  BY DEF Sent
<1>2. CASE f \in StateFrames(m)
  <2>1. f.source = m
    BY <1>2 DEF StateFrames
  <2> QED BY <1>2, <2>1 DEF StateFrames, Frame
<1>3. CASE f \in EventFrames(m)
  <2>1. f.source = m
    BY <1>3 DEF EventFrames
  <2> QED BY <1>3, <2>1 DEF EventFrames, Frame
<1> QED BY <1>1, <1>2, <1>3

(* Of an endpoint that it knows, a node tells the entity that its owner    *)
(* uses it for; of any other none.                                         *)
LEMMA EntityOf ==
  ASSUME Installed, NEW n, NEW m \in Nodes, NEW o \in Range(tables[m].owned)
  PROVE  /\ o.entity # NoEntity
         /\ EntityFor(n, m, o.endpoint) =
              IF <<m, o.endpoint>> \in known[n] THEN o.entity ELSE NoEntity
<1> DEFINE t == tables[m].owned
<1>1. /\ \A k, l \in DOMAIN t : k # l => ~Clash(t[k], t[l])
      /\ \A k \in DOMAIN t : t[k].entity # NoEntity
  BY DEF Installed, Wired
<1>2. \A q \in Range(t) : q.endpoint = o.endpoint => q = o
  BY <1>1 DEF Range, Clash
<1>3. (CHOOSE q \in Range(t) : q.endpoint = o.endpoint) = o
  BY <1>2
<1>4. o.entity # NoEntity
  BY <1>1 DEF Range
<1> DEFINE c == CHOOSE q \in Range(t) : q.endpoint = o.endpoint
<1>5. EntityFor(n, m, o.endpoint) = IF <<m, o.endpoint>> \in known[n] THEN c.entity ELSE NoEntity
  BY Zenon DEF EntityFor
<1>6. c = o
  BY <1>3
<1> HIDE DEF c
<1> QED BY <1>4, <1>5, <1>6

\* The frame f has reached n and is known to it, or not.
Unknown(n, f) == <<f.source, f.endpoint>> \notin known[n]

(* A listener of an unknown frame does not hear it.                        *)
LEMMA UnknownUnheard ==
  ASSUME NEW n, NEW f, Unknown(n, f), NEW x
  PROVE  ~Listens(n, f, x)
BY DEF Unknown, Listens, EntityFor

\* What the devices named as lost by Receive are.
LostState(n, f) ==
  IF Unknown(n, f) THEN {x \in MirrorsOf(f.source, Publishers(f.source, f.endpoint)) : x[1] = n}
  ELSE {}

LostEvent(n, f) == {n} \X {i \in Bound(n, f) : Unknown(n, f) \/ layout[n][i].source # NoEntity}

ReceivedState(n, f, u) ==
  f.kind = "state" /\ f \in StateFrames(f.source) /\ f.value \in {Off, On}
  /\ MirroredTo(n, f, local[n], u) /\ StepTo(n, u, LostState(n, f))

ReceivedEvent(n, f, u) ==
  f.kind = "event" /\ ActedTo(n, f, local[n], u) /\ StepTo(n, u, LostEvent(n, f))

(* handle takes the first frame and passes it to the listeners.            *)
LEMMA ReceiveSteps ==
  ASSUME Installed, TypesOK, NEW n \in Nodes, Receive(n)
  PROVE  /\ UNCHANGED <<config, assigned, known>>
         /\ inbox[n] # <<>> /\ inbox' = [inbox EXCEPT ![n] = Tail(@)]
         /\ Head(inbox[n]) \in Sent
         /\ \E u : ReceivedState(n, Head(inbox[n]), u) \/ ReceivedEvent(n, Head(inbox[n]), u)
<1> DEFINE f == Head(inbox[n])
<1>1. /\ UNCHANGED <<config, assigned, known>>
      /\ inbox[n] # <<>> /\ inbox' = [inbox EXCEPT ![n] = Tail(@)]
  BY DEF Receive
<1>2. f \in Sent
  <2>1. inbox[n] \in Seq(Sent)
    BY DEF TypesOK
  <2> QED BY <1>1, <2>1, HeadTailProperties
<1>3. \/ f.kind = "state" /\ Becomes(n, Mirrored(n, f), LostState(n, f))
      \/ f.kind = "event" /\ Becomes(n, Acted(n, f), LostEvent(n, f))
  BY DEF Receive, LostState, LostEvent, Unknown
<1> HIDE DEF f
<1>4. ASSUME f.kind = "state", Becomes(n, Mirrored(n, f), LostState(n, f))
      PROVE  ReceivedState(n, f, Mirrored(n, f))
  <2>1. f \in StateFrames(f.source) /\ f.value \in {Off, On}
    BY <1>2, <1>4, SentFrame
  <2>2. MirroredTo(n, f, local[n], Mirrored(n, f))
    BY <2>1, MirroredSteps DEF TypesOK
  <2>3. LostState(n, f) \subseteq {n} \X Devices(n)
    <3>1. ASSUME NEW x \in AllDevices, x[1] = n PROVE x \in {n} \X Devices(n)
      BY <3>1 DEF AllDevices
    <3> QED BY <3>1 DEF LostState, MirrorsOf, Mirrors
  <2> QED BY <1>4, <2>1, <2>2, <2>3 DEF ReceivedState, StepTo, MirroredTo
<1>5. ASSUME f.kind = "event", Becomes(n, Acted(n, f), LostEvent(n, f))
      PROVE  ReceivedEvent(n, f, Acted(n, f))
  <2>1. ActedTo(n, f, local[n], Acted(n, f))
    BY ActedSteps DEF TypesOK
  <2>2. LostEvent(n, f) \subseteq {n} \X Devices(n)
    <3>1. ASSUME NEW x \in Range(tables[n].events) PROVE x.device \in Devices(n)
      BY EventListenerDevice
    <3> QED BY <3>1 DEF LostEvent, Bound
  <2> QED BY <1>5, <2>1, <2>2 DEF ReceivedEvent, StepTo, ActedTo
<1> QED BY <1>1, <1>2, <1>3, <1>4, <1>5 DEF f

-----------------------------------------------------------------------------
\* What a step to u keeps of the types.
LEMMA StepTypes ==
  ASSUME Installed, TypesOK, NEW n \in Nodes, NEW u, NEW lost, StepTo(n, u, lost)
  PROVE  /\ DOMAIN local' = Nodes /\ \A m \in Nodes : local'[m] \in Locals(m)
         /\ local'[n] = u /\ \A m \in Nodes : m # n => local'[m] = local[m]
         /\ deaf' \subseteq AllDevices
<1>1. local' = [local EXCEPT ![n] = u] /\ u \in Locals(n)
  BY DEF StepTo, Becomes
<1>2. DOMAIN local = Nodes /\ \A m \in Nodes : local[m] \in Locals(m)
  BY DEF TypesOK
<1>3. local'[n] = u /\ \A m \in Nodes : m # n => local'[m] = local[m]
  BY <1>1, <1>2
<1>4. lost \subseteq AllDevices
  BY DEF StepTo, AllDevices
<1>5. deaf' \subseteq AllDevices
  BY <1>4 DEF StepTo, Becomes, TypesOK
<1> QED BY <1>1, <1>2, <1>3, <1>5

\* A frame of l has left its queue: an event if there is one.
Left(n, l, u) ==
  /\ u \in Locals(n) /\ u.value = l.value /\ u.dirty = l.dirty /\ u.mute = l.mute
  /\ \/ /\ l.events # <<>> /\ FirstOut(l) = Head(l.events) /\ FirstOut(l) \in EventFrames(n)
        /\ u.states = l.states /\ u.events = Tail(l.events)
     \/ /\ l.states # <<>> /\ FirstOut(l) = Head(l.states) /\ FirstOut(l) \in StateFrames(n)
        /\ l.events = <<>> /\ u.events = l.events /\ u.states = Tail(l.states)

(* drain_one takes one frame from a queue, an event if there is one.       *)
LEMMA DrainSteps ==
  ASSUME EndpointsAssumption, NEW n, NEW l \in Locals(n), l.events # <<>> \/ l.states # <<>>
  PROVE  Left(n, l, Drained(l))
<1> DEFINE u == Drained(l)
<1>1. /\ l \in LocalType(n) /\ l.states \in Seq(StateFrames(n)) /\ l.events \in Seq(EventFrames(n))
      /\ Len(l.states) <= QueueSize /\ Len(l.events) <= QueueSize /\ QueueSize \in Nat
      /\ \A i \in Lights(layout[n]) : l.value[i] # Unset
  BY LocalParts DEF EndpointsAssumption
<1>2. CASE l.events # <<>>
  <2> DEFINE q == Tail(l.events)
  <2>1. /\ Head(l.events) \in EventFrames(n) /\ q \in Seq(EventFrames(n))
        /\ Len(q) = Len(l.events) - 1 /\ Len(l.events) \in Nat
    BY <1>1, <1>2, InboxHead
  <2>2. Len(q) <= QueueSize
    <3> DEFINE a == Len(q)
               b == Len(l.events)
    <3>1. a = b - 1 /\ b \in Nat /\ b <= QueueSize /\ QueueSize \in Nat
      BY <1>1, <2>1
    <3> HIDE DEF a, b
    <3>2. a <= QueueSize
      BY <3>1
    <3> QED BY <3>2 DEF a
  <2>3. u = [l EXCEPT !.events = q]
    BY <1>2 DEF Drained
  <2> HIDE DEF q, u
  <2>4. /\ u \in LocalType(n) /\ u.value = l.value /\ u.dirty = l.dirty /\ u.mute = l.mute
        /\ u.states = l.states /\ u.events = q
    BY <1>1, <2>1, <2>3 DEF LocalType
  <2>5. u \in Locals(n)
    BY <1>1, <2>2, <2>4 DEF Locals
  <2> QED BY <1>2, <2>1, <2>4, <2>5 DEF Left, FirstOut, q, u
<1>3. CASE l.events = <<>>
  <2> DEFINE q == Tail(l.states)
  <2>1. /\ Head(l.states) \in StateFrames(n) /\ q \in Seq(StateFrames(n))
        /\ Len(q) = Len(l.states) - 1 /\ Len(l.states) \in Nat
    BY <1>1, <1>3, InboxHead
  <2>2. Len(q) <= QueueSize
    <3> DEFINE a == Len(q)
               b == Len(l.states)
    <3>1. a = b - 1 /\ b \in Nat /\ b <= QueueSize /\ QueueSize \in Nat
      BY <1>1, <2>1
    <3> HIDE DEF a, b
    <3>2. a <= QueueSize
      BY <3>1
    <3> QED BY <3>2 DEF a
  <2>3. u = [l EXCEPT !.states = q]
    BY <1>3 DEF Drained
  <2> HIDE DEF q, u
  <2>4. /\ u \in LocalType(n) /\ u.value = l.value /\ u.dirty = l.dirty /\ u.mute = l.mute
        /\ u.events = l.events /\ u.states = q
    BY <1>1, <2>1, <2>3 DEF LocalType
  <2>5. u \in Locals(n)
    BY <1>1, <2>2, <2>4 DEF Locals
  <2> QED BY <1>3, <2>1, <2>4, <2>5 DEF Left, FirstOut, q, u
<1> QED BY <1>2, <1>3

(* A node after its start: nothing is queued, and a device has no state or *)
(* is a light that has not written its output.                             *)
LEMMA BootType ==
  ASSUME EndpointsAssumption, NEW n, NEW l, l = Boot(layout[n])
  PROVE  /\ l \in Locals(n) /\ l.mute = {} /\ l.states = <<>> /\ l.events = <<>>
         /\ \A i \in Devices(n) : l.value[i] \in {Off, Unset} /\ (l.value[i] = Off => i \in l.dirty)
<1>1. l = [value  |-> [i \in Devices(n) |-> IF i \in Lights(layout[n]) THEN Off ELSE Unset],
           dirty  |-> Lights(layout[n]), mute |-> {}, states |-> <<>>, events |-> <<>>]
  BY DEF Boot, Devices
<1>2. [i \in Devices(n) |-> IF i \in Lights(layout[n]) THEN Off ELSE Unset]
        \in [Devices(n) -> {Off, On, Unset}]
  OBVIOUS
<1>3. l \in LocalType(n) /\ l.mute = {} /\ l.states = <<>> /\ l.events = <<>>
  BY <1>1, <1>2 DEF LocalType
<1>4. \A i \in Devices(n) : l.value[i] \in {Off, Unset} /\ (l.value[i] = Off <=> i \in l.dirty)
  BY <1>1 DEF Off, Unset
<1>5. \A i \in Lights(layout[n]) : l.value[i] # Unset
  BY <1>1 DEF Off, Unset, Lights, Devices
<1>6. Len(l.states) <= QueueSize /\ Len(l.events) <= QueueSize
  <2>1. Len(<<>>) = 0 /\ QueueSize \in Nat
    BY DEF EndpointsAssumption
  <2> QED BY <1>3, <2>1
<1> QED BY <1>3, <1>4, <1>5, <1>6 DEF Locals

\* Transmit hands the frame to every other node with listeners.
Reached(n) == {m \in Nodes \ {n} : HasListeners(m)}

TransmittedBy(n, f) ==
  /\ DOMAIN inbox' = Nodes
  /\ \A m \in Nodes : inbox'[m] = IF m \in Reached(n) THEN Append(inbox[m], f) ELSE inbox[m]
  /\ \A m \in Nodes : inbox'[m] \in Seq(Sent) /\ Len(inbox'[m]) <= MaxBuffer

(* A frame leaves its queue and reaches every other node with listeners.   *)
LEMMA TransmitSteps ==
  ASSUME Installed, TypesOK, NEW n \in Nodes, Transmit(n)
  PROVE  /\ UNCHANGED <<config, assigned, known, deaf>>
         /\ Left(n, local[n], local'[n]) /\ \A m \in Nodes : m # n => local'[m] = local[m]
         /\ DOMAIN local' = Nodes /\ TransmittedBy(n, FirstOut(local[n]))
<1> DEFINE f == FirstOut(local[n])
<1>1. /\ local[n].events # <<>> \/ local[n].states # <<>>
      /\ \A m \in Reached(n) : Len(inbox[m]) < MaxBuffer
      /\ local' = [local EXCEPT ![n] = Drained(@)]
      /\ inbox' = [m \in Nodes |-> IF m \in Reached(n) THEN Append(inbox[m], f) ELSE inbox[m]]
      /\ UNCHANGED <<config, assigned, known, deaf>>
  BY DEF Transmit, Reached
<1>2. /\ local[n] \in Locals(n) /\ DOMAIN local = Nodes
      /\ \A m \in Nodes : inbox[m] \in Seq(Sent) /\ Len(inbox[m]) <= MaxBuffer
  BY DEF TypesOK
<1>3. Left(n, local[n], Drained(local[n]))
  BY <1>1, <1>2, DrainSteps, EndpointsAssumption
<1>4. f \in Sent
  BY <1>3 DEF Left, Sent
<1> HIDE DEF f
<1>5. ASSUME NEW m \in Nodes
      PROVE  inbox'[m] \in Seq(Sent) /\ Len(inbox'[m]) <= MaxBuffer
  <2>1. inbox[m] \in Seq(Sent) /\ Len(inbox[m]) <= MaxBuffer
    BY <1>2
  <2>2. CASE m \notin Reached(n)
    BY <1>1, <2>1, <2>2
  <2>3. CASE m \in Reached(n)
    <3>1. inbox'[m] = Append(inbox[m], f)
      BY <1>1, <2>3
    <3>2. inbox'[m] \in Seq(Sent) /\ Len(inbox'[m]) = Len(inbox[m]) + 1 /\ Len(inbox[m]) \in Nat
      BY <1>4, <2>1, <3>1, AppendProperties, LenProperties
    <3> DEFINE a == Len(inbox[m])
               b == Len(inbox'[m])
    <3>3. a \in Nat /\ a < MaxBuffer /\ b = a + 1 /\ MaxBuffer \in Nat
      BY <1>1, <2>3, <3>2, EndpointsAssumption
    <3> HIDE DEF a, b
    <3>4. b <= MaxBuffer
      BY <3>3
    <3> QED BY <3>2, <3>4 DEF b
  <2> QED BY <2>2, <2>3
<1>6. TransmittedBy(n, f)
  BY <1>1, <1>5 DEF TransmittedBy
<1> QED BY <1>1, <1>2, <1>3, <1>6 DEF f

(* A frame leaves its queue and reaches nobody.                            *)
LEMMA RefuseSteps ==
  ASSUME Installed, TypesOK, NEW n \in Nodes, Refuse(n)
  PROVE  /\ UNCHANGED <<config, assigned, known, inbox>>
         /\ Left(n, local[n], local'[n]) /\ \A m \in Nodes : m # n => local'[m] = local[m]
         /\ DOMAIN local' = Nodes
         /\ deaf' = deaf \cup IF local[n].events # <<>> THEN {}
                              ELSE MirrorsOf(n, Publishers(n, Head(local[n].states).endpoint))
<1>1. /\ local[n].events # <<>> \/ local[n].states # <<>>
      /\ local' = [local EXCEPT ![n] = Drained(@)]
      /\ UNCHANGED <<config, assigned, known, inbox>>
      /\ deaf' = deaf \cup IF local[n].events # <<>> THEN {}
                           ELSE MirrorsOf(n, Publishers(n, Head(local[n].states).endpoint))
  BY DEF Refuse
<1>2. local[n] \in Locals(n) /\ DOMAIN local = Nodes
  BY DEF TypesOK
<1>3. Left(n, local[n], Drained(local[n]))
  BY <1>1, <1>2, DrainSteps, EndpointsAssumption
<1> QED BY <1>1, <1>2, <1>3

(* The types hold at the start.                                            *)
LEMMA InitTypes == Installed /\ Init => TypesOK
<1> SUFFICES ASSUME Installed, Init PROVE TypesOK
  OBVIOUS
<1>1. /\ assigned \in SUBSET Nodes /\ known = [n \in Nodes |-> {}]
      /\ local = [n \in Nodes |-> Boot(layout[n])]
      /\ inbox = [n \in Nodes |-> <<>>] /\ deaf = {}
  BY DEF Init
<1>2. ASSUME NEW n \in Nodes PROVE local[n] \in Locals(n)
  <2>1. local[n] = Boot(layout[n])
    BY <1>1
  <2> QED BY <2>1, BootType, EndpointsAssumption
<1>3. ASSUME NEW n \in Nodes PROVE inbox[n] \in Seq(Sent) /\ Len(inbox[n]) <= MaxBuffer
  <2>1. Len(<<>>) = 0 /\ MaxBuffer \in Nat
    BY EndpointsAssumption
  <2> QED BY <1>1, <2>1
<1>4. known \in [Nodes -> SUBSET (Nodes \X Nat)]
  BY <1>1
<1> QED BY <1>1, <1>2, <1>3, <1>4 DEF TypesOK

(* A gesture is queued, and nothing else changes.                          *)
LEMMA PublishEventSteps ==
  ASSUME Installed, TypesOK, NEW n \in Nodes, NEW i \in Devices(n), NEW g \in Gestures,
         PublishEvent(n, i, g)
  PROVE  /\ UNCHANGED <<config, assigned, known, inbox, deaf>>
         /\ \A m \in Nodes : m # n => local'[m] = local[m]
         /\ DOMAIN local' = Nodes /\ local'[n] \in Locals(n)
         /\ local'[n].value = local[n].value /\ local'[n].dirty = local[n].dirty
         /\ local'[n].mute = local[n].mute /\ local'[n].states = local[n].states
<1> DEFINE l == local[n]
           f == Gesture(n, layout[n][i].endpoint, g)
           q == Append(l.events, f)
           u == [l EXCEPT !.events = q]
<1>1. /\ UNCHANGED <<config, assigned, known, inbox, deaf>>
      /\ Len(l.events) < QueueSize
      /\ local' = [local EXCEPT ![n].events = q]
  BY DEF PublishEvent
<1>2. l \in Locals(n) /\ DOMAIN local = Nodes
  BY DEF TypesOK
<1>3. local' = [local EXCEPT ![n] = u]
  BY <1>1, <1>2
<1>4. f \in EventFrames(n)
  BY DeviceType DEF EventFrames, Gesture
<1>5. /\ l \in LocalType(n) /\ l.events \in Seq(EventFrames(n)) /\ Len(l.states) <= QueueSize
      /\ \A j \in Lights(layout[n]) : l.value[j] # Unset
  BY <1>2, LocalParts
<1> HIDE DEF f, l
<1>6. q \in Seq(EventFrames(n)) /\ Len(q) = Len(l.events) + 1 /\ Len(l.events) \in Nat
  BY <1>4, <1>5, AppendProperties, LenProperties
<1>7. Len(q) <= QueueSize
  <2> DEFINE a == Len(l.events)
             b == Len(q)
  <2>1. a \in Nat /\ a < QueueSize /\ b = a + 1 /\ QueueSize \in Nat
    BY <1>1, <1>6, EndpointsAssumption
  <2> HIDE DEF a, b
  <2>2. b <= QueueSize
    BY <2>1
  <2> QED BY <2>2 DEF b
<1> HIDE DEF q
<1>8. /\ u \in LocalType(n) /\ u.value = l.value /\ u.dirty = l.dirty /\ u.mute = l.mute
      /\ u.states = l.states /\ u.events = q
  BY <1>5, <1>6 DEF LocalType
<1> HIDE DEF u
<1>9. u \in Locals(n)
  BY <1>5, <1>7, <1>8 DEF Locals
<1> QED BY <1>1, <1>2, <1>3, <1>8, <1>9 DEF l

(* A power cycle changes the node alone, and what others know of it.       *)
LEMMA RestartSteps ==
  ASSUME Installed, TypesOK, NEW n \in Nodes, Restart(n)
  PROVE  /\ UNCHANGED <<config, assigned>>
         /\ known' \in [Nodes -> SUBSET (Nodes \X Nat)]
         /\ \A m \in Nodes : known'[m] \subseteq known[m]
         /\ \A m \in Nodes : m # n => local'[m] = local[m] /\ inbox'[m] = inbox[m]
         /\ DOMAIN local' = Nodes /\ DOMAIN inbox' = Nodes
         /\ local'[n] = Boot(layout[n]) /\ local'[n] \in Locals(n) /\ inbox'[n] = <<>>
         /\ deaf' = deaf \cup ({n} \X Devices(n))
<1>1. PICK forget \in BOOLEAN :
        known' = [m \in Nodes |-> IF m = n THEN {} ELSE {x \in known[m] : ~(forget /\ x[1] = n)}]
  BY DEF Restart
<1>2. known \in [Nodes -> SUBSET (Nodes \X Nat)] /\ DOMAIN local = Nodes /\ DOMAIN inbox = Nodes
  BY DEF TypesOK
<1>3. /\ known' \in [Nodes -> SUBSET (Nodes \X Nat)]
      /\ \A m \in Nodes : known'[m] \subseteq known[m]
  BY <1>1, <1>2
<1>4. /\ UNCHANGED <<config, assigned>> /\ deaf' = deaf \cup ({n} \X Devices(n))
      /\ local' = [local EXCEPT ![n] = Boot(layout[n])]
      /\ inbox' = [inbox EXCEPT ![n] = <<>>]
  BY DEF Restart
<1>5. Boot(layout[n]) \in Locals(n)
  BY BootType, EndpointsAssumption
<1> QED BY <1>2, <1>3, <1>4, <1>5

(* A claim adds one endpoint that its node owns.                           *)
LEMMA LearnSteps ==
  ASSUME Installed, TypesOK, NEW n \in Nodes, NEW m \in Nodes, NEW p, Learn(n, m, p)
  PROVE  /\ UNCHANGED <<config, assigned, local, inbox, deaf>>
         /\ known' \in [Nodes -> SUBSET (Nodes \X Nat)]
         /\ \A k \in Nodes : \A x \in known'[k] : x \in known[k] \/ x = <<m, p>>
         /\ Owns(m, p) /\ \A k \in Nodes : known[k] \subseteq known'[k]
<1>1. PICK o \in Range(tables[m].owned) : o.endpoint = p
  BY DEF Learn
<1>2. tables[m].owned \in Seq([entity : Nat, endpoint : Nat])
  BY DEF Installed, Wired, RuntimeTables
<1>3. PICK k \in DOMAIN tables[m].owned : o = tables[m].owned[k]
  BY <1>1 DEF Range
<1>4. Owns(m, p)
  BY <1>1, <1>3 DEF Owns
<1>5. p \in Nat
  <2> DEFINE t == tables[m].owned
  <2>1. k \in DOMAIN t /\ t \in Seq([entity : Nat, endpoint : Nat])
    BY <1>2, <1>3
  <2> HIDE DEF t
  <2>2. t[k] \in [entity : Nat, endpoint : Nat]
    BY <2>1, LenProperties, ElementOfSeq
  <2> QED BY <1>1, <1>3, <2>2 DEF t
<1>6. /\ UNCHANGED <<config, assigned, local, inbox, deaf>>
      /\ known' = [known EXCEPT ![n] = @ \cup {<<m, p>>}]
  BY DEF Learn
<1>7. known \in [Nodes -> SUBSET (Nodes \X Nat)]
  BY DEF TypesOK
<1> QED BY <1>4, <1>5, <1>6, <1>7

(* Every step keeps the types.                                             *)
LEMMA NextTypes ==
  ASSUME Installed, TypesOK, [Next]_vars
  PROVE  TypesOK'
<1>0. config' = config
  BY NextConfig
<1> DEFINE Ty == /\ assigned' \subseteq Nodes
                 /\ known' \in [Nodes -> SUBSET (Nodes \X Nat)]
                 /\ \A n \in Nodes : \A x \in known'[n] : Owns(x[1], x[2])
                 /\ DOMAIN local' = Nodes /\ \A n \in Nodes : local'[n] \in Locals(n)
                 /\ DOMAIN inbox' = Nodes
                 /\ \A n \in Nodes : inbox'[n] \in Seq(Sent) /\ Len(inbox'[n]) <= MaxBuffer
                 /\ deaf' \subseteq AllDevices
<1>1. Ty => TypesOK'
  BY <1>0, FixedTypes DEF TypesOK
<1>2. CASE UNCHANGED vars
  BY <1>1, <1>2 DEF TypesOK, vars
<1>3. ASSUME NEW n \in Nodes, NEW i \in Devices(n), NEW p, Local(n, i, p) PROVE Ty
  <2>1. UNCHANGED <<config, assigned, known, inbox>>
    BY <1>3, LocalSteps
  <2>2. PICK u, lost : StepTo(n, u, lost)
    BY <1>3, LocalSteps
  <2>3. /\ DOMAIN local' = Nodes /\ \A m \in Nodes : local'[m] \in Locals(m)
        /\ deaf' \subseteq AllDevices
    BY <2>2, StepTypes
  <2> QED BY <2>1, <2>3 DEF TypesOK
<1>4. ASSUME NEW n \in Nodes, NEW i \in Devices(n), NEW g \in Gestures, PublishEvent(n, i, g)
      PROVE  Ty
  <2>1. /\ UNCHANGED <<config, assigned, known, inbox, deaf>>
        /\ \A m \in Nodes : m # n => local'[m] = local[m]
        /\ DOMAIN local' = Nodes /\ local'[n] \in Locals(n)
    BY <1>4, PublishEventSteps
  <2> QED BY <2>1 DEF TypesOK
<1>5. ASSUME NEW n \in Nodes, Transmit(n) PROVE Ty
  <2>1. /\ UNCHANGED <<config, assigned, known, deaf>>
        /\ Left(n, local[n], local'[n]) /\ \A m \in Nodes : m # n => local'[m] = local[m]
        /\ DOMAIN local' = Nodes /\ TransmittedBy(n, FirstOut(local[n]))
    BY <1>5, TransmitSteps
  <2> QED BY <2>1 DEF TypesOK, TransmittedBy, Left
<1>6. ASSUME NEW n \in Nodes, Refuse(n) PROVE Ty
  <2>1. /\ UNCHANGED <<config, assigned, known, inbox>>
        /\ Left(n, local[n], local'[n]) /\ \A m \in Nodes : m # n => local'[m] = local[m]
        /\ DOMAIN local' = Nodes
        /\ deaf' = deaf \cup IF local[n].events # <<>> THEN {}
                             ELSE MirrorsOf(n, Publishers(n, Head(local[n].states).endpoint))
    BY <1>6, RefuseSteps
  <2>2. deaf' \subseteq AllDevices
    BY <2>1 DEF TypesOK, MirrorsOf, Mirrors
  <2> QED BY <2>1, <2>2 DEF TypesOK, Left
<1>7. ASSUME NEW n \in Nodes, Receive(n) PROVE Ty
  <2>1. /\ UNCHANGED <<config, assigned, known>>
        /\ inbox[n] # <<>> /\ inbox' = [inbox EXCEPT ![n] = Tail(@)]
        /\ \E u : ReceivedState(n, Head(inbox[n]), u) \/ ReceivedEvent(n, Head(inbox[n]), u)
    BY <1>7, ReceiveSteps
  <2>2. PICK u, lost : StepTo(n, u, lost)
    BY <2>1 DEF ReceivedState, ReceivedEvent
  <2>3. /\ DOMAIN local' = Nodes /\ \A m \in Nodes : local'[m] \in Locals(m)
        /\ deaf' \subseteq AllDevices
    BY <2>2, StepTypes
  <2>4. DOMAIN inbox' = Nodes /\ \A m \in Nodes : m # n => inbox'[m] = inbox[m]
    BY <2>1 DEF TypesOK
  <2>5. inbox'[n] = Tail(inbox[n]) /\ inbox[n] \in Seq(Sent) /\ Len(inbox[n]) <= MaxBuffer
    BY <2>1 DEF TypesOK
  <2>6. Tail(inbox[n]) \in Seq(Sent) /\ Len(Tail(inbox[n])) <= MaxBuffer
    <3>1. Tail(inbox[n]) \in Seq(Sent) /\ Len(Tail(inbox[n])) = Len(inbox[n]) - 1 /\ Len(inbox[n]) \in Nat
      BY <2>1, <2>5, InboxHead
    <3> DEFINE a == Len(Tail(inbox[n]))
               b == Len(inbox[n])
    <3>2. a = b - 1 /\ b \in Nat /\ b <= MaxBuffer /\ MaxBuffer \in Nat
      BY <2>5, <3>1, EndpointsAssumption
    <3> HIDE DEF a, b
    <3>3. a <= MaxBuffer
      BY <3>2
    <3> QED BY <3>1, <3>3 DEF a
  <2> QED BY <2>1, <2>3, <2>4, <2>5, <2>6 DEF TypesOK
<1>8. ASSUME NEW n \in Nodes, NEW m \in Nodes, NEW p, Learn(n, m, p) PROVE Ty
  <2>1. /\ UNCHANGED <<config, assigned, local, inbox, deaf>>
        /\ known' \in [Nodes -> SUBSET (Nodes \X Nat)]
        /\ \A k \in Nodes : \A x \in known'[k] : x \in known[k] \/ x = <<m, p>>
        /\ Owns(m, p)
    BY <1>8, LearnSteps
  <2> QED BY <2>1 DEF TypesOK
<1>9. ASSUME NEW n \in Nodes, Adopt(n) PROVE Ty
  BY <1>9 DEF TypesOK, Adopt
<1>10. ASSUME NEW n \in Nodes, Restart(n) PROVE Ty
  <2>1. /\ UNCHANGED <<config, assigned>>
        /\ known' \in [Nodes -> SUBSET (Nodes \X Nat)]
        /\ \A m \in Nodes : known'[m] \subseteq known[m]
        /\ \A m \in Nodes : m # n => local'[m] = local[m] /\ inbox'[m] = inbox[m]
        /\ DOMAIN local' = Nodes /\ DOMAIN inbox' = Nodes
        /\ local'[n] \in Locals(n) /\ inbox'[n] = <<>>
        /\ deaf' = deaf \cup ({n} \X Devices(n))
    BY <1>10, RestartSteps
  <2>2. deaf' \subseteq AllDevices
    BY <2>1 DEF TypesOK, AllDevices
  <2>3. \A m \in Nodes : inbox'[m] \in Seq(Sent) /\ Len(inbox'[m]) <= MaxBuffer
    <3>1. Len(<<>>) = 0 /\ MaxBuffer \in Nat /\ <<>> \in Seq(Sent)
      BY EndpointsAssumption
    <3>2. \A m \in Nodes : m # n => inbox'[m] \in Seq(Sent) /\ Len(inbox'[m]) <= MaxBuffer
      BY <2>1 DEF TypesOK
    <3>3. inbox'[n] \in Seq(Sent) /\ Len(inbox'[n]) <= MaxBuffer
      BY <2>1, <3>1
    <3> QED BY <3>2, <3>3
  <2> QED BY <2>1, <2>2, <2>3 DEF TypesOK
<1> HIDE DEF Ty
<1> QED BY <1>1, <1>2, <1>3, <1>4, <1>5, <1>6, <1>7, <1>8, <1>9, <1>10 DEF Next, Local

(* The types hold always.                                                  *)
LEMMA TypesInvariant == Spec => [](Installed /\ TypesOK)
<1>1. Spec => []Installed
  BY InstalledInvariant
<1>2. Installed /\ Init => TypesOK
  BY InitTypes
<1>3. Installed /\ TypesOK /\ [Next]_vars => TypesOK'
  BY NextTypes
<1> QED BY <1>1, <1>2, <1>3, PTL DEF Spec

(* Values, queues, buffers, directories and tables have their types and    *)
(* stay within their bounds, for any number of nodes, configurations and   *)
(* sizes: a queue never holds more than QueueSize frames, a table never    *)
(* more than TableSize entries, and only lights wait for their output      *)
(* (publish_state, publish_event, handle).                                 *)
THEOREM DevicesTyped == Spec => []TypeOK
<1>1. Installed /\ TypesOK => TypeOK
  <2> SUFFICES ASSUME Installed, TypesOK PROVE TypeOK
    OBVIOUS
  <2>1. \A n \in Nodes : \A t \in DOMAIN tables[n] : Len(tables[n][t]) <= TableSize
    BY DEF Installed, Wired
  <2>2. ASSUME NEW n \in Nodes
        PROVE  /\ local[n].value \in [Devices(n) -> {Off, On, Unset}]
               /\ local[n].dirty \subseteq Lights(layout[n]) /\ local[n].mute \subseteq Devices(n)
               /\ local[n].states \in Seq(Frame) /\ Len(local[n].states) <= QueueSize
               /\ local[n].events \in Seq(Frame) /\ Len(local[n].events) <= QueueSize
               /\ inbox[n] \in Seq(Frame) /\ Len(inbox[n]) <= MaxBuffer
    <3>1. StateFrames(n) \subseteq Sent /\ EventFrames(n) \subseteq Sent
      BY DEF Sent
    <3>2. \A f \in Sent : f \in Frame
      BY SentFrame
    <3>3. /\ local[n].value \in [Devices(n) -> {Off, On, Unset}]
          /\ local[n].dirty \in SUBSET Lights(layout[n]) /\ local[n].mute \in SUBSET Devices(n)
          /\ local[n].states \in Seq(StateFrames(n)) /\ local[n].events \in Seq(EventFrames(n))
          /\ Len(local[n].states) <= QueueSize /\ Len(local[n].events) <= QueueSize
      BY LocalParts DEF TypesOK
    <3>4. inbox[n] \in Seq(Sent) /\ Len(inbox[n]) <= MaxBuffer
      BY DEF TypesOK
    <3>5. StateFrames(n) \subseteq Frame /\ EventFrames(n) \subseteq Frame /\ Sent \subseteq Frame
      BY <3>1, <3>2
    <3> QED BY <3>3, <3>4, <3>5, SeqLarger
  <2> QED BY <2>1, <2>2 DEF TypeOK, TypesOK
<1> QED BY <1>1, TypesInvariant, PTL

-----------------------------------------------------------------------------
(* Part 3.  Togglers                                                       *)

\* The events of the gesture g of a button with the entity e.
Named(e, g) ==
  {f \in Sent : /\ f.kind = "event" /\ f.gesture = g
                /\ \E o \in Range(tables[f.source].owned) : o.endpoint = f.endpoint /\ o.entity = e}

\* A device that reacts to the gesture g of e, and to nothing else, by toggling.
TogglesAt(n, i, e, g) ==
  /\ n \in Nodes /\ i \in Devices(n) /\ Kind(n, i) \in {"switch", "light"}
  /\ layout[n][i].source = NoEntity /\ <<n, i>> \notin Mirrors /\ HasListeners(n)
  /\ e \notin OwnEntities(n) /\ e # NoEntity
  /\ \E x \in Range(tables[n].events) :
       /\ x.device = i /\ x.entity = e
       /\ layout[n][i].bindings[x.binding].gesture = g
       /\ layout[n][i].bindings[x.binding].action = "toggle"
       /\ \A y \in Range(tables[n].events) : y.device = i => y = x

(* A mirror is a switch whose listener has found its slot.                 *)
LEMMA MirrorListens ==
  ASSUME Installed, NEW x \in Mirrors
  PROVE  /\ x[1] \in Nodes /\ x[2] \in Devices(x[1]) /\ x = <<x[1], x[2]>>
         /\ StateListener(layout[x[1]], x[2]) \in Range(tables[x[1]].states)
         /\ Declared(x).source # NoEntity /\ Kind(x[1], x[2]) = "switch"
<1>1. x \in AllDevices /\ Contains(tables[x[1]].states, StateListener(layout[x[1]], x[2]))
  BY DEF Mirrors
<1>2. x[1] \in Nodes /\ x[2] \in Devices(x[1]) /\ x = <<x[1], x[2]>>
  BY <1>1 DEF AllDevices
<1>3. StateListener(layout[x[1]], x[2]) \in Range(tables[x[1]].states)
  BY <1>1 DEF Contains, Range
<1>4. StateListener(layout[x[1]], x[2]).device = x[2]
  BY DEF StateListener
<1> QED BY <1>2, <1>3, <1>4, StateListenerDevice DEF Declared

(* A toggler has exactly one listener, which toggles.                      *)
LEMMA TogglerListens ==
  ASSUME Installed, NEW e, NEW g, NEW z \in Togglers(e, g)
  PROVE  TogglesAt(z[1], z[2], e, g) /\ z = <<z[1], z[2]>>
<1> DEFINE n == z[1]
           i == z[2]
           ls == EventListeners(layout[n], i)
           x == ls[1]
<1>1. /\ z \in AllDevices /\ e \notin OwnEntities(n) /\ layout[n][i].source = NoEntity
      /\ layout[n][i].bindings = <<[entity |-> e, gesture |-> g, action |-> "toggle"]>>
      /\ Contains(tables[n].events, x)
  BY DEF Togglers, Declared
<1>2. n \in Nodes /\ i \in Devices(n) /\ z = <<n, i>>
  BY <1>1 DEF AllDevices
<1>3. DOMAIN layout[n][i].bindings = {1}
  BY <1>1
<1>4. /\ x = [device |-> i, binding |-> 1, entity |-> layout[n][i].bindings[1].entity]
      /\ layout[n][i].bindings[1] = [entity |-> e, gesture |-> g, action |-> "toggle"]
  BY <1>1, <1>3 DEF EventListeners
<1> HIDE DEF x
<1>5. x \in Range(tables[n].events) /\ tables[n].events # <<>>
  BY <1>1 DEF Contains, Range
<1>6. ASSUME NEW y \in Range(tables[n].events), y.device = i PROVE y = x
  <2>1. y.binding \in DOMAIN layout[n][i].bindings /\ y = EventListeners(layout[n], i)[y.binding]
    BY <1>2, <1>6, EventListenerDevice
  <2> QED BY <1>3, <2>1 DEF x
<1>7. Kind(n, i) \in {"switch", "light"} /\ e # NoEntity
  BY <1>2, <1>4, <1>5, EventListenerDevice
<1>8. <<n, i>> \notin Mirrors
  BY <1>1, <1>2, MirrorListens DEF Declared
<1>9. HasListeners(n)
  BY <1>5 DEF HasListeners
<1>10. x.device = i /\ x.entity = e /\ x.binding = 1
       /\ layout[n][i].bindings[x.binding].gesture = g
       /\ layout[n][i].bindings[x.binding].action = "toggle"
  BY <1>4
<1> QED BY <1>1, <1>2, <1>5, <1>6, <1>7, <1>8, <1>9, <1>10 DEF TogglesAt

\* It is bound to those events, and waits for as many as there are in its buffer.
LEMMA TogglerBound ==
  ASSUME Installed, TypesOK, NEW n, NEW i, NEW e, NEW g, TogglesAt(n, i, e, g)
  PROVE  /\ \A f \in Sent : f \in Named(e, g) <=> f.kind = "event" /\ i \in Bound(n, f)
         /\ \A f \in Named(e, g) : f.source # n
         /\ Parity(<<n, i>>) = ((IF local[n].value[i] = On THEN 1 ELSE 0)
                                  + HowMany(Named(e, g), inbox[n])) % 2
<1>1. PICK x \in Range(tables[n].events) :
       /\ x.device = i /\ x.entity = e
       /\ layout[n][i].bindings[x.binding].gesture = g
       /\ \A y \in Range(tables[n].events) : y.device = i => y = x
  BY DEF TogglesAt
<1>2. ASSUME NEW f \in Sent
      PROVE  f \in Named(e, g) <=> f.kind = "event" /\ i \in Bound(n, f)
  <2>1. i \in Bound(n, f) <=> /\ g = f.gesture
                              /\ \E o \in Range(tables[f.source].owned) :
                                   o.endpoint = f.endpoint /\ o.entity = e
    BY <1>1 DEF Bound
  <2> QED BY <2>1 DEF Named
<1>3. \A f \in Named(e, g) : f.source # n
  BY DEF Named, TogglesAt, OwnEntities
<1>4. inbox[n] \in Seq(Sent)
  BY DEF TypesOK, TogglesAt
<1>5. \A k \in DOMAIN inbox[n] : inbox[n][k] \in Sent
  BY <1>4, LenProperties, ElementOfSeq
<1>6. {k \in DOMAIN inbox[n] : inbox[n][k].kind = "event" /\ i \in Bound(n, inbox[n][k])}
        = {k \in DOMAIN inbox[n] : inbox[n][k] \in Named(e, g)}
  BY <1>2, <1>5
<1>7. <<n, i>>[1] = n /\ <<n, i>>[2] = i
  OBVIOUS
<1>8. Parity(<<n, i>>) = ((IF local[n].value[i] = On THEN 1 ELSE 0)
        + Cardinality({k \in DOMAIN inbox[n] :
                         inbox[n][k].kind = "event" /\ i \in Bound(n, inbox[n][k])})) % 2
  BY ONLY <1>7, Zenon DEF Parity
<1> QED BY <1>2, <1>3, <1>6, <1>8 DEF HowMany

(* Who mirrors whom, and who toggles on what, is fixed by the              *)
(* configuration.                                                          *)
LEMMA FixedWiring ==
  ASSUME config' = config
  PROVE  /\ Mirrors' = Mirrors /\ \A x : SourceOf(x)' = SourceOf(x)
         /\ \A m, S : MirrorsOf(m, S)' = MirrorsOf(m, S)
         /\ \A x : From(x)' = From(x)
         /\ \A m, j : Sole(m, j)' <=> Sole(m, j)
         /\ \A n, f : Bound(n, f)' = Bound(n, f)
         /\ \A e, g : Togglers(e, g)' = Togglers(e, g)
         /\ \A n : OwnEntities(n)' = OwnEntities(n)
<1>1. layout' = layout /\ tables' = tables /\ AllDevices' = AllDevices
      /\ \A n : Devices(n)' = Devices(n)
  BY FixedTypes DEF config
<1>2. \A x : Declared(x)' = Declared(x)
  BY <1>1 DEF Declared
<1>3. \A n, p : Publishers(n, p)' = Publishers(n, p)
  BY <1>1 DEF Publishers, Devices, Kind
<1>4. \A e : Sources(e)' = Sources(e)
  BY <1>1, <1>3 DEF Sources
<1>5. Mirrors' = Mirrors
  BY <1>1, <1>2, <1>4 DEF Mirrors
<1>6. \A x : SourceOf(x)' = SourceOf(x)
  BY <1>2, <1>4 DEF SourceOf
<1>7. \A m, S : MirrorsOf(m, S)' = MirrorsOf(m, S)
  BY <1>5, <1>6 DEF MirrorsOf
<1>8. \A x : From(x)' = From(x)
  BY <1>2 DEF From
<1>9. \A m, j : Sole(m, j)' <=> Sole(m, j)
  BY <1>1, <1>3 DEF Sole
<1>10. \A n, f : Bound(n, f)' = Bound(n, f)
  BY <1>1 DEF Bound
<1>11. \A n : OwnEntities(n)' = OwnEntities(n)
  BY <1>1 DEF OwnEntities
<1>12. \A e, g : Togglers(e, g)' = Togglers(e, g)
  BY <1>1, <1>2, <1>11 DEF Togglers
<1> QED BY <1>5, <1>6, <1>7, <1>8, <1>9, <1>10, <1>11, <1>12

(* TogglerBound after a step.                                              *)
LEMMA ParityNext ==
  ASSUME Installed, TypesOK, TypesOK', config' = config,
         NEW n, NEW i, NEW e, NEW g, TogglesAt(n, i, e, g)
  PROVE  Parity(<<n, i>>)' = ((IF local'[n].value[i] = On THEN 1 ELSE 0)
                                + HowMany(Named(e, g), inbox'[n])) % 2
<1> DEFINE q == inbox'[n]
<1>1. q \in Seq(Sent)
  BY FixedTypes DEF TypesOK, TogglesAt
<1>2. \A f \in Sent : f \in Named(e, g) <=> f.kind = "event" /\ i \in Bound(n, f)
  BY TogglerBound
<1>3. {k \in DOMAIN q : q[k].kind = "event" /\ i \in Bound(n, q[k])}
        = {k \in DOMAIN q : q[k] \in Named(e, g)}
  <2> HIDE DEF q
  <2>1. \A k \in DOMAIN q : q[k] \in Sent
    BY <1>1, LenProperties, ElementOfSeq
  <2> QED BY <1>2, <2>1
<1>4. <<n, i>>[1] = n /\ <<n, i>>[2] = i
  OBVIOUS
<1>5. layout' = layout /\ tables' = tables
  BY DEF config
<1> DEFINE z == <<n, i>>
           B(m, f) == {x.device : x \in {y \in Range(tables'[m].events) :
                         /\ layout'[m][y.device].bindings[y.binding].gesture = f.gesture
                         /\ \E o \in Range(tables'[f.source].owned) :
                              o.endpoint = f.endpoint /\ o.entity = y.entity}}
<1>6. \A m, f : B(m, f) = Bound(m, f)
  BY <1>5 DEF Bound
<1> HIDE DEF z
<1>7. Parity(z)' = ((IF local'[z[1]].value[z[2]] = On THEN 1 ELSE 0)
        + Cardinality({k \in DOMAIN inbox'[z[1]] :
             inbox'[z[1]][k].kind = "event" /\ z[2] \in B(z[1], inbox'[z[1]][k])})) % 2
  BY DEF Parity, Bound
<1> HIDE DEF B, q
<1>8. {k \in DOMAIN q : q[k].kind = "event" /\ i \in B(n, q[k])}
        = {k \in DOMAIN q : q[k].kind = "event" /\ i \in Bound(n, q[k])}
  BY <1>6
<1>9. z = <<n, i>> /\ z[1] = n /\ z[2] = i /\ inbox'[n] = q
  BY DEF z, q
<1>10. Parity(<<n, i>>)' = ((IF local'[n].value[i] = On THEN 1 ELSE 0)
        + Cardinality({k \in DOMAIN q : q[k].kind = "event" /\ i \in B(n, q[k])})) % 2
  <2>1. Parity(<<n, i>>)' = Parity(z)'
    BY DEF z
  <2> QED BY ONLY <1>7, <1>9, <2>1
<1> QED BY <1>3, <1>8, <1>10 DEF HowMany, q

-----------------------------------------------------------------------------
\* The state of device i of node n and the events waiting for it are b and c.
Sum(n, i, H) == (IF local[n].value[i] = On THEN 1 ELSE 0) + HowMany(H, inbox[n])
SumNext(n, i, H) == (IF local'[n].value[i] = On THEN 1 ELSE 0) + HowMany(H, inbox'[n])

Even(n, i, H) ==
  SumNext(n, i, H) = Sum(n, i, H) \/ SumNext(n, i, H) + 2 = Sum(n, i, H)
Odd(n, i, H)  == SumNext(n, i, H) = Sum(n, i, H) + 1

\* Every toggler, or none, has one more change behind it.
Alike(e, g) ==
  \/ \A n, i : TogglesAt(n, i, e, g) /\ <<n, i>> \notin deaf'
       => <<n, i>> \notin deaf /\ Even(n, i, Named(e, g))
  \/ \A n, i : TogglesAt(n, i, e, g) /\ <<n, i>> \notin deaf'
       => <<n, i>> \notin deaf /\ Odd(n, i, Named(e, g))

(* A device that keeps its state and its buffer stays even.                *)
LEMMA SumSame ==
  ASSUME NEW n, NEW i, NEW H, local'[n].value[i] = local[n].value[i], inbox'[n] = inbox[n]
  PROVE  Even(n, i, H)
BY DEF Even, Sum, SumNext

(* A toggler that is in touch after a step was so before it.               *)
LEMMA TogglersLocal ==
  ASSUME Installed, TypesOK, NEW n \in Nodes, NEW u, NEW lost, StepTo(n, u, lost),
         NEW m, NEW i, NEW e, NEW g, TogglesAt(m, i, e, g), <<m, i>> \notin deaf'
  PROVE  /\ <<m, i>> \notin deaf /\ <<m, i>> \notin lost
         /\ m # n => local'[m] = local[m]
         /\ m = n => local'[m] = u
<1>1. deaf' = (deaf \ MirrorsOf(n, {j \in Devices(n) : \E f \in Range(u.states) :
                 f.endpoint = layout[n][j].endpoint /\ ~Queued(local[n], f)})) \cup lost
  BY DEF StepTo, Becomes
<1>2. <<m, i>> \notin Mirrors
  BY DEF TogglesAt
<1>3. <<m, i>> \notin deaf /\ <<m, i>> \notin lost
  BY <1>1, <1>2 DEF MirrorsOf
<1> QED BY <1>3, StepTypes DEF TogglesAt

(* A toggler that takes its gesture from the buffer changes its state for  *)
(* it, and one that takes another frame does not.                          *)
LEMMA TogglersReceive ==
  ASSUME Installed, TypesOK, NEW n \in Nodes, Receive(n), NEW e, NEW g
  PROVE  Alike(e, g)
<1> DEFINE H == Named(e, g)
           f == Head(inbox[n])
<1> SUFFICES ASSUME NEW m, NEW i, TogglesAt(m, i, e, g), <<m, i>> \notin deaf'
             PROVE  <<m, i>> \notin deaf /\ Even(m, i, H)
  BY DEF Alike
<1>1. /\ inbox[n] # <<>> /\ inbox' = [inbox EXCEPT ![n] = Tail(@)] /\ f \in Sent
      /\ \E u : ReceivedState(n, f, u) \/ ReceivedEvent(n, f, u)
  BY ReceiveSteps
<1>2. PICK u : ReceivedState(n, f, u) \/ ReceivedEvent(n, f, u)
  BY <1>1
<1>3. PICK lost : StepTo(n, u, lost)
  BY <1>2 DEF ReceivedState, ReceivedEvent
<1>4. /\ <<m, i>> \notin deaf /\ (m # n => local'[m] = local[m]) /\ (m = n => local'[m] = u)
  BY <1>3, TogglersLocal
<1>5. /\ DOMAIN inbox = Nodes /\ m \in Nodes /\ i \in Devices(m) /\ inbox[n] \in Seq(Sent)
  BY DEF TypesOK, TogglesAt
<1>6. CASE m # n
  <2>1. inbox'[m] = inbox[m]
    BY <1>1, <1>5, <1>6
  <2> QED BY <1>4, <1>6, <2>1, SumSame
<1>7. CASE m = n
  <2>1. inbox'[n] = Tail(inbox[n])
    BY <1>1, <1>5
  <2>2. HowMany(H, inbox[n]) = IF f \in H THEN HowMany(H, inbox'[n]) + 1 ELSE HowMany(H, inbox'[n])
    BY <1>1, <1>5, <2>1, HowManyTail
  <2>3. HowMany(H, inbox'[n]) \in Nat
    BY <1>1, <1>5, <2>1, HeadTailProperties, HowManyType
  <2>4. f \in H <=> f.kind = "event" /\ i \in Bound(n, f)
    BY <1>1, <1>7, TogglerBound
  <2> HIDE DEF H, f
  <2>5. CASE ReceivedState(n, f, u)
    <3>1. f \notin H /\ MirroredTo(n, f, local[n], u)
      BY <2>4, <2>5 DEF ReceivedState
    <3>2. ~Heard(n, f, i)
      <4>1. ASSUME NEW x \in Range(tables[n].states), x.device = i PROVE FALSE
        <5>1. layout[n][i].source # NoEntity
          BY <4>1, StateListenerDevice
        <5> QED BY <1>7, <5>1 DEF TogglesAt
      <4> QED BY <4>1 DEF Heard
    <3>3. u.value[i] = local[n].value[i]
      BY <1>5, <1>7, <3>1, <3>2 DEF MirroredTo
    <3> QED BY <1>4, <1>7, <2>2, <3>1, <3>3 DEF Even, Sum, SumNext
  <2>6. CASE ReceivedEvent(n, f, u)
    <3>1. /\ f.kind = "event" /\ ActedTo(n, f, local[n], u)
          /\ {n} \X {k \in Bound(n, f) : Unknown(n, f) \/ layout[n][k].source # NoEntity} \subseteq deaf'
      BY <2>6 DEF ReceivedEvent, StepTo, Becomes, LostEvent
    <3>2. f \in H => ~Unknown(n, f)
      BY <1>7, <2>4, <3>1
    <3>3. PICK x \in Range(tables[n].events) :
            /\ x.device = i /\ x.entity = e
            /\ layout[n][i].bindings[x.binding].gesture = g
            /\ layout[n][i].bindings[x.binding].action = "toggle"
            /\ \A y \in Range(tables[n].events) : y.device = i => y = x
      BY <1>7 DEF TogglesAt
    <3>4. Reacts(n, f, x) <=> f \in H
      <4>1. f.source \in Nodes
        BY <1>1, SentFrame
      <4>2. ASSUME Reacts(n, f, x) PROVE f \in H
        <5>1. /\ EntityFor(n, f.source, f.endpoint) # NoEntity
              /\ e = EntityFor(n, f.source, f.endpoint) /\ f.gesture = g
          BY <3>3, <4>2 DEF Reacts, Listens
        <5>2. <<f.source, f.endpoint>> \in known[n]
          BY <5>1 DEF EntityFor
        <5>3. Owns(f.source, f.endpoint)
          BY <5>2 DEF TypesOK
        <5>4. PICK o \in Range(tables[f.source].owned) : o.endpoint = f.endpoint
          BY <5>3 DEF Owns, Range
        <5>5. e = o.entity
          BY <4>1, <5>1, <5>2, <5>4, EntityOf
        <5> QED BY <1>1, <3>1, <5>1, <5>4, <5>5 DEF H, Named
      <4>3. ASSUME f \in H PROVE Reacts(n, f, x)
        <5>1. PICK o \in Range(tables[f.source].owned) : o.endpoint = f.endpoint /\ o.entity = e
          BY <4>3 DEF H, Named
        <5>2. <<f.source, f.endpoint>> \in known[n]
          BY <3>2, <4>3 DEF Unknown
        <5>3. EntityFor(n, f.source, f.endpoint) = e /\ e # NoEntity
          BY <4>1, <5>1, <5>2, EntityOf
        <5>4. f.gesture = g
          BY <4>3 DEF H, Named
        <5> QED BY <3>3, <5>3, <5>4 DEF Reacts, Listens
      <4> QED BY <4>2, <4>3
    <3>5. CASE f \notin H
      <4>1. \A y \in Range(tables[n].events) : y.device = i => ~Reacts(n, f, y)
        BY <3>3, <3>4, <3>5
      <4>2. u.value[i] = local[n].value[i]
        BY <1>5, <1>7, <3>1, <4>1 DEF ActedTo
      <4> QED BY <1>4, <1>7, <2>2, <3>5, <4>2 DEF Even, Sum, SumNext
    <3>6. CASE f \in H
      <4>1. u.value[i] = Reaction(n, x, local[n].value[i])
        BY <1>5, <1>7, <3>1, <3>3, <3>4, <3>6 DEF ActedTo
      <4>2. u.value[i] = IF local[n].value[i] = On THEN Off ELSE On
        BY <3>3, <4>1 DEF Reaction, Wanted, Toggled
      <4> DEFINE a == HowMany(H, inbox[n])
                 b == HowMany(H, inbox'[n])
      <4>3. a = b + 1 /\ b \in Nat /\ local'[n] = u
        BY <1>4, <1>7, <2>2, <2>3, <3>6
      <4>4. Sum(n, i, H) = (IF local[n].value[i] = On THEN 1 ELSE 0) + a
            /\ SumNext(n, i, H) = (IF local[n].value[i] = On THEN 0 ELSE 1) + b
        BY <4>2, <4>3 DEF Sum, SumNext, On, Off
      <4> HIDE DEF a, b
      <4>5. Even(n, i, H)
        BY <4>3, <4>4 DEF Even
      <4> QED BY <1>4, <1>7, <4>5
    <3> QED BY <3>5, <3>6
  <2> QED BY <1>2, <2>5, <2>6 DEF H, f
<1> QED BY <1>6, <1>7

(* No step makes a difference between the togglers of a gesture.           *)
LEMMA TogglersSteps ==
  ASSUME Installed, TypesOK, [Next]_vars, NEW e, NEW g
  PROVE  Alike(e, g)
<1> DEFINE H == Named(e, g)
           Same2(m, i) == /\ <<m, i>> \notin deaf /\ local'[m].value[i] = local[m].value[i]
                          /\ inbox'[m] = inbox[m]
<1>1. ASSUME \A m, i : TogglesAt(m, i, e, g) /\ <<m, i>> \notin deaf' => Same2(m, i)
      PROVE  Alike(e, g)
  BY <1>1, SumSame DEF Alike
<1>2. CASE UNCHANGED vars
  BY <1>1, <1>2 DEF vars
<1>3. ASSUME NEW n \in Nodes, NEW k \in Devices(n), NEW p, Local(n, k, p) PROVE Alike(e, g)
  <2>1. inbox' = inbox /\ \E u, lost : StepTo(n, u, lost) /\ Quiet(n, u, lost)
    BY <1>3, LocalSteps
  <2>2. PICK u, lost : StepTo(n, u, lost) /\ Quiet(n, u, lost)
    BY <2>1
  <2>3. ASSUME NEW m, NEW i, TogglesAt(m, i, e, g), <<m, i>> \notin deaf' PROVE Same2(m, i)
    <3>1. /\ <<m, i>> \notin deaf /\ <<m, i>> \notin lost
          /\ (m # n => local'[m] = local[m]) /\ (m = n => local'[m] = u)
      BY <2>2, <2>3, TogglersLocal
    <3>2. m = n => u.value[i] = local[n].value[i]
      BY <2>2, <2>3, <3>1 DEF Quiet, TogglesAt
    <3> QED BY <2>1, <3>1, <3>2
  <2> QED BY <1>1, <2>3
<1>4. ASSUME NEW n \in Nodes, NEW k \in Devices(n), NEW h \in Gestures, PublishEvent(n, k, h)
      PROVE  Alike(e, g)
  <2>1. /\ inbox' = inbox /\ deaf' = deaf /\ local'[n].value = local[n].value
        /\ \A m \in Nodes : m # n => local'[m] = local[m]
    BY <1>4, PublishEventSteps
  <2>2. ASSUME NEW m, NEW i, TogglesAt(m, i, e, g), <<m, i>> \notin deaf' PROVE Same2(m, i)
    BY <2>1, <2>2 DEF TogglesAt
  <2> QED BY <1>1, <2>2
<1>5. ASSUME NEW n \in Nodes, Transmit(n) PROVE Alike(e, g)
  <2> DEFINE f == FirstOut(local[n])
  <2>1. /\ deaf' = deaf /\ local'[n].value = local[n].value
        /\ \A m \in Nodes : m # n => local'[m] = local[m]
        /\ \A m \in Nodes : inbox'[m] = IF m \in Reached(n) THEN Append(inbox[m], f) ELSE inbox[m]
        /\ f \in StateFrames(n) \cup EventFrames(n)
    BY <1>5, TransmitSteps DEF Left, TransmittedBy
  <2>2. f \in Sent /\ f.source = n
    BY <2>1 DEF Sent, StateFrames, EventFrames
  <2> HIDE DEF f
  <2>3. ASSUME NEW m, NEW i, TogglesAt(m, i, e, g)
        PROVE  /\ inbox[m] \in Seq(Sent) /\ HowMany(H, inbox[m]) \in Nat /\ m \in Nodes
               /\ HowMany(H, Append(inbox[m], f)) =
                    IF f \in H THEN HowMany(H, inbox[m]) + 1 ELSE HowMany(H, inbox[m])
               /\ f \in H => m \in Reached(n)
               /\ local'[m].value[i] = local[m].value[i]
    <3>1. inbox[m] \in Seq(Sent) /\ m \in Nodes /\ HasListeners(m)
      BY <2>3 DEF TypesOK, TogglesAt
    <3>2. HowMany(H, inbox[m]) \in Nat
          /\ HowMany(H, Append(inbox[m], f)) =
                    IF f \in H THEN HowMany(H, inbox[m]) + 1 ELSE HowMany(H, inbox[m])
      <4> HIDE DEF H
      <4> QED BY <2>2, <3>1, HowManyType, HowManyAppend
    <3>3. f \in H => f.source # m
      BY <2>3, TogglerBound
    <3>4. f \in H => m \in Reached(n)
      BY <2>2, <3>1, <3>3 DEF Reached
    <3> QED BY <2>1, <3>1, <3>2, <3>4
  <2> HIDE DEF H
  <2>4. CASE f \in H
    <3>1. ASSUME NEW m, NEW i, TogglesAt(m, i, e, g), <<m, i>> \notin deaf'
          PROVE  <<m, i>> \notin deaf /\ Odd(m, i, H)
      BY <2>1, <2>3, <2>4, <3>1 DEF Odd, Sum, SumNext
    <3> QED BY <3>1 DEF Alike, H
  <2>5. CASE f \notin H
    <3>1. ASSUME NEW m, NEW i, TogglesAt(m, i, e, g), <<m, i>> \notin deaf'
          PROVE  <<m, i>> \notin deaf /\ Even(m, i, H)
      BY <2>1, <2>3, <2>5, <3>1 DEF Even, Sum, SumNext
    <3> QED BY <3>1 DEF Alike, H
  <2> QED BY <2>4, <2>5
<1>6. ASSUME NEW n \in Nodes, Refuse(n) PROVE Alike(e, g)
  <2>1. /\ inbox' = inbox /\ deaf \subseteq deaf' /\ local'[n].value = local[n].value
        /\ \A m \in Nodes : m # n => local'[m] = local[m]
    BY <1>6, RefuseSteps DEF Left
  <2>2. ASSUME NEW m, NEW i, TogglesAt(m, i, e, g), <<m, i>> \notin deaf' PROVE Same2(m, i)
    BY <2>1, <2>2 DEF TogglesAt
  <2> QED BY <1>1, <2>2
<1>7. ASSUME NEW n \in Nodes, Receive(n) PROVE Alike(e, g)
  BY <1>7, TogglersReceive
<1>8. ASSUME NEW n \in Nodes, NEW m \in Nodes, NEW p, Learn(n, m, p) \/ Adopt(n)
      PROVE  Alike(e, g)
  <2>1. local' = local /\ inbox' = inbox /\ deaf' = deaf
    BY <1>8 DEF Learn, Adopt
  <2> QED BY <1>1, <2>1
<1>9. ASSUME NEW n \in Nodes, Restart(n) PROVE Alike(e, g)
  <2>1. /\ \A m \in Nodes : m # n => local'[m] = local[m] /\ inbox'[m] = inbox[m]
        /\ deaf' = deaf \cup ({n} \X Devices(n))
    BY <1>9, RestartSteps
  <2>2. ASSUME NEW m, NEW i, TogglesAt(m, i, e, g), <<m, i>> \notin deaf' PROVE Same2(m, i)
    <3>1. m \in Nodes /\ m # n
      BY <2>1, <2>2 DEF TogglesAt
    <3> QED BY <2>1, <2>2, <3>1
  <2> QED BY <1>1, <2>2
<1> HIDE DEF Same2
<1> QED BY <1>2, <1>3, <1>4, <1>5, <1>6, <1>7, <1>8, <1>9 DEF Next, Local

(* Parity is that of the sum of the state and the waiting gestures.        *)
LEMMA SumTypes ==
  ASSUME Installed, TypesOK, TypesOK', config' = config, NEW n, NEW i, NEW e, NEW g,
         TogglesAt(n, i, e, g)
  PROVE  /\ Sum(n, i, Named(e, g)) \in Nat /\ SumNext(n, i, Named(e, g)) \in Nat
         /\ Parity(<<n, i>>) = Sum(n, i, Named(e, g)) % 2
         /\ Parity(<<n, i>>)' = SumNext(n, i, Named(e, g)) % 2
<1> DEFINE H == Named(e, g)
<1>1. inbox[n] \in Seq(Sent) /\ inbox'[n] \in Seq(Sent)
  BY FixedTypes DEF TypesOK, TogglesAt
<1>2. HowMany(H, inbox[n]) \in Nat /\ HowMany(H, inbox'[n]) \in Nat
  <2> HIDE DEF H
  <2> QED BY <1>1, HowManyType
<1>3. Sum(n, i, H) \in Nat /\ SumNext(n, i, H) \in Nat
  BY <1>2 DEF Sum, SumNext
<1>4. Parity(<<n, i>>) = Sum(n, i, H) % 2
  BY TogglerBound DEF Sum
<1>5. Parity(<<n, i>>)' = SumNext(n, i, H) % 2
  BY ParityNext DEF SumNext
<1> QED BY <1>3, <1>4, <1>5

(* Every step keeps the togglers in agreement.                             *)
LEMMA TogglesNext ==
  ASSUME Installed, TypesOK, TypesOK', TogglesAgree, [Next]_vars
  PROVE  TogglesAgree'
<1>1. config' = config
  BY NextConfig
<1>2. /\ \A e, g : Togglers(e, g)' = Togglers(e, g)
      /\ \A n : OwnEntities(n)' = OwnEntities(n)
  BY <1>1, FixedWiring
<1> SUFFICES ASSUME NEW e \in UNION {OwnEntities(n) : n \in Nodes}, NEW g \in Gestures,
                    NEW x \in Togglers(e, g) \ deaf', NEW y \in Togglers(e, g) \ deaf'
             PROVE  Parity(x)' = Parity(y)'
  BY <1>2 DEF TogglesAgree
<1>3. /\ TogglesAt(x[1], x[2], e, g) /\ x = <<x[1], x[2]>>
      /\ TogglesAt(y[1], y[2], e, g) /\ y = <<y[1], y[2]>>
  BY TogglerListens
<1> DEFINE a == Sum(x[1], x[2], Named(e, g))
           b == Sum(y[1], y[2], Named(e, g))
           c == SumNext(x[1], x[2], Named(e, g))
           d == SumNext(y[1], y[2], Named(e, g))
<1>4. /\ a \in Nat /\ c \in Nat /\ Parity(x) = a % 2 /\ Parity(x)' = c % 2
  BY <1>1, <1>3, SumTypes
<1>5. /\ b \in Nat /\ d \in Nat /\ Parity(y) = b % 2 /\ Parity(y)' = d % 2
  BY <1>1, <1>3, SumTypes
<1>6. /\ x \notin deaf /\ y \notin deaf
      /\ \/ (c = a \/ c + 2 = a) /\ (d = b \/ d + 2 = b)
         \/ c = a + 1 /\ d = b + 1
  <2>1. Alike(e, g)
    BY TogglersSteps
  <2> QED BY <1>3, <2>1 DEF Alike, Even, Odd
<1>7. a % 2 = b % 2
  BY <1>4, <1>5, <1>6 DEF TogglesAgree
<1> HIDE DEF a, b, c, d
<1>8. c % 2 = d % 2
  BY <1>4, <1>5, <1>6, <1>7, Halves
<1> QED BY <1>4, <1>5, <1>8

(* Switches and lights that toggle on one gesture of one button agree,     *)
(* however many nodes there are, whatever else their configurations bind,  *)
(* and in whatever order the gestures reach them                           *)
(* (EventSourceBinding::event, apply_event_action, publish_event,          *)
(* drain_one, handle EVENT).                                               *)
THEOREM TogglersAgree == Spec => []TogglesAgree
<1>1. Spec => [](Installed /\ TypesOK)
  BY TypesInvariant
<1>2. Installed /\ Init => TogglesAgree
  <2> SUFFICES ASSUME Installed, Init,
                      NEW e \in UNION {OwnEntities(n) : n \in Nodes}, NEW g \in Gestures,
                      NEW x \in Togglers(e, g), NEW y \in Togglers(e, g)
               PROVE  Parity(x) = Parity(y)
    BY DEF TogglesAgree
  <2>1. ASSUME NEW z \in Togglers(e, g) PROVE Parity(z) = 0
    <3>1. TogglesAt(z[1], z[2], e, g) /\ z = <<z[1], z[2]>>
      BY TogglerListens
    <3>2. TypesOK
      BY InitTypes
    <3>3. z[1] \in Nodes /\ z[2] \in Devices(z[1])
      BY <3>1 DEF TogglesAt
    <3>4. inbox[z[1]] = <<>> /\ local[z[1]] = Boot(layout[z[1]])
      BY <3>3 DEF Init
    <3>5. local[z[1]].value[z[2]] # On
      BY <3>3, <3>4, BootType, EndpointsAssumption DEF Off, On, Unset
    <3>6. HowMany(Named(e, g), <<>>) = 0
      <4> DEFINE H == Named(e, g)
      <4>1. <<>> \in Seq(Sent)
        OBVIOUS
      <4> HIDE DEF H
      <4>2. HowMany(H, <<>>) = 0
        BY <4>1, HowManyType
      <4> QED BY <4>2 DEF H
    <3>7. Parity(<<z[1], z[2]>>) = ((IF local[z[1]].value[z[2]] = On THEN 1 ELSE 0)
                                  + HowMany(Named(e, g), inbox[z[1]])) % 2
      BY <3>1, <3>2, TogglerBound
    <3> QED BY <3>1, <3>4, <3>5, <3>6, <3>7
  <2> QED BY <2>1
<1>3. Installed /\ TypesOK /\ TypesOK' /\ TogglesAgree /\ [Next]_vars => TogglesAgree'
  BY TogglesNext
<1> QED BY <1>1, <1>2, <1>3, PTL DEF Spec

-----------------------------------------------------------------------------
(* Part 4.  Mirrors                                                        *)

\* Device i of node n mirrors device j of node m.
MirrorAt(n, i, m, j) ==
  /\ n \in Nodes /\ m \in Nodes /\ m # n
  /\ i \in Devices(n) /\ Kind(n, i) = "switch" /\ layout[n][i].source # NoEntity
  /\ Sole(m, j) /\ <<n, i>> \in Mirrors /\ SourceOf(<<n, i>>) = <<m, j>>
  /\ HasListeners(n)
  /\ \E x \in Range(tables[n].states) : x.device = i
  /\ \A x \in Range(tables[n].states) : x.device = i => x.entity = layout[n][i].source
  /\ \E o \in Range(tables[m].owned) :
       o.entity = layout[n][i].source /\ o.endpoint = layout[m][j].endpoint
  /\ Sources(layout[n][i].source) = {<<m, j>>}

(* A mirror and its source: one device of one other node, the only one     *)
(* that publishes under its endpoint.                                      *)
LEMMA MirrorWired ==
  ASSUME Installed, NEW z \in Mirrors
  PROVE  /\ MirrorAt(z[1], z[2], SourceOf(z)[1], SourceOf(z)[2])
         /\ z = <<z[1], z[2]>> /\ SourceOf(z) = <<SourceOf(z)[1], SourceOf(z)[2]>>
<1> DEFINE n == z[1]
           i == z[2]
           e == layout[n][i].source
           s == SourceOf(z)
           m == s[1]
           j == s[2]
           x == StateListener(layout[n], i)
<1>1. /\ n \in Nodes /\ i \in Devices(n) /\ z = <<n, i>> /\ x \in Range(tables[n].states)
      /\ e # NoEntity /\ Kind(n, i) = "switch"
  BY MirrorListens DEF Declared
<1>2. PICK t \in Sources(e) : t[1] # n /\ Sources(e) = {t}
  BY DEF Mirrors, Declared
<1>3. s = t
  BY <1>2 DEF SourceOf, Declared
<1> HIDE DEF s, x
<1>4. /\ s \in AllDevices /\ m # n /\ Sources(e) = {s}
      /\ \E o \in Range(tables[m].owned) : o.entity = e /\ j \in Publishers(m, o.endpoint)
  BY <1>2, <1>3 DEF Sources
<1>5. m \in Nodes /\ s = <<m, j>>
  BY <1>4 DEF AllDevices
<1>6. PICK o \in Range(tables[m].owned) : o.entity = e /\ j \in Publishers(m, o.endpoint)
  BY <1>4
<1>7. j \in Devices(m) /\ layout[m][j].endpoint = o.endpoint
  BY <1>6 DEF Publishers
<1>8. ASSUME NEW k \in Publishers(m, o.endpoint) PROVE k = j
  <2>1. k \in Devices(m) /\ <<m, k>> \in AllDevices
    BY <1>5 DEF Publishers, AllDevices
  <2>2. <<m, k>>[1] = m /\ <<m, k>>[2] = k
    OBVIOUS
  <2>3. <<m, k>> \in Sources(e)
    BY <1>6, <2>1, <2>2 DEF Sources
  <2>4. <<m, k>> = <<m, j>>
    BY <1>4, <1>5, <2>3
  <2> QED BY <2>4
<1>9. Sole(m, j)
  BY <1>6, <1>7, <1>8 DEF Sole
<1>10. x.device = i /\ HasListeners(n)
  <2>1. tables[n].states # <<>>
    BY <1>1 DEF Range
  <2> QED BY <2>1 DEF x, StateListener, HasListeners
<1>11. \A y \in Range(tables[n].states) : y.device = i => y.entity = e
  BY <1>1, StateListenerDevice
<1>12. SourceOf(<<n, i>>) = <<m, j>>
  BY <1>1, <1>5 DEF s
<1> QED BY <1>1, <1>4, <1>5, <1>6, <1>7, <1>9, <1>10, <1>11, <1>12 DEF MirrorAt, s

\* Once z has heard what is on its way, it shows the state of its source.
Follow(l, m, j, q, v) ==
  Speaks(l, j) => After(l.states, From(<<m, j>>), After(q, From(<<m, j>>), v)) = l.value[j]

(* InStep in terms of the two nodes.                                       *)
LEMMA InStepIs ==
  ASSUME NEW n, NEW i, NEW m, NEW j, MirrorAt(n, i, m, j)
  PROVE  InStep(<<n, i>>) <=> Follow(local[m], m, j, inbox[n], local[n].value[i])
<1>1. /\ <<n, i>>[1] = n /\ <<n, i>>[2] = i /\ <<m, j>>[1] = m /\ <<m, j>>[2] = j
      /\ SourceOf(<<n, i>>) = <<m, j>>
  BY DEF MirrorAt
<1> QED BY <1>1 DEF InStep, Follow, Said, Speaks

(* The same after a step.                                                  *)
LEMMA InStepNext ==
  ASSUME config' = config, NEW n, NEW i, NEW m, NEW j, MirrorAt(n, i, m, j)
  PROVE  InStep(<<n, i>>)' <=> Follow(local'[m], m, j, inbox'[n], local'[n].value[i])
<1>1. /\ <<n, i>>[1] = n /\ <<n, i>>[2] = i /\ <<m, j>>[1] = m /\ <<m, j>>[2] = j
      /\ SourceOf(<<n, i>>)' = <<m, j>>
  BY FixedWiring DEF MirrorAt
<1>2. From(<<m, j>>)' = From(<<m, j>>)
  BY FixedWiring
<1> QED BY <1>1, <1>2 DEF InStep, Follow, Said, Speaks

(* The frames that a mirror hears are those of its source, if it knows the *)
(* source.                                                                 *)
LEMMA MirrorHears ==
  ASSUME Installed, NEW n, NEW i, NEW m, NEW j, MirrorAt(n, i, m, j),
         NEW f \in Sent, f.kind = "state"
  PROVE  Heard(n, f, i) <=> f \in From(<<m, j>>) /\ ~Unknown(n, f)
<1> DEFINE e == layout[n][i].source
           p == f.source
<1>1. /\ p \in Nodes /\ Owns(p, f.endpoint) /\ Publishers(p, f.endpoint) # {}
      /\ f \in Frame
  BY SentFrame
<1>2. e # NoEntity /\ Sources(e) = {<<m, j>>} /\ Sole(m, j) /\ m \in Nodes
  BY DEF MirrorAt
<1>3. f \in From(<<m, j>>) <=> p = m /\ f.endpoint = layout[m][j].endpoint
  <2>1. <<m, j>>[1] = m /\ <<m, j>>[2] = j
    OBVIOUS
  <2> QED BY <1>1, <2>1 DEF From, Declared
<1>4. PICK x \in Range(tables[n].states) : x.device = i /\ x.entity = e
  BY DEF MirrorAt
<1>5. ASSUME Heard(n, f, i) PROVE f \in From(<<m, j>>) /\ ~Unknown(n, f)
  <2>1. PICK y \in Range(tables[n].states) : y.device = i /\ Listens(n, f, y)
    BY <1>5 DEF Heard
  <2>2. y.entity = e /\ EntityFor(n, p, f.endpoint) = e
    BY <2>1 DEF MirrorAt, Listens
  <2>3. ~Unknown(n, f)
    BY <2>1, UnknownUnheard
  <2>4. PICK o \in Range(tables[p].owned) : o.endpoint = f.endpoint
    BY <1>1 DEF Owns, Range
  <2>5. o.entity = e
    <3>1. EntityFor(n, p, o.endpoint) = IF <<p, o.endpoint>> \in known[n] THEN o.entity ELSE NoEntity
      BY <1>1, EntityOf
    <3> HIDE DEF p, e
    <3> QED BY <1>2, <2>2, <2>4, <3>1
  <2>6. PICK k \in Publishers(p, f.endpoint) : TRUE
    BY <1>1
  <2>7. <<p, k>> \in Sources(e)
    <3>1. k \in Devices(p) /\ <<p, k>> \in AllDevices
      BY <1>1, <2>6 DEF Publishers, AllDevices
    <3>2. <<p, k>>[1] = p /\ <<p, k>>[2] = k
      OBVIOUS
    <3> QED BY <2>4, <2>5, <2>6, <3>1, <3>2 DEF Sources
  <2>8. p = m /\ k = j
    BY <1>2, <2>7
  <2>9. f.endpoint = layout[m][j].endpoint
    BY <2>6, <2>8 DEF Publishers
  <2> QED BY <1>3, <2>3, <2>8, <2>9
<1>6. ASSUME f \in From(<<m, j>>), ~Unknown(n, f) PROVE Heard(n, f, i)
  <2>1. p = m /\ f.endpoint = layout[m][j].endpoint
    BY <1>3, <1>6
  <2>2. PICK o \in Range(tables[m].owned) : o.entity = e /\ o.endpoint = f.endpoint
    BY <2>1 DEF MirrorAt
  <2>3. <<m, o.endpoint>> \in known[n]
    BY <1>6, <2>1, <2>2 DEF Unknown
  <2>4. EntityFor(n, m, o.endpoint) = e
    BY <1>2, <2>2, <2>3, EntityOf
  <2>5. Listens(n, f, x)
    BY <1>2, <1>4, <2>1, <2>2, <2>4 DEF Listens
  <2> QED BY <1>4, <2>5 DEF Heard
<1> QED BY <1>5, <1>6

(* The mirror z was in touch with its source before the step, or its       *)
(* source tells it its state now.                                          *)
LEMMA MirrorAtSource ==
  ASSUME Installed, TypesOK, NEW m, NEW u, NEW lost, StepTo(m, u, lost),
         NEW n, NEW i, NEW j, MirrorAt(n, i, m, j), <<n, i>> \notin deaf',
         <<n, i>> \notin deaf => Follow(local[m], m, j, inbox[n], local[n].value[i])
  PROVE  Follow(u, m, j, inbox[n], local[n].value[i])
<1> DEFINE l == local[m]
           z == <<n, i>>
           F == From(<<m, j>>)
           news == {k \in Devices(m) : \E f \in Range(u.states) :
                     f.endpoint = layout[m][k].endpoint /\ ~Queued(l, f)}
<1>1. Sole(m, j) /\ z \in Mirrors /\ SourceOf(z) = <<m, j>>
  BY DEF MirrorAt
<1>2. deaf' = (deaf \ MirrorsOf(m, news)) \cup lost /\ Shown(m, l, u)
  BY DEF StepTo, Becomes
<1>3. CASE Tells(m, j, u)
  BY <1>3 DEF Tells, Follow
<1>4. CASE Stays(m, j, l, u)
  <2>1. j \notin news
    BY <1>4 DEF Stays, Queued
  <2>2. z \notin MirrorsOf(m, news)
    <3>1. <<m, j>>[2] = j
      OBVIOUS
    <3> QED BY <1>1, <2>1, <3>1 DEF MirrorsOf
  <2>3. z \notin deaf
    BY <1>2, <2>2
  <2>4. Follow(l, m, j, inbox[n], local[n].value[i])
    BY <2>3
  <2> QED BY <1>4, <2>4 DEF Stays, Follow
<1> QED BY <1>1, <1>2, <1>3, <1>4 DEF Shown

\* A step of another node than its source does not bring a mirror back.
LEMMA MirrorElsewhere ==
  ASSUME NEW k, NEW u, NEW lost, StepTo(k, u, lost),
         NEW n, NEW i, NEW m, NEW j, MirrorAt(n, i, m, j), <<n, i>> \notin deaf', k # m
  PROVE  <<n, i>> \notin deaf /\ <<n, i>> \notin lost
<1>1. deaf' = (deaf \ MirrorsOf(k, {x \in Devices(k) : \E f \in Range(u.states) :
                 f.endpoint = layout[k][x].endpoint /\ ~Queued(local[k], f)})) \cup lost
  BY DEF StepTo, Becomes
<1>2. SourceOf(<<n, i>>)[1] = m
  BY DEF MirrorAt
<1> QED BY <1>1, <1>2 DEF MirrorsOf

(* A mirror that takes a frame from its buffer shows what is in it if it   *)
(* is from its source, and is not changed by any other.                    *)
LEMMA MirrorReceives ==
  ASSUME Installed, TypesOK, NEW n \in Nodes, Receive(n),
         NEW i, NEW m, NEW j, MirrorAt(n, i, m, j), <<n, i>> \notin deaf',
         <<n, i>> \notin deaf => Follow(local[m], m, j, inbox[n], local[n].value[i])
  PROVE  Follow(local'[m], m, j, inbox'[n], local'[n].value[i])
<1> DEFINE f == Head(inbox[n])
           F == From(<<m, j>>)
           v == local[n].value[i]
           t == Tail(inbox[n])
<1>1. /\ inbox[n] # <<>> /\ inbox' = [inbox EXCEPT ![n] = Tail(@)] /\ f \in Sent
      /\ \E u : ReceivedState(n, f, u) \/ ReceivedEvent(n, f, u)
  BY ReceiveSteps
<1>2. PICK u : ReceivedState(n, f, u) \/ ReceivedEvent(n, f, u)
  BY <1>1
<1>3. DOMAIN inbox = Nodes /\ inbox[n] \in Seq(Sent) /\ i \in Devices(n) /\ m \in Nodes /\ m # n
  BY DEF TypesOK, MirrorAt
<1>4. inbox'[n] = t
  BY <1>1, <1>3
<1> HIDE DEF f
<1>5. ASSUME NEW lost, StepTo(n, u, lost)
      PROVE  /\ <<n, i>> \notin lost /\ <<n, i>> \notin deaf
             /\ local'[n] = u /\ local'[m] = local[m]
  <2>1. <<n, i>> \notin lost /\ <<n, i>> \notin deaf
    BY <1>3, <1>5, MirrorElsewhere
  <2> QED BY <1>3, <1>5, <2>1, StepTypes
<1>6. ASSUME u.value[i] = IF f \in F THEN f.value ELSE v, <<n, i>> \notin deaf,
             local'[n] = u, local'[m] = local[m]
      PROVE  Follow(local'[m], m, j, inbox'[n], local'[n].value[i])
  <2>1. After(inbox[n], F, v) = After(t, F, IF f \in F THEN f.value ELSE v)
    BY <1>1, <1>3, AfterHead DEF f
  <2>2. After(inbox'[n], F, local'[n].value[i]) = After(inbox[n], F, v)
    BY <1>4, <1>6, <2>1
  <2>3. Follow(local[m], m, j, inbox[n], v)
    BY <1>6
  <2> QED BY <1>6, <2>2, <2>3 DEF Follow
<1>7. CASE ReceivedState(n, f, u)
  <2>1. /\ f.kind = "state" /\ MirroredTo(n, f, local[n], u) /\ StepTo(n, u, LostState(n, f))
    BY <1>7 DEF ReceivedState
  <2>2. Heard(n, f, i) <=> f \in F /\ ~Unknown(n, f)
    BY <1>1, <2>1, MirrorHears
  <2>3. f \in F => ~Unknown(n, f)
    <3> SUFFICES ASSUME f \in F, Unknown(n, f) PROVE FALSE
      OBVIOUS
    <3>1. <<m, j>>[1] = m /\ <<m, j>>[2] = j /\ <<n, i>>[1] = n
      OBVIOUS
    <3>2. f.source = m /\ f.endpoint = layout[m][j].endpoint
      BY <3>1 DEF From, Declared
    <3>3. /\ Sole(m, j) /\ <<n, i>> \in Mirrors /\ SourceOf(<<n, i>>) = <<m, j>>
      BY DEF MirrorAt
    <3>4. <<n, i>> \in MirrorsOf(f.source, Publishers(f.source, f.endpoint))
      BY <3>1, <3>2, <3>3 DEF MirrorsOf, Sole
    <3>5. <<n, i>> \in LostState(n, f)
      BY <3>1, <3>4 DEF LostState
    <3> QED BY <1>5, <2>1, <3>5
  <2>4. u.value[i] = IF f \in F THEN f.value ELSE v
    BY <1>3, <2>1, <2>2, <2>3 DEF MirroredTo
  <2> QED BY <1>5, <1>6, <2>1, <2>4
<1>8. CASE ReceivedEvent(n, f, u)
  <2>1. f.kind = "event" /\ ActedTo(n, f, local[n], u) /\ StepTo(n, u, LostEvent(n, f))
    BY <1>8 DEF ReceivedEvent
  <2>2. f \notin F
    BY <2>1 DEF From
  <2>3. i \notin Bound(n, f)
    <3>1. <<n, i>> \notin LostEvent(n, f) /\ layout[n][i].source # NoEntity
      BY <1>5, <2>1 DEF MirrorAt
    <3> QED BY <3>1 DEF LostEvent
  <2>4. ASSUME NEW x \in Range(tables[n].events), x.device = i, Reacts(n, f, x) PROVE FALSE
    <3> DEFINE e == EntityFor(n, f.source, f.endpoint)
    <3>1. /\ e # NoEntity /\ x.entity = e
          /\ layout[n][x.device].bindings[x.binding].gesture = f.gesture
      BY <2>4 DEF Reacts, Listens
    <3>2. <<f.source, f.endpoint>> \in known[n]
      BY <3>1 DEF EntityFor
    <3>3. Owns(f.source, f.endpoint)
      BY <3>2 DEF TypesOK
    <3>4. PICK o \in Range(tables[f.source].owned) : o.endpoint = f.endpoint
      BY <3>3 DEF Owns, Range
    <3>5. e = o.entity
      <4>1. f.source \in Nodes
        BY <1>1, SentFrame
      <4>2. EntityFor(n, f.source, o.endpoint)
              = IF <<f.source, o.endpoint>> \in known[n] THEN o.entity ELSE NoEntity
        BY <4>1, EntityOf
      <4> QED BY <3>2, <3>4, <4>2
    <3>6. i \in Bound(n, f)
      BY <2>4, <3>1, <3>4, <3>5 DEF Bound
    <3> QED BY <2>3, <3>6
  <2>5. u.value[i] = v
    BY <1>3, <2>1, <2>4 DEF ActedTo
  <2> QED BY <1>5, <1>6, <2>1, <2>2, <2>5
<1> QED BY <1>2, <1>7, <1>8

(* A frame on its way from the queue of the source to the buffer of the    *)
(* mirror comes before what stays in the queue and after what is in the    *)
(* buffer.                                                                 *)
LEMMA MirrorTransmit ==
  ASSUME Installed, TypesOK, NEW k \in Nodes, Transmit(k),
         NEW n, NEW i, NEW m, NEW j, MirrorAt(n, i, m, j),
         Follow(local[m], m, j, inbox[n], local[n].value[i])
  PROVE  Follow(local'[m], m, j, inbox'[n], local'[n].value[i])
<1> DEFINE f == FirstOut(local[k])
           F == From(<<m, j>>)
           v == local[n].value[i]
           q == local[m].states
           r == local'[m].states
<1>1. /\ Left(k, local[k], local'[k]) /\ \A x \in Nodes : x # k => local'[x] = local[x]
      /\ \A x \in Nodes : inbox'[x] = IF x \in Reached(k) THEN Append(inbox[x], f) ELSE inbox[x]
  BY TransmitSteps DEF TransmittedBy
<1>2. /\ n \in Nodes /\ m \in Nodes /\ m # n /\ HasListeners(n)
      /\ inbox[n] \in Seq(Sent) /\ local[m] \in Locals(m)
  BY DEF MirrorAt, TypesOK
<1>3. q \in Seq(StateFrames(m))
  BY <1>2, LocalParts
<1>4. f \in Sent /\ f.source = k
  BY <1>1 DEF Left, Sent, StateFrames, EventFrames
<1>5. f \in F => k = m /\ f.kind = "state"
  <2>1. <<m, j>>[1] = m
    OBVIOUS
  <2> QED BY <1>4, <2>1 DEF From
<1>6. local'[n].value = local[n].value /\ local'[m].value = local[m].value
      /\ local'[m].dirty = local[m].dirty /\ local'[m].mute = local[m].mute
  BY <1>1, <1>2 DEF Left
<1>7. \/ r = q /\ f \notin F
      \/ k = m /\ q # <<>> /\ f = Head(q) /\ r = Tail(q)
  <2>1. CASE k # m
    BY <1>1, <1>2, <1>5, <2>1
  <2>2. CASE k = m
    <3>1. CASE f \in EventFrames(m) /\ r = q
      <4>1. f.kind = "event"
        BY <3>1 DEF EventFrames
      <4> QED BY <1>5, <3>1, <4>1
    <3>2. CASE q # <<>> /\ f = Head(q) /\ r = Tail(q)
      BY <2>2, <3>2
    <3> QED BY <1>1, <2>2, <3>1, <3>2 DEF Left
  <2> QED BY <2>1, <2>2
<1> HIDE DEF f, q, r
<1>8. \A w : After(Append(inbox[n], f), F, w) = IF f \in F THEN f.value ELSE After(inbox[n], F, w)
  BY <1>2, <1>4, AfterAppend
<1>9. \A w : q # <<>> => After(q, F, w) = After(Tail(q), F, IF Head(q) \in F THEN Head(q).value ELSE w)
  BY <1>3, AfterHead
<1>10. After(r, F, After(inbox'[n], F, v)) = After(q, F, After(inbox[n], F, v))
  <2>1. CASE f \notin F
    <3>1. After(inbox'[n], F, v) = After(inbox[n], F, v)
      BY <1>1, <1>2, <1>8, <2>1
    <3>2. \A w : After(r, F, w) = After(q, F, w)
      BY <1>7, <1>9, <2>1
    <3> QED BY <3>1, <3>2
  <2>2. CASE f \in F
    <3>1. k = m /\ q # <<>> /\ f = Head(q) /\ r = Tail(q)
      BY <1>7, <2>2
    <3>2. n \in Reached(k)
      BY <1>2, <3>1 DEF Reached
    <3>3. After(inbox'[n], F, v) = f.value
      BY <1>1, <1>2, <1>8, <2>2, <3>2
    <3> QED BY <1>9, <2>2, <3>1, <3>3
  <2> QED BY <2>1, <2>2
<1> QED BY <1>6, <1>10 DEF Follow, Speaks, q, r

(* A frame that is lost makes the mirrors of its device deaf and no        *)
(* others.                                                                 *)
LEMMA MirrorRefuse ==
  ASSUME Installed, TypesOK, NEW k \in Nodes, Refuse(k),
         NEW n, NEW i, NEW m, NEW j, MirrorAt(n, i, m, j), <<n, i>> \notin deaf',
         <<n, i>> \notin deaf => Follow(local[m], m, j, inbox[n], local[n].value[i])
  PROVE  Follow(local'[m], m, j, inbox'[n], local'[n].value[i])
<1> DEFINE F == From(<<m, j>>)
           v == local[n].value[i]
           q == local[m].states
           r == local'[m].states
<1>1. /\ Left(k, local[k], local'[k]) /\ \A x \in Nodes : x # k => local'[x] = local[x]
      /\ inbox' = inbox
      /\ deaf' = deaf \cup IF local[k].events # <<>> THEN {}
                           ELSE MirrorsOf(k, Publishers(k, Head(local[k].states).endpoint))
  BY RefuseSteps
<1>2. n \in Nodes /\ m \in Nodes /\ m # n /\ local[m] \in Locals(m)
  BY DEF MirrorAt, TypesOK
<1>3. q \in Seq(StateFrames(m))
  BY <1>2, LocalParts
<1>4. <<n, i>> \notin deaf /\ Follow(local[m], m, j, inbox[n], v)
  BY <1>1
<1>5. local'[n].value = local[n].value /\ local'[m].value = local[m].value
      /\ local'[m].dirty = local[m].dirty /\ local'[m].mute = local[m].mute
  BY <1>1, <1>2 DEF Left
<1>6. \/ r = q
      \/ k = m /\ q # <<>> /\ r = Tail(q) /\ local[m].events = <<>>
  BY <1>1, <1>2 DEF Left
<1> HIDE DEF q, r, v
<1>7. \A w : After(r, F, w) = After(q, F, w)
  <2>1. CASE k = m /\ q # <<>> /\ r = Tail(q) /\ local[m].events = <<>>
    <3>1. Head(q) \notin F
      <4> SUFFICES ASSUME Head(q) \in F PROVE FALSE
        OBVIOUS
      <4>1. <<m, j>>[1] = m /\ <<m, j>>[2] = j
        OBVIOUS
      <4>2. Head(q).endpoint = layout[m][j].endpoint
        BY <4>1 DEF From, Declared
      <4>3. /\ Sole(m, j) /\ <<n, i>> \in Mirrors /\ SourceOf(<<n, i>>) = <<m, j>>
        BY DEF MirrorAt
      <4>4. <<n, i>> \in MirrorsOf(m, Publishers(m, Head(q).endpoint))
        BY <4>1, <4>2, <4>3 DEF MirrorsOf, Sole
      <4> QED BY <1>1, <2>1, <4>4 DEF q
    <3>2. \A w : After(q, F, w) = After(Tail(q), F, IF Head(q) \in F THEN Head(q).value ELSE w)
      BY <1>3, <2>1, AfterHead
    <3> QED BY <2>1, <3>1, <3>2
  <2> QED BY <1>6, <2>1
<1> QED BY <1>1, <1>4, <1>5, <1>7 DEF Follow, Speaks, q, r, v

-----------------------------------------------------------------------------
(* Every step keeps a mirror in step with its source.                      *)
LEMMA MirrorsSteps ==
  ASSUME Installed, TypesOK, [Next]_vars,
         NEW n, NEW i, NEW m, NEW j, MirrorAt(n, i, m, j), <<n, i>> \notin deaf',
         <<n, i>> \notin deaf => Follow(local[m], m, j, inbox[n], local[n].value[i])
  PROVE  Follow(local'[m], m, j, inbox'[n], local'[n].value[i])
<1> DEFINE Goal == Follow(local'[m], m, j, inbox'[n], local'[n].value[i])
<1>0. /\ n \in Nodes /\ m \in Nodes /\ m # n /\ i \in Devices(n) /\ Kind(n, i) = "switch"
  BY DEF MirrorAt
<1>1. ASSUME UNCHANGED vars PROVE Goal
  BY <1>1 DEF vars
<1>2. ASSUME NEW k \in Nodes, NEW u, NEW lost, StepTo(k, u, lost), inbox'[n] = inbox[n],
             k = n => u.value[i] = local[n].value[i] \/ <<n, i>> \in lost
      PROVE  Goal
  <2>1. local'[k] = u /\ \A x \in Nodes : x # k => local'[x] = local[x]
    BY <1>2, StepTypes
  <2>2. CASE k = m
    <3>1. Follow(u, m, j, inbox[n], local[n].value[i])
      BY <1>2, <2>2, MirrorAtSource
    <3> QED BY <1>0, <1>2, <2>1, <2>2, <3>1
  <2>3. CASE k # m
    <3>1. <<n, i>> \notin deaf /\ <<n, i>> \notin lost
      BY <1>2, <2>3, MirrorElsewhere
    <3>2. local'[m] = local[m] /\ local'[n].value[i] = local[n].value[i]
      BY <1>0, <1>2, <2>1, <2>3, <3>1
    <3> QED BY <1>2, <3>1, <3>2
  <2> QED BY <2>2, <2>3
<1>3. ASSUME NEW k \in Nodes, NEW d \in Devices(k), NEW p, Local(k, d, p) PROVE Goal
  <2>1. inbox' = inbox /\ \E u, lost : StepTo(k, u, lost) /\ Quiet(k, u, lost)
    BY <1>3, LocalSteps
  <2>2. PICK u, lost : StepTo(k, u, lost) /\ Quiet(k, u, lost)
    BY <2>1
  <2>3. k = n => u.value[i] = local[n].value[i] \/ <<n, i>> \in lost
    BY <1>0, <2>2 DEF Quiet
  <2> HIDE DEF Goal
  <2> QED BY <1>2, <2>1, <2>2, <2>3
<1>4. ASSUME NEW k \in Nodes, NEW d \in Devices(k), NEW h \in Gestures, PublishEvent(k, d, h)
      PROVE  Goal
  <2>1. /\ inbox' = inbox /\ deaf' = deaf
        /\ \A x \in Nodes : x # k => local'[x] = local[x]
        /\ local'[k].value = local[k].value /\ local'[k].dirty = local[k].dirty
        /\ local'[k].mute = local[k].mute /\ local'[k].states = local[k].states
    BY <1>4, PublishEventSteps
  <2>2. \A x \in Nodes : /\ local'[x].value = local[x].value /\ local'[x].dirty = local[x].dirty
                         /\ local'[x].mute = local[x].mute /\ local'[x].states = local[x].states
    BY <2>1
  <2> QED BY <1>0, <2>1, <2>2 DEF Follow, Speaks
<1>5. ASSUME NEW k \in Nodes, Transmit(k) PROVE Goal
  <2>1. deaf' = deaf
    BY <1>5 DEF Transmit
  <2> QED BY <1>5, <2>1, MirrorTransmit
<1>6. ASSUME NEW k \in Nodes, Refuse(k) PROVE Goal
  BY <1>6, MirrorRefuse
<1>7. ASSUME NEW k \in Nodes, Receive(k) PROVE Goal
  <2>1. CASE k = n
    BY <1>7, <2>1, MirrorReceives
  <2>2. CASE k # n
    <3>1. /\ inbox' = [inbox EXCEPT ![k] = Tail(@)]
          /\ \E u : ReceivedState(k, Head(inbox[k]), u) \/ ReceivedEvent(k, Head(inbox[k]), u)
      BY <1>7, ReceiveSteps
    <3>2. PICK u, lost : StepTo(k, u, lost)
      BY <3>1 DEF ReceivedState, ReceivedEvent
    <3>3. inbox'[n] = inbox[n]
      BY <1>0, <2>2, <3>1 DEF TypesOK
    <3> HIDE DEF Goal
    <3> QED BY <1>2, <2>2, <3>2, <3>3
  <2> QED BY <2>1, <2>2
<1>8. ASSUME NEW k \in Nodes, NEW x \in Nodes, NEW p, Learn(k, x, p) \/ Adopt(k) PROVE Goal
  <2>1. local' = local /\ inbox' = inbox /\ deaf' = deaf
    BY <1>8 DEF Learn, Adopt
  <2> QED BY <2>1
<1>9. ASSUME NEW k \in Nodes, Restart(k) PROVE Goal
  <2>1. /\ \A x \in Nodes : x # k => local'[x] = local[x] /\ inbox'[x] = inbox[x]
        /\ deaf' = deaf \cup ({k} \X Devices(k)) /\ local'[k] = Boot(layout[k])
    BY <1>9, RestartSteps
  <2>2. k # n /\ <<n, i>> \notin deaf
    BY <1>0, <2>1
  <2>3. CASE k # m
    BY <1>0, <2>1, <2>2, <2>3
  <2>4. CASE k = m
    <3>1. j \in Devices(m)
      BY DEF MirrorAt, Sole
    <3>2. /\ local'[m].value[j] \in {Off, Unset}
          /\ (local'[m].value[j] = Off => j \in local'[m].dirty)
      BY <2>1, <2>4, <3>1, BootType, EndpointsAssumption
    <3> QED BY <3>2 DEF Follow, Speaks
  <2> QED BY <2>3, <2>4
<1>10. \/ UNCHANGED vars
       \/ \E k \in Nodes :
            \/ \E d \in Devices(k) : \E p : Local(k, d, p)
            \/ \E d \in Devices(k), h \in Gestures : PublishEvent(k, d, h)
            \/ Transmit(k) \/ Refuse(k) \/ Receive(k)
            \/ \E x \in Nodes : \E p : Learn(k, x, p) \/ Adopt(k)
            \/ Restart(k)
  BY DEF Next, Local
<1> HIDE DEF Goal
<1>11. Goal
  BY ONLY <1>1, <1>3, <1>4, <1>5, <1>6, <1>7, <1>8, <1>9, <1>10
<1> QED BY <1>11 DEF Goal

(* A mirror shows the state of its source or what waits for it will make   *)
(* it, for any number of nodes, devices and mirrors, chains and circles of *)
(* mirrors among them (HacanSwitch::state, apply_state, publish_state,     *)
(* drain_one, handle STATE).                                               *)
THEOREM MirrorsShowTheirSource == Spec => []MirrorsFollow
<1>1. Spec => [](Installed /\ TypesOK)
  BY TypesInvariant
<1>2. Installed /\ Init => MirrorsFollow
  <2> SUFFICES ASSUME Installed, Init, NEW z \in Mirrors PROVE InStep(z)
    BY DEF MirrorsFollow
  <2> DEFINE n == z[1]
             i == z[2]
             m == SourceOf(z)[1]
             j == SourceOf(z)[2]
  <2>1. MirrorAt(n, i, m, j) /\ z = <<n, i>>
    BY MirrorWired
  <2> HIDE DEF m, j
  <2>2. m \in Nodes /\ j \in Devices(m)
    BY <2>1 DEF MirrorAt, Sole
  <2>3. local[m] = Boot(layout[m])
    BY <2>2 DEF Init
  <2>4. local[m].value[j] \in {Off, Unset} /\ (local[m].value[j] = Off => j \in local[m].dirty)
    BY <2>2, <2>3, BootType, EndpointsAssumption
  <2>5. Follow(local[m], m, j, inbox[n], local[n].value[i])
    BY <2>4 DEF Follow, Speaks
  <2> QED BY <2>1, <2>5, InStepIs
<1>3. Installed /\ TypesOK /\ MirrorsFollow /\ [Next]_vars => MirrorsFollow'
  <2> SUFFICES ASSUME Installed, TypesOK, MirrorsFollow, [Next]_vars PROVE MirrorsFollow'
    OBVIOUS
  <2>1. config' = config
    BY NextConfig
  <2>2. Mirrors' = Mirrors
    BY <2>1, FixedWiring
  <2> SUFFICES ASSUME NEW z \in Mirrors, z \notin deaf' PROVE InStep(z)'
    BY <2>2 DEF MirrorsFollow
  <2> DEFINE n == z[1]
             i == z[2]
             m == SourceOf(z)[1]
             j == SourceOf(z)[2]
  <2>3. MirrorAt(n, i, m, j) /\ z = <<n, i>>
    BY MirrorWired
  <2> HIDE DEF n, i, m, j
  <2>4. z \notin deaf => Follow(local[m], m, j, inbox[n], local[n].value[i])
    <3>1. z \notin deaf => InStep(z)
      BY DEF MirrorsFollow
    <3>2. InStep(<<n, i>>) <=> Follow(local[m], m, j, inbox[n], local[n].value[i])
      BY <2>3, InStepIs
    <3>3. InStep(<<n, i>>) <=> InStep(z)
      BY <2>3
    <3> QED BY <3>1, <3>2, <3>3
  <2>5. Follow(local'[m], m, j, inbox'[n], local'[n].value[i])
    BY <2>3, <2>4, MirrorsSteps
  <2>6. InStep(<<n, i>>)'
    BY <2>1, <2>3, <2>5, InStepNext
  <2> QED BY <2>3, <2>6
<1> QED BY <1>1, <1>2, <1>3, PTL DEF Spec
=============================================================================
