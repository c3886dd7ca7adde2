------------------------ MODULE TransmitQueuesProofs ------------------------
(***************************************************************************)
(* What the transmit queues guarantee for every capacity, every number of      *)
(* endpoints and addresses, and whatever the driver refuses.                   *)
(***************************************************************************)
EXTENDS TransmitQueues, DataLemmas

(* drain_one leaves queues of frames behind, none longer than before.         *)
LEMMA DrainPreserves ==
  ASSUME NEW F, NEW q \in [Classes -> Seq(F)], NEW w \in Outcomes(q)
  PROVE  /\ Drained(q, w) \in [Classes -> Seq(F)]
         /\ \A d \in Classes : Len(Drained(q, w)[d]) <= Len(q[d])
         /\ w # NoClass => Head(q[w]) \in F
<1>1. ASSUME NEW d \in Waiting(q)
      PROVE  /\ Head(q[d]) \in F
             /\ Tail(q[d]) \in Seq(F)
             /\ Len(Tail(q[d])) = Len(q[d]) - 1
  <2>1. q[d] \in Seq(F) /\ q[d] # << >>
    BY DEF Waiting
  <2> QED BY <2>1, HeadTailProperties
<1>2. \A d \in Classes : Len(q[d]) \in Nat
  BY LenProperties
<1>3. Waiting(q) \subseteq Classes
  BY DEF Waiting
<1> QED BY <1>1, <1>2, <1>3 DEF Drained, Outcomes

-----------------------------------------------------------------------------
(* The three outcomes of enqueue for the array s of its class, which becomes t.   *)

Overwritten(s, f, t) ==
  \E i \in 1 .. Len(s) : Supersedes(f, s[i]) /\ t = [s EXCEPT ![i] = f]

SupersedesNo(s, f) == \A i \in 1 .. Len(s) : ~Supersedes(f, s[i])

Appended(s, f, t) == SupersedesNo(s, f) /\ Len(s) # QueueSize /\ t = Append(s, f)
Rejected(s, f, t) == SupersedesNo(s, f) /\ Len(s) = QueueSize /\ t = s

(* enqueue touches one queue: it overwrites a pending frame that the new one        *)
(* supersedes, or appends, or finds the queue full; the last is what it refuses.   *)
LEMMA EnqueueChanges ==
  ASSUME NEW q \in [Classes -> Seq(Frame)], NEW c \in Classes, NEW f \in Frame,
         \A d \in Classes : Len(q[d]) <= QueueSize
  PROVE  LET t == Enqueue(q, c, f)[c] IN
           /\ Enqueue(q, c, f) = [q EXCEPT ![c] = t]
           /\ \/ Overwritten(q[c], f, t) /\ Accepts(q, c, f)
              \/ Appended(q[c], f, t) /\ Accepts(q, c, f)
              \/ Rejected(q[c], f, t) /\ ~Accepts(q, c, f)
<1> DEFINE t == Enqueue(q, c, f)[c]
<1>1. CASE Older(q, c, f) = {}
  <2>1. Enqueue(q, c, f) = Add(q, c, f)
    BY <1>1 DEF Enqueue
  <2>2. SupersedesNo(q[c], f)
    BY <1>1 DEF Older, SupersedesNo
  <2>3. Accepts(q, c, f) <=> Len(q[c]) # QueueSize
    <3>1. Len(q[c]) \in Nat /\ Len(q[c]) <= QueueSize
      BY LenProperties
    <3> QED BY <1>1, <3>1, QueueSizeAssumption DEF Accepts
  <2> QED BY <2>1, <2>2, <2>3 DEF Add, Appended, Rejected
<1>2. CASE Older(q, c, f) # {}
  <2> DEFINE i == Min(Older(q, c, f))
  <2>1. Older(q, c, f) \subseteq Nat
    BY DEF Older
  <2>2. i \in Older(q, c, f)
    BY <1>2, <2>1, MinIsLeast
  <2>3. Enqueue(q, c, f) = [q EXCEPT ![c] = [q[c] EXCEPT ![i] = f]]
    BY <1>2 DEF Enqueue
  <2> HIDE DEF i
  <2>4. i \in 1 .. Len(q[c]) /\ Supersedes(f, q[c][i])
    BY <2>2 DEF Older
  <2>5. Accepts(q, c, f)
    BY <1>2 DEF Accepts
  <2> QED BY <2>3, <2>4, <2>5 DEF Overwritten
<1> QED BY <1>1, <1>2

(* The new frame joins the frames of its class, within the array.                  *)
LEMMA OutcomePreserves ==
  ASSUME NEW F, NEW s \in Seq(F), NEW f \in F, NEW t, Len(s) <= QueueSize,
         Overwritten(s, f, t) \/ Appended(s, f, t) \/ Rejected(s, f, t)
  PROVE  t \in Seq(F) /\ Len(t) <= QueueSize
<1>1. Len(s) \in Nat
  BY LenProperties
<1>2. CASE Overwritten(s, f, t)
  BY <1>2, ExceptSeq DEF Overwritten
<1>3. CASE Appended(s, f, t)
  BY <1>1, <1>3, AppendProperties, QueueSizeAssumption DEF Appended
<1>4. CASE Rejected(s, f, t)
  BY <1>4 DEF Rejected
<1> QED BY <1>2, <1>3, <1>4

(* enqueue returns queues of frames, and no queue exceeds its array.              *)
LEMMA EnqueuePreserves ==
  ASSUME NEW q \in [Classes -> Seq(Frame)], NEW c \in Classes, NEW f \in Frame,
         \A d \in Classes : Len(q[d]) <= QueueSize
  PROVE  /\ Enqueue(q, c, f) \in [Classes -> Seq(Frame)]
         /\ \A d \in Classes : Len(Enqueue(q, c, f)[d]) <= QueueSize
<1> DEFINE t == Enqueue(q, c, f)[c]
<1>1. /\ Enqueue(q, c, f) = [q EXCEPT ![c] = t]
      /\ Overwritten(q[c], f, t) \/ Appended(q[c], f, t) \/ Rejected(q[c], f, t)
  BY EnqueueChanges
<1> HIDE DEF t
<1>2. t \in Seq(Frame) /\ Len(t) <= QueueSize
  BY <1>1, OutcomePreserves
<1> QED BY <1>1, <1>2

(* The classes that can be the first to succeed are outcomes of drain_one.        *)
LEMMA WinnersAreOutcomes ==
  ASSUME NEW q, NEW w \in Winners(q)
  PROVE  w \in Outcomes(q)
<1>1. Waiting(q) \subseteq Nat
  BY DEF Waiting, Classes, Control, Diagnostic
<1>2. Waiting(q) # {} => Min(Waiting(q)) \in Waiting(q)
  BY <1>1, MinIsLeast
<1> QED BY <1>2 DEF Winners, Outcomes

-----------------------------------------------------------------------------
(***************************************************************************)
(* The state/query queue holds STATEs and the event queue events: types alone  *)
(* are not inductive, because drain_one reads the key of the frame it sends.    *)
(***************************************************************************)
QueuesOK(q) ==
  /\ q \in [Classes -> Seq(Frame)]
  /\ \A d \in Classes : Len(q[d]) <= QueueSize
  /\ q[StateQuery] \in Seq(States)
  /\ q[Event] \in Seq(Events)

(* A control or management frame leaves the states and the events alone.          *)
LEMMA EnqueueOther ==
  ASSUME NEW q, QueuesOK(q), NEW c \in {Control, Management}
  PROVE  /\ QueuesOK(Enqueue(q, c, Other))
         /\ Enqueue(q, c, Other)[StateQuery] = q[StateQuery]
         /\ Enqueue(q, c, Other)[Event] = q[Event]
<1>1. /\ c \in Classes /\ c # StateQuery /\ c # Event
      /\ StateQuery \in Classes /\ Event \in Classes /\ Other \in Frame
  BY DEF Classes, Control, Management, StateQuery, Event, Diagnostic, Frame
<1>2. Enqueue(q, c, Other) = [q EXCEPT ![c] = Enqueue(q, c, Other)[c]]
  BY <1>1, EnqueueChanges DEF QueuesOK
<1>3. /\ Enqueue(q, c, Other) \in [Classes -> Seq(Frame)]
      /\ \A d \in Classes : Len(Enqueue(q, c, Other)[d]) <= QueueSize
  BY <1>1, EnqueuePreserves DEF QueuesOK
<1>4. /\ Enqueue(q, c, Other)[StateQuery] = q[StateQuery]
      /\ Enqueue(q, c, Other)[Event] = q[Event]
  <2> DEFINE t == Enqueue(q, c, Other)[c]
  <2>1. /\ [q EXCEPT ![c] = t][StateQuery] = q[StateQuery]
        /\ [q EXCEPT ![c] = t][Event] = q[Event]
    BY <1>1 DEF QueuesOK
  <2> QED BY <1>2, <2>1
<1> QED BY <1>3, <1>4 DEF QueuesOK

(* A queue loses its head in a drain, or nothing; the frame that is sent is a      *)
(* head.                                                                        *)
LEMMA DrainChanges ==
  ASSUME NEW q, QueuesOK(q), NEW w \in Winners(q)
  PROVE  /\ QueuesOK(Drained(q, w))
         /\ \A d \in Classes : \/ Drained(q, w)[d] = q[d]
                               \/ q[d] # << >> /\ Drained(q, w)[d] = Tail(q[d])
         /\ w \in Classes => q[w] # << >> /\ Drained(q, w)[w] = Tail(q[w])
<1>1. w \in Outcomes(q)
  BY WinnersAreOutcomes
<1>2. StateQuery \in Classes /\ Event \in Classes /\ NoClass \notin Classes
  BY DEF Classes, StateQuery, Event, Control, Diagnostic, NoClass
<1>3. \A d \in Classes : \/ Drained(q, w)[d] = q[d]
                         \/ q[d] # << >> /\ Drained(q, w)[d] = Tail(q[d])
  BY DEF Drained, Waiting
<1>4. w \in Classes => q[w] # << >> /\ Drained(q, w)[w] = Tail(q[w])
  <2>1. w \in Classes => w \in Waiting(q) /\ w <= w
    BY <1>1, <1>2 DEF Outcomes, Classes, Control, Diagnostic
  <2> QED BY <2>1 DEF Drained, Waiting
<1>5. /\ Drained(q, w) \in [Classes -> Seq(Frame)]
      /\ \A d \in Classes : Len(Drained(q, w)[d]) <= Len(q[d])
  BY <1>1, DrainPreserves DEF QueuesOK
<1>6. \A d \in Classes : Len(Drained(q, w)[d]) <= QueueSize
  BY <1>5, LenProperties, QueueSizeAssumption DEF QueuesOK
<1>7. /\ Drained(q, w)[StateQuery] \in Seq(States)
      /\ Drained(q, w)[Event] \in Seq(Events)
  BY <1>2, <1>3, HeadTailProperties DEF QueuesOK
<1> QED BY <1>3, <1>4, <1>5, <1>6, <1>7 DEF QueuesOK

TransmitTypeInv == TypeOK /\ QueuesOK(queues)

(* One transmission or refusal keeps the types.                                   *)
LEMMA DrainTypes ==
  ASSUME TypeOK, NEW q, QueuesOK(q), DrainOne(q)
  PROVE  TransmitTypeInv'
<1>1. PICK w \in Winners(q) :
        /\ queues' = Drained(q, w)
        /\ received' = IF w = StateQuery
                       THEN [received EXCEPT ![Key(Head(q[w]))] = Head(q[w]).number]
                       ELSE received
        /\ UNCHANGED <<address, published, events, newest>>
  BY DEF DrainOne
<1>2. QueuesOK(queues')
  BY <1>1, DrainChanges
<1>3. w = StateQuery => Head(q[w]) \in States
  <2>1. StateQuery \in Classes
    BY DEF Classes, StateQuery, Control, Diagnostic
  <2> QED BY <2>1, DrainChanges, HeadTailProperties DEF QueuesOK
<1>4. received' \in [Keys -> Nat]
  BY <1>1, <1>3 DEF TypeOK, Key, Keys, States
<1> QED BY <1>1, <1>2, <1>4 DEF TransmitTypeInv, TypeOK, QueuesOK

(* The variables hold what their C++ counterparts can hold.                       *)
THEOREM TransmitTypes == Spec => [](TypeOK /\ QueuesOK(queues))
<1> USE TransmitAssumption
<1>0. StateQuery \in Classes /\ Event \in Classes /\ Event # StateQuery
  BY DEF Classes, StateQuery, Event, Control, Diagnostic
<1>1. Init => TransmitTypeInv
  <2>1. << >> \in Seq(Frame) /\ << >> \in Seq(States) /\ << >> \in Seq(Events) /\ Len(<< >>) = 0
    BY EmptySeq
  <2>2. EmptyQueues \in [Classes -> Seq(Frame)] /\ \A d \in Classes : EmptyQueues[d] = << >>
    BY <2>1 DEF EmptyQueues
  <2> QED BY <1>0, <2>1, <2>2, QueueSizeAssumption DEF Init, TransmitTypeInv, TypeOK, QueuesOK
<1>2. TransmitTypeInv /\ [Next]_vars => TransmitTypeInv'
  <2> SUFFICES ASSUME TransmitTypeInv, [Next]_vars PROVE TransmitTypeInv'
    OBVIOUS
  <2>0. TypeOK /\ QueuesOK(queues)
    BY DEF TransmitTypeInv
  <2>1. ASSUME NEW p \in Endpoints, PublishState(p) PROVE TransmitTypeInv'
    <3>1. published' \in [Endpoints -> Nat] /\ published'[p] \in Nat
      BY <2>0, <2>1 DEF PublishState, TypeOK
    <3>2. CASE address = NoAddress
      BY <2>0, <2>1, <3>1, <3>2 DEF PublishState, TransmitTypeInv, TypeOK, QueuesOK
    <3>3. CASE address # NoAddress
      <4> DEFINE f == State(address, p, published'[p])
                 t == Enqueue(queues, StateQuery, f)[StateQuery]
      <4>1. f \in States /\ f \in Frame /\ Key(f) \in Keys /\ f.number \in Nat
        BY <2>0, <3>1, <3>3 DEF State, States, Frame, Key, Keys, TypeOK
      <4>2. /\ queues' = Enqueue(queues, StateQuery, f)
            /\ newest' = newest \/ newest' = [newest EXCEPT ![Key(f)] = f.number]
        BY <2>1, <3>3 DEF PublishState
      <4>3. newest' \in [Keys -> Nat]
        BY <2>0, <4>1, <4>2 DEF TypeOK
      <4> HIDE DEF f
      <4>4. /\ queues' \in [Classes -> Seq(Frame)]
            /\ \A d \in Classes : Len(queues'[d]) <= QueueSize
        BY <1>0, <2>0, <4>1, <4>2, EnqueuePreserves DEF QueuesOK
      <4>5. /\ queues' = [queues EXCEPT ![StateQuery] = t]
            /\ \/ Overwritten(queues[StateQuery], f, t)
               \/ Appended(queues[StateQuery], f, t)
               \/ Rejected(queues[StateQuery], f, t)
        BY <1>0, <2>0, <4>1, <4>2, EnqueueChanges DEF QueuesOK
      <4> HIDE DEF t
      <4>6. t \in Seq(States)
        BY <1>0, <2>0, <4>1, <4>5, OutcomePreserves DEF QueuesOK
      <4>7. queues'[StateQuery] \in Seq(States) /\ queues'[Event] \in Seq(Events)
        BY <1>0, <2>0, <4>5, <4>6 DEF QueuesOK
      <4> QED BY <2>0, <2>1, <3>1, <4>3, <4>4, <4>7
          DEF PublishState, TransmitTypeInv, TypeOK, QueuesOK
    <3> QED BY <3>2, <3>3
  <2>2. ASSUME PublishEvent PROVE TransmitTypeInv'
    <3> DEFINE f == Gesture(events + 1)
               t == Enqueue(queues, Event, f)[Event]
    <3>1. f \in Events /\ f \in Frame
      BY <2>0 DEF Gesture, Events, Frame, TypeOK
    <3>2. queues' = Enqueue(queues, Event, f) /\ events' \in Nat
      BY <2>0, <2>2 DEF PublishEvent, TypeOK
    <3> HIDE DEF f
    <3>3. /\ queues' \in [Classes -> Seq(Frame)]
          /\ \A d \in Classes : Len(queues'[d]) <= QueueSize
      BY <1>0, <2>0, <3>1, <3>2, EnqueuePreserves DEF QueuesOK
    <3>4. /\ queues' = [queues EXCEPT ![Event] = t]
          /\ \/ Overwritten(queues[Event], f, t)
             \/ Appended(queues[Event], f, t)
             \/ Rejected(queues[Event], f, t)
      BY <1>0, <2>0, <3>1, <3>2, EnqueueChanges DEF QueuesOK
    <3> HIDE DEF t
    <3>5. t \in Seq(Events)
      BY <1>0, <2>0, <3>1, <3>4, OutcomePreserves DEF QueuesOK
    <3>6. queues'[StateQuery] \in Seq(States) /\ queues'[Event] \in Seq(Events)
      BY <1>0, <2>0, <3>4, <3>5 DEF QueuesOK
    <3> QED BY <2>0, <2>2, <3>2, <3>3, <3>6
        DEF PublishEvent, TransmitTypeInv, TypeOK, QueuesOK
  <2>3. ASSUME HandleControl \/ HandleResolve PROVE TransmitTypeInv'
    <3>1. QueuesOK(queues')
      BY <2>0, <2>3, EnqueueOther DEF HandleControl, HandleResolve
    <3> QED BY <2>0, <2>3, <3>1
        DEF HandleControl, HandleResolve, TransmitTypeInv, TypeOK, QueuesOK
  <2>4. ASSUME TickManagement PROVE TransmitTypeInv'
    BY <2>0, <2>4, EnqueueOther, DrainTypes DEF TickManagement
  <2>5. ASSUME TickDrain PROVE TransmitTypeInv'
    BY <2>0, <2>5, DrainTypes DEF TickDrain
  <2>6. ASSUME (\E a \in Addresses : Assign(a)) \/ Withdraw PROVE TransmitTypeInv'
    BY <2>0, <2>6 DEF Assign, Withdraw, TransmitTypeInv, TypeOK, QueuesOK
  <2>7. CASE UNCHANGED vars
    BY <2>0, <2>7 DEF vars, TransmitTypeInv, TypeOK, QueuesOK
  <2> QED BY <2>1, <2>2, <2>3, <2>4, <2>5, <2>6, <2>7 DEF Next, Tick
<1> QED BY <1>1, <1>2, PTL DEF Spec, TransmitTypeInv

-----------------------------------------------------------------------------
(***************************************************************************)
(* The state/query queue as a set of registers.  The refinement needs that a    *)
(* pending STATE is the newest one accepted for its key, and that overwriting    *)
(* or removing one frame removes its key: there is one frame per key.           *)
(***************************************************************************)
StatesOK(s, n) ==
  /\ \A i, j \in 1 .. Len(s) : i # j => Key(s[i]) # Key(s[j])
  /\ \A i \in 1 .. Len(s) : s[i].number = n[Key(s[i])]

WaitingIn(s) == {Key(s[i]) : i \in 1 .. Len(s)}

(* A STATE that is accepted becomes the one pending STATE of its key.             *)
LEMMA PublishKeepsStates ==
  ASSUME NEW s \in Seq(States), NEW f \in States, NEW n \in [Keys -> Nat],
         StatesOK(s, n), NEW t, Overwritten(s, f, t) \/ Appended(s, f, t)
  PROVE  /\ StatesOK(t, [n EXCEPT ![Key(f)] = f.number])
         /\ WaitingIn(t) = WaitingIn(s) \cup {Key(f)}
<1> DEFINE m == [n EXCEPT ![Key(f)] = f.number]
<1>1. /\ \A g \in States : Key(g) \in Keys /\ (Supersedes(f, g) <=> Key(f) = Key(g))
      /\ \A k \in Keys : m[k] = IF k = Key(f) THEN f.number ELSE n[k]
  BY DEF States, Key, Keys, Supersedes
<1>2. Len(s) \in Nat /\ \A i \in 1 .. Len(s) : s[i] \in States
  BY ElementOfSeq, LenProperties
<1> HIDE DEF m
<1>3. CASE Overwritten(s, f, t)
  <2>1. PICK i \in 1 .. Len(s) : Supersedes(f, s[i]) /\ t = [s EXCEPT ![i] = f]
    BY <1>3 DEF Overwritten
  <2>2. /\ Len(t) = Len(s)
        /\ \A j \in 1 .. Len(s) : t[j] = IF j = i THEN f ELSE s[j]
    BY <2>1, ExceptSeq
  <2>3. Key(s[i]) = Key(f)
    BY <1>1, <1>2, <2>1
  <2>4. \A j \in 1 .. Len(s) : Key(t[j]) = Key(s[j])
    BY <2>2, <2>3
  <2>5. StatesOK(t, m)
    BY <1>1, <1>2, <2>2, <2>3, <2>4 DEF StatesOK
  <2>6. WaitingIn(t) = WaitingIn(s) \cup {Key(f)}
    BY <2>2, <2>3, <2>4 DEF WaitingIn
  <2> QED BY <2>5, <2>6 DEF m
<1>4. CASE Appended(s, f, t)
  <2>1. /\ Len(t) = Len(s) + 1 /\ t[Len(s) + 1] = f
        /\ \A j \in 1 .. Len(s) : t[j] = s[j]
    BY <1>4, AppendProperties DEF Appended
  <2>2. \A j \in 1 .. Len(s) : Key(s[j]) # Key(f)
    BY <1>1, <1>2, <1>4 DEF Appended, SupersedesNo
  <2>3. \A j \in 1 .. Len(t) : j \in 1 .. Len(s) \/ j = Len(s) + 1
    BY <1>2, <2>1
  <2>4. StatesOK(t, m)
    <3>1. \A j \in 1 .. Len(s) : s[j].number = m[Key(t[j])]
      BY <1>1, <1>2, <2>1, <2>2 DEF StatesOK
    <3>2. t[Len(s) + 1].number = m[Key(t[Len(s) + 1])]
      BY <1>1, <2>1
    <3>3. \A j \in 1 .. Len(t) : t[j].number = m[Key(t[j])]
      BY <2>1, <2>3, <3>1, <3>2
    <3>4. \A i, j \in 1 .. Len(t) : i # j => Key(t[i]) # Key(t[j])
      BY <2>1, <2>2, <2>3 DEF StatesOK
    <3> QED BY <3>3, <3>4 DEF StatesOK
  <2>5. WaitingIn(t) = WaitingIn(s) \cup {Key(f)}
    BY <1>2, <2>1, <2>3 DEF WaitingIn
  <2> QED BY <2>4, <2>5 DEF m
<1> QED BY <1>3, <1>4

(* The head leaves, and its key with it.                                          *)
LEMMA TailKeepsStates ==
  ASSUME NEW s \in Seq(States), s # << >>, NEW n, StatesOK(s, n)
  PROVE  /\ StatesOK(Tail(s), n)
         /\ Head(s) \in States
         /\ Head(s).number = n[Key(Head(s))]
         /\ Key(Head(s)) \in WaitingIn(s)
         /\ WaitingIn(Tail(s)) = WaitingIn(s) \ {Key(Head(s))}
<1>1. /\ Len(s) \in Nat \ {0} /\ Len(Tail(s)) = Len(s) - 1
      /\ \A i \in 1 .. Len(Tail(s)) : Tail(s)[i] = s[i + 1]
      /\ Head(s) = s[1] /\ Head(s) \in States
  BY EmptySeq, HeadTailProperties
<1>2. \A i \in 1 .. Len(s) : i = 1 \/ i - 1 \in 1 .. Len(Tail(s))
  BY <1>1
<1>3. \A i \in 1 .. Len(Tail(s)) : i + 1 \in 1 .. Len(s) /\ i + 1 # 1
  BY <1>1
<1>4. StatesOK(Tail(s), n)
  BY <1>1, <1>3 DEF StatesOK
<1>5. Head(s).number = n[Key(Head(s))] /\ Key(Head(s)) \in WaitingIn(s)
  BY <1>1 DEF StatesOK, WaitingIn
<1>6. WaitingIn(Tail(s)) = WaitingIn(s) \ {Key(Head(s))}
  <2>1. ASSUME NEW k \in WaitingIn(Tail(s)) PROVE k \in WaitingIn(s) \ {Key(Head(s))}
    BY <1>1, <1>3, <2>1 DEF WaitingIn, StatesOK
  <2>2. ASSUME NEW k \in WaitingIn(s) \ {Key(Head(s))} PROVE k \in WaitingIn(Tail(s))
    <3>1. PICK i \in 1 .. Len(s) : k = Key(s[i])
      BY <2>2 DEF WaitingIn
    <3>2. i # 1
      BY <1>1, <2>2, <3>1
    <3>3. i - 1 \in 1 .. Len(Tail(s)) /\ Tail(s)[i - 1] = s[i]
      BY <1>1, <3>2
    <3> QED BY <3>1, <3>3 DEF WaitingIn
  <2> QED BY <2>1, <2>2
<1> QED BY <1>1, <1>4, <1>5, <1>6

RegisterInv ==
  /\ StatesOK(queues[StateQuery], newest)
  /\ \A a \in Addresses, p \in Endpoints : newest[<<a, p>>] <= published[p]

(* What a step does to the state/query queue and to the two histories.            *)
RegisterStep ==
  LET s == queues[StateQuery] t == queues'[StateQuery] IN
    \/ /\ t = s
       /\ UNCHANGED <<newest, received>>
    \/ \E f \in States :
         /\ Overwritten(s, f, t) \/ Appended(s, f, t)
         /\ newest[Key(f)] < f.number
         /\ newest' = [newest EXCEPT ![Key(f)] = f.number]
         /\ UNCHANGED received
    \/ /\ s # << >> /\ t = Tail(s)
       /\ received' = [received EXCEPT ![Key(Head(s))] = Head(s).number]
       /\ UNCHANGED newest
    \/ /\ s # << >> /\ t = Tail(s)
       /\ UNCHANGED <<newest, received>>

(* Every step of the runtime is one of them.                                       *)
LEMMA NextIsRegisterStep ==
  ASSUME TypeOK, QueuesOK(queues), RegisterInv, [Next]_vars
  PROVE  RegisterStep /\ \A a \in Addresses, p \in Endpoints : newest'[<<a, p>>] <= published'[p]
<1>0. StateQuery \in Classes /\ Event \in Classes /\ Event # StateQuery
  BY DEF Classes, StateQuery, Event, Control, Diagnostic
<1>1. ASSUME UNCHANGED <<published, newest>>, RegisterStep
      PROVE  RegisterStep /\ \A a \in Addresses, p \in Endpoints : newest'[<<a, p>>] <= published'[p]
  BY <1>1 DEF RegisterInv
<1>2. ASSUME NEW q, QueuesOK(q), q[StateQuery] = queues[StateQuery], DrainOne(q)
      PROVE  RegisterStep /\ \A a \in Addresses, p \in Endpoints : newest'[<<a, p>>] <= published'[p]
  <2>1. PICK w \in Winners(q) :
          /\ queues' = Drained(q, w)
          /\ received' = IF w = StateQuery
                         THEN [received EXCEPT ![Key(Head(q[w]))] = Head(q[w]).number]
                         ELSE received
          /\ UNCHANGED <<address, published, events, newest>>
    BY <1>2 DEF DrainOne
  <2>2. CASE w = StateQuery
    <3>1. q[StateQuery] # << >> /\ queues'[StateQuery] = Tail(q[StateQuery])
      BY <1>0, <1>2, <2>1, <2>2, DrainChanges
    <3> QED BY <1>1, <1>2, <2>1, <2>2, <3>1 DEF RegisterStep
  <2>3. CASE w # StateQuery
    <3>1. \/ queues'[StateQuery] = q[StateQuery]
          \/ q[StateQuery] # << >> /\ queues'[StateQuery] = Tail(q[StateQuery])
      BY <1>0, <1>2, <2>1, DrainChanges
    <3> QED BY <1>1, <1>2, <2>1, <2>3, <3>1 DEF RegisterStep
  <2> QED BY <2>2, <2>3
<1>3. ASSUME NEW p \in Endpoints, PublishState(p)
      PROVE  RegisterStep /\ \A a \in Addresses, r \in Endpoints : newest'[<<a, r>>] <= published'[r]
  <2>1. /\ published[p] \in Nat /\ published'[p] = published[p] + 1
        /\ \A r \in Endpoints : /\ published[r] \in Nat /\ published'[r] \in Nat
                                /\ published[r] <= published'[r]
        /\ UNCHANGED received
    BY <1>3 DEF PublishState, TypeOK
  <2>2. \A a \in Addresses, r \in Endpoints :
          newest[<<a, r>>] \in Nat /\ newest[<<a, r>>] <= published'[r]
    <3> TAKE a \in Addresses, r \in Endpoints
    <3>1. newest[<<a, r>>] \in Nat
      BY DEF TypeOK, Keys
    <3>2. newest[<<a, r>>] <= published[r]
      BY DEF RegisterInv
    <3> QED BY <2>1, <3>1, <3>2
  <2>3. CASE UNCHANGED <<queues, newest>>
    BY <2>1, <2>2, <2>3 DEF RegisterStep
  <2>4. CASE address # NoAddress
    <3> DEFINE f == State(address, p, published'[p])
               t == Enqueue(queues, StateQuery, f)[StateQuery]
    <3>1. /\ f \in States /\ f \in Frame /\ Key(f) = <<address, p>> /\ Key(f) \in Keys
          /\ f.number = published'[p] /\ newest[Key(f)] < f.number
      BY <2>1, <2>4 DEF State, States, Frame, Key, Keys, TypeOK, RegisterInv
    <3>2. /\ queues' = Enqueue(queues, StateQuery, f)
          /\ newest' = IF Accepts(queues, StateQuery, f)
                       THEN [newest EXCEPT ![Key(f)] = f.number] ELSE newest
      BY <1>3, <2>4 DEF PublishState
    <3> HIDE DEF f
    <3>3. /\ queues'[StateQuery] = t
          /\ \/ Overwritten(queues[StateQuery], f, t) /\ Accepts(queues, StateQuery, f)
             \/ Appended(queues[StateQuery], f, t) /\ Accepts(queues, StateQuery, f)
             \/ Rejected(queues[StateQuery], f, t) /\ ~Accepts(queues, StateQuery, f)
      BY <1>0, <3>1, <3>2, EnqueueChanges DEF QueuesOK
    <3>4. RegisterStep
      BY <2>1, <3>1, <3>2, <3>3 DEF RegisterStep, Rejected
    <3>5. \A a \in Addresses, r \in Endpoints : newest'[<<a, r>>] <= published'[r]
      <4> TAKE a \in Addresses, r \in Endpoints
      <4>1. <<a, r>> \in Keys /\ newest \in [Keys -> Nat]
        BY DEF TypeOK, Keys
      <4>2. \/ newest'[<<a, r>>] = newest[<<a, r>>]
            \/ newest'[<<a, r>>] = published'[r]
        BY <3>1, <3>2, <4>1
      <4>3. newest[<<a, r>>] <= published'[r] /\ published'[r] <= published'[r]
        BY <2>1, <2>2
      <4> QED BY <4>2, <4>3
    <3> QED BY <3>4, <3>5
  <2> QED BY <1>3, <2>3, <2>4 DEF PublishState
<1>4. CASE PublishEvent
  <2> DEFINE f == Gesture(events + 1)
  <2>1. f \in Frame
    BY DEF Gesture, Events, Frame, TypeOK
  <2>2. queues' = Enqueue(queues, Event, f) /\ UNCHANGED <<published, newest, received>>
    BY <1>4 DEF PublishEvent
  <2> HIDE DEF f
  <2>3. queues' = [queues EXCEPT ![Event] = Enqueue(queues, Event, f)[Event]]
    BY <1>0, <2>1, <2>2, EnqueueChanges DEF QueuesOK
  <2>4. queues'[StateQuery] = queues[StateQuery]
    BY <1>0, <2>3 DEF QueuesOK
  <2> QED BY <1>1, <2>2, <2>4 DEF RegisterStep
<1>5. CASE HandleControl \/ HandleResolve
  <2>1. queues'[StateQuery] = queues[StateQuery]
    BY <1>5, EnqueueOther DEF HandleControl, HandleResolve
  <2> QED BY <1>1, <1>5, <2>1 DEF RegisterStep, HandleControl, HandleResolve
<1>6. CASE TickManagement
  BY <1>2, <1>6, EnqueueOther DEF TickManagement
<1>7. CASE TickDrain
  BY <1>2, <1>7 DEF TickDrain
<1>8. CASE (\E a \in Addresses : Assign(a)) \/ Withdraw \/ UNCHANGED vars
  BY <1>1, <1>8 DEF Assign, Withdraw, vars, RegisterStep
<1> QED BY <1>3, <1>4, <1>5, <1>6, <1>7, <1>8 DEF Next, Tick

(* The pending STATEs are one per key, and each is the newest of its key.           *)
LEMMA RegisterStepKeeps ==
  ASSUME TypeOK, QueuesOK(queues), RegisterInv, RegisterStep
  PROVE  StatesOK(queues[StateQuery], newest)'
<1> DEFINE s == queues[StateQuery]
           t == queues'[StateQuery]
<1>1. s \in Seq(States) /\ newest \in [Keys -> Nat] /\ StatesOK(s, newest)
  BY DEF QueuesOK, TypeOK, RegisterInv
<1>2. StatesOK(t, newest') => StatesOK(queues[StateQuery], newest)'
  BY DEF StatesOK
<1>3. \/ t = s /\ UNCHANGED newest
      \/ \E f \in States : /\ Overwritten(s, f, t) \/ Appended(s, f, t)
                           /\ newest' = [newest EXCEPT ![Key(f)] = f.number]
      \/ s # << >> /\ t = Tail(s) /\ UNCHANGED newest
  BY DEF RegisterStep
<1> HIDE DEF s, t
<1>4. ASSUME NEW f \in States, Overwritten(s, f, t) \/ Appended(s, f, t)
      PROVE  StatesOK(t, [newest EXCEPT ![Key(f)] = f.number])
  BY <1>1, <1>4, PublishKeepsStates
<1>5. s # << >> => StatesOK(Tail(s), newest)
  BY <1>1, TailKeepsStates
<1>6. StatesOK(t, newest')
  BY <1>1, <1>3, <1>4, <1>5
<1> QED BY <1>2, <1>6

(* Two pending STATEs never concern the same endpoint and source (enqueue), in any   *)
(* interleaving of publications, ticks and changes of the address.                  *)
THEOREM RegistersInvariant == Spec => [](OneStatePerEndpoint /\ RegisterInv)
<1>1. Init => RegisterInv
  <2>1. Init => queues[StateQuery] = << >>
    BY DEF Init, EmptyQueues, Classes, StateQuery, Control, Diagnostic
  <2> QED BY <2>1, EmptySeq DEF Init, RegisterInv, StatesOK, Keys
<1>2. TypeOK /\ QueuesOK(queues) /\ RegisterInv /\ [Next]_vars => RegisterInv'
  BY NextIsRegisterStep, RegisterStepKeeps DEF RegisterInv
<1>3. RegisterInv => OneStatePerEndpoint
  BY DEF RegisterInv, StatesOK, OneStatePerEndpoint
<1> QED BY <1>1, <1>2, <1>3, TransmitTypes, PTL DEF Spec

(* Every step of the runtime is a step of the registers, or changes none of them.    *)
LEMMA RegisterStepRefines ==
  ASSUME TypeOK, QueuesOK(queues), RegisterInv, RegisterStep
  PROVE  [R!Next]_(R!vars)
<1> DEFINE s == queues[StateQuery]
           t == queues'[StateQuery]
           waiting == {Key(f) : f \in Pending}
<1>1. s \in Seq(States) /\ newest \in [Keys -> Nat] /\ StatesOK(s, newest)
  BY DEF QueuesOK, TypeOK, RegisterInv
<1>2. waiting = WaitingIn(s) /\ waiting' = WaitingIn(t)
  BY DEF Pending, WaitingIn
<1>3. \A f \in States : Key(f) \in Keys
  BY DEF States, Key, Keys
<1>4. CASE t = s /\ UNCHANGED <<newest, received>>
  BY <1>2, <1>4 DEF R!vars
<1>5. ASSUME NEW f \in States, Overwritten(s, f, t) \/ Appended(s, f, t),
             newest[Key(f)] < f.number,
             newest' = [newest EXCEPT ![Key(f)] = f.number], UNCHANGED received
      PROVE  R!Publish(Key(f))
  <2>1. newest'[Key(f)] = f.number
    BY <1>1, <1>3, <1>5
  <2>2. waiting' = waiting \cup {Key(f)}
    BY <1>1, <1>2, <1>5, PublishKeepsStates
  <2> HIDE DEF waiting
  <2> QED BY <1>5, <2>1, <2>2 DEF R!Publish, waiting
<1>6. ASSUME s # << >>, t = Tail(s), UNCHANGED newest
      PROVE  /\ Head(s) \in States /\ Key(Head(s)) \in waiting
             /\ Head(s).number = newest[Key(Head(s))]
             /\ waiting' = waiting \ {Key(Head(s))}
  BY <1>1, <1>2, <1>6, TailKeepsStates
<1>7. CASE /\ s # << >> /\ t = Tail(s) /\ UNCHANGED newest
           /\ received' = [received EXCEPT ![Key(Head(s))] = Head(s).number]
  <2>1. R!Send(Key(Head(s)))
    BY <1>6, <1>7 DEF R!Send
  <2> QED BY <1>3, <1>6, <1>7, <2>1 DEF R!Next
<1>8. CASE s # << >> /\ t = Tail(s) /\ UNCHANGED <<newest, received>>
  <2>1. R!Lose(Key(Head(s)))
    BY <1>6, <1>8 DEF R!Lose
  <2> QED BY <1>3, <1>6, <1>8, <2>1 DEF R!Next
<1>9. CASE \E f \in States : /\ Overwritten(s, f, t) \/ Appended(s, f, t)
                             /\ newest[Key(f)] < f.number
                             /\ newest' = [newest EXCEPT ![Key(f)] = f.number]
                             /\ UNCHANGED received
  BY <1>3, <1>5, <1>9 DEF R!Next
<1> QED BY <1>4, <1>7, <1>8, <1>9 DEF RegisterStep

(* The transmit queues implement the registers: no STATE is transmitted that is not   *)
(* the newest accepted one of its source and endpoint (publish_state, enqueue,         *)
(* drain_one).                                                                      *)
THEOREM QueuesAreRegisters == Spec => Registers
<1>1. Init => R!Init
  <2>1. Init => queues[StateQuery] = << >>
    BY DEF Init, EmptyQueues, Classes, StateQuery, Control, Diagnostic
  <2> QED BY <2>1, EmptySeq DEF Init, R!Init, Pending
<1>2. TypeOK /\ QueuesOK(queues) /\ RegisterInv /\ [Next]_vars => [R!Next]_(R!vars)
  BY NextIsRegisterStep, RegisterStepRefines
<1> QED BY <1>1, <1>2, TransmitTypes, RegistersInvariant, PTL DEF Spec, Registers, R!Spec

-----------------------------------------------------------------------------
(* The events.                                                                     *)

EventsOK(s, e) == \A i \in 1 .. Len(s) : s[i] = Gesture(e - Len(s) + i)

(* An accepted event goes behind the others.                                        *)
LEMMA AppendKeepsEvents ==
  ASSUME NEW s \in Seq(Events), NEW e \in Nat, EventsOK(s, e)
  PROVE  EventsOK(Append(s, Gesture(e + 1)), e + 1)
<1> DEFINE f == Gesture(e + 1)
           t == Append(s, f)
<1>1. Len(s) \in Nat
  BY LenProperties
<1>2. f \in Events
  BY DEF Gesture, Events
<1> HIDE DEF f
<1>3. Len(t) = Len(s) + 1 /\ t[Len(s) + 1] = f /\ \A i \in 1 .. Len(s) : t[i] = s[i]
  BY <1>2, AppendProperties
<1> HIDE DEF t
<1>4. \A i \in 1 .. Len(t) : e + 1 - Len(t) + i = e - Len(s) + i
  BY <1>1, <1>3
<1>5. \A i \in 1 .. Len(t) : i \in 1 .. Len(s) \/ i = Len(s) + 1
  BY <1>1, <1>3
<1>6. f = Gesture(e - Len(s) + (Len(s) + 1))
  BY <1>1 DEF f
<1>7. EventsOK(t, e + 1)
  BY <1>3, <1>4, <1>5, <1>6 DEF EventsOK
<1> QED BY <1>7 DEF t, f

(* The oldest event leaves first.                                                   *)
LEMMA TailKeepsEvents ==
  ASSUME NEW s \in Seq(Events), s # << >>, NEW e \in Nat, EventsOK(s, e)
  PROVE  EventsOK(Tail(s), e)
<1>1. /\ Len(s) \in Nat \ {0} /\ Len(Tail(s)) = Len(s) - 1
      /\ \A i \in 1 .. Len(Tail(s)) : Tail(s)[i] = s[i + 1]
  BY EmptySeq, HeadTailProperties
<1>2. \A i \in 1 .. Len(Tail(s)) : /\ i + 1 \in 1 .. Len(s)
                                   /\ e - Len(s) + (i + 1) = e - Len(Tail(s)) + i
  BY <1>1
<1> QED BY <1>1, <1>2 DEF EventsOK

(* The events that wait are the last ones accepted, in the order of the calls: no     *)
(* other traffic, loss or change of address skips, merges or reorders them.           *)
THEOREM EventsStayInOrder == Spec => []EventsIntact
<1>0. StateQuery \in Classes /\ Event \in Classes /\ Event # StateQuery
  BY DEF Classes, StateQuery, Event, Control, Diagnostic
<1>1. EventsIntact <=> EventsOK(queues[Event], events)
  BY DEF EventsIntact, EventsOK
<1>2. EventsIntact' <=> EventsOK(queues'[Event], events')
  BY DEF EventsIntact, EventsOK
<1>3. Init => EventsIntact
  <2>1. Init => queues[Event] = << >>
    BY <1>0 DEF Init, EmptyQueues
  <2> QED BY <1>1, <2>1, EmptySeq DEF EventsOK
<1>4. TypeOK /\ QueuesOK(queues) /\ EventsIntact /\ [Next]_vars => EventsIntact'
  <2> SUFFICES ASSUME TypeOK, QueuesOK(queues), EventsIntact, [Next]_vars
               PROVE  EventsIntact'
    OBVIOUS
  <2>0. queues[Event] \in Seq(Events) /\ events \in Nat /\ EventsOK(queues[Event], events)
    BY <1>1 DEF QueuesOK, TypeOK
  <2>1. ASSUME queues'[Event] = queues[Event], UNCHANGED events PROVE EventsIntact'
    BY <1>2, <2>0, <2>1
  <2>2. ASSUME NEW q, QueuesOK(q), q[Event] = queues[Event], DrainOne(q)
        PROVE  EventsIntact'
    <3>1. PICK w \in Winners(q) : queues' = Drained(q, w) /\ UNCHANGED events
      BY <2>2 DEF DrainOne
    <3>2. \/ queues'[Event] = q[Event]
          \/ q[Event] # << >> /\ queues'[Event] = Tail(q[Event])
      BY <1>0, <2>2, <3>1, DrainChanges
    <3> QED BY <1>2, <2>0, <2>1, <2>2, <3>1, <3>2, TailKeepsEvents
  <2>3. ASSUME NEW p \in Endpoints, PublishState(p) PROVE EventsIntact'
    <3>1. CASE address = NoAddress
      BY <2>1, <2>3, <3>1 DEF PublishState
    <3>2. CASE address # NoAddress
      <4> DEFINE f == State(address, p, published'[p])
      <4>1. f \in Frame
        BY <2>3, <3>2 DEF State, States, Frame, TypeOK, PublishState
      <4>2. queues' = Enqueue(queues, StateQuery, f) /\ UNCHANGED events
        BY <2>3, <3>2 DEF PublishState
      <4> HIDE DEF f
      <4>3. queues' = [queues EXCEPT ![StateQuery] = Enqueue(queues, StateQuery, f)[StateQuery]]
        BY <1>0, <4>1, <4>2, EnqueueChanges DEF QueuesOK
      <4>4. queues'[Event] = queues[Event]
        BY <1>0, <4>3 DEF QueuesOK
      <4> QED BY <2>1, <4>2, <4>4
    <3> QED BY <3>1, <3>2
  <2>4. ASSUME PublishEvent PROVE EventsIntact'
    <3> DEFINE f == Gesture(events + 1)
               s == queues[Event]
               t == Enqueue(queues, Event, f)[Event]
    <3>1. f \in Frame /\ f.kind # "state"
      BY <2>0 DEF Gesture, Events, Frame
    <3>2. /\ queues' = Enqueue(queues, Event, f)
          /\ events' = IF Accepts(queues, Event, f) THEN events + 1 ELSE events
      BY <2>4 DEF PublishEvent
    <3>3. f = Gesture(events + 1)
      OBVIOUS
    <3> HIDE DEF f
    <3>4. \/ Overwritten(s, f, t) /\ Accepts(queues, Event, f)
          \/ Appended(s, f, t) /\ Accepts(queues, Event, f)
          \/ Rejected(s, f, t) /\ ~Accepts(queues, Event, f)
      BY <1>0, <3>1, EnqueueChanges DEF QueuesOK
    <3>5. ~Overwritten(s, f, t)
      BY <3>1 DEF Overwritten, Supersedes
    <3>6. \/ t = Append(s, f) /\ events' = events + 1
          \/ t = s /\ events' = events
      BY <3>2, <3>4, <3>5 DEF Appended, Rejected
    <3>7. EventsOK(t, events')
      BY <2>0, <3>3, <3>6, AppendKeepsEvents
    <3> QED BY <1>2, <3>2, <3>7
  <2>5. ASSUME HandleControl \/ HandleResolve PROVE EventsIntact'
    BY <2>1, <2>5, EnqueueOther DEF HandleControl, HandleResolve
  <2>6. CASE TickManagement
    BY <2>2, <2>6, EnqueueOther DEF TickManagement
  <2>7. CASE TickDrain
    BY <2>2, <2>7 DEF TickDrain
  <2>8. CASE (\E a \in Addresses : Assign(a)) \/ Withdraw \/ UNCHANGED vars
    BY <2>1, <2>8 DEF Assign, Withdraw, vars
  <2> QED BY <2>3, <2>4, <2>5, <2>6, <2>7, <2>8 DEF Next, Tick
<1> QED BY <1>3, <1>4, TransmitTypes, PTL DEF Spec
=============================================================================
