------------------------- MODULE TickScheduleProofs -------------------------
(***************************************************************************)
(* Theorems about TickSchedule: types, signs of life in time, and queues that  *)
(* are drained, for any width of the clock, any delays and any loop time that   *)
(* is shorter than the heartbeat interval.                                     *)
(***************************************************************************)
EXTENDS TickSchedule, TLAPS

-----------------------------------------------------------------------------
(* The constants                                                             *)

LEMMA Delays ==
  /\ MaxStep \in Nat /\ MaxStep > 0 /\ MaxStep < Heartbeat
  /\ Heartbeat \in Nat /\ Longest \in Nat /\ StartDelay \in Nat /\ Interval \in Nat
  /\ Longest > 0 /\ Width \in Nat
  /\ Heartbeat < Width /\ Longest < Width /\ StartDelay + Interval < Width
  /\ \A d \in ResponseDelays : d \in Nat /\ d < Width
  BY ScheduleAssumption

LEMMA Counts ==
  /\ Len(Retries) \in Nat /\ Owned \in Nat /\ Observed \in Nat
  /\ MaxRequests \in Nat /\ MaxMoves \in Nat
  BY ScheduleAssumption

-----------------------------------------------------------------------------
(* Arithmetic                                                                *)

\* One more delay allows one more step.
LEMMA OneMoreStep ==
  ASSUME NEW m \in Nat, NEW n \in Nat
  PROVE  m * n \in Nat /\ m * (n + 1) = m * n + m /\ m * 0 = 0
  OBVIOUS

\* A time plus a delay that is shorter than the clock is a time.
LEMMA PlusClock ==
  ASSUME NEW t \in Clock, NEW d \in Nat, d < Width
  PROVE  Plus(t, d) \in Clock
  BY Delays DEF Plus, Clock

\* The retry delays never exceed the longest.
LEMMA RetryBounded ==
  ASSUME NEW a \in 0 .. Len(Retries)
  PROVE  RetryDelay(a) \in 0 .. Longest
  <1>1. CASE a < Len(Retries)
    <2>1. a + 1 \in 1 .. Len(Retries)
      BY <1>1, Counts
    <2> QED BY <1>1, <2>1, ScheduleAssumption DEF RetryDelay
  <1>2. CASE ~(a < Len(Retries))
    BY <1>2, Delays DEF RetryDelay
  <1> QED BY <1>1, <1>2

LEMMA Limits ==
  /\ Limit["discovery"] = Longest /\ Limit["claim"] = StartDelay + Interval
  /\ Limit["heartbeat"] = Heartbeat
  /\ \A k \in Timers : Limit[k] \in Nat
  BY Delays, Counts DEF Limit, Timers

LEMMA ActiveKind ==
  TypeOK =>
    \/ Active = "discovery" /\ ~assigned
    \/ Active = "claim" /\ assigned /\ claimsSent \in {0, 1}
    \/ Active = "heartbeat" /\ assigned /\ claimsSent = 2
  <1> SUFFICES ASSUME TypeOK
               PROVE  \/ Active = "discovery" /\ ~assigned
                      \/ Active = "claim" /\ assigned /\ claimsSent \in {0, 1}
                      \/ Active = "heartbeat" /\ assigned /\ claimsSent = 2
    OBVIOUS
  <1>1. CASE ~assigned
    BY <1>1 DEF Active
  <1>2. CASE assigned /\ claimsSent = 2
    BY <1>2 DEF Active
  <1>3. CASE assigned /\ claimsSent \in {0, 1}
    <2>1. claimsSent < 2 /\ claimsSent # 2
      BY <1>3
    <2> QED BY <1>3, <2>1 DEF Active
  <1>4. claimsSent \in {0, 1} \/ claimsSent = 2
    BY DEF TypeOK
  <1> QED BY <1>1, <1>2, <1>3, <1>4

\* The active timer depends on the address and the claims sent.
LEMMA ActiveStays ==
  ASSUME TypeOK, TypeOK', UNCHANGED <<assigned, claimsSent>>
  PROVE  Active' = Active
  <1>1. (\/ Active = "discovery" /\ ~assigned
         \/ Active = "claim" /\ assigned /\ claimsSent \in {0, 1}
         \/ Active = "heartbeat" /\ assigned /\ claimsSent = 2)'
    BY ActiveKind, PTL
  <1> QED BY <1>1, ActiveKind

LEMMA ActiveIsTimer ==
  ASSUME TypeOK
  PROVE  /\ Active \in Timers
         /\ Active = "discovery" <=> ~assigned
         /\ Active = "claim" <=> assigned /\ claimsSent < 2
         /\ Active = "heartbeat" <=> assigned /\ claimsSent = 2
  BY DEF TypeOK, Active, Timers

\* The time with which a tick compares the clock.
LEMMA DueTime ==
  ASSUME TypeOK, NEW t \in Clock
  PROVE  /\ ClaimTime(t) \in Clock
         /\ Due(t) <=> t >= IF Active = "claim" THEN ClaimTime(t) ELSE next[Active]
  <1>1. ClaimTime(t) \in Clock
    <2>1. StartDelay \in Nat /\ StartDelay < Width
      BY Delays, Counts
    <2>2. Plus(t, StartDelay) \in Clock
      BY <2>1, PlusClock
    <2> QED BY <2>2 DEF ClaimTime, TypeOK, Timers
  <1>2. Due(t) <=> t >= IF Active = "claim" THEN ClaimTime(t) ELSE next[Active]
    BY ActiveIsTimer DEF Due, TypeOK, Timers
  <1> QED BY <1>1, <1>2

-----------------------------------------------------------------------------
(* Types                                                                     *)

LEMMA InitTypes == Init => TypeOK
  <1> SUFFICES ASSUME Init PROVE TypeOK
    OBVIOUS
  <1> USE DEF Init
  <1>1. now \in Clock /\ next \in [Timers -> Clock]
    BY Delays DEF Clock
  <1>2. assigned \in BOOLEAN /\ scheduled \in BOOLEAN
    OBVIOUS
  <1>3. /\ claimsSent \in 0 .. 2 /\ attempt \in 0 .. Len(Retries)
        /\ ownedIndex \in 0 .. Owned /\ resolveIndex \in 0 .. Observed
        /\ silence \in Nat /\ delays \in Nat /\ idle \in Nat
        /\ moves \in 0 .. MaxMoves /\ requests \in 0 .. MaxRequests
    BY Counts
  <1>4. pending \in Clock \cup {Never} /\ claimed \subseteq 1 .. Owned /\ putOff \subseteq Timers
    OBVIOUS
  <1> QED BY <1>1, <1>2, <1>3, <1>4 DEF TypeOK

\* The history variables of a tick.
LEMMA HistoryTypes ==
  ASSUME TypeOK, NEW d \in Nat, NEW set, NEW a \in Nat
  PROVE  /\ PutOff(d, set) => putOff' \subseteq Timers
         /\ NoSign(d, a) => silence' \in Nat /\ delays' \in Nat
         /\ SignOfLife => silence' \in Nat /\ delays' \in Nat
  <1>1. PutOff(d, set) => putOff' \subseteq Timers
    BY DEF PutOff, TypeOK
  <1>2. NoSign(d, a) => silence' \in Nat /\ delays' \in Nat
    BY DEF NoSign, TypeOK
  <1>3. SignOfLife => silence' \in Nat /\ delays' \in Nat
    BY DEF SignOfLife
  <1> QED BY <1>1, <1>2, <1>3

\* TypeOK in parts.
Bools   == assigned \in BOOLEAN /\ scheduled \in BOOLEAN
Times   == now \in Clock /\ next \in [Timers -> Clock] /\ pending \in Clock \cup {Never}
Cursors == /\ claimsSent \in 0 .. 2 /\ attempt \in 0 .. Len(Retries)
           /\ ownedIndex \in 0 .. Owned /\ resolveIndex \in 0 .. Observed
           /\ moves \in 0 .. MaxMoves /\ requests \in 0 .. MaxRequests
Records == /\ claimed \subseteq 1 .. Owned /\ putOff \subseteq Timers
           /\ silence \in Nat /\ delays \in Nat /\ idle \in Nat

LEMMA TypeParts == TypeOK <=> Bools /\ Times /\ Cursors /\ Records
  BY DEF TypeOK, Bools, Times, Cursors, Records

LEMMA TickTypes ==
  ASSUME TypeOK, NEW d \in 1 .. MaxStep,
         TickResponse(d) \/ TickDiscovery(d) \/ TickClaim(d) \/ TickHeartbeat(d) \/ TickRest(d)
  PROVE  TypeOK'
  <1> DEFINE t == Plus(now, d)
  <1>0. Bools /\ Times /\ Cursors /\ Records
    BY TypeParts
  <1>1. d \in Nat /\ t \in Clock
    BY <1>0, Delays, PlusClock DEF Times
  <1>2. ClaimTime(t) \in Clock
    BY <1>1, DueTime
  <1>3. CASE TickResponse(d)
    <2>1. Bools' BY <1>0, <1>3 DEF TickResponse, Bools
    <2>2. Times' BY <1>0, <1>1, <1>3 DEF TickResponse, Times
    <2>3. Cursors' BY <1>0, <1>3 DEF TickResponse, Cursors, bounds
    <2>4. Records' 
      <3>1. (IF Due(t) \/ Scheduling # {} THEN 1 ELSE 0) \in Nat
        OBVIOUS
      <3>2. putOff' \subseteq Timers /\ silence' \in Nat /\ delays' \in Nat
        BY <1>1, <1>3, <3>1, HistoryTypes DEF TickResponse
      <3> QED BY <1>0, <1>3, <3>2 DEF TickResponse, Records
    <2> QED BY <2>1, <2>2, <2>3, <2>4, TypeParts, PTL
  <1>4. CASE TickDiscovery(d)
    <2>1. Bools' BY <1>0, <1>4 DEF TickDiscovery, Bools
    <2>2. Times'
      <3>1. RetryDelay(attempt) \in Nat /\ RetryDelay(attempt) < Width
        BY <1>0, RetryBounded, Delays DEF Cursors
      <3>2. Plus(t, RetryDelay(attempt)) \in Clock
        BY <1>1, <3>1, PlusClock
      <3>3. \A r \in ResponseDelays : Plus(t, r) \in Clock
        BY <1>1, PlusClock, Delays
      <3> QED BY <1>0, <1>1, <1>4, <3>2, <3>3 DEF TickDiscovery, Times
    <2>3. Cursors' BY <1>0, <1>4, Counts DEF TickDiscovery, Cursors, bounds
    <2>4. Records'
      <3>1. putOff' \subseteq Timers /\ silence' \in Nat /\ delays' \in Nat
        BY <1>1, <1>4, HistoryTypes DEF TickDiscovery
      <3> QED BY <1>0, <1>4, <3>1 DEF TickDiscovery, Records
    <2> QED BY <2>1, <2>2, <2>3, <2>4, TypeParts, PTL
  <1>5. CASE TickClaim(d)
    <2>1. Bools' BY <1>0, <1>5 DEF TickClaim, Bools
    <2>2. Times'
      <3>1. Plus(ClaimTime(t), Interval) \in Clock
        BY <1>2, PlusClock, Delays
      <3> QED BY <1>0, <1>1, <1>5, <3>1 DEF TickClaim, Times
    <2>3. Cursors'
      <3>1. Active = "claim"
        BY <1>5 DEF TickClaim
      <3>2. claimsSent < 2
        BY <3>1, ActiveIsTimer
      <3> QED BY <1>0, <1>5, <3>2 DEF TickClaim, Cursors, bounds
    <2>4. Records'
      <3>1. putOff' \subseteq Timers /\ silence' \in Nat /\ delays' \in Nat
        BY <1>1, <1>5, HistoryTypes DEF TickClaim
      <3> QED BY <1>0, <1>5, <3>1 DEF TickClaim, Records
    <2> QED BY <2>1, <2>2, <2>3, <2>4, TypeParts, PTL
  <1>6. CASE TickHeartbeat(d)
    <2>1. Bools' BY <1>0, <1>6 DEF TickHeartbeat, Bools
    <2>2. Times'
      <3>1. HeartbeatTime(t) \in Clock
        BY <1>1, PlusClock, Delays DEF HeartbeatTime
      <3> QED BY <1>0, <1>1, <1>6, <3>1 DEF TickHeartbeat, Times
    <2>3. Cursors' BY <1>0, <1>6 DEF TickHeartbeat, Cursors, bounds
    <2>4. Records'
      <3>1. putOff' \subseteq Timers /\ silence' \in Nat /\ delays' \in Nat
        BY <1>1, <1>6, HistoryTypes DEF TickHeartbeat
      <3> QED BY <1>0, <1>1, <1>6, <3>1 DEF TickHeartbeat, Records
    <2> QED BY <2>1, <2>2, <2>3, <2>4, TypeParts, PTL
  <1>7. CASE TickRest(d)
    <2>1. Bools' BY <1>0, <1>7 DEF TickRest, Bools
    <2>2. Times' BY <1>0, <1>1, <1>2, <1>7 DEF TickRest, Times
    <2>3. Cursors'
      <3>1. ownedIndex' \in 0 .. Owned /\ resolveIndex' \in 0 .. Observed
        BY <1>0, <1>7, Counts DEF TickRest, Cursors
      <3> QED BY <1>0, <1>7, <3>1 DEF TickRest, Cursors, bounds
    <2>4. Records'
      <3>1. putOff' \subseteq Timers /\ silence' \in Nat /\ delays' \in Nat
        BY <1>1, <1>7, HistoryTypes DEF TickRest
      <3>2. claimed' \subseteq 1 .. Owned
        <4>1. ownedIndex < Owned => ownedIndex + 1 \in 1 .. Owned
          BY <1>0, Counts DEF Cursors
        <4>2. claimed' = claimed \/ (ownedIndex < Owned /\ claimed' = claimed \cup {ownedIndex + 1})
          BY <1>7 DEF TickRest
        <4> QED BY <1>0, <4>1, <4>2 DEF Records
      <3> QED BY <1>0, <1>7, <3>1, <3>2 DEF TickRest, Records
    <2> QED BY <2>1, <2>2, <2>3, <2>4, TypeParts, PTL
  <1> QED BY <1>3, <1>4, <1>5, <1>6, <1>7

LEMMA ReceiveTypes ==
  ASSUME TypeOK, HandleRequest \/ Assign \/ Withdraw
  PROVE  TypeOK'
  <1>0. Bools /\ Times /\ Cursors /\ Records
    BY TypeParts
  <1>1. CASE HandleRequest
    <2>1. Bools' BY <1>0, <1>1 DEF HandleRequest, Bools
    <2>2. Times'
      <3>1. \A r \in ResponseDelays : Plus(now, r) \in Clock
        BY <1>0, PlusClock, Delays DEF Times
      <3> QED BY <1>0, <1>1, <3>1 DEF HandleRequest, Times
    <2>3. Cursors' BY <1>0, <1>1, Counts DEF HandleRequest, Cursors
    <2>4. Records' BY <1>0, <1>1 DEF HandleRequest, Records, history
    <2> QED BY <2>1, <2>2, <2>3, <2>4, TypeParts, PTL
  <1>2. CASE Assign
    <2>1. Bools' BY <1>0, <1>2 DEF Assign, Bools
    <2>2. Times' BY <1>0, <1>2 DEF Assign, Times
    <2>3. Cursors' BY <1>0, <1>2, Counts DEF Assign, Cursors, FirstOwned
    <2>4. Records' BY <1>0, <1>2 DEF Assign, Records, SignOfLife
    <2> QED BY <2>1, <2>2, <2>3, <2>4, TypeParts, PTL
  <1>3. CASE Withdraw
    <2>1. Bools' BY <1>0, <1>3 DEF Withdraw, Bools
    <2>2. Times'
      <3>1. 0 \in Clock
        BY Delays DEF Clock
      <3> QED BY <1>0, <1>3, <3>1 DEF Withdraw, Times
    <2>3. Cursors' BY <1>0, <1>3, Counts DEF Withdraw, Cursors
    <2>4. Records' BY <1>0, <1>3 DEF Withdraw, Records, SignOfLife
    <2> QED BY <2>1, <2>2, <2>3, <2>4, TypeParts, PTL
  <1> QED BY <1>1, <1>2, <1>3

LEMMA NextTypes == TypeOK /\ [Next]_vars => TypeOK'
  <1> SUFFICES ASSUME TypeOK, [Next]_vars PROVE TypeOK'
    OBVIOUS
  <1>1. CASE Tick
    BY <1>1, TickTypes DEF Tick
  <1>2. CASE HandleRequest \/ Assign \/ Withdraw
    BY <1>2, ReceiveTypes
  <1>3. CASE UNCHANGED vars
    BY <1>3 DEF vars, node, history, bounds, TypeOK
  <1> QED BY <1>1, <1>2, <1>3 DEF Next

(* Every variable holds what its C++ counterpart can hold, and the clock and the   *)
(* timers stay within their width (NodeRuntime's members).                        *)
THEOREM ScheduleTypes == Spec => []TypeOK
  <1> QED BY InitTypes, NextTypes, PTL DEF Spec

-----------------------------------------------------------------------------
(***************************************************************************)
(* Signs of life in time.  A timer that no wrap has put off lies no further      *)
(* ahead than its limit; the silence and the rest of the way to the timer stay    *)
(* within the bound, except that the time of the first claim is fixed only by    *)
(* the first tick that has no response to send.                                *)
(***************************************************************************)
Ahead == \A k \in Timers \ putOff : next[k] - now <= Limit[k]

Allowed == Limit[Active] + MaxStep * delays + (IF Active = "claim" THEN MaxStep ELSE 0)

Quiet ==
  Active \notin putOff =>
    IF Active = "claim" /\ ~scheduled
    THEN silence <= MaxStep * delays
    ELSE /\ now < next[Active] => silence + (next[Active] - now) <= Allowed
         /\ now >= next[Active] => silence < Allowed

LEMMA AllowedPositive ==
  ASSUME TypeOK
  PROVE  /\ MaxStep * delays \in Nat /\ Limit[Active] \in Nat
         /\ Allowed \in Nat /\ Allowed > 0 /\ Limit[Active] <= Allowed
  <1>1. delays \in Nat /\ MaxStep * delays \in Nat
    BY Delays, OneMoreStep DEF TypeOK
  <1>2. Limit[Active] \in Nat /\ (Active # "claim" => Limit[Active] > 0)
    BY Limits, ActiveIsTimer, Delays DEF Timers
  <1> QED BY <1>1, <1>2, Delays DEF Allowed

\* A sign of life keeps Quiet.
LEMMA FreshQuiet == TypeOK /\ Ahead /\ silence = 0 => Quiet
  <1> SUFFICES ASSUME TypeOK, Ahead, silence = 0, Active \notin putOff
               PROVE  IF Active = "claim" /\ ~scheduled
                      THEN silence <= MaxStep * delays
                      ELSE /\ now < next[Active] => silence + (next[Active] - now) <= Allowed
                           /\ now >= next[Active] => silence < Allowed
    BY DEF Quiet
  <1>1. next[Active] - now <= Limit[Active] /\ next[Active] \in Int /\ now \in Int
    BY ActiveIsTimer DEF Ahead, TypeOK, Clock
  <1> QED BY <1>1, AllowedPositive

\* A time plus a delay lies at most the delay ahead.
LEMMA PlusAhead ==
  ASSUME NEW t \in Clock, NEW d \in Nat, d < Width
  PROVE  Plus(t, d) - t <= d
  BY Delays DEF Plus, Clock

\* A tick that sets some timers within their limits keeps Ahead.
LEMMA AheadTick ==
  ASSUME TypeOK, TypeOK', Ahead, NEW d \in 1 .. MaxStep, NEW set,
         now' = Plus(now, d), PutOff(d, set),
         \A k \in Timers \ set : next'[k] = next[k],
         \A k \in Timers \cap set : next'[k] - now' <= Limit[k]
  PROVE  Ahead'
  <1> SUFFICES ASSUME NEW k \in Timers, k \notin putOff'
               PROVE  next'[k] - now' <= Limit[k]
    BY DEF Ahead, Limit, Timers
  <1>1. CASE k \in set
    BY <1>1
  <1>2. CASE k \notin set
    <2>1. k \notin putOff /\ ~(Wraps(d) /\ next[k] >= Limit[k])
      BY <1>2 DEF PutOff
    <2>2. next'[k] = next[k] /\ next[k] - now <= Limit[k]
      BY <1>2, <2>1 DEF Ahead
    <2>3. next[k] \in Int /\ now \in Nat /\ now' \in Nat /\ Limit[k] \in Nat /\ d \in Nat
      BY Limits, Delays DEF TypeOK, Clock
    <2>4. CASE Wraps(d)
      BY <2>1, <2>2, <2>3, <2>4
    <2>5. CASE ~Wraps(d)
      <3>1. now' = now + d
        BY <2>3, <2>5, Delays DEF Wraps, Plus
      <3> QED BY <2>2, <2>3, <3>1
    <2> QED BY <2>4, <2>5
  <1> QED BY <1>1, <1>2

LEMMA AheadNext ==
  ASSUME TypeOK, TypeOK', Ahead, [Next]_vars
  PROVE  Ahead'
  <1>0. /\ now \in Clock /\ next \in [Timers -> Clock] /\ attempt \in 0 .. Len(Retries)
        /\ "discovery" \in Timers /\ "claim" \in Timers /\ "heartbeat" \in Timers
    BY DEF TypeOK, Timers
  <1>1. ASSUME NEW d \in 1 .. MaxStep, TickResponse(d)
        PROVE  Ahead'
    <2>1. PutOff(d, {}) /\ now' = Plus(now, d) /\ next' = next
      BY <1>1 DEF TickResponse
    <2> QED BY <2>1, AheadTick
  <1>2. ASSUME NEW d \in 1 .. MaxStep,
               TickDiscovery(d) \/ TickClaim(d) \/ TickHeartbeat(d) \/ TickRest(d)
        PROVE  Ahead'
    <2> DEFINE t == Plus(now, d)
    <2>1. d \in Nat /\ t \in Clock /\ now' = t
      BY <1>0, <1>2, Delays, PlusClock DEF TickDiscovery, TickClaim, TickHeartbeat, TickRest
    <2>2. CASE TickDiscovery(d)
      <3>1. RetryDelay(attempt) \in Nat /\ RetryDelay(attempt) < Width
            /\ RetryDelay(attempt) <= Limit["discovery"]
        BY <1>0, RetryBounded, Limits, Delays
      <3>2. Plus(t, RetryDelay(attempt)) - t <= Limit["discovery"]
        <4>1. Plus(t, RetryDelay(attempt)) - t <= RetryDelay(attempt)
          BY <2>1, <3>1, PlusAhead
        <4>2. Plus(t, RetryDelay(attempt)) \in Int /\ t \in Int /\ Limit["discovery"] \in Nat
          <5>1. Plus(t, RetryDelay(attempt)) \in Clock
            BY <2>1, <3>1, PlusClock
          <5> QED BY <1>0, <2>1, <5>1, Limits DEF Clock
        <4> QED BY <3>1, <4>1, <4>2
      <3>3. /\ PutOff(d, {"discovery"})
            /\ next' = [next EXCEPT !["discovery"] = Plus(t, RetryDelay(attempt))]
        BY <2>2 DEF TickDiscovery
      <3> QED BY <1>0, <2>1, <3>2, <3>3, AheadTick
    <2>3. CASE TickClaim(d)
      <3> DEFINE c == ClaimTime(t)
      <3>1. c \in Clock /\ t >= c
        <4>1. Active = "claim" /\ Due(t)
          BY <2>3 DEF TickClaim
        <4> QED BY <2>1, <4>1, DueTime
      <3>2. Plus(c, Interval) - c <= Interval /\ Plus(c, Interval) \in Clock
        BY <3>1, PlusAhead, PlusClock, Delays
      <3>3. Plus(c, Interval) - t <= Limit["claim"]
        BY <2>1, <3>1, <3>2, Limits, Delays DEF Clock
      <3>4. PutOff(d, {"claim"}) /\ next' = [next EXCEPT !["claim"] = Plus(c, Interval)]
        BY <2>3 DEF TickClaim
      <3> QED BY <1>0, <2>1, <3>3, <3>4, AheadTick
    <2>4. CASE TickHeartbeat(d)
      <3>1. HeartbeatTime(t) - t <= Limit["heartbeat"]
        BY <2>1, PlusAhead, Limits, Delays DEF HeartbeatTime
      <3>2. PutOff(d, {"heartbeat"}) /\ next' = [next EXCEPT !["heartbeat"] = HeartbeatTime(t)]
        BY <2>4 DEF TickHeartbeat
      <3> QED BY <1>0, <2>1, <3>1, <3>2, AheadTick
    <2>5. CASE TickRest(d)
      <3>1. PutOff(d, Scheduling) /\ next' = [next EXCEPT !["claim"] = ClaimTime(t)]
        BY <2>5 DEF TickRest
      <3>2. CASE Scheduling = {"claim"} /\ ClaimTime(t) = Plus(t, StartDelay)
        <4>1. Plus(t, StartDelay) - t <= StartDelay /\ Plus(t, StartDelay) \in Clock
          BY <2>1, PlusAhead, PlusClock, Delays
        <4>2. ClaimTime(t) - t <= Limit["claim"]
          BY <2>1, <3>2, <4>1, Limits, Delays DEF Clock
        <4> QED BY <1>0, <2>1, <3>1, <3>2, <4>2, AheadTick
      <3>3. CASE Scheduling = {} /\ ClaimTime(t) = next["claim"]
        BY <1>0, <2>1, <3>1, <3>3, AheadTick
      <3> QED BY <3>2, <3>3 DEF Scheduling, ClaimTime
    <2> QED BY <1>2, <2>2, <2>3, <2>4, <2>5
  <1>3. CASE Assign
    <2>1. /\ now' = now /\ next' = [next EXCEPT !["claim"] = now] /\ putOff' = putOff \ {"claim"}
          /\ Limit["claim"] \in Nat
      BY <1>3, Limits DEF Assign, Timers
    <2>2. now - now <= Limit["claim"]
      BY <1>0, <2>1 DEF Clock
    <2> QED BY <1>0, <2>1, <2>2 DEF Ahead
  <1>4. CASE Withdraw
    <2>1. /\ now' = now /\ next' = [next EXCEPT !["heartbeat"] = 0]
          /\ putOff' = putOff \ {"heartbeat"} /\ Limit["heartbeat"] \in Nat
      BY <1>4, Limits DEF Withdraw, Timers
    <2>2. 0 - now <= Limit["heartbeat"]
      BY <1>0, <2>1 DEF Clock
    <2> QED BY <1>0, <2>1, <2>2 DEF Ahead
  <1>5. CASE HandleRequest \/ UNCHANGED vars
    BY <1>5 DEF HandleRequest, vars, node, history, Ahead, Limit
  <1> QED BY <1>1, <1>2, <1>3, <1>4, <1>5 DEF Next, Tick

\* A tick without the frame of the active timer, in numbers.
LEMMA StillQuiet ==
  ASSUME TypeOK, TypeOK', NEW d \in 1 .. MaxStep, NEW a \in {0, 1}, NoSign(d, a), silence' # 0,
         now' = Plus(now, d), UNCHANGED <<assigned, claimsSent>>
  PROVE  /\ Active' = Active /\ Active \notin putOff
         /\ now' = now + d /\ silence' = silence + d
         /\ Allowed' = Allowed + (IF a = 1 THEN MaxStep ELSE 0)
         /\ MaxStep * delays' = MaxStep * delays + (IF a = 1 THEN MaxStep ELSE 0)
  <1>1. Active' = Active
    BY ActiveStays
  <1>2. /\ ~Wraps(d) /\ Active \notin putOff
        /\ silence' = silence + d /\ delays' = delays + a
    BY DEF NoSign
  <1>3. now \in Nat /\ d \in Nat
    BY Delays DEF TypeOK, Clock
  <1>4. now' = now + d
    BY <1>2, <1>3, Delays DEF Plus, Wraps
  <1>5. delays \in Nat /\ MaxStep \in Nat
    BY Delays DEF TypeOK
  <1>6. MaxStep * delays' = MaxStep * delays + (IF a = 1 THEN MaxStep ELSE 0)
    BY <1>2, <1>5, OneMoreStep
  <1>7. Allowed' = Limit[Active] + MaxStep * delays' + (IF Active = "claim" THEN MaxStep ELSE 0)
    BY <1>1, Zenon DEF Allowed, Limit
  <1>8. MaxStep * delays \in Nat /\ Limit[Active] \in Nat
    BY AllowedPositive
  <1>9. Allowed = Limit[Active] + MaxStep * delays + (IF Active = "claim" THEN MaxStep ELSE 0)
    BY DEF Allowed
  <1> QED BY <1>1, <1>2, <1>4, <1>5, <1>6, <1>7, <1>8, <1>9

LEMMA TickFacts ==
  ASSUME TypeOK, NEW d \in 1 .. MaxStep
  PROVE  /\ now \in Nat /\ d \in Nat /\ d <= MaxStep /\ MaxStep \in Nat
         /\ Plus(now, d) \in Clock
         /\ silence \in Nat /\ Allowed \in Nat /\ MaxStep * delays \in Nat
         /\ next[Active] \in Nat /\ scheduled \in BOOLEAN /\ next \in [Timers -> Clock]
         /\ "claim" \in Timers /\ Active \in Timers
  <1>1. /\ now \in Clock /\ now \in Nat /\ d \in Nat /\ d <= MaxStep /\ MaxStep \in Nat /\ d < Width
    BY Delays DEF TypeOK, Clock
  <1>2. Plus(now, d) \in Clock
    BY <1>1, PlusClock
  <1>3. Allowed \in Nat /\ MaxStep * delays \in Nat /\ Active \in Timers
    BY AllowedPositive, ActiveIsTimer
  <1>4. silence \in Nat /\ scheduled \in BOOLEAN /\ next \in [Timers -> Clock] /\ "claim" \in Timers
    BY DEF TypeOK, Timers
  <1>5. next[Active] \in Nat
    BY <1>3, <1>4 DEF Clock
  <1> QED BY <1>1, <1>2, <1>3, <1>4, <1>5

LEMMA QuietResponse ==
  ASSUME TypeOK, TypeOK', Quiet, NEW d \in 1 .. MaxStep, TickResponse(d), silence' # 0
  PROVE  Quiet'
  <1> DEFINE t == Plus(now, d)
             a == IF Due(t) \/ Scheduling # {} THEN 1 ELSE 0
  <1>1. /\ now' = t /\ next' = next /\ scheduled' = scheduled
        /\ UNCHANGED <<assigned, claimsSent>> /\ NoSign(d, a) /\ a \in {0, 1}
    BY DEF TickResponse
  <1> HIDE DEF a
  <1>2. /\ Active' = Active /\ Active \notin putOff
        /\ now' = now + d /\ silence' = silence + d
        /\ Allowed' = Allowed + (IF a = 1 THEN MaxStep ELSE 0)
        /\ MaxStep * delays' = MaxStep * delays + (IF a = 1 THEN MaxStep ELSE 0)
    BY <1>1, StillQuiet
  <1>3. /\ now \in Nat /\ d \in Nat /\ d <= MaxStep /\ MaxStep \in Nat /\ t \in Clock
        /\ silence \in Nat /\ Allowed \in Nat /\ MaxStep * delays \in Nat
        /\ next[Active] \in Nat /\ scheduled \in BOOLEAN
    BY TickFacts
  <1>4. CASE Active = "claim" /\ ~scheduled
    <2>1. a = 1
      BY <1>4, ActiveIsTimer DEF a, Scheduling
    <2>2. silence <= MaxStep * delays
      BY <1>2, <1>4 DEF Quiet
    <2>3. silence' <= MaxStep * delays'
      BY <1>2, <1>3, <2>1, <2>2
    <2> QED BY <1>1, <1>2, <1>4, <2>3 DEF Quiet
  <1>5. CASE ~(Active = "claim" /\ ~scheduled)
    <2>1. /\ now < next[Active] => silence + (next[Active] - now) <= Allowed
          /\ now >= next[Active] => silence < Allowed
      BY <1>2, <1>5 DEF Quiet
    <2>2. a = 1 \/ t < next[Active]
      <3>1. ClaimTime(t) = next["claim"] \/ Active # "claim"
        BY <1>5 DEF ClaimTime
      <3>2. Due(t) <=> t >= next[Active]
        BY <1>3, <3>1, DueTime
      <3> QED BY <1>3, <3>2 DEF a, Clock
    <2>3. /\ now' < next[Active] => silence' + (next[Active] - now') <= Allowed'
          /\ now' >= next[Active] => silence' < Allowed'
      BY <1>1, <1>2, <1>3, <2>1, <2>2
    <2> QED BY <1>1, <1>2, <1>5, <2>3 DEF Quiet
  <1> QED BY <1>4, <1>5

LEMMA QuietRest ==
  ASSUME TypeOK, TypeOK', Quiet, NEW d \in 1 .. MaxStep, TickRest(d), silence' # 0
  PROVE  Quiet'
  <1> DEFINE t == Plus(now, d)
             c == ClaimTime(t)
  <1>1. /\ now' = t /\ next' = [next EXCEPT !["claim"] = c] /\ scheduled' = (scheduled \/ assigned)
        /\ UNCHANGED <<assigned, claimsSent>> /\ NoSign(d, 0) /\ ~Due(t)
    BY DEF TickRest
  <1>2. /\ Active' = Active /\ Active \notin putOff
        /\ now' = now + d /\ silence' = silence + d
        /\ Allowed' = Allowed /\ MaxStep * delays' = MaxStep * delays
    <2>1. Allowed \in Nat /\ MaxStep * delays \in Nat
      BY AllowedPositive
    <2> QED BY <1>1, <2>1, StillQuiet
  <1>3. /\ now \in Nat /\ d \in Nat /\ d <= MaxStep /\ MaxStep \in Nat /\ t \in Clock
        /\ silence \in Nat /\ Allowed \in Nat /\ MaxStep * delays \in Nat
        /\ next[Active] \in Nat /\ scheduled \in BOOLEAN /\ next \in [Timers -> Clock]
        /\ "claim" \in Timers /\ Active \in Timers
    BY TickFacts
  <1>4. c \in Nat /\ t < IF Active = "claim" THEN c ELSE next[Active]
    BY <1>1, <1>3, DueTime DEF Clock
  <1>5. next'[Active] = IF Active = "claim" THEN c ELSE next[Active]
    BY <1>1, <1>3
  <1>6. silence' + (next'[Active] - now') <= Allowed'
    <2>1. CASE Active = "claim" /\ ~scheduled
      <3>1. silence <= MaxStep * delays
        BY <1>2, <2>1 DEF Quiet
      <3>2. c - t <= StartDelay
        BY <1>3, <2>1, ActiveIsTimer, PlusAhead, Delays DEF ClaimTime
      <3>3. Allowed = StartDelay + Interval + MaxStep * delays + MaxStep
        BY <2>1, Limits DEF Allowed
      <3> QED BY <1>1, <1>2, <1>3, <1>4, <1>5, <2>1, <3>1, <3>2, <3>3, Delays DEF Clock
    <2>2. CASE ~(Active = "claim" /\ ~scheduled)
      <3>1. now < next[Active] => silence + (next[Active] - now) <= Allowed
        BY <1>2, <2>2 DEF Quiet
      <3>2. next'[Active] = next[Active]
        BY <1>5, <2>2 DEF ClaimTime
      <3> QED BY <1>1, <1>2, <1>3, <1>4, <1>5, <3>1, <3>2 DEF Clock
    <2> QED BY <2>1, <2>2
  <1>7. scheduled' \/ Active # "claim"
    BY <1>1, ActiveIsTimer
  <1>8. now' < next'[Active]
    BY <1>1, <1>4, <1>5
  <1>9. now' \in Int /\ next'[Active] \in Int
    BY <1>1, <1>3, <1>4, <1>5 DEF Clock
  <1> QED BY <1>2, <1>6, <1>7, <1>8, <1>9 DEF Quiet

LEMMA QuietNext ==
  ASSUME TypeOK, TypeOK', Ahead', Quiet, [Next]_vars
  PROVE  Quiet'
  <1>1. CASE silence' = 0
    <2>1. (TypeOK /\ Ahead /\ silence = 0)'
      BY <1>1
    <2> QED BY <2>1, FreshQuiet, PTL
  <1>2. CASE silence' # 0 /\ (HandleRequest \/ UNCHANGED vars)
    <2>1. UNCHANGED <<now, assigned, claimsSent, scheduled, next, putOff, silence, delays>>
      BY <1>2 DEF HandleRequest, vars, node, history
    <2>2. Active' = Active
      BY <2>1, ActiveStays
    <2>3. Allowed' = Allowed
      BY <2>1, <2>2, Zenon DEF Allowed, Limit
    <2> QED BY <2>1, <2>2, <2>3 DEF Quiet
  <1>3. CASE silence' # 0 /\ (Tick \/ Assign \/ Withdraw)
    <2>1. ~Assign /\ ~Withdraw
      BY <1>3 DEF Assign, Withdraw, SignOfLife
    <2>2. \E d \in 1 .. MaxStep : TickResponse(d) \/ TickRest(d)
      BY <1>3, <2>1 DEF Tick, TickDiscovery, TickClaim, TickHeartbeat, SignOfLife
    <2> QED BY <1>3, <2>2, QuietResponse, QuietRest
  <1> QED BY <1>1, <1>2, <1>3 DEF Next

LEMMA QuietInTime == TypeOK /\ Quiet => InTime
  <1> SUFFICES ASSUME TypeOK, Quiet, Active \notin putOff
               PROVE  silence < Allowed
    BY Zenon DEF InTime, Allowed
  <1>1. /\ Allowed \in Nat /\ Allowed > 0 /\ MaxStep * delays \in Nat
        /\ silence \in Nat /\ now \in Nat /\ next[Active] \in Nat
    BY AllowedPositive, ActiveIsTimer DEF TypeOK, Clock
  <1>2. CASE Active = "claim" /\ ~scheduled
    <2>1. silence <= MaxStep * delays
      BY <1>2 DEF Quiet
    <2>2. Allowed = StartDelay + Interval + MaxStep * delays + MaxStep
      BY <1>2, Limits DEF Allowed
    <2> QED BY <1>1, <2>1, <2>2, Delays
  <1>3. CASE ~(Active = "claim" /\ ~scheduled)
    BY <1>1, <1>3 DEF Quiet
  <1> QED BY <1>2, <1>3

(* A node that no wrap of the clock has put off gives a sign of life in time, for   *)
(* any delays and any number of discovery requests (tick, send_discovery_request,    *)
(* send_claim, send_heartbeat).                                                *)
THEOREM SignsOfLifeInTime == Spec => []InTime
  <1>1. Init => TypeOK /\ Ahead /\ Quiet
    <2> SUFFICES ASSUME Init PROVE TypeOK /\ Ahead /\ Quiet
      OBVIOUS
    <2>1. TypeOK
      BY InitTypes
    <2>2. Ahead
      BY Limits DEF Init, Ahead
    <2>3. silence = 0
      BY DEF Init
    <2> QED BY <2>1, <2>2, <2>3, FreshQuiet
  <1>2. TypeOK /\ Ahead /\ Quiet /\ [Next]_vars => TypeOK' /\ Ahead' /\ Quiet'
    BY NextTypes, AheadNext, QuietNext
  <1> QED BY <1>1, <1>2, QuietInTime, PTL DEF Spec

-----------------------------------------------------------------------------
(***************************************************************************)
(* Queues drained.  After a heartbeat the next one lies a whole interval ahead    *)
(* and no tick jumps over it, unless the sum went past the end of the clock: then  *)
(* it is due in every tick until the clock wraps, and in none right after.        *)
(***************************************************************************)
Drained ==
  /\ idle > 0 /\ Active = "heartbeat" => next["heartbeat"] = Plus(now, Heartbeat)
  /\ idle <= MaxStep \/ idle <= now - (Width - Heartbeat) + MaxStep

\* A heartbeat right after a heartbeat.
LEMMA HeartbeatAgain ==
  ASSUME TypeOK, Drained, NEW d \in 1 .. MaxStep, TickHeartbeat(d)
  PROVE  idle + d <= MaxStep \/ idle + d <= Plus(now, d) - (Width - Heartbeat) + MaxStep
  <1> DEFINE t == Plus(now, d)
  <1>1. /\ now \in Nat /\ now < Width /\ idle \in Nat /\ d \in Nat /\ d <= MaxStep
    BY Delays DEF TypeOK, Clock
  <1>2. CASE idle = 0
    BY <1>1, <1>2, Delays
  <1>3. CASE idle > 0
    <2>1. Active = "heartbeat" /\ Due(t)
      BY DEF TickHeartbeat
    <2>2. t >= Plus(now, Heartbeat)
      <3>1. next["heartbeat"] = Plus(now, Heartbeat)
        BY <1>3, <2>1 DEF Drained
      <3>2. t \in Clock
        BY TickFacts
      <3>3. t >= next["heartbeat"]
        BY <2>1, <3>2, DueTime
      <3> QED BY <3>1, <3>3
    <2>3. now + Heartbeat >= Width /\ t = now + d
      BY <1>1, <2>2, Delays DEF Plus
    <2>4. idle <= MaxStep \/ idle <= now - (Width - Heartbeat) + MaxStep
      BY DEF Drained
    <2> QED BY <1>1, <2>3, <2>4, Delays
  <1> QED BY <1>1, <1>2, <1>3

LEMMA DrainedNext ==
  ASSUME TypeOK, TypeOK', Drained, [Next]_vars
  PROVE  Drained'
  <1>1. CASE idle' = 0
    BY <1>1, Delays DEF Drained
  <1>2. ASSUME NEW d \in 1 .. MaxStep, TickHeartbeat(d)
        PROVE  Drained'
    <2>1. /\ now' = Plus(now, d) /\ idle' = idle + d
          /\ next' = [next EXCEPT !["heartbeat"] = Plus(Plus(now, d), Heartbeat)]
      BY <1>2 DEF TickHeartbeat, HeartbeatTime
    <2>2. next'["heartbeat"] = Plus(now', Heartbeat)
      BY <2>1 DEF TypeOK, Timers
    <2>3. idle' <= MaxStep \/ idle' <= now' - (Width - Heartbeat) + MaxStep
      BY <1>2, <2>1, HeartbeatAgain
    <2> QED BY <2>2, <2>3, Zenon DEF Drained, Plus
  <1>3. CASE HandleRequest \/ UNCHANGED vars
    <2>1. UNCHANGED <<now, assigned, claimsSent, next, idle>>
      BY <1>3 DEF HandleRequest, vars, node, history
    <2> QED BY <2>1, ActiveStays DEF Drained, Plus
  <1>4. CASE Assign \/ Withdraw
    <2>1. now' = now /\ idle' = idle /\ ~(assigned' /\ claimsSent' = 2)
      BY <1>4 DEF Assign, Withdraw
    <2>2. Active' # "heartbeat"
      <3>1. (\/ Active = "discovery" /\ ~assigned
             \/ Active = "claim" /\ assigned /\ claimsSent \in {0, 1}
             \/ Active = "heartbeat" /\ assigned /\ claimsSent = 2)'
        BY ActiveKind, PTL
      <3> QED BY <2>1, <3>1
    <2> QED BY <2>1, <2>2 DEF Drained
  <1>5. Tick => idle' = 0 \/ \E d \in 1 .. MaxStep : TickHeartbeat(d)
    BY DEF Tick, TickResponse, TickDiscovery, TickClaim, TickRest
  <1> QED BY <1>1, <1>2, <1>3, <1>4, <1>5 DEF Next

LEMMA DrainedBound == TypeOK /\ Drained => QueuesDrained
  <1> SUFFICES ASSUME TypeOK, Drained PROVE QueuesDrained
    OBVIOUS
  <1>1. now \in Nat /\ now < Width /\ idle \in Nat
    BY Delays DEF TypeOK, Clock
  <1>2. idle <= MaxStep \/ idle <= now - (Width - Heartbeat) + MaxStep
    BY DEF Drained
  <1> QED BY <1>1, <1>2, Delays DEF QueuesDrained

(* Only the ticks of a heartbeat drain nothing, and no two of them follow each      *)
(* other, but for the last interval before the clock wraps (tick, send_heartbeat,    *)
(* drain_tx), as long as the loop is faster than the heartbeats.                  *)
THEOREM QueuesDrainedInTime == Spec => []QueuesDrained
  <1>1. Init => TypeOK /\ Drained
    <2> SUFFICES ASSUME Init PROVE Drained
      BY InitTypes
    <2> QED BY Delays DEF Init, Drained
  <1>2. TypeOK /\ Drained /\ [Next]_vars => TypeOK' /\ Drained'
    BY NextTypes, DrainedNext
  <1> QED BY <1>1, <1>2, DrainedBound, PTL DEF Spec
=============================================================================
