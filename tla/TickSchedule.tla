---------------------------- MODULE TickSchedule ----------------------------
(***************************************************************************)
(* Which branch of NodeRuntime::tick runs, and when                          *)
(* (components/hacan/protocol_node_runtime.cpp: tick, the functions that set   *)
(* next_discovery_ms_, next_claim_ms_, next_heartbeat_ms_ and the pending       *)
(* discovery response, ADDRESS_ASSIGN and withdraw_address).                  *)
(*                                                                         *)
(* The clock is millis(), a counter that wraps; a tick compares it with         *)
(* `now_ms >= next`, which is wrong as soon as the wrap lies between the two.   *)
(* Only the address's presence matters here; frames are in TransmitQueues.     *)
(* A frame is handled in the unit of time of the tick before it.               *)
(***************************************************************************)
EXTENDS Integers, Sequences

CONSTANTS
  Width,          \* values of the clock, 2^32
  Heartbeat,      \* time between heartbeats, 30 s
  Retries,        \* kRetry: 2, 4, 8, 16 s
  Longest,        \* time between later discovery requests, 30 s
  StartDelay,     \* claim_start_delay of this node, 1 to 2.5 s
  Interval,       \* claim_interval of this node, 250 to 500 ms
  ResponseDelays, \* what discovery_response_delay can be
  Owned,          \* occupied slots of owned_entities_, which fill up from the first
  Observed,       \* occupied slots of observed_entities_
  MaxStep,        \* the longest time between two ticks
  MaxRequests,    \* bound: discovery requests received
  MaxMoves        \* bound: assignments and withdrawals

ASSUME ScheduleAssumption ==
  /\ MaxStep \in Nat \ {0}
  /\ Heartbeat \in Nat /\ MaxStep < Heartbeat
  /\ Longest \in Nat \ {0} /\ Retries \in Seq(0 .. Longest)
  /\ StartDelay \in Nat /\ Interval \in Nat
  /\ ResponseDelays \subseteq Nat
  /\ Width \in Nat
  /\ Heartbeat < Width /\ Longest < Width /\ StartDelay + Interval < Width
  /\ \A d \in ResponseDelays : d < Width
  /\ Owned \in Nat /\ Observed \in Nat
  /\ MaxRequests \in Nat /\ MaxMoves \in Nat

Clock  == 0 .. Width - 1
Never  == Width             \* pending_discovery_response_ is empty
Timers == {"discovery", "claim", "heartbeat"}

VARIABLES
  now,            \* now_ms of the last tick
  assigned,       \* address_ has a value
  claimsSent,     \* claims_sent_
  scheduled,      \* claim_schedule_initialized_
  next,           \* next_discovery_ms_, next_claim_ms_, next_heartbeat_ms_
  attempt,        \* discovery_attempt_
  pending,        \* due_ms of pending_discovery_response_
  ownedIndex,     \* owned_claim_index_
  resolveIndex,   \* observed_resolve_index_
  claimed,        \* history: owned entities claimed since the last assignment
  putOff,         \* history: timers that a wrap of the clock has put off
  silence,        \* history: time since the last sign of life, see NoSign
  delays,         \* history: discovery responses that went first during the silence
  idle,           \* history: time over which no tick has drained the queues
  moves, requests \* counters of the bounds

node    == <<assigned, claimsSent, scheduled, next, attempt, pending, ownedIndex, resolveIndex>>
history == <<claimed, putOff, silence, delays, idle>>
bounds  == <<moves, requests>>
vars    == <<now, node, history, bounds>>

PlusWide(t, d) == t + d            \* mutant: a time wider than the clock

\* A delay added to a time, in the width of the clock.
Plus(t, d) == IF t + d < Width THEN t + d ELSE t + d - Width

-----------------------------------------------------------------------------
(* The constructor, with or without a stored address.                         *)

Init ==
  /\ now = 0
  /\ assigned \in BOOLEAN
  /\ claimsSent = 0
  /\ scheduled = FALSE
  /\ next = [k \in Timers |-> 0]
  /\ attempt = 0
  /\ pending = Never
  /\ ownedIndex = 0 /\ resolveIndex = 0
  /\ claimed = {}
  /\ putOff = {}
  /\ silence = 0 /\ delays = 0 /\ idle = 0
  /\ moves = 0 /\ requests = 0

-----------------------------------------------------------------------------
(***************************************************************************)
(* One timer is active at a time: an unassigned node asks for an address, an   *)
(* assigned one claims it twice and then sends heartbeats.  A timer is set at   *)
(* most Limit ahead.  One that lies further ahead when the clock wraps was      *)
(* meant for a time before the wrap, and is not due again until the clock has   *)
(* come round to it.                                                        *)
(***************************************************************************)
Active ==
  CASE ~assigned                  -> "discovery"
    [] assigned /\ claimsSent < 2 -> "claim"
    [] assigned /\ claimsSent = 2 -> "heartbeat"

Limit == [k \in Timers |->
  CASE k = "discovery" -> Longest
    [] k = "claim"     -> StartDelay + Interval
    [] k = "heartbeat" -> Heartbeat]

Wraps(d) == now + d >= Width

\* The timers in set are set anew by a tick that comes d after the previous one.
PutOff(d, set) ==
  putOff' = (putOff \cup {k \in Timers : Wraps(d) /\ next[k] >= Limit[k]}) \ set

\* The frame of the active timer is sent, or another timer becomes active.
SignOfLife == silence' = 0 /\ delays' = 0

\* It does not.  Silence is measured from the last sign of life or the last wrap,
\* while the active timer is not put off.
NoSign(d, delay) ==
  /\ silence' = IF Wraps(d) \/ Active \in putOff THEN 0 ELSE silence + d
  /\ delays'  = IF Wraps(d) \/ Active \in putOff THEN 0 ELSE delays + delay

-----------------------------------------------------------------------------
(* tick, d after the previous one.  The first branch that applies is taken.    *)

Responds(t) == t >= pending

\* The claim schedule starts in the first tick with an address that has no
\* response to send.
ClaimTime(t) == IF assigned /\ ~scheduled THEN Plus(t, StartDelay) ELSE next["claim"]
Scheduling   == IF assigned /\ ~scheduled THEN {"claim"} ELSE {}

Due(t) == t >= [next EXCEPT !["claim"] = ClaimTime(t)][Active]

TickResponse(d) ==
  LET t == Plus(now, d) IN
    /\ Responds(t)
    /\ now' = t
    /\ pending' = Never
    /\ PutOff(d, {}) /\ idle' = 0
    /\ NoSign(d, IF Due(t) \/ Scheduling # {} THEN 1 ELSE 0)
    /\ UNCHANGED <<assigned, claimsSent, scheduled, next, attempt, ownedIndex,
                   resolveIndex, claimed, bounds>>

RetryKeepsDoubling(a) ==           \* mutant: the delay is not limited to 30 s
  IF a < Len(Retries) THEN Retries[a + 1] ELSE 2 * Retries[Len(Retries)]

RetryDelay(a) == IF a < Len(Retries) THEN Retries[a + 1] ELSE Longest

\* send_discovery_request, which also schedules the node's own response.
TickDiscovery(d) ==
  LET t == Plus(now, d) IN
    /\ ~Responds(t) /\ Active = "discovery" /\ Due(t)
    /\ now' = t
    /\ \E r \in ResponseDelays : pending' = Plus(t, r)
    /\ next' = [next EXCEPT !["discovery"] = Plus(t, RetryDelay(attempt))]
    /\ attempt' = IF attempt < Len(Retries) THEN attempt + 1 ELSE attempt
    /\ PutOff(d, {"discovery"}) /\ SignOfLife /\ idle' = 0
    /\ UNCHANGED <<assigned, claimsSent, scheduled, ownedIndex, resolveIndex, claimed, bounds>>

\* send_claim.  The second claim follows the time of the first, not its sending.
TickClaim(d) ==
  LET t == Plus(now, d) IN
    /\ ~Responds(t) /\ Active = "claim" /\ Due(t)
    /\ now' = t
    /\ claimsSent' = claimsSent + 1
    /\ scheduled' = TRUE
    /\ next' = [next EXCEPT !["claim"] = Plus(ClaimTime(t), Interval)]
    /\ PutOff(d, {"claim"}) /\ SignOfLife /\ idle' = 0
    /\ UNCHANGED <<assigned, attempt, pending, ownedIndex, resolveIndex, claimed, bounds>>

HeartbeatTwice(t) == t             \* mutant: the next heartbeat is not scheduled

HeartbeatTime(t) == Plus(t, Heartbeat)

\* send_heartbeat: the only tick that drains no queue.
TickHeartbeat(d) ==
  LET t == Plus(now, d) IN
    /\ ~Responds(t) /\ Active = "heartbeat" /\ Due(t)
    /\ now' = t
    /\ next' = [next EXCEPT !["heartbeat"] = HeartbeatTime(t)]
    /\ PutOff(d, {"heartbeat"}) /\ SignOfLife /\ idle' = idle + d
    /\ UNCHANGED <<assigned, claimsSent, scheduled, attempt, pending, ownedIndex,
                   resolveIndex, claimed, bounds>>

\* No timer is due: the next owned entity is claimed, else the next observed one
\* is resolved, else the queues are only drained.
TickRest(d) ==
  LET t == Plus(now, d) IN
    /\ ~Responds(t) /\ ~Due(t)
    /\ now' = t
    /\ scheduled' = (scheduled \/ assigned)
    /\ next' = [next EXCEPT !["claim"] = ClaimTime(t)]
    /\ \/ /\ Active = "heartbeat" /\ ownedIndex < Owned
          /\ ownedIndex' = ownedIndex + 1
          /\ claimed' = claimed \cup {ownedIndex + 1}
          /\ UNCHANGED resolveIndex
       \/ /\ Active = "heartbeat" /\ ownedIndex = Owned /\ resolveIndex < Observed
          /\ resolveIndex' = resolveIndex + 1
          /\ UNCHANGED <<ownedIndex, claimed>>
       \/ /\ Active = "heartbeat" => ownedIndex = Owned /\ resolveIndex = Observed
          /\ UNCHANGED <<ownedIndex, resolveIndex, claimed>>
    /\ PutOff(d, Scheduling) /\ NoSign(d, 0) /\ idle' = 0
    /\ UNCHANGED <<assigned, claimsSent, attempt, pending, bounds>>

Tick ==
  \E d \in 1 .. MaxStep :
    TickResponse(d) \/ TickDiscovery(d) \/ TickClaim(d) \/ TickHeartbeat(d) \/ TickRest(d)

-----------------------------------------------------------------------------
(* receive                                                                   *)

\* handle, DISCOVERY_REQUEST: a response that is pending already is replaced.
HandleRequest ==
  /\ requests < MaxRequests
  /\ requests' = requests + 1
  /\ \E r \in ResponseDelays : pending' = Plus(now, r)
  /\ UNCHANGED <<now, assigned, claimsSent, scheduled, next, attempt, ownedIndex,
                 resolveIndex, history, moves>>

FirstOwnedKept == ownedIndex       \* mutant: the cursor of the claims stays

FirstOwned == 0

\* handle, ADDRESS_ASSIGN for this node, when the flash stores the address.
Assign ==
  /\ moves < MaxMoves
  /\ moves' = moves + 1
  /\ assigned' = TRUE
  /\ claimsSent' = 0 /\ scheduled' = FALSE
  /\ next' = [next EXCEPT !["claim"] = now]
  /\ ownedIndex' = FirstOwned /\ resolveIndex' = 0
  /\ claimed' = {}
  /\ putOff' = putOff \ {"claim"}
  /\ SignOfLife
  /\ UNCHANGED <<now, attempt, pending, idle, requests>>

\* withdraw_address: next_discovery_ms_ and the cursors stay as they are.
Withdraw ==
  /\ moves < MaxMoves
  /\ moves' = moves + 1
  /\ assigned
  /\ assigned' = FALSE
  /\ claimsSent' = 0 /\ scheduled' = FALSE
  /\ next' = [next EXCEPT !["heartbeat"] = 0]
  /\ putOff' = putOff \ {"heartbeat"}
  /\ SignOfLife
  /\ UNCHANGED <<now, attempt, pending, ownedIndex, resolveIndex, claimed, idle, requests>>

Next == Tick \/ HandleRequest \/ Assign \/ Withdraw

Spec == Init /\ [][Next]_vars

\* The main loop ticks for ever.
FairSpec == Spec /\ WF_vars(Tick)

-----------------------------------------------------------------------------
TypeOK ==
  /\ now \in Clock
  /\ assigned \in BOOLEAN
  /\ claimsSent \in 0 .. 2
  /\ scheduled \in BOOLEAN
  /\ next \in [Timers -> Clock]
  /\ attempt \in 0 .. Len(Retries)
  /\ pending \in Clock \cup {Never}
  /\ ownedIndex \in 0 .. Owned /\ resolveIndex \in 0 .. Observed
  /\ claimed \subseteq 1 .. Owned
  /\ putOff \subseteq Timers
  /\ silence \in Nat /\ delays \in Nat /\ idle \in Nat
  /\ moves \in 0 .. MaxMoves /\ requests \in 0 .. MaxRequests

(* A node whose active timer no wrap of the clock has put off gives a sign of    *)
(* life in time: a discovery request, a claim or a heartbeat, each delayed by at  *)
(* most one tick per discovery response that was sent instead.                    *)
InTime ==
  Active \notin putOff =>
    silence < Limit[Active] + MaxStep * delays
                + IF Active = "claim" THEN MaxStep ELSE 0

(* The queues are drained in every tick but single ones, except when the next     *)
(* heartbeat would fall behind the wrap of the clock: then every tick sends a     *)
(* heartbeat, and the queues stand still until the wrap and no longer.            *)
QueuesDrained ==
  /\ idle > MaxStep => now >= Width - Heartbeat
  /\ idle < Heartbeat + MaxStep

(* A node that keeps an address claims all its entities under it, whatever        *)
(* addresses it had and however far it had come with its claims before; unless    *)
(* a wrap has put off a claim of the address itself that it has still to send.     *)
EntitiesAnnounced ==
  <>[](assigned => claimed = 1 .. Owned \/ (Active = "claim" /\ "claim" \in putOff))
=============================================================================
