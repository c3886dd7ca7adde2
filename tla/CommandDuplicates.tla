-------------------------- MODULE CommandDuplicates --------------------------
(***************************************************************************)
(* How a commissioned node keeps retried commands from acting twice         *)
(* (components/hacan/protocol_node_runtime.cpp: the COMMAND branch of       *)
(* handle, is_duplicate, set_duplicate_status, acknowledge).                *)
(*                                                                         *)
(* A command is identified by the source, endpoint and transaction it        *)
(* carries, its key; the value it carries decides no branch here, so it is    *)
(* left to the handler's answer.  The cache is an array that is searched      *)
(* from its first slot; nothing ever empties a slot.                         *)
(*                                                                         *)
(* Time advances in units of which Window make the 2000 ms of is_duplicate.   *)
(* A slot keeps an age instead of seen_ms: the difference now_ms - seen_ms    *)
(* that the code computes, which wraps with the 32-bit clock (modulo         *)
(* TimerModulus here).                                                       *)
(***************************************************************************)
EXTENDS FiniteSetsExt

CONSTANTS
  NoKey,          \* an empty slot; nothing executed yet
  Keys,           \* source, endpoint and transaction of the commands that arrive
  Handled,        \* keys whose endpoint has a registered handler
  Answers,        \* statuses handlers return: "accepted", "invalid_value", "fault"
  Capacity,       \* 16 slots of duplicates_
  Window,         \* 2000 ms
  TimerModulus    \* 2^32 ms

ASSUME CommandAssumption ==
  /\ NoKey \notin Keys
  /\ Handled \subseteq Keys
  /\ Capacity \in Nat \ {0}
  /\ Window \in Nat \ {0}
  /\ TimerModulus \in Nat /\ TimerModulus > Window + 1

Slots == 1 .. Capacity

\* The second is the status of an endpoint without a handler.
Status == Answers \cup {"unsupported"}

Record == [key : Keys \cup {NoKey}, age : 0 .. TimerModulus - 1, status : Status]
Empty  == [key |-> NoKey, age |-> 0, status |-> "unsupported"]

VARIABLES
  duplicates,   \* duplicates_
  since,        \* history: time since the last execution of a key, at most Window + 1
  result,       \* history: the status of that execution
  last,         \* history: the key executed last, or NoKey
  ack           \* the last acknowledgement handed to the control queue

vars == <<duplicates, since, result, last, ack>>

LongAgo == Window + 1
NoAck   == [key |-> NoKey, status |-> "unsupported"]

Init ==
  /\ duplicates = [s \in Slots |-> Empty]
  /\ since = [k \in Keys |-> LongAgo]
  /\ result = [k \in Keys |-> "unsupported"]
  /\ last = NoKey
  /\ ack = NoAck

-----------------------------------------------------------------------------
MatchesShorter(k, s) ==            \* mutant: < 2000
  duplicates[s].key = k /\ duplicates[s].age < Window

\* The condition of the first loop of is_duplicate.
Matches(k, s) == duplicates[s].key = k /\ duplicates[s].age <= Window

FreshSlots(k) == {s \in Slots : Matches(k, s)}

IsDuplicate(k) == FreshSlots(k) # {}

CachedStatus(k) == duplicates[Min(FreshSlots(k))].status

EmptySlots == {s \in Slots : duplicates[s].key = NoKey}

RecordedIfRoom(k) ==               \* mutant: a full cache forgets the new command
  IF EmptySlots = {} THEN duplicates
  ELSE [duplicates EXCEPT ![Min(EmptySlots)] =
          [key |-> k, age |-> 0, status |-> "unsupported"]]

\* The rest of is_duplicate: the first empty slot, or slot 0 when none is empty.
Recorded(k) ==
  [duplicates EXCEPT ![IF EmptySlots = {} THEN 1 ELSE Min(EmptySlots)] =
     [key |-> k, age |-> 0, status |-> "unsupported"]]

NoStatus(cache, k, status) == cache     \* mutant: set_duplicate_status is not called

\* set_duplicate_status: the first record of the key, whatever its age.
WithStatus(cache, k, status) ==
  LET found == {s \in Slots : cache[s].key = k}
  IN  IF found = {} THEN cache ELSE [cache EXCEPT ![Min(found)].status = status]

\* acknowledge, when the command asks for it (ACK_REQUIRED).
Acknowledge(k, status) == ack' = [key |-> k, status |-> status] \/ UNCHANGED ack

\* handle, COMMAND, of a copy that is_duplicate recognises.
Repeat(k) ==
  /\ IsDuplicate(k)
  /\ Acknowledge(k, CachedStatus(k))
  /\ UNCHANGED <<duplicates, since, result, last>>

\* handle, COMMAND, of any other copy: record it, call the handler, keep its status.
Execute(k) ==
  /\ ~IsDuplicate(k)
  /\ \E status \in IF k \in Handled THEN Answers ELSE {"unsupported"} :
       /\ duplicates' = WithStatus(Recorded(k), k, status)
       /\ result' = [result EXCEPT ![k] = status]
       /\ Acknowledge(k, status)
  /\ since' = [since EXCEPT ![k] = 0]
  /\ last' = k

ElapseWithoutWrap ==               \* mutant: the clock is wider than 32 bits
  /\ duplicates' = [s \in Slots |->
       IF duplicates[s].key = NoKey THEN duplicates[s]
       ELSE [duplicates[s] EXCEPT !.age = @ + 1]]
  /\ since' = [k \in Keys |-> IF since[k] = LongAgo THEN LongAgo ELSE since[k] + 1]
  /\ UNCHANGED <<result, last, ack>>

\* The clock advances by one unit.
Elapse ==
  /\ duplicates' = [s \in Slots |->
       IF duplicates[s].key = NoKey THEN duplicates[s]
       ELSE [duplicates[s] EXCEPT !.age = (@ + 1) % TimerModulus]]
  /\ since' = [k \in Keys |-> IF since[k] = LongAgo THEN LongAgo ELSE since[k] + 1]
  /\ UNCHANGED <<result, last, ack>>

Next == Elapse \/ \E k \in Keys : Repeat(k) \/ Execute(k)

Spec == Init /\ [][Next]_vars

-----------------------------------------------------------------------------
TypeOK ==
  /\ duplicates \in [Slots -> Record]
  /\ since \in [Keys -> 0 .. LongAgo]
  /\ result \in [Keys -> Status]
  /\ last \in Keys \cup {NoKey}
  /\ ack \in [key : Keys \cup {NoKey}, status : Status]

(* Until the cache is full, a copy of any command that was executed within the *)
(* retention window is recognised (is_duplicate), so it is not executed again. *)
RemembersUntilFull ==
  EmptySlots # {} => \A k \in Keys : since[k] <= Window => IsDuplicate(k)

(* However full and however old the cache is, a retry of the command executed   *)
(* last is recognised: slot 0 holds it if no empty slot took it.               *)
RemembersLast ==
  last # NoKey /\ since[last] <= Window => IsDuplicate(last)

(* Until the cache is full, a key with one record answers its retries with the   *)
(* status its execution returned (set_duplicate_status, acknowledge).           *)
CachesResult ==
  \A k \in Keys :
    /\ EmptySlots # {}
    /\ IsDuplicate(k)
    /\ Cardinality({s \in Slots : duplicates[s].key = k}) = 1
    => CachedStatus(k) = result[k]
=============================================================================
