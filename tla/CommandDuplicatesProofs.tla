----------------------- MODULE CommandDuplicatesProofs -----------------------
(***************************************************************************)
(* What the duplicate cache guarantees for every cache size, every window,   *)
(* every clock width and every set of commands.                              *)
(***************************************************************************)
EXTENDS CommandDuplicates, DataLemmas

(* The slot that is_duplicate writes: an empty one, or the first one when none *)
(* is empty; the other slots keep their records.                              *)
LEMMA RecordedSlot ==
  ASSUME TypeOK, NEW k \in Keys
  PROVE  \E s \in Slots :
           /\ Recorded(k) = [duplicates EXCEPT ![s] =
                               [key |-> k, age |-> 0, status |-> "unsupported"]]
           /\ EmptySlots # {} => s \in EmptySlots
<1>1. CASE EmptySlots = {}
  BY <1>1, CommandAssumption DEF Recorded, Slots
<1>2. CASE EmptySlots # {}
  <2>1. EmptySlots \subseteq Nat /\ EmptySlots \subseteq Slots
    BY DEF EmptySlots, Slots
  <2>2. Min(EmptySlots) \in EmptySlots
    BY <1>2, <2>1, MinIsLeast
  <2> QED BY <1>2, <2>1, <2>2 DEF Recorded
<1> QED BY <1>1, <1>2

(* What an execution leaves in the cache: one slot holds the key with age 0;     *)
(* the others keep key and age.                                                 *)
LEMMA ExecuteSlots ==
  ASSUME TypeOK, NEW k \in Keys, Execute(k)
  PROVE  /\ duplicates' \in [Slots -> Record]
         /\ \E s \in Slots :
              /\ EmptySlots # {} => s \in EmptySlots
              /\ duplicates'[s].key = k /\ duplicates'[s].age = 0
              /\ \A t \in Slots \ {s} : /\ duplicates'[t].key = duplicates[t].key
                                        /\ duplicates'[t].age = duplicates[t].age
<1>1. PICK s \in Slots :
        /\ Recorded(k) = [duplicates EXCEPT ![s] =
                            [key |-> k, age |-> 0, status |-> "unsupported"]]
        /\ EmptySlots # {} => s \in EmptySlots
  BY RecordedSlot
<1>2. PICK status \in Status : duplicates' = WithStatus(Recorded(k), k, status)
  BY DEF Execute, Status
<1>3. Recorded(k) \in [Slots -> Record]
  <2>1. [key |-> k, age |-> 0, status |-> "unsupported"] \in Record
    BY CommandAssumption DEF Record, Status
  <2> QED BY <1>1, <2>1 DEF TypeOK
<1>4. \/ duplicates' = Recorded(k)
      \/ \E t \in Slots : duplicates' = [Recorded(k) EXCEPT ![t].status = status]
  <2> DEFINE found == {t \in Slots : Recorded(k)[t].key = k}
  <2>1. CASE found = {}
    BY <1>2, <2>1 DEF WithStatus
  <2>2. CASE found # {}
    <3>1. found \subseteq Nat /\ found \subseteq Slots
      BY DEF Slots
    <3>2. Min(found) \in Slots
      BY <2>2, <3>1, MinIsLeast
    <3>3. duplicates' = [Recorded(k) EXCEPT ![Min(found)].status = status]
      BY <1>2, <2>2 DEF WithStatus
    <3> QED BY <3>2, <3>3
  <2> QED BY <2>1, <2>2
<1>5. /\ duplicates' \in [Slots -> Record]
      /\ \A t \in Slots : /\ duplicates'[t].key = Recorded(k)[t].key
                          /\ duplicates'[t].age = Recorded(k)[t].age
  BY <1>3, <1>4 DEF Record
<1>6. \A t \in Slots : Recorded(k)[t] =
        IF t = s THEN [key |-> k, age |-> 0, status |-> "unsupported"] ELSE duplicates[t]
  BY <1>1 DEF TypeOK
<1> QED BY <1>1, <1>5, <1>6

-----------------------------------------------------------------------------
(* The cache, the acknowledgement and the history hold what they can hold.       *)
THEOREM CommandTypes == Spec => []TypeOK
<1> USE CommandAssumption
<1>1. Init => TypeOK
  BY DEF Init, TypeOK, Empty, Record, Status, LongAgo, NoAck
<1>2. TypeOK /\ [Next]_vars => TypeOK'
  <2> SUFFICES ASSUME TypeOK, [Next]_vars PROVE TypeOK'
    OBVIOUS
  <2>1. ASSUME NEW k \in Keys, Repeat(k) PROVE TypeOK'
    <3>1. CachedStatus(k) \in Status
      <4>1. FreshSlots(k) \subseteq Nat /\ FreshSlots(k) \subseteq Slots
        BY DEF FreshSlots, Slots
      <4>2. Min(FreshSlots(k)) \in Slots
        BY <2>1, <4>1, MinIsLeast DEF Repeat, IsDuplicate
      <4> QED BY <4>2 DEF CachedStatus, TypeOK, Record
    <3>2. ack' \in [key : Keys \cup {NoKey}, status : Status]
      BY <2>1, <3>1 DEF Repeat, Acknowledge, TypeOK
    <3> QED BY <2>1, <3>2 DEF Repeat, Acknowledge, TypeOK
  <2>2. ASSUME NEW k \in Keys, Execute(k) PROVE TypeOK'
    <3>1. duplicates' \in [Slots -> Record]
      BY <2>2, ExecuteSlots
    <3>2. PICK status \in Status :
            /\ result' = [result EXCEPT ![k] = status]
            /\ ack' = [key |-> k, status |-> status] \/ UNCHANGED ack
      BY <2>2 DEF Execute, Acknowledge, Status
    <3>3. /\ result' \in [Keys -> Status]
          /\ ack' \in [key : Keys \cup {NoKey}, status : Status]
      BY <3>2 DEF TypeOK
    <3>4. since' \in [Keys -> 0 .. LongAgo] /\ last' \in Keys
      BY <2>2 DEF Execute, TypeOK, LongAgo
    <3> QED BY <3>1, <3>3, <3>4 DEF TypeOK
  <2>3. ASSUME Elapse PROVE TypeOK'
    <3>1. ASSUME NEW s \in Slots, duplicates[s].key # NoKey
          PROVE  [duplicates[s] EXCEPT !.age = (@ + 1) % TimerModulus] \in Record
      <4>1. duplicates[s] \in Record
        BY DEF TypeOK
      <4>2. (duplicates[s].age + 1) % TimerModulus \in 0 .. TimerModulus - 1
        BY <4>1 DEF Record
      <4> QED BY <4>1, <4>2 DEF Record
    <3>2. duplicates' \in [Slots -> Record]
      BY <2>3, <3>1 DEF Elapse, TypeOK
    <3>3. since' \in [Keys -> 0 .. LongAgo]
      <4>1. ASSUME NEW k \in Keys
            PROVE  (IF since[k] = LongAgo THEN LongAgo ELSE since[k] + 1) \in 0 .. LongAgo
        <5>1. since[k] \in 0 .. LongAgo
          BY DEF TypeOK
        <5> QED BY <5>1 DEF LongAgo
      <4>2. since' = [k \in Keys |-> IF since[k] = LongAgo THEN LongAgo ELSE since[k] + 1]
        BY <2>3 DEF Elapse
      <4> QED BY <4>1, <4>2
    <3> QED BY <2>3, <3>2, <3>3 DEF Elapse, TypeOK
  <2>4. CASE UNCHANGED vars
    BY <2>4 DEF vars, TypeOK
  <2> QED BY <2>1, <2>2, <2>3, <2>4 DEF Next
<1> QED BY <1>1, <1>2, PTL DEF Spec

-----------------------------------------------------------------------------
(* A record that was written when the command was executed.                      *)
Recent(k) == \E s \in Slots : duplicates[s].key = k /\ duplicates[s].age = since[k]

(***************************************************************************)
(* The inductive invariant: the age of the record IS the time since the       *)
(* execution, so it cannot have wrapped; "some record is young enough" alone   *)
(* would not survive the next tick of the clock.                              *)
(***************************************************************************)
CacheInv ==
  /\ EmptySlots # {} => \A k \in Keys : since[k] <= Window => Recent(k)
  /\ last # NoKey /\ since[last] <= Window => Recent(last)

(* A command executed within the window is recognised until the cache is full,   *)
(* and the command executed last is always recognised.                           *)
THEOREM CacheRemembers == Spec => [](RemembersUntilFull /\ RemembersLast)
<1> USE CommandAssumption
<1>1. Init => CacheInv
  BY DEF Init, CacheInv, LongAgo
<1>2. TypeOK /\ CacheInv /\ [Next]_vars => CacheInv'
  <2> SUFFICES ASSUME TypeOK, CacheInv, [Next]_vars PROVE CacheInv'
    OBVIOUS
  <2>1. ASSUME UNCHANGED <<duplicates, since, last>> PROVE CacheInv'
    BY <2>1 DEF CacheInv, Recent, EmptySlots
  <2>2. ASSUME NEW k \in Keys, Execute(k) PROVE CacheInv'
    <3>1. PICK s \in Slots :
            /\ EmptySlots # {} => s \in EmptySlots
            /\ duplicates'[s].key = k /\ duplicates'[s].age = 0
            /\ \A t \in Slots \ {s} : /\ duplicates'[t].key = duplicates[t].key
                                      /\ duplicates'[t].age = duplicates[t].age
      BY <2>2, ExecuteSlots
    <3>2. /\ last' = k
          /\ \A j \in Keys : since'[j] = IF j = k THEN 0 ELSE since[j]
      BY <2>2 DEF Execute, TypeOK
    <3>3. Recent(k)'
      BY <3>1, <3>2 DEF Recent
    <3>4. ASSUME EmptySlots' # {}, NEW j \in Keys, j # k, since'[j] <= Window
          PROVE  Recent(j)'
      <4>1. EmptySlots # {}
        BY <3>1, <3>4 DEF EmptySlots
      <4>2. PICK t \in Slots : duplicates[t].key = j /\ duplicates[t].age = since[j]
        BY <3>2, <3>4, <4>1 DEF CacheInv, Recent
      <4>3. t # s
        BY <3>1, <4>1, <4>2 DEF EmptySlots
      <4> QED BY <3>1, <3>2, <3>4, <4>2, <4>3 DEF Recent
    <3> QED BY <3>2, <3>3, <3>4 DEF CacheInv
  <2>3. ASSUME Elapse PROVE CacheInv'
    <3>1. EmptySlots' = EmptySlots
      BY <2>3 DEF Elapse, EmptySlots, TypeOK, Record
    <3>2. ASSUME NEW k \in Keys, since'[k] <= Window
          PROVE  since[k] <= Window /\ (Recent(k) => Recent(k)')
      <4>1. since[k] \in 0 .. LongAgo
        BY DEF TypeOK
      <4>2. since[k] + 1 <= Window /\ since'[k] = since[k] + 1
        BY <2>3, <3>2, <4>1 DEF Elapse, LongAgo
      <4>3. ASSUME NEW s \in Slots, duplicates[s].key = k, duplicates[s].age = since[k]
            PROVE  duplicates'[s].key = k /\ duplicates'[s].age = since'[k]
        <5>1. duplicates'[s] = [duplicates[s] EXCEPT !.age = (@ + 1) % TimerModulus]
          BY <2>3, <4>3 DEF Elapse
        <5>2. duplicates[s] \in Record
          BY DEF TypeOK
        <5>3. (since[k] + 1) % TimerModulus = since[k] + 1
          BY <4>1, <4>2
        <5> QED BY <4>2, <4>3, <5>1, <5>2, <5>3 DEF Record
      <4> QED BY <4>1, <4>2, <4>3 DEF Recent
    <3>3. last' = last /\ (last # NoKey => last \in Keys)
      BY <2>3 DEF Elapse, TypeOK
    <3> QED BY <3>1, <3>2, <3>3 DEF CacheInv
  <2>4. ASSUME NEW k \in Keys, Repeat(k) PROVE CacheInv'
    BY <2>1, <2>4 DEF Repeat
  <2>5. CASE UNCHANGED vars
    BY <2>1, <2>5 DEF vars
  <2> QED BY <2>2, <2>3, <2>4, <2>5 DEF Next
<1>3. CacheInv /\ TypeOK => RemembersUntilFull /\ RemembersLast
  <2>1. ASSUME NEW k \in Keys, since[k] <= Window, Recent(k) PROVE IsDuplicate(k)
    BY <2>1 DEF Recent, IsDuplicate, FreshSlots, Matches
  <2> QED BY <2>1 DEF CacheInv, RemembersUntilFull, RemembersLast, TypeOK
<1> QED BY <1>1, <1>2, <1>3, CommandTypes, PTL DEF Spec

(* The command executed last is recognised, however full the cache is.          *)
THEOREM LastIsRemembered == Spec => []RemembersLast
<1> QED BY CacheRemembers, PTL

-----------------------------------------------------------------------------
(***************************************************************************)
(* The inductive invariant behind the cached answers: while a slot is empty,  *)
(* the only record of a key holds the result of its last execution.          *)
(***************************************************************************)
OnlyRecord(s) == \A t \in Slots : duplicates[t].key = duplicates[s].key => t = s

ResultInv ==
  EmptySlots # {} =>
    \A s \in Slots : duplicates[s].key \in Keys /\ OnlyRecord(s)
                       => duplicates[s].status = result[duplicates[s].key]

(* set_duplicate_status writes the record that is_duplicate has just made, if     *)
(* it is the only one of the key, and no record of another key.                   *)
LEMMA ExecuteStatus ==
  ASSUME TypeOK, NEW k \in Keys, Execute(k), NEW s \in Slots
  PROVE  /\ duplicates'[s].key # k => duplicates'[s].status = duplicates[s].status
         /\ duplicates'[s].key = k /\ OnlyRecord(s)' => duplicates'[s].status = result'[k]
<1>1. PICK r \in Slots :
        Recorded(k) = [duplicates EXCEPT ![r] =
                         [key |-> k, age |-> 0, status |-> "unsupported"]]
  BY RecordedSlot
<1>2. PICK status \in Status :
        /\ duplicates' = WithStatus(Recorded(k), k, status)
        /\ result' = [result EXCEPT ![k] = status]
  BY DEF Execute, Status
<1>3. /\ Recorded(k) \in [Slots -> Record]
      /\ \A t \in Slots : Recorded(k)[t] =
           IF t = r THEN [key |-> k, age |-> 0, status |-> "unsupported"] ELSE duplicates[t]
  <2>1. [key |-> k, age |-> 0, status |-> "unsupported"] \in Record
    BY CommandAssumption DEF Record, Status
  <2> QED BY <1>1, <2>1 DEF TypeOK
<1> DEFINE found == {t \in Slots : Recorded(k)[t].key = k}
           first == Min(found)
<1>4. r \in found /\ found \subseteq Nat
  BY <1>3 DEF Slots
<1>5. first \in Slots /\ Recorded(k)[first].key = k
  BY <1>4, MinIsLeast
<1>6. duplicates' = [Recorded(k) EXCEPT ![first].status = status]
  BY <1>2, <1>4 DEF WithStatus
<1> HIDE DEF found, first
<1>7. \A t \in Slots :
        /\ duplicates'[t].key = Recorded(k)[t].key
        /\ duplicates'[t].status = IF t = first THEN status ELSE Recorded(k)[t].status
  BY <1>3, <1>5, <1>6 DEF Record
<1>8. result'[k] = status
  BY <1>2 DEF TypeOK
<1>9. duplicates'[s].key # k => duplicates'[s].status = duplicates[s].status
  BY <1>3, <1>5, <1>7
<1>10. duplicates'[s].key = k /\ OnlyRecord(s)' => s = first
  BY <1>5, <1>7 DEF OnlyRecord
<1> QED BY <1>7, <1>8, <1>9, <1>10

(* A retry is answered with the status its execution returned, until the cache    *)
(* is full and as long as the key has one record.                               *)
THEOREM RetriesGetTheResult == Spec => []CachesResult
<1> USE CommandAssumption
<1>1. Init => ResultInv
  BY DEF Init, ResultInv, Empty
<1>2. TypeOK /\ ResultInv /\ [Next]_vars => ResultInv'
  <2> SUFFICES ASSUME TypeOK, ResultInv, [Next]_vars PROVE ResultInv'
    OBVIOUS
  <2>1. ASSUME UNCHANGED <<duplicates, result>> PROVE ResultInv'
    BY <2>1 DEF ResultInv, OnlyRecord, EmptySlots
  <2>2. ASSUME NEW k \in Keys, Execute(k) PROVE ResultInv'
    <3> SUFFICES ASSUME EmptySlots' # {}, NEW s \in Slots, duplicates'[s].key \in Keys,
                        OnlyRecord(s)'
                 PROVE  duplicates'[s].status = result'[duplicates'[s].key]
      BY DEF ResultInv
    <3>1. CASE duplicates'[s].key = k
      BY <2>2, <3>1, ExecuteStatus
    <3>2. CASE duplicates'[s].key # k
      <4>1. PICK r \in Slots :
              /\ EmptySlots # {} => r \in EmptySlots
              /\ duplicates'[r].key = k
              /\ \A t \in Slots \ {r} : duplicates'[t].key = duplicates[t].key
        BY <2>2, ExecuteSlots
      <4>2. EmptySlots # {} /\ r \in EmptySlots /\ s # r
        BY <3>2, <4>1 DEF EmptySlots
      <4>3. duplicates[s].key = duplicates'[s].key /\ OnlyRecord(s)
        BY <4>1, <4>2 DEF OnlyRecord, EmptySlots
      <4>4. result'[duplicates[s].key] = result[duplicates[s].key]
        BY <2>2, <3>2, <4>3 DEF Execute, TypeOK
      <4> QED BY <2>2, <3>2, <4>2, <4>3, <4>4, ExecuteStatus DEF ResultInv
    <3> QED BY <3>1, <3>2
  <2>3. CASE Elapse
    <3>1. \A s \in Slots : /\ duplicates'[s].key = duplicates[s].key
                           /\ duplicates'[s].status = duplicates[s].status
      BY <2>3 DEF Elapse, TypeOK, Record
    <3>2. result' = result
      BY <2>3 DEF Elapse
    <3> QED BY <3>1, <3>2 DEF ResultInv, OnlyRecord, EmptySlots
  <2>4. ASSUME NEW k \in Keys, Repeat(k) PROVE ResultInv'
    BY <2>1, <2>4 DEF Repeat
  <2>5. CASE UNCHANGED vars
    BY <2>1, <2>5 DEF vars
  <2> QED BY <2>2, <2>3, <2>4, <2>5 DEF Next
<1>3. TypeOK /\ ResultInv => CachesResult
  <2> SUFFICES ASSUME ResultInv, NEW k \in Keys, EmptySlots # {}, IsDuplicate(k),
                      Cardinality({s \in Slots : duplicates[s].key = k}) = 1
               PROVE  CachedStatus(k) = result[k]
    BY DEF CachesResult
  <2>1. IsFiniteSet({s \in Slots : duplicates[s].key = k})
    BY FS_Interval, FS_Subset DEF Slots
  <2>2. PICK s : {t \in Slots : duplicates[t].key = k} = {s}
    BY <2>1, FS_Singleton
  <2>3. FreshSlots(k) # {} /\ FreshSlots(k) \subseteq {s}
    BY <2>2 DEF IsDuplicate, FreshSlots, Matches
  <2>4. Min(FreshSlots(k)) = s
    <3>1. FreshSlots(k) \subseteq Nat
      BY DEF FreshSlots, Slots
    <3> QED BY <2>3, <3>1, MinIsLeast
  <2>5. s \in Slots /\ duplicates[s].key = k /\ OnlyRecord(s)
    BY <2>2 DEF OnlyRecord
  <2> QED BY <2>4, <2>5 DEF CachedStatus, ResultInv
<1> QED BY <1>1, <1>2, <1>3, CommandTypes, PTL DEF Spec
=============================================================================
