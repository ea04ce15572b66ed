----------------------------- MODULE LockedMap -----------------------------
(***************************************************************************)
(* What Storage counts on when it uses a tbb::concurrent_hash_map: a set   *)
(* of keys with one exclusive lock per key.  find and insert answer at one *)
(* moment between call and return and leave the lock with the caller;      *)
(* erase(accessor) removes the key whose lock the caller holds.            *)
(***************************************************************************)
CONSTANTS Key, Thread, None

VARIABLES
  present,  \* the keys in the map
  holder,   \* the thread with the accessor of each key, or None
  call      \* what each thread is doing: None, or its operation, key, answer

Asked(op, k)       == [op |-> op, key |-> k, answer |-> "none"]
Answered(op, k, a) == [op |-> op, key |-> k, answer |-> a]

LInit ==
  /\ present = {}
  /\ holder = [k \in Key |-> None]
  /\ call = [t \in Thread |-> None]

Call(t, op, k) ==
  /\ call[t] = None
  /\ IF op = "erase" THEN holder[k] = t ELSE \A j \in Key : holder[j] # t
  /\ call' = [call EXCEPT ![t] = Asked(op, k)]
  /\ UNCHANGED <<present, holder>>

\* find and insert of a key that is there wait for its lock.
Acquire(t, op, k) ==
  /\ op # "erase" /\ call[t] = Asked(op, k)
  /\ k \in present /\ holder[k] = None
  /\ holder' = [holder EXCEPT ![k] = t]
  /\ call' = [call EXCEPT ![t] = Answered(op, k, IF op = "find" THEN "yes" ELSE "no")]
  /\ UNCHANGED present

Miss(t, k) ==
  /\ call[t] = Asked("find", k)
  /\ k \notin present
  /\ call' = [call EXCEPT ![t] = Answered("find", k, "no")]
  /\ UNCHANGED <<present, holder>>

Insert(t, k) ==
  /\ call[t] = Asked("insert", k)
  /\ k \notin present
  /\ present' = present \cup {k}
  /\ holder' = [holder EXCEPT ![k] = t]
  /\ call' = [call EXCEPT ![t] = Answered("insert", k, "yes")]

\* The caller holds the lock, so nobody else was first.
Erase(t, k) ==
  /\ call[t] = Asked("erase", k)
  /\ k \in present /\ holder[k] = t
  /\ present' = present \ {k}
  /\ holder' = [holder EXCEPT ![k] = None]
  /\ call' = [call EXCEPT ![t] = Answered("erase", k, "yes")]

Return(t) ==
  /\ call[t] # None /\ call[t].answer # "none"
  /\ call' = [call EXCEPT ![t] = None]
  /\ UNCHANGED <<present, holder>>

Release(t, k) ==
  /\ call[t] = None /\ holder[k] = t
  /\ holder' = [holder EXCEPT ![k] = None]
  /\ UNCHANGED <<present, call>>

LNext ==
  \E t \in Thread :
    \/ Return(t)
    \/ \E k \in Key :
         \/ Miss(t, k) \/ Insert(t, k) \/ Erase(t, k) \/ Release(t, k)
         \/ \E op \in {"find", "insert", "erase"} : Call(t, op, k) \/ Acquire(t, op, k)

LSpec == LInit /\ [][LNext]_<<present, holder, call>>
=============================================================================
