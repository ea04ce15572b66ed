------------------------------ MODULE LimitedMap ------------------------------
(***************************************************************************)
(* What the records of one X promise: a map from record keys (timestamps)  *)
(* to records that holds at most "limit" of them.  A write into a full map *)
(* removes older records to make room, or is refused when the map holds a  *)
(* newer one.  A record that is gzip may be found decompressed.  Nothing   *)
(* else than a write, a delete or a defragmentation changes what is in the *)
(* map, and a defragmentation loses only what is too big decompressed or,  *)
(* when the limit was lowered, above the limit.                            *)
(***************************************************************************)
EXTENDS Naturals, FiniteSets

CONSTANTS
  RecordKey, Rec, Limits,
  Unpack(_),  \* a record decompressed; itself if it is not gzip
  TooBig(_)   \* is the record refused for its size?

VARIABLES
  records,  \* a function from the keys present to their records
  limit,    \* g_cfg.RecordLimit
  op        \* the last operation of a client and how it ended

mvars == <<records, limit, op>>

MInit == records = <<>> /\ limit \in Limits /\ op = <<"internal">>

\* The actions relate the records before and after, old and new, to the
\* operation; MNext names the two states once for all of them.

\* Only the keys of gone, and k, may change.
Loses(old, new, gone, k) ==
  /\ DOMAIN new \ {k} = DOMAIN old \ (gone \cup {k})
  /\ \A y \in DOMAIN new \ {k} : new[y] = old[y]

\* How many of n records must go to make room for one more.
Excess(n) == IF n >= limit THEN n - limit + 1 ELSE 0

\* What a record written may read as.
Reread(r) == {r, Unpack(r)}

\* Each record of old that is still there was written again as it was found.
Rewritten(old, new) == \A y \in DOMAIN new : y \in DOMAIN old /\ new[y] \in Reread(old[y])
Lost(old, new) == {y \in DOMAIN old \ DOMAIN new : ~TooBig(old[y])}

\* k gets r.  Only records older than k go, and no more than needed; when k
\* is new, as many as needed.  If records went, the others may have been
\* written again.
Put(k, r, old, new) ==
  /\ op' = <<"write", k, r, TRUE>>
  /\ ~TooBig(r)
  /\ \E gone \in SUBSET (DOMAIN old \ {k}), v \in Reread(r) :
       LET put    == [y \in (DOMAIN old \ gone) \cup {k} |-> IF y = k THEN v ELSE old[y]]
           excess == Excess(Cardinality(DOMAIN old \ {k}))
       IN  /\ \A y \in gone : y < k
           /\ Cardinality(gone) <= excess
           /\ k \notin DOMAIN old => Cardinality(gone) = excess
           /\ \/ new = put
              \/ gone # {} /\ Rewritten(put, new) /\ Lost(put, new) = {}
  /\ UNCHANGED limit

\* r is too big, or k is older than a record of a full map.  The map stays
\* as it is; above a lowered limit it may lose older records all the same.
Refuse(k, r, old, new) ==
  /\ op' = <<"write", k, r, FALSE>>
  /\ LET gone == DOMAIN old \ DOMAIN new
     IN  /\ Loses(old, new, gone, k)
         /\ k \in DOMAIN new => k \in DOMAIN old /\ new[k] = old[k]
         /\ \/ TooBig(r) /\ gone = {}
            \/ /\ Excess(Cardinality(DOMAIN old \ {k})) > 0
               /\ \E y \in DOMAIN new : k < y
               /\ \A y \in gone : y <= k
               /\ gone # {} => Cardinality(DOMAIN old) > limit
  /\ UNCHANGED limit

Delete(k, old, new) ==
  /\ op' = <<"delete", k>>
  /\ k \notin DOMAIN new /\ Loses(old, new, {k}, k)
  /\ UNCHANGED limit

\* Each record is written again; what is too big decompressed is lost, and a
\* map above a lowered limit may be cut down to it.
Defragment(old, new) ==
  /\ op' = <<"defragment">>
  /\ Rewritten(old, new)
  /\ Lost(old, new) # {} => Cardinality(DOMAIN old) > limit
  /\ UNCHANGED limit

\* A reload of the configuration, or nothing a client sees.
Internal(old, new) ==
  /\ op' = <<"internal">>
  /\ limit' \in Limits
  /\ new = old

MNext ==
  \E old \in {records}, new \in {records'} :
    \/ \E k \in RecordKey :
         \/ Delete(k, old, new)
         \/ \E r \in Rec : Put(k, r, old, new) \/ Refuse(k, r, old, new)
    \/ Defragment(old, new)
    \/ Internal(old, new)

MSpec == MInit /\ [][MNext]_mvars
=============================================================================
