------------------------------ MODULE SlotFile ------------------------------
(***************************************************************************)
(* What the index file promises the storage engine, and what Storage       *)
(* assumes of it: DRECs are slots; the entry of an X keeps the slot of its *)
(* first write, which held no DREC before; a slot is emptied by erasing    *)
(* it and by nothing else; a load finds one of the DRECs of every X.       *)
(***************************************************************************)
CONSTANTS
  Key,    \* the X's
  Value,  \* the extent and the CRC a DREC names
  Slot,   \* places of DRECs in the index file
  None

VARIABLES
  slots,  \* the slots that hold a DREC, and what it says
  at      \* the slot of the entry of each X in the map, or None

FInit ==
  /\ slots = <<>>
  /\ at = [x \in Key |-> None]

Holds(s, x, v) ==
  slots' = [t \in DOMAIN slots \cup {s} |->
              IF t = s THEN [key |-> x, data |-> v] ELSE slots[t]]

Rewrite(x, v) ==
  /\ at[x] # None
  /\ Holds(at[x], x, v)
  /\ UNCHANGED at

WriteNew(x, v) ==
  /\ at[x] = None
  /\ \E s \in Slot \ DOMAIN slots :
       /\ Holds(s, x, v)
       /\ at' = [at EXCEPT ![x] = s]

\* x leaves the map, its DREC stays until it is erased.
Leave(x) ==
  /\ at' = [at EXCEPT ![x] = None]
  /\ UNCHANGED slots

Erase(s) ==
  /\ \A x \in Key : at[x] # s
  /\ slots' = [t \in DOMAIN slots \ {s} |-> slots[t]]
  /\ UNCHANGED at

\* The X's with a DREC, and for each of them one of its DRECs.
Load ==
  /\ \A x \in Key :
       LET mine == {s \in DOMAIN slots : slots[s].key = x}
       IN  IF mine = {} THEN at'[x] = None ELSE at'[x] \in mine
  /\ DOMAIN at' = Key
  /\ UNCHANGED slots

FNext ==
  \/ \E x \in Key : Leave(x) \/ \E v \in Value : Rewrite(x, v) \/ WriteNew(x, v)
  \/ \E s \in Slot : Erase(s)
  \/ Load

FSpec == FInit /\ [][FNext]_<<slots, at>>
=============================================================================
