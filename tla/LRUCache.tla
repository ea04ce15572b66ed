------------------------------ MODULE LRUCache ------------------------------
(***************************************************************************)
(* LRUCache.cpp: a hash map from keys to the records of a doubly linked    *)
(* list, the key used longest ago first.  The map holds one record per     *)
(* key, so a record is named by its key and a pointer is a key or None.    *)
(* Operators on a cache c; the state is a variable of the module that uses *)
(* them.                                                                   *)
(***************************************************************************)
EXTENDS Naturals, Sequences

CONSTANT None   \* NULL

\* m_first, m_last, and the record of each key.
EmptyChain == [first |-> None, last |-> None, crec |-> <<>>]

CachedKeys(c) == DOMAIN c.crec

\* The record of x leaves the chain and the map.
\* Mutant: m_last is not moved back.
ChangeChainKeepsLast(c, x) ==
  [first |-> IF x = c.first THEN c.crec[x].next ELSE c.first,
   last  |-> c.last,
   crec  |-> [y \in CachedKeys(c) \ {x} |->
                [prev |-> IF y = c.crec[x].next THEN c.crec[x].prev ELSE c.crec[y].prev,
                 next |-> IF y = c.crec[x].prev THEN c.crec[x].next ELSE c.crec[y].next]]]

ChangeChain(c, x) ==
  [first |-> IF x = c.first THEN c.crec[x].next ELSE c.first,
   last  |-> IF x = c.last THEN c.crec[x].prev ELSE c.last,
   crec  |-> [y \in CachedKeys(c) \ {x} |->
                [prev |-> IF y = c.crec[x].next THEN c.crec[x].prev ELSE c.crec[y].prev,
                 next |-> IF y = c.crec[x].prev THEN c.crec[x].next ELSE c.crec[y].next]]]

\* LRUCache::remove.
Remove(c, x) == IF x \in CachedKeys(c) THEN ChangeChain(c, x) ELSE c

\* A new record at the end of the chain.
AddLast(c, x) ==
  [first |-> IF c.first = None THEN x ELSE c.first,
   last  |-> x,
   crec  |-> [y \in CachedKeys(c) \cup {x} |->
                IF y = x THEN [prev |-> c.last, next |-> None]
                ELSE IF y = c.last THEN [c.crec[y] EXCEPT !.next = x]
                ELSE c.crec[y]]]

\* LRUCache::put.
Put(c, x) == AddLast(Remove(c, x), x)

\* LRUCache::get: the oldest key, or None.
Oldest(c) == c.first

\* Followed from either end, the chain of c is the sequence s.
IsChain(c, s) ==
  /\ CachedKeys(c) = {s[i] : i \in DOMAIN s}
  /\ c.first = IF s = <<>> THEN None ELSE s[1]
  /\ c.last = IF s = <<>> THEN None ELSE s[Len(s)]
  /\ \A i \in DOMAIN s :
       c.crec[s[i]] = [prev |-> IF i = 1 THEN None ELSE s[i - 1],
                       next |-> IF i = Len(s) THEN None ELSE s[i + 1]]
=============================================================================
