--------------------------- MODULE ExpirationIndex ---------------------------
(***************************************************************************)
(* The index by which the stores in memory find what expires next: a heap  *)
(* of keys with their expiry, and the position of each key in it, so that  *)
(* an entry can be replaced or removed in the middle. Keys are compared    *)
(* where expiries are equal, and are numbers here. Positions begin with 1. *)
(***************************************************************************)
EXTENDS Naturals, Sequences, FiniteSets

CONSTANTS IndexKeys, Expirations

ASSUME IndexAssumption == IndexKeys \subseteq Nat /\ Expirations \subseteq Nat

VARIABLES
  entries,   \* the heap, and the position of each key
  expected   \* history: the expiry last set of the keys that are in the index

indexVars == <<entries, expected>>

Less(e, f) ==
  \/ e.expiresAt < f.expiresAt
  \/ e.expiresAt = f.expiresAt /\ e.key < f.key

Swap(ix, i, j) ==
  [heap |-> [ix.heap EXCEPT ![i] = ix.heap[j], ![j] = ix.heap[i]],
   at   |-> [ix.at EXCEPT ![ix.heap[i].key] = j, ![ix.heap[j].key] = i]]

\* A turn of the loop of #bubbleUp, and of the one of #bubbleDown: the entry at i trades
\* places with its parent, or with the smaller of its children. A loop that ends stays.
Rise(loop) ==
  LET heap   == loop.ix.heap
      parent == loop.i \div 2
  IN IF loop.i > 1 /\ Less(heap[loop.i], heap[parent])
     THEN [ix |-> Swap(loop.ix, loop.i, parent), i |-> parent]
     ELSE loop

Smallest(heap, S) == CHOOSE j \in S : \A k \in S : k = j \/ Less(heap[j], heap[k])

Sink(loop) ==
  LET heap     == loop.ix.heap
      below    == {j \in {2 * loop.i, 2 * loop.i + 1} : j <= Len(heap)}
      smallest == Smallest(heap, below \cup {loop.i})
  IN IF smallest = loop.i
     THEN loop
     ELSE [ix |-> Swap(loop.ix, loop.i, smallest), i |-> smallest]

\* No loop has more turns than the heap has entries.
Loop(Turn(_), ix, i) ==
  LET after[n \in 0..Len(ix.heap)] ==
        IF n = 0 THEN [ix |-> ix, i |-> i] ELSE Turn(after[n - 1])
  IN after[Len(ix.heap)].ix

BubbleUp(ix, i)   == Loop(Rise, ix, i)
BubbleDown(ix, i) == Loop(Sink, ix, i)

Put(ix, e, i) == [heap |-> [ix.heap EXCEPT ![i] = e],
                  at |-> [k \in DOMAIN ix.at \cup {e.key} |-> IF k = e.key THEN i ELSE ix.at[k]]]

\* set: a new key is added at the end, a key that is there gets the new expiry.
SetKey(ix, k, t) ==
  LET new == [key |-> k, expiresAt |-> t] IN
  IF k \notin DOMAIN ix.at
  THEN LET end == Len(ix.heap) + 1
       IN BubbleUp(Put([heap |-> Append(ix.heap, new), at |-> ix.at], new, end), end)
  ELSE LET i == ix.at[k] IN
       IF t < ix.heap[i].expiresAt
       THEN BubbleUp(Put(ix, new, i), i)
       ELSE BubbleDown(Put(ix, new, i), i)

\* An entry that takes the place of another one only goes down.
SettleDown(ix, i) == BubbleDown(ix, i)

\* The last entry takes the place of the one removed and goes up or down from there.
Settle(ix, i) ==
  IF i > 1 /\ Less(ix.heap[i], ix.heap[i \div 2]) THEN BubbleUp(ix, i) ELSE BubbleDown(ix, i)

\* delete
DeleteKey(ix, k) ==
  IF k \notin DOMAIN ix.at THEN ix
  ELSE LET i    == ix.at[k]
           last == ix.heap[Len(ix.heap)]
           rest == [heap |-> SubSeq(ix.heap, 1, Len(ix.heap) - 1),
                    at   |-> [j \in DOMAIN ix.at \ {k} |-> ix.at[j]]]
       IN IF i > Len(rest.heap) THEN rest ELSE Settle(Put(rest, last, i), i)

IndexInit ==
  /\ entries = [heap |-> <<>>, at |-> [k \in {} |-> 0]]
  /\ expected = [k \in {} |-> 0]

IndexNext ==
  \E k \in IndexKeys :
    \/ \E t \in Expirations :
         /\ entries' = SetKey(entries, k, t)
         /\ expected' = [j \in DOMAIN expected \cup {k} |-> IF j = k THEN t ELSE expected[j]]
    \/ /\ entries' = DeleteKey(entries, k)
       /\ expected' = [j \in DOMAIN expected \ {k} |-> expected[j]]

IndexSpec == IndexInit /\ [][IndexNext]_indexVars

-----------------------------------------------------------------------------

\* The index holds the keys that have been set and not deleted, once each and with the
\* expiry last set, it finds each of them, and no entry expires before the one that peek
\* shows: a cleanup that stops at the first entry that is not due misses none.
IndexIsExact ==
  LET heap == entries.heap IN
  /\ DOMAIN entries.at = DOMAIN expected /\ Len(heap) = Cardinality(DOMAIN expected)
  /\ \A k \in DOMAIN expected :
       heap[entries.at[k]] = [key |-> k, expiresAt |-> expected[k]]
  /\ \A i \in DOMAIN heap : heap[1].expiresAt <= heap[i].expiresAt
=============================================================================
