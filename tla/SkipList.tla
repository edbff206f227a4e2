------------------------------- MODULE SkipList -------------------------------
(***************************************************************************)
(* The skip list of the memtable (skiplist.rs).                            *)
(*                                                                         *)
(* Nodes live in an arena and point to each other by index; the node at    *)
(* HEAD holds no entry and is in every level.  Indices count from 1, and   *)
(* NIL, "no successor on this level", is 0.  The list is generic in the    *)
(* order of its keys.                                                      *)
(***************************************************************************)
EXTENDS Integers, Sequences, FiniteSets

CONSTANTS MAX_HEIGHT,    \* the most levels a node is in (12)
          NoKey,         \* the key of the head: K::default()
          Before(_, _)   \* the order of keys

HEAD == 1
NIL == 0

Node(key, value, next) == [key |-> key, value |-> value, next |-> next]

EmptyList ==
  [nodes |-> <<Node(NoKey, <<>>, [level \in 1..MAX_HEIGHT |-> NIL])>>, height |-> 1]

\* One turn of the loop on a level: to the successor, while its key is before key.
Stride(list, key, level, cur) ==
  LET next == list.nodes[cur].next[level]
  IN IF next # NIL /\ Before(list.nodes[next].key, key) THEN next ELSE cur

\* Where the loop on a level ends: no walk takes more strides than there are nodes.
Walk(list, key, level, start) ==
  LET at[n \in 0..Len(list.nodes)] ==
        IF n = 0 THEN start ELSE Stride(list, key, level, at[n - 1])
  IN at[Len(list.nodes)]

\* The predecessor of key on every level: the walk goes down from the highest
\* level in use, each level starting where the one above stopped.
FindPrev(list, key) ==
  LET prev[level \in 1..(MAX_HEIGHT + 1)] ==
        IF level > list.height THEN HEAD ELSE Walk(list, key, level, prev[level + 1])
  IN prev

\* Mutant: the new node is linked in on its lowest level only.
InsertLow(list, key, value, height) ==
  LET prev == FindPrev(list, key)
      new == Len(list.nodes) + 1
      next == [level \in 1..height |-> list.nodes[prev[level]].next[level]]
  IN [nodes |-> Append([list.nodes EXCEPT ![prev[1]].next[1] = new], Node(key, value, next)),
      height |-> IF height > list.height THEN height ELSE list.height]

\* insert, with the height that random_height draws.
Insert(list, key, value, height) ==
  LET prev == FindPrev(list, key)
      new == Len(list.nodes) + 1
      next == [level \in 1..height |-> list.nodes[prev[level]].next[level]]
      linked == [i \in DOMAIN list.nodes |->
                  [list.nodes[i] EXCEPT !.next = [level \in DOMAIN @ |->
                     IF level <= height /\ prev[level] = i THEN new ELSE @[level]]]]
  IN [nodes |-> Append(linked, Node(key, value, next)),
      height |-> IF height > list.height THEN height ELSE list.height]

\* The node of the first entry whose key is not before key, or NIL.
LowerBound(list, key) == list.nodes[FindPrev(list, key)[1]].next[1]

\* The node of an entry with this key, or NIL.
Find(list, key) ==
  LET next == LowerBound(list, key)
  IN IF next # NIL /\ list.nodes[next].key = key THEN next ELSE NIL

Follow(list, cur) == IF cur = NIL THEN NIL ELSE list.nodes[cur].next[1]

\* The nodes along the lowest level, and NIL behind the last.
Along(list) ==
  LET at[n \in 0..Len(list.nodes)] == IF n = 0 THEN HEAD ELSE Follow(list, at[n - 1])
  IN at

\* iter: the entries along the lowest level.
Iter(list) ==
  LET at == Along(list)
      size == Cardinality({n \in 1..Len(list.nodes) : at[n] # NIL})
  IN [i \in 1..size |-> [key |-> list.nodes[at[i]].key, value |-> list.nodes[at[i]].value]]

(***************************************************************************)
(* What makes a list well formed.                                          *)
(***************************************************************************)
\* The nodes with entries on a level.
OnLevel(list, level) == {n \in 2..Len(list.nodes) : level \in DOMAIN list.nodes[n].next}

\* The order of the nodes: by key, and of entries with equal keys the later
\* one first; the head is ahead of all.
Ahead(list, m, n) ==
  \/ m = HEAD /\ n # HEAD
  \/ /\ HEAD \notin {m, n}
     /\ \/ Before(list.nodes[m].key, list.nodes[n].key)
        \/ list.nodes[m].key = list.nodes[n].key /\ n < m

\* next is the first of a set of nodes, or NIL when there is none.
IsFirst(list, next, nodes) ==
  IF nodes = {} THEN next = NIL ELSE next \in nodes /\ \A n \in nodes \ {next} : Ahead(list, next, n)

\* On every level each node points to the first of those behind it, so that a
\* level holds exactly the nodes that reach it, in the order of their keys.
WellFormed(list) ==
  \A level \in 1..MAX_HEIGHT : \A m \in OnLevel(list, level) \cup {HEAD} :
    IsFirst(list, list.nodes[m].next[level], {n \in OnLevel(list, level) : Ahead(list, m, n)})
===============================================================================
