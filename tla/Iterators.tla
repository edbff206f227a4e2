------------------------------ MODULE Iterators ------------------------------
(***************************************************************************)
(* Ordered streams of encoded internal keys, their merge, and the stream   *)
(* of a user (iterator.rs).                                                *)
(*                                                                         *)
(* A stream is the state of a TableIter; a VecIterator is one whose        *)
(* entries are all loaded.                                                 *)
(***************************************************************************)
EXTENDS TableFormat

VecIter(items) == [file |-> <<>>, current |-> items, handles |-> <<>>]

(***************************************************************************)
(* MergingIterator: the streams, and a heap with one entry of each stream  *)
(* that is not exhausted.                                                  *)
(***************************************************************************)
\* The first entry of a loaded stream goes into the heap.
PullFrom(merger, src, iter) ==
  IF iter.current = <<>> THEN [merger EXCEPT !.iters[src] = iter]
  ELSE [iters |-> [merger.iters EXCEPT ![src] = [iter EXCEPT !.current = Tail(@)]],
        heap |-> merger.heap \cup {[key |-> Head(iter.current).key, value |-> Head(iter.current).value,
                                    src |-> src]}]

\* Takes the next entry of a stream into the heap.
Pull(merger, src) == PullFrom(merger, src, Loaded(merger.iters[src]))

RECURSIVE PullAll(_, _)
PullAll(merger, src) == IF src = 0 THEN merger ELSE PullAll(Pull(merger, src), src - 1)

Merging(iters) == PullAll([iters |-> iters, heap |-> {}], Len(iters))

\* peek: the first entry of the heap in the order of internal keys.
Top(merger) == CHOOSE e \in merger.heap : \A f \in merger.heap : ~EncodedBefore(f.key, e.key)

\* next: takes the first entry and the next one of its stream.
Take(merger, e) == Pull([merger EXCEPT !.heap = @ \ {e}], e.src)

Pop(merger) == Take(merger, Top(merger))

(***************************************************************************)
(* DBIter: the newest version of each user key that the snapshot sees,     *)
(* unless it is a Delete.                                                  *)
(***************************************************************************)
\* Skips the versions of a user key behind the one taken.
RECURSIVE SkipUser(_, _)
SkipUser(merger, user) ==
  IF merger.heap # {} /\ UserOf(Top(merger).key) = user THEN SkipUser(Pop(merger), user) ELSE merger

\* advance, repeated to the end: the pairs that the user sees.
RECURSIVE Visible(_, _), VisibleFrom(_, _, _)
Visible(merger, snapshot) ==
  IF merger.heap = {} THEN <<>> ELSE VisibleFrom(Top(merger), Pop(merger), snapshot)
VisibleFrom(top, rest, snapshot) ==
  IF SeqOf(top.key) > snapshot THEN Visible(rest, snapshot)
  ELSE (IF TypeOf(top.key) = Put THEN <<<<UserOf(top.key), top.value>>>> ELSE <<>>)
       \o Visible(SkipUser(rest, UserOf(top.key)), snapshot)

DBIter(iters, snapshot) == Visible(Merging(iters), snapshot)
===============================================================================
