----------------------------- MODULE BlockFormat -----------------------------
(***************************************************************************)
(* The block of an SSTable (sstable/block.rs): entries in order, each key  *)
(* without the prefix it shares with the one before it, and the offsets of *)
(* the entries (restart points) whose keys are stored whole.               *)
(***************************************************************************)
EXTENDS InternalKeys

CONSTANT RESTART_INTERVAL      \* 16

ASSUME RestartAssumption == RESTART_INTERVAL \in Nat \ {0}

(***************************************************************************)
(* BlockBuilder.                                                           *)
(***************************************************************************)
EmptyBuilder == [buf |-> <<>>, restarts |-> <<0>>, lastKey |-> <<>>, count |-> 0]

\* common_prefix_len.
SharedPrefix(a, b) ==
  Max({n \in 0..Min({Len(a), Len(b)}) : SubSeq(a, 1, n) = SubSeq(b, 1, n)})

EncodedEntry(shared, key, value) ==
  LET delta == From(key, shared)
  IN EncodeVarint(shared) \o EncodeVarint(Len(delta)) \o EncodeVarint(Len(value)) \o delta \o value

\* add.
AddToBlock(builder, key, value) ==
  LET restart == builder.count >= RESTART_INTERVAL
      shared == IF restart THEN 0 ELSE SharedPrefix(builder.lastKey, key)
  IN [buf |-> builder.buf \o EncodedEntry(shared, key, value),
      restarts |-> IF restart THEN Append(builder.restarts, Len(builder.buf)) ELSE builder.restarts,
      lastKey |-> key,
      count |-> IF restart THEN 1 ELSE builder.count + 1]

RECURSIVE FixedAll(_)
FixedAll(s) == IF s = <<>> THEN <<>> ELSE Fixed(Head(s), WORD) \o FixedAll(Tail(s))

\* finish.
FinishBlock(builder) ==
  builder.buf \o FixedAll(builder.restarts) \o Fixed(Len(builder.restarts), WORD)

\* current_size_estimate.
SizeEstimate(builder) == Len(builder.buf) + WORD * Len(builder.restarts) + WORD

(***************************************************************************)
(* Block.                                                                  *)
(***************************************************************************)
ParseBlock(data) ==
  LET num == Unfixed(From(data, Len(data) - WORD))
  IN IF Len(data) < WORD THEN Corrupted
     ELSE IF Len(data) < WORD + num * WORD THEN Corrupted
     ELSE [ok |-> TRUE, data |-> data, restartsOffset |-> Len(data) - WORD - num * WORD, num |-> num]

\* The offset of restart point i, counted from 0.
RestartOffset(block, i) ==
  LET start == block.restartsOffset + i * WORD
  IN Unfixed(Slice(block.data, start, start + WORD))

\* Where the parts of an entry lie, from the lengths in front of it.
Places(keyStart, lengths) ==
  [ok |-> TRUE, shared |-> lengths[1], keyStart |-> keyStart, keyEnd |-> keyStart + lengths[2],
   next |-> keyStart + lengths[2] + lengths[3]]

HeaderOf(block, parts) ==
  IF ~parts.ok THEN Corrupted ELSE Places(Len(block.data) - Len(parts.rest), parts.values)

\* The three lengths in front of an entry.
EntryHeader(block, offset) == HeaderOf(block, Read(<<"u32", "u32", "u32">>, From(block.data, offset)))

\* The entry that a header describes, behind the key before it.
EntryBehind(block, h, lastKey) ==
  IF ~h.ok THEN Corrupted
  ELSE IF h.next > block.restartsOffset \/ h.shared > Len(lastKey) THEN Corrupted
  ELSE [ok |-> TRUE,
        key |-> SubSeq(lastKey, 1, h.shared) \o Slice(block.data, h.keyStart, h.keyEnd),
        value |-> Slice(block.data, h.keyEnd, h.next),
        next |-> h.next]

\* parse_entry.
ParseEntry(block, offset, lastKey) == EntryBehind(block, EntryHeader(block, offset), lastKey)

\* restarting_key_at and value_at_restart: what is stored there is the key.
EntryStored(block, h) ==
  [key |-> Slice(block.data, h.keyStart, h.keyEnd), value |-> Slice(block.data, h.keyEnd, h.next)]

\* The entry of restart point i.
RestartEntry(block, i) == EntryStored(block, EntryHeader(block, RestartOffset(block, i)))

\* The entries from an offset to the restarts or to an entry that does not parse.
RECURSIVE EntriesFrom(_, _, _), EntriesWith(_, _)
EntriesFrom(block, offset, lastKey) ==
  IF offset >= block.restartsOffset THEN <<>>
  ELSE EntriesWith(block, ParseEntry(block, offset, lastKey))
EntriesWith(block, entry) ==
  IF ~entry.ok THEN <<>>
  ELSE <<[key |-> entry.key, value |-> entry.value]>> \o EntriesFrom(block, entry.next, entry.key)

\* iter.
BlockIter(block) == EntriesFrom(block, 0, <<>>)

\* The entries a search looks at after it has chosen a restart point: the
\* first one is parsed with its own key before it.
EntriesAtRestart(block, i) == EntriesFrom(block, RestartOffset(block, i), RestartEntry(block, i).key)

\* The comparison a search is given: a.cmp(b), or internal_key_cmp.
Less(order, a, b) == IF order = "bytes" THEN BytesBefore(a, b) ELSE EncodedBefore(a, b)

\* The binary search of lower_bound: the first restart point whose key is
\* not before the target.
FirstRestart(block, target, order) ==
  LET search[lo, hi \in 0..block.num] ==
        LET mid == (lo + hi) \div 2
        IN IF lo >= hi THEN lo
           ELSE IF Less(order, RestartEntry(block, mid).key, target) THEN search[mid + 1, hi]
           ELSE search[lo, mid]
  IN search[0, block.num]

Same(order, a, b) == ~Less(order, a, b) /\ ~Less(order, b, a)

Found(entry) == [ok |-> TRUE, key |-> entry.key, value |-> entry.value]

\* Mutant: the scan starts at the restart point that was found.
ScanLate(found) == found

\* Where the scan starts: the target may lie behind the restart point before
\* the one that was found.
ScanStart(found) == IF found = 0 THEN 0 ELSE found - 1

\* The first entry whose key is not before the target.
FirstOf(entries, hits) == IF hits = {} THEN NotFound ELSE Found(entries[Min(hits)])

FirstNotBefore(entries, target, order) ==
  FirstOf(entries, {i \in DOMAIN entries : ~Less(order, entries[i].key, target)})

\* lower_bound and lower_bound_kv.
LowerBoundKv(block, target, order) ==
  FirstNotBefore(
    EntriesAtRestart(block, Min({ScanStart(FirstRestart(block, target, order)), block.num - 1})),
    target, order)

\* An entry that was found, if its key is the target.
IfSame(hit, target, order) ==
  IF ~hit.ok THEN NotFound ELSE IF Same(order, hit.key, target) THEN hit ELSE NotFound

\* get, once the search has found a restart point: one with the key ends it;
\* else the scan starts at the restart point before it.
GetAround(block, found, target, order) ==
  IF found < block.num /\ Same(order, RestartEntry(block, found).key, target)
  THEN Found(RestartEntry(block, found))
  ELSE IF found = 0 THEN NotFound
  ELSE IfSame(FirstNotBefore(EntriesAtRestart(block, found - 1), target, order), target, order)

GetFromBlock(block, target, order) ==
  GetAround(block, FirstRestart(block, target, order), target, order)
===============================================================================
