----------------------------- MODULE TableFormat -----------------------------
(***************************************************************************)
(* SSTables (sstable/table.rs) and their Bloom filters (bloom.rs): data    *)
(* blocks, filter, metaindex, index and footer in the bytes of one file.   *)
(***************************************************************************)
EXTENDS BlockFormat, Bitwise

CONSTANTS MIN_KEYS,            \* the fewest keys a filter is made for (1000)
          MIN_BITS,            \* the fewest bits of a filter (64)
          HASH_MULT, HASH_MIX, \* the multipliers of bloom_hash
          MAGIC,               \* the last bytes of an SSTable
          FILTER_META_KEY      \* "filter.mulan.BloomFilter"

(***************************************************************************)
(* Bloom filters.  A filter is the set of its bits, its size in bytes and  *)
(* the number of its probes.                                               *)
(***************************************************************************)
\* bits_per_key * ln 2, rounded, within 1..30.
Probes(bitsPerKey) == Max({1, Min({30, (bitsPerKey * 693 + 500) \div 1000})})

\* ensure_capacity.
NewFilter(keys, bitsPerKey) ==
  LET bits == Max({keys * bitsPerKey, MIN_BITS})
  IN [bits |-> {}, size |-> (bits + BITS - 1) \div BITS, k |-> Probes(bitsPerKey)]

RECURSIVE HashBytes(_, _)
HashBytes(h, bytes) ==
  IF bytes = <<>> THEN h
  ELSE HashBytes(((h * HASH_MULT) % BYTE^WORD) ^^ Head(bytes), Tail(bytes))

BloomHash(bytes) == (HashBytes(Len(bytes), bytes) * HASH_MIX) % BYTE^WORD

\* The step between probes: the hash without its lower half and one bit, but
\* not 0.
Delta(h) == Max({1, h \div 2^((BITS * WORD) \div 2 + 1)})

\* The bits of a key: probe i is at h + i * delta, wrapping.
BitsOf(filter, user) ==
  LET h == BloomHash(user)
  IN {((h + i * Delta(h)) % BYTE^WORD) % (filter.size * BITS) : i \in 0..(filter.k - 1)}

InsertInFilter(filter, user) == [filter EXCEPT !.bits = @ \cup BitsOf(filter, user)]

MayContain(filter, user) == filter.size > 0 /\ BitsOf(filter, user) \subseteq filter.bits

\* finish: the bits as bytes, then k.
EncodeFilter(filter) ==
  [i \in 1..filter.size |->
     LET set == {j \in 0..(BITS - 1) : (i - 1) * BITS + j \in filter.bits}
     IN MapThenSumSet(LAMBDA j : 2^j, set)] \o <<filter.k>>

\* from_bytes.
DecodeFilter(bytes) ==
  LET size == Len(bytes) - 1
  IN [bits |-> {p \in 0..(size * BITS - 1) : (bytes[p \div BITS + 1] \div 2^(p % BITS)) % 2 = 1},
      size |-> size, k |-> bytes[Len(bytes)]]

(***************************************************************************)
(* TableBuilder.                                                           *)
(***************************************************************************)
\* The length of the footer: two handles and the magic number (48).
TABLE_FOOTER_LEN == 4 * MaxVarintLen(LONG) + LONG

\* BlockHandle: the offset and the size of a part of the file.
Handle(offset, size) == [offset |-> offset, size |-> size]

EncodeHandle(h) == EncodeVarint(h.offset) \o EncodeVarint(h.size)

HandleRead(parts) ==
  IF ~parts.ok THEN Corrupted
  ELSE [ok |-> TRUE, handle |-> Handle(parts.values[1], parts.values[2]), rest |-> parts.rest]

DecodeHandle(buf) == HandleRead(Read(<<"u64", "u64">>, buf))

\* The last finished data block, while the index does not list it.
NoPending == [key |-> <<>>, handle |-> Handle(0, 0)]

\* with_options.
NewTable(blockTarget, bitsPerKey) ==
  [file |-> <<>>, data |-> EmptyBuilder, index |-> EmptyBuilder, pending |-> NoPending, lastKey |-> <<>>,
   bloom |-> NewFilter(Max({(50 * blockTarget) \div 32, MIN_KEYS}), bitsPerKey),
   blockTarget |-> blockTarget]

WriteRaw(table, bytes) == [table EXCEPT !.file = @ \o bytes]

\* Adds the pending entry to the index.
IndexPending(table) ==
  IF table.pending = NoPending THEN table
  ELSE [table EXCEPT !.index = AddToBlock(@, table.pending.key, EncodeHandle(table.pending.handle)),
                     !.pending = NoPending]

DataBlockFlushed(table, bytes) ==
  [WriteRaw(table, bytes) EXCEPT
     !.data = EmptyBuilder,
     !.pending = [key |-> table.lastKey, handle |-> Handle(Len(table.file), Len(bytes))]]

FlushDataBlock(table) ==
  IF table.data.buf = <<>> THEN table ELSE DataBlockFlushed(table, FinishBlock(table.data))

\* A data block that reached its target size is finished.
FlushIfFull(table) ==
  IF SizeEstimate(table.data) >= table.blockTarget THEN FlushDataBlock(table) ELSE table

\* Mutant: the block is finished before the entry that fills it is added.
AddEarly(table, user, key, value) ==
  [FlushIfFull([IndexPending(table) EXCEPT !.lastKey = key, !.bloom = InsertInFilter(@, user)])
     EXCEPT !.data = AddToBlock(@, key, value)]

\* add.
AddToTable(table, user, key, value) ==
  FlushIfFull([IndexPending(table) EXCEPT !.data = AddToBlock(@, key, value),
                                          !.lastKey = key,
                                          !.bloom = InsertInFilter(@, user)])

\* The end of a file is written part by part; the handles tell where.
AppendPart(out, bytes) ==
  [file |-> out.file \o bytes, handles |-> Append(out.handles, Handle(Len(out.file), Len(bytes)))]

\* The metaindex holds the handle of the filter.
AppendMeta(out) ==
  AppendPart(out, FinishBlock(AddToBlock(EmptyBuilder, FILTER_META_KEY, EncodeHandle(out.handles[1]))))

\* The handles of metaindex and index, with zeros up to their place's end.
FooterHandles(bytes) ==
  [i \in 1..(TABLE_FOOTER_LEN - LONG) |-> IF i <= Len(bytes) THEN bytes[i] ELSE 0]

AppendFooter(out) ==
  out.file \o FooterHandles(EncodeHandle(out.handles[2]) \o EncodeHandle(out.handles[3])) \o Fixed(MAGIC, LONG)

AppendRest(table) ==
  AppendFooter(
    AppendPart(
      AppendMeta(AppendPart([file |-> table.file, handles |-> <<>>], EncodeFilter(table.bloom))),
      FinishBlock(table.index)))

\* finish.
FinishTable(table) == AppendRest(IndexPending(FlushDataBlock(table)))

RECURSIVE AddAll(_, _)
AddAll(table, entries) ==
  IF entries = <<>> THEN table
  ELSE LET e == Head(entries)
       IN AddAll(AddToTable(table, e.key.user, EncodeKey(e.key), e.value), Tail(entries))

\* flush_to_sstable_with_options: a table of the entries of a memtable.
BuildTable(entries, blockTarget, bitsPerKey) ==
  FinishTable(AddAll(NewTable(blockTarget, bitsPerKey), entries))

(***************************************************************************)
(* TableReader.                                                            *)
(***************************************************************************)
BlockBytes(file, h) == Slice(file, h.offset, h.offset + h.size)

InFile(file, h) == h.offset + h.size <= Len(file)

\* The handle stored as the value of an entry that a search returned.
HandleIn(hit) == IF ~hit.ok THEN NotFound ELSE DecodeHandle(hit.value)

\* The block that a decoded handle points to.
BlockAt(file, h) ==
  IF ~h.ok THEN Corrupted
  ELSE IF ~InFile(file, h.handle) THEN Corrupted
  ELSE ParseBlock(BlockBytes(file, h.handle))

\* The filter at a handle; a table without one is read without it.
FilterAt(file, h) ==
  IF ~h.ok THEN NotFound
  ELSE IF ~InFile(file, h.handle) \/ h.handle.size = 0 THEN NotFound
  ELSE [ok |-> TRUE, filter |-> DecodeFilter(BlockBytes(file, h.handle))]

\* The filter, found through the metaindex.
FilterOf(file, meta) ==
  IF ~meta.ok THEN NotFound
  ELSE FilterAt(file, HandleIn(GetFromBlock(meta, FILTER_META_KEY, "bytes")))

\* The footer holds the handle of the metaindex, then that of the index.
OpenIndex(file, meta, index) ==
  IF ~index.ok THEN Corrupted
  ELSE [ok |-> TRUE, file |-> file, index |-> index, bloom |-> FilterOf(file, BlockAt(file, meta))]

OpenMeta(file, meta) == IF ~meta.ok THEN Corrupted ELSE OpenIndex(file, meta, DecodeHandle(meta.rest))

\* open.
OpenTable(file) ==
  IF Len(file) < TABLE_FOOTER_LEN THEN Corrupted
  ELSE IF Unfixed(From(file, Len(file) - LONG)) # MAGIC THEN Corrupted
  ELSE OpenMeta(file, DecodeHandle(From(file, Len(file) - TABLE_FOOTER_LEN)))

\* The lower bound in a block that was read.
LowerIn(block, lookup) ==
  IF ~block.ok THEN NotFound ELSE LowerBoundKv(block, lookup, "internal")

\* Whether the entry found is one of the user key.
Answer(hit, user) ==
  IF ~hit.ok THEN NotFound
  ELSE IF UserOf(hit.key) # user THEN NotFound
  ELSE [ok |-> TRUE, vtype |-> TypeOf(hit.key), value |-> hit.value]

\* The data block the index leads to.
DataBlock(reader, lookup) ==
  BlockAt(reader.file, HandleIn(LowerIn(BlockAt(reader.file, reader.index), lookup)))

\* get_entry: the filter, the index, the data block.
GetEntry(reader, user, seq) ==
  IF reader.bloom.ok /\ ~MayContain(reader.bloom.filter, user) THEN NotFound
  ELSE Answer(LowerIn(DataBlock(reader, LookupKey(user, seq)), LookupKey(user, seq)), user)

(***************************************************************************)
(* TableIter: the handles of the data blocks not yet read, and the entries *)
(* left of the one being read.                                             *)
(***************************************************************************)
HandlesIn(list) == [i \in DOMAIN list |-> DecodeHandle(list[i].value)]

TableIter(reader) ==
  [file |-> reader.file, current |-> <<>>, handles |-> HandlesIn(BlockIter(BlockAt(reader.file, reader.index)))]

\* advance_to_next_block: a block that does not parse is skipped.
RECURSIVE NextBlock(_), ReadBlock(_, _)
NextBlock(iter) ==
  IF iter.handles = <<>> THEN [iter EXCEPT !.current = <<>>]
  ELSE ReadBlock([iter EXCEPT !.handles = Tail(@)], BlockAt(iter.file, Head(iter.handles)))
ReadBlock(iter, block) ==
  IF ~block.ok THEN NextBlock(iter) ELSE [iter EXCEPT !.current = BlockIter(block)]

\* next_entry leaves the iterator in a state whose first current entry is
\* the one returned; no such entry means that the table is exhausted.
RECURSIVE Loaded(_)
Loaded(iter) ==
  IF iter.current # <<>> \/ iter.handles = <<>> THEN iter ELSE Loaded(NextBlock(iter))
===============================================================================
