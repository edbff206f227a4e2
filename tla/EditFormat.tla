------------------------------ MODULE EditFormat ------------------------------
(***************************************************************************)
(* The encoding of a VersionEdit (manifest.rs): a tag before each field    *)
(* that is set.                                                            *)
(***************************************************************************)
EXTENDS InternalKeys

TAG_COMPARATOR == 1
TAG_LOG_NUMBER == 2
TAG_NEXT_FILE_NUMBER == 3
TAG_LAST_SEQUENCE == 4
TAG_COMPACT_POINTER == 5
TAG_DELETED_FILE == 6
TAG_NEW_FILE == 7
TAG_PREV_LOG_NUMBER == 9

\* The value of a scalar field that is not set.
Unset == -1

EmptyEdit ==
  [comparator |-> <<>>, log |-> Unset, prevLog |-> Unset, next |-> Unset, lastSeq |-> Unset,
   deleted |-> <<>>, new |-> <<>>, pointers |-> <<>>]

FileMeta(number, size, smallest, largest) ==
  [number |-> number, size |-> size, smallest |-> smallest, largest |-> largest]

EncodeScalar(tag, n) == IF n = Unset THEN <<>> ELSE <<tag>> \o EncodeVarint(n)

RECURSIVE EncodeDeleted(_)
EncodeDeleted(ds) ==
  IF ds = <<>> THEN <<>>
  ELSE <<TAG_DELETED_FILE>> \o EncodeVarint(Head(ds).level) \o EncodeVarint(Head(ds).number)
       \o EncodeDeleted(Tail(ds))

RECURSIVE EncodeNew(_)
EncodeNew(fs) ==
  IF fs = <<>> THEN <<>>
  ELSE LET meta == Head(fs).meta
       IN <<TAG_NEW_FILE>> \o EncodeVarint(Head(fs).level) \o EncodeVarint(meta.number)
          \o EncodeVarint(meta.size) \o Prefixed(EncodeKey(meta.smallest))
          \o Prefixed(EncodeKey(meta.largest)) \o EncodeNew(Tail(fs))

RECURSIVE EncodePointers(_)
EncodePointers(ps) ==
  IF ps = <<>> THEN <<>>
  ELSE <<TAG_COMPACT_POINTER>> \o EncodeVarint(Head(ps).level) \o Prefixed(Head(ps).key)
       \o EncodePointers(Tail(ps))

\* encode_to.
EncodeEdit(edit) ==
  (IF edit.comparator = <<>> THEN <<>> ELSE <<TAG_COMPARATOR>> \o Prefixed(edit.comparator))
  \o EncodeScalar(TAG_LOG_NUMBER, edit.log)
  \o EncodeScalar(TAG_PREV_LOG_NUMBER, edit.prevLog)
  \o EncodeScalar(TAG_NEXT_FILE_NUMBER, edit.next)
  \o EncodeScalar(TAG_LAST_SEQUENCE, edit.lastSeq)
  \o EncodeDeleted(edit.deleted)
  \o EncodeNew(edit.new)
  \o EncodePointers(edit.pointers)

(***************************************************************************)
(* decode: the parts of a field depend on its tag.                         *)
(***************************************************************************)
PartsOf(tag) ==
  CASE tag = TAG_COMPARATOR -> <<"bytes">>
    [] tag \in {TAG_LOG_NUMBER, TAG_PREV_LOG_NUMBER, TAG_NEXT_FILE_NUMBER, TAG_LAST_SEQUENCE} -> <<"u64">>
    [] tag = TAG_DELETED_FILE -> <<"u32", "u64">>
    [] tag = TAG_NEW_FILE -> <<"u32", "u64", "u64", "bytes", "bytes">>
    [] tag = TAG_COMPACT_POINTER -> <<"u32", "bytes">>

\* The field with this tag set to what was read.
SetField(edit, tag, v) ==
  CASE tag = TAG_COMPARATOR -> [edit EXCEPT !.comparator = v[1]]
    [] tag = TAG_LOG_NUMBER -> [edit EXCEPT !.log = v[1]]
    [] tag = TAG_PREV_LOG_NUMBER -> [edit EXCEPT !.prevLog = v[1]]
    [] tag = TAG_NEXT_FILE_NUMBER -> [edit EXCEPT !.next = v[1]]
    [] tag = TAG_LAST_SEQUENCE -> [edit EXCEPT !.lastSeq = v[1]]
    [] tag = TAG_DELETED_FILE -> [edit EXCEPT !.deleted = Append(@, [level |-> v[1], number |-> v[2]])]
    [] tag = TAG_NEW_FILE ->
         [edit EXCEPT !.new = Append(@, [level |-> v[1],
            meta |-> FileMeta(v[2], v[3], DecodeKey(v[4]).key, DecodeKey(v[5]).key)])]
    [] tag = TAG_COMPACT_POINTER -> [edit EXCEPT !.pointers = Append(@, [level |-> v[1], key |-> v[2]])]

KnownTags == 1..7 \cup {TAG_PREV_LOG_NUMBER}

\* The keys of a new file decode.
KeysDecode(tag, v) == tag = TAG_NEW_FILE => DecodeKey(v[4]).ok /\ DecodeKey(v[5]).ok

RECURSIVE DecodeFields(_, _), DecodeField(_, _, _)
DecodeFields(edit, buf) ==
  IF buf = <<>> THEN [ok |-> TRUE, edit |-> edit]
  ELSE IF Head(buf) \notin KnownTags THEN Corrupted
  ELSE DecodeField(edit, Head(buf), Read(PartsOf(Head(buf)), Tail(buf)))
DecodeField(edit, tag, parts) ==
  IF ~parts.ok THEN Corrupted
  ELSE IF ~KeysDecode(tag, parts.values) THEN Corrupted
  ELSE DecodeFields(SetField(edit, tag, parts.values), parts.rest)

DecodeEdit(buf) == DecodeFields(EmptyEdit, buf)
===============================================================================
