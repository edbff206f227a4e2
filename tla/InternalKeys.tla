----------------------------- MODULE InternalKeys -----------------------------
(***************************************************************************)
(* Internal keys (internal_key.rs): a user key, a sequence number and a    *)
(* type; their order and their encoding.                                   *)
(***************************************************************************)
EXTENDS Varint

Put == 0
Delete == 1

\* The length of what follows the user key in an encoded internal key, and
\* the sequence number above all that are given out.
FOOTER_LEN == LONG + 1
MAX_SEQUENCE == Power(BYTE, LONG) - 2

InternalKey(user, seq, vtype) == [user |-> user, seq |-> seq, vtype |-> vtype]

\* The order of byte strings: the first difference decides, and a prefix
\* comes first.
BytesBefore(a, b) ==
  \E i \in 1..Len(b) :
    /\ i <= Len(a) + 1
    /\ \A j \in 1..(i - 1) : a[j] = b[j]
    /\ i > Len(a) \/ a[i] < b[i]

\* Ord: user keys ascending, then sequence numbers descending, then types.
KeyBefore(a, b) ==
  \/ BytesBefore(a.user, b.user)
  \/ /\ a.user = b.user
     /\ \/ a.seq > b.seq
        \/ a.seq = b.seq /\ a.vtype < b.vtype

EncodeKey(k) == k.user \o Fixed(k.seq, LONG) \o <<k.vtype>>

DecodeKey(bytes) ==
  IF Len(bytes) < FOOTER_LEN \/ bytes[Len(bytes)] \notin {Put, Delete} THEN Corrupted
  ELSE LET n == Len(bytes) - FOOTER_LEN
       IN [ok |-> TRUE,
           key |-> InternalKey(SubSeq(bytes, 1, n), Unfixed(Slice(bytes, n, n + LONG)), bytes[Len(bytes)])]

\* user_key_of_internal_key, seq_of_internal_key, vtype_of_internal_key.
UserOf(bytes) ==
  IF Len(bytes) < FOOTER_LEN THEN bytes ELSE SubSeq(bytes, 1, Len(bytes) - FOOTER_LEN)

SeqOf(bytes) ==
  IF Len(bytes) < FOOTER_LEN THEN 0
  ELSE Unfixed(Slice(bytes, Len(bytes) - FOOTER_LEN, Len(bytes) - 1))

TypeOf(bytes) == bytes[Len(bytes)]

\* Mutant: encoded keys in the order of their bytes.
EncodedBeforeAsBytes(a, b) == BytesBefore(a, b)

\* internal_key_cmp is Less: the order of encoded keys, without the types.
EncodedBefore(a, b) ==
  \/ BytesBefore(UserOf(a), UserOf(b))
  \/ UserOf(a) = UserOf(b) /\ SeqOf(a) > SeqOf(b)

LookupKey(user, seq) == EncodeKey(InternalKey(user, seq, Put))
===============================================================================
