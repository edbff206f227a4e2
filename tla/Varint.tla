-------------------------------- MODULE Varint --------------------------------
(***************************************************************************)
(* Bytes, integers of fixed width and varints (varint.rs).                 *)
(*                                                                         *)
(* The widths are constants so that TLC can work with small ones: a byte   *)
(* has BITS bits (8 in the code), and u16, u32 and u64 take HALF, WORD and *)
(* LONG bytes (2, 4 and 8).                                                *)
(***************************************************************************)
EXTENDS Powers, Sequences, FiniteSetsExt

CONSTANTS BITS, HALF, WORD, LONG

ASSUME WidthsAssumption ==
  /\ {BITS, HALF, WORD, LONG} \subseteq Nat \ {0}
  /\ BITS > 1
  /\ HALF < WORD
  /\ WORD < LONG

BYTE == Power(2, BITS)

\* What a decoder returns for Err and a search for None; one that succeeds
\* returns a record whose field ok is TRUE.
Corrupted == [ok |-> FALSE]
NotFound == [ok |-> FALSE]

\* The w lowest digits of n to a base, and the number that digits stand for;
\* the lowest digit comes first.
Digits(n, base, w) == [i \in 1..w |-> (n \div Power(base, i - 1)) % base]

Value(s, base) ==
  LET sum[i \in 0..Len(s)] == IF i = 0 THEN 0 ELSE sum[i - 1] + s[i] * Power(base, i - 1)
  IN sum[Len(s)]

\* to_le_bytes of an integer of w bytes, and from_le_bytes.
Fixed(n, w) == Digits(n, BYTE, w)

Unfixed(s) == Value(s, BYTE)

\* The slice &s[from..], with from counted from 0 as in the code.
From(s, from) == SubSeq(s, from + 1, Len(s))

\* The slice &s[from..to].
Slice(s, from, to) == SubSeq(s, from + 1, to)

(***************************************************************************)
(* Varints: every byte carries BITS - 1 bits of the value, the lowest      *)
(* first, and its top bit tells that more follow.                          *)
(***************************************************************************)
MORE_BIT == Power(2, BITS - 1)

\* MAX_VARINT32_LEN and MAX_VARINT64_LEN: the bytes that an integer of w
\* bytes may take.
MaxVarintLen(w) == (BITS * w + BITS - 2) \div (BITS - 1)

\* The fewest bytes that hold an integer.
VarintLen(n) == Min({k \in 1..MaxVarintLen(LONG) : n < Power(MORE_BIT, k)})

EncodeVarint(n) ==
  [i \in 1..VarintLen(n) |->
     Digits(n, MORE_BIT, VarintLen(n))[i] + (IF i < VarintLen(n) THEN MORE_BIT ELSE 0)]

\* The bits of each byte but the top one.
Groups(s) == Value([i \in DOMAIN s |-> s[i] % MORE_BIT], MORE_BIT)

\* The varint of n bytes at the front of a buffer.
VarintOf(buf, n, w) == [ok |-> TRUE, value |-> Groups(SubSeq(buf, 1, n)) % Power(BYTE, w), used |-> n]

\* ends: the bytes that no other follows.
VarintUpTo(buf, ends, w) == IF ends = {} THEN Corrupted ELSE VarintOf(buf, Min(ends), w)

DecodeVarint(buf, w) ==
  VarintUpTo(buf, {i \in 1..Min({Len(buf), MaxVarintLen(w)}) : buf[i] < MORE_BIT}, w)

(***************************************************************************)
(* A run of bytes behind its length, and the rest of the buffer.           *)
(***************************************************************************)
Prefixed(s) == EncodeVarint(Len(s)) \o s

PrefixedBehind(buf, len) ==
  IF ~len.ok \/ len.used + len.value > Len(buf) THEN Corrupted
  ELSE [ok |-> TRUE,
        value |-> Slice(buf, len.used, len.used + len.value),
        used |-> len.used + len.value]

DecodePrefixed(buf) == PrefixedBehind(buf, DecodeVarint(buf, WORD))

(***************************************************************************)
(* A list of decoders, one behind the other: the values they read, and the *)
(* rest of the buffer.  The kinds are u32, u64, and bytes behind their     *)
(* length.                                                                 *)
(***************************************************************************)
ReadPart(kind, buf) ==
  IF kind = "bytes" THEN DecodePrefixed(buf) ELSE DecodeVarint(buf, IF kind = "u64" THEN LONG ELSE WORD)

\* A value that was read, behind those before it.
ReadBehind(state, part) ==
  IF ~part.ok THEN Corrupted
  ELSE [ok |-> TRUE, values |-> Append(state.values, part.value), rest |-> From(state.rest, part.used)]

ReadNext(state, kind) ==
  IF ~state.ok THEN Corrupted ELSE ReadBehind(state, ReadPart(kind, state.rest))

Read(kinds, buf) ==
  LET at[i \in 0..Len(kinds)] ==
        IF i = 0 THEN [ok |-> TRUE, values |-> <<>>, rest |-> buf] ELSE ReadNext(at[i - 1], kinds[i])
  IN at[Len(kinds)]
===============================================================================
