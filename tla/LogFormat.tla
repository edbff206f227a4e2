------------------------------ MODULE LogFormat ------------------------------
(***************************************************************************)
(* The bytes of a log file (wal.rs): records cut into pieces that do not   *)
(* cross the border of a block, and the entries the records hold.          *)
(***************************************************************************)
EXTENDS InternalKeys

CONSTANT BLOCK_SIZE      \* 32768

HEADER_SIZE == WORD + HALF + 1

\* RecordType.  The byte 0 is none of them: it marks the trailer of a block.
Full == 1
First == 2
Middle == 3
Last == 4

\* The data of a piece fits a block, and its length and its type their fields.
ASSUME BlockAssumption ==
  /\ BLOCK_SIZE \in Nat
  /\ BLOCK_SIZE > HEADER_SIZE
  /\ BLOCK_SIZE - HEADER_SIZE < Power(BYTE, HALF)
  /\ Last < BYTE

Zeros(n) == [i \in 1..n |-> 0]

\* crc32c over the type and the data.  The crate's polynomial is replaced by
\* another checksum of a word.
SUMS == Power(BYTE, WORD)

Checksum(rtype, data) ==
  LET sum[i \in 0..Len(data)] == IF i = 0 THEN rtype ELSE (sum[i - 1] * 11 + data[i] + 1) % SUMS
  IN sum[Len(data)]

\* encode_piece.
EncodePiece(rtype, data) ==
  Fixed(Checksum(rtype, data), WORD) \o Fixed(Len(data), HALF) \o <<rtype>> \o data

PieceType(first, last) ==
  IF first THEN IF last THEN Full ELSE First
           ELSE IF last THEN Last ELSE Middle

(***************************************************************************)
(* add_record: what is appended for a record, the block being filled up to *)
(* offset, and where the block is filled to afterwards.                    *)
(***************************************************************************)
\* Mutant: the header is not counted.
RoomWithoutHeader(offset) == BLOCK_SIZE - offset

\* The data that a piece at this offset may hold.
Room(offset) == BLOCK_SIZE - HEADER_SIZE - offset

\* Whether a header fits the block behind offset, and where the next piece goes.
Fits(offset) == BLOCK_SIZE - offset >= HEADER_SIZE

Start(offset) == IF Fits(offset) THEN offset ELSE 0

\* Mutant: no trailer where the next header does not fit.
NoTrailer(offset) == <<>>

Trailer(offset) == IF Fits(offset) THEN <<>> ELSE Zeros(BLOCK_SIZE - offset)

\* What a piece with this room holds of the rest of a record.
Piece(rest, room) == IF Len(rest) <= room THEN rest ELSE SubSeq(rest, 1, room)

\* One turn of the loop: w has the bytes written so far, the offset, the rest
\* of the record, whether the next piece is the first, and whether the last
\* one is written.
NextPiece(w) ==
  LET start == Start(w.offset)
      piece == Piece(w.rest, Room(start))
      last == Len(w.rest) <= Room(start)
  IN IF w.done THEN w
     ELSE [bytes |-> w.bytes \o Trailer(w.offset) \o EncodePiece(PieceType(w.first, last), piece),
           offset |-> start + HEADER_SIZE + Len(piece),
           rest |-> From(w.rest, Len(piece)), first |-> FALSE, done |-> last]

\* Only the first piece may hold nothing of what is left.
AddRecord(data, offset) ==
  LET at[n \in 0..(Len(data) + 1)] ==
        IF n = 0 THEN [bytes |-> <<>>, offset |-> offset, rest |-> data, first |-> TRUE, done |-> FALSE]
        ELSE NextPiece(at[n - 1])
  IN at[Len(data) + 1]

\* Mutant: an existing file is taken to end with a full block.
OffsetZero(file) == 0

\* WalWriter::create: where the last block of an existing file is filled to.
OffsetOf(file) == Len(file) % BLOCK_SIZE

(***************************************************************************)
(* read_records: the reader's state is its place, the records so far and   *)
(* the pieces of a record that is not complete.                            *)
(***************************************************************************)
NoFragment == [open |-> FALSE, data |-> <<>>]

\* The state machine over the types of the pieces.
Assemble(state, rtype, data, next) ==
  LET moved == [state EXCEPT !.pos = next] IN
  CASE rtype = Full -> [moved EXCEPT !.records = Append(@, data), !.fragment = NoFragment]
    [] rtype = First -> [moved EXCEPT !.fragment = [open |-> TRUE, data |-> data]]
    [] rtype \in {Middle, Last} /\ ~state.fragment.open -> moved
    [] rtype = Middle /\ state.fragment.open -> [moved EXCEPT !.fragment.data = @ \o data]
    [] rtype = Last /\ state.fragment.open ->
         [moved EXCEPT !.records = Append(@, state.fragment.data \o data), !.fragment = NoFragment]

\* Mutant: a piece is believed without its checksum.
Intact(rtype, data, checksum) == TRUE

\* verify_checksum.
Verified(rtype, data, checksum) == Checksum(rtype, data) = checksum

Stopped(state) == [state EXCEPT !.done = TRUE]

\* One turn of the loop.
Turn(file, state) ==
  LET pos == state.pos
      nextBlock == (pos \div BLOCK_SIZE + 1) * BLOCK_SIZE
      rtype == file[pos + HEADER_SIZE]
      start == pos + HEADER_SIZE
      end == start + Unfixed(Slice(file, pos + WORD, pos + WORD + HALF))
      data == Slice(file, start, end)
  IN CASE state.done -> state
       [] ~state.done /\ pos + HEADER_SIZE > Len(file) -> Stopped(state)
       [] ~state.done /\ pos + HEADER_SIZE <= Len(file) /\ (nextBlock - pos < HEADER_SIZE \/ rtype = 0) ->
            [state EXCEPT !.pos = nextBlock]
       [] OTHER ->
            IF /\ rtype \in {Full, First, Middle, Last}
               /\ end <= Len(file)
               /\ Verified(rtype, data, Unfixed(Slice(file, pos, pos + WORD)))
            THEN Assemble(state, rtype, data, end)
            ELSE Stopped(state)

\* Two turns get past a header, or the loop ends.
Turns(file) == 2 * (Len(file) \div HEADER_SIZE) + 1

ReadRecords(file) ==
  LET at[n \in 0..Turns(file)] ==
        IF n = 0 THEN [pos |-> 0, records |-> <<>>, fragment |-> NoFragment, done |-> FALSE]
        ELSE Turn(file, at[n - 1])
  IN at[Turns(file)].records

(***************************************************************************)
(* encode_entry and decode_entry.                                          *)
(***************************************************************************)
EncodeEntry(e) == <<e.vtype>> \o Fixed(e.seq, LONG) \o Prefixed(e.user) \o Prefixed(e.value)

EntryOf(data, parts) ==
  IF ~parts.ok THEN Corrupted
  ELSE [ok |-> TRUE,
        entry |-> [user |-> parts.values[1], seq |-> Unfixed(Slice(data, 1, FOOTER_LEN)),
                   vtype |-> Head(data), value |-> parts.values[2]]]

DecodeEntry(data) ==
  IF Len(data) < FOOTER_LEN \/ Head(data) \notin {Put, Delete} THEN Corrupted
  ELSE EntryOf(data, Read(<<"bytes", "bytes">>, From(data, FOOTER_LEN)))
===============================================================================
