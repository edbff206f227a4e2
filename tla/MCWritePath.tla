----------------------------- MODULE MCWritePath -----------------------------
(***************************************************************************)
(* Bytes of four bits, blocks of the log of 14 bytes, two restart points   *)
(* in a block of three entries.                                            *)
(***************************************************************************)
EXTENDS WritePath

\* A user key, and one that it is a prefix of.
MCUsers == {<<3>>, <<3, 0>>}

\* The second write ends where exactly a header still fits the block of the
\* log; its value, like the last one, ends in zeros.
MCValues == <<{<<1>>}, {<<2, 2, 0, 2, 2, 2, 0, 0>>}, {<<>>}, {<<4, 0, 4, 0>>}>>

\* Keys before and behind those.
MCAsked == MCUsers \cup {<<2>>, <<3, 0, 0>>}

\* Blocks and tables of few entries, and of more.
MCOptions == {[blockSize |-> 0, flushEntries |-> 2], [blockSize |-> 40, flushEntries |-> 4]}

\* ZerosLeavePrefix is for checksums like this one.
ASSUME MCChecksumAssumption == ChecksumNoticesLoss

\* The writes of the run number from 1 to 4.  Numbers of one byte, of two and
\* of three are encoded here, and found again in entries and in keys.
MCNumbers == {1, BYTE - 1, BYTE, BYTE + 1, Power(BYTE, 2) - 1, Power(BYTE, 2), Power(BYTE, LONG) - 1}

ASSUME MCNumbersAssumption ==
  \A user \in MCUsers, seq \in MCNumbers :
    LET e == Entry(user, seq, Put, <<0>>)
        k == InternalKey(user, seq, Put)
    IN /\ DecodeEntry(EncodeEntry(e)).entry = e
       /\ DecodeKey(EncodeKey(k)).key = k
       /\ UserOf(EncodeKey(k)) = user /\ SeqOf(EncodeKey(k)) = seq

MCFilterMetaKey == <<5, 6>>
MCComparator == <<7, 7>>
===============================================================================
