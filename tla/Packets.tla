------------------------------ MODULE Packets --------------------------------
(***************************************************************************)
(* The packet codec: what a frame carries is escaped and has a check octet *)
(* behind it.  A packet being decoded is a slice whose array append has    *)
(* grown, so it still holds the check octet and zeros behind its length.   *)
(***************************************************************************)
EXTENDS Messages, FiniteSetsExt

boundaryMark == \h7E
escapeMark == \h7D

-----------------------------------------------------------------------------
(* Escaping.  An octet becomes one or two.                                 *)

FaultyEscaped(v) == IF v = boundaryMark THEN <<escapeMark, 2>> ELSE <<v>>
Escaped(v) ==
    CASE v = boundaryMark -> <<escapeMark, 2>>
      [] v = escapeMark   -> <<escapeMark, 1>>
      [] OTHER            -> <<v>>

escape(src) ==
    <<boundaryMark>> \o FlattenSeq([i \in 1..Len(src) |-> Escaped(src[i])]) \o <<boundaryMark>>

\* A pair is the mark and what it stands for; no octet belongs to two of them.
Pair(src, i) == i \in 2..Len(src) - 2 /\ src[i] = escapeMark /\ src[i + 1] \in {1, 2}
Unescaped(src, i) ==
    CASE Pair(src, i)     -> <<IF src[i + 1] = 2 THEN boundaryMark ELSE escapeMark>>
      [] Pair(src, i - 1) -> <<>>
      [] OTHER            -> <<src[i]>>

\* Drops the first and the last octet, whatever they are.
unescape(src) == FlattenSeq([i \in 1..Len(src) - 2 |-> Unescaped(src, i + 1)])

-----------------------------------------------------------------------------
(* The check octet, the exclusive or of all: a bit of it is set when an     *)
(* odd number of octets have that bit.                                     *)

CheckOf(s) ==
    LET odd(bit) == Cardinality({i \in 1..Len(s) : (s[i] \div bit) % 2 = 1}) % 2 IN
    odd(1) + 2 * odd(2) + 4 * odd(4) + 8 * odd(8)
        + 16 * odd(16) + 32 * odd(32) + 64 * odd(64) + 128 * odd(128)
genVerifier(pkt) == Append(pkt, CheckOf(pkt))
Verified(pkt) == CheckOf(Front(pkt)) = Last(pkt)

\* The arrays that append allocates, one after the other: it doubles a full one up to
\* 512 octets, then adds less.  No read gives a longer packet than the last one holds.
Capacities == {8, 16, 32, 64, 128, 256, 512, 896, 1408, 2048, 3072}
Capacity(n) == Min({c \in Capacities : c >= n})

verify(pkt) == [mem |-> FillTo(pkt, Capacity(Len(pkt))), len |-> Len(pkt) - 1]

-----------------------------------------------------------------------------
(* The codec.  Decode gives a packet [header, body], an error or a panic.  *)

ErrEmptyPacket == "empty packet"
ErrVerifyFailed == "verify failed"
Panic == "panic"

EncodePacket(m) == escape(genVerifier(Encode(m)))

DecodeVerified(s) ==
    LET h == ReadHeader(s) IN
    IF h.panic \/ h.Idx > s.len
    THEN [err |-> Panic]
    ELSE [err |-> "", header |-> h.header, body |-> From(s, h.Idx)]

DecodePacket(payload) ==
    LET pkt == unescape(payload) IN
    CASE pkt = <<>> -> [err |-> ErrEmptyPacket]
      [] pkt # <<>> /\ ~Verified(pkt) -> [err |-> ErrVerifyFailed]
      [] OTHER -> DecodeVerified(verify(pkt))
=============================================================================
