------------------------------- MODULE Octets --------------------------------
(***************************************************************************)
(* The data types of the protocol as octets: what codec/hex writes into a  *)
(* packet and reads out of it.  A message body is a sequence of fields; a  *)
(* layout names them and gives each its kind and size.                     *)
(*                                                                         *)
(* A packet is a Go slice: its array mem may be longer than its length     *)
(* len.  Reading one BYTE beyond len panics; every other read re-slices    *)
(* the packet, and panics only beyond mem.                                 *)
(*                                                                         *)
(* Text of the kind String stands for its octets in GBK: strings are those *)
(* that GBK can express, and octets those that are GBK.  Of other strings  *)
(* WriteGBK returns an empty packet, other octets ReadGBK replaces;        *)
(* neither is in the model.                                                *)
(***************************************************************************)
EXTENDS Integers, Sequences, SequencesExt

Octet == 0..255
Zeros(n) == [i \in 1..n |-> 0]

Slice(s) == [mem |-> s, len |-> Len(s)]
\* s[i:], i counted from 0
From(s, i) == [mem |-> SubSeq(s.mem, i + 1, Len(s.mem)), len |-> s.len - i]

\* strings.TrimRight(s, "\x00")
TrimZeros(s) ==
    LET kept == {i \in DOMAIN s : s[i] # 0} IN
    SubSeq(s, 1, IF kept = {} THEN 0 ELSE CHOOSE i \in kept : \A j \in kept : j <= i)

\* FoldLeft of SequencesExt, in as many steps as s is long
Through(op(_, _), base, s) ==
    LET f[i \in 0..Len(s)] == IF i = 0 THEN base ELSE op(f[i - 1], s[i]) IN f[Len(s)]

-----------------------------------------------------------------------------
(* WORD and DWORD.  A DWORD is the pair of its words: TLC's integers end at *)
(* 2^31 - 1.                                                               *)

WriteWord(n) == <<n \div 256, n % 256>>
WordOf(b) == b[1] * 256 + b[2]

WriteDoubleWord(d) == WriteWord(d[1]) \o WriteWord(d[2])
DoubleWordOf(b) == <<WordOf(SubSeq(b, 1, 2)), WordOf(SubSeq(b, 3, 4))>>

-----------------------------------------------------------------------------
(* BCD: a string of digits, two to the octet.  What fills it up is F.      *)

Fill == 15
Digit == 0..14
Digits(b) == [i \in 1..2 * Len(b) |-> IF i % 2 = 1 THEN b[(i + 1) \div 2] \div 16 ELSE b[i \div 2] % 16]

\* Everything up to the last F goes; a packet whose last F is its ninth digit is 0.
bcd2NumberStr(b) ==
    LET d == Digits(b)
        fs == {i \in DOMAIN d : d[i] = Fill}
        pos == IF fs = {} THEN 0 ELSE CHOOSE i \in fs : \A j \in fs : j <= i
    IN IF pos = 9 THEN <<0>> ELSE SubSeq(d, pos + 1, Len(d))

\* Shorter numbers are filled up to eight digits, an odd last digit is dropped.
numberStr2BCD(d) ==
    LET f == [i \in 1..IF Len(d) < 8 THEN 8 - Len(d) ELSE 0 |-> Fill] \o d
    IN [i \in 1..Len(f) \div 2 |-> f[2 * i - 1] * 16 + f[2 * i]]

\* YYMMDDhhmmss.  What is no time is read as the time of reading, here always Clock.
Clock == <<2, 3, 0, 6, 0, 2, 1, 6, 0, 0, 0, 0>>

IsTime(d) ==
    LET two(k) == 10 * d[2 * k - 1] + d[2 * k]
        days == CASE two(2) = 2 -> IF two(1) % 4 = 0 THEN 29 ELSE 28
                  [] two(2) \in {4, 6, 9, 11} -> 30
                  [] OTHER -> 31
    IN /\ Len(d) = 12
       /\ \A i \in 1..12 : d[i] <= 9
       /\ two(2) \in 1..12
       /\ two(3) \in 1..days
       /\ two(4) < 24 /\ two(5) < 60 /\ two(6) < 60

ParseTime(d) == IF IsTime(d) THEN d ELSE Clock

-----------------------------------------------------------------------------
(* Fields.  "text" is filled with zeros or cut to its size and trimmed when *)
(* read, "fill" and "note" are filled only, and "note" alone is trimmed.   *)
(* The size of "rest" is known only when it is read.                       *)

F(name, kind, size) == [name |-> name, kind |-> kind, size |-> size]
Byte(name) == F(name, "byte", 1)
Word(name) == F(name, "word", 2)
DoubleWord(name) == F(name, "dword", 4)
Bytes(name, n) == F(name, "bytes", n)
BCD(name, n) == F(name, "bcd", n)
Time(name) == F(name, "time", 6)
Text(name, n) == F(name, "text", n)

FillTo(s, n) == s \o Zeros(IF Len(s) < n THEN n - Len(s) ELSE 0)

Write(f, v) ==
    CASE f.kind = "byte"  -> <<v>>
      [] f.kind = "word"  -> WriteWord(v)
      [] f.kind = "dword" -> WriteDoubleWord(v)
      [] f.kind = "bytes" -> v
      [] f.kind \in {"bcd", "time"} -> numberStr2BCD(v)
      [] f.kind = "text"  -> SubSeq(FillTo(v, f.size), 1, f.size)
      [] f.kind \in {"fill", "note"} -> FillTo(v, f.size)

Read(f, b) ==
    CASE f.kind = "byte"  -> b[1]
      [] f.kind = "word"  -> WordOf(b)
      [] f.kind = "dword" -> DoubleWordOf(b)
      [] f.kind = "bcd"   -> bcd2NumberStr(b)
      [] f.kind = "time"  -> ParseTime(bcd2NumberStr(b))
      [] f.kind \in {"bytes", "fill"} -> b
      [] f.kind \in {"text", "note"}  -> TrimZeros(b)

\* What the type of a field holds and its octets can carry
AWord(v) == v \in 0..2^16 - 1
Holds(f, v) ==
    CASE f.kind = "byte"  -> v \in Octet
      [] f.kind = "word"  -> AWord(v)
      [] f.kind = "dword" -> v = <<v[1], v[2]>> /\ AWord(v[1]) /\ AWord(v[2])
      [] f.kind \in {"bytes", "fill"} -> v \in Seq(Octet) /\ Len(v) = f.size
      [] f.kind = "bcd"   ->
             v \in Seq(Digit) /\ f.size >= 4 /\ (Len(v) = 2 * f.size \/ (f.size = 4 /\ Len(v) < 8))
      [] f.kind = "time"  -> v \in Seq(Digit) /\ IsTime(v)
      [] f.kind \in {"text", "note"} ->
             v \in Seq(Octet) /\ Len(v) <= f.size /\ (v # <<>> => v[Len(v)] # 0)

SizeOf(layout) == Through(LAMBDA n, f : n + f.size, 0, layout)
OffsetOf(layout, k) == SizeOf(SubSeq(layout, 1, k - 1))

Names(layout) == {layout[k].name : k \in DOMAIN layout}
HoldAll(layout, m) == \A k \in DOMAIN layout : Holds(layout[k], m[layout[k].name])
\* Record m with a field of this name
With(m, name, v) == [n \in DOMAIN m \cup {name} |-> IF n = name THEN v ELSE m[n]]

WriteAll(layout, m) == FlattenSeq([k \in DOMAIN layout |-> Write(layout[k], m[layout[k].name])])

\* No read of these fields panics: see the head of the module.
Readable(s, layout) ==
    \A k \in DOMAIN layout :
        LET f == layout[k]
            at == OffsetOf(layout, k)
        IN /\ f.size >= 0
           /\ IF f.kind = "byte" THEN at < s.len ELSE at + f.size <= Len(s.mem)

ReadAll(s, layout) ==
    [n \in {layout[k].name : k \in DOMAIN layout} |->
       LET k == CHOOSE k \in DOMAIN layout : layout[k].name = n
           at == OffsetOf(layout, k)
       IN Read(layout[k], SubSeq(s.mem, at + 1, at + layout[k].size))]
=============================================================================
