---------------------------- MODULE PacketNotions ----------------------------
(***************************************************************************)
(* What the proofs about the codecs speak of: the steps of the folds that  *)
(* the operators are made of, what it means that a value fits its field,   *)
(* a slice carries a message and an answer can be written.  Each has the   *)
(* name of what it says; none is a part of the program.                    *)
(***************************************************************************)
EXTENDS Packets

-----------------------------------------------------------------------------
(* Numbers and sequences.  Induction goes by the least number that a set   *)
(* of counterexamples holds.                                               *)

Assoc(a, b, c) == (a \o b) \o c = a \o (b \o c)

-----------------------------------------------------------------------------
(* Sizes add up.                                                           *)

SumSteps(s, f) ==
    /\ f \in [0..Len(s) -> Nat] /\ f[0] = 0
    /\ \A i \in 1..Len(s) : f[i] = f[i - 1] + s[i].size

\* The first k of a sequence and the others
First(s, k) == SubSeq(s, 1, k)
Others(s, k) == SubSeq(s, k + 1, Len(s))

\* The octets of the first i frames
Upto(s, i) == SizeOf(First(s, i))

-----------------------------------------------------------------------------
(* Escaping is undone by unescaping, whatever the octets.                  *)

\* The octets of s from the first on, escaped and one behind the other: f[i] for the
\* first i of them.
EscapeSteps(s, f) ==
    /\ f \in [0..Len(s) -> Seq(Octet)]
    /\ f[0] = <<>>
    /\ \A i \in 1..Len(s) : f[i] = f[i - 1] \o Escaped(s[i])

\* A frame: what it carries, between two marks.
Framed(e) == <<boundaryMark>> \o e \o <<boundaryMark>>

\* The octets before the i-th, escaped, take as many as this.
Start(f, i) == Len(f[i - 1])

-----------------------------------------------------------------------------
(* The fields of a message are read as they were written.                  *)

\* The bits of a number put together from five.
Packed(a, b, c, d, e) == a + b * 1024 + c * 8192 + d * 16384 + e * 32768

-----------------------------------------------------------------------------
(* What is read is octets, however it was cut.                             *)

\* The array that a packet is in has room for it.
LongestArray == 3072

\* What a header is made of
HeaderFields ==
    {Word("MsgID"), Word("Attr"), Byte("ProtocolVersion"), BCD("PhoneNumber", 10),
     BCD("PhoneNumber", 6), Word("SerialNumber"), Word("Total"), Word("Index")}

\* The parts of a header layout
HeaderPhone(version) ==
    IF version = Version2019
    THEN <<Byte("ProtocolVersion"), BCD("PhoneNumber", 10)>>
    ELSE <<BCD("PhoneNumber", 6)>>
HeaderPart(fragmented) == IF fragmented THEN <<Word("Total"), Word("Index")>> ELSE <<>>

\* SMT does not take the empty string.
NoError == ""

\* The body of a packet as a handler gets it: octets, all of them in the array
Body(s) == s.mem \in Seq(Octet) /\ s.len \in Int /\ s.len <= Len(s.mem)

-----------------------------------------------------------------------------
(* Lists of parameters.                                                    *)

\* A list of supported parameters, whatever their values are
Listed(list) == \E X : list \in Seq(X) /\ \A x \in X : Supported(x.id)

\* Before an identifier there are fewer than before a later one.
Rank(ids, id) == Cardinality(Below(ids, id))

-----------------------------------------------------------------------------
(* What is read as a list of parameters is one, whatever the octets are.   *)

\* The reading of n parameters, one after the other
NothingRead == [panic |-> FALSE, idx |-> 0, params |-> <<>>]

ReadSteps(s, n, f) ==
    /\ DOMAIN f = 0..n /\ f[0] = NothingRead
    /\ \A i \in 1..n : f[i] = ReadParam(s, f[i - 1])

-----------------------------------------------------------------------------
(* What a handler is given, and what it makes of the parameters.           *)

IsSetting(h) == h.MsgID = \h8103

-----------------------------------------------------------------------------
(* Fields: what is written behind one another is found again.              *)

\* Where the i-th of the sequences ps begins when they are put behind one another.
Joins(X, f, ps) ==
    /\ f \in [0..Len(ps) -> Seq(X)] /\ f[0] = <<>>
    /\ \A i \in 1..Len(ps) : f[i] = f[i - 1] \o ps[i]

\* The i-th then stands in the whole.
Stands(f, ps, i) ==
    /\ Len(f[i]) = Len(f[i - 1]) + Len(ps[i])
    /\ Len(f[i]) <= Len(f[Len(ps)])
    /\ \A k \in 1..Len(ps[i]) : f[Len(ps)][Len(f[i - 1]) + k] = ps[i][k]

\* A value that a field takes and gives back
Fits(f, v) ==
    /\ f.size \in Nat
    /\ Write(f, v) \in Seq(Octet) /\ Len(Write(f, v)) = f.size
    /\ Read(f, Write(f, v)) = v

\* Each field has a name of its own, and m a value that fits.
Suits(layout, m) ==
    /\ \E X : layout \in Seq(X) /\ \A x \in X : x.size \in Nat
    /\ \A k \in DOMAIN layout : Fits(layout[k], m[layout[k].name])
    /\ \A j, k \in DOMAIN layout : layout[j].name = layout[k].name => j = k

\* The packet s begins with the fields of m; its array may hold anything behind them.
Begins(s, layout, m) ==
    /\ \E rest \in Seq(Octet) : s.mem = WriteAll(layout, m) \o rest
    /\ s.len \in Int /\ SizeOf(layout) <= s.len

\* No read of them leaves the packet, and each gives what m has.
ReadsBack(s, layout, m) ==
    /\ Readable(s, layout)
    /\ \A k \in DOMAIN layout : ReadAll(s, layout)[layout[k].name] = m[layout[k].name]

\* Two words behind one another are found again.
TwoOctets(g) == g \in Seq(Octet) /\ Len(g) = 2

TwoOf(r, g, p) ==
    /\ r \in Seq(Octet) /\ Len(r) = 4
    /\ WordOf(SubSeq(r, 1, 2)) = WordOf(g)
    /\ WordOf(SubSeq(r, 3, 4)) = WordOf(p)

-----------------------------------------------------------------------------
(* Whole packets.                                                          *)

\* A header with the attribute word in it
WithAttr(h) == [n \in DOMAIN h \cup {"Attr"} |-> IF n = "Attr" THEN WriteAttr(h) ELSE h[n]]

\* Where each item of a header stands
HeaderAt(L, version, fragmented) ==
    /\ L \in Seq(HeaderFields)
    /\ L[1] = Word("MsgID") /\ L[2] = Word("Attr")
    /\ version = Version2019 =>
         /\ L[3] = Byte("ProtocolVersion") /\ L[4] = BCD("PhoneNumber", 10)
         /\ L[5] = Word("SerialNumber")
         /\ fragmented => Len(L) = 7 /\ L[6] = Word("Total") /\ L[7] = Word("Index")
         /\ ~fragmented => Len(L) = 5
    /\ version # Version2019 =>
         /\ L[3] = BCD("PhoneNumber", 6) /\ L[4] = Word("SerialNumber")
         /\ fragmented => Len(L) = 6 /\ L[5] = Word("Total") /\ L[6] = Word("Index")
         /\ ~fragmented => Len(L) = 4

\* The items that the layout of a header has, besides the word of attributes
Carried(h) ==
    {"MsgID", "PhoneNumber", "SerialNumber"}
        \cup (IF h.VersionDesc = Version2019 THEN {"ProtocolVersion"} ELSE {})
        \cup (IF h.Frag THEN {"Total", "Index"} ELSE {})

\* The word of attributes is read before the layout is known, from the place where the
\* layout has it.
HeaderStart == <<Word("MsgID"), Word("Attr")>>

HeaderRead(read, h) ==
    /\ ~read.panic /\ read.Idx = SizeOf(HeaderLayout(h.VersionDesc, h.Frag))
    /\ \A n \in CommonItems \cup Carried(h) : read.header[n] = h[n]
    /\ read.header = [n \in CommonItems \cup OptionalItems |-> read.header[n]]
    /\ \A n \in OptionalItems \ Carried(h) : read.header[n] = 0

\* A message that fits one packet: its length has ten bits in the header.
Sendable(m) ==
    /\ Whole(Measured(m).header)
    /\ WriteBody(m) \in Seq(Octet) /\ Len(WriteBody(m)) < 2^10

-----------------------------------------------------------------------------
(* What a type holds, a field of that type gives back.                     *)

\* The fields that a layout may have
IsField(f) ==
    /\ f.size \in Nat
    /\ \/ f = Byte(f.name) \/ f = Word(f.name) \/ f = DoubleWord(f.name) \/ f = Time(f.name)
       \/ f = Bytes(f.name, f.size) \/ f = BCD(f.name, f.size) \/ f = Text(f.name, f.size)
       \/ f = F(f.name, "fill", f.size) \/ f = F(f.name, "note", f.size)

\* A layout of such fields, no two of the same name
Formal(layout) ==
    /\ layout \in Seq({layout[k] : k \in DOMAIN layout})
    /\ \A k \in DOMAIN layout : IsField(layout[k])
    /\ \A j, k \in DOMAIN layout : layout[j].name = layout[k].name => j = k

-----------------------------------------------------------------------------
(* The layouts of the bodies: made of such fields, each with its own name. *)

\* The sizes of a registration's texts
Sized(sizes) == sizes[1] \in Nat /\ sizes[2] \in Nat /\ sizes[3] \in Nat

-----------------------------------------------------------------------------
(* What stands in front of a part of a sequence, and what behind it.       *)

\* Joined sequences, cut in front of and behind the i-th of them
Cuts(X, ps, f) ==
    /\ f \in [0..Len(ps) -> Seq(X)]
    /\ f[0] = <<>>
    /\ \A i \in 1..Len(ps) : f[i] = f[i - 1] \o ps[i]
    /\ FlattenSeq(ps) = f[Len(ps)]
    /\ \A i \in 0..Len(ps) : \E rest \in Seq(X) : FlattenSeq(ps) = f[i] \o rest
    /\ \A i \in 1..Len(ps) : \E rest \in Seq(X) : FlattenSeq(ps) = f[i - 1] \o (ps[i] \o rest)

-----------------------------------------------------------------------------
(* Slices that begin with the octets w, and what is read from them.        *)

Ahead(s, w) ==
    /\ \E rest \in Seq(Octet) : s.mem = w \o rest
    /\ s.len \in Int /\ Len(w) <= s.len

-----------------------------------------------------------------------------
(* A list of parameters is read as it was written.                         *)

\* Identifier and length of a parameter
HeadOf(id, n) == [ParamID |-> id, ParamLen |-> n]
ValueOf(p) == WriteAll(ParamLayout(p.id, 0), p.value)

\* The octets of a list, without their count
ListOctets(list) == FlattenSeq([k \in DOMAIN list |-> WriteParam(list[k])])

-----------------------------------------------------------------------------
(* The further items of a report are read as they were written.            *)

\* Sequence b stands in s, behind a and in front of c.
StandsIn(X, a, b, c, s) ==
    /\ s \in Seq(X) /\ Len(s) = Len(a) + Len(b) + Len(c)
    /\ Len(a) \in Nat /\ Len(b) \in Nat /\ Len(c) \in Nat
    /\ \A j \in 1..Len(b) : s[Len(a) + j] = b[j]
    /\ SubSeq(s, Len(a) + 1, Len(a) + Len(b)) = b

\* Where the item that begins at i ends, and what is read from i on if v is read
\* from there on
ItemEnd(s, i) == i + 2 + s.mem[i + 2]
ItemsOf(panic) == [panic |-> panic, extras |-> <<>>]

ReadItem(s, h, v, i) ==
    CASE i >= s.len -> ItemsOf(FALSE)
      [] i = s.len - 1 -> ItemsOf(TRUE)
      [] i < s.len - 1 /\ (s.mem[i + 1] = 0 \/ ItemEnd(s, i) > h.BodyLength) -> ItemsOf(FALSE)
      [] OTHER -> IF ItemEnd(s, i) > Len(s.mem) THEN ItemsOf(TRUE)
                  ELSE IF s.mem[i + 1] = ExtraIdAiDSM /\ s.mem[i + 2] < SizeOf(DsmAlarm) THEN v
                  ELSE [v EXCEPT !.extras =
                          <<ExtraItem(s.mem[i + 1], SubSeq(s.mem, i + 3, ItemEnd(s, i)))>> \o @]
ItemsRead(s, h, f) == f = [i \in 0..Len(s.mem) |-> ReadItem(s, h, f[ItemEnd(s, i)], i)]

ItemTaken(s, h, v, i) ==
    ReadItem(s, h, v, i)
      = [v EXCEPT !.extras = <<ExtraItem(s.mem[i + 1], SubSeq(s.mem, i + 3, ItemEnd(s, i)))>> \o @]

\* The reading of the items from i on, for every i that is not before k
LaterItems(s, h, k, g) ==
    /\ DOMAIN g = k..Len(s.mem)
    /\ \A i \in k..Len(s.mem) : g[i] = ReadItem(s, h, g[ItemEnd(s, i)], i)
WriteItem(x) == <<x.id, Len(x.octets)>> \o x.octets
AssocFour(a, b, c, d) == a \o ((b \o c) \o d) = (a \o b) \o (c \o d)
Found(panic, es) == [panic |-> panic, extras |-> es]

\* Item x is ahead, behind a and in front of t.
ItemAhead(s, h, a, x, t) ==
    /\ a \in Seq(Octet) /\ t \in Seq(Octet) /\ HoldsExtra(x)
    /\ a \o (WriteItem(x) \o t) = s.mem
    /\ s.len \in Int /\ h.BodyLength \in Int
    /\ Len(a) + Len(WriteItem(x)) <= s.len /\ Len(a) + Len(WriteItem(x)) <= h.BodyLength
AssocFive(a, b, c, d, e) == (a \o (b \o (c \o d))) \o e = (a \o b) \o (c \o (d \o e))
HoldsExtras(extras) == extras \in Seq(Range(extras)) /\ \A x \in Range(extras) : HoldsExtra(x)
ItemOctets(extras) == [k \in DOMAIN extras |-> WriteItem(extras[k])]

\* The items are ahead, behind the fields of a report.
ItemsAhead(s, h, head, extras, rest) ==
    /\ head \in Seq(Octet) /\ Len(head) = SizeOf(Position) /\ rest \in Seq(Octet)
    /\ (head \o WriteExtras(extras)) \o rest = s.mem
    /\ h.BodyLength = Len(head \o WriteExtras(extras))
    /\ s.len \in Int /\ s.len <= Len(s.mem)
    /\ s.len = h.BodyLength \/ s.len > h.BodyLength + 1

-----------------------------------------------------------------------------
(* A message is read as it was written.                                    *)

Special == {\h0100, \h0102, \h0104, \h0200, \h8100, \h8103}

PlainLayout(id) ==
    IF id \in {\h0001, \h8001} THEN Answer
    ELSE IF id = \h1205 THEN MediaList
    ELSE IF id = \h9205 THEN MediaQuery
    ELSE <<>>

CodeHeld(version, b) ==
    /\ "AuthCode" \in DOMAIN b
    /\ version = Version2019 =>
         b.AuthCodeLen = Len(b.AuthCode) % 256 /\ {"IMEI", "SoftwareVersion"} \subseteq DOMAIN b

\* A body as written: its fields, and behind them what its list makes
Bodied(m, tail) ==
    /\ Formal(FieldsOf(m)) /\ HoldAll(FieldsOf(m), m.body)
    /\ tail \in Seq(Octet)
    /\ WriteAll(FieldsOf(m), m.body) \in Seq(Octet)
    /\ Len(WriteAll(FieldsOf(m), m.body)) = SizeOf(FieldsOf(m))
    /\ WriteBody(m) = WriteAll(FieldsOf(m), m.body) \o tail
    /\ WriteBody(m) \in Seq(Octet)

\* A reader under header h that has the body of m in front of it
Faced(m, h, s, rest) ==
    /\ h.MsgID = m.header.MsgID /\ h.VersionDesc = m.header.VersionDesc
    /\ h.BodyLength = Len(WriteBody(m))
    /\ rest \in Seq(Octet) /\ WriteBody(m) \o rest = s.mem
    /\ s.len \in Int /\ s.len <= Len(s.mem)
    /\ s.len = h.BodyLength \/ s.len > h.BodyLength + 1
Got(panic, body) == [panic |-> panic, body |-> body]

\* What the reader makes of it
ReadsMessage(m, h, s) == ReadBody(h, s) = Got(FALSE, [n \in NamesOf(m) |-> m.body[n]])

FieldsFound(m, s, tail) ==
    /\ Readable(s, FieldsOf(m))
    /\ ReadAll(s, FieldsOf(m)) = [n \in Names(FieldsOf(m)) |-> m.body[n]]
    /\ Ahead(From(s, SizeOf(FieldsOf(m))), tail)
HasList(id) == id \in {\h0104, \h8103, \h0200}

\* The layout that the reader goes by is the writer's.
SameLayout(m, h, s) == BodyLayout(h, s) = FieldsOf(m)
NamesAlone(m) == NamesOf(m) = Names(FieldsOf(m)) /\ ~HasList(m.header.MsgID)

\* A body with the record of its fields and one list behind it
WithIt(names, b, field) ==
    With([n \in names |-> b[n]], field, b[field]) = [n \in names \cup {field} |-> b[n]]

\* A message that may be sent has the fields that are written of it.
Written(m) == Writable(m) /\ NamesOf(m) \subseteq DOMAIN m.body

-----------------------------------------------------------------------------
(* Sequences of sequences, joined.                                         *)

JoinSteps(X, ps, f) ==
    /\ f \in [0..Len(ps) -> Seq(X)]
    /\ f[0] = <<>>
    /\ \A i \in 1..Len(ps) : f[i] = f[i - 1] \o ps[i]
    /\ FlattenSeq(ps) = f[Len(ps)]
FlattenedBoth(a, b, c) == FlattenSeq(c) = FlattenSeq(a) \o FlattenSeq(b)

-----------------------------------------------------------------------------
(* Frames that stuck together in one read.                                 *)

\* Octets with a boundary mark at either end
Edged(src) ==
    /\ src \in Seq(Octet) /\ Len(src) >= 2
    /\ src[1] = boundaryMark /\ src[Len(src)] = boundaryMark
Marks == <<boundaryMark, boundaryMark>>

\* Octet i of src and octet k of t are in the same case.
Alike(src, i, t, k) ==
    /\ Pair(src, i) <=> Pair(t, k)
    /\ Pair(src, i - 1) <=> Pair(t, k - 1)
    /\ src[i] = t[k]
    /\ Pair(src, i) => src[i + 1] = t[k + 1]
Undoings(src) == [i \in 1..Len(src) - 2 |-> Unescaped(src, i + 1)]

JoinedWell(a, b, c) ==
    /\ Edged(c) /\ Len(c) = Len(a) + Len(b)
    /\ \A j \in 1..Len(a) : c[j] = a[j]
    /\ \A j \in 1..Len(b) : c[Len(a) + j] = b[j]

AlikeBoth(a, b, c) ==
    /\ \A i \in 1..Len(a) - 2 : Unescaped(c, i + 1) = Unescaped(a, i + 1)
    /\ Unescaped(c, Len(a)) = <<boundaryMark>> /\ Unescaped(c, Len(a) + 1) = <<boundaryMark>>
    /\ \A i \in 1..Len(b) - 2 : Unescaped(c, Len(a) + (i + 1)) = Unescaped(b, i + 1)
OpenedBoth(a, b, c) == unescape(c) = unescape(a) \o (Marks \o unescape(b))

-----------------------------------------------------------------------------
(* The check octet makes the number of octets with a bit even, for each    *)
(* bit; the octets of several frames have that too.                        *)

Bits == {1, 2, 4, 8, 16, 32, 64, 128}
BitOf(v, bit) == (v \div bit) % 2
WithBit(s, bit) == {i \in 1..Len(s) : BitOf(s[i], bit) = 1}
Odd(s, bit) == Cardinality(WithBit(s, bit)) % 2
Even(s) == \A bit \in Bits : Odd(s, bit) = 0
Eight(a, b, c, d, e, f, g, h) == a + 2 * b + 4 * c + 8 * d + 16 * e + 32 * f + 64 * g + 128 * h

\* A slice that begins with the octets of m and ends with them, or after at least two
\* more: what is behind them is what fills up the array, or what stuck to the frame.
Carries(s, m, rest) ==
    /\ rest \in Seq(Octet) /\ Encode(m) \o rest = s.mem
    /\ s.len \in Int /\ s.len <= Len(s.mem)
    /\ s.len = Len(Encode(m)) \/ s.len > Len(Encode(m)) + 1

\* The packet that such a slice is decoded to
Decoded(p, m, rest) ==
    /\ p.err = NoError
    /\ \A n \in CommonItems \cup Carried(Measured(m).header) : p.header[n] = Measured(m).header[n]
    /\ p.header = [n \in CommonItems \cup OptionalItems |-> p.header[n]]
    /\ \A n \in OptionalItems \ Carried(Measured(m).header) : p.header[n] = 0
    /\ Faced(m, p.header, p.body, rest)

\* A header that is no part's and has nothing in it but what is written, and a message
\* of a header and a body
Headed(h) ==
    /\ h = [n \in CommonItems \cup OptionalItems |-> h[n]]
    /\ ~h.Frag /\ h.Total = 0 /\ h.Index = 0
    /\ h.VersionDesc = Version2013 => h.ProtocolVersion = 0
Paired(m) == m = [header |-> m.header, body |-> m.body]

\* A packet that a message is read from with its header and the body it had
Seen(p, m) ==
    /\ p.err = NoError /\ ~p.header.Frag
    /\ p.header = Measured(m).header
    /\ ReadBody(p.header, p.body) = Got(FALSE, [n \in NamesOf(m) |-> m.body[n]])

\* What is opened to packet t, alone or with at least two octets behind it, with each
\* bit even
Opens(src, t) ==
    /\ Edged(src) /\ unescape(src) \in Seq(Octet) /\ Even(unescape(src))
    /\ \/ unescape(src) = t
       \/ \E rest \in Seq(Octet) : Len(rest) >= 2 /\ unescape(src) = t \o rest

-----------------------------------------------------------------------------
(* What is read, and the answers to it.                                    *)

\* What is read has the type of its field.
Typed(f, v) ==
    /\ f.kind = "byte" => v \in Octet
    /\ f.kind = "word" => AWord(v)
    /\ f.kind = "bytes" => v \in Seq(Octet) /\ Len(v) = f.size
    /\ f.kind = "bcd" => v \in Seq(Digit)
    /\ f.kind = "time" => v \in Seq(Digit) /\ IsTime(v)

\* The attributes of a header, and the layout they tell
Attrs(s) == ReadAttr(ReadAll(s, HeaderStart)["Attr"])
LayoutOf(s) == HeaderLayout(Attrs(s).VersionDesc, Attrs(s).PacketFragmented = 1)
AttrItems == {"BodyLength", "Encryption", "PacketFragmented", "VersionSign", "Extra", "VersionDesc"}

\* A header as it is put together from them, of the kind of h
Made(s, h, r) ==
    /\ ~r.panic /\ r.Idx = SizeOf(LayoutOf(s))
    /\ r.header = [n \in CommonItems \cup OptionalItems |-> r.header[n]]
    /\ \A n \in AttrItems : r.header[n] = Attrs(s)[n]
    /\ r.header["Frag"] = h.Frag
    /\ \A n \in Carried(h) : r.header[n] = ReadAll(s, LayoutOf(s))[n]
    /\ \A n \in OptionalItems \ Carried(h) : r.header[n] = 0

\* What a handler puts into its answer
RegistrationOutcome(h, own) ==
    [AnswerSerialNumber |-> h.SerialNumber, Result |-> own.Result, AuthCode |-> own.AuthCode]
CodeReturned(b, own) ==
    [AuthCodeLen |-> Len(b.AuthCode) % 256, AuthCode |-> b.AuthCode,
     IMEI |-> own.IMEI, SoftwareVersion |-> own.SoftwareVersion]
SettingsTold(h, own) ==
    [AnswerSerialNumber |-> h.SerialNumber, AnswerParamCnt |-> Len(own.Parameters) % 256,
     Parameters |-> own.Parameters]
MediaFound(h, b) ==
    [AnswerSerialNumber |-> h.SerialNumber, MediaCount |-> <<0, 1>>,
     LogicChannelID |-> b.LogicChannelID, StartTime |-> b.StartTime,
     EndTime |-> b.EndTime, AlarmSign |-> <<0, 0>>, AlarmSignExt |-> <<0, 0>>,
     MediaType |-> 0, StreamType |-> 0, StorageType |-> 0, Size |-> <<0, 0>>]

\* The body of an answer names the message under header h, if it names any.
Naming(h, body) == "AnswerMessageID" \in DOMAIN body => body.AnswerMessageID = h.MsgID

\* Answer a to a message under header h can be written, and is to that message.
Replies(h, a) ==
    /\ Written(a) /\ Headed(a.header) /\ Paired(a) /\ Naming(h, a.body)
    /\ a.header.MsgID = AnswerId(h.MsgID)
    /\ a.header.PhoneNumber = h.PhoneNumber /\ a.header.SerialNumber = h.SerialNumber

\* The code of an 8100 and the parameters after an 8104 fit an answer.
CodeFits(h, b) == h.MsgID = \h8100 /\ h.VersionDesc = Version2019 => Len(b.AuthCode) < 2^8
ListFits(h, list) == h.MsgID = \h8104 => HoldsParams(list) /\ Len(WriteParams(list)) < 2^10 - 2

\* A whole message that can be answered once the parameters are list.  Its telephone
\* number is read in full: a digit F cuts it short, and what is written then is no
\* header.  A code to be returned behind its length has a length of one octet, and the
\* parameters are such as fit their fields, with a length of ten bits.
Answerable(m, list) ==
    /\ ~m.header.Frag
    /\ Len(m.header.PhoneNumber) = IF m.header.VersionDesc = Version2019 THEN 20 ELSE 12
    /\ CodeFits(m.header, m.body) /\ ListFits(m.header, list)

\* After a setting of new, what was told is about new where it is about it at all.
Follows(told, new, after) ==
    /\ DOMAIN after \subseteq DOMAIN told \cup Ids(new)
    /\ \A id \in DOMAIN after :
         /\ id \in Ids(new) => after[id] = Entry(new, id).value
         /\ id \notin Ids(new) => id \in DOMAIN told /\ after[id] = told[id]

\* Answer r, if it lists parameters, agrees with what was told (SettingsHold).
HoldsFor(r, told) ==
    r.header.MsgID = \h0104 =>
        \A id \in Ids(r.body.Parameters) \cap DOMAIN told :
           Entry(r.body.Parameters, id).value = told[id]
=============================================================================
