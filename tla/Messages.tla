------------------------------ MODULE Messages -------------------------------
(***************************************************************************)
(* Header and bodies of the messages, as octets.  A message is the record  *)
(* [header, body]; its body has the fields of its layout.  Text is its GBK *)
(* octets, a telephone number its digits.                                  *)
(***************************************************************************)
EXTENDS Parameters

Version2011 == 0
Version2013 == 1
Version2019 == 2

-----------------------------------------------------------------------------
(* The header.                                                             *)

\* The attribute word.  The length has ten bits, and nothing masks a longer one.
WriteAttr(h) ==
    (h.BodyLength + h.Encryption * 2^10 + h.PacketFragmented * 2^13
        + h.VersionSign * 2^14 + h.Extra * 2^15) % 2^16

ReadAttr(w) ==
    [BodyLength |-> w % 2^10,
     Encryption |-> (w \div 2^10) % 8,
     PacketFragmented |-> (w \div 2^13) % 2,
     VersionSign |-> (w \div 2^14) % 2,
     Extra |-> w \div 2^15,
     VersionDesc |-> IF (w \div 2^14) % 2 = 1 THEN Version2019 ELSE Version2013]

Fragment == <<Word("Total"), Word("Index")>>

HeaderLayout(version, fragmented) ==
    <<Word("MsgID"), Word("Attr")>>
    \o (IF version = Version2019
        THEN <<Byte("ProtocolVersion"), BCD("PhoneNumber", 10)>>
        ELSE <<BCD("PhoneNumber", 6)>>)
    \o <<Word("SerialNumber")>>
    \o (IF fragmented THEN Fragment ELSE <<>>)

\* A header without these items has them as zero.
OptionalItems == {"ProtocolVersion", "Total", "Index"}

ReadHeader(s) ==
    LET start == <<Word("MsgID"), Word("Attr")>>
        attr == ReadAttr(ReadAll(s, start).Attr)
        layout == HeaderLayout(attr.VersionDesc, attr.PacketFragmented = 1)
        read == ReadAll(s, layout)
        names == (DOMAIN attr \cup DOMAIN read \cup OptionalItems \cup {"Frag"}) \ {"Attr"}
    IN IF ~Readable(s, start) \/ ~Readable(s, layout)
       THEN [panic |-> TRUE]
       ELSE [panic |-> FALSE,
             header |-> [n \in names |-> CASE n = "Frag" -> attr.PacketFragmented = 1
                                           [] n \in DOMAIN attr -> attr[n]
                                           [] n \in DOMAIN read -> read[n]
                                           [] OTHER -> 0],
             Idx |-> SizeOf(layout)]

WriteHeader(h) ==
    WriteAll(HeaderLayout(h.VersionDesc, h.Frag),
             [n \in DOMAIN h \cup {"Attr"} |-> IF n = "Attr" THEN WriteAttr(h) ELSE h[n]])

VersionSign(version) == IF version = Version2019 THEN 1 ELSE 0

GenMsgHeader(d, id, serial) ==
    [MsgID |-> id, BodyLength |-> 0, Encryption |-> 0, PacketFragmented |-> 0,
     VersionSign |-> VersionSign(d.version), Extra |-> 0, VersionDesc |-> d.version,
     ProtocolVersion |-> d.protocol, PhoneNumber |-> d.phone, SerialNumber |-> serial,
     Frag |-> FALSE, Total |-> 0, Index |-> 0]

-----------------------------------------------------------------------------
(* The bodies.                                                             *)

Answer == <<Word("AnswerSerialNumber"), Word("AnswerMessageID"), Byte("Result")>>

\* Sizes of the manufacturer, the model and the terminal's own number.  No version
\* bit tells 2011 from 2013: a reader goes by the length of the body.
Sizes(version) ==
    CASE version = Version2019 -> <<11, 30, 30>>
      [] version = Version2013 -> <<5, 20, 7>>
      [] version = Version2011 -> <<5, 8, 7>>
VersionRead(h) ==
    IF h.VersionDesc = Version2013 /\ h.BodyLength - 4 <= 5 + 20 + 7 + 1
    THEN Version2011
    ELSE h.VersionDesc

Registration(sizes, rest) ==
    <<Word("ProvinceID"), Word("CityID"), Text("ManufacturerID", sizes[1]),
      Text("DeviceMode", sizes[2]), Text("DeviceID", sizes[3]), Byte("PlateColor"),
      Bytes("PlateNumber", rest)>>
RegistrationRead(h) ==
    LET sizes == Sizes(VersionRead(h)) IN
    Registration(sizes, h.BodyLength - SizeOf(Registration(sizes, 0)))

Authentication(version, n) ==
    IF version = Version2019
    THEN <<Byte("AuthCodeLen"), Bytes("AuthCode", n), F("IMEI", "fill", 15), F("SoftwareVersion", "note", 20)>>
    ELSE <<Bytes("AuthCode", n)>>
AuthenticationRead(h, s) ==
    Authentication(h.VersionDesc,
        IF h.VersionDesc # Version2019 THEN h.BodyLength ELSE IF s.len = 0 THEN 0 ELSE s.mem[1])

Position ==
    <<DoubleWord("AlarmSign"), DoubleWord("StatusSign"), DoubleWord("Latitude"), DoubleWord("Longitude"),
      Word("Altitude"), Word("Speed"), Word("Direction"), BCD("Time", 6)>>

RegistrationAnswer(rest) == <<Word("AnswerSerialNumber"), Byte("Result"), Bytes("AuthCode", rest)>>

MediaQuery ==
    <<Byte("LogicChannelID"), Time("StartTime"), Time("EndTime"), DoubleWord("AlarmSign"),
      DoubleWord("AlarmSignExt"), Byte("MediaType"), Byte("StreamType"), Byte("StorageType")>>
MediaList ==
    <<Word("AnswerSerialNumber"), DoubleWord("MediaCount")>> \o MediaQuery \o <<DoubleWord("Size")>>

ParamsAnswer == <<Word("AnswerSerialNumber"), Byte("AnswerParamCnt")>>
ParamsSetting == <<Byte("ParamCnt")>>

-----------------------------------------------------------------------------
(* The further items of a position report, each [id, octets, alarm].  Only *)
(* those of a driver monitor are taken apart.                              *)

ExtraIdAiDSM == \h65
NoAlarm == [ID |-> <<0, 0>>]

DsmAlarm ==
    <<DoubleWord("ID"), Byte("State"), Byte("Type"), Byte("Level"), Byte("FatigueLevel"),
      Bytes("Reserve", 4), Byte("Speed"), Word("Altitude"), DoubleWord("Latitude"),
      DoubleWord("Longitude"), BCD("Time", 6), Word("CarState"), Bytes("SeralNumber", 16)>>

CarState(w) ==
    LET bit(i) == (w \div 2^i) % 2 = 1 IN
    [ACC |-> bit(0), LeftLight |-> bit(1), RightLight |-> bit(2), Wiper |-> bit(3),
     Park |-> bit(4), Card |-> bit(5), Locate |-> bit(10)]

extraAiDSMDecode(octets) ==
    LET read == ReadAll(Slice(octets), DsmAlarm) IN [read EXCEPT !.CarState = CarState(@)]

ExtraItem(id, octets) ==
    [id |-> id, octets |-> octets,
     alarm |-> IF id = ExtraIdAiDSM THEN extraAiDSMDecode(octets) ELSE NoAlarm]

\* The items from each octet on.  An alarm that is too short is left out.
ReadExtras(s, h) ==
    LET id(i) == s.mem[i + 1]
        n(i) == s.mem[i + 2]
        short(i) == id(i) = ExtraIdAiDSM /\ n(i) < SizeOf(DsmAlarm)
        end(i) == i + 2 + n(i)
        none(panic) == [panic |-> panic, extras |-> <<>>]
        from[i \in 0..Len(s.mem)] ==
            CASE i >= s.len -> none(FALSE)
              [] i = s.len - 1 -> none(TRUE)
              [] i < s.len - 1 /\ (id(i) = 0 \/ end(i) > h.BodyLength) -> none(FALSE)
              [] OTHER -> IF end(i) > Len(s.mem) THEN none(TRUE)
                          ELSE IF short(i) THEN from[end(i)]
                          ELSE [from[end(i)] EXCEPT
                                  !.extras = <<ExtraItem(id(i), SubSeq(s.mem, i + 3, end(i)))>> \o @]
    IN from[SizeOf(Position)]

WriteExtras(extras) ==
    FlattenSeq([k \in DOMAIN extras |->
                  <<extras[k].id, Len(extras[k].octets)>> \o extras[k].octets])

-----------------------------------------------------------------------------
(* Whole messages.                                                         *)

\* The fields read before any list, from a body s under header h
BodyLayout(h, s) ==
    CASE h.MsgID \in {\h0001, \h8001} -> Answer
      [] h.MsgID = \h0100 -> RegistrationRead(h)
      [] h.MsgID = \h0102 -> AuthenticationRead(h, s)
      [] h.MsgID = \h0104 -> ParamsAnswer
      [] h.MsgID = \h0200 -> Position
      [] h.MsgID = \h1205 -> MediaList
      [] h.MsgID = \h8100 -> RegistrationAnswer(h.BodyLength - SizeOf(RegistrationAnswer(0)))
      [] h.MsgID = \h8103 -> ParamsSetting
      [] h.MsgID = \h9205 -> MediaQuery
      [] OTHER -> <<>>

ReadBody(h, s) ==
    LET layout == BodyLayout(h, s)
        read == ReadAll(s, layout)
        extra == ReadExtras(s, h)
        params(cnt) == ReadParams(From(s, SizeOf(layout)), cnt)
        with(p) == [panic |-> p.panic, body |-> With(read, "Parameters", p.params)]
    IN CASE ~Readable(s, layout) -> [panic |-> TRUE]
         [] Readable(s, layout) /\ h.MsgID = \h0104 -> with(params(read.AnswerParamCnt))
         [] Readable(s, layout) /\ h.MsgID = \h8103 -> with(params(read.ParamCnt))
         [] Readable(s, layout) /\ h.MsgID = \h0200 ->
                [panic |-> extra.panic, body |-> With(read, "Extra", extra.extras)]
         [] OTHER -> [panic |-> FALSE, body |-> read]

CodeMeasured(b) == With(b, "AuthCodeLen", Len(b.AuthCode) % 256)
WriteBody(m) ==
    LET h == m.header
        b == m.body
    IN CASE h.MsgID = \h0100 -> WriteAll(Registration(Sizes(h.VersionDesc), 0), b)
         [] h.MsgID = \h0102 -> WriteAll(Authentication(h.VersionDesc, 0), CodeMeasured(b))
         [] h.MsgID = \h0104 -> WriteWord(b.AnswerSerialNumber) \o WriteParams(b.Parameters)
         [] h.MsgID = \h0200 -> WriteAll(Position, b) \o WriteExtras(b.Extra)
         [] h.MsgID = \h8100 -> WriteAll(RegistrationAnswer(0), b)
         [] h.MsgID = \h8103 -> WriteParams(b.Parameters)
         [] OTHER -> WriteAll(BodyLayout(h, Slice(<<>>)), b)

\* A message as it goes out, and its octets
Measured(m) == [m EXCEPT !.header.BodyLength = Len(WriteBody(m)) % 2^16]
Encode(m) == WriteHeader(Measured(m).header) \o WriteBody(m)

-----------------------------------------------------------------------------
(* Messages that can be written down: their values fit.                    *)

CommonItems ==
    {"BodyLength", "Encryption", "PacketFragmented", "VersionSign", "Extra", "VersionDesc",
     "Frag", "MsgID", "PhoneNumber", "SerialNumber"}

\* A header of 2013 or 2019 whose items fit; no version bit tells 2011 from 2013.
Whole(h) ==
    /\ CommonItems \cup OptionalItems \subseteq DOMAIN h
    /\ h.BodyLength \in 0..2^10 - 1 /\ h.Encryption \in 0..7
    /\ h.PacketFragmented \in 0..1 /\ h.Extra \in 0..1
    /\ h.VersionDesc \in {Version2013, Version2019}
    /\ h.VersionSign = VersionSign(h.VersionDesc)
    /\ h.Frag = (h.PacketFragmented = 1)
    /\ \A n \in {"MsgID", "SerialNumber", "Total", "Index"} : AWord(h[n])
    /\ h["ProtocolVersion"] \in Octet
    /\ h["PhoneNumber"] \in Seq(Digit)
    /\ Len(h["PhoneNumber"]) = IF h.VersionDesc = Version2019 THEN 20 ELSE 12

\* The fields of a message before any list, as its sender has them
FieldsOf(m) ==
    CASE m.header.MsgID = \h0100 -> Registration(Sizes(m.header.VersionDesc), Len(m.body.PlateNumber))
      [] m.header.MsgID = \h0102 -> Authentication(m.header.VersionDesc, Len(m.body.AuthCode))
      [] m.header.MsgID = \h8100 -> RegistrationAnswer(Len(m.body.AuthCode))
      [] OTHER -> BodyLayout(m.header, Slice(<<>>))
NamesOf(m) ==
    Names(FieldsOf(m))
      \cup (IF m.header.MsgID \in {\h0104, \h8103} THEN {"Parameters"} ELSE {})
      \cup (IF m.header.MsgID = \h0200 THEN {"Extra"} ELSE {})

\* An item 0 ends the list, and a short alarm is left out of it.
HoldsExtra(x) ==
    /\ x.id \in 1..255
    /\ x.octets \in Seq(Octet) /\ Len(x.octets) < 2^8
    /\ x.id = ExtraIdAiDSM => Len(x.octets) >= SizeOf(DsmAlarm)
    /\ x = ExtraItem(x.id, x.octets)

\* The plate tells a 2013 registration from one of 2011, and a terminal returns the
\* code of an 8100 behind an octet with its length.
HoldsLists(id, h, b) ==
    /\ id = \h0100 => h.VersionDesc = Version2019 \/ b.PlateNumber # <<>>
    /\ id = \h0102 /\ h.VersionDesc = Version2019 => b.AuthCodeLen = Len(b.AuthCode)
    /\ id = \h0104 => b.AnswerParamCnt = Len(b.Parameters) /\ HoldsParams(b.Parameters)
    /\ id = \h0200 => b.Extra \in Seq(Range(b.Extra)) /\ \A x \in Range(b.Extra) : HoldsExtra(x)
    /\ id = \h8100 => Len(b.AuthCode) < 2^8
    /\ id = \h8103 => b.ParamCnt = Len(b.Parameters) /\ HoldsParams(b.Parameters)

Writable(m) ==
    /\ Whole(m.header)
    /\ HoldAll(FieldsOf(m), m.body)
    /\ HoldsLists(m.header.MsgID, m.header, m.body)
    /\ Len(WriteBody(m)) < 2^10

\* No fragment, and nothing but what is written
Exact(m) ==
    LET h == m.header IN
    /\ m = [header |-> [n \in CommonItems \cup OptionalItems |-> h[n]],
            body |-> [n \in NamesOf(m) |-> m.body[n]]]
    /\ ~h.Frag /\ h.Total = 0 /\ h.Index = 0
    /\ h.VersionDesc = Version2013 => h.ProtocolVersion = 0

-----------------------------------------------------------------------------
(* Answers.  An answer takes over the header of the message it answers,    *)
(* the serial number and the fragment included, and changes its MsgID.     *)

AnswerId(id) ==
    CASE id \in {\h0002, \h0003, \h0102, \h0200} -> \h8001
      [] id = \h0100 -> \h8100
      [] id = \h8100 -> \h0102
      [] id = \h8103 -> \h0001
      [] id = \h8104 -> \h0104
      [] id = \h9205 -> \h1205

FaultyCommonAnswer(h, result) ==
    [AnswerSerialNumber |-> h.SerialNumber, AnswerMessageID |-> AnswerId(h.MsgID), Result |-> result]
CommonAnswer(h, result) ==
    [AnswerSerialNumber |-> h.SerialNumber, AnswerMessageID |-> h.MsgID, Result |-> result]

\* Those with a field in the handler's hand take it from own.
AnswerBody(h, b, own) ==
    CASE h.MsgID \in {\h0002, \h0003, \h0200, \h8103} -> CommonAnswer(h, 0)
      [] h.MsgID = \h0102 -> CommonAnswer(h, own.Result)
      [] h.MsgID = \h0100 -> [AnswerSerialNumber |-> h.SerialNumber, Result |-> own.Result,
                               AuthCode |-> own.AuthCode]
      [] h.MsgID = \h8100 -> [AuthCodeLen |-> Len(b.AuthCode) % 256, AuthCode |-> b.AuthCode,
                               IMEI |-> own.IMEI, SoftwareVersion |-> own.SoftwareVersion]
      [] h.MsgID = \h8104 -> [AnswerSerialNumber |-> h.SerialNumber,
                               AnswerParamCnt |-> Len(own.Parameters) % 256,
                               Parameters |-> own.Parameters]
      [] h.MsgID = \h9205 -> [AnswerSerialNumber |-> h.SerialNumber, MediaCount |-> <<0, 1>>,
                               LogicChannelID |-> b.LogicChannelID, StartTime |-> b.StartTime,
                               EndTime |-> b.EndTime, AlarmSign |-> <<0, 0>>, AlarmSignExt |-> <<0, 0>>,
                               MediaType |-> 0, StreamType |-> 0, StorageType |-> 0, Size |-> <<0, 0>>]

GenOutgoing(m, own) ==
    [header |-> [m.header EXCEPT !.MsgID = AnswerId(m.header.MsgID)],
     body |-> AnswerBody(m.header, m.body, own)]
=============================================================================
