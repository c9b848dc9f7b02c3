------------------------------- MODULE MCWire --------------------------------
(* Instances of Wire for TLC: one message of each kind that the system sends. *)
EXTENDS Wire

Phone2013 == <<1, 3, 8, 0, 0, 1, 2, 3, 4, 5, 6, 7>>
Phone2019 == Zeros(8) \o Phone2013
Old == [version |-> Version2013, protocol |-> 0, phone |-> Phone2013]
New == [version |-> Version2019, protocol |-> 1, phone |-> Phone2019]

Msg(device, id, serial, body) == [header |-> GenMsgHeader(device, id, serial), body |-> body]
To(end, msg) == Sample(end, msg, <<>>)
Part(end, id, total, index, part) ==
    Sample(end,
           [header |-> [GenMsgHeader(Old, id, index) EXCEPT
                          !.PacketFragmented = 1, !.Frag = TRUE, !.BodyLength = Len(part),
                          !.Total = total, !.Index = index],
            body |-> <<>>],
           part)

Plate == <<193, 201, 66, \h7E, 49>>
Code == <<52, 50>>
Start == <<2, 4, 0, 2, 2, 9, 2, 3, 5, 9, 5, 9>>
Day == <<2, 3, 0, 6, 0, 1, 1, 2, 0, 0, 0, 0>>

MsgRegister(plate) ==
    [ProvinceID |-> 31, CityID |-> 115, ManufacturerID |-> <<65, 66>>, DeviceMode |-> <<77>>,
     DeviceID |-> <<73, 68>>, PlateColor |-> 1, PlateNumber |-> plate]
MsgAuth == [AuthCode |-> Code]
MsgAuth2019 == [AuthCodeLen |-> 2, AuthCode |-> Code, IMEI |-> Zeros(12) \o <<1, 2, 3>>, SoftwareVersion |-> <<118>>]

Alarm == [ID |-> <<0, 1>>, State |-> 1, Type |-> 1, Level |-> 2, FatigueLevel |-> 3, Reserve |-> Zeros(4),
          Speed |-> 80, Altitude |-> 12, Latitude |-> <<475, \h7D02>>, Longitude |-> <<1850, 5>>, Time |-> Day,
          CarState |-> 1025, SeralNumber |-> Zeros(15) \o <<\h7E>>]
AlarmRead == [Alarm EXCEPT !.CarState = [ACC |-> TRUE, LeftLight |-> FALSE, RightLight |-> FALSE,
                                         Wiper |-> FALSE, Park |-> FALSE, Card |-> FALSE, Locate |-> TRUE]]
MsgPosition ==
    [AlarmSign |-> <<0, 0>>, StatusSign |-> <<0, 3>>, Latitude |-> <<475, 1>>, Longitude |-> <<1850, 2>>,
     Altitude |-> 12, Speed |-> 600, Direction |-> 90, Time |-> Day,
     Extra |-> <<[id |-> 1, octets |-> <<0, 0, 0, 9>>, alarm |-> NoAlarm],
                 [id |-> ExtraIdAiDSM, octets |-> WriteAll(DsmAlarm, Alarm), alarm |-> AlarmRead]>>]

Param(id, value) == [id |-> <<0, id>>, value |-> [value |-> value]]
Interval(n) == Param(1, <<0, n>>)
Hours == Param(\h32, <<0, 9, 3, 0, 2, 1, 3, 0>>)
Analysis == Param(\h7B, <<0, 1, 0, 2>>)
Dsm == [id |-> <<0, DsmParam>>,
        value |-> [n \in {(DsmSwitches \o DsmAlarms)[k].name : k \in DOMAIN (DsmSwitches \o DsmAlarms)} |->
                     IF n \in {"AlarmEnabled", "EventEnabled"} THEN <<0, 511>> ELSE 1]]
Text83(plate) == Param(\h83, plate)
MCDefaultParams == <<Interval(9), Param(\h31, 5), Hours, Analysis, Text83(Plate)>>
Settings(list) == [ParamCnt |-> Len(list), Parameters |-> list]

Query == [LogicChannelID |-> 1, StartTime |-> Start, EndTime |-> Day, AlarmSign |-> <<0, 0>>,
          AlarmSignExt |-> <<0, 0>>, MediaType |-> 0, StreamType |-> 1, StorageType |-> 2]
Media == [AnswerSerialNumber |-> 7, MediaCount |-> <<0, 1>>, Size |-> <<1, 0>>] @@ Query

ToPlatform ==
    <<Msg(Old, \h0002, \h7D7E, <<>>), Msg(New, \h0003, 1, <<>>),
      Msg(Old, \h0001, 2, [AnswerSerialNumber |-> 9, AnswerMessageID |-> \h8103, Result |-> 0]),
      Msg(Old, \h0100, 3, MsgRegister(Plate)), Msg(New, \h0100, 3, MsgRegister(Plate)),
      Msg(Old, \h0102, 4, MsgAuth), Msg(New, \h0102, 4, MsgAuth2019),
      Msg(Old, \h0200, 5, MsgPosition), Msg(Old, \h1205, 6, Media),
      Msg(Old, \h0104, 7, [AnswerSerialNumber |-> 8, AnswerParamCnt |-> 2, Parameters |-> <<Hours, Dsm>>]),
      Msg(Old, \h0900, 8, <<>>)>>
ToTerminal ==
    <<Msg(Old, \h8001, 1, [AnswerSerialNumber |-> 9, AnswerMessageID |-> 2, Result |-> 0]),
      Msg(Old, \h8100, 2, [AnswerSerialNumber |-> 1, Result |-> 0, AuthCode |-> Code]),
      Msg(Old, \h8103, 3, Settings(<<Interval(1), Dsm, Text83(<<190, 169>>)>>)),
      Msg(Old, \h8103, 4, Settings(<<Param(\h84, 2), Interval(2)>>)),
      Msg(New, \h8104, 5, <<>>), Msg(Old, \h9205, 6, Query)>>
\* The second part of the setting has the form of a setting itself.
Parts == <<Part("platform", \h0104, 2, 1, <<0, 8, 1, 0>>), Part("platform", \h0104, 2, 2, <<0, 0, 0>>),
           Part("terminal", \h8103, 2, 1, <<2, 0>>), Part("terminal", \h8103, 2, 2, <<1, 0, 0, 0, 1, 4, 0, 0, 0, 7>>)>>

\* A setting that no platform of this kind sends: its second parameter has no codec.
Malformed == LET octets == <<2, 0, 0, 0, 1, 4, 0, 0, 0, 8, 0, 0, 0, 8, 4, 0, 0, 0, 1>> IN
    Sample("terminal",
           [header |-> [GenMsgHeader(Old, \h8103, 7) EXCEPT !.BodyLength = Len(octets)], body |-> <<>>],
           octets)

MCSamples ==
    [i \in DOMAIN ToPlatform |-> To("platform", ToPlatform[i])] \o Parts \o <<Malformed>>
    \o [i \in DOMAIN ToTerminal |-> To("terminal", ToTerminal[i])]

MCOwnFields ==
    [id \in {\h0100, \h0102, \h8100} |->
       CASE id = \h0100 -> {[Result |-> r, AuthCode |-> Code] : r \in {0, 3}}
         [] id = \h0102 -> {[Result |-> r] : r \in {0, 1}}
         [] id = \h8100 -> {[IMEI |-> Zeros(15), SoftwareVersion |-> <<118>>]}]
=============================================================================
