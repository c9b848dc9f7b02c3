-------------------------------- MODULE Wire ---------------------------------
(***************************************************************************)
(* One end of a connection as the pipeline sees it: frames come in as a    *)
(* stream of octets, a read returns any part of what has come, and each    *)
(* read is taken for one frame, decoded, handled and answered.             *)
(*                                                                         *)
(* side is the end that reads, the platform or the terminal; both run the  *)
(* same pipeline.  What the handlers do to the devices is in Devices and   *)
(* Terminal: here a handler finds its device or not.  The terminal's       *)
(* parameters are here, because 8103 and 8104 carry them.                  *)
(***************************************************************************)
EXTENDS Packets

CONSTANTS
    Samples,        \* sequence of what may be sent, each a Sample
    OwnFields,      \* what a handler may put into an answer, by MsgID
    DefaultParams,  \* the parameters of a terminal that was never set any
    SplitAt,        \* where in a frame a read may end, besides its end
    MaxFrames       \* frames on their way

Sides == {"platform", "terminal"}
MaxFrameLen == 2 + 21 + 1023 * 2 + 1 + 2
NoParams == <<>>
NoMessage == [header |-> [MsgID |-> 0], body |-> <<>>]

\* A sample is a whole message, or one whose body is given as octets: a fragment, or a
\* body that nobody here would write.
Sample(to, msg, part) == [to |-> to, msg |-> msg, part |-> part]

Content(s) == IF s.part = <<>> THEN Encode(s.msg) ELSE WriteHeader(s.msg.header) \o s.part
FrameOf(s) == escape(genVerifier(Content(s)))

ASSUME BoundsAssumption == MaxFrames \in Nat
ASSUME SamplesAssumption == \A k \in DOMAIN Samples : Content(Samples[k]) \in Seq(Octet)
ASSUME WholesAssumption ==
    \A k \in DOMAIN Samples :
        Samples[k].part = <<>> => Writable(Samples[k].msg) /\ Exact(Samples[k].msg)
\* A code is printed from a hash (genAuthCode), a result is an octet, and a terminal is made
\* with an IMEI of 15 digits and a version of 19 octets (GenDevice).
ASSUME OwnAssumption ==
    /\ DOMAIN OwnFields = {\h0100, \h0102, \h8100}
    /\ \A own \in OwnFields[\h0100] : own.Result \in Octet /\ own.AuthCode \in Seq(Octet) /\ Len(own.AuthCode) < 2^8
    /\ \A own \in OwnFields[\h0102] : own.Result \in Octet
    /\ \A own \in OwnFields[\h8100] :
         Holds(F("IMEI", "fill", 15), own.IMEI) /\ Holds(F("SoftwareVersion", "note", 20), own.SoftwareVersion)
ASSUME DefaultsAssumption ==
    /\ DefaultParams \in Seq(Range(DefaultParams))
    /\ \A p \in Range(DefaultParams) : Supported(p.id)

VARIABLES
    side,      \* the end that reads
    open,      \* the reader is running
    stream,    \* octets sent and not read
    sent,      \* the samples they carry, each with the size of its frame
    skip,      \* octets of the first of them that have been read
    segments,  \* the segment cache: key |-> Total of the fragment that came first
    params,    \* the terminal's parameters
    acked,     \* history: the last settings, if acknowledged, by id
    last       \* history: the last read

vars == <<side, open, stream, sent, skip, segments, params, acked, last>>

Nothing == [read |-> <<>>, whole |-> FALSE, err |-> "", msg |-> NoMessage, answer |-> NoMessage]

Init ==
    /\ side \in Sides
    /\ open = TRUE
    /\ stream = <<>>
    /\ sent = <<>>
    /\ skip = 0
    /\ segments = <<>>
    /\ params = NoParams
    /\ acked = <<>>
    /\ last = Nothing

-----------------------------------------------------------------------------
(* Handling one read.                                                      *)

ErrFrameReadEmpty == "read empty frame"
ErrMsgIDNotSupportted == "message not supported"
ErrDeviceNotFound == "device not found"   \* at the terminal ErrActiveClose

Processed == {\h0001, \h0002, \h0003, \h0100, \h0102, \h0104, \h0200, \h1205,
              \h8001, \h8100, \h8103, \h8104, \h9205}
NeedDevice == {\h0001, \h0002, \h0003, \h0102, \h0104, \h0200, \h8001, \h8100}
Answered == {\h0002, \h0003, \h0100, \h0102, \h0200, \h8100, \h8103, \h8104, \h9205}

Recv(octets) ==
    IF TrimZeros(octets) = <<>> THEN [err |-> ErrFrameReadEmpty] ELSE DecodePacket(TrimZeros(octets))

(* The segment cache is made under the once of the session cache, which     *)
(* accept has used up at the platform.  Where there is a cache, the first   *)
(* fragment of a key goes in and the nil found before it is asked whether   *)
(* it is complete; a later one goes on with its own part alone.             *)
FaultySegmentCacheMade(s) == s \in Sides
SegmentCacheMade(s) == s = "terminal"
Key(h) == <<h.PhoneNumber, h.MsgID>>
Caches(h) == h.Frag /\ SegmentCacheMade(side)
Completed(h) == Caches(h) /\ Key(h) \in DOMAIN segments /\ h.Index = segments[Key(h)]

\* What becomes of a packet before a handler has it.  A fragment that completes
\* nothing is answered with the number of the device's session, and a terminal keeps
\* no sessions.
Early(p) ==
    CASE p.err # "" -> p.err
      [] p.err = "" /\ p.header.Frag /\ ~(Caches(p.header) /\ Key(p.header) \in DOMAIN segments) -> Panic
      [] p.err = "" /\ p.header.MsgID \notin Processed -> ErrMsgIDNotSupportted
      [] p.err = "" /\ p.header.Frag /\ ~Completed(p.header) -> Panic
      [] OTHER -> IF ReadBody(p.header, p.body).panic THEN Panic ELSE ""

Message(p) == [header |-> p.header, body |-> ReadBody(p.header, p.body).body]

ParamsAfter(m) ==
    CASE m.header.MsgID = \h8103 ->
           IF params = NoParams THEN m.body.Parameters ELSE Update(params, m.body.Parameters)
      [] m.header.MsgID = \h8104 -> IF params = NoParams THEN DefaultParams ELSE params
      [] OTHER -> params

\* The answers a handler may give, as the sender of the message decodes them
Own(m) ==
    CASE m.header.MsgID = \h8104 -> {[Parameters |-> ParamsAfter(m)]}
      [] m.header.MsgID \in DOMAIN OwnFields -> OwnFields[m.header.MsgID]
      [] OTHER -> {<<>>}
Meant(p) == IF Early(p) = "" THEN Message(p) ELSE NoMessage
Received(m) == Meant(DecodePacket(EncodePacket(m)))
Answers(m) ==
    IF m.header.MsgID \in Answered THEN {Received(GenOutgoing(m, own)) : own \in Own(m)} ELSE {NoMessage}

\* What the last setting of each parameter was, unless its answer did not arrive
Acknowledged(m, answer) ==
    LET list == m.body.Parameters IN
    CASE m.header.MsgID # \h8103 -> acked
      [] m.header.MsgID = \h8103 /\ answer # NoMessage ->
             [id \in DOMAIN acked \cup Ids(list) |->
                IF id \in Ids(list) THEN Entry(list, id).value ELSE acked[id]]
      [] OTHER -> [id \in DOMAIN acked \ Ids(list) |-> acked[id]]

-----------------------------------------------------------------------------
(* The steps.                                                              *)

\* The peer sends a message.
Send(s) ==
    LET frame == FrameOf(s) IN
    /\ open
    /\ s.to = side
    /\ Len(sent) < MaxFrames
    /\ stream' = stream \o frame
    /\ sent' = Append(sent, [size |-> Len(frame), msg |-> s.msg, part |-> s.part])
    /\ last' = Nothing
    /\ UNCHANGED <<side, open, skip, segments, params, acked>>

\* Frames wholly read once n octets from the first of them on are
Gone(n) == Cardinality({i \in DOMAIN sent : SizeOf(SubSeq(sent, 1, i)) <= n})

\* A read takes n octets off the stream; afterwards skip' of the first frame are read.
Skipped(n) == (skip + n) - SizeOf(SubSeq(sent, 1, Gone(skip + n)))
Take(n) ==
    /\ stream' = SubSeq(stream, n + 1, Len(stream))
    /\ sent' = SubSeq(sent, Gone(skip + n) + 1, Len(sent))
    /\ skip' = Skipped(n)
    /\ open' = open
\* The reader ends, and what is left of the stream is lost.
Leave ==
    /\ stream' = <<>>
    /\ sent' = <<>>
    /\ skip' = 0
    /\ open' = FALSE
Record(n, err, msg, answer) ==
    last' = [read |-> SubSeq(sent, 1, Gone(skip + n)),
             whole |-> skip = 0 /\ Skipped(n) = 0,
             err |-> err, msg |-> msg, answer |-> answer]

\* The reader sleeps for a second and goes on.
Drop(n, early) ==
    /\ early \notin {"", Panic}
    /\ Take(n)
    /\ Record(n, early, NoMessage, NoMessage)
    /\ UNCHANGED <<side, segments, params, acked>>

\* The reader panics.  Its goroutine recovers and ends, the platform's closes the connection.
Break(n, p, early) ==
    /\ early = Panic
    /\ segments' = IF p.err = "" /\ Caches(p.header) THEN segments @@ (Key(p.header) :> p.header.Total)
                                                    ELSE segments
    /\ Leave
    /\ Record(n, Panic, NoMessage, NoMessage)
    /\ UNCHANGED <<side, params, acked>>

\* A fragment that completes nothing, from a telephone number without a device
Stray(n, p, early) ==
    /\ early = Panic /\ p.err = ""
    /\ Caches(p.header) /\ Key(p.header) \in DOMAIN segments /\ ~Completed(p.header)
    /\ Take(n)
    /\ Record(n, ErrDeviceNotFound, NoMessage, NoMessage)
    /\ UNCHANGED <<side, segments, params, acked>>

\* The handler does not find its device, and the reader ends.
Refuse(n, m) ==
    /\ m.header.MsgID \in NeedDevice
    /\ m.header.MsgID = \h8001 => m.body.Result = 0
    /\ Leave
    /\ Record(n, ErrDeviceNotFound, NoMessage, NoMessage)
    /\ UNCHANGED <<side, segments, params, acked>>

Handle(n, m) ==
    /\ Take(n)
    /\ params' = ParamsAfter(m)
    /\ \E answer \in Answers(m) :
         /\ acked' = Acknowledged(m, answer)
         /\ Record(n, "", m, answer)
    /\ UNCHANGED <<side, segments>>

ReadStream(n) ==
    /\ open
    /\ \E p \in {Recv(SubSeq(stream, 1, n))} : \E early \in {Early(p)} :
         \/ Drop(n, early) \/ Break(n, p, early) \/ Stray(n, p, early)
         \/ /\ early = ""
            /\ \E m \in {Message(p)} : Refuse(n, m) \/ Handle(n, m)

\* The peer closes the connection.  Its process goes on, and so does this one.
Close ==
    /\ open
    /\ Leave
    /\ last' = Nothing
    /\ UNCHANGED <<side, segments, params, acked>>

Reconnect ==
    /\ ~open
    /\ open' = TRUE
    /\ last' = Nothing
    /\ UNCHANGED <<side, stream, sent, skip, segments, params, acked>>

ReadSizes == {n \in 1..Len(stream) : n <= MaxFrameLen /\ Skipped(n) \in SplitAt \cup {0}}

Next ==
    \/ \E k \in DOMAIN Samples : Send(Samples[k])
    \/ \E n \in ReadSizes : ReadStream(n)
    \/ Close
    \/ Reconnect

Spec == Init /\ [][Next]_vars

-----------------------------------------------------------------------------
(* Properties.                                                             *)

Handled == last.msg # NoMessage

\* Whatever is read, the reader's state stays in range: the rest of a frame is
\* shorter than the frame, the platform's segment cache is never made, and only
\* supported parameters are stored.
TypeOK ==
    /\ side \in Sides
    /\ open \in BOOLEAN
    /\ Len(sent) <= MaxFrames /\ Len(stream) = SizeOf(sent) - skip
    /\ skip = 0 \/ skip < Head(sent).size
    /\ side = "platform" => segments = <<>>
    /\ \A id \in Ids(params) \cup DOMAIN acked : Supported(id)

\* A read that begins and ends with frames, even with several that stuck together,
\* gives the handler the first message exactly as the peer meant it, unless it is of
\* no known kind or from no known device: escaping, check octet, header, body and the
\* spare capacity of the slice change nothing and make nothing fail (FrameHandler.Recv,
\* PacketCodec, the Encode and Decode of every message).
BordersDeliver ==
    last.whole /\ last.read[1].part = <<>> =>
        \/ last.err \in {ErrMsgIDNotSupportted, ErrDeviceNotFound}
        \/ last.msg = Measured(last.read[1].msg)

\* The answer to a whole message reaches the peer and names it: its serial number,
\* and in a common answer its MsgID, although GenOutgoing overwrites the MsgID in
\* the header it shares with the incoming message.
AnswersMatch ==
    Handled /\ ~last.msg.header.Frag /\ last.msg.header.MsgID \in Answered =>
        /\ last.answer # NoMessage
        /\ last.answer.header.PhoneNumber = last.msg.header.PhoneNumber
        /\ last.answer.header.SerialNumber = last.msg.header.SerialNumber
        /\ "AnswerMessageID" \in DOMAIN last.answer.body =>
             last.answer.body.AnswerMessageID = last.msg.header.MsgID

\* At the platform no handler takes one part of a message for the whole
\* (CacheSegment, PacketCodec.Decode).
NoPartHandled ==
    side = "platform" => ~(Handled /\ last.msg.header.Frag)

\* What a terminal answers to a query agrees with the last setting of each parameter,
\* if that was acknowledged and as far as the terminal stores that parameter at all
\* (DeviceParams.Update, processMsg8103, processMsg8104).
SettingsHold ==
    last.answer.header.MsgID = \h0104 =>
        LET listed == last.answer.body.Parameters IN
        \A id \in Ids(listed) \cap DOMAIN acked : Entry(listed, id).value = acked[id]

\* Once a terminal has a list of parameters, no setting adds one to it or takes one
\* away (DeviceParams.Update).
ParamsKept == [][params # NoParams => Ids(params') = Ids(params)]_vars
=============================================================================
