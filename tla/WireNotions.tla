----------------------------- MODULE WireNotions -----------------------------
(***************************************************************************)
(* What the proofs about Wire speak of: the inductive invariants, what it  *)
(* means that a packet meets a message, that an answer reaches the sender  *)
(* of a message, and that the parameters agree with what a terminal was    *)
(* told.  None is a part of the program.                                   *)
(***************************************************************************)
EXTENDS Wire, PacketNotions

-----------------------------------------------------------------------------
(* The stream and the frames it carries.                                   *)

Frames == [size : Nat,
           msg : {Samples[k].msg : k \in DOMAIN Samples},
           part : {Samples[k].part : k \in DOMAIN Samples}]

StreamInv ==
    /\ sent \in Seq(Frames) /\ Len(sent) <= MaxFrames
    /\ stream \in Seq(Octet)
    /\ skip \in Nat /\ Len(stream) = SizeOf(sent) - skip
    /\ skip = 0 \/ skip < Head(sent).size

-----------------------------------------------------------------------------
(* What a handler is given, and what it makes of the parameters.           *)

Packet(n) == Recv(SubSeq(stream, 1, n))

\* What the terminal keeps, and what it was told
ParamsInv == Listed(params) /\ \A id \in DOMAIN acked : Supported(id)

-----------------------------------------------------------------------------
(* The platform makes no segment cache, so nothing a fragment is decoded   *)
(* to ever gets past the question whether its message is complete.         *)

PartsInv == side = "platform" => segments = <<>> /\ NoPartHandled

-----------------------------------------------------------------------------
(* The invariant: the frames on their way account for every octet of the   *)
(* stream, and the terminal keeps supported parameters only.               *)

EndsInv == side \in Sides /\ open \in BOOLEAN
IInv == EndsInv /\ StreamInv /\ PartsInv /\ ParamsInv

-----------------------------------------------------------------------------
(* Reads that begin and end with frames.                                   *)

\* What is decoded from such a slice is the message as it was sent.
Meets(p, m) ==
    /\ p.err = NoError /\ ~p.header.Frag
    /\ ~ReadBody(p.header, p.body).panic
    /\ Message(p) = Measured(m)

\* A sample on its way, with the size that its frame has and, unless it is a fragment or
\* a body that nobody would write, a message that can be written
Clean(x) ==
    /\ x.size \in Nat /\ Content(x) \in Seq(Octet)
    /\ FrameOf(x) \in Seq(Octet) /\ x.size = Len(FrameOf(x))
    /\ x.part = <<>> => Written(x.msg) /\ Exact(x.msg)
Cleans == {x \in Frames : Clean(x)}

\* The octets of what is on its way
FramesOf(s) == [i \in DOMAIN s |-> FrameOf(s[i])]
OctetsOf(s) == FlattenSeq(FramesOf(s))

\* The stream is what is left of the frames on their way.
ContentInv ==
    /\ sent \in Seq(Cleans)
    /\ stream = Others(OctetsOf(sent), skip)

\* The first message of what a read of n octets takes away
FirstOf(n) == First(sent, Gone(skip + n))[1]
Borders(n) == skip = 0 /\ Skipped(n) = 0

Delivers(read, whole, err, msg) ==
    whole /\ read[1].part = <<>> =>
        \/ err \in {ErrMsgIDNotSupportted, ErrDeviceNotFound}
        \/ msg = Measured(read[1].msg)

-----------------------------------------------------------------------------
(* The answers, and what the terminal was told.                            *)

\* What the sender of m has of answer r
Reaches(m, r) ==
    /\ r # NoMessage /\ r.header.MsgID = AnswerId(m.header.MsgID)
    /\ r.header.PhoneNumber = m.header.PhoneNumber /\ r.header.SerialNumber = m.header.SerialNumber
    /\ Naming(m.header, r.body)
Tells(m, r) == m.header.MsgID = \h8104 => r.body.Parameters = ParamsAfter(m)

\* The parameters have the last settings, as far as they have them at all.
Agree(list, told) ==
    /\ \A id \in Ids(list) \cap DOMAIN told : Entry(list, id).value = told[id]
    /\ list = NoParams => DOMAIN told = {}

\* The last message that was read can be answered.
AnswerFits == Answerable(last.msg, params)

\* The answer r to message m reaches the peer and names it (AnswersMatch).
AnswersOf(m, r) ==
    m # NoMessage /\ ~m.header.Frag /\ m.header.MsgID \in Answered =>
        /\ r # NoMessage
        /\ r.header.PhoneNumber = m.header.PhoneNumber
        /\ r.header.SerialNumber = m.header.SerialNumber
        /\ "AnswerMessageID" \in DOMAIN r.body => r.body.AnswerMessageID = m.header.MsgID

\* Besides, it tells what the terminal was told.
AnsweredRight(m, r, told) == AnswersOf(m, r) /\ HoldsFor(r, told)

\* The parameters agree with what was acknowledged, and the last answer is right.
AnswersInv ==
    /\ Agree(params, acked)
    /\ AnswerFits => AnsweredRight(last.msg, last.answer, acked)

\* What a step notes of the message and the answer
Noted(m, r) == last'.msg = m /\ last'.answer = r
=============================================================================
