----------------------------- MODULE WireProofs ------------------------------
(***************************************************************************)
(* What Wire promises for every set of messages, every way to cut the      *)
(* stream into reads and every answer of the handlers: its state stays in  *)
(* range, no part of a message is handled, no setting adds a parameter or  *)
(* takes one away, and a read that begins and ends with frames delivers    *)
(* the first message as it was sent.                                       *)
(*                                                                         *)
(* What a packet is read to has the types of its fields, so it can be      *)
(* written again; hence the answer that is made of it can be written, and  *)
(* the peer reads it as it was meant.  The answer to 8104 tells the        *)
(* parameters, and these agree with the settings that were acknowledged.   *)
(***************************************************************************)
EXTENDS WireNotions, PacketProofs

-----------------------------------------------------------------------------
(* The stream and the frames it carries.                                   *)

LEMMA FrameTyped ==
    ASSUME NEW k \in DOMAIN Samples
    PROVE  FrameOf(Samples[k]) \in Seq(Octet)
<1> DEFINE t == genVerifier(Content(Samples[k]))
<1>1. t \in Seq(Octet)
  BY SamplesAssumption, CheckIsVerified
<1>2. FrameOf(Samples[k]) = escape(t)
  BY DEF FrameOf
<1> HIDE DEF t
<1>3. PICK f : EscapeSteps(t, f) /\ escape(t) = Framed(f[Len(t)])
  BY <1>1, Escaping
<1>4. f[Len(t)] \in Seq(Octet)
  BY <1>1, <1>3, LenProperties DEF EscapeSteps
<1> DEFINE e == f[Len(t)]
<1> HIDE DEF e
<1>5. Framed(e) \in Seq(Octet)
  BY <1>4, Between DEF e
<1> QED
  BY <1>2, <1>3, <1>5 DEF e

LEMMA SendKeeps ==
    ASSUME StreamInv, NEW k \in DOMAIN Samples, Send(Samples[k])
    PROVE  StreamInv'
<1> DEFINE frame == FrameOf(Samples[k])
           f == [size |-> Len(frame), msg |-> Samples[k].msg, part |-> Samples[k].part]
           s == sent
           t == <<f>>
<1>1. /\ Len(sent) < MaxFrames
      /\ stream' = stream \o frame
      /\ sent' = Append(sent, f)
      /\ skip' = skip
  BY DEF Send
<1>2. frame \in Seq(Octet) /\ Len(frame) \in Nat
  BY FrameTyped, LenProperties
<1> HIDE DEF frame
<1>3. f \in Frames /\ f.size = Len(frame) /\ Len(frame) \in Nat
  BY <1>2 DEF Frames
<1>4. \A x \in Frames : x.size \in Nat
  BY DEF Frames
<1> HIDE DEF f
<1>5. s \in Seq(Frames) /\ t \in Seq(Frames) /\ sent' = s \o t
  BY <1>1, <1>3 DEF StreamInv
<1>6. SizeOf(t) = Len(frame)
  BY <1>3, SizeOne
<1>7. sent' \in Seq(Frames) /\ Len(sent') = Len(sent) + 1 /\ (sent # <<>> => Head(sent') = Head(sent))
  BY <1>1, <1>3 DEF StreamInv
<1> HIDE DEF s, t
<1>8. SizeOf(sent') = SizeOf(sent) + Len(frame) /\ SizeOf(sent) \in Nat
  <2>1. SizeOf(s \o t) = SizeOf(s) + SizeOf(t) /\ SizeOf(s) \in Nat
    BY <1>4, <1>5, SizeBehind
  <2> QED
    BY <1>5, <1>6, <2>1 DEF s
<1>9. stream' \in Seq(Octet) /\ Len(stream') = Len(stream) + Len(frame)
  <2>1. stream \in Seq(Octet) /\ stream' = stream \o frame
    BY <1>1 DEF StreamInv
  <2> QED
    BY <1>2, <2>1
<1>10. Len(sent') <= MaxFrames
  BY <1>1, <1>7, BoundsAssumption, LenProperties DEF StreamInv
<1>11. Len(stream') = SizeOf(sent') - skip'
  BY <1>1, <1>3, <1>8, <1>9 DEF StreamInv
<1>12. skip' = 0 \/ skip' < Head(sent').size
  <2>1. CASE sent # <<>>
    BY <1>1, <1>7, <2>1 DEF StreamInv
  <2>2. CASE sent = <<>>
    <3>1. SizeOf(sent) = 0
      BY <2>2, SizeEmpty
    <3>2. Len(stream) \in Nat /\ skip \in Nat /\ Len(stream) = SizeOf(sent) - skip
      BY LenProperties DEF StreamInv
    <3> QED
      BY <1>1, <3>1, <3>2
  <2> QED
    BY <2>1, <2>2
<1> QED
  BY <1>1, <1>7, <1>9, <1>10, <1>11, <1>12 DEF StreamInv

LEMMA TakeKeeps ==
    ASSUME StreamInv, NEW n \in 1..Len(stream), Take(n)
    PROVE  StreamInv'
<1> DEFINE s == sent
           m == skip + n
           g == Gone(m)
           r == Others(s, g)
           b == Others(stream, n)
<1>1. /\ s \in Seq(Frames) /\ \A x \in Frames : x.size \in Nat
      /\ Len(stream) \in Nat /\ Len(s) \in Nat /\ n \in Nat /\ skip \in Nat /\ stream \in Seq(Octet)
  BY LenProperties DEF StreamInv, Frames
<1>2. m \in Nat /\ m <= SizeOf(s) /\ Len(stream) = SizeOf(s) - skip /\ SizeOf(s) \in Nat
  <2>1. SizeOf(s) \in Nat
    BY <1>1, SizeBehind
  <2>2. Len(stream) = SizeOf(s) - skip
    BY DEF StreamInv
  <2> QED
    BY <1>1, <2>1, <2>2
<1>3. /\ g \in 0..Len(s)
      /\ Upto(s, g) <= m
      /\ g < Len(s) => m < Upto(s, g + 1)
  <2>1. Cardinality({i \in DOMAIN s : SizeOf(SubSeq(s, 1, i)) <= m}) = g
    BY DEF Gone
  <2> HIDE DEF s, m, g
  <2> QED
    BY <1>1, <1>2, <2>1, GoneIs
<1>4. /\ stream' = b
      /\ sent' = r
      /\ skip' = m - Upto(s, g)
  <2>1. /\ stream' = SubSeq(stream, n + 1, Len(stream))
        /\ sent' = SubSeq(sent, Gone(skip + n) + 1, Len(sent))
        /\ skip' = (skip + n) - SizeOf(SubSeq(sent, 1, Gone(skip + n)))
    BY DEF Take, Skipped
  <2>2. b = SubSeq(stream, n + 1, Len(stream)) /\ r = SubSeq(sent, Gone(skip + n) + 1, Len(sent))
    BY DEF Others
  <2>3. Upto(s, g) = SizeOf(SubSeq(sent, 1, Gone(skip + n)))
    BY DEF Upto, First
  <2>4. skip + n = m
    OBVIOUS
  <2> HIDE DEF s, m, g, r, b
  <2>5. skip' = m - Upto(s, g)
    BY <2>1, <2>3, <2>4, Zenon
  <2> QED
    BY <2>1, <2>2, <2>5, Zenon
<1> HIDE DEF g, m, s
<1>5. /\ r \in Seq(Frames) /\ Len(r) = Len(s) - g
      /\ g < Len(s) => Head(r) = s[g + 1]
  BY <1>1, <1>3, Split
<1>6. b \in Seq(Octet) /\ Len(b) = Len(stream) - n
  <2>1. n \in 0..Len(stream)
    OBVIOUS
  <2> QED
    BY <1>1, <2>1, Split
<1>7. /\ Upto(s, Len(s)) = SizeOf(s)
      /\ Upto(s, g) \in Nat /\ SizeOf(r) \in Nat
      /\ SizeOf(s) = Upto(s, g) + SizeOf(r)
      /\ g < Len(s) => Upto(s, g + 1) = Upto(s, g) + s[g + 1].size
  <2>1. g < Len(s) => g + 1 \in 1..Len(s) /\ (g + 1) - 1 = g
    BY <1>1, <1>3
  <2>2. /\ Upto(s, Len(s)) = SizeOf(s)
        /\ \A i \in 0..Len(s) :
                 /\ Upto(s, i) \in Nat
                 /\ SizeOf(Others(s, i)) \in Nat
                 /\ SizeOf(s) = Upto(s, i) + SizeOf(Others(s, i))
        /\ \A i \in 1..Len(s) : Upto(s, i) = Upto(s, i - 1) + s[i].size
    BY <1>1, UptoFacts, Zenon
  <2> QED
    BY <1>3, <2>1, <2>2
<1> HIDE DEF r, b
<1>8. skip' \in Nat /\ Len(stream') = SizeOf(sent') - skip'
  <2>1. Len(b) = SizeOf(r) - (m - Upto(s, g))
    BY <1>1, <1>2, <1>6, <1>7 DEF m
  <2> QED
    BY <1>2, <1>3, <1>4, <1>7, <2>1
<1>9. skip' = 0 \/ skip' < Head(sent').size
  <2>1. CASE g < Len(s)
    <3>1. s[g + 1].size \in Nat
      <4>1. g + 1 \in 1..Len(s)
        BY <1>1, <1>3, <2>1
      <4> QED
        BY <1>1, <4>1, ElementOfSeq
    <3> QED
      BY <1>2, <1>3, <1>4, <1>5, <1>7, <2>1, <3>1
  <2>2. CASE ~(g < Len(s))
    <3>1. g = Len(s)
      BY <1>1, <1>3, <2>2
    <3>2. m - Upto(s, g) = 0
      BY <1>2, <1>3, <1>7, <3>1
    <3> QED
      BY <1>4, <3>2
  <2> QED
    BY <2>1, <2>2
<1>10. Len(sent') <= MaxFrames
  <2>1. Len(s) <= MaxFrames
    BY DEF StreamInv, s
  <2>2. Len(r) = Len(s) - g
    BY <1>5
  <2> QED
    BY <1>1, <1>3, <1>4, <2>1, <2>2, BoundsAssumption
<1> QED
  BY <1>4, <1>5, <1>6, <1>8, <1>9, <1>10 DEF StreamInv

LEMMA LeaveKeeps == Leave => StreamInv'
<1>1. ASSUME Leave PROVE StreamInv'
  <2>1. stream' = <<>> /\ sent' = <<>> /\ skip' = 0
    BY <1>1 DEF Leave
  <2>2. SizeOf(<<>>) = 0
    BY SizeEmpty
  <2>3. Len(sent') = 0 /\ Len(stream') = 0 /\ sent' \in Seq(Frames) /\ stream' \in Seq(Octet)
    BY <2>1
  <2>4. Len(stream') = SizeOf(sent') - skip'
    BY <2>1, <2>2, <2>3
  <2> QED
    BY <2>1, <2>3, <2>4, BoundsAssumption DEF StreamInv
<1> QED
  BY <1>1

-----------------------------------------------------------------------------
(* What a handler is given, and what it makes of the parameters.           *)

\* What is read is no longer than the reader's buffer, and so than the longest array
\* (FrameHandler.Recv).
LEMMA ReadFrom ==
    ASSUME NEW octets \in Seq(Octet), Len(octets) <= LongestArray, Recv(octets).err = NoError
    PROVE  /\ Body(Recv(octets).body)
           /\ \E s : Body(s) /\ ~ReadHeader(s).panic /\ ReadHeader(s).header = Recv(octets).header
<1> DEFINE t == TrimZeros(octets)
           p == Recv(octets)
<1>1. t \in Seq(Octet) /\ Len(t) <= Len(octets)
  BY TrimTyped
<1>2. p = IF t = <<>> THEN [err |-> ErrFrameReadEmpty] ELSE DecodePacket(t)
  BY Zenon DEF Recv
<1>3. p.err = NoError
  OBVIOUS
<1> HIDE DEF t, p
<1>4. Len(t) <= LongestArray
  BY <1>1, LenProperties DEF LongestArray
<1>5. p = DecodePacket(t)
  <2>1. ErrFrameReadEmpty # NoError
    BY Zenon DEF ErrFrameReadEmpty, NoError
  <2> QED BY <1>2, <1>3, <2>1
<1>6. PICK s : Body(s) /\ p = DecodeVerified(s)
  BY <1>1, <1>3, <1>4, <1>5, PacketFrom
<1>7. ~ReadHeader(s).panic /\ DecodeVerified(s).header = ReadHeader(s).header /\ Body(DecodeVerified(s).body)
  BY <1>3, <1>6, VerifiedIs
<1> QED BY <1>6, <1>7 DEF p

LEMMA EarlyGood ==
    ASSUME NEW p, Early(p) = NoError
    PROVE  p.err = NoError /\ ~ReadBody(p.header, p.body).panic
<1>1. Panic # NoError /\ ErrMsgIDNotSupportted # NoError
  BY Zenon DEF Panic, ErrMsgIDNotSupportted, NoError
<1>2. p.err = NoError
  BY Zenon DEF Early, NoError
<1>3. ASSUME ReadBody(p.header, p.body).panic PROVE FALSE
  <2>1. Early(p) = Panic \/ Early(p) = ErrMsgIDNotSupportted
    BY <1>2, <1>3, Zenon DEF Early, NoError
  <2> QED
    BY <1>1, <2>1, Zenon
<1> QED
  BY <1>2, <1>3, Zenon

LEMMA DefaultsListed == Listed(DefaultParams)
BY DefaultsAssumption, Zenon DEF Listed

\* The setting a handler is given is a list of parameters.
LEMMA SettingGiven ==
    ASSUME StreamInv, NEW n \in ReadSizes, Early(Packet(n)) = NoError, NEW m, Message(Packet(n)) = m,
           IsSetting(m.header)
    PROVE  Listed(m.body.Parameters)
<1> DEFINE p == Packet(n)
           octets == First(stream, n)
<1>1. n \in 1..Len(stream) /\ n <= MaxFrameLen
  BY DEF ReadSizes
<1>2. octets \in Seq(Octet) /\ Len(octets) <= LongestArray
  <2>1. n \in 0..Len(stream) /\ stream \in Seq(Octet)
    BY <1>1, LenProperties DEF StreamInv
  <2>2. octets \in Seq(Octet) /\ Len(octets) = n
    BY <2>1, Split
  <2> QED BY <1>1, <2>2 DEF MaxFrameLen, LongestArray
<1>3. p = Recv(octets) /\ p.header = m.header /\ ReadBody(p.header, p.body).body = m.body
  <2>1. p = Recv(octets)
    BY Zenon DEF Packet, First
  <2> HIDE DEF octets, p
  <2>2. m = [header |-> p.header, body |-> ReadBody(p.header, p.body).body]
    BY Zenon DEF Message, p
  <2> QED BY <2>1, <2>2
<1>4. p.err = NoError /\ ~ReadBody(p.header, p.body).panic
  BY EarlyGood, Zenon
<1> HIDE DEF p, octets
<1>5. Body(p.body)
  BY <1>2, <1>3, <1>4, ReadFrom
<1>6. IsSetting(p.header)
  BY <1>3
<1>7. Listed(ReadBody(p.header, p.body).body.Parameters)
  BY <1>4, <1>5, <1>6, SettingListed
<1> QED BY <1>3, <1>7

LEMMA HandleKeeps ==
    ASSUME StreamInv, ParamsInv, NEW n \in ReadSizes, Early(Packet(n)) = NoError,
           Handle(n, Message(Packet(n)))
    PROVE  ParamsInv' /\ (params # NoParams => Ids(params') = Ids(params))
<1> DEFINE m == Message(Packet(n))
           new == m.body.Parameters
           id0 == m.header.MsgID
<1>1. params' = ParamsAfter(m) /\ \E answer : acked' = Acknowledged(m, answer)
  BY Zenon DEF Handle
<1>2. PICK answer : acked' = Acknowledged(m, answer)
  BY <1>1
<1>3. id0 = \h8103 => Listed(new)
  BY SettingGiven DEF IsSetting
<1> HIDE DEF m
<1>4. params' = CASE id0 = \h8103 -> IF params = NoParams THEN new ELSE Update(params, new)
                  [] id0 = \h8104 -> IF params = NoParams THEN DefaultParams ELSE params
                  [] OTHER -> params
  BY <1>1 DEF ParamsAfter
<1>5. acked' = CASE id0 # \h8103 -> acked
                 [] id0 = \h8103 /\ answer # NoMessage ->
                      [id \in DOMAIN acked \cup Ids(new) |->
                         IF id \in Ids(new) THEN Entry(new, id).value ELSE acked[id]]
                 [] OTHER -> [id \in DOMAIN acked \ Ids(new) |-> acked[id]]
  BY <1>2 DEF Acknowledged
<1> HIDE DEF new, id0
<1>6. CASE id0 = \h8103
  <2>1. Listed(params) /\ Listed(new)
    BY <1>3, <1>6 DEF ParamsInv
  <2>2. Listed(Update(params, new)) /\ Ids(Update(params, new)) = Ids(params)
    BY <2>1, UpdateMerges
  <2>3. params' = IF params = NoParams THEN new ELSE Update(params, new)
    BY <1>4, <1>6
  <2>4. Ids(new) \in SUBSET SupportedIds
    BY <2>1, ListedIs
  <2>5. DOMAIN acked' \subseteq DOMAIN acked \cup Ids(new)
    <3>1. \/ acked' = [id \in DOMAIN acked \cup Ids(new) |->
                         IF id \in Ids(new) THEN Entry(new, id).value ELSE acked[id]]
          \/ acked' = [id \in DOMAIN acked \ Ids(new) |-> acked[id]]
      BY <1>5, <1>6
    <3> QED
      BY <3>1
  <2>6. \A id \in DOMAIN acked' : Supported(id)
    BY <2>4, <2>5 DEF ParamsInv, Supported
  <2>7. Listed(params')
    BY <2>1, <2>2, <2>3
  <2> QED
    BY <2>2, <2>3, <2>6, <2>7 DEF ParamsInv
<1>7. CASE id0 # \h8103
  <2>1. acked' = acked
    BY <1>5, <1>7
  <2>2. params' = params \/ (params = NoParams /\ params' = DefaultParams)
    BY <1>4, <1>7
  <2> QED
    BY <2>1, <2>2, DefaultsListed DEF ParamsInv
<1> QED
  BY <1>6, <1>7

-----------------------------------------------------------------------------
(* Whole frames.                                                           *)

\* What ends in a mark has no zeros behind it to be cut off.
LEMMA MarkedTaken ==
    ASSUME NEW e \in Seq(Octet), Len(e) >= 1, e[Len(e)] = boundaryMark
    PROVE  Recv(e) = DecodePacket(e)
<1>1. e \in Seq(Octet) /\ Len(e) \in Nat /\ Len(e) >= 1 /\ e[Len(e)] = boundaryMark
  BY LenProperties
<1> DEFINE kept == {i \in DOMAIN e : e[i] # 0}
           n == Len(e)
<1>2. DOMAIN e = 1..n /\ n \in kept /\ kept \in SUBSET Int /\ \A j \in kept : j <= n
  <2>1. boundaryMark # 0
    BY DEF boundaryMark
  <2> QED
    BY <1>1, <2>1, LenProperties
<1>3. (CHOOSE i \in kept : \A j \in kept : j <= i) = n
  <2> HIDE DEF kept, n
  <2> QED
    BY <1>2, Largest
<1>4. TrimZeros(e) = SubSeq(e, 1, n)
  <2>1. kept # {}
    BY <1>2, Zenon
  <2> QED
    BY <1>3, <2>1, Zenon DEF TrimZeros
<1>5. SubSeq(e, 1, n) = e
  <2> HIDE DEF kept
  <2>1. \A i \in 1..Len(e) : e[i] \in Octet
    BY <1>1
  <2>2. n \in Int /\ 1 \in Int
    BY <1>1
  <2> DEFINE q == SubSeq(e, 1, n)
  <2>3. /\ q \in Seq(Octet) /\ Len(q) = IF 1 <= n THEN n - 1 + 1 ELSE 0
        /\ \A i \in 1..n - 1 + 1 : q[i] = e[1 + i - 1]
    BY <2>1, <2>2, SubSeqProperties
  <2> HIDE DEF q
  <2>4. Len(q) = Len(e) /\ \A i \in 1..Len(q) : q[i] = e[i]
    BY <1>1, <2>3
  <2>5. q = e
    BY <1>1, <2>3, <2>4, SeqEqual
  <2> QED
    BY <2>5 DEF q
<1>6. e # <<>>
  BY <1>1, EmptySeq
<1>7. Recv(e) = DecodePacket(e)
  <2>1. TrimZeros(e) = e
    BY <1>4, <1>5, Zenon
  <2> QED
    BY <1>6, <2>1, Zenon DEF Recv
<1> QED
  BY <1>7

\* The octets of a packet are what Recv makes of them: a frame does not end in a zero.
LEMMA FrameTaken ==
    ASSUME NEW t \in Seq(Octet)
    PROVE  Recv(escape(t)) = DecodePacket(escape(t))
<1> DEFINE e == escape(t)
<1>1. Edged(e)
  BY EscapeEdged
<1> HIDE DEF e
<1>2. e \in Seq(Octet) /\ Len(e) \in Nat /\ Len(e) >= 2 /\ e[Len(e)] = boundaryMark
  BY <1>1, LenProperties DEF Edged
<1>3. Recv(e) = DecodePacket(e)
  BY <1>2, MarkedTaken
<1> QED
  BY <1>3 DEF e

-----------------------------------------------------------------------------
(* The platform makes no segment cache, so nothing a fragment is decoded   *)
(* to ever gets past the question whether its message is complete.         *)

\* Only a fragment whose key is cached comes to a handler.
LEMMA EarlyFragment ==
    ASSUME NEW p, Early(p) = "", p.header.Frag
    PROVE  Caches(p.header) /\ Key(p.header) \in DOMAIN segments
<1>1. p.err = ""
  BY Zenon DEF Early
<1>2. ASSUME ~(Caches(p.header) /\ Key(p.header) \in DOMAIN segments) PROVE FALSE
  <2>1. Panic = "" \/ ErrMsgIDNotSupportted = ""
    BY <1>1, <1>2, Zenon DEF Early
  <2> QED
    BY <2>1 DEF Panic, ErrMsgIDNotSupportted
<1> QED
  BY <1>2

LEMMA Unhandled ==
    /\ last.msg = NoMessage => NoPartHandled
    /\ last'.msg = NoMessage => NoPartHandled'
BY DEF NoPartHandled, Handled

LEMMA Recorded ==
    /\ Nothing.msg = NoMessage
    /\ \A n, err, m, answer : Record(n, err, m, answer) => last'.msg = m
BY DEF Nothing, Record

LEMMA PartsInit == Init => PartsInv
<1> SUFFICES ASSUME Init PROVE PartsInv
  OBVIOUS
<1>1. last.msg = NoMessage
  BY DEF Init, Nothing
<1>2. segments = <<>>
  BY DEF Init
<1> QED
  BY <1>1, <1>2, Unhandled DEF PartsInv

LEMMA PartsNext == PartsInv /\ [Next]_vars => PartsInv'
<1> SUFFICES ASSUME PartsInv, [Next]_vars PROVE PartsInv'
  OBVIOUS
<1>1. CASE UNCHANGED vars
  BY <1>1 DEF vars, PartsInv, NoPartHandled, Handled
<1>2. ASSUME NEW k \in DOMAIN Samples, Send(Samples[k])
      PROVE  PartsInv'
  <2>1. UNCHANGED <<side, segments>> /\ last'.msg = NoMessage
    BY <1>2, Recorded DEF Send
  <2> QED
    BY <2>1, Unhandled DEF PartsInv
<1>3. CASE Close \/ Reconnect
  <2>1. UNCHANGED <<side, segments>> /\ last' = Nothing
    BY <1>3 DEF Close, Reconnect
  <2> QED
    BY <2>1, Recorded, Unhandled DEF PartsInv
<1>4. ASSUME NEW n \in ReadSizes, ReadStream(n)
      PROVE  PartsInv'
  <2> DEFINE p == Recv(SubSeq(stream, 1, n))
             m == Message(p)
  <2>1. \/ Drop(n, Early(p)) \/ Break(n, p, Early(p)) \/ Stray(n, p, Early(p))
        \/ Early(p) = "" /\ (Refuse(n, m) \/ Handle(n, m))
    BY <1>4 DEF ReadStream
  <2> HIDE DEF p, m
  <2>2. CASE Drop(n, Early(p)) \/ Stray(n, p, Early(p)) \/ Refuse(n, m)
    <3>1. UNCHANGED <<side, segments>> /\ last'.msg = NoMessage
      <4>1. CASE Drop(n, Early(p))
        BY <4>1, Recorded DEF Drop
      <4>2. CASE Stray(n, p, Early(p))
        BY <4>2, Recorded DEF Stray
      <4>3. CASE Refuse(n, m)
        BY <4>3, Recorded DEF Refuse
      <4> QED
        BY <2>2, <4>1, <4>2, <4>3
    <3> QED
      BY <3>1, Unhandled DEF PartsInv
  <2>3. CASE Break(n, p, Early(p))
    <3>1. side' = side /\ last'.msg = NoMessage
      BY <2>3, Recorded DEF Break
    <3>2. side = "platform" => segments' = segments
      BY <2>3 DEF Break, Caches, SegmentCacheMade
    <3> QED
      BY <3>1, <3>2, Unhandled DEF PartsInv
  <2>4. CASE Early(p) = "" /\ Handle(n, m)
    <3>1. side' = side /\ segments' = segments /\ last'.msg = m
      BY <2>4, Recorded DEF Handle
    <3>2. m.header = p.header
      BY DEF Message, m
    <3>3. side = "platform" => ~m.header.Frag
      BY <2>4, <3>2, EarlyFragment DEF Caches, SegmentCacheMade
    <3> QED
      BY <3>1, <3>3 DEF PartsInv, NoPartHandled, Handled
  <2> QED
    BY <2>1, <2>2, <2>3, <2>4
<1> QED
  BY <1>1, <1>2, <1>3, <1>4 DEF Next

\* At the platform no handler is given one part of a message for the whole: the nil
\* cache ends the reader first (CacheSegment, PacketCodec.Decode), whatever is sent.
THEOREM NoPartIsHandled == Spec => []NoPartHandled
<1>1. PartsInv => NoPartHandled
  BY DEF PartsInv, NoPartHandled
<1> QED
  BY <1>1, PartsInit, PartsNext, PTL DEF Spec

-----------------------------------------------------------------------------
(* The invariant: the frames on their way account for every octet of the   *)
(* stream, and the terminal keeps supported parameters only.               *)

LEMMA InvInit == Init => IInv
<1> SUFFICES ASSUME Init PROVE IInv
  OBVIOUS
<1>1. EndsInv
  BY DEF Init, EndsInv
<1>2. StreamInv
  <2>1. stream = <<>> /\ sent = <<>> /\ skip = 0
    BY DEF Init
  <2>2. SizeOf(<<>>) = 0
    BY SizeEmpty
  <2>3. Len(sent) = 0 /\ Len(stream) = 0 /\ sent \in Seq(Frames) /\ stream \in Seq(Octet)
    BY <2>1
  <2>4. Len(stream) = SizeOf(sent) - skip
    BY <2>1, <2>2, <2>3
  <2> QED
    BY <2>1, <2>3, <2>4, BoundsAssumption DEF StreamInv
<1>3. PartsInv
  BY PartsInit
<1>4. ParamsInv
  <2>1. params = <<>> /\ DOMAIN acked = {}
    BY DEF Init, NoParams
  <2>2. Listed(params)
    BY <2>1, ListedNone
  <2> QED
    BY <2>1, <2>2 DEF ParamsInv
<1> QED
  BY <1>1, <1>2, <1>3, <1>4 DEF IInv

\* One step: the invariant stays, and so do the parameters of a list once there is one.
LEMMA StepKeeps ==
    ASSUME IInv, [Next]_vars
    PROVE  IInv' /\ (params # NoParams => Ids(params') = Ids(params))
<1> DEFINE Kept == params # NoParams => Ids(params') = Ids(params)
<1>1. PartsInv'
  BY PartsNext DEF IInv
<1>2. EndsInv /\ StreamInv /\ ParamsInv
  BY DEF IInv
<1>3. UNCHANGED <<params, acked>> => ParamsInv' /\ Kept
  BY <1>2 DEF ParamsInv
<1>4. side' = side /\ open' \in BOOLEAN => EndsInv'
  BY <1>2 DEF EndsInv
<1>5. UNCHANGED <<stream, sent, skip>> => StreamInv'
  BY <1>2 DEF StreamInv
<1>6. CASE UNCHANGED vars
  <2>1. UNCHANGED <<side, open, stream, sent, skip, params, acked>>
    BY <1>6 DEF vars
  <2> QED
    BY <1>1, <1>2, <1>3, <1>4, <1>5, <2>1 DEF IInv, EndsInv
<1>7. ASSUME NEW k \in DOMAIN Samples, Send(Samples[k]) PROVE IInv' /\ Kept
  <2>1. UNCHANGED <<side, open, params, acked>>
    BY <1>7 DEF Send
  <2>2. StreamInv'
    BY <1>2, <1>7, SendKeeps
  <2> QED
    BY <1>1, <1>2, <1>3, <1>4, <2>1, <2>2 DEF IInv, EndsInv
<1>8. CASE Close
  <2>1. UNCHANGED <<side, params, acked>> /\ open' = FALSE /\ Leave
    BY <1>8 DEF Close, Leave
  <2> QED
    BY <1>1, <1>3, <1>4, <2>1, LeaveKeeps DEF IInv
<1>9. CASE Reconnect
  <2>1. UNCHANGED <<side, stream, sent, skip, params, acked>> /\ open' = TRUE
    BY <1>9 DEF Reconnect
  <2> QED
    BY <1>1, <1>3, <1>4, <1>5, <2>1 DEF IInv
<1>10. ASSUME NEW n \in ReadSizes, ReadStream(n) PROVE IInv' /\ Kept
  <2> DEFINE p == Packet(n)
             early == Early(p)
             m == Message(p)
  <2>1. \/ Drop(n, early) \/ Break(n, p, early) \/ Stray(n, p, early)
        \/ early = NoError /\ (Refuse(n, m) \/ Handle(n, m))
    BY <1>10, Zenon DEF ReadStream, Packet, NoError
  <2>2. n \in 1..Len(stream)
    BY DEF ReadSizes
  <2>3. Take(n) => StreamInv' /\ open' = open
    BY <1>2, <2>2, TakeKeeps DEF Take
  <2>4. Leave => StreamInv' /\ open' = FALSE
    BY LeaveKeeps DEF Leave
  <2> HIDE DEF p, early, m
  <2>5. CASE Drop(n, early) \/ Stray(n, p, early)
    <3>1. Take(n) /\ UNCHANGED <<side, params, acked>>
      BY <2>5, Zenon DEF Drop, Stray
    <3> QED
      BY <1>1, <1>2, <1>3, <1>4, <2>3, <3>1 DEF IInv, EndsInv
  <2>6. CASE Break(n, p, early) \/ Refuse(n, m)
    <3>1. Leave /\ UNCHANGED <<side, params, acked>>
      <4>1. CASE Break(n, p, early)
        BY <4>1, Zenon DEF Break
      <4>2. CASE Refuse(n, m)
        BY <4>2 DEF Refuse
      <4> QED
        BY <2>6, <4>1, <4>2
    <3> QED
      BY <1>1, <1>3, <1>4, <2>4, <3>1 DEF IInv
  <2>7. CASE early = NoError /\ Handle(n, m)
    <3>1. Take(n) /\ side' = side
      BY <2>7, Zenon DEF Handle
    <3>2. ParamsInv' /\ Kept
      BY <1>2, <2>7, HandleKeeps DEF p, m, early
    <3> QED
      BY <1>1, <1>2, <1>4, <2>3, <3>1, <3>2 DEF IInv, EndsInv
  <2> QED
    BY <2>1, <2>5, <2>6, <2>7
<1> QED
  BY <1>6, <1>7, <1>8, <1>9, <1>10, Zenon DEF Next

\* Whatever comes in, however it is cut and whatever the handlers do, the reader's
\* state stays in range: the frames on their way make up the stream, the rest of the
\* one being read is shorter than it, the platform's segment cache is never made, and
\* the terminal stores supported parameters only (tcp_server, CacheSegment,
\* DeviceParams.Decode and Update).
THEOREM TypeCorrect == Spec => []TypeOK
<1>1. IInv => TypeOK
  <2> SUFFICES ASSUME IInv PROVE TypeOK
    OBVIOUS
  <2>1. Ids(params) \in SUBSET SupportedIds
    BY ListedIs DEF IInv, ParamsInv
  <2>2. \A id \in Ids(params) \cup DOMAIN acked : Supported(id)
    BY <2>1 DEF IInv, ParamsInv, Supported
  <2>3. /\ Len(sent) <= MaxFrames /\ Len(stream) = SizeOf(sent) - skip
        /\ skip = 0 \/ skip < Head(sent).size
    BY DEF IInv, StreamInv
  <2>4. side \in Sides /\ open \in BOOLEAN
    BY DEF IInv, EndsInv
  <2>5. side = "platform" => segments = <<>>
    BY DEF IInv, PartsInv
  <2> QED
    BY <2>2, <2>3, <2>4, <2>5 DEF TypeOK
<1>2. IInv /\ [Next]_vars => IInv'
  BY StepKeeps
<1> QED
  BY <1>1, <1>2, InvInit, PTL DEF Spec

\* Once a terminal has a list of parameters, no setting adds one to it or takes one
\* away, however often a parameter is in the setting (DeviceParams.Update).
THEOREM SettingsKeepParams == Spec => ParamsKept
<1>1. IInv /\ [Next]_vars => [params # NoParams => Ids(params') = Ids(params)]_vars
  BY StepKeeps
<1>2. IInv /\ [Next]_vars => IInv'
  BY StepKeeps
<1> QED
  BY <1>1, <1>2, InvInit, PTL DEF Spec, ParamsKept

-----------------------------------------------------------------------------
(* Reads that begin and end with frames.                                   *)

\* A packet is decoded from a slice that carries its message.
LEMMA PacketCarries ==
    ASSUME NEW m, Sendable(m)
    PROVE  \E s, rest : /\ Carries(s, m, rest)
                        /\ DecodePacket(EncodePacket(m)) = DecodeVerified(s)
                        /\ Recv(EncodePacket(m)) = DecodeVerified(s)
<1> DEFINE e == Encode(m)
           s == verify(genVerifier(e))
<1>1. e \in Seq(Octet) /\ Len(e) < LongestArray
  BY EncodeShort
<1>2. EncodePacket(m) = escape(genVerifier(e))
  BY Zenon DEF EncodePacket
<1> HIDE DEF e
<1>3. DecodePacket(EncodePacket(m)) = DecodeVerified(s) /\ s.len = Len(e)
  BY <1>1, <1>2, FrameOpened, Zenon
<1>4. Recv(EncodePacket(m)) = DecodePacket(EncodePacket(m))
  <2>1. genVerifier(e) \in Seq(Octet)
    BY <1>1, CheckIsVerified
  <2> QED
    BY <1>2, <2>1, FrameTaken, Zenon
<1>5. PICK rest \in Seq(Octet) : s.mem = e \o rest
  BY <1>1, VerifiedHolds
<1> HIDE DEF s
<1>6. Len(e \o rest) = Len(e) + Len(rest) /\ Len(e) \in Nat /\ Len(rest) \in Nat
  BY <1>1, <1>5, ConcatProperties, LenProperties
<1>7. s.len \in Int /\ s.len <= Len(s.mem)
  <2>1. Len(s.mem) = Len(e) + Len(rest)
    BY <1>5, <1>6, Zenon
  <2> QED
    BY <1>3, <1>6, <2>1
<1>8. Carries(s, m, rest)
  BY <1>3, <1>5, <1>7, Zenon DEF Carries, e
<1> QED
  BY <1>3, <1>4, <1>8, Zenon

\* Every message, a part too, that one packet has room for comes through framing, check
\* octet and the growth of the array: no error and no panic, the header with every item
\* that is written and zero for the others, the octets and the length of the body, and at
\* least two octets behind it if any (PacketCodec.Encode against FrameHandler.Recv and
\* PacketCodec.Decode).
THEOREM PacketKept ==
    ASSUME NEW m, Sendable(m), Whole(m.header), Paired(m)
    PROVE  \E rest : Decoded(Recv(EncodePacket(m)), m, rest)
<1>1. PICK s, rest : Carries(s, m, rest) /\ Recv(EncodePacket(m)) = DecodeVerified(s)
  BY PacketCarries, Zenon
<1>2. /\ m.header.MsgID = Measured(m).header.MsgID
      /\ m.header.VersionDesc = Measured(m).header.VersionDesc
      /\ Measured(m).header.BodyLength = Len(WriteBody(m))
  BY SentAlike
<1>3. Decoded(DecodeVerified(s), m, rest)
  BY <1>1, <1>2, PacketDecoded, Zenon
<1> QED
  BY <1>1, <1>3, Zenon

\* What is seen is handed on.
LEMMA SeenIs ==
    ASSUME NEW p, NEW m, Seen(p, m)
    PROVE  /\ p.err = NoError /\ ~p.header.Frag /\ ~ReadBody(p.header, p.body).panic
           /\ Message(p) = [header |-> Measured(m).header, body |-> [n \in NamesOf(m) |-> m.body[n]]]
<1> DEFINE rb == ReadBody(p.header, p.body)
           y == [n \in NamesOf(m) |-> m.body[n]]
<1>1. p.err = NoError /\ ~p.header.Frag /\ p.header = Measured(m).header /\ rb = Got(FALSE, y)
  BY Zenon DEF Seen
<1> HIDE DEF y
<1>2. ~rb.panic /\ rb.body = y
  <2>1. \A x : Got(FALSE, x).body = x
    BY SMT DEF Got
  <2>2. \A x : ~Got(FALSE, x).panic
    BY Zenon DEF Got
  <2> HIDE DEF rb
  <2> QED
    BY <1>1, <2>1, <2>2, Zenon
<1>3. Message(p) = [header |-> Measured(m).header, body |-> y]
  BY <1>1, <1>2, Zenon DEF Message
<1> QED
  BY <1>1, <1>2, <1>3, Zenon DEF y

\* Such a message is what is decoded, if it has nothing else.
LEMMA MessageMet ==
    ASSUME NEW m, Written(m), Exact(m), NEW s, NEW rest, Carries(s, m, rest)
    PROVE  Meets(DecodeVerified(s), m)
<1> DEFINE p == DecodeVerified(s)
<1>1. Headed(m.header) /\ Paired(m) /\ m.body = [n \in NamesOf(m) |-> m.body[n]]
  BY ExactIs
<1>2. Seen(p, m) /\ Measured(m) = [header |-> Measured(m).header, body |-> m.body]
  BY <1>1, MessageSeen
<1>3. /\ p.err = NoError /\ ~p.header.Frag /\ ~ReadBody(p.header, p.body).panic
      /\ Message(p) = [header |-> Measured(m).header, body |-> [n \in NamesOf(m) |-> m.body[n]]]
  BY <1>2, SeenIs
<1>4. Message(p) = Measured(m)
  BY <1>1, <1>2, <1>3, Zenon
<1> QED
  BY <1>3, <1>4, Zenon DEF Meets

\* What is opened so is verified, and is decoded from the octets of the first packet.
LEMMA OpensCarries ==
    ASSUME NEW m, Encode(m) \in Seq(Octet), NEW src, Opens(src, genVerifier(Encode(m))),
           Len(src) <= LongestArray
    PROVE  /\ Recv(src) = DecodeVerified(verify(unescape(src)))
           /\ \E rest : Carries(verify(unescape(src)), m, rest)
<1> DEFINE e == Encode(m)
           t == genVerifier(e)
           pkt == unescape(src)
           s == verify(pkt)
           x == CheckOf(e)
           c == <<x>>
<1>1. /\ Edged(src) /\ pkt \in Seq(Octet) /\ Even(pkt)
      /\ pkt = t \/ \E rest \in Seq(Octet) : Len(rest) >= 2 /\ pkt = t \o rest
  BY Zenon DEF Opens
<1>2. x \in Octet /\ e \in Seq(Octet) /\ t = Append(e, x)
  BY CheckIsOctet, Zenon DEF genVerifier
<1>3. Len(src) <= LongestArray
  OBVIOUS
<1>4. Len(pkt) <= Len(src)
  BY <1>1, UnescapeTyped DEF Edged
<1> HIDE DEF e, t, x
<1>5. t = e \o c /\ c \in Seq(Octet) /\ Len(t) = Len(e) + 1 /\ Len(e) \in Nat /\ t \in Seq(Octet)
  <2>1. \A y \in Octet : Append(e, y) = e \o <<y>> /\ <<y>> \in Seq(Octet)
                         /\ Len(Append(e, y)) = Len(e) + 1 /\ Append(e, y) \in Seq(Octet)
    BY <1>2
  <2> QED
    BY <1>2, <2>1, LenProperties, Zenon
<1> HIDE DEF c, pkt
<1>6. PICK more \in Seq(Octet) : pkt = t \o more /\ (Len(more) = 0 \/ Len(more) >= 2)
  <2>1. CASE pkt = t
    <3> DEFINE none == <<>>
    <3>1. none \in Seq(Octet) /\ Len(none) = 0
      OBVIOUS
    <3>2. t \o none = t
      BY <1>5, ConcatEmptySeq
    <3> HIDE DEF none
    <3> QED
      BY <2>1, <3>1, <3>2, Zenon
  <2>2. CASE \E rest \in Seq(Octet) : Len(rest) >= 2 /\ pkt = t \o rest
    BY <2>2, Zenon
  <2> QED
    BY <1>1, <2>1, <2>2
<1>7. Len(pkt) = (Len(e) + 1) + Len(more) /\ Len(more) \in Nat
  <2> DEFINE q == t \o more
  <2>1. Len(q) = Len(t) + Len(more)
    BY <1>5, ConcatProperties
  <2> HIDE DEF q
  <2>2. pkt = q
    BY <1>6 DEF q
  <2> QED
    BY <1>5, <2>1, <2>2, LenProperties
<1>8. Len(pkt) <= LongestArray
  <2>1. Len(src) \in Nat /\ Len(pkt) \in Nat
    BY <1>1, LenProperties DEF Edged
  <2> QED
    BY <1>3, <1>4, <2>1 DEF LongestArray
<1>9. PICK z \in Seq(Octet) : s.mem = pkt \o z
  BY <1>1, <1>8, VerifyHolds
<1>10. s.len = Len(pkt) - 1 /\ Len(pkt) <= Len(s.mem) /\ s.mem \in Seq(Octet)
  BY <1>1, <1>8, VerifyHolds
<1> HIDE DEF s
<1> DEFINE mz == more \o z
           rest == c \o mz
<1>11. mz \in Seq(Octet) /\ rest \in Seq(Octet)
  BY <1>5, ConcatProperties
<1>12. s.mem = e \o rest
  <2>1. (t \o more) \o z = t \o mz
    BY <1>5, ConcatAssociative
  <2>2. s.mem = t \o mz
    BY <1>6, <1>9, <2>1, Zenon
  <2> HIDE DEF mz
  <2>3. (e \o c) \o mz = e \o rest
    <3>1. e \in Seq(Octet) /\ c \in Seq(Octet) /\ mz \in Seq(Octet)
      BY <1>2, <1>5, <1>11
    <3>2. Assoc(e, c, mz)
      BY <3>1, Regroup
    <3> QED
      BY <3>2, Zenon DEF Assoc, rest
  <2> QED
    BY <1>5, <2>2, <2>3, Zenon
<1> HIDE DEF rest
<1>13. /\ s.len \in Int /\ s.len <= Len(s.mem)
       /\ s.len = Len(e) \/ s.len > Len(e) + 1
  <2> DEFINE a == Len(e)
             b == Len(more)
             d == Len(s.mem)
             p == Len(pkt)
             l == s.len
  <2>1. a \in Nat /\ b \in Nat /\ p = (a + 1) + b /\ l = p - 1 /\ p <= d /\ (b = 0 \/ b >= 2)
    BY <1>5, <1>6, <1>7, <1>10
  <2>2. d \in Nat
    BY <1>10, LenProperties
  <2> HIDE DEF a, b, d, p, l
  <2>3. l \in Int /\ l <= d /\ (l = a \/ l > a + 1)
    BY <2>1, <2>2
  <2> QED
    BY <2>3 DEF a, d, l
<1>14. Carries(s, m, rest)
  BY <1>11, <1>12, <1>13, Zenon DEF Carries, e
<1>15. Recv(src) = DecodeVerified(s)
  <2>1. Recv(src) = DecodePacket(src)
    BY <1>1, MarkedTaken DEF Edged
  <2>2. Len(pkt) >= 1 /\ pkt # <<>>
    BY <1>5, <1>7, EmptySeq
  <2>3. Verified(pkt)
    BY <1>1, <2>2, EvenVerified
  <2>4. DecodePacket(src) = DecodeVerified(verify(pkt))
    BY <2>2, <2>3, Zenon DEF DecodePacket, pkt
  <2> QED
    BY <2>1, <2>4, Zenon DEF s
<1> QED
  BY <1>14, <1>15, Zenon DEF s, pkt

\* What ends up in the stream for a message, alone or with other frames stuck to it, is
\* read as that message, exactly as it was sent.
LEMMA StuckRead ==
    ASSUME NEW m, Written(m), Exact(m), NEW src, Opens(src, genVerifier(Encode(m))),
           Len(src) <= LongestArray
    PROVE  Meets(Recv(src), m)
<1>0. Headed(m.header) /\ Paired(m)
  BY ExactIs
<1>1. Encode(m) \in Seq(Octet)
  <2>1. Sendable(m)
    BY <1>0, WrittenSendable, Zenon
  <2> QED
    BY <2>1, EncodeShort, Zenon
<1>2. PICK rest : Carries(verify(unescape(src)), m, rest)
  BY <1>1, OpensCarries
<1>3. Recv(src) = DecodeVerified(verify(unescape(src)))
  BY <1>1, OpensCarries
<1>4. Meets(DecodeVerified(verify(unescape(src))), m)
  BY <1>2, MessageMet
<1> QED
  BY <1>3, <1>4, Zenon

LEMMA FramesTyped ==
    ASSUME NEW s \in Seq(Cleans)
    PROVE  /\ FramesOf(s) \in Seq(Seq(Octet)) /\ Len(FramesOf(s)) = Len(s)
           /\ OctetsOf(s) \in Seq(Octet)
           /\ \A i \in 1..Len(s) : FramesOf(s)[i] = FrameOf(s[i]) /\ Clean(s[i]) /\ s[i] \in Cleans
<1> DEFINE n == Len(s)
           fs == FramesOf(s)
           Y == Seq(Octet)
<1>1. n \in Nat /\ DOMAIN s = 1..n
  BY LenProperties
<1>2. \A i \in 1..n : s[i] \in Cleans
  BY ElementOfSeq
<1>3. \A i \in 1..n : Clean(s[i]) /\ FrameOf(s[i]) \in Y
  BY <1>2, Zenon DEF Cleans, Clean
<1>4. fs = [i \in 1..n |-> FrameOf(s[i])]
  BY <1>1, Zenon DEF FramesOf
<1> HIDE DEF n, Y, fs
<1>5. fs \in Seq(Y) /\ Len(fs) = n /\ \A i \in 1..n : fs[i] = FrameOf(s[i])
  BY <1>1, <1>3, <1>4
<1>6. fs \in Seq(Seq(Octet))
  BY <1>5 DEF Y
<1>7. FlattenSeq(fs) \in Seq(Octet)
  BY <1>6, FlattenTyped
<1> QED
  BY <1>2, <1>3, <1>5, <1>6, <1>7, Zenon DEF n, fs, OctetsOf

LEMMA OctetsJoined ==
    ASSUME NEW s \in Seq(Cleans), NEW t \in Seq(Cleans), NEW st, st = s \o t
    PROVE  OctetsOf(st) = OctetsOf(s) \o OctetsOf(t)
<1> DEFINE a == FramesOf(s)
           b == FramesOf(t)
           c == FramesOf(st)
           ab == a \o b
           Y == Seq(Octet)
           k == Len(s)
<1>1. /\ a \in Seq(Y) /\ Len(a) = Len(s) /\ \A i \in 1..Len(s) : a[i] = FrameOf(s[i])
      /\ b \in Seq(Y) /\ Len(b) = Len(t) /\ \A i \in 1..Len(t) : b[i] = FrameOf(t[i])
  BY FramesTyped, Zenon
<1>2. /\ st \in Seq(Cleans) /\ Len(st) = Len(s) + Len(t)
      /\ \A i \in 1..Len(s) : st[i] = s[i]
      /\ \A i \in 1..Len(t) : st[Len(s) + i] = t[i]
  BY Behind
<1>3. c \in Seq(Y) /\ Len(c) = Len(st) /\ \A i \in 1..Len(st) : c[i] = FrameOf(st[i])
  BY <1>2, FramesTyped, Zenon
<1>0. ab = a \o b
  OBVIOUS
<1> HIDE DEF a, b, c, Y, ab
<1>4. /\ ab \in Seq(Y) /\ Len(ab) = Len(a) + Len(b)
      /\ \A i \in 1..Len(a) : ab[i] = a[i]
      /\ \A i \in 1..Len(b) : ab[Len(a) + i] = b[i]
  <2>1. a \in Seq(Y) /\ b \in Seq(Y)
    BY <1>1
  <2> QED
    BY <1>0, <2>1, Behind
<1>5. k \in Nat /\ Len(t) \in Nat
  BY LenProperties
<1>6. ASSUME NEW i \in 1..Len(c) PROVE c[i] = ab[i]
  <2>1. CASE i \in 1..k
    <3>1. c[i] = FrameOf(st[i]) /\ st[i] = s[i]
      BY <1>2, <1>3, <2>1
    <3>2. ab[i] = FrameOf(s[i])
      BY <1>1, <1>4, <2>1
    <3> QED
      BY <3>1, <3>2, Zenon
  <2>2. CASE i \notin 1..k
    <3> DEFINE j == i - k
    <3>1. j \in 1..Len(t) /\ i = k + j
      BY <1>2, <1>3, <1>5, <2>2
    <3> HIDE DEF j
    <3>2. c[i] = FrameOf(st[i]) /\ st[k + j] = t[j]
      BY <1>2, <1>3, <3>1
    <3>3. ab[k + j] = FrameOf(t[j])
      BY <1>1, <1>4, <3>1
    <3> QED
      BY <3>1, <3>2, <3>3, Zenon
  <2> QED
    BY <2>1, <2>2
<1>7. c = ab
  <2>1. Len(c) = Len(ab)
    BY <1>1, <1>2, <1>3, <1>4
  <2> HIDE DEF k
  <2> QED
    BY <1>3, <1>4, <1>6, <2>1, SeqEqual
<1>8. FlattenedBoth(a, b, c)
  <2>1. a \in Seq(Seq(Octet)) /\ b \in Seq(Seq(Octet)) /\ c = a \o b
    BY <1>0, <1>1, <1>7 DEF Y
  <2> QED
    BY <2>1, FlattenJoined
<1> QED
  BY <1>8, Zenon DEF FlattenedBoth, OctetsOf, a, b, c

LEMMA CleanSizes == \A x \in Cleans : x.size \in Nat
BY DEF Cleans, Clean

LEMMA OctetsSize ==
    ASSUME NEW s \in Seq(Cleans)
    PROVE  Len(OctetsOf(s)) = SizeOf(s) /\ SizeOf(s) \in Nat
<1> DEFINE n == Len(s)
           fs == FramesOf(s)
           u(i) == Upto(s, i)
<1>1. n \in Nat
  BY LenProperties
<1>2. /\ fs \in Seq(Seq(Octet)) /\ Len(fs) = n
      /\ \A i \in 1..n : fs[i] = FrameOf(s[i]) /\ Clean(s[i])
  BY FramesTyped, Zenon
<1>3. /\ u(0) = 0 /\ u(n) = SizeOf(s)
      /\ \A i \in 0..n : u(i) \in Nat
      /\ \A i \in 1..n : u(i) = u(i - 1) + s[i].size
  BY CleanSizes, UptoFacts
<1>4. PICK f : JoinSteps(Octet, fs, f)
  BY <1>2, JoinStepsExist
<1> HIDE DEF fs
<1>5. /\ f \in [0..n -> Seq(Octet)] /\ f[0] = <<>> /\ OctetsOf(s) = f[n]
      /\ \A i \in 1..n : f[i] = f[i - 1] \o fs[i]
  <2>1. /\ f \in [0..Len(fs) -> Seq(Octet)] /\ f[0] = <<>> /\ FlattenSeq(fs) = f[Len(fs)]
        /\ \A i \in 1..Len(fs) : f[i] = f[i - 1] \o fs[i]
    BY <1>4, Zenon DEF JoinSteps
  <2> QED
    BY <1>2, <2>1, Zenon DEF OctetsOf, fs
<1> HIDE DEF n, u
<1> DEFINE S == {i \in 0..n : Len(f[i]) = u(i)}
<1>6. 0 \in S /\ S \in SUBSET (0..n)
  <2>1. Len(f[0]) = 0 /\ 0 \in 0..n
    BY <1>1, <1>5
  <2> QED
    BY <1>3, <2>1
<1>7. ASSUME NEW i \in 1..n, i - 1 \in S PROVE i \in S
  <2> DEFINE a == f[i - 1]
             b == fs[i]
             c == a \o b
  <2>1. i - 1 \in 0..n /\ i \in 0..n
    BY <1>1
  <2>2. a \in Seq(Octet) /\ b \in Seq(Octet)
    <3>1. b = FrameOf(s[i]) /\ Clean(s[i])
      BY <1>2
    <3> QED
      BY <1>5, <2>1, <3>1, Zenon DEF Clean
  <2>3. s[i].size = Len(b)
    <3>1. b = FrameOf(s[i]) /\ Clean(s[i])
      BY <1>2
    <3> QED
      BY <3>1, Zenon DEF Clean
  <2>4. f[i] = c
    BY <1>5
  <2>5. Len(a) = u(i - 1)
    BY <1>7
  <2>6. u(i) = u(i - 1) + s[i].size
    BY <1>3
  <2> HIDE DEF a, b, S
  <2>7. Len(c) = Len(a) + Len(b)
    BY <2>2, ConcatProperties
  <2> HIDE DEF c
  <2>8. Len(f[i]) = u(i)
    BY <2>3, <2>4, <2>5, <2>6, <2>7
  <2> QED
    BY <2>1, <2>8 DEF S
<1>8. \A i \in 0..n : i \in S
  <2> HIDE DEF S
  <2> QED
    BY <1>1, <1>6, <1>7, UpTo
<1>9. n \in 0..n
  BY <1>1
<1>10. Len(f[n]) = u(n) /\ u(n) \in Nat
  BY <1>3, <1>8, <1>9, Zenon
<1> QED
  BY <1>3, <1>5, <1>10, Zenon

LEMMA SampleClean ==
    ASSUME NEW k \in DOMAIN Samples, NEW f,
           [size |-> Len(FrameOf(Samples[k])), msg |-> Samples[k].msg, part |-> Samples[k].part] = f
    PROVE  f \in Cleans /\ FrameOf(f) = FrameOf(Samples[k])
<1> DEFINE x == Samples[k]
           n == Len(FrameOf(x))
<1>1. FrameOf(x) \in Seq(Octet) /\ n \in Nat
  BY FrameTyped, LenProperties
<1> HIDE DEF n
<1>2. f.size = n /\ f.msg = x.msg /\ f.part = x.part /\ f = [size |-> n, msg |-> x.msg, part |-> x.part]
  BY DEF n
<1>3. f \in Frames
  BY <1>1, <1>2 DEF Frames
<1>4. Content(f) = Content(x)
  BY <1>2, Zenon DEF Content
<1>5. FrameOf(f) = FrameOf(x)
  BY <1>4, Zenon DEF FrameOf
<1>6. Content(f) \in Seq(Octet)
  BY <1>4, SamplesAssumption, Zenon
<1>7. f.part = <<>> => Written(f.msg) /\ Exact(f.msg)
  <2> SUFFICES ASSUME x.part = <<>> PROVE Written(x.msg) /\ Exact(x.msg)
    BY <1>2, Zenon
  <2>1. Writable(x.msg) /\ Exact(x.msg)
    BY WholesAssumption, Zenon
  <2> DEFINE m == x.msg
             h == [a \in CommonItems \cup OptionalItems |-> m.header[a]]
             b == [a \in NamesOf(m) |-> m.body[a]]
  <2> HIDE DEF m
  <2>2. m = [header |-> h, body |-> b]
    BY <2>1, Zenon DEF Exact, m
  <2>3. DOMAIN b = NamesOf(m)
    BY Zenon
  <2> HIDE DEF h, b
  <2>4. m.body = b
    BY <2>2
  <2> QED
    BY <2>1, <2>3, <2>4, Zenon DEF Written, m
<1>8. f.size = Len(FrameOf(f)) /\ f.size \in Nat /\ FrameOf(f) \in Seq(Octet)
  BY <1>1, <1>2, <1>5, Zenon DEF n
<1>9. Clean(f)
  BY <1>6, <1>7, <1>8, Zenon DEF Clean
<1> QED
  BY <1>3, <1>5, <1>9, Zenon DEF Cleans

LEMMA ContentSent ==
    ASSUME StreamInv, ContentInv, NEW k \in DOMAIN Samples, Send(Samples[k])
    PROVE  ContentInv'
<1> DEFINE x == Samples[k]
           frame == FrameOf(x)
           f == [size |-> Len(frame), msg |-> x.msg, part |-> x.part]
           t == <<f>>
           s == sent
           O == OctetsOf(s)
           st == s \o t
<1>1. /\ stream' = stream \o frame
      /\ sent' = Append(sent, f)
      /\ skip' = skip
  BY DEF Send
<1>2. f \in Cleans /\ FrameOf(f) = frame
  BY SampleClean
<1>3. frame \in Seq(Octet)
  BY FrameTyped
<1> HIDE DEF frame, f
<1>4. s \in Seq(Cleans) /\ stream = Others(O, skip)
  BY Zenon DEF ContentInv
<1>5. t \in Seq(Cleans) /\ Len(t) = 1 /\ t[1] = f /\ DOMAIN t = {1}
  BY <1>2
<1>6. sent' = st
  <2>1. \A y \in Cleans : Append(s, y) = s \o <<y>>
    BY <1>4
  <2> QED
    BY <1>1, <1>2, <2>1, Zenon
<1>7. OctetsOf(t) = frame
  <2>1. FramesOf(t) = <<frame>>
    <3>1. FramesOf(t) = [i \in {1} |-> FrameOf(t[i])]
      BY <1>5, Zenon DEF FramesOf
    <3> DEFINE g == FramesOf(t)
               y == <<frame>>
               Y == Seq(Octet)
    <3>2. g \in Seq(Seq(Octet)) /\ Len(g) = 1 /\ g[1] = frame
      <4>1. 1 \in 1..Len(t)
        BY <1>5
      <4>2. g \in Seq(Seq(Octet)) /\ Len(g) = Len(t) /\ g[1] = FrameOf(t[1])
        BY <1>5, <4>1, FramesTyped, Zenon
      <4> QED
        BY <1>2, <1>5, <4>2, Zenon
    <3> HIDE DEF g
    <3>3. y \in Seq(Y) /\ Len(y) = 1 /\ y[1] = frame
      BY <1>3
    <3> HIDE DEF y, Y
    <3>4. g = y
      <4>1. g \in Seq(Y)
        BY <3>2 DEF Y
      <4>2. \A i \in 1..Len(g) : g[i] = y[i]
        BY <3>2, <3>3
      <4> QED
        BY <3>2, <3>3, <4>1, <4>2, SeqEqual
    <3> QED
      BY <3>4 DEF g, y
  <2>2. FlattenSeq(<<frame>>) = frame
    BY <1>3, FlattenOne
  <2> QED
    BY <2>1, <2>2, Zenon DEF OctetsOf
<1> HIDE DEF t, s
<1>8. OctetsOf(st) = O \o frame /\ O \in Seq(Octet) /\ st \in Seq(Cleans)
  <2>1. OctetsOf(st) = O \o OctetsOf(t)
    BY <1>4, <1>5, OctetsJoined
  <2>2. O \in Seq(Octet)
    BY <1>4, FramesTyped
  <2> QED
    BY <1>4, <1>5, <1>7, <2>1, <2>2, ConcatProperties
<1>9. skip \in 0..Len(O)
  <2>1. Len(O) = SizeOf(s)
    BY <1>4, OctetsSize
  <2>2. skip \in Nat /\ Len(stream) = SizeOf(s) - skip /\ Len(stream) \in Nat /\ SizeOf(s) \in Nat
    BY <1>4, OctetsSize, LenProperties DEF StreamInv, s
  <2> HIDE DEF O
  <2> QED
    BY <2>1, <2>2
<1> HIDE DEF O, st
<1>10. Others(O \o frame, skip) = Others(O, skip) \o frame
  BY <1>3, <1>8, <1>9, OthersJoined
<1>11. stream' = Others(OctetsOf(sent'), skip')
  BY <1>1, <1>4, <1>6, <1>8, <1>10, Zenon
<1>12. (OctetsOf(sent))' = OctetsOf(sent')
  BY Zenon DEF OctetsOf, FramesOf, FrameOf, Content
<1> QED
  BY <1>6, <1>8, <1>11, Zenon DEF ContentInv

\* What is left after a read
LEMMA ContentTaken ==
    ASSUME StreamInv, ContentInv, NEW n \in 1..Len(stream), Take(n)
    PROVE  ContentInv'
<1> DEFINE s == sent
           m == skip + n
           g == Gone(m)
           q == First(s, g)
           r == Others(s, g)
           O == OctetsOf(s)
           u == Upto(s, g)
           k == m - u
<1>1. s \in Seq(Cleans) /\ stream = Others(O, skip)
  BY Zenon DEF ContentInv
<1>2. Len(O) = SizeOf(s) /\ SizeOf(s) \in Nat /\ O \in Seq(Octet)
  BY <1>1, OctetsSize, FramesTyped
<1>3. skip \in Nat /\ Len(stream) = SizeOf(s) - skip /\ Len(stream) \in Nat /\ n \in Nat /\ n <= Len(stream)
  BY LenProperties DEF StreamInv
<1>4. m \in Nat /\ m <= SizeOf(s) /\ skip \in 0..SizeOf(s)
  BY <1>2, <1>3
<1>5. /\ g \in 0..Len(s) /\ u <= m
  <2>1. Cardinality({i \in DOMAIN s : SizeOf(SubSeq(s, 1, i)) <= m}) = g
    BY DEF Gone
  <2> HIDE DEF s, m, g, q, r, O
  <2> QED
    BY <1>1, <1>4, <2>1, CleanSizes, GoneIs
<1>6. /\ stream' = Others(stream, n)
      /\ sent' = r
      /\ skip' = k
  <2>1. /\ stream' = SubSeq(stream, n + 1, Len(stream))
        /\ sent' = SubSeq(sent, Gone(skip + n) + 1, Len(sent))
        /\ skip' = (skip + n) - SizeOf(SubSeq(sent, 1, Gone(skip + n)))
    BY DEF Take, Skipped
  <2>2. Others(stream, n) = SubSeq(stream, n + 1, Len(stream)) /\ r = SubSeq(sent, Gone(skip + n) + 1, Len(sent))
    BY DEF Others
  <2>3. Upto(s, g) = SizeOf(SubSeq(sent, 1, Gone(skip + n)))
    BY DEF Upto, First
  <2>4. skip + n = m
    OBVIOUS
  <2> HIDE DEF s, m, g, r, q, O
  <2>5. skip' = k
    BY <2>1, <2>3, <2>4, Zenon
  <2> QED
    BY <2>1, <2>2, <2>5, Zenon
<1> HIDE DEF g, m, s
<1>7. q \in Seq(Cleans) /\ r \in Seq(Cleans) /\ s = q \o r
  BY <1>1, <1>5, Split
<1>8. u = SizeOf(q) /\ u \in Nat
  <2>1. u = SizeOf(q)
    BY Zenon DEF Upto
  <2>2. SizeOf(q) \in Nat
    BY <1>7, OctetsSize
  <2> QED
    BY <2>1, <2>2, Zenon
<1> HIDE DEF q, r, u
<1> DEFINE P == OctetsOf(q)
           R == OctetsOf(r)
<1>9. O = P \o R /\ P \in Seq(Octet) /\ R \in Seq(Octet) /\ Len(P) = u /\ Len(R) = SizeOf(r) /\ SizeOf(r) \in Nat
  <2>1. OctetsOf(s) = P \o R
    BY <1>7, OctetsJoined
  <2>2. P \in Seq(Octet) /\ R \in Seq(Octet)
    BY <1>7, FramesTyped
  <2>3. Len(P) = SizeOf(q) /\ Len(R) = SizeOf(r) /\ SizeOf(r) \in Nat
    BY <1>7, OctetsSize
  <2> QED
    BY <1>8, <2>1, <2>2, <2>3, Zenon
<1> HIDE DEF O, P, R
<1>10. Len(O) = u + Len(R)
  <2> DEFINE c == P \o R
  <2>1. Len(c) = Len(P) + Len(R)
    BY <1>9, ConcatProperties
  <2> HIDE DEF c
  <2>2. O = c
    BY <1>9 DEF c
  <2> QED
    BY <1>9, <2>1, <2>2
<1>11. k \in 0..Len(R) /\ u + k = m
  <2>1. Len(R) \in Nat
    BY <1>9, LenProperties
  <2> QED
    BY <1>2, <1>4, <1>5, <1>8, <1>10, <2>1
<1> HIDE DEF k
<1>12. Others(O, m) = Others(R, k)
  <2>1. Others(P \o R, Len(P) + k) = Others(R, k)
    BY <1>9, <1>11, OthersBehind
  <2> QED
    BY <1>9, <1>11, <2>1, Zenon
<1>13. Others(stream, n) = Others(O, m)
  <2>1. skip \in Nat /\ n \in Nat /\ skip + n <= Len(O)
    BY <1>2, <1>3, <1>4 DEF m
  <2>2. Others(Others(O, skip), n) = Others(O, skip + n)
    BY <1>2, <2>1, OthersOfOthers
  <2>3. Others(stream, n) = Others(O, skip + n)
    BY <1>1, <2>2, Zenon
  <2> QED
    BY <2>3, Zenon DEF m
<1>14. stream' = Others(OctetsOf(sent'), skip')
  BY <1>6, <1>12, <1>13, Zenon DEF R
<1>15. (OctetsOf(sent))' = OctetsOf(sent')
  BY Zenon DEF OctetsOf, FramesOf, FrameOf, Content
<1> QED
  BY <1>6, <1>7, <1>14, Zenon DEF ContentInv

LEMMA ContentLeft == Leave => ContentInv'
<1>1. ASSUME Leave PROVE ContentInv'
  <2>1. stream' = <<>> /\ sent' = <<>> /\ skip' = 0
    BY <1>1 DEF Leave
  <2> DEFINE none == <<>>
             a == OctetsOf(none)
  <2>2. none \in Seq(Cleans) /\ SizeOf(none) = 0
    BY SizeEmpty
  <2> HIDE DEF none
  <2>3. a \in Seq(Octet) /\ Len(a) = 0
    BY <2>2, OctetsSize, FramesTyped
  <2> HIDE DEF a
  <2>4. a = <<>>
    BY <2>3, EmptySeq
  <2>5. Others(<<>>, 0) = <<>>
    BY DEF Others
  <2>6. stream' = Others(OctetsOf(sent'), skip')
    BY <2>1, <2>4, <2>5, Zenon DEF a, none
  <2>7. sent' \in Seq(Cleans)
    BY <2>1, <2>2, Zenon DEF none
  <2> QED
    BY <2>6, <2>7, Zenon DEF ContentInv
<1> QED
  BY <1>1

\* A read that begins and ends with frames opens to the packet of the first of them.
LEMMA WholeOpens ==
    ASSUME StreamInv, ContentInv, NEW n \in 1..Len(stream), skip = 0, Skipped(n) = 0
    PROVE  /\ Gone(n) \in 1..Len(sent)
           /\ First(sent, Gone(n))[1] = sent[1] /\ Clean(sent[1])
           /\ Opens(First(stream, n), genVerifier(Content(sent[1])))
<1> DEFINE s == sent
           g == Gone(n)
           q == First(s, g)
           r == Others(s, g)
           O == OctetsOf(s)
           P == OctetsOf(q)
           R == OctetsOf(r)
           fs == FramesOf(q)
<1>1. s \in Seq(Cleans) /\ stream = Others(O, 0)
  BY Zenon DEF ContentInv
<1>2. Len(O) = SizeOf(s) /\ SizeOf(s) \in Nat /\ O \in Seq(Octet)
  BY <1>1, OctetsSize, FramesTyped
<1>3. n \in Nat /\ n >= 1 /\ Len(stream) = SizeOf(s)
  BY <1>2, LenProperties DEF StreamInv
<1>4. g \in 0..Len(s) /\ Upto(s, g) = n
  <2>1. Cardinality({i \in DOMAIN s : SizeOf(SubSeq(s, 1, i)) <= n}) = g
    BY DEF Gone
  <2>2. (0 + n) - SizeOf(SubSeq(sent, 1, Gone(0 + n))) = 0
    BY DEF Skipped
  <2>3. 0 + n = n
    BY <1>3
  <2>4. n - Upto(s, g) = 0
    BY <2>2, <2>3, Zenon DEF Upto, First
  <2> HIDE DEF s, g, q, r, O, P, R, fs
  <2>5. g \in 0..Len(s)
    BY <1>1, <1>3, <2>1, CleanSizes, GoneIs
  <2>6. Upto(s, g) \in Nat
    BY <1>1, <2>5, CleanSizes, UptoFacts
  <2> QED
    BY <1>3, <2>4, <2>5, <2>6
<1> HIDE DEF s, g
<1>5. q \in Seq(Cleans) /\ r \in Seq(Cleans) /\ s = q \o r /\ Len(q) = g
  BY <1>1, <1>4, Split
<1>6. g \in Nat /\ g # 0
  <2>1. Upto(s, 0) = 0
    BY <1>1, CleanSizes, UptoFacts
  <2>2. Len(s) \in Nat
    BY <1>1, LenProperties
  <2> QED
    BY <1>3, <1>4, <2>1, <2>2
<1>7. Len(P) = n /\ P \in Seq(Octet) /\ R \in Seq(Octet) /\ O = P \o R
  <2>1. Len(P) = SizeOf(q)
    BY <1>5, OctetsSize
  <2>2. SizeOf(q) = n
    BY <1>4, Zenon DEF Upto
  <2>3. P \in Seq(Octet) /\ R \in Seq(Octet)
    BY <1>5, FramesTyped
  <2>4. O = P \o R
    BY <1>5, OctetsJoined
  <2> QED
    BY <2>1, <2>2, <2>3, <2>4, Zenon
<1>8. stream = O
  <2>1. Others(O, 0) = O
    <3> DEFINE none == <<>>
    <3> HIDE DEF O
    <3>1. none \in Seq(Octet) /\ Len(none) = 0
      OBVIOUS
    <3>2. none \o O = O
      BY <1>2, ConcatEmptySeq DEF none
    <3> HIDE DEF none
    <3>3. Others(none \o O, Len(none)) = O
      BY <1>2, <3>1, Behindhand
    <3> QED
      BY <3>1, <3>2, <3>3, Zenon
  <2> QED
    BY <1>1, <2>1, Zenon
<1>9. First(stream, n) = P
  <2>1. First(P \o R, Len(P)) = P
    BY <1>7, Foremost
  <2> QED
    BY <1>7, <1>8, <2>1, Zenon
<1>10. /\ fs \in Seq(Seq(Octet)) /\ Len(fs) = g
       /\ \A i \in 1..g : fs[i] = FrameOf(q[i]) /\ Clean(q[i])
  BY <1>5, FramesTyped, Zenon
<1>11. q[1] = s[1] /\ 1 \in 1..g /\ g <= Len(s)
  <2>1. 1 \in 1..Len(q)
    BY <1>5, <1>6
  <2>2. \A i \in 1..Len(q) : s[i] = q[i]
    BY <1>5, Behind
  <2> QED
    BY <1>1, <1>4, <1>5, <2>1, <2>2, LenProperties
<1> HIDE DEF fs, q
<1> DEFINE t == genVerifier(Content(s[1]))
<1>12. \A i \in 1..g : Opens(fs[i], genVerifier(Content(q[i])))
  <2> TAKE i \in 1..g
  <2>1. fs[i] = FrameOf(q[i]) /\ Clean(q[i])
    BY <1>10
  <2>2. FrameOf(q[i]) = escape(genVerifier(Content(q[i]))) /\ Content(q[i]) \in Seq(Octet)
    BY <2>1, Zenon DEF FrameOf, Clean
  <2> QED
    BY <2>1, <2>2, FrameOpens
<1>13. Opens(fs[1], t)
  BY <1>11, <1>12, Zenon
<1>14. t \in Seq(Octet)
  <2>1. Content(s[1]) \in Seq(Octet)
    BY <1>10, <1>11, Zenon DEF Clean
  <2> QED
    BY <2>1, CheckIsVerified
<1> HIDE DEF t
<1>15. Opens(FlattenSeq(fs), t)
  <2>1. Len(fs) >= 1
    BY <1>6, <1>10
  <2>2. \A i \in 1..Len(fs) : \E v : Opens(fs[i], v)
    BY <1>10, <1>12, Zenon
  <2> QED
    BY <1>10, <1>13, <1>14, <2>1, <2>2, FramesOpen
<1>16. Opens(First(stream, n), t)
  BY <1>9, <1>15, Zenon DEF OctetsOf, fs
<1>17. g \in 1..Len(s)
  BY <1>4, <1>6, <1>11
<1>18. Clean(s[1])
  BY <1>10, <1>11, Zenon
<1> QED
  BY <1>11, <1>16, <1>17, <1>18, Zenon DEF t, q, s, g

LEMMA WholeMet ==
    ASSUME StreamInv, ContentInv, NEW n \in ReadSizes, Borders(n), FirstOf(n).part = <<>>
    PROVE  Meets(Packet(n), FirstOf(n).msg)
<1> DEFINE x == sent[1]
           src == First(stream, n)
<1>1. n \in 1..Len(stream) /\ n <= MaxFrameLen
  BY DEF ReadSizes
<1>2. skip = 0 /\ Skipped(n) = 0 /\ skip + n = n
  BY <1>1, LenProperties DEF Borders
<1>3. /\ First(sent, Gone(n))[1] = x /\ Clean(x)
      /\ Opens(src, genVerifier(Content(x)))
  BY <1>1, <1>2, WholeOpens
<1>4. FirstOf(n) = x
  BY <1>2, <1>3, Zenon DEF FirstOf
<1> HIDE DEF x, src
<1>5. x.part = <<>>
  BY <1>4, Zenon
<1>6. Content(x) = Encode(x.msg) /\ Written(x.msg) /\ Exact(x.msg)
  BY <1>3, <1>5, Zenon DEF Clean, Content
<1>7. Len(src) <= LongestArray
  <2>1. n \in 0..Len(stream) /\ stream \in Seq(Octet)
    BY <1>1, LenProperties DEF StreamInv
  <2>2. Len(src) = n
    BY <2>1, Split DEF src
  <2> QED
    BY <1>1, <2>2 DEF MaxFrameLen, LongestArray
<1>8. Opens(src, genVerifier(Encode(x.msg)))
  BY <1>3, <1>6, Zenon
<1>9. Meets(Recv(src), x.msg)
  BY <1>6, <1>7, <1>8, StuckRead
<1>10. Packet(n) = Recv(src)
  BY Zenon DEF Packet, First, src
<1> QED
  BY <1>4, <1>9, <1>10, Zenon

\* A whole packet that is read at all comes to its handler, unless there is none.
LEMMA EarlyIs ==
    ASSUME NEW p, p.err = NoError, ~p.header.Frag, ~ReadBody(p.header, p.body).panic
    PROVE  Early(p) = IF p.header.MsgID \in Processed THEN NoError ELSE ErrMsgIDNotSupportted
<1> DEFINE frag == p.header.Frag
           known == p.header.MsgID \in Processed
           stray == frag /\ ~(Caches(p.header) /\ Key(p.header) \in DOMAIN segments)
           part == frag /\ ~Completed(p.header)
           rest == IF ReadBody(p.header, p.body).panic THEN Panic ELSE ""
<1>1. p.err = ""
  BY Zenon DEF NoError
<1>2. Early(p) = CASE p.err # "" -> p.err
                   [] p.err = "" /\ stray -> Panic
                   [] p.err = "" /\ ~known -> ErrMsgIDNotSupportted
                   [] p.err = "" /\ part -> Panic
                   [] OTHER -> rest
  BY Zenon DEF Early
<1>3. ~stray /\ ~part /\ rest = ""
  BY Zenon
<1> HIDE DEF frag, known, stray, part, rest
<1>4. CASE ~known
  <2>1. Early(p) = ErrMsgIDNotSupportted
    BY <1>1, <1>2, <1>3, <1>4, Zenon
  <2> QED BY <1>4, <2>1 DEF known
<1>5. CASE known
  <2>1. Early(p) = NoError
    BY <1>1, <1>2, <1>3, <1>5, Zenon DEF NoError
  <2> QED BY <1>5, <2>1 DEF known
<1> QED BY <1>4, <1>5

LEMMA RecordIs ==
    ASSUME NEW n, NEW err, NEW msg, NEW answer, Record(n, err, msg, answer),
           Borders(n) /\ FirstOf(n).part = <<>> =>
              err \in {ErrMsgIDNotSupportted, ErrDeviceNotFound} \/ msg = Measured(FirstOf(n).msg)
    PROVE  BordersDeliver'
<1> DEFINE read == SubSeq(sent, 1, Gone(skip + n))
           whole == skip = 0 /\ Skipped(n) = 0
<1>1. last' = [read |-> read, whole |-> whole, err |-> err, msg |-> msg, answer |-> answer]
  BY Zenon DEF Record
<1>2. read = First(sent, Gone(skip + n)) /\ FirstOf(n) = read[1] /\ (Borders(n) <=> whole)
  BY Zenon DEF First, FirstOf, Borders
<1> HIDE DEF read, whole
<1>3. last'.read = read /\ (last'.whole <=> whole) /\ last'.err = err /\ last'.msg = msg
  BY <1>1, Zenon
<1>4. Delivers(read, whole, err, msg)
  BY <1>2, Zenon DEF Delivers
<1>5. Delivers(last'.read, last'.whole, last'.err, last'.msg)
  BY <1>3, <1>4, Zenon DEF Delivers
<1> QED
  BY <1>5, Zenon DEF BordersDeliver, Delivers

LEMMA NothingDelivers == last' = Nothing => BordersDeliver'
<1> SUFFICES ASSUME last' = Nothing PROVE BordersDeliver'
  OBVIOUS
<1>1. Nothing.whole = FALSE
  BY DEF Nothing
<1>2. ~last'.whole
  BY <1>1, Zenon
<1> QED
  BY <1>2, Zenon DEF BordersDeliver

LEMMA ReadDelivers ==
    ASSUME StreamInv, ContentInv, NEW n \in ReadSizes, ReadStream(n)
    PROVE  ContentInv' /\ BordersDeliver'
<1> DEFINE p == Packet(n)
           early == Early(p)
           m == Message(p)
           x == FirstOf(n)
           Whole1 == Borders(n) /\ x.part = <<>>
<1>1. \/ Drop(n, early) \/ Break(n, p, early) \/ Stray(n, p, early)
      \/ early = NoError /\ (Refuse(n, m) \/ Handle(n, m))
  BY Zenon DEF ReadStream, Packet, NoError
<1>2. n \in 1..Len(stream)
  BY DEF ReadSizes
<1>3. Take(n) => ContentInv'
  BY <1>2, ContentTaken
<1>4. Leave => ContentInv'
  BY ContentLeft
<1>5. Whole1 => Meets(p, x.msg)
  BY WholeMet, Zenon
<1>6. Whole1 => early = ErrMsgIDNotSupportted \/ early = NoError
  BY <1>5, EarlyIs, Zenon DEF Meets
<1> HIDE DEF p, early, m, x
<1>7. CASE Drop(n, early)
  <2>1. Take(n) /\ Record(n, early, NoMessage, NoMessage) /\ early # NoError
    BY <1>7, Zenon DEF Drop, NoError
  <2>2. Whole1 => early \in {ErrMsgIDNotSupportted, ErrDeviceNotFound}
    BY <1>6, <2>1, Zenon
  <2> QED
    BY <1>3, <2>1, <2>2, RecordIs, Zenon DEF x
<1>8. CASE Break(n, p, early)
  <2>1. Leave /\ Record(n, Panic, NoMessage, NoMessage) /\ early = Panic
    BY <1>8, Zenon DEF Break
  <2>2. Panic # ErrMsgIDNotSupportted /\ Panic # NoError
    BY Zenon DEF Panic, ErrMsgIDNotSupportted, NoError
  <2>3. ~Whole1
    BY <1>6, <2>1, <2>2, Zenon
  <2> QED
    BY <1>4, <2>1, <2>3, RecordIs, Zenon DEF x
<1>9. CASE Stray(n, p, early)
  <2>1. Take(n) /\ Record(n, ErrDeviceNotFound, NoMessage, NoMessage)
    BY <1>9, Zenon DEF Stray
  <2> QED
    BY <1>3, <2>1, RecordIs, Zenon
<1>10. CASE Refuse(n, m)
  <2>1. Leave /\ Record(n, ErrDeviceNotFound, NoMessage, NoMessage)
    BY <1>10 DEF Refuse
  <2> QED
    BY <1>4, <2>1, RecordIs, Zenon
<1>11. CASE Handle(n, m)
  <2>1. Take(n) /\ \E answer : Record(n, "", m, answer)
    BY <1>11, Zenon DEF Handle
  <2>2. Whole1 => m = Measured(x.msg)
    BY <1>5, Zenon DEF Meets, m
  <2>3. PICK answer : Record(n, "", m, answer)
    BY <2>1, Zenon
  <2> QED
    BY <1>3, <2>1, <2>2, <2>3, RecordIs, Zenon DEF x
<1> QED
  BY <1>1, <1>7, <1>8, <1>9, <1>10, <1>11, Zenon

LEMMA ContentInit == Init => ContentInv /\ BordersDeliver
<1> SUFFICES ASSUME Init PROVE ContentInv /\ BordersDeliver
  OBVIOUS
<1>1. stream = <<>> /\ sent = <<>> /\ skip = 0 /\ last = Nothing
  BY Zenon DEF Init
<1> DEFINE none == <<>>
           a == OctetsOf(none)
<1>2. none \in Seq(Cleans) /\ SizeOf(none) = 0
  BY SizeEmpty
<1> HIDE DEF none
<1>3. a \in Seq(Octet) /\ Len(a) = 0
  BY <1>2, OctetsSize, FramesTyped
<1> HIDE DEF a
<1>4. a = <<>>
  BY <1>3, EmptySeq
<1>5. Others(<<>>, 0) = <<>>
  BY DEF Others
<1>6. stream = Others(OctetsOf(sent), skip)
  BY <1>1, <1>4, <1>5, Zenon DEF a, none
<1>7. sent \in Seq(Cleans)
  BY <1>1, <1>2, Zenon DEF none
<1>8. BordersDeliver
  BY <1>1, Zenon DEF BordersDeliver, Nothing
<1> QED
  BY <1>6, <1>7, <1>8, Zenon DEF ContentInv

LEMMA ContentNext ==
    ASSUME IInv, ContentInv, BordersDeliver, [Next]_vars
    PROVE  ContentInv' /\ BordersDeliver'
<1>1. StreamInv
  BY Zenon DEF IInv
<1>2. UNCHANGED <<stream, sent, skip>> => ContentInv'
  <2> SUFFICES ASSUME UNCHANGED <<stream, sent, skip>> PROVE ContentInv'
    OBVIOUS
  <2>1. stream' = stream /\ sent' = sent /\ skip' = skip
    OBVIOUS
  <2> QED
    BY <2>1, Zenon DEF ContentInv, OctetsOf, FramesOf, FrameOf, Content
<1>3. CASE UNCHANGED vars
  <2>1. UNCHANGED <<stream, sent, skip>> /\ last' = last
    BY <1>3 DEF vars
  <2> QED
    BY <1>2, <2>1, Zenon DEF BordersDeliver
<1>4. ASSUME NEW k \in DOMAIN Samples, Send(Samples[k]) PROVE ContentInv' /\ BordersDeliver'
  <2>1. last' = Nothing
    BY <1>4, Zenon DEF Send
  <2> QED
    BY <1>1, <1>4, <2>1, ContentSent, NothingDelivers
<1>5. CASE Close
  <2>1. last' = Nothing /\ Leave
    BY <1>5, Zenon DEF Close
  <2> QED
    BY <2>1, ContentLeft, NothingDelivers
<1>6. CASE Reconnect
  <2>1. UNCHANGED <<stream, sent, skip>> /\ last' = Nothing
    BY <1>6 DEF Reconnect
  <2> QED
    BY <1>2, <2>1, NothingDelivers
<1>7. ASSUME NEW n \in ReadSizes, ReadStream(n) PROVE ContentInv' /\ BordersDeliver'
  BY <1>1, <1>7, ReadDelivers
<1> QED
  BY <1>3, <1>4, <1>5, <1>6, <1>7, Zenon DEF Next

\* A read that begins and ends with frames gives the handler the first message exactly as
\* it was sent, unless the message is of no known kind or from no known device: whatever
\* is sent, however many frames stuck together in the read, and whatever was read before
\* (FrameHandler.Recv, PacketCodec, the Encode and Decode of every message).
THEOREM BordersAreKept == Spec => []BordersDeliver
<1> DEFINE J == IInv /\ ContentInv /\ BordersDeliver
<1>1. Init => J
  BY InvInit, ContentInit
<1>2. J /\ [Next]_vars => J'
  BY StepKeeps, ContentNext
<1>3. J => BordersDeliver
  OBVIOUS
<1> QED
  BY <1>1, <1>2, <1>3, PTL DEF Spec

-----------------------------------------------------------------------------
(* What is read has the type of its field, whatever the octets are.        *)

\* Whatever octets are read as BCD, digits come out (bcd2NumberStr).
LEMMA DigitsTyped ==
    ASSUME NEW b \in Seq(Octet)
    PROVE  bcd2NumberStr(b) \in Seq(Digit)
<1> DEFINE n == 2 * Len(b)
           d == Digits(b)
           fs == {i \in DOMAIN d : d[i] = Fill}
           pos == IF fs = {} THEN 0 ELSE CHOOSE i \in fs : \A j \in fs : j <= i
           u == SubSeq(d, pos + 1, Len(d))
<1>1. n \in Nat
  BY LenProperties
<1>2. ASSUME NEW i \in 1..n
      PROVE  (IF i % 2 = 1 THEN b[(i + 1) \div 2] \div 16 ELSE b[i \div 2] % 16) \in 0..15
  <2>1. i % 2 = 1 => (i + 1) \div 2 \in 1..Len(b)
    BY LenProperties
  <2>2. i % 2 # 1 => i \div 2 \in 1..Len(b)
    BY LenProperties
  <2>3. \A v \in Octet : v \div 16 \in 0..15 /\ v % 16 \in 0..15
    BY DEF Octet
  <2>4. \A k \in 1..Len(b) : b[k] \in Octet
    BY ElementOfSeq
  <2> QED BY <2>1, <2>2, <2>3, <2>4
<1>3. d \in Seq(0..15) /\ Len(d) = n /\ DOMAIN d = 1..n
  BY <1>1, <1>2 DEF Digits
<1>4. bcd2NumberStr(b) = IF pos = 9 THEN <<0>> ELSE u
  BY Zenon DEF bcd2NumberStr
<1> HIDE DEF d, n
<1>5. pos \in 0..n /\ \A j \in fs : j <= pos
  <2>1. CASE fs = {}
    BY <1>1, <2>1
  <2>2. CASE fs # {}
    <3>1. fs \in SUBSET (0..n) /\ fs \in SUBSET (1..n)
      BY <1>3
    <3> HIDE DEF fs
    <3> QED BY <1>1, <2>2, <3>1, LargestIs
  <2> QED BY <2>1, <2>2
<1> HIDE DEF pos
<1>6. ASSUME NEW i \in pos + 1..n PROVE d[i] \in Digit
  <2>1. i \in 1..n /\ ~(i <= pos)
    BY <1>1, <1>5
  <2>2. d[i] \in 0..15 /\ d[i] # 15
    BY <1>3, <1>5, <2>1, ElementOfSeq DEF Fill
  <2> QED BY <2>2 DEF Digit
<1>7. u \in Seq(Digit)
  BY <1>1, <1>3, <1>5, <1>6, SubSeqProperties
<1>8. <<0>> \in Seq(Digit)
  BY DEF Digit
<1> HIDE DEF u
<1> QED BY <1>4, <1>7, <1>8, Zenon

\* A read of as many octets as a field has gives a value of the field's type.
LEMMA ReadTyped ==
    ASSUME NEW f, IsField(f), NEW b \in Seq(Octet), Len(b) = f.size
    PROVE  Typed(f, Read(f, b))
<1>1. f.kind \in {"byte", "word", "bytes", "bcd", "time"} =>
        /\ f.kind = "byte" => f.size = 1 /\ Read(f, b) = b[1]
        /\ f.kind = "word" => f.size = 2 /\ Read(f, b) = WordOf(b)
        /\ f.kind = "bytes" => Read(f, b) = b
        /\ f.kind = "bcd" => Read(f, b) = bcd2NumberStr(b)
        /\ f.kind = "time" => Read(f, b) = ParseTime(bcd2NumberStr(b))
  BY DEF IsField, Byte, Word, DoubleWord, Time, Bytes, BCD, Text, F, Read
<1>2. \A k \in 1..Len(b) : b[k] \in Octet
  BY ElementOfSeq
<1>3. ASSUME f.size = 2 PROVE AWord(WordOf(b))
  <2>1. 2^16 - 1 = 65535
    BY SMT
  <2>2. b[1] \in 0..255 /\ b[2] \in 0..255
    BY <1>2, <1>3 DEF Octet
  <2>3. \A x, y \in 0..255 : x * 256 + y \in 0..2^16 - 1
    BY <2>1, SMT
  <2>4. b[1] * 256 + b[2] \in 0..2^16 - 1
    BY <2>2, <2>3, Zenon
  <2> QED BY <2>4, Zenon DEF AWord, WordOf
<1>4. Clock \in Seq(Digit) /\ IsTime(Clock)
  BY DEF Clock, Digit, IsTime
<1>5. bcd2NumberStr(b) \in Seq(Digit)
  BY DigitsTyped
<1>6. ParseTime(bcd2NumberStr(b)) \in Seq(Digit) /\ IsTime(ParseTime(bcd2NumberStr(b)))
  BY <1>4, <1>5, Zenon DEF ParseTime
<1>7. f.size = 1 => b[1] \in Octet
  BY <1>2
<1> QED BY <1>1, <1>3, <1>5, <1>6, <1>7 DEF Typed

\* A field that is read at all has a value of its type.
LEMMA FieldTyped ==
    ASSUME NEW X, \A x \in X : IsField(x), NEW L \in Seq(X),
           NEW s, Body(s), Readable(s, L), NEW n \in Names(L)
    PROVE  \E f \in X : f.name = n /\ Typed(f, ReadAll(s, L)[n])
<1> DEFINE k == CHOOSE k \in DOMAIN L : L[k].name = n
           at == OffsetOf(L, k)
           f == L[k]
           b == SubSeq(s.mem, at + 1, at + f.size)
<1>1. k \in DOMAIN L /\ f.name = n /\ ReadAll(s, L)[n] = Read(f, b)
  <2>1. ReadAll(s, L)[n] = Read(f, b)
    BY Zenon DEF ReadAll, Names
  <2>2. \E j \in DOMAIN L : L[j].name = n
    BY Zenon DEF Names
  <2> QED BY <2>1, <2>2, Zenon
<1>2. f.size >= 0 /\ IF f.kind = "byte" THEN at < s.len ELSE at + f.size <= Len(s.mem)
  BY <1>1, Zenon DEF Readable
<1>3. k \in 1..Len(L) /\ at = Upto(L, k - 1)
  <2>1. k \in 1..Len(L)
    BY <1>1, LenProperties
  <2> QED BY <2>1, Zenon DEF OffsetOf, Upto, First
<1> HIDE DEF k, at
<1>4. f \in X
  BY <1>3, ElementOfSeq
<1> HIDE DEF f
<1>5. IsField(f) /\ f.size \in Nat /\ (f.kind = "byte" => f.size = 1)
  <2>1. IsField(f)
    BY <1>4
  <2> QED BY <2>1 DEF IsField, Byte, Word, DoubleWord, Time, Bytes, BCD, Text, F
<1>6. at \in Nat
  <2>1. \A x \in X : x.size \in Nat
    BY DEF IsField
  <2>2. k - 1 \in 0..Len(L)
    BY <1>3, LenProperties
  <2> QED BY <1>3, <2>1, <2>2, UptoFacts
<1>7. b \in Seq(Octet) /\ Len(b) = f.size
  <2>1. Len(s.mem) \in Nat /\ at + f.size <= Len(s.mem) /\ s.mem \in Seq(Octet)
    BY <1>2, <1>5, <1>6, LenProperties DEF Body
  <2>2. \A i \in at + 1..at + f.size : s.mem[i] \in Octet
    BY <1>5, <1>6, <2>1, ElementOfSeq
  <2> QED BY <1>5, <1>6, <2>1, <2>2, SubSeqProperties
<1> HIDE DEF b
<1>8. Typed(f, Read(f, b))
  BY <1>5, <1>7, ReadTyped
<1> QED BY <1>1, <1>4, <1>8, Zenon

\* The word of attributes is split into numbers of so many bits (Header.Decode).
LEMMA AttrRange ==
    ASSUME NEW w, AWord(w)
    PROVE  LET a == ReadAttr(w) IN
           /\ a.BodyLength \in 0..2^10 - 1 /\ a.Encryption \in 0..7
           /\ a.PacketFragmented \in 0..1 /\ a.Extra \in 0..1
           /\ a.VersionDesc \in {Version2013, Version2019}
           /\ a.VersionSign = VersionSign(a.VersionDesc)
<1> DEFINE a == w \div 1024
           b == w \div 8192
           c == w \div 16384
           d == w \div 32768
<1>1. 2^10 = 1024 /\ 2^13 = 8192 /\ 2^14 = 16384 /\ 2^15 = 32768
  BY SMT
<1>2. w \in Nat /\ w < 65536
  <2>1. 2^16 = 65536
    BY SMT
  <2> QED BY <2>1, SMT DEF AWord
<1>3. ReadAttr(w) = [BodyLength |-> w % 1024, Encryption |-> a % 8, PacketFragmented |-> b % 2,
                     VersionSign |-> c % 2, Extra |-> d,
                     VersionDesc |-> IF c % 2 = 1 THEN Version2019 ELSE Version2013]
  BY <1>1, SMT DEF ReadAttr
<1>4. a \in Nat
  BY <1>2, SMT
<1>5. b \in Nat
  BY <1>2, SMT
<1>6. c \in Nat
  BY <1>2, SMT
<1>7. d = 0 \/ d = 1
  BY <1>2, SMT
<1> HIDE DEF a, b, c, d
<1>8. \A x \in Nat : x % 8 \in 0..7 /\ x % 2 \in 0..1 /\ x % 1024 \in 0..1023
  BY SMT
<1>9. w % 1024 \in 0..1023 /\ a % 8 \in 0..7 /\ b % 2 \in 0..1 /\ c % 2 \in 0..1
  BY <1>2, <1>4, <1>5, <1>6, <1>8, SMT
<1> QED BY <1>1, <1>3, <1>7, <1>9, SMT DEF VersionSign, Version2013, Version2019

\* What a header is read to can be written, unless the telephone number came short.
LEMMA HeaderWhole ==
    ASSUME NEW s, Body(s), ~ReadHeader(s).panic, NEW h, ReadHeader(s).header = h, ~h.Frag,
           Len(h.PhoneNumber) = IF h.VersionDesc = Version2019 THEN 20 ELSE 12
    PROVE  Whole(h) /\ Headed(h)
<1> DEFINE attr == Attrs(s)
           L == LayoutOf(s)
           read == ReadAll(s, L)
           k == [VersionDesc |-> attr.VersionDesc, Frag |-> attr.PacketFragmented = 1]
<1>1. Readable(s, HeaderStart) /\ Readable(s, L)
  BY Zenon DEF ReadHeader, HeaderStart, Attrs, LayoutOf
<1>2. attr.VersionDesc = k.VersionDesc /\ (attr.PacketFragmented = 1) = k.Frag
  OBVIOUS
<1> HIDE DEF k
<1>3. Made(s, k, ReadHeader(s))
  BY <1>1, <1>2, HeaderMade
<1>4. /\ h = [n \in CommonItems \cup OptionalItems |-> h[n]]
      /\ \A n \in AttrItems : h[n] = attr[n]
      /\ h["Frag"] = k.Frag
      /\ \A n \in Carried(k) : h[n] = read[n]
      /\ \A n \in OptionalItems \ Carried(k) : h[n] = 0
  BY <1>3, Zenon DEF Made
<1>5. AWord(ReadAll(s, HeaderStart)["Attr"])
  <2> DEFINE X == {Word("MsgID"), Word("Attr")}
  <2>1. /\ \A x \in X : IsField(x) /\ x.kind = "word"
        /\ HeaderStart \in Seq(X) /\ "Attr" \in Names(HeaderStart)
    BY DEF HeaderStart, Names, IsField, Word, F
  <2> HIDE DEF X
  <2>2. \E f \in X : f.name = "Attr" /\ Typed(f, ReadAll(s, HeaderStart)["Attr"])
    BY <1>1, <2>1, FieldTyped
  <2> QED BY <2>1, <2>2, Zenon DEF Typed
<1>6. /\ attr.BodyLength \in 0..2^10 - 1 /\ attr.Encryption \in 0..7
      /\ attr.PacketFragmented \in 0..1 /\ attr.Extra \in 0..1
      /\ attr.VersionDesc \in {Version2013, Version2019}
      /\ attr.VersionSign = VersionSign(attr.VersionDesc)
  BY <1>5, AttrRange, Zenon DEF Attrs
<1>7. L = HeaderLayout(k.VersionDesc, k.Frag) /\ k.Frag \in BOOLEAN
  <2>1. L = HeaderLayout(attr.VersionDesc, attr.PacketFragmented = 1)
    BY Zenon DEF LayoutOf
  <2>2. (attr.PacketFragmented = 1) \in BOOLEAN
    OBVIOUS
  <2> HIDE DEF L, attr
  <2> QED BY <1>2, <2>1, <2>2
<1> HIDE DEF L
<1>8. Names(L) = Carried(k) \cup {"Attr"} /\ L \in Seq(HeaderFields)
  <2>1. Names(HeaderLayout(k.VersionDesc, k.Frag)) = Carried(k) \cup {"Attr"}
    BY <1>7, HeaderNames
  <2> QED BY <1>7, <2>1, HeaderTyped, Zenon
<1>9. ASSUME NEW n \in Carried(k) PROVE \E f \in HeaderFields : f.name = n /\ Typed(f, h[n])
  <2>1. \A x \in HeaderFields : IsField(x)
    BY DEF HeaderFields, IsField, Word, Byte, BCD, F
  <2>2. n \in Names(L)
    BY <1>8
  <2>3. \E f \in HeaderFields : f.name = n /\ Typed(f, read[n])
    BY <1>1, <1>8, <2>1, <2>2, FieldTyped
  <2> QED BY <1>4, <2>3, Zenon
<1>10. \A f \in HeaderFields : \A v :
         Typed(f, v) => /\ f.name \in {"MsgID", "SerialNumber", "Total", "Index"} => AWord(v)
                        /\ f.name = "ProtocolVersion" => v \in Octet
                        /\ f.name = "PhoneNumber" => v \in Seq(Digit)
  BY DEF HeaderFields, Typed, Word, Byte, BCD, F
<1>11. \A n \in Carried(k) : /\ n \in {"MsgID", "SerialNumber", "Total", "Index"} => AWord(h[n])
                             /\ n = "ProtocolVersion" => h[n] \in Octet
                             /\ n = "PhoneNumber" => h[n] \in Seq(Digit)
  BY <1>9, <1>10, Zenon
<1>12. AWord(0) /\ 0 \in Octet
  BY DEF AWord, Octet
<1>13. h.VersionDesc = k.VersionDesc /\ h.Frag = k.Frag
  BY <1>2, <1>4 DEF AttrItems
<1>14. k.VersionDesc # Version2019 => "ProtocolVersion" \in OptionalItems \ Carried(k)
  BY DEF Carried, OptionalItems
<1>15. {"Total", "Index"} \subseteq OptionalItems \ Carried(k)
  BY <1>13 DEF Carried, OptionalItems
<1>16. k.VersionDesc = Version2019 => "ProtocolVersion" \in Carried(k)
  BY DEF Carried
<1>17. {"MsgID", "SerialNumber", "PhoneNumber"} \subseteq Carried(k)
  BY DEF Carried
<1>18. h["Total"] = 0 /\ h["Index"] = 0 /\ (k.VersionDesc # Version2019 => h["ProtocolVersion"] = 0)
  BY <1>4, <1>14, <1>15
<1>19. Headed(h)
  <2>1. Version2013 # Version2019
    BY DEF Version2013, Version2019
  <2>2. h.VersionDesc = Version2013 => h["ProtocolVersion"] = 0
    BY <1>13, <1>18, <2>1
  <2>3. h["Total"] = h.Total /\ h["Index"] = h.Index /\ h["ProtocolVersion"] = h.ProtocolVersion
    OBVIOUS
  <2> HIDE DEF k, attr
  <2> QED BY <1>4, <1>18, <2>2, <2>3, Zenon DEF Headed
<1>20. /\ \A n \in {"MsgID", "SerialNumber", "Total", "Index"} : AWord(h[n])
       /\ h["ProtocolVersion"] \in Octet /\ h["PhoneNumber"] \in Seq(Digit)
  BY <1>11, <1>12, <1>16, <1>17, <1>18, Zenon
<1>21. /\ h.BodyLength = attr.BodyLength /\ h.Encryption = attr.Encryption
       /\ h.PacketFragmented = attr.PacketFragmented /\ h.Extra = attr.Extra
       /\ h.VersionDesc = attr.VersionDesc /\ h.VersionSign = attr.VersionSign
  BY <1>4 DEF AttrItems
<1>22. CommonItems \cup OptionalItems \subseteq DOMAIN h
  BY <1>4, Zenon
<1>23. h.Frag = (h.PacketFragmented = 1)
  BY <1>2, <1>13, <1>21
<1>24. Len(h["PhoneNumber"]) = IF h.VersionDesc = Version2019 THEN 20 ELSE 12
  OBVIOUS
<1> HIDE DEF attr
<1> QED BY <1>6, <1>19, <1>20, <1>21, <1>22, <1>23, <1>24, Zenon DEF Whole

-----------------------------------------------------------------------------
(* Bodies that fit make messages that may be sent.                         *)

\* A body that fits and is short enough makes a message that may be sent.
LEMMA AnswerWritten ==
    ASSUME NEW a, Whole(a.header), NEW tail, Bodied(a, tail),
           SizeOf(FieldsOf(a)) \in Nat, SizeOf(FieldsOf(a)) + Len(tail) < 2^10,
           HoldsLists(a.header.MsgID, a.header, a.body), NamesOf(a) \subseteq DOMAIN a.body
    PROVE  Written(a)
<1> DEFINE w == WriteAll(FieldsOf(a), a.body)
           body == WriteBody(a)
<1>1. w \in Seq(Octet) /\ tail \in Seq(Octet) /\ Len(w) = SizeOf(FieldsOf(a)) /\ body = w \o tail
      /\ HoldAll(FieldsOf(a), a.body)
  BY Zenon DEF Bodied
<1> HIDE DEF w, body
<1>2. Len(body) = Len(w) + Len(tail)
  <2>1. Len(w \o tail) = Len(w) + Len(tail)
    BY <1>1, ConcatProperties
  <2> QED BY <1>1, <2>1, Zenon
<1>3. Len(body) < 2^10
  BY <1>1, <1>2, Zenon
<1>4. Len(WriteBody(a)) < 2^10
  BY <1>3 DEF body
<1> QED BY <1>1, <1>4, Zenon DEF Written, Writable

\* Such a message has no list to fit.
LEMMA NoLists ==
    ASSUME NEW id, id \notin Special, NEW h, NEW b
    PROVE  HoldsLists(id, h, b)
BY SMT DEF HoldsLists, Special

\* Ten bits of the attributes tell the length of a body.
LEMMA TenBits == 2^10 = 1024
BY SMT

\* An answer of a plain layout, no field of it long
LEMMA PlainWritten ==
    ASSUME NEW a, Whole(a.header), a.header.MsgID \notin Special,
           NEW L, PlainLayout(a.header.MsgID) = L, SizeOf(L) \in Nat, SizeOf(L) <= 1000,
           HoldAll(L, a.body), Names(L) \subseteq DOMAIN a.body
    PROVE  Written(a)
<1>1. FieldsOf(a) = L /\ NamesOf(a) = Names(L)
  BY PlainKind
<1>2. Bodied(a, <<>>)
  BY <1>1, PlainBodied
<1>3. SizeOf(FieldsOf(a)) \in Nat /\ SizeOf(FieldsOf(a)) + Len(<<>>) < 2^10
  <2>1. Len(<<>>) = 0
    OBVIOUS
  <2> QED BY <1>1, <2>1, TenBits
<1>4. HoldsLists(a.header.MsgID, a.header, a.body)
  BY NoLists
<1>5. NamesOf(a) \subseteq DOMAIN a.body
  BY <1>1
<1> QED BY <1>2, <1>3, <1>4, <1>5, AnswerWritten, Zenon

\* A common answer may be sent.
LEMMA CommonWritten ==
    ASSUME NEW a, Whole(a.header), a.header.MsgID \notin Special, PlainLayout(a.header.MsgID) = Answer,
           Names(Answer) \subseteq DOMAIN a.body,
           AWord(a.body["AnswerSerialNumber"]), AWord(a.body["AnswerMessageID"]), a.body["Result"] \in Octet
    PROVE  Written(a)
<1> DEFINE b == a.body
<1>2. /\ DOMAIN Answer = 1..3
      /\ Answer[1] = Word("AnswerSerialNumber") /\ Answer[1].name = "AnswerSerialNumber"
      /\ Answer[2] = Word("AnswerMessageID") /\ Answer[2].name = "AnswerMessageID"
      /\ Answer[3] = Byte("Result") /\ Answer[3].name = "Result"
      /\ \A k \in 1..3 : Answer[k].size <= 40
  BY DEF Answer, Word, Byte, F
<1>3. /\ Holds(Word("AnswerSerialNumber"), b["AnswerSerialNumber"])
      /\ Holds(Word("AnswerMessageID"), b["AnswerMessageID"])
      /\ Holds(Byte("Result"), b["Result"])
  BY HeldMade
<1> HIDE DEF b
<1>4. HoldAll(Answer, b)
  <2>1. \A k \in DOMAIN Answer : k = 1 \/ k = 2 \/ k = 3
    BY <1>2
  <2> QED BY <1>2, <1>3, <2>1, Zenon DEF HoldAll
<1>5. SizeOf(Answer) \in Nat /\ SizeOf(Answer) <= 1000
  <2>1. Formal(Answer) /\ Len(Answer) = 3
    BY AnswerFormal
  <2>2. \A k \in 1..Len(Answer) : Answer[k].size <= 40
    BY <1>2, <2>1
  <2>3. SizeOf(Answer) \in Nat /\ SizeOf(Answer) <= 40 * Len(Answer)
    BY <2>1, <2>2, ShortFields
  <2> QED BY <2>1, <2>3
<1> QED BY <1>4, <1>5, PlainWritten DEF b

\* A list of media with the times of the query may be sent.
LEMMA MediaWritten ==
    ASSUME NEW a, Whole(a.header), a.header.MsgID \notin Special, PlainLayout(a.header.MsgID) = MediaList,
           Names(MediaList) \subseteq DOMAIN a.body,
           NEW b, a.body = b, AWord(b["AnswerSerialNumber"]),
           b["MediaCount"] = <<0, 1>>, b["LogicChannelID"] \in Octet,
           b["StartTime"] \in Seq(Digit), IsTime(b["StartTime"]),
           b["EndTime"] \in Seq(Digit), IsTime(b["EndTime"]),
           b["AlarmSign"] = <<0, 0>>, b["AlarmSignExt"] = <<0, 0>>, b["MediaType"] = 0,
           b["StreamType"] = 0, b["StorageType"] = 0, b["Size"] = <<0, 0>>
    PROVE  Written(a)
<1> DEFINE q == MediaQuery
<1>1. /\ DOMAIN q = 1..8 /\ q[1] = Byte("LogicChannelID") /\ q[1].name = "LogicChannelID"
      /\ q[2] = Time("StartTime") /\ q[2].name = "StartTime"
      /\ q[3] = Time("EndTime") /\ q[3].name = "EndTime"
      /\ q[4] = DoubleWord("AlarmSign") /\ q[4].name = "AlarmSign"
      /\ q[5] = DoubleWord("AlarmSignExt") /\ q[5].name = "AlarmSignExt"
      /\ q[6] = Byte("MediaType") /\ q[6].name = "MediaType"
      /\ q[7] = Byte("StreamType") /\ q[7].name = "StreamType"
      /\ q[8] = Byte("StorageType") /\ q[8].name = "StorageType"
  BY DEF MediaQuery, Byte, Time, DoubleWord, F
<1> HIDE DEF q
<1>2. HoldAll(q, b)
  <2>1. Holds(Byte("LogicChannelID"), b["LogicChannelID"])
    BY HeldMade
  <2>2. Holds(Time("StartTime"), b["StartTime"])
    BY HeldMade
  <2>3. Holds(Time("EndTime"), b["EndTime"])
    BY HeldMade
  <2>4. Holds(DoubleWord("AlarmSign"), b["AlarmSign"]) /\ Holds(DoubleWord("AlarmSignExt"), b["AlarmSignExt"])
    BY NoughtHeld
  <2>5. \A name : Holds(Byte(name), 0)
    BY NoughtHeld, HeldMade
  <2>6. \A k \in DOMAIN q : k = 1 \/ k = 2 \/ k = 3 \/ k = 4 \/ k = 5 \/ k = 6 \/ k = 7 \/ k = 8
    BY <1>1
  <2>7. /\ Holds(Byte("MediaType"), b["MediaType"]) /\ Holds(Byte("StreamType"), b["StreamType"])
        /\ Holds(Byte("StorageType"), b["StorageType"])
    BY <2>5
  <2>8. /\ Holds(q[1], b[q[1].name]) /\ Holds(q[2], b[q[2].name]) /\ Holds(q[3], b[q[3].name])
        /\ Holds(q[4], b[q[4].name]) /\ Holds(q[5], b[q[5].name]) /\ Holds(q[6], b[q[6].name])
        /\ Holds(q[7], b[q[7].name]) /\ Holds(q[8], b[q[8].name])
    BY <1>1, <2>1, <2>2, <2>3, <2>4, <2>7, Zenon
  <2> QED BY <2>6, <2>8, Zenon DEF HoldAll
<1>3. Holds(Word("AnswerSerialNumber"), b["AnswerSerialNumber"])
  BY HeldMade
<1>4. Holds(DoubleWord("MediaCount"), b["MediaCount"]) /\ Holds(DoubleWord("Size"), b["Size"])
  BY NoughtHeld
<1>5. HoldAll(MediaList, a.body)
  BY <1>2, <1>3, <1>4, MediaListIs, Zenon DEF q
<1>6. SizeOf(MediaList) \in Nat /\ SizeOf(MediaList) <= 1000
  BY MediaListIs
<1> QED BY <1>5, <1>6, PlainWritten

\* The outcome of a registration fits, with a code of n octets.
LEMMA RegistrationAnswerHeld ==
    ASSUME NEW b, NEW n, AWord(b["AnswerSerialNumber"]), b["Result"] \in Octet,
           b["AuthCode"] \in Seq(Octet), Len(b["AuthCode"]) = n
    PROVE  HoldAll(RegistrationAnswer(n), b)
<1> DEFINE L == RegistrationAnswer(n)
<1>1. /\ DOMAIN L = 1..3
      /\ L[1] = Word("AnswerSerialNumber") /\ L[1].name = "AnswerSerialNumber"
      /\ L[2] = Byte("Result") /\ L[2].name = "Result"
      /\ L[3] = Bytes("AuthCode", n) /\ L[3].name = "AuthCode"
  BY DEF RegistrationAnswer, Word, Byte, Bytes, F
<1> HIDE DEF L
<1>2. Holds(Word("AnswerSerialNumber"), b["AnswerSerialNumber"])
  BY HeldMade
<1>3. Holds(Byte("Result"), b["Result"])
  BY HeldMade
<1>4. Holds(Bytes("AuthCode", n), b["AuthCode"])
  BY HeldMade
<1>5. \A k \in DOMAIN L : k = 1 \/ k = 2 \/ k = 3
  BY <1>1
<1>6. HoldAll(L, b)
  BY <1>1, <1>2, <1>3, <1>4, <1>5, Zenon DEF HoldAll
<1> QED BY <1>6 DEF L

\* An authentication fits, with a code of n octets.
LEMMA AuthenticationHeld ==
    ASSUME NEW b, NEW n, NEW version, b["AuthCode"] \in Seq(Octet), Len(b["AuthCode"]) = n,
           version = Version2019 => /\ b["AuthCodeLen"] \in Octet
                                    /\ Holds(F("IMEI", "fill", 15), b["IMEI"])
                                    /\ Holds(F("SoftwareVersion", "note", 20), b["SoftwareVersion"])
    PROVE  /\ HoldAll(Authentication(version, n), b)
           /\ SizeOf(Authentication(version, n)) = IF version = Version2019 THEN 36 + n ELSE n
           /\ n \in Nat
<1>1. n \in Nat
  BY LenProperties
<1>2. Holds(Bytes("AuthCode", n), b["AuthCode"])
  BY HeldMade
<1>3. CASE version = Version2019
  <2> DEFINE L == Authentication(version, n)
             i == F("IMEI", "fill", 15)
             v == F("SoftwareVersion", "note", 20)
  <2>1. /\ DOMAIN L = 1..4 /\ L = [k \in 1..4 |-> L[k]]
        /\ L[1] = Byte("AuthCodeLen") /\ L[1].name = "AuthCodeLen" /\ L[1].size = 1
        /\ L[2] = Bytes("AuthCode", n) /\ L[2].name = "AuthCode" /\ L[2].size = n
        /\ L[3] = i /\ L[3].name = "IMEI" /\ L[3].size = 15
        /\ L[4] = v /\ L[4].name = "SoftwareVersion" /\ L[4].size = 20
    BY <1>3 DEF Authentication, Byte, Bytes, F
  <2>2. Formal(L)
    BY <1>1, AuthenticationFormal
  <2> HIDE DEF L
  <2>3. Len(L) = 4
    <3>1. DOMAIN L = 1..Len(L) /\ Len(L) \in Nat
      BY <2>2, FormalFacts
    <3> QED BY <2>1, <3>1
  <2>4. Holds(Byte("AuthCodeLen"), b["AuthCodeLen"]) /\ Holds(i, b["IMEI"]) /\ Holds(v, b["SoftwareVersion"])
    <3>1. b["AuthCodeLen"] \in Octet
      BY <1>3
    <3>2. Holds(Byte("AuthCodeLen"), b["AuthCodeLen"])
      BY <3>1, HeldMade
    <3> QED BY <1>3, <3>2
  <2>5. \A k \in DOMAIN L : k = 1 \/ k = 2 \/ k = 3 \/ k = 4
    BY <2>1
  <2> HIDE DEF i, v
  <2>6. HoldAll(L, b)
    BY <1>2, <2>1, <2>4, <2>5, Zenon DEF HoldAll
  <2> DEFINE x(j) == Upto(L, j)
  <2>7. x(0) = 0 /\ x(4) = SizeOf(L) /\ \A j \in 1..4 : x(j) = x(j - 1) + L[j].size
    <3>1. PICK X : L \in Seq(X) /\ \A f \in X : f.size \in Nat
      BY <2>2, FormalFacts
    <3> QED BY <2>3, <3>1, UptoFacts
  <2> HIDE DEF x
  <2>8. x(4) = 36 + n
    <3>1. x(1) = 1 /\ x(2) = 1 + n /\ x(3) = 16 + n
      BY <1>1, <2>1, <2>7
    <3> QED BY <1>1, <2>1, <2>7, <3>1
  <2> QED BY <1>1, <1>3, <2>6, <2>7, <2>8 DEF L
<1>4. CASE version # Version2019
  <2> DEFINE f == Bytes("AuthCode", n)
  <2>1. Authentication(version, n) = <<f>>
    BY <1>4 DEF Authentication
  <2>2. f.name = "AuthCode" /\ f.size = n
    BY DEF Bytes, F
  <2> HIDE DEF f
  <2>3. SizeOf(<<f>>) = n
    BY <1>1, <2>2, SizeOne
  <2>4. DOMAIN <<f>> = 1..1 /\ <<f>>[1] = f
    OBVIOUS
  <2>5. \A k \in DOMAIN <<f>> : <<f>>[k] = f
    BY <2>4
  <2>6. HoldAll(<<f>>, b)
    BY <1>2, <2>2, <2>5, Zenon DEF HoldAll, f
  <2> QED BY <1>1, <1>4, <2>1, <2>3, <2>6
<1> QED BY <1>3, <1>4

\* The fields in front of the parameters fit.
LEMMA ParamsAnswerHeld ==
    ASSUME NEW b, AWord(b["AnswerSerialNumber"]), b["AnswerParamCnt"] \in Octet
    PROVE  HoldAll(ParamsAnswer, b) /\ SizeOf(ParamsAnswer) = 3
<1> DEFINE L == ParamsAnswer
<1>1. /\ DOMAIN L = 1..2
      /\ L[1] = Word("AnswerSerialNumber") /\ L[1].name = "AnswerSerialNumber" /\ L[1].size = 2
      /\ L[2] = Byte("AnswerParamCnt") /\ L[2].name = "AnswerParamCnt" /\ L[2].size = 1
  BY DEF ParamsAnswer, Word, Byte, F
<1>2. Formal(L) /\ Len(L) = 2
  BY ParamsAnswerFormal
<1> HIDE DEF L
<1>3. Holds(Word("AnswerSerialNumber"), b["AnswerSerialNumber"])
  BY HeldMade
<1>4. Holds(Byte("AnswerParamCnt"), b["AnswerParamCnt"])
  BY HeldMade
<1>5. \A k \in DOMAIN L : k = 1 \/ k = 2
  BY <1>1
<1>6. HoldAll(L, b)
  BY <1>1, <1>3, <1>4, <1>5, Zenon DEF HoldAll
<1> DEFINE x(j) == Upto(L, j)
<1>7. x(0) = 0 /\ x(2) = SizeOf(L) /\ \A j \in 1..2 : x(j) = x(j - 1) + L[j].size
  <2>1. PICK X : L \in Seq(X) /\ \A f \in X : f.size \in Nat
    BY <1>2, FormalFacts
  <2> QED BY <1>2, <2>1, UptoFacts
<1> HIDE DEF x
<1>8. x(1) = 2 /\ x(2) = 3
  BY <1>1, <1>7
<1> QED BY <1>6, <1>7, <1>8 DEF L

\* The outcome of a registration may be sent if its code is shorter than 256 octets.
LEMMA RegistrationAnswerWritten ==
    ASSUME NEW a, Whole(a.header), a.header.MsgID = \h8100,
           NEW b, a.body = b, NEW n, HoldAll(RegistrationAnswer(n), b), Len(b.AuthCode) = n,
           n \in Nat, n < 256, Names(RegistrationAnswer(n)) \subseteq DOMAIN b
    PROVE  Written(a)
<1>1. FieldsOf(a) = RegistrationAnswer(n) /\ NamesOf(a) = Names(RegistrationAnswer(n))
  BY RegistrationAnswerKind
<1>2. Bodied(a, <<>>)
  BY <1>1, RegistrationAnswerBodied
<1>3. SizeOf(FieldsOf(a)) \in Nat /\ SizeOf(FieldsOf(a)) + Len(<<>>) < 2^10
  <2>1. Len(<<>>) = 0
    OBVIOUS
  <2>2. SizeOf(RegistrationAnswer(n)) = 3 + n
    BY RegistrationAnswerFormal
  <2> QED BY <1>1, <2>1, <2>2, TenBits
<1>4. HoldsLists(a.header.MsgID, a.header, a.body)
  <2>1. 2^8 = 256
    BY SMT
  <2> QED BY <2>1, SMT DEF HoldsLists
<1>5. NamesOf(a) \subseteq DOMAIN a.body
  BY <1>1
<1> QED BY <1>2, <1>3, <1>4, <1>5, AnswerWritten

\* An authentication may be sent if its code's length is what is written of it.
LEMMA AuthenticationWritten ==
    ASSUME NEW a, Whole(a.header), a.header.MsgID = \h0102,
           NEW b, a.body = b, NEW n, NEW version, a.header.VersionDesc = version,
           HoldAll(Authentication(version, n), b), Len(b.AuthCode) = n, n \in Nat,
           SizeOf(Authentication(version, n)) \in Nat, SizeOf(Authentication(version, n)) < 1024,
           version = Version2019 => b.AuthCodeLen = n,
           Names(Authentication(version, n)) \subseteq DOMAIN b
    PROVE  Written(a)
<1>1. FieldsOf(a) = Authentication(version, n) /\ NamesOf(a) = Names(Authentication(version, n))
  BY AuthenticationKind
<1>2. NamesOf(a) \subseteq DOMAIN a.body
  BY <1>1
<1>3. HoldsLists(a.header.MsgID, a.header, a.body)
  BY SMT DEF HoldsLists
<1>4. Bodied(a, <<>>)
  BY <1>1, <1>2, <1>3, AuthenticationBodied
<1>5. SizeOf(FieldsOf(a)) \in Nat /\ SizeOf(FieldsOf(a)) + Len(<<>>) < 2^10
  <2>1. Len(<<>>) = 0
    OBVIOUS
  <2> QED BY <1>1, <2>1, TenBits
<1> QED BY <1>2, <1>3, <1>4, <1>5, AnswerWritten

\* The answer to 8104 may be sent if the parameters fit one packet.
LEMMA SettingsAnswerWritten ==
    ASSUME NEW a, Whole(a.header), a.header.MsgID = \h0104,
           NEW b, a.body = b, NEW list, b.Parameters = list, HoldsParams(list),
           HoldAll(ParamsAnswer, b), SizeOf(ParamsAnswer) = 3, b.AnswerParamCnt = Len(list),
           Len(WriteParams(list)) < 2^10 - 2,
           Names(ParamsAnswer) \cup {"Parameters"} \subseteq DOMAIN b
    PROVE  Written(a)
<1> DEFINE tail == ListOctets(list)
<1>1. FieldsOf(a) = ParamsAnswer /\ NamesOf(a) = Names(ParamsAnswer) \cup {"Parameters"}
  BY ParamsAnswerKind
<1>2. NamesOf(a) \subseteq DOMAIN a.body
  BY <1>1
<1>3. HoldsLists(a.header.MsgID, a.header, a.body)
  BY SMT DEF HoldsLists
<1>4. Bodied(a, tail)
  BY <1>1, <1>3, SettingsAnswerBodied
<1>5. tail \in Seq(Octet) /\ WriteParams(list) = <<Len(list)>> \o tail /\ Len(list) \in Octet
  BY ListWritten
<1> HIDE DEF tail
<1>6. Len(WriteParams(list)) = 1 + Len(tail) /\ Len(tail) \in Nat
  <2>1. <<Len(list)>> \in Seq(Octet) /\ Len(<<Len(list)>>) = 1
    BY <1>5
  <2>2. Len(<<Len(list)>> \o tail) = Len(<<Len(list)>>) + Len(tail)
    BY <1>5, <2>1, ConcatProperties
  <2>3. Len(tail) \in Nat
    BY <1>5, LenProperties
  <2> QED BY <1>5, <2>1, <2>2, <2>3
<1>7. SizeOf(FieldsOf(a)) \in Nat /\ SizeOf(FieldsOf(a)) + Len(tail) < 2^10
  BY <1>1, <1>6, TenBits
<1> QED BY <1>2, <1>3, <1>4, <1>7, AnswerWritten

-----------------------------------------------------------------------------
(* The answers that the handlers make.                                     *)

\* The header of an answer fits as that of the message did, and is made as it was.
LEMMA AnswerHeader ==
    ASSUME NEW h, Whole(h), Headed(h), NEW id, AWord(id), NEW k, [h EXCEPT !.MsgID = id] = k
    PROVE  /\ Whole(k) /\ Headed(k) /\ k.MsgID = id
           /\ \A n \in (CommonItems \cup OptionalItems) \ {"MsgID"} : k[n] = h[n]
<1> DEFINE C == CommonItems \cup OptionalItems
           len == h["BodyLength"]
<1>1. h = [n \in C |-> h[n]] /\ DOMAIN h = C
  <2>1. h = [n \in C |-> h[n]]
    BY Zenon DEF Headed
  <2> QED BY <2>1, Zenon
<1>2. {"MsgID", "BodyLength", "Frag", "Total", "Index", "VersionDesc", "ProtocolVersion"} \subseteq C
  BY DEF CommonItems, OptionalItems
<1> HIDE DEF C
<1>3. DOMAIN k = C /\ k["MsgID"] = id /\ \A n \in C \ {"MsgID"} : k[n] = h[n]
  BY <1>1, <1>2
<1>4. k = [n \in C |-> k[n]]
  <2>1. k = [n \in DOMAIN h |-> k[n]]
    OBVIOUS
  <2> QED BY <1>1, <2>1, Zenon
<1>5. k["BodyLength"] = len /\ len \in 0..2^10 - 1
  <2>1. k["BodyLength"] = len
    BY <1>2, <1>3
  <2>2. h.BodyLength \in 0..2^10 - 1
    BY Zenon DEF Whole
  <2> QED BY <2>1, <2>2
<1> HIDE DEF len
<1>6. [k EXCEPT !.BodyLength = len] = k
  <2>1. [k EXCEPT !.BodyLength = len] = [n \in DOMAIN k |-> IF n = "BodyLength" THEN len ELSE k[n]]
    OBVIOUS
  <2>2. \A n \in C : (IF n = "BodyLength" THEN len ELSE k[n]) = k[n]
    BY <1>5
  <2> QED BY <1>3, <1>4, <2>1, <2>2
<1>7. Whole(k)
  <2>1. Whole([[h EXCEPT !.MsgID = id] EXCEPT !.BodyLength = len])
    BY <1>5, WholeAnswer
  <2> QED BY <1>6, <2>1
<1>8. Headed(k)
  <2>1. /\ k["Frag"] = h["Frag"] /\ k["Total"] = h["Total"] /\ k["Index"] = h["Index"]
        /\ k["VersionDesc"] = h["VersionDesc"] /\ k["ProtocolVersion"] = h["ProtocolVersion"]
    BY <1>2, <1>3
  <2>2. /\ ~h.Frag /\ h.Total = 0 /\ h.Index = 0
        /\ h.VersionDesc = Version2013 => h.ProtocolVersion = 0
    BY Zenon DEF Headed
  <2>3. /\ ~k.Frag /\ k.Total = 0 /\ k.Index = 0
        /\ k.VersionDesc = Version2013 => k.ProtocolVersion = 0
    BY <2>1, <2>2
  <2> QED BY <1>4, <2>3, Zenon DEF Headed, C
<1>9. k.MsgID = id
  BY <1>3
<1> QED BY <1>3, <1>7, <1>8, <1>9 DEF C

\* Each answered message has an answer of its kind, and 0104 answers 8104 alone.
LEMMA AnswerIds ==
    /\ \A id \in Answered : AWord(AnswerId(id)) /\ AnswerId(id) \in Processed /\ AnswerId(id) # 0
    /\ \A id \in {\h0002, \h0003, \h0102, \h0200, \h8103} :
         AnswerId(id) \notin Special /\ PlainLayout(AnswerId(id)) = Answer
    /\ AnswerId(\h0100) = \h8100 /\ AnswerId(\h8100) = \h0102 /\ AnswerId(\h8104) = \h0104
    /\ AnswerId(\h9205) \notin Special /\ PlainLayout(AnswerId(\h9205)) = MediaList
    /\ \A id \in Answered : AnswerId(id) = \h0104 => id = \h8104
<1>1. 2^16 = 65536
  BY SMT
<1>2. /\ \A id \in {\h0002, \h0003, \h0102, \h0200} : AnswerId(id) = \h8001
      /\ AnswerId(\h0100) = \h8100 /\ AnswerId(\h8100) = \h0102 /\ AnswerId(\h8103) = \h0001
      /\ AnswerId(\h8104) = \h0104 /\ AnswerId(\h9205) = \h1205
  BY SMT DEF AnswerId
<1>3. \A id \in Answered :
        \/ id \in {\h0002, \h0003, \h0102, \h0200}
        \/ id = \h0100 \/ id = \h8100 \/ id = \h8103 \/ id = \h8104 \/ id = \h9205
  BY SMT DEF Answered
<1>4. \A x \in {\h8001, \h8100, \h0102, \h0001, \h0104, \h1205} : AWord(x) /\ x \in Processed /\ x # 0
  BY <1>1, SMT DEF AWord, Processed
<1>5. \A id \in Answered : AWord(AnswerId(id)) /\ AnswerId(id) \in Processed /\ AnswerId(id) # 0
  BY <1>2, <1>3, <1>4, SMT
<1>6. \A x \in {\h0001, \h8001} : x \notin Special /\ PlainLayout(x) = Answer
  BY SMT DEF Special, PlainLayout
<1>7. \h1205 \notin Special /\ PlainLayout(\h1205) = MediaList
  BY SMT DEF Special, PlainLayout
<1>8. \A id \in {\h0002, \h0003, \h0102, \h0200, \h8103} : AnswerId(id) \in {\h0001, \h8001}
  BY <1>2, SMT
<1>9. \A id \in Answered : AnswerId(id) = \h0104 => id = \h8104
  BY <1>2, <1>3, SMT
<1>10. \A id \in {\h0002, \h0003, \h0102, \h0200, \h8103} :
         AnswerId(id) \notin Special /\ PlainLayout(AnswerId(id)) = Answer
  BY <1>6, <1>8, SMT
<1>11. AnswerId(\h9205) \notin Special /\ PlainLayout(AnswerId(\h9205)) = MediaList
  BY <1>2, <1>7, SMT
<1> QED BY <1>2, <1>5, <1>9, <1>10, <1>11, SMT

\* The body that a handler puts into its answer, by MsgID.
LEMMA AnswerBodies ==
    ASSUME NEW h, NEW b, NEW own
    PROVE  /\ h.MsgID \in {\h0002, \h0003, \h0200, \h8103} => AnswerBody(h, b, own) = CommonAnswer(h, 0)
           /\ h.MsgID = \h0102 => AnswerBody(h, b, own) = CommonAnswer(h, own.Result)
           /\ h.MsgID = \h0100 => AnswerBody(h, b, own) = RegistrationOutcome(h, own)
           /\ h.MsgID = \h8100 => AnswerBody(h, b, own) = CodeReturned(b, own)
           /\ h.MsgID = \h8104 => AnswerBody(h, b, own) = SettingsTold(h, own)
           /\ h.MsgID = \h9205 => AnswerBody(h, b, own) = MediaFound(h, b)
<1> DEFINE id == h.MsgID
           common == CommonAnswer(h, 0)
           told == CommonAnswer(h, own.Result)
           outcome == RegistrationOutcome(h, own)
           code == CodeReturned(b, own)
           settings == SettingsTold(h, own)
           media == MediaFound(h, b)
           a == AnswerBody(h, b, own)
<1>1. a = CASE id \in {\h0002, \h0003, \h0200, \h8103} -> common
            [] id = \h0102 -> told
            [] id = \h0100 -> outcome
            [] id = \h8100 -> code
            [] id = \h8104 -> settings
            [] id = \h9205 -> media
  BY DEF AnswerBody, RegistrationOutcome, CodeReturned, SettingsTold, MediaFound
<1> HIDE DEF common, told, outcome, code, settings, media, a
<1>2. /\ id \in {\h0002, \h0003, \h0200, \h8103} => a = common
      /\ id = \h0102 => a = told
      /\ id = \h0100 => a = outcome
      /\ id = \h8100 => a = code
      /\ id = \h8104 => a = settings
      /\ id = \h9205 => a = media
  BY <1>1, SMT
<1> QED BY <1>2, SMT DEF a, common, told, outcome, code, settings, media

\* What a handler puts into an answer besides what it was given.
LEMMA OwnIs ==
    ASSUME NEW m, NEW own \in Own(m), NEW id, m.header.MsgID = id
    PROVE  /\ id = \h8104 => own = [Parameters |-> ParamsAfter(m)]
           /\ id = \h0100 => own.Result \in Octet /\ own.AuthCode \in Seq(Octet) /\ Len(own.AuthCode) < 256
           /\ id = \h0102 => own.Result \in Octet
           /\ id = \h8100 => /\ Holds(F("IMEI", "fill", 15), own.IMEI)
                             /\ Holds(F("SoftwareVersion", "note", 20), own.SoftwareVersion)
<1> DEFINE told == {[Parameters |-> ParamsAfter(m)]}
           known == DOMAIN OwnFields
           held == OwnFields[id]
           set == Own(m)
<1>1. set = CASE id = \h8104 -> told [] id \in known -> held [] OTHER -> {<<>>}
  BY DEF Own
<1>2. known = {\h0100, \h0102, \h8100}
  BY OwnAssumption, SMT
<1> HIDE DEF told, known, held, set
<1>3. (id = \h8104 => set = told) /\ (id \in {\h0100, \h0102, \h8100} => set = held)
  BY <1>1, <1>2, SMT
<1>4. id = \h8104 => own = [Parameters |-> ParamsAfter(m)]
  BY <1>3 DEF told, set
<1>5. 2^8 = 256
  BY SMT
<1>6. id \in {\h0100, \h0102, \h8100} => own \in OwnFields[id]
  BY <1>3 DEF held, set
<1>7. id = \h0100 => own.Result \in Octet /\ own.AuthCode \in Seq(Octet) /\ Len(own.AuthCode) < 256
  BY <1>5, <1>6, OwnAssumption
<1>8. id = \h0102 => own.Result \in Octet
  BY <1>6, OwnAssumption
<1>9. id = \h8100 => /\ Holds(F("IMEI", "fill", 15), own.IMEI)
                     /\ Holds(F("SoftwareVersion", "note", 20), own.SoftwareVersion)
  BY <1>6, OwnAssumption
<1> QED BY <1>4, <1>7, <1>8, <1>9

\* A body without a list that is read at all has values of its fields' types.
LEMMA BodyFields ==
    ASSUME NEW h, NEW s, Body(s), ~ReadBody(h, s).panic, ~HasList(h.MsgID),
           NEW L, BodyLayout(h, s) = L, NEW X, \A x \in X : IsField(x), L \in Seq(X)
    PROVE  \A n \in Names(L) : \E f \in X : f.name = n /\ Typed(f, ReadBody(h, s).body[n])
<1>1. Readable(s, L)
  BY SMT DEF ReadBody
<1>2. ReadBody(h, s) = Got(FALSE, ReadAll(s, L))
  BY <1>1, PlainlyRead
<1>3. ReadBody(h, s).body = ReadAll(s, L)
  BY <1>2 DEF Got
<1>4. \A n \in Names(L) : \E f \in X : f.name = n /\ Typed(f, ReadAll(s, L)[n])
  BY <1>1, FieldTyped
<1> QED BY <1>3, <1>4, Zenon

\* The times of a query for media are times, and its channel an octet.
LEMMA QueryRead ==
    ASSUME NEW h, NEW s, Body(s), ~ReadBody(h, s).panic, h.MsgID = \h9205, NEW b, ReadBody(h, s).body = b
    PROVE  /\ b["LogicChannelID"] \in Octet
           /\ \A n \in {"StartTime", "EndTime"} : b[n] \in Seq(Digit) /\ IsTime(b[n])
<1> DEFINE X == {MediaQuery[k] : k \in 1..8}
<1>1. BodyLayout(h, s) = MediaQuery /\ ~HasList(h.MsgID)
  BY SMT DEF BodyLayout, HasList
<1>2. Formal(MediaQuery) /\ Len(MediaQuery) = 8
      /\ {"LogicChannelID", "StartTime", "EndTime"} \subseteq Names(MediaQuery)
  BY MediaQueryFormal
<1>3. MediaQuery \in Seq(X) /\ \A x \in X : IsField(x)
  <2>1. DOMAIN MediaQuery = 1..8 /\ MediaQuery = [k \in 1..8 |-> MediaQuery[k]]
    BY <1>2, FormalFacts
  <2>2. \A k \in 1..8 : IsField(MediaQuery[k])
    BY <1>2, <2>1 DEF Formal
  <2> QED BY <1>2, <2>1, <2>2
<1>4. \A f \in X : \A v :
        Typed(f, v) => /\ f.name = "LogicChannelID" => v \in Octet
                       /\ f.name \in {"StartTime", "EndTime"} => v \in Seq(Digit) /\ IsTime(v)
  BY DEF MediaQuery, Typed, Byte, Time, DoubleWord, F
<1> HIDE DEF X
<1>5. \A n \in Names(MediaQuery) : \E f \in X : f.name = n /\ Typed(f, b[n])
  BY <1>1, <1>3, BodyFields
<1>6. PICK g \in X : g.name = "LogicChannelID" /\ Typed(g, b["LogicChannelID"])
  BY <1>2, <1>5
<1>7. ASSUME NEW n \in {"StartTime", "EndTime"} PROVE b[n] \in Seq(Digit) /\ IsTime(b[n])
  <2>1. PICK f \in X : f.name = n /\ Typed(f, b[n])
    BY <1>2, <1>5
  <2> QED BY <1>4, <2>1
<1> QED BY <1>4, <1>6, <1>7

\* The code that a terminal is given is as long as the body leaves room for.
LEMMA CodeRead ==
    ASSUME NEW h, NEW s, Body(s), ~ReadBody(h, s).panic, h.MsgID = \h8100, NEW b, ReadBody(h, s).body = b,
           h.BodyLength \in 0..2^10 - 1
    PROVE  b["AuthCode"] \in Seq(Octet) /\ Len(b["AuthCode"]) < 1021
<1> DEFINE n == h.BodyLength - SizeOf(RegistrationAnswer(0))
           L == RegistrationAnswer(n)
           X == {L[k] : k \in 1..3}
<1>1. BodyLayout(h, s) = L /\ ~HasList(h.MsgID)
  BY SMT DEF BodyLayout, HasList
<1>2. n = h.BodyLength - 3 /\ n \in Int /\ n < 1021
  <2>1. SizeOf(RegistrationAnswer(0)) = 3
    BY RegistrationAnswerFormal
  <2> QED BY <2>1, TenBits
<1>3. Readable(s, L)
  BY <1>1, SMT DEF ReadBody
<1>4. /\ DOMAIN L = 1..3 /\ L[3] = Bytes("AuthCode", n)
      /\ Bytes("AuthCode", n).size = n /\ Bytes("AuthCode", n).kind = "bytes"
      /\ L[1].name # "AuthCode" /\ L[2].name # "AuthCode" /\ L[3].name = "AuthCode"
  BY DEF RegistrationAnswer, Word, Byte, Bytes, F
<1> HIDE DEF n, L
<1>5. n \in Nat
  <2>1. L[3].size >= 0
    BY <1>3, <1>4 DEF Readable
  <2> QED BY <1>2, <1>4, <2>1
<1>6. Formal(L)
  BY <1>5, RegistrationAnswerFormal DEF L
<1>7. L \in Seq(X) /\ \A x \in X : IsField(x)
  <2>1. DOMAIN L = 1..Len(L) /\ Len(L) \in Nat /\ L = [k \in 1..Len(L) |-> L[k]]
    BY <1>6, FormalFacts
  <2>2. L = [k \in 1..3 |-> L[k]]
    BY <1>4, <2>1
  <2>3. \A k \in 1..3 : IsField(L[k])
    BY <1>4, <1>6 DEF Formal
  <2> QED BY <2>2, <2>3
<1>8. \A f \in X : f.name = "AuthCode" => f = Bytes("AuthCode", n)
  BY <1>4
<1>9. "AuthCode" \in Names(L)
  BY <1>4 DEF Names
<1> HIDE DEF X
<1>10. \E f \in X : f.name = "AuthCode" /\ Typed(f, b["AuthCode"])
  BY <1>1, <1>7, <1>9, BodyFields
<1>11. Typed(Bytes("AuthCode", n), b["AuthCode"])
  <2>1. PICK f \in X : f.name = "AuthCode" /\ Typed(f, b["AuthCode"])
    BY <1>10
  <2>2. f = Bytes("AuthCode", n)
    BY <1>8, <2>1
  <2> QED BY <2>1, <2>2
<1> QED BY <1>2, <1>4, <1>11 DEF Typed

\* Each kind of answer may be sent and names the message it answers.
LEMMA CommonReply ==
    ASSUME NEW h, AWord(h.SerialNumber), AWord(h.MsgID), NEW r \in Octet, NEW k, Whole(k),
           k.MsgID \notin Special, PlainLayout(k.MsgID) = Answer,
           NEW body, CommonAnswer(h, r) = body
    PROVE  Written([header |-> k, body |-> body]) /\ Naming(h, body)
<1> DEFINE a == [header |-> k, body |-> body]
<1>1. /\ DOMAIN body = {"AnswerSerialNumber", "AnswerMessageID", "Result"}
      /\ body["AnswerSerialNumber"] = h.SerialNumber /\ body["AnswerMessageID"] = h.MsgID
      /\ body["Result"] = r
  BY DEF CommonAnswer
<1>2. Names(Answer) \subseteq DOMAIN body
  BY <1>1, AnswerFormal
<1>3. a.header = k /\ a.body = body
  OBVIOUS
<1> HIDE DEF a
<1>4. Written(a)
  BY <1>1, <1>2, <1>3, CommonWritten
<1> QED BY <1>1, <1>4 DEF a, Naming

\* The answer to 9205
LEMMA MediaReply ==
    ASSUME NEW h, AWord(h.SerialNumber), NEW b, b["LogicChannelID"] \in Octet,
           \A n \in {"StartTime", "EndTime"} : b[n] \in Seq(Digit) /\ IsTime(b[n]), NEW k, Whole(k),
           k.MsgID \notin Special, PlainLayout(k.MsgID) = MediaList,
           NEW body, MediaFound(h, b) = body
    PROVE  Written([header |-> k, body |-> body]) /\ Naming(h, body)
<1> DEFINE a == [header |-> k, body |-> body]
<1>1. /\ DOMAIN body = {"AnswerSerialNumber", "MediaCount", "LogicChannelID", "StartTime", "EndTime",
                        "AlarmSign", "AlarmSignExt", "MediaType", "StreamType", "StorageType", "Size"}
      /\ body["AnswerSerialNumber"] = h.SerialNumber
      /\ body["MediaCount"] = <<0, 1>> /\ body["LogicChannelID"] = b["LogicChannelID"]
      /\ body["StartTime"] = b["StartTime"] /\ body["EndTime"] = b["EndTime"]
      /\ body["AlarmSign"] = <<0, 0>> /\ body["AlarmSignExt"] = <<0, 0>> /\ body["MediaType"] = 0
      /\ body["StreamType"] = 0 /\ body["StorageType"] = 0 /\ body["Size"] = <<0, 0>>
  BY DEF MediaFound
<1>2. Names(MediaList) \subseteq DOMAIN body
  BY <1>1, MediaListIs
<1>3. a.header = k /\ a.body = body
  OBVIOUS
<1>4. /\ b["StartTime"] \in Seq(Digit) /\ IsTime(b["StartTime"])
      /\ b["EndTime"] \in Seq(Digit) /\ IsTime(b["EndTime"])
  OBVIOUS
<1> HIDE DEF a
<1>5. Written(a)
  BY <1>1, <1>2, <1>3, <1>4, MediaWritten
<1>6. "AnswerMessageID" \notin DOMAIN body
  BY <1>1
<1> QED BY <1>5, <1>6 DEF a, Naming

\* The answer to 0100
LEMMA RegistrationReply ==
    ASSUME NEW h, AWord(h.SerialNumber), NEW own, own.Result \in Octet,
           own.AuthCode \in Seq(Octet), Len(own.AuthCode) < 256, NEW k, Whole(k), k.MsgID = \h8100,
           NEW body, RegistrationOutcome(h, own) = body
    PROVE  Written([header |-> k, body |-> body]) /\ Naming(h, body)
<1> DEFINE a == [header |-> k, body |-> body]
           n == Len(own.AuthCode)
<1>1. /\ DOMAIN body = {"AnswerSerialNumber", "Result", "AuthCode"}
      /\ body["AnswerSerialNumber"] = h.SerialNumber
      /\ body["Result"] = own.Result /\ body["AuthCode"] = own.AuthCode
  BY DEF RegistrationOutcome
<1>2. n \in Nat
  BY LenProperties
<1>3. Names(RegistrationAnswer(n)) = {"AnswerSerialNumber", "Result", "AuthCode"}
  BY DEF RegistrationAnswer, Names, Word, Byte, Bytes, F
<1>4. HoldAll(RegistrationAnswer(n), body)
  BY <1>1, RegistrationAnswerHeld
<1>5. a.header = k /\ a.body = body
  OBVIOUS
<1> HIDE DEF a, n
<1>6. Len(body.AuthCode) = n /\ n < 256 /\ Names(RegistrationAnswer(n)) \subseteq DOMAIN body
  BY <1>1, <1>3 DEF n
<1>7. Written(a)
  BY <1>2, <1>4, <1>5, <1>6, RegistrationAnswerWritten
<1>8. "AnswerMessageID" \notin DOMAIN body
  BY <1>1
<1> QED BY <1>7, <1>8 DEF a, Naming

\* The answer to 8100
LEMMA CodeReply ==
    ASSUME NEW h, NEW b, b["AuthCode"] \in Seq(Octet), Len(b["AuthCode"]) < 1021,
           NEW own, Holds(F("IMEI", "fill", 15), own.IMEI),
           Holds(F("SoftwareVersion", "note", 20), own.SoftwareVersion),
           NEW k, Whole(k), k.MsgID = \h0102, k.VersionDesc = Version2019 => Len(b["AuthCode"]) < 256,
           NEW body, CodeReturned(b, own) = body
    PROVE  Written([header |-> k, body |-> body]) /\ Naming(h, body)
<1> DEFINE a == [header |-> k, body |-> body]
           n == Len(b["AuthCode"])
           version == k.VersionDesc
<1>1. /\ DOMAIN body = {"AuthCodeLen", "AuthCode", "IMEI", "SoftwareVersion"}
      /\ body["AuthCodeLen"] = n % 256 /\ body["AuthCode"] = b["AuthCode"]
      /\ body["IMEI"] = own.IMEI /\ body["SoftwareVersion"] = own.SoftwareVersion
  BY DEF CodeReturned
<1>2. n \in Nat
  BY LenProperties
<1>3. a.header = k /\ a.body = body
  OBVIOUS
<1>4. n < 1021 /\ (version = Version2019 => n < 256) /\ body["AuthCode"] \in Seq(Octet)
      /\ Len(body["AuthCode"]) = n
  BY <1>1
<1> HIDE DEF a, n, version
<1>5. version = Version2019 => body["AuthCodeLen"] = n /\ body["AuthCodeLen"] \in Octet
  <2>1. \A x \in Nat : x < 256 => x % 256 = x /\ x \in 0..255
    BY SMT
  <2> QED BY <1>1, <1>2, <1>4, <2>1 DEF Octet
<1>6. /\ Holds(F("IMEI", "fill", 15), body["IMEI"])
      /\ Holds(F("SoftwareVersion", "note", 20), body["SoftwareVersion"])
  BY <1>1
<1>7. /\ HoldAll(Authentication(version, n), body)
      /\ SizeOf(Authentication(version, n)) = IF version = Version2019 THEN 36 + n ELSE n
  <2>1. version = Version2019 => /\ body["AuthCodeLen"] \in Octet
                                 /\ Holds(F("IMEI", "fill", 15), body["IMEI"])
                                 /\ Holds(F("SoftwareVersion", "note", 20), body["SoftwareVersion"])
    BY <1>5, <1>6
  <2>2. body["AuthCode"] \in Seq(Octet) /\ Len(body["AuthCode"]) = n
    BY <1>4
  <2> QED BY <2>1, <2>2, AuthenticationHeld
<1>8. SizeOf(Authentication(version, n)) \in Nat /\ SizeOf(Authentication(version, n)) < 1024
  BY <1>2, <1>4, <1>7
<1>9. Names(Authentication(version, n)) \subseteq DOMAIN body
  BY <1>1, <1>2, AuthenticationFormal
<1>10. Len(body.AuthCode) = n /\ (version = Version2019 => body.AuthCodeLen = n)
       /\ a.header.VersionDesc = version
  BY <1>3, <1>4, <1>5 DEF version
<1>11. Written(a)
  BY <1>2, <1>3, <1>7, <1>8, <1>9, <1>10, AuthenticationWritten
<1>12. "AnswerMessageID" \notin DOMAIN body
  BY <1>1
<1> QED BY <1>11, <1>12 DEF a, Naming

\* The answer to 8104, with the parameters as they are
LEMMA SettingsReply ==
    ASSUME NEW h, AWord(h.SerialNumber), NEW own, NEW list, own.Parameters = list, HoldsParams(list),
           Len(WriteParams(list)) < 2^10 - 2, NEW k, Whole(k), k.MsgID = \h0104,
           NEW body, SettingsTold(h, own) = body
    PROVE  Written([header |-> k, body |-> body]) /\ Naming(h, body) /\ body.Parameters = list
<1> DEFINE a == [header |-> k, body |-> body]
           n == Len(list)
<1>1. /\ DOMAIN body = {"AnswerSerialNumber", "AnswerParamCnt", "Parameters"}
      /\ body["AnswerSerialNumber"] = h.SerialNumber
      /\ body["AnswerParamCnt"] = n % 256 /\ body["Parameters"] = list
  BY DEF SettingsTold
<1>2. n \in Octet
  BY ListWritten
<1>3. a.header = k /\ a.body = body
  OBVIOUS
<1> HIDE DEF a, n
<1>4. body["AnswerParamCnt"] = n /\ body["AnswerParamCnt"] \in Octet
  <2>1. \A x \in Octet : x % 256 = x
    BY SMT DEF Octet
  <2> QED BY <1>1, <1>2, <2>1
<1>5. HoldAll(ParamsAnswer, body) /\ SizeOf(ParamsAnswer) = 3
  BY <1>1, <1>4, ParamsAnswerHeld
<1>6. Names(ParamsAnswer) \cup {"Parameters"} \subseteq DOMAIN body
  BY <1>1, ParamsAnswerFormal
<1>7. body.AnswerParamCnt = Len(list) /\ body.Parameters = list
  BY <1>1, <1>4 DEF n
<1>8. Written(a)
  BY <1>3, <1>5, <1>6, <1>7, SettingsAnswerWritten
<1>9. "AnswerMessageID" \notin DOMAIN body
  BY <1>1
<1> QED BY <1>7, <1>8, <1>9 DEF a, Naming

\* So whatever message is answered, the body of its answer may be sent.
LEMMA BodyReplies ==
    ASSUME NEW m, NEW h, m.header = h, NEW b, m.body = b, Whole(h), h.MsgID \in Answered,
           NEW s, Body(s), ~ReadBody(h, s).panic, ReadBody(h, s).body = b,
           NEW own \in Own(m), CodeFits(h, b), ListFits(h, ParamsAfter(m)),
           NEW k, Whole(k), k.MsgID = AnswerId(h.MsgID), k.VersionDesc = h.VersionDesc,
           NEW body, AnswerBody(h, b, own) = body
    PROVE  /\ Written([header |-> k, body |-> body]) /\ Naming(h, body)
           /\ h.MsgID = \h8104 => body.Parameters = ParamsAfter(m)
<1>1. AWord(h.SerialNumber) /\ AWord(h.MsgID) /\ h.BodyLength \in 0..2^10 - 1
  BY Zenon DEF Whole
<1>2. 2^8 = 256
  BY SMT
<1>3. \/ h.MsgID \in {\h0002, \h0003, \h0200, \h8103} \/ h.MsgID = \h0102
      \/ h.MsgID = \h0100 \/ h.MsgID = \h8100 \/ h.MsgID = \h8104 \/ h.MsgID = \h9205
  BY SMT DEF Answered
<1>4. ASSUME h.MsgID \in {\h0002, \h0003, \h0200, \h8103} \/ h.MsgID = \h0102
      PROVE  /\ \E r \in Octet : CommonAnswer(h, r) = body
             /\ k.MsgID \notin Special /\ PlainLayout(k.MsgID) = Answer /\ h.MsgID # \h8104
  <2>1. h.MsgID = \h0102 => own.Result \in Octet
    BY OwnIs
  <2>2. 0 \in Octet
    BY DEF Octet
  <2>3. /\ h.MsgID \in {\h0002, \h0003, \h0200, \h8103} => body = CommonAnswer(h, 0)
        /\ h.MsgID = \h0102 => body = CommonAnswer(h, own.Result)
    BY AnswerBodies
  <2>4. h.MsgID \in {\h0002, \h0003, \h0102, \h0200, \h8103}
    BY <1>4, SMT
  <2>5. k.MsgID \notin Special /\ PlainLayout(k.MsgID) = Answer
    BY <2>4, AnswerIds
  <2>6. h.MsgID # \h8104
    BY <1>4, SMT
  <2> QED BY <1>4, <2>1, <2>2, <2>3, <2>5, <2>6, SMT
<1>5. ASSUME h.MsgID = \h9205
      PROVE  /\ b["LogicChannelID"] \in Octet
             /\ \A n \in {"StartTime", "EndTime"} : b[n] \in Seq(Digit) /\ IsTime(b[n])
             /\ MediaFound(h, b) = body
             /\ k.MsgID \notin Special /\ PlainLayout(k.MsgID) = MediaList /\ h.MsgID # \h8104
  <2>1. /\ b["LogicChannelID"] \in Octet
        /\ \A n \in {"StartTime", "EndTime"} : b[n] \in Seq(Digit) /\ IsTime(b[n])
    BY <1>5, QueryRead
  <2>2. MediaFound(h, b) = body
    BY <1>5, AnswerBodies
  <2>3. k.MsgID \notin Special /\ PlainLayout(k.MsgID) = MediaList
    BY <1>5, AnswerIds
  <2>4. h.MsgID # \h8104
    BY <1>5, SMT
  <2> QED BY <2>1, <2>2, <2>3, <2>4
<1>6. ASSUME h.MsgID = \h0100
      PROVE  /\ own.Result \in Octet /\ own.AuthCode \in Seq(Octet) /\ Len(own.AuthCode) < 256
             /\ RegistrationOutcome(h, own) = body /\ k.MsgID = \h8100 /\ h.MsgID # \h8104
  <2>1. own.Result \in Octet /\ own.AuthCode \in Seq(Octet) /\ Len(own.AuthCode) < 256
    BY <1>6, OwnIs
  <2>2. RegistrationOutcome(h, own) = body
    BY <1>6, AnswerBodies
  <2>3. k.MsgID = \h8100
    BY <1>6, AnswerIds
  <2>4. h.MsgID # \h8104
    BY <1>6, SMT
  <2> QED BY <2>1, <2>2, <2>3, <2>4
<1>7. ASSUME h.MsgID = \h8100
      PROVE  /\ b["AuthCode"] \in Seq(Octet) /\ Len(b["AuthCode"]) < 1021
             /\ Holds(F("IMEI", "fill", 15), own.IMEI)
             /\ Holds(F("SoftwareVersion", "note", 20), own.SoftwareVersion)
             /\ CodeReturned(b, own) = body /\ k.MsgID = \h0102 /\ h.MsgID # \h8104
             /\ k.VersionDesc = Version2019 => Len(b["AuthCode"]) < 256
  <2>1. b["AuthCode"] \in Seq(Octet) /\ Len(b["AuthCode"]) < 1021
    BY <1>1, <1>7, CodeRead
  <2>2. Holds(F("IMEI", "fill", 15), own.IMEI) /\ Holds(F("SoftwareVersion", "note", 20), own.SoftwareVersion)
    BY <1>7, OwnIs
  <2>3. CodeReturned(b, own) = body
    BY <1>7, AnswerBodies
  <2>4. k.MsgID = \h0102
    BY <1>7, AnswerIds
  <2>5. h.MsgID # \h8104
    BY <1>7, SMT
  <2>6. k.VersionDesc = Version2019 => Len(b["AuthCode"]) < 256
    BY <1>2, <1>7 DEF CodeFits
  <2> QED BY <2>1, <2>2, <2>3, <2>4, <2>5, <2>6
<1>8. ASSUME h.MsgID = \h8104
      PROVE  /\ own.Parameters = ParamsAfter(m) /\ HoldsParams(ParamsAfter(m))
             /\ Len(WriteParams(ParamsAfter(m))) < 2^10 - 2
             /\ SettingsTold(h, own) = body /\ k.MsgID = \h0104
  <2>1. own = [Parameters |-> ParamsAfter(m)]
    BY <1>8, OwnIs
  <2>2. SettingsTold(h, own) = body
    BY <1>8, AnswerBodies
  <2>3. k.MsgID = \h0104
    BY <1>8, AnswerIds
  <2>4. HoldsParams(ParamsAfter(m)) /\ Len(WriteParams(ParamsAfter(m))) < 2^10 - 2
    BY <1>8 DEF ListFits
  <2>5. own.Parameters = ParamsAfter(m)
    BY <2>1
  <2> QED BY <2>2, <2>3, <2>4, <2>5
<1> DEFINE good == Written([header |-> k, body |-> body]) /\ Naming(h, body)
<1>9. ASSUME NEW r \in Octet, CommonAnswer(h, r) = body, k.MsgID \notin Special, PlainLayout(k.MsgID) = Answer
      PROVE  good
  BY <1>1, <1>9, CommonReply
<1>10. ASSUME b["LogicChannelID"] \in Octet,
              \A n \in {"StartTime", "EndTime"} : b[n] \in Seq(Digit) /\ IsTime(b[n]),
              MediaFound(h, b) = body, k.MsgID \notin Special, PlainLayout(k.MsgID) = MediaList
       PROVE  good
  <2> HIDE DEF good
  <2>1. Written([header |-> k, body |-> body]) /\ Naming(h, body)
    BY <1>1, <1>10, MediaReply
  <2> QED BY <2>1 DEF good
<1>11. ASSUME own.Result \in Octet, own.AuthCode \in Seq(Octet), Len(own.AuthCode) < 256,
              RegistrationOutcome(h, own) = body, k.MsgID = \h8100
       PROVE  good
  BY <1>1, <1>11, RegistrationReply
<1>12. ASSUME b["AuthCode"] \in Seq(Octet), Len(b["AuthCode"]) < 1021,
              Holds(F("IMEI", "fill", 15), own.IMEI),
              Holds(F("SoftwareVersion", "note", 20), own.SoftwareVersion),
              CodeReturned(b, own) = body, k.MsgID = \h0102,
              k.VersionDesc = Version2019 => Len(b["AuthCode"]) < 256
       PROVE  good
  <2>1. Written([header |-> k, body |-> body]) /\ Naming(h, body)
    BY ONLY <1>12, Whole(k), CodeReply
  <2> QED BY <2>1
<1>13. ASSUME NEW list, own.Parameters = list, HoldsParams(list), Len(WriteParams(list)) < 2^10 - 2,
              SettingsTold(h, own) = body, k.MsgID = \h0104
       PROVE  good /\ body.Parameters = list
  BY <1>1, <1>13, SettingsReply
<1> HIDE DEF good
<1>14. h.MsgID = \h8104 => good /\ body.Parameters = ParamsAfter(m)
  BY <1>8, <1>13
<1>15. h.MsgID # \h8104 => good
  <2>1. CASE h.MsgID \in {\h0002, \h0003, \h0200, \h8103} \/ h.MsgID = \h0102
    <3>1. /\ \E r \in Octet : CommonAnswer(h, r) = body
          /\ k.MsgID \notin Special /\ PlainLayout(k.MsgID) = Answer
      BY <1>4, <2>1
    <3> QED BY <1>9, <3>1
  <2>2. CASE h.MsgID = \h9205
    BY <1>5, <1>10, <2>2
  <2>3. CASE h.MsgID = \h0100
    BY <1>6, <1>11, <2>3
  <2>4. CASE h.MsgID = \h8100
    BY <1>7, <1>12, <2>4
  <2> QED BY <1>3, <2>1, <2>2, <2>3, <2>4
<1> QED BY <1>14, <1>15 DEF good

\* An answer has the header of its message with another MsgID (GenOutgoing).
LEMMA AnswerReplies ==
    ASSUME NEW m, NEW h, m.header = h, NEW b, m.body = b, Whole(h), Headed(h), h.MsgID \in Answered,
           NEW s, Body(s), ~ReadBody(h, s).panic, ReadBody(h, s).body = b,
           NEW own \in Own(m), CodeFits(h, b), ListFits(h, ParamsAfter(m)),
           NEW a, GenOutgoing(m, own) = a
    PROVE  Replies(h, a) /\ (h.MsgID = \h8104 => a.body.Parameters = ParamsAfter(m))
<1> DEFINE id == AnswerId(h.MsgID)
           k == [h EXCEPT !.MsgID = id]
           body == AnswerBody(h, b, own)
<1>1. a = [header |-> k, body |-> body]
  BY DEF GenOutgoing
<1>2. AWord(id)
  BY AnswerIds
<1> HIDE DEF id
<1>3. /\ Whole(k) /\ Headed(k) /\ k.MsgID = id
      /\ \A n \in (CommonItems \cup OptionalItems) \ {"MsgID"} : k[n] = h[n]
  BY <1>2, AnswerHeader
<1>4. {"VersionDesc", "PhoneNumber", "SerialNumber"} \subseteq (CommonItems \cup OptionalItems) \ {"MsgID"}
  BY DEF CommonItems
<1> HIDE DEF k, body
<1>5. /\ k.VersionDesc = h.VersionDesc /\ k.PhoneNumber = h.PhoneNumber /\ k.SerialNumber = h.SerialNumber
      /\ k.MsgID = AnswerId(h.MsgID)
  <2>1. /\ k["VersionDesc"] = h["VersionDesc"]
        /\ k["PhoneNumber"] = h["PhoneNumber"] /\ k["SerialNumber"] = h["SerialNumber"]
    BY <1>3, <1>4
  <2> QED BY <1>3, <2>1 DEF id
<1>6. AnswerBody(h, b, own) = body
  BY DEF body
<1>7. /\ Written([header |-> k, body |-> body]) /\ Naming(h, body)
      /\ h.MsgID = \h8104 => body.Parameters = ParamsAfter(m)
  BY <1>3, <1>5, <1>6, BodyReplies
<1>8. a.header = k /\ a.body = body /\ a = [header |-> a.header, body |-> a.body]
  BY <1>1
<1>9. Written(a)
  BY <1>1, <1>7
<1>10. Replies(h, a)
  <2>1. Headed(a.header) /\ a.header.PhoneNumber = h.PhoneNumber /\ a.header.SerialNumber = h.SerialNumber
        /\ a.header.MsgID = AnswerId(h.MsgID)
    BY <1>3, <1>5, <1>8
  <2>2. Naming(h, a.body)
    BY <1>7, <1>8
  <2> QED BY <1>8, <1>9, <2>1, <2>2, Zenon DEF Replies, Paired
<1> QED BY <1>7, <1>8, <1>10

-----------------------------------------------------------------------------
(* Answers that arrive.                                                    *)

\* An answer that can be written reaches the sender of the message.
LEMMA AnswerReceived ==
    ASSUME NEW h, NEW a, Replies(h, a), h.MsgID \in Answered, NEW r, Received(a) = r
    PROVE  /\ r.header.MsgID = AnswerId(h.MsgID)
           /\ r.header.PhoneNumber = h.PhoneNumber /\ r.header.SerialNumber = h.SerialNumber
           /\ r.body = [n \in NamesOf(a) |-> a.body[n]]
           /\ NamesOf(a) \subseteq DOMAIN a.body
<1> DEFINE p == DecodePacket(EncodePacket(a))
           g == Measured(a).header
           y == [n \in NamesOf(a) |-> a.body[n]]
<1>1. /\ Written(a) /\ Headed(a.header) /\ Paired(a)
      /\ a.header.MsgID = AnswerId(h.MsgID)
      /\ a.header.PhoneNumber = h.PhoneNumber /\ a.header.SerialNumber = h.SerialNumber
  BY Zenon DEF Replies
<1>2. Sendable(a)
  BY <1>1, WrittenSendable
<1>3. PICK s, rest : Carries(s, a, rest) /\ p = DecodeVerified(s)
  BY <1>2, PacketCarries
<1>4. /\ Seen(p, a)
      /\ \A n \in (CommonItems \cup OptionalItems) \ {"BodyLength"} : g[n] = a.header[n]
  BY <1>1, <1>3, MessageSeen
<1>5. /\ p.err = NoError /\ ~p.header.Frag /\ ~ReadBody(p.header, p.body).panic
      /\ Message(p) = [header |-> g, body |-> y]
  BY <1>4, SeenIs
<1>6. p.header = g
  BY <1>4, Zenon DEF Seen
<1>7. {"MsgID", "PhoneNumber", "SerialNumber"} \subseteq (CommonItems \cup OptionalItems) \ {"BodyLength"}
  BY DEF CommonItems
<1> HIDE DEF p, g, y
<1>8. g.MsgID = AnswerId(h.MsgID) /\ g.PhoneNumber = h.PhoneNumber /\ g.SerialNumber = h.SerialNumber
  <2>1. g["MsgID"] = a.header["MsgID"] /\ g["PhoneNumber"] = a.header["PhoneNumber"]
        /\ g["SerialNumber"] = a.header["SerialNumber"]
    BY <1>4, <1>7
  <2> QED BY <1>1, <2>1
<1>9. AnswerId(h.MsgID) \in Processed
  BY AnswerIds
<1>10. Early(p) = NoError
  <2>1. p.header.MsgID \in Processed
    BY <1>6, <1>8, <1>9
  <2>2. Early(p) = IF p.header.MsgID \in Processed THEN NoError ELSE ErrMsgIDNotSupportted
    BY <1>5, EarlyIs
  <2> QED BY <2>1, <2>2
<1>11. r = Message(p)
  BY <1>10, Zenon DEF Received, Meant, p, NoError
<1>12. r = [header |-> g, body |-> y]
  BY <1>5, <1>11
<1>13. r.header = g /\ r.body = y
  BY <1>12
<1>14. NamesOf(a) \subseteq DOMAIN a.body
  BY <1>1, WrittenIs
<1> QED BY <1>8, <1>13, <1>14 DEF y

\* The answer to a message that can be answered reaches its sender.
LEMMA AnswerReaches ==
    ASSUME NEW m, NEW h, m.header = h, NEW b, m.body = b, Whole(h), Headed(h), h.MsgID \in Answered,
           NEW s, Body(s), ~ReadBody(h, s).panic, ReadBody(h, s).body = b,
           CodeFits(h, b), ListFits(h, ParamsAfter(m)), NEW r \in Answers(m)
    PROVE  Reaches(m, r) /\ Tells(m, r)
<1>1. Answers(m) = {Received(GenOutgoing(m, own)) : own \in Own(m)}
  BY Zenon DEF Answers
<1>2. PICK own \in Own(m) : r = Received(GenOutgoing(m, own))
  BY <1>1
<1> DEFINE a == GenOutgoing(m, own)
<1>3. Replies(h, a) /\ (h.MsgID = \h8104 => a.body.Parameters = ParamsAfter(m))
  BY AnswerReplies
<1> HIDE DEF a
<1>4. Received(a) = r
  BY <1>2 DEF a
<1>5. /\ r.header.MsgID = AnswerId(h.MsgID)
      /\ r.header.PhoneNumber = h.PhoneNumber /\ r.header.SerialNumber = h.SerialNumber
      /\ r.body = [n \in NamesOf(a) |-> a.body[n]] /\ NamesOf(a) \subseteq DOMAIN a.body
  BY <1>3, <1>4, AnswerReceived
<1>6. r # NoMessage
  <2>1. AnswerId(h.MsgID) # 0
    BY AnswerIds
  <2>2. NoMessage.header.MsgID = 0
    BY DEF NoMessage
  <2> QED BY <1>5, <2>1, <2>2
<1>7. Naming(h, r.body)
  <2>1. Naming(h, a.body)
    BY <1>3 DEF Replies
  <2> SUFFICES ASSUME "AnswerMessageID" \in DOMAIN r.body PROVE r.body["AnswerMessageID"] = h.MsgID
    BY DEF Naming
  <2>2. "AnswerMessageID" \in NamesOf(a)
    BY <1>5
  <2>3. r.body["AnswerMessageID"] = a.body["AnswerMessageID"] /\ "AnswerMessageID" \in DOMAIN a.body
    BY <1>5, <2>2
  <2> QED BY <2>1, <2>3 DEF Naming
<1>8. ASSUME h.MsgID = \h8104 PROVE r.body.Parameters = ParamsAfter(m)
  <2>1. a.header.MsgID = AnswerId(h.MsgID)
    BY <1>3 DEF Replies
  <2>2. a.header.MsgID = \h0104
    BY <1>8, <2>1, AnswerIds
  <2>3. "Parameters" \in NamesOf(a)
    BY <2>2, ParamsAnswerKind
  <2>4. r.body["Parameters"] = a.body["Parameters"]
    BY <1>5, <2>3
  <2> QED BY <1>3, <1>8, <2>4
<1>9. Reaches(m, r)
  BY <1>5, <1>6, <1>7 DEF Reaches
<1> QED BY <1>8, <1>9 DEF Tells

\* What a handler is given, a whole message of a packet that was read
LEMMA HandledAnswer ==
    ASSUME StreamInv, NEW n \in ReadSizes, Early(Packet(n)) = NoError, NEW m, Message(Packet(n)) = m,
           Answerable(m, ParamsAfter(m)), m.header.MsgID \in Answered, NEW r \in Answers(m)
    PROVE  Reaches(m, r) /\ Tells(m, r)
<1> DEFINE p == Packet(n)
           h == m.header
           b == m.body
           octets == First(stream, n)
<1>1. n \in 1..Len(stream) /\ n <= MaxFrameLen
  BY DEF ReadSizes
<1>2. octets \in Seq(Octet) /\ Len(octets) <= LongestArray
  <2>1. n \in 0..Len(stream) /\ stream \in Seq(Octet)
    BY <1>1, LenProperties DEF StreamInv
  <2>2. octets \in Seq(Octet) /\ Len(octets) = n
    BY <2>1, Split
  <2> QED BY <1>1, <2>2 DEF MaxFrameLen, LongestArray
<1>3. p = Recv(octets) /\ p.header = h /\ ReadBody(p.header, p.body).body = b
  <2>1. p = Recv(octets)
    BY Zenon DEF Packet, First
  <2> HIDE DEF octets, p
  <2>2. m = [header |-> p.header, body |-> ReadBody(p.header, p.body).body]
    BY Zenon DEF Message, p
  <2> QED BY <2>1, <2>2
<1>4. p.err = NoError /\ ~ReadBody(p.header, p.body).panic
  BY EarlyGood, Zenon
<1> HIDE DEF p, octets
<1>5. PICK s : Body(s) /\ ~ReadHeader(s).panic /\ ReadHeader(s).header = Recv(octets).header
  BY <1>2, <1>3, <1>4, ReadFrom
<1>6. Body(Recv(octets).body)
  BY <1>2, <1>3, <1>4, ReadFrom
<1>7. /\ ~h.Frag /\ Len(h.PhoneNumber) = IF h.VersionDesc = Version2019 THEN 20 ELSE 12
      /\ CodeFits(h, b) /\ ListFits(h, ParamsAfter(m))
  BY Zenon DEF Answerable
<1>8. ReadHeader(s).header = h
  BY <1>3, <1>5
<1> DEFINE t == p.body
<1>9. Body(t) /\ ~ReadBody(h, t).panic /\ ReadBody(h, t).body = b
  BY <1>3, <1>4, <1>6
<1> HIDE DEF h, b, t
<1>10. Whole(h) /\ Headed(h)
  BY <1>5, <1>7, <1>8, HeaderWhole
<1>11. m.header = h /\ m.body = b /\ h.MsgID \in Answered
  BY DEF h, b
<1> QED BY <1>7, <1>9, <1>10, <1>11, AnswerReaches

-----------------------------------------------------------------------------
(* The parameters and what the terminal was told of them.                  *)

\* A setting that is acknowledged is what the parameters have, one that is not is
\* forgotten.
LEMMA SettingAgrees ==
    ASSUME NEW old, Listed(old), NEW new, Listed(new), NEW told, Agree(old, told),
           NEW list, list = IF old = NoParams THEN new ELSE Update(old, new),
           NEW after, Follows(told, new, after)
    PROVE  Agree(list, after)
<1> DEFINE A == Ids(new)
           B == Ids(old)
           D == DOMAIN told
           E == DOMAIN after
           x(id) == Entry(new, id)
           y(id) == Entry(old, id)
           z(id) == Entry(list, id)
           C == Ids(list)
<1>1. /\ E \subseteq D \cup A
      /\ \A id \in E : /\ id \in A => after[id] = x(id).value
                       /\ id \notin A => id \in D /\ after[id] = told[id]
  BY DEF Follows
<1>2. /\ \A id \in B \cap D : y(id).value = told[id]
      /\ old = NoParams => D = {}
  BY Zenon DEF Agree
<1>3. Ids(NoParams) = {}
  BY DEF Ids, NoParams
<1>4. CASE old = NoParams
  <2>1. list = new /\ D = {}
    BY <1>2, <1>4
  <2>2. \A id : z(id) = x(id)
    BY <2>1, Zenon
  <2>3. C = A
    BY <2>1, Zenon
  <2>4. list = NoParams => C = {}
    BY <1>3, Zenon
  <2> HIDE DEF A, B, C, D, E, x, y, z
  <2>5. \A id \in C \cap E : z(id).value = after[id]
    BY <1>1, <2>1, <2>2, <2>3
  <2>6. list = NoParams => E = {}
    BY <1>1, <2>1, <2>3, <2>4
  <2> QED BY <2>5, <2>6 DEF Agree, C, E, z
<1>5. CASE old # NoParams
  <2>1. list = Update(old, new)
    BY <1>5
  <2>2. C = B /\ \A id \in B : z(id) = Entry(IF id \in A THEN new ELSE old, id)
    <3> DEFINE u == Update(old, new)
               w(id) == Entry(IF id \in A THEN new ELSE old, id)
    <3>1. Ids(u) = B /\ \A id \in B : Entry(u, id) = w(id)
      BY UpdateMerges
    <3>2. list = u
      BY <2>1
    <3> HIDE DEF u, A, B, w
    <3>3. Ids(list) = B /\ \A id \in B : Entry(list, id) = w(id)
      BY <3>1, <3>2
    <3> QED BY <3>3 DEF w
  <2>3. \A id \in B : z(id) = IF id \in A THEN x(id) ELSE y(id)
    BY <2>2
  <2>4. C # {}
    <3>1. old # <<>>
      BY <1>5 DEF NoParams
    <3>2. Len(old) \in Nat /\ DOMAIN old = 1..Len(old) /\ \E X : old \in Seq(X)
      BY ListedIs DEF Listed
    <3>3. 1 \in DOMAIN old
      BY <3>1, <3>2
    <3>4. old[1].id \in B
      BY <3>3 DEF Ids
    <3> QED BY <2>2, <3>4
  <2>5. list = NoParams => C = {}
    BY <1>3, Zenon
  <2> HIDE DEF A, B, C, D, E, x, y, z
  <2>6. \A id \in C \cap E : z(id).value = after[id]
    BY <1>1, <1>2, <2>2, <2>3
  <2> QED BY <2>4, <2>5, <2>6 DEF Agree, C, E, z
<1> QED BY <1>4, <1>5

LEMMA SameAgrees ==
    ASSUME NEW list, NEW told, Agree(list, told), NEW other, other = list, NEW after, after = told
    PROVE  Agree(other, after)
OBVIOUS

\* Handling a message, a setting or another, leaves parameters and settings in agreement.
LEMMA HandleAgrees ==
    ASSUME StreamInv, ParamsInv, Agree(params, acked),
           NEW n \in ReadSizes, Early(Packet(n)) = NoError, NEW m, Message(Packet(n)) = m, Handle(n, m)
    PROVE  Agree(params', acked')
<1> DEFINE new == m.body.Parameters
           id0 == m.header.MsgID
<1>1. params' = ParamsAfter(m) /\ \E answer : acked' = Acknowledged(m, answer)
  BY Zenon DEF Handle
<1>2. PICK answer : acked' = Acknowledged(m, answer)
  BY <1>1
<1>3. params' = CASE id0 = \h8103 -> IF params = NoParams THEN new ELSE Update(params, new)
                  [] id0 = \h8104 -> IF params = NoParams THEN DefaultParams ELSE params
                  [] OTHER -> params
  BY <1>1 DEF ParamsAfter
<1>4. acked' = CASE id0 # \h8103 -> acked
                 [] id0 = \h8103 /\ answer # NoMessage ->
                      [id \in DOMAIN acked \cup Ids(new) |->
                         IF id \in Ids(new) THEN Entry(new, id).value ELSE acked[id]]
                 [] OTHER -> [id \in DOMAIN acked \ Ids(new) |-> acked[id]]
  BY <1>2 DEF Acknowledged
<1>5. id0 = \h8103 => Listed(new)
  BY SettingGiven DEF IsSetting
<1> HIDE DEF new, id0
<1>6. CASE id0 = \h8103
  <2>1. Listed(params) /\ Listed(new)
    BY <1>5, <1>6 DEF ParamsInv
  <2>2. params' = IF params = NoParams THEN new ELSE Update(params, new)
    BY <1>3, <1>6
  <2>3. \/ acked' = [id \in DOMAIN acked \cup Ids(new) |->
                       IF id \in Ids(new) THEN Entry(new, id).value ELSE acked[id]]
        \/ acked' = [id \in DOMAIN acked \ Ids(new) |-> acked[id]]
    BY <1>4, <1>6
  <2> DEFINE P == params'
             K == acked'
  <2>4. P = IF params = NoParams THEN new ELSE Update(params, new)
    BY <2>2
  <2>5. Follows(acked, new, K)
    BY <2>3 DEF Follows
  <2> HIDE DEF P, K
  <2>6. Agree(P, K)
    BY <2>1, <2>4, <2>5, SettingAgrees
  <2> QED BY <2>6 DEF P, K
<1>7. CASE id0 # \h8103
  <2>1. acked' = acked
    BY <1>4, <1>7
  <2>2. params' = params \/ (params = NoParams /\ params' = DefaultParams)
    BY <1>3, <1>7
  <2>3. params = NoParams => DOMAIN acked = {}
    BY Zenon DEF Agree
  <2>4. CASE params' = params
    BY <2>1, <2>4, SameAgrees
  <2>5. CASE params = NoParams
    <3>1. DOMAIN acked' = {}
      BY <2>1, <2>3, <2>5
    <3> QED BY <3>1, Zenon DEF Agree
  <2> QED BY <2>2, <2>4, <2>5
<1> QED BY <1>6, <1>7

-----------------------------------------------------------------------------
(* Every step leaves the last answer right.                                *)

\* Both properties together are about the last message and its answer.
LEMMA RightIs ==
    AnsweredRight(last.msg, last.answer, acked) <=> AnswersMatch /\ SettingsHold
<1>1. AnswersOf(last.msg, last.answer) <=> AnswersMatch
  BY Zenon DEF AnswersOf, AnswersMatch, Handled
<1>2. HoldsFor(last.answer, acked) <=> SettingsHold
  BY Zenon DEF HoldsFor, SettingsHold
<1> QED BY <1>1, <1>2, Zenon DEF AnsweredRight

\* Where there is no message, there is nothing to answer.
LEMMA NothingAnswered ==
    ASSUME NEW m, NEW r, NEW told, m = NoMessage, r = NoMessage
    PROVE  AnsweredRight(m, r, told)
<1>1. AnswersOf(m, r)
  BY Zenon DEF AnswersOf
<1>2. r.header.MsgID = 0
  BY DEF NoMessage
<1>3. HoldsFor(r, told)
  <2>1. r.header.MsgID # \h0104
    BY <1>2
  <2> QED BY <2>1 DEF HoldsFor
<1> QED BY <1>1, <1>3 DEF AnsweredRight

\* An answer that reaches the sender and tells the parameters is as it should be.
LEMMA RightAnswer ==
    ASSUME NEW m, NEW list, NEW told, Agree(list, told), NEW r, ParamsAfter(m) = list,
           IF m.header.MsgID \in Answered THEN Reaches(m, r) /\ Tells(m, r) ELSE r = NoMessage
    PROVE  AnsweredRight(m, r, told)
<1>1. CASE m.header.MsgID \notin Answered
  <2>1. r = NoMessage
    BY <1>1, Zenon
  <2>2. HoldsFor(r, told)
    BY <2>1, NothingAnswered, Zenon DEF AnsweredRight
  <2>3. AnswersOf(m, r)
    BY <1>1, Zenon DEF AnswersOf
  <2> QED BY <2>2, <2>3 DEF AnsweredRight
<1>2. CASE m.header.MsgID \in Answered
  <2>1. Reaches(m, r) /\ Tells(m, r)
    BY <1>2, Zenon
  <2>2. AnswersOf(m, r)
    BY <2>1, Zenon DEF AnswersOf, Reaches, Naming
  <2>3. HoldsFor(r, told)
    <3> SUFFICES ASSUME r.header.MsgID = \h0104 PROVE HoldsFor(r, told)
      BY DEF HoldsFor
    <3>1. r.header.MsgID = AnswerId(m.header.MsgID)
      BY <2>1, Zenon DEF Reaches
    <3>2. m.header.MsgID = \h8104
      <4> DEFINE id == m.header.MsgID
      <4>1. AnswerId(id) = \h0104 /\ id \in Answered
        BY <1>2, <3>1
      <4> HIDE DEF id
      <4>2. id = \h8104
        BY <4>1, AnswerIds
      <4> QED BY <4>2 DEF id
    <3>3. r.body.Parameters = list
      BY <2>1, <3>2 DEF Tells
    <3>4. \A id \in Ids(list) \cap DOMAIN told : Entry(list, id).value = told[id]
      BY Zenon DEF Agree
    <3> QED BY <3>3, <3>4 DEF HoldsFor
  <2> QED BY <2>2, <2>3 DEF AnsweredRight
<1> QED BY <1>1, <1>2

\* What a step notes
LEMMA NotedNothing ==
    /\ last' = Nothing => Noted(NoMessage, NoMessage)
    /\ \A n, err, m, r : Record(n, err, m, r) => Noted(m, r)
<1>1. last' = Nothing => Noted(NoMessage, NoMessage)
  <2>1. Nothing.msg = NoMessage /\ Nothing.answer = NoMessage
    BY DEF Nothing
  <2> QED BY <2>1, Zenon DEF Noted
<1>2. \A n, err, m, r : Record(n, err, m, r) => last'.msg = m
  BY DEF Record
<1>3. \A n, err, m, r : Record(n, err, m, r) => last'.answer = r
  BY DEF Record
<1> QED BY <1>1, <1>2, <1>3, Zenon DEF Noted

\* A step that handles nothing and keeps the parameters changes nothing here.
LEMMA QuietStep ==
    ASSUME AnswersInv, UNCHANGED <<params, acked>>, Noted(NoMessage, NoMessage)
    PROVE  AnswersInv'
<1> DEFINE P == params'
           K == acked'
           x == last'.msg
           r == last'.answer
<1>1. P = params /\ K = acked /\ x = NoMessage /\ r = NoMessage
  BY DEF Noted
<1>2. Agree(params, acked)
  BY Zenon DEF AnswersInv
<1> HIDE DEF P, K, x, r
<1>3. Agree(P, K)
  BY <1>1, <1>2, SameAgrees
<1>4. AnsweredRight(x, r, K)
  BY <1>1, NothingAnswered
<1> QED BY <1>3, <1>4 DEF AnswersInv, P, K, x, r

\* A handler that takes a message leaves its answer right.
LEMMA HandleAnswers ==
    ASSUME StreamInv, ParamsInv, AnswersInv,
           NEW n \in ReadSizes, Early(Packet(n)) = NoError, NEW m, Message(Packet(n)) = m, Handle(n, m)
    PROVE  AnswersInv'
<1> DEFINE P == params'
           K == acked'
           x == last'.msg
           y == last'.answer
<1>1. params' = ParamsAfter(m) /\ \E r \in Answers(m) : Record(n, "", m, r)
  BY Zenon DEF Handle
<1>2. PICK r \in Answers(m) : Record(n, "", m, r)
  BY <1>1, Zenon
<1>3. x = m /\ y = r
  BY <1>2, NotedNothing, Zenon DEF Noted
<1>4. Agree(params, acked)
  BY Zenon DEF AnswersInv
<1>5. Agree(P, K)
  BY <1>4, HandleAgrees
<1>6. P = ParamsAfter(m)
  BY <1>1
<1> HIDE DEF P, K, x, y
<1>7. ASSUME Answerable(x, P) PROVE AnsweredRight(x, y, K)
  <2>1. Answerable(m, ParamsAfter(m))
    BY <1>3, <1>6, <1>7
  <2>2. IF m.header.MsgID \in Answered THEN Reaches(m, r) /\ Tells(m, r) ELSE r = NoMessage
    <3>1. CASE m.header.MsgID \in Answered
      <4>1. Reaches(m, r) /\ Tells(m, r)
        BY <1>2, <2>1, <3>1, HandledAnswer
      <4> QED BY <3>1, <4>1, Zenon
    <3>2. CASE m.header.MsgID \notin Answered
      <4>1. r = NoMessage
        BY <1>2, <3>2, Zenon DEF Answers
      <4> QED BY <3>2, <4>1, Zenon
    <3> QED BY <3>1, <3>2
  <2>3. AnsweredRight(m, r, K)
    BY <1>5, <1>6, <2>2, RightAnswer
  <2> QED BY <1>3, <2>3
<1> QED BY <1>5, <1>7 DEF AnswersInv, AnswerFits, P, K, x, y

\* A read either handles a message or leaves everything here as it was.
LEMMA ReadAnswers ==
    ASSUME StreamInv, ParamsInv, AnswersInv, NEW n \in ReadSizes, ReadStream(n)
    PROVE  AnswersInv'
<1> DEFINE p == Packet(n)
           early == Early(p)
           m == Message(p)
<1>1. \/ Drop(n, early) \/ Break(n, p, early) \/ Stray(n, p, early)
      \/ early = NoError /\ (Refuse(n, m) \/ Handle(n, m))
  BY Zenon DEF ReadStream, Packet, NoError
<1>2. early = NoError /\ Handle(n, m) => AnswersInv'
  BY HandleAnswers
<1> HIDE DEF p, early, m
<1>3. ASSUME Drop(n, early) \/ Break(n, p, early) \/ Stray(n, p, early) \/ Refuse(n, m)
      PROVE  UNCHANGED <<params, acked>> /\ Noted(NoMessage, NoMessage)
  <2>1. Drop(n, early) => UNCHANGED <<params, acked>> /\ Noted(NoMessage, NoMessage)
    BY NotedNothing DEF Drop
  <2>2. Break(n, p, early) => UNCHANGED <<params, acked>> /\ Noted(NoMessage, NoMessage)
    BY NotedNothing DEF Break
  <2>3. Stray(n, p, early) => UNCHANGED <<params, acked>> /\ Noted(NoMessage, NoMessage)
    BY NotedNothing DEF Stray
  <2>4. Refuse(n, m) => UNCHANGED <<params, acked>> /\ Noted(NoMessage, NoMessage)
    BY NotedNothing DEF Refuse
  <2> QED BY <1>3, <2>1, <2>2, <2>3, <2>4
<1> QED BY <1>1, <1>2, <1>3, QuietStep

\* So does every step.
LEMMA AnswersNext == IInv /\ AnswersInv /\ [Next]_vars => AnswersInv'
<1> SUFFICES ASSUME IInv, AnswersInv, [Next]_vars PROVE AnswersInv'
  OBVIOUS
<1>1. StreamInv /\ ParamsInv
  BY Zenon DEF IInv
<1>2. CASE UNCHANGED vars
  BY <1>2 DEF vars, AnswersInv, AnswerFits, Answerable
<1>3. ASSUME NEW k \in DOMAIN Samples, Send(Samples[k]) PROVE AnswersInv'
  BY <1>3, NotedNothing, QuietStep DEF Send
<1>4. CASE Close \/ Reconnect
  BY <1>4, NotedNothing, QuietStep DEF Close, Reconnect
<1>5. ASSUME NEW n \in ReadSizes, ReadStream(n) PROVE AnswersInv'
  BY <1>1, <1>5, ReadAnswers
<1> QED BY <1>2, <1>3, <1>4, <1>5, Zenon DEF Next

\* In the beginning nothing was read.
LEMMA AnswersInit == Init => AnswersInv
<1> SUFFICES ASSUME Init PROVE AnswersInv
  OBVIOUS
<1>1. params = NoParams /\ acked = <<>> /\ last = Nothing
  BY Zenon DEF Init
<1>2. last.msg = NoMessage /\ last.answer = NoMessage
  BY <1>1 DEF Nothing
<1>3. DOMAIN acked = {}
  BY <1>1
<1>4. Agree(params, acked)
  BY <1>3 DEF Agree
<1>5. AnsweredRight(last.msg, last.answer, acked)
  BY <1>2, NothingAnswered
<1> QED BY <1>4, <1>5 DEF AnswersInv

\* Parameters and acknowledged settings agree, and each whole message that can be answered
\* is answered rightly.
THEOREM AnswersInvariance == Spec => []AnswersInv
<1>1. Init => IInv /\ AnswersInv
  BY InvInit, AnswersInit
<1>2. IInv /\ AnswersInv /\ [Next]_vars => (IInv /\ AnswersInv)'
  BY StepKeeps, AnswersNext
<1> QED BY <1>1, <1>2, PTL DEF Spec

\* The answer to each whole message reaches the peer and names it, by its serial number and,
\* in a common answer, by its MsgID: whatever octets were sent before and however they were
\* read, as long as the message's telephone number is read in full, a code to be returned has
\* a length of one octet and the parameters fit one packet (GenOutgoing, the Encode and Decode
\* of every answer, ProcessPacket).
THEOREM AnswersAreRight == Spec => [](AnswerFits => AnswersMatch)
<1>1. AnswersInv => (AnswerFits => AnswersMatch)
  BY RightIs, Zenon DEF AnswersInv
<1> QED BY <1>1, AnswersInvariance, PTL

\* What a terminal answers to 8104 agrees with every acknowledged setting, after any number of
\* settings and lost answers, as long as the parameters fit the answer (DeviceParams.Update,
\* processMsg8103, processMsg8104).
THEOREM SettingsAreKept == Spec => [](AnswerFits => SettingsHold)
<1>1. AnswersInv => (AnswerFits => SettingsHold)
  BY RightIs, Zenon DEF AnswersInv
<1> QED BY <1>1, AnswersInvariance, PTL
=============================================================================
