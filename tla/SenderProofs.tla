---------------------------- MODULE SenderProofs ----------------------------
(***************************************************************************)
(* What Sender promises for any number of devices, sessions, messages and  *)
(* serial numbers.  The argument follows one message: it is in the part of *)
(* the queue still to be written, then in at most one place on the wire,   *)
(* and from Append until an answer finds it it stays filed under a key     *)
(* that no other filed message has.  The answer is its own, or the key is  *)
(* also that of a message of the synchronous Send, and stays so.           *)
(***************************************************************************)
EXTENDS Sender, SequenceTheorems, TLAPS

QueuedOnce == IsInjective(sending)

Numbering == {"new", "wrapping", "reset", "numbered"}

\* What Append has not accepted and Send has not written is nowhere.
Unsent ==
    \A r \in Reqs : state[r] \in Numbering \cup {"refused", "sending", "dropped"} =>
        r \notin waiting /\ r \notin Range(sending) /\ r \notin Range(written) /\ answers[r] = 0

FiledUnanswered == \A r \in waiting : answers[r] = 0

\* What the loop has not come to was never written, and is filed unless a message
\* with its key was.
Pending ==
    \A i \in 1..Len(sending) :
        i >= pos => /\ sending[i] \notin Range(written)
                    /\ sending[i] \in waiting \/ Clashed(sending[i])

WireWritten == \A s \in Sessions : Range(up[s]) \cup Range(down[s]) \subseteq Range(written)

WireOnce ==
    /\ \A s \in Sessions : IsInjective(down[s]) /\ IsInjective(up[s])
    /\ \A s, t \in Sessions :
          /\ s # t => /\ Range(down[s]) \cap Range(down[t]) = {}
                      /\ Range(up[s]) \cap Range(up[t]) = {}
          /\ Range(down[s]) \cap Range(up[t]) = {}

TargetInQueue == target # None => pos \in 1..Len(sending)

Delivery ==
    /\ KeysDistinct /\ AnsweredOnce /\ AnswerFindsCallback /\ WrittenOnce
    /\ QueuedOnce /\ Unsent /\ FiledUnanswered /\ Pending
    /\ WireWritten /\ WireOnce /\ TargetInQueue

IInv == TypeOK /\ Delivery

-----------------------------------------------------------------------------
(* Sequences.                                                              *)

LEMMA RangeSeq ==
    ASSUME NEW S, NEW q \in Seq(S)
    PROVE  \A x : x \in Range(q) <=> \E i \in 1..Len(q) : q[i] = x
  BY DEF Range

LEMMA RangeAppend ==
    ASSUME NEW S, NEW q \in Seq(S), NEW e \in S
    PROVE  Range(Append(q, e)) = Range(q) \cup {e}
<1>1. /\ Append(q, e) \in Seq(S)
      /\ Len(Append(q, e)) = Len(q) + 1
      /\ \A i \in 1..Len(q) : Append(q, e)[i] = q[i]
      /\ Append(q, e)[Len(q) + 1] = e
  BY AppendProperties
<1>2. Len(q) \in Nat
  BY LenProperties
<1>3. \A x : x \in Range(Append(q, e)) <=> \E i \in 1..Len(q) + 1 : Append(q, e)[i] = x
  <2>1. Append(q, e) \in Seq(S)
    BY <1>1
  <2>2. \A x : x \in Range(Append(q, e)) <=> \E i \in 1..Len(Append(q, e)) : Append(q, e)[i] = x
    BY <2>1, RangeSeq
  <2> QED
    BY <1>1, <2>2
<1>4. \A x : x \in Range(q) <=> \E i \in 1..Len(q) : q[i] = x
  BY RangeSeq
<1> QED
  <2>1. ASSUME NEW x \in Range(Append(q, e)) PROVE x \in Range(q) \cup {e}
    BY <1>1, <1>2, <1>3, <1>4
  <2>2. ASSUME NEW x \in Range(q) PROVE x \in Range(Append(q, e))
    BY <1>1, <1>2, <1>3, <1>4
  <2>3. e \in Range(Append(q, e))
    BY <1>1, <1>2, <1>3
  <2> QED
    BY <2>1, <2>2, <2>3

LEMMA TailFacts ==
    ASSUME NEW S, NEW q \in Seq(S), q # <<>>
    PROVE  /\ Len(q) \in Nat \ {0} /\ Head(q) = q[1] /\ Head(q) \in S
           /\ Tail(q) \in Seq(S) /\ Len(Tail(q)) = Len(q) - 1
           /\ \A i \in 1..Len(q) - 1 : Tail(q)[i] = q[i + 1]
           /\ Head(q) \in Range(q) /\ Range(Tail(q)) \subseteq Range(q)
<1>1. /\ Len(q) \in Nat \ {0} /\ Head(q) = q[1] /\ Head(q) \in S
      /\ Tail(q) \in Seq(S) /\ Len(Tail(q)) = Len(q) - 1
      /\ \A i \in 1..Len(q) - 1 : Tail(q)[i] = q[i + 1]
  BY HeadTailProperties, EmptySeq
<1>2. \A x : x \in Range(q) <=> \E i \in 1..Len(q) : q[i] = x
  BY RangeSeq
<1>3. \A x : x \in Range(Tail(q)) <=> \E i \in 1..Len(q) - 1 : Tail(q)[i] = x
  <2>1. Tail(q) \in Seq(S)
    BY <1>1
  <2>2. \A x : x \in Range(Tail(q)) <=> \E i \in 1..Len(Tail(q)) : Tail(q)[i] = x
    BY <2>1, RangeSeq
  <2> QED
    BY <1>1, <2>2
<1>4. Head(q) \in Range(q)
  BY <1>1, <1>2
<1>5. ASSUME NEW x \in Range(Tail(q)) PROVE x \in Range(q)
  <2>1. PICK i \in 1..Len(q) - 1 : Tail(q)[i] = x
    BY <1>3, <1>5
  <2>2. i + 1 \in 1..Len(q) /\ q[i + 1] = x
    BY <1>1, <2>1
  <2> QED
    BY <1>2, <2>2
<1> QED
  BY <1>1, <1>4, <1>5

LEMMA EmptyRange == Range(<<>>) = {} /\ Len(<<>>) = 0
  BY DEF Range

LEMMA TailInjective ==
    ASSUME NEW S, NEW q \in Seq(S), q # <<>>, IsInjective(q)
    PROVE  IsInjective(Tail(q)) /\ Head(q) \notin Range(Tail(q))
<1>1. /\ Len(q) \in Nat \ {0} /\ Head(q) = q[1]
      /\ Tail(q) \in Seq(S) /\ Len(Tail(q)) = Len(q) - 1
      /\ \A i \in 1..Len(q) - 1 : Tail(q)[i] = q[i + 1]
  BY TailFacts
<1>2. DOMAIN q = 1..Len(q) /\ DOMAIN Tail(q) = 1..Len(q) - 1
  BY <1>1, LenProperties
<1>3. \A i \in 1..Len(q) - 1 : i + 1 \in 1..Len(q)
  BY <1>1
<1>4. ASSUME NEW i \in DOMAIN Tail(q), NEW j \in DOMAIN Tail(q), Tail(q)[i] = Tail(q)[j]
      PROVE  i = j
  <2>1. q[i + 1] = q[j + 1] /\ i + 1 \in DOMAIN q /\ j + 1 \in DOMAIN q
    BY <1>1, <1>2, <1>3, <1>4
  <2>2. i + 1 = j + 1
    BY <2>1 DEF IsInjective
  <2> QED
    BY <1>1, <1>2, <2>2
<1>5. ASSUME Head(q) \in Range(Tail(q)) PROVE FALSE
  <2>1. PICK i \in 1..Len(q) - 1 : Tail(q)[i] = q[1]
    BY <1>1, <1>2, <1>5 DEF Range
  <2>2. q[i + 1] = q[1] /\ i + 1 \in DOMAIN q /\ 1 \in DOMAIN q
    BY <1>1, <1>2, <1>3, <2>1
  <2> QED
    BY <1>1, <2>1, <2>2 DEF IsInjective
<1> QED
  BY <1>4, <1>5 DEF IsInjective

LEMMA EmptyInjective == IsInjective(<<>>)
  BY DEF IsInjective

LEMMA AppendKeepsInjective ==
    ASSUME NEW S, NEW q \in Seq(S), NEW e \in S, IsInjective(q), e \notin Range(q)
    PROVE  IsInjective(Append(q, e))
<1>1. /\ Len(q) \in Nat /\ DOMAIN q = 1..Len(q)
      /\ \A i \in 1..Len(q) : Append(q, e)[i] = q[i]
      /\ Append(q, e)[Len(q) + 1] = e
      /\ DOMAIN Append(q, e) = 1..Len(q) + 1
  BY AppendProperties, LenProperties
<1>2. \A i \in 1..Len(q) : q[i] # e
  BY <1>1 DEF Range
<1>3. \A i \in 1..Len(q) + 1 : i \in 1..Len(q) \/ i = Len(q) + 1
  BY <1>1
<1> QED
  BY <1>1, <1>2, <1>3 DEF IsInjective

-----------------------------------------------------------------------------
(* Types.                                                                  *)

LEMMA NumberTypes ==
    ASSUME TypeOK, NEW r \in Reqs, Number(r)
    PROVE  TypeOK'
<1>1. CASE Increment(r)
  <2> DEFINE s == device[PhoneOf[r]]
             n == counter[s]
  <2>1. s \in Sessions
    BY <1>1, ReqsAssumption DEF Increment, TypeOK
  <2>2. /\ counter' = [counter EXCEPT ![s] = n + 1]
        /\ session' = [session EXCEPT ![r] = s]
        /\ \/ /\ n < MaxSerial
              /\ serial' = [serial EXCEPT ![r] = n + 1]
              /\ state' = [state EXCEPT ![r] = "numbered"]
           \/ /\ state' = [state EXCEPT ![r] = "wrapping"]
              /\ UNCHANGED serial
    BY <1>1 DEF Increment
  <2>3. counter \in [Sessions -> Nat] /\ serial \in [Reqs -> 0..MaxSerial]
    BY DEF TypeOK
  <2>4. n \in Nat
    BY <2>1, <2>3
  <2> HIDE DEF s, n
  <2>5. counter' \in [Sessions -> Nat]
    <3>1. n + 1 \in Nat
      BY <2>4
    <3> HIDE DEF TypeOK
    <3> QED
      BY ONLY <2>2, <2>3, <3>1
  <2>6. serial' \in [Reqs -> 0..MaxSerial]
    <3>1. n < MaxSerial => n + 1 \in 0..MaxSerial
      BY <2>4, BoundsAssumption
    <3> QED
      BY <2>2, <2>3, <3>1
  <2>7. /\ state' \in [Reqs -> States]
        /\ session' \in [Reqs -> Sessions \cup {None}]
        /\ \A q \in Reqs : state'[q] \in InHand => session'[q] # None
    BY <2>1, <2>2, NoneAssumption DEF TypeOK, States, InHand
  <2> QED
    BY <1>1, <2>5, <2>6, <2>7 DEF Increment, TypeOK, link, loop, wire
<1>2. CASE Reset(r)
  <2>1. session[r] \in Sessions
    BY <1>2, NoneAssumption DEF Reset, TypeOK, InHand
  <2>2. counter' \in [Sessions -> Nat]
    BY <1>2, <2>1 DEF Reset, TypeOK
  <2> QED
    BY <1>2, <2>1, <2>2, NoneAssumption DEF Reset, TypeOK, States, InHand, link, loop, wire
<1>3. CASE Load(r)
  <2>1. counter[session[r]] \in Nat
    BY <1>3, NoneAssumption DEF Load, TypeOK, InHand
  <2>2. counter[session[r]] % (MaxSerial + 1) \in 0..MaxSerial
    BY <2>1, BoundsAssumption
  <2> QED
    BY <1>3, <2>2 DEF Load, TypeOK, States, InHand, link, loop, wire
<1> QED
  BY <1>1, <1>2, <1>3 DEF Number

LEMMA DoneTypes ==
    ASSUME TypeOK, NEW r \in Reqs, NEW st \in States \ InHand, Done(r, st)
    PROVE  /\ state' \in [Reqs -> States]
           /\ session' \in [Reqs -> Sessions \cup {None}]
           /\ \A q \in Reqs : state'[q] \in InHand => session'[q] # None
  BY DEF Done, TypeOK

LEMMA CallerTypes ==
    ASSUME TypeOK, NEW r \in Reqs, Number(r) \/ AppendRequest(r) \/ RefuseRequest(r)
    PROVE  TypeOK'
<1>1. CASE Number(r)
  BY <1>1, NumberTypes
<1>2. CASE AppendRequest(r)
  <2>1. sending' \in Seq(Reqs) /\ Len(sending') = Len(sending) + 1
    BY <1>2, AppendProperties DEF AppendRequest, TypeOK
  <2>2. "queued" \in States \ InHand /\ Done(r, "queued")
    BY <1>2 DEF AppendRequest, States, InHand
  <2>3. /\ state' \in [Reqs -> States]
        /\ session' \in [Reqs -> Sessions \cup {None}]
        /\ \A q \in Reqs : state'[q] \in InHand => session'[q] # None
    BY <2>2, DoneTypes
  <2> QED
    BY <1>2, <2>1, <2>3, LenProperties DEF AppendRequest, MutexFree, TypeOK, link, loop, wire
<1>3. CASE RefuseRequest(r)
  BY <1>3, DoneTypes DEF RefuseRequest, TypeOK, States, InHand, link, loop, wire
<1> QED
  BY <1>1, <1>2, <1>3

LEMMA SendTypes ==
    ASSUME TypeOK, NEW r \in Reqs, Send(r)
    PROVE  TypeOK'
<1>1. /\ state' \in [Reqs -> States]
      /\ session' \in [Reqs -> Sessions \cup {None}]
      /\ \A q \in Reqs : state'[q] \in InHand => session'[q] # None
  <2>1. CASE FindSession(r) /\ session[r] \in cached
    BY <2>1 DEF FindSession, TypeOK, States, InHand
  <2>2. CASE Done(r, "dropped") \/ Done(r, "sent")
    BY <2>2, DoneTypes DEF States, InHand
  <2> QED
    BY <2>1, <2>2 DEF Send, FindSession, SendMsg, SendClosed, SendError
<1>2. CASE FindSession(r) \/ SendClosed(r) \/ SendError(r)
  BY <1>1, <1>2 DEF FindSession, SendClosed, SendError, TypeOK, link, loop, wire
<1>3. CASE SendMsg(r)
  <2>1. session[r] \in Sessions
    BY <1>3 DEF SendMsg, TypeOK
  <2>2. Append(down[session[r]], r) \in Seq(Reqs) /\ written' \in Seq(Reqs)
    BY <1>3, <2>1, AppendProperties DEF SendMsg, TypeOK
  <2> QED
    BY <1>1, <1>3, <2>1, <2>2 DEF SendMsg, TypeOK, link, loop
<1> QED
  BY <1>2, <1>3 DEF Send

LEMMA LoopTypes ==
    ASSUME TypeOK, TargetInQueue, SenderLoop
    PROVE  TypeOK'
<1>1. Len(sending) \in Nat /\ pos \in Nat
  BY LenProperties DEF TypeOK
<1>2. CASE Begin
  <2>1. pos' \in 0..Len(sending') + 1
    BY <1>1, <1>2 DEF Begin
  <2> QED
    BY <1>2, <2>1 DEF Begin, TypeOK, link, caller, wire
<1>3. CASE Lookup
  <2>1. pos \in 1..Len(sending)
    BY <1>1, <1>3 DEF Lookup, MutexFree, Finished
  <2>2. sending[pos] \in Reqs
    BY <2>1, ElementOfSeq DEF TypeOK
  <2>3. device[PhoneOf[sending[pos]]] \in Sessions \cup {None}
    BY <2>2, ReqsAssumption DEF TypeOK
  <2>4. target' \in Sessions \cup {None} /\ pos' \in 0..Len(sending') + 1
    BY <1>1, <1>3, <2>1, <2>3 DEF Lookup, TypeOK
  <2> QED
    BY <1>3, <2>4 DEF Lookup, TypeOK, link, caller, wire
<1>4. CASE Write
  <2>1. target # None /\ target \in Sessions
    BY <1>4, NoneAssumption DEF Write, TypeOK
  <2>2. pos \in 1..Len(sending)
    BY <2>1 DEF TargetInQueue
  <2>3. sending[pos] \in Reqs
    BY <2>2, ElementOfSeq DEF TypeOK
  <2>4. Append(down[target], sending[pos]) \in Seq(Reqs) /\ written' \in Seq(Reqs)
    BY <1>4, <2>1, <2>3, AppendProperties DEF Write, TypeOK
  <2>5. pos' \in 0..Len(sending') + 1
    BY <1>1, <1>4, <2>2 DEF Write, caller
  <2> QED
    BY <1>4, <2>1, <2>4, <2>5 DEF Write, TypeOK, link, caller
<1>5. CASE WriteClosed \/ WriteError
  <2>1. pos' \in 0..Len(sending') + 1
    BY <1>1, <1>5 DEF WriteClosed, WriteError, BreakOff
  <2> QED
    BY <1>5, <2>1 DEF WriteClosed, WriteError, BreakOff, TypeOK, link, caller, wire
<1>6. CASE End
  <2>1. sending' \in Seq(Reqs) /\ pos' \in 0..Len(sending') + 1
    BY <1>6, EmptySeq DEF End
  <2> QED
    BY <1>6, <2>1 DEF End, TypeOK, link, caller, wire
<1> QED
  BY <1>2, <1>3, <1>4, <1>5, <1>6 DEF SenderLoop

LEMMA LinkTypes ==
    ASSUME TypeOK, NEW s \in Sessions,
           \/ CloseConn(s) \/ RemoveSession(s)
           \/ \E ph \in Phones : Unregister(ph) \/ Register(ph, s)
    PROVE  TypeOK'
<1>1. CASE CloseConn(s)
  BY <1>1 DEF CloseConn, TypeOK, caller, loop, wire
<1>2. CASE RemoveSession(s)
  BY <1>2, EmptySeq DEF RemoveSession, TypeOK, caller, loop
<1>3. ASSUME NEW ph \in Phones, Unregister(ph)
      PROVE  TypeOK'
  BY <1>3 DEF Unregister, TypeOK, caller, loop, wire
<1>4. ASSUME NEW ph \in Phones, Register(ph, s)
      PROVE  TypeOK'
  BY <1>4 DEF Register, TypeOK, caller, loop, wire
<1> QED
  BY <1>1, <1>2, <1>3, <1>4

LEMMA AnswerTypes ==
    ASSUME TypeOK, NEW s \in Sessions, Answer(s) \/ Ignore(s) \/ ProcResponse(s)
    PROVE  TypeOK'
<1>1. CASE Answer(s)
  <2>1. Tail(down[s]) \in Seq(Reqs) /\ Head(down[s]) \in Reqs
    BY <1>1, TailFacts DEF Answer, TypeOK
  <2>2. Append(up[s], Head(down[s])) \in Seq(Reqs)
    BY <2>1, AppendProperties DEF TypeOK
  <2> QED
    BY <1>1, <2>1, <2>2 DEF Answer, TypeOK, link, caller, loop
<1>2. CASE Ignore(s)
  <2>1. Tail(down[s]) \in Seq(Reqs)
    BY <1>2, TailFacts DEF Ignore, TypeOK
  <2> QED
    BY <1>2, <2>1 DEF Ignore, TypeOK, link, caller, loop
<1>3. CASE ProcResponse(s)
  <2>1. Tail(up[s]) \in Seq(Reqs)
    BY <1>3, TailFacts DEF ProcResponse, TypeOK
  <2>2. up' \in [Sessions -> Seq(Reqs)]
    BY <1>3, <2>1 DEF ProcResponse, TypeOK
  <2>3. answers' \in [Reqs -> Nat]
    BY <1>3 DEF ProcResponse, TypeOK
  <2>4. /\ state' \in [Reqs -> States]
        /\ \A r \in Reqs : state'[r] \in InHand => state'[r] = state[r]
    BY <1>3 DEF ProcResponse, TypeOK, States, InHand
  <2>5. waiting' \subseteq Reqs
    BY <1>3 DEF ProcResponse, TypeOK
  <2> QED
    BY <1>3, <2>2, <2>3, <2>4, <2>5 DEF ProcResponse, TypeOK, link, loop
<1> QED
  BY <1>1, <1>2, <1>3

-----------------------------------------------------------------------------
(* The invariant but for the types: one lemma per group of actions.        *)

LEMMA WireShrinks ==
    ASSUME WireOnce,
           \A s \in Sessions : /\ IsInjective(down'[s]) /\ IsInjective(up'[s])
                               /\ Range(down'[s]) \subseteq Range(down[s])
                               /\ Range(up'[s]) \subseteq Range(up[s])
    PROVE  WireOnce'
  BY DEF WireOnce

\* Devices, sessions and connections come and go without touching a message.
LEMMA LinkStep ==
    ASSUME Delivery, UNCHANGED <<state, serial, sending, waiting, loop, wire, written, answers>>
    PROVE  Delivery'
<1>1. KeysDistinct' /\ AnsweredOnce' /\ WrittenOnce' /\ FiledUnanswered'
  BY DEF Delivery, KeysDistinct, Key, Clashed, AnsweredOnce, WrittenOnce, FiledUnanswered
<1>2. QueuedOnce' /\ Unsent' /\ Pending' /\ TargetInQueue'
  BY DEF Delivery, QueuedOnce, Unsent, Pending, Clashed, Key, TargetInQueue, loop
<1>3. AnswerFindsCallback' /\ WireWritten' /\ WireOnce'
  BY DEF Delivery, AnswerFindsCallback, Clashed, Key, WireWritten, WireOnce, wire
<1> QED
  BY <1>1, <1>2, <1>3 DEF Delivery

\* Messages may get lost on the wire.
LEMMA WireLoses ==
    ASSUME Delivery, UNCHANGED <<state, serial, sending, waiting, loop, written, answers>>,
           \A s \in Sessions : /\ IsInjective(down'[s]) /\ IsInjective(up'[s])
                               /\ Range(down'[s]) \subseteq Range(down[s])
                               /\ Range(up'[s]) \subseteq Range(up[s])
    PROVE  Delivery'
<1>1. WireOnce'
  BY WireShrinks DEF Delivery
<1>2. AnswerFindsCallback' /\ WireWritten'
  BY DEF Delivery, AnswerFindsCallback, Clashed, Key, WireWritten
<1>3. KeysDistinct' /\ AnsweredOnce' /\ WrittenOnce' /\ FiledUnanswered'
  BY DEF Delivery, KeysDistinct, Key, Clashed, AnsweredOnce, WrittenOnce, FiledUnanswered
<1>4. QueuedOnce' /\ Unsent' /\ Pending' /\ TargetInQueue'
  BY DEF Delivery, QueuedOnce, Unsent, Pending, Clashed, Key, TargetInQueue, loop
<1> QED
  BY <1>1, <1>2, <1>3, <1>4 DEF Delivery

LEMMA RemoveStep ==
    ASSUME TypeOK, Delivery, NEW s \in Sessions, RemoveSession(s)
    PROVE  Delivery'
<1>1. ASSUME NEW x \in Sessions
      PROVE  /\ down'[x] = down[x] \/ down'[x] = <<>>
             /\ up'[x] = up[x] \/ up'[x] = <<>>
  BY <1>1 DEF RemoveSession, TypeOK
<1>2. ASSUME NEW x \in Sessions
      PROVE  /\ IsInjective(down'[x]) /\ IsInjective(up'[x])
             /\ Range(down'[x]) \subseteq Range(down[x])
             /\ Range(up'[x]) \subseteq Range(up[x])
  BY <1>1, EmptyRange, EmptyInjective DEF Delivery, WireOnce
<1>3. UNCHANGED <<state, serial, sending, waiting, loop, written, answers>>
  BY DEF RemoveSession, caller
<1> QED
  BY <1>2, <1>3, WireLoses

LEMMA IgnoreStep ==
    ASSUME TypeOK, Delivery, NEW s \in Sessions, Ignore(s)
    PROVE  Delivery'
<1>1. down[s] \in Seq(Reqs) /\ down[s] # <<>> /\ IsInjective(down[s])
  BY DEF Ignore, TypeOK, Delivery, WireOnce
<1>2. IsInjective(Tail(down[s])) /\ Range(Tail(down[s])) \subseteq Range(down[s])
  BY <1>1, TailFacts, TailInjective
<1>3. \A x \in Sessions : down'[x] = IF x = s THEN Tail(down[s]) ELSE down[x]
  BY DEF Ignore, TypeOK
<1>4. ASSUME NEW x \in Sessions
      PROVE  /\ IsInjective(down'[x]) /\ IsInjective(up'[x])
             /\ Range(down'[x]) \subseteq Range(down[x])
             /\ Range(up'[x]) \subseteq Range(up[x])
  BY <1>2, <1>3 DEF Ignore, Delivery, WireOnce
<1>5. UNCHANGED <<state, serial, sending, waiting, loop, written, answers>>
  BY DEF Ignore, caller
<1> QED
  BY <1>4, <1>5, WireLoses

\* An answer takes the place of its message.
LEMMA AnswerStep ==
    ASSUME TypeOK, Delivery, NEW s \in Sessions, Answer(s)
    PROVE  Delivery'
<1> DEFINE r == Head(down[s])
<1>1. /\ down[s] \in Seq(Reqs) /\ down[s] # <<>> /\ IsInjective(down[s])
      /\ up[s] \in Seq(Reqs) /\ IsInjective(up[s])
  BY DEF Answer, TypeOK, Delivery, WireOnce
<1>2. /\ IsInjective(Tail(down[s])) /\ Range(Tail(down[s])) \subseteq Range(down[s])
      /\ r \in Range(down[s]) /\ r \in Reqs /\ r \notin Range(Tail(down[s]))
  BY <1>1, TailFacts, TailInjective
<1>3. r \notin Range(up[s])
  BY <1>2 DEF Delivery, WireOnce
<1>4. IsInjective(Append(up[s], r)) /\ Range(Append(up[s], r)) = Range(up[s]) \cup {r}
  BY <1>1, <1>2, <1>3, RangeAppend, AppendKeepsInjective
<1>5. \A x \in Sessions : /\ down'[x] = IF x = s THEN Tail(down[s]) ELSE down[x]
                          /\ up'[x] = IF x = s THEN Append(up[s], r) ELSE up[x]
  BY DEF Answer, TypeOK
<1> HIDE DEF r
<1>6. ASSUME NEW x \in Sessions
      PROVE  /\ IsInjective(down'[x]) /\ IsInjective(up'[x])
             /\ Range(down'[x]) \subseteq Range(down[x])
             /\ Range(up'[x]) \subseteq Range(up[x]) \cup {r}
             /\ x = s => r \notin Range(down'[x])
             /\ x # s => Range(up'[x]) = Range(up[x])
  BY <1>2, <1>4, <1>5 DEF Delivery, WireOnce
<1>7. WireOnce'
  <2>1. \A x \in Sessions : r \notin Range(up[x]) /\ (x # s => r \notin Range(down[x]))
    BY <1>2 DEF Delivery, WireOnce
  <2> QED
    BY <1>6, <2>1 DEF Delivery, WireOnce
<1>8. AnswerFindsCallback' /\ WireWritten'
  <2>1. r \in Range(written) /\ (r \in Direct \/ r \in waiting \/ Clashed(r))
    BY <1>2 DEF Delivery, AnswerFindsCallback, WireWritten
  <2>2. UNCHANGED <<waiting, written>> /\ \A q : Clashed(q)' <=> Clashed(q)
    BY DEF Answer, caller, Clashed, Key
  <2>3. ASSUME NEW x \in Sessions, NEW q \in (Range(up'[x]) \cup Range(down'[x])) \ Direct
        PROVE  q \in waiting \/ Clashed(q)
    BY <1>6, <2>1, <2>3 DEF Delivery, AnswerFindsCallback
  <2>4. WireWritten'
    BY <1>6, <2>1, <2>2 DEF Delivery, WireWritten
  <2> QED
    BY <2>2, <2>3, <2>4 DEF AnswerFindsCallback
<1>9. KeysDistinct' /\ AnsweredOnce' /\ WrittenOnce' /\ FiledUnanswered'
  BY DEF Answer, caller, Delivery, KeysDistinct, Key, Clashed, AnsweredOnce, WrittenOnce, FiledUnanswered
<1>10. QueuedOnce' /\ Unsent' /\ Pending' /\ TargetInQueue'
  BY DEF Answer, caller, Delivery, QueuedOnce, Unsent, Pending, Clashed, Key, TargetInQueue, loop
<1> QED
  BY <1>7, <1>8, <1>9, <1>10 DEF Delivery

\* The answer finds its own request or one with a clash, and at most one; no later
\* answer finds that again.
LEMMA ProcResponseStep ==
    ASSUME TypeOK, Delivery, NEW s \in Sessions, ProcResponse(s)
    PROVE  Delivery'
<1> DEFINE r == Head(up[s])
           match == {q \in waiting : Key(q) = Key(r)}
<1>1. up[s] \in Seq(Reqs) /\ up[s] # <<>> /\ IsInjective(up[s])
  BY DEF ProcResponse, TypeOK, Delivery, WireOnce
<1>2. /\ IsInjective(Tail(up[s])) /\ Range(Tail(up[s])) \subseteq Range(up[s])
      /\ r \in Range(up[s]) /\ r \in Reqs /\ r \notin Range(Tail(up[s]))
  BY <1>1, TailFacts, TailInjective
<1>3. r \in Range(written) /\ (r \in Direct \/ r \in waiting \/ Clashed(r))
  BY <1>2 DEF Delivery, AnswerFindsCallback, WireWritten
<1>4. \A q \in match : q \in waiting /\ (q = r \/ Clashed(q))
  <2>1. ASSUME NEW q \in match PROVE q = r \/ Clashed(q)
    <3>1. q \in waiting /\ Key(q) = Key(r)
      OBVIOUS
    <3>2. CASE r \in Direct
      BY <1>3, <3>1, <3>2 DEF Clashed
    <3>3. CASE r \in waiting
      BY <3>1, <3>3 DEF Delivery, KeysDistinct
    <3>4. CASE Clashed(r)
      BY <3>1, <3>4 DEF Clashed
    <3> QED
      BY <1>3, <3>2, <3>3, <3>4
  <2> QED
    BY <2>1
<1>5. /\ waiting' = waiting \ match
      /\ answers' = [q \in Reqs |-> IF q \in match THEN answers[q] + 1 ELSE answers[q]]
      /\ state' = [q \in Reqs |-> IF q \in match THEN "called" ELSE state[q]]
      /\ up' = [up EXCEPT ![s] = Tail(up[s])]
      /\ UNCHANGED <<serial, sending, loop, down, written>>
  BY DEF ProcResponse
<1> HIDE DEF r, match
<1>6. \A x \in Sessions : up'[x] = IF x = s THEN Tail(up[s]) ELSE up[x]
  BY <1>5 DEF TypeOK
<1>7. \A q : Clashed(q)' <=> Clashed(q)
  BY <1>5 DEF Clashed, Key
<1>8. WireOnce'
  <2>1. ASSUME NEW x \in Sessions
        PROVE  /\ IsInjective(down'[x]) /\ IsInjective(up'[x])
               /\ Range(down'[x]) \subseteq Range(down[x])
               /\ Range(up'[x]) \subseteq Range(up[x])
    BY <1>2, <1>5, <1>6 DEF Delivery, WireOnce
  <2> QED
    BY <2>1, WireShrinks DEF Delivery
<1>9. AnswerFindsCallback' /\ WireWritten'
  <2>1. ASSUME NEW x \in Sessions
        PROVE  /\ Range(down'[x]) = Range(down[x]) /\ r \notin Range(down[x])
               /\ Range(up'[x]) \subseteq Range(up[x]) /\ r \notin Range(up'[x])
    BY <1>2, <1>5, <1>6 DEF Delivery, WireOnce
  <2>2. \A q \in Reqs : q \in waiting /\ q # r => q \in waiting' \/ Clashed(q)
    BY <1>4, <1>5
  <2>3. AnswerFindsCallback'
    <3>1. ASSUME NEW x \in Sessions, NEW q \in (Range(up'[x]) \cup Range(down'[x])) \ Direct
          PROVE  q \in waiting' \/ Clashed(q)
      <4>1. q # r /\ q \in (Range(up[x]) \cup Range(down[x])) \ Direct
        BY <2>1, <3>1
      <4>2. q \in waiting \/ Clashed(q)
        BY <4>1 DEF Delivery, AnswerFindsCallback
      <4> QED
        BY <1>4, <1>5, <4>1, <4>2
    <3> QED
      BY <1>7, <3>1 DEF AnswerFindsCallback
  <2> QED
    BY <1>5, <2>1, <2>3 DEF Delivery, WireWritten
<1>10. AnsweredOnce'
  <2>1. \A q \in match : answers[q] = 0 /\ (q \in Range(written) \/ Clashed(q))
    BY <1>3, <1>4 DEF Delivery, FiledUnanswered
  <2>2. \A q \in Reqs : answers'[q] = IF q \in match THEN 1 ELSE answers[q]
    BY <1>5, <2>1 DEF TypeOK
  <2>3. UNCHANGED written /\ waiting' = waiting \ match
    BY <1>5
  <2> QED
    BY <1>7, <2>1, <2>2, <2>3 DEF Delivery, AnsweredOnce
<1>11. KeysDistinct' /\ WrittenOnce' /\ FiledUnanswered'
  BY <1>5 DEF Delivery, KeysDistinct, Key, WrittenOnce, FiledUnanswered, TypeOK
<1>12. Pending'
  <2>1. ASSUME NEW i \in 1..Len(sending), i >= pos
        PROVE  sending[i] \notin Range(written) /\ (sending[i] \in waiting' \/ Clashed(sending[i]))
    <3>1. sending[i] \notin Range(written) /\ (sending[i] \in waiting \/ Clashed(sending[i]))
      BY <2>1 DEF Delivery, Pending
    <3> QED
      BY <1>3, <1>4, <1>5, <3>1
  <2> QED
    BY <1>5, <1>7, <2>1 DEF Pending, loop
<1>13. Unsent'
  <2>1. \A q \in Reqs : state'[q] \in Numbering \cup {"refused", "sending", "dropped"} =>
            state'[q] = state[q] /\ answers'[q] = answers[q]
    BY <1>5 DEF Numbering
  <2>2. UNCHANGED <<sending, written>> /\ waiting' \subseteq waiting
    BY <1>5
  <2> QED
    BY <2>1, <2>2 DEF Delivery, Unsent
<1>14. QueuedOnce' /\ TargetInQueue'
  BY <1>5 DEF Delivery, QueuedOnce, TargetInQueue, loop
<1> QED
  BY <1>8, <1>9, <1>10, <1>11, <1>12, <1>13, <1>14 DEF Delivery

\* A request is numbered before it is filed: no filed key changes.
LEMMA NumberStep ==
    ASSUME TypeOK, Delivery, NEW r \in Reqs, Number(r)
    PROVE  Delivery'
<1>1. \A q \in Reqs : q # r => serial'[q] = serial[q] /\ state'[q] = state[q]
  BY DEF Number, Increment, Reset, Load, TypeOK
<1>2. state[r] \in Numbering /\ state'[r] \in Numbering
  BY DEF Number, Increment, Reset, Load, Numbering, TypeOK
<1>3. UNCHANGED <<sending, waiting, loop, wire, written, answers>>
  BY DEF Number, Increment, Reset, Load
<1>4. KeysDistinct'
  <2>1. r \notin waiting
    BY <1>2 DEF Delivery, Unsent
  <2>2. \A q \in waiting : q \in Reqs /\ Key(q)' = Key(q)
    BY <1>1, <2>1 DEF Key, TypeOK
  <2> QED
    BY <1>3, <2>2 DEF Delivery, KeysDistinct
<1>5. Unsent'
  BY <1>1, <1>2, <1>3 DEF Delivery, Unsent
<1>6. /\ r \notin Range(written) /\ r \notin Range(sending) /\ answers[r] = 0
      /\ Range(written) \subseteq Reqs /\ Range(sending) \subseteq Reqs
  <2>1. written \in Seq(Reqs) /\ sending \in Seq(Reqs)
    BY DEF TypeOK
  <2>2. Range(written) \subseteq Reqs /\ Range(sending) \subseteq Reqs
    BY <2>1, RangeSeq, ElementOfSeq
  <2> QED
    BY <1>2, <2>2 DEF Delivery, Unsent
<1>7. \A q \in Reqs : q # r /\ Clashed(q) => Clashed(q)'
  BY <1>1, <1>3, <1>6 DEF Clashed, Key
<1>8. AnsweredOnce' /\ WrittenOnce' /\ FiledUnanswered'
  BY <1>3, <1>6, <1>7 DEF Delivery, AnsweredOnce, WrittenOnce, FiledUnanswered
<1>9. Pending'
  <2>1. \A i \in 1..Len(sending) : sending[i] \in Reqs /\ sending[i] # r
    BY <1>6, RangeSeq DEF TypeOK
  <2> QED
    BY <1>3, <1>7, <2>1 DEF Delivery, Pending, loop
<1>10. QueuedOnce' /\ TargetInQueue'
  BY <1>3 DEF Delivery, QueuedOnce, TargetInQueue, loop
<1>11. AnswerFindsCallback'
  <2>1. \A s \in Sessions : \A q \in Range(up[s]) \cup Range(down[s]) : q \in Reqs /\ q # r
    BY <1>6 DEF Delivery, WireWritten
  <2> QED
    BY <1>3, <1>7, <2>1 DEF Delivery, AnswerFindsCallback, wire
<1>12. WireWritten' /\ WireOnce'
  BY <1>3 DEF Delivery, WireWritten, WireOnce, wire
<1> QED
  BY <1>4, <1>5, <1>8, <1>9, <1>10, <1>11, <1>12 DEF Delivery

\* Append looks for the key before it files the request.
LEMMA AppendStep ==
    ASSUME TypeOK, Delivery, NEW r \in Reqs, AppendRequest(r)
    PROVE  Delivery'
<1>1. /\ r \notin waiting /\ r \notin Range(sending) /\ r \notin Range(written)
      /\ answers[r] = 0
  BY DEF AppendRequest, Delivery, Unsent, Numbering
<1>2. /\ sending \in Seq(Reqs) /\ Len(sending) \in Nat
      /\ Len(sending') = Len(sending) + 1
      /\ \A i \in 1..Len(sending) : sending'[i] = sending[i]
      /\ sending'[Len(sending) + 1] = r
  BY LenProperties, AppendProperties DEF AppendRequest, TypeOK
<1>3. IsInjective(sending') /\ Range(sending') = Range(sending) \cup {r}
  BY <1>1, <1>2, RangeAppend, AppendKeepsInjective DEF AppendRequest, Delivery, QueuedOnce
<1>4. /\ waiting' = waiting \cup {r} /\ pos = 0
      /\ UNCHANGED <<serial, loop, wire, written, answers>>
  BY DEF AppendRequest, MutexFree
<1>5. \A q \in Reqs : state'[q] = IF q = r THEN "queued" ELSE state[q]
  BY DEF AppendRequest, Done, TypeOK
<1>6. KeysDistinct'
  <2>1. \A q \in waiting : Key(q) # Key(r)
    BY DEF AppendRequest, Taken
  <2> QED
    BY <1>4, <2>1 DEF Delivery, KeysDistinct, Key
<1>7. AnsweredOnce' /\ WrittenOnce' /\ FiledUnanswered'
  BY <1>1, <1>4 DEF Delivery, AnsweredOnce, Clashed, Key, WrittenOnce, FiledUnanswered
<1>8. QueuedOnce' /\ Unsent'
  BY <1>3, <1>4, <1>5 DEF Delivery, QueuedOnce, Unsent, Numbering
<1>9. Pending'
  <2>1. \A i \in 1..Len(sending') : i \in 1..Len(sending) \/ i = Len(sending) + 1
    BY <1>2
  <2>2. \A i \in 1..Len(sending) : /\ sending[i] \notin Range(written)
                                   /\ sending[i] \in waiting \/ Clashed(sending[i])
    BY <1>4 DEF Delivery, Pending
  <2>3. \A q : Clashed(q)' <=> Clashed(q)
    BY <1>4 DEF Clashed, Key
  <2> QED
    BY <1>1, <1>2, <1>4, <2>1, <2>2, <2>3 DEF Pending
<1>10. TargetInQueue'
  BY <1>2, <1>4 DEF Delivery, TargetInQueue, loop
<1>11. AnswerFindsCallback' /\ WireWritten' /\ WireOnce'
  BY <1>4 DEF Delivery, AnswerFindsCallback, Clashed, Key, WireWritten, WireOnce, wire
<1> QED
  BY <1>6, <1>7, <1>8, <1>9, <1>10, <1>11 DEF Delivery

LEMMA RefuseStep ==
    ASSUME TypeOK, Delivery, NEW r \in Reqs, RefuseRequest(r)
    PROVE  Delivery'
<1>1. /\ state[r] = "numbered"
      /\ \A q \in Reqs : state'[q] = IF q = r THEN "refused" ELSE state[q]
      /\ UNCHANGED <<serial, sending, waiting, loop, wire, written, answers>>
  BY DEF RefuseRequest, Done, TypeOK
<1>2. Unsent'
  BY <1>1 DEF Delivery, Unsent, Numbering
<1>3. KeysDistinct' /\ AnsweredOnce' /\ WrittenOnce' /\ FiledUnanswered'
  BY <1>1 DEF Delivery, KeysDistinct, Key, Clashed, AnsweredOnce, WrittenOnce, FiledUnanswered
<1>4. QueuedOnce' /\ Pending' /\ TargetInQueue'
  BY <1>1 DEF Delivery, QueuedOnce, Pending, Clashed, Key, TargetInQueue, loop
<1>5. AnswerFindsCallback' /\ WireWritten' /\ WireOnce'
  BY <1>1 DEF Delivery, AnswerFindsCallback, Clashed, Key, WireWritten, WireOnce, wire
<1> QED
  BY <1>2, <1>3, <1>4, <1>5 DEF Delivery

\* A round of the loop begins, goes on without writing, or breaks off.
LEMMA LoopMoves ==
    ASSUME TypeOK, Delivery, Begin \/ Lookup \/ WriteClosed \/ WriteError
    PROVE  Delivery'
<1>1. Len(sending) \in Nat /\ pos \in Nat
  BY LenProperties DEF TypeOK
<1>2. UNCHANGED <<state, serial, sending, waiting, wire, written, answers>>
  BY DEF Begin, Lookup, WriteClosed, WriteError, caller
<1>3. \A i \in 1..Len(sending) : i >= pos' => i >= pos
  BY <1>1 DEF Begin, MutexFree, Lookup, WriteClosed, WriteError, BreakOff
<1>4. Pending'
  BY <1>2, <1>3 DEF Delivery, Pending, Clashed, Key
<1>5. TargetInQueue'
  <2>1. CASE Begin
    BY <1>2, <2>1, EmptySeq DEF Begin, MutexFree, Delivery, TargetInQueue
  <2>2. CASE Lookup
    BY <1>1, <1>2, <2>2 DEF Lookup, MutexFree, Finished, TargetInQueue
  <2>3. CASE WriteClosed \/ WriteError
    BY <2>3 DEF WriteClosed, WriteError, BreakOff, TargetInQueue
  <2> QED
    BY <2>1, <2>2, <2>3
<1>6. KeysDistinct' /\ AnsweredOnce' /\ WrittenOnce' /\ FiledUnanswered'
  BY <1>2 DEF Delivery, KeysDistinct, Key, Clashed, AnsweredOnce, WrittenOnce, FiledUnanswered
<1>7. QueuedOnce' /\ Unsent'
  BY <1>2 DEF Delivery, QueuedOnce, Unsent
<1>8. AnswerFindsCallback' /\ WireWritten' /\ WireOnce'
  BY <1>2 DEF Delivery, AnswerFindsCallback, Clashed, Key, WireWritten, WireOnce, wire
<1> QED
  BY <1>4, <1>5, <1>6, <1>7, <1>8 DEF Delivery

\* A message written for the first time is nowhere else on the wire.
LEMMA GoesOut ==
    ASSUME TypeOK, Delivery, NEW r \in Reqs, r \notin Range(written), NEW t \in Sessions,
           down' = [down EXCEPT ![t] = Append(down[t], r)],
           written' = Append(written, r),
           UNCHANGED <<serial, up>>
    PROVE  /\ WireOnce' /\ WireWritten' /\ WrittenOnce'
           /\ Range(written') = Range(written) \cup {r}
           /\ \A q : Clashed(q) => Clashed(q)'
           /\ \A x \in Sessions : Range(down'[x]) \subseteq Range(down[x]) \cup {r}
<1>1. /\ down[t] \in Seq(Reqs) /\ written \in Seq(Reqs)
      /\ IsInjective(down[t]) /\ IsInjective(written)
      /\ \A x \in Sessions : r \notin Range(down[x]) /\ r \notin Range(up[x])
  BY DEF TypeOK, Delivery, WireOnce, WireWritten, WrittenOnce
<1>2. /\ IsInjective(written') /\ Range(written') = Range(written) \cup {r}
      /\ IsInjective(Append(down[t], r))
      /\ Range(Append(down[t], r)) = Range(down[t]) \cup {r}
  BY <1>1, RangeAppend, AppendKeepsInjective
<1>3. \A x \in Sessions : down'[x] = IF x = t THEN Append(down[t], r) ELSE down[x]
  BY DEF TypeOK
<1>4. \A x \in Sessions : /\ IsInjective(down'[x]) /\ IsInjective(up'[x])
                          /\ Range(up'[x]) = Range(up[x])
                          /\ Range(down'[x]) = IF x = t THEN Range(down[x]) \cup {r}
                                               ELSE Range(down[x])
  BY <1>2, <1>3 DEF Delivery, WireOnce
<1>5. WireOnce'
  <2>1. ASSUME NEW x \in Sessions, NEW y \in Sessions
        PROVE  /\ x # y => /\ Range(down'[x]) \cap Range(down'[y]) = {}
                           /\ Range(up'[x]) \cap Range(up'[y]) = {}
               /\ Range(down'[x]) \cap Range(up'[y]) = {}
    <3>1. /\ x # y => /\ Range(down[x]) \cap Range(down[y]) = {}
                      /\ Range(up[x]) \cap Range(up[y]) = {}
          /\ Range(down[x]) \cap Range(up[y]) = {}
      BY DEF Delivery, WireOnce
    <3>2. \A z \in Sessions : /\ Range(up'[z]) = Range(up[z])
                              /\ z = t => Range(down'[z]) = Range(down[z]) \cup {r}
                              /\ z # t => Range(down'[z]) = Range(down[z])
      BY <1>4
    <3>3. /\ r \notin Range(down[x]) /\ r \notin Range(down[y])
          /\ r \notin Range(up[x]) /\ r \notin Range(up[y])
      BY <1>1
    <3>4. Range(down'[x]) \cap Range(up'[y]) = {}
      <4>1. CASE x = t
        BY <3>1, <3>2, <3>3, <4>1
      <4>2. CASE x # t
        BY <3>1, <3>2, <4>2
      <4> QED
        BY <4>1, <4>2
    <3>5. ASSUME x # y PROVE Range(down'[x]) \cap Range(down'[y]) = {}
      <4>1. CASE x = t
        BY <3>1, <3>2, <3>3, <3>5, <4>1
      <4>2. CASE y = t
        BY <3>1, <3>2, <3>3, <3>5, <4>2
      <4>3. CASE x # t /\ y # t
        BY <3>1, <3>2, <3>5, <4>3
      <4> QED
        BY <4>1, <4>2, <4>3
    <3> QED
      BY <3>1, <3>2, <3>4, <3>5
  <2> QED
    BY <1>4, <2>1 DEF WireOnce
<1>6. WireWritten' /\ WrittenOnce'
  BY <1>2, <1>4 DEF Delivery, WireWritten, WrittenOnce
<1>7. \A q : Clashed(q) => Clashed(q)'
  BY <1>2 DEF Clashed, Key
<1> QED
  BY <1>2, <1>4, <1>5, <1>6, <1>7

\* The message the loop has come to was never written.
LEMMA WriteStep ==
    ASSUME TypeOK, Delivery, Write
    PROVE  Delivery'
<1> DEFINE r == sending[pos]
<1>1. target \in Sessions /\ target # None
  BY NoneAssumption DEF Write, TypeOK
<1>2. pos \in 1..Len(sending) /\ Len(sending) \in Nat /\ sending \in Seq(Reqs)
  BY <1>1, LenProperties DEF Delivery, TargetInQueue, TypeOK
<1>3. r \in Reqs /\ r \notin Range(written) /\ (r \in waiting \/ Clashed(r))
  BY <1>2, ElementOfSeq DEF Delivery, Pending
<1>4. r \in Range(sending)
  BY <1>2, RangeSeq
<1>5. /\ down' = [down EXCEPT ![target] = Append(down[target], r)]
      /\ written' = Append(written, r)
      /\ pos' = pos + 1 /\ target' = None
      /\ UNCHANGED <<state, serial, sending, waiting, up, answers>>
  BY DEF Write, caller
<1>6. /\ WireOnce' /\ WireWritten' /\ WrittenOnce'
      /\ Range(written') = Range(written) \cup {r}
      /\ \A q : Clashed(q) => Clashed(q)'
      /\ \A x \in Sessions : Range(down'[x]) \subseteq Range(down[x]) \cup {r}
  BY <1>1, <1>3, <1>5, GoesOut
<1>7. Pending'
  <2>1. ASSUME NEW i \in 1..Len(sending), i >= pos + 1
        PROVE  /\ sending[i] # r /\ sending[i] \notin Range(written)
               /\ sending[i] \in waiting \/ Clashed(sending[i])
    <3>1. i # pos /\ i >= pos
      BY <1>2, <2>1
    <3>2. DOMAIN sending = 1..Len(sending)
      BY <1>2, LenProperties
    <3> QED
      BY <1>2, <3>1, <3>2 DEF Delivery, QueuedOnce, IsInjective, Pending
  <2> QED
    BY <1>5, <1>6, <2>1 DEF Pending
<1> HIDE DEF r
<1>8. AnswerFindsCallback'
  BY <1>3, <1>5, <1>6 DEF Delivery, AnswerFindsCallback
<1>9. Unsent'
  BY <1>4, <1>5, <1>6 DEF Delivery, Unsent
<1>10. KeysDistinct' /\ FiledUnanswered'
  BY <1>5 DEF Delivery, KeysDistinct, Key, FiledUnanswered
<1>11. AnsweredOnce'
  BY <1>5, <1>6 DEF Delivery, AnsweredOnce
<1>12. QueuedOnce' /\ TargetInQueue'
  BY <1>5 DEF Delivery, QueuedOnce, TargetInQueue
<1> QED
  BY <1>6, <1>7, <1>8, <1>9, <1>10, <1>11, <1>12 DEF Delivery

\* The synchronous Send files nothing; what it writes was never queued.
LEMMA SendStep ==
    ASSUME TypeOK, Delivery, NEW r \in Direct, Send(r)
    PROVE  Delivery'
<1>1. /\ r \in Reqs /\ state[r] \in {"numbered", "sending"}
      /\ \A q \in Reqs : q # r => state'[q] = state[q]
      /\ UNCHANGED <<serial, sending, waiting, loop, up, answers>>
  BY DirectAssumption
  DEF Send, FindSession, SendMsg, SendClosed, SendError, Done, TypeOK, wire
<1>2. r \notin waiting /\ r \notin Range(sending) /\ r \notin Range(written) /\ answers[r] = 0
  BY <1>1 DEF Delivery, Unsent, Numbering
<1>3. KeysDistinct' /\ FiledUnanswered' /\ QueuedOnce' /\ TargetInQueue'
  BY <1>1 DEF Delivery, KeysDistinct, Key, FiledUnanswered, QueuedOnce, TargetInQueue, loop
<1>4. CASE SendMsg(r)
  <2> DEFINE t == session[r]
  <2>1. /\ t \in Sessions
        /\ down' = [down EXCEPT ![t] = Append(down[t], r)]
        /\ written' = Append(written, r)
        /\ state'[r] = "sent"
    BY <1>1, <1>4 DEF SendMsg, Done, TypeOK
  <2> HIDE DEF t
  <2>2. /\ WireOnce' /\ WireWritten' /\ WrittenOnce'
        /\ Range(written') = Range(written) \cup {r}
        /\ \A q : Clashed(q) => Clashed(q)'
        /\ \A x \in Sessions : Range(down'[x]) \subseteq Range(down[x]) \cup {r}
    BY <1>1, <1>2, <2>1, GoesOut
  <2>3. AnswerFindsCallback'
    BY <1>1, <2>2 DEF Delivery, AnswerFindsCallback
  <2>4. Unsent'
    BY <1>1, <2>1, <2>2 DEF Delivery, Unsent, Numbering
  <2>5. AnsweredOnce'
    BY <1>1, <2>2 DEF Delivery, AnsweredOnce
  <2>6. Pending'
    <3>1. \A i \in 1..Len(sending) : sending[i] # r
      BY <1>2, RangeSeq DEF TypeOK
    <3> QED
      BY <1>1, <2>2, <3>1 DEF Delivery, Pending, loop
  <2> QED
    BY <1>3, <2>2, <2>3, <2>4, <2>5, <2>6 DEF Delivery
<1>5. CASE FindSession(r) \/ SendClosed(r) \/ SendError(r)
  <2>1. UNCHANGED <<wire, written>>
    BY <1>5 DEF FindSession, SendClosed, SendError
  <2>2. \A q : Clashed(q)' <=> Clashed(q)
    BY <1>1, <2>1 DEF Clashed, Key
  <2>3. Unsent'
    BY <1>1, <1>2, <2>1 DEF Delivery, Unsent
  <2>4. AnsweredOnce' /\ WrittenOnce' /\ Pending'
    BY <1>1, <2>1, <2>2 DEF Delivery, AnsweredOnce, WrittenOnce, Pending, loop
  <2>5. AnswerFindsCallback' /\ WireWritten' /\ WireOnce'
    BY <1>1, <2>1, <2>2 DEF Delivery, AnswerFindsCallback, WireWritten, WireOnce, wire
  <2> QED
    BY <1>3, <2>3, <2>4, <2>5 DEF Delivery
<1> QED
  BY <1>4, <1>5 DEF Send

LEMMA EndStep ==
    ASSUME TypeOK, Delivery, End
    PROVE  Delivery'
<1>1. /\ sending' = <<>> /\ Len(sending') = 0 /\ Range(sending') = {}
      /\ IsInjective(sending')
  BY EmptyRange, EmptyInjective DEF End
<1>2. target = None
  <2>1. pos > Len(sending) /\ Len(sending) \in Nat /\ pos \in Nat
    BY LenProperties DEF End, Finished, TypeOK
  <2> QED
    BY <2>1 DEF Delivery, TargetInQueue
<1>3. UNCHANGED <<state, serial, waiting, target, wire, written, answers>>
  BY DEF End, caller
<1>4. QueuedOnce' /\ Unsent' /\ TargetInQueue'
  BY <1>1, <1>2, <1>3 DEF Delivery, QueuedOnce, Unsent, TargetInQueue
<1>5. Pending'
  BY <1>1 DEF Pending
<1>6. KeysDistinct' /\ AnsweredOnce' /\ WrittenOnce' /\ FiledUnanswered'
  BY <1>3 DEF Delivery, KeysDistinct, Key, Clashed, AnsweredOnce, WrittenOnce, FiledUnanswered
<1>7. AnswerFindsCallback' /\ WireWritten' /\ WireOnce'
  BY <1>3 DEF Delivery, AnswerFindsCallback, Clashed, Key, WireWritten, WireOnce, wire
<1> QED
  BY <1>4, <1>5, <1>6, <1>7 DEF Delivery

-----------------------------------------------------------------------------
LEMMA InitLemma == Init => IInv
<1> SUFFICES ASSUME Init PROVE IInv
  OBVIOUS
<1>1. TypeOK
  <2>1. 0 \in 0..MaxSerial
    BY BoundsAssumption
  <2>2. <<>> \in Seq(Reqs) /\ pos \in 0..Len(sending) + 1
    BY EmptySeq DEF Init
  <2> QED
    BY <2>1, <2>2 DEF Init, TypeOK, States, InHand
<1>2. KeysDistinct /\ AnsweredOnce /\ FiledUnanswered /\ Unsent
  BY EmptyRange DEF Init, KeysDistinct, AnsweredOnce, FiledUnanswered, Unsent
<1>3. WrittenOnce /\ QueuedOnce /\ Pending /\ TargetInQueue
  BY EmptyRange, EmptyInjective DEF Init, WrittenOnce, QueuedOnce, Pending, TargetInQueue
<1>4. AnswerFindsCallback /\ WireWritten /\ WireOnce
  BY EmptyRange, EmptyInjective DEF Init, AnswerFindsCallback, WireWritten, WireOnce
<1> QED
  BY <1>1, <1>2, <1>3, <1>4 DEF IInv, Delivery

LEMMA NextLemma == IInv /\ [Next]_vars => IInv'
<1> SUFFICES ASSUME TypeOK, Delivery, [Next]_vars PROVE TypeOK' /\ Delivery'
  BY DEF IInv
<1>1. CASE UNCHANGED vars
  <2>1. TypeOK'
    BY <1>1 DEF vars, TypeOK
  <2> QED
    BY <1>1, <2>1, LinkStep DEF vars, loop, wire
<1>2. ASSUME NEW s \in Sessions,
             CloseConn(s) \/ \E ph \in Phones : Unregister(ph) \/ Register(ph, s)
      PROVE  TypeOK' /\ Delivery'
  <2>1. UNCHANGED <<state, serial, sending, waiting, loop, wire, written, answers>>
    BY <1>2 DEF CloseConn, Unregister, Register, caller
  <2> QED
    BY <1>2, <2>1, LinkTypes, LinkStep
<1>3. ASSUME NEW s \in Sessions, RemoveSession(s)
      PROVE  TypeOK' /\ Delivery'
  BY <1>3, LinkTypes, RemoveStep
<1>4. ASSUME NEW ph \in Phones, Unregister(ph)
      PROVE  TypeOK' /\ Delivery'
  <2>1. TypeOK'
    BY <1>4 DEF Unregister, TypeOK, caller, loop, wire
  <2> QED
    BY <1>4, <2>1, LinkStep DEF Unregister, caller
<1>5. ASSUME NEW r \in Reqs, Number(r) \/ AppendRequest(r) \/ RefuseRequest(r)
      PROVE  TypeOK' /\ Delivery'
  BY <1>5, CallerTypes, NumberStep, AppendStep, RefuseStep
<1>6. CASE SenderLoop
  <2>1. TypeOK'
    BY <1>6, LoopTypes DEF Delivery
  <2> QED
    BY <1>6, <2>1, LoopMoves, WriteStep, EndStep DEF SenderLoop
<1>7. ASSUME NEW s \in Sessions, Answer(s) \/ Ignore(s) \/ ProcResponse(s) \/ RejectResponse(s)
      PROVE  TypeOK' /\ Delivery'
  BY <1>3, <1>7, AnswerTypes, AnswerStep, IgnoreStep, ProcResponseStep DEF RejectResponse
<1>8. ASSUME NEW r \in Direct, Send(r)
      PROVE  TypeOK' /\ Delivery'
  BY <1>8, DirectAssumption, SendTypes, SendStep
<1> QED
  BY <1>1, <1>2, <1>3, <1>4, <1>5, <1>6, <1>7, <1>8 DEF Next

\* The invariant holds for every number of devices, sessions and messages.
THEOREM Invariance == Spec => []IInv
  BY InitLemma, NextLemma, PTL DEF Spec

\* An answer never has two callers, also when serial numbers come round while
\* old requests still wait and when a new session starts at 0 again.
THEOREM KeysStayDistinct == Spec => []KeysDistinct
<1>1. IInv => KeysDistinct
  BY DEF IInv, Delivery
<1> QED
  BY <1>1, Invariance, PTL

\* A callback is called at most once, and only after its message went out or one of
\* the synchronous Send under the same key.
THEOREM CallbackAtMostOnce == Spec => []AnsweredOnce
<1>1. IInv => AnsweredOnce
  BY DEF IInv, Delivery
<1> QED
  BY <1>1, Invariance, PTL

\* The first answer to a queued message finds the caller that waits for it, unless a
\* message of the synchronous Send went out under the same key.
THEOREM AnswersFindCallbacks == Spec => []AnswerFindsCallback
<1>1. IInv => AnswerFindsCallback
  BY DEF IInv, Delivery
<1> QED
  BY <1>1, Invariance, PTL

\* No message is written twice, however the rounds of the loop end.
THEOREM MessagesGoOutOnce == Spec => []WrittenOnce
<1>1. IInv => WrittenOnce
  BY DEF IInv, Delivery
<1> QED
  BY <1>1, Invariance, PTL

\* The sender's position stays within its queue, and its queue and its wires hold
\* requests only, for every number of devices, sessions and messages.
THEOREM TypeCorrect == Spec => []TypeOK
<1>1. IInv => TypeOK
  BY DEF IInv
<1> QED
  BY <1>1, Invariance, PTL
=============================================================================
