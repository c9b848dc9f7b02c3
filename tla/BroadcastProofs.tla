--------------------------- MODULE BroadcastProofs ---------------------------
(***************************************************************************)
(* What Broadcast promises for any number of devices and any timeout.  The *)
(* argument is a count: the results received and those in the channel are  *)
(* as many as the devices whose callback has run, and a device whose       *)
(* callback is still filed is not among them, so there is room for it.     *)
(***************************************************************************)
EXTENDS Broadcast, FiniteSetTheorems, SequenceTheorems, TLAPS

Sent == {ph \in Phones : got[ph] # "none"}

FiledOnce ==
    /\ Sent \subseteq listed
    /\ (filed \cup todo) \cap Sent = {}
    /\ filed \cap todo = {}

Counted == Cardinality(Sent) = cnt + Len(waitChan)

Errors ==
    (\E ph \in Phones : got[ph] = "error") =>
        err # "nil" \/ \E i \in 1..Len(waitChan) : waitChan[i] = "error"

Settings ==
    api = "get" =>
        \/ settings \in listed
        \/ Sent = {}
        \/ \E ph \in Phones : got[ph] = "error"

Phases ==
    /\ phase = "idle" => listed = {} /\ err = "nil"
    /\ phase \in {"idle", "sending"} => cnt = 0 /\ elapsed = 0 /\ left = To
    /\ phase \in {"sending", "waiting"} => listed # {}
    /\ phase = "waiting" => cnt < total
    /\ phase = "returned" /\ err = "nil" => listed # {} /\ cnt >= total

Time ==
    /\ phase = "waiting" => elapsed + left <= To * (cnt + 1)
    /\ phase = "returned" => elapsed <= To * total

IInv ==
    /\ TypeOK
    /\ blocked = FALSE
    /\ FiledOnce
    /\ Counted
    /\ Errors
    /\ Settings
    /\ Phases
    /\ Time

-----------------------------------------------------------------------------
LEMMA Finite ==
    ASSUME TypeOK
    PROVE  /\ IsFiniteSet(listed) /\ total \in Nat
           /\ listed # {} => total > 0
           /\ Sent \in SUBSET Phones /\ IsFiniteSet(Sent) /\ Cardinality(Sent) \in Nat
<1>1. listed \in SUBSET Phones /\ Sent \in SUBSET Phones
  BY DEF TypeOK, Sent
<1>2. IsFiniteSet(listed) /\ IsFiniteSet(Sent)
  BY <1>1, FS_Subset, PhonesAssumption
<1>3. total \in Nat /\ Cardinality(Sent) \in Nat
  BY <1>2, FS_CardinalityType DEF total
<1>4. listed # {} => total # 0
  BY <1>2, FS_EmptySet DEF total
<1> QED
  BY <1>1, <1>2, <1>3, <1>4

LEMMA Monotone ==
    ASSUME NEW m \in Nat, NEW n \in Nat, m <= n
    PROVE  To * m <= To * n
BY ToAssumption

LEMMA InitLemma == Init => IInv
<1> SUFFICES ASSUME Init PROVE IInv
  OBVIOUS
<1>1. TypeOK
  <2>1. waitChan \in Seq(Results) /\ settings \in Phones \cup {None}
    BY DEF Init
  <2>2. blocked \in BOOLEAN
    BY Zenon DEF Init
  <2>3. got \in [Phones -> Results \cup {"none"}]
    BY DEF Init
  <2> QED
    BY <2>1, <2>2, <2>3, ToAssumption DEF Init, TypeOK, Results
<1>2. Sent = {} /\ Cardinality(Sent) = 0
  BY FS_EmptySet DEF Init, Sent
<1> QED
  BY <1>1, <1>2 DEF Init, IInv, FiledOnce, Counted, Errors, Settings, Phases, Time

\* There is room in the channel whenever a callback is filed.
LEMMA RoomLemma ==
    ASSUME IInv, filed # {}
    PROVE  HasRoom
<1>1. PICK ph \in filed : TRUE
  OBVIOUS
<1>2. ph \notin Sent /\ ph \in listed /\ Sent \subseteq listed
  BY <1>1 DEF IInv, FiledOnce, TypeOK
<1>3. IsFiniteSet(listed) /\ total \in Nat /\ Cardinality(Sent) \in Nat
  BY Finite DEF IInv
<1>4. Cardinality(Sent) <= total /\ Cardinality(Sent) # total
  BY <1>2, <1>3, FS_Subset DEF total
<1>5. Cardinality(Sent) = cnt + Len(waitChan) /\ cnt \in Nat /\ Len(waitChan) \in Nat
  BY LenProperties DEF IInv, Counted, TypeOK
<1> QED
  BY <1>3, <1>4, <1>5 DEF HasRoom

-----------------------------------------------------------------------------
LEMMA CallbackLemma ==
    ASSUME IInv, NEW ph \in Phones, NEW r \in Results, Callback(ph, r)
    PROVE  IInv'
<1> USE DEF IInv
<1>1. HasRoom /\ ph \in filed
  BY RoomLemma DEF Callback
<1>2. /\ waitChan' = Append(waitChan, r)
      /\ got' = [got EXCEPT ![ph] = r]
      /\ filed' = filed \ {ph}
      /\ settings' \in {ph, None}
      /\ UNCHANGED <<phase, api, listed, todo, cnt, err, left, elapsed>>
  BY <1>1 DEF Callback, caller, clock
<1>3. blocked' = FALSE
  BY <1>1 DEF Callback
<1>4. ph \in listed /\ ph \notin Sent /\ waitChan \in Seq(Results)
  BY <1>1 DEF TypeOK, FiledOnce
<1>5. /\ waitChan' \in Seq(Results)
      /\ Len(waitChan') = Len(waitChan) + 1
      /\ \A i \in 1..Len(waitChan) : waitChan'[i] = waitChan[i]
      /\ waitChan'[Len(waitChan) + 1] = r
  BY <1>2, <1>4, AppendProperties
<1>6. TypeOK'
  BY <1>1, <1>2, <1>3, <1>4, <1>5 DEF TypeOK
<1>7. Sent' = Sent \cup {ph}
  BY <1>2 DEF Sent, TypeOK, Results
<1>8. FiledOnce'
  BY <1>1, <1>2, <1>4, <1>7 DEF FiledOnce
<1>9. Counted'
  <2>1. Cardinality(Sent') = Cardinality(Sent) + 1
    BY <1>4, <1>7, Finite, FS_AddElement
  <2> QED
    BY <2>1, <1>2, <1>4, <1>5, LenProperties DEF Counted, TypeOK
<1>10. Errors'
  <2> SUFFICES ASSUME NEW q \in Phones, got'[q] = "error", err' = "nil"
               PROVE  \E i \in 1..Len(waitChan') : waitChan'[i] = "error"
    BY DEF Errors
  <2>1. Len(waitChan) \in Nat
    BY <1>4, LenProperties
  <2>2. CASE q = ph
    BY <2>1, <2>2, <1>2, <1>5 DEF TypeOK
  <2>3. CASE q # ph
    <3>1. PICK i \in 1..Len(waitChan) : waitChan[i] = "error"
      BY <2>3, <1>2 DEF Errors, TypeOK
    <3> QED
      BY <3>1, <2>1, <1>5
  <2> QED
    BY <2>2, <2>3
<1>11. Settings'
  <2>1. api = "get" /\ r = "nil" => settings' = ph
    BY DEF Callback
  <2>2. r # "nil" => got'[ph] = "error"
    BY <1>2 DEF Results, TypeOK
  <2> QED
    BY <2>1, <2>2, <1>2, <1>4 DEF Settings
<1>12. Phases' /\ Time'
  BY <1>2 DEF Phases, Time, total
<1> QED
  BY <1>3, <1>6, <1>8, <1>9, <1>10, <1>11, <1>12

LEMMA ReceiveLemma ==
    ASSUME IInv, Receive
    PROVE  IInv'
<1> USE DEF IInv
<1>1. /\ phase = "waiting" /\ waitChan \in Seq(Results) /\ waitChan # <<>>
      /\ waitChan' = Tail(waitChan) /\ cnt' = cnt + 1 /\ left' = To
      /\ err' = IF Head(waitChan) = "error" THEN "error" ELSE err
      /\ phase' = IF cnt + 1 >= total THEN "returned" ELSE "waiting"
      /\ UNCHANGED <<api, listed, todo, filed, settings, blocked, got, elapsed>>
  BY DEF Receive, ReceivedAll, TypeOK
<1>2. /\ Head(waitChan) = waitChan[1]
      /\ Head(waitChan) \in Results
      /\ Tail(waitChan) \in Seq(Results)
      /\ Len(waitChan) \in Nat \ {0}
      /\ Len(Tail(waitChan)) = Len(waitChan) - 1
      /\ \A i \in 1..Len(waitChan) - 1 : Tail(waitChan)[i] = waitChan[i + 1]
  BY <1>1, HeadTailProperties, LenProperties, EmptySeq
<1>3. TypeOK'
  BY <1>1, <1>2, ToAssumption DEF TypeOK
<1>4. Sent' = Sent
  BY <1>1 DEF Sent
<1>5. FiledOnce' /\ Settings'
  BY <1>1, <1>4 DEF FiledOnce, Settings
<1>6. Counted'
  BY <1>1, <1>2, <1>4 DEF Counted, TypeOK
<1>7. Errors'
  <2> SUFFICES ASSUME NEW q \in Phones, got[q] = "error", err = "nil", Head(waitChan) # "error"
               PROVE  \E i \in 1..Len(waitChan') : waitChan'[i] = "error"
    BY <1>1 DEF Errors
  <2>1. PICK j \in 1..Len(waitChan) : waitChan[j] = "error"
    BY DEF Errors
  <2>2. j # 1
    BY <2>1, <1>2
  <2>3. j - 1 \in 1..Len(waitChan') /\ waitChan'[j - 1] = waitChan[j]
    BY <2>1, <2>2, <1>1, <1>2
  <2> QED
    BY <2>1, <2>3
<1>8. total' = total /\ total \in Nat
  BY <1>1, Finite DEF total
<1>9. Phases'
  BY <1>1, <1>8 DEF Phases, TypeOK
<1>10. Time'
  <2>1. elapsed + left <= To * (cnt + 1)
    BY <1>1 DEF Time
  <2>2. To * (cnt + 2) = To * (cnt + 1) + To
    BY ToAssumption DEF TypeOK
  <2>3. cnt < total
    BY <1>1 DEF Phases
  <2>4. To * (cnt + 1) <= To * total
    BY <2>3, <1>8, Monotone DEF TypeOK
  <2>5. To * (cnt + 1) \in Nat /\ To * total \in Nat
    BY <1>8, ToAssumption DEF TypeOK
  <2> QED
    BY <2>1, <2>2, <2>4, <2>5, <1>1, <1>8, ToAssumption DEF Time, TypeOK
<1> QED
  BY <1>1, <1>3, <1>5, <1>6, <1>7, <1>9, <1>10

LEMMA ClockLemma ==
    ASSUME IInv, Tick \/ Timeout
    PROVE  IInv'
<1> USE DEF IInv
<1>1. /\ phase = "waiting"
      /\ UNCHANGED <<api, listed, todo, filed, waitChan, cnt, settings, blocked, got>>
  BY DEF Tick, Timeout, caller, clock
<1>2. Sent' = Sent /\ total' = total /\ total \in Nat
  BY <1>1, Finite DEF Sent, total
<1>3. CASE Tick
  <2>1. left > 0 /\ left' = left - 1 /\ elapsed' = elapsed + 1 /\ UNCHANGED <<phase, err>>
    BY <1>3 DEF Tick, caller
  <2>2. TypeOK'
    BY <1>1, <2>1, ToAssumption DEF TypeOK
  <2>3. Time'
    <3>1. elapsed' + left' = elapsed + left
      BY <2>1, ToAssumption DEF TypeOK
    <3> QED
      BY <1>1, <2>1, <3>1 DEF Time
  <2> QED
    BY <1>1, <1>2, <2>1, <2>2, <2>3 DEF FiledOnce, Counted, Errors, Settings, Phases
<1>4. CASE Timeout
  <2>1. left = 0 /\ err' = "timeout" /\ phase' = "returned" /\ UNCHANGED <<left, elapsed>>
    BY <1>4 DEF Timeout, clock
  <2>2. Time'
    <3>1. cnt < total
      BY <1>1 DEF Phases
    <3>2. elapsed <= To * (cnt + 1)
      BY <1>1, <2>1 DEF Time, TypeOK
    <3>3. To * (cnt + 1) <= To * total
      BY <3>1, <1>2, Monotone DEF TypeOK
    <3>4. To * (cnt + 1) \in Nat /\ To * total \in Nat
      BY <1>2, ToAssumption DEF TypeOK
    <3> QED
      BY <2>1, <3>2, <3>3, <3>4, <1>2 DEF Time, TypeOK
  <2> QED
    BY <1>1, <1>2, <2>1, <2>2 DEF TypeOK, FiledOnce, Counted, Errors, Settings, Phases
<1> QED
  BY <1>3, <1>4

LEMMA SendLemma ==
    ASSUME IInv,
           \/ \E devices \in SUBSET Phones : Call(devices)
           \/ CallWithoutDevices
           \/ \E ph \in Phones : Skip(ph) \/ SendV2(ph) \/ PanickingCallback(ph)
           \/ StartWaiting
    PROVE  IInv'
<1> USE DEF IInv
<1>1. UNCHANGED <<api, waitChan, cnt, settings, left, elapsed, blocked, got>>
  BY DEF Call, CallWithoutDevices, Skip, SendV2, PanickingCallback, StartWaiting, caller, clock
<1>2. Sent' = Sent
  BY <1>1 DEF Sent
<1>3. CASE \E devices \in SUBSET Phones : Call(devices)
  <2>1. PICK devices \in SUBSET Phones : Call(devices)
    BY <1>3
  <2>2. /\ phase = "idle" /\ devices # {} /\ phase' = "sending"
        /\ listed' = devices /\ todo' = devices /\ UNCHANGED <<filed, err>>
    BY <2>1 DEF Call
  <2>3. Sent = {} /\ filed = {}
    BY <2>2 DEF FiledOnce, Phases, TypeOK
  <2>4. TypeOK'
    BY <1>1, <2>2, <2>3 DEF TypeOK
  <2> QED
    BY <1>1, <1>2, <2>2, <2>3, <2>4 DEF FiledOnce, Counted, Errors, Settings, Phases, Time
<1>4. CASE CallWithoutDevices
  <2>1. /\ phase = "idle" /\ phase' = "returned" /\ err' = "noDevices"
        /\ UNCHANGED <<listed, todo, filed>>
    BY <1>4 DEF CallWithoutDevices
  <2>2. total \in Nat /\ total' = total /\ To * total \in Nat
    BY <2>1, Finite, ToAssumption DEF total
  <2>3. Time'
    BY <1>1, <2>1, <2>2 DEF Phases, Time
  <2> QED
    BY <1>1, <1>2, <2>1, <2>3 DEF TypeOK, FiledOnce, Counted, Errors, Settings, Phases
<1>5. CASE \E ph \in Phones : Skip(ph) \/ SendV2(ph) \/ PanickingCallback(ph)
  <2>1. PICK ph \in Phones : Skip(ph) \/ SendV2(ph) \/ PanickingCallback(ph)
    BY <1>5
  <2>2. /\ UNCHANGED <<phase, listed, err>>
        /\ \/ ph \in todo /\ todo' = todo \ {ph} /\ filed' \in {filed, filed \cup {ph}}
           \/ todo' = todo /\ filed' = filed \ {ph}
    BY <2>1 DEF Skip, SendV2, PanickingCallback, caller
  <2>3. TypeOK'
    BY <1>1, <2>2 DEF TypeOK
  <2>4. FiledOnce'
    BY <1>2, <2>2 DEF FiledOnce
  <2> QED
    BY <1>1, <1>2, <2>2, <2>3, <2>4 DEF Counted, Errors, Settings, Phases, Time, total
<1>6. CASE StartWaiting
  <2>1. phase = "sending" /\ phase' = "waiting" /\ UNCHANGED <<listed, todo, filed, err>>
    BY <1>6 DEF StartWaiting
  <2>2. cnt = 0 /\ elapsed = 0 /\ left = To /\ listed # {}
    BY <2>1 DEF Phases
  <2>3. 0 < total /\ total' = total
    BY <2>1, <2>2, Finite DEF total
  <2> QED
    BY <1>1, <1>2, <2>1, <2>2, <2>3, ToAssumption
    DEF TypeOK, FiledOnce, Counted, Errors, Settings, Phases, Time
<1> QED
  BY <1>3, <1>4, <1>5, <1>6

LEMMA NextLemma == IInv /\ [Next]_vars => IInv'
<1> SUFFICES ASSUME IInv, [Next]_vars PROVE IInv'
  OBVIOUS
<1>1. CASE UNCHANGED vars
  BY <1>1 DEF vars, IInv, TypeOK, FiledOnce, Counted, Errors, Settings, Phases, Time, Sent, total
<1>2. CASE Next
  BY <1>2, SendLemma, CallbackLemma, ReceiveLemma, ClockLemma DEF Next, Caller
<1> QED
  BY <1>1, <1>2

\* In every state the results of a call and its open callbacks account for each other
\* (GetDeviceConfig and SetDeviceConfig of the wrapper).
THEOREM Invariance == Spec => []IInv
BY InitLemma, NextLemma, PTL DEF Spec

-----------------------------------------------------------------------------
\* However many devices there are and however late their answers come, a callback
\* finds room in the channel and gives the Sender's mutex back.
THEOREM RoomForEveryResult == Spec => []CallbackNeverBlocks
<1>1. IInv => CallbackNeverBlocks
  BY DEF IInv, CallbackNeverBlocks
<1> QED
  BY <1>1, Invariance, PTL

\* A call that returns no error has a result of every device of the list.
THEOREM SuccessIsComplete == Spec => []SuccessMeansAnswered
<1>1. IInv => SuccessMeansAnswered
  <2> SUFFICES ASSUME IInv, phase = "returned", err = "nil"
               PROVE  /\ \A ph \in listed : got[ph] = "nil"
                      /\ api = "get" => settings \in listed
    BY DEF SuccessMeansAnswered
  <2>1. listed # {} /\ cnt >= total /\ Sent \subseteq listed
    BY DEF IInv, Phases, FiledOnce
  <2>2. IsFiniteSet(listed) /\ total \in Nat /\ Cardinality(Sent) \in Nat
    BY Finite DEF IInv
  <2>3. Cardinality(Sent) <= total
    BY <2>1, <2>2, FS_Subset DEF total
  <2>4. /\ Cardinality(Sent) = cnt + Len(waitChan)
        /\ cnt \in Nat /\ Len(waitChan) \in Nat
    BY LenProperties DEF IInv, Counted, TypeOK
  <2>5. Cardinality(Sent) = total /\ Len(waitChan) = 0
    BY <2>1, <2>2, <2>3, <2>4
  <2>6. Sent = listed
    BY <2>1, <2>2, <2>5, FS_Subset DEF total
  <2>7. \A ph \in Phones : got[ph] # "error"
    BY <2>5 DEF IInv, Errors
  <2> QED
    BY <2>1, <2>6, <2>7 DEF IInv, TypeOK, Sent, Settings, Results
<1> QED
  BY <1>1, Invariance, PTL

\* A call with n devices waits no longer than n times its timeout.
THEOREM TimelyReturn == Spec => []ReturnsInTime
<1>1. IInv => ReturnsInTime
  <2> SUFFICES ASSUME IInv PROVE elapsed <= To * total
    BY DEF ReturnsInTime
  <2>1. total \in Nat /\ To * total \in Nat
    BY Finite, ToAssumption DEF IInv
  <2>2. CASE phase = "waiting"
    <3>1. cnt + 1 <= total /\ cnt + 1 \in Nat
      BY <2>1, <2>2 DEF IInv, Phases, TypeOK
    <3>2. To * (cnt + 1) <= To * total
      BY <3>1, <2>1, Monotone
    <3>3. elapsed <= To * (cnt + 1) /\ To * (cnt + 1) \in Nat
      BY <2>2, <3>1, ToAssumption DEF IInv, Time, TypeOK
    <3> QED
      BY <3>2, <3>3, <2>1 DEF IInv, TypeOK
  <2>3. CASE phase # "waiting"
    BY <2>1, <2>3 DEF IInv, Phases, Time, TypeOK
  <2> QED
    BY <2>2, <2>3
<1> QED
  BY <1>1, Invariance, PTL

\* The call's counters and its channel keep to their types, for any list of devices
\* and any timeout.
THEOREM TypeCorrect == Spec => []TypeOK
<1>1. IInv => TypeOK
  BY DEF IInv
<1> QED
  BY <1>1, Invariance, PTL
=============================================================================
