--------------------------- MODULE RegistryProofs ---------------------------
(***************************************************************************)
(* The promises of Registry hold for every set of connections and every    *)
(* fleet of terminals, conflicting ones included.                          *)
(***************************************************************************)
EXTENDS Registry, TLAPS

IInv == TypeOK /\ JobPerDevice /\ PlatesDistinct

\* A device's own fields may change as long as phone, plate and job stay.
LEMMA UpdateLemma ==
    ASSUME IInv, NEW ph \in Registered, NEW d \in Device, d.plate = reg[ph].plate,
           reg' = [reg EXCEPT ![ph] = d],
           UNCHANGED jobs, open' \subseteq Conns
    PROVE  IInv'
<1>1. \A x \in Phones : reg'[x] = IF x = ph THEN d ELSE reg[x]
  BY DEF IInv, TypeOK, Registered
<1>2. Registered' = Registered
  BY <1>1, NoDeviceIsNoDevice DEF Registered
<1>3. TypeOK'
  BY DEF IInv, TypeOK, Registered
<1>4. PlatesDistinct'
  BY <1>1, <1>2 DEF IInv, PlatesDistinct, Registered
<1> QED
  BY <1>2, <1>3, <1>4 DEF IInv, JobPerDevice

\* A device that goes takes its job with it.
LEMMA RemoveLemma ==
    ASSUME IInv, NEW ph \in Phones, Remove(ph), open' \subseteq Conns
    PROVE  IInv'
<1>1. \A x \in Phones : reg'[x] = IF x = ph THEN NoDevice ELSE reg[x]
  BY DEF IInv, TypeOK, Remove
<1>2. Registered' = Registered \ {ph}
  BY <1>1 DEF Registered
<1>3. TypeOK'
  BY DEF IInv, TypeOK, Remove
<1>4. PlatesDistinct'
  <2>1. \A x \in Registered' : x \in Registered /\ reg'[x] = reg[x]
    BY <1>1, <1>2 DEF Registered
  <2> QED
    BY <2>1 DEF IInv, PlatesDistinct
<1> QED
  BY <1>2, <1>3, <1>4 DEF IInv, JobPerDevice, Remove

LEMMA RegisterLemma ==
    ASSUME IInv, NEW c \in Conns, NEW t \in Terminals, Register(c, t)
    PROVE  IInv'
<1> DEFINE d == [plate |-> t.plate, conn |-> c, status |-> "offline", fresh |-> TRUE]
<1>1. t.phone \in Phones /\ d \in Device
  BY DEF Phones, Plates, Device, Status
<1>2. \A x \in Phones : reg'[x] = IF x = t.phone THEN d ELSE reg[x]
  BY <1>1 DEF IInv, TypeOK, Register
<1>3. Registered' = Registered \cup {t.phone}
  BY <1>1, <1>2, NoDeviceIsNoDevice DEF Registered
<1>4. TypeOK'
  BY <1>1 DEF IInv, TypeOK, Register
<1>5. \A x \in Registered : reg[x].plate # d.plate
  BY DEF Register, PlatesInUse
<1> HIDE DEF d
<1>6. PlatesDistinct'
  <2>1. \A x \in Registered' : IF x = t.phone THEN reg'[x] = d
                                ELSE x \in Registered /\ reg'[x] = reg[x]
    BY <1>2, <1>3 DEF Registered
  <2> QED
    BY <1>5, <2>1 DEF IInv, PlatesDistinct
<1> QED
  BY <1>3, <1>4, <1>6 DEF IInv, JobPerDevice, Register

LEMMA MessageLemma ==
    ASSUME IInv, NEW t \in Terminals, Message(t)
    PROVE  IInv'
<1>1. t.phone \in Phones
  BY DEF Phones
<1>2. PICK c \in Conns :
        \/ Register(c, t) \/ Authenticate(c, t) \/ FailAuthentication(c, t)
        \/ Heartbeat(c, t) \/ ReportAsleep(c, t) \/ Logout(c, t) \/ Reject(c, t)
  BY DEF Message
<1>3. CASE Register(c, t)
  BY <1>3, RegisterLemma
<1>4. ASSUME NEW st \in Status, t.phone \in Registered, UNCHANGED <<jobs, open>>,
             reg' = [reg EXCEPT ![t.phone] = [@ EXCEPT !.status = st, !.fresh = TRUE]]
      PROVE  IInv'
  <2> DEFINE d == [reg[t.phone] EXCEPT !.status = st, !.fresh = TRUE]
  <2>1. d \in Device /\ d.plate = reg[t.phone].plate
    BY <1>4 DEF IInv, TypeOK, Registered, Device
  <2>2. reg' = [reg EXCEPT ![t.phone] = d] /\ open' \subseteq Conns
    BY <1>4 DEF IInv, TypeOK
  <2> HIDE DEF d
  <2> QED
    BY <1>4, <2>1, <2>2, UpdateLemma
<1>5. CASE Remove(t.phone) /\ UNCHANGED open
  BY <1>1, <1>5, RemoveLemma DEF IInv, TypeOK
<1>6. CASE Authenticate(c, t)
  <2>1. t.phone \in Registered /\ reg \in [Phones -> Device \cup {NoDevice}]
    BY <1>6 DEF Authenticate, IInv, TypeOK
  <2>2. CASE t.plate = reg[t.phone].plate
    <3>1. reg' = [reg EXCEPT ![t.phone] = [@ EXCEPT !.status = "online", !.fresh = TRUE]]
      BY <1>1, <1>6, <2>1, <2>2 DEF Authenticate
    <3> QED
      BY <1>4, <1>6, <2>1, <2>2, <3>1 DEF Authenticate, Status
  <2>3. CASE t.plate # reg[t.phone].plate
    BY <1>5, <1>6, <2>3 DEF Authenticate
  <2> QED
    BY <2>2, <2>3
<1>7. CASE FailAuthentication(c, t) \/ Logout(c, t)
  BY <1>5, <1>7 DEF FailAuthentication, Logout
<1>8. CASE Heartbeat(c, t)
  <2> DEFINE d == [reg[t.phone] EXCEPT !.fresh = TRUE]
  <2>1. t.phone \in Registered
    BY <1>8 DEF Heartbeat
  <2>2. d \in Device /\ d.plate = reg[t.phone].plate
    BY <2>1 DEF IInv, TypeOK, Registered, Device
  <2>3. reg' = [reg EXCEPT ![t.phone] = d] /\ UNCHANGED jobs /\ open' \subseteq Conns
    BY <1>8 DEF Heartbeat, IInv, TypeOK
  <2> HIDE DEF d
  <2> QED
    BY <2>1, <2>2, <2>3, UpdateLemma
<1>9. CASE ReportAsleep(c, t)
  <2>1. reg' = [reg EXCEPT ![t.phone] = [@ EXCEPT !.status = "sleeping", !.fresh = TRUE]]
    BY <1>1, <1>9 DEF ReportAsleep, IInv, TypeOK
  <2> QED
    BY <1>4, <1>9, <2>1 DEF ReportAsleep, Status
<1>10. CASE Reject(c, t)
  BY <1>10 DEF Reject, IInv, TypeOK, JobPerDevice, PlatesDistinct, Registered
<1> QED
  BY <1>2, <1>3, <1>6, <1>7, <1>8, <1>9, <1>10

LEMMA CheckLemma ==
    ASSUME IInv, NEW ph \in Phones, Expire(ph) \/ TurnOffline(ph) \/ Clear(ph)
    PROVE  IInv'
<1>1. CASE Expire(ph)
  <2> DEFINE d == [reg[ph] EXCEPT !.fresh = FALSE]
  <2>1. ph \in Registered /\ reg' = [reg EXCEPT ![ph] = d] /\ UNCHANGED <<jobs, open>>
    BY <1>1 DEF Expire
  <2>2. d \in Device /\ d.plate = reg[ph].plate
    BY <2>1 DEF IInv, TypeOK, Registered, Device
  <2> HIDE DEF d
  <2> QED
    BY <2>1, <2>2, UpdateLemma DEF IInv, TypeOK
<1>2. CASE TurnOffline(ph)
  <2> DEFINE d == [reg[ph] EXCEPT !.status = "offline"]
  <2>1. ph \in Registered /\ reg' = [reg EXCEPT ![ph] = d] /\ UNCHANGED <<jobs, open>>
    BY <1>2 DEF TurnOffline
  <2>2. d \in Device /\ d.plate = reg[ph].plate
    BY <2>1 DEF IInv, TypeOK, Registered, Device, Status
  <2> HIDE DEF d
  <2> QED
    BY <2>1, <2>2, UpdateLemma DEF IInv, TypeOK
<1>3. CASE Clear(ph)
  BY <1>3, RemoveLemma DEF Clear, IInv, TypeOK
<1> QED
  BY <1>1, <1>2, <1>3

LEMMA NextLemma == IInv /\ [Next]_vars => IInv'
<1> SUFFICES ASSUME IInv, [Next]_vars PROVE IInv'
  OBVIOUS
<1>1. CASE UNCHANGED vars
  BY <1>1 DEF IInv, TypeOK, JobPerDevice, PlatesDistinct, Registered, vars
<1>2. ASSUME NEW c \in Conns, Accept(c) \/ Hangup(c)
      PROVE  IInv'
  BY <1>2 DEF Accept, Hangup, IInv, TypeOK, JobPerDevice, PlatesDistinct, Registered
<1>3. ASSUME NEW t \in Terminals, Message(t)
      PROVE  IInv'
  BY <1>3, MessageLemma
<1>4. ASSUME NEW ph \in Phones, Expire(ph) \/ TurnOffline(ph) \/ Clear(ph)
      PROVE  IInv'
  BY <1>4, CheckLemma
<1> QED
  BY <1>1, <1>2, <1>3, <1>4 DEF Next

\* Types, jobs and plates are kept in step by every message and every check.
THEOREM Invariance == Spec => []IInv
<1>1. Init => IInv
  BY DEF Init, IInv, TypeOK, JobPerDevice, PlatesDistinct, Registered
<1> QED
  BY <1>1, NextLemma, PTL DEF Spec

\* A device is registered exactly while the cron watches it.
THEOREM JobsMatchDevices == Spec => []JobPerDevice
<1>1. IInv => JobPerDevice
  BY DEF IInv
<1> QED
  BY <1>1, Invariance, PTL

\* No two registered devices share a plate, however many terminals claim it.
THEOREM PlatesStayDistinct == Spec => []PlatesDistinct
<1>1. IInv => PlatesDistinct
  BY DEF IInv
<1> QED
  BY <1>1, Invariance, PTL

\* Registrations, jobs and connections stay what they are meant to be, for any
\* fleet of terminals.
THEOREM TypeCorrect == Spec => []TypeOK
<1>1. IInv => TypeOK
  BY DEF IInv
<1> QED
  BY <1>1, Invariance, PTL
=============================================================================
