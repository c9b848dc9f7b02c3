---------------------------- MODULE DevicesProofs ----------------------------
(***************************************************************************)
(* Devices keeps its types and its two indexes in agreement, for every set *)
(* of connections, terminals and messages.  Neither is inductive alone: a  *)
(* handler may cache again the object its local variable points to, so the *)
(* invariant also says of every object that it is some terminal's, and of  *)
(* every local variable that is used that it points to an object.          *)
(* Of the executions of DevicesSerial, in which one handler or check is    *)
(* under way at a time: they never crash, and they refine Registry.        *)
(***************************************************************************)
EXTENDS DevicesSerial, TLAPS

\* What the cache holds, at every step of every handler
CacheInv ==
    /\ \A ph \in Phones : byPhone[ph] # Nil =>
          heap[byPhone[ph]] # Nil /\ heap[byPhone[ph]].phone = ph
    /\ \A pl \in Plates : byPlate[pl] # Nil =>
          heap[byPlate[pl]] # Nil /\ heap[byPlate[pl]].plate = pl
    /\ \A o \in Objs : heap[o] # Nil =>
          \E t \in Terminals : heap[o].phone = t.phone /\ heap[o].plate = t.plate
    /\ OneToOne => \A t \in Terminals : byPlate[t.plate] = byPhone[t.phone]

\* What the handlers and the checks hold
MsgSteps == {"hasPlate", "plateCode", "hasPhone", "phoneCode", "insert",
             "jobLookup", "jobAdd", "lookup"}
DevSteps == {"renew", "setOnline", "setAsleep", "cancel", "delete"}
LocalsInv ==
    /\ \A c \in Conns : /\ pc[c] \in MsgSteps => msg[c] # Nil
                        /\ pc[c] \in DevSteps => dev[c] # Nil
                        /\ dev[c] # Nil => heap[dev[c]] # Nil
    /\ \A ph \in Phones : /\ kpc[ph] \in {"decide", "offline", "close"} => kdev[ph] # Nil
                          /\ kdev[ph] # Nil => heap[kdev[ph]] # Nil

IInv == TypeOK /\ CacheInv /\ LocalsInv
-----------------------------------------------------------------------------
(* The operations of the cache keep it in order.                           *)

\* CacheDevice keeps the indexes in order, if the cell it writes was not indexed
\* or was indexed under the same keys.
LEMMA CacheDeviceLemma ==
    ASSUME TypeOK, CacheInv, NEW o \in Objs, NEW d \in Object,
           \E t \in Terminals : d.phone = t.phone /\ d.plate = t.plate,
           \A ph \in Phones : byPhone[ph] = o => ph = d.phone,
           \A pl \in Plates : byPlate[pl] = o => pl = d.plate,
           CacheDevice(o, d)
    PROVE  /\ heap' \in [Objs -> Object \cup {Nil}]
           /\ byPhone' \in [Phones -> Objs \cup {Nil}]
           /\ byPlate' \in [Plates -> Objs \cup {Nil}]
           /\ CacheInv'
           /\ \A x \in Objs : heap[x] # Nil => heap'[x] # Nil
<1>1. d.phone \in Phones /\ d.plate \in Plates /\ d # Nil /\ o # Nil
  BY NilAssumption DEF Object
<1>2. /\ heap' \in [Objs -> Object \cup {Nil}]
      /\ byPhone' \in [Phones -> Objs \cup {Nil}]
      /\ byPlate' \in [Plates -> Objs \cup {Nil}]
  BY <1>1 DEF TypeOK, CacheDevice
<1>3. \A x \in Objs : heap'[x] = IF x = o THEN d ELSE heap[x]
  BY DEF TypeOK, CacheDevice
<1>4. \A ph \in Phones : byPhone'[ph] = IF ph = d.phone THEN o ELSE byPhone[ph]
  BY DEF TypeOK, CacheDevice
<1>5. \A pl \in Plates : byPlate'[pl] = IF pl = d.plate THEN o ELSE byPlate[pl]
  BY DEF TypeOK, CacheDevice
<1>6. \A ph \in Phones : byPhone'[ph] # Nil =>
          heap'[byPhone'[ph]] # Nil /\ heap'[byPhone'[ph]].phone = ph
  <2> SUFFICES ASSUME NEW ph \in Phones, byPhone'[ph] # Nil
               PROVE  heap'[byPhone'[ph]] # Nil /\ heap'[byPhone'[ph]].phone = ph
    OBVIOUS
  <2>1. CASE ph = d.phone
    BY <2>1, <1>1, <1>3, <1>4
  <2>2. CASE ph # d.phone
    <3>1. byPhone'[ph] = byPhone[ph] /\ byPhone[ph] # o /\ byPhone[ph] \in Objs
      BY <2>2, <1>4 DEF TypeOK
    <3> QED
      BY <3>1, <1>3 DEF CacheInv
  <2> QED
    BY <2>1, <2>2
<1>7. \A pl \in Plates : byPlate'[pl] # Nil =>
          heap'[byPlate'[pl]] # Nil /\ heap'[byPlate'[pl]].plate = pl
  <2> SUFFICES ASSUME NEW pl \in Plates, byPlate'[pl] # Nil
               PROVE  heap'[byPlate'[pl]] # Nil /\ heap'[byPlate'[pl]].plate = pl
    OBVIOUS
  <2>1. CASE pl = d.plate
    BY <2>1, <1>1, <1>3, <1>5
  <2>2. CASE pl # d.plate
    <3>1. byPlate'[pl] = byPlate[pl] /\ byPlate[pl] # o /\ byPlate[pl] \in Objs
      BY <2>2, <1>5 DEF TypeOK
    <3> QED
      BY <3>1, <1>3 DEF CacheInv
  <2> QED
    BY <2>1, <2>2
<1>8. \A x \in Objs : heap'[x] # Nil =>
          \E t \in Terminals : heap'[x].phone = t.phone /\ heap'[x].plate = t.plate
  BY <1>3 DEF CacheInv
<1>9. OneToOne => \A t \in Terminals : byPlate'[t.plate] = byPhone'[t.phone]
  <2> SUFFICES ASSUME OneToOne, NEW t \in Terminals
               PROVE  byPlate'[t.plate] = byPhone'[t.phone]
    OBVIOUS
  <2>1. t.phone \in Phones /\ t.plate \in Plates
    BY DEF Phones, Plates
  <2>2. t.phone = d.phone <=> t.plate = d.plate
    BY DEF OneToOne
  <2> QED
    BY <2>1, <2>2, <1>4, <1>5 DEF CacheInv
<1> QED
  BY <1>1, <1>2, <1>3, <1>6, <1>7, <1>8, <1>9 DEF CacheInv

\* delDevice takes a device out of both indexes.
LEMMA DelDeviceLemma ==
    ASSUME TypeOK, CacheInv, NEW ph \in Phones, DelDeviceByPhone(ph)
    PROVE  /\ heap' = heap
           /\ byPhone' \in [Phones -> Objs \cup {Nil}]
           /\ byPlate' \in [Plates -> Objs \cup {Nil}]
           /\ CacheInv'
<1>1. CASE byPhone[ph] = Nil
  BY <1>1 DEF DelDeviceByPhone, cache, TypeOK, CacheInv
<1>2. CASE byPhone[ph] # Nil
  <2> DEFINE d == heap[byPhone[ph]]
  <2>1. byPhone[ph] \in Objs /\ d \in Object /\ d.phone = ph
    BY <1>2 DEF TypeOK, CacheInv
  <2>2. d.phone \in Phones /\ d.plate \in Plates
    BY <2>1 DEF Object
  <2>3. /\ heap' = heap
        /\ byPhone' = [byPhone EXCEPT ![d.phone] = Nil]
        /\ byPlate' = [byPlate EXCEPT ![d.plate] = Nil]
    BY <1>2 DEF DelDeviceByPhone
  <2>4. /\ byPhone' \in [Phones -> Objs \cup {Nil}]
        /\ byPlate' \in [Plates -> Objs \cup {Nil}]
    BY <2>2, <2>3 DEF TypeOK
  <2>5. \A x \in Phones : byPhone'[x] = IF x = d.phone THEN Nil ELSE byPhone[x]
    BY <2>3 DEF TypeOK
  <2>6. \A pl \in Plates : byPlate'[pl] = IF pl = d.plate THEN Nil ELSE byPlate[pl]
    BY <2>3 DEF TypeOK
  <2>7. OneToOne => \A t \in Terminals : byPlate'[t.plate] = byPhone'[t.phone]
    <3> SUFFICES ASSUME OneToOne, NEW t \in Terminals
                 PROVE  byPlate'[t.plate] = byPhone'[t.phone]
      OBVIOUS
    <3>1. t.phone \in Phones /\ t.plate \in Plates
      BY DEF Phones, Plates
    <3>2. t.phone = d.phone <=> t.plate = d.plate
      BY <1>2, <2>1 DEF OneToOne, CacheInv
    <3> QED
      BY <3>1, <3>2, <2>5, <2>6 DEF CacheInv
  <2> QED
    BY <2>3, <2>4, <2>5, <2>6, <2>7 DEF CacheInv
<1> QED
  BY <1>1, <1>2

\* A step that leaves the cache alone leaves it in order.
LEMMA SameCacheLemma ==
    ASSUME CacheInv, UNCHANGED cache
    PROVE  CacheInv'
BY DEF CacheInv, cache

-----------------------------------------------------------------------------
(* The initial states, then each action.                                   *)

LEMMA InitLemma == Init => IInv
<1> SUFFICES ASSUME Init PROVE IInv
  OBVIOUS
<1>1. TypeOK
  BY DEF Init, TypeOK, HandlerSteps, CheckSteps
<1>2. CacheInv
  BY DEF Init, CacheInv, Phones, Plates
<1>3. LocalsInv
  BY DEF Init, LocalsInv, MsgSteps, DevSteps
<1> QED
  BY <1>1, <1>2, <1>3 DEF IInv

\* The listener, and serve between two messages
LEMMA ConnectionLemma ==
    ASSUME IInv, NEW c \in Conns,
           \/ Accept(c)
           \/ Hangup(c)
           \/ ReadClosed(c)
           \/ RemoveSession(c)
           \/ \E m \in Messages : Receive(c, m)
    PROVE  IInv'
<1> USE DEF IInv
<1>1. UNCHANGED cache /\ UNCHANGED timer /\ UNCHANGED crashed
  BY DEF Accept, Hangup, ReadClosed, RemoveSession, Receive
<1>2. CacheInv'
  BY <1>1, SameCacheLemma
<1>3. CASE Accept(c) \/ RemoveSession(c)
  <2>1. TypeOK'
    BY <1>1, <1>3 DEF TypeOK, Accept, RemoveSession, cache, timer, HandlerSteps
  <2>2. LocalsInv'
    BY <1>1, <1>3 DEF TypeOK, LocalsInv, Accept, RemoveSession, cache, timer, MsgSteps, DevSteps
  <2> QED
    BY <1>2, <2>1, <2>2
<1>4. CASE Hangup(c) \/ ReadClosed(c)
  <2>1. Leave(c, "remove") /\ UNCHANGED <<open, sess>>
    BY <1>4 DEF Hangup, ReadClosed, Return
  <2>2. TypeOK'
    BY <1>1, <2>1 DEF TypeOK, Leave, Goto, cache, timer, HandlerSteps
  <2>3. LocalsInv'
    BY <1>1, <2>1 DEF TypeOK, LocalsInv, Leave, Goto, cache, timer, MsgSteps, DevSteps
  <2> QED
    BY <1>2, <2>2, <2>3
<1>5. ASSUME NEW m \in Messages, Receive(c, m)
      PROVE  IInv'
  <2>1. m # Nil
    BY NilAssumption
  <2>2. TypeOK'
    BY <1>1, <1>5 DEF TypeOK, Receive, cache, timer, HandlerSteps
  <2>3. LocalsInv'
    BY <1>1, <1>5, <2>1 DEF TypeOK, LocalsInv, Receive, cache, timer, MsgSteps, DevSteps
  <2> QED
    BY <1>2, <2>2, <2>3
<1> QED
  BY <1>3, <1>4, <1>5

\* A handler that moves on without touching the cache
LEMMA ReadingLemma ==
    ASSUME IInv, NEW c \in Conns,
           \/ HasPlate(c)
           \/ HasPhone(c)
           \/ RefuseWithCode(c)
           \/ PanicOnCode(c)
           \/ JobLookup(c)
           \/ Lookup(c)
    PROVE  IInv'
<1> USE DEF IInv
<1>1. /\ UNCHANGED cache /\ UNCHANGED timer /\ UNCHANGED crashed
      /\ UNCHANGED <<open, sess>>
  BY DEF HasPlate, HasPhone, RefuseWithCode, PanicOnCode, JobLookup, Lookup
<1>2. CacheInv'
  BY <1>1, SameCacheLemma
<1>3. ASSUME NEW step \in {"idle", "remove"}, Leave(c, step)
      PROVE  IInv'
  <2>1. TypeOK'
    BY <1>1, <1>3 DEF TypeOK, Leave, Goto, cache, timer, HandlerSteps
  <2>2. LocalsInv'
    BY <1>1, <1>3 DEF TypeOK, LocalsInv, Leave, Goto, cache, timer, MsgSteps, DevSteps
  <2> QED
    BY <1>2, <2>1, <2>2
<1>4. ASSUME NEW step \in MsgSteps, pc[c] \in MsgSteps, Goto(c, step), UNCHANGED <<msg, dev>>
      PROVE  IInv'
  <2>1. TypeOK'
    BY <1>1, <1>4 DEF TypeOK, Goto, cache, timer, HandlerSteps, MsgSteps
  <2>2. LocalsInv'
    BY <1>1, <1>4 DEF TypeOK, LocalsInv, Goto, cache, timer, MsgSteps, DevSteps
  <2> QED
    BY <1>2, <2>1, <2>2
<1>5. ASSUME NEW d \in Objs, heap[d] # Nil, NEW step \in DevSteps, Found(c, d, step)
      PROVE  IInv'
  <2>1. TypeOK'
    BY <1>1, <1>5 DEF TypeOK, Found, Goto, cache, timer, HandlerSteps, DevSteps
  <2>2. d # Nil
    BY NilAssumption
  <2>3. LocalsInv'
    BY <1>1, <1>5, <2>2 DEF TypeOK, LocalsInv, Found, Goto, cache, timer, MsgSteps, DevSteps
  <2> QED
    BY <1>2, <2>1, <2>3
<1>6. CASE HasPlate(c) \/ HasPhone(c)
  BY <1>4, <1>6 DEF HasPlate, HasPhone, At, MsgSteps, Goto
<1>7. CASE RefuseWithCode(c) \/ PanicOnCode(c)
  BY <1>3, <1>7 DEF RefuseWithCode, PanicOnCode, Finish, Return
<1>8. CASE JobLookup(c)
  BY <1>3, <1>4, <1>8 DEF JobLookup, At, Finish, MsgSteps
<1>9. CASE Lookup(c)
  <2> DEFINE d == byPhone[Claimed(c).phone]
  <2>1. CASE Return(c) \/ Finish(c)
    BY <1>3, <2>1 DEF Return, Finish
  <2>2. CASE /\ d # Nil
             /\ \E step \in DevSteps : Found(c, d, step)
    <3>1. msg[c] \in Messages
      BY <1>9 DEF TypeOK, LocalsInv, Lookup, At, MsgSteps
    <3>2. Claimed(c).phone \in Phones
      BY <3>1 DEF Claimed, Messages, Phones
    <3>3. d \in Objs /\ heap[d] # Nil
      BY <2>2, <3>2 DEF TypeOK, CacheInv
    <3> QED
      BY <1>5, <2>2, <3>3
  <2> QED
    BY <1>9, <2>1, <2>2 DEF Lookup, DevSteps
<1> QED
  BY <1>6, <1>7, <1>8, <1>9

\* A handler that writes to the cache
LEMMA WritingLemma ==
    ASSUME IInv, NEW c \in Conns,
           \/ InsertNew(c)
           \/ Renew(c)
           \/ SetOnline(c)
           \/ SetAsleep(c)
           \/ Delete(c)
    PROVE  IInv'
<1> USE DEF IInv
<1>1. CASE InsertNew(c)
  <2> DEFINE d == [phone |-> Claimed(c).phone, plate |-> Claimed(c).plate, conn |-> c,
                   status |-> "offline", fresh |-> TRUE]
  <2>1. PICK o \in Objs \ Reachable : CacheDevice(o, d)
    BY <1>1 DEF InsertNew
  <2>2. msg[c] \in Messages
    BY <1>1 DEF TypeOK, LocalsInv, InsertNew, At, MsgSteps
  <2>3. Claimed(c) \in Terminals
    BY <2>2 DEF Claimed, Messages
  <2>4. d \in Object
    BY <2>3 DEF Object, Phones, Plates, Status
  <2>5. /\ \A ph \in Phones : byPhone[ph] # o /\ kdev[ph] # o
        /\ \A pl \in Plates : byPlate[pl] # o
        /\ \A x \in Conns : dev[x] # o
    BY DEF Reachable
  <2>6. \E t \in Terminals : d.phone = t.phone /\ d.plate = t.plate
    BY <2>3
  <2> HIDE DEF d
  <2>7. /\ heap' \in [Objs -> Object \cup {Nil}]
        /\ byPhone' \in [Phones -> Objs \cup {Nil}]
        /\ byPlate' \in [Plates -> Objs \cup {Nil}]
        /\ CacheInv'
        /\ \A x \in Objs : heap[x] # Nil => heap'[x] # Nil
    BY <2>1, <2>4, <2>5, <2>6, CacheDeviceLemma
  <2>8. TypeOK'
    BY <1>1, <2>7 DEF InsertNew, TypeOK, Goto, timer, HandlerSteps
  <2>9. LocalsInv'
    BY <1>1, <2>7 DEF InsertNew, TypeOK, LocalsInv, Goto, timer, At, MsgSteps, DevSteps
  <2> QED
    BY <2>7, <2>8, <2>9
<1>2. ASSUME NEW d \in Object, pc[c] \in DevSteps, Save(c, d),
             d.phone = heap[dev[c]].phone, d.plate = heap[dev[c]].plate
      PROVE  IInv'
  <2> DEFINE e == [d EXCEPT !.fresh = TRUE]
  <2>1. dev[c] \in Objs /\ heap[dev[c]] # Nil
    BY <1>2 DEF TypeOK, LocalsInv
  <2>2. e \in Object /\ e.phone = heap[dev[c]].phone /\ e.plate = heap[dev[c]].plate
    BY <1>2 DEF Object
  <2>3. /\ \E t \in Terminals : e.phone = t.phone /\ e.plate = t.plate
        /\ \A ph \in Phones : byPhone[ph] = dev[c] => ph = e.phone
        /\ \A pl \in Plates : byPlate[pl] = dev[c] => pl = e.plate
    BY <2>1, <2>2, NilAssumption DEF CacheInv
  <2>4. CacheDevice(dev[c], e)
    BY <1>2 DEF Save
  <2> HIDE DEF e
  <2>5. /\ heap' \in [Objs -> Object \cup {Nil}]
        /\ byPhone' \in [Phones -> Objs \cup {Nil}]
        /\ byPlate' \in [Plates -> Objs \cup {Nil}]
        /\ CacheInv'
        /\ \A x \in Objs : heap[x] # Nil => heap'[x] # Nil
    BY <2>1, <2>2, <2>3, <2>4, CacheDeviceLemma
  <2>6. TypeOK'
    BY <1>2, <2>5 DEF Save, Finish, Leave, Goto, TypeOK, timer, HandlerSteps
  <2>7. LocalsInv'
    BY <1>2, <2>5 DEF Save, Finish, Leave, Goto, TypeOK, LocalsInv, timer, MsgSteps, DevSteps
  <2> QED
    BY <2>5, <2>6, <2>7
<1>3. CASE Renew(c) \/ SetOnline(c) \/ SetAsleep(c)
  <2>1. pc[c] \in DevSteps
    BY <1>3 DEF Renew, SetOnline, SetAsleep, At, DevSteps
  <2>2. dev[c] \in Objs /\ heap[dev[c]] \in Object
    BY <2>1 DEF TypeOK, LocalsInv
  <2>3. \A st \in Status : /\ [heap[dev[c]] EXCEPT !.status = st] \in Object
                           /\ [heap[dev[c]] EXCEPT !.status = st].phone = heap[dev[c]].phone
                           /\ [heap[dev[c]] EXCEPT !.status = st].plate = heap[dev[c]].plate
    BY <2>2 DEF Object
  <2>4. CASE Renew(c)
    BY <1>2, <2>1, <2>2, <2>4 DEF Renew
  <2>5. CASE SetOnline(c)
    BY <1>2, <2>1, <2>3, <2>5 DEF SetOnline, Status
  <2>6. CASE SetAsleep(c)
    BY <1>2, <2>1, <2>3, <2>6 DEF SetAsleep, Status
  <2> QED
    BY <1>3, <2>4, <2>5, <2>6
<1>4. CASE Delete(c)
  <2>1. dev[c] \in Objs /\ heap[dev[c]] \in Object
    BY <1>4 DEF Delete, At, TypeOK, LocalsInv, DevSteps
  <2>2. heap[dev[c]].phone \in Phones
    BY <2>1 DEF Object
  <2>3. /\ heap' = heap
        /\ byPhone' \in [Phones -> Objs \cup {Nil}]
        /\ byPlate' \in [Plates -> Objs \cup {Nil}]
        /\ CacheInv'
    BY <1>4, <2>2, DelDeviceLemma DEF Delete
  <2>4. TypeOK'
    BY <1>4, <2>3 DEF Delete, Finish, Leave, Goto, TypeOK, timer, HandlerSteps
  <2>5. LocalsInv'
    BY <1>4, <2>3 DEF Delete, Finish, Leave, Goto, TypeOK, LocalsInv, timer, MsgSteps, DevSteps
  <2> QED
    BY <2>3, <2>4, <2>5
<1> QED
  BY <1>1, <1>3, <1>4

\* A handler that writes to the cron
LEMMA JobLemma ==
    ASSUME IInv, NEW c \in Conns, JobAdd(c) \/ CancelJob(c)
    PROVE  IInv'
<1> USE DEF IInv
<1>1. UNCHANGED cache /\ UNCHANGED <<open, sess, kpc, kdev, crashed>>
  BY DEF JobAdd, CancelJob
<1>2. CacheInv'
  BY <1>1, SameCacheLemma
<1>3. CASE JobAdd(c)
  <2>1. msg[c] \in Messages
    BY <1>3 DEF TypeOK, LocalsInv, JobAdd, At, MsgSteps
  <2>2. Claimed(c).phone \in Phones
    BY <2>1 DEF Claimed, Messages, Phones
  <2>3. TypeOK'
    BY <1>1, <1>3, <2>2 DEF JobAdd, Finish, Leave, Goto, TypeOK, cache, HandlerSteps
  <2>4. LocalsInv'
    BY <1>1, <1>3 DEF JobAdd, Finish, Leave, Goto, TypeOK, LocalsInv, cache, MsgSteps, DevSteps
  <2> QED
    BY <1>2, <2>3, <2>4
<1>4. CASE CancelJob(c)
  <2>1. TypeOK'
    BY <1>1, <1>4 DEF CancelJob, Goto, TypeOK, cache, HandlerSteps
  <2>2. LocalsInv'
    BY <1>1, <1>4 DEF CancelJob, Goto, At, TypeOK, LocalsInv, cache, MsgSteps, DevSteps
  <2> QED
    BY <1>2, <2>1, <2>2
<1> QED
  BY <1>3, <1>4

\* The run of a check
LEMMA CheckLemma ==
    ASSUME IInv, NEW ph \in Phones, Fire(ph) \/ Check(ph)
    PROVE  IInv'
<1> USE DEF IInv
<1>1. CASE Fire(ph) \/ Get(ph) \/ Missing(ph) \/ Decide(ph) \/ CloseConn(ph) \/ CancelOwnJob(ph)
  <2>1. UNCHANGED cache /\ UNCHANGED server
    BY <1>1 DEF Fire, Get, Missing, Decide, CloseConn, CancelOwnJob
  <2>2. CacheInv'
    BY <2>1, SameCacheLemma
  <2>3. TypeOK'
    BY <1>1, <2>1 DEF Fire, Get, Missing, Decide, CloseConn, CancelOwnJob, KGoto, KFinish,
                      TypeOK, cache, server, CheckSteps
  <2>4. LocalsInv'
    <3>1. CASE Get(ph)
      BY <2>1, <3>1 DEF Get, KGoto, TypeOK, LocalsInv, CacheInv, cache, server
    <3>2. CASE Fire(ph) \/ Missing(ph) \/ Decide(ph) \/ CloseConn(ph) \/ CancelOwnJob(ph)
      BY <2>1, <3>2 DEF Fire, Missing, Decide, CloseConn, CancelOwnJob, KGoto, KFinish,
                        TypeOK, LocalsInv, cache, server
    <3> QED
      BY <1>1, <3>1, <3>2
  <2> QED
    BY <2>2, <2>3, <2>4
<1>2. CASE TurnOffline(ph)
  <2> DEFINE d == [heap[kdev[ph]] EXCEPT !.status = "offline"]
  <2>1. kdev[ph] \in Objs /\ heap[kdev[ph]] \in Object
    BY <1>2 DEF TurnOffline, TypeOK, LocalsInv
  <2>2. d \in Object /\ d.phone = heap[kdev[ph]].phone /\ d.plate = heap[kdev[ph]].plate
    BY <2>1 DEF Object, Status
  <2>3. /\ \E t \in Terminals : d.phone = t.phone /\ d.plate = t.plate
        /\ \A x \in Phones : byPhone[x] = kdev[ph] => x = d.phone
        /\ \A pl \in Plates : byPlate[pl] = kdev[ph] => pl = d.plate
    BY <2>1, <2>2, NilAssumption DEF CacheInv
  <2>4. CacheDevice(kdev[ph], d)
    BY <1>2 DEF TurnOffline
  <2> HIDE DEF d
  <2>5. /\ heap' \in [Objs -> Object \cup {Nil}]
        /\ byPhone' \in [Phones -> Objs \cup {Nil}]
        /\ byPlate' \in [Plates -> Objs \cup {Nil}]
        /\ CacheInv'
        /\ \A x \in Objs : heap[x] # Nil => heap'[x] # Nil
    BY <2>1, <2>2, <2>3, <2>4, CacheDeviceLemma
  <2>6. TypeOK'
    BY <1>2, <2>5 DEF TurnOffline, KFinish, TypeOK, server, CheckSteps
  <2>7. LocalsInv'
    BY <1>2, <2>5 DEF TurnOffline, KFinish, TypeOK, LocalsInv, server
  <2> QED
    BY <2>5, <2>6, <2>7
<1>3. CASE ClearDevice(ph)
  <2>1. /\ heap' = heap
        /\ byPhone' \in [Phones -> Objs \cup {Nil}]
        /\ byPlate' \in [Plates -> Objs \cup {Nil}]
        /\ CacheInv'
    BY <1>3, DelDeviceLemma DEF ClearDevice
  <2>2. TypeOK'
    BY <1>3, <2>1 DEF ClearDevice, KGoto, TypeOK, server, CheckSteps
  <2>3. LocalsInv'
    BY <1>3, <2>1 DEF ClearDevice, KGoto, TypeOK, LocalsInv, server
  <2> QED
    BY <2>1, <2>2, <2>3
<1> QED
  BY <1>1, <1>2, <1>3 DEF Check

\* Time
LEMMA ExpireLemma ==
    ASSUME IInv, NEW o \in Objs, Expire(o)
    PROVE  IInv'
<1> USE DEF IInv
<1>1. heap[o] # Nil
  BY NilAssumption DEF Expire, Reachable, CacheInv, LocalsInv
<1>2. heap[o] \in Object
  BY <1>1 DEF TypeOK
<1>3. /\ [heap[o] EXCEPT !.fresh = FALSE] \in Object
      /\ [heap[o] EXCEPT !.fresh = FALSE].phone = heap[o].phone
      /\ [heap[o] EXCEPT !.fresh = FALSE].plate = heap[o].plate
  BY <1>2 DEF Object
<1>4. /\ heap' \in [Objs -> Object \cup {Nil}]
      /\ \A x \in Objs : /\ heap[x] = Nil <=> heap'[x] = Nil
                         /\ heap[x] # Nil => /\ heap'[x].phone = heap[x].phone
                                             /\ heap'[x].plate = heap[x].plate
  BY <1>1, <1>3, NilAssumption DEF Expire, TypeOK
<1>5. /\ byPhone' = byPhone /\ byPlate' = byPlate
      /\ UNCHANGED <<server, timer, open, crashed>>
  BY DEF Expire
<1>6. TypeOK'
  BY <1>4, <1>5 DEF TypeOK, server, timer
<1>7. CacheInv'
  BY <1>4, <1>5 DEF CacheInv, TypeOK
<1>8. LocalsInv'
  BY <1>4, <1>5 DEF LocalsInv, TypeOK, server, timer
<1> QED
  BY <1>6, <1>7, <1>8

-----------------------------------------------------------------------------
LEMMA NextLemma == IInv /\ [Next]_vars => IInv'
<1> SUFFICES ASSUME IInv, [Next]_vars PROVE IInv'
  OBVIOUS
<1>1. CASE UNCHANGED vars
  BY <1>1 DEF IInv, TypeOK, CacheInv, LocalsInv, vars
<1>2. ASSUME NEW c \in Conns, Arrive(c) \/ Serve(c)
      PROVE  IInv'
  BY <1>2, ConnectionLemma, ReadingLemma, WritingLemma, JobLemma DEF Arrive, Serve, Handle
<1>3. ASSUME NEW ph \in Phones, Fire(ph) \/ Check(ph)
      PROVE  IInv'
  BY <1>3, CheckLemma
<1>4. ASSUME NEW o \in Objs, Expire(o)
      PROVE  IInv'
  BY <1>4, ExpireLemma
<1> QED
  BY <1>1, <1>2, <1>3, <1>4 DEF Next

\* In every state all that a map, a handler or a check points to is a device that was
\* allocated, under the key it was found by (device_cache.go).
THEOREM Invariance == Spec => []IInv
BY InitLemma, NextLemma, PTL DEF Spec

\* Every variable of every goroutine keeps its type, at every interleaving and for
\* any number of connections, terminals and heap cells.
THEOREM TypeCorrect == Spec => []TypeOK
<1>1. IInv => TypeOK
  BY DEF IInv
<1> QED
  BY <1>1, Invariance, PTL

\* However handlers and checks interleave, and however many connections speak for
\* the same terminal, a lookup by plate and a lookup by phone never disagree in a
\* fleet where each plate has one phone, and never return somebody else's device.
THEOREM IndexesAlwaysAgree == Spec => []IndexesAgree
<1>1. IInv => IndexesAgree
  BY DEF IInv, CacheInv, IndexesAgree
<1> QED
  BY <1>1, Invariance, PTL

-----------------------------------------------------------------------------
(* One at a time.  Where handlers and checks do not overlap, what one of   *)
(* them has found stays true until it writes: the device that it looked up *)
(* is the one in the cache, and the two indexes hold the same devices even *)
(* if two phones claim one plate.                                          *)

\* At most one handler or check is under way.
AloneInv ==
    /\ \A c, d \in Conns : pc[c] \notin {"off", "idle"} /\ pc[d] \notin {"off", "idle"} => c = d
    /\ \A p, q \in Phones : kpc[p] # "idle" /\ kpc[q] # "idle" => p = q
    /\ \A c \in Conns, ph \in Phones : pc[c] \in {"off", "idle"} \/ kpc[ph] = "idle"

\* A device in one index is in the other.
PairInv ==
    /\ \A ph \in Phones : byPhone[ph] # Nil => byPlate[heap[byPhone[ph]].plate] = byPhone[ph]
    /\ \A pl \in Plates : byPlate[pl] # Nil => byPhone[heap[byPlate[pl]].phone] = byPlate[pl]

\* What the handler of c has seen is still so.
HandlerOK(c) ==
    /\ c \in open => pc[c] # "off"
    /\ pc[c] \notin {"off", "idle", "remove"} => c \in open
    /\ pc[c] \notin DevSteps => dev[c] = Nil
    /\ pc[c] \in DevSteps => dev[c] = byPhone[heap[dev[c]].phone]
    /\ pc[c] \in {"hasPhone", "insert"} => byPlate[msg[c].from.plate] = Nil
    /\ pc[c] = "insert" => byPhone[msg[c].from.phone] = Nil
    /\ pc[c] = "plateCode" => byPlate[msg[c].from.plate] # Nil
    /\ pc[c] \in {"phoneCode", "jobLookup", "jobAdd"} => byPhone[msg[c].from.phone] # Nil

\* What the check of ph has seen is still so.
CheckOK(ph) ==
    /\ kpc[ph] # "missing"
    /\ kpc[ph] \in {"idle", "get"} => kdev[ph] = Nil
    /\ kpc[ph] = "get" => byPhone[ph] # Nil
    /\ kpc[ph] \in {"decide", "offline", "close", "delete"} => kdev[ph] # Nil /\ kdev[ph] = byPhone[ph]
    /\ kpc[ph] = "offline" => ShouldTurnOffline(heap[kdev[ph]])
    /\ kpc[ph] = "close" => ShouldClear(heap[kdev[ph]])
    /\ kpc[ph] = "cancel" => byPhone[ph] = Nil

\* Each cached device has its job, except that a registration adds it last, a
\* logout cancels it first, and a check cancels it last.
Jobless(ph) ==
    \E c \in Conns : \/ pc[c] \in {"jobLookup", "jobAdd"} /\ msg[c].from.phone = ph
                     \/ pc[c] = "delete" /\ heap[dev[c]].phone = ph
JobsInv ==
    \A ph \in Phones : ph \in jobs <=> kpc[ph] = "cancel" \/ (byPhone[ph] # Nil /\ ~Jobless(ph))

SInv ==
    /\ IInv /\ AloneInv /\ PairInv /\ JobsInv /\ ~crashed
    /\ \A c \in Conns : HandlerOK(c)
    /\ \A ph \in Phones : CheckOK(ph)

-----------------------------------------------------------------------------
(* What follows when one of them has the server for itself.                *)

LEMMA QuietFacts ==
    ASSUME SInv, Quiet
    PROVE  /\ \A c \in Conns : pc[c] \in {"off", "idle"} /\ dev[c] = Nil
           /\ \A ph \in Phones : kpc[ph] = "idle" /\ kdev[ph] = Nil
           /\ \A ph \in Phones : ~Jobless(ph) /\ ~BeingDeleted(ph)
           /\ \A ph \in Phones : ph \in jobs <=> byPhone[ph] # Nil
<1>1. /\ \A c \in Conns : pc[c] \in {"off", "idle"}
      /\ \A ph \in Phones : kpc[ph] = "idle"
  BY DEF Quiet, BusyConns, BusyChecks
<1>2. /\ \A c \in Conns : dev[c] = Nil
      /\ \A ph \in Phones : kdev[ph] = Nil
  BY <1>1 DEF SInv, HandlerOK, CheckOK, DevSteps
<1>3. \A ph \in Phones : ~Jobless(ph) /\ ~BeingDeleted(ph)
  BY <1>1 DEF Jobless, BeingDeleted
<1> QED
  BY <1>1, <1>2, <1>3 DEF SInv, JobsInv

LEMMA HandlerFacts ==
    ASSUME SInv, NEW c \in Conns, pc[c] \notin {"off", "idle"}
    PROVE  /\ \A d \in Conns : d # c => pc[d] \in {"off", "idle"} /\ dev[d] = Nil
           /\ \A ph \in Phones : kpc[ph] = "idle" /\ kdev[ph] = Nil
<1>1. /\ \A d \in Conns : d # c => pc[d] \in {"off", "idle"}
      /\ \A ph \in Phones : kpc[ph] = "idle"
  BY DEF SInv, AloneInv
<1> QED
  BY <1>1 DEF SInv, HandlerOK, CheckOK, DevSteps

LEMMA CheckFacts ==
    ASSUME SInv, NEW ph \in Phones, kpc[ph] # "idle"
    PROVE  /\ \A c \in Conns : pc[c] \in {"off", "idle"} /\ dev[c] = Nil
           /\ \A x \in Phones : x # ph => kpc[x] = "idle" /\ kdev[x] = Nil
           /\ \A x \in Phones : ~Jobless(x)
<1>1. /\ \A c \in Conns : pc[c] \in {"off", "idle"}
      /\ \A x \in Phones : x # ph => kpc[x] = "idle"
  BY DEF SInv, AloneInv
<1>2. \A x \in Phones : ~Jobless(x)
  BY <1>1 DEF Jobless
<1> QED
  BY <1>1, <1>2 DEF SInv, HandlerOK, CheckOK, DevSteps

\* A cached device is in the heap, under its phone and plate.
LEMMA CachedFacts ==
    ASSUME SInv, NEW ph \in Phones, byPhone[ph] # Nil
    PROVE  LET o == byPhone[ph] IN
           /\ o \in Objs /\ heap[o] \in Object /\ heap[o].phone = ph
           /\ heap[o].plate \in Plates /\ byPlate[heap[o].plate] = o
           /\ \E t \in Terminals : t.phone = ph /\ t.plate = heap[o].plate
<1>1. byPhone[ph] \in Objs /\ heap[byPhone[ph]] \in Object /\ heap[byPhone[ph]].phone = ph
  BY DEF SInv, IInv, TypeOK, CacheInv
<1>2. heap[byPhone[ph]] # Nil
  BY <1>1, NilAssumption
<1> QED
  BY <1>1, <1>2 DEF SInv, IInv, CacheInv, PairInv, Object

\* The device in a handler's local variable is cached.
LEMMA LocalFacts ==
    ASSUME SInv, NEW c \in Conns, pc[c] \in DevSteps
    PROVE  LET ph == heap[dev[c]].phone IN
           /\ ph \in Phones /\ byPhone[ph] # Nil /\ dev[c] = byPhone[ph]
<1>1. dev[c] \in Objs /\ heap[dev[c]] \in Object /\ dev[c] # Nil
  BY DEF SInv, IInv, TypeOK, LocalsInv
<1> QED
  BY <1>1 DEF SInv, HandlerOK, Object

\* The message of a handler is some terminal's.
LEMMA MsgFacts ==
    ASSUME SInv, NEW c \in Conns, pc[c] \in MsgSteps
    PROVE  /\ msg[c].from \in Terminals
           /\ msg[c].from.phone \in Phones /\ msg[c].from.plate \in Plates
<1>1. msg[c] \in Messages
  BY DEF SInv, IInv, TypeOK, LocalsInv
<1> QED
  BY <1>1 DEF Messages, Phones, Plates

-----------------------------------------------------------------------------
(* Each step, taken alone, keeps what the others have seen.                *)

\* Of a handler or a check that has not begun the invariant says little.
LEMMA IdleOK ==
    /\ \A c \in Conns : pc'[c] \in {"off", "idle"} /\ dev'[c] = Nil /\ (c \in open' => pc'[c] # "off")
                          => HandlerOK(c)'
    /\ \A ph \in Phones : kpc'[ph] = "idle" /\ kdev'[ph] = Nil => CheckOK(ph)'
BY DEF HandlerOK, CheckOK, DevSteps

LEMMA SInvInit == Init => SInv
<1> SUFFICES ASSUME Init PROVE SInv
  OBVIOUS
<1>1. IInv
  BY InitLemma
<1>2. /\ \A c \in Conns : HandlerOK(c)
      /\ \A ph \in Phones : CheckOK(ph)
  BY DEF Init, HandlerOK, CheckOK, DevSteps
<1>3. AloneInv /\ PairInv /\ JobsInv /\ ~crashed
  BY DEF Init, AloneInv, PairInv, JobsInv
<1> QED
  BY <1>1, <1>2, <1>3 DEF SInv

\* The listener and the peer, between two handlers
LEMMA SerialArrive ==
    ASSUME SInv, IInv', Quiet, NEW c \in Conns,
           Accept(c) \/ Hangup(c) \/ ReadClosed(c) \/ \E m \in Messages : Receive(c, m)
    PROVE  SInv'
<1>1. /\ UNCHANGED <<cache, timer, crashed>>
      /\ \E step \in {"idle", "remove", "hasPlate", "lookup"} :
           /\ \A d \in Conns : pc'[d] = IF d = c THEN step ELSE pc[d]
           /\ step \in {"hasPlate", "lookup"} => c \in open'
      /\ \A d \in Conns : /\ dev'[d] = Nil
                          /\ d \in open' => d \in open \/ d = c
  <2>1. \A d \in Conns : dev[d] = Nil
    BY QuietFacts
  <2> QED
    BY <2>1 DEF Accept, Hangup, ReadClosed, Receive, Return, Leave, Goto, SInv, IInv, TypeOK
<1>2. PICK step \in {"idle", "remove", "hasPlate", "lookup"} :
         /\ \A d \in Conns : pc'[d] = IF d = c THEN step ELSE pc[d]
         /\ step \in {"hasPlate", "lookup"} => c \in open'
  BY <1>1
<1>3. /\ \A d \in Conns : pc[d] \in {"off", "idle"}
      /\ \A ph \in Phones : kpc'[ph] = "idle" /\ kdev'[ph] = Nil
      /\ \A ph \in Phones : ph \in jobs' <=> byPhone'[ph] # Nil
  BY <1>1, QuietFacts DEF timer, cache
<1>4. \A d \in Conns : HandlerOK(d)'
  <2>1. HandlerOK(c)'
    BY <1>1, <1>2 DEF HandlerOK, DevSteps
  <2>2. ASSUME NEW d \in Conns, d # c
        PROVE  HandlerOK(d)'
    BY <1>1, <1>2, <1>3, <2>2, IdleOK DEF SInv, HandlerOK
  <2> QED
    BY <2>1, <2>2
<1>5. \A ph \in Phones : CheckOK(ph)'
  BY <1>3, IdleOK
<1>6. AloneInv'
  BY <1>2, <1>3 DEF AloneInv
<1>7. JobsInv'
  <2>1. \A ph \in Phones : ~Jobless(ph)'
    BY <1>2, <1>3 DEF Jobless
  <2> QED
    BY <1>3, <2>1 DEF JobsInv
<1>8. PairInv'
  BY <1>1 DEF SInv, PairInv, cache
<1> QED
  BY <1>1, <1>4, <1>5, <1>6, <1>7, <1>8 DEF SInv

\* A handler goes on: nothing but its own control changes.
LEMMA SerialGoOn ==
    ASSUME SInv, IInv', NEW c \in Conns, pc[c] \notin {"off", "idle"},
           UNCHANGED <<cache, timer, crashed>>, open' \subseteq open,
           \A d \in Conns : d # c => pc'[d] = pc[d] /\ dev'[d] = dev[d],
           HandlerOK(c)',
           \A ph \in Phones : Jobless(ph)' <=> Jobless(ph)
    PROVE  SInv'
<1>1. \A d \in Conns : d # c => HandlerOK(d)'
  BY HandlerFacts, IdleOK DEF SInv, HandlerOK
<1>2. \A ph \in Phones : CheckOK(ph)'
  BY HandlerFacts, IdleOK DEF timer
<1>3. AloneInv'
  BY HandlerFacts DEF AloneInv, timer
<1>4. JobsInv'
  BY DEF SInv, JobsInv, timer, cache
<1>5. PairInv'
  BY DEF SInv, PairInv, cache
<1> QED
  BY <1>1, <1>2, <1>3, <1>4, <1>5 DEF SInv

LEMMA SerialReading ==
    ASSUME SInv, IInv', NEW c \in Conns,
           \/ HasPlate(c)       \/ HasPhone(c)  \/ Lookup(c)
           \/ RefuseWithCode(c) \/ PanicOnCode(c) \/ JobLookup(c) \/ RemoveSession(c)
    PROVE  SInv'
<1>1. /\ pc[c] \notin {"off", "idle"} /\ pc[c] \notin DevSteps
      /\ UNCHANGED <<cache, timer, crashed>> /\ open' \subseteq open
      /\ dev[c] = Nil
      /\ pc \in [Conns -> HandlerSteps] /\ dev \in [Conns -> Objs \cup {Nil}]
      /\ msg \in [Conns -> Messages \cup {Nil}]
  BY DEF HasPlate, HasPhone, Lookup, RefuseWithCode, PanicOnCode, JobLookup, RemoveSession,
         At, DevSteps, SInv, IInv, TypeOK, HandlerOK
<1>2. \A d \in Conns : d # c => pc'[d] = pc[d] /\ msg'[d] = msg[d] /\ dev'[d] = dev[d]
  BY <1>1 DEF HasPlate, HasPhone, Lookup, RefuseWithCode, PanicOnCode, JobLookup, RemoveSession,
              Goto, Found, Finish, Return, Leave
<1>3. ASSUME HandlerOK(c)', pc[c] \notin {"jobLookup", "jobAdd"},
             pc'[c] \notin {"jobLookup", "jobAdd", "delete"}
      PROVE  SInv'
  <2>1. \A ph \in Phones : ~Jobless(ph)' /\ ~Jobless(ph)
    BY <1>1, <1>2, <1>3, HandlerFacts DEF Jobless, DevSteps
  <2> QED
    BY <1>1, <1>2, <1>3, <2>1, SerialGoOn
<1>4. ASSUME NEW step \in {"idle", "remove"}, Leave(c, step), UNCHANGED open,
             pc[c] \notin {"jobLookup", "jobAdd"}
      PROVE  SInv'
  <2>1. pc'[c] = step /\ dev'[c] = Nil
    BY <1>1, <1>4 DEF Leave, Goto
  <2>2. HandlerOK(c)'
    BY <2>1, <1>4 DEF HandlerOK, DevSteps
  <2> QED
    BY <1>3, <1>4, <2>1, <2>2
<1>5. CASE HasPlate(c) \/ HasPhone(c)
  <2>1. /\ UNCHANGED <<open, msg, dev>> /\ pc[c] \in {"hasPlate", "hasPhone"}
        /\ \/ pc'[c] = "hasPhone" /\ byPlate[msg[c].from.plate] = Nil
           \/ pc'[c] = "plateCode" /\ byPlate[msg[c].from.plate] # Nil
           \/ /\ pc'[c] = "insert" /\ byPlate[msg[c].from.plate] = Nil
              /\ byPhone[msg[c].from.phone] = Nil
           \/ pc'[c] = "phoneCode" /\ byPhone[msg[c].from.phone] # Nil
    BY <1>1, <1>5 DEF HasPlate, HasPhone, At, Goto, Claimed, SInv, HandlerOK
  <2>2. HandlerOK(c)'
    BY <1>1, <2>1 DEF SInv, HandlerOK, cache, DevSteps
  <2> QED
    BY <1>3, <2>1, <2>2
<1>6. CASE RefuseWithCode(c) \/ PanicOnCode(c)
  BY <1>4, <1>6 DEF RefuseWithCode, PanicOnCode, At, Finish, Return
<1>7. CASE JobLookup(c)
  <2>1. pc[c] = "jobLookup" /\ byPhone[msg[c].from.phone] # Nil
    BY <1>7 DEF JobLookup, At, SInv, HandlerOK
  <2>2. pc'[c] = "jobAdd" /\ UNCHANGED <<open, msg, dev>>
    BY <1>1, <1>7, <2>1 DEF JobLookup, Claimed, Goto
  <2>3. HandlerOK(c)'
    BY <1>1, <2>1, <2>2 DEF SInv, HandlerOK, cache, DevSteps
  <2>4. \A ph \in Phones : Jobless(ph)' <=> Jobless(ph)
    BY <1>1, <1>2, <2>1, <2>2, HandlerFacts DEF Jobless, cache
  <2> QED
    BY <1>1, <1>2, <2>3, <2>4, SerialGoOn
<1>8. CASE Lookup(c)
  <2> DEFINE d == byPhone[Claimed(c).phone]
  <2>1. UNCHANGED open /\ pc[c] = "lookup" /\ c \in open
    BY <1>8 DEF Lookup, At, SInv, HandlerOK
  <2>2. CASE Return(c) \/ Finish(c)
    BY <1>4, <2>1, <2>2 DEF Return, Finish
  <2>3. CASE d # Nil /\ \E step \in DevSteps \ {"delete"} : Found(c, d, step)
    <3>1. msg[c].from.phone \in Phones
      BY <2>1, MsgFacts DEF MsgSteps
    <3>2. heap[d].phone = msg[c].from.phone
      BY <2>3, <3>1, CachedFacts DEF Claimed
    <3>3. pc'[c] \in DevSteps \ {"delete"} /\ dev'[c] = d
      BY <1>1, <2>3 DEF Found, Goto
    <3>4. HandlerOK(c)'
      BY <1>1, <2>1, <3>2, <3>3 DEF HandlerOK, cache, DevSteps, Claimed
    <3> QED
      BY <1>3, <2>1, <3>3, <3>4 DEF DevSteps
  <2> QED
    BY <1>8, <2>2, <2>3 DEF Lookup, DevSteps
<1>9. CASE RemoveSession(c)
  <2>1. pc[c] = "remove" /\ pc'[c] = "off" /\ dev'[c] = Nil /\ c \notin open'
    BY <1>1, <1>9 DEF RemoveSession
  <2>2. HandlerOK(c)'
    BY <2>1 DEF HandlerOK, DevSteps
  <2> QED
    BY <1>3, <2>1, <2>2
<1> QED
  BY <1>5, <1>6, <1>7, <1>8, <1>9

LEMMA SerialJob ==
    ASSUME SInv, IInv', NEW c \in Conns, JobAdd(c) \/ CancelJob(c)
    PROVE  SInv'
<1>1. /\ pc[c] \in {"jobAdd", "cancel"}
      /\ UNCHANGED <<cache, open, kpc, kdev, crashed>>
      /\ pc \in [Conns -> HandlerSteps] /\ dev \in [Conns -> Objs \cup {Nil}]
      /\ msg \in [Conns -> Messages \cup {Nil}]
  BY DEF JobAdd, CancelJob, At, SInv, IInv, TypeOK
<1>2. /\ \A d \in Conns : d # c => pc[d] \in {"off", "idle"} /\ dev[d] = Nil
      /\ \A ph \in Phones : kpc[ph] = "idle" /\ kdev[ph] = Nil
  BY <1>1, HandlerFacts
<1>3. \A d \in Conns : d # c => pc'[d] = pc[d] /\ dev'[d] = dev[d]
  BY <1>1 DEF JobAdd, CancelJob, Goto, Finish, Leave
<1>4. /\ \A d \in Conns : d # c => HandlerOK(d)'
      /\ \A ph \in Phones : CheckOK(ph)'
  BY <1>1, <1>2, <1>3, IdleOK DEF SInv, HandlerOK
<1>5. AloneInv'
  BY <1>1, <1>2, <1>3 DEF AloneInv
<1>6. PairInv'
  BY <1>1 DEF SInv, PairInv, cache
<1>7. HandlerOK(c)' /\ JobsInv'
  <2>1. CASE JobAdd(c)
    <3> DEFINE p == msg[c].from.phone
    <3>1. pc[c] = "jobAdd" /\ pc'[c] = "idle" /\ dev'[c] = Nil /\ jobs' = jobs \cup {p}
      BY <1>1, <2>1 DEF JobAdd, At, Finish, Leave, Goto, Claimed
    <3>2. \A ph \in Phones : ~Jobless(ph)' /\ (Jobless(ph) <=> ph = p)
      BY <1>2, <1>3, <3>1 DEF Jobless
    <3>3. byPhone[p] # Nil
      BY <3>1 DEF SInv, HandlerOK
    <3>4. JobsInv'
      BY <1>1, <1>2, <3>1, <3>2, <3>3 DEF SInv, JobsInv, cache
    <3> QED
      BY <3>1, <3>4 DEF HandlerOK, DevSteps
  <2>2. CASE CancelJob(c)
    <3> DEFINE p == heap[dev[c]].phone
    <3>1. /\ pc[c] = "cancel" /\ pc'[c] = "delete" /\ dev' = dev /\ heap' = heap
          /\ jobs' = jobs \ {p}
      BY <1>1, <2>2 DEF CancelJob, At, Goto, cache
    <3>2. \A ph \in Phones : ~Jobless(ph) /\ (Jobless(ph)' <=> ph = p)
      BY <1>2, <1>3, <3>1 DEF Jobless
    <3>3. JobsInv'
      BY <1>1, <1>2, <3>1, <3>2 DEF SInv, JobsInv, cache
    <3>4. HandlerOK(c)'
      BY <1>1, <3>1 DEF SInv, HandlerOK, cache, DevSteps
    <3> QED
      BY <3>3, <3>4
  <2> QED
    BY <2>1, <2>2
<1> QED
  BY <1>1, <1>4, <1>5, <1>6, <1>7 DEF SInv

\* Caching again the device that is cached under its keys changes its fields only.
LEMMA SaveInPlace ==
    ASSUME SInv, NEW ph \in Phones, byPhone[ph] # Nil, NEW d \in Object,
           d.phone = ph, d.plate = heap[byPhone[ph]].plate, CacheDevice(byPhone[ph], d)
    PROVE  /\ byPhone' = byPhone /\ byPlate' = byPlate
           /\ \A x \in Objs : heap'[x] = IF x = byPhone[ph] THEN d ELSE heap[x]
<1>1. /\ byPhone[ph] \in Objs /\ heap[byPhone[ph]] \in Object
      /\ d.plate \in Plates /\ byPlate[d.plate] = byPhone[ph]
  BY CachedFacts
<1>2. /\ byPhone \in [Phones -> Objs \cup {Nil}] /\ byPlate \in [Plates -> Objs \cup {Nil}]
      /\ heap \in [Objs -> Object \cup {Nil}]
  BY DEF SInv, IInv, TypeOK
<1>3. /\ heap' = [heap EXCEPT ![byPhone[ph]] = d]
      /\ byPlate' = [byPlate EXCEPT ![d.plate] = byPhone[ph]]
      /\ byPhone' = [byPhone EXCEPT ![ph] = byPhone[ph]]
  BY DEF CacheDevice
<1> QED
  BY <1>1, <1>2, <1>3

\* The keys of the devices stay, and so the indexes stay in step.
LEMMA SamePairs ==
    ASSUME SInv, byPhone' = byPhone, byPlate' = byPlate,
           \A x \in Objs : heap[x] \in Object =>
              heap'[x] \in Object /\ heap'[x].phone = heap[x].phone /\ heap'[x].plate = heap[x].plate
    PROVE  PairInv'
<1>1. /\ \A ph \in Phones : byPhone[ph] # Nil => byPhone[ph] \in Objs /\ heap[byPhone[ph]] \in Object
      /\ \A pl \in Plates : byPlate[pl] # Nil => byPlate[pl] \in Objs /\ heap[byPlate[pl]] \in Object
  BY DEF SInv, IInv, TypeOK, CacheInv
<1> QED
  BY <1>1 DEF SInv, PairInv

\* A registration caches a new object, under keys that are free.
LEMMA InsertEffect ==
    ASSUME SInv, NEW c \in Conns, InsertNew(c)
    PROVE  LET p == msg[c].from.phone
               q == msg[c].from.plate
               d == [phone |-> p, plate |-> q, conn |-> c, status |-> "offline", fresh |-> TRUE]
           IN
           /\ pc[c] = "insert" /\ UNCHANGED <<timer, open, sess, msg, dev, crashed>>
           /\ c \in open /\ byPhone[p] = Nil /\ byPlate[q] = Nil /\ dev[c] = Nil
           /\ p \in Phones /\ q \in Plates /\ msg[c].from \in Terminals
           /\ \E o \in Objs :
                /\ o # Nil
                /\ \A ph \in Phones : byPhone[ph] # o
                /\ \A pl \in Plates : byPlate[pl] # o
                /\ \A ph \in Phones : byPhone'[ph] = IF ph = p THEN o ELSE byPhone[ph]
                /\ \A pl \in Plates : byPlate'[pl] = IF pl = q THEN o ELSE byPlate[pl]
                /\ \A x \in Objs : heap'[x] = IF x = o THEN d ELSE heap[x]
<1> DEFINE p == msg[c].from.phone
           q == msg[c].from.plate
           d == [phone |-> p, plate |-> q, conn |-> c, status |-> "offline", fresh |-> TRUE]
<1>1. /\ pc[c] = "insert" /\ UNCHANGED <<timer, open, sess, msg, dev, crashed>>
      /\ c \in open /\ byPhone[p] = Nil /\ byPlate[q] = Nil /\ dev[c] = Nil
  BY DEF InsertNew, At, SInv, HandlerOK, DevSteps
<1>2. p \in Phones /\ q \in Plates /\ msg[c].from \in Terminals
  BY <1>1, MsgFacts DEF MsgSteps
<1>3. PICK o \in Objs \ Reachable : CacheDevice(o, d)
  BY DEF InsertNew, Claimed
<1>4. /\ o \in Objs /\ o # Nil /\ d.phone = p /\ d.plate = q
      /\ \A ph \in Phones : byPhone[ph] # o
      /\ \A pl \in Plates : byPlate[pl] # o
  BY NilAssumption DEF Reachable
<1> HIDE DEF d
<1>5. /\ \A ph \in Phones : byPhone'[ph] = IF ph = p THEN o ELSE byPhone[ph]
      /\ \A pl \in Plates : byPlate'[pl] = IF pl = q THEN o ELSE byPlate[pl]
      /\ \A x \in Objs : heap'[x] = IF x = o THEN d ELSE heap[x]
  BY <1>3, <1>4 DEF CacheDevice, SInv, IInv, TypeOK
<1> QED
  BY <1>1, <1>2, <1>4, <1>5 DEF d

LEMMA SerialInsert ==
    ASSUME SInv, IInv', NEW c \in Conns, InsertNew(c)
    PROVE  SInv'
<1> DEFINE p == msg[c].from.phone
           q == msg[c].from.plate
           d == [phone |-> p, plate |-> q, conn |-> c, status |-> "offline", fresh |-> TRUE]
<1>1. /\ pc[c] = "insert" /\ UNCHANGED <<timer, open, sess, msg, dev, crashed>>
      /\ c \in open /\ byPhone[p] = Nil /\ byPlate[q] = Nil /\ dev[c] = Nil
  BY InsertEffect
<1>2. p \in Phones /\ q \in Plates
  BY InsertEffect
<1>3. PICK o \in Objs :
         /\ o # Nil
         /\ \A ph \in Phones : byPhone[ph] # o
         /\ \A pl \in Plates : byPlate[pl] # o
         /\ \A ph \in Phones : byPhone'[ph] = IF ph = p THEN o ELSE byPhone[ph]
         /\ \A pl \in Plates : byPlate'[pl] = IF pl = q THEN o ELSE byPlate[pl]
         /\ \A x \in Objs : heap'[x] = IF x = o THEN d ELSE heap[x]
  BY InsertEffect
<1>4. d.phone = p /\ d.plate = q
  OBVIOUS
<1> HIDE DEF d
<1>6. /\ \A x \in Conns : pc'[x] = IF x = c THEN "jobLookup" ELSE pc[x]
      /\ \A x \in Conns : x # c => pc[x] \in {"off", "idle"} /\ dev[x] = Nil
      /\ \A ph \in Phones : kpc[ph] = "idle" /\ kdev[ph] = Nil
  BY <1>1, HandlerFacts DEF InsertNew, Goto, SInv, IInv, TypeOK
<1>7. PairInv'
  <2>1. ASSUME NEW ph \in Phones, byPhone'[ph] # Nil
        PROVE  byPlate'[heap'[byPhone'[ph]].plate] = byPhone'[ph]
    <3>1. CASE ph = p
      BY <3>1, <1>2, <1>4, <1>3
    <3>2. CASE ph # p
      BY <3>2, <2>1, <1>1, <1>4, <1>3, CachedFacts
    <3> QED
      BY <3>1, <3>2
  <2>2. ASSUME NEW pl \in Plates, byPlate'[pl] # Nil
        PROVE  byPhone'[heap'[byPlate'[pl]].phone] = byPlate'[pl]
    <3>1. CASE pl = q
      BY <3>1, <1>2, <1>4, <1>3
    <3>2. CASE pl # q
      <4>1. byPlate'[pl] = byPlate[pl] /\ byPlate[pl] \in Objs /\ byPlate[pl] # Nil
        BY <3>2, <2>2, <1>3 DEF SInv, IInv, TypeOK
      <4>2. heap'[byPlate[pl]] = heap[byPlate[pl]] /\ heap[byPlate[pl]] \in Object
        <5>1. heap'[byPlate[pl]] = heap[byPlate[pl]]
          BY <4>1, <1>4, <1>3
        <5>2. heap[byPlate[pl]] # Nil
          BY <4>1 DEF SInv, IInv, CacheInv
        <5> QED
          BY <4>1, <5>1, <5>2 DEF SInv, IInv, TypeOK
      <4>3. heap[byPlate[pl]].phone \in Phones /\ byPhone[heap[byPlate[pl]].phone] = byPlate[pl]
        BY <4>1, <4>2 DEF SInv, PairInv, Object
      <4> QED
        BY <4>1, <4>2, <4>3, <1>1, <1>3
    <3> QED
      BY <3>1, <3>2
  <2> QED
    BY <2>1, <2>2 DEF PairInv
<1>8. JobsInv'
  <2>1. \A ph \in Phones : ~Jobless(ph) /\ (Jobless(ph)' <=> ph = p)
    BY <1>1, <1>6 DEF Jobless
  <2> QED
    BY <1>1, <1>4, <1>3, <1>6, <2>1 DEF SInv, JobsInv, timer
<1>9. /\ \A x \in Conns : HandlerOK(x)'
      /\ \A ph \in Phones : CheckOK(ph)'
  <2>1. HandlerOK(c)'
    BY <1>1, <1>2, <1>4, <1>3, <1>6 DEF HandlerOK, DevSteps
  <2>2. \A x \in Conns : x # c => HandlerOK(x)'
    BY <1>1, <1>6, IdleOK DEF SInv, HandlerOK
  <2> QED
    BY <1>1, <1>6, <2>1, <2>2, IdleOK DEF timer
<1>10. AloneInv'
  BY <1>1, <1>6 DEF AloneInv, timer
<1> QED
  BY <1>1, <1>7, <1>8, <1>9, <1>10 DEF SInv

\* A handler that caches its device again
LEMMA SaveEffect ==
    ASSUME SInv, NEW c \in Conns, Renew(c) \/ SetOnline(c) \/ SetAsleep(c)
    PROVE  LET o == dev[c]
               ph == heap[o].phone
           IN
           /\ pc[c] \in DevSteps \ {"cancel", "delete"} /\ c \in open
           /\ ph \in Phones /\ byPhone[ph] = o /\ o # Nil /\ o \in Objs /\ heap[o] \in Object
           /\ byPhone' = byPhone /\ byPlate' = byPlate
           /\ \A x \in Objs : x # o => heap'[x] = heap[x]
           /\ heap'[o] \in Object /\ heap'[o].phone = ph /\ heap'[o].plate = heap[o].plate
           /\ heap'[o].conn = heap[o].conn /\ heap'[o].fresh = TRUE
           /\ Renew(c) => heap'[o].status = heap[o].status
           /\ SetOnline(c) => heap'[o].status = "online"
           /\ SetAsleep(c) => heap'[o].status = "sleeping"
           /\ Finish(c) /\ UNCHANGED <<timer, open, crashed>>
<1> DEFINE o == dev[c]
           ph == heap[o].phone
<1>1. pc[c] \in DevSteps \ {"cancel", "delete"} /\ c \in open
  BY DEF Renew, SetOnline, SetAsleep, At, DevSteps, SInv, HandlerOK
<1>2. /\ ph \in Phones /\ byPhone[ph] = o /\ o # Nil
  BY <1>1, LocalFacts
<1>3. o \in Objs /\ heap[o] \in Object
  BY <1>2, CachedFacts
<1>4. PICK st \in Status :
        /\ Save(c, [heap[o] EXCEPT !.status = st])
        /\ Renew(c) => st = heap[o].status
        /\ SetOnline(c) => st = "online"
        /\ SetAsleep(c) => st = "sleeping"
  <2>1. CASE Renew(c)
    <3>1. heap[o].status \in Status /\ [heap[o] EXCEPT !.status = heap[o].status] = heap[o]
      BY <1>3 DEF Object
    <3> QED
      BY <2>1, <3>1 DEF Renew, SetOnline, SetAsleep, At
  <2>2. CASE SetOnline(c)
    BY <2>2 DEF Renew, SetOnline, SetAsleep, At, Status
  <2>3. CASE SetAsleep(c)
    BY <2>3 DEF Renew, SetOnline, SetAsleep, At, Status
  <2> QED
    BY <2>1, <2>2, <2>3
<1> DEFINE d == [[heap[o] EXCEPT !.status = st] EXCEPT !.fresh = TRUE]
<1>5. /\ d \in Object /\ d.phone = ph /\ d.plate = heap[o].plate /\ d.conn = heap[o].conn
      /\ d.fresh = TRUE /\ d.status = st
  BY <1>3 DEF Object
<1>6. CacheDevice(o, d) /\ Finish(c) /\ UNCHANGED <<timer, open, crashed>>
  BY <1>4 DEF Save
<1> HIDE DEF d
<1>7. /\ byPhone' = byPhone /\ byPlate' = byPlate
      /\ \A x \in Objs : heap'[x] = IF x = o THEN d ELSE heap[x]
  BY <1>2, <1>5, <1>6, SaveInPlace
<1> QED
  BY <1>1, <1>2, <1>3, <1>4, <1>5, <1>6, <1>7

\* The end of a handler whose device has its job
LEMMA SerialSave ==
    ASSUME SInv, IInv', NEW c \in Conns, Renew(c) \/ SetOnline(c) \/ SetAsleep(c)
    PROVE  SInv'
<1>1. /\ pc[c] \in DevSteps \ {"cancel", "delete"}
      /\ byPhone' = byPhone /\ byPlate' = byPlate
      /\ \A x \in Objs : heap[x] \in Object =>
            heap'[x] \in Object /\ heap'[x].phone = heap[x].phone /\ heap'[x].plate = heap[x].plate
      /\ Finish(c) /\ UNCHANGED <<timer, open, crashed>>
  BY SaveEffect
<1>2. /\ \A x \in Conns : x # c => pc[x] \in {"off", "idle"} /\ dev[x] = Nil
      /\ \A ph \in Phones : kpc[ph] = "idle" /\ kdev[ph] = Nil
  BY <1>1, HandlerFacts DEF DevSteps
<1>3. /\ \A x \in Conns : x # c => pc'[x] = pc[x] /\ dev'[x] = dev[x]
      /\ pc'[c] = "idle" /\ dev'[c] = Nil
  BY <1>1 DEF Finish, Leave, Goto, SInv, IInv, TypeOK
<1>4. /\ \A x \in Conns : HandlerOK(x)'
      /\ \A ph \in Phones : CheckOK(ph)'
  BY <1>1, <1>2, <1>3, IdleOK DEF timer, SInv, HandlerOK
<1>5. PairInv'
  BY <1>1, SamePairs
<1>6. JobsInv'
  <2>1. \A ph \in Phones : ~Jobless(ph) /\ ~Jobless(ph)'
    BY <1>1, <1>2, <1>3 DEF Jobless, DevSteps
  <2> QED
    BY <1>1, <2>1 DEF SInv, JobsInv, timer
<1>7. AloneInv'
  BY <1>1, <1>2, <1>3 DEF AloneInv, timer
<1> QED
  BY <1>1, <1>4, <1>5, <1>6, <1>7 DEF SInv

\* Taking a cached device out takes it out of both indexes.
LEMMA DeleteEffect ==
    ASSUME SInv, NEW ph \in Phones, byPhone[ph] # Nil, DelDeviceByPhone(ph)
    PROVE  /\ heap' = heap
           /\ \A x \in Phones : byPhone'[x] = IF x = ph THEN Nil ELSE byPhone[x]
           /\ PairInv'
<1> DEFINE o == byPhone[ph]
           q == heap[o].plate
<1>1. o \in Objs /\ o # Nil /\ heap[o] \in Object /\ heap[o].phone = ph /\ q \in Plates /\ byPlate[q] = o
  BY CachedFacts
<1>2. heap' = heap /\ byPhone' = [byPhone EXCEPT ![ph] = Nil] /\ byPlate' = [byPlate EXCEPT ![q] = Nil]
  BY <1>1 DEF DelDeviceByPhone
<1>3. /\ \A x \in Phones : byPhone'[x] = IF x = ph THEN Nil ELSE byPhone[x]
      /\ \A pl \in Plates : byPlate'[pl] = IF pl = q THEN Nil ELSE byPlate[pl]
  BY <1>2 DEF SInv, IInv, TypeOK
<1>4. ASSUME NEW x \in Phones, byPhone'[x] # Nil
      PROVE  byPlate'[heap'[byPhone'[x]].plate] = byPhone'[x]
  <2>1. x # ph /\ byPhone'[x] = byPhone[x] /\ byPhone[x] # Nil
    BY <1>3, <1>4
  <2>2. /\ byPhone[x] \in Objs /\ heap[byPhone[x]] \in Object
        /\ heap[byPhone[x]].phone = x
        /\ heap[byPhone[x]].plate \in Plates /\ byPlate[heap[byPhone[x]].plate] = byPhone[x]
    BY <2>1, CachedFacts
  <2>3. heap[byPhone[x]].plate # q
    BY <2>1, <2>2, <1>1
  <2> QED
    BY <1>2, <1>3, <2>1, <2>2, <2>3
<1>5. ASSUME NEW pl \in Plates, byPlate'[pl] # Nil
      PROVE  byPhone'[heap'[byPlate'[pl]].phone] = byPlate'[pl]
  <2>1. pl # q /\ byPlate'[pl] = byPlate[pl] /\ byPlate[pl] # Nil
    BY <1>3, <1>5
  <2>2. heap[byPlate[pl]] # Nil /\ heap[byPlate[pl]].plate = pl
    BY <2>1 DEF SInv, IInv, CacheInv
  <2>3. byPlate[pl] \in Objs /\ heap[byPlate[pl]] \in Object /\ heap[byPlate[pl]].phone \in Phones
    BY <2>1, <2>2 DEF SInv, IInv, TypeOK, Object
  <2>4. byPhone[heap[byPlate[pl]].phone] = byPlate[pl]
    BY <2>1 DEF SInv, PairInv
  <2>5. heap[byPlate[pl]].phone # ph
    BY <2>1, <2>2, <2>4
  <2> QED
    BY <1>2, <1>3, <2>1, <2>3, <2>4, <2>5
<1> QED
  BY <1>2, <1>3, <1>4, <1>5 DEF PairInv

LEMMA SerialDelete ==
    ASSUME SInv, IInv', NEW c \in Conns, Delete(c)
    PROVE  SInv'
<1> DEFINE p == heap[dev[c]].phone
<1>1. /\ pc[c] = "delete" /\ DelDeviceByPhone(p) /\ Finish(c)
      /\ UNCHANGED <<timer, open, sess, crashed>>
  BY DEF Delete, At
<1>2. p \in Phones /\ byPhone[p] # Nil
  BY <1>1, LocalFacts DEF DevSteps
<1>3. /\ heap' = heap /\ PairInv'
      /\ \A x \in Phones : byPhone'[x] = IF x = p THEN Nil ELSE byPhone[x]
  BY <1>1, <1>2, DeleteEffect
<1>4. /\ \A x \in Conns : x # c => pc[x] \in {"off", "idle"} /\ dev[x] = Nil
      /\ \A ph \in Phones : kpc[ph] = "idle" /\ kdev[ph] = Nil
  BY <1>1, HandlerFacts
<1>5. /\ \A x \in Conns : x # c => pc'[x] = pc[x] /\ dev'[x] = dev[x]
      /\ pc'[c] = "idle" /\ dev'[c] = Nil
  BY <1>1 DEF Finish, Leave, Goto, SInv, IInv, TypeOK
<1>6. /\ \A x \in Conns : HandlerOK(x)'
      /\ \A ph \in Phones : CheckOK(ph)'
  BY <1>1, <1>4, <1>5, IdleOK DEF timer, SInv, HandlerOK
<1>7. JobsInv'
  <2>1. \A ph \in Phones : ~Jobless(ph)' /\ (Jobless(ph) <=> ph = p)
    BY <1>1, <1>4, <1>5 DEF Jobless
  <2> QED
    BY <1>1, <1>3, <1>4, <2>1 DEF SInv, JobsInv, timer
<1>8. AloneInv'
  BY <1>1, <1>4, <1>5 DEF AloneInv, timer
<1> QED
  BY <1>1, <1>3, <1>6, <1>7, <1>8 DEF SInv

-----------------------------------------------------------------------------
(* The check and the passing of time.                                      *)

\* The check of a cached device finds it; there is no other.
LEMMA NeverMissing ==
    ASSUME SInv, NEW ph \in Phones
    PROVE  ~Missing(ph)
BY DEF Missing, SInv, CheckOK

LEMMA SerialCheckReading ==
    ASSUME SInv, IInv', NEW ph \in Phones,
           \/ Quiet /\ Fire(ph)
           \/ Get(ph) \/ Decide(ph) \/ CloseConn(ph) \/ CancelOwnJob(ph)
    PROVE  SInv'
<1>1. /\ UNCHANGED <<cache, server, crashed>> /\ open' \subseteq open
      /\ \A x \in Phones : x # ph => kpc'[x] = kpc[x] /\ kdev'[x] = kdev[x]
      /\ jobs' = jobs \/ CancelOwnJob(ph)
  BY DEF Fire, Get, Decide, CloseConn, CancelOwnJob, KGoto, KFinish, SInv, IInv, TypeOK
<1>2. /\ \A c \in Conns : pc[c] \in {"off", "idle"} /\ dev[c] = Nil
      /\ \A x \in Phones : x # ph => kpc[x] = "idle" /\ kdev[x] = Nil
      /\ \A x \in Phones : ~Jobless(x)
  <2>1. CASE Quiet /\ Fire(ph)
    BY <2>1, QuietFacts
  <2>2. CASE ~Fire(ph)
    <3>1. kpc[ph] # "idle"
      BY <2>2 DEF Get, Decide, CloseConn, CancelOwnJob
    <3> QED
      BY <3>1, CheckFacts
  <2>3. CASE ~Quiet
    <3>1. kpc[ph] # "idle"
      BY <2>3 DEF Get, Decide, CloseConn, CancelOwnJob
    <3> QED
      BY <3>1, CheckFacts
  <2> QED
    BY <2>1, <2>2, <2>3
<1>3. \A c \in Conns : HandlerOK(c)'
  BY <1>1, <1>2, IdleOK DEF server, SInv, HandlerOK
<1>4. \A x \in Phones : ~Jobless(x)'
  BY <1>1, <1>2 DEF Jobless, server, cache
<1>5. AloneInv' /\ PairInv'
  BY <1>1, <1>2 DEF SInv, AloneInv, PairInv, server, cache
<1>6. CheckOK(ph)' /\ JobsInv'
  <2>1. CASE Fire(ph)
    <3>1. /\ kpc[ph] = "idle" /\ ph \in jobs /\ kpc'[ph] = "get" /\ kdev' = kdev /\ jobs' = jobs
      BY <2>1 DEF Fire, KGoto, SInv, IInv, TypeOK
    <3>2. byPhone[ph] # Nil /\ kdev[ph] = Nil
      BY <3>1 DEF SInv, JobsInv, CheckOK
    <3>3. CheckOK(ph)'
      BY <1>1, <3>1, <3>2 DEF CheckOK, cache
    <3> QED
      BY <1>1, <1>2, <1>4, <3>1, <3>3 DEF SInv, JobsInv, cache
  <2>2. CASE Get(ph)
    <3>1. kpc[ph] = "get" /\ byPhone[ph] # Nil /\ jobs' = jobs
      BY <2>2 DEF Get, SInv, CheckOK
    <3>2. kpc'[ph] = "decide" /\ kdev'[ph] = byPhone[ph]
      BY <2>2, <3>1 DEF Get, KGoto, SInv, IInv, TypeOK
    <3>3. CheckOK(ph)'
      BY <1>1, <3>1, <3>2 DEF CheckOK, cache
    <3> QED
      BY <1>1, <1>2, <1>4, <3>1, <3>2, <3>3 DEF SInv, JobsInv, cache
  <2>3. CASE Decide(ph)
    <3>1. kpc[ph] = "decide" /\ kdev[ph] # Nil /\ kdev[ph] = byPhone[ph] /\ jobs' = jobs
      BY <2>3 DEF Decide, SInv, CheckOK
    <3>2. \/ kpc'[ph] = "offline" /\ kdev' = kdev /\ ShouldTurnOffline(heap[kdev[ph]])
          \/ kpc'[ph] = "close" /\ kdev' = kdev /\ ShouldClear(heap[kdev[ph]])
          \/ kpc'[ph] = "idle" /\ kdev'[ph] = Nil
      BY <2>3 DEF Decide, KGoto, KFinish, SInv, IInv, TypeOK
    <3>3. CheckOK(ph)'
      BY <1>1, <3>1, <3>2 DEF CheckOK, cache
    <3> QED
      BY <1>1, <1>2, <1>4, <3>1, <3>2, <3>3 DEF SInv, JobsInv, cache
  <2>4. CASE CloseConn(ph)
    <3>1. /\ kpc[ph] = "close" /\ kdev[ph] # Nil /\ kdev[ph] = byPhone[ph]
          /\ jobs' = jobs /\ kdev' = kdev /\ kpc'[ph] = "delete"
      BY <2>4 DEF CloseConn, KGoto, SInv, IInv, TypeOK, CheckOK
    <3>2. CheckOK(ph)'
      BY <1>1, <3>1 DEF CheckOK, cache
    <3> QED
      BY <1>1, <1>2, <1>4, <3>1, <3>2 DEF SInv, JobsInv, cache
  <2>5. CASE CancelOwnJob(ph)
    <3>1. /\ kpc[ph] = "cancel" /\ byPhone[ph] = Nil
          /\ jobs' = jobs \ {ph} /\ kpc'[ph] = "idle" /\ kdev'[ph] = Nil
      BY <2>5 DEF CancelOwnJob, KFinish, SInv, IInv, TypeOK, CheckOK
    <3>2. CheckOK(ph)'
      BY <3>1, IdleOK
    <3> QED
      BY <1>1, <1>2, <1>4, <3>1, <3>2 DEF SInv, JobsInv, cache
  <2> QED
    BY <2>1, <2>2, <2>3, <2>4, <2>5
<1>7. \A x \in Phones : x # ph => CheckOK(x)'
  BY <1>1, <1>2, IdleOK
<1> QED
  BY <1>1, <1>3, <1>5, <1>6, <1>7 DEF SInv

\* A check that turns its device offline
LEMMA OfflineEffect ==
    ASSUME SInv, NEW ph \in Phones, TurnOffline(ph)
    PROVE  LET o == byPhone[ph] IN
           /\ kpc[ph] = "offline" /\ ShouldTurnOffline(heap[o])
           /\ o # Nil /\ o \in Objs /\ heap[o] \in Object
           /\ byPhone' = byPhone /\ byPlate' = byPlate
           /\ \A x \in Objs : x # o => heap'[x] = heap[x]
           /\ heap'[o] = [heap[o] EXCEPT !.status = "offline"] /\ heap'[o] \in Object
           /\ KFinish(ph) /\ UNCHANGED <<server, jobs, open, crashed>>
<1> DEFINE o == byPhone[ph]
           d == [heap[o] EXCEPT !.status = "offline"]
<1>1. kpc[ph] = "offline" /\ kdev[ph] = o /\ o # Nil /\ ShouldTurnOffline(heap[o])
  BY DEF TurnOffline, SInv, CheckOK
<1>2. o \in Objs /\ heap[o] \in Object /\ heap[o].phone = ph
  BY <1>1, CachedFacts
<1>3. d \in Object /\ d.phone = ph /\ d.plate = heap[o].plate
  BY <1>2 DEF Object, Status
<1>4. CacheDevice(o, d) /\ KFinish(ph) /\ UNCHANGED <<server, jobs, open, crashed>>
  BY <1>1 DEF TurnOffline
<1> HIDE DEF d
<1>5. /\ byPhone' = byPhone /\ byPlate' = byPlate
      /\ \A x \in Objs : heap'[x] = IF x = o THEN d ELSE heap[x]
  BY <1>1, <1>3, <1>4, SaveInPlace
<1> QED
  BY <1>1, <1>2, <1>3, <1>4, <1>5 DEF d

LEMMA SerialTurnOffline ==
    ASSUME SInv, IInv', NEW ph \in Phones, TurnOffline(ph)
    PROVE  SInv'
<1>1. /\ kpc[ph] = "offline" /\ byPhone' = byPhone /\ byPlate' = byPlate
      /\ KFinish(ph) /\ UNCHANGED <<server, jobs, open, crashed>>
  BY OfflineEffect
<1>2. \A x \in Objs : heap[x] \in Object =>
         heap'[x] \in Object /\ heap'[x].phone = heap[x].phone /\ heap'[x].plate = heap[x].plate
  <2>1. \A x \in Objs : heap'[x] = heap[x] \/ heap'[x] = [heap[x] EXCEPT !.status = "offline"]
    BY OfflineEffect
  <2> QED
    BY <2>1 DEF Object, Status
<1>3. /\ \A c \in Conns : pc[c] \in {"off", "idle"} /\ dev[c] = Nil
      /\ \A x \in Phones : x # ph => kpc[x] = "idle" /\ kdev[x] = Nil
      /\ \A x \in Phones : ~Jobless(x)
  BY <1>1, CheckFacts
<1>4. /\ \A x \in Phones : x # ph => kpc'[x] = kpc[x] /\ kdev'[x] = kdev[x]
      /\ kpc'[ph] = "idle" /\ kdev'[ph] = Nil
  BY <1>1 DEF KFinish, SInv, IInv, TypeOK
<1>5. /\ \A c \in Conns : HandlerOK(c)'
      /\ \A x \in Phones : CheckOK(x)'
  BY <1>1, <1>3, <1>4, IdleOK DEF server, SInv, HandlerOK
<1>6. PairInv'
  BY <1>1, <1>2, SamePairs
<1>7. JobsInv'
  <2>1. \A x \in Phones : ~Jobless(x)'
    BY <1>1, <1>3 DEF Jobless, server
  <2> QED
    BY <1>1, <1>3, <1>4, <2>1 DEF SInv, JobsInv
<1>8. AloneInv'
  BY <1>1, <1>3, <1>4 DEF AloneInv, server
<1> QED
  BY <1>1, <1>5, <1>6, <1>7, <1>8 DEF SInv

LEMMA SerialClearDevice ==
    ASSUME SInv, IInv', NEW ph \in Phones, ClearDevice(ph)
    PROVE  SInv'
<1>1. /\ kpc[ph] = "delete" /\ byPhone[ph] # Nil /\ DelDeviceByPhone(ph)
      /\ UNCHANGED <<server, jobs, kdev, open, crashed>>
      /\ \A x \in Phones : kpc'[x] = IF x = ph THEN "cancel" ELSE kpc[x]
  BY DEF ClearDevice, KGoto, SInv, IInv, TypeOK, CheckOK
<1>2. /\ heap' = heap /\ PairInv'
      /\ \A x \in Phones : byPhone'[x] = IF x = ph THEN Nil ELSE byPhone[x]
  BY <1>1, DeleteEffect
<1>3. /\ \A c \in Conns : pc[c] \in {"off", "idle"} /\ dev[c] = Nil
      /\ \A x \in Phones : x # ph => kpc[x] = "idle" /\ kdev[x] = Nil
      /\ \A x \in Phones : ~Jobless(x)
  BY <1>1, CheckFacts
<1>4. \A c \in Conns : HandlerOK(c)'
  BY <1>1, <1>3, IdleOK DEF server, SInv, HandlerOK
<1>5. \A x \in Phones : CheckOK(x)'
  <2>1. CheckOK(ph)'
    BY <1>1, <1>2 DEF CheckOK
  <2> QED
    BY <1>1, <1>3, <2>1, IdleOK
<1>6. JobsInv'
  <2>1. \A x \in Phones : ~Jobless(x)'
    BY <1>1, <1>3 DEF Jobless, server
  <2> QED
    BY <1>1, <1>2, <1>3, <2>1 DEF SInv, JobsInv
<1>7. AloneInv'
  BY <1>1, <1>3 DEF AloneInv, server
<1> QED
  BY <1>1, <1>2, <1>4, <1>5, <1>6, <1>7 DEF SInv

\* Between two handlers an object that anything points to is a cached device.
LEMMA ExpireEffect ==
    ASSUME SInv, Quiet, NEW o \in Objs, Expire(o)
    PROVE  LET ph == heap[o].phone IN
           /\ ph \in Phones /\ byPhone[ph] = o /\ o # Nil /\ heap[o] \in Object /\ heap[o].fresh
           /\ UNCHANGED <<byPhone, byPlate, server, timer, open, crashed>>
           /\ \A x \in Objs : x # o => heap'[x] = heap[x]
           /\ heap'[o] = [heap[o] EXCEPT !.fresh = FALSE] /\ heap'[o] \in Object
<1>1. /\ heap[o].fresh /\ heap' = [heap EXCEPT ![o].fresh = FALSE]
      /\ UNCHANGED <<byPhone, byPlate, server, timer, open, crashed>>
      /\ o # Nil
  BY NilAssumption DEF Expire
<1>2. \/ \E x \in Phones : byPhone[x] = o
      \/ \E pl \in Plates : byPlate[pl] = o
  BY <1>1, QuietFacts DEF Expire, Reachable
<1>3. heap[o] \in Object
  BY <1>1, <1>2 DEF SInv, IInv, TypeOK, CacheInv
<1>4. heap[o].phone \in Phones /\ byPhone[heap[o].phone] = o
  <2>1. ASSUME NEW x \in Phones, byPhone[x] = o
        PROVE  heap[o].phone = x
    BY <1>1, <2>1 DEF SInv, IInv, CacheInv
  <2>2. ASSUME NEW pl \in Plates, byPlate[pl] = o
        PROVE  byPhone[heap[o].phone] = o
    BY <1>1, <2>2 DEF SInv, PairInv
  <2> QED
    BY <1>2, <1>3, <2>1, <2>2 DEF Object
<1>5. /\ \A x \in Objs : x # o => heap'[x] = heap[x]
      /\ heap'[o] = [heap[o] EXCEPT !.fresh = FALSE]
  BY <1>1 DEF SInv, IInv, TypeOK
<1>6. heap'[o] \in Object
  BY <1>3, <1>5 DEF Object
<1> QED
  BY <1>1, <1>3, <1>4, <1>5, <1>6

LEMMA SerialExpire ==
    ASSUME SInv, IInv', Quiet, NEW o \in Objs, Expire(o)
    PROVE  SInv'
<1>1. UNCHANGED <<byPhone, byPlate, server, timer, open, crashed>>
  BY DEF Expire
<1>2. \A x \in Objs : heap[x] \in Object =>
         heap'[x] \in Object /\ heap'[x].phone = heap[x].phone /\ heap'[x].plate = heap[x].plate
  <2>1. \A x \in Objs : heap'[x] = heap[x] \/ heap'[x] = [heap[x] EXCEPT !.fresh = FALSE]
    BY ExpireEffect
  <2> QED
    BY <2>1 DEF Object
<1>3. /\ \A c \in Conns : pc[c] \in {"off", "idle"} /\ dev[c] = Nil
      /\ \A x \in Phones : kpc[x] = "idle" /\ kdev[x] = Nil
      /\ \A x \in Phones : ~Jobless(x)
  BY QuietFacts
<1>4. /\ \A c \in Conns : HandlerOK(c)'
      /\ \A x \in Phones : CheckOK(x)'
  BY <1>1, <1>3, IdleOK DEF server, timer, SInv, HandlerOK
<1>5. PairInv'
  BY <1>1, <1>2, SamePairs
<1>6. JobsInv'
  <2>1. \A x \in Phones : ~Jobless(x)'
    BY <1>1, <1>3 DEF Jobless, server
  <2> QED
    BY <1>1, <1>3, <2>1 DEF SInv, JobsInv, timer
<1>7. AloneInv'
  BY <1>1, <1>3 DEF AloneInv, server, timer
<1> QED
  BY <1>1, <1>4, <1>5, <1>6, <1>7 DEF SInv

-----------------------------------------------------------------------------
\* The steps of a serial execution, one by one
LEMMA SerialSteps ==
    ASSUME SInv, SerialNext
    PROVE  \/ \E c \in Conns : \/ Quiet /\ (Arrive(c) \/ ReadClosed(c))
                               \/ Handle(c) \/ RemoveSession(c)
           \/ \E ph \in Phones : (Quiet /\ Fire(ph)) \/ Check(ph)
           \/ \E o \in Objs : Quiet /\ Expire(o)
<1>1. ASSUME NEW c \in BusyConns, Serve(c)
      PROVE  Handle(c) \/ RemoveSession(c)
  BY <1>1 DEF BusyConns, Serve, ReadClosed
<1>2. BusyConns \subseteq Conns /\ BusyChecks \subseteq Phones
  BY DEF BusyConns, BusyChecks
<1>3. CASE Quiet /\ Next
  BY <1>3 DEF Next, Serve
<1>4. CASE \E c \in BusyConns : Serve(c)
  BY <1>1, <1>2, <1>4
<1>5. CASE \E ph \in BusyChecks : Check(ph)
  BY <1>2, <1>5
<1> QED
  BY <1>3, <1>4, <1>5 DEF SerialNext

\* They are steps of Devices.
LEMMA SerialIsNext == SerialNext => Next
BY DEF SerialNext, Next, BusyConns, BusyChecks

LEMMA SInvNext == SInv /\ [SerialNext]_vars => SInv'
<1> SUFFICES ASSUME SInv, [SerialNext]_vars PROVE SInv'
  OBVIOUS
<1>1. CASE UNCHANGED vars
  BY <1>1 DEF vars, SInv, IInv, TypeOK, CacheInv, LocalsInv, AloneInv, PairInv, JobsInv, Jobless,
              HandlerOK, CheckOK, ShouldTurnOffline, ShouldClear
<1>2. CASE SerialNext
  <2>1. IInv'
    BY <1>2, SerialIsNext, NextLemma DEF SInv
  <2>2. ASSUME NEW c \in Conns,
               (Quiet /\ (Arrive(c) \/ ReadClosed(c))) \/ Handle(c) \/ RemoveSession(c)
        PROVE  SInv'
    BY <2>1, <2>2, SerialArrive, SerialReading, SerialJob, SerialInsert, SerialSave, SerialDelete
       DEF Arrive, Handle
  <2>3. ASSUME NEW ph \in Phones, (Quiet /\ Fire(ph)) \/ Check(ph)
        PROVE  SInv'
    BY <2>1, <2>3, NeverMissing, SerialCheckReading, SerialTurnOffline, SerialClearDevice DEF Check
  <2>4. ASSUME NEW o \in Objs, Quiet, Expire(o)
        PROVE  SInv'
    BY <2>1, <2>4, SerialExpire
  <2> QED
    BY <1>2, <2>2, <2>3, <2>4, SerialSteps
<1> QED
  BY <1>1, <1>2

\* While one handler or check is under way and nobody else moves, what it looked up is
\* still in the cache (msg_processor.go, keepalive.go).
THEOREM SerialInvariance == SerialSpec => []SInv
BY SInvInit, SInvNext, PTL DEF SerialSpec

\* As long as handlers and checks do not overlap, no check goes on with a device that
\* is gone and no refused registration misses the device whose code it returns, for
\* any number of connections and terminals, two phones with one plate included.
THEOREM SerialNeverCrashes == SerialSpec => []NoCrashWhenSerial
<1>1. SInv => NoCrashWhenSerial
  BY DEF SInv, HandlerOK, NoCrashWhenSerial, At, Claimed
<1> QED
  BY <1>1, SerialInvariance, PTL

-----------------------------------------------------------------------------
(* The implementation of Registry.  What regBar and jobsBar show of the    *)
(* server are the cached devices, except the one that is being deleted.    *)

Here == {ph \in Phones : byPhone[ph] # Nil /\ ~BeingDeleted(ph)}
Shown(ph) ==
    LET d == heap[byPhone[ph]] IN
    [plate |-> d.plate, conn |-> d.conn, status |-> d.status, fresh |-> d.fresh]

OpenOK ==
    /\ openBar \subseteq Conns
    /\ \A c \in Conns : c \in openBar <=> c \in open /\ pc[c] # "remove"
BarOK ==
    /\ regBar = [ph \in Phones |-> IF ph \in Here THEN Shown(ph) ELSE NoDevice]
    /\ jobsBar = Here
    /\ Promise!Registered = Here
    /\ \A ph \in Here : regBar[ph] = Shown(ph)
    /\ \A ph \in Here : byPlate[regBar[ph].plate] # Nil
    /\ OpenOK

LEMMA BarLemma == SInv => BarOK
<1> SUFFICES ASSUME SInv PROVE BarOK
  OBVIOUS
<1>1. regBar = [ph \in Phones |-> IF ph \in Here THEN Shown(ph) ELSE NoDevice]
  BY DEF regBar, Here, Shown
<1>2. \A ph \in Here : Shown(ph) # NoDevice /\ byPlate[Shown(ph).plate] # Nil
  <2> SUFFICES ASSUME NEW ph \in Here PROVE Shown(ph) # NoDevice /\ byPlate[Shown(ph).plate] # Nil
    OBVIOUS
  <2>1. ph \in Phones /\ byPhone[ph] # Nil
    BY DEF Here
  <2>2. heap[byPhone[ph]] \in Object /\ byPlate[heap[byPhone[ph]].plate] # Nil
    BY <2>1, CachedFacts
  <2>3. Shown(ph) \in [plate : Plates, conn : Conns, status : Status, fresh : BOOLEAN]
    BY <2>2 DEF Shown, Object
  <2> QED
    BY <2>2, <2>3, NoDeviceAssumption DEF Shown
<1>3. \A ph \in Phones : regBar[ph] = IF ph \in Here THEN Shown(ph) ELSE NoDevice
  BY <1>1
<1>4. Promise!Registered = Here
  BY <1>2, <1>3 DEF Promise!Registered, Promise!Phones, Phones, Here
<1>5. jobsBar = Here
  <2>1. \A ph \in jobsBar : ph \in Phones
    <3>1. \A c \in Conns : pc[c] \in {"jobLookup", "jobAdd"} => msg[c].from.phone \in Phones
      BY MsgFacts DEF MsgSteps
    <3> QED
      BY <3>1 DEF jobsBar, SInv, IInv, TypeOK
  <2>2. ASSUME NEW ph \in Phones
        PROVE  ph \in jobsBar <=> byPhone[ph] # Nil /\ ~BeingDeleted(ph)
    <3> DEFINE adding == \E c \in Conns : pc[c] \in {"jobLookup", "jobAdd"} /\ msg[c].from.phone = ph
               leaving == \E c \in Conns : pc[c] = "delete" /\ heap[dev[c]].phone = ph
    <3>1. ph \in jobsBar <=> (ph \in jobs /\ kpc[ph] \notin {"delete", "cancel"}) \/ adding
      BY DEF jobsBar
    <3>2. ph \in jobs <=> kpc[ph] = "cancel" \/ (byPhone[ph] # Nil /\ ~adding /\ ~leaving)
      BY DEF SInv, JobsInv, Jobless
    <3>3. BeingDeleted(ph) <=> kpc[ph] = "delete" \/ leaving
      BY DEF BeingDeleted
    <3>4. adding => byPhone[ph] # Nil /\ ~leaving /\ kpc[ph] = "idle"
      <4> SUFFICES ASSUME NEW c \in Conns, pc[c] \in {"jobLookup", "jobAdd"}, msg[c].from.phone = ph
                   PROVE  byPhone[ph] # Nil /\ ~leaving /\ kpc[ph] = "idle"
        OBVIOUS
      <4>1. \A x \in Conns : x # c => pc[x] \in {"off", "idle"}
        BY HandlerFacts
      <4>2. byPhone[ph] # Nil
        BY DEF SInv, HandlerOK
      <4>3. kpc[ph] = "idle"
        BY HandlerFacts
      <4> QED
        BY <4>1, <4>2, <4>3
    <3>5. kpc[ph] = "cancel" => byPhone[ph] = Nil
      BY DEF SInv, CheckOK
    <3> HIDE DEF adding, leaving
    <3> QED
      BY <3>1, <3>2, <3>3, <3>4, <3>5
  <2> QED
    BY <2>1, <2>2 DEF Here
<1>6. \A ph \in Here : regBar[ph] = Shown(ph)
  BY <1>3 DEF Here
<1>7. OpenOK
  BY DEF OpenOK, openBar, SInv, IInv, TypeOK
<1> QED
  BY <1>1, <1>2, <1>4, <1>5, <1>6, <1>7 DEF BarOK

\* A step after which the same devices show the same is none of Registry's.
LEMMA SameBar ==
    ASSUME BarOK, BarOK', Here' = Here, \A ph \in Here : Shown(ph)' = Shown(ph)
    PROVE  regBar' = regBar /\ jobsBar' = jobsBar
<1>1. regBar' = [ph \in Phones |-> IF ph \in Here THEN Shown(ph) ELSE NoDevice]
  BY DEF BarOK
<1> QED
  BY <1>1 DEF BarOK

\* A step that puts one device, new or changed, into what is shown
LEMMA UpdateBar ==
    ASSUME BarOK, BarOK', NEW p \in Phones, NEW v, Here' = Here \cup {p}, Shown(p)' = v,
           \A ph \in Here : ph # p => Shown(ph)' = Shown(ph)
    PROVE  /\ regBar' = [regBar EXCEPT ![p] = v]
           /\ jobsBar' = jobsBar \cup {p}
<1>1. regBar' = [ph \in Phones |-> IF ph \in Here' THEN Shown(ph)' ELSE NoDevice]
  BY DEF BarOK
<1>2. regBar = [ph \in Phones |-> IF ph \in Here THEN Shown(ph) ELSE NoDevice]
  BY DEF BarOK
<1>3. \A ph \in Phones : regBar'[ph] = IF ph = p THEN v ELSE regBar[ph]
  BY <1>1, <1>2
<1> QED
  BY <1>1, <1>2, <1>3 DEF BarOK

\* A step that takes one out
LEMMA RemoveBar ==
    ASSUME BarOK, BarOK', NEW p \in Phones, Here' = Here \ {p},
           \A ph \in Here : ph # p => Shown(ph)' = Shown(ph)
    PROVE  Promise!Remove(p)
<1>1. regBar' = [ph \in Phones |-> IF ph \in Here' THEN Shown(ph)' ELSE NoDevice]
  BY DEF BarOK
<1>2. regBar = [ph \in Phones |-> IF ph \in Here THEN Shown(ph) ELSE NoDevice]
  BY DEF BarOK
<1>3. \A ph \in Phones : regBar'[ph] = IF ph = p THEN NoDevice ELSE regBar[ph]
  BY <1>1, <1>2
<1>4. regBar' = [regBar EXCEPT ![p] = NoDevice]
  BY <1>1, <1>2, <1>3
<1> QED
  BY <1>4 DEF BarOK, Promise!Remove

\* What a changed field makes of the record that is shown
LEMMA StatusLemma ==
    ASSUME NEW a, NEW b, NEW s, NEW f, NEW r, r = [plate |-> a, conn |-> b, status |-> s, fresh |-> f],
           NEW st
    PROVE  [r EXCEPT !.status = st] = [plate |-> a, conn |-> b, status |-> st, fresh |-> f]
BY SMT

\* The messages of Registry
LEMMA MessageBar ==
    ASSUME NEW c \in Conns, NEW t \in Terminals,
           \/ Promise!Register(c, t)  \/ Promise!Authenticate(c, t) \/ Promise!Heartbeat(c, t)
           \/ Promise!ReportAsleep(c, t) \/ Promise!Logout(c, t) \/ Promise!Reject(c, t)
    PROVE  Promise!Next
BY DEF Promise!Next, Promise!Message

\* Between two handlers: a connection is accepted or hung up.
LEMMA SimArrive ==
    ASSUME SInv, SInv', BarOK, BarOK', Quiet, NEW c \in Conns, Arrive(c) \/ ReadClosed(c)
    PROVE  [Promise!Next]_Promise!vars
<1>0. OpenOK /\ OpenOK'
  BY DEF BarOK
<1>1. /\ UNCHANGED <<cache, timer>>
      /\ \A d \in Conns : d # c => pc'[d] = pc[d]
      /\ pc'[c] \in {"idle", "remove", "hasPlate", "lookup"}
  BY DEF Arrive, Accept, Hangup, ReadClosed, Receive, Return, Leave, Goto, SInv, IInv, TypeOK
<1>2. /\ \A d \in Conns : pc[d] \in {"off", "idle"}
      /\ \A ph \in Phones : kpc[ph] = "idle" /\ ~BeingDeleted(ph)
  BY QuietFacts
<1>3. \A ph \in Phones : ~BeingDeleted(ph)'
  BY <1>1, <1>2 DEF BeingDeleted, timer
<1>4. Here' = Here /\ \A ph \in Here : Shown(ph)' = Shown(ph)
  BY <1>1, <1>2, <1>3 DEF Here, Shown, cache
<1>5. regBar' = regBar /\ jobsBar' = jobsBar
  BY <1>4, SameBar
<1>6. CASE Accept(c)
  <2>1. pc[c] = "off" /\ c \notin openBar /\ openBar' = openBar \cup {c}
    <3>1. pc[c] = "off" /\ c \notin open /\ open' = open \cup {c} /\ pc'[c] = "idle"
      BY <1>6 DEF Accept, SInv, IInv, TypeOK, HandlerOK
    <3> QED
      BY <1>0, <1>1, <3>1 DEF OpenOK
  <2>2. \A ph \in Here : regBar[ph].conn # c
    <3> SUFFICES ASSUME NEW ph \in Here PROVE regBar[ph].conn # c
      OBVIOUS
    <3>1. ph \in Phones /\ byPhone[ph] \in Objs
      BY DEF Here, SInv, IInv, TypeOK
    <3>2. heap[byPhone[ph]].conn # c
      BY <1>6, <3>1 DEF Accept, Reachable
    <3>3. regBar[ph].conn = heap[byPhone[ph]].conn
      <4>1. regBar[ph] = Shown(ph)
        BY DEF BarOK
      <4> QED
        BY <4>1 DEF Shown
    <3> QED
      BY <3>2, <3>3
  <2>3. c \notin openBar \cup Promise!ConnsInUse
    BY <2>1, <2>2 DEF BarOK, Promise!ConnsInUse
  <2>4. Promise!Accept(c)
    BY <1>5, <2>1, <2>3 DEF Promise!Accept
  <2> QED
    BY <2>4 DEF Promise!Next
<1>7. CASE Hangup(c)
  <2>1. pc[c] = "idle" /\ pc'[c] = "remove" /\ c \in open /\ open' = open
    BY <1>7 DEF Hangup, Return, Leave, Goto, SInv, IInv, TypeOK
  <2>2. c \in openBar /\ openBar' = openBar \ {c}
    BY <1>0, <1>1, <2>1 DEF OpenOK
  <2>3. Promise!Hangup(c)
    BY <1>5, <2>2 DEF Promise!Hangup
  <2> QED
    BY <2>3 DEF Promise!Next
<1>8. CASE ReadClosed(c) \/ \E m \in Messages : Receive(c, m)
  <2>1. open' = open /\ (c \in open => pc[c] # "remove" /\ pc'[c] # "remove")
    BY <1>1, <1>2, <1>8 DEF ReadClosed, Receive, SInv, IInv, TypeOK
  <2>2. openBar' = openBar
    BY <1>0, <1>1, <2>1 DEF OpenOK
  <2> QED
    BY <1>5, <2>2 DEF Promise!vars
<1> QED
  BY <1>6, <1>7, <1>8 DEF Arrive

\* Most steps of a handler show nothing; a terminal that is not registered loses
\* its connection when the lookup has failed.
LEMMA SimReading ==
    ASSUME SInv, SInv', BarOK, BarOK', NEW c \in Conns,
           \/ HasPlate(c)       \/ HasPhone(c)  \/ Lookup(c)
           \/ RefuseWithCode(c) \/ PanicOnCode(c) \/ JobLookup(c) \/ JobAdd(c) \/ RemoveSession(c)
    PROVE  [Promise!Next]_Promise!vars
<1>0. OpenOK /\ OpenOK'
  BY DEF BarOK
<1>1. /\ UNCHANGED <<cache, kpc>>
      /\ pc[c] \notin {"off", "idle", "delete"} /\ pc'[c] # "delete"
      /\ \A d \in Conns : d # c => pc'[d] = pc[d]
  BY DEF HasPlate, HasPhone, Lookup, RefuseWithCode, PanicOnCode, JobLookup, JobAdd, RemoveSession,
         Goto, Found, Finish, Return, Leave, At, timer, SInv, IInv, TypeOK
<1>2. /\ \A d \in Conns : d # c => pc[d] \in {"off", "idle"}
      /\ \A ph \in Phones : kpc[ph] = "idle"
  BY <1>1, HandlerFacts
<1>3. \A ph \in Phones : ~BeingDeleted(ph) /\ ~BeingDeleted(ph)'
  BY <1>1, <1>2 DEF BeingDeleted
<1>4. Here' = Here /\ \A ph \in Here : Shown(ph)' = Shown(ph)
  BY <1>1, <1>3 DEF Here, Shown, cache
<1>5. regBar' = regBar /\ jobsBar' = jobsBar
  BY <1>4, SameBar
<1>6. CASE pc[c] # "remove" /\ pc'[c] # "remove" /\ open' = open
  <2>1. openBar' = openBar
    BY <1>0, <1>1, <1>6 DEF OpenOK
  <2> QED
    BY <1>5, <2>1 DEF Promise!vars
<1>7. CASE RemoveSession(c)
  <2>1. pc[c] = "remove" /\ pc'[c] = "off" /\ open' = open \ {c}
    BY <1>7 DEF RemoveSession, SInv, IInv, TypeOK
  <2>2. openBar' = openBar
    BY <1>0, <1>1, <2>1 DEF OpenOK
  <2> QED
    BY <1>5, <2>2 DEF Promise!vars
<1>8. CASE Lookup(c) /\ byPhone[Claimed(c).phone] = Nil
  <2> DEFINE t == msg[c].from
  <2>1. pc[c] = "lookup" /\ c \in open /\ pc'[c] = "remove" /\ open' = open
    BY <1>8 DEF Lookup, At, Return, Leave, Goto, SInv, IInv, TypeOK, HandlerOK
  <2>2. c \in openBar /\ openBar' = openBar \ {c}
    BY <1>0, <1>1, <2>1 DEF OpenOK
  <2>3. t \in Terminals /\ t.phone \notin Here
    BY <1>8, <2>1, MsgFacts DEF MsgSteps, Claimed, Here
  <2>4. Promise!Reject(c, t)
    BY <1>5, <2>2, <2>3 DEF Promise!Reject, BarOK
  <2> QED
    BY <2>3, <2>4, MessageBar
<1>9. CASE HasPlate(c) \/ HasPhone(c) \/ RefuseWithCode(c) \/ JobLookup(c) \/ JobAdd(c)
  BY <1>6, <1>9 DEF HasPlate, HasPhone, RefuseWithCode, JobLookup, JobAdd,
                    Goto, Finish, Leave, At, SInv, IInv, TypeOK
<1>10. CASE Lookup(c) /\ byPhone[Claimed(c).phone] # Nil
  BY <1>6, <1>10 DEF Lookup, At, Found, Finish, Leave, Goto, SInv, IInv, TypeOK
<1>11. ~PanicOnCode(c)
  BY DEF PanicOnCode, At, Claimed, SInv, HandlerOK
<1> QED
  BY <1>7, <1>8, <1>9, <1>10, <1>11

LEMMA SimInsert ==
    ASSUME SInv, SInv', BarOK, BarOK', NEW c \in Conns, InsertNew(c)
    PROVE  Promise!Next
<1>0. OpenOK /\ OpenOK'
  BY DEF BarOK
<1>1. PICK t \in Terminals : t = msg[c].from
  BY InsertEffect
<1> DEFINE p == t.phone
           v == [plate |-> t.plate, conn |-> c, status |-> "offline", fresh |-> TRUE]
<1>2. /\ pc[c] = "insert" /\ UNCHANGED <<timer, open>> /\ c \in open
      /\ byPhone[p] = Nil /\ byPlate[t.plate] = Nil
      /\ p \in Phones /\ t.plate \in Plates
  BY <1>1, InsertEffect
<1>3. PICK o \in Objs :
         /\ o # Nil
         /\ \A ph \in Phones : byPhone[ph] # o
         /\ \A ph \in Phones : byPhone'[ph] = IF ph = p THEN o ELSE byPhone[ph]
         /\ \A x \in Objs : heap'[x] = IF x = o
                                       THEN [phone |-> p, plate |-> t.plate, conn |-> c,
                                             status |-> "offline", fresh |-> TRUE]
                                       ELSE heap[x]
  BY <1>1, InsertEffect
<1>4. /\ \A x \in Conns : pc'[x] = IF x = c THEN "jobLookup" ELSE pc[x]
      /\ \A x \in Conns : x # c => pc[x] \in {"off", "idle"}
      /\ \A ph \in Phones : kpc[ph] = "idle" /\ kpc'[ph] = "idle"
  BY <1>2, HandlerFacts DEF InsertNew, Goto, timer, SInv, IInv, TypeOK
<1>5. \A ph \in Phones : ~BeingDeleted(ph) /\ ~BeingDeleted(ph)'
  BY <1>2, <1>4 DEF BeingDeleted
<1>6. Here' = Here \cup {p} /\ p \notin Here
  BY <1>2, <1>3, <1>5 DEF Here
<1>7. Shown(p)' = v
  <2>1. byPhone'[p] = o /\ heap'[o] = [phone |-> p, plate |-> t.plate, conn |-> c,
                                       status |-> "offline", fresh |-> TRUE]
    BY <1>2, <1>3
  <2> QED
    BY <2>1 DEF Shown
<1>8. \A ph \in Here : ph # p => Shown(ph)' = Shown(ph)
  BY <1>3 DEF Shown, Here, SInv, IInv, TypeOK
<1> HIDE DEF v
<1>9. regBar' = [regBar EXCEPT ![p] = v] /\ jobsBar' = jobsBar \cup {p}
  BY <1>2, <1>6, <1>7, <1>8, UpdateBar
<1>10. c \in openBar /\ openBar' = openBar
  BY <1>0, <1>2, <1>4 DEF OpenOK
<1>11. t.plate \notin Promise!PlatesInUse /\ p \notin Promise!Registered
  BY <1>2, <1>6 DEF BarOK, Promise!PlatesInUse
<1>12. Promise!Register(c, t)
  BY <1>9, <1>10, <1>11 DEF Promise!Register, v
<1> QED
  BY <1>12, MessageBar

LEMMA SimSave ==
    ASSUME SInv, SInv', BarOK, BarOK', NEW c \in Conns, Renew(c) \/ SetOnline(c) \/ SetAsleep(c)
    PROVE  Promise!Next
<1>0. OpenOK /\ OpenOK'
  BY DEF BarOK
<1>1. PICK o \in Objs, p \in Phones : o = dev[c] /\ p = heap[o].phone
  BY SaveEffect
<1>2. /\ pc[c] \in DevSteps \ {"cancel", "delete"} /\ c \in open
      /\ byPhone[p] = o /\ o # Nil
      /\ byPhone' = byPhone
      /\ \A x \in Objs : x # o => heap'[x] = heap[x]
      /\ Finish(c) /\ UNCHANGED <<timer, open>>
  BY <1>1, SaveEffect
<1>3. /\ heap[o] \in Object
      /\ heap'[o] \in Object /\ heap'[o].phone = p /\ heap'[o].plate = heap[o].plate
      /\ heap'[o].conn = heap[o].conn /\ heap'[o].fresh = TRUE
      /\ Renew(c) => heap'[o].status = heap[o].status
      /\ SetOnline(c) => heap'[o].status = "online"
      /\ SetAsleep(c) => heap'[o].status = "sleeping"
  BY <1>1, SaveEffect
<1>4. /\ \A x \in Conns : pc'[x] = IF x = c THEN "idle" ELSE pc[x]
      /\ \A x \in Conns : x # c => pc[x] \in {"off", "idle"}
      /\ \A ph \in Phones : kpc[ph] = "idle" /\ kpc'[ph] = "idle"
  BY <1>2, HandlerFacts DEF Finish, Leave, Goto, timer, DevSteps, SInv, IInv, TypeOK
<1>5. \A ph \in Phones : ~BeingDeleted(ph) /\ ~BeingDeleted(ph)'
  BY <1>2, <1>4 DEF BeingDeleted, DevSteps
<1>6. Here' = Here \cup {p} /\ p \in Here
  BY <1>2, <1>5 DEF Here
<1> DEFINE v == [plate |-> heap[o].plate, conn |-> heap[o].conn,
                 status |-> heap'[o].status, fresh |-> TRUE]
<1>7. Shown(p)' = v
  <2>1. byPhone'[p] = o
    BY <1>2
  <2> QED
    BY <1>3, <2>1 DEF Shown
<1> DEFINE w == [plate |-> heap[o].plate, conn |-> heap[o].conn,
                 status |-> heap[o].status, fresh |-> heap[o].fresh]
<1>8. regBar[p] = w
  <2>1. regBar[p] = Shown(p)
    BY <1>6 DEF BarOK
  <2> QED
    BY <1>2, <2>1 DEF Shown
<1>9. \A ph \in Here : ph # p => Shown(ph)' = Shown(ph)
  <2> SUFFICES ASSUME NEW ph \in Here, ph # p PROVE Shown(ph)' = Shown(ph)
    OBVIOUS
  <2>1. ph \in Phones /\ byPhone[ph] # Nil
    BY DEF Here
  <2>2. byPhone[ph] \in Objs /\ heap[byPhone[ph]].phone = ph
    BY <2>1, CachedFacts
  <2> QED
    BY <1>1, <1>2, <2>2 DEF Shown
<1>10. /\ Renew(c) => v = [w EXCEPT !.fresh = TRUE]
       /\ SetOnline(c) => v = [[w EXCEPT !.status = "online"] EXCEPT !.fresh = TRUE]
       /\ SetAsleep(c) => v = [[w EXCEPT !.status = "sleeping"] EXCEPT !.fresh = TRUE]
       /\ w.plate = heap[o].plate
  <2> DEFINE x(st) == [plate |-> heap[o].plate, conn |-> heap[o].conn,
                       status |-> st, fresh |-> heap[o].fresh]
             y(st) == [plate |-> heap[o].plate, conn |-> heap[o].conn,
                       status |-> st, fresh |-> TRUE]
  <2>1. \A st : [w EXCEPT !.status = st] = x(st)
    BY StatusLemma
  <2>2. \A st : [x(st) EXCEPT !.fresh = TRUE] = y(st)
    <3>1. \A st, g : [x(st) EXCEPT !.fresh = g]
                        = [plate |-> heap[o].plate, conn |-> heap[o].conn, status |-> st, fresh |-> g]
      BY SMT
    <3> QED
      BY <3>1, Zenon
  <2>3. w = x(heap[o].status) /\ v = y(heap'[o].status) /\ w.plate = heap[o].plate
    OBVIOUS
  <2> HIDE DEF x, y, v, w
  <2> QED
    BY <1>3, <2>1, <2>2, <2>3
<1> HIDE DEF v, w
<1>11. regBar' = [regBar EXCEPT ![p] = v] /\ jobsBar' = jobsBar
  <2>1. regBar' = [regBar EXCEPT ![p] = v] /\ jobsBar' = jobsBar \cup {p}
    BY <1>6, <1>7, <1>9, UpdateBar
  <2>2. jobsBar = Here
    BY DEF BarOK
  <2> QED
    BY <1>6, <2>1, <2>2
<1>12. c \in openBar /\ openBar' = openBar
  BY <1>0, <1>2, <1>4 DEF OpenOK, DevSteps
<1>13. PICK t \in Terminals : t.phone = p /\ t.plate = heap[o].plate
  BY <1>2, CachedFacts
<1>14. p \in Promise!Registered /\ DOMAIN regBar = Phones
  BY <1>6 DEF BarOK
<1>15. CASE Renew(c)
  <2>1. v = [regBar[p] EXCEPT !.fresh = TRUE]
    BY <1>8, <1>10, <1>15
  <2>2. Promise!Heartbeat(c, t)
    BY <1>11, <1>12, <1>13, <1>14, <2>1 DEF Promise!Heartbeat
  <2> QED
    BY <2>2, MessageBar
<1>16. CASE SetOnline(c)
  <2>1. v = [[regBar[p] EXCEPT !.status = "online"] EXCEPT !.fresh = TRUE]
    BY <1>8, <1>10, <1>16
  <2>2. t.plate = regBar[p].plate
    BY <1>8, <1>10, <1>13
  <2>3. regBar' = [regBar EXCEPT ![p].status = "online", ![p].fresh = TRUE]
    BY <1>11, <1>14, <2>1
  <2>4. Promise!Authenticate(c, t)
    BY <1>11, <1>12, <1>13, <1>14, <2>2, <2>3 DEF Promise!Authenticate
  <2> QED
    BY <2>4, MessageBar
<1>17. CASE SetAsleep(c)
  <2>1. v = [[regBar[p] EXCEPT !.status = "sleeping"] EXCEPT !.fresh = TRUE]
    BY <1>8, <1>10, <1>17
  <2>2. regBar' = [regBar EXCEPT ![p].status = "sleeping", ![p].fresh = TRUE]
    BY <1>11, <1>14, <2>1
  <2>3. Promise!ReportAsleep(c, t)
    BY <1>11, <1>12, <1>13, <1>14, <2>2 DEF Promise!ReportAsleep
  <2> QED
    BY <2>3, MessageBar
<1> QED
  BY <1>15, <1>16, <1>17

\* A refusal or a logout takes the device out with the cancellation of its job.
LEMMA SimCancel ==
    ASSUME SInv, SInv', BarOK, BarOK', NEW c \in Conns, CancelJob(c)
    PROVE  Promise!Next
<1>0. OpenOK /\ OpenOK'
  BY DEF BarOK
<1>1. /\ pc[c] = "cancel" /\ c \in open /\ UNCHANGED <<cache, open, dev, kpc>>
      /\ \A x \in Conns : pc'[x] = IF x = c THEN "delete" ELSE pc[x]
  BY DEF CancelJob, At, Goto, SInv, IInv, TypeOK, HandlerOK
<1>2. PICK p \in Phones : p = heap[dev[c]].phone
  BY <1>1, LocalFacts DEF DevSteps
<1>3. byPhone[p] # Nil
  BY <1>1, <1>2, LocalFacts DEF DevSteps
<1>4. /\ \A x \in Conns : x # c => pc[x] \in {"off", "idle"}
      /\ \A ph \in Phones : kpc[ph] = "idle" /\ kpc'[ph] = "idle"
  BY <1>1, HandlerFacts
<1>5. \A ph \in Phones : ~BeingDeleted(ph) /\ (BeingDeleted(ph)' <=> ph = p)
  BY <1>1, <1>2, <1>4 DEF BeingDeleted, cache
<1>6. Here' = Here \ {p} /\ p \in Here /\ \A ph \in Here : Shown(ph)' = Shown(ph)
  BY <1>1, <1>3, <1>5 DEF Here, Shown, cache
<1>7. Promise!Remove(p)
  BY <1>6, RemoveBar
<1>8. c \in openBar /\ openBar' = openBar
  BY <1>0, <1>1 DEF OpenOK
<1>9. PICK t \in Terminals : t.phone = p
  BY <1>3, CachedFacts
<1>10. Promise!Logout(c, t)
  BY <1>6, <1>7, <1>8, <1>9 DEF Promise!Logout, BarOK
<1> QED
  BY <1>10, MessageBar

\* The deletion itself shows nothing more.
LEMMA SimDelete ==
    ASSUME SInv, SInv', BarOK, BarOK', NEW c \in Conns, Delete(c)
    PROVE  [Promise!Next]_Promise!vars
<1>0. OpenOK /\ OpenOK'
  BY DEF BarOK
<1>1. /\ pc[c] = "delete" /\ UNCHANGED <<timer, open>>
      /\ \A x \in Conns : pc'[x] = IF x = c THEN "idle" ELSE pc[x]
  BY DEF Delete, At, Finish, Leave, Goto, SInv, IInv, TypeOK
<1>2. PICK p \in Phones : p = heap[dev[c]].phone
  BY <1>1, LocalFacts DEF DevSteps
<1>3. byPhone[p] # Nil
  BY <1>1, <1>2, LocalFacts DEF DevSteps
<1>4. /\ heap' = heap
      /\ \A x \in Phones : byPhone'[x] = IF x = p THEN Nil ELSE byPhone[x]
  BY <1>2, <1>3, DeleteEffect DEF Delete
<1>5. /\ \A x \in Conns : x # c => pc[x] \in {"off", "idle"}
      /\ \A ph \in Phones : kpc[ph] = "idle" /\ kpc'[ph] = "idle"
  BY <1>1, HandlerFacts DEF timer
<1>6. \A ph \in Phones : (BeingDeleted(ph) <=> ph = p) /\ ~BeingDeleted(ph)'
  BY <1>1, <1>2, <1>5 DEF BeingDeleted
<1>7. Here' = Here /\ \A ph \in Here : Shown(ph)' = Shown(ph)
  BY <1>4, <1>6 DEF Here, Shown
<1>8. openBar' = openBar
  BY <1>0, <1>1 DEF OpenOK
<1> QED
  BY <1>7, <1>8, SameBar DEF Promise!vars

\* A check that only looks, or cancels the job of a device that is gone
LEMMA SimCheckReading ==
    ASSUME SInv, SInv', BarOK, BarOK', NEW p \in Phones,
           \/ Quiet /\ Fire(p)
           \/ Get(p) \/ Decide(p) \/ ClearDevice(p) \/ CancelOwnJob(p)
    PROVE  UNCHANGED Promise!vars
<1>0. OpenOK /\ OpenOK'
  BY DEF BarOK
<1>1. /\ UNCHANGED <<server, open, heap>>
      /\ \A x \in Phones : x # p => kpc'[x] = kpc[x]
      /\ kpc'[p] \in {"get", "decide", "offline", "close", "cancel", "idle"}
      /\ kpc[p] = "delete" <=> ClearDevice(p)
  BY NeverMissing DEF Fire, Get, Decide, ClearDevice, CancelOwnJob, DelDeviceByPhone, KGoto, KFinish,
         SInv, IInv, TypeOK, CheckOK, cache
<1>2. /\ \A x \in Conns : pc[x] \in {"off", "idle"} /\ pc'[x] \in {"off", "idle"}
      /\ \A x \in Phones : x # p => kpc[x] = "idle"
  BY <1>1, QuietFacts, CheckFacts DEF Get, Decide, ClearDevice, CancelOwnJob, server
<1>3. \A ph \in Phones : (BeingDeleted(ph) <=> ph = p /\ ClearDevice(p)) /\ ~BeingDeleted(ph)'
  BY <1>1, <1>2 DEF BeingDeleted
<1>4. Here' = Here /\ \A ph \in Here : Shown(ph)' = Shown(ph)
  <2>1. CASE ClearDevice(p)
    <3>1. byPhone[p] # Nil
      BY <2>1 DEF ClearDevice, SInv, CheckOK
    <3>2. \A x \in Phones : byPhone'[x] = IF x = p THEN Nil ELSE byPhone[x]
      BY <2>1, <3>1, DeleteEffect DEF ClearDevice
    <3> QED
      BY <1>1, <1>3, <2>1, <3>2 DEF Here, Shown
  <2>2. CASE ~ClearDevice(p)
    <3>1. byPhone' = byPhone
      BY <2>2 DEF Fire, Get, Decide, CancelOwnJob, cache
    <3> QED
      BY <1>1, <1>3, <2>2, <3>1 DEF Here, Shown
  <2> QED
    BY <2>1, <2>2
<1>5. openBar' = openBar
  BY <1>0, <1>1, <1>2 DEF OpenOK
<1> QED
  BY <1>4, <1>5, SameBar DEF Promise!vars

\* A check turns the device offline.
LEMMA SimOffline ==
    ASSUME SInv, SInv', BarOK, BarOK', NEW p \in Phones, TurnOffline(p)
    PROVE  Promise!Next
<1>0. OpenOK /\ OpenOK'
  BY DEF BarOK
<1>1. PICK o \in Objs : o = byPhone[p]
  BY OfflineEffect
<1>2. /\ kpc[p] = "offline" /\ ShouldTurnOffline(heap[o])
      /\ o # Nil /\ heap[o] \in Object /\ byPhone' = byPhone
      /\ \A x \in Objs : x # o => heap'[x] = heap[x]
      /\ heap'[o] = [heap[o] EXCEPT !.status = "offline"]
      /\ KFinish(p) /\ UNCHANGED <<server, open>>
  BY <1>1, OfflineEffect
<1>3. /\ \A x \in Phones : kpc'[x] = IF x = p THEN "idle" ELSE kpc[x]
      /\ \A x \in Phones : x # p => kpc[x] = "idle"
      /\ \A x \in Conns : pc[x] \in {"off", "idle"} /\ pc'[x] = pc[x]
  BY <1>2, CheckFacts DEF KFinish, server, SInv, IInv, TypeOK
<1>4. \A ph \in Phones : ~BeingDeleted(ph) /\ ~BeingDeleted(ph)'
  BY <1>2, <1>3 DEF BeingDeleted
<1>5. Here' = Here \cup {p} /\ p \in Here
  BY <1>1, <1>2, <1>4 DEF Here
<1> DEFINE x(st) == [plate |-> heap[o].plate, conn |-> heap[o].conn,
                     status |-> st, fresh |-> heap[o].fresh]
<1>6. Shown(p)' = x("offline")
  <2>1. /\ heap'[o].plate = heap[o].plate /\ heap'[o].conn = heap[o].conn
        /\ heap'[o].status = "offline" /\ heap'[o].fresh = heap[o].fresh
    BY <1>2 DEF Object
  <2>2. byPhone'[p] = o
    BY <1>1, <1>2
  <2> QED
    BY <2>1, <2>2 DEF Shown
<1>7. regBar[p] = x(heap[o].status)
  <2>1. regBar[p] = Shown(p)
    BY <1>5 DEF BarOK
  <2> QED
    BY <1>1, <2>1 DEF Shown
<1>8. \A ph \in Here : ph # p => Shown(ph)' = Shown(ph)
  <2> SUFFICES ASSUME NEW ph \in Here, ph # p PROVE Shown(ph)' = Shown(ph)
    OBVIOUS
  <2>1. ph \in Phones /\ byPhone[ph] # Nil
    BY DEF Here
  <2>2. byPhone[ph] \in Objs /\ byPhone[ph] # o
    BY <1>1, <1>2, <2>1, CachedFacts
  <2> QED
    BY <1>2, <2>2 DEF Shown
<1>9. x("offline") = [regBar[p] EXCEPT !.status = "offline"]
  BY <1>7, StatusLemma
<1>10. regBar[p].status # "offline" /\ ~regBar[p].fresh
  BY <1>2, <1>7 DEF ShouldTurnOffline
<1> HIDE DEF x
<1>11. regBar' = [regBar EXCEPT ![p] = x("offline")] /\ jobsBar' = jobsBar /\ p \in jobsBar
  <2>1. regBar' = [regBar EXCEPT ![p] = x("offline")] /\ jobsBar' = jobsBar \cup {p}
    BY <1>5, <1>6, <1>8, UpdateBar
  <2>2. jobsBar = Here
    BY DEF BarOK
  <2> QED
    BY <1>5, <2>1, <2>2
<1>12. openBar' = openBar
  BY <1>0, <1>2, <1>3 DEF OpenOK
<1>13. p \in Promise!Registered /\ DOMAIN regBar = Phones
  BY <1>5 DEF BarOK
<1>14. Promise!TurnOffline(p)
  BY <1>9, <1>10, <1>11, <1>12, <1>13 DEF Promise!TurnOffline
<1> QED
  BY <1>14 DEF Promise!Next, Phones, Promise!Phones

\* A check clears the device: what follows its closing of the connection is hidden.
LEMMA SimClose ==
    ASSUME SInv, SInv', BarOK, BarOK', NEW p \in Phones, CloseConn(p)
    PROVE  Promise!Next
<1>0. OpenOK /\ OpenOK'
  BY DEF BarOK
<1>1. PICK o \in Objs : o = byPhone[p] /\ o = kdev[p]
  BY DEF CloseConn, SInv, CheckOK, IInv, TypeOK
<1>2. /\ kpc[p] = "close" /\ ShouldClear(heap[o]) /\ o # Nil
      /\ UNCHANGED <<cache, server>> /\ open' = open \ {heap[o].conn}
  BY <1>1 DEF CloseConn, SInv, CheckOK
<1>3. heap[o].conn \in Conns
  BY <1>1, <1>2, CachedFacts DEF Object
<1>4. /\ \A x \in Phones : kpc'[x] = IF x = p THEN "delete" ELSE kpc[x]
      /\ \A x \in Phones : x # p => kpc[x] = "idle"
      /\ \A x \in Conns : pc[x] \in {"off", "idle"} /\ pc'[x] = pc[x]
  BY <1>2, CheckFacts DEF CloseConn, KGoto, server, SInv, IInv, TypeOK
<1>5. \A ph \in Phones : ~BeingDeleted(ph) /\ (BeingDeleted(ph)' <=> ph = p)
  BY <1>2, <1>4 DEF BeingDeleted
<1>6. Here' = Here \ {p} /\ p \in Here /\ \A ph \in Here : Shown(ph)' = Shown(ph)
  BY <1>1, <1>2, <1>5 DEF Here, Shown, cache
<1>7. Promise!Remove(p)
  BY <1>6, RemoveBar
<1>8. regBar[p] = [plate |-> heap[o].plate, conn |-> heap[o].conn,
                   status |-> heap[o].status, fresh |-> heap[o].fresh]
  <2>1. regBar[p] = Shown(p)
    BY <1>6 DEF BarOK
  <2> QED
    BY <1>1, <2>1 DEF Shown
<1>9. regBar[p].conn = heap[o].conn /\ regBar[p].status = "offline" /\ ~regBar[p].fresh
  BY <1>2, <1>8 DEF ShouldClear
<1>10. openBar' = openBar \ {regBar[p].conn}
  BY <1>0, <1>2, <1>3, <1>4, <1>9 DEF OpenOK
<1>11. p \in Promise!Registered /\ p \in jobsBar
  BY <1>6 DEF BarOK
<1>12. Promise!Clear(p)
  BY <1>7, <1>9, <1>10, <1>11 DEF Promise!Clear
<1> QED
  BY <1>12 DEF Promise!Next, Phones, Promise!Phones

\* Between two handlers: a device's last message gets old.
LEMMA SimExpire ==
    ASSUME SInv, SInv', BarOK, BarOK', Quiet, NEW o \in Objs, Expire(o)
    PROVE  Promise!Next
<1>0. OpenOK /\ OpenOK'
  BY DEF BarOK
<1>1. PICK p \in Phones : p = heap[o].phone
  BY ExpireEffect
<1>2. /\ byPhone[p] = o /\ o # Nil /\ heap[o] \in Object /\ heap[o].fresh
      /\ UNCHANGED <<byPhone, server, timer, open>>
      /\ \A x \in Objs : x # o => heap'[x] = heap[x]
      /\ heap'[o] = [heap[o] EXCEPT !.fresh = FALSE]
  BY <1>1, ExpireEffect
<1>3. /\ \A ph \in Phones : kpc[ph] = "idle" /\ kpc'[ph] = "idle"
      /\ \A x \in Conns : pc[x] \in {"off", "idle"} /\ pc'[x] = pc[x]
  BY <1>2, QuietFacts DEF server, timer
<1>4. \A ph \in Phones : ~BeingDeleted(ph) /\ ~BeingDeleted(ph)'
  BY <1>3 DEF BeingDeleted
<1>5. Here' = Here \cup {p} /\ p \in Here
  BY <1>2, <1>4 DEF Here
<1> DEFINE r == [plate |-> heap[o].plate, conn |-> heap[o].conn,
                 status |-> heap[o].status, fresh |-> heap[o].fresh]
           v == [plate |-> heap[o].plate, conn |-> heap[o].conn,
                 status |-> heap[o].status, fresh |-> FALSE]
<1>6. Shown(p)' = v
  <2>1. /\ heap'[o].plate = heap[o].plate /\ heap'[o].conn = heap[o].conn
        /\ heap'[o].status = heap[o].status /\ heap'[o].fresh = FALSE
    BY <1>2 DEF Object
  <2>2. byPhone'[p] = o
    BY <1>2
  <2> QED
    BY <2>1, <2>2 DEF Shown
<1>7. regBar[p] = r
  <2>1. regBar[p] = Shown(p)
    BY <1>5 DEF BarOK
  <2> QED
    BY <1>2, <2>1 DEF Shown
<1>8. \A ph \in Here : ph # p => Shown(ph)' = Shown(ph)
  <2> SUFFICES ASSUME NEW ph \in Here, ph # p PROVE Shown(ph)' = Shown(ph)
    OBVIOUS
  <2>1. ph \in Phones /\ byPhone[ph] # Nil
    BY DEF Here
  <2>2. byPhone[ph] \in Objs /\ byPhone[ph] # o
    BY <1>1, <2>1, CachedFacts
  <2> QED
    BY <1>2, <2>2 DEF Shown
<1>9. [r EXCEPT !.fresh = FALSE] = v
  <2>1. \A g : [r EXCEPT !.fresh = g] = [plate |-> heap[o].plate, conn |-> heap[o].conn,
                                         status |-> heap[o].status, fresh |-> g]
    BY SMT
  <2> QED
    BY <2>1, Zenon
<1>10. regBar[p].fresh
  BY <1>2, <1>7
<1> HIDE DEF r, v
<1>11. regBar' = [regBar EXCEPT ![p] = v] /\ jobsBar' = jobsBar
  <2>1. regBar' = [regBar EXCEPT ![p] = v] /\ jobsBar' = jobsBar \cup {p}
    BY <1>5, <1>6, <1>8, UpdateBar
  <2>2. jobsBar = Here
    BY DEF BarOK
  <2> QED
    BY <1>5, <2>1, <2>2
<1>12. openBar' = openBar
  BY <1>0, <1>2, <1>3 DEF OpenOK
<1>13. p \in Promise!Registered /\ DOMAIN regBar = Phones
  BY <1>5 DEF BarOK
<1>14. Promise!Expire(p)
  BY <1>7, <1>9, <1>10, <1>11, <1>12, <1>13 DEF Promise!Expire
<1> QED
  BY <1>14 DEF Promise!Next, Phones, Promise!Phones

LEMMA SimInit == Init => Promise!Init
<1> SUFFICES ASSUME Init PROVE Promise!Init
  OBVIOUS
<1>1. \A ph \in Phones : byPhone[ph] = Nil /\ kpc[ph] = "idle"
  BY DEF Init
<1>2. \A c \in Conns : pc[c] = "off"
  BY DEF Init
<1>3. regBar = [ph \in Phones |-> NoDevice]
  BY <1>1 DEF regBar
<1>4. jobsBar = {} /\ openBar = {}
  BY <1>1, <1>2 DEF jobsBar, openBar, Init
<1> QED
  BY <1>3, <1>4 DEF Promise!Init, Phones, Promise!Phones

LEMMA SimNext ==
    ASSUME SInv, SInv', BarOK, BarOK', [SerialNext]_vars
    PROVE  [Promise!Next]_Promise!vars
<1>1. CASE UNCHANGED vars
  BY <1>1 DEF vars, Promise!vars, regBar, jobsBar, openBar, BeingDeleted
<1>2. CASE SerialNext
  <2>1. ASSUME NEW c \in Conns,
               (Quiet /\ (Arrive(c) \/ ReadClosed(c))) \/ Handle(c) \/ RemoveSession(c)
        PROVE  [Promise!Next]_Promise!vars
    BY <2>1, SimArrive, SimReading, SimInsert, SimSave, SimCancel, SimDelete DEF Handle
  <2>2. ASSUME NEW ph \in Phones, (Quiet /\ Fire(ph)) \/ Check(ph)
        PROVE  [Promise!Next]_Promise!vars
    BY <2>2, NeverMissing, SimCheckReading, SimOffline, SimClose DEF Check
  <2>3. ASSUME NEW o \in Objs, Quiet, Expire(o)
        PROVE  [Promise!Next]_Promise!vars
    BY <2>3, SimExpire
  <2> QED
    BY <1>2, <2>1, <2>2, <2>3, SerialSteps
<1> QED
  BY <1>1, <1>2

\* One at a time, the handlers and checks do what Registry says, for any number of
\* connections and terminals: what a client or an operator can see of the server is
\* a history in which every message and every check takes effect at once.
THEOREM SerialImplementsRegistry == SerialSpec => ImplementsRegistry
<1>1. Init => Promise!Init
  BY SimInit
<1>2. SInv /\ SInv' /\ [SerialNext]_vars => [Promise!Next]_Promise!vars
  <2>1. SInv => BarOK
    BY BarLemma
  <2>2. SInv' => BarOK'
    BY <2>1, PTL
  <2> QED
    BY <2>1, <2>2, SimNext
<1> QED
  BY <1>1, <1>2, SerialInvariance, PTL DEF SerialSpec, ImplementsRegistry, Promise!Spec
=============================================================================
