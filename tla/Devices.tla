------------------------------- MODULE Devices -------------------------------
(***************************************************************************)
(* The device cache, the keepalive jobs and the connections of the server  *)
(* as its goroutines see them: one serve goroutine per connection and the  *)
(* runs of the keepalive job, interleaved at every lock of the cache.      *)
(* Devices are heap objects that the two indexes of the cache and the      *)
(* local variables of the goroutines point to, so a handler may go on with *)
(* a device that another goroutine has taken out of the cache meanwhile.   *)
(*                                                                         *)
(* A handler runs in these steps (pc of its connection):                   *)
(*   0100   hasPlate -> hasPhone -> insert -> jobLookup -> jobAdd          *)
(*          hasPlate -> plateCode | hasPhone -> phoneCode                  *)
(*   other  lookup -> renew | setOnline | setAsleep | cancel -> delete     *)
(* and the check of a device in these (kpc of its phone):                  *)
(*   get -> decide -> offline | close -> delete -> cancel                  *)
(*   get -> missing                                                        *)
(* A write to a device's fields is part of the step that caches it, and    *)
(* time is one bit per device as in Registry.                              *)
(***************************************************************************)
EXTENDS Naturals, FiniteSets

CONSTANTS
    Conns,      \* TCP connections
    Terminals,  \* terminals in the field: records [phone, plate]
    Objs,       \* heap cells for device objects
    Nil,        \* the nil pointer
    NoDevice,   \* Registry's name for an absent device
    Arriving    \* Arriving[c]: the messages that may arrive on c

Phones == {t.phone : t \in Terminals}
Plates == {t.plate : t \in Terminals}
Status == {"offline", "online", "sleeping"}
Kinds  == {"register",   \* 0100
           "auth",       \* 0102 with the code of the terminal's own registration
           "badAuth",    \* 0102 with any other code
           "heartbeat",  \* 0002
           "logout",     \* 0003
           "asleep",     \* 0200 with the ignition off
           "other"}      \* 0200 with the ignition on, 0001, 0104
Messages == [kind : Kinds, from : Terminals]
Object == [phone : Phones, plate : Plates, conn : Conns, status : Status, fresh : BOOLEAN]
HandlerSteps == {"off", "idle", "hasPlate", "plateCode", "hasPhone", "phoneCode", "insert",
                 "jobLookup", "jobAdd", "lookup", "renew", "setOnline", "setAsleep",
                 "cancel", "delete", "remove"}
CheckSteps == {"idle", "get", "missing", "decide", "offline", "close", "delete", "cancel"}

ASSUME ArrivingAssumption == Arriving \in [Conns -> SUBSET Messages]
ASSUME NilAssumption == Nil \notin Objs /\ Nil \notin Object /\ Nil \notin Messages
ASSUME NoDeviceAssumption == NoDevice \notin [plate : Plates, conn : Conns, status : Status, fresh : BOOLEAN]

VARIABLES
    heap,     \* heap[o]: the device object in cell o, Nil if never allocated
    byPhone,  \* DeviceCache.cacheByPhone
    byPlate,  \* DeviceCache.cacheByPlate
    jobs,     \* JobIDs (phones) with an entry in the cron
    open,     \* connections whose net.Conn the server has not closed
    sess,     \* connections whose session is in the session cache
    pc,       \* pc[c]: what the serve goroutine of c does next, "off" if there is none
    msg,      \* msg[c]: the message it handles
    dev,      \* dev[c]: the handler's local variable device
    kpc,      \* kpc[ph]: what the run of the check job of ph does next
    kdev,     \* kdev[ph]: its local variable d
    crashed   \* the process died of a panic that nothing recovers

cache  == <<heap, byPhone, byPlate>>
server == <<pc, msg, dev, sess>>
timer  == <<jobs, kpc, kdev>>
vars   == <<heap, byPhone, byPlate, jobs, open, sess, pc, msg, dev, kpc, kdev, crashed>>

TypeOK ==
    /\ heap \in [Objs -> Object \cup {Nil}]
    /\ byPhone \in [Phones -> Objs \cup {Nil}]
    /\ byPlate \in [Plates -> Objs \cup {Nil}]
    /\ jobs \subseteq Phones
    /\ open \subseteq Conns
    /\ sess \subseteq Conns
    /\ pc \in [Conns -> HandlerSteps]
    /\ msg \in [Conns -> Messages \cup {Nil}]
    /\ dev \in [Conns -> Objs \cup {Nil}]
    /\ kpc \in [Phones -> CheckSteps]
    /\ kdev \in [Phones -> Objs \cup {Nil}]
    /\ crashed \in BOOLEAN

\* Objects some map or local variable points to
Reachable ==
    {o \in Objs : \/ \E ph \in Phones : byPhone[ph] = o \/ kdev[ph] = o
                  \/ \E pl \in Plates : byPlate[pl] = o
                  \/ \E c \in Conns : dev[c] = o}

Init ==
    /\ heap = [o \in Objs |-> Nil]
    /\ byPhone = [ph \in Phones |-> Nil]
    /\ byPlate = [pl \in Plates |-> Nil]
    /\ jobs = {}
    /\ open = {}
    /\ sess = {}
    /\ pc = [c \in Conns |-> "off"]
    /\ msg = [c \in Conns |-> Nil]
    /\ dev = [c \in Conns |-> Nil]
    /\ kpc = [ph \in Phones |-> "idle"]
    /\ kdev = [ph \in Phones |-> Nil]
    /\ crashed = FALSE

-----------------------------------------------------------------------------
(* The operations of the device cache, each under its lock.                *)

\* The device is found under its own plate and phone from now on.
CacheDevice(o, d) ==
    /\ heap' = [heap EXCEPT ![o] = d]
    /\ byPlate' = [byPlate EXCEPT ![d.plate] = o]
    /\ byPhone' = [byPhone EXCEPT ![d.phone] = o]

\* Fault: the index by plate keeps the device.
FaultyDelPhoneOnly(ph) ==
    IF byPhone[ph] = Nil
    THEN UNCHANGED cache
    ELSE /\ byPhone' = [byPhone EXCEPT ![heap[byPhone[ph]].phone] = Nil]
         /\ UNCHANGED <<heap, byPlate>>

DelDeviceByPhone(ph) ==
    LET o == byPhone[ph] IN
    IF o = Nil
    THEN UNCHANGED cache
    ELSE /\ byPlate' = [byPlate EXCEPT ![heap[o].plate] = Nil]
         /\ byPhone' = [byPhone EXCEPT ![heap[o].phone] = Nil]
         /\ UNCHANGED heap

-----------------------------------------------------------------------------
(* Control of a handler.                                                   *)

At(c, step) == pc[c] = step
Goto(c, step) == pc' = [pc EXCEPT ![c] = step]
Claimed(c) == msg[c].from

Leave(c, step) ==
    /\ Goto(c, step)
    /\ msg' = [msg EXCEPT ![c] = Nil]
    /\ dev' = [dev EXCEPT ![c] = Nil]

\* The handler is done and its answer is sent: serve reads on.
Finish(c) == Leave(c, "idle")

\* serve returns, or its goroutine panics and GoSafe recovers; the deferred call
\* is next either way.
Return(c) == Leave(c, "remove")

\* Past the lookup a handler uses the device it found and no longer the message.
Found(c, d, step) ==
    /\ Goto(c, step)
    /\ msg' = [msg EXCEPT ![c] = Nil]
    /\ dev' = [dev EXCEPT ![c] = d]

-----------------------------------------------------------------------------
(* The listener and the serve goroutine of connection c.                   *)

\* A connection id stands for a new net.Conn each time, so it is reused only
\* when no device refers to the old one.
Accept(c) ==
    /\ pc[c] = "off"
    /\ \A o \in Reachable : heap[o].conn # c
    /\ open' = open \cup {c}
    /\ sess' = sess \cup {c}
    /\ pc' = [pc EXCEPT ![c] = "idle"]
    /\ UNCHANGED <<cache, timer, msg, dev, crashed>>

Receive(c, m) ==
    /\ pc[c] = "idle"
    /\ c \in open
    /\ m \in Arriving[c]
    /\ msg' = [msg EXCEPT ![c] = m]
    /\ pc' = [pc EXCEPT ![c] = IF m.kind = "register" THEN "hasPlate" ELSE "lookup"]
    /\ UNCHANGED <<cache, timer, open, sess, dev, crashed>>

\* The peer closes the connection: the next read returns io.EOF.
Hangup(c) ==
    /\ pc[c] = "idle"
    /\ c \in open
    /\ Return(c)
    /\ UNCHANGED <<cache, timer, open, sess, crashed>>

\* Fault: net.ErrClosed is not among the errors that end serve.
FaultyReadAgain(c) ==
    /\ pc[c] = "idle"
    /\ c \notin open
    /\ Finish(c)
    /\ UNCHANGED <<cache, timer, open, sess, crashed>>

\* The server has closed the connection: the next read returns net.ErrClosed.
ReadClosed(c) ==
    /\ pc[c] = "idle"
    /\ c \notin open
    /\ Return(c)
    /\ UNCHANGED <<cache, timer, open, sess, crashed>>

\* The deferred call of serve, on a returned error and on a recovered panic alike
RemoveSession(c) ==
    /\ pc[c] = "remove"
    /\ open' = open \ {c}
    /\ sess' = sess \ {c}
    /\ pc' = [pc EXCEPT ![c] = "off"]
    /\ UNCHANGED <<cache, timer, msg, dev, crashed>>

-----------------------------------------------------------------------------
(* Steps of the message handlers.                                          *)

\* Fault: the plate is not checked.
FaultySkipPlate(c) ==
    /\ At(c, "hasPlate")
    /\ Goto(c, "hasPhone")
    /\ UNCHANGED <<cache, timer, open, sess, msg, dev, crashed>>

HasPlate(c) ==
    /\ At(c, "hasPlate")
    /\ Goto(c, IF byPlate[Claimed(c).plate] = Nil THEN "hasPhone" ELSE "plateCode")
    /\ UNCHANGED <<cache, timer, open, sess, msg, dev, crashed>>

HasPhone(c) ==
    /\ At(c, "hasPhone")
    /\ Goto(c, IF byPhone[Claimed(c).phone] = Nil THEN "insert" ELSE "phoneCode")
    /\ UNCHANGED <<cache, timer, open, sess, msg, dev, crashed>>

\* The code of the device that holds the plate (phone) goes into the refusal.
\* genAuthCode dereferences the result of a second lookup: if the device is gone
\* by now the goroutine panics.
RefuseWithCode(c) ==
    /\ \/ At(c, "plateCode") /\ byPlate[Claimed(c).plate] # Nil
       \/ At(c, "phoneCode") /\ byPhone[Claimed(c).phone] # Nil
    /\ Finish(c)
    /\ UNCHANGED <<cache, timer, open, sess, crashed>>

PanicOnCode(c) ==
    /\ \/ At(c, "plateCode") /\ byPlate[Claimed(c).plate] = Nil
       \/ At(c, "phoneCode") /\ byPhone[Claimed(c).phone] = Nil
    /\ Return(c)
    /\ UNCHANGED <<cache, timer, open, sess, crashed>>

\* Fault: the device is built without its connection.
FaultyInsertUnconnected(c) ==
    /\ At(c, "insert")
    /\ \E o \in Objs \ Reachable :
         CacheDevice(o, [phone  |-> Claimed(c).phone,
                         plate  |-> Claimed(c).plate,
                         conn   |-> Nil,
                         status |-> "offline",
                         fresh  |-> TRUE])
    /\ Goto(c, "jobLookup")
    /\ UNCHANGED <<timer, open, sess, msg, dev, crashed>>

InsertNew(c) ==
    /\ At(c, "insert")
    /\ \E o \in Objs \ Reachable :
         CacheDevice(o, [phone  |-> Claimed(c).phone,
                         plate  |-> Claimed(c).plate,
                         conn   |-> c,
                         status |-> "offline",
                         fresh  |-> TRUE])
    /\ Goto(c, "jobLookup")
    /\ UNCHANGED <<timer, open, sess, msg, dev, crashed>>

\* KeepaliveTimer.Register looks the phone up again.
JobLookup(c) ==
    /\ At(c, "jobLookup")
    /\ IF byPhone[Claimed(c).phone] = Nil
       THEN Finish(c)
       ELSE Goto(c, "jobAdd") /\ UNCHANGED <<msg, dev>>
    /\ UNCHANGED <<cache, timer, open, sess, crashed>>

JobAdd(c) ==
    /\ At(c, "jobAdd")
    /\ jobs' = jobs \cup {Claimed(c).phone}
    /\ Finish(c)
    /\ UNCHANGED <<cache, open, sess, kpc, kdev, crashed>>

\* All other messages start with GetDeviceByPhone; ErrDeviceNotFound ends serve.
\* The fields genAuthCode reads never change, so 0102 compares the code here.
Lookup(c) ==
    LET d == byPhone[Claimed(c).phone]
        kind == msg[c].kind
        codeMatches == kind = "auth" /\ heap[d].plate = Claimed(c).plate
    IN
    /\ At(c, "lookup")
    /\ \/ d = Nil /\ Return(c)
       \/ d # Nil /\ codeMatches /\ Found(c, d, "setOnline")
       \/ d # Nil /\ kind \in {"auth", "badAuth"} /\ ~codeMatches /\ Found(c, d, "cancel")
       \/ d # Nil /\ kind = "logout" /\ Found(c, d, "cancel")
       \/ d # Nil /\ kind = "heartbeat" /\ Found(c, d, "renew")
       \/ d # Nil /\ kind = "asleep" /\ Found(c, d, "setAsleep")
       \/ d # Nil /\ kind = "other" /\ Finish(c)
    /\ UNCHANGED <<cache, timer, open, sess, crashed>>

\* The device the handler holds is cached again, whether it still was or not.
Save(c, d) ==
    /\ CacheDevice(dev[c], [d EXCEPT !.fresh = TRUE])
    /\ Finish(c)
    /\ UNCHANGED <<timer, open, sess, crashed>>

Renew(c) == At(c, "renew") /\ Save(c, heap[dev[c]])
SetOnline(c) == At(c, "setOnline") /\ Save(c, [heap[dev[c]] EXCEPT !.status = "online"])
SetAsleep(c) == At(c, "setAsleep") /\ Save(c, [heap[dev[c]] EXCEPT !.status = "sleeping"])

CancelJob(c) ==
    /\ At(c, "cancel")
    /\ jobs' = jobs \ {heap[dev[c]].phone}
    /\ Goto(c, "delete")
    /\ UNCHANGED <<cache, open, sess, msg, dev, kpc, kdev, crashed>>

Delete(c) ==
    /\ At(c, "delete")
    /\ DelDeviceByPhone(heap[dev[c]].phone)
    /\ Finish(c)
    /\ UNCHANGED <<timer, open, sess, crashed>>

-----------------------------------------------------------------------------
(* The keepalive check.  The cron runs a job in a goroutine of its own; a  *)
(* run is over long before the job is due again.                           *)

KGoto(ph, step) == kpc' = [kpc EXCEPT ![ph] = step]
KFinish(ph) ==
    /\ kpc' = [kpc EXCEPT ![ph] = "idle"]
    /\ kdev' = [kdev EXCEPT ![ph] = Nil]

Fire(ph) ==
    /\ kpc[ph] = "idle"
    /\ ph \in jobs
    /\ KGoto(ph, "get")
    /\ UNCHANGED <<cache, server, jobs, kdev, open, crashed>>

Get(ph) ==
    /\ kpc[ph] = "get"
    /\ kdev' = [kdev EXCEPT ![ph] = byPhone[ph]]
    /\ KGoto(ph, IF byPhone[ph] = Nil THEN "missing" ELSE "decide")
    /\ UNCHANGED <<cache, server, jobs, open, crashed>>

\* The job is cancelled and the check goes on with a nil device: the panic is in
\* a goroutine of the cron, where nothing recovers it.
Missing(ph) ==
    /\ kpc[ph] = "missing"
    /\ jobs' = jobs \ {ph}
    /\ crashed' = TRUE
    /\ KFinish(ph)
    /\ UNCHANGED <<cache, server, open>>

ShouldTurnOffline(d) == d.status # "offline" /\ ~d.fresh
ShouldClear(d) == d.status = "offline" /\ ~d.fresh

Decide(ph) ==
    LET d == heap[kdev[ph]] IN
    /\ kpc[ph] = "decide"
    /\ \/ ShouldTurnOffline(d) /\ KGoto(ph, "offline") /\ UNCHANGED kdev
       \/ ShouldClear(d) /\ KGoto(ph, "close") /\ UNCHANGED kdev
       \/ ~ShouldTurnOffline(d) /\ ~ShouldClear(d) /\ KFinish(ph)
    /\ UNCHANGED <<cache, server, jobs, open, crashed>>

TurnOffline(ph) ==
    /\ kpc[ph] = "offline"
    /\ CacheDevice(kdev[ph], [heap[kdev[ph]] EXCEPT !.status = "offline"])
    /\ KFinish(ph)
    /\ UNCHANGED <<server, jobs, open, crashed>>

CloseConn(ph) ==
    /\ kpc[ph] = "close"
    /\ open' = open \ {heap[kdev[ph]].conn}
    /\ KGoto(ph, "delete")
    /\ UNCHANGED <<cache, server, jobs, kdev, crashed>>

ClearDevice(ph) ==
    /\ kpc[ph] = "delete"
    /\ DelDeviceByPhone(ph)
    /\ KGoto(ph, "cancel")
    /\ UNCHANGED <<server, jobs, kdev, open, crashed>>

\* Fault: the job of a cleared device stays in the cron.
FaultyKeepOwnJob(ph) ==
    /\ kpc[ph] = "cancel"
    /\ KFinish(ph)
    /\ UNCHANGED <<cache, server, jobs, open, crashed>>

CancelOwnJob(ph) ==
    /\ kpc[ph] = "cancel"
    /\ jobs' = jobs \ {ph}
    /\ KFinish(ph)
    /\ UNCHANGED <<cache, server, open, crashed>>

-----------------------------------------------------------------------------
\* LastComTime of a device gets older than Keepalive.
Expire(o) ==
    /\ o \in Reachable
    /\ heap[o].fresh
    /\ heap' = [heap EXCEPT ![o].fresh = FALSE]
    /\ UNCHANGED <<byPhone, byPlate, server, timer, open, crashed>>

Arrive(c) == Accept(c) \/ Hangup(c) \/ \E m \in Messages : Receive(c, m)

Handle(c) ==
    \/ HasPlate(c)  \/ HasPhone(c) \/ RefuseWithCode(c) \/ PanicOnCode(c)
    \/ InsertNew(c) \/ JobLookup(c) \/ JobAdd(c)
    \/ Lookup(c)    \/ Renew(c)    \/ SetOnline(c) \/ SetAsleep(c)
    \/ CancelJob(c) \/ Delete(c)

Serve(c) == Handle(c) \/ ReadClosed(c) \/ RemoveSession(c)

Check(ph) ==
    \/ Get(ph)         \/ Missing(ph)   \/ Decide(ph)      \/ TurnOffline(ph)
    \/ CloseConn(ph)   \/ ClearDevice(ph) \/ CancelOwnJob(ph)

Next ==
    /\ ~crashed
    /\ \/ \E c \in Conns : Arrive(c) \/ Serve(c)
       \/ \E ph \in Phones : Fire(ph) \/ Check(ph)
       \/ \E o \in Objs : Expire(o)

\* Goroutines run, the cron fires, time passes; terminals owe nothing.
Fairness ==
    /\ \A c \in Conns : WF_vars(~crashed /\ Serve(c))
    /\ \A ph \in Phones : WF_vars(~crashed /\ (Fire(ph) \/ Check(ph)))
    /\ \A o \in Objs : WF_vars(~crashed /\ Expire(o))

Spec == Init /\ [][Next]_vars
FairSpec == Spec /\ Fairness
-----------------------------------------------------------------------------
\* The two indexes of the cache never lead to a device with another key, and as
\* long as every plate belongs to one phone they hold the same devices, however
\* stale the device that a handler or a check puts back (CacheDevice, delDevice).
OneToOne == \A s, t \in Terminals : s.phone = t.phone <=> s.plate = t.plate
IndexesAgree ==
    /\ \A ph \in Phones : byPhone[ph] # Nil => heap[byPhone[ph]].phone = ph
    /\ \A pl \in Plates : byPlate[pl] # Nil => heap[byPlate[pl]].plate = pl
    /\ OneToOne => \A t \in Terminals : byPlate[t.plate] = byPhone[t.phone]

\* A handler that has begun comes to an end, and a connection that the check, the
\* server or the peer has closed does not stay in the session cache.
ClosedConnReleased ==
    \A c \in Conns :
        /\ pc[c] \notin {"off", "idle"} ~> pc[c] \in {"off", "idle"} \/ crashed
        /\ c \in sess /\ c \notin open ~> c \notin sess \/ c \in open \/ crashed

\* README.md: each connected terminal has a keepalive job, and the job's goroutine
\* lives: a job is never left to look for a device that is gone (keepalive.go:74).
NoCrash == ~crashed
=============================================================================
