------------------------------ MODULE Registry ------------------------------
(***************************************************************************)
(* What the device registry of the server promises when every message      *)
(* handler and every keepalive check takes effect in one step: which       *)
(* terminals are registered, in which status, on which connection, and     *)
(* which of them have a keepalive job.  Devices.tla splits the same        *)
(* handlers at the places where goroutines interleave.                     *)
(*                                                                         *)
(* Time is abstracted to one bit per device: "fresh" says that LastComTime *)
(* is at most Keepalive old.  Keepalive.tla keeps the clock.               *)
(***************************************************************************)
CONSTANTS
    Conns,      \* TCP connections (net.Conn, and the session made for each)
    Terminals,  \* the terminals in the field: records [phone, plate]
    NoDevice    \* absence of a device in the registry

Phones == {t.phone : t \in Terminals}
Plates == {t.plate : t \in Terminals}
Status == {"offline", "online", "sleeping"}
Device == [plate : Plates, conn : Conns, status : Status, fresh : BOOLEAN]

ASSUME NoDeviceIsNoDevice == NoDevice \notin Device

VARIABLES
    reg,   \* reg[ph]: the device cached under phone ph, or NoDevice
    jobs,  \* phones with a keepalive job in the cron
    open   \* connections accepted and not closed by the server

vars == <<reg, jobs, open>>

TypeOK ==
    /\ reg \in [Phones -> Device \cup {NoDevice}]
    /\ jobs \subseteq Phones
    /\ open \subseteq Conns

Registered == {ph \in Phones : reg[ph] # NoDevice}
ConnsInUse == {reg[ph].conn : ph \in Registered}
PlatesInUse == {reg[ph].plate : ph \in Registered}

Init ==
    /\ reg = [ph \in Phones |-> NoDevice]
    /\ jobs = {}
    /\ open = {}

-----------------------------------------------------------------------------
(* Connections.  A connection id is reused only when no device refers to   *)
(* it any more.                                                            *)

Accept(c) ==
    /\ c \notin open \cup ConnsInUse
    /\ open' = open \cup {c}
    /\ UNCHANGED <<reg, jobs>>

Hangup(c) ==
    /\ c \in open
    /\ open' = open \ {c}
    /\ UNCHANGED <<reg, jobs>>

-----------------------------------------------------------------------------
(* Messages of terminal t read from connection c.                          *)

Remove(ph) ==
    /\ reg' = [reg EXCEPT ![ph] = NoDevice]
    /\ jobs' = jobs \ {ph}

\* Fault: the plate is not checked.
FaultyRegisterAnyPlate(c, t) ==
    /\ c \in open
    /\ t.phone \notin Registered
    /\ reg' = [reg EXCEPT ![t.phone] =
                 [plate |-> t.plate, conn |-> c, status |-> "offline", fresh |-> TRUE]]
    /\ jobs' = jobs \cup {t.phone}
    /\ UNCHANGED open

\* Fault: the device is built without its connection.
FaultyRegisterUnconnected(c, t) ==
    /\ c \in open
    /\ t.plate \notin PlatesInUse
    /\ t.phone \notin Registered
    /\ reg' = [reg EXCEPT ![t.phone] =
                 [plate |-> t.plate, conn |-> NoDevice, status |-> "offline", fresh |-> TRUE]]
    /\ jobs' = jobs \cup {t.phone}
    /\ UNCHANGED open

\* 0100, refused (with the registered device's code) if plate or phone is taken
Register(c, t) ==
    /\ c \in open
    /\ t.plate \notin PlatesInUse
    /\ t.phone \notin Registered
    /\ reg' = [reg EXCEPT ![t.phone] =
                 [plate |-> t.plate, conn |-> c, status |-> "offline", fresh |-> TRUE]]
    /\ jobs' = jobs \cup {t.phone}
    /\ UNCHANGED open

\* 0102 with the code that the registration of t was answered with
Authenticate(c, t) ==
    /\ c \in open
    /\ t.phone \in Registered
    /\ IF t.plate = reg[t.phone].plate
       THEN /\ reg' = [reg EXCEPT ![t.phone].status = "online", ![t.phone].fresh = TRUE]
            /\ UNCHANGED <<jobs, open>>
       ELSE Remove(t.phone) /\ UNCHANGED open

\* Fault: the device is deleted, its job is not cancelled.
FaultyFailKeepsJob(c, t) ==
    /\ c \in open
    /\ t.phone \in Registered
    /\ reg' = [reg EXCEPT ![t.phone] = NoDevice]
    /\ UNCHANGED <<jobs, open>>

\* 0102 with any other code
FailAuthentication(c, t) ==
    /\ c \in open
    /\ t.phone \in Registered
    /\ Remove(t.phone)
    /\ UNCHANGED open

\* 0002
Heartbeat(c, t) ==
    /\ c \in open
    /\ t.phone \in Registered
    /\ reg' = [reg EXCEPT ![t.phone].fresh = TRUE]
    /\ UNCHANGED <<jobs, open>>

\* 0200 with the ignition off
ReportAsleep(c, t) ==
    /\ c \in open
    /\ t.phone \in Registered
    /\ reg' = [reg EXCEPT ![t.phone].status = "sleeping", ![t.phone].fresh = TRUE]
    /\ UNCHANGED <<jobs, open>>

\* 0003
Logout(c, t) ==
    /\ c \in open
    /\ t.phone \in Registered
    /\ Remove(t.phone)
    /\ UNCHANGED open

\* Any message but 0100 of a terminal that is not registered
Reject(c, t) ==
    /\ c \in open
    /\ t.phone \notin Registered
    /\ open' = open \ {c}
    /\ UNCHANGED <<reg, jobs>>

Message(t) ==
    \E c \in Conns :
        \/ Register(c, t)
        \/ Authenticate(c, t)
        \/ FailAuthentication(c, t)
        \/ Heartbeat(c, t)
        \/ ReportAsleep(c, t)
        \/ Logout(c, t)
        \/ Reject(c, t)

-----------------------------------------------------------------------------
(* The passing of time and the keepalive job.                              *)

Expire(ph) ==
    /\ ph \in Registered
    /\ reg[ph].fresh
    /\ reg' = [reg EXCEPT ![ph].fresh = FALSE]
    /\ UNCHANGED <<jobs, open>>

TurnOffline(ph) ==
    /\ ph \in jobs \cap Registered
    /\ ~reg[ph].fresh
    /\ reg[ph].status # "offline"
    /\ reg' = [reg EXCEPT ![ph].status = "offline"]
    /\ UNCHANGED <<jobs, open>>

\* Fault: a device whose connection is already closed is passed over.
FaultyClearConnectedOnly(ph) ==
    /\ ph \in jobs \cap Registered
    /\ ~reg[ph].fresh
    /\ reg[ph].status = "offline"
    /\ reg[ph].conn \in open
    /\ open' = open \ {reg[ph].conn}
    /\ Remove(ph)

Clear(ph) ==
    /\ ph \in jobs \cap Registered
    /\ ~reg[ph].fresh
    /\ reg[ph].status = "offline"
    /\ open' = open \ {reg[ph].conn}
    /\ Remove(ph)

-----------------------------------------------------------------------------
Next ==
    \/ \E c \in Conns : Accept(c) \/ Hangup(c)
    \/ \E t \in Terminals : Message(t)
    \/ \E ph \in Phones : Expire(ph) \/ TurnOffline(ph) \/ Clear(ph)

\* Time passes and the cron goroutine keeps firing; terminals owe nothing.
Fairness ==
    \A ph \in Phones :
        /\ WF_vars(Expire(ph))
        /\ WF_vars(TurnOffline(ph))
        /\ WF_vars(Clear(ph))

Spec == Init /\ [][Next]_vars
FairSpec == Spec /\ Fairness

-----------------------------------------------------------------------------
\* The cron holds a job for a phone exactly while the device is registered: a
\* registered device is always watched, and no job is left behind to look for a
\* device that is gone (0100, 0102, 0003 and the check itself keep the two in step).
JobPerDevice == jobs = Registered

\* No two registered devices carry the same plate, so the index by plate can be
\* derived from the index by phone (0100 checks the plate before the phone).
PlatesDistinct ==
    \A p, q \in Registered : reg[p].plate = reg[q].plate => p = q

\* A device whose terminal falls silent does not stay: the check turns it
\* offline, a later check clears it.
SilentDeviceGone ==
    \A ph \in Phones :
        <>[][\A t \in Terminals : t.phone = ph => ~Message(t)]_vars
            => <>[](reg[ph] = NoDevice)
=============================================================================
