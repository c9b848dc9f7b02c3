------------------------------- MODULE Terminal -------------------------------
(***************************************************************************)
(* The terminal of test/client: it dials, builds its device, registers,    *)
(* authenticates with the code of the answer, and then sends heartbeats    *)
(* and positions until the connection ends; then it dials again.  The      *)
(* goroutines of an earlier connection may outlive it.                     *)
(*                                                                         *)
(* The telephone number is that of the configuration, the same on every    *)
(* connection; identity and plate may be drawn anew.  The platform handles *)
(* a message in one step (Devices has the steps) and clears a silent       *)
(* device.  Connections are numbered in the order in which they are        *)
(* dialled; cutting one loses what is on its way.                          *)
(***************************************************************************)
EXTENDS Naturals, Sequences

CONSTANTS
    Identities,    \* what the configuration may generate: records [id, plate]
    Taken,         \* plates that other terminals have registered
    RingCapacity,  \* slots of a ring of positions
    MaxFaults,     \* bound on connections cut, devices cleared, taken plates drawn
    MaxQueue,      \* bound on the messages on their way in one direction
    None,
    Foreign        \* a code of another terminal

Conns == 1..MaxFaults + 1
Plates == {i.plate : i \in Identities}
Codes == Identities \cup {Foreign}
Device == [who : Identities, conn : Conns, status : {"offline", "online"}]
Registration == [who : Identities, conn : Conns]

ASSUME BoundsAssumption == MaxFaults \in Nat /\ MaxQueue \in Nat \ {0}
ASSUME RingAssumption == RingCapacity \in Nat \ {0}
ASSUME TakenAssumption == Taken \subseteq Plates
ASSUME NoneAssumption == None \notin Device \cup Registration

VARIABLES
    conn,        \* number of the terminal's latest connection, 0 before the first
    reading,     \* whether its reader still runs
    alive,       \* connections that carry messages
    toPlatform,  \* messages on their way, per connection
    toTerminal,
    device,      \* the device in the terminal's cache, or None
    cancelled,   \* connections whose context is cancelled
    starter,     \* where the goroutine that starts the loops is, per connection
    beat,        \* where the heartbeat loop is
    report,      \* where the position loop is
    reg,         \* the platform's registration of the telephone number, or None
    authed,      \* history: connections that the platform has authenticated
    faults       \* how many of these there were

terminal == <<conn, reading, device, cancelled, starter, beat, report>>
platform == <<reg, authed>>
wire == <<alive, toPlatform, toTerminal>>
vars == <<conn, reading, alive, toPlatform, toTerminal, device, cancelled,
          starter, beat, report, reg, authed, faults>>

ToPlatform == [kind : {"register"}, who : Identities]
                \cup [kind : {"auth"}, code : Codes]
                \cup [kind : {"heartbeat", "position"}]
ToTerminal == [kind : {"registered"}, result : {0, 1, 3}, code : Codes]
                \cup [kind : {"answer"}, ok : BOOLEAN]
LoopSteps == {"off", "send", "sleep", "done"}

\* Each variable has its type; connections are used in order.
TypeOK ==
    /\ conn \in Conns \cup {0}
    /\ reading \in BOOLEAN
    /\ alive \subseteq 1..conn
    /\ toPlatform \in [Conns -> Seq(ToPlatform)]
    /\ toTerminal \in [Conns -> Seq(ToTerminal)]
    /\ device \in Device \cup {None}
    /\ cancelled \subseteq 1..conn
    /\ starter \in [Conns -> {"off", "build", "register", "check", "done"}]
    /\ beat \in [Conns -> LoopSteps]
    /\ report \in [Conns -> LoopSteps]
    /\ reg \in Registration \cup {None}
    /\ authed \subseteq 1..conn
    /\ faults \in 0..MaxFaults

Init ==
    /\ conn = 0
    /\ reading = FALSE
    /\ alive = {}
    /\ toPlatform = [c \in Conns |-> <<>>]
    /\ toTerminal = [c \in Conns |-> <<>>]
    /\ device = None
    /\ cancelled = {}
    /\ starter = [c \in Conns |-> "off"]
    /\ beat = [c \in Conns |-> "off"]
    /\ report = [c \in Conns |-> "off"]
    /\ reg = None
    /\ authed = {}
    /\ faults = 0

-----------------------------------------------------------------------------
(* Connections.  What is sent on a dead one is lost.                       *)

Send(c, m) ==
    /\ Len(toPlatform[c]) < MaxQueue
    /\ toPlatform' = IF c \in alive THEN [toPlatform EXCEPT ![c] = Append(@, m)] ELSE toPlatform

\* The platform closes connection c: its answers still arrive.
Close(c) ==
    /\ alive' = alive \ {c}
    /\ toPlatform' = [toPlatform EXCEPT ![c] = <<>>]

Cut(c) ==
    /\ c \in alive
    /\ faults < MaxFaults
    /\ faults' = faults + 1
    /\ Close(c)
    /\ toTerminal' = [toTerminal EXCEPT ![c] = <<>>]
    /\ UNCHANGED <<terminal, platform>>

-----------------------------------------------------------------------------
(* The terminal: main, which waits for the reader and then two seconds     *)
(* before it dials again.  Long before that the device of the previous     *)
(* connection, which takes no input or output to build, is in the cache.   *)

Dial ==
    /\ ~reading
    /\ conn < MaxFaults + 1
    /\ \A c \in Conns : starter[c] # "build"
    /\ conn' = conn + 1
    /\ reading' = TRUE
    /\ alive' = alive \cup {conn + 1}
    /\ starter' = [starter EXCEPT ![conn + 1] = "build"]
    /\ UNCHANGED <<toPlatform, toTerminal, device, cancelled, beat, report, platform, faults>>

\* A plate that is taken leads to a lost connection, as a fault does.
Draw(who) ==
    IF who.plate \in Taken
    THEN faults < MaxFaults /\ faults' = faults + 1
    ELSE UNCHANGED faults

\* A mistake: the device is cached before its connection is known.
FaultyBuildDevice(c) ==
    /\ starter[c] = "build"
    /\ \E who \in Identities : Draw(who) /\ device' = [who |-> who, conn |-> None, status |-> "offline"]
    /\ starter' = [starter EXCEPT ![c] = "register"]
    /\ UNCHANGED <<conn, reading, cancelled, beat, report, wire, platform>>

\* A new device takes the place of the last connection's, as its number is the same.
BuildDevice(c) ==
    /\ starter[c] = "build"
    /\ \E who \in Identities : Draw(who) /\ device' = [who |-> who, conn |-> c, status |-> "offline"]
    /\ starter' = [starter EXCEPT ![c] = "register"]
    /\ UNCHANGED <<conn, reading, cancelled, beat, report, wire, platform>>

SendRegister(c) ==
    /\ starter[c] = "register"
    /\ Send(c, [kind |-> "register", who |-> device.who])
    /\ starter' = [starter EXCEPT ![c] = "check"]
    /\ UNCHANGED <<conn, reading, device, cancelled, beat, report, alive, toTerminal, platform, faults>>

\* A mistake: the loops start without waiting for the status.
FaultyCheckStatus(c) ==
    /\ starter[c] = "check"
    /\ starter' = [starter EXCEPT ![c] = "done"]
    /\ beat' = [beat EXCEPT ![c] = "send"]
    /\ report' = [report EXCEPT ![c] = "send"]
    /\ UNCHANGED <<conn, reading, device, cancelled, wire, platform, faults>>

\* Every second the status of the device that has the number by now is looked
\* at.  The timer of ten seconds that would register again is made anew each
\* time too, so it never comes first.
CheckStatus(c) ==
    /\ starter[c] = "check"
    /\ device.status = "online"
    /\ starter' = [starter EXCEPT ![c] = "done"]
    /\ beat' = [beat EXCEPT ![c] = "send"]
    /\ report' = [report EXCEPT ![c] = "send"]
    /\ UNCHANGED <<conn, reading, device, cancelled, wire, platform, faults>>

SendHeartbeat(c) ==
    /\ beat[c] = "send"
    /\ Send(c, [kind |-> "heartbeat"])
    /\ beat' = [beat EXCEPT ![c] = "sleep"]
    /\ UNCHANGED <<conn, reading, device, cancelled, starter, report, alive, toTerminal, platform, faults>>

\* A mistake: the loop does not look at its context.
FaultyHeartbeatWakes(c) ==
    /\ beat[c] = "sleep"
    /\ beat' = [beat EXCEPT ![c] = "send"]
    /\ UNCHANGED <<conn, reading, device, cancelled, starter, report, wire, platform, faults>>

\* The loop ends once its context is cancelled.  (If the timer is due in the same
\* instant one more message may go to the dead connection.)
HeartbeatWakes(c) ==
    /\ beat[c] = "sleep"
    /\ beat' = [beat EXCEPT ![c] = IF c \in cancelled THEN "done" ELSE "send"]
    /\ UNCHANGED <<conn, reading, device, cancelled, starter, report, wire, platform, faults>>

\* One position is written per connection, and Latest finds none in a ring whose
\* Writer is back at its beginning.
HasPosition == conn % RingCapacity # 0

SendPosition(c) ==
    /\ report[c] = "send"
    /\ IF HasPosition THEN Send(c, [kind |-> "position"]) ELSE UNCHANGED toPlatform
    /\ report' = [report EXCEPT ![c] = "sleep"]
    /\ UNCHANGED <<conn, reading, device, cancelled, starter, beat, alive, toTerminal, platform, faults>>

ReportWakes(c) ==
    /\ report[c] = "sleep"
    /\ report' = [report EXCEPT ![c] = IF c \in cancelled THEN "done" ELSE "send"]
    /\ UNCHANGED <<conn, reading, device, cancelled, starter, beat, wire, platform, faults>>

-----------------------------------------------------------------------------
(* The terminal's reader.                                                  *)

Receive(kind) ==
    /\ reading
    /\ toTerminal[conn] # <<>>
    /\ Head(toTerminal[conn]).kind = kind
    /\ toTerminal' = [toTerminal EXCEPT ![conn] = Tail(@)]

\* A mistake: a refused registration is not authenticated.
FaultyProcessMsg8100 ==
    LET m == Head(toTerminal[conn]) IN
    /\ Receive("registered")
    /\ IF m.result = 0 THEN Send(conn, [kind |-> "auth", code |-> m.code]) ELSE UNCHANGED toPlatform
    /\ UNCHANGED <<terminal, alive, platform, faults>>

\* Whatever the result, the code is sent back.
ProcessMsg8100 ==
    LET m == Head(toTerminal[conn]) IN
    /\ Receive("registered")
    /\ Send(conn, [kind |-> "auth", code |-> m.code])
    /\ UNCHANGED <<terminal, alive, platform, faults>>

\* A mistake: the result of an answer is not looked at.
FaultyProcessMsg8001 ==
    /\ Receive("answer")
    /\ device' = [device EXCEPT !.status = "online"]
    /\ UNCHANGED <<conn, reading, cancelled, starter, beat, report, alive, toPlatform, platform, faults>>

ProcessMsg8001 ==
    LET m == Head(toTerminal[conn]) IN
    /\ Receive("answer")
    /\ device' = IF m.ok THEN [device EXCEPT !.status = "online"] ELSE device
    /\ UNCHANGED <<conn, reading, cancelled, starter, beat, report, alive, toPlatform, platform, faults>>

ReadEOF ==
    /\ reading
    /\ conn \notin alive
    /\ toTerminal[conn] = <<>>
    /\ reading' = FALSE
    /\ cancelled' = cancelled \cup {conn}
    /\ UNCHANGED <<conn, device, starter, beat, report, wire, platform, faults>>

-----------------------------------------------------------------------------
(* The platform.                                                           *)

Take(c, kind) ==
    /\ toPlatform[c] # <<>>
    /\ Head(toPlatform[c]).kind = kind
    /\ Len(toTerminal[c]) < MaxQueue

Answer(c, m) ==
    /\ toPlatform' = [toPlatform EXCEPT ![c] = Tail(@)]
    /\ toTerminal' = [toTerminal EXCEPT ![c] = Append(@, m)]
    /\ UNCHANGED alive

Registered(result, code) == [kind |-> "registered", result |-> result, code |-> code]

\* A refusal carries the code of the device that is in the way.
ProcessMsg0100(c) ==
    LET who == Head(toPlatform[c]).who IN
    /\ Take(c, "register")
    /\ \/ /\ who.plate \in Taken
          /\ Answer(c, Registered(1, Foreign)) /\ UNCHANGED reg
       \/ /\ who.plate \notin Taken /\ reg # None
          /\ Answer(c, Registered(IF who.plate = reg.who.plate THEN 1 ELSE 3, reg.who))
          /\ UNCHANGED reg
       \/ /\ who.plate \notin Taken /\ reg = None
          /\ Answer(c, Registered(0, who))
          /\ reg' = [who |-> who, conn |-> c]
    /\ UNCHANGED <<terminal, authed, faults>>

ProcessMsg0102(c) ==
    LET code == Head(toPlatform[c]).code IN
    /\ Take(c, "auth")
    /\ reg # None
    /\ Answer(c, [kind |-> "answer", ok |-> code = reg.who])
    /\ reg' = IF code = reg.who THEN reg ELSE None
    /\ authed' = IF code = reg.who THEN authed \cup {c} ELSE authed
    /\ UNCHANGED <<terminal, faults>>

ProcessReport(c) ==
    /\ Take(c, "heartbeat") \/ Take(c, "position")
    /\ reg # None
    /\ Answer(c, [kind |-> "answer", ok |-> TRUE])
    /\ UNCHANGED <<terminal, platform, faults>>

\* A message of a terminal that is not registered ends the connection.
DeviceNotFound(c) ==
    /\ \E kind \in {"auth", "heartbeat", "position"} : Take(c, kind)
    /\ reg = None
    /\ Close(c)
    /\ UNCHANGED <<terminal, platform, toTerminal, faults>>

\* The keepalive check.  The connection it closes is the one of the registration.
Clear ==
    /\ reg # None
    /\ faults < MaxFaults
    /\ faults' = faults + 1
    /\ Close(reg.conn)
    /\ reg' = None
    /\ UNCHANGED <<terminal, toTerminal, authed>>

-----------------------------------------------------------------------------
Reader == ProcessMsg8100 \/ ProcessMsg8001 \/ ReadEOF

Starter(c) == BuildDevice(c) \/ SendRegister(c) \/ CheckStatus(c)
Heartbeats(c) == SendHeartbeat(c) \/ HeartbeatWakes(c)
Reports(c) == SendPosition(c) \/ ReportWakes(c)

Handle(c) ==
    \/ ProcessMsg0100(c) \/ ProcessMsg0102(c)
    \/ ProcessReport(c)  \/ DeviceNotFound(c)

Next ==
    \/ Dial \/ Reader \/ Clear
    \/ \E c \in Conns : \/ Starter(c) \/ Heartbeats(c) \/ Reports(c)
                        \/ Handle(c)  \/ Cut(c)

\* The goroutines of both sides run; nothing obliges connections to be cut.
Fairness ==
    /\ WF_vars(Dial)
    /\ WF_vars(Reader)
    /\ \A c \in Conns : /\ WF_vars(Starter(c))
                        /\ WF_vars(Heartbeats(c))
                        /\ WF_vars(Reports(c))
                        /\ WF_vars(Handle(c))

Spec == Init /\ [][Next]_vars
FairSpec == Spec /\ Fairness

-----------------------------------------------------------------------------
\* The terminal believes to be online only if the platform has authenticated it
\* on the very connection its device was built for: no answer that belongs to an
\* earlier connection, and no refusal, takes it there (msg_processor.go 446-467).
OnlineAuthenticated ==
    device # None /\ device.status = "online" => device.conn \in authed

\* The loops of the client start only after it is online, and those of an earlier
\* connection that wake up late talk to a dead connection: no heartbeat and no
\* position is ever on its way on a connection that is not authenticated.
NothingBeforeAuth ==
    \A c \in Conns : \A k \in 1..Len(toPlatform[c]) :
        toPlatform[c][k].kind \in {"heartbeat", "position"} => c \in authed

PlateIsFree == device # None /\ device.who.plate \notin Taken

\* However often the connection is cut and the platform forgets the device, once
\* that stops the terminal comes online and stays, unless its plate is another's:
\* a refused registration is as good as an accepted one, as the refusal carries
\* the code.
ComesOnline ==
    <>[]PlateIsFree => <>[](conn \in alive /\ device # None /\ device.status = "online")

\* A goroutine of an earlier connection, even one that waited for it to come
\* online when it ended, is not left behind.
OldLoopsEnd ==
    <>[]PlateIsFree =>
        \A c \in Conns : <>[](c # conn => /\ starter[c] \in {"off", "done"}
                                          /\ beat[c] \in {"off", "done"}
                                          /\ report[c] \in {"off", "done"})
=============================================================================
