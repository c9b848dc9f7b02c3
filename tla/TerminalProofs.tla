---------------------------- MODULE TerminalProofs ----------------------------
(***************************************************************************)
(* The terminal of Terminal is online only where the platform has          *)
(* authenticated it, and reports nothing earlier, for every number of      *)
(* faults, length of the queues, and set of identities.  Neither is        *)
(* inductive: the goroutines of an earlier connection look at the device   *)
(* of the present one.  The invariant says what keeps them harmless: the   *)
(* latest connection is the only one that carries messages, and carries    *)
(* none before its own device is in the cache.                             *)
(***************************************************************************)
EXTENDS Terminal, TLAPS

\* What may be on its way on connection c, by what the platform did on it
UpTo(c) == {m \in ToPlatform : m.kind \in {"heartbeat", "position"} => c \in authed}
DownFrom(c) == {m \in ToTerminal : m.kind = "answer" /\ m.ok => c \in authed}

\* The latest connection is the only one alive, and only while it is read.
LatestInv ==
    /\ reading => conn \in Conns
    /\ \A c \in alive : c = conn /\ reading

\* No goroutine and no message is ahead of its connection or of its device.
OrderInv ==
    /\ \A c \in Conns :
         /\ starter[c] = "build" => c = conn
         /\ c > conn \/ starter[c] = "build" =>
              /\ toPlatform[c] = <<>> /\ toTerminal[c] = <<>>
              /\ beat[c] = "off" /\ report[c] = "off"
         /\ c > conn => starter[c] = "off"
         /\ starter[c] \notin {"off", "build"} => device # None
    /\ conn \in Conns =>
         /\ starter[conn] # "off"
         /\ starter[conn] # "build" => device # None /\ device.conn = conn

\* What is sent and believed has been authenticated.
AuthInv ==
    /\ device # None /\ device.status = "online" => device.conn \in authed
    /\ \A c \in Conns :
         /\ beat[c] # "off" \/ report[c] # "off" => c \in authed \/ c \notin alive
         /\ toPlatform[c] \in Seq(UpTo(c))
         /\ toTerminal[c] \in Seq(DownFrom(c))

IInv == TypeOK /\ LatestInv /\ OrderInv /\ AuthInv

-----------------------------------------------------------------------------
(* Queues.                                                                 *)

LEMMA SeqFacts ==
    ASSUME NEW S, NEW s \in Seq(S)
    PROVE  /\ \A e \in S : Append(s, e) \in Seq(S)
           /\ s # <<>> => Head(s) \in S /\ Tail(s) \in Seq(S)
           /\ \A k \in 1..Len(s) : s[k] \in S
OBVIOUS

LEMMA SeqSubset ==
    ASSUME NEW S, NEW T, S \subseteq T, NEW s \in Seq(S)
    PROVE  s \in Seq(T)
<1>1. Len(s) \in Nat /\ s \in [1..Len(s) -> S]
  OBVIOUS
<1>2. s \in [1..Len(s) -> T]
  BY <1>1
<1> QED
  BY <1>1, <1>2

\* What the platform has authenticated it does not forget.
LEMMA AllowedGrow ==
    ASSUME authed \subseteq authed', NEW c \in Conns
    PROVE  /\ \A s \in Seq(UpTo(c)) : s \in Seq(UpTo(c)')
           /\ \A s \in Seq(DownFrom(c)) : s \in Seq(DownFrom(c)')
<1>1. UpTo(c) \subseteq UpTo(c)'
  BY DEF UpTo
<1>2. DownFrom(c) \subseteq DownFrom(c)'
  BY DEF DownFrom
<1> QED
  BY <1>1, <1>2, SeqSubset

\* What the queues hold of a type holds when they are emptied.
LEMMA AllowedTyped ==
    ASSUME NEW c \in Conns
    PROVE  /\ \A s \in Seq(UpTo(c)) : s \in Seq(ToPlatform)
           /\ \A s \in Seq(DownFrom(c)) : s \in Seq(ToTerminal)
<1>1. UpTo(c) \subseteq ToPlatform
  BY DEF UpTo
<1>2. DownFrom(c) \subseteq ToTerminal
  BY DEF DownFrom
<1> QED
  BY <1>1, <1>2, SeqSubset

\* The numbers of connections
LEMMA ConnsFacts ==
    ASSUME TypeOK
    PROVE  /\ Conns \subseteq Nat \ {0}
           /\ conn \in Nat
           /\ \A c \in Conns : ~(c > conn) => c \in 1..conn
           /\ conn \in Conns \/ conn = 0
           /\ conn < MaxFaults + 1 => conn + 1 \in Conns
           /\ faults < MaxFaults => faults + 1 \in 0..MaxFaults
BY BoundsAssumption DEF TypeOK, Conns

LEMMA InitLemma == Init => IInv
<1> SUFFICES ASSUME Init PROVE IInv
  OBVIOUS
<1>1. TypeOK
  <2>1. <<>> \in Seq(ToPlatform) /\ <<>> \in Seq(ToTerminal)
    OBVIOUS
  <2>2. conn \in Conns \cup {0} /\ faults \in 0..MaxFaults
    BY BoundsAssumption DEF Init
  <2> QED
    BY <2>1, <2>2 DEF Init, TypeOK, LoopSteps
<1>2. LatestInv /\ OrderInv
  BY BoundsAssumption DEF Init, LatestInv, OrderInv, Conns
<1>3. AuthInv
  BY DEF Init, AuthInv
<1> QED
  BY <1>1, <1>2, <1>3 DEF IInv

-----------------------------------------------------------------------------
(* The terminal: steps that send nothing.                                  *)

\* A step that leaves the wire alone leaves what is on it allowed.
LEMMA QuietWire ==
    ASSUME AuthInv, UNCHANGED <<toPlatform, toTerminal, authed>>
    PROVE  \A c \in Conns : toPlatform'[c] \in Seq(UpTo(c)') /\ toTerminal'[c] \in Seq(DownFrom(c)')
BY AllowedGrow DEF AuthInv

LEMMA DialLemma ==
    ASSUME IInv, Dial
    PROVE  IInv'
<1> USE DEF IInv
<1>1. /\ conn' = conn + 1 /\ conn' \in Conns /\ conn \in Nat /\ conn \notin alive
      /\ \A c \in Conns : c > conn' => c > conn
  BY ConnsFacts DEF Dial, LatestInv
<1>2. /\ ~reading /\ reading' = TRUE
      /\ alive = {} /\ alive' = {conn'}
      /\ \A c \in Conns : starter'[c] = IF c = conn' THEN "build" ELSE starter[c]
      /\ \A c \in Conns : starter[c] # "build"
      /\ UNCHANGED <<toPlatform, toTerminal, device, cancelled, beat, report, platform, faults>>
  BY <1>1 DEF Dial, LatestInv, TypeOK
<1>3. TypeOK'
  <2>1. 1..conn \subseteq 1..conn'
    BY <1>1
  <2>2. starter' \in [Conns -> {"off", "build", "register", "check", "done"}]
    BY <1>1 DEF Dial, TypeOK
  <2> QED
    BY <1>1, <1>2, <2>1, <2>2, ConnsFacts DEF TypeOK, platform
<1>4. LatestInv'
  BY <1>1, <1>2 DEF LatestInv
<1>5. OrderInv'
  BY <1>1, <1>2, ConnsFacts DEF OrderInv
<1>6. AuthInv'
  <2>1. \A c \in Conns : beat'[c] # "off" \/ report'[c] # "off" => c \in authed' \/ c \notin alive'
    BY <1>1, <1>2, ConnsFacts DEF OrderInv
  <2>2. authed' = authed
    BY <1>2 DEF platform
  <2> QED
    BY <1>2, <2>1, <2>2, QuietWire DEF AuthInv
<1> QED
  BY <1>3, <1>4, <1>5, <1>6

LEMMA BuildDeviceLemma ==
    ASSUME IInv, NEW c \in Conns, BuildDevice(c)
    PROVE  IInv'
<1> USE DEF IInv
<1>1. PICK who \in Identities : Draw(who) /\ device' = [who |-> who, conn |-> c, status |-> "offline"]
  BY DEF BuildDevice
<1>2. /\ starter[c] = "build" /\ c = conn
      /\ device' \in Device /\ device' # None /\ device'.conn = c /\ device'.status = "offline"
  BY <1>1, NoneAssumption DEF BuildDevice, Device, OrderInv
<1>3. /\ starter' = [starter EXCEPT ![c] = "register"]
      /\ \A x \in Conns : starter'[x] = IF x = c THEN "register" ELSE starter[x]
      /\ UNCHANGED <<conn, reading, cancelled, beat, report, wire, platform>>
  BY DEF BuildDevice, TypeOK
<1>4. TypeOK'
  <2>1. faults' \in 0..MaxFaults
    BY <1>1, ConnsFacts DEF Draw, TypeOK
  <2>2. starter' \in [Conns -> {"off", "build", "register", "check", "done"}]
    BY <1>3 DEF TypeOK
  <2> QED
    BY <1>2, <1>3, <2>1, <2>2 DEF TypeOK, wire, platform
<1>5. LatestInv'
  BY <1>3 DEF LatestInv, wire
<1>6. OrderInv'
  BY <1>2, <1>3, ConnsFacts DEF OrderInv, wire
<1>7. AuthInv'
  BY <1>2, <1>3, QuietWire DEF AuthInv, wire, platform
<1> QED
  BY <1>4, <1>5, <1>6, <1>7

\* The loops of a connection begin when the present device is online; if that
\* is another connection's, theirs is dead.
LEMMA CheckStatusLemma ==
    ASSUME IInv, NEW c \in Conns, CheckStatus(c)
    PROVE  IInv'
<1> USE DEF IInv
<1>1. /\ starter[c] = "check" /\ device.status = "online"
      /\ UNCHANGED <<conn, reading, device, cancelled, wire, platform, faults>>
      /\ \A x \in Conns : /\ starter'[x] = IF x = c THEN "done" ELSE starter[x]
                          /\ beat'[x] = IF x = c THEN "send" ELSE beat[x]
                          /\ report'[x] = IF x = c THEN "send" ELSE report[x]
  BY DEF CheckStatus, TypeOK
<1>2. device # None /\ device.conn \in authed
  BY <1>1 DEF OrderInv, AuthInv
<1>3. c \in authed \/ c \notin alive
  BY <1>1, <1>2 DEF LatestInv, OrderInv
<1>4. TypeOK'
  BY <1>1 DEF CheckStatus, TypeOK, LoopSteps, wire, platform
<1>5. LatestInv'
  BY <1>1 DEF LatestInv, wire
<1>6. OrderInv'
  BY <1>1 DEF OrderInv, wire
<1>7. AuthInv'
  BY <1>1, <1>3, QuietWire DEF AuthInv, wire, platform
<1> QED
  BY <1>4, <1>5, <1>6, <1>7

LEMMA WakeLemma ==
    ASSUME IInv, NEW c \in Conns, HeartbeatWakes(c) \/ ReportWakes(c)
    PROVE  IInv'
<1> USE DEF IInv
<1>1. /\ UNCHANGED <<conn, reading, device, cancelled, starter, wire, platform, faults>>
      /\ \A x \in Conns : /\ beat'[x] = "off" <=> beat[x] = "off"
                          /\ report'[x] = "off" <=> report[x] = "off"
  BY DEF HeartbeatWakes, ReportWakes, TypeOK
<1>2. TypeOK'
  BY <1>1 DEF HeartbeatWakes, ReportWakes, TypeOK, LoopSteps, wire, platform
<1>3. LatestInv'
  BY <1>1 DEF LatestInv, wire
<1>4. OrderInv'
  BY <1>1 DEF OrderInv, wire
<1>5. AuthInv'
  BY <1>1, QuietWire DEF AuthInv, wire, platform
<1> QED
  BY <1>2, <1>3, <1>4, <1>5

LEMMA ReadEOFLemma ==
    ASSUME IInv, ReadEOF
    PROVE  IInv'
<1> USE DEF IInv
<1>1. /\ reading /\ conn \notin alive /\ reading' = FALSE /\ cancelled' = cancelled \cup {conn}
      /\ UNCHANGED <<conn, device, starter, beat, report, wire, platform, faults>>
  BY DEF ReadEOF
<1>2. TypeOK'
  <2>1. conn \in 1..conn
    BY <1>1, ConnsFacts DEF LatestInv
  <2> QED
    BY <1>1, <2>1 DEF TypeOK, wire, platform
<1>3. LatestInv'
  BY <1>1 DEF LatestInv, wire
<1>4. OrderInv'
  BY <1>1 DEF OrderInv, wire
<1>5. AuthInv'
  BY <1>1, QuietWire DEF AuthInv, wire, platform
<1> QED
  BY <1>2, <1>3, <1>4, <1>5

-----------------------------------------------------------------------------
(* The terminal: what it sends.                                            *)

\* Sending m on connection c puts m last in the queue, or loses it.
LEMMA SendFacts ==
    ASSUME TypeOK, AuthInv, NEW c \in Conns, NEW m \in ToPlatform, Send(c, m),
           c \in alive => m \in UpTo(c)
    PROVE  /\ toPlatform' \in [Conns -> Seq(ToPlatform)]
           /\ \A x \in Conns : x # c \/ c \notin alive => toPlatform'[x] = toPlatform[x]
           /\ \A x \in Conns : toPlatform'[x] \in Seq(UpTo(x))
<1>1. CASE c \notin alive
  BY <1>1 DEF Send, TypeOK, AuthInv
<1>2. CASE c \in alive
  <2>1. toPlatform' = [toPlatform EXCEPT ![c] = Append(toPlatform[c], m)]
    BY <1>2 DEF Send
  <2>2. Append(toPlatform[c], m) \in Seq(UpTo(c)) /\ Append(toPlatform[c], m) \in Seq(ToPlatform)
    BY <1>2, SeqFacts, AllowedTyped DEF AuthInv
  <2> HIDE DEF UpTo
  <2> QED
    BY <1>2, <2>1, <2>2 DEF TypeOK, AuthInv
<1> QED
  BY <1>1, <1>2

\* A step that only sends, and leaves the goroutines off that are off
LEMMA SendStep ==
    ASSUME IInv, NEW c \in Conns, NEW m \in ToPlatform, Send(c, m),
           c \in alive => m \in UpTo(c) /\ starter[c] # "build",
           UNCHANGED <<conn, reading, device, cancelled, alive, toTerminal, platform, faults>>,
           starter' \in [Conns -> {"off", "build", "register", "check", "done"}],
           beat' \in [Conns -> LoopSteps], report' \in [Conns -> LoopSteps],
           \A x \in Conns : /\ starter'[x] = starter[x] \/ (starter[x] = "register" /\ starter'[x] = "check")
                            /\ beat'[x] = "off" <=> beat[x] = "off"
                            /\ report'[x] = "off" <=> report[x] = "off"
    PROVE  IInv'
<1> USE DEF IInv
<1>1. /\ toPlatform' \in [Conns -> Seq(ToPlatform)]
      /\ \A x \in Conns : x # c \/ c \notin alive => toPlatform'[x] = toPlatform[x]
      /\ \A x \in Conns : toPlatform'[x] \in Seq(UpTo(x))
  BY SendFacts
<1>2. TypeOK'
  BY <1>1 DEF TypeOK, platform
<1>3. LatestInv'
  BY DEF LatestInv
<1>4. c \in alive => ~(c > conn)
  BY ConnsFacts DEF LatestInv
<1>5. OrderInv'
  BY <1>1, <1>4 DEF OrderInv
<1>6. AuthInv'
  <2>1. authed' = authed
    BY DEF platform
  <2>2. \A x \in Conns : toPlatform'[x] \in Seq(UpTo(x)') /\ toTerminal'[x] \in Seq(DownFrom(x)')
    BY <1>1, <2>1, AllowedGrow DEF AuthInv
  <2> QED
    BY <2>1, <2>2 DEF AuthInv
<1> QED
  BY <1>2, <1>3, <1>5, <1>6

LEMMA SendRegisterLemma ==
    ASSUME IInv, NEW c \in Conns, SendRegister(c)
    PROVE  IInv'
<1> DEFINE m == [kind |-> "register", who |-> device.who]
<1>1. device \in Device /\ device.who \in Identities
  BY DEF SendRegister, IInv, OrderInv, TypeOK, Device
<1>2. m \in ToPlatform /\ m \in UpTo(c)
  BY <1>1 DEF ToPlatform, UpTo
<1>3. Send(c, m)
  BY DEF SendRegister
<1>4. /\ starter[c] = "register"
      /\ UNCHANGED <<conn, reading, device, cancelled, beat, report, alive, toTerminal, platform, faults>>
      /\ starter' \in [Conns -> {"off", "build", "register", "check", "done"}]
      /\ \A x \in Conns : starter'[x] = IF x = c THEN "check" ELSE starter[x]
  BY DEF SendRegister, IInv, TypeOK
<1>5. beat' \in [Conns -> LoopSteps] /\ report' \in [Conns -> LoopSteps]
  BY <1>4 DEF IInv, TypeOK
<1>6. /\ UNCHANGED <<conn, reading, device, cancelled, alive, toTerminal, platform, faults>>
      /\ \A x \in Conns : /\ starter'[x] = starter[x] \/ (starter[x] = "register" /\ starter'[x] = "check")
                          /\ beat'[x] = "off" <=> beat[x] = "off"
                          /\ report'[x] = "off" <=> report[x] = "off"
  BY <1>4
<1> HIDE DEF m
<1> QED
  BY <1>2, <1>3, <1>4, <1>5, <1>6, SendStep

\* The loops of a connection that is alive run only if it is authenticated.
LEMMA SendHeartbeatLemma ==
    ASSUME IInv, NEW c \in Conns, SendHeartbeat(c)
    PROVE  IInv'
<1> DEFINE m == [kind |-> "heartbeat"]
<1>1. beat[c] = "send"
  BY DEF SendHeartbeat
<1>2. m \in ToPlatform /\ (c \in alive => m \in UpTo(c) /\ starter[c] # "build")
  BY <1>1 DEF ToPlatform, UpTo, IInv, AuthInv, OrderInv
<1>3. Send(c, m)
  BY DEF SendHeartbeat
<1>4. /\ UNCHANGED <<conn, reading, device, cancelled, starter, report, alive, toTerminal, platform, faults>>
      /\ beat' \in [Conns -> LoopSteps]
      /\ \A x \in Conns : beat'[x] = IF x = c THEN "sleep" ELSE beat[x]
  BY DEF SendHeartbeat, IInv, TypeOK, LoopSteps
<1>5. /\ starter' \in [Conns -> {"off", "build", "register", "check", "done"}]
      /\ report' \in [Conns -> LoopSteps]
  BY <1>4 DEF IInv, TypeOK
<1>6. /\ UNCHANGED <<conn, reading, device, cancelled, alive, toTerminal, platform, faults>>
      /\ \A x \in Conns : /\ starter'[x] = starter[x] \/ (starter[x] = "register" /\ starter'[x] = "check")
                          /\ beat'[x] = "off" <=> beat[x] = "off"
                          /\ report'[x] = "off" <=> report[x] = "off"
  BY <1>1, <1>4
<1> HIDE DEF m
<1> QED
  BY <1>2, <1>3, <1>4, <1>5, <1>6, SendStep

LEMMA SendPositionLemma ==
    ASSUME IInv, NEW c \in Conns, SendPosition(c)
    PROVE  IInv'
<1> DEFINE m == [kind |-> "position"]
<1>1. report[c] = "send"
  BY DEF SendPosition
<1>2. m \in ToPlatform /\ (c \in alive => m \in UpTo(c) /\ starter[c] # "build")
  BY <1>1 DEF ToPlatform, UpTo, IInv, AuthInv, OrderInv
<1>3. /\ UNCHANGED <<conn, reading, device, cancelled, starter, beat, alive, toTerminal, platform, faults>>
      /\ report' \in [Conns -> LoopSteps]
      /\ \A x \in Conns : report'[x] = IF x = c THEN "sleep" ELSE report[x]
  BY DEF SendPosition, IInv, TypeOK, LoopSteps
<1>4. /\ starter' \in [Conns -> {"off", "build", "register", "check", "done"}]
      /\ beat' \in [Conns -> LoopSteps]
  BY <1>3 DEF IInv, TypeOK
<1>5. CASE HasPosition
  <2>1. Send(c, m)
    BY <1>5 DEF SendPosition
  <2>2. /\ UNCHANGED <<conn, reading, device, cancelled, alive, toTerminal, platform, faults>>
        /\ \A x \in Conns : /\ starter'[x] = starter[x] \/ (starter[x] = "register" /\ starter'[x] = "check")
                            /\ beat'[x] = "off" <=> beat[x] = "off"
                            /\ report'[x] = "off" <=> report[x] = "off"
    BY <1>1, <1>3
  <2> HIDE DEF m
  <2> QED
    BY <1>2, <1>3, <1>4, <2>1, <2>2, SendStep
<1>6. CASE ~HasPosition
  <2>1. toPlatform' = toPlatform
    BY <1>6 DEF SendPosition
  <2>2. TypeOK'
    BY <1>3, <2>1 DEF IInv, TypeOK, platform
  <2>3. LatestInv' /\ OrderInv'
    BY <1>1, <1>3, <2>1 DEF IInv, LatestInv, OrderInv
  <2>4. AuthInv'
    BY <1>1, <1>3, <2>1, QuietWire DEF IInv, AuthInv, platform
  <2> QED
    BY <2>2, <2>3, <2>4 DEF IInv
<1> QED
  BY <1>5, <1>6

-----------------------------------------------------------------------------
(* The terminal's reader.                                                  *)

\* The message read is one that may be on its way, and the rest still may.
LEMMA ReceiveFacts ==
    ASSUME IInv, NEW kind \in {"registered", "answer"}, Receive(kind)
    PROVE  /\ reading /\ conn \in Conns
           /\ starter[conn] \notin {"off", "build"} /\ device \in Device /\ device.conn = conn
           /\ Head(toTerminal[conn]) \in DownFrom(conn)
           /\ Head(toTerminal[conn]).kind = kind
           /\ toTerminal' \in [Conns -> Seq(ToTerminal)]
           /\ \A x \in Conns : /\ x # conn => toTerminal'[x] = toTerminal[x]
                               /\ toTerminal'[x] \in Seq(DownFrom(x))
<1> USE DEF IInv
<1>1. reading /\ conn \in Conns /\ toTerminal[conn] # <<>>
  BY DEF Receive, LatestInv
<1>2. starter[conn] \notin {"off", "build"} /\ device \in Device /\ device.conn = conn
  BY <1>1 DEF OrderInv, TypeOK
<1>3. toTerminal[conn] \in Seq(DownFrom(conn))
  BY <1>1 DEF AuthInv
<1>4. Head(toTerminal[conn]) \in DownFrom(conn) /\ Tail(toTerminal[conn]) \in Seq(DownFrom(conn))
  BY <1>1, <1>3, SeqFacts
<1>5. Tail(toTerminal[conn]) \in Seq(ToTerminal)
  BY <1>1, <1>4, AllowedTyped
<1>6. /\ toTerminal' = [toTerminal EXCEPT ![conn] = Tail(toTerminal[conn])]
      /\ Head(toTerminal[conn]).kind = kind
  BY DEF Receive
<1> HIDE DEF DownFrom
<1> QED
  BY <1>1, <1>2, <1>4, <1>5, <1>6 DEF TypeOK, AuthInv

LEMMA ProcessMsg8100Lemma ==
    ASSUME IInv, ProcessMsg8100
    PROVE  IInv'
<1> USE DEF IInv
<1> DEFINE m == Head(toTerminal[conn])
           a == [kind |-> "auth", code |-> m.code]
<1>1. Receive("registered")
  BY DEF ProcessMsg8100
<1>2. /\ conn \in Conns /\ starter[conn] \notin {"off", "build"}
      /\ m \in DownFrom(conn) /\ m.kind = "registered"
      /\ toTerminal' \in [Conns -> Seq(ToTerminal)]
      /\ \A x \in Conns : /\ x # conn => toTerminal'[x] = toTerminal[x]
                          /\ toTerminal'[x] \in Seq(DownFrom(x))
  BY <1>1, ReceiveFacts
<1>3. a \in ToPlatform /\ a \in UpTo(conn)
  BY <1>2 DEF DownFrom, UpTo, ToTerminal, ToPlatform
<1>4. Send(conn, a) /\ UNCHANGED <<terminal, alive, platform, faults>>
  BY DEF ProcessMsg8100
<1> HIDE DEF a, m
<1>5. /\ toPlatform' \in [Conns -> Seq(ToPlatform)]
      /\ \A x \in Conns : x # conn => toPlatform'[x] = toPlatform[x]
      /\ \A x \in Conns : toPlatform'[x] \in Seq(UpTo(x))
  BY <1>2, <1>3, <1>4, SendFacts
<1>6. TypeOK'
  BY <1>2, <1>4, <1>5 DEF TypeOK, terminal, platform
<1>7. LatestInv'
  BY <1>4 DEF LatestInv, terminal
<1>8. OrderInv'
  BY <1>2, <1>4, <1>5, ConnsFacts DEF OrderInv, terminal
<1>9. AuthInv'
  <2>1. authed' = authed
    BY <1>4 DEF platform
  <2>2. \A x \in Conns : toPlatform'[x] \in Seq(UpTo(x)') /\ toTerminal'[x] \in Seq(DownFrom(x)')
    BY <1>2, <1>5, <2>1, AllowedGrow
  <2> QED
    BY <1>4, <2>1, <2>2 DEF AuthInv, terminal
<1> QED
  BY <1>6, <1>7, <1>8, <1>9

\* A good answer comes only where the platform has authenticated, and the device
\* is that connection's.
LEMMA ProcessMsg8001Lemma ==
    ASSUME IInv, ProcessMsg8001
    PROVE  IInv'
<1> USE DEF IInv
<1> DEFINE m == Head(toTerminal[conn])
<1>1. /\ Receive("answer")
      /\ device' = IF m.ok THEN [device EXCEPT !.status = "online"] ELSE device
      /\ UNCHANGED <<conn, reading, cancelled, starter, beat, report, alive, toPlatform, platform, faults>>
  BY DEF ProcessMsg8001
<1>2. /\ conn \in Conns /\ starter[conn] \notin {"off", "build"}
      /\ device \in Device /\ device.conn = conn
      /\ m \in DownFrom(conn) /\ m.kind = "answer"
      /\ toTerminal' \in [Conns -> Seq(ToTerminal)]
      /\ \A x \in Conns : /\ x # conn => toTerminal'[x] = toTerminal[x]
                          /\ toTerminal'[x] \in Seq(DownFrom(x))
  BY <1>1, ReceiveFacts
<1>3. m.ok => conn \in authed
  BY <1>2 DEF DownFrom
<1> HIDE DEF m
<1>4. device' \in Device /\ device' # None /\ device'.conn = conn
  BY <1>1, <1>2, NoneAssumption DEF Device
<1>5. device'.status = "online" => conn \in authed
  <2>1. CASE m.ok
    BY <1>3, <2>1
  <2>2. CASE ~m.ok
    BY <1>1, <1>2, <2>2, NoneAssumption DEF AuthInv
  <2> QED
    BY <2>1, <2>2
<1>6. TypeOK'
  BY <1>1, <1>2, <1>4 DEF TypeOK, platform
<1>7. LatestInv'
  BY <1>1 DEF LatestInv
<1>8. OrderInv'
  BY <1>1, <1>2, <1>4, ConnsFacts DEF OrderInv
<1>9. AuthInv'
  <2>1. authed' = authed
    BY <1>1 DEF platform
  <2>2. \A x \in Conns : toPlatform'[x] \in Seq(UpTo(x)') /\ toTerminal'[x] \in Seq(DownFrom(x)')
    BY <1>1, <1>2, <2>1, AllowedGrow DEF AuthInv
  <2> QED
    BY <1>1, <1>4, <1>5, <2>1, <2>2 DEF AuthInv
<1> QED
  BY <1>6, <1>7, <1>8, <1>9

-----------------------------------------------------------------------------
(* The platform.                                                           *)

\* What a handler takes is a message that may be on its way, so the connection
\* has been used, and its device has been built.
LEMMA TakeFacts ==
    ASSUME IInv, NEW c \in Conns, toPlatform[c] # <<>>
    PROVE  /\ c \in 1..conn /\ ~(c > conn) /\ starter[c] # "build"
           /\ Head(toPlatform[c]) \in UpTo(c)
           /\ Tail(toPlatform[c]) \in Seq(UpTo(c))
           /\ Tail(toPlatform[c]) \in Seq(ToPlatform)
<1>1. ~(c > conn) /\ starter[c] # "build"
  BY DEF IInv, OrderInv
<1>2. c \in 1..conn
  BY <1>1, ConnsFacts DEF IInv
<1>3. toPlatform[c] \in Seq(UpTo(c))
  BY DEF IInv, AuthInv
<1>4. Head(toPlatform[c]) \in UpTo(c) /\ Tail(toPlatform[c]) \in Seq(UpTo(c))
  BY <1>3, SeqFacts
<1> QED
  BY <1>1, <1>2, <1>4, AllowedTyped

\* A handler that answers a message
LEMMA AnswerStep ==
    ASSUME IInv, NEW c \in Conns, toPlatform[c] # <<>>, NEW m \in ToTerminal, Answer(c, m),
           m.kind = "answer" /\ m.ok => c \in authed',
           authed \subseteq authed', authed' \subseteq authed \cup {c},
           reg' \in Registration \cup {None},
           UNCHANGED <<terminal, faults>>
    PROVE  IInv'
<1>1. /\ c \in 1..conn /\ ~(c > conn) /\ starter[c] # "build"
      /\ Tail(toPlatform[c]) \in Seq(UpTo(c)) /\ Tail(toPlatform[c]) \in Seq(ToPlatform)
  BY TakeFacts
<1>2. /\ toPlatform' = [toPlatform EXCEPT ![c] = Tail(toPlatform[c])]
      /\ toTerminal' = [toTerminal EXCEPT ![c] = Append(toTerminal[c], m)]
      /\ alive' = alive
  BY DEF Answer
<1>3. m \in DownFrom(c)'
  BY DEF DownFrom
<1>4. toTerminal[c] \in Seq(DownFrom(c)')
  BY AllowedGrow DEF IInv, AuthInv
<1>5. Append(toTerminal[c], m) \in Seq(DownFrom(c)')
  BY <1>3, <1>4, SeqFacts
<1>6. toTerminal[c] \in Seq(ToTerminal)
  BY DEF IInv, TypeOK
<1>7. Append(toTerminal[c], m) \in Seq(ToTerminal)
  BY <1>6, SeqFacts
<1>8. TypeOK'
  <2>1. /\ toPlatform' \in [Conns -> Seq(ToPlatform)]
        /\ toTerminal' \in [Conns -> Seq(ToTerminal)]
    BY <1>1, <1>2, <1>7 DEF IInv, TypeOK
  <2> QED
    BY <1>1, <1>2, <2>1 DEF IInv, TypeOK, terminal
<1>9. LatestInv'
  BY <1>2 DEF IInv, LatestInv, terminal
<1>10. \A x \in Conns : x # c => toPlatform'[x] = toPlatform[x] /\ toTerminal'[x] = toTerminal[x]
  BY <1>2 DEF IInv, TypeOK
<1>11. OrderInv'
  BY <1>1, <1>10 DEF IInv, OrderInv, terminal
<1>12. AuthInv'
  <2>1. toPlatform'[c] = Tail(toPlatform[c]) /\ toTerminal'[c] = Append(toTerminal[c], m)
    BY <1>2 DEF IInv, TypeOK
  <2>2. \A x \in Conns : toPlatform'[x] \in Seq(UpTo(x)') /\ toTerminal'[x] \in Seq(DownFrom(x)')
    BY <1>1, <1>5, <1>10, <2>1, AllowedGrow DEF IInv, AuthInv
  <2>3. \A x \in Conns : beat'[x] # "off" \/ report'[x] # "off" => x \in authed' \/ x \notin alive'
    BY <1>2 DEF IInv, AuthInv, terminal
  <2>4. device' # None /\ device'.status = "online" => device'.conn \in authed'
    BY DEF IInv, AuthInv, terminal
  <2> QED
    BY <2>2, <2>3, <2>4 DEF AuthInv
<1> QED
  BY <1>8, <1>9, <1>11, <1>12 DEF IInv

LEMMA ProcessMsg0100Lemma ==
    ASSUME IInv, NEW c \in Conns, ProcessMsg0100(c)
    PROVE  IInv'
<1> DEFINE who == Head(toPlatform[c]).who
<1>1. /\ toPlatform[c] # <<>> /\ Head(toPlatform[c]).kind = "register"
      /\ UNCHANGED <<terminal, authed, faults>>
  BY DEF ProcessMsg0100, Take
<1>2. who \in Identities
  BY <1>1, TakeFacts DEF UpTo, ToPlatform
<1>3. \A result \in {0, 1, 3}, code \in Codes :
         Registered(result, code) \in ToTerminal /\ Registered(result, code).kind # "answer"
  BY DEF Registered, ToTerminal
<1>4. reg # None => reg.who \in Codes
  BY DEF IInv, TypeOK, Registration, Codes
<1>5. [who |-> who, conn |-> c] \in Registration
  BY <1>2 DEF Registration
<1>6. /\ reg' \in Registration \cup {None}
      /\ \E result \in {0, 1, 3}, code \in Codes : Answer(c, Registered(result, code))
  <2>1. CASE who.plate \in Taken
    BY <2>1 DEF ProcessMsg0100, IInv, TypeOK, Codes
  <2>2. CASE who.plate \notin Taken /\ reg # None
    BY <2>2, <1>4 DEF ProcessMsg0100, IInv, TypeOK
  <2>3. CASE who.plate \notin Taken /\ reg = None
    BY <2>3, <1>2, <1>5 DEF ProcessMsg0100, Codes
  <2> QED
    BY <2>1, <2>2, <2>3
<1>7. PICK result \in {0, 1, 3}, code \in Codes : Answer(c, Registered(result, code))
  BY <1>6
<1> HIDE DEF who
<1> QED
  BY <1>1, <1>3, <1>6, <1>7, AnswerStep

LEMMA ProcessMsg0102Lemma ==
    ASSUME IInv, NEW c \in Conns, ProcessMsg0102(c)
    PROVE  IInv'
<1> DEFINE ok == Head(toPlatform[c]).code = reg.who
           m == [kind |-> "answer", ok |-> ok]
<1>1. /\ toPlatform[c] # <<>> /\ Answer(c, m)
      /\ reg' = IF ok THEN reg ELSE None
      /\ authed' = IF ok THEN authed \cup {c} ELSE authed
      /\ UNCHANGED <<terminal, faults>>
  BY DEF ProcessMsg0102, Take
<1>2. ok \in BOOLEAN
  OBVIOUS
<1>3. m \in ToTerminal /\ m.ok = ok
  BY <1>2 DEF ToTerminal
<1>4. reg \in Registration \cup {None}
  BY DEF IInv, TypeOK
<1> HIDE DEF m, ok
<1>5. /\ reg' \in Registration \cup {None}
      /\ authed \subseteq authed' /\ authed' \subseteq authed \cup {c}
      /\ ok => c \in authed'
  BY <1>1, <1>4
<1> QED
  BY <1>1, <1>3, <1>5, AnswerStep

\* What is reported has been authenticated already.
LEMMA ProcessReportLemma ==
    ASSUME IInv, NEW c \in Conns, ProcessReport(c)
    PROVE  IInv'
<1> DEFINE m == [kind |-> "answer", ok |-> TRUE]
<1>1. /\ toPlatform[c] # <<>> /\ Answer(c, m)
      /\ Head(toPlatform[c]).kind \in {"heartbeat", "position"}
      /\ UNCHANGED <<terminal, platform, faults>>
  BY DEF ProcessReport, Take
<1>2. m \in ToTerminal
  BY DEF ToTerminal
<1>3. c \in authed
  BY <1>1, TakeFacts DEF UpTo
<1>4. reg' \in Registration \cup {None} /\ authed' = authed
  BY <1>1 DEF platform, IInv, TypeOK
<1> HIDE DEF m
<1> QED
  BY <1>1, <1>2, <1>3, <1>4, AnswerStep

\* A connection that is closed or cut loses what the terminal sent.
LEMMA CloseStep ==
    ASSUME IInv, NEW c \in Conns, Close(c),
           toTerminal' \in [Conns -> Seq(ToTerminal)],
           \A x \in Conns : toTerminal'[x] \in {toTerminal[x], <<>>},
           reg' \in Registration \cup {None}, faults' \in 0..MaxFaults,
           UNCHANGED <<terminal, authed>>
    PROVE  IInv'
<1>1. alive' \subseteq alive /\ toPlatform' = [toPlatform EXCEPT ![c] = <<>>]
  BY DEF Close
<1>2. <<>> \in Seq(ToPlatform) /\ \A x \in Conns : <<>> \in Seq(UpTo(x)) /\ <<>> \in Seq(DownFrom(x))
  OBVIOUS
<1>3. toPlatform' \in [Conns -> Seq(ToPlatform)]
  BY <1>1, <1>2 DEF IInv, TypeOK
<1>4. \A x \in Conns : toPlatform'[x] \in {toPlatform[x], <<>>}
  BY <1>1 DEF IInv, TypeOK
<1>5. TypeOK'
  BY <1>1, <1>3 DEF IInv, TypeOK, terminal
<1>6. LatestInv'
  BY <1>1 DEF IInv, LatestInv, terminal
<1>7. OrderInv'
  BY <1>4 DEF IInv, OrderInv, terminal
<1>8. AuthInv'
  <2>1. \A x \in Conns : toPlatform'[x] \in Seq(UpTo(x)) /\ toTerminal'[x] \in Seq(DownFrom(x))
    BY <1>2, <1>4 DEF IInv, AuthInv
  <2>2. \A x \in Conns : toPlatform'[x] \in Seq(UpTo(x)') /\ toTerminal'[x] \in Seq(DownFrom(x)')
    BY <2>1, AllowedGrow
  <2>3. \A x \in Conns : beat'[x] # "off" \/ report'[x] # "off" => x \in authed' \/ x \notin alive'
    BY <1>1 DEF IInv, AuthInv, terminal
  <2>4. device' # None /\ device'.status = "online" => device'.conn \in authed'
    BY DEF IInv, AuthInv, terminal
  <2> QED
    BY <2>2, <2>3, <2>4 DEF AuthInv
<1> QED
  BY <1>5, <1>6, <1>7, <1>8 DEF IInv

LEMMA ClosingLemma ==
    ASSUME IInv, NEW c \in Conns, DeviceNotFound(c) \/ Cut(c)
    PROVE  IInv'
<1>1. toTerminal \in [Conns -> Seq(ToTerminal)] /\ reg \in Registration \cup {None} /\ faults \in 0..MaxFaults
  BY DEF IInv, TypeOK
<1>2. Close(c) /\ UNCHANGED <<terminal, reg, authed>>
  BY DEF DeviceNotFound, Cut, platform
<1>3. toTerminal' = toTerminal \/ toTerminal' = [toTerminal EXCEPT ![c] = <<>>]
  BY DEF DeviceNotFound, Cut
<1>4. <<>> \in Seq(ToTerminal)
  OBVIOUS
<1>5. /\ toTerminal' \in [Conns -> Seq(ToTerminal)]
      /\ \A x \in Conns : toTerminal'[x] \in {toTerminal[x], <<>>}
  BY <1>1, <1>3, <1>4
<1>6. faults' \in 0..MaxFaults
  BY <1>1, ConnsFacts DEF DeviceNotFound, Cut, IInv
<1> QED
  BY <1>1, <1>2, <1>5, <1>6, CloseStep

LEMMA ClearLemma ==
    ASSUME IInv, Clear
    PROVE  IInv'
<1>1. reg \in Registration /\ reg.conn \in Conns
  BY DEF Clear, IInv, TypeOK, Registration
<1>2. /\ Close(reg.conn) /\ reg' = None /\ toTerminal' = toTerminal
      /\ faults < MaxFaults /\ faults' = faults + 1
      /\ UNCHANGED <<terminal, authed>>
  BY DEF Clear
<1>3. faults' \in 0..MaxFaults
  BY <1>2, ConnsFacts DEF IInv
<1>4. toTerminal' \in [Conns -> Seq(ToTerminal)]
  BY <1>2 DEF IInv, TypeOK
<1> QED
  BY <1>1, <1>2, <1>3, <1>4, CloseStep

-----------------------------------------------------------------------------
LEMMA NextLemma == IInv /\ [Next]_vars => IInv'
<1> SUFFICES ASSUME IInv, [Next]_vars PROVE IInv'
  OBVIOUS
<1>1. CASE UNCHANGED vars
  <2>1. UNCHANGED <<toPlatform, toTerminal, authed>>
    BY <1>1 DEF vars
  <2>2. AuthInv'
    BY <1>1, <2>1, QuietWire DEF vars, IInv, AuthInv
  <2> QED
    BY <1>1, <2>2 DEF vars, IInv, TypeOK, LatestInv, OrderInv
<1>2. CASE Dial \/ Reader \/ Clear
  BY <1>2, DialLemma, ProcessMsg8100Lemma, ProcessMsg8001Lemma, ReadEOFLemma, ClearLemma DEF Reader
<1>3. ASSUME NEW c \in Conns, Starter(c)
      PROVE  IInv'
  BY <1>3, BuildDeviceLemma, SendRegisterLemma, CheckStatusLemma DEF Starter
<1>4. ASSUME NEW c \in Conns, Heartbeats(c) \/ Reports(c)
      PROVE  IInv'
  BY <1>4, SendHeartbeatLemma, SendPositionLemma, WakeLemma DEF Heartbeats, Reports
<1>5. ASSUME NEW c \in Conns, Handle(c) \/ Cut(c)
      PROVE  IInv'
  BY <1>5, ProcessMsg0100Lemma, ProcessMsg0102Lemma, ProcessReportLemma, ClosingLemma DEF Handle
<1> QED
  BY <1>1, <1>2, <1>3, <1>4, <1>5 DEF Next

\* In every state only the latest connection is alive, nothing is ahead of it, and reports
\* and good answers are under way only where the platform has authenticated the client.
THEOREM Invariance == Spec => []IInv
BY InitLemma, NextLemma, PTL DEF Spec

\* Every variable of the terminal, of the platform and of the connections between
\* them keeps its type, for any number of faults and any identities.
THEOREM TypeCorrect == Spec => []TypeOK
<1>1. IInv => TypeOK
  BY DEF IInv
<1> QED
  BY <1>1, Invariance, PTL

\* However many connections were cut before, and whatever their goroutines and
\* answers still do, the terminal takes itself to be online only on a connection
\* on which the platform has authenticated it.
THEOREM OnlineMeansAuthenticated == Spec => []OnlineAuthenticated
<1>1. IInv => OnlineAuthenticated
  BY DEF IInv, AuthInv, OnlineAuthenticated
<1> QED
  BY <1>1, Invariance, PTL

\* No loop of the client, neither of this connection nor of an earlier one, puts a
\* heartbeat or a position on a connection before it is authenticated.
THEOREM ReportsAreAuthenticated == Spec => []NothingBeforeAuth
<1>1. IInv => NothingBeforeAuth
  <2> SUFFICES ASSUME IInv, NEW c \in Conns, NEW k \in 1..Len(toPlatform[c])
               PROVE  toPlatform[c][k].kind \in {"heartbeat", "position"} => c \in authed
    BY DEF NothingBeforeAuth
  <2>1. toPlatform[c][k] \in UpTo(c)
    BY SeqFacts DEF IInv, AuthInv
  <2> QED
    BY <2>1 DEF UpTo
<1> QED
  BY <1>1, Invariance, PTL
=============================================================================
