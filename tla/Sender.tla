------------------------------- MODULE Sender -------------------------------
(***************************************************************************)
(* Messages the platform sends to terminals and the answers that call      *)
(* back.  A caller takes a serial number from the device's session and     *)
(* appends the message; one sender goroutine writes the queue out, holding *)
(* the Sender's mutex over all its network writes; the serve goroutines    *)
(* hand each answer to ProcResponse, which calls back under the same mutex.*)
(* The synchronous Send writes a message itself, without queue, mutex and  *)
(* callback, but its answer reaches ProcResponse like any other.           *)
(* Devices, sessions and connections come and go meanwhile: what they look *)
(* like to the Sender is modelled here, Devices.tla has their handlers.    *)
(***************************************************************************)
EXTENDS Naturals, Sequences, FiniteSets, Functions

CONSTANTS
    Phones,     \* the terminals
    Reqs,       \* the messages that callers send, each once
    Direct,     \* those of them sent by the synchronous Send
    PhoneOf,    \* PhoneOf[r]: the device r is for
    MsgIdOf,    \* MsgIdOf[r]: its message id
    Sessions,   \* bound: sessions there will ever be
    MaxSerial,  \* largest serial number, 65535 in the code
    Cap,        \* bound: messages a connection holds before a write blocks
    None        \* no session

ASSUME ReqsAssumption == PhoneOf \in [Reqs -> Phones] /\ DOMAIN MsgIdOf = Reqs
ASSUME DirectAssumption == Direct \subseteq Reqs
ASSUME BoundsAssumption == MaxSerial \in Nat \ {0} /\ Cap \in Nat \ {0}
ASSUME NoneAssumption == None \notin Sessions

VARIABLES
    device,   \* device[ph]: SessionID of the device cached under ph, or None
    cached,   \* sessions in the session cache
    open,     \* sessions whose connection the server has not closed
    served,   \* sessions with a serve goroutine
    used,     \* sessions there have been
    counter,  \* counter[s]: Session.serialNumber
    state,    \* state[r]: how far r has come, see States
    serial,   \* serial[r]: the serial number in the header of r
    session,  \* session[r]: the session the caller of r has found, or None
    sending,  \* Sender.Sending
    waiting,  \* the requests filed in Sender.Waiting
    pos,      \* index of the loop in send, 0 while the mutex is free
    target,   \* the session the loop is about to write to, or None
    down,     \* down[s]: requests written to the connection, not yet read
    up,       \* up[s]: answers of the terminal, not yet read
    written,  \* history: the requests written, in that order
    answers   \* history: answers[r]: how often the callback of r was called

link   == <<device, cached, open, served, used>>
caller == <<counter, state, serial, session>>
loop   == <<pos, target>>
wire   == <<down, up>>
vars   == <<device, cached, open, served, used, counter, state, serial, session, sending, waiting,
            pos, target, down, up, written, answers>>

States == {"new", "wrapping", "reset", "numbered",  \* GetNextSerialNum
           "queued", "refused", "called",            \* SendV2
           "sending", "sent", "dropped"}             \* Send
InHand == {"wrapping", "reset", "numbered", "sending"}
Key(r) == <<PhoneOf[r], MsgIdOf[r], serial[r]>>
MutexFree == pos = 0

TypeOK ==
    /\ device \in [Phones -> Sessions \cup {None}]
    /\ cached \subseteq served /\ open \subseteq served
    /\ served \subseteq used /\ used \subseteq Sessions
    /\ counter \in [Sessions -> Nat]
    /\ state \in [Reqs -> States]
    /\ serial \in [Reqs -> 0..MaxSerial]
    /\ session \in [Reqs -> Sessions \cup {None}]
    /\ \A r \in Reqs : state[r] \in InHand => session[r] # None
    /\ sending \in Seq(Reqs)
    /\ waiting \subseteq Reqs
    /\ pos \in 0..Len(sending) + 1
    /\ target \in Sessions \cup {None}
    /\ down \in [Sessions -> Seq(Reqs)]
    /\ up \in [Sessions -> Seq(Reqs)]
    /\ written \in Seq(Reqs)
    /\ answers \in [Reqs -> Nat]

Init ==
    /\ device = [ph \in Phones |-> None]
    /\ cached = {} /\ open = {} /\ served = {} /\ used = {}
    /\ counter = [s \in Sessions |-> 0]
    /\ state = [r \in Reqs |-> "new"]
    /\ serial = [r \in Reqs |-> 0]
    /\ session = [r \in Reqs |-> None]
    /\ sending = <<>>
    /\ waiting = {}
    /\ pos = 0 /\ target = None
    /\ down = [s \in Sessions |-> <<>>]
    /\ up = [s \in Sessions |-> <<>>]
    /\ written = <<>>
    /\ answers = [r \in Reqs |-> 0]

-----------------------------------------------------------------------------
(* The device comes and goes (Devices.tla).                                *)

\* The terminal connects and registers.
Register(ph, s) ==
    /\ device[ph] = None
    /\ s \notin used
    /\ device' = [device EXCEPT ![ph] = s]
    /\ cached' = cached \cup {s}
    /\ open' = open \cup {s}
    /\ served' = served \cup {s}
    /\ used' = used \cup {s}
    /\ UNCHANGED <<caller, sending, waiting, loop, wire, written, answers>>

\* The device leaves the cache: logout, failed authentication, or cleared.
Unregister(ph) ==
    /\ device[ph] # None
    /\ device' = [device EXCEPT ![ph] = None]
    /\ UNCHANGED <<cached, open, served, used, caller, sending, waiting, loop, wire, written, answers>>

\* The keepalive check closes the connection, serve will find out.
CloseConn(s) ==
    /\ s \in open
    /\ open' = open \ {s}
    /\ UNCHANGED <<device, cached, served, used, caller, sending, waiting, loop, wire, written, answers>>

\* serve ends: what the terminal has sent and nobody has read is lost.
RemoveSession(s) ==
    /\ s \in served
    /\ served' = served \ {s}
    /\ open' = open \ {s}
    /\ cached' = cached \ {s}
    /\ down' = [down EXCEPT ![s] = <<>>]
    /\ up' = [up EXCEPT ![s] = <<>>]
    /\ UNCHANGED <<device, used, caller, sending, waiting, loop, written, answers>>

-----------------------------------------------------------------------------
(* A caller of SendV2 or Send.                                             *)

(* GetNextSerialNum: the increment and the reset are atomic, the function   *)
(* is not, and the last read is a plain load.  A caller keeps the session   *)
(* it has found, even if that leaves the cache.                             *)

Increment(r) ==
    LET s == device[PhoneOf[r]] IN
    /\ state[r] = "new"
    /\ s \in cached
    /\ session' = [session EXCEPT ![r] = s]
    /\ counter' = [counter EXCEPT ![s] = @ + 1]
    /\ \/ /\ counter[s] < MaxSerial
          /\ serial' = [serial EXCEPT ![r] = counter[s] + 1]
          /\ state' = [state EXCEPT ![r] = "numbered"]
       \/ /\ counter[s] >= MaxSerial
          /\ state' = [state EXCEPT ![r] = "wrapping"]
          /\ UNCHANGED serial
    /\ UNCHANGED <<link, sending, waiting, loop, wire, written, answers>>

Reset(r) ==
    /\ state[r] = "wrapping"
    /\ counter' = [counter EXCEPT ![session[r]] = 0]
    /\ state' = [state EXCEPT ![r] = "reset"]
    /\ UNCHANGED <<link, serial, session, sending, waiting, loop, wire, written, answers>>

\* By now others may have incremented again; uint16 cuts the number off.
Load(r) ==
    /\ state[r] = "reset"
    /\ serial' = [serial EXCEPT ![r] = counter[session[r]] % (MaxSerial + 1)]
    /\ state' = [state EXCEPT ![r] = "numbered"]
    /\ UNCHANGED <<link, counter, session, sending, waiting, loop, wire, written, answers>>

Number(r) == Increment(r) \/ Reset(r) \/ Load(r)

\* The caller is done with r and forgets the session.
Done(r, st) ==
    /\ state' = [state EXCEPT ![r] = st]
    /\ session' = [session EXCEPT ![r] = None]

(* SendV2.                                                                 *)

\* Fault: Append does not look for the key.
FaultyNeverTaken(r) == FALSE

Taken(r) == \E q \in waiting : Key(q) = Key(r)

AppendRequest(r) ==
    /\ state[r] = "numbered"
    /\ MutexFree
    /\ ~Taken(r)
    /\ waiting' = waiting \cup {r}
    /\ sending' = Append(sending, r)
    /\ Done(r, "queued")
    /\ UNCHANGED <<link, counter, serial, loop, wire, written, answers>>

RefuseRequest(r) ==
    /\ state[r] = "numbered"
    /\ MutexFree
    /\ Taken(r)
    /\ Done(r, "refused")
    /\ UNCHANGED <<link, counter, serial, sending, waiting, loop, wire, written, answers>>

(* Send.                                                                   *)

\* The session is looked up once more, under its id.
FindSession(r) ==
    /\ state[r] = "numbered"
    /\ \/ /\ session[r] \in cached
          /\ state' = [state EXCEPT ![r] = "sending"]
          /\ UNCHANGED session
       \/ /\ session[r] \notin cached
          /\ Done(r, "dropped")
    /\ UNCHANGED <<link, counter, serial, sending, waiting, loop, wire, written, answers>>

SendMsg(r) ==
    /\ state[r] = "sending"
    /\ session[r] \in open
    /\ Len(down[session[r]]) < Cap
    /\ down' = [down EXCEPT ![session[r]] = Append(@, r)]
    /\ written' = Append(written, r)
    /\ Done(r, "sent")
    /\ UNCHANGED <<link, counter, serial, sending, waiting, loop, up, answers>>

\* net.ErrClosed: remove, as in serve.
SendClosed(r) ==
    /\ state[r] = "sending"
    /\ session[r] \notin open
    /\ cached' = cached \ {session[r]}
    /\ Done(r, "dropped")
    /\ UNCHANGED <<device, open, served, used, counter, serial, sending, waiting, loop, wire, written, answers>>

\* Any other error is only logged.
SendError(r) ==
    /\ state[r] = "sending"
    /\ Done(r, "dropped")
    /\ UNCHANGED <<link, counter, serial, sending, waiting, loop, wire, written, answers>>

Send(r) == FindSession(r) \/ SendMsg(r) \/ SendClosed(r) \/ SendError(r)

-----------------------------------------------------------------------------
(* The sender goroutine.                                                   *)

Finished == pos > Len(sending)

Begin ==
    /\ MutexFree
    /\ sending # <<>>
    /\ pos' = 1
    /\ UNCHANGED <<link, caller, sending, waiting, target, wire, written, answers>>

\* Fault: the loop is repeated without going on to the next message.
FaultyLookupAgain ==
    /\ ~MutexFree /\ ~Finished /\ target = None
    /\ LET s == device[PhoneOf[sending[pos]]] IN
       /\ s \in cached
       /\ target' = s
    /\ UNCHANGED <<link, pos, caller, sending, waiting, wire, written, answers>>

\* The device, then its session, is looked up; a message without is skipped.
Lookup ==
    /\ ~MutexFree /\ ~Finished /\ target = None
    /\ LET s == device[PhoneOf[sending[pos]]] IN
       IF s \in cached
       THEN target' = s /\ UNCHANGED pos
       ELSE pos' = pos + 1 /\ UNCHANGED target
    /\ UNCHANGED <<link, caller, sending, waiting, wire, written, answers>>

Write ==
    /\ target \in open
    /\ Len(down[target]) < Cap
    /\ down' = [down EXCEPT ![target] = Append(@, sending[pos])]
    /\ written' = Append(written, sending[pos])
    /\ pos' = pos + 1
    /\ target' = None
    /\ UNCHANGED <<link, caller, sending, waiting, up, answers>>

\* Whatever the error, the loop breaks.
BreakOff ==
    /\ pos' = Len(sending) + 1
    /\ target' = None

\* net.ErrClosed: the session goes as if serve had ended.
WriteClosed ==
    /\ target # None /\ target \notin open
    /\ cached' = cached \ {target}
    /\ BreakOff
    /\ UNCHANGED <<device, open, served, used, caller, sending, waiting, wire, written, answers>>

\* Any other error: the message cannot be encoded, the terminal is unreachable.
WriteError ==
    /\ target # None
    /\ BreakOff
    /\ UNCHANGED <<link, caller, sending, waiting, wire, written, answers>>

\* Fault: the queue is kept for the next round, sent or not.
FaultyEndKeepsQueue ==
    /\ ~MutexFree /\ Finished
    /\ pos' = 0
    /\ UNCHANGED <<link, caller, sending, waiting, target, wire, written, answers>>

\* Fault: the requests are forgotten with the queue.
FaultyEndForgets ==
    /\ ~MutexFree /\ Finished
    /\ sending' = <<>>
    /\ waiting' = waiting \ Range(sending)
    /\ pos' = 0
    /\ UNCHANGED <<link, caller, target, wire, written, answers>>

\* Fault: the mutex is not released.
FaultyEndKeepsMutex ==
    /\ ~MutexFree /\ Finished
    /\ sending' = <<>>
    /\ UNCHANGED <<link, caller, waiting, loop, wire, written, answers>>

\* The queue is emptied, whatever was left in it.
End ==
    /\ ~MutexFree /\ Finished
    /\ sending' = <<>>
    /\ pos' = 0
    /\ UNCHANGED <<link, caller, waiting, target, wire, written, answers>>

-----------------------------------------------------------------------------
(* Terminal and answer.                                                    *)

\* The terminal reads a message and answers it, or does not.
Answer(s) ==
    /\ s \in open
    /\ down[s] # <<>>
    /\ down' = [down EXCEPT ![s] = Tail(@)]
    /\ up' = [up EXCEPT ![s] = Append(@, Head(down[s]))]
    /\ UNCHANGED <<link, caller, sending, waiting, loop, written, answers>>

Ignore(s) ==
    /\ down[s] # <<>>
    /\ down' = [down EXCEPT ![s] = Tail(@)]
    /\ UNCHANGED <<link, caller, sending, waiting, loop, up, written, answers>>

\* Fault: the request stays filed after its answer.
FaultyProcResponseKeeps(s) ==
    LET r == Head(up[s]) IN
    /\ s \in served /\ up[s] # <<>>
    /\ device[PhoneOf[r]] # None
    /\ MutexFree
    /\ LET match == {q \in waiting : Key(q) = Key(r)} IN
       /\ answers' = [q \in Reqs |-> IF q \in match THEN answers[q] + 1 ELSE answers[q]]
       /\ state' = [q \in Reqs |-> IF q \in match THEN "called" ELSE state[q]]
    /\ up' = [up EXCEPT ![s] = Tail(@)]
    /\ UNCHANGED <<link, counter, serial, session, sending, waiting, loop, down, written>>

\* serve reads 0001 or 0104 of a registered device: ProcResponse.  The answer
\* repeats message id and serial number of the message it answers, so it reaches
\* the request filed under that key, whoever sent that message.
ProcResponse(s) ==
    LET r == Head(up[s]) IN
    /\ s \in served /\ up[s] # <<>>
    /\ device[PhoneOf[r]] # None
    /\ MutexFree
    /\ LET match == {q \in waiting : Key(q) = Key(r)} IN
       /\ waiting' = waiting \ match
       /\ answers' = [q \in Reqs |-> IF q \in match THEN answers[q] + 1 ELSE answers[q]]
       /\ state' = [q \in Reqs |-> IF q \in match THEN "called" ELSE state[q]]
    /\ up' = [up EXCEPT ![s] = Tail(@)]
    /\ UNCHANGED <<link, counter, serial, session, sending, loop, down, written>>

\* The answer of a device that is no longer registered ends serve.
RejectResponse(s) ==
    /\ s \in served /\ up[s] # <<>>
    /\ device[PhoneOf[Head(up[s])]] = None
    /\ RemoveSession(s)

-----------------------------------------------------------------------------
SenderLoop == Begin \/ Lookup \/ Write \/ WriteClosed \/ WriteError \/ End

Next ==
    \/ \E ph \in Phones : Unregister(ph) \/ \E s \in Sessions : Register(ph, s)
    \/ \E s \in Sessions : CloseConn(s) \/ RemoveSession(s)
    \/ \E r \in Reqs : Number(r)
    \/ \E r \in Reqs \ Direct : AppendRequest(r) \/ RefuseRequest(r)
    \/ \E r \in Direct : Send(r)
    \/ SenderLoop
    \/ \E s \in Sessions : Answer(s) \/ Ignore(s) \/ ProcResponse(s) \/ RejectResponse(s)

\* The sender goroutine runs, a caller goes on when nobody holds the mutex and the
\* connection has room, and a terminal reads what is written to it.  (Each message
\* is sent once, so weak fairness will do: mutex and room are taken finitely often.)
Fairness ==
    /\ WF_vars(Begin \/ Lookup \/ Write \/ WriteClosed \/ End)
    /\ \A r \in Reqs \ Direct : WF_vars(AppendRequest(r) \/ RefuseRequest(r))
    /\ \A r \in Direct : WF_vars(FindSession(r) \/ SendMsg(r) \/ SendClosed(r))
    /\ \A s \in Sessions : WF_vars(Answer(s) \/ Ignore(s))

Spec == Init /\ [][Next]_vars
FairSpec == Spec /\ Fairness

-----------------------------------------------------------------------------
\* A message of the synchronous Send went out under the key of r.
Clashed(r) == \E d \in Direct : d \in Range(written) /\ Key(d) = Key(r)

\* An answer reaches the caller of the request it answers, once: no callback is
\* called again by a later answer, and none before its message was written
\* (Append files the callback before the message can go out), unless a message
\* of the synchronous Send, whose answer is taken for its own, has its key.
AnsweredOnce ==
    \A r \in Reqs : /\ answers[r] <= 1
                    /\ answers[r] = 1 => /\ r \notin waiting
                                         /\ r \in Range(written) \/ Clashed(r)

\* The first answer to a queued message finds its callback: until it arrives, the
\* request waits, unless the answer of a synchronous Send may have taken it.
AnswerFindsCallback ==
    \A s \in Sessions : \A r \in (Range(up[s]) \cup Range(down[s])) \ Direct :
        r \in waiting \/ Clashed(r)

\* No two waiting requests share a key, so an answer never has two callers.
KeysDistinct == \A q, r \in waiting : Key(q) = Key(r) => q = r

\* No message goes out twice, however a round of the loop ends, whatever was
\* appended before the next and whatever is written past the queue meanwhile.
WrittenOnce == IsInjective(written)

\* No message stays in the queue: again and again it is empty.
QueueDrains == []<>(sending = <<>>)

\* Every caller in SendV2 or Send gets out: again and again nobody is in there.
CallersReturn == []<>(\A r \in Reqs : state[r] \notin {"numbered", "sending"})

\* sender.go:139: the data in the sending queue is sent out.  A write that fails
\* loses the message written, not what is queued for other devices behind it.
FailureLosesOwnOnly ==
    [][WriteClosed \/ WriteError =>
         \A i \in pos + 1..Len(sending) :
            \/ PhoneOf[sending[i]] = PhoneOf[sending[pos]]
            \/ device[PhoneOf[sending[i]]] \notin cached \cap open]_vars
=============================================================================
