------------------------------ MODULE Broadcast ------------------------------
(***************************************************************************)
(* One call of GetDeviceConfig or SetDeviceConfig: a message is sent to    *)
(* every device through the Sender, and the caller collects the results    *)
(* of the callbacks from a channel until all are in or nothing arrives for *)
(* a while.  The callbacks run in the serve goroutines, under the mutex of *)
(* the Sender: one that had to wait for room in the channel would stop the *)
(* Sender for every device.  The callback of a device may come while the   *)
(* caller still sends, while it waits, after it has given up, or never.    *)
(***************************************************************************)
EXTENDS Naturals, Sequences, FiniteSets

CONSTANTS
    Phones,  \* devices there may be
    To,      \* the argument "to", in ticks of the clock
    None     \* no settings

ASSUME PhonesAssumption == IsFiniteSet(Phones)
ASSUME ToAssumption == To \in Nat \ {0}
ASSUME NoneAssumption == None \notin Phones

VARIABLES
    phase,     \* of the caller: "idle", "sending", "waiting", "returned"
    api,       \* "get" or "set"
    listed,    \* the devices in the cache when the call began
    todo,      \* those the loop has not come to
    filed,     \* those whose callback is in Sender.Waiting
    waitChan,  \* results in the channel
    cnt,       \* results received from it
    err,       \* the caller's error: "nil", "error", "timeout", "noDevices"
    settings,  \* the device whose parameters GetDeviceConfig returns, or None
    left,      \* time until the timer fires
    blocked,   \* a callback is stuck at the channel, and the mutex with it
    got,       \* history: got[ph]: the result the callback of ph sent, or "none"
    elapsed    \* history: time the caller has waited

caller == <<phase, api, listed, todo, cnt, err>>
clock  == <<left, elapsed>>
vars   == <<phase, api, listed, todo, filed, waitChan, cnt, err, settings, left, blocked, got, elapsed>>

Results == {"nil", "error"}
total == Cardinality(listed)

TypeOK ==
    /\ phase \in {"idle", "sending", "waiting", "returned"}
    /\ api \in {"get", "set"}
    /\ listed \subseteq Phones
    /\ todo \subseteq listed /\ filed \subseteq listed
    /\ waitChan \in Seq(Results)
    /\ cnt \in Nat
    /\ err \in Results \cup {"timeout", "noDevices"}
    /\ settings \in Phones \cup {None}
    /\ left \in 0..To
    /\ blocked \in BOOLEAN
    /\ got \in [Phones -> Results \cup {"none"}]
    /\ elapsed \in Nat

Init ==
    /\ phase = "idle" /\ api \in {"get", "set"}
    /\ listed = {} /\ todo = {} /\ filed = {}
    /\ waitChan = <<>>
    /\ cnt = 0
    /\ err = "nil"
    /\ settings = None
    /\ left = To
    /\ blocked = FALSE
    /\ got = [ph \in Phones |-> "none"]
    /\ elapsed = 0

-----------------------------------------------------------------------------
(* The caller sends.                                                       *)

Call(devices) ==
    /\ phase = "idle"
    /\ devices # {}
    /\ phase' = "sending"
    /\ listed' = devices
    /\ todo' = devices
    /\ UNCHANGED <<api, filed, waitChan, cnt, err, settings, clock, blocked, got>>

CallWithoutDevices ==
    /\ phase = "idle"
    /\ phase' = "returned"
    /\ err' = "noDevices"
    /\ UNCHANGED <<api, listed, todo, filed, waitChan, cnt, settings, clock, blocked, got>>

\* The session of the device is closed, or the Sender refuses the message.
Skip(ph) ==
    /\ phase = "sending" /\ ~blocked
    /\ ph \in todo
    /\ todo' = todo \ {ph}
    /\ UNCHANGED <<phase, api, listed, filed, waitChan, cnt, err, settings, clock, blocked, got>>

SendV2(ph) ==
    /\ phase = "sending" /\ ~blocked
    /\ ph \in todo
    /\ todo' = todo \ {ph}
    /\ filed' = filed \cup {ph}
    /\ UNCHANGED <<phase, api, listed, waitChan, cnt, err, settings, clock, blocked, got>>

StartWaiting ==
    /\ phase = "sending"
    /\ todo = {}
    /\ phase' = "waiting"
    /\ UNCHANGED <<api, listed, todo, filed, waitChan, cnt, err, settings, clock, blocked, got>>

-----------------------------------------------------------------------------
(* The callbacks.                                                          *)

\* Fault: the channel is not buffered.
FaultyUnbuffered == phase = "waiting" /\ waitChan = <<>>

HasRoom == Len(waitChan) < total

\* 0104 for "get": the parameters, or the error of json.Marshal and no parameters.
\* 0001 for "set": always nil, because errors.Wrapf(nil, ...) of a refusal is nil.
Callback(ph, r) ==
    /\ ~blocked
    /\ ph \in filed
    /\ r = "error" => api = "get"
    /\ filed' = filed \ {ph}
    /\ settings' = IF api = "get" /\ r = "nil" THEN ph ELSE None
    /\ IF HasRoom
       THEN /\ waitChan' = Append(waitChan, r)
            /\ got' = [got EXCEPT ![ph] = r]
            /\ UNCHANGED blocked
       ELSE blocked' = TRUE /\ UNCHANGED <<waitChan, got>>
    /\ UNCHANGED <<caller, clock>>

\* The terminal answers 0x8104 with a 0001: the callback panics, nothing is sent.
PanickingCallback(ph) ==
    /\ ~blocked
    /\ api = "get"
    /\ ph \in filed
    /\ filed' = filed \ {ph}
    /\ UNCHANGED <<caller, waitChan, settings, clock, blocked, got>>

-----------------------------------------------------------------------------
(* The caller waits.                                                       *)

\* Fault: one result too few.
FaultyReceivedAll(n) == n + 1 >= total

ReceivedAll(n) == n >= total

\* Errors of several devices are wrapped into one.  The timer is made anew for
\* every round of the loop.
Receive ==
    /\ phase = "waiting"
    /\ waitChan # <<>>
    /\ waitChan' = Tail(waitChan)
    /\ cnt' = cnt + 1
    /\ err' = IF Head(waitChan) = "error" THEN "error" ELSE err
    /\ phase' = IF ReceivedAll(cnt + 1) THEN "returned" ELSE "waiting"
    /\ left' = To
    /\ UNCHANGED <<api, listed, todo, filed, settings, blocked, got, elapsed>>

\* Fault: nothing waits for the timer.
FaultyTick ==
    /\ phase = "waiting"
    /\ left' = left - 1
    /\ elapsed' = elapsed + 1
    /\ UNCHANGED <<caller, filed, waitChan, settings, blocked, got>>

\* Fault: the loop polls, and every round makes a new timer.
FaultyTickPolling ==
    /\ phase = "waiting"
    /\ left' = To
    /\ elapsed' = elapsed + 1
    /\ UNCHANGED <<caller, filed, waitChan, settings, blocked, got>>

Tick ==
    /\ phase = "waiting"
    /\ left > 0
    /\ left' = left - 1
    /\ elapsed' = elapsed + 1
    /\ UNCHANGED <<caller, filed, waitChan, settings, blocked, got>>

\* Fault: the timer has no branch of its own.
FaultyNoTimeout == FALSE

\* The error replaces those received before.
Timeout ==
    /\ phase = "waiting"
    /\ left = 0
    /\ err' = "timeout"
    /\ phase' = "returned"
    /\ UNCHANGED <<api, listed, todo, filed, waitChan, cnt, settings, clock, blocked, got>>

-----------------------------------------------------------------------------
Caller ==
    \/ \E ph \in Phones : Skip(ph) \/ SendV2(ph)
    \/ StartWaiting \/ Receive \/ Timeout

Next ==
    \/ \E devices \in SUBSET Phones : Call(devices)
    \/ CallWithoutDevices
    \/ Caller
    \/ \E ph \in Phones : PanickingCallback(ph) \/ \E r \in Results : Callback(ph, r)
    \/ Tick

\* The caller's goroutine runs and time passes; terminals owe no answer.
Fairness == WF_vars(Caller) /\ WF_vars(Tick)

Spec == Init /\ [][Next]_vars
FairSpec == Spec /\ Fairness

-----------------------------------------------------------------------------
\* A callback never waits for room in the channel, not even one that comes after
\* the caller has given up: the Sender's mutex is not held up (wrapper.go:172).
CallbackNeverBlocks == ~blocked

\* The call succeeds only if the callback of every device of the list has run
\* and sent no error; GetDeviceConfig then has the parameters of one of them.
SuccessMeansAnswered ==
    phase = "returned" /\ err = "nil" =>
        /\ \A ph \in listed : got[ph] = "nil"
        /\ api = "get" => settings \in listed

\* The timeout is one of every round, not of the call: with devices that answer
\* one after the other a call waits as often as there are devices.
ReturnsInTime == elapsed <= To * total

\* The caller is not left waiting by devices that were skipped or do not answer.
Returns == phase = "sending" ~> phase = "returned"
=============================================================================
