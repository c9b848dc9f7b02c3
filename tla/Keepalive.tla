------------------------------ MODULE Keepalive ------------------------------
(***************************************************************************)
(* The keepalive of one device with its clock.  The cron fires the check   *)
(* of a device every Keepalive, counted from the registration and not from *)
(* the last message; LastComTime is kept as an age.  Handlers and checks   *)
(* are atomic here, Devices.tla interleaves them.  The names of what every *)
(* specification has begin with Age.                                       *)
(***************************************************************************)
EXTENDS Naturals

CONSTANTS
    K,       \* Device.Keepalive, in ticks of the clock (milliseconds in the code)
    Period   \* a diligent terminal sends a renewing message at least this often

ASSUME KAssumption == K \in Nat \ {0}
ASSUME PeriodAssumption == Period \in Nat /\ Period <= K

Active == {"online", "sleeping"}
Status == {"absent", "offline"} \cup Active

VARIABLES
    status,   \* Device.Status, "absent" when the phone is not in the cache
    age,      \* time since LastComTime
    due,      \* time until the cron fires the check
    contact,  \* history: the status after the last message that renewed LastComTime
    longest   \* history: the longest the terminal has left LastComTime to age

ageVars == <<status, age, due, contact, longest>>
Present == status # "absent"

AgeTypeOK ==
    /\ status \in Status
    /\ contact \in Status
    /\ age \in Nat
    /\ due \in 0..K
    /\ longest \in Nat

AgeInit ==
    /\ status = "absent"
    /\ contact = "absent"
    /\ age = 0 /\ due = 0
    /\ longest = 0

-----------------------------------------------------------------------------
(* Messages of the terminal.                                               *)

\* Fault: the first check comes a tick late.
FaultyRegisterLate ==
    /\ ~Present
    /\ status' = "offline"
    /\ contact' = "offline"
    /\ age' = 0 /\ longest' = 0
    /\ due' = K + 1

Register ==
    /\ ~Present
    /\ status' = "offline"
    /\ contact' = "offline"
    /\ age' = 0 /\ longest' = 0
    /\ due' = K

\* LastComTime is renewed; the status may change with it.
Renew(to) ==
    /\ Present
    /\ status' = to
    /\ contact' = to
    /\ age' = 0
    /\ UNCHANGED <<due, longest>>

Authenticate == Renew("online")    \* 0102
ReportAsleep == Renew("sleeping")  \* 0200, ignition off
Heartbeat    == Renew(status)      \* 0002

\* 0200 with the ignition on, 0001 and 0104 renew nothing: no step of this module.

Forget ==
    /\ status' = "absent"
    /\ contact' = "absent"
    /\ age' = 0 /\ due' = 0 /\ longest' = 0

Logout == Present /\ Forget        \* 0003, or 0102 with a wrong code

-----------------------------------------------------------------------------
(* The clock and the check.                                                *)

\* Fault: the comparison is not strict.
FaultyStaleEarly == age >= K

\* Fault: the keepalive is granted twice.
FaultyStaleLate == age > 2 * K

Stale == age > K

Tick ==
    /\ Present
    /\ due > 0
    /\ due' = due - 1
    /\ age' = age + 1
    /\ longest' = IF age + 1 > longest THEN age + 1 ELSE longest
    /\ UNCHANGED <<status, contact>>

Firing == Present /\ due = 0

TurnOffline ==
    /\ Firing
    /\ status \in Active /\ Stale
    /\ status' = "offline"
    /\ due' = K
    /\ UNCHANGED <<age, contact, longest>>

\* Fault: the status is not asked for.
FaultyClearAnyStatus ==
    /\ Firing
    /\ Stale
    /\ Forget

Clear ==
    /\ Firing
    /\ status = "offline" /\ Stale
    /\ Forget

Pass ==
    /\ Firing
    /\ ~Stale
    /\ due' = K
    /\ UNCHANGED <<status, age, contact, longest>>

Check == TurnOffline \/ Clear \/ Pass

-----------------------------------------------------------------------------
Terminal ==
    \/ Register \/ Authenticate \/ ReportAsleep \/ Heartbeat \/ Logout

AgeNext == Terminal \/ Tick \/ Check
AgeSpec == AgeInit /\ [][AgeNext]_ageVars

-----------------------------------------------------------------------------
\* A device is gone at most three keepalive periods after LastComTime, wherever
\* in its period the check falls.
GoneInTime == age <= 3 * K

\* A device that was online or asleep when it last renewed LastComTime gets two
\* checks: it is cleared only after more than two periods of silence.
ActiveGetsTwoChecks == [][Clear /\ contact \in Active => age > 2 * K]_ageVars

\* A terminal that sends a heartbeat, an authentication or a sleep report at least
\* once per keepalive period is neither turned offline nor cleared by the check.
DiligentStays == [][TurnOffline \/ Clear => longest > Period]_ageVars
=============================================================================
