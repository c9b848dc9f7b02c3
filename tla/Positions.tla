------------------------------ MODULE Positions ------------------------------
(***************************************************************************)
(* The positions and alarms of one terminal at the platform: every report  *)
(* is written into a ring that belongs to the telephone number, HTTP       *)
(* callers read the latest one, the keepalive check throws the ring away.  *)
(* Neither the ring's writers nor its readers take a lock; the map of the  *)
(* rings has one, and so has the cache of alarms.                          *)
(*                                                                         *)
(* A terminal that has reconnected has two connections for a while, hence  *)
(* more than one handler.  Reports are numbered; number 0 is no report.    *)
(***************************************************************************)
EXTENDS Integers, Sequences

CONSTANTS
    Handlers,    \* the goroutines that read connections of this terminal
    Readers,     \* HTTP callers
    Rings,       \* rings that may be allocated
    Size,        \* slots of a ring
    Metas,       \* sets of status flags that a terminal may report
    MaxAlarms,   \* bound on the alarms of one report
    MaxReports,  \* bound on the number of reports
    None

ASSUME SizeAssumption == Size \in Nat \ {0}
ASSUME BoundsAssumption == MaxAlarms \in Nat /\ MaxReports \in Nat
ASSUME NoneAssumption == None \notin Handlers \cup Rings

VARIABLES
    cached,    \* the ring in the map, or None
    rings,     \* per ring its slots and its Writer
    handler,   \* where each handler is
    reader,    \* where each HTTP caller is
    mutex,     \* the handler that holds the mutex of the alarms, or None
    told,      \* the last alarm whose call of the hook returned
    alarm,     \* the alarm in the cache
    reports,   \* history: the flags meant and the status word sent, in order
    last,      \* history: the last report written into each ring
    writes,    \* history: how many were
    shared     \* history: rings that two handlers wrote to at once

vars == <<cached, rings, handler, reader, mutex, told, alarm, reports, last, writes, shared>>

-----------------------------------------------------------------------------
(* The status word, as the set of its bits, and the flags it stands for.   *)

Bit == [ACCStatus           |-> 0,   LocationStatus         |-> 1,
        LatitudeType        |-> 2,   LongitudeType          |-> 3,
        OperatingStatus     |-> 4,   GeoEncryptionStatus    |-> 5,
        HalfLoaded          |-> 8,   Loaded                 |-> 9,
        FuelSystemStatus    |-> 10,  AlternatorSystemStatus |-> 11,
        DoorLockedStatus    |-> 12,  FrontDoorStatus        |-> 13,
        MidDoorStatus       |-> 14,  BackDoorStatus         |-> 15,
        DriverDoorStatus    |-> 16,  CustomDoorStatus       |-> 17,
        GPSLocationStatus   |-> 18,  BeidouLocationStatus   |-> 19,
        GLONASSLocationStatus |-> 20, GalileoLocationStatus |-> 21,
        DrivingStatus       |-> 22]

Flags == DOMAIN Bit

ASSUME MetasAssumption == Metas \subseteq SUBSET Flags

\* The terminal writes the types of latitude and longitude the other way round.
Mirror(flag) ==
    IF flag = "LatitudeType" THEN "LongitudeType"
    ELSE IF flag = "LongitudeType" THEN "LatitudeType" ELSE flag

Encode(meta) == {Bit[Mirror(f)] : f \in meta}
Decode(status) == {f \in Flags : Bit[f] \in status}

-----------------------------------------------------------------------------
NoReport == 0
NoAlarm == [report |-> NoReport, nth |-> 0]
EmptyRing == [slots |-> [i \in 0..Size - 1 |-> NoReport], writer |-> 0]
IdleHandler == [pc |-> "idle", ring |-> None, at |-> 0, report |-> NoReport, alarms |-> 0]
IdleReader == [pc |-> "idle", ring |-> None, at |-> 0, since |-> NoReport, seen |-> 0, result |-> NoReport]

Init ==
    /\ cached = None
    /\ rings = [b \in Rings |-> EmptyRing]
    /\ handler = [h \in Handlers |-> IdleHandler]
    /\ reader = [r \in Readers |-> IdleReader]
    /\ mutex = None
    /\ told = NoAlarm
    /\ alarm = NoAlarm
    /\ reports = <<>>
    /\ last = [b \in Rings |-> NoReport]
    /\ writes = [b \in Rings |-> 0]
    /\ shared = {}

\* Rings that somebody still refers to, or has written to
InUse == {b \in Rings : b = cached \/ rings[b] # EmptyRing \/ writes[b] > 0
                          \/ (\E h \in Handlers : handler[h].ring = b)
                          \/ (\E r \in Readers : reader[r].ring = b)}

\* The ring of the telephone number, a new one if it has none.
GetGeoRingByPhone(b) ==
    /\ IF cached = None THEN b \in Rings \ InUse ELSE b = cached
    /\ cached' = b

-----------------------------------------------------------------------------
(* A handler: the position goes into the ring, an alarm into its cache.    *)

Writing(h) == handler[h].pc \in {"load", "store", "advance"}

Report(h, meta, alarms) ==
    /\ handler[h].pc = "idle"
    /\ Len(reports) < MaxReports
    /\ reports' = Append(reports, [meant |-> meta, status |-> Encode(meta)])
    /\ \E b \in Rings :
         /\ GetGeoRingByPhone(b)
         /\ handler' = [handler EXCEPT ![h] = [pc |-> "load", ring |-> b, at |-> 0,
                                               report |-> Len(reports) + 1, alarms |-> alarms]]
         /\ shared' = IF \E g \in Handlers : Writing(g) /\ handler[g].ring = b
                      THEN shared \cup {b} ELSE shared
    /\ UNCHANGED <<rings, reader, mutex, told, alarm, last, writes>>

\* A mistake: the Writer moves on before the slot is written.
FaultyLoadWriter(h) ==
    LET b == handler[h].ring IN
    /\ handler[h].pc = "load"
    /\ rings' = [rings EXCEPT ![b].writer = (@ + 1) % Size]
    /\ handler' = [handler EXCEPT ![h].pc = "store", ![h].at = rings[b].writer]
    /\ UNCHANGED <<cached, reader, mutex, told, alarm, reports, last, writes, shared>>

LoadWriter(h) ==
    /\ handler[h].pc = "load"
    /\ handler' = [handler EXCEPT ![h].pc = "store", ![h].at = rings[handler[h].ring].writer]
    /\ UNCHANGED <<cached, rings, reader, mutex, told, alarm, reports, last, writes, shared>>

StoreSlot(h) ==
    /\ handler[h].pc = "store"
    /\ rings' = [rings EXCEPT ![handler[h].ring].slots[handler[h].at] = handler[h].report]
    /\ handler' = [handler EXCEPT ![h].pc = "advance"]
    /\ UNCHANGED <<cached, reader, mutex, told, alarm, reports, last, writes, shared>>

\* A mistake: the Writer is not wrapped.
FaultyStoreWriter(h) ==
    LET b == handler[h].ring IN
    /\ handler[h].pc = "advance"
    /\ rings' = [rings EXCEPT ![b].writer = handler[h].at + 1]
    /\ last' = [last EXCEPT ![b] = handler[h].report]
    /\ writes' = [writes EXCEPT ![b] = @ + 1]
    /\ handler' = [handler EXCEPT ![h] =
                     IF @.alarms > 0 THEN [@ EXCEPT !.pc = "lock", !.ring = None] ELSE IdleHandler]
    /\ UNCHANGED <<cached, reader, mutex, told, alarm, reports, shared>>

StoreWriter(h) ==
    LET b == handler[h].ring IN
    /\ handler[h].pc = "advance"
    /\ rings' = [rings EXCEPT ![b].writer = (handler[h].at + 1) % Size]
    /\ last' = [last EXCEPT ![b] = handler[h].report]
    /\ writes' = [writes EXCEPT ![b] = @ + 1]
    /\ handler' = [handler EXCEPT ![h] =
                     IF @.alarms > 0 THEN [@ EXCEPT !.pc = "lock", !.ring = None] ELSE IdleHandler]
    /\ UNCHANGED <<cached, reader, mutex, told, alarm, reports, shared>>

\* The alarms of a report are taken one after the other, each under the mutex.
AlarmOf(h) == [report |-> handler[h].report, nth |-> handler[h].alarms]

\* A mistake: the hook is called without the mutex.
FaultyLockAlarms(h) ==
    /\ handler[h].pc = "lock"
    /\ mutex' = h
    /\ handler' = [handler EXCEPT ![h].pc = "hook"]
    /\ UNCHANGED <<cached, rings, reader, told, alarm, reports, last, writes, shared>>

LockAlarms(h) ==
    /\ handler[h].pc = "lock"
    /\ mutex = None
    /\ mutex' = h
    /\ handler' = [handler EXCEPT ![h].pc = "hook"]
    /\ UNCHANGED <<cached, rings, reader, told, alarm, reports, last, writes, shared>>

CallHook(h) ==
    /\ handler[h].pc = "hook"
    /\ told' = AlarmOf(h)
    /\ handler' = [handler EXCEPT ![h].pc = "save"]
    /\ UNCHANGED <<cached, rings, reader, mutex, alarm, reports, last, writes, shared>>

\* The deferred unlock runs, the goroutine ends, and with it the connection: the
\* other alarms of the report are lost.
HookPanics(h) ==
    /\ handler[h].pc = "hook"
    /\ mutex' = None
    /\ handler' = [handler EXCEPT ![h] = IdleHandler]
    /\ UNCHANGED <<cached, rings, reader, told, alarm, reports, last, writes, shared>>

SaveAlarm(h) ==
    /\ handler[h].pc = "save"
    /\ alarm' = AlarmOf(h)
    /\ mutex' = None
    /\ \/ /\ handler[h].alarms > 1
          /\ handler' = [handler EXCEPT ![h].pc = "lock", ![h].alarms = @ - 1]
       \/ /\ handler[h].alarms <= 1
          /\ handler' = [handler EXCEPT ![h] = IdleHandler]
    /\ UNCHANGED <<cached, rings, reader, told, reports, last, writes, shared>>

-----------------------------------------------------------------------------
(* The keepalive check clears the terminal.                                *)

DelGeoByPhone ==
    /\ cached # None
    /\ cached' = None
    /\ UNCHANGED <<rings, handler, reader, mutex, told, alarm, reports, last, writes, shared>>

-----------------------------------------------------------------------------
(* An HTTP caller.  Latest tests the Writer, loads it again, and indexes.  *)

GetLatest(r) ==
    /\ reader[r].pc \in {"idle", "found", "missing", "panic"}
    /\ \E b \in Rings :
         /\ GetGeoRingByPhone(b)
         /\ reader' = [reader EXCEPT ![r] = [IdleReader EXCEPT !.pc = "test", !.ring = b, !.since = last[b]]]
    /\ UNCHANGED <<rings, handler, mutex, told, alarm, reports, last, writes, shared>>

\* A mistake: one slot is left free, as in rings that have a reader's position.
FaultyTestWriter(r) ==
    LET b == reader[r].ring IN
    /\ reader[r].pc = "test"
    /\ reader' = [reader EXCEPT ![r].pc = IF rings[b].writer <= 1 THEN "missing" ELSE "load",
                                ![r].seen = writes[b]]
    /\ UNCHANGED <<cached, rings, handler, mutex, told, alarm, reports, last, writes, shared>>

TestWriter(r) ==
    LET b == reader[r].ring IN
    /\ reader[r].pc = "test"
    /\ reader' = [reader EXCEPT ![r].pc = IF rings[b].writer = 0 THEN "missing" ELSE "load",
                                ![r].seen = writes[b]]
    /\ UNCHANGED <<cached, rings, handler, mutex, told, alarm, reports, last, writes, shared>>

LoadIndex(r) ==
    LET b == reader[r].ring IN
    /\ reader[r].pc = "load"
    /\ reader' = [reader EXCEPT ![r].pc = IF rings[b].writer = 0 THEN "panic" ELSE "read",
                                ![r].at = rings[b].writer - 1,
                                ![r].seen = writes[b]]
    /\ UNCHANGED <<cached, rings, handler, mutex, told, alarm, reports, last, writes, shared>>

ReadSlot(r) ==
    /\ reader[r].pc = "read"
    /\ reader' = [reader EXCEPT ![r].pc = "found",
                                ![r].result = rings[reader[r].ring].slots[reader[r].at]]
    /\ UNCHANGED <<cached, rings, handler, mutex, told, alarm, reports, last, writes, shared>>

-----------------------------------------------------------------------------
HandlerStep(h) ==
    \/ LoadWriter(h) \/ StoreSlot(h) \/ StoreWriter(h)
    \/ LockAlarms(h) \/ CallHook(h) \/ HookPanics(h) \/ SaveAlarm(h)

ReaderStep(r) == TestWriter(r) \/ LoadIndex(r) \/ ReadSlot(r)

Next ==
    \/ \E h \in Handlers : \/ \E meta \in Metas, alarms \in 0..MaxAlarms : Report(h, meta, alarms)
                           \/ HandlerStep(h)
    \/ DelGeoByPhone
    \/ \E r \in Readers : GetLatest(r) \/ ReaderStep(r)

Spec == Init /\ [][Next]_vars

-----------------------------------------------------------------------------
(* Properties.                                                             *)

Answered == {"found", "missing", "panic"}

Ring == [slots : [0..Size - 1 -> Nat], writer : 0..Size - 1]
Handler == [pc : {"idle", "load", "store", "advance", "lock", "hook", "save"},
            ring : Rings \cup {None}, at : 0..Size - 1, report : Nat, alarms : Nat]
Reader == [pc : Answered \cup {"idle", "test", "load", "read"}, ring : Rings \cup {None},
           at : -1..Size - 1, since : Nat, seen : Nat, result : Nat]
Alarm == [report : Nat, nth : Nat]

\* The rings, handlers, callers and histories have these types; a ring's
\* Writer is a slot of the ring, whoever writes (ring_buffer.go 31-36).
TypeOK ==
    /\ cached \in Rings \cup {None}
    /\ rings \in [Rings -> Ring]
    /\ handler \in [Handlers -> Handler]
    /\ reader \in [Readers -> Reader]
    /\ mutex \in Handlers \cup {None}
    /\ told \in Alarm
    /\ alarm \in Alarm
    /\ reports \in Seq([meant : SUBSET Flags, status : SUBSET (0..31)])
    /\ last \in [Rings -> Nat]
    /\ writes \in [Rings -> Nat]
    /\ shared \subseteq Rings

\* Readers and writers of a ring take no lock (geo_cache.go 45-56).  All the
\* same a caller who finds a position finds one at least as recent as the
\* last that was stored completely before the call, even if the ring
\* overtakes the caller or is thrown away meanwhile, unless two connections
\* of the terminal have written to the ring at once.  The flags are those
\* reported, up to the exchange of the two types.
LatestFresh ==
    \A r \in Readers :
        reader[r].pc = "found" /\ reader[r].ring \notin shared =>
            /\ reader[r].result >= reader[r].since
            /\ reader[r].result \in 1..Len(reports)
            /\ Decode(reports[reader[r].result].status) = {Mirror(f) : f \in reports[reader[r].result].meant}

\* Latest takes a Writer of 0 for an empty ring, and loads the Writer twice
\* (ring_buffer.go 53-58).  A caller is told that there is no position, or
\* indexes the slot before the first, only if the number of positions stored
\* when the Writer was loaded is a multiple of the ring's size.
MissesOnlyFull ==
    \A r \in Readers :
        reader[r].pc \in {"missing", "panic"} /\ reader[r].ring \notin shared =>
            reader[r].seen % Size = 0

\* The hook is called and the cache is written under one mutex
\* (alarm_cache.go 49-60), so that whenever nobody holds it the alarm in the
\* cache is the last one that the hook has taken, even if it panicked over a
\* later one, and belongs to a report that was made.
AlarmsInOrder ==
    mutex = None => alarm = told /\ alarm.report <= Len(reports)

=============================================================================
