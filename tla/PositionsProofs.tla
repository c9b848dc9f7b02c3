--------------------------- MODULE PositionsProofs ---------------------------
(***************************************************************************)
(* What Positions promises holds for any number of connections, callers    *)
(* and rings of any size.  A caller that has loaded its index may be       *)
(* overtaken by any number of writes, so the invariant speaks of the slot  *)
(* it is about to read: values in the slots of a ring only grow, as the    *)
(* one handler that writes to a ring that is not shared holds a report     *)
(* later than everything in it.                                            *)
(*                                                                         *)
(* The last section is about Keepalive: positions and the time of the last *)
(* contact are what the platform keeps of a device's reports.  The two     *)
(* specifications share no variable and no name.                           *)
(***************************************************************************)
EXTENDS Positions, Keepalive, TLAPS

\* A handler that writes has a ring to write to and a report that was made.
Writers ==
    \A h \in Handlers :
        /\ Writing(h) => handler[h].ring \in Rings
        /\ handler[h].report <= Len(reports)
        /\ Writing(h) => handler[h].report >= 1

\* A ring that is not shared has at most one handler that writes.
Alone ==
    \A g, h \in Handlers :
        Writing(g) /\ Writing(h) /\ handler[g].ring = handler[h].ring
            /\ handler[g].ring \notin shared => g = h

\* Nothing in a ring is later than the reports made, nor, in one that is not
\* shared, than the report that is being written.
Known ==
    \A b \in Rings : /\ last[b] <= Len(reports)
                     /\ \A i \in 0..Size - 1 : rings[b].slots[i] <= Len(reports)

Recent ==
    \A h \in Handlers : Writing(h) /\ handler[h].ring \notin shared =>
        /\ last[handler[h].ring] <= handler[h].report
        /\ \A i \in 0..Size - 1 : rings[handler[h].ring].slots[i] <= handler[h].report

\* Between the steps of a write the ring is as the handler left it.
InPlace ==
    \A h \in Handlers : Writing(h) /\ handler[h].ring \notin shared =>
        /\ handler[h].pc # "load" => handler[h].at = rings[handler[h].ring].writer
        /\ handler[h].pc = "advance" =>
              rings[handler[h].ring].slots[handler[h].at] = handler[h].report

\* The slot before the Writer has the last report that was written.
LastBeforeWriter ==
    \A b \in Rings : b \notin shared /\ rings[b].writer # 0 =>
        rings[b].slots[rings[b].writer - 1] = last[b] /\ last[b] >= 1

\* The Writer counts the positions stored, modulo the size of the ring.
Counted ==
    \A b \in Rings : b \notin shared =>
        \E k \in Nat : writes[b] = k * Size + rings[b].writer

\* What a caller has found, or is about to find, is recent enough.
CallerRecent ==
    \A r \in Readers :
        /\ reader[r].pc # "idle" => reader[r].ring \in Rings
        /\ reader[r].pc \in {"test", "load"} /\ reader[r].ring \notin shared =>
              reader[r].since <= last[reader[r].ring]
        /\ reader[r].pc = "read" => reader[r].at \in 0..Size - 1
        /\ reader[r].pc = "read" /\ reader[r].ring \notin shared =>
              /\ rings[reader[r].ring].slots[reader[r].at] >= reader[r].since
              /\ rings[reader[r].ring].slots[reader[r].at] >= 1
        /\ reader[r].pc = "found" /\ reader[r].ring \notin shared =>
              /\ reader[r].result >= reader[r].since
              /\ reader[r].result \in 1..Len(reports)

\* Every status word sent is the encoding of what was meant.
Words ==
    \A k \in 1..Len(reports) :
        reports[k].meant \subseteq Flags /\ reports[k].status = Encode(reports[k].meant)

\* The mutex is held between the hook and the cache.
Locked ==
    /\ \A h \in Handlers : handler[h].pc \in {"hook", "save"} <=> mutex = h
    /\ \A h \in Handlers : handler[h].pc = "save" => told = AlarmOf(h)
    /\ (\A h \in Handlers : handler[h].pc # "save") => alarm = told
    /\ told.report <= Len(reports) /\ alarm.report <= Len(reports)

IInv ==
    /\ TypeOK /\ Writers /\ Alone /\ Known /\ Recent
    /\ InPlace /\ LastBeforeWriter /\ Counted /\ CallerRecent
    /\ MissesOnlyFull /\ Words /\ Locked

-----------------------------------------------------------------------------
\* The next slot, without the remainder.
LEMMA NextSlot ==
    ASSUME NEW i \in 0..Size - 1
    PROVE  (i + 1) % Size = IF i + 1 = Size THEN 0 ELSE i + 1
BY SizeAssumption

\* Going round the ring once more.
LEMMA Rounds ==
    ASSUME NEW k \in Nat
    PROVE  /\ k * Size + Size = (k + 1) * Size
           /\ (k * Size) % Size = 0
<1>1. k * Size + Size = (k + 1) * Size
  BY SizeAssumption, Z3
<1>2. (k * Size) % Size = 0
  BY SizeAssumption, Z3
<1> QED
  BY <1>1, <1>2

LEMMA BitsApart ==
    ASSUME NEW f \in Flags, NEW g \in Flags, Bit[f] = Bit[g]
    PROVE  f = g
BY DEF Flags, Bit

LEMMA BitRange == \A f \in Flags : Mirror(f) \in Flags /\ Bit[f] \in 0..31
BY DEF Flags, Bit, Mirror

\* Whatever a terminal reports, a reader of the status word finds it, north and
\* south in the place of east and west.
THEOREM Decoding ==
    ASSUME NEW meta \in SUBSET Flags
    PROVE  /\ Encode(meta) \subseteq 0..31
           /\ Decode(Encode(meta)) = {Mirror(f) : f \in meta}
<1>1. \A f \in Flags : Bit[f] \in Encode(meta) <=> f \in {Mirror(g) : g \in meta}
  BY BitsApart, BitRange DEF Encode
<1>2. {Mirror(f) : f \in meta} \subseteq Flags /\ Encode(meta) \subseteq 0..31
  BY BitRange DEF Encode
<1> QED
  BY <1>1, <1>2 DEF Decode
-----------------------------------------------------------------------------
\* What the types say of single fields.
LEMMA Typing ==
    ASSUME TypeOK
    PROVE  /\ Len(reports) \in Nat
           /\ \A h \in Handlers : /\ handler[h].at \in 0..Size - 1
                                  /\ handler[h].report \in Nat /\ handler[h].alarms \in Nat
           /\ \A r \in Readers : reader[r].since \in Nat /\ reader[r].result \in Nat
           /\ \A b \in Rings : /\ last[b] \in Nat /\ writes[b] \in Nat
                               /\ rings[b].writer \in 0..Size - 1
                               /\ \A i \in 0..Size - 1 : rings[b].slots[i] \in Nat
           /\ told.report \in Nat /\ alarm.report \in Nat
<1>1. Len(reports) \in Nat
  BY DEF TypeOK
<1>2. \A h \in Handlers : /\ handler[h].at \in 0..Size - 1
                          /\ handler[h].report \in Nat /\ handler[h].alarms \in Nat
  BY DEF TypeOK, Handler
<1>3. \A r \in Readers : reader[r].since \in Nat /\ reader[r].result \in Nat
  BY DEF TypeOK, Reader
<1>4. \A b \in Rings : /\ last[b] \in Nat /\ writes[b] \in Nat
                       /\ rings[b].writer \in 0..Size - 1
                       /\ \A i \in 0..Size - 1 : rings[b].slots[i] \in Nat
  BY DEF TypeOK, Ring
<1>5. told.report \in Nat /\ alarm.report \in Nat
  BY DEF TypeOK, Alarm
<1> QED
  BY <1>1, <1>2, <1>3, <1>4, <1>5

LEMMA InitIInv == Init => IInv
<1> SUFFICES ASSUME Init PROVE IInv
  OBVIOUS
<1>1. EmptyRing \in Ring /\ IdleHandler \in Handler /\ IdleReader \in Reader /\ NoAlarm \in Alarm
  BY SizeAssumption DEF EmptyRing, IdleHandler, IdleReader, NoAlarm, NoReport,
                        Ring, Handler, Reader, Alarm, Answered
<1>2. TypeOK
  BY <1>1 DEF Init, TypeOK, NoReport
<1>3. Writers /\ Alone /\ Recent /\ InPlace /\ Locked
  BY NoneAssumption DEF Init, Writers, Alone, Recent, InPlace, Locked, Writing,
                        IdleHandler, NoAlarm, NoReport
<1>a. /\ Len(reports) = 0
      /\ \A b \in Rings : /\ rings[b].writer = 0 /\ last[b] = 0 /\ writes[b] = 0
                          /\ \A i \in 0..Size - 1 : rings[b].slots[i] = 0
  BY DEF Init, EmptyRing, NoReport
<1>4. Known /\ LastBeforeWriter
  BY <1>a DEF Known, LastBeforeWriter
<1>5. Counted
  <2>1. 0 = 0 * Size + 0
    BY SizeAssumption
  <2> QED
    BY <1>a, <2>1 DEF Counted
<1>6. CallerRecent /\ MissesOnlyFull
  BY DEF Init, CallerRecent, MissesOnlyFull, IdleReader
<1>7. Words
  BY DEF Init, Words
<1> QED
  BY <1>2, <1>3, <1>4, <1>5, <1>6, <1>7 DEF IInv

-----------------------------------------------------------------------------
(* The steps of a handler that writes a position.                          *)

LEMMA ReportStep ==
    ASSUME IInv, NEW h \in Handlers, NEW meta \in Metas, NEW alarms \in 0..MaxAlarms,
           Report(h, meta, alarms)
    PROVE  IInv'
<1> USE SizeAssumption, NoneAssumption
<1>0. UNCHANGED <<rings, reader, mutex, told, alarm, last, writes>>
  BY DEF Report
<1>1. PICK b \in Rings :
        /\ cached' = b
        /\ handler' = [handler EXCEPT ![h] = [pc |-> "load", ring |-> b, at |-> 0,
                                              report |-> Len(reports) + 1, alarms |-> alarms]]
        /\ shared' = IF \E g \in Handlers : Writing(g) /\ handler[g].ring = b
                     THEN shared \cup {b} ELSE shared
  BY DEF Report, GetGeoRingByPhone
<1>2. /\ handler[h].pc = "idle"
      /\ meta \in SUBSET Flags
      /\ alarms \in Nat
      /\ reports' = Append(reports, [meant |-> meta, status |-> Encode(meta)])
      /\ reports \in Seq([meant : SUBSET Flags, status : SUBSET (0..31)])
  BY MetasAssumption, BoundsAssumption DEF Report, IInv, TypeOK
<1>3. /\ [meant |-> meta, status |-> Encode(meta)] \in [meant : SUBSET Flags, status : SUBSET (0..31)]
      /\ Len(reports) \in Nat
  <2>1. Encode(meta) \in SUBSET (0..31)
    BY <1>2, Decoding
  <2> QED
    BY <1>2, <2>1
<1>4. /\ reports' \in Seq([meant : SUBSET Flags, status : SUBSET (0..31)])
      /\ Len(reports') = Len(reports) + 1
      /\ \A k \in 1..Len(reports) : reports'[k] = reports[k]
      /\ reports'[Len(reports) + 1] = [meant |-> meta, status |-> Encode(meta)]
  BY <1>2, <1>3
<1>l. Len(reports) \in Nat /\ Len(reports') = Len(reports) + 1
  BY <1>3, <1>4
<1>5. /\ handler' \in [Handlers -> Handler]
      /\ \A g \in Handlers : g # h => handler'[g] = handler[g]
      /\ handler'[h].pc = "load" /\ handler'[h].ring = b
      /\ handler'[h].report = Len(reports) + 1
  BY <1>1, <1>2, <1>3 DEF IInv, TypeOK, Handler
<1>6. shared \subseteq shared' /\ shared' \subseteq Rings
  BY <1>1 DEF IInv, TypeOK
<1>7. TypeOK'
  BY <1>0, <1>1, <1>4, <1>5, <1>6 DEF IInv, TypeOK
<1>8. Writers'
  <2> SUFFICES ASSUME NEW g \in Handlers
               PROVE  /\ Writing(g)' => handler'[g].ring \in Rings
                      /\ handler'[g].report <= Len(reports')
                      /\ Writing(g)' => handler'[g].report >= 1
    BY DEF Writers
  <2>1. CASE g = h
    BY <2>1, <1>5, <1>l
  <2>2. CASE g # h
    BY <2>2, <1>5, <1>l, Typing DEF IInv, Writers, Writing
  <2> QED
    BY <2>1, <2>2
<1>9. Alone'
  BY <1>1, <1>2, <1>5, <1>6 DEF IInv, Alone, Writing
<1>10. Known'
  BY <1>0, <1>3, <1>4, Typing DEF IInv, Known
<1>11. Recent'
  <2> SUFFICES ASSUME NEW g \in Handlers, Writing(g)', handler'[g].ring \notin shared'
               PROVE  /\ last[handler'[g].ring] <= handler'[g].report
                      /\ \A i \in 0..Size - 1 : rings[handler'[g].ring].slots[i] <= handler'[g].report
    BY <1>0 DEF Recent
  <2>1. CASE g = h
    <3>1. last[b] \in Nat /\ last[b] <= Len(reports)
      BY Typing DEF IInv, Known
    <3>2. \A i \in 0..Size - 1 : rings[b].slots[i] \in Nat /\ rings[b].slots[i] <= Len(reports)
      BY Typing DEF IInv, Known
    <3> QED
      BY <2>1, <1>5, <1>l, <3>1, <3>2
  <2>2. CASE g # h
    BY <2>2, <1>5, <1>6 DEF IInv, Recent, Writing
  <2> QED
    BY <2>1, <2>2
<1>12. InPlace'
  BY <1>0, <1>5, <1>6 DEF IInv, InPlace, Writing
<1>13. LastBeforeWriter' /\ Counted' /\ MissesOnlyFull'
  BY <1>0, <1>6 DEF IInv, LastBeforeWriter, Counted, MissesOnlyFull
<1>14. CallerRecent'
  BY <1>0, <1>3, <1>4, <1>6 DEF IInv, CallerRecent
<1>15. Words'
  BY <1>2, <1>3, <1>4 DEF IInv, Words
<1>16. Locked'
  <2>1. told'.report <= Len(reports') /\ alarm'.report <= Len(reports')
    BY <1>0, <1>l, Typing DEF IInv, Locked
  <2> QED
    BY <2>1, <1>0, <1>2, <1>5 DEF IInv, Locked, AlarmOf
<1> QED
  BY <1>7, <1>8, <1>9, <1>10, <1>11, <1>12, <1>13, <1>14, <1>15, <1>16 DEF IInv

LEMMA LoadWriterStep ==
    ASSUME IInv, NEW h \in Handlers, LoadWriter(h)
    PROVE  IInv'
<1>0. UNCHANGED <<cached, rings, reader, mutex, told, alarm, reports, last, writes, shared>>
  BY DEF LoadWriter
<1>1. handler[h].pc = "load" /\ handler[h].ring \in Rings
  BY DEF LoadWriter, IInv, Writers, Writing
<1>2. /\ handler' \in [Handlers -> Handler]
      /\ \A g \in Handlers : g # h => handler'[g] = handler[g]
      /\ handler'[h].pc = "store" /\ handler'[h].ring = handler[h].ring
      /\ handler'[h].at = rings[handler[h].ring].writer
      /\ handler'[h].report = handler[h].report /\ handler'[h].alarms = handler[h].alarms
  BY <1>1 DEF LoadWriter, IInv, TypeOK, Handler, Ring
<1>3. Known' /\ LastBeforeWriter' /\ Counted' /\ CallerRecent' /\ MissesOnlyFull' /\ Words'
  BY <1>0 DEF IInv, Known, LastBeforeWriter, Counted, CallerRecent, MissesOnlyFull, Words
<1>4. TypeOK'
  BY <1>0, <1>2 DEF IInv, TypeOK
<1>5. Writers' /\ Alone' /\ Recent'
  BY <1>0, <1>1, <1>2 DEF IInv, Writers, Alone, Recent, Writing
<1>6. InPlace'
  BY <1>0, <1>1, <1>2 DEF IInv, InPlace, Writing
<1>7. Locked'
  BY <1>0, <1>1, <1>2 DEF IInv, Locked, AlarmOf
<1> QED
  BY <1>3, <1>4, <1>5, <1>6, <1>7 DEF IInv

LEMMA StoreSlotStep ==
    ASSUME IInv, NEW h \in Handlers, StoreSlot(h)
    PROVE  IInv'
<1> USE SizeAssumption
<1>0. UNCHANGED <<cached, reader, mutex, told, alarm, reports, last, writes, shared>>
  BY DEF StoreSlot
<1>1. /\ handler[h].pc = "store" /\ handler[h].ring \in Rings
      /\ handler[h].at \in 0..Size - 1
      /\ handler[h].report \in 1..Len(reports)
  BY DEF StoreSlot, IInv, TypeOK, Handler, Writers, Writing
<1>2. /\ handler' \in [Handlers -> Handler]
      /\ \A g \in Handlers : g # h => handler'[g] = handler[g]
      /\ handler'[h].pc = "advance" /\ handler'[h].ring = handler[h].ring
      /\ handler'[h].at = handler[h].at
      /\ handler'[h].report = handler[h].report /\ handler'[h].alarms = handler[h].alarms
  BY <1>1 DEF StoreSlot, IInv, TypeOK, Handler
<1>3. /\ rings' \in [Rings -> Ring]
      /\ \A b \in Rings : b # handler[h].ring => rings'[b] = rings[b]
      /\ \A b \in Rings : rings'[b].writer = rings[b].writer
      /\ \A i \in 0..Size - 1 : rings'[handler[h].ring].slots[i] =
            IF i = handler[h].at THEN handler[h].report ELSE rings[handler[h].ring].slots[i]
  <2> DEFINE b == handler[h].ring
             s == [rings[b].slots EXCEPT ![handler[h].at] = handler[h].report]
  <2>1. rings \in [Rings -> Ring] /\ b \in Rings /\ rings[b] \in Ring
    BY <1>1 DEF IInv, TypeOK
  <2>2. s \in [0..Size - 1 -> Nat]
    BY <1>1, <2>1, Typing DEF IInv, Ring
  <2>3. rings' = [rings EXCEPT ![b] = [rings[b] EXCEPT !.slots = s]]
    BY DEF StoreSlot
  <2> HIDE DEF s
  <2>4. [rings[b] EXCEPT !.slots = s] = [slots |-> s, writer |-> rings[b].writer]
    BY <2>1 DEF Ring
  <2>5. [slots |-> s, writer |-> rings[b].writer] \in Ring
    BY <2>1, <2>2 DEF Ring
  <2>6. /\ rings' \in [Rings -> Ring]
        /\ \A c \in Rings : c # b => rings'[c] = rings[c]
        /\ rings'[b].slots = s /\ rings'[b].writer = rings[b].writer
    BY <2>1, <2>3, <2>4, <2>5
  <2>7. \A i \in 0..Size - 1 : s[i] =
            IF i = handler[h].at THEN handler[h].report ELSE rings[b].slots[i]
    BY <2>1 DEF s, Ring
  <2> QED
    BY <2>6, <2>7
<1>4. Words' /\ MissesOnlyFull' /\ Counted'
  BY <1>0, <1>3 DEF IInv, Words, MissesOnlyFull, Counted
<1>5. TypeOK'
  BY <1>0, <1>2, <1>3 DEF IInv, TypeOK
<1>6. Writers' /\ Alone'
  BY <1>0, <1>1, <1>2 DEF IInv, Writers, Alone, Writing
<1>7. Known'
  BY <1>0, <1>1, <1>3 DEF IInv, Known
<1>a. ASSUME handler[h].ring \notin shared
      PROVE  /\ last[handler[h].ring] <= handler[h].report
             /\ \A i \in 0..Size - 1 : rings[handler[h].ring].slots[i] <= handler[h].report
             /\ handler[h].at = rings[handler[h].ring].writer
             /\ \A g \in Handlers : Writing(g) /\ handler[g].ring = handler[h].ring => g = h
  <2>1. Writing(h)
    BY <1>1 DEF Writing
  <2> QED
    BY <2>1, <1>a, <1>1 DEF IInv, Recent, InPlace, Alone
<1>b. ASSUME NEW g \in Handlers, g # h
      PROVE  Writing(g)' <=> Writing(g)
  BY <1>b, <1>2 DEF Writing
<1>8. Recent'
  <2> SUFFICES ASSUME NEW g \in Handlers, Writing(g)', handler'[g].ring \notin shared
               PROVE  /\ last[handler'[g].ring] <= handler'[g].report
                      /\ \A i \in 0..Size - 1 : rings'[handler'[g].ring].slots[i] <= handler'[g].report
    BY <1>0 DEF Recent
  <2>1. CASE g = h
    BY <2>1, <1>1, <1>2, <1>3, <1>a, Typing DEF IInv
  <2>2. CASE g # h
    <3>1. Writing(g) /\ handler'[g] = handler[g] /\ handler[g].ring \in Rings
      BY <2>2, <1>2, <1>b DEF IInv, Writers
    <3>2. handler[g].ring # handler[h].ring
      BY <2>2, <3>1, <1>a
    <3> QED
      BY <3>1, <3>2, <1>3 DEF IInv, Recent
  <2> QED
    BY <2>1, <2>2
<1>9. InPlace'
  <2> SUFFICES ASSUME NEW g \in Handlers, Writing(g)', handler'[g].ring \notin shared
               PROVE  /\ handler'[g].pc # "load" => handler'[g].at = rings'[handler'[g].ring].writer
                      /\ handler'[g].pc = "advance" =>
                            rings'[handler'[g].ring].slots[handler'[g].at] = handler'[g].report
    BY <1>0 DEF InPlace
  <2>1. CASE g = h
    BY <2>1, <1>1, <1>2, <1>3, <1>a
  <2>2. CASE g # h
    <3>1. Writing(g) /\ handler'[g] = handler[g] /\ handler[g].ring \in Rings
      BY <2>2, <1>2, <1>b DEF IInv, Writers
    <3>2. handler[g].ring # handler[h].ring
      BY <2>2, <3>1, <1>a
    <3> QED
      BY <3>1, <3>2, <1>3 DEF IInv, InPlace
  <2> QED
    BY <2>1, <2>2
<1>10. LastBeforeWriter'
  <2> SUFFICES ASSUME NEW b \in Rings, b \notin shared, rings[b].writer # 0
               PROVE  rings'[b].slots[rings[b].writer - 1] = last[b] /\ last[b] >= 1
    BY <1>0, <1>3 DEF LastBeforeWriter
  <2>1. /\ rings[b].slots[rings[b].writer - 1] = last[b] /\ last[b] >= 1
        /\ rings[b].writer - 1 \in 0..Size - 1 /\ rings[b].writer - 1 # rings[b].writer
    BY Typing DEF IInv, LastBeforeWriter
  <2>2. CASE b = handler[h].ring
    BY <2>1, <2>2, <1>3, <1>a
  <2>3. CASE b # handler[h].ring
    BY <2>1, <2>3, <1>3
  <2> QED
    BY <2>2, <2>3
<1>11. CallerRecent'
  <2>1. ASSUME NEW r \in Readers, reader[r].pc = "read", reader[r].ring \notin shared
        PROVE  /\ rings'[reader[r].ring].slots[reader[r].at] >= reader[r].since
               /\ rings'[reader[r].ring].slots[reader[r].at] >= 1
    <3>1. /\ reader[r].ring \in Rings /\ reader[r].at \in 0..Size - 1
          /\ rings[reader[r].ring].slots[reader[r].at] >= reader[r].since
          /\ rings[reader[r].ring].slots[reader[r].at] >= 1
          /\ rings[reader[r].ring].slots[reader[r].at] \in Nat /\ reader[r].since \in Nat
      BY <2>1, Typing DEF IInv, CallerRecent
    <3>2. CASE reader[r].ring = handler[h].ring /\ reader[r].at = handler[h].at
      BY <2>1, <3>1, <3>2, <1>1, <1>3, <1>a, Typing DEF IInv
    <3>3. CASE ~(reader[r].ring = handler[h].ring /\ reader[r].at = handler[h].at)
      BY <3>1, <3>3, <1>1, <1>3
    <3> QED
      BY <3>2, <3>3
  <2> QED
    BY <2>1, <1>0 DEF IInv, CallerRecent
<1>12. Locked'
  BY <1>0, <1>1, <1>2 DEF IInv, Locked, AlarmOf
<1> QED
  BY <1>4, <1>5, <1>6, <1>7, <1>8, <1>9, <1>10, <1>11, <1>12 DEF IInv

LEMMA StoreWriterStep ==
    ASSUME IInv, NEW h \in Handlers, StoreWriter(h)
    PROVE  IInv'
<1> USE SizeAssumption
<1> DEFINE b == handler[h].ring
<1>0. UNCHANGED <<cached, reader, mutex, told, alarm, reports, shared>>
  BY DEF StoreWriter
<1>1. /\ handler[h].pc = "advance" /\ b \in Rings /\ Writing(h)
      /\ handler[h].at \in 0..Size - 1
      /\ handler[h].report \in 1..Len(reports)
  BY DEF StoreWriter, IInv, TypeOK, Handler, Writers, Writing
<1>2. /\ handler' \in [Handlers -> Handler]
      /\ \A g \in Handlers : g # h => handler'[g] = handler[g]
      /\ handler'[h].pc \in {"lock", "idle"}
      /\ handler'[h].report \in {handler[h].report, 0}
  <2>1. CASE handler[h].alarms > 0
    BY <1>1, <2>1 DEF StoreWriter, IInv, TypeOK, Handler
  <2>2. CASE ~(handler[h].alarms > 0)
    <3>1. handler' = [handler EXCEPT ![h] = IdleHandler]
      BY <2>2 DEF StoreWriter
    <3>2. IdleHandler \in Handler /\ IdleHandler.pc = "idle" /\ IdleHandler.report = 0
      BY DEF IdleHandler, Handler, NoReport
    <3> QED
      BY <3>1, <3>2 DEF IInv, TypeOK
  <2> QED
    BY <2>1, <2>2
<1>3. /\ rings' \in [Rings -> Ring]
      /\ \A c \in Rings : c # b => rings'[c] = rings[c]
      /\ \A c \in Rings : rings'[c].slots = rings[c].slots
      /\ rings'[b].writer = IF handler[h].at + 1 = Size THEN 0 ELSE handler[h].at + 1
  <2>1. rings' = [rings EXCEPT ![b].writer = (handler[h].at + 1) % Size]
    BY DEF StoreWriter
  <2>2. (handler[h].at + 1) % Size = IF handler[h].at + 1 = Size THEN 0 ELSE handler[h].at + 1
    BY <1>1, NextSlot
  <2>3. (handler[h].at + 1) % Size \in 0..Size - 1
    BY <1>1, <2>2
  <2> DEFINE w == (handler[h].at + 1) % Size
  <2>4. rings \in [Rings -> Ring] /\ rings[b] \in Ring
    BY <1>1 DEF IInv, TypeOK
  <2>5. rings' = [rings EXCEPT ![b] = [rings[b] EXCEPT !.writer = w]]
    BY <2>1
  <2>6. w \in 0..Size - 1 /\ w = IF handler[h].at + 1 = Size THEN 0 ELSE handler[h].at + 1
    BY <2>2, <2>3
  <2> HIDE DEF w
  <2>7. ASSUME NEW q \in Ring
        PROVE  LET s == [q EXCEPT !.writer = w]
               IN  s \in Ring /\ s.writer = w /\ s.slots = q.slots
    BY <2>6 DEF Ring
  <2> QED
    BY <1>1, <2>4, <2>5, <2>6, <2>7
<1>4. /\ last' \in [Rings -> Nat] /\ writes' \in [Rings -> Nat]
      /\ last'[b] = handler[h].report /\ writes'[b] = writes[b] + 1
      /\ \A c \in Rings : c # b => last'[c] = last[c] /\ writes'[c] = writes[c]
  BY <1>1 DEF StoreWriter, IInv, TypeOK
<1>5. ASSUME b \notin shared
      PROVE  /\ last[b] <= handler[h].report
             /\ handler[h].at = rings[b].writer
             /\ rings[b].slots[handler[h].at] = handler[h].report
             /\ \A g \in Handlers : Writing(g) /\ handler[g].ring = b => g = h
  BY <1>1, <1>5 DEF IInv, Recent, InPlace, Alone
<1>6. ASSUME NEW g \in Handlers, Writing(g)'
      PROVE  g # h /\ handler'[g] = handler[g] /\ Writing(g)
  BY <1>2, <1>6 DEF Writing
<1>7. TypeOK'
  BY <1>0, <1>2, <1>3, <1>4 DEF IInv, TypeOK
<1>8. Writers'
  <2>1. \A g \in Handlers : handler'[g].report <= Len(reports)
    BY <1>1, <1>2, Typing DEF IInv, Writers
  <2> QED
    BY <2>1, <1>0, <1>6 DEF IInv, Writers
<1>9. Alone'
  BY <1>0, <1>6 DEF IInv, Alone
<1>10. Known'
  BY <1>0, <1>1, <1>3, <1>4 DEF IInv, Known
<1>11. Recent' /\ InPlace'
  <2> SUFFICES ASSUME NEW g \in Handlers, Writing(g)', handler'[g].ring \notin shared
               PROVE  /\ last'[handler'[g].ring] <= handler'[g].report
                      /\ \A i \in 0..Size - 1 : rings'[handler'[g].ring].slots[i] <= handler'[g].report
                      /\ handler'[g].pc # "load" => handler'[g].at = rings'[handler'[g].ring].writer
                      /\ handler'[g].pc = "advance" =>
                            rings'[handler'[g].ring].slots[handler'[g].at] = handler'[g].report
    BY <1>0 DEF Recent, InPlace
  <2>1. g # h /\ Writing(g) /\ handler'[g] = handler[g] /\ handler[g].ring \in Rings
    BY <1>6 DEF IInv, Writers
  <2>2. handler[g].ring # b
    BY <2>1, <1>5
  <2> QED
    BY <2>1, <2>2, <1>3, <1>4 DEF IInv, Recent, InPlace
<1>12. LastBeforeWriter'
  <2> SUFFICES ASSUME NEW c \in Rings, c \notin shared, rings'[c].writer # 0
               PROVE  rings'[c].slots[rings'[c].writer - 1] = last'[c] /\ last'[c] >= 1
    BY <1>0 DEF LastBeforeWriter
  <2>1. CASE c = b
    <3>1. rings'[c].writer - 1 = handler[h].at
      BY <2>1, <1>1, <1>3
    <3> QED
      BY <2>1, <3>1, <1>1, <1>3, <1>4, <1>5
  <2>2. CASE c # b
    BY <2>2, <1>3, <1>4 DEF IInv, LastBeforeWriter
  <2> QED
    BY <2>1, <2>2
<1>13. Counted'
  <2> SUFFICES ASSUME NEW c \in Rings, c \notin shared
               PROVE  \E k \in Nat : writes'[c] = k * Size + rings'[c].writer
    BY <1>0 DEF Counted
  <2>1. PICK k \in Nat : writes[c] = k * Size + rings[c].writer
    BY DEF IInv, Counted
  <2>2. CASE c = b
    <3>0. k * Size \in Nat /\ rings[c].writer \in Nat
      BY Typing DEF IInv
    <3>1. writes'[c] = k * Size + (handler[h].at + 1)
      BY <2>1, <2>2, <3>0, <1>4, <1>5
    <3>2. CASE handler[h].at + 1 = Size
      <4>1. writes'[c] = (k + 1) * Size + 0
        BY <3>1, <3>2, Rounds
      <4> QED
        BY <4>1, <3>2, <2>2, <1>3
    <3>3. CASE handler[h].at + 1 # Size
      BY <3>1, <3>3, <2>2, <1>3
    <3> QED
      BY <3>2, <3>3
  <2>3. CASE c # b
    BY <2>1, <2>3, <1>3, <1>4
  <2> QED
    BY <2>2, <2>3
<1>14. CallerRecent'
  <2>1. ASSUME NEW r \in Readers, reader[r].pc \in {"test", "load"}, reader[r].ring \notin shared
        PROVE  reader[r].since <= last'[reader[r].ring]
    <3>1. /\ reader[r].ring \in Rings /\ reader[r].since \in Nat
          /\ reader[r].since <= last[reader[r].ring] /\ last[reader[r].ring] \in Nat
      BY <2>1, Typing DEF IInv, CallerRecent
    <3>2. CASE reader[r].ring = b
      BY <2>1, <3>1, <3>2, <1>1, <1>4, <1>5
    <3>3. CASE reader[r].ring # b
      BY <3>1, <3>3, <1>4
    <3> QED
      BY <3>2, <3>3
  <2> QED
    BY <2>1, <1>0, <1>3 DEF IInv, CallerRecent
<1>15. Words' /\ MissesOnlyFull'
  BY <1>0 DEF IInv, Words, MissesOnlyFull
<1>16. Locked'
  BY <1>0, <1>1, <1>2 DEF IInv, Locked, AlarmOf
<1> QED
  BY <1>7, <1>8, <1>9, <1>10, <1>11, <1>12, <1>13, <1>14, <1>15, <1>16 DEF IInv

-----------------------------------------------------------------------------
(* The steps of a handler that takes the alarms of its report.             *)

LEMMA AlarmStep ==
    ASSUME IInv, NEW h \in Handlers, LockAlarms(h) \/ CallHook(h) \/ HookPanics(h) \/ SaveAlarm(h)
    PROVE  IInv'
<1>0. UNCHANGED <<cached, rings, reader, reports, last, writes, shared>>
  BY DEF LockAlarms, CallHook, HookPanics, SaveAlarm
<1>1. /\ handler' \in [Handlers -> Handler]
      /\ \A g \in Handlers : g # h => handler'[g] = handler[g]
      /\ ~Writing(h) /\ ~Writing(h)'
      /\ handler'[h].report \in {handler[h].report, 0}
  <2>1. ASSUME NEW p \in {"hook", "save"}, handler' = [handler EXCEPT ![h].pc = p],
               handler[h].pc \in {"lock", "hook"}
        PROVE  /\ handler' \in [Handlers -> Handler]
               /\ \A g \in Handlers : g # h => handler'[g] = handler[g]
               /\ ~Writing(h) /\ ~Writing(h)'
               /\ handler'[h].report = handler[h].report
    BY <2>1 DEF IInv, TypeOK, Handler, Writing
  <2>2. CASE SaveAlarm(h) /\ handler[h].alarms > 1
    <3>1. /\ handler' = [handler EXCEPT ![h].pc = "lock", ![h].alarms = @ - 1]
          /\ handler[h].pc = "save"
      BY <2>2, Typing DEF SaveAlarm, IInv
    <3>2. handler[h].alarms - 1 \in Nat
      BY <2>2, Typing DEF IInv
    <3> QED
      BY <3>1, <3>2 DEF IInv, TypeOK, Handler, Writing
  <2>3. CASE HookPanics(h) \/ (SaveAlarm(h) /\ ~(handler[h].alarms > 1))
    <3>1. handler' = [handler EXCEPT ![h] = IdleHandler] /\ handler[h].pc \in {"hook", "save"}
      BY <2>3, Typing DEF HookPanics, SaveAlarm, IInv
    <3>2. IdleHandler \in Handler /\ IdleHandler.pc = "idle" /\ IdleHandler.report = 0
      BY SizeAssumption DEF IdleHandler, Handler, NoReport
    <3> QED
      BY <3>1, <3>2 DEF IInv, TypeOK, Writing
  <2> QED
    BY <2>1, <2>2, <2>3 DEF LockAlarms, CallHook
<1>2. AlarmOf(h) \in Alarm /\ AlarmOf(h).report <= Len(reports)
  BY Typing DEF IInv, Writers, AlarmOf, Alarm
<1>3. ASSUME NEW g \in Handlers, Writing(g)'
      PROVE  handler'[g] = handler[g] /\ Writing(g)
  BY <1>1, <1>3 DEF Writing
<1>4. TypeOK'
  <2>1. told' \in Alarm /\ alarm' \in Alarm /\ mutex' \in Handlers \cup {None}
    BY <1>2 DEF LockAlarms, CallHook, HookPanics, SaveAlarm, IInv, TypeOK
  <2> QED
    BY <2>1, <1>0, <1>1 DEF IInv, TypeOK
<1>5. Writers'
  <2>1. \A g \in Handlers : handler'[g].report <= Len(reports)
    BY <1>1, Typing DEF IInv, Writers
  <2> QED
    BY <2>1, <1>0, <1>3 DEF IInv, Writers
<1>6. Alone' /\ Recent' /\ InPlace'
  BY <1>0, <1>3 DEF IInv, Alone, Recent, InPlace
<1>7. Known' /\ LastBeforeWriter' /\ Counted' /\ CallerRecent' /\ MissesOnlyFull' /\ Words'
  BY <1>0 DEF IInv, Known, LastBeforeWriter, Counted, CallerRecent, MissesOnlyFull, Words
<1>8. Locked'
  <2>1. CASE LockAlarms(h)
    <3>1. /\ handler'[h].pc = "hook" /\ mutex = None /\ mutex' = h
          /\ handler'[h].report = handler[h].report /\ handler'[h].alarms = handler[h].alarms
          /\ handler[h].pc = "lock"
          /\ UNCHANGED <<told, alarm>>
      BY <2>1 DEF LockAlarms, IInv, TypeOK, Handler
    <3> QED
      BY <3>1, <1>0, <1>1, NoneAssumption DEF IInv, Locked, AlarmOf
  <2>2. CASE CallHook(h)
    <3>1. /\ handler[h].pc = "hook" /\ handler'[h].pc = "save"
          /\ handler'[h].report = handler[h].report /\ handler'[h].alarms = handler[h].alarms
          /\ told' = AlarmOf(h)
          /\ UNCHANGED <<mutex, alarm>>
      BY <2>2 DEF CallHook, IInv, TypeOK, Handler
    <3>2. mutex = h /\ \A g \in Handlers : g # h => handler[g].pc # "save"
      BY <3>1 DEF IInv, Locked
    <3> QED
      BY <3>1, <3>2, <1>0, <1>1, <1>2 DEF IInv, Locked, AlarmOf
  <2>3. CASE SaveAlarm(h)
    <3>1. /\ handler[h].pc = "save" /\ handler'[h].pc \in {"lock", "idle"}
          /\ alarm' = AlarmOf(h) /\ mutex' = None /\ told' = told
      BY <2>3 DEF SaveAlarm, IInv, TypeOK, Handler, IdleHandler
    <3>2. /\ mutex = h /\ told = AlarmOf(h)
          /\ \A g \in Handlers : g # h => handler[g].pc \notin {"hook", "save"}
      BY <3>1 DEF IInv, Locked
    <3> QED
      BY <3>1, <3>2, <1>0, <1>1, <1>2, NoneAssumption DEF IInv, Locked
  <2>4. CASE HookPanics(h)
    <3>1. /\ handler[h].pc = "hook" /\ handler'[h].pc = "idle"
          /\ mutex' = None /\ UNCHANGED <<told, alarm>>
      BY <2>4 DEF HookPanics, IInv, TypeOK, IdleHandler
    <3>2. mutex = h /\ \A g \in Handlers : g # h => handler[g].pc \notin {"hook", "save"}
      BY <3>1 DEF IInv, Locked
    <3> QED
      BY <3>1, <3>2, <1>0, <1>1, NoneAssumption DEF IInv, Locked, AlarmOf
  <2> QED
    BY <2>1, <2>2, <2>3, <2>4
<1> QED
  BY <1>4, <1>5, <1>6, <1>7, <1>8 DEF IInv

-----------------------------------------------------------------------------
(* The steps of the keepalive check and of a caller.                       *)

LEMMA DelGeoStep ==
    ASSUME IInv, DelGeoByPhone
    PROVE  IInv'
<1>0. UNCHANGED <<rings, handler, reader, mutex, told, alarm, reports, last, writes, shared>>
  BY DEF DelGeoByPhone
<1>1. TypeOK'
  BY <1>0 DEF DelGeoByPhone, IInv, TypeOK
<1>2. \A g \in Handlers : (Writing(g)' <=> Writing(g)) /\ AlarmOf(g)' = AlarmOf(g)
  BY <1>0 DEF Writing, AlarmOf
<1>3. Writers' /\ Alone' /\ Recent' /\ InPlace' /\ Locked'
  BY <1>0, <1>2 DEF IInv, Writers, Alone, Recent, InPlace, Locked
<1>4. Known' /\ LastBeforeWriter' /\ Counted' /\ CallerRecent' /\ MissesOnlyFull' /\ Words'
  BY <1>0 DEF IInv, Known, LastBeforeWriter, Counted, CallerRecent, MissesOnlyFull, Words
<1> QED
  BY <1>1, <1>3, <1>4 DEF IInv

\* Whatever a caller does, only what is said of callers can be disturbed.
LEMMA CallerFrame ==
    ASSUME IInv, UNCHANGED <<rings, handler, mutex, told, alarm, reports, last, writes, shared>>,
           cached' \in Rings \cup {None}, NEW r \in Readers, NEW c \in Reader,
           reader' = [reader EXCEPT ![r] = c],
           /\ c.pc # "idle" => c.ring \in Rings
           /\ c.pc \in {"test", "load"} /\ c.ring \notin shared => c.since <= last[c.ring]
           /\ c.pc = "read" => c.at \in 0..Size - 1
           /\ c.pc = "read" /\ c.ring \notin shared =>
                 rings[c.ring].slots[c.at] >= c.since /\ rings[c.ring].slots[c.at] >= 1
           /\ c.pc = "found" /\ c.ring \notin shared =>
                 c.result >= c.since /\ c.result \in 1..Len(reports)
           /\ c.pc \in {"missing", "panic"} /\ c.ring \notin shared => c.seen % Size = 0
    PROVE  IInv'
<1>1. TypeOK'
  BY DEF IInv, TypeOK
<1>2. \A g \in Handlers : (Writing(g)' <=> Writing(g)) /\ AlarmOf(g)' = AlarmOf(g)
  BY DEF Writing, AlarmOf
<1>3. Writers' /\ Alone' /\ Recent' /\ InPlace' /\ Locked'
  BY <1>2 DEF IInv, Writers, Alone, Recent, InPlace, Locked
<1>4. Known' /\ LastBeforeWriter' /\ Counted' /\ Words'
  BY DEF IInv, Known, LastBeforeWriter, Counted, Words
<1>5. reader'[r] = c /\ \A q \in Readers : q # r => reader'[q] = reader[q]
  BY DEF IInv, TypeOK
<1>6. CallerRecent'
  BY <1>5 DEF IInv, CallerRecent
<1>7. MissesOnlyFull'
  BY <1>5 DEF IInv, MissesOnlyFull
<1> QED
  BY <1>1, <1>3, <1>4, <1>6, <1>7 DEF IInv

LEMMA CallerStep ==
    ASSUME IInv, NEW r \in Readers, GetLatest(r) \/ ReaderStep(r)
    PROVE  IInv'
<1> USE SizeAssumption
<1> DEFINE b == reader[r].ring
<1>1. reader[r] \in Reader /\ UNCHANGED <<rings, handler, mutex, told, alarm, reports, last, writes, shared>>
  BY DEF IInv, TypeOK, GetLatest, ReaderStep, TestWriter, LoadIndex, ReadSlot
<1>2. CASE GetLatest(r)
  <2>1. PICK d \in Rings : /\ cached' = d
                           /\ reader' = [reader EXCEPT ![r] = [IdleReader EXCEPT !.pc = "test", !.ring = d, !.since = last[d]]]
    BY <1>2 DEF GetLatest, GetGeoRingByPhone
  <2> DEFINE c == [IdleReader EXCEPT !.pc = "test", !.ring = d, !.since = last[d]]
  <2>2. IdleReader \in Reader
    BY DEF IdleReader, Reader, NoReport
  <2>3. last[d] \in Nat
    BY Typing DEF IInv
  <2>4. c \in Reader /\ c.pc = "test" /\ c.ring = d /\ c.since = last[d]
    BY <2>2, <2>3 DEF Reader
  <2>5. cached' \in Rings \cup {None} /\ reader' = [reader EXCEPT ![r] = c]
    BY <2>1
  <2> HIDE DEF c
  <2>6. c.since <= last[c.ring] /\ c.ring \in Rings
    BY <2>3, <2>4
  <2> QED
    BY <2>4, <2>5, <2>6, <1>1, CallerFrame
<1>3. ASSUME ReaderStep(r)
      PROVE  b \in Rings /\ cached' \in Rings \cup {None} /\ reader[r].since \in Nat
  BY <1>3, Typing DEF IInv, TypeOK, CallerRecent, ReaderStep, TestWriter, LoadIndex, ReadSlot
<1>4. ASSUME ReaderStep(r), b \notin shared, rings[b].writer = 0
      PROVE  writes[b] % Size = 0
  <2>1. PICK k \in Nat : writes[b] = k * Size + 0
    BY <1>3, <1>4 DEF IInv, Counted
  <2>2. k * Size \in Nat
    OBVIOUS
  <2> QED
    BY <2>1, <2>2, Rounds
<1>5. CASE TestWriter(r)
  <2> DEFINE c == [reader[r] EXCEPT !.pc = IF rings[b].writer = 0 THEN "missing" ELSE "load", !.seen = writes[b]]
  <2>1. reader' = [reader EXCEPT ![r] = c] /\ reader[r].pc = "test"
    BY <1>5 DEF TestWriter
  <2>2. /\ c \in Reader /\ c.pc = (IF rings[b].writer = 0 THEN "missing" ELSE "load")
        /\ c.ring = b /\ c.since = reader[r].since /\ c.seen = writes[b]
    BY <1>1, <1>3, <1>5, Typing DEF IInv, Reader, Answered, ReaderStep
  <2>3. c.ring \notin shared => c.since <= last[b]
    BY <2>1, <2>2 DEF IInv, CallerRecent
  <2> HIDE DEF c
  <2> QED
    BY <2>1, <2>2, <2>3, <1>1, <1>3, <1>4, <1>5, CallerFrame DEF ReaderStep
<1>6. CASE LoadIndex(r)
  <2> DEFINE c == [reader[r] EXCEPT !.pc = IF rings[b].writer = 0 THEN "panic" ELSE "read",
                                    !.at = rings[b].writer - 1, !.seen = writes[b]]
  <2>1. reader' = [reader EXCEPT ![r] = c] /\ reader[r].pc = "load"
    BY <1>6 DEF LoadIndex
  <2>2. rings[b].writer \in 0..Size - 1 /\ rings[b].writer - 1 \in -1..Size - 1 /\ writes[b] \in Nat
    BY <1>3, <1>6, Typing DEF IInv, ReaderStep
  <2>3. /\ c \in Reader /\ c.pc = (IF rings[b].writer = 0 THEN "panic" ELSE "read")
        /\ c.ring = b /\ c.since = reader[r].since /\ c.seen = writes[b] /\ c.at = rings[b].writer - 1
    BY <1>1, <2>2 DEF Reader, Answered
  <2>4. c.ring \notin shared /\ rings[b].writer # 0 =>
           rings[b].slots[c.at] >= c.since /\ rings[b].slots[c.at] >= 1
    <3>1. SUFFICES ASSUME b \notin shared, rings[b].writer # 0
                   PROVE  rings[b].slots[rings[b].writer - 1] >= reader[r].since
                          /\ rings[b].slots[rings[b].writer - 1] >= 1
      BY <2>3
    <3>2. reader[r].since <= last[b] /\ reader[r].since \in Nat /\ last[b] \in Nat
      BY <2>1, <3>1, <1>3, <1>6, Typing DEF IInv, CallerRecent, ReaderStep
    <3>3. rings[b].slots[rings[b].writer - 1] = last[b] /\ last[b] >= 1
      BY <3>1, <1>3, <1>6 DEF IInv, LastBeforeWriter, ReaderStep
    <3> QED
      BY <3>2, <3>3
  <2>5. rings[b].writer # 0 => c.at \in 0..Size - 1
    BY <2>2, <2>3
  <2> HIDE DEF c
  <2> QED
    BY <2>1, <2>3, <2>4, <2>5, <1>1, <1>3, <1>4, <1>6, CallerFrame DEF ReaderStep
<1>7. CASE ReadSlot(r)
  <2> DEFINE c == [reader[r] EXCEPT !.pc = "found", !.result = rings[b].slots[reader[r].at]]
  <2>1. reader' = [reader EXCEPT ![r] = c] /\ reader[r].pc = "read"
    BY <1>7 DEF ReadSlot
  <2>2. /\ b \in Rings /\ reader[r].at \in 0..Size - 1
        /\ rings[b].slots[reader[r].at] \in Nat /\ rings[b].slots[reader[r].at] <= Len(reports)
    BY <2>1, <1>3, <1>7, Typing DEF IInv, CallerRecent, Known, ReaderStep
  <2>3. /\ c \in Reader /\ c.pc = "found" /\ c.ring = b /\ c.since = reader[r].since
        /\ c.result = rings[b].slots[reader[r].at]
    BY <1>1, <2>2 DEF Reader, Answered
  <2>4. b \notin shared => c.result >= c.since /\ c.result >= 1
    BY <2>1, <2>3 DEF IInv, CallerRecent
  <2>5. b \notin shared => c.result \in 1..Len(reports)
    BY <2>2, <2>3, <2>4, Typing DEF IInv
  <2> HIDE DEF c
  <2> QED
    BY <2>1, <2>2, <2>3, <2>4, <2>5, <1>1, <1>3, <1>7, CallerFrame DEF ReaderStep
<1> QED
  BY <1>2, <1>5, <1>6, <1>7 DEF ReaderStep

-----------------------------------------------------------------------------
LEMMA StepIInv == IInv /\ [Next]_vars => IInv'
<1> SUFFICES ASSUME IInv, [Next]_vars PROVE IInv'
  OBVIOUS
<1>1. ASSUME NEW h \in Handlers, NEW meta \in Metas, NEW alarms \in 0..MaxAlarms,
             Report(h, meta, alarms)
      PROVE  IInv'
  BY <1>1, ReportStep
<1>2. ASSUME NEW h \in Handlers, HandlerStep(h)
      PROVE  IInv'
  BY <1>2, LoadWriterStep, StoreSlotStep, StoreWriterStep, AlarmStep DEF HandlerStep
<1>3. CASE DelGeoByPhone
  BY <1>3, DelGeoStep
<1>4. ASSUME NEW r \in Readers, GetLatest(r) \/ ReaderStep(r)
      PROVE  IInv'
  BY <1>4, CallerStep
<1>5. CASE UNCHANGED vars
  <2>1. \A g \in Handlers : (Writing(g)' <=> Writing(g)) /\ AlarmOf(g)' = AlarmOf(g)
    BY <1>5 DEF Writing, AlarmOf, vars
  <2>2. TypeOK' /\ Known' /\ LastBeforeWriter' /\ Counted' /\ CallerRecent' /\ MissesOnlyFull' /\ Words'
    BY <1>5 DEF vars, IInv, TypeOK, Known, LastBeforeWriter, Counted, CallerRecent, MissesOnlyFull, Words
  <2>3. Writers' /\ Alone' /\ Recent' /\ InPlace' /\ Locked'
    BY <2>1, <1>5 DEF vars, IInv, Writers, Alone, Recent, InPlace, Locked
  <2> QED
    BY <2>2, <2>3 DEF IInv
<1> QED
  BY <1>1, <1>2, <1>3, <1>4, <1>5 DEF Next

LEMMA Invariant == Spec => []IInv
BY InitIInv, StepIInv, PTL DEF Spec

\* The types hold; in particular no Writer ever leaves its ring.
THEOREM TypeCorrect == Spec => []TypeOK
<1>1. IInv => TypeOK
  BY DEF IInv
<1> QED
  BY <1>1, Invariant, PTL

\* A caller is never handed a position older than the last one stored before
\* its call, and finds the flags that were reported.
THEOREM LatestAlwaysFresh == Spec => []LatestFresh
<1>1. IInv => LatestFresh
  <2> SUFFICES ASSUME IInv, NEW r \in Readers, reader[r].pc = "found", reader[r].ring \notin shared
               PROVE  /\ reader[r].result >= reader[r].since
                      /\ reader[r].result \in 1..Len(reports)
                      /\ Decode(reports[reader[r].result].status)
                           = {Mirror(f) : f \in reports[reader[r].result].meant}
    BY DEF LatestFresh
  <2>1. reader[r].result >= reader[r].since /\ reader[r].result \in 1..Len(reports)
    BY DEF IInv, CallerRecent
  <2>2. /\ reports[reader[r].result].meant \in SUBSET Flags
        /\ reports[reader[r].result].status = Encode(reports[reader[r].result].meant)
    BY <2>1 DEF IInv, Words
  <2> QED
    BY <2>1, <2>2, Decoding
<1> QED
  BY <1>1, Invariant, PTL

\* A caller is told that there is no position only where the ring has just
\* gone round.
THEOREM MissesOnlyAtWrap == Spec => []MissesOnlyFull
<1>1. IInv => MissesOnlyFull
  BY DEF IInv
<1> QED
  BY <1>1, Invariant, PTL

\* Hook and cache see the alarms in the same order.
THEOREM AlarmsStayInOrder == Spec => []AlarmsInOrder
<1>1. IInv => AlarmsInOrder
  <2> SUFFICES ASSUME IInv, mutex = None
               PROVE  alarm = told /\ alarm.report <= Len(reports)
    BY DEF AlarmsInOrder
  <2>1. \A h \in Handlers : handler[h].pc # "save"
    BY NoneAssumption DEF IInv, Locked
  <2> QED
    BY <2>1 DEF IInv, Locked
<1> QED
  BY <1>1, Invariant, PTL

-----------------------------------------------------------------------------
(* The bounds of Keepalive for every keepalive period.  The bound on the   *)
(* age alone is not inductive: what a tick keeps constant is the age at    *)
(* which the next check will find the device, age + due.                   *)

AgeAtCheck == age + due

AgeInv ==
    /\ AgeTypeOK
    /\ status = "absent" => age = 0
    /\ status \in Active => AgeAtCheck <= 2 * K
    /\ status = "offline" => AgeAtCheck <= 3 * K
    /\ status = "offline" /\ contact \in Active => AgeAtCheck > 2 * K
    /\ age <= longest

LEMMA AgeNextLemma == AgeInv /\ [AgeNext]_ageVars => AgeInv'
<1> SUFFICES ASSUME AgeInv, [AgeNext]_ageVars PROVE AgeInv'
  OBVIOUS
<1> USE KAssumption DEF AgeInv, AgeTypeOK, AgeAtCheck, Status, Active
<1>1. CASE Register
  BY <1>1 DEF Register, Present
<1>2. ASSUME NEW to \in Status \ {"absent"}, Renew(to), to = "offline" => status = "offline"
      PROVE  AgeInv'
  BY <1>2 DEF Renew, Present
<1>3. CASE Authenticate \/ ReportAsleep
  BY <1>2, <1>3 DEF Authenticate, ReportAsleep
<1>4. CASE Heartbeat
  <2>1. status \in Status \ {"absent"}
    BY <1>4 DEF Heartbeat, Renew, Present
  <2> QED
    BY <1>2, <1>4, <2>1 DEF Heartbeat
<1>5. CASE Logout \/ Clear
  BY <1>5 DEF Logout, Clear, Forget
<1>6. CASE Tick
  BY <1>6 DEF Tick, Present
<1>7. CASE TurnOffline
  BY <1>7 DEF TurnOffline, Firing, Stale, Present
<1>8. CASE Pass
  BY <1>8 DEF Pass, Firing, Stale, Present
<1>9. CASE UNCHANGED ageVars
  BY <1>9 DEF ageVars
<1> QED
  BY <1>1, <1>3, <1>4, <1>5, <1>6, <1>7, <1>8, <1>9 DEF AgeNext, Terminal, Check

LEMMA AgeInitLemma == AgeInit => AgeInv
BY KAssumption DEF AgeInit, AgeInv, AgeTypeOK, AgeAtCheck, Status, Active

\* In every state the age at which the next check will find the device is bounded by its
\* status (keepalive.go, Device.ShouldTurnOffline and ShouldClear).
THEOREM AgeInvariance == AgeSpec => []AgeInv
BY AgeInitLemma, AgeNextLemma, PTL DEF AgeSpec

\* Whatever the keepalive period and wherever a check falls in it, three periods
\* after its last renewing message a device is out of the cache.
THEOREM SilentDeviceGone == AgeSpec => []GoneInTime
<1>1. AgeInv => GoneInTime
  BY KAssumption DEF AgeInv, AgeTypeOK, GoneInTime, AgeAtCheck, Status
<1> QED
  BY <1>1, AgeInvariance, PTL

\* A device that was active at its last renewing message is cleared only after
\* more than two periods.
THEOREM TwoChecks == AgeSpec => ActiveGetsTwoChecks
<1>1. AgeInv /\ [AgeNext]_ageVars => [Clear /\ contact \in Active => age > 2 * K]_ageVars
  BY KAssumption DEF AgeInv, AgeTypeOK, AgeAtCheck, Clear, Firing, Status
<1> QED
  BY <1>1, AgeInvariance, PTL DEF AgeSpec, ActiveGetsTwoChecks

\* A terminal that renews its registration at least once per keepalive period is
\* left alone by the check: the comparison in ShouldTurnOffline is strict.
THEOREM DiligenceRewarded == AgeSpec => DiligentStays
<1>1. AgeInv /\ [AgeNext]_ageVars => [TurnOffline \/ Clear => longest > Period]_ageVars
  BY KAssumption, PeriodAssumption DEF AgeInv, AgeTypeOK, TurnOffline, Clear, Stale
<1> QED
  BY <1>1, AgeInvariance, PTL DEF AgeSpec, DiligentStays

\* The next check is never further away than one period, for every period.
THEOREM AgeTypeCorrect == AgeSpec => []AgeTypeOK
<1>1. AgeInv => AgeTypeOK
  BY DEF AgeInv
<1> QED
  BY <1>1, AgeInvariance, PTL
=============================================================================
