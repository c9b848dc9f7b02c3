# A TLA+ model of jt808-server-go

jt808-server-go is a platform for vehicle terminals that speak JT/T 808 over TCP.
Terminals register, authenticate, send heartbeats and positions; the platform keeps a
registry of devices, turns silent ones offline and forgets them, keeps their latest
positions and alarms, and sends them messages (queries and settings of parameters) whose
answers are handed back to the caller.  The repository also holds a simulated terminal.
Both ends are sets of goroutines around a few singletons, and share the pipeline that
turns octets into messages and back. This directory models them, checks the models with
TLC and proves the main invariants with TLAPS.

## The system

| Part | State | Operations | Talks to | What makes it correct |
|---|---|---|---|---|
| Device cache (`internal/storage/device_cache.go`) | two maps to the same `*Device`, by phone and by plate, one mutex | has / get / cache / delete / update status, each one critical section | handlers, keepalive check, sender, HTTP, wrapper | the maps agree; a device is in it exactly between registration and removal |
| Message processor (`internal/protocol/msg_processor.go`) | none of its own | one handler per message id | device cache, keepalive timer, sender, position and alarm caches | each handler is a sequence of critical sections on a device it holds a pointer to: no step may act on what is no longer true |
| Keepalive timer (`internal/protocol/keepalive.go`) | gron's entries, by phone | register, cancel, check (one goroutine per run) | device cache, connections | every registered device has a job, a job never meets a missing device, silent devices go, punctual ones stay |
| TCP server, session cache (`internal/server`, `session_cache.go`) | listener, sessions by remote address | accept, serve (one goroutine per connection), remove | pipeline | a connection that ends, in whatever way, is closed and leaves the cache |
| Sender (`internal/protocol/sender.go`) | queue `Sending`, map `Waiting` of callbacks by (phone, message id, serial number), one mutex | append, send loop each second, process answer | device and session cache, connections, callers | an answer calls back the one request it belongs to, once; messages go out at most once and do not stay queued; the synchronous `Send` bypasses it, but not its answers |
| Wrapper (`wrapper/wrapper.go`) | a channel per call | get and set the parameters of all devices, hooks | sender, caches | returns in time; success is complete; callbacks do not hold up the sender |
| Pipeline (`pipeline.go`, `pkg/routines`) | none | receive, decode, process, encode, send; an error ends the chain, a panic ends the goroutine | connection | - |
| Frames and packets (`frame_handler.go`, `packet_codec.go`) | read buffer | read, unescape, verify; escape, checksum, write | connection | a packet survives encoding and decoding; a read is one frame |
| Header and bodies (`model/`) | none | decode, encode, make the answer | codecs (`codec/hex`) | what is decoded is what was meant; an answer names its message |
| Sub-packets (`segment_cache.go`, `model/segment.go`) | partial messages by phone and message id | merge | packet codec | no part is taken for a whole |
| Positions (`geo_cache.go`, `ring_buffer.go`) | a ring of 100 positions per phone, without lock | write, latest, delete | handler 0200, HTTP, keepalive check | the latest is the last written |
| Alarms and hooks (`alarm_cache.go`, `event.go`) | last alarm per phone, callbacks | cache, call the hook | handler 0200, wrapper | hook and cache see the same order |
| Parameters (`param_cache.go`, `device_params.go`) | parameters per phone, at the terminal | update, list | handlers 8103 and 8104 | a setting changes what is stored and nothing else; a query agrees with it |
| Test client (`test/client/main.go`, `internal/client`, `test/datagen`) | a device, a ring, a connection | dial, register, authenticate, report, dial again | the platform | it comes online in the end; goroutines of old connections end |
| HTTP (`main.go`), configuration, logging | - | - | all | - |

What is hard in it: handlers of several connections and the keepalive checks interleave
between any two critical sections of the device cache, holding pointers to devices that
others remove; the check runs in a goroutine of gron in which a panic ends the process,
while a panic in a serve goroutine is recovered; the sender holds its mutex over network
writes; serial numbers wrap and start again with every session; a broadcast counts
answers that may come late or never; a read of the stream is taken for one frame,
whatever it holds; slices have spare capacity that decoders read; the ring of positions
has no lock; the simulated terminal keeps one device per phone number for connections
that succeed each other.

## Modules

| Module | Models | Extends / uses |
|---|---|---|
| `Registry` | what the registry promises: every handler and every check is one step | - |
| `Devices` | the same handlers and checks split at every lock, over a heap of device objects | - |
| `DevicesSerial` | the executions of `Devices` in which handlers and checks do not overlap, with a refinement mapping | `Devices`, INSTANCE of `Registry` |
| `Keepalive` | one device with its clock | - |
| `Sender` | callers of both `Send` and `SendV2`, send loop, answers, sessions | - |
| `Broadcast` | one call of the wrapper | - |
| `Octets` | the types of the protocol as octets: words, BCD, times, padded text; layouts of fields; slices with spare capacity | - |
| `Parameters` | table, list and update of parameters | `Octets` |
| `Messages` | header and bodies of every message the processor handles, and its answer | `Parameters` |
| `Packets` | escaping, check octet, packet codec | `Messages` |
| `Wire` | one end of a connection: stream, reads, fragments, dispatch, answers, stored parameters | `Packets` |
| `Positions` | rings of positions, alarm cache and hook of one terminal | - |
| `Terminal` | the simulated terminal and the platform it talks to | - |
| `MC*` | instances for TLC | |
| `PacketNotions`, `WireNotions` | what the proofs about `Packets` and `Wire` speak of: inductive invariants, what it means that a packet carries a message; no part of the program | `Packets`; `Wire`, `PacketNotions` |
| `PacketProofs` | theorems about `Octets`, `Parameters`, `Messages` and `Packets`, for every input | `PacketNotions` |
| `WireProofs` | theorems about `Wire` | `WireNotions`, `PacketProofs` |
| `PositionsProofs` | theorems about `Positions` and `Keepalive` | `Positions`, `Keepalive` |
| other `*Proofs` | theorems | the module of that name (`DevicesProofs`: `DevicesSerial`) |

The composition: `Devices` puts device cache, handlers, keepalive check, connections and
session cache together; `Sender` sees of it only that devices, sessions and connections
come and go (its actions `Register`, `Unregister`, `CloseConn`, `RemoveSession`);
`Broadcast` sees of the Sender only that each filed callback is called at most once and
perhaps never, which is `AnsweredOnce` of `Sender`; `Wire` is what a message goes
through before `Devices`, `Positions` and `Terminal` see it, and leaves to them what its
handler does to the device (its action `Refuse` is a handler that finds none);
`Terminal` is the client against the platform of `Registry` for one phone number;
`Keepalive` keeps the clock that `Registry` and `Devices` reduce to one bit.

### Registry

A device is a record [plate, conn, status, fresh]; `reg` maps a phone to its device,
`jobs` is the set of phones with an entry in the cron, `open` the connections.  `fresh`
stands for `LastComTime` being at most `Keepalive` old: `Expire` makes it false.  The
actions are the messages (`Register` 0100, `Authenticate` and `FailAuthentication` 0102,
`Heartbeat` 0002, `ReportAsleep` 0200 with the ignition off, `Logout` 0003, `Reject` any
of them for an unknown phone) and the check (`TurnOffline`, `Clear`).  A message may
come from any connection: the handlers identify the terminal by the phone number in the
header.  A terminal is a pair of phone and plate; authentication succeeds if the plate
of the terminal is the registered one (the code is a hash of device id, plate and phone;
the hash is taken to be free of collisions).  A refused 0100 and a 0200 with the
ignition on, 0001 and 0104 change nothing and are no steps.

### Devices

One step per critical section of the device cache, the cron or the session cache, and
per use of a connection.  `heap` holds the devices, `byPhone` and `byPlate` are the
maps, `dev[c]` is the handler's local `device`, `kdev[ph]` the check's local `d`, `pc`
and `kpc` say what a goroutine does next.  Where the code branches:

- 0100: `HasPlate`, `HasPhone`, then `InsertNew`, `JobLookup`, `JobAdd`; or the refusal
  with the registered code (`RefuseWithCode`), which panics if the device has gone since
  (`PanicOnCode`).
- others: `Lookup`, then `Renew` (0002), `SetOnline` (0102), `SetAsleep` (0200), or
  `CancelJob` and `Delete` (0003, and 0102 with a wrong code).
- the check: `Fire`, `Get`, then `Missing`, or `Decide` and `TurnOffline`, or
  `CloseConn`, `ClearDevice`, `CancelOwnJob`.
- `Missing` sets `crashed`: the code cancels the job and goes on with a nil device.
- `serve`: `Accept`, `Receive`, `Hangup` (end of file; a panic in decoding ends the
  connection in the same way), `ReadClosed`, `RemoveSession`.

Merged or left out: a write to a device's field belongs to the step that caches it (the
fields are written without the lock, next to it); the answer is sent with the last step
of the handler; errors for which `serve` sleeps and reads on change nothing; the status
hook; positions and alarms.  gron is external: a set of job ids, of which a run is over
before the next is due.  Cells of the heap are reused when nothing points to them, and
so is a connection.

### Keepalive

`age` is the time since `LastComTime`, `due` the time until gron fires the check, which
it does every `K` from the registration on and not from the last message. `contact`
remembers the status at the last renewal and `longest` the longest silence.  A tick
cannot pass a due check.  The names of its initial predicate, next-state relation,
specification and type invariant begin with `Age`.  0200 with the ignition on, 0001 and 0104 do not renew
`LastComTime` in the code, so they are no steps here: a "diligent" terminal is one that
sends heartbeats, authentications or sleep reports.

### Sender

A request goes from "new" through `Number` (the serial number of the session:
`Increment` and, at the wrap, `Reset` and `Load`, each an operation of its own, so that
two requests may get one number) and then one of two ways.  A request of `SendV2` is
appended to the queue or refused (`AppendRequest`, `RefuseRequest`).  `Begin`, `Lookup`,
`Write`, `WriteClosed`, `WriteError`, `End` are one round of `send`, during which the
mutex is held (`pos` # 0); a write blocks when the connection holds `Cap` messages.  A
request in `Direct` is sent by the synchronous `Send`, as by the first two handlers of
`/device/:phone/params` in `main.go`: its caller looks the session up again by its id
(`FindSession`) and writes past the queue and without the mutex (`SendMsg`,
`SendClosed`, `SendError`); nothing is filed in `Waiting`.  `session` is the session a
caller keeps between these steps.

The terminal reads and answers or ignores; `ProcResponse` runs under the mutex.  An
answer carries message id and serial number of the message it answers, and finds the
request filed under them, whoever sent that message: the answer to a synchronous message
calls a queued request back that has the same key.  `Clashed` says that a synchronous
message has gone out under the key of a request.  `RemoveSession` loses what is under
way.  `written` and `answers` are history.

### Broadcast

`Call` takes the list of devices; for each, `Skip` (no session, or refused by the
Sender) or `SendV2`; then `Receive`, `Tick` and `Timeout` are the select. `Callback`
runs for a filed device at any time, also after the return; `PanickingCallback` is an
answer of the wrong type, for which the type assertion panics.  `blocked` says that a
callback found no room in the channel.  A refused setting sends nil, because
`errors.Wrapf(nil, ...)` is nil.

### Octets, Parameters, Messages, Packets

Pure operators.  A body is a sequence of fields [name, kind, size], its layout; `Write`
and `Read` are the functions of `codec/hex` for each kind, `WriteAll` and `ReadAll` the
calls of an `Encode` and a `Decode`.  A slice is [mem, len]: most reads re-slice and so
panic only beyond the capacity, not beyond the length, which is how stale octets can be
read (`Readable`).  A DWORD is a pair of words, since TLC's integers have 32 bits with a
sign; text is its GBK octets, a phone number its digits.  The layout of a message
depends on the version of the header, for 0100 on the length of the body too; the extra
items of 0200 and the parameter lists are walked as the code walks them.  `GenOutgoing`
is the answer: it takes over the header of the incoming message, fragment and serial
number included, and changes its `MsgID`.  `escape`, `unescape`, `genVerifier` and
`verify` are those of the packet codec: `escape` joins what each octet becomes
(`Escaped`), `unescape` what each octet after its predecessor stands for (`Unescaped`).

`Holds` says which values the type of a field holds and its octets can carry, `Whole` and
`Writable` which headers and messages an `Encode` writes down without loss, and `Exact`
that a message has nothing but what is written.  They are where the divergences below
begin: a telephone number that is not of full length, a body of more than ten bits of
length, a parameter count that is not that of the list.

### Wire

`side` is the end that reads; both run the same pipeline.  `Send` puts the frame of a
sample into `stream`; `ReadStream` takes a prefix that ends with a frame or inside one
(`SplitAt`), so that a read may hold part of a frame, one, or several.  What becomes of
it: `Drop` (an error: the reader sleeps a second and goes on), `Break` (a panic: the
goroutine recovers and ends), `Refuse` (no such device: the reader ends), `Stray` (a
fragment of a phone without device), `Handle`.  A handler that answers encodes the
answer and `Received` is what the peer decodes of it.  `segments` is the segment cache,
with the total that the first fragment of each key had, which is what the number of
every later one is compared with: at the platform there is none, because its once is that of the session
cache (`SegmentCacheMade`).  `params` are the terminal's stored parameters, `acked` the
values last set by an acknowledged 8103.

### Positions

Every load and store of a ring is a step of its own: `LoadWriter`, `StoreSlot`,
`StoreWriter` for a handler, `TestWriter`, `LoadIndex`, `ReadSlot` for a caller of
`Latest`, which loads the Writer twice.  `Report` is the start of a handler of 0200 (the
flags of the status word, encoded by the terminal, travel with it), `LockAlarms`,
`CallHook` (or `HookPanics`: the unlock is deferred, so the mutex is free again, nothing
is stored and the connection ends) and `SaveAlarm` its alarms, `DelGeoByPhone` the keepalive check.  Rings are
taken from a pool and never used twice.  `last` and `writes` are what has been stored
completely, and `shared` marks a ring to which two handlers wrote at once.

### Terminal

`Dial`, `BuildDevice`, `SendRegister`, `CheckStatus` are the client's main and the
goroutine of a connection; `SendHeartbeat`, `HeartbeatWakes`, `SendPosition`,
`ReportWakes` its two loops; `ProcessMsg8100`, `ProcessMsg8001` and `ReadEOF` its
reader.  The loops and the starter of an old connection may outlive it, and look at the
one device of the phone number.  The platform handles a message in one step
(`ProcessMsg0100`, `ProcessMsg0102`, `ProcessReport`, `DeviceNotFound`) and may `Clear`
the device. Assumptions: the phone number is fixed (so in four of the five shipped
configurations; `default.yaml` draws one); a device is built, which takes no input or
output, within the two seconds before the next dial; the reader meets the end of the
stream when the platform has closed and nothing is left; connections cut, devices
cleared and taken plates drawn are bounded by `MaxFaults`; the client's reader does not
panic (a panic would leave the context uncancelled and its loops running).

## What is checked

Bounds are in the cfg files.  Runs that must pass:

| Run | Instance | Properties |
|---|---|---|
| `registry` | 3 connections, phones p1, p2 and plates q1, q2 in three terminals (a shared plate, a shared phone) | `JobPerDevice`, `PlatesDistinct`; under fairness `SilentDeviceGone` |
| `devices_one` | 2 connections of one terminal, 3 cells | `IndexesAgree` |
| `devices_alone` | 1 connection, every kind of message | `ClosedConnReleased` under fairness |
| `devices_serial` | 2 connections, the three terminals of `registry` | `ImplementsRegistry` (refinement), `NoCrashWhenSerial` |
| `keepalive` | K = Period = 4 | `AgeTypeOK`, `GoneInTime`, `ActiveGetsTwoChecks`, `DiligentStays` |
| `sender` | 2 requests through the queue and 1 past it, all with one message id for one device, 2 sessions, serial numbers 0..1, room for one message | `AnsweredOnce`, `AnswerFindsCallback`, `KeysDistinct`, `WrittenOnce`; under fairness `QueueDrains`, `CallersReturn` |
| `broadcast` | 3 devices, timeout 2 | `CallbackNeverBlocks`, `SuccessMeansAnswered`, `ReturnsInTime`; under fairness `Returns` |
| `wire` | 11 messages and 2 fragments to the platform, 6 messages, 2 fragments and a malformed setting to the terminal; 2 frames under way; reads may end after 1, 14 or 40 octets of a frame | `BordersDeliver`, `AnswersMatch`, `NoPartHandled`, `SettingsHold`, `ParamsKept` |
| `positions` | 2 handlers, 1 caller, 2 rings of 2 slots, 3 reports of up to 2 alarms | `LatestFresh`, `MissesOnlyFull`, `AlarmsInOrder` |
| `terminal` | 3 identities, one with a taken plate; 2 faults, so 3 connections; 2 messages under way each way | `OnlineAuthenticated`, `NothingBeforeAuth`; under fairness `ComesOnline`, `OldLoopsEnd` |

Each also checks its type invariant where it has one.  Why the bounds are enough: two
connections of one terminal are a reconnection, the case in which two handlers and a
check hold the same or different objects of one phone; three cells are the device in the
cache, an older one that a goroutine still holds and a new one. `devices_one` receives
the four kinds of message that write (0100, 0102, 0002, 0003); the others follow the
same steps and are in `devices_alone`.  Serial numbers 0..1 wrap with the second number
taken, so two requests can wrap at once, and the second session starts them again, so
that the synchronous message can have the number of a request of the first that was
skipped, or is still on its way there.
`devices_one` uses a view without the content of unreachable cells, which no step reads,
and symmetry over connections and cells; `positions` uses symmetry over handlers and
rings; both check invariants only.

`wire` has one message of each kind the processor knows, in the versions that differ,
with octets 7D and 7E in header, body and check octet, an unknown message, driver
monitor alarms, and settings of stored and unknown parameters, one of them text.  A read may end after the
first octet of a frame, after its header or inside its body.  Two frames are what it
takes for a read to hold more than one, for two fragments, and for a query after a
setting (which need not be under way together).  A ring of two slots wraps with the
second report, and three reports overtake a caller; 100 slots only postpone that.  Two
faults give a terminal a connection cut before and one after it comes online, or a
platform that forgets the device in between instead of the other.

Runs that end in a violation, each of what the repository says:

| Run | Shows |
|---|---|
| `devices_crash` (`NoCrash`) | the check of a device that a handler removes while it starts panics in gron's goroutine: `keepalive.go:70-74` lacks a return |
| `sender_failure` (`FailureLosesOwnOnly`) | one failing write discards the messages for all other devices |

The first needs two goroutines to overlap; `devices_serial` shows that this is the only
way to get there.

Known divergences without a run of their own, met while modelling.  The models do what
the code does in each case, and the properties except or allow it where they are about
it.

Registry and keepalive:

- a handler or check that looked a device up before it was removed caches it again
  (`device_cache.go:92`, `msg_processor.go:275`), and a registration that overlaps a
  clearing check loses its job (`keepalive.go:83`): the device then has no job;
- a heartbeat or a registration between the check's decision and its deletion is lost
  with the device (`keepalive.go:80`);
- two connections can register one terminal at once (`msg_processor.go:317`), and so can
  two telephone numbers with one plate, which both find it free (`:305`): two devices
  then share a plate, and the index by plate has one of them.  `PlatesDistinct` and
  `ImplementsRegistry` are about registrations one at a time;
- a refusal can panic when the device whose code it returns is deleted between its two
  lookups (`:311`);
- an expired online device is turned offline but not disconnected, although
  `keepalive.go:63` says so; an offline one is kept one keepalive period, not the three
  of `keepalive.go:64`;
- a terminal that reconnects while registered keeps its old session and connection in
  the device, so commands do not reach it.

Sender and wrapper:

- the answer to a message of the synchronous `Send` calls back the request that waits
  under its telephone number, message id and serial number, although `tcp_server.go:159-161`
  promises the callback of `SendV2` the answer to its own message.  A request may
  wait although its message has not gone out, and perhaps never will: it was numbered
  before a reconnection and appended after it, or a round skipped it.  Numbers start
  again with the next session, a `GET /device/:phone/params` takes the same one, and its
  answer is handed to the caller of that request.  If the request's own message goes out
  after that, or is still under way on the old connection, its answer finds no callback.
  Without the exception for `Clashed`, TLC finds `AnsweredOnce` and
  `AnswerFindsCallback` violated;
- a message is refused as a repetition when its serial number comes round while an old
  request still waits (`sender.go:63`), and two callers at the wrap may get one number
  (`session.go:52-55`), so that one of them is refused;
- there is no write deadline: a terminal that never reads stops the send loop with its
  mutex, and with it every caller and every goroutine that has an answer
  (`sender.go:100`).  `QueueDrains` and `CallersReturn` assume that terminals read;
- a setting that the terminal refuses is reported as success (`wrapper.go:149`).
  `SuccessMeansAnswered` is about the results the callbacks send, and this one sends nil.

Frames, messages and fragments:

- several frames in one read count as one packet; if their octets pass the check, the
  first is handled and the others are lost (`frame_handler.go:49`);
- any fragment at the platform panics (`segment_cache.go:19`), although
  `msg_processor.go:225` says that each is answered; at the terminal the first fragment
  panics and the completing one is handled alone, its answer sent as a fragment;
- a registration of version 2013 without a plate is read as 2011: the test at
  `msg_0100.go:42` needs more than 33 octets after the region, its comment says at least
  33;
- a body longer than the ten bits of its length spills into the other bits of the
  attribute word (`header.go:176`); a phone number of fewer than 12 digits is echoed
  shorter than it came;
- a parameter without codec is logged as skipped and panics (`device_params.go:92-95`);
  encoding leaves it out but counts it; the default parameter 0x0076 declares 35 octets
  and 15 follow (`msg_processor.go:547`); a setting of a parameter that is not stored is
  acknowledged and dropped;
- the types of latitude and longitude are written the other way round
  (`device.go:200-201`);
- of text that GBK cannot express, `WriteGBK` returns an empty packet (`hex.go:172-174`).
  A registration loses with it all of its body written before the plate
  (`msg_0100.go:113`); a text parameter is sent with length 0 and without value, and
  acknowledged so (`device_params.go:100-104`, `235`).  Octets that are not GBK are read as
  U+FFFD or as nothing (`hex.go:160-167`), which cannot be written again.  The first is
  reached by a `PUT /device/:phone/params`, the second by what a terminal sends.  The
  modules take text for its octets, so all that is checked and proved about messages is
  about text that GBK can express and octets that are GBK.

Positions and terminal:

- `Latest` reports no position whenever the Writer is back at 0, and panics at index -1
  when that happens between its two loads (`ring_buffer.go:54-57`); two connections of
  one phone can set the Writer back and make the latest an older one (`geo_cache.go:45`;
  the Writer remains a slot of the ring, and `LatestFresh` and `MissesOnlyFull` except
  such rings); a write into a
  ring the check has removed is lost, and a late 0200 makes a ring for a device that is
  gone;
- the register timer is made anew every second and never fires
  (`test/client/main.go:164-166`);
- a terminal that draws a taken plate loses its connection and dials again, or stays
  offline on an open connection if its number was registered before;
- `datagen.go:171` indexes `Extras[i].Extra[i]`.

### Fairness

`Registry`: time passes and the cron fires, so `Expire`, `TurnOffline` and `Clear` are
weakly fair for each phone; terminals owe nothing.  `Devices`: each serve goroutine and
each check is weakly fair (goroutines are scheduled, jobs fire), and devices get old.
`Sender`: everything is weakly fair.  The send loop goes on, without `WriteError`; a
caller goes on when nobody holds the mutex, or when the connection has room.  Weak
fairness is enough because every message is sent once: rounds and writes are finitely
many, so mutex and room are not taken from a caller for ever.  Nothing is assumed of
`serve`, which may leave answers unread; but a terminal reads what is written to it.
That is the assumption the code depends on without saying so: there is no write
deadline, and a terminal that does not read stops the sender, every caller and every
goroutine with an answer.  `Broadcast`: the
caller runs and time passes. `Terminal`: the goroutines of both sides run and timers
fire; `Cut` and `Clear` are not fair, and `MaxFaults` ends them: what is claimed is what
follows once they stop.  Its liveness holds of a terminal whose plate is free from some
point on, since the code has no answer to a taken plate but drawing another.

## What is proved

For every value of the constants, under their named assumptions:

- `RegistryProofs`: `TypeCorrect`, `JobsMatchDevices`, `PlatesStayDistinct`. Together
  with the type invariant they are inductive: a step either changes fields of one
  device, or removes it with its job, or adds one with a job and a plate nobody else
  has.
- `DevicesProofs`: `TypeCorrect`, `IndexesAlwaysAgree`.  The invariant has to follow
  every pointer: whatever a map, a handler or a check points to is an allocated object
  with the key it was found under; and where every plate belongs to one phone, a step
  that changes one map changes the other in the same way, because any object with that
  phone has that plate.
  Of the executions in which handlers and checks take turns, `SerialNeverCrashes` and
  `SerialImplementsRegistry`.  While one of them is under way, nobody else moves, so what
  its local variable points to is still in the cache (`SInv`), and so is the device whose
  code a refusal is about to return.  The crash needs a check that finds no device, and a
  job exists exactly while its device does.  (A lookup of a session is not among what
  `NoCrashWhenSerial` speaks of.)  A step in the
  middle of a handler maps to a stutter and the one that changes the cache to the step
  of `Registry`; one lemma per action says which.
- `BroadcastProofs`: `TypeCorrect`, `RoomForEveryResult`, `SuccessIsComplete`,
  `TimelyReturn`.  Results received plus results in the channel equal the number of
  devices whose callback has run; a filed device is not among them, so the channel has
  room.

- `SenderProofs`: `TypeCorrect`, `KeysStayDistinct`, `CallbackAtMostOnce`,
  `AnswersFindCallbacks`, `MessagesGoOutOnce`.  The invariant follows one message: in
  the queue from `pos` on it is filed and not written; once written it is in at most one
  place on the wire, in either direction; and if it went through the queue it is filed
  while it is there, under a key that no other filed request has. So an answer finds its
  caller and takes the only copy off the wire.  A message of the synchronous `Send` can
  break the last two links of this chain, and only for requests with its key
  (`Clashed`, which stays true once a request has its number): the invariant has it as the alternative, as
  the two properties have.

- `PositionsProofs`: `TypeCorrect`, `LatestAlwaysFresh`, `MissesOnlyAtWrap`,
  `AlarmsStayInOrder`, and `Decoding` of the status word.  The invariant ties the Writer
  of a ring that is not shared to the number of its writes modulo its size (`Counted`),
  puts the last complete report into the slot before the Writer (`LastBeforeWriter`),
  says that every slot written since a caller began is at least as recent as what was
  there then (`InPlace`, `Recent`, `CallerRecent`), and that one handler writes to a
  ring that is not shared (`Alone`).  A caller may hold a ring that is no longer in the
  map; the invariant is about rings, not about the map, and survives that.

  Of `Keepalive`: `AgeTypeCorrect`, `SilentDeviceGone`, `TwoChecks`,
  `DiligenceRewarded`.  The bound on `age` is not inductive; what a tick leaves alone is
  `age + due`, the age at which the next check will find the device: at most 2K for an
  active one, at most 3K for an offline one, and more than 2K for one that was active
  when last heard (`AgeInv`).

The theorems about `LatestFresh` and `MissesOnlyFull` are, like the properties, about
rings to which no two handlers have written at once.

- `TerminalProofs`: `TypeCorrect`, `OnlineMeansAuthenticated`, `ReportsAreAuthenticated`.
  Neither property is inductive, because the loops and the starter of an old connection
  look at the device of the newest.  `LatestInv` says that the latest connection is the
  only one alive, and only while it is read; `OrderInv`, that no goroutine and no message
  is ahead of its connection or of the device it was built for; `AuthInv`, that an online
  device has a connection on which the platform has authenticated it, and that the queues
  hold reports and successful answers to 0102 only where it has.
- `WireProofs`, for any stream of samples and any way to cut it into reads:
  - `TypeCorrect`, `NoPartIsHandled`, `SettingsKeepParams`.  The frames on their way
    account for every octet of the stream, and what has been read of the first is less
    than its size (`StreamInv`, with sizes that add up: `SizeBehind`, `UptoFacts`,
    `GoneIs`); what a fragment is decoded to is not handled at the platform (`PartsInv`);
    the stored list and the acknowledged settings hold supported parameters only
    (`ParamsInv`).  The last is true of any octets, because a body is read into an array
    that is long enough (`BodyTyped`) and a list of parameters that is read to its end
    names supported ones only (`ReadListed`).
  - `BordersAreKept` is `BordersDeliver`.  The invariant (`ContentInv`) says what the
    stream holds and not only how much: it is the frames on their way, one after the
    other, without the octets of the first that have been read.  A read between borders is
    therefore one frame or several stuck together, and `unescape` takes two marks in a row
    to two octets that are 7E again (`OpenedBoth`), so that check octet and packet codec
    see the first packet with other octets behind it.
  - `PacketKept`: every message whose header fits its layout and whose body is shorter
    than 1024 octets, a part too, comes through framing, check octet and the growth of the
    array (`VerifiedHolds`): no error, no panic, the same header, and the same octets and
    length of the body.
  - `AnswersAreRight` and `SettingsAreKept` are `AnswersMatch` and `SettingsHold` of
    every state in which the message last handled could be answered (`AnswerFits`): it is
    no fragment, its telephone number was read in full, a code that is to be returned in a
    2019 authentication is shorter than 256 octets, and the stored parameters fit their
    fields and one packet.  Each is where the code is known to fail: a digit F cuts the
    telephone number, after which the header of the answer is shorter than its layout; the
    length of the code is written into one octet; a list beyond ten bits of length
    overflows into the other bits of the attribute word.  The samples do not decide this,
    since a read may take octets of two frames for one; what is claimed is about whatever
    comes out.  `AnswersInv` adds to it what holds in every state: the stored parameters
    have the values of the acknowledged settings, as far as they have these parameters
    (`Agree`, an invariant on its own).  The argument: a handled message was read from
    octets, so its values have the types of their fields (`Typed`), and what a handler puts
    into the answer fits (`OwnAssumption`); so each answer can be written (`Replies`, with
    one lemma for each kind), and `PacketKept` and `MessageKept` bring it to the peer
    (`Reaches`).  In the instance of the run `wire`, `AnswerFits` is true in every state
    in which a whole message with an answer was handled, so that the theorems say of this
    instance all that the run checks.
- `PacketProofs`, about the operators, for every input:
  - `MessageKept`: the `Decode` of every message undoes its `Encode`, for every message
    that can be written (`Written`), registrations of both versions, lists of parameters
    and the items of a report with their alarms included, whatever is behind the body.  A
    layout is split before the field whose size depends on the length (`Bodied`), and a
    list is walked item by item (`ListOctets`, `ItemsAhead`).
  - `UpdateMerges`: an update keeps the identifiers of the stored list and gives each
    the last value the setting has for it, or else its own.  `Sorted` puts each
    identifier in the one place its rank gives it, since a smaller one has fewer
    before it.
  - `EscapeUndone`: what `unescape` makes of what `escape` made of a sequence of octets
    is that sequence.  In the escaped text an octet 7D is always followed by 01 or 02,
    and the octet before an escaped octet is never an open 7D, so `unescape` cuts the
    text where `escape` had joined it.
  - `FrameOpened`: a frame of any octets is accepted, and the packet codec finds in it
    the octets it was made of: no octet inside it is 7E, and the check octet that was
    appended is the one that `verify` computes again.
  - `WordKept`, `TextKept`, `DigitsKept`, `AttrKept`: a word, a padded text, a phone
    number in BCD and the attribute word of a header whose body length has ten bits are
    read as they were written.
  - `FieldsKept`: a packet that begins with the fields of a layout gives back every value
    that fits its field (`Fits`), and no read of it panics: each field is written at the
    offset it is read from (`FlattenPlaces`, `FieldsWritten`).
  - `HeaderKept`: the attribute word is read from where the layout has it (`AttrRead`)
    and tells the layout that was written (`AttrKept`), which then gives back its items.
    A header must fit (`Whole`): twelve digits of phone number, or twenty in 2019, and
    not the 2011 version, which no bit tells from 2013.

The library's induction theorems take an operator as a parameter, which the provers
cannot instantiate.  Where a fact about every length is needed (`FlattenSteps`, the
theorems about octets), the proofs take the least element of the set of lengths at which
it fails (`Least`), which exists if that set is not empty, and refute it.

Every invariant and every action property of a run that must pass, and the refinement,
is stated by a theorem.  Only model-checked are the liveness properties
(`SilentDeviceGone` of `Registry`, `ClosedConnReleased`, `QueueDrains`, `CallersReturn`,
`Returns`, `ComesOnline`, `OldLoopsEnd`): fairness and ENABLED are out of the prover's
reach.  `AnswersMatch` and `SettingsHold` are proved under `AnswerFits`, without which
the code does not keep them.  The proofs about octets are about the definitions, in
which a panic is a value (`Readable`, the `panic` of a `ReadBody`); that Go panics there
and nowhere else is how the modules were translated, and not proved.

The assumptions of `Wire`, which TLC evaluates: a sample is a sequence of octets when it
is encoded (`SamplesAssumption`); a sample that is neither a fragment nor a malformed
body can be written (`WholesAssumption`: that is what a sender of this repository makes,
and what the divergences listed above are outside of); what a handler adds to an answer
is as the code makes it (`OwnAssumption`: results that are octets, codes printed from a
hash, the IMEI and software version of `datagen.go:36-37`); the default parameters are a
list of supported ones (`DefaultsAssumption`, as those of `msg_processor.go:510-548`
are), and `MaxFrames` is a number.
`Capacities` ends with the array that holds the longest packet a read can give:
`MaxFrameLen` is below it (`RoomEnough`).

## Not modelled

Bodies that nothing handles (0004, 0800, 0801, 8004, 8800 and others) and the rendering
of alarms as text or JSON; the GBK and region tables and the FNV hash, and the errors of
the conversion to and from GBK (known divergences); errors of `Accept`, the stop of the
listener; HTTP request parsing; the status hook, the registration of hooks and deletion
by plate, which has no caller; configuration, logging, build.  The reuse of a remote
address by a new connection before `serve` of the old one has ended is not modelled
either: connections and sessions are told apart.  `ListDevice` reads the map without its
lock, for which the Go runtime may end the process; it changes nothing that a property
could speak of.  The requests that are never answered stay in `Waiting`; that is a
consequence of the design which the model has.

## Plan

1. The status hook, called before the status is updated, in `Devices`.
2. The messages that nothing handles yet (0800, 8800 and the like), once something does:
   their layouts in `Messages`, and a case of `MessageKept` for each.
