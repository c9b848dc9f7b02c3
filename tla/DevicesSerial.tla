---------------------------- MODULE DevicesSerial ----------------------------
(***************************************************************************)
(* The executions of Devices in which handlers and checks do not overlap:  *)
(* from its first step to its last, a handler or a check has the server    *)
(* for itself.  They implement Registry.  This is the part of the code's   *)
(* behaviour its tests can show; what is lost when the steps interleave is *)
(* shown by the runs of Devices that end in a violation.                   *)
(***************************************************************************)
EXTENDS Devices

BusyConns == {c \in Conns : pc[c] \notin {"off", "idle"}}
BusyChecks == {ph \in Phones : kpc[ph] # "idle"}
Quiet == BusyConns = {} /\ BusyChecks = {}

SerialNext ==
    \/ Quiet /\ Next
    \/ ~crashed /\ \E c \in BusyConns : Serve(c)
    \/ ~crashed /\ \E ph \in BusyChecks : Check(ph)

SerialSpec == Init /\ [][SerialNext]_vars

-----------------------------------------------------------------------------
(* The refinement mapping.  A handler takes effect with its first write: a *)
(* logout with the cancellation of the job, a clearing check with the      *)
(* closing of the connection, a registration with the caching of the       *)
(* device, and the refusal of an unknown terminal with the failed lookup.  *)

BeingDeleted(ph) ==
    \/ kpc[ph] = "delete"
    \/ \E c \in Conns : pc[c] = "delete" /\ heap[dev[c]].phone = ph

regBar ==
    [ph \in Phones |->
       IF byPhone[ph] = Nil \/ BeingDeleted(ph)
       THEN NoDevice
       ELSE LET d == heap[byPhone[ph]] IN
            [plate |-> d.plate, conn |-> d.conn, status |-> d.status, fresh |-> d.fresh]]

jobsBar ==
    (jobs \ {ph \in Phones : kpc[ph] \in {"delete", "cancel"}})
        \cup {msg[c].from.phone : c \in {x \in Conns : pc[x] \in {"jobLookup", "jobAdd"}}}

openBar == {c \in open : pc[c] # "remove"}

Promise == INSTANCE Registry WITH reg <- regBar, jobs <- jobsBar, open <- openBar

\* One at a time, the handlers and checks do what Registry says: the job of a
\* device comes and goes with it, a plate has one device, a cleared device's
\* connection is closed, and a handler that fails changes nothing else.
ImplementsRegistry == Promise!Spec

\* Neither panic happens while nothing overlaps.  The check of a device that is gone,
\* which ends the process, needs a handler that deletes the device while the check
\* is starting; a refused registration finds the device whose code it returns, unless
\* that is deleted between its two lookups.
NoCrashWhenSerial ==
    /\ ~crashed
    /\ \A c \in Conns : /\ At(c, "plateCode") => byPlate[Claimed(c).plate] # Nil
                       /\ At(c, "phoneCode") => byPhone[Claimed(c).phone] # Nil
=============================================================================
