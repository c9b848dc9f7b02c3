------------------------------ MODULE MCDevices ------------------------------
(* Instances of Devices for TLC.                                            *)
EXTENDS Devices, TLC

CONSTANTS c1, c2, o1, o2, o3, p1, p2, q1, q2

\* One terminal, as on a reconnection: the old connection is still served.
OneTerminal == {[phone |-> p1, plate |-> q1]}

\* Two phones with one plate, and a phone that changes to another plate.
RivalTerminals ==
    {[phone |-> p1, plate |-> q1], [phone |-> p2, plate |-> q1], [phone |-> p2, plate |-> q2]}

AnyMessage == [c \in Conns |-> Messages]
\* Without the messages whose handlers only look the device up, or end as a logout
CoreMessages == [c \in Conns |->
           {m \in Messages : m.kind \in {"register", "auth", "heartbeat", "logout"}}]

\* What the unreachable cells of the heap hold is never read again.
LiveView ==
    <<[o \in Objs |-> IF o \in Reachable THEN heap[o] ELSE Nil], byPhone, byPlate,
      jobs, open, sess, pc, msg, dev, kpc, kdev, crashed>>

Symmetry == Permutations({c1, c2}) \cup Permutations(Objs)
=============================================================================
