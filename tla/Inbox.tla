------------------------------- MODULE Inbox -------------------------------
(***************************************************************************)
(* What the packet queue of a device promises to the listener threads that *)
(* fill it and to the router that is called with its packets: a packet     *)
(* that has arrived waits until it is taken, and is taken once however     *)
(* many times it has arrived while it waited, on whatever server channel.  *)
(***************************************************************************)
EXTENDS FiniteSets

CONSTANT Packet

VARIABLES
  waiting,   \* packets that have arrived and have not been taken since
  handling   \* the packet process_packet is called with, in a set

Init == waiting = {} /\ handling = {}

Arrive(p) ==
  /\ waiting' = waiting \cup {p}
  /\ UNCHANGED handling

Take(p) ==
  /\ handling = {}
  /\ p \in waiting
  /\ waiting' = waiting \ {p}
  /\ handling' = {p}

Finish ==
  /\ handling # {}
  /\ handling' = {}
  /\ UNCHANGED waiting

Next == (\E p \in Packet : Arrive(p) \/ Take(p)) \/ Finish

Spec == Init /\ [][Next]_<<waiting, handling>>
=============================================================================
