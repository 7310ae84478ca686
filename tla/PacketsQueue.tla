---------------------------- MODULE PacketsQueue ----------------------------
(***************************************************************************)
(* The packets_queue of RemOrchestrator.py: a Python list that the main    *)
(* thread of a device empties in update_continous while the listener       *)
(* threads of its server channels append to it (got_packet_type_1).        *)
(*                                                                         *)
(* Nothing locks the list.  pop and append are atomic, a for loop over the *)
(* list is not: it compares its length with an index before each element,  *)
(* so it also visits what is appended while it runs.  Each iteration is an *)
(* action here.  Exceptions of process_packet are left to RemMesh.         *)
(***************************************************************************)
EXTENDS Integers, Sequences

CONSTANTS
  Packet,    \* contents of packets
  Server,    \* server channels, one listener thread each
  NoTuple,   \* packet_wrapper_ before the first pop
  MaxQueue   \* bound: length of the list beyond which nothing arrives

Tuple == [packet : Packet, server : Server]

ASSUME QueueAssumption == NoTuple \notin Tuple /\ MaxQueue \in Nat

VARIABLES
  packets_queue,   \* the list
  main,            \* where update() is: "while", "for", "process" or "discrete"
  packet_wrapper,  \* the tuple that was popped
  index,           \* position of the for loop in the list
  skip,            \* skip_this_packet_
  silent           \* the neighbours send nothing any more

vars == <<packets_queue, main, packet_wrapper, index, skip, silent>>

Init ==
  /\ packets_queue = <<>>
  /\ main = "while"
  /\ packet_wrapper = NoTuple
  /\ index = 1
  /\ skip = FALSE
  /\ silent = FALSE

\* got_packet_type_1 in the listener thread of server s.
GotPacket(p, s) ==
  /\ ~silent
  /\ Len(packets_queue) < MaxQueue
  /\ packets_queue' = Append(packets_queue, [packet |-> p, server |-> s])
  /\ UNCHANGED <<main, packet_wrapper, index, skip, silent>>

Silence ==
  /\ ~silent
  /\ silent' = TRUE
  /\ UNCHANGED <<packets_queue, main, packet_wrapper, index, skip>>

\* Variant: the last tuple is looked at, and stays in the list.
Peek ==
  /\ main = "while"
  /\ packets_queue # <<>>
  /\ packet_wrapper' = packets_queue[Len(packets_queue)]
  /\ index' = 1
  /\ skip' = FALSE
  /\ main' = "for"
  /\ UNCHANGED <<packets_queue, silent>>

\* packets_queue.pop() takes the last tuple.
Pop ==
  /\ main = "while"
  /\ packets_queue # <<>>
  /\ packet_wrapper' = packets_queue[Len(packets_queue)]
  /\ packets_queue' = SubSeq(packets_queue, 1, Len(packets_queue) - 1)
  /\ index' = 1
  /\ skip' = FALSE
  /\ main' = "for"
  /\ UNCHANGED silent

\* One iteration of the loop over the list; the server does not count.
Compare ==
  /\ main = "for"
  /\ index <= Len(packets_queue)
  /\ skip' = (skip \/ packets_queue[index].packet = packet_wrapper.packet)
  /\ index' = index + 1
  /\ UNCHANGED <<packets_queue, main, packet_wrapper, silent>>

\* Variant: the loop over the list ends at any element.
DecideEarly ==
  /\ main = "for"
  /\ main' = IF skip THEN "while" ELSE "process"
  /\ UNCHANGED <<packets_queue, packet_wrapper, index, skip, silent>>

\* The end of the loop over the list.
Decide ==
  /\ main = "for"
  /\ index > Len(packets_queue)
  /\ main' = IF skip THEN "while" ELSE "process"
  /\ UNCHANGED <<packets_queue, packet_wrapper, index, skip, silent>>

\* process_packet returns.
Processed ==
  /\ main = "process"
  /\ main' = "while"
  /\ UNCHANGED <<packets_queue, packet_wrapper, index, skip, silent>>

\* The list is empty: update_continous returns, update_discrete follows.
Emptied ==
  /\ main = "while"
  /\ packets_queue = <<>>
  /\ main' = "discrete"
  /\ UNCHANGED <<packets_queue, packet_wrapper, index, skip, silent>>

Discrete ==
  /\ main = "discrete"
  /\ main' = "while"
  /\ UNCHANGED <<packets_queue, packet_wrapper, index, skip, silent>>

MainStep == Pop \/ Compare \/ Decide \/ Processed \/ Emptied \/ Discrete

Next ==
  \/ \E p \in Packet, s \in Server : GotPacket(p, s)
  \/ Silence
  \/ MainStep

Spec == Init /\ [][Next]_vars

\* The main thread is scheduled again and again; neighbours owe nothing.
FairSpec == Spec /\ WF_vars(MainStep)

---------------------------------------------------------------------------
(* Properties.                                                             *)

\* The index is never more than one behind the end of the list.
TypeOK ==
  /\ packets_queue \in Seq(Tuple)
  /\ main \in {"while", "for", "process", "discrete"}
  /\ packet_wrapper \in Tuple \cup {NoTuple}
  /\ main \in {"for", "process"} => packet_wrapper \in Tuple
  /\ index \in Nat \ {0}
  /\ main = "for" => index <= Len(packets_queue) + 1
  /\ skip \in BOOLEAN
  /\ silent \in BOOLEAN

Queued(upto) == {packets_queue[i].packet : i \in 1..upto}

\* The packet that was popped is skipped for a copy of it that is still in the
\* list, and only for such a copy.
SkipOnlyCopies ==
  main = "for" => (skip <=> packet_wrapper.packet \in Queued(index - 1))

\* The list implements the inbox: although tuples are popped, compared and
\* skipped while others are appended, no packet is lost or processed twice.
waiting == Queued(Len(packets_queue)) \cup
           (IF main = "for" THEN {packet_wrapper.packet} ELSE {})
handling == IF main = "process" THEN {packet_wrapper.packet} ELSE {}

InboxOf == INSTANCE Inbox WITH Packet <- Packet, waiting <- waiting, handling <- handling
ImplementsInbox == InboxOf!Spec

\* When the neighbours stop sending, the list is emptied, whatever it held.
Drained == silent ~> (packets_queue = <<>> /\ main = "discrete")
=============================================================================
