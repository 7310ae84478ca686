---------------------------- MODULE TopologyCalls ----------------------------
(***************************************************************************)
(* Calls of RemTopology.go that overlap.  The goroutines of connections and *)
(* of the root's timer obtain nodes, those of web viewers go through them,  *)
(* one deletes the expired ones; they share g.Nodes and the WaitGroup WGr.  *)
(*                                                                         *)
(* g.Nodes is the first len elements of array, entries of which are ids or *)
(* nil; it is taken never to outgrow array, which is not copied.  A lookup *)
(* goes through the slice in one step, and so does append; each statement  *)
(* of a deletion is a step.  Whether a node has expired is left open.      *)
(* Edges are obtained and deleted by the same steps.                       *)
(***************************************************************************)
EXTENDS Integers, Sequences, FiniteSets

CONSTANTS
  Caller,    \* goroutines that call ObtainNode or AssembleJSON
  cleaner,   \* the goroutine of UpdateTopoPeriodically
  ID,        \* ids of nodes
  Nil,       \* a nil entry
  NoID,      \* what a viewer asks for
  MaxNodes   \* bound: nodes listed and calls under way when another begins

ASSUME CallsAssumption ==
  /\ IsFiniteSet(Caller)
  /\ cleaner \notin Caller
  /\ Nil \notin ID
  /\ NoID \notin ID
  /\ MaxNodes \in Nat

Goroutine == Caller \cup {cleaner}

VARIABLES
  array,    \* the array behind g.Nodes
  len,      \* len(g.Nodes)
  WGr,      \* the counter of the WaitGroup
  waiters,  \* goroutines in Wait that Done has not let go yet
  pc,       \* where a goroutine is
  id,       \* the id a caller asks for
  node,     \* whether the caller's lookup has found it
  i,        \* index of the cleaner's loop
  end,      \* the length of the slice when the loop began
  panic     \* "no", or what ended the server

lists == <<array, len>>
loop == <<i, end>>
vars == <<array, len, WGr, waiters, pc, id, node, i, end, panic>>

Init ==
  /\ array = <<>>
  /\ len = 0
  /\ WGr = 0
  /\ waiters = {}
  /\ pc = [g \in Goroutine |-> "idle"]
  /\ id = [c \in Caller |-> NoID]
  /\ node = [c \in Caller |-> FALSE]
  /\ i = 1
  /\ end = 0
  /\ panic = "no"

At(g, place) == panic = "no" /\ pc[g] = place
Goto(g, place) == pc' = [pc EXCEPT ![g] = place]

Panics(what) ==
  /\ panic' = what
  /\ UNCHANGED <<lists, WGr, waiters, pc, id, node, loop>>

Listed == {array[k] : k \in 1..len}

---------------------------------------------------------------------------
(* The WaitGroup.                                                          *)

Wait(g) ==
  /\ At(g, "wait")
  /\ IF WGr = 0
     THEN Goto(g, "waited") /\ UNCHANGED waiters
     ELSE Goto(g, "asleep") /\ waiters' = waiters \cup {g}
  /\ UNCHANGED <<lists, WGr, id, node, loop, panic>>

\* A goroutine that was let go finds the counter still at 0, or Wait panics.
Wake(g) ==
  /\ At(g, "asleep")
  /\ g \notin waiters
  /\ IF WGr = 0
     THEN Goto(g, "waited") /\ UNCHANGED <<lists, WGr, waiters, id, node, loop, panic>>
     ELSE Panics("WaitGroup is reused before previous Wait has returned")

\* The last Done lets all go who wait.
Done(g) ==
  /\ Goto(g, "idle")
  /\ WGr' = WGr - 1
  /\ waiters' = IF WGr = 1 THEN {} ELSE waiters

---------------------------------------------------------------------------
(* ObtainNode and AssembleJSON.                                            *)

\* GetNodeFromID reads the id of every node in the list.
GetNodeFromID(c, want) ==
  /\ At(c, "idle")
  /\ len + Cardinality({d \in Caller : pc[d] # "idle"}) < MaxNodes
  /\ IF Nil \in Listed
     THEN Panics("nil pointer dereference")
     ELSE /\ id' = [id EXCEPT ![c] = want]
          /\ node' = [node EXCEPT ![c] = want \in Listed]
          /\ Goto(c, "wait")
          /\ UNCHANGED <<lists, WGr, waiters, loop, panic>>

Update(c) ==
  /\ At(c, "waited")
  /\ id[c] \in ID
  /\ node[c]
  /\ Goto(c, "idle")
  /\ UNCHANGED <<lists, WGr, waiters, id, node, loop, panic>>

\* Variant of Create: the node is made inside a section that has been entered.
CreateInside(c) ==
  /\ At(c, "waited")
  /\ id[c] \in ID
  /\ ~node[c]
  /\ WGr' = WGr + 1
  /\ node' = [node EXCEPT ![c] = TRUE]
  /\ Goto(c, "wait")
  /\ UNCHANGED <<lists, waiters, id, loop, panic>>

\* A UUID that no node has, which again reads all of them, and Add.
Create(c) ==
  /\ At(c, "waited")
  /\ id[c] \in ID
  /\ ~node[c]
  /\ IF Nil \in Listed
     THEN Panics("nil pointer dereference")
     ELSE /\ WGr' = WGr + 1
          /\ Goto(c, "append")
          /\ UNCHANGED <<lists, waiters, id, node, loop, panic>>

AppendNode(c) ==
  /\ At(c, "append")
  /\ array' = IF len < Len(array) THEN [array EXCEPT ![len + 1] = id[c]]
                                  ELSE Append(array, id[c])
  /\ len' = len + 1
  /\ Goto(c, "done")
  /\ UNCHANGED <<WGr, waiters, id, node, loop, panic>>

\* Variant of Appended: the call returns without Done.
AppendedNotDone(c) ==
  /\ At(c, "done")
  /\ Goto(c, "idle")
  /\ UNCHANGED <<lists, WGr, waiters, id, node, loop, panic>>

Appended(c) ==
  /\ At(c, "done")
  /\ Done(c)
  /\ UNCHANGED <<lists, id, node, loop, panic>>

AssembleJSON(c) ==
  /\ At(c, "idle")
  /\ id' = [id EXCEPT ![c] = NoID]
  /\ Goto(c, "wait")
  /\ UNCHANGED <<lists, WGr, waiters, node, loop, panic>>

View(c) ==
  /\ At(c, "waited")
  /\ id[c] = NoID
  /\ WGr' = WGr + 1
  /\ Goto(c, "view")
  /\ UNCHANGED <<lists, waiters, id, node, loop, panic>>

Viewed(c) ==
  /\ At(c, "view")
  /\ IF Nil \in Listed
     THEN Panics("nil pointer dereference")
     ELSE Done(c) /\ UNCHANGED <<lists, id, node, loop, panic>>

---------------------------------------------------------------------------
(* updateLifeDuration, the loop over the nodes.                            *)

StartPass ==
  /\ At(cleaner, "idle")
  /\ Goto(cleaner, "wait")
  /\ UNCHANGED <<lists, WGr, waiters, id, node, loop, panic>>

RangeNodes ==
  /\ At(cleaner, "waited")
  /\ WGr' = WGr + 1
  /\ i' = 1
  /\ end' = len
  /\ Goto(cleaner, "range")
  /\ UNCHANGED <<lists, waiters, id, node, panic>>

\* A nil entry, or a node that has not expired.
KeepNode ==
  /\ At(cleaner, "range")
  /\ i <= end
  /\ i' = i + 1
  /\ UNCHANGED <<lists, WGr, waiters, pc, id, node, end, panic>>

SwapNode ==
  /\ At(cleaner, "range")
  /\ i <= end
  /\ array[i] # Nil
  /\ IF i > len
     THEN Panics("index out of range")
     ELSE /\ array' = [array EXCEPT ![i] = array[len]]
          /\ Goto(cleaner, "clear")
          /\ UNCHANGED <<len, WGr, waiters, id, node, loop, panic>>

ClearLast ==
  /\ At(cleaner, "clear")
  /\ array' = [array EXCEPT ![len] = Nil]
  /\ Goto(cleaner, "shorten")
  /\ UNCHANGED <<len, WGr, waiters, id, node, loop, panic>>

Shorten ==
  /\ At(cleaner, "shorten")
  /\ len' = len - 1
  /\ i' = i + 1
  /\ Goto(cleaner, "range")
  /\ UNCHANGED <<array, WGr, waiters, id, node, end, panic>>

EndPass ==
  /\ At(cleaner, "range")
  /\ i > end
  /\ Done(cleaner)
  /\ UNCHANGED <<lists, id, node, loop, panic>>

---------------------------------------------------------------------------
Call(c) == (\E want \in ID : GetNodeFromID(c, want)) \/ AssembleJSON(c)

GoOn(c) ==
  \/ Wait(c)
  \/ Wake(c)
  \/ Update(c)
  \/ Create(c)
  \/ AppendNode(c)
  \/ Appended(c)
  \/ View(c)
  \/ Viewed(c)

Clean ==
  \/ Wait(cleaner)
  \/ Wake(cleaner)
  \/ RangeNodes
  \/ KeepNode
  \/ SwapNode
  \/ ClearLast
  \/ Shorten
  \/ EndPass

Next == (\E c \in Caller : Call(c) \/ GoOn(c)) \/ StartPass \/ Clean

Spec == Init /\ [][Next]_vars

\* A goroutine that can go on does; nobody has to call.
FairSpec == Spec /\ WF_vars(Clean) /\ \A c \in Caller : WF_vars(GoOn(c))

---------------------------------------------------------------------------
(* Properties.                                                             *)

TypeOK ==
  /\ array \in Seq(ID \cup {Nil})
  /\ len \in 0..Len(array)
  /\ WGr = Cardinality({g \in Goroutine :
             pc[g] \in {"append", "done", "view", "range", "clear", "shorten"}})
  /\ waiters \subseteq {g \in Goroutine : pc[g] = "asleep"}
  /\ WGr = 0 => waiters = {}
  /\ id \in [Caller -> ID \cup {NoID}]
  /\ node \in [Caller -> BOOLEAN]
  /\ i \in 1..(end + 1)
  /\ end \in 0..Len(array)

\* No call waits for ever, whoever else is in the WaitGroup at the time.
CallsReturn ==
  \A g \in Goroutine : pc[g] # "idle" ~> pc[g] = "idle" \/ panic # "no"

\* "GetNodeFromID get node from ID, nil if none": a lookup that comes while a
\* pass goes on is answered as well.
NilIfNone == panic # "nil pointer dereference"
=============================================================================
