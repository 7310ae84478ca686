------------------------- MODULE TopologyCalls_proofs -------------------------
(***************************************************************************)
(* Proofs about TopologyCalls, for any number of goroutines.               *)
(***************************************************************************)
EXTENDS TopologyCalls, FiniteSetTheorems, TLAPS

\* Where a goroutine is between Add and Done.
Section == {"append", "done", "view", "range", "clear", "shorten"}
Inside == {g \in Goroutine : pc[g] \in Section}

Places == Section \cup {"idle", "wait", "asleep", "waited"}

\* The WaitGroup counts those inside, and lets all go when the last one leaves.
SectionInv ==
  /\ pc \in [Goroutine -> Places]
  /\ WGr = Cardinality(Inside)
  /\ waiters \subseteq {g \in Goroutine : pc[g] = "asleep"}
  /\ WGr = 0 => waiters = {}

\* The slice has a last element until the deletion has shortened it, whatever is
\* appended to it in between.
ListInv ==
  /\ array \in Seq(ID \cup {Nil}) /\ len \in 0..Len(array)
  /\ id \in [Caller -> ID \cup {NoID}] /\ node \in [Caller -> BOOLEAN]
  /\ i \in 1..(end + 1) /\ end \in 0..Len(array)
  /\ pc[cleaner] \in {"clear", "shorten"} => len > 0 /\ i <= end
  /\ \A c \in Caller : pc[c] = "append" => id[c] \in ID

CallsInv == SectionInv /\ ListInv

LEMMA InsideFinite == IsFiniteSet(Inside) /\ Cardinality(Inside) \in Nat
  <1>1. IsFiniteSet(Goroutine)
    BY CallsAssumption, FS_AddElement DEF Goroutine
  <1>2. Inside \subseteq Goroutine
    BY DEF Inside
  <1>. QED BY <1>1, <1>2, FS_Subset, FS_CardinalityType

\* The counter as goroutines come and go: one that enters adds 1, one that leaves
\* takes 1 away, one that stays on its side changes nothing.
LEMMA Enters ==
  ASSUME pc \in [Goroutine -> Places], NEW g \in Goroutine, NEW place \in Section,
         pc[g] \notin Section, Goto(g, place)
  PROVE  Cardinality(Inside') = Cardinality(Inside) + 1
  <1>1. Inside' = Inside \cup {g} /\ g \notin Inside
    BY DEF Inside, Goto
  <1>. QED BY <1>1, InsideFinite, FS_AddElement

LEMMA Leaves ==
  ASSUME pc \in [Goroutine -> Places], NEW g \in Goroutine, NEW place,
         place \notin Section, pc[g] \in Section, Goto(g, place)
  PROVE  Cardinality(Inside') = Cardinality(Inside) - 1 /\ Cardinality(Inside) > 0
  <1>1. Inside' = Inside \ {g} /\ g \in Inside
    BY DEF Inside, Goto
  <1>2. Cardinality(Inside') = Cardinality(Inside) - 1
    BY <1>1, InsideFinite, FS_RemoveElement
  <1>3. Cardinality(Inside) # 0
    BY <1>1, InsideFinite, FS_EmptySet
  <1>. QED BY <1>2, <1>3, InsideFinite

LEMMA StaysPut ==
  ASSUME pc \in [Goroutine -> Places], NEW g \in Goroutine, NEW place,
         Goto(g, place), place \in Section <=> pc[g] \in Section
  PROVE  Inside' = Inside
  BY DEF Inside, Goto

---------------------------------------------------------------------------
(* The WaitGroup.                                                          *)

\* A goroutine that moves without Add or Done, and neither falls asleep nor wakes.
LEMMA SectionMoves ==
  ASSUME SectionInv, NEW g \in Goroutine, NEW place \in Places, Goto(g, place),
         place \in Section <=> pc[g] \in Section, pc[g] # "asleep",
         UNCHANGED <<WGr, waiters>>
  PROVE  SectionInv'
  <1>1. Inside' = Inside
    BY StaysPut DEF SectionInv
  <1>. QED BY <1>1 DEF SectionInv, Goto

LEMMA SectionEntered ==
  ASSUME SectionInv, NEW g \in Goroutine, NEW place \in Section, Goto(g, place),
         pc[g] = "waited", WGr' = WGr + 1, UNCHANGED waiters
  PROVE  SectionInv'
  <1>1. Cardinality(Inside') = Cardinality(Inside) + 1
    BY Enters DEF SectionInv, Section
  <1>2. WGr' = Cardinality(Inside') /\ WGr' # 0
    BY <1>1, InsideFinite DEF SectionInv
  <1>. QED BY <1>2 DEF SectionInv, Goto, Places

LEMMA SectionLeft ==
  ASSUME SectionInv, NEW g \in Goroutine, pc[g] \in Section, Done(g)
  PROVE  SectionInv'
  <1>1. Cardinality(Inside') = Cardinality(Inside) - 1
    BY Leaves DEF SectionInv, Section, Done
  <1>2. WGr' = Cardinality(Inside') /\ WGr \in Nat
    BY <1>1, InsideFinite DEF SectionInv, Done
  <1>3. waiters' \subseteq {h \in Goroutine : pc'[h] = "asleep"}
    BY DEF SectionInv, Done, Goto, Section
  <1>4. WGr' = 0 => waiters' = {}
    BY <1>2 DEF Done
  <1>5. pc' \in [Goroutine -> Places]
    BY DEF SectionInv, Done, Goto, Places
  <1>. QED BY <1>2, <1>3, <1>4, <1>5 DEF SectionInv

LEMMA SectionKept ==
  ASSUME SectionInv, UNCHANGED <<pc, WGr, waiters>>
  PROVE  SectionInv'
  <1>1. Inside' = Inside
    BY DEF Inside
  <1>. QED BY <1>1 DEF SectionInv

LEMMA WaitSection ==
  ASSUME SectionInv, NEW g \in Goroutine, Wait(g)
  PROVE  SectionInv'
  <1>1. pc[g] = "wait" /\ WGr' = WGr
    BY DEF Wait, At
  <1>2. CASE WGr = 0
    BY <1>1, <1>2, SectionMoves DEF Wait, Section, Places
  <1>3. CASE WGr # 0
    <2>1. Goto(g, "asleep") /\ waiters' = waiters \cup {g}
      BY <1>3 DEF Wait
    <2>2. Inside' = Inside
      BY <1>1, <2>1, StaysPut DEF SectionInv, Section
    <2>. QED BY <1>1, <1>3, <2>1, <2>2 DEF SectionInv, Goto, Places
  <1>. QED BY <1>2, <1>3

LEMMA WakeSection ==
  ASSUME SectionInv, NEW g \in Goroutine, Wake(g)
  PROVE  SectionInv'
  <1>1. CASE WGr = 0
    <2>1. Goto(g, "waited") /\ pc[g] = "asleep" /\ g \notin waiters
          /\ UNCHANGED <<WGr, waiters>>
      BY <1>1 DEF Wake, At
    <2>2. Inside' = Inside
      BY <2>1, StaysPut DEF SectionInv, Section
    <2>. QED BY <2>1, <2>2 DEF SectionInv, Goto, Places
  <1>2. CASE WGr # 0
    BY <1>2, SectionKept DEF Wake, Panics
  <1>. QED BY <1>1, <1>2

\* The calls of the callers.
LEMMA CallerSection ==
  ASSUME SectionInv, NEW c \in Caller, Call(c) \/ GoOn(c)
  PROVE  SectionInv'
  <1>. c \in Goroutine
    BY DEF Goroutine
  <1>. USE DEF At, Section, Places
  <1>1. ASSUME NEW want \in ID, GetNodeFromID(c, want) PROVE SectionInv'
    <2>1. CASE Nil \in Listed
      BY <1>1, <2>1, SectionKept DEF GetNodeFromID, Panics
    <2>2. CASE Nil \notin Listed
      BY <1>1, <2>2, SectionMoves DEF GetNodeFromID
    <2>. QED BY <2>1, <2>2
  <1>2. CASE AssembleJSON(c)
    BY <1>2, SectionMoves DEF AssembleJSON
  <1>3. CASE Update(c)
    BY <1>3, SectionMoves DEF Update
  <1>4. CASE Create(c)
    <2>1. CASE Nil \in Listed
      BY <1>4, <2>1, SectionKept DEF Create, Panics
    <2>2. CASE Nil \notin Listed
      BY <1>4, <2>2, SectionEntered DEF Create
    <2>. QED BY <2>1, <2>2
  <1>5. CASE AppendNode(c)
    BY <1>5, SectionMoves DEF AppendNode
  <1>6. CASE Appended(c)
    BY <1>6, SectionLeft DEF Appended
  <1>7. CASE View(c)
    BY <1>7, SectionEntered DEF View
  <1>8. CASE Viewed(c)
    <2>1. CASE Nil \in Listed
      BY <1>8, <2>1, SectionKept DEF Viewed, Panics
    <2>2. CASE Nil \notin Listed
      BY <1>8, <2>2, SectionLeft DEF Viewed
    <2>. QED BY <2>1, <2>2
  <1>9. CASE Wait(c) \/ Wake(c)
    BY <1>9, WaitSection, WakeSection
  <1>. QED BY <1>1, <1>2, <1>3, <1>4, <1>5, <1>6, <1>7, <1>8, <1>9 DEF Call, GoOn

\* The pass of the cleaner.
LEMMA CleanerSection ==
  ASSUME SectionInv, StartPass \/ Clean
  PROVE  SectionInv'
  <1>. cleaner \in Goroutine
    BY DEF Goroutine
  <1>. USE DEF At, Section, Places
  <1>1. CASE StartPass
    BY <1>1, SectionMoves DEF StartPass
  <1>2. CASE RangeNodes
    BY <1>2, SectionEntered DEF RangeNodes
  <1>3. CASE KeepNode
    BY <1>3, SectionKept DEF KeepNode
  <1>4. CASE SwapNode
    <2>1. CASE i > len
      BY <1>4, <2>1, SectionKept DEF SwapNode, Panics
    <2>2. CASE ~(i > len)
      BY <1>4, <2>2, SectionMoves DEF SwapNode
    <2>. QED BY <2>1, <2>2
  <1>5. CASE ClearLast
    BY <1>5, SectionMoves DEF ClearLast
  <1>6. CASE Shorten
    BY <1>6, SectionMoves DEF Shorten
  <1>7. CASE EndPass
    BY <1>7, SectionLeft DEF EndPass
  <1>8. CASE Wait(cleaner) \/ Wake(cleaner)
    BY <1>8, WaitSection, WakeSection
  <1>. QED BY <1>1, <1>2, <1>3, <1>4, <1>5, <1>6, <1>7, <1>8 DEF Clean

---------------------------------------------------------------------------
(* The slice.                                                              *)

\* A goroutine that leaves the slice alone, and is not led to a place where
\* something is expected of it.
LEMMA ListMoves ==
  ASSUME SectionInv, ListInv, NEW g \in Goroutine, NEW place, Goto(g, place),
         place \notin {"append", "clear", "shorten"}, UNCHANGED <<array, len, i, end>>,
         id' \in [Caller -> ID \cup {NoID}], node' \in [Caller -> BOOLEAN],
         \A c \in Caller : c # g => id'[c] = id[c]
  PROVE  ListInv'
  BY DEF ListInv, SectionInv, Goto, Goroutine

LEMMA ListKept ==
  ASSUME ListInv, UNCHANGED <<array, len, id, node, i, end, pc>>
  PROVE  ListInv'
  BY DEF ListInv

LEMMA WaitList ==
  ASSUME SectionInv, ListInv, NEW g \in Goroutine, Wait(g) \/ Wake(g)
  PROVE  ListInv'
  <1>. USE DEF lists, loop
  <1>1. id' = id /\ node' = node /\ UNCHANGED <<array, len, i, end>>
    BY DEF Wait, Wake, Panics
  <1>2. id \in [Caller -> ID \cup {NoID}] /\ node \in [Caller -> BOOLEAN]
    BY DEF ListInv
  <1>3. CASE Wait(g)
    BY <1>1, <1>2, <1>3, ListMoves DEF Wait
  <1>4. CASE Wake(g)
    BY <1>1, <1>2, <1>4, ListMoves, ListKept DEF Wake, Panics
  <1>. QED BY <1>3, <1>4

LEMMA AppendList ==
  ASSUME SectionInv, ListInv, NEW c \in Caller, AppendNode(c)
  PROVE  ListInv'
  <1>. USE DEF At, lists, loop
  <1>1. id[c] \in ID /\ c \in Goroutine /\ c # cleaner
    BY CallsAssumption DEF AppendNode, ListInv, Goroutine
  <1>2. array' \in Seq(ID \cup {Nil}) /\ Len(array') >= Len(array)
        /\ len + 1 <= Len(array')
    <2>1. CASE len < Len(array)
      <3>1. array' = [array EXCEPT ![len + 1] = id[c]]
        BY <2>1 DEF AppendNode
      <3>2. len + 1 \in 1..Len(array)
        BY <2>1 DEF ListInv
      <3>. QED BY <1>1, <3>1, <3>2 DEF ListInv
    <2>2. CASE ~(len < Len(array))
      BY <1>1, <2>2 DEF AppendNode, ListInv
    <2>. QED BY <2>1, <2>2
  <1>3. len' \in 0..Len(array') /\ end' \in 0..Len(array') /\ len' > 0
    BY <1>2 DEF AppendNode, ListInv
  <1>4. pc'[cleaner] = pc[cleaner] /\ \A d \in Caller : pc'[d] = "append" => pc[d] = "append"
    BY <1>1 DEF AppendNode, Goto, SectionInv, Goroutine
  <1>. QED BY <1>2, <1>3, <1>4 DEF AppendNode, ListInv

LEMMA CallerList ==
  ASSUME SectionInv, ListInv, NEW c \in Caller, Call(c) \/ GoOn(c)
  PROVE  ListInv'
  <1>. USE DEF At, lists, loop
  <1>0. c \in Goroutine /\ id \in [Caller -> ID \cup {NoID}] /\ node \in [Caller -> BOOLEAN]
    BY DEF Goroutine, ListInv
  <1>1. ASSUME NEW want \in ID, GetNodeFromID(c, want) PROVE ListInv'
    <2>1. CASE Nil \in Listed
      BY <1>1, <2>1, ListKept DEF GetNodeFromID, Panics
    <2>2. CASE Nil \notin Listed
      <3>1. /\ id' = [id EXCEPT ![c] = want] /\ Goto(c, "wait")
            /\ node' = [node EXCEPT ![c] = want \in Listed]
            /\ UNCHANGED <<array, len, i, end>>
        BY <1>1, <2>2 DEF GetNodeFromID
      <3>2. id' \in [Caller -> ID \cup {NoID}] /\ \A d \in Caller : d # c => id'[d] = id[d]
        BY <1>0, <3>1
      <3>3. node' \in [Caller -> BOOLEAN]
        <4>. DEFINE found == want \in Listed
        <4>1. found \in BOOLEAN
          OBVIOUS
        <4>2. node' = [node EXCEPT ![c] = found]
          BY <3>1
        <4>. HIDE DEF found
        <4>. QED BY <1>0, <4>1, <4>2
      <3>. QED BY <1>0, <3>1, <3>2, <3>3, ListMoves
    <2>. QED BY <2>1, <2>2
  <1>2. CASE AssembleJSON(c)
    BY <1>0, <1>2, ListMoves DEF AssembleJSON
  <1>3. CASE Update(c)
    BY <1>0, <1>3, ListMoves DEF Update
  <1>4. CASE Create(c)
    <2>1. CASE Nil \in Listed
      BY <1>4, <2>1, ListKept DEF Create, Panics
    <2>2. CASE Nil \notin Listed
      BY <1>0, <1>4, <2>2, CallsAssumption
         DEF Create, Goto, ListInv, SectionInv, Goroutine
    <2>. QED BY <2>1, <2>2
  <1>5. CASE AppendNode(c)
    BY <1>5, AppendList
  <1>6. CASE Appended(c)
    BY <1>0, <1>6, ListMoves DEF Appended, Done
  <1>7. CASE View(c)
    BY <1>0, <1>7, ListMoves DEF View
  <1>8. CASE Viewed(c)
    <2>1. CASE Nil \in Listed
      BY <1>8, <2>1, ListKept DEF Viewed, Panics
    <2>2. CASE Nil \notin Listed
      BY <1>0, <1>8, <2>2, ListMoves DEF Viewed, Done
    <2>. QED BY <2>1, <2>2
  <1>9. CASE Wait(c) \/ Wake(c)
    BY <1>0, <1>9, WaitList
  <1>. QED BY <1>1, <1>2, <1>3, <1>4, <1>5, <1>6, <1>7, <1>8, <1>9 DEF Call, GoOn

LEMMA CleanerList ==
  ASSUME SectionInv, ListInv, StartPass \/ Clean
  PROVE  ListInv'
  <1>. USE DEF At, lists, loop
  <1>0. cleaner \in Goroutine /\ \A c \in Caller : c # cleaner /\ c \in Goroutine
    BY CallsAssumption DEF Goroutine
  <1>1. CASE StartPass
    BY <1>0, <1>1, ListMoves DEF StartPass, ListInv
  <1>2. CASE RangeNodes
    BY <1>0, <1>2 DEF RangeNodes, Goto, ListInv, SectionInv
  <1>3. CASE KeepNode
    BY <1>3 DEF KeepNode, ListInv
  <1>4. CASE SwapNode
    <2>1. CASE i > len
      BY <1>4, <2>1, ListKept DEF SwapNode, Panics
    <2>2. CASE ~(i > len)
      <3>1. array' = [array EXCEPT ![i] = array[len]] /\ i <= end /\ Goto(cleaner, "clear")
            /\ UNCHANGED <<len, id, node, i, end>>
        BY <1>4, <2>2 DEF SwapNode
      <3>2. i \in 1..Len(array) /\ len \in 1..Len(array)
        BY <2>2, <3>1 DEF ListInv
      <3>3. array' \in Seq(ID \cup {Nil}) /\ Len(array') = Len(array)
        BY <3>1, <3>2 DEF ListInv
      <3>. QED BY <1>0, <2>2, <3>1, <3>2, <3>3 DEF ListInv, SectionInv, Goto
    <2>. QED BY <2>1, <2>2
  <1>5. CASE ClearLast
    <2>1. array' = [array EXCEPT ![len] = Nil] /\ Goto(cleaner, "shorten")
          /\ len > 0 /\ i <= end /\ UNCHANGED <<len, id, node, i, end>>
      BY <1>5 DEF ClearLast, ListInv
    <2>2. len \in 1..Len(array)
      BY <2>1 DEF ListInv
    <2>3. array' \in Seq(ID \cup {Nil}) /\ Len(array') = Len(array)
      BY <2>1, <2>2 DEF ListInv
    <2>. QED BY <1>0, <2>1, <2>3 DEF ListInv, SectionInv, Goto
  <1>6. CASE Shorten
    <2>1. len > 0 /\ i <= end /\ len' = len - 1 /\ i' = i + 1 /\ Goto(cleaner, "range")
          /\ UNCHANGED <<array, id, node, end>>
      BY <1>6 DEF Shorten, ListInv
    <2>2. len' \in 0..Len(array') /\ i' \in 1..(end' + 1)
      BY <2>1 DEF ListInv
    <2>. QED BY <1>0, <2>1, <2>2 DEF ListInv, SectionInv, Goto
  <1>7. CASE EndPass
    BY <1>0, <1>7, ListMoves DEF EndPass, Done, ListInv
  <1>8. CASE Wait(cleaner) \/ Wake(cleaner)
    BY <1>0, <1>8, WaitList
  <1>. QED BY <1>1, <1>2, <1>3, <1>4, <1>5, <1>6, <1>7, <1>8 DEF Clean

---------------------------------------------------------------------------
(* The invariant.                                                          *)

LEMMA InitInv == Init => CallsInv
  <1>. SUFFICES ASSUME Init PROVE CallsInv
    OBVIOUS
  <1>1. Inside = {}
    BY DEF Init, Inside, Section
  <1>2. Cardinality(Inside) = 0
    BY <1>1, FS_EmptySet
  <1>3. SectionInv
    BY <1>2 DEF Init, SectionInv, Places
  <1>4. cleaner \in Goroutine /\ \A c \in Caller : c \in Goroutine
    BY DEF Goroutine
  <1>5. ListInv
    BY <1>4 DEF Init, ListInv
  <1>. QED BY <1>3, <1>5 DEF CallsInv

LEMMA NextInv == CallsInv /\ [Next]_vars => CallsInv'
  <1>. SUFFICES ASSUME CallsInv, [Next]_vars PROVE CallsInv'
    OBVIOUS
  <1>1. ASSUME NEW c \in Caller, Call(c) \/ GoOn(c) PROVE CallsInv'
    BY <1>1, CallerSection, CallerList DEF CallsInv
  <1>2. CASE StartPass \/ Clean
    BY <1>2, CleanerSection, CleanerList DEF CallsInv
  <1>3. CASE UNCHANGED vars
    BY <1>3, SectionKept, ListKept DEF CallsInv, vars, lists, loop
  <1>. QED BY <1>1, <1>2, <1>3 DEF Next

\* The inductive invariant: the counter counts who is in a section, and every index
\* a call holds is inside the array.
THEOREM InvHolds == Spec => []CallsInv
  BY InitInv, NextInv, PTL DEF Spec

\* The counter of the WaitGroup is the number of goroutines between Add and Done,
\* however many there are and wherever they stand: no Done makes it negative.  A
\* deletion stays inside the array, with lookups and appends between its
\* statements.
THEOREM TypeCorrect == Spec => []TypeOK
  <1>1. CallsInv => TypeOK
    BY DEF CallsInv, SectionInv, ListInv, TypeOK, Inside, Section
  <1>. QED BY <1>1, InvHolds, PTL

=============================================================================
