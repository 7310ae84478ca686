------------------------- MODULE PacketsQueue_proofs -------------------------
(***************************************************************************)
(* For every set of packets and servers and every length of the list:     *)
(* update_continous and the listener threads implement the inbox.          *)
(***************************************************************************)
EXTENDS PacketsQueue, SequenceTheorems, TLAPS

QueueInv == TypeOK /\ SkipOnlyCopies

---------------------------------------------------------------------------
(* The packets of a list, after append and pop.                            *)

LEMMA AppendedQueued ==
  ASSUME packets_queue \in Seq(Tuple), NEW t \in Tuple, NEW k \in 0..Len(packets_queue),
         packets_queue' = Append(packets_queue, t)
  PROVE  /\ packets_queue' \in Seq(Tuple)
         /\ Len(packets_queue') = Len(packets_queue) + 1
         /\ Queued(k)' = Queued(k)
         /\ Queued(Len(packets_queue))' = Queued(Len(packets_queue)) \cup {t.packet}
<1> DEFINE q == packets_queue
           r == Append(q, t)
<1>1. r \in Seq(Tuple) /\ Len(r) = Len(q) + 1
  OBVIOUS
<1>2. \A i \in 1..Len(q) : r[i] = q[i]
  OBVIOUS
<1>3. r[Len(q) + 1] = t
  OBVIOUS
<1>4. {r[i].packet : i \in 1..k} = {q[i].packet : i \in 1..k}
  BY <1>2
<1>5. {r[i].packet : i \in 1..Len(r)} = {q[i].packet : i \in 1..Len(q)} \cup {t.packet}
  <2>1. 1..Len(r) = 1..Len(q) \cup {Len(q) + 1}
    BY <1>1
  <2> QED BY <2>1, <1>2, <1>3
<1> QED BY <1>1, <1>4, <1>5 DEF Queued

LEMMA PrefixOfList ==
  ASSUME NEW S, NEW s \in Seq(S), NEW n \in Nat, n <= Len(s)
  PROVE  /\ SubSeq(s, 1, n) \in Seq(S)
         /\ Len(SubSeq(s, 1, n)) = n
         /\ \A i \in 1..n : SubSeq(s, 1, n)[i] = s[i]
<1>1. n - 1 + 1 = n /\ \A i \in 1..n : s[i] \in S /\ 1 + i - 1 = i
  OBVIOUS
<1>2. (IF 1 <= n THEN n - 1 + 1 ELSE 0) = n
  OBVIOUS
<1> QED BY <1>1, <1>2, SubSeqProperties

LEMMA PoppedQueued ==
  ASSUME packets_queue \in Seq(Tuple), packets_queue # <<>>,
         packets_queue' = SubSeq(packets_queue, 1, Len(packets_queue) - 1)
  PROVE  /\ packets_queue' \in Seq(Tuple)
         /\ Len(packets_queue') \in Nat
         /\ packets_queue[Len(packets_queue)] \in Tuple
         /\ Queued(Len(packets_queue)) =
              Queued(Len(packets_queue))' \cup {packets_queue[Len(packets_queue)].packet}
<1> DEFINE q == packets_queue
           r == SubSeq(q, 1, Len(q) - 1)
<1>1. Len(q) \in Nat \ {0} /\ q[Len(q)] \in Tuple
  OBVIOUS
<1>2. r \in Seq(Tuple) /\ Len(r) = Len(q) - 1 /\ \A i \in 1..Len(r) : r[i] = q[i]
  <2>1. Len(q) - 1 \in Nat /\ Len(q) - 1 <= Len(q)
    BY <1>1
  <2> QED BY <2>1, PrefixOfList
<1>3. 1..Len(q) = 1..Len(r) \cup {Len(q)}
  BY <1>1, <1>2
<1>4. {q[i].packet : i \in 1..Len(q)} = {r[i].packet : i \in 1..Len(r)} \cup {q[Len(q)].packet}
  BY <1>2, <1>3
<1> QED BY <1>1, <1>2, <1>4 DEF Queued

\* Comparing one more element decides for one more element.
LEMMA OneMoreQueued ==
  ASSUME NEW k \in Nat \ {0}
  PROVE  Queued(k) = Queued(k - 1) \cup {packets_queue[k].packet}
<1>1. 1..k = 1..(k - 1) \cup {k}
  OBVIOUS
<1> QED BY <1>1 DEF Queued

---------------------------------------------------------------------------
(* The invariant.                                                          *)

LEMMA QueueInit == Init => QueueInv
<1>1. Init => TypeOK
  <2> SUFFICES ASSUME Init PROVE TypeOK
    OBVIOUS
  <2>1. skip \in BOOLEAN /\ silent \in BOOLEAN
    BY DEF Init
  <2>2. packets_queue \in Seq(Tuple) /\ index \in Nat \ {0}
    BY DEF Init
  <2>3. main = "while" /\ packet_wrapper = NoTuple
    BY DEF Init
  <2> QED BY <2>1, <2>2, <2>3 DEF TypeOK
<1>2. Init => SkipOnlyCopies
  BY DEF Init, SkipOnlyCopies
<1> QED BY <1>1, <1>2 DEF QueueInv

LEMMA QueueNext == QueueInv /\ [Next]_vars => QueueInv'
<1> SUFFICES ASSUME QueueInv, [Next]_vars PROVE QueueInv'
  OBVIOUS
<1> USE DEF QueueInv
<1>1. ASSUME NEW p \in Packet, NEW s \in Server, GotPacket(p, s)
      PROVE  QueueInv'
  <2> DEFINE t == [packet |-> p, server |-> s]
  <2>1. t \in Tuple
    BY DEF Tuple
  <2>2. packets_queue' = Append(packets_queue, t)
    BY <1>1 DEF GotPacket
  <2>3. packets_queue' \in Seq(Tuple) /\ Len(packets_queue') = Len(packets_queue) + 1
    BY <2>1, <2>2, AppendedQueued DEF TypeOK
  <2>4. TypeOK'
    BY <1>1, <2>3 DEF GotPacket, TypeOK
  <2>5. ASSUME main = "for" PROVE Queued(index - 1)' = Queued(index - 1)
    <3>1. index - 1 \in 0..Len(packets_queue) /\ index' = index
      BY <1>1, <2>5 DEF GotPacket, TypeOK
    <3>2. \A k \in 0..Len(packets_queue) : Queued(k)' = Queued(k)
      BY <2>1, <2>2, AppendedQueued DEF TypeOK
    <3> QED BY <3>1, <3>2 DEF Queued
  <2>6. SkipOnlyCopies'
    BY <1>1, <2>5 DEF GotPacket, SkipOnlyCopies
  <2> QED BY <2>4, <2>6
<1>2. CASE Pop
  <2>1. /\ packets_queue' \in Seq(Tuple) /\ Len(packets_queue') \in Nat
        /\ packets_queue[Len(packets_queue)] \in Tuple
    BY <1>2, PoppedQueued DEF Pop, TypeOK
  <2>2. TypeOK'
    <3>1. skip' \in BOOLEAN /\ silent' \in BOOLEAN
      BY <1>2 DEF Pop, TypeOK
    <3>2. main' = "for" /\ packet_wrapper' \in Tuple
      BY <1>2, <2>1 DEF Pop
    <3>3. index' \in Nat \ {0} /\ index' <= Len(packets_queue') + 1
      BY <1>2, <2>1 DEF Pop
    <3> QED BY <2>1, <3>1, <3>2, <3>3 DEF TypeOK
  <2>3. SkipOnlyCopies'
    BY <1>2 DEF Pop, SkipOnlyCopies, Queued
  <2> QED BY <2>2, <2>3
<1>3. CASE Compare
  <2>1. index \in Nat \ {0} /\ index' = index + 1 /\ packets_queue' = packets_queue
    BY <1>3 DEF Compare, TypeOK
  <2>2. TypeOK'
    BY <1>3, <2>1 DEF Compare, TypeOK
  <2>3. Queued(index - 1)' = Queued(index - 1) \cup {packets_queue[index].packet}
    <3>1. Queued(index - 1)' = Queued(index)
      BY <2>1 DEF Queued
    <3> QED BY <2>1, <3>1, OneMoreQueued
  <2>4. SkipOnlyCopies'
    BY <1>3, <2>3 DEF Compare, SkipOnlyCopies, TypeOK
  <2> QED BY <2>2, <2>4
<1>4. CASE Decide
  BY <1>4 DEF Decide, TypeOK, SkipOnlyCopies
<1>5. CASE Processed
  BY <1>5 DEF Processed, TypeOK, SkipOnlyCopies
<1>6. CASE Emptied
  BY <1>6 DEF Emptied, TypeOK, SkipOnlyCopies
<1>7. CASE Discrete
  BY <1>7 DEF Discrete, TypeOK, SkipOnlyCopies
<1>8. CASE Silence
  BY <1>8 DEF Silence, TypeOK, SkipOnlyCopies, Queued
<1>9. CASE UNCHANGED vars
  BY <1>9 DEF vars, TypeOK, SkipOnlyCopies, Queued
<1> QED BY <1>1, <1>2, <1>3, <1>4, <1>5, <1>6, <1>7, <1>8, <1>9 DEF Next, MainStep

\* What update_continous knows of the list while the listeners append to it.
THEOREM QueueInvariant == Spec => []QueueInv
<1>1. Init => QueueInv
  BY QueueInit
<1>2. QueueInv /\ [Next]_vars => QueueInv'
  BY QueueNext
<1> QED BY <1>1, <1>2, PTL DEF Spec

\* The index of the loop over the list never leaves it by more than one.
THEOREM TypeCorrect == Spec => []TypeOK
BY QueueInvariant, PTL DEF QueueInv

\* A popped packet is skipped only for a copy that stays in the list.
THEOREM SkipsOnlyCopies == Spec => []SkipOnlyCopies
BY QueueInvariant, PTL DEF QueueInv

---------------------------------------------------------------------------
(* The list implements the inbox.                                          *)

LEMMA InboxInit == Init => InboxOf!Init
BY DEF Init, InboxOf!Init, waiting, handling, Queued

LEMMA InboxNext == QueueInv /\ [Next]_vars => [InboxOf!Next]_<<waiting, handling>>
<1> SUFFICES ASSUME QueueInv, [Next]_vars
             PROVE  InboxOf!Next \/ UNCHANGED <<waiting, handling>>
  OBVIOUS
<1> USE DEF QueueInv
<1>1. ASSUME NEW p \in Packet, NEW s \in Server, GotPacket(p, s)
      PROVE  InboxOf!Arrive(p)
  <2> DEFINE t == [packet |-> p, server |-> s]
  <2>1. t \in Tuple /\ t.packet = p
    BY DEF Tuple
  <2>2. packets_queue' = Append(packets_queue, t)
    BY <1>1 DEF GotPacket
  <2>3. Queued(Len(packets_queue))' = Queued(Len(packets_queue)) \cup {p}
    BY <2>1, <2>2, AppendedQueued DEF TypeOK
  <2> QED BY <1>1, <2>3 DEF InboxOf!Arrive, GotPacket, waiting, handling
<1>2. CASE Pop
  <2>1. Queued(Len(packets_queue)) =
          Queued(Len(packets_queue))' \cup {packets_queue[Len(packets_queue)].packet}
    BY <1>2, PoppedQueued DEF Pop, TypeOK
  <2> QED BY <1>2, <2>1 DEF Pop, waiting, handling
<1>3. CASE Compare
  BY <1>3 DEF Compare, waiting, handling, Queued
<1>4. CASE Decide
  <2>1. index - 1 = Len(packets_queue) /\ packet_wrapper.packet \in Packet
    BY <1>4 DEF Decide, TypeOK, Tuple
  <2>2. Queued(Len(packets_queue))' = Queued(Len(packets_queue))
    BY <1>4 DEF Decide, Queued
  <2>3. skip <=> packet_wrapper.packet \in Queued(Len(packets_queue))
    BY <1>4, <2>1 DEF Decide, SkipOnlyCopies
  <2>4. CASE skip
    BY <1>4, <2>2, <2>3, <2>4 DEF Decide, waiting, handling
  <2>5. CASE ~skip
    <3>1. InboxOf!Take(packet_wrapper.packet)
      BY <1>4, <2>2, <2>3, <2>5 DEF Decide, waiting, handling, InboxOf!Take
    <3> QED BY <3>1, <2>1 DEF InboxOf!Next
  <2> QED BY <2>4, <2>5
<1>5. CASE Processed
  BY <1>5 DEF Processed, waiting, handling, Queued, InboxOf!Finish, InboxOf!Next
<1>6. CASE Emptied
  BY <1>6 DEF Emptied, waiting, handling, Queued
<1>7. CASE Discrete
  BY <1>7 DEF Discrete, waiting, handling, Queued
<1>8. CASE Silence
  BY <1>8 DEF Silence, waiting, handling, Queued
<1>9. CASE UNCHANGED vars
  BY <1>9 DEF vars, waiting, handling, Queued
<1> QED
  BY <1>1, <1>2, <1>3, <1>4, <1>5, <1>6, <1>7, <1>8, <1>9 DEF Next, MainStep, InboxOf!Next

\* No packet is lost and none is processed twice for one arrival, however the
\* listener threads interleave with update_continous.
THEOREM QueueImplementsInbox == Spec => ImplementsInbox
<1>1. Init => InboxOf!Init
  BY InboxInit
<1>2. QueueInv /\ [Next]_vars => [InboxOf!Next]_<<waiting, handling>>
  BY InboxNext
<1> QED BY <1>1, <1>2, QueueInvariant, PTL DEF Spec, ImplementsInbox, InboxOf!Spec
=============================================================================
