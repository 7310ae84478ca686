---------------------------- MODULE EspOld_proofs ----------------------------
(***************************************************************************)
(* Proofs about EspOld, for any children, any size of chClients and any    *)
(* number of rounds before the access point is started.                    *)
(***************************************************************************)
EXTENDS EspOld, SequenceTheorems, TLAPS

\* The count covers the children, element by element.
Covered ==
  /\ Len(children) = chClientsCnt
  /\ \A k \in 1..chClientsCnt : chClients[k] = children[k]

\* A child that is connected is in the list once, so that the first element that
\* is it is covered by the count.
Distinct ==
  \A k, l \in 1..Len(children) : children[k] = children[l] => k = l

ListInv == Covered /\ Distinct

\* The access point is asked for only before it was started for the first time,
\* and the task counts the rounds.
StartInv ==
  /\ runs = rounds
  /\ ap # "never" <=> accessPointCrated
  /\ needToCreateAccessPoint => ~accessPointCrated

EspInv == TypeOK /\ ListInv /\ StartInv

---------------------------------------------------------------------------
(* The types.                                                              *)

\* A round counted stays within the bound.
LEMMA BumpedType ==
  ASSUME NEW n \in 0..ApRuns + 1
  PROVE  Bumped(n) \in 0..ApRuns + 1
  BY EspOldAssumption DEF Bumped

LEMMA InitType == Init => TypeOK
  <1>1. 0 \in 0..ApRuns + 1 /\ 0 \in 0..MaxClients
    BY EspOldAssumption
  <1>2. Init => children \in Seq(Child)
    BY DEF Init
  <1>3. Init => /\ chClients \in [1..MaxClients -> Child \cup {Free}]
                /\ pb_buffer \in [{"header", "message"} -> {"own", "child"}]
    BY DEF Init, Own
  <1>. QED BY <1>1, <1>2, <1>3 DEF Init, TypeOK

\* The loop and its tasks.
LEMMA LoopType ==
  ASSUME TypeOK, loop
  PROVE  TypeOK'
  <1>. USE DEF flags, station, server, task
  <1>0. Bumped(runs) \in 0..ApRuns + 1 /\ Bumped(rounds) \in 0..ApRuns + 1
    BY BumpedType DEF TypeOK
  <1>1. CASE wifiCheckCallback
    BY <1>1 DEF wifiCheckCallback, TypeOK
  <1>2. CASE EnsureParent
    BY <1>0, <1>2 DEF EnsureParent, TypeOK
  <1>3. CASE Round
    <2>1. Own \in [{"header", "message"} -> {"own", "child"}]
      BY DEF Own
    <2>. QED BY <1>3, <2>1 DEF Round, TypeOK
  <1>4. CASE RoundEnd
    BY <1>4 DEF RoundEnd, TypeOK
  <1>5. CASE CheckIndex
    BY <1>5 DEF CheckIndex, TypeOK
  <1>6. CASE Connect
    BY <1>6 DEF Connect, TypeOK
  <1>7. CASE EndOfPass
    BY <1>7 DEF EndOfPass, StartAccessPoint, TypeOK
  <1>. QED BY <1>1, <1>2, <1>3, <1>4, <1>5, <1>6, <1>7 DEF loop, remPingPongCallback

\* The station and the parent.
LEMMA CallbackType ==
  ASSUME TypeOK,
         \/ wifiScanCallback \/ onStationConnected \/ onStationGotIP
         \/ onStationDisconnected \/ Air \/ ParentConnected \/ ParentDisconnected
  PROVE  TypeOK'
  <1>. USE DEF flags, station, server, task
  <1>0. 0 \in 0..ApRuns + 1
    BY EspOldAssumption
  <1>1. CASE wifiScanCallback
    BY <1>1 DEF wifiScanCallback, TypeOK
  <1>2. CASE onStationConnected
    BY <1>2 DEF onStationConnected, TypeOK
  <1>3. CASE onStationGotIP
    BY <1>0, <1>3 DEF onStationGotIP, TypeOK
  <1>4. CASE onStationDisconnected
    BY <1>4 DEF onStationDisconnected, TypeOK
  <1>5. CASE Air
    BY <1>5 DEF Air, TypeOK
  <1>6. CASE ParentConnected
    BY <1>0, <1>6 DEF ParentConnected, Restarted, TypeOK
  <1>7. CASE ParentDisconnected
    BY <1>7 DEF ParentDisconnected, TypeOK
  <1>. QED BY <1>1, <1>2, <1>3, <1>4, <1>5, <1>6, <1>7

---------------------------------------------------------------------------
(* The children.                                                           *)

\* A sequence without its k-th element.
LEMMA RemoveAtOf ==
  ASSUME NEW S, NEW s \in Seq(S), NEW k \in 1..Len(s)
  PROVE  /\ RemoveAt(s, k) \in Seq(S)
         /\ Len(RemoveAt(s, k)) = Len(s) - 1
         /\ \A j \in 1..Len(s) - 1 :
              RemoveAt(s, k)[j] = IF j < k THEN s[j] ELSE s[j + 1]
  <1>1. /\ SubSeq(s, 1, k - 1) \in Seq(S) /\ Len(SubSeq(s, 1, k - 1)) = k - 1
        /\ SubSeq(s, k + 1, Len(s)) \in Seq(S)
        /\ Len(SubSeq(s, k + 1, Len(s))) = Len(s) - k
    OBVIOUS
  <1>2. \A j \in 1..k - 1 : SubSeq(s, 1, k - 1)[j] = s[j]
    OBVIOUS
  <1>3. \A j \in 1..Len(s) - k : SubSeq(s, k + 1, Len(s))[j] = s[k + j]
    OBVIOUS
  <1>. DEFINE a == SubSeq(s, 1, k - 1)
              b == SubSeq(s, k + 1, Len(s))
  <1>4. RemoveAt(s, k) = a \o b
    BY DEF RemoveAt
  <1>. HIDE DEF a, b
  <1>5. a \in Seq(S) /\ b \in Seq(S) /\ Len(a) = k - 1 /\ Len(b) = Len(s) - k
    BY <1>1 DEF a, b
  <1>6. a \o b \in Seq(S) /\ Len(a \o b) = Len(s) - 1
    BY <1>5
  <1>7. ASSUME NEW j \in 1..Len(s) - 1
        PROVE  (a \o b)[j] = IF j < k THEN s[j] ELSE s[j + 1]
    <2>1. CASE j < k
      BY <1>2, <1>5, <2>1 DEF a
    <2>2. CASE ~(j < k)
      <3>1. (a \o b)[j] = b[j - (k - 1)]
        BY <1>5, <2>2
      <3>2. j - (k - 1) \in 1..Len(s) - k /\ k + (j - (k - 1)) = j + 1
        BY <1>5, <2>2
      <3>3. b[j - (k - 1)] = s[j + 1]
        BY <1>3, <3>2 DEF b
      <3>. QED BY <2>2, <3>1, <3>3
    <2>. QED BY <2>1, <2>2
  <1>. QED BY <1>4, <1>6, <1>7

\* A child that connects takes the element behind the last one.
LEMMA ConnectedList ==
  ASSUME TypeOK, ListInv, NEW c \in Child, ChildConnected(c)
  PROVE  TypeOK' /\ ListInv'
  <1>. USE DEF flags, station, server, task
  <1>1. chClientsCnt + 1 \in 1..MaxClients /\ chClientsCnt' \in 0..MaxClients
    BY EspOldAssumption DEF ChildConnected, TypeOK
  <1>2. chClients' \in [1..MaxClients -> Child \cup {Free}]
    BY <1>1 DEF ChildConnected, TypeOK
  <1>3. /\ children' \in Seq(Child)
        /\ Len(children') = Len(children) + 1
        /\ \A k \in 1..Len(children) : children'[k] = children[k]
        /\ children'[Len(children) + 1] = c
    BY DEF ChildConnected, TypeOK
  <1>4. TypeOK'
    BY <1>1, <1>2, <1>3 DEF ChildConnected, TypeOK
  <1>5. Covered'
    BY <1>1, <1>3 DEF ChildConnected, ListInv, Covered, TypeOK
  <1>6. \A k \in 1..Len(children) : children[k] # c
    BY DEF ChildConnected, Contains
  <1>7. Distinct'
    BY <1>3, <1>6 DEF ListInv, Distinct, TypeOK
  <1>. QED BY <1>4, <1>5, <1>7 DEF ListInv

\* The element a child is found at when it leaves is its own: one left behind the
\* count, from a child that went before, is never the first.
LEMMA FoundIsListed ==
  ASSUME TypeOK, ListInv, NEW c \in Child, NEW k \in 1..Len(children), children[k] = c,
         NEW i \in 1..MaxClients, FoundAt(c, i)
  PROVE  i = k
  <1>1. k \in 1..MaxClients /\ chClients[k] = c
    BY EspOldAssumption DEF TypeOK, ListInv, Covered
  <1>2. i <= k
    BY <1>1, EspOldAssumption DEF FoundAt
  <1>3. children[i] = c /\ i \in 1..Len(children)
    BY <1>2, EspOldAssumption DEF FoundAt, ListInv, Covered, TypeOK
  <1>. QED BY <1>3 DEF ListInv, Distinct

\* A child that leaves takes its element with it.
LEMMA DisconnectedList ==
  ASSUME TypeOK, ListInv, NEW c \in Child, ChildDisconnected(c)
  PROVE  TypeOK' /\ ListInv'
  <1>. USE DEF flags, station, server, task
  <1>0. chClientsCnt \in 0..MaxClients /\ Len(children) = chClientsCnt
        /\ DOMAIN children = 1..chClientsCnt /\ children \in Seq(Child)
    BY DEF TypeOK, ListInv, Covered
  <1>1. PICK k \in 1..Len(children) : children[k] = c /\ children' = RemoveAt(children, k)
    BY <1>0 DEF ChildDisconnected
  <1>2. k \in 1..MaxClients /\ chClients[k] = c
    BY <1>0, <1>1, EspOldAssumption DEF ListInv, Covered
  <1>3. Len(chClients) = MaxClients
    BY EspOldAssumption DEF TypeOK
  <1>4. Contains(chClients, c)
    BY <1>2, <1>3 DEF Contains
  <1>5. PICK i \in 1..MaxClients :
          FoundAt(c, i) /\ chClients' = Shifted(i) /\ chClientsCnt' = OneLess(c)
    BY <1>4 DEF ChildDisconnected
  <1>6. i = k
    BY <1>1, <1>5, FoundIsListed
  <1>7. /\ children' \in Seq(Child)
        /\ Len(children') = chClientsCnt - 1
        /\ \A j \in 1..chClientsCnt - 1 :
             children'[j] = IF j < k THEN children[j] ELSE children[j + 1]
    BY <1>0, <1>1, RemoveAtOf
  <1>8. /\ chClients' \in [1..MaxClients -> Child \cup {Free}]
        /\ \A j \in 1..chClientsCnt - 1 :
             chClients'[j] = IF j < k THEN chClients[j] ELSE chClients[j + 1]
    BY <1>0, <1>5, <1>6, EspOldAssumption DEF Shifted, TypeOK
  <1>9. chClientsCnt' = chClientsCnt - 1 /\ chClientsCnt' \in 0..MaxClients
    BY <1>0, <1>1, <1>5, EspOldAssumption DEF OneLess
  <1>10. TypeOK'
    BY <1>7, <1>8, <1>9 DEF ChildDisconnected, TypeOK
  <1>11. Covered'
    BY <1>0, <1>7, <1>8, <1>9 DEF ListInv, Covered
  <1>12. Distinct'
    <2>1. ASSUME NEW j \in 1..chClientsCnt - 1, NEW l \in 1..chClientsCnt - 1,
                 children'[j] = children'[l]
          PROVE  j = l
      <3>. DEFINE jj == IF j < k THEN j ELSE j + 1
                  ll == IF l < k THEN l ELSE l + 1
      <3>1. children'[j] = children[jj] /\ children'[l] = children[ll]
        BY <1>7
      <3>2. jj \in 1..Len(children) /\ ll \in 1..Len(children)
        BY <1>0, <1>1
      <3>3. jj = ll
        BY <2>1, <3>1, <3>2 DEF ListInv, Distinct
      <3>. QED BY <1>0, <1>1, <3>3
    <2>2. 1..Len(children') = 1..chClientsCnt - 1
      BY <1>7
    <2>. QED BY <2>1, <2>2 DEF Distinct
  <1>. QED BY <1>10, <1>11, <1>12 DEF ListInv

LEMMA TopologyType ==
  ASSUME TypeOK, NEW c \in Child, ChildTopology(c)
  PROVE  TypeOK'
  <1>1. pb_buffer' \in [{"header", "message"} -> {"own", "child"}]
    BY DEF ChildTopology, handle_mesh_topo, TypeOK
  <1>. QED BY <1>1 DEF ChildTopology, TypeOK, flags, station, server

---------------------------------------------------------------------------
(* The invariant.                                                          *)

\* What leaves the list and the station's side of it alone.
LEMMA ListKept ==
  ASSUME ListInv, UNCHANGED <<chClients, chClientsCnt, children>>
  PROVE  ListInv'
  BY DEF ListInv, Covered, Distinct

LEMMA StartKept ==
  ASSUME StartInv,
         UNCHANGED <<runs, rounds, ap, accessPointCrated, needToCreateAccessPoint>>
  PROVE  StartInv'
  BY DEF StartInv

LEMMA InitInv == Init => EspInv
  <1>1. Init => ListInv
    BY DEF Init, ListInv, Covered, Distinct
  <1>2. Init => StartInv
    BY DEF Init, StartInv
  <1>. QED BY <1>1, <1>2, InitType DEF EspInv

LEMMA LoopInv ==
  ASSUME EspInv, loop
  PROVE  EspInv'
  <1>. USE DEF flags, station, server, task
  <1>1. UNCHANGED <<chClients, chClientsCnt, children>>
    BY DEF loop, remPingPongCallback, wifiCheckCallback, EnsureParent, Round, RoundEnd,
           CheckIndex, Connect, EndOfPass, StartAccessPoint
  <1>2. StartInv'
    <2>1. CASE wifiCheckCallback \/ Round \/ CheckIndex \/ Connect
      BY <2>1 DEF wifiCheckCallback, Round, CheckIndex, Connect, EspInv, StartInv
    <2>2. CASE EnsureParent
      BY <2>2 DEF EnsureParent, EspInv, StartInv
    <2>3. CASE RoundEnd
      BY <2>3 DEF RoundEnd, EspInv, StartInv
    <2>4. CASE EndOfPass
      BY <2>4 DEF EndOfPass, StartAccessPoint, EspInv, StartInv
    <2>. QED BY <2>1, <2>2, <2>3, <2>4 DEF loop, remPingPongCallback
  <1>. QED BY <1>1, <1>2, LoopType, ListKept DEF EspInv

LEMMA CallbackInv ==
  ASSUME EspInv,
         \/ wifiScanCallback \/ onStationConnected \/ onStationGotIP
         \/ onStationDisconnected \/ Air \/ ParentConnected \/ ParentDisconnected
  PROVE  EspInv'
  <1>. USE DEF flags, station, server, task
  <1>1. UNCHANGED <<chClients, chClientsCnt, children>>
    BY DEF wifiScanCallback, onStationConnected, onStationGotIP, onStationDisconnected,
           Air, ParentConnected, ParentDisconnected
  <1>2. StartInv'
    <2>1. CASE wifiScanCallback \/ onStationConnected \/ onStationDisconnected \/ Air
      BY <2>1 DEF wifiScanCallback, onStationConnected, onStationDisconnected, Air,
                  EspInv, StartInv
    <2>2. CASE onStationGotIP
      BY <2>2 DEF onStationGotIP, EspInv, StartInv
    <2>3. CASE ParentConnected
      BY <2>3 DEF ParentConnected, Restarted, EspInv, StartInv
    <2>4. CASE ParentDisconnected
      BY <2>4 DEF ParentDisconnected, EspInv, StartInv
    <2>. QED BY <2>1, <2>2, <2>3, <2>4
  <1>. QED BY <1>1, <1>2, CallbackType, ListKept DEF EspInv

LEMMA ChildInv ==
  ASSUME EspInv, NEW c \in Child,
         ChildConnected(c) \/ ChildDisconnected(c) \/ ChildTopology(c)
  PROVE  EspInv'
  <1>. USE DEF flags, station, server, task
  <1>1. StartInv'
    BY StartKept DEF EspInv, ChildConnected, ChildDisconnected, ChildTopology
  <1>2. CASE ChildConnected(c)
    BY <1>1, <1>2, ConnectedList DEF EspInv
  <1>3. CASE ChildDisconnected(c)
    BY <1>1, <1>3, DisconnectedList DEF EspInv
  <1>4. CASE ChildTopology(c)
    <2>1. ListInv'
      BY <1>4, ListKept DEF EspInv, ChildTopology
    <2>. QED BY <1>1, <1>4, <2>1, TopologyType DEF EspInv
  <1>. QED BY <1>2, <1>3, <1>4

LEMMA NextInv == EspInv /\ [Next]_vars => EspInv'
  <1>. SUFFICES ASSUME EspInv, [Next]_vars PROVE EspInv'
    OBVIOUS
  <1>1. CASE loop
    BY <1>1, LoopInv
  <1>2. CASE \/ wifiScanCallback \/ onStationConnected \/ onStationGotIP
             \/ onStationDisconnected \/ Air \/ ParentConnected \/ ParentDisconnected
    BY <1>2, CallbackInv
  <1>3. ASSUME NEW c \in Child, ChildConnected(c) \/ ChildDisconnected(c) \/ ChildTopology(c)
        PROVE  EspInv'
    BY <1>3, ChildInv
  <1>4. CASE UNCHANGED vars
    BY <1>4 DEF vars, flags, station, server, task, EspInv, TypeOK, ListInv, Covered,
                Distinct, StartInv
  <1>. QED BY <1>1, <1>2, <1>3, <1>4 DEF Next

\* The inductive invariant: what the count, the list and the start of the access
\* point have to do with each other, after every callback and task.
THEOREM InvHolds == Spec => []EspInv
  BY InitInv, NextInv, PTL DEF Spec

---------------------------------------------------------------------------
(* What the runs check.                                                    *)

\* The variables stay what they are for any number of children; chClientsCnt, an
\* unsigned byte counted down by callbacks, is never decremented below zero.
THEOREM TypeCorrect == Spec => []TypeOK
  <1>1. EspInv => TypeOK
    BY DEF EspInv
  <1>. QED BY <1>1, InvHolds, PTL

\* Two sequences of the same length with the same elements.
LEMMA CoveredIsListed ==
  ASSUME TypeOK, Covered
  PROVE  ChildrenListed
  <1>. DEFINE t == SubSeq(chClients, 1, chClientsCnt)
  <1>1. chClients \in Seq(Child \cup {Free}) /\ Len(chClients) = MaxClients
    BY EspOldAssumption DEF TypeOK
  <1>2. chClientsCnt \in 0..MaxClients
    BY DEF TypeOK
  <1>3. /\ t \in Seq(Child \cup {Free}) /\ Len(t) = chClientsCnt
        /\ \A k \in 1..chClientsCnt : t[k] = chClients[k]
    BY <1>1, <1>2, EspOldAssumption
  <1>4. children \in Seq(Child \cup {Free})
    BY DEF TypeOK
  <1>. HIDE DEF t
  <1>5. t = children
    BY <1>3, <1>4, SeqEqual DEF Covered
  <1>. QED BY <1>5 DEF t, ChildrenListed

\* Whoever leaves in whatever order, the first chClientsCnt elements are the
\* children that are connected, for any number of children and elements.
THEOREM ListedChildren == Spec => []ChildrenListed
  <1>1. EspInv => ChildrenListed
    BY CoveredIsListed DEF EspInv, ListInv
  <1>. QED BY <1>1, InvHolds, PTL

\* No other step asks for the access point, or starts it.
LEMMA OnlyTheLoop ==
  ASSUME EspInv, Next, ~RoundEnd, ~EndOfPass
  PROVE  /\ UNCHANGED needToCreateAccessPoint
         /\ ap' # ap => ap' = "off"
  <1>. USE DEF flags, station, server, task
  <1>1. CASE loop
    BY <1>1 DEF loop, remPingPongCallback, wifiCheckCallback, EnsureParent, Round,
                CheckIndex, Connect
  <1>2. CASE \/ wifiScanCallback \/ onStationConnected \/ onStationGotIP
             \/ onStationDisconnected \/ Air \/ ParentConnected \/ ParentDisconnected
    BY <1>2 DEF wifiScanCallback, onStationConnected, onStationGotIP,
                onStationDisconnected, Air, ParentConnected, ParentDisconnected
  <1>3. CASE \E c \in Child : ChildConnected(c) \/ ChildDisconnected(c) \/ ChildTopology(c)
    BY <1>3 DEF ChildConnected, ChildDisconnected, ChildTopology
  <1>. QED BY <1>1, <1>2, <1>3 DEF Next

\* A request for the access point comes after more than ApRuns rounds since the
\* last lease or connection, for any ApRuns; one that has ended is not started
\* again, whatever callbacks come between the request and the start.
THEOREM AccessPoint == Spec => ApInTime
  <1>. DEFINE InTime ==
         /\ (~needToCreateAccessPoint /\ needToCreateAccessPoint') => rounds > ApRuns
         /\ ap' = "on" => ap # "off"
  <1>1. EspInv /\ [Next]_vars => InTime
    <2>. SUFFICES ASSUME EspInv, [Next]_vars PROVE InTime
      OBVIOUS
    <2>. USE DEF flags, station, server, task
    <2>1. CASE RoundEnd
      BY <2>1 DEF RoundEnd, EspInv, StartInv
    <2>2. CASE EndOfPass
      BY <2>2 DEF EndOfPass, StartAccessPoint, EspInv, StartInv
    <2>3. CASE Next /\ ~RoundEnd /\ ~EndOfPass
      BY <2>3, OnlyTheLoop
    <2>4. CASE UNCHANGED vars
      BY <2>4 DEF vars
    <2>. QED BY <2>1, <2>2, <2>3, <2>4
  <1>2. EspInv /\ [Next]_vars => [InTime]_vars
    BY <1>1
  <1>. QED BY <1>2, InvHolds, PTL DEF Spec, ApInTime, InTime

---------------------------------------------------------------------------
(* The buffer.                                                             *)

\* What a round writes is its own packet, header and message, whatever a child
\* has sent since the round began: only what fills the buffer leads to the write,
\* and no callback runs between the two.
THEOREM RoundsAreWhole == Spec => OwnPacketWhole
  <1>. DEFINE Writes == pc # "sent" /\ pc' = "sent"
  <1>1. [Next]_vars => (Writes => pb_buffer' = Own)
    <2>. SUFFICES ASSUME [Next]_vars, Writes PROVE pb_buffer' = Own
      OBVIOUS
    <2>1. CASE Round
      BY <2>1 DEF Round
    <2>2. CASE \/ wifiCheckCallback \/ EnsureParent \/ RoundEnd \/ CheckIndex
               \/ Connect \/ EndOfPass
      BY <2>2 DEF wifiCheckCallback, EnsureParent, RoundEnd, CheckIndex, Connect, EndOfPass
    <2>3. CASE \/ wifiScanCallback \/ onStationConnected \/ onStationGotIP
               \/ onStationDisconnected \/ Air \/ ParentConnected \/ ParentDisconnected
      BY <2>3 DEF wifiScanCallback, onStationConnected, onStationGotIP,
                  onStationDisconnected, Air, ParentConnected, ParentDisconnected
    <2>4. ASSUME NEW c \in Child, ChildConnected(c) \/ ChildDisconnected(c) \/ ChildTopology(c)
          PROVE  FALSE
      BY <2>4 DEF ChildConnected, ChildDisconnected, ChildTopology
    <2>5. CASE UNCHANGED vars
      BY <2>5 DEF vars
    <2>. QED BY <2>1, <2>2, <2>3, <2>4, <2>5 DEF Next, loop, remPingPongCallback
  <1>2. [Next]_vars => [Writes => pb_buffer' = Own]_vars
    BY <1>1
  <1>. QED BY <1>2, PTL DEF Spec, OwnPacketWhole, Writes
=============================================================================
