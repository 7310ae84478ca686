--------------------------- MODULE LinuxNode_proofs ---------------------------
(***************************************************************************)
(* Proofs about LinuxNode, for any list of hosts and any number of         *)
(* children.                                                               *)
(***************************************************************************)
EXTENDS LinuxNode, WellFoundedInduction, TLAPS

USE DEF Adder

\* A channel is linked, or being linked, only behind set_receiver.
ReceiverInv ==
  /\ ListedReceives
  /\ \A a \in Adder : adder[a].step \in {3, 4} => adder[a].tail \in Chan \cup {End}
  /\ \A a \in Adder : adder[a].step # 0 => adder[a].chan \in 1..made
  /\ \A a \in Adder : adder[a].step \in 2..4 => on_recv_cb[adder[a].chan]

\* The parents were found by the scan that goes on, or by one that has set
\* is_client_connected, after which there is no other.
ParentInv ==
  /\ OneLinkPerHost
  /\ main = "scan" => \A c \in Parents : \E i \in 1..tried : host[c] = Hosts[i]
  /\ Parents # {} => \/ is_client_connected
                     \/ main = "scan" /\ adder["main"].step # 0
                          /\ kind[adder["main"].chan] = "parent"

NodeInv == TypeOK /\ ReceiverInv

\* The list is the chain s of n elements, s[0] being its head; every channel is in
\* it, or a thread has it in hand.
Pending(a) == IF adder[a].step = 0 THEN 0 ELSE 1

Chain(s, n) ==
  /\ n \in Nat /\ s \in [0..n -> Chan \cup {End}]
  /\ s[0] = End /\ s[n] = tail
  /\ \A i, j \in 0..n : s[i] = s[j] => i = j
  /\ \A i \in 1..n : next[s[i - 1]] = s[i]
  /\ n + Pending("main") + Pending("accept") = made
  /\ \A c \in 1..made : \/ \E i \in 1..n : s[i] = c
                        \/ \E a \in Adder : adder[a].step # 0 /\ adder[a].chan = c
  /\ \A i \in 1..n : s[i] \in 1..made
  /\ \A a \in Adder : adder[a].step # 0 => \A i \in 1..n : s[i] # adder[a].chan

\* While no two calls of push_back have overlapped, a thread that is in it has
\* the tail there is, and what it links is linked behind that tail.
Alone ==
  /\ \A a, b \in Adder : adder[a].step \in {3, 4} /\ adder[b].step \in {3, 4} => a = b
  /\ \A a, b \in Adder : adder[a].step # 0 /\ adder[b].step # 0
                           /\ adder[a].chan = adder[b].chan => a = b
  /\ \A a \in Adder : adder[a].step \in {3, 4} => adder[a].tail = tail
  /\ \A a \in Adder : adder[a].step = 4 => next[tail] = adder[a].chan

ListInv == overlap \/ (Alone /\ \E s, n : Chain(s, n))

LEMMA Constants ==
  /\ MaxChan \in Nat \ {0}
  /\ Len(Hosts) \in Nat
  /\ Len(add_channel) = 4
  /\ add_channel[1] = "set" /\ add_channel[2] = "read"
  /\ add_channel[3] = "next" /\ add_channel[4] = "tail"
  /\ End = 0 /\ End \notin Chan
  BY NodeAssumption DEF MaxChan, add_channel, Chan, End

\* Where a thread is in add_channel, by the number of the step.
LEMMA Where ==
  ASSUME TypeOK, NEW a \in Adder
  PROVE  /\ adder[a].step \in 0..4
         /\ At(a) = "idle" => adder[a].step = 0
         /\ At(a) = "set" => adder[a].step = 1
         /\ At(a) = "read" => adder[a].step = 2
         /\ At(a) = "next" => adder[a].step = 3
         /\ At(a) = "tail" => adder[a].step = 4
  <1>1. adder[a].step \in 0..4
    BY Constants DEF TypeOK
  <1>. QED BY <1>1, Constants DEF At

LEMMA InitType == Init => TypeOK
  <1>1. Init => /\ made \in 0..MaxChan /\ tried \in 0..Len(Hosts)
                /\ adder \in [Adder -> [chan : Chan \cup {End}, step : 0..Len(add_channel),
                                         tail : Chan \cup {End}]]
    BY Constants DEF Init, Idle
  <1>. QED BY <1>1 DEF Init, TypeOK

\* A new channel has the types of a channel.
LEMMA CreateType ==
  ASSUME TypeOK, NEW k \in {"parent", "child", "server"}, NEW h \in Host \cup {None},
         Create(k, h)
  PROVE  /\ made' \in 0..MaxChan /\ made' = made + 1 /\ made' \in Chan
         /\ kind' \in [Chan -> {None, "parent", "child", "server"}]
         /\ host' \in [Chan -> Host \cup {None}]
         /\ sock' \in [Chan -> {None, "open", "lost", "shut"}]
         /\ thread' \in [Chan -> {None, "run", "ended"}]
  BY Constants DEF Create, TypeOK, Chan

LEMMA AddType ==
  ASSUME TypeOK, NEW a \in Adder, Add(a)
  PROVE  TypeOK'
  <1>0. adder[a].step \in 0..4 /\ adder[a].chan \in Chan \cup {End}
        /\ adder[a].tail \in Chan \cup {End}
    BY Where, Constants DEF TypeOK
  <1>1. ASSUME Step(a), At(a) # "idle"
        PROVE  adder' \in [Adder -> [chan : Chan \cup {End}, step : 0..Len(add_channel),
                                     tail : Chan \cup {End}]]
    BY <1>0, <1>1, Constants DEF Step, Done, AtNext, Idle, TypeOK, At
  <1>2. ASSUME Return(a) PROVE {is_client_connected', is_server_started'} \subseteq BOOLEAN
    BY <1>2 DEF Return, TypeOK
  <1>3. CASE SetReceiver(a)
    BY <1>1, <1>2, <1>3 DEF SetReceiver, TypeOK, chans, list
  <1>4. CASE ReadTail(a)
    <2>1. adder[a].step = 2
      BY <1>4, Where DEF ReadTail
    <2>2. adder' \in [Adder -> [chan : Chan \cup {End}, step : 0..Len(add_channel),
                                tail : Chan \cup {End}]]
      BY <1>4, <2>1, Constants DEF ReadTail, TypeOK
    <2>3. overlap' \in BOOLEAN
      BY <1>4 DEF ReadTail, TypeOK
    <2>. QED BY <1>4, <2>2, <2>3 DEF ReadTail, TypeOK, chans, list, loop
  <1>5. CASE LinkNext(a)
    BY <1>0, <1>1, <1>5 DEF LinkNext, TypeOK, chans, loop
  <1>6. CASE LinkTail(a)
    BY <1>0, <1>1, <1>2, <1>6 DEF LinkTail, TypeOK, chans
  <1>. QED BY <1>3, <1>4, <1>5, <1>6 DEF Add

LEMMA SendType ==
  ASSUME TypeOK, NEW S, Send(S)
  PROVE  managed_to_send' \in [Chan -> BOOLEAN]
  BY DEF Send, TypeOK

LEMMA NextType == TypeOK /\ [Next]_vars => TypeOK'
  <1>. SUFFICES ASSUME TypeOK, [Next]_vars PROVE TypeOK'
    OBVIOUS
  <1>. USE DEF chans, list, loop
  <1>1. CASE update
    BY <1>1, Constants DEF update, TypeOK
  <1>2. CASE Connect
    <2>1. Hosts[tried + 1] \in Host /\ tried + 1 \in 0..Len(Hosts)
      BY <1>2, NodeAssumption DEF Connect, TypeOK
    <2>2. adder' \in [Adder -> [chan : Chan \cup {End}, step : 0..Len(add_channel),
                                tail : Chan \cup {End}]]
      BY <1>2, <2>1, CreateType, Constants DEF Connect, Adding, TypeOK
    <2>. QED BY <1>2, <2>1, <2>2, CreateType DEF Connect, TypeOK, Create
  <1>3. CASE ConnectFails
    BY <1>3, Constants DEF ConnectFails, TryNext, Scanning, TypeOK
  <1>4. CASE Scanned
    BY <1>4 DEF Scanned, TypeOK
  <1>5. CASE start_servers
    <2>1. adder' \in [Adder -> [chan : Chan \cup {End}, step : 0..Len(add_channel),
                                tail : Chan \cup {End}]]
      BY <1>5, CreateType, Constants DEF start_servers, Adding, TypeOK
    <2>. QED BY <1>5, <2>1, CreateType DEF start_servers, TypeOK, Create
  <1>6. CASE ServerFails
    BY <1>6 DEF ServerFails, TypeOK
  <1>7. CASE ServerRuns
    BY <1>7 DEF ServerRuns, TypeOK
  <1>8. CASE RouterUpdate
    BY <1>8, SendType DEF RouterUpdate, TypeOK
  <1>9. ASSUME NEW a \in Adder, Add(a) PROVE TypeOK'
    BY <1>9, AddType
  <1>10. CASE sig_exit
    BY <1>10 DEF sig_exit, TypeOK
  <1>11. CASE accept_loop
    <2>1. CASE Dies
      BY <2>1 DEF Dies, TypeOK
    <2>2. CASE Create("child", None) /\ AddAccepted
               /\ UNCHANGED <<proc, up, on_recv_cb, list, loop, overlap>>
      <3>1. adder' \in [Adder -> [chan : Chan \cup {End}, step : 0..Len(add_channel),
                                  tail : Chan \cup {End}]]
        BY <2>2, CreateType, Constants DEF AddAccepted, Adding, TypeOK
      <3>. QED BY <2>2, <3>1, CreateType DEF TypeOK, Create
    <2>. QED BY <1>11, <2>1, <2>2 DEF accept_loop
  <1>12. ASSUME NEW c \in Chan, Receive(c) PROVE TypeOK'
    <2>1. CASE Dies
      BY <2>1 DEF Dies, TypeOK
    <2>2. CASE Send(channels \cap Parents)
               /\ UNCHANGED <<proc, up, made, kind, host, sock, on_recv_cb, thread, list,
                              adder, loop, overlap>>
      BY <2>2, SendType DEF TypeOK
    <2>. QED BY <1>12, <2>1, <2>2 DEF Receive
  <1>13. ASSUME NEW c \in Chan, Close(c) PROVE TypeOK'
    BY <1>13 DEF Close, TypeOK
  <1>14. ASSUME NEW c \in Chan, ChildLeaves(c) PROVE TypeOK'
    BY <1>14 DEF ChildLeaves, Lost, TypeOK
  <1>15. ASSUME NEW h \in Host, HostUp(h) PROVE TypeOK'
    BY <1>15 DEF HostUp, TypeOK
  <1>16. ASSUME NEW h \in Host, HostDown(h) PROVE TypeOK'
    BY <1>16 DEF HostDown, Lost, TypeOK
  <1>17. CASE UNCHANGED vars
    BY <1>17 DEF vars, TypeOK
  <1>18. CASE BrokenPipe
    BY <1>18 DEF BrokenPipe, Dies, TypeOK
  <1>. QED BY <1>1, <1>2, <1>3, <1>4, <1>5, <1>6, <1>7, <1>8, <1>9, <1>10, <1>11, <1>12,
              <1>13, <1>14, <1>15, <1>16, <1>17, <1>18 DEF Next, Main
---------------------------------------------------------------------------
(* Every channel the list links has its receiver.                          *)

LEMMA ReceiverFrame ==
  ASSUME ReceiverInv, made' \in {made, made + 1}, made \in Nat,
         UNCHANGED <<next, on_recv_cb, adder>>
  PROVE  ReceiverInv'
  BY DEF ReceiverInv, ListedReceives

\* A thread takes up a new channel.
LEMMA ReceiverNew ==
  ASSUME NodeInv, NEW a \in Adder, made' = made + 1,
         adder' = [adder EXCEPT ![a] = Adding(made + 1)],
         UNCHANGED <<next, on_recv_cb>>
  PROVE  ReceiverInv'
  <1>1. made \in Nat
    BY Constants DEF NodeInv, TypeOK
  <1>2. ASSUME NEW b \in Adder
        PROVE  adder'[b] = IF b = a THEN Adding(made + 1) ELSE adder[b]
    BY <1>2 DEF NodeInv, TypeOK
  <1>3. Adding(made + 1).step = 1 /\ Adding(made + 1).chan = made + 1
    BY DEF Adding
  <1>. QED BY <1>1, <1>2, <1>3 DEF NodeInv, ReceiverInv, ListedReceives

LEMMA ReceiverAdd ==
  ASSUME NodeInv, NEW a \in Adder, Add(a)
  PROVE  ReceiverInv'
  <1>. USE DEF NodeInv, ReceiverInv
  <1>0. made \in Nat /\ \A b \in Adder : adder[b].step \in 0..4
    BY Where, Constants DEF TypeOK
  <1>1. ASSUME Step(a), At(a) # "idle", NEW b \in Adder
        PROVE  /\ b # a => adder'[b] = adder[b]
               /\ adder[a].step \in 1..4
               /\ adder'[a].step = IF adder[a].step = 4 THEN 0 ELSE adder[a].step + 1
               /\ adder[a].step # 4 => /\ adder'[a].chan = adder[a].chan
                                        /\ adder'[a].tail = adder[a].tail
    <2>1. b # a => adder'[b] = adder[b]
      BY <1>1 DEF Step, TypeOK
    <2>2. adder[a].step \in 1..4
      BY <1>0, <1>1 DEF At
    <2>3. CASE adder[a].step = 4
      <3>1. adder'[a] = Idle
        BY <1>1, <2>3, Constants DEF Step, Done, TypeOK
      <3>. QED BY <2>1, <2>2, <2>3, <3>1 DEF Idle
    <2>4. CASE adder[a].step # 4
      <3>1. adder'[a] = AtNext(a)
        BY <1>1, <2>4, Constants DEF Step, Done, TypeOK
      <3>. QED BY <2>1, <2>2, <2>4, <3>1 DEF AtNext
    <2>. QED BY <2>3, <2>4
  <1>2. CASE SetReceiver(a)
    <2>1. adder[a].step = 1 /\ made' = made /\ next' = next
      BY <1>2, Where DEF SetReceiver, chans, list
    <2>2. adder[a].chan \in Chan
      BY <2>1, Constants DEF TypeOK, Chan
    <2>3. \A c \in Chan : on_recv_cb'[c] = (on_recv_cb[c] \/ c = adder[a].chan)
      BY <1>2 DEF SetReceiver, TypeOK
    <2>4. \A b \in Adder : /\ b # a => adder'[b] = adder[b]
                           /\ adder'[a].step = 2 /\ adder'[a].chan = adder[a].chan
      BY <1>1, <1>2, <2>1 DEF SetReceiver
    <2>5. ListedReceives'
      BY <2>1, <2>3 DEF ListedReceives, TypeOK, End
    <2>6. \A b \in Adder : adder[b].step # 0 => adder[b].chan \in Chan
      BY Constants DEF TypeOK, Chan
    <2>7. ASSUME NEW b \in Adder
          PROVE  /\ adder'[b].step \in {3, 4} => adder'[b].tail \in Chan \cup {End}
                 /\ adder'[b].step # 0 => adder'[b].chan \in 1..made'
                 /\ adder'[b].step \in 2..4 => on_recv_cb'[adder'[b].chan]
      <3>1. CASE b = a
        <4>1. /\ adder'[b].step = 2 /\ adder'[b].chan = adder[a].chan
              /\ adder[a].chan \in 1..made
          BY <2>1, <2>4, <3>1
        <4>2. on_recv_cb'[adder[a].chan]
          BY <2>2, <2>3
        <4>. QED BY <2>1, <4>1, <4>2
      <3>2. CASE b # a
        <4>1. adder'[b] = adder[b]
          BY <2>4, <3>2
        <4>2. ASSUME adder[b].step \in 2..4 PROVE on_recv_cb'[adder[b].chan]
          <5>1. on_recv_cb[adder[b].chan]
            BY <4>2
          <5>2. adder[b].chan \in Chan
            BY <2>6, <4>2
          <5>. QED BY ONLY <2>3, <5>1, <5>2, Zenon
        <4>. QED BY <2>1, <4>1, <4>2
      <3>. QED BY <3>1, <3>2
    <2>. QED BY <2>5, <2>7
  <1>3. CASE ReadTail(a)
    <2>1. adder[a].step = 2 /\ made' = made /\ next' = next /\ on_recv_cb' = on_recv_cb
      BY <1>3, Where DEF ReadTail, chans, list
    <2>2. \A b \in Adder : b # a => adder'[b] = adder[b]
      BY <1>3 DEF ReadTail, TypeOK
    <2>3. adder'[a].step = 3 /\ adder'[a].tail = tail /\ adder'[a].chan = adder[a].chan
      BY <1>3, <2>1 DEF ReadTail, TypeOK
    <2>. QED BY <1>0, <2>1, <2>2, <2>3 DEF ListedReceives, TypeOK
  <1>4. CASE LinkNext(a)
    <2>1. adder[a].step = 3 /\ made' = made /\ on_recv_cb' = on_recv_cb
      BY <1>4, Where DEF LinkNext, chans
    <2>2. \A b \in Adder : /\ b # a => adder'[b] = adder[b]
                           /\ adder'[a].step = 4 /\ adder'[a].chan = adder[a].chan
                           /\ adder'[a].tail = adder[a].tail
      BY <1>1, <1>4, <2>1 DEF LinkNext
    <2>3. \A c \in Chan \cup {End} :
            next'[c] = IF c = adder[a].tail THEN adder[a].chan ELSE next[c]
      BY <1>4 DEF LinkNext, TypeOK
    <2>4. ListedReceives'
      BY <2>1, <2>3 DEF ListedReceives
    <2>. QED BY <1>0, <2>1, <2>2, <2>4
  <1>5. CASE LinkTail(a)
    <2>1. adder[a].step = 4 /\ made' = made /\ next' = next /\ on_recv_cb' = on_recv_cb
      BY <1>5, Where DEF LinkTail, chans
    <2>2. \A b \in Adder : (b # a => adder'[b] = adder[b]) /\ adder'[a].step = 0
      BY <1>1, <1>5, <2>1 DEF LinkTail
    <2>. QED BY <1>0, <2>1, <2>2 DEF ListedReceives
  <1>. QED BY <1>2, <1>3, <1>4, <1>5 DEF Add

LEMMA ReceiverNext == NodeInv /\ [Next]_vars => ReceiverInv'
  <1>. SUFFICES ASSUME NodeInv, [Next]_vars PROVE ReceiverInv'
    OBVIOUS
  <1>. USE DEF chans, list, loop
  <1>0. ReceiverInv /\ made \in Nat
    BY Constants DEF NodeInv, TypeOK
  <1>1. CASE Connect
    BY <1>1, ReceiverNew DEF Connect, Create
  <1>2. CASE start_servers
    BY <1>2, ReceiverNew DEF start_servers, Create
  <1>3. CASE accept_loop
    <2>1. CASE Dies
      BY <1>0, <2>1, ReceiverFrame DEF Dies
    <2>2. CASE Create("child", None) /\ AddAccepted
               /\ UNCHANGED <<proc, up, on_recv_cb, list, loop, overlap>>
      BY <2>2, ReceiverNew DEF Create, AddAccepted
    <2>. QED BY <1>3, <2>1, <2>2 DEF accept_loop
  <1>4. ASSUME NEW a \in Adder, Add(a) PROVE ReceiverInv'
    BY <1>4, ReceiverAdd
  <1>5. CASE \/ update \/ ConnectFails \/ Scanned \/ ServerFails \/ ServerRuns
             \/ RouterUpdate \/ sig_exit \/ BrokenPipe \/ UNCHANGED vars
    BY <1>0, <1>5, ReceiverFrame
    DEF update, ConnectFails, Scanned, ServerFails, ServerRuns, RouterUpdate, sig_exit,
        BrokenPipe, Dies, vars
  <1>6. ASSUME NEW c \in Chan, Receive(c) \/ Close(c) \/ ChildLeaves(c) PROVE ReceiverInv'
    BY <1>0, <1>6, ReceiverFrame DEF Receive, Dies, Close, ChildLeaves
  <1>7. ASSUME NEW h \in Host, HostUp(h) \/ HostDown(h) PROVE ReceiverInv'
    BY <1>0, <1>7, ReceiverFrame DEF HostUp, HostDown
  <1>. QED BY <1>1, <1>2, <1>3, <1>4, <1>5, <1>6, <1>7 DEF Next, Main

LEMMA InitReceiver == Init => ReceiverInv
  BY DEF Init, ReceiverInv, ListedReceives, Idle

\* The variables of a process keep their types.
THEOREM TypeCorrect == Spec => []TypeOK
  BY InitType, NextType, PTL DEF Spec

\* A channel is behind set_receiver before any other thread can reach it through
\* the list, whatever the two threads that add channels do.
THEOREM ReceiverBeforeLink == Spec => []ListedReceives
  <1>1. Init => NodeInv
    BY InitType, InitReceiver DEF NodeInv
  <1>2. NodeInv /\ [Next]_vars => NodeInv'
    BY NextType, ReceiverNext DEF NodeInv
  <1>3. NodeInv => ListedReceives
    BY DEF NodeInv, ReceiverInv
  <1>. QED BY <1>1, <1>2, <1>3, PTL DEF Spec
---------------------------------------------------------------------------
(* No host has two connections.                                            *)

LEMMA ParentFrame ==
  ASSUME ParentInv, UNCHANGED <<made, kind, host, main, tried, is_client_connected>>,
         UNCHANGED adder["main"]
  PROVE  ParentInv'
  BY DEF ParentInv, OneLinkPerHost, Parents

\* A new channel that is no parent leaves the parents as they are.
LEMMA OtherNew ==
  ASSUME NodeInv, NEW k \in {"child", "server"}, Create(k, None)
  PROVE  /\ Parents' = Parents
         /\ \A c \in 1..made : kind'[c] = kind[c] /\ host'[c] = host[c]
  BY Constants DEF NodeInv, TypeOK, Create, Parents, Chan

LEMMA InitParent == Init => ParentInv
  BY DEF Init, ParentInv, OneLinkPerHost, Parents

LEMMA ParentNext == NodeInv /\ ParentInv /\ [Next]_vars => ParentInv'
  <1>. SUFFICES ASSUME NodeInv, ParentInv, [Next]_vars PROVE ParentInv'
    OBVIOUS
  <1>. USE DEF chans, list, loop
  <1>0. /\ made \in Nat /\ tried \in 0..Len(Hosts) /\ Len(Hosts) \in Nat
        /\ adder["main"].step \in 0..4
        /\ adder["main"].step # 0 => adder["main"].chan \in 1..made
        /\ At("main") = "idle" => adder["main"].step = 0
    BY Where, Constants DEF NodeInv, TypeOK, ReceiverInv
  <1>1. CASE update
    <2>1. ~is_client_connected => Parents = {}
      BY <1>1 DEF update, ToScan, ParentInv
    <2>2. Parents' = Parents /\ host' = host /\ kind' = kind /\ adder' = adder
          /\ is_client_connected' = is_client_connected
      BY <1>1 DEF update, Parents
    <2>3. CASE is_client_connected
      BY <1>1, <2>2, <2>3 DEF update, ToScan, ParentInv, OneLinkPerHost
    <2>4. CASE ~is_client_connected
      BY <2>1, <2>2, <2>4 DEF ParentInv, OneLinkPerHost
    <2>. QED BY <2>3, <2>4
  <1>2. CASE Connect
    <2>0. /\ main = "scan" /\ main' = "scan" /\ tried < Len(Hosts) /\ tried' = tried + 1
          /\ Create("parent", Hosts[tried + 1])
      BY <1>2 DEF Connect, Scanning
    <2>1. made + 1 \in Chan
      BY <1>0, <2>0, Constants DEF Create, Chan
    <2>2. /\ \A c \in 1..made : kind'[c] = kind[c] /\ host'[c] = host[c]
          /\ kind'[made + 1] = "parent" /\ host'[made + 1] = Hosts[tried + 1]
      BY <1>0, <2>0, <2>1 DEF Create, NodeInv, TypeOK, Chan
    <2>3. Parents' = Parents \cup {made + 1}
      BY <1>0, <2>0, <2>2 DEF Create, Parents
    <2>4. \A c \in Parents : host'[c] = host[c] /\ \E i \in 1..tried : host[c] = Hosts[i]
      BY <2>0, <2>2 DEF ParentInv, Parents
    <2>5. \A c \in Parents : host'[c] # host'[made + 1]
      BY <1>0, <2>0, <2>2, <2>4, NodeAssumption
    <2>6. OneLinkPerHost'
      BY <2>3, <2>4, <2>5 DEF OneLinkPerHost, ParentInv
    <2>7. \A c \in Parents' : \E i \in 1..tried' : host'[c] = Hosts[i]
      BY <1>0, <2>0, <2>2, <2>3, <2>4
    <2>8. adder'["main"] = Adding(made + 1)
      BY <1>2 DEF Connect, NodeInv, TypeOK
    <2>9. adder'["main"].step # 0 /\ kind'[adder'["main"].chan] = "parent"
      BY <2>2, <2>8 DEF Adding
    <2>. QED BY <2>0, <2>6, <2>7, <2>9 DEF ParentInv
  <1>3. CASE ConnectFails
    <2>1. /\ Parents' = Parents /\ host' = host /\ kind' = kind /\ adder' = adder
          /\ is_client_connected' = is_client_connected
          /\ main = "scan" /\ main' = "scan" /\ tried' = tried + 1
      BY <1>3 DEF ConnectFails, Scanning, TryNext, Parents
    <2>. QED BY <1>0, <2>1 DEF ParentInv, OneLinkPerHost
  <1>4. CASE Scanned
    <2>1. Parents' = Parents /\ host' = host /\ main' = "server" /\ adder["main"].step = 0
          /\ is_client_connected' = is_client_connected
      BY <1>0, <1>4 DEF Scanned, Scanning, Parents
    <2>. QED BY <2>1 DEF ParentInv, OneLinkPerHost
  <1>5. CASE start_servers
    <2>1. /\ Parents' = Parents /\ \A c \in Parents : host'[c] = host[c]
          /\ main = "server" /\ main' = "server" /\ is_client_connected' = is_client_connected
      BY <1>5, OtherNew DEF start_servers, Parents
    <2>. QED BY <2>1 DEF ParentInv, OneLinkPerHost
  <1>6. CASE ServerRuns \/ RouterUpdate
    <2>1. /\ Parents' = Parents /\ host' = host /\ main # "scan" /\ main' # "scan"
          /\ is_client_connected' = is_client_connected
      BY <1>6 DEF ServerRuns, RouterUpdate, Parents
    <2>. QED BY <2>1 DEF ParentInv, OneLinkPerHost
  <1>7. CASE Add("main")
    <2>1. /\ Parents' = Parents /\ host' = host /\ kind' = kind /\ main' = main
          /\ tried' = tried
      BY <1>7 DEF Add, SetReceiver, ReadTail, LinkNext, LinkTail, Parents
    <2>2. adder["main"].step # 0
      BY <1>0, <1>7, Where DEF Add, SetReceiver, ReadTail, LinkNext, LinkTail, NodeInv
    <2>3. CASE Step("main") /\ Return("main") /\ Done("main")
      <3>1. is_client_connected'
               = (is_client_connected \/ kind[adder["main"].chan] = "parent")
        BY <2>3 DEF Return
      <3>. QED BY <2>1, <3>1 DEF ParentInv, OneLinkPerHost
    <2>4. CASE /\ adder'["main"].step # 0 /\ adder'["main"].chan = adder["main"].chan
               /\ is_client_connected' = is_client_connected
      BY <2>1, <2>4 DEF ParentInv, OneLinkPerHost
    <2>5. CASE ReadTail("main")
      <3>1. adder["main"].step = 2
        BY <2>5, Where DEF ReadTail, NodeInv
      <3>2. adder'["main"].step # 0 /\ adder'["main"].chan = adder["main"].chan
        BY <2>5, <3>1 DEF ReadTail, NodeInv, TypeOK
      <3>. QED BY <2>4, <2>5, <3>2 DEF ReadTail
    <2>6. CASE Step("main") /\ ~Done("main") /\ is_client_connected' = is_client_connected
      <3>1. adder'["main"] = AtNext("main")
        BY <2>6 DEF Step, NodeInv, TypeOK
      <3>. QED BY <1>0, <2>4, <2>6, <3>1 DEF AtNext
    <2>7. CASE LinkNext("main")
      BY <2>6, <2>7, Where, Constants DEF LinkNext, Done, NodeInv
    <2>. QED BY <1>7, <2>3, <2>5, <2>6, <2>7 DEF Add, SetReceiver, LinkTail, Return
  <1>8. CASE accept_loop
    <2>1. CASE Dies
      BY <2>1, ParentFrame DEF Dies
    <2>2. CASE Create("child", None) /\ AddAccepted
               /\ UNCHANGED <<proc, up, on_recv_cb, list, loop, overlap>>
      <3>1. /\ Parents' = Parents
            /\ \A c \in 1..made : kind'[c] = kind[c] /\ host'[c] = host[c]
        BY <2>2, OtherNew
      <3>2. adder'["main"] = adder["main"]
        BY <2>2 DEF AddAccepted, NodeInv, TypeOK
      <3>3. \A c \in Parents : host'[c] = host[c]
        BY <3>1 DEF Parents
      <3>. QED BY <1>0, <2>2, <3>1, <3>2, <3>3 DEF ParentInv, OneLinkPerHost
    <2>. QED BY <1>8, <2>1, <2>2 DEF accept_loop
  <1>9. CASE Add("accept")
    <2>1. adder'["main"] = adder["main"]
      BY <1>9 DEF Add, SetReceiver, ReadTail, LinkNext, LinkTail, Step, NodeInv, TypeOK
    <2>. QED BY <1>9, <2>1, ParentFrame
         DEF Add, SetReceiver, ReadTail, LinkNext, LinkTail, Return
  <1>10. CASE ServerFails \/ sig_exit \/ BrokenPipe \/ UNCHANGED vars
    BY <1>10, ParentFrame DEF ServerFails, sig_exit, BrokenPipe, Dies, vars
  <1>11. ASSUME NEW c \in Chan, Receive(c) \/ Close(c) \/ ChildLeaves(c) PROVE ParentInv'
    BY <1>11, ParentFrame DEF Receive, Dies, Close, ChildLeaves
  <1>12. ASSUME NEW h \in Host, HostUp(h) \/ HostDown(h) PROVE ParentInv'
    BY <1>12, ParentFrame DEF HostUp, HostDown
  <1>. QED BY <1>1, <1>2, <1>3, <1>4, <1>5, <1>6, <1>7, <1>8, <1>9, <1>10, <1>11, <1>12
       DEF Next, Main

\* No host of the list gets two connections of the process, however many scans
\* it takes and whatever the accept thread does meanwhile.
THEOREM OneLink == Spec => []OneLinkPerHost
  <1>1. Init => NodeInv /\ ParentInv
    BY InitType, InitReceiver, InitParent DEF NodeInv
  <1>2. NodeInv /\ ParentInv /\ [Next]_vars => NodeInv' /\ ParentInv'
    BY NextType, ReceiverNext, ParentNext DEF NodeInv
  <1>3. ParentInv => OneLinkPerHost
    BY DEF ParentInv
  <1>. QED BY <1>1, <1>2, <1>3, PTL DEF Spec
---------------------------------------------------------------------------
(* A process without parents stays without.                                *)

LEMMA OrphanedNext == NodeInv /\ Orphaned /\ [Next]_vars => Orphaned'
  <1>. SUFFICES ASSUME NodeInv, Orphaned, [Next]_vars PROVE Orphaned'
    OBVIOUS
  <1>. USE DEF chans, list, loop
  \* Only Create opens a socket, and only a scan makes a parent.
  <1>0. ASSUME is_client_connected', main' # "scan", Parents' = Parents,
               \A c \in Parents : sock'[c] = "open" => sock[c] = "open"
        PROVE  Orphaned'
    BY <1>0 DEF Orphaned
  <1>1. ASSUME NEW k \in {"child", "server"}, Create(k, None)
        PROVE  Parents' = Parents /\ \A c \in Parents : sock'[c] = sock[c]
    <2>1. Parents' = Parents
      BY <1>1, OtherNew
    <2>2. \A c \in Parents : c # made + 1 /\ c \in Chan
      BY Constants DEF NodeInv, TypeOK, Parents, Chan
    <2>. QED BY <1>1, <2>1, <2>2 DEF Create, NodeInv, TypeOK
  <1>2. CASE update
    BY <1>2, <1>0 DEF update, ToScan, Orphaned, Parents
  <1>3. CASE Connect \/ ConnectFails \/ Scanned
    BY <1>3 DEF Connect, ConnectFails, Scanned, Scanning, Orphaned
  <1>4. CASE start_servers
    BY <1>4, <1>1, <1>0 DEF start_servers, Orphaned
  <1>5. CASE ServerFails \/ ServerRuns \/ RouterUpdate
    BY <1>5, <1>0 DEF ServerFails, ServerRuns, RouterUpdate, Orphaned, Parents
  <1>6. CASE sig_exit
    <2>1. \A c \in Parents : c \in Chan
      BY Constants DEF NodeInv, TypeOK, Parents, Chan
    <2>. QED BY <1>6, <1>0, <2>1 DEF sig_exit, Orphaned, Parents
  <1>7. ASSUME NEW a \in Adder, Add(a) PROVE Orphaned'
    BY <1>7, <1>0
       DEF Add, SetReceiver, ReadTail, LinkNext, LinkTail, Return, Orphaned, Parents
  <1>8. CASE accept_loop
    <2>1. CASE Dies
      BY <2>1, <1>0 DEF Dies, Orphaned, Parents
    <2>2. CASE Create("child", None) /\ UNCHANGED loop
      BY <2>2, <1>1, <1>0 DEF Orphaned
    <2>. QED BY <1>8, <2>1, <2>2 DEF accept_loop
  <1>9. ASSUME NEW c \in Chan, Receive(c) \/ Close(c) \/ ChildLeaves(c) PROVE Orphaned'
    <2>1. \A d \in Parents : d \in Chan
      BY Constants DEF NodeInv, TypeOK, Parents, Chan
    <2>2. CASE Receive(c)
      BY <2>2, <1>0 DEF Receive, Dies, Orphaned, Parents
    <2>3. CASE Close(c)
      BY <2>1, <2>3, <1>0 DEF Close, Orphaned, Parents, NodeInv, TypeOK
    <2>4. CASE ChildLeaves(c)
      BY <2>1, <2>4, <1>0 DEF ChildLeaves, Lost, Orphaned, Parents
    <2>. QED BY <1>9, <2>2, <2>3, <2>4
  <1>10. ASSUME NEW h \in Host, HostUp(h) \/ HostDown(h) PROVE Orphaned'
    <2>1. \A d \in Parents : d \in Chan
      BY Constants DEF NodeInv, TypeOK, Parents, Chan
    <2>. QED BY <2>1, <1>10, <1>0 DEF HostUp, HostDown, Lost, Orphaned, Parents
  <1>11. CASE UNCHANGED vars
    BY <1>11, <1>0 DEF vars, Orphaned, Parents
  <1>12. CASE BrokenPipe
    BY <1>12, <1>0 DEF BrokenPipe, Dies, Orphaned, Parents
  <1>. QED BY <1>2, <1>3, <1>4, <1>5, <1>6, <1>7, <1>8, <1>9, <1>10, <1>11, <1>12
       DEF Next, Main, Adder

\* Once the parents of a finished scan are lost the process never has one again,
\* for any list of hosts and any number of children.
THEOREM OrphanedForGood == Spec => NoParentAgain
  <1>1. Init => NodeInv
    BY InitType, InitReceiver DEF NodeInv
  <1>2. NodeInv /\ [Next]_vars => NodeInv'
    BY NextType, ReceiverNext DEF NodeInv
  <1>3. NodeInv /\ [Next]_vars => [Orphaned => Orphaned']_vars
    BY OrphanedNext
  <1>. QED BY <1>1, <1>2, <1>3, PTL DEF Spec, NoParentAgain

---------------------------------------------------------------------------
(* Who was added is listed.                                                *)

\* The value of a loop of n rounds from End on, next[x] being what comes of x.
Follows(n, f) ==
  /\ f \in [0..n -> Chan \cup {End}] /\ f[0] = End
  /\ \A k \in 1..n : f[k] = next[f[k - 1]]

\* A set of numbers has a first one.
LEMMA FirstExists ==
  ASSUME NEW F \in SUBSET Nat, F # {}
  PROVE  \E k \in F : \A l \in F : k <= l
  <1>1. PICK k \in F : \A l \in F : ~(<<l, k>> \in OpToRel(<, Nat))
    BY WFMin, NatLessThanWellFounded, Zenon
  <1>2. \A l \in F : ~(l < k)
    BY <1>1 DEF OpToRel
  <1>. QED BY <1>2

\* What holds of 0, and of k if it holds of k - 1, holds up to n.
LEMMA Reaches ==
  ASSUME NEW n \in Nat, NEW S, 0 \in S, \A k \in 1..n : k - 1 \in S => k \in S
  PROVE  \A k \in 0..n : k \in S
  <1>. DEFINE F == {k \in 0..n : k \notin S}
  <1>. SUFFICES ASSUME F # {} PROVE FALSE
    OBVIOUS
  <1>1. PICK k \in F : \A l \in F : k <= l
    <2>1. F \in SUBSET Nat
      OBVIOUS
    <2>. HIDE DEF F
    <2>. QED BY <2>1, FirstExists
  <1>2. k \in 1..n /\ k - 1 \in 0..n /\ ~(k <= k - 1)
    BY <1>1
  <1>3. k - 1 \in S
    BY <1>1, <1>2
  <1>. QED BY <1>1, <1>2, <1>3

\* The list can be walked for any number of steps: it has no element without a
\* successor, End comes after the last one.
LEMMA WalkExists ==
  ASSUME TypeOK, NEW n \in Nat
  PROVE  \E f : Follows(n, f)
  <1>. DEFINE S == {m \in 0..n : \E f : Follows(m, f)}
  <1>1. 0 \in S
    <2>1. PICK f : f = [k \in 0..0 |-> End]
      OBVIOUS
    <2>2. Follows(0, f)
      BY <2>1 DEF Follows
    <2>. QED BY <2>2
  <1>2. ASSUME NEW m \in 1..n, m - 1 \in S PROVE m \in S
    <2>1. PICK f : Follows(m - 1, f)
      BY <1>2
    <2>2. PICK h : h = [k \in 0..m |-> IF k = m THEN next[f[m - 1]] ELSE f[k]]
      OBVIOUS
    <2>3. /\ f[m - 1] \in Chan \cup {End} /\ next[f[m - 1]] \in Chan \cup {End}
          /\ h[m] = next[f[m - 1]] /\ h[m - 1] = f[m - 1]
      BY <2>1, <2>2 DEF Follows, TypeOK
    <2>4. h \in [0..m -> Chan \cup {End}]
      BY <2>1, <2>2, <2>3 DEF Follows
    <2>5. ASSUME NEW k \in 1..m PROVE h[k] = next[h[k - 1]]
      <3>1. CASE k = m
        BY <2>3, <3>1
      <3>2. CASE k # m
        <4>1. k \in 1..m - 1 /\ k \in 0..m /\ k - 1 \in 0..m /\ k - 1 # m
          BY <3>2
        <4>2. h[k] = f[k] /\ h[k - 1] = f[k - 1]
          BY <2>2, <4>1, <3>2
        <4>. QED BY <2>1, <4>1, <4>2 DEF Follows
      <3>. QED BY <3>1, <3>2
    <2>6. h[0] = End
      BY <2>1, <2>2 DEF Follows
    <2>7. Follows(m, h)
      BY <2>4, <2>5, <2>6 DEF Follows
    <2>. QED BY <2>7
  <1>3. n \in S
    <2>. HIDE DEF S
    <2>1. \A m \in 0..n : m \in S
      BY <1>1, <1>2, Reaches
    <2>. QED BY <2>1
  <1>. QED BY <1>3

\* What a loop over channels visits is what following next visits.
LEMMA ChannelsAre ==
  ASSUME TypeOK
  PROVE  \E f : /\ Follows(MaxChan, f)
                /\ channels = {f[k] : k \in 1..MaxChan} \ {End}
  <1>. DEFINE Is(g) == g = [k \in 0..MaxChan |-> IF k = 0 THEN End ELSE next[g[k - 1]]]
              walk == CHOOSE g : Is(g)
  <1>1. PICK f : Follows(MaxChan, f)
    BY WalkExists, Constants
  <1>2. Is(f)
    <2>1. PICK h : h = [k \in 0..MaxChan |-> IF k = 0 THEN End ELSE next[f[k - 1]]]
      OBVIOUS
    <2>2. ASSUME NEW k \in 0..MaxChan PROVE f[k] = h[k]
      <3>1. k = 0 \/ k \in 1..MaxChan
        BY Constants
      <3>. QED BY <1>1, <2>1, <3>1 DEF Follows
    <2>3. f = h
      BY <1>1, <2>1, <2>2 DEF Follows
    <2>. QED BY <2>1, <2>3
  <1>3. Is(walk)
    <2>. HIDE DEF Is
    <2>. QED BY <1>2, Zenon
  <1>4. channels = {walk[k] : k \in 1..MaxChan} \ {End}
    BY DEF channels
  <1>5. PICK g : g = walk
    OBVIOUS
  <1>. HIDE DEF walk
  <1>6. g = [k \in 0..MaxChan |-> IF k = 0 THEN End ELSE next[g[k - 1]]]
    BY <1>3, <1>5
  <1>7. ASSUME NEW k \in 0..MaxChan PROVE g[k] = IF k = 0 THEN End ELSE next[g[k - 1]]
    BY <1>6
  <1>8. g[0] = End /\ \A k \in 1..MaxChan : g[k] = next[g[k - 1]]
    <2>1. 0 \in 0..MaxChan /\ \A k \in 1..MaxChan : k \in 0..MaxChan /\ k # 0
      BY Constants
    <2>. QED BY <1>7, <2>1
  <1>9. ASSUME NEW k \in 0..MaxChan PROVE g[k] = f[k]
    <2>. DEFINE S == {l \in 0..MaxChan : g[l] = f[l]}
    <2>1. 0 \in S
      BY <1>1, <1>8, Constants DEF Follows
    <2>2. ASSUME NEW l \in 1..MaxChan, l - 1 \in S PROVE l \in S
      BY <1>1, <1>8, <2>2 DEF Follows
    <2>3. k \in S
      <3>. HIDE DEF S
      <3>1. \A l \in 0..MaxChan : l \in S
        BY <2>1, <2>2, Reaches, Constants
      <3>. QED BY <3>1
    <2>. QED BY <2>3
  <1>10. \A k \in 1..MaxChan : walk[k] = f[k]
    BY <1>5, <1>9, Constants
  <1>. QED BY <1>1, <1>4, <1>10

LEMMA InitList == Init => ListInv
  <1>. SUFFICES ASSUME Init PROVE ListInv
    OBVIOUS
  <1>1. PICK s : s = [i \in 0..0 |-> End]
    OBVIOUS
  <1>2. \A a \in Adder : adder[a].step = 0
    BY DEF Init, Idle
  <1>3. Chain(s, 0)
    BY <1>1, <1>2 DEF Init, Chain, Pending
  <1>4. Alone
    BY <1>2 DEF Alone
  <1>. QED BY <1>3, <1>4 DEF ListInv

LEMMA ListFrame ==
  ASSUME ListInv, UNCHANGED <<made, next, tail, adder, overlap>>
  PROVE  ListInv'
  <1>1. CASE overlap
    BY <1>1 DEF ListInv
  <1>2. CASE ~overlap
    <2>1. PICK s, n : Chain(s, n)
      BY <1>2 DEF ListInv
    <2>2. Chain(s, n)'
      BY <2>1 DEF Chain, Pending
    <2>3. Alone'
      BY <1>2 DEF ListInv, Alone
    <2>. QED BY <2>2, <2>3 DEF ListInv
  <1>. QED BY <1>1, <1>2

\* A new channel is in no chain and in no other thread's hands.
LEMMA ListNew ==
  ASSUME NodeInv, ListInv, NEW a \in Adder, adder[a].step = 0, made' = made + 1,
         adder' = [adder EXCEPT ![a] = Adding(made + 1)],
         UNCHANGED <<next, tail, overlap>>
  PROVE  ListInv'
  <1>. SUFFICES ASSUME ~overlap PROVE ListInv'
    BY DEF ListInv
  <1>0. /\ made \in Nat
        /\ \A b \in Adder : adder[b].step # 0 => adder[b].chan \in 1..made
    BY Constants DEF NodeInv, TypeOK, ReceiverInv
  <1>1. /\ \A b \in Adder : b # a => adder'[b] = adder[b]
        /\ adder'[a].step = 1 /\ adder'[a].chan = made + 1
    BY DEF NodeInv, TypeOK, Adding
  <1>2. PICK s, n : Chain(s, n)
    BY DEF ListInv
  <1>3. n + Pending("main")' + Pending("accept")' = made'
    BY <1>0, <1>1, <1>2 DEF Chain, Pending
  <1>4. ASSUME NEW c \in 1..made'
        PROVE  \/ \E i \in 1..n : s[i] = c
               \/ \E b \in Adder : adder'[b].step # 0 /\ adder'[b].chan = c
    <2>1. CASE c = made + 1
      BY <1>1, <2>1
    <2>2. CASE c # made + 1
      <3>1. c \in 1..made
        BY <1>0, <2>2
      <3>. QED BY <1>1, <1>2, <3>1 DEF Chain
    <2>. QED BY <2>1, <2>2
  <1>5. ASSUME NEW b \in Adder, adder'[b].step # 0, NEW i \in 1..n
        PROVE  s[i] # adder'[b].chan
    <2>1. CASE b = a
      <3>1. s[i] \in 1..made
        BY <1>2 DEF Chain
      <3>. QED BY <1>0, <1>1, <2>1, <3>1
    <2>2. CASE b # a
      BY <1>1, <1>2, <1>5, <2>2 DEF Chain
    <2>. QED BY <2>1, <2>2
  <1>6. Chain(s, n)'
    <2>1. /\ n \in Nat /\ s \in [0..n -> Chan \cup {End}]
          /\ s[0] = End /\ s[n] = tail'
          /\ \A i, j \in 0..n : s[i] = s[j] => i = j
      BY <1>2 DEF Chain
    <2>2. \A i \in 1..n : next'[s[i - 1]] = s[i]
      BY <1>2 DEF Chain
    <2>3. \A i \in 1..n : s[i] \in 1..made'
      BY <1>0, <1>2 DEF Chain
    <2>. QED BY <1>3, <1>4, <1>5, <2>1, <2>2, <2>3 DEF Chain
  <1>7. Alone'
    BY <1>0, <1>1 DEF ListInv, Alone
  <1>. QED BY <1>6, <1>7 DEF ListInv

\* What a step of add_channel in thread a does to the threads.
LEMMA StepIs ==
  ASSUME NodeInv, NEW a \in Adder, Step(a), At(a) # "idle"
  PROVE  /\ \A b \in Adder : b # a => adder'[b] = adder[b]
         /\ adder[a].step \in 1..4
         /\ adder'[a].step = IF adder[a].step = 4 THEN 0 ELSE adder[a].step + 1
         /\ adder[a].step # 4 => /\ adder'[a].chan = adder[a].chan
                                 /\ adder'[a].tail = adder[a].tail
  <1>1. \A b \in Adder : b # a => adder'[b] = adder[b]
    BY DEF Step, NodeInv, TypeOK
  <1>2. adder[a].step \in 1..4
    BY Where DEF At, NodeInv
  <1>3. CASE adder[a].step = 4
    <2>1. adder'[a] = Idle
      BY <1>3, Constants DEF Step, Done, NodeInv, TypeOK
    <2>. QED BY <1>1, <1>2, <1>3, <2>1 DEF Idle
  <1>4. CASE adder[a].step # 4
    <2>1. adder'[a] = AtNext(a)
      BY <1>4, Constants DEF Step, Done, NodeInv, TypeOK
    <2>. QED BY <1>1, <1>2, <1>4, <2>1 DEF AtNext
  <1>. QED BY <1>3, <1>4

\* A thread that only goes on, or reads the tail, leaves the chain as it is.
LEMMA SameChain ==
  ASSUME NEW a \in Adder, NEW s, NEW n, Chain(s, n), UNCHANGED <<made, next, tail>>,
         \A b \in Adder : b # a => adder'[b] = adder[b],
         adder[a].step # 0, adder'[a].step # 0, adder'[a].chan = adder[a].chan
  PROVE  Chain(s, n)'
  <1>1. \A b \in Adder : /\ adder'[b].step # 0 <=> adder[b].step # 0
                         /\ adder'[b].chan = adder[b].chan
    OBVIOUS
  <1>2. Pending("main")' = Pending("main") /\ Pending("accept")' = Pending("accept")
    BY <1>1 DEF Pending
  <1>. QED BY <1>1, <1>2 DEF Chain

\* set_receiver, and the tail that is read: if the other thread is behind its own
\* reading of it, the two overlap.
LEMMA ListSet ==
  ASSUME NodeInv, ListInv, NEW a \in Adder, SetReceiver(a)
  PROVE  ListInv'
  <1>. SUFFICES ASSUME ~overlap' PROVE ListInv'
    BY DEF ListInv
  <1>1. ~overlap /\ UNCHANGED <<made, next, tail>> /\ At(a) = "set" /\ Step(a)
    BY DEF SetReceiver, chans, list
  <1>2. PICK s, n : Chain(s, n)
    BY <1>1 DEF ListInv
  <1>3. adder[a].step = 1
    BY <1>1, Where DEF NodeInv
  <1>4. /\ \A b \in Adder : b # a => adder'[b] = adder[b]
        /\ adder'[a].step = 2 /\ adder'[a].chan = adder[a].chan
    BY <1>1, <1>3, StepIs
  <1>5. Chain(s, n)'
    BY <1>1, <1>2, <1>3, <1>4, SameChain
  <1>6. Alone'
    BY <1>1, <1>3, <1>4 DEF ListInv, Alone
  <1>. QED BY <1>5, <1>6 DEF ListInv

LEMMA ListRead ==
  ASSUME NodeInv, ListInv, NEW a \in Adder, ReadTail(a)
  PROVE  ListInv'
  <1>. SUFFICES ASSUME ~overlap' PROVE ListInv'
    BY DEF ListInv
  <1>1. /\ ~overlap /\ \A b \in Adder \ {a} : At(b) \notin {"next", "tail"}
        /\ UNCHANGED <<made, next, tail>> /\ At(a) = "read"
    BY DEF ReadTail, chans, list
  <1>2. PICK s, n : Chain(s, n)
    BY <1>1 DEF ListInv
  <1>3. adder[a].step = 2
    BY <1>1, Where DEF NodeInv
  <1>4. /\ \A b \in Adder : b # a => adder'[b] = adder[b]
        /\ adder'[a].step = 3 /\ adder'[a].chan = adder[a].chan /\ adder'[a].tail = tail
    BY <1>3 DEF ReadTail, NodeInv, TypeOK
  <1>5. \A b \in Adder : b # a => adder[b].step \notin {3, 4}
    BY <1>1, Constants DEF At
  <1>6. Chain(s, n)'
    BY <1>1, <1>2, <1>3, <1>4, SameChain
  <1>7. Alone'
    BY <1>1, <1>3, <1>4, <1>5 DEF ListInv, Alone
  <1>. QED BY <1>6, <1>7 DEF ListInv

\* The last element gets its successor: no other has the last one before it.
LEMMA ListLink ==
  ASSUME NodeInv, ListInv, NEW a \in Adder, LinkNext(a)
  PROVE  ListInv'
  <1>. SUFFICES ASSUME ~overlap' PROVE ListInv'
    BY DEF ListInv
  <1>1. /\ ~overlap /\ UNCHANGED <<made, tail>> /\ At(a) = "next" /\ Step(a)
        /\ next' = [next EXCEPT ![adder[a].tail] = adder[a].chan]
    BY DEF LinkNext, chans
  <1>2. PICK s, n : Chain(s, n)
    BY <1>1 DEF ListInv
  <1>3. adder[a].step = 3
    BY <1>1, Where DEF NodeInv
  <1>4. /\ \A b \in Adder : b # a => adder'[b] = adder[b]
        /\ adder'[a].step = 4 /\ adder'[a].chan = adder[a].chan
        /\ adder'[a].tail = adder[a].tail
    BY <1>1, <1>3, StepIs
  <1>5. adder[a].tail = tail /\ tail \in Chan \cup {End}
    BY <1>1, <1>3 DEF ListInv, Alone, NodeInv, TypeOK
  <1>6. ASSUME NEW i \in 1..n PROVE next'[s[i - 1]] = s[i]
    <2>1. n \in 0..n /\ i - 1 \in 0..n /\ i - 1 # n
      BY <1>2 DEF Chain
    <2>2. s[i - 1] # tail /\ s[i - 1] \in Chan \cup {End} /\ next[s[i - 1]] = s[i]
      BY <1>2, <2>1 DEF Chain
    <2>. QED BY <1>1, <1>5, <2>2 DEF NodeInv, TypeOK
  <1>7. Pending("main")' = Pending("main") /\ Pending("accept")' = Pending("accept")
    BY <1>3, <1>4 DEF Pending
  <1>8. \A b \in Adder : /\ adder'[b].step # 0 <=> adder[b].step # 0
                         /\ adder'[b].chan = adder[b].chan
    BY <1>3, <1>4
  <1>9. Chain(s, n)'
    BY <1>1, <1>2, <1>6, <1>7, <1>8 DEF Chain
  <1>10. next'[tail] = adder[a].chan
    BY <1>1, <1>5 DEF NodeInv, TypeOK
  <1>11. \A b \in Adder : b # a => adder[b].step \notin {3, 4}
    BY <1>1, <1>3 DEF ListInv, Alone
  <1>12. Alone'
    BY <1>1, <1>3, <1>4, <1>5, <1>8, <1>10, <1>11 DEF ListInv, Alone
  <1>. QED BY <1>9, <1>12 DEF ListInv

\* The chain gets longer by what was linked behind its last element.
LEMMA ListTail ==
  ASSUME NodeInv, ListInv, NEW a \in Adder, LinkTail(a)
  PROVE  ListInv'
  <1>. SUFFICES ASSUME ~overlap' PROVE ListInv'
    BY DEF ListInv
  <1>1. /\ ~overlap /\ UNCHANGED <<made, next>> /\ At(a) = "tail" /\ Step(a)
        /\ tail' = adder[a].chan
    BY DEF LinkTail, chans
  <1>2. PICK s, n : Chain(s, n)
    BY <1>1 DEF ListInv
  <1>3. adder[a].step = 4
    BY <1>1, Where DEF NodeInv
  <1>4. (\A b \in Adder : b # a => adder'[b] = adder[b]) /\ adder'[a].step = 0
    BY <1>1, <1>3, StepIs
  <1>5. adder[a].tail = tail /\ next[tail] = adder[a].chan
    BY <1>1, <1>3 DEF ListInv, Alone
  <1>6. PICK c : c = adder[a].chan
    OBVIOUS
  <1>7. c \in 1..made /\ c \in Chan /\ c # End
    BY <1>3, <1>6, Constants DEF NodeInv, ReceiverInv, TypeOK, Chan, End
  <1>8. n \in Nat /\ n \in 0..n /\ 0 \in 0..n
    BY <1>2 DEF Chain
  <1>9. PICK z : z = [i \in 0..n + 1 |-> IF i = n + 1 THEN c ELSE s[i]]
    OBVIOUS
  <1>10. /\ z[n + 1] = c /\ \A i \in 0..n : z[i] = s[i]
         /\ z \in [0..n + 1 -> Chan \cup {End}]
    BY <1>2, <1>7, <1>8, <1>9 DEF Chain
  <1>11. \A i \in 0..n : s[i] # c
    <2>1. ASSUME NEW i \in 0..n PROVE s[i] # c
      <3>1. i = 0 \/ i \in 1..n
        BY <1>8
      <3>2. s[0] = End /\ \A k \in 1..n : s[k] # adder[a].chan
        <4>1. s[0] = End
          BY <1>2 DEF Chain
        <4>2. \A b \in Adder : adder[b].step # 0 => \A k \in 1..n : s[k] # adder[b].chan
          BY <1>2 DEF Chain
        <4>3. adder[a].step # 0
          BY <1>3
        <4>. QED BY <4>1, <4>2, <4>3
      <3>3. CASE i = 0
        BY <1>7, <3>2, <3>3
      <3>4. CASE i \in 1..n
        BY <1>6, <3>2, <3>4
      <3>. QED BY <3>1, <3>3, <3>4
    <2>. QED BY <2>1
  <1>12. \A i \in 0..n + 1 : i = n + 1 \/ i \in 0..n
    BY <1>8
  <1>13. ASSUME NEW i \in 0..n + 1, NEW j \in 0..n + 1, z[i] = z[j] PROVE i = j
    BY <1>2, <1>10, <1>11, <1>12, <1>13 DEF Chain
  <1>14. ASSUME NEW i \in 1..n + 1 PROVE next[z[i - 1]] = z[i]
    <2>1. CASE i = n + 1
      <3>1. z[i - 1] = s[n]
        BY <1>8, <1>10, <2>1
      <3>. QED BY <1>2, <1>5, <1>6, <1>10, <2>1, <3>1 DEF Chain
    <2>2. CASE i # n + 1
      <3>1. i \in 1..n /\ i \in 0..n /\ i - 1 \in 0..n
        BY <1>8, <2>2
      <3>. QED BY <1>2, <1>10, <3>1 DEF Chain
    <2>. QED BY <2>1, <2>2
  <1>15. n + 1 + Pending("main")' + Pending("accept")' = made'
    BY <1>1, <1>2, <1>3, <1>4, <1>8 DEF Chain, Pending
  <1>16. \A i \in 1..n + 1 : (i = n + 1 \/ i \in 1..n) /\ i \in 0..n + 1
    BY <1>8
  <1>17. ASSUME NEW d \in 1..made'
         PROVE  \/ \E i \in 1..n + 1 : z[i] = d
                \/ \E b \in Adder : adder'[b].step # 0 /\ adder'[b].chan = d
    <2>1. CASE d = c
      <3>1. n + 1 \in 1..n + 1
        BY <1>8
      <3>. QED BY <1>10, <2>1, <3>1
    <2>2. CASE \E i \in 1..n : s[i] = d
      <3>1. PICK i \in 1..n : s[i] = d
        BY <2>2
      <3>2. i \in 1..n + 1 /\ i \in 0..n
        BY <1>8
      <3>. QED BY <1>10, <3>1, <3>2
    <2>3. CASE d # c /\ \E b \in Adder : adder[b].step # 0 /\ adder[b].chan = d
      BY <1>4, <1>6, <2>3
    <2>. QED BY <1>1, <1>2, <2>1, <2>2, <2>3 DEF Chain
  <1>18. \A i \in 1..n + 1 : z[i] \in 1..made
    <2>1. ASSUME NEW i \in 1..n + 1 PROVE z[i] \in 1..made
      <3>1. CASE i = n + 1
        BY <1>7, <1>10, <3>1
      <3>2. CASE i # n + 1
        <4>1. i \in 1..n /\ i \in 0..n
          BY <1>8, <3>2
        <4>. QED BY <1>2, <1>10, <4>1 DEF Chain
      <3>. QED BY <3>1, <3>2
    <2>. QED BY <2>1
  <1>19. ASSUME NEW b \in Adder, adder'[b].step # 0, NEW i \in 1..n + 1
         PROVE  z[i] # adder'[b].chan
    <2>1. b # a /\ adder'[b] = adder[b]
      BY <1>4, <1>19
    <2>2. CASE i = n + 1
      BY <1>1, <1>3, <1>6, <1>10, <1>19, <2>1, <2>2 DEF ListInv, Alone
    <2>3. CASE i # n + 1
      <3>1. i \in 1..n /\ i \in 0..n
        BY <1>8, <2>3
      <3>. QED BY <1>2, <1>10, <1>19, <2>1, <3>1 DEF Chain
    <2>. QED BY <2>2, <2>3
  <1>20. Chain(z, n + 1)'
    <2>1. n + 1 \in Nat /\ z[0] = End /\ z[n + 1] = tail'
      BY <1>1, <1>2, <1>6, <1>8, <1>10 DEF Chain
    <2>2. \A i, j \in 0..n + 1 : z[i] = z[j] => i = j
      BY <1>13
    <2>3. \A i \in 1..n + 1 : next'[z[i - 1]] = z[i] /\ z[i] \in 1..made'
      BY <1>1, <1>14, <1>18
    <2>4. \A d \in 1..made' :
            \/ \E i \in 1..n + 1 : z[i] = d
            \/ \E b \in Adder : adder'[b].step # 0 /\ adder'[b].chan = d
      BY <1>17
    <2>5. \A b \in Adder : adder'[b].step # 0 => \A i \in 1..n + 1 : z[i] # adder'[b].chan
      BY <1>19
    <2>6. z \in [0..n + 1 -> Chan \cup {End}]
      BY <1>10
    <2>7. PICK m : m = n + 1
      OBVIOUS
    <2>8. Chain(z, m)'
      BY ONLY <1>15, <2>1, <2>2, <2>3, <2>4, <2>5, <2>6, <2>7 DEF Chain
    <2>. QED BY <2>7, <2>8
  <1>21. \A b \in Adder : b # a => adder[b].step \notin {3, 4}
    BY <1>1, <1>3 DEF ListInv, Alone
  <1>22. Alone'
    BY <1>1, <1>4, <1>21 DEF ListInv, Alone
  <1>. QED BY <1>20, <1>22 DEF ListInv

LEMMA ListNext == NodeInv /\ ListInv /\ [Next]_vars => ListInv'
  <1>. SUFFICES ASSUME NodeInv, ListInv, [Next]_vars PROVE ListInv'
    OBVIOUS
  <1>. USE DEF chans, list, loop
  <1>0. \A a \in Adder : At(a) = "idle" => adder[a].step = 0
    BY Where DEF NodeInv
  <1>1. CASE Connect
    BY <1>0, <1>1, ListNew DEF Connect, Scanning, Create
  <1>2. CASE start_servers
    BY <1>0, <1>2, ListNew DEF start_servers, Create
  <1>3. CASE accept_loop
    <2>1. CASE Dies
      BY <2>1, ListFrame DEF Dies
    <2>2. CASE Create("child", None) /\ AddAccepted
               /\ UNCHANGED <<proc, up, on_recv_cb, list, loop, overlap>>
      BY <1>0, <1>3, <2>2, ListNew DEF accept_loop, Create, AddAccepted
    <2>. QED BY <1>3, <2>1, <2>2 DEF accept_loop
  <1>4. ASSUME NEW a \in Adder, Add(a) PROVE ListInv'
    BY <1>4, ListSet, ListRead, ListLink, ListTail DEF Add
  <1>5. CASE \/ update \/ ConnectFails \/ Scanned \/ ServerFails \/ ServerRuns
             \/ RouterUpdate \/ sig_exit \/ BrokenPipe \/ UNCHANGED vars
    BY <1>5, ListFrame
    DEF update, ConnectFails, Scanned, ServerFails, ServerRuns, RouterUpdate, sig_exit,
        BrokenPipe, Dies, vars
  <1>6. ASSUME NEW c \in Chan, Receive(c) \/ Close(c) \/ ChildLeaves(c) PROVE ListInv'
    BY <1>6, ListFrame DEF Receive, Dies, Close, ChildLeaves
  <1>7. ASSUME NEW h \in Host, HostUp(h) \/ HostDown(h) PROVE ListInv'
    BY <1>7, ListFrame DEF HostUp, HostDown
  <1>. QED BY <1>1, <1>2, <1>3, <1>4, <1>5, <1>6, <1>7 DEF Next, Main

\* The walk is long enough to come to every element of the chain.
LEMMA ChainIsWalked ==
  ASSUME TypeOK, NEW s, NEW n, Chain(s, n)
  PROVE  \A i \in 1..n : s[i] \in channels
  <1>1. PICK f : Follows(MaxChan, f) /\ channels = {f[k] : k \in 1..MaxChan} \ {End}
    BY ChannelsAre
  <1>2. n \in Nat /\ n <= MaxChan
    BY Constants DEF Chain, Pending, TypeOK
  <1>. DEFINE S == {i \in 0..n : f[i] = s[i]}
  <1>3. 0 \in S
    BY <1>1, <1>2 DEF Follows, Chain
  <1>4. ASSUME NEW i \in 1..n, i - 1 \in S PROVE i \in S
    <2>1. i \in 1..MaxChan /\ i \in 0..n
      BY <1>2, Constants
    <2>2. f[i - 1] = s[i - 1]
      BY <1>4
    <2>3. f[i] = next[f[i - 1]]
      BY <1>1, <2>1 DEF Follows
    <2>4. next[s[i - 1]] = s[i]
      BY DEF Chain
    <2>. QED BY <2>1, <2>2, <2>3, <2>4
  <1>5. \A i \in 0..n : i \in S
    <2>. HIDE DEF S
    <2>. QED BY <1>2, <1>3, <1>4, Reaches
  <1>6. ASSUME NEW i \in 1..n PROVE s[i] \in channels
    <2>1. i \in 0..n /\ i \in 1..MaxChan /\ i # 0 /\ 0 \in 0..n
      BY <1>2, Constants
    <2>2. f[i] = s[i] /\ s[i] # End
      BY <1>5, <2>1 DEF Chain
    <2>. QED BY <1>1, <2>1, <2>2
  <1>. QED BY <1>6

\* Every channel that was added is reached by the loops over the list, for any
\* number of hosts and children, as long as no two threads were in push_back at the
\* same time.
THEOREM AddedAreListed == Spec => []AddedIsListed
  <1>1. Init => NodeInv /\ ListInv
    BY InitType, InitReceiver, InitList DEF NodeInv
  <1>2. NodeInv /\ ListInv /\ [Next]_vars => NodeInv' /\ ListInv'
    BY NextType, ReceiverNext, ListNext DEF NodeInv
  <1>3. NodeInv /\ ListInv => AddedIsListed
    <2>. SUFFICES ASSUME NodeInv, ListInv, ~overlap, NEW c \in 1..made,
                         \A a \in Adder : adder[a].chan # c
                  PROVE  c \in channels
      BY DEF AddedIsListed
    <2>1. PICK s, n : Chain(s, n)
      BY DEF ListInv
    <2>2. PICK i \in 1..n : s[i] = c
      BY <2>1 DEF Chain
    <2>. QED BY <2>1, <2>2, ChainIsWalked DEF NodeInv
  <1>. QED BY <1>1, <1>2, <1>3, PTL DEF Spec
=============================================================================
