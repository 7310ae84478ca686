--------------------------- MODULE RemMesh_proofs ---------------------------
(***************************************************************************)
(* For every tree of devices, every set of protocols and every bound: what *)
(* devices know of the mesh is true, and ToRoot packets climb.             *)
(*                                                                         *)
(* MeshInv is the inductive invariant.  What a process records is only as  *)
(* true as the packets it is given, and those are made from what other     *)
(* processes did before: WrapperInv says it of every packet under way.     *)
(***************************************************************************)
EXTENDS RemMesh, TLAPS

\* What holds of a tuple in the queue of n, kind by kind.
PingInv(n, w) ==
  w.packet.type = "SendPing" =>
    ServerOf(w.packet.send_ping) = w.server /\ w.packet.hops = 0

PongInv(n, w) ==
  w.packet.type = "SendPong" =>
    /\ w.packet.recv_ping = ServerOf(w.packet.send_ping)
    /\ w.server = ServerOf(w.packet.send_pong)
    /\ w.packet.hops = 1

PingPongInv(n, w) ==
  w.packet.type = "PingPongRoot" =>
    /\ w.packet.recv_ping = ServerOf(w.packet.send_ping)
    /\ w.packet.recv_pong = ServerOf(w.packet.send_pong)
    /\ w.packet.hops = 2 + Depth[w.packet.send_ping.dev] - Depth[n] - 1

SendTopoInv(n, w) ==
  w.packet.type = "SendMeshTopo" =>
    /\ IsDescent(w.packet.path)
    /\ w.packet.hops = Len(w.packet.path) - 1
    /\ Linked(w.packet.path[Len(w.packet.path)], n)

ReturnTopoInv(n, w) ==
  w.packet.type = "ReturnMeshTopo" =>
    /\ IsDescent(w.packet.path)
    /\ w.packet.hops = 2 * (Len(w.packet.path) - 1) - Depth[n] - 1

WrapperInv(n, w) ==
  /\ w.server.dev = n
  /\ PingInv(n, w)
  /\ PongInv(n, w)
  /\ PingPongInv(n, w)
  /\ SendTopoInv(n, w)
  /\ ReturnTopoInv(n, w)

QueueInv == \A n \in Device : \A w \in packets_queue[n] : WrapperInv(n, w)

MeshInv == TypeOK /\ LinksReal /\ DistanceTrue /\ QueueInv

\* Sends whose packets are good ones where they arrive.
Sound(sends) ==
  \A s \in sends :
    /\ s[1] \in Client
    /\ s[2] \in Packet
    /\ WrapperInv(s[1].peer, [packet |-> s[2], server |-> ServerOf(s[1])])

---------------------------------------------------------------------------
(* Channels and packets.                                                   *)

LEMMA ClientType ==
  ASSUME NEW c \in Client
  PROVE  /\ c.dev \in Device /\ c.peer \in Device /\ c.proto \in Proto
         /\ Linked(c.dev, c.peer)
         /\ ServerOf(c) \in Server /\ ServerOf(c).dev = c.peer
         /\ c \in Channel
BY DEF Client, Server, ServerOf, Channel

LEMMA ServerType ==
  ASSUME NEW s \in Server
  PROVE  s.dev \in Device /\ s.proto \in Proto /\ s \in Channel
BY DEF Server, Channel

LEMMA ChannelDevice ==
  ASSUME NEW ch \in Channel
  PROVE  ch.dev \in Device
BY ClientType, ServerType DEF Channel

LEMMA PacketTypes ==
  ASSUME NEW p \in Packet
  PROVE  /\ p.type = "MakeClient" => p \in MakeClient
         /\ p.type = "SendPing" => p \in Ping
         /\ p.type = "SendPong" => p \in Pong
         /\ p.type = "PingPongRoot" => p \in PingPongRoot
         /\ p.type \in {"SendMeshTopo", "ReturnMeshTopo"} => p \in Topo
BY DEF Packet, MakeClient, Ping, Pong, PingPongRoot, Topo

LEMMA NewMakeClient ==
  ASSUME NEW s \in Server, NEW n, NEW srv, srv.dev = n
  PROVE  /\ MakeClientPacket(s) \in Packet
         /\ WrapperInv(n, [packet |-> MakeClientPacket(s), server |-> srv])
BY DEF MakeClientPacket, Packet, MakeClient, WrapperInv, PingInv, PongInv, PingPongInv,
       SendTopoInv, ReturnTopoInv

LEMMA NewPing ==
  ASSUME NEW c \in Client, NEW flag \in BOOLEAN
  PROVE  /\ PingPacket(flag, c) \in Packet
         /\ WrapperInv(c.peer, [packet |-> PingPacket(flag, c), server |-> ServerOf(c)])
BY ClientType DEF PingPacket, Packet, Ping, WrapperInv, PingInv, PongInv, PingPongInv,
       SendTopoInv, ReturnTopoInv

LEMMA NewPong ==
  ASSUME NEW c \in Client, NEW sp \in Client, NEW flag \in BOOLEAN
  PROVE  LET p == PongPacket(1, flag, sp, ServerOf(sp), c)
         IN  /\ p \in Packet
             /\ WrapperInv(c.peer, [packet |-> p, server |-> ServerOf(c)])
BY ClientType DEF PongPacket, Packet, Pong, WrapperInv, PingInv, PongInv, PingPongInv,
       SendTopoInv, ReturnTopoInv

LEMMA NewPingPong ==
  ASSUME NEW sp \in Client, NEW sq \in Client, NEW flag \in BOOLEAN, NEW h \in Nat,
         NEW n \in Device, NEW srv \in Server, srv.dev = n,
         h = 2 + Depth[sp.dev] - Depth[n] - 1
  PROVE  LET p == PingPongPacket(h, flag, sp, ServerOf(sp), sq, ServerOf(sq))
         IN  /\ p \in Packet
             /\ WrapperInv(n, [packet |-> p, server |-> srv])
BY ClientType DEF PingPongPacket, Packet, PingPongRoot, WrapperInv, PingInv, PongInv,
       PingPongInv, SendTopoInv, ReturnTopoInv

LEMMA NewSendTopo ==
  ASSUME NEW path \in Seq(Device), IsDescent(path), NEW h \in Nat, h = Len(path) - 1,
         NEW n \in Device, NEW srv \in Server, srv.dev = n, Linked(path[Len(path)], n)
  PROVE  LET p == TopoPacket("SendMeshTopo", h, path)
         IN  /\ p \in Packet
             /\ WrapperInv(n, [packet |-> p, server |-> srv])
BY DEF TopoPacket, Packet, Topo, WrapperInv, PingInv, PongInv, PingPongInv,
       SendTopoInv, ReturnTopoInv

LEMMA NewReturnTopo ==
  ASSUME NEW path \in Seq(Device), IsDescent(path), NEW h \in Nat,
         NEW n \in Device, NEW srv \in Server, srv.dev = n,
         h = 2 * (Len(path) - 1) - Depth[n] - 1
  PROVE  LET p == TopoPacket("ReturnMeshTopo", h, path)
         IN  /\ p \in Packet
             /\ WrapperInv(n, [packet |-> p, server |-> srv])
BY DEF TopoPacket, Packet, Topo, WrapperInv, PingInv, PongInv, PingPongInv,
       SendTopoInv, ReturnTopoInv

---------------------------------------------------------------------------
(* Queues.                                                                 *)

\* Sound sends keep the queues sound.
LEMMA SoundQueues ==
  ASSUME packets_queue \in [Device -> SUBSET Wrapper], QueueInv,
         NEW n \in Device, NEW kept \in SUBSET packets_queue[n],
         NEW sends, Sound(sends), NEW stat,
         packets_queue' = Queues(n, kept, sends, stat)
  PROVE  packets_queue' \in [Device -> SUBSET Wrapper] /\ QueueInv'
<1>1. \A m \in Device : \A w \in Arrivals(sends, m, stat) : w \in Wrapper /\ WrapperInv(m, w)
  <2>. SUFFICES ASSUME NEW m \in Device, NEW s \in sends, s[1].peer = m
                PROVE  LET w == [packet |-> s[2], server |-> ServerOf(s[1])]
                       IN  w \in Wrapper /\ WrapperInv(m, w)
    BY DEF Arrivals
  <2>1. s[1] \in Client /\ s[2] \in Packet
        /\ WrapperInv(m, [packet |-> s[2], server |-> ServerOf(s[1])])
    BY DEF Sound
  <2>. QED
    BY <2>1, ClientType DEF Wrapper
<1>2. \A m \in Device : \A w \in packets_queue'[m] :
        w \in packets_queue[m] \/ w \in Arrivals(sends, m, stat)
  BY DEF Queues
<1>3. DOMAIN packets_queue' = Device /\ packets_queue' = [m \in Device |-> packets_queue'[m]]
  BY DEF Queues
<1>4. \A m \in Device : \A w \in packets_queue'[m] : w \in Wrapper /\ WrapperInv(m, w)
  BY <1>1, <1>2 DEF QueueInv
<1>. QED
  BY <1>3, <1>4 DEF QueueInv

\* Queues that only shrink stay sound.
LEMMA FewerPackets ==
  ASSUME packets_queue \in [Device -> SUBSET Wrapper], QueueInv,
         NEW n \in Device, NEW kept \in SUBSET packets_queue[n],
         packets_queue' = [packets_queue EXCEPT ![n] = kept]
  PROVE  packets_queue' \in [Device -> SUBSET Wrapper] /\ QueueInv'
BY DEF QueueInv

\* A popped tuple, with the invariant of its kind.
LEMMA Popped ==
  ASSUME MeshInv, NEW n \in Device, NEW w \in packets_queue[n]
  PROVE  /\ w.packet \in Packet /\ w.server \in Server /\ WrapperInv(n, w)
         /\ w = [packet |-> w.packet, server |-> w.server]
BY DEF MeshInv, TypeOK, QueueInv, Wrapper

LEMMA RestKept ==
  ASSUME NEW n \in Device, NEW w, NEW rest \in Rest(n, w)
  PROVE  rest \in SUBSET packets_queue[n]
BY DEF Rest

---------------------------------------------------------------------------
(* Distances and routes.                                                   *)

\* The place of a device on a path from the root is its depth.
LEMMA DescentDistance ==
  ASSUME NEW path \in Seq(Device), IsDescent(path), NEW d \in OnPath(path)
  PROVE  PathDistance(path, d) = Depth[d] /\ Depth[d] \in Nat /\ d \in Device
<1>1. PICK i \in DOMAIN path : path[i] = d
  BY DEF OnPath
<1>2. \A j \in DOMAIN path : j \in Nat /\ path[j] \in Device /\ Depth[path[j]] = j - 1
  BY DEF IsDescent
<1>3. \A j \in DOMAIN path : path[j] = d => j = i
  BY <1>1, <1>2
<1>. DEFINE Last(k) == path[k] = d /\ \A j \in DOMAIN path : path[j] = d => j <= k
<1>4. Last(i)
  BY <1>1, <1>2, <1>3
<1>5. \A k \in DOMAIN path : Last(k) => k = i
  BY <1>3
<1>6. (CHOOSE k \in DOMAIN path : Last(k)) = i
  BY <1>1, <1>4, <1>5
<1>. QED
  BY <1>1, <1>2, <1>6, MeshAssumption DEF PathDistance

\* A device that is linked to the last device of a path from the root is either
\* the last but one of it or the next step away from the root.
LEMMA DescentEnd ==
  ASSUME NEW path \in Seq(Device), IsDescent(path), NEW n \in Device,
         Linked(path[Len(path)], n)
  PROVE  /\ n \in OnPath(path) => Depth[n] = Len(path) - 2
         /\ n \notin OnPath(path) => /\ n # Root /\ Attach[n] = path[Len(path)]
                                     /\ IsDescent(Append(path, n))
                                     /\ Depth[n] = Len(path)
<1>. DEFINE last == path[Len(path)]
<1>1. Len(path) \in Nat /\ Len(path) > 0 /\ DOMAIN path = 1..Len(path) /\ last \in Device
  BY DEF IsDescent
<1>2. Depth[last] = Len(path) - 1
  BY <1>1 DEF IsDescent
<1>3. CASE last # Root /\ Attach[last] = n
  <2>1. Len(path) > 1
    BY <1>1, <1>3 DEF IsDescent
  <2>2. path[Len(path) - 1] = n
    BY <1>1, <1>3, <2>1 DEF IsDescent
  <2>3. n \in OnPath(path)
    BY <1>1, <2>1, <2>2 DEF OnPath
  <2>. QED
    BY <1>1, <1>2, <1>3, <2>3, MeshAssumption
<1>4. CASE n # Root /\ Attach[n] = last
  <2>1. Depth[n] = Len(path)
    BY <1>1, <1>2, <1>4, MeshAssumption
  <2>2. n \notin OnPath(path)
    BY <1>1, <2>1 DEF OnPath, IsDescent
  <2>. DEFINE longer == Append(path, n)
  <2>3. /\ longer \in Seq(Device) /\ DOMAIN longer = 1..(Len(path) + 1)
        /\ longer # <<>>
        /\ \A i \in 1..Len(path) : longer[i] = path[i]
        /\ longer[Len(path) + 1] = n
    BY <1>1
  <2>4. longer[1] = Root
    BY <1>1, <2>3 DEF IsDescent
  <2>5. \A i \in DOMAIN longer : Depth[longer[i]] = i - 1
    BY <1>1, <2>1, <2>3 DEF IsDescent
  <2>6. \A i \in DOMAIN longer : i > 1 => longer[i] # Root /\ Attach[longer[i]] = longer[i - 1]
    <3>. SUFFICES ASSUME NEW i \in DOMAIN longer, i > 1
                  PROVE  longer[i] # Root /\ Attach[longer[i]] = longer[i - 1]
      OBVIOUS
    <3>1. CASE i = Len(path) + 1
      <4>1. i - 1 = Len(path) /\ Len(path) \in 1..Len(path)
        BY <1>1, <3>1
      <4>2. longer[i - 1] = last /\ longer[i] = n
        BY <2>3, <3>1, <4>1
      <4>. QED
        BY <1>4, <4>2
    <3>2. CASE i \in 1..Len(path)
      <4>1. i - 1 \in 1..Len(path) /\ longer[i] = path[i] /\ longer[i - 1] = path[i - 1]
        BY <1>1, <2>3, <3>2
      <4>. QED
        BY <1>1, <3>2, <4>1 DEF IsDescent
    <3>. QED
      BY <1>1, <2>3, <3>1, <3>2
  <2>7. IsDescent(longer)
    BY <2>3, <2>4, <2>5, <2>6 DEF IsDescent
  <2>. QED
    BY <1>4, <2>1, <2>2, <2>7
<1>. QED
  BY <1>3, <1>4 DEF Linked

\* What process_mesh_topo records of a path from the root is true.
LEMMA TrueDistances ==
  ASSUME TypeOK, DistanceTrue, NEW n \in Device, NEW path \in Seq(Device), IsDescent(path)
  PROVE  LET dist == process_mesh_topo(n, path)
         IN  /\ dist \in [Channel -> Nat \cup {-1}]
             /\ \A ch \in Channel : dist[ch] # -1 => dist[ch] = Depth[ch.dev]
<1>1. ASSUME NEW ch \in Channel
      PROVE  /\ process_mesh_topo(n, path)[ch] \in Nat \cup {-1}
             /\ process_mesh_topo(n, path)[ch] # -1 =>
                  process_mesh_topo(n, path)[ch] = Depth[ch.dev]
  <2>1. CASE ch \in channels_list(n, conn_data[n]) /\ ch.dev \in OnPath(path)
    BY <2>1, DescentDistance DEF process_mesh_topo
  <2>2. CASE ~ (ch \in channels_list(n, conn_data[n]) /\ ch.dev \in OnPath(path))
    BY <2>2 DEF process_mesh_topo, TypeOK, DistanceTrue
  <2>. QED
    BY <2>1, <2>2
<1>. QED
  BY <1>1 DEF process_mesh_topo

\* With true links and true distances the way to the root is the way up.
LEMMA CloserIsUp ==
  ASSUME NEW n \in Device, NEW conn \in SUBSET (Client \X Server),
         \A link \in conn : link[2] = ServerOf(link[1]),
         NEW dist \in [Channel -> Nat \cup {-1}],
         \A ch \in Channel : dist[ch] # -1 => dist[ch] = Depth[ch.dev],
         NEW c \in get_ch_closer_to_root(n, conn, dist)
  PROVE  c \in Client /\ n # Root /\ c.dev = n /\ c.peer = Attach[n]
         /\ Depth[c.peer] = Depth[n] - 1
<1>1. c \in Client /\ c.dev = n
  BY DEF get_ch_closer_to_root, get_ch_clients
<1>2. PICK link \in conn : link[1] = c /\ dist[link[2]] # -1 /\ dist[link[2]] < dist[c]
  BY DEF get_ch_closer_to_root
<1>3. link[2] = ServerOf(c)
  BY <1>2
<1>4. ServerOf(c) \in Channel /\ ServerOf(c).dev = c.peer /\ c \in Channel
  BY <1>1, ClientType, ServerType
<1>5. dist[ServerOf(c)] = Depth[c.peer] /\ dist[ServerOf(c)] \in Nat /\ dist[c] \in Nat \cup {-1}
  BY <1>2, <1>3, <1>4
<1>6. dist[c] = Depth[n]
  BY <1>1, <1>2, <1>3, <1>4, <1>5
<1>7. Depth[c.peer] < Depth[n]
  BY <1>2, <1>3, <1>5, <1>6
<1>8. Linked(n, c.peer) /\ c.peer \in Device
  BY <1>1, ClientType
<1>. QED
  BY <1>1, <1>7, <1>8, MeshAssumption DEF Linked

\* A packet that is good at the device above n may be routed to the root from n.
LEMMA SoundRoute ==
  ASSUME NEW n \in Device, NEW conn \in SUBSET (Client \X Server),
         \A link \in conn : link[2] = ServerOf(link[1]),
         NEW dist \in [Channel -> Nat \cup {-1}],
         \A ch \in Channel : dist[ch] # -1 => dist[ch] = Depth[ch.dev],
         NEW p \in Packet,
         \A m \in Device, srv \in Server :
            n # Root /\ m = Attach[n] /\ Depth[m] = Depth[n] - 1 /\ srv.dev = m =>
              WrapperInv(m, [packet |-> p, server |-> srv]),
         NEW sends \in RouteToRoot(n, p, conn, dist)
  PROVE  Sound(sends)
<1>1. CASE sends = {}
  BY <1>1 DEF Sound
<1>2. ASSUME NEW c \in get_ch_closer_to_root(n, conn, dist), sends = {<<c, p>>}
      PROVE  Sound(sends)
  <2>1. c \in Client /\ n # Root /\ c.peer = Attach[n] /\ Depth[c.peer] = Depth[n] - 1
    BY CloserIsUp
  <2>2. WrapperInv(c.peer, [packet |-> p, server |-> ServerOf(c)])
    BY <2>1, ClientType
  <2>. QED
    BY <1>2, <2>1, <2>2 DEF Sound
<1>. QED
  BY <1>1, <1>2 DEF RouteToRoot

---------------------------------------------------------------------------
(* Every step keeps the invariant.                                         *)

\* The parts of the invariant a step leaves alone when it only sends.
LEMMA StatusType ==
  ASSUME TypeOK, NEW n \in Device
  PROVE  StartClients(n) \in [Client -> {"none", "off", "on"}]
BY DEF StartClients, TypeOK

LEMMA NoSends == Sound({})
BY DEF Sound

LEMMA SoundUnion ==
  ASSUME NEW s1, NEW s2, Sound(s1), Sound(s2)
  PROVE  Sound(s1 \cup s2)
BY DEF Sound

LEMMA SoundPings ==
  ASSUME NEW n \in Device, NEW flag \in BOOLEAN
  PROVE  Sound(send_ping(n, flag))
BY NewPing DEF Sound, send_ping, get_ch_clients

LEMMA SoundTopos ==
  ASSUME NEW n \in Device, NEW path \in Seq(Device), IsDescent(path), path[Len(path)] = n,
         NEW h \in Nat, h = Len(path) - 1
  PROVE  Sound(ToClients(n, TopoPacket("SendMeshTopo", h, path)))
<1>. SUFFICES ASSUME NEW c \in get_ch_clients(n)
              PROVE  /\ c \in Client
                     /\ TopoPacket("SendMeshTopo", h, path) \in Packet
                     /\ WrapperInv(c.peer, [packet |-> TopoPacket("SendMeshTopo", h, path),
                                            server |-> ServerOf(c)])
  BY DEF Sound, ToClients
<1>1. c \in Client /\ c.dev = n
  BY DEF get_ch_clients
<1>2. c.peer \in Device /\ Linked(path[Len(path)], c.peer)
      /\ ServerOf(c) \in Server /\ ServerOf(c).dev = c.peer
  BY <1>1, ClientType
<1>. QED
  BY <1>1, <1>2, NewSendTopo

LEMMA InitInv == Init => MeshInv
<1>. SUFFICES ASSUME Init PROVE MeshInv
  OBVIOUS
<1>1. TypeOK
  BY MeshAssumption DEF Init, TypeOK
<1>2. LinksReal /\ QueueInv
  BY DEF Init, LinksReal, QueueInv
<1>3. DistanceTrue
  BY DEF Init, DistanceTrue
<1>. QED
  BY <1>1, <1>2, <1>3 DEF MeshInv

LEMMA BeginInv ==
  ASSUME MeshInv, NEW n \in Device, Begin(n)
  PROVE  MeshInv'
<1>. DEFINE made(m) == {[packet |-> MakeClientPacket([dev |-> n, proto |-> c.proto]),
                         server |-> ServerOf(c)] : c \in {u \in Uplink(n) : u.peer = m}}
<1>1. \A m \in Device : \A w \in made(m) : w \in Wrapper /\ WrapperInv(m, w)
  <2>. SUFFICES ASSUME NEW m \in Device, NEW c \in Uplink(n), c.peer = m
                PROVE  LET w == [packet |-> MakeClientPacket([dev |-> n, proto |-> c.proto]),
                                 server |-> ServerOf(c)]
                       IN  w \in Wrapper /\ WrapperInv(m, w)
    OBVIOUS
  <2>1. c \in Client
    BY DEF Uplink
  <2>2. [dev |-> n, proto |-> c.proto] \in Server /\ ServerOf(c) \in Server
        /\ ServerOf(c).dev = m
    BY <2>1, ClientType DEF Server
  <2>. QED
    BY <2>2, NewMakeClient DEF Wrapper
<1>2. packets_queue' = [m \in Device |-> packets_queue[m] \cup made(m)]
  BY DEF Begin
<1>3. packets_queue' \in [Device -> SUBSET Wrapper] /\ QueueInv'
  BY <1>1, <1>2 DEF MeshInv, TypeOK, QueueInv
<1>4. process' \in [Device -> {"new", "running", "ended"}]
  BY DEF Begin, MeshInv, TypeOK
<1>5. status' \in [Client -> {"none", "off", "on"}]
  BY StatusType DEF Begin, MeshInv
<1>. QED
  BY <1>3, <1>4, <1>5, ZenonT(30) DEF Begin, MeshInv, TypeOK, LinksReal, DistanceTrue, faults

LEMMA BeginFailsInv ==
  ASSUME MeshInv, NEW n \in Device, BeginFails(n)
  PROVE  MeshInv'
BY DEF BeginFails, MeshInv, TypeOK, LinksReal, DistanceTrue, QueueInv, faults

LEMMA RoundInv ==
  ASSUME MeshInv, NEW n \in Device, NEW sends, Sound(sends), Round(n, sends)
  PROVE  MeshInv'
<1>1. packets_queue' \in [Device -> SUBSET Wrapper] /\ QueueInv'
  <2>1. packets_queue[n] \in SUBSET packets_queue[n]
    OBVIOUS
  <2>. QED
    BY <2>1, SoundQueues DEF Round, MeshInv, TypeOK
<1>2. status' \in [Client -> {"none", "off", "on"}]
  BY StatusType DEF Round, MeshInv
<1>. QED
  BY <1>1, <1>2 DEF Round, MeshInv, TypeOK, LinksReal, DistanceTrue, faults

LEMMA TimedInv ==
  ASSUME MeshInv
  PROVE  /\ \A n \in Device : IdleRound(n) => MeshInv'
         /\ \A n \in Device, flag \in BOOLEAN : PingRound(n, flag) => MeshInv'
         /\ TopoRound => MeshInv'
<1>1. ASSUME NEW n \in Device, IdleRound(n) PROVE MeshInv'
  BY <1>1, RoundInv, NoSends DEF IdleRound
<1>2. ASSUME NEW n \in Device, NEW flag \in BOOLEAN, PingRound(n, flag) PROVE MeshInv'
  BY <1>2, RoundInv, SoundPings DEF PingRound, TimedRound
<1>3. ASSUME TopoRound PROVE MeshInv'
  <2>1. <<Root>> \in Seq(Device) /\ IsDescent(<<Root>>) /\ <<Root>>[Len(<<Root>>)] = Root
        /\ 0 = Len(<<Root>>) - 1
    BY MeshAssumption DEF IsDescent
  <2>2. Sound(send_mesh_topo(Root))
    BY <2>1, SoundTopos, MeshAssumption DEF send_mesh_topo
  <2>. QED
    BY <1>3, <2>2, RoundInv, MeshAssumption DEF TopoRound, TimedRound
<1>. QED
  BY <1>1, <1>2, <1>3

LEMMA RecvMakeClientInv ==
  ASSUME MeshInv, NEW n \in Device, NEW w \in packets_queue[n], RecvMakeClient(n, w)
  PROVE  MeshInv'
<1>1. packets_queue' \in [Device -> SUBSET Wrapper] /\ QueueInv'
  <2>1. packets_queue[n] \ {w} \in SUBSET packets_queue[n]
    OBVIOUS
  <2>. QED
    BY <2>1, SoundQueues, SoundPings DEF RecvMakeClient, MeshInv, TypeOK
<1>2. status' \in [Client -> {"none", "off", "on"}]
  BY DEF RecvMakeClient, MeshInv, TypeOK
<1>. QED
  BY <1>1, <1>2 DEF RecvMakeClient, MeshInv, TypeOK, LinksReal, DistanceTrue, faults

LEMMA RecvPingInv ==
  ASSUME MeshInv, NEW n \in Device, NEW w \in packets_queue[n], RecvPing(n, w)
  PROVE  MeshInv'
<1>. DEFINE p == w.packet
            pong(c) == PongPacket(p.hops + 1, p.return_to_root, p.send_ping, w.server, c)
            sends == {<<c, pong(c)>> : c \in get_ch_clients(n)}
<1>1. p \in Ping /\ WrapperInv(n, w) /\ p.type = "SendPing"
  BY Popped, PacketTypes DEF RecvPing, Pop
<1>2. /\ p.send_ping \in Client /\ p.return_to_root \in BOOLEAN
      /\ w.server = ServerOf(p.send_ping) /\ p.hops = 0
  BY <1>1 DEF Ping, WrapperInv, PingInv
<1>3. Sound(sends)
  BY <1>2, NewPong DEF Sound, get_ch_clients
<1>4. packets_queue' \in [Device -> SUBSET Wrapper] /\ QueueInv'
  <2>1. packets_queue[n] \ {w} \in SUBSET packets_queue[n]
    OBVIOUS
  <2>2. packets_queue' = Queues(n, packets_queue[n] \ {w}, sends, status)
    BY DEF RecvPing
  <2>. QED
    BY <1>3, <2>1, <2>2, SoundQueues DEF MeshInv, TypeOK
<1>. QED
  BY <1>4 DEF RecvPing, MeshInv, TypeOK, LinksReal, DistanceTrue, faults

\* Links and distances that the invariant makes true, as a route needs them.
LEMMA Knowledge ==
  ASSUME MeshInv, NEW n \in Device
  PROVE  /\ conn_data[n] \in SUBSET (Client \X Server)
         /\ \A link \in conn_data[n] : link[2] = ServerOf(link[1])
         /\ root_distance[n] \in [Channel -> Nat \cup {-1}]
         /\ \A ch \in Channel : root_distance[n][ch] # -1 => root_distance[n][ch] = Depth[ch.dev]
BY DEF MeshInv, TypeOK, LinksReal, DistanceTrue

\* Links of a completed ping-pong whose server channels are the right ones.
LEMMA TrueLinks ==
  ASSUME MeshInv, NEW n \in Device, NEW pp, pp.send_ping \in Client, pp.send_pong \in Client,
         pp.recv_ping = ServerOf(pp.send_ping), pp.recv_pong = ServerOf(pp.send_pong)
  PROVE  /\ process_ping_pong(n, pp) \in SUBSET (Client \X Server)
         /\ \A link \in process_ping_pong(n, pp) : link[2] = ServerOf(link[1])
BY Knowledge, ClientType DEF process_ping_pong

LEMMA RecvPongInv ==
  ASSUME MeshInv, NEW n \in Device, NEW w \in packets_queue[n], RecvPong(n, w)
  PROVE  MeshInv'
<1>. DEFINE p == w.packet
            pp == PingPongPacket(p.hops + 1, p.return_to_root,
                                 p.send_ping, p.recv_ping, p.send_pong, w.server)
            conn == process_ping_pong(n, pp)
            returned == /\ pp.return_to_root
                        /\ pp.send_ping.dev = pp.recv_pong.dev
                        /\ pp.recv_ping.dev = pp.send_pong.dev
<1>1. p \in Pong /\ WrapperInv(n, w) /\ p.type = "SendPong" /\ w.server \in Server
  BY Popped, PacketTypes DEF RecvPong, Pop
<1>2. /\ p.send_ping \in Client /\ p.send_pong \in Client /\ p.return_to_root \in BOOLEAN
      /\ p.recv_ping = ServerOf(p.send_ping) /\ w.server = ServerOf(p.send_pong)
      /\ w.server.dev = n /\ p.hops + 1 = 2
  BY <1>1 DEF Pong, WrapperInv, PongInv
<1>3. /\ pp.send_ping = p.send_ping /\ pp.recv_ping = p.recv_ping
      /\ pp.send_pong = p.send_pong /\ pp.recv_pong = w.server
  BY DEF PingPongPacket
<1>4. conn \in SUBSET (Client \X Server) /\ \A link \in conn : link[2] = ServerOf(link[1])
  BY <1>2, <1>3, TrueLinks
<1>5. PICK sends \in IF returned THEN RouteToRoot(n, pp, conn, root_distance[n]) ELSE {{}} :
        packets_queue' = Queues(n, packets_queue[n] \ {w}, sends, status)
  BY DEF RecvPong
<1>6. Sound(sends)
  <2>1. CASE returned
    <3>1. p.send_ping.dev = n
      BY <1>2, <1>3, <2>1
    <3>2. ASSUME NEW m \in Device, NEW srv \in Server,
                 Depth[m] = Depth[n] - 1, srv.dev = m
          PROVE  pp \in Packet /\ WrapperInv(m, [packet |-> pp, server |-> srv])
      <4>1. 2 = 2 + Depth[p.send_ping.dev] - Depth[m] - 1
        BY <3>1, <3>2, MeshAssumption
      <4>2. pp = PingPongPacket(2, p.return_to_root, p.send_ping, ServerOf(p.send_ping),
                                p.send_pong, ServerOf(p.send_pong))
        BY <1>2
      <4>. QED
        BY <1>2, <3>2, <4>1, <4>2, NewPingPong
    <3>3. pp \in Packet
      BY <1>1, <1>2 DEF PingPongPacket, Packet, PingPongRoot, Pong
    <3>. QED
      BY <1>4, <1>5, <2>1, <3>2, <3>3, Knowledge, SoundRoute
  <2>2. CASE ~ returned
    BY <1>5, <2>2, NoSends
  <2>. QED
    BY <2>1, <2>2
<1>7. packets_queue' \in [Device -> SUBSET Wrapper] /\ QueueInv'
  <2>1. packets_queue[n] \ {w} \in SUBSET packets_queue[n]
    OBVIOUS
  <2>. QED
    BY <1>5, <1>6, <2>1, SoundQueues DEF MeshInv, TypeOK
<1>8. conn_data' = [conn_data EXCEPT ![n] = conn]
  BY DEF RecvPong
<1>9. conn_data' \in [Device -> SUBSET (Client \X Server)] /\ LinksReal'
  BY <1>4, <1>8 DEF MeshInv, TypeOK, LinksReal
<1>. QED
  BY <1>7, <1>9 DEF RecvPong, MeshInv, TypeOK, DistanceTrue, faults

LEMMA RecvPingPongRootInv ==
  ASSUME MeshInv, NEW n \in Device, NEW w \in packets_queue[n], RecvPingPongRoot(n, w)
  PROVE  MeshInv'
<1>. DEFINE p == w.packet
            pp == PingPongPacket(p.hops + 1, p.return_to_root,
                                 p.send_ping, p.recv_ping, p.send_pong, p.recv_pong)
<1>1. p \in PingPongRoot /\ WrapperInv(n, w) /\ p.type = "PingPongRoot"
  BY Popped, PacketTypes DEF RecvPingPongRoot, Pop
<1>2. /\ p.send_ping \in Client /\ p.send_pong \in Client /\ p.return_to_root \in BOOLEAN
      /\ p.recv_ping = ServerOf(p.send_ping) /\ p.recv_pong = ServerOf(p.send_pong)
      /\ p.hops \in Nat /\ p.hops = 2 + Depth[p.send_ping.dev] - Depth[n] - 1
  BY <1>1 DEF PingPongRoot, WrapperInv, PingPongInv
<1>3. /\ pp.send_ping = p.send_ping /\ pp.recv_ping = p.recv_ping
      /\ pp.send_pong = p.send_pong /\ pp.recv_pong = p.recv_pong
  BY DEF PingPongPacket
<1>4. PICK sends \in RouteToRoot(n, pp, conn_data[n], root_distance[n]) :
        packets_queue' = Queues(n, packets_queue[n] \ {w}, sends, status)
  BY DEF RecvPingPongRoot
<1>5. Sound(sends)
  <2>1. ASSUME NEW m \in Device, NEW srv \in Server,
               Depth[m] = Depth[n] - 1, srv.dev = m
        PROVE  WrapperInv(m, [packet |-> pp, server |-> srv])
    <3>1. p.hops + 1 = 2 + Depth[p.send_ping.dev] - Depth[m] - 1 /\ p.hops + 1 \in Nat
      BY <1>2, <2>1, ClientType, MeshAssumption
    <3>. QED
      BY <1>2, <2>1, <3>1, NewPingPong
  <2>2. pp \in Packet
    BY <1>2, ClientType DEF PingPongPacket, Packet, PingPongRoot
  <2>. QED
    BY <1>4, <2>1, <2>2, Knowledge, SoundRoute
<1>6. packets_queue' \in [Device -> SUBSET Wrapper] /\ QueueInv'
  <2>1. packets_queue[n] \ {w} \in SUBSET packets_queue[n]
    OBVIOUS
  <2>. QED
    BY <1>4, <1>5, <2>1, SoundQueues DEF MeshInv, TypeOK
<1>7. conn_data' \in [Device -> SUBSET (Client \X Server)] /\ LinksReal'
  <2>1. CASE conn_data' = conn_data
    BY <2>1 DEF MeshInv, TypeOK, LinksReal
  <2>2. CASE conn_data' = [conn_data EXCEPT ![n] = process_ping_pong(n, pp)]
    BY <1>2, <1>3, <2>2, TrueLinks DEF MeshInv, TypeOK, LinksReal
  <2>. QED
    BY <2>1, <2>2 DEF RecvPingPongRoot
<1>. QED
  BY <1>6, <1>7 DEF RecvPingPongRoot, MeshInv, TypeOK, DistanceTrue, faults

\* A topology on its way up, as the device above n finds it.
LEMMA SoundReturn ==
  ASSUME MeshInv, NEW n \in Device, NEW path \in Seq(Device), IsDescent(path),
         NEW h \in Nat, h = 2 * (Len(path) - 1) - Depth[n],
         NEW dist \in [Channel -> Nat \cup {-1}],
         \A ch \in Channel : dist[ch] # -1 => dist[ch] = Depth[ch.dev],
         NEW sends \in RouteToRoot(n, TopoPacket("ReturnMeshTopo", h, path), conn_data[n], dist)
  PROVE  Sound(sends)
<1>. DEFINE p == TopoPacket("ReturnMeshTopo", h, path)
<1>1. ASSUME NEW m \in Device, NEW srv \in Server, Depth[m] = Depth[n] - 1, srv.dev = m
      PROVE  WrapperInv(m, [packet |-> p, server |-> srv])
  <2>1. h = 2 * (Len(path) - 1) - Depth[m] - 1
    BY <1>1, MeshAssumption
  <2>. QED
    BY <1>1, <2>1, NewReturnTopo
<1>2. p \in Packet
  BY DEF TopoPacket, Packet, Topo
<1>. QED
  BY <1>1, <1>2, Knowledge, SoundRoute

LEMMA AppendMeshTopoInv ==
  ASSUME MeshInv, NEW n \in Device, NEW w \in packets_queue[n], AppendMeshTopo(n, w)
  PROVE  MeshInv'
<1>. DEFINE hops == w.packet.hops + 1
            path == Append(w.packet.path, n)
            dist == process_mesh_topo(n, path)
<1>1. w.packet \in Topo /\ WrapperInv(n, w) /\ w.packet.type = "SendMeshTopo"
  BY Popped, PacketTypes DEF AppendMeshTopo, Pop
<1>2. /\ w.packet.path \in Seq(Device) /\ IsDescent(w.packet.path)
      /\ w.packet.hops \in Nat /\ w.packet.hops = Len(w.packet.path) - 1
      /\ Linked(w.packet.path[Len(w.packet.path)], n)
  BY <1>1 DEF Topo, WrapperInv, SendTopoInv
<1>3. IsDescent(path) /\ Depth[n] = Len(w.packet.path)
  BY <1>2, DescentEnd DEF AppendMeshTopo
<1>4. /\ path \in Seq(Device) /\ path[Len(path)] = n /\ Depth[n] = Len(path) - 1
      /\ hops \in Nat /\ hops = Len(path) - 1 /\ hops = 2 * (Len(path) - 1) - Depth[n]
  BY <1>2, <1>3
<1>5. /\ dist \in [Channel -> Nat \cup {-1}]
      /\ \A ch \in Channel : dist[ch] # -1 => dist[ch] = Depth[ch.dev]
  BY <1>3, <1>4, TrueDistances DEF MeshInv
<1>6. PICK rest \in Rest(n, w) :
      \E up \in RouteToRoot(n, TopoPacket("ReturnMeshTopo", hops, path), conn_data[n], dist) :
        packets_queue' =
          Queues(n, rest, ToClients(n, TopoPacket("SendMeshTopo", hops, path)) \cup up, status)
  BY DEF AppendMeshTopo
<1>7. PICK up \in RouteToRoot(n, TopoPacket("ReturnMeshTopo", hops, path), conn_data[n], dist) :
        packets_queue' =
          Queues(n, rest, ToClients(n, TopoPacket("SendMeshTopo", hops, path)) \cup up, status)
  BY <1>6
<1>8. Sound(up)
  BY <1>3, <1>4, <1>5, <1>7, SoundReturn
<1>9. Sound(ToClients(n, TopoPacket("SendMeshTopo", hops, path)) \cup up)
  BY <1>3, <1>4, <1>8, SoundTopos, SoundUnion
<1>10. packets_queue' \in [Device -> SUBSET Wrapper] /\ QueueInv'
  BY <1>7, <1>9, RestKept, SoundQueues DEF MeshInv, TypeOK
<1>11. root_distance' = [root_distance EXCEPT ![n] = dist]
  BY DEF AppendMeshTopo
<1>12. root_distance' \in [Device -> [Channel -> Nat \cup {-1}]] /\ DistanceTrue'
  BY <1>5, <1>11 DEF MeshInv, TypeOK, DistanceTrue
<1>. QED
  BY <1>10, <1>12 DEF AppendMeshTopo, MeshInv, TypeOK, LinksReal, faults

LEMMA ReturnMeshTopoInv ==
  ASSUME MeshInv, NEW n \in Device, NEW w \in packets_queue[n], ReturnMeshTopo(n, w)
  PROVE  MeshInv'
<1>. DEFINE hops == w.packet.hops + 1
            path == w.packet.path
<1>1. w.packet \in Topo /\ WrapperInv(n, w) /\ w.packet.type = "SendMeshTopo"
  BY Popped, PacketTypes DEF ReturnMeshTopo, Pop
<1>2. /\ path \in Seq(Device) /\ IsDescent(path) /\ w.packet.hops \in Nat
      /\ w.packet.hops = Len(path) - 1 /\ Linked(path[Len(path)], n)
  BY <1>1 DEF Topo, WrapperInv, SendTopoInv
<1>3. Depth[n] = Len(path) - 2
  BY <1>2, DescentEnd DEF ReturnMeshTopo
<1>4. hops \in Nat /\ hops = 2 * (Len(path) - 1) - Depth[n]
  BY <1>2, <1>3
<1>5. PICK rest \in Rest(n, w) :
      \E up \in RouteToRoot(n, TopoPacket("ReturnMeshTopo", hops, path),
                            conn_data[n], root_distance[n]) :
        packets_queue' = Queues(n, rest, up, status)
  BY DEF ReturnMeshTopo
<1>6. PICK up \in RouteToRoot(n, TopoPacket("ReturnMeshTopo", hops, path),
                              conn_data[n], root_distance[n]) :
        packets_queue' = Queues(n, rest, up, status)
  BY <1>5
<1>7. Sound(up)
  BY <1>2, <1>4, <1>6, Knowledge, SoundReturn
<1>8. packets_queue' \in [Device -> SUBSET Wrapper] /\ QueueInv'
  BY <1>6, <1>7, RestKept, SoundQueues DEF MeshInv, TypeOK
<1>. QED
  BY <1>8 DEF ReturnMeshTopo, MeshInv, TypeOK, LinksReal, DistanceTrue, faults

LEMMA RecvReturnMeshTopoInv ==
  ASSUME MeshInv, NEW n \in Device, NEW w \in packets_queue[n], RecvReturnMeshTopo(n, w)
  PROVE  MeshInv'
<1>. DEFINE hops == w.packet.hops + 1
            path == w.packet.path
<1>1. w.packet \in Topo /\ WrapperInv(n, w) /\ w.packet.type = "ReturnMeshTopo"
  BY Popped, PacketTypes DEF RecvReturnMeshTopo, Pop
<1>2. /\ path \in Seq(Device) /\ IsDescent(path) /\ w.packet.hops \in Nat
      /\ w.packet.hops = 2 * (Len(path) - 1) - Depth[n] - 1
  BY <1>1 DEF Topo, WrapperInv, ReturnTopoInv
<1>3. hops \in Nat /\ hops = 2 * (Len(path) - 1) - Depth[n]
  BY <1>2, MeshAssumption
<1>4. PICK rest \in Rest(n, w) :
      \E up \in RouteToRoot(n, TopoPacket("ReturnMeshTopo", hops, path),
                            conn_data[n], root_distance[n]) :
        packets_queue' = Queues(n, rest, up, status)
  BY DEF RecvReturnMeshTopo
<1>5. PICK up \in RouteToRoot(n, TopoPacket("ReturnMeshTopo", hops, path),
                              conn_data[n], root_distance[n]) :
        packets_queue' = Queues(n, rest, up, status)
  BY <1>4
<1>6. Sound(up)
  BY <1>2, <1>3, <1>5, Knowledge, SoundReturn
<1>7. packets_queue' \in [Device -> SUBSET Wrapper] /\ QueueInv'
  BY <1>5, <1>6, RestKept, SoundQueues DEF MeshInv, TypeOK
<1>8. root_distance' \in [Device -> [Channel -> Nat \cup {-1}]] /\ DistanceTrue'
  <2>1. CASE root_distance' = root_distance
    BY <2>1 DEF MeshInv, TypeOK, DistanceTrue
  <2>2. CASE root_distance' = [root_distance EXCEPT ![n] = process_mesh_topo(n, path)]
    <3>1. LET dist == process_mesh_topo(n, path)
          IN  /\ dist \in [Channel -> Nat \cup {-1}]
              /\ \A ch \in Channel : dist[ch] # -1 => dist[ch] = Depth[ch.dev]
      BY <1>2, TrueDistances DEF MeshInv
    <3>. QED
      BY <2>2, <3>1 DEF MeshInv, TypeOK, DistanceTrue
  <2>. QED
    BY <2>1, <2>2 DEF RecvReturnMeshTopo
<1>. QED
  BY <1>7, <1>8 DEF RecvReturnMeshTopo, MeshInv, TypeOK, LinksReal, faults

LEMMA FewerInv ==
  ASSUME MeshInv, NEW n \in Device, NEW w \in packets_queue[n],
         SkipDuplicate(n, w) \/ Lose(n, w)
  PROVE  MeshInv'
<1>1. packets_queue' = [packets_queue EXCEPT ![n] = packets_queue[n] \ {w}]
  BY DEF SkipDuplicate, Lose, MeshInv, TypeOK
<1>2. packets_queue' \in [Device -> SUBSET Wrapper] /\ QueueInv'
  <2>1. packets_queue[n] \ {w} \in SUBSET packets_queue[n]
    OBVIOUS
  <2>. QED
    BY <1>1, <2>1, FewerPackets DEF MeshInv, TypeOK
<1>3. losses' \in 0..MaxLosses /\ kills' \in 0..MaxKills
  BY MeshAssumption DEF SkipDuplicate, Lose, MeshInv, TypeOK, faults
<1>. QED
  BY <1>2, <1>3 DEF SkipDuplicate, Lose, MeshInv, TypeOK, LinksReal, DistanceTrue

LEMMA EndInv ==
  ASSUME MeshInv, NEW n \in Device, End(n),
         kills' \in 0..MaxKills, losses' \in 0..MaxLosses
  PROVE  MeshInv'
<1>1. packets_queue' \in [Device -> SUBSET Wrapper] /\ QueueInv'
  <2>1. {} \in SUBSET packets_queue[n]
    OBVIOUS
  <2>. QED
    BY <2>1, FewerPackets DEF End, MeshInv, TypeOK
<1>2. process' \in [Device -> {"new", "running", "ended"}]
  BY DEF End, MeshInv, TypeOK
<1>. QED
  BY <1>1, <1>2 DEF End, MeshInv, TypeOK, LinksReal, DistanceTrue

LEMMA FailInv ==
  ASSUME MeshInv, NEW n \in Device, Fail(n)
  PROVE  MeshInv'
<1>1. ASSUME NEW w \in packets_queue[n], PrintRaises(n, w) PROVE MeshInv'
  BY <1>1, EndInv DEF PrintRaises, MeshInv, TypeOK, faults
<1>2. ASSUME NEW w \in packets_queue[n], Lose(n, w) PROVE MeshInv'
  BY <1>2, FewerInv
<1>3. CASE SendRaises(n)
  BY <1>3, EndInv DEF SendRaises, MeshInv, TypeOK, faults
<1>4. CASE Kill(n)
  <2>1. kills' \in 0..MaxKills /\ losses' \in 0..MaxLosses
    BY <1>4, MeshAssumption DEF Kill, MeshInv, TypeOK
  <2>. QED
    BY <1>4, <2>1, EndInv DEF Kill
<1>. QED
  BY <1>1, <1>2, <1>3, <1>4 DEF Fail

LEMMA StepInv == MeshInv /\ [Next]_vars => MeshInv'
<1>. SUFFICES ASSUME MeshInv, [Next]_vars PROVE MeshInv'
  OBVIOUS
<1>1. ASSUME NEW n \in Device, Begin(n) PROVE MeshInv'
  BY <1>1, BeginInv
<1>2. ASSUME NEW n \in Device, BeginFails(n) PROVE MeshInv'
  BY <1>2, BeginFailsInv
<1>3. ASSUME NEW n \in Device, NEW w \in packets_queue[n], Handle(n, w) PROVE MeshInv'
  BY <1>3, RecvMakeClientInv, RecvPingInv, RecvPongInv, RecvPingPongRootInv,
     AppendMeshTopoInv, ReturnMeshTopoInv, RecvReturnMeshTopoInv, FewerInv DEF Handle
<1>4. ASSUME NEW n \in Device, Fail(n) PROVE MeshInv'
  BY <1>4, FailInv
<1>5. CASE UNCHANGED vars
  BY <1>5 DEF vars, MeshInv, TypeOK, LinksReal, DistanceTrue, QueueInv
<1>. QED
  BY <1>1, <1>2, <1>3, <1>4, <1>5, TimedInv DEF Next

THEOREM MeshInvariant == Spec => []MeshInv
BY InitInv, StepInv, PTL DEF Spec

---------------------------------------------------------------------------
(* What the invariant says of the mesh.                                    *)

\* Every variable keeps its type (the packets of the three kinds that three
\* processes write included).
THEOREM TypeCorrect == Spec => []TypeOK
<1>1. MeshInv => TypeOK
  BY DEF MeshInv
<1>. QED
  BY <1>1, MeshInvariant, PTL

\* The links that ping-pongs put together in conn_data are real ones.
THEOREM LinksAreReal == Spec => []LinksReal
<1>1. MeshInv => LinksReal
  BY DEF MeshInv
<1>. QED
  BY <1>1, MeshInvariant, PTL

\* Every root_distance that a device has recorded is the true one.
THEOREM DistancesAreTrue == Spec => []DistanceTrue
<1>1. MeshInv => DistanceTrue
  BY DEF MeshInv
<1>. QED
  BY <1>1, MeshInvariant, PTL

\* The path of every topology packet leads from the root straight down.
THEOREM TopologiesDescend == Spec => []PathsDescend
<1>1. MeshInv => PathsDescend
  BY DEF MeshInv, QueueInv, PathsDescend, WrapperInv, SendTopoInv, ReturnTopoInv
<1>. QED
  BY <1>1, MeshInvariant, PTL

\* A ToRoot packet is sent to the device n attaches to and to no other, so it
\* gets nearer to the root with every hop.
THEOREM ToRootPacketsClimb == Spec => []ToRootClimbs
<1>1. MeshInv => ToRootClimbs
  BY Knowledge, CloserIsUp DEF ToRootClimbs
<1>. QED
  BY <1>1, MeshInvariant, PTL

\* The hops counter of a returned packet is the number of links it has crossed.
THEOREM HopsAreExact == Spec => []HopsExact
<1>1. MeshInv => HopsExact
  BY DEF MeshInv, QueueInv, HopsExact, WrapperInv, SendTopoInv, ReturnTopoInv, PingPongInv
<1>. QED
  BY <1>1, MeshInvariant, PTL

\* In a mesh that is shallow enough no process ends by printing a packet.
THEOREM ShallowMeshNeverPrints == Spec => []PrintedOnlyIfDeep
<1>1. MeshInv => PrintedOnlyIfDeep
  <2>. SUFFICES ASSUME MeshInv, NEW n \in Device, NEW w \in packets_queue[n], Printed(w.packet)
                PROVE  \E d \in Device : 2 * Depth[d] > TopoPrintHops \/ Depth[d] + 2 > PingPrintHops
    BY DEF PrintedOnlyIfDeep
  <2>1. w.packet \in Packet /\ WrapperInv(n, w) /\ Depth[n] \in Nat
    BY Popped, MeshAssumption
  <2>2. CASE w.packet.type = "ReturnMeshTopo" /\ w.packet.hops + 1 > TopoPrintHops
    <3>. DEFINE path == w.packet.path
                d == path[Len(path)]
    <3>1. path \in Seq(Device) /\ IsDescent(path)
          /\ w.packet.hops = 2 * (Len(path) - 1) - Depth[n] - 1
      BY <2>1, <2>2, PacketTypes DEF Topo, WrapperInv, ReturnTopoInv
    <3>2. Len(path) \in DOMAIN path /\ Len(path) \in Nat
      BY <3>1 DEF IsDescent
    <3>3. d \in Device /\ Depth[d] = Len(path) - 1
      BY <3>1, <3>2 DEF IsDescent
    <3>4. 2 * Depth[d] > TopoPrintHops
      BY <2>1, <2>2, <3>1, <3>2, <3>3, MeshAssumption
    <3>. QED
      BY <3>3, <3>4
  <2>3. CASE w.packet.type = "PingPongRoot" /\ w.packet.hops + 1 > PingPrintHops
    <3>. DEFINE d == w.packet.send_ping.dev
    <3>1. d \in Device /\ w.packet.hops = 2 + Depth[d] - Depth[n] - 1
      BY <2>1, <2>3, PacketTypes, ClientType DEF PingPongRoot, WrapperInv, PingPongInv
    <3>2. Depth[d] + 2 > PingPrintHops
      BY <2>1, <2>3, <3>1, MeshAssumption
    <3>. QED
      BY <3>1, <3>2
  <2>. QED
    BY <2>2, <2>3 DEF Printed
<1>. QED
  BY <1>1, MeshInvariant, PTL

---------------------------------------------------------------------------
(* Routes.                                                                 *)

\* A topology is recorded over what was known before.
LEMMA RecordsMore ==
  ASSUME NEW n, NEW path \in Seq(Device), IsDescent(path), NEW ch \in Channel,
         root_distance[n][ch] # -1
  PROVE  process_mesh_topo(n, path)[ch] # -1
<1>1. CASE ch \in channels_list(n, conn_data[n]) /\ ch.dev \in OnPath(path)
  <2>1. process_mesh_topo(n, path)[ch] = PathDistance(path, ch.dev)
    BY <1>1 DEF process_mesh_topo
  <2>2. PathDistance(path, ch.dev) = Depth[ch.dev] /\ Depth[ch.dev] \in Nat
    BY <1>1, DescentDistance, ChannelDevice, MeshAssumption
  <2>. QED
    BY <2>1, <2>2
<1>2. CASE ~ (ch \in channels_list(n, conn_data[n]) /\ ch.dev \in OnPath(path))
  BY <1>2 DEF process_mesh_topo
<1>. QED
  BY <1>1, <1>2

LEMMA DistancesStay ==
  ASSUME MeshInv, [Next]_vars, NEW n \in Device, NEW ch \in Channel, root_distance[n][ch] # -1
  PROVE  root_distance'[n][ch] # -1
<1>1. CASE UNCHANGED root_distance
  BY <1>1
<1>2. ASSUME NEW m \in Device, NEW w \in packets_queue[m], NEW path \in Seq(Device),
             IsDescent(path),
             root_distance' = [root_distance EXCEPT ![m] = process_mesh_topo(m, path)]
      PROVE  root_distance'[n][ch] # -1
  BY <1>2, RecordsMore DEF MeshInv, TypeOK
<1>3. ASSUME NEW m \in Device, NEW w \in packets_queue[m], AppendMeshTopo(m, w)
      PROVE  root_distance'[n][ch] # -1
  <2>1. w.packet \in Topo /\ WrapperInv(m, w) /\ w.packet.type = "SendMeshTopo"
    BY <1>3, Popped, PacketTypes DEF AppendMeshTopo, Pop
  <2>2. w.packet.path \in Seq(Device) /\ IsDescent(w.packet.path)
        /\ Linked(w.packet.path[Len(w.packet.path)], m)
    BY <2>1 DEF Topo, WrapperInv, SendTopoInv
  <2>3. Append(w.packet.path, m) \in Seq(Device) /\ IsDescent(Append(w.packet.path, m))
    BY <1>3, <2>2, DescentEnd DEF AppendMeshTopo
  <2>. QED
    BY <1>2, <1>3, <2>3 DEF AppendMeshTopo
<1>4. ASSUME NEW m \in Device, NEW w \in packets_queue[m], RecvReturnMeshTopo(m, w)
      PROVE  root_distance'[n][ch] # -1
  <2>1. w.packet \in Topo /\ WrapperInv(m, w) /\ w.packet.type = "ReturnMeshTopo"
    BY <1>4, Popped, PacketTypes DEF RecvReturnMeshTopo, Pop
  <2>2. w.packet.path \in Seq(Device) /\ IsDescent(w.packet.path)
    BY <2>1 DEF Topo, WrapperInv, ReturnTopoInv
  <2>. QED
    BY <1>1, <1>2, <1>4, <2>2 DEF RecvReturnMeshTopo
<1>5. ASSUME NEW m \in Device, NEW w \in packets_queue[m], Handle(m, w)
      PROVE  root_distance'[n][ch] # -1
  BY <1>1, <1>3, <1>4, <1>5, ZenonT(30) DEF Handle, RecvMakeClient, RecvPing, RecvPong,
     RecvPingPongRoot, ReturnMeshTopo, SkipDuplicate
<1>6. ASSUME NEW m \in Device, Fail(m) PROVE UNCHANGED root_distance
  BY <1>6 DEF Fail, PrintRaises, Lose, SendRaises, Kill, End
<1>7. ASSUME NEW m \in Device, Begin(m) \/ BeginFails(m) \/ IdleRound(m)
      PROVE  UNCHANGED root_distance
  BY <1>7 DEF Begin, BeginFails, IdleRound, Round
<1>8. ASSUME NEW m \in Device, NEW flag \in BOOLEAN, PingRound(m, flag)
      PROVE  UNCHANGED root_distance
  BY <1>8 DEF PingRound, TimedRound, Round
<1>9. CASE TopoRound
  BY <1>1, <1>9 DEF TopoRound, TimedRound, Round
<1>10. CASE UNCHANGED vars
  BY <1>1, <1>10 DEF vars
<1>. QED
  BY <1>1, <1>5, <1>6, <1>7, <1>8, <1>9, <1>10 DEF Next

LEMMA LinksStay ==
  ASSUME MeshInv, [Next]_vars, NEW n \in Device
  PROVE  conn_data[n] \subseteq conn_data'[n]
<1>1. CASE UNCHANGED conn_data
  BY <1>1
<1>2. ASSUME NEW m \in Device, NEW pp,
             conn_data' = [conn_data EXCEPT ![m] = process_ping_pong(m, pp)]
      PROVE  conn_data[n] \subseteq conn_data'[n]
  BY <1>2 DEF MeshInv, TypeOK, process_ping_pong
<1>3. ASSUME NEW m \in Device, NEW w \in packets_queue[m], Handle(m, w)
      PROVE  conn_data[n] \subseteq conn_data'[n]
  <2>1. CASE RecvPong(m, w)
    BY <1>2, <2>1 DEF RecvPong
  <2>2. CASE RecvPingPongRoot(m, w)
    BY <1>1, <1>2, <2>2 DEF RecvPingPongRoot
  <2>3. CASE ~RecvPong(m, w) /\ ~RecvPingPongRoot(m, w)
    BY <1>1, <1>3, <2>3 DEF Handle, RecvMakeClient, RecvPing, AppendMeshTopo,
       ReturnMeshTopo, RecvReturnMeshTopo, SkipDuplicate
  <2>. QED
    BY <2>1, <2>2, <2>3
<1>4. ASSUME NEW m \in Device, Fail(m) PROVE UNCHANGED conn_data
  BY <1>4 DEF Fail, PrintRaises, Lose, SendRaises, Kill, End
<1>5. ASSUME NEW m \in Device, Begin(m) \/ BeginFails(m) \/ IdleRound(m)
      PROVE  UNCHANGED conn_data
  BY <1>5 DEF Begin, BeginFails, IdleRound, Round
<1>6. ASSUME NEW m \in Device, NEW flag \in BOOLEAN, PingRound(m, flag)
      PROVE  UNCHANGED conn_data
  BY <1>6 DEF PingRound, TimedRound, Round
<1>7. CASE TopoRound
  BY <1>1, <1>7 DEF TopoRound, TimedRound, Round
<1>8. CASE UNCHANGED vars
  BY <1>1, <1>8 DEF vars
<1>. QED
  BY <1>1, <1>3, <1>4, <1>5, <1>6, <1>7, <1>8 DEF Next

LEMMA ClientsStay ==
  ASSUME MeshInv, [Next]_vars, NEW n \in Device
  PROVE  get_ch_clients(n) \subseteq get_ch_clients(n)'
<1>. SUFFICES ASSUME NEW c \in Client, status[c] # "none" PROVE status'[c] # "none"
  BY DEF get_ch_clients
<1>1. CASE UNCHANGED status
  BY <1>1
<1>2. ASSUME NEW m \in Device, status' = StartClients(m) PROVE status'[c] # "none"
  BY <1>2 DEF StartClients
<1>3. ASSUME NEW m \in Device, NEW w \in packets_queue[m], Handle(m, w)
      PROVE  status'[c] # "none"
  <2>1. CASE RecvMakeClient(m, w)
    BY <2>1 DEF RecvMakeClient, MeshInv, TypeOK
  <2>2. CASE ~RecvMakeClient(m, w)
    BY <1>1, <1>3, <2>2, ZenonT(30) DEF Handle, RecvPing, RecvPong, RecvPingPongRoot,
       AppendMeshTopo, ReturnMeshTopo, RecvReturnMeshTopo, SkipDuplicate
  <2>. QED
    BY <2>1, <2>2
<1>4. ASSUME NEW m \in Device, Fail(m) PROVE UNCHANGED status
  BY <1>4 DEF Fail, PrintRaises, Lose, SendRaises, Kill, End
<1>5. ASSUME NEW m \in Device, Begin(m) \/ IdleRound(m) PROVE status' = StartClients(m)
  BY <1>5 DEF Begin, IdleRound, Round
<1>6. ASSUME NEW m \in Device, BeginFails(m) PROVE UNCHANGED status
  BY <1>6 DEF BeginFails
<1>7. ASSUME NEW m \in Device, NEW flag \in BOOLEAN, PingRound(m, flag)
      PROVE  status' = StartClients(m)
  BY <1>7 DEF PingRound, TimedRound, Round
<1>8. CASE TopoRound
  BY <1>2, <1>8, MeshAssumption DEF TopoRound, TimedRound, Round
<1>9. CASE UNCHANGED vars
  BY <1>1, <1>9 DEF vars
<1>. QED
  BY <1>1, <1>2, <1>3, <1>4, <1>5, <1>6, <1>7, <1>8, <1>9 DEF Next

\* A route is made of a link and two distances, which are kept, and which are
\* true: so a distance that is recorded again does not turn the comparison.
THEOREM RoutesAreKept == Spec => RoutesStay
<1>1. ASSUME MeshInv, MeshInv', [Next]_vars, NEW n \in Device, HasRoute(n)
      PROVE  HasRoute(n)'
  <2>1. PICK c \in get_ch_clients(n), link \in conn_data[n] :
          /\ link[1] = c /\ root_distance[n][link[2]] # -1
          /\ root_distance[n][link[2]] < root_distance[n][c]
    BY <1>1 DEF HasRoute, get_ch_closer_to_root
  <2>2. c \in Client /\ c \in Channel /\ ServerOf(c) \in Channel /\ link[2] = ServerOf(c)
    BY <1>1, <2>1, Knowledge, ClientType, ServerType DEF get_ch_clients
  <2>3. root_distance[n] \in [Channel -> Nat \cup {-1}] /\ root_distance'[n] \in [Channel -> Nat \cup {-1}]
    BY <1>1 DEF MeshInv, TypeOK
  <2>4. root_distance[n][c] # -1
    BY <2>1, <2>2, <2>3
  <2>5. root_distance'[n][c] # -1 /\ root_distance'[n][link[2]] # -1
    BY <1>1, <2>1, <2>2, <2>4, DistancesStay
  <2>6. /\ root_distance'[n][c] = root_distance[n][c]
        /\ root_distance'[n][link[2]] = root_distance[n][link[2]]
    BY <1>1, <2>1, <2>2, <2>4, <2>5 DEF MeshInv, DistanceTrue
  <2>7. c \in get_ch_clients(n)' /\ link \in conn_data'[n]
    BY <1>1, <2>1, ClientsStay, LinksStay
  <2>. QED
    BY <2>1, <2>5, <2>6, <2>7 DEF HasRoute, get_ch_closer_to_root
<1>2. MeshInv /\ MeshInv' /\ [Next]_vars => [\A n \in Device : HasRoute(n) => HasRoute(n)']_vars
  BY <1>1
<1>. QED
  BY <1>2, MeshInvariant, PTL DEF Spec, RoutesStay
=============================================================================
