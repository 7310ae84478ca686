------------------------------ MODULE RemMesh ------------------------------
(***************************************************************************)
(* The Python mesh: RemOrchestrator.py and RemRouter.py running in one     *)
(* process per device, linked by the channels of client_local_1/main.py.   *)
(*                                                                         *)
(* Every device owns one server channel per protocol and one client        *)
(* channel per protocol to the device it attaches to; a MakeClient packet  *)
(* makes that device open the client channel of the opposite direction.    *)
(* Ping-pong rounds teach every device which client channel leads to which *)
(* server channel (conn_data); topology packets, flooded by the root with  *)
(* the path they took, teach it how far from the root every channel is     *)
(* (root_distance); ToRoot packets are routed with both.                   *)
(*                                                                         *)
(* A handler runs to completion in the main thread of its process and only *)
(* touches the state of its process and the queues of others, so it is one *)
(* action.  packets_queue[n] holds the (packet, server_data) tuples that   *)
(* are queued at n together with those still in flight to it: their order  *)
(* is left open (the queue is popped from the end it is pushed to, the     *)
(* links are independent), and so is the number of copies of a tuple.      *)
(***************************************************************************)
EXTENDS Integers, Sequences, FiniteSets

CONSTANTS
  Device,         \* the devices of the mesh, one process each
  Root,           \* the device of ServerPython/server.py
  Attach,         \* the device whose servers main.py connects a device to
  Depth,          \* number of links between a device and the root
  Proto,          \* the protocols of the channels: ip_tcp, ip_udp
  TopoPrintHops,  \* hops above which a returned topology is printed: 50
  PingPrintHops,  \* hops above which a returned ping-pong is printed: 200
  MaxPending,     \* bound: a timed round starts with at most this many packets pending
  MaxKills,       \* bound: number of processes killed from outside
  MaxLosses,      \* bound: number of packets lost
  Copies          \* bound: whether a topology packet comes in any number of copies

\* The links of main.py form a tree, and Depth is the depth in that tree.
ASSUME MeshAssumption ==
  /\ Root \in Device
  /\ Attach \in [Device \ {Root} -> Device]
  /\ Depth \in [Device -> Nat]
  /\ Depth[Root] = 0
  /\ \A n \in Device \ {Root} : Depth[n] = Depth[Attach[n]] + 1
  /\ TopoPrintHops \in Nat
  /\ PingPrintHops \in Nat
  /\ MaxPending \in Nat
  /\ MaxKills \in Nat
  /\ MaxLosses \in Nat
  /\ Copies \in BOOLEAN

VARIABLES
  process,         \* process[n]: not begun, in its main loop, or ended
  status,          \* status[c]: state of a client channel
  conn_data,       \* conn_data[n]: links <<client, server>> n knows of
  root_distance,   \* root_distance[n][ch]: distance of channel ch as n knows it
  packets_queue,   \* packets_queue[n]: received tuples and those on their way
  kills,           \* number of kills so far (bound)
  losses           \* number of losses so far (bound)

faults == <<kills, losses>>
vars == <<process, status, conn_data, root_distance, packets_queue, kills, losses>>

---------------------------------------------------------------------------
(* Channels.  A channel is identified by its uuid, taken as unique.        *)

Linked(n, m) == \/ n # Root /\ Attach[n] = m
                \/ m # Root /\ Attach[m] = n

Server  == [dev : Device, proto : Proto]
Client  == {c \in [dev : Device, proto : Proto, peer : Device] : Linked(c.dev, c.peer)}
Channel == Server \cup Client

\* The server channel a client channel is connected to (server_ip, server_port).
ServerOf(c) == [dev |-> c.peer, proto |-> c.proto]

\* The client channels main.py creates: from a device to the one it attaches to.
Uplink(n) == {c \in Client : n # Root /\ c.dev = n /\ c.peer = Attach[n]}

get_ch_clients(n) == {c \in Client : c.dev = n /\ status[c] # "none"}
get_ch_servers(n) == {s \in Server : s.dev = n}

---------------------------------------------------------------------------
(* Packets.                                                                *)

MakeClient == [type : {"MakeClient"}, server : Server]
Ping == [type : {"SendPing"}, hops : Nat, return_to_root : BOOLEAN, send_ping : Client]
Pong == [type : {"SendPong"}, hops : Nat, return_to_root : BOOLEAN,
         send_ping : Client, recv_ping : Server, send_pong : Client]
PingPongRoot == [type : {"PingPongRoot"}, hops : Nat, return_to_root : BOOLEAN,
                 send_ping : Client, recv_ping : Server,
                 send_pong : Client, recv_pong : Server]
Topo == [type : {"SendMeshTopo", "ReturnMeshTopo"}, hops : Nat, path : Seq(Device)]

MakeClientPacket(server) == [type |-> "MakeClient", server |-> server]
PingPacket(flag, sp) ==
  [type |-> "SendPing", hops |-> 0, return_to_root |-> flag, send_ping |-> sp]
PongPacket(hops, flag, sp, rp, sq) ==
  [type |-> "SendPong", hops |-> hops, return_to_root |-> flag,
   send_ping |-> sp, recv_ping |-> rp, send_pong |-> sq]
PingPongPacket(hops, flag, sp, rp, sq, rq) ==
  [type |-> "PingPongRoot", hops |-> hops, return_to_root |-> flag,
   send_ping |-> sp, recv_ping |-> rp, send_pong |-> sq, recv_pong |-> rq]
TopoPacket(type, hops, path) == [type |-> type, hops |-> hops, path |-> path]

Packet == MakeClient \cup Ping \cup Pong \cup PingPongRoot \cup Topo

\* What got_packet_type_1 appends to packets_queue.
Wrapper == [packet : Packet, server : Server]

\* Packets sent on client channels: a pair for each call of send_raw.  A
\* channel that is not on sends nothing, an ended process receives nothing.
Arrivals(sends, m, stat) ==
  {[packet |-> s[2], server |-> ServerOf(s[1])] :
     s \in {x \in sends : x[1].peer = m /\ stat[x[1]] = "on" /\ process[m] = "running"}}

\* The queues after the sends, with the queue of n at kept before them.
Queues(n, kept, sends, stat) ==
  [m \in Device |->
     IF m = n THEN kept \cup Arrivals(sends, m, stat)
              ELSE packets_queue[m] \cup Arrivals(sends, m, stat)]

ToClients(n, packet) == {<<c, packet>> : c \in get_ch_clients(n)}

---------------------------------------------------------------------------
(* What a device knows.                                                    *)

\* channels_list: own channels and both ends of every link of conn_data.
channels_list(n, conn) ==
  get_ch_servers(n) \cup get_ch_clients(n)
    \cup {link[1] : link \in conn} \cup {link[2] : link \in conn}

\* Client channels with a linked server channel nearer to the root.
get_ch_closer_to_root(n, conn, dist) ==
  {c \in get_ch_clients(n) :
     \E link \in conn : /\ link[1] = c
                        /\ dist[link[2]] # -1
                        /\ dist[link[2]] < dist[c]}

\* Variant: a ToRoot packet is sent only where the closer device is the root.
RouteToRootOnly(n, packet, conn, dist) ==
  {{}} \cup {{<<c, packet>>} :
               c \in {d \in get_ch_closer_to_root(n, conn, dist) : d.peer = Root}}

\* The possible sends of route_packet for a ToRoot packet: none at the root
\* or when no channel leads there, else one channel that is closer.
RouteToRoot(n, packet, conn, dist) ==
  LET closer == get_ch_closer_to_root(n, conn, dist)
  IN  IF n = Root \/ closer = {} THEN {{}} ELSE {{<<c, packet>>} : c \in closer}

\* Variant: counted_hops is incremented before it is recorded.
PathDistanceFromOne(path, d) ==
  CHOOSE i \in DOMAIN path : path[i] = d

\* process_mesh_topo: the i-th device of the path is i-1 hops from the root.
PathDistance(path, d) ==
  (CHOOSE i \in DOMAIN path :
     path[i] = d /\ \A j \in DOMAIN path : path[j] = d => j <= i) - 1

\* Variant: append_mesh_topo looks for its id at the end of the message only.
LastOnPath(path) == {path[Len(path)]}

OnPath(path) == {path[i] : i \in DOMAIN path}

process_mesh_topo(n, path) ==
  [ch \in Channel |->
     IF ch \in channels_list(n, conn_data[n]) /\ ch.dev \in OnPath(path)
     THEN PathDistance(path, ch.dev)
     ELSE root_distance[n][ch]]

\* Variant: the two clients of a ping-pong linked to the wrong servers.
LinkCrossed(n, pp) ==
  conn_data[n] \cup {<<pp.send_ping, pp.recv_pong>>, <<pp.send_pong, pp.recv_ping>>}

\* Variant: the links of the last ping-pong only.
LinkLast(n, pp) == {<<pp.send_ping, pp.recv_ping>>, <<pp.send_pong, pp.recv_pong>>}

\* process_ping_pong: both links of a completed ping-pong.
process_ping_pong(n, pp) ==
  conn_data[n] \cup {<<pp.send_ping, pp.recv_ping>>, <<pp.send_pong, pp.recv_pong>>}

---------------------------------------------------------------------------
(* The main loop: begin, then rounds of update_discrete.                   *)

Init ==
  /\ process = [n \in Device |-> "new"]
  /\ status = [c \in Client |-> IF c \in Uplink(c.dev) THEN "off" ELSE "none"]
  /\ conn_data = [n \in Device |-> {}]
  /\ root_distance = [n \in Device |-> [ch \in Channel |-> -1]]
  /\ packets_queue = [n \in Device |-> {}]
  /\ kills = 0
  /\ losses = 0

\* send_ping: a packet of its own for every client channel.
send_ping(n, flag) ==
  {<<c, PingPacket(flag, c)>> : c \in get_ch_clients(n)}

\* Variant: the root counts itself as a hop.
SendTopoWithHop(n) ==
  ToClients(n, TopoPacket("SendMeshTopo", 1, <<n>>))

\* send_mesh_topo: the path starts with the root.
send_mesh_topo(n) ==
  ToClients(n, TopoPacket("SendMeshTopo", 0, <<n>>))

\* Variant: clients are started by begin only.
StartOnBegin(n) ==
  [c \in Client |->
     IF c.dev = n /\ status[c] = "off" /\ process[n] = "new" THEN "on" ELSE status[c]]

\* update_logic: the clients that are off are started.
StartClients(n) ==
  [c \in Client |-> IF c.dev = n /\ status[c] = "off" THEN "on" ELSE status[c]]

\* begin: servers and clients are started and the queued MakeClient tasks are
\* sent, the one of a protocol on the clients of that protocol.
Begin(n) ==
  /\ process[n] = "new"
  /\ n # Root => process[Attach[n]] = "running"
  /\ process' = [process EXCEPT ![n] = "running"]
  /\ status' = StartClients(n)
  /\ packets_queue' =
       [m \in Device |-> packets_queue[m] \cup
          {[packet |-> MakeClientPacket([dev |-> n, proto |-> c.proto]),
            server |-> ServerOf(c)] : c \in {u \in Uplink(n) : u.peer = m}}]
  /\ UNCHANGED <<conn_data, root_distance, faults>>

\* A client that cannot connect raises out of begin and ends the process.
BeginFails(n) ==
  /\ process[n] = "new"
  /\ n # Root /\ process[Attach[n]] # "running"
  /\ process' = [process EXCEPT ![n] = "ended"]
  /\ UNCHANGED <<status, conn_data, root_distance, packets_queue, faults>>

Pending == UNION {{<<n, w>> : w \in packets_queue[n]} : n \in Device}

\* A round of update_discrete: update_logic starts the clients that are off,
\* then the sends go out on the clients that are on.
Round(n, sends) ==
  /\ process[n] = "running"
  /\ status' = StartClients(n)
  /\ packets_queue' = Queues(n, packets_queue[n], sends, StartClients(n))
  /\ UNCHANGED <<process, conn_data, root_distance, faults>>

\* A round whose counter calls for no packet.
IdleRound(n) ==
  /\ \E c \in get_ch_clients(n) : status[c] = "off"
  /\ Round(n, {})

\* A round whose counter calls for packets; rounds are 0.3 to 2 seconds apart.
TimedRound(n, sends) ==
  /\ Cardinality(Pending) <= MaxPending
  /\ Round(n, sends)

PingRound(n, flag) == TimedRound(n, send_ping(n, flag))
TopoRound == TimedRound(Root, send_mesh_topo(Root))

---------------------------------------------------------------------------
(* process_packet: one action per kind of packet.  w is the popped tuple.  *)

\* The tuple is popped; other copies of a topology packet may still be on
\* their way, for append_mesh_topo sends it twice and every protocol once.
Rest(n, w) ==
  IF Copies /\ w.packet.type \in {"SendMeshTopo", "ReturnMeshTopo"}
  THEN {packets_queue[n], packets_queue[n] \ {w}}
  ELSE {packets_queue[n] \ {w}}

Pop(n, w, type) ==
  /\ process[n] = "running"
  /\ w \in packets_queue[n]
  /\ w.packet.type = type

\* process_make_client_type_1, then a ping on every client: the new one is
\* still off and sends nothing.
RecvMakeClient(n, w) ==
  /\ Pop(n, w, "MakeClient")
  /\ \E c \in Client :
       /\ c.dev = n /\ ServerOf(c) = w.packet.server
       /\ status' = [status EXCEPT ![c] = IF @ = "none" THEN "off" ELSE @]
  /\ packets_queue' = Queues(n, packets_queue[n] \ {w}, send_ping(n, FALSE), status)
  /\ UNCHANGED <<process, conn_data, root_distance, faults>>

\* recv_ping: a pong on every client, whoever the ping came from.
RecvPing(n, w) ==
  /\ Pop(n, w, "SendPing")
  /\ LET pong(c) == PongPacket(w.packet.hops + 1, w.packet.return_to_root,
                               w.packet.send_ping, w.server, c)
     IN  packets_queue' = Queues(n, packets_queue[n] \ {w},
                                 {<<c, pong(c)>> : c \in get_ch_clients(n)}, status)
  /\ UNCHANGED <<process, status, conn_data, root_distance, faults>>

\* recv_pong, process_ping_pong and, for a flagged ping that came back to the
\* device that sent it, return_ping_pong.
RecvPong(n, w) ==
  /\ Pop(n, w, "SendPong")
  /\ LET p == w.packet
         pp == PingPongPacket(p.hops + 1, p.return_to_root,
                              p.send_ping, p.recv_ping, p.send_pong, w.server)
         conn == process_ping_pong(n, pp)
         returned == /\ pp.return_to_root
                     /\ pp.send_ping.dev = pp.recv_pong.dev
                     /\ pp.recv_ping.dev = pp.send_pong.dev
     IN  /\ conn_data' = [conn_data EXCEPT ![n] = conn]
         /\ \E sends \in IF returned THEN RouteToRoot(n, pp, conn, root_distance[n])
                                     ELSE {{}} :
              packets_queue' = Queues(n, packets_queue[n] \ {w}, sends, status)
  /\ UNCHANGED <<process, status, root_distance, faults>>

\* check_ping_pong of a PingPongRoot packet: the root keeps it, others pass it
\* on.  Printing it raises (see PrintRaises).
RecvPingPongRoot(n, w) ==
  /\ Pop(n, w, "PingPongRoot")
  /\ w.packet.hops + 1 <= PingPrintHops
  /\ LET p == w.packet
         pp == PingPongPacket(p.hops + 1, p.return_to_root,
                              p.send_ping, p.recv_ping, p.send_pong, p.recv_pong)
     IN  /\ conn_data' = IF n = Root
                         THEN [conn_data EXCEPT ![n] = process_ping_pong(n, pp)]
                         ELSE conn_data
         /\ \E sends \in RouteToRoot(n, pp, conn_data[n], root_distance[n]) :
              packets_queue' = Queues(n, packets_queue[n] \ {w}, sends, status)
  /\ UNCHANGED <<process, status, root_distance, faults>>

\* check_mesh_topo of a flooded topology that n is not yet part of: n appends
\* itself, sends it to all its clients, records the distances and returns it.
AppendMeshTopo(n, w) ==
  /\ Pop(n, w, "SendMeshTopo")
  /\ n \notin OnPath(w.packet.path)
  /\ LET hops == w.packet.hops + 1
         path == Append(w.packet.path, n)
         dist == process_mesh_topo(n, path)
     IN  /\ root_distance' = [root_distance EXCEPT ![n] = dist]
         /\ \E rest \in Rest(n, w) :
            \E up \in RouteToRoot(n, TopoPacket("ReturnMeshTopo", hops, path),
                                  conn_data[n], dist) :
              packets_queue' =
                Queues(n, rest, ToClients(n, TopoPacket("SendMeshTopo", hops, path)) \cup up,
                       status)
  /\ UNCHANGED <<process, status, conn_data, faults>>

\* A flooded topology that n is part of already, sent back by a child: it is
\* not appended to, but return_mesh_topo is called all the same.
ReturnMeshTopo(n, w) ==
  /\ Pop(n, w, "SendMeshTopo")
  /\ n \in OnPath(w.packet.path)
  /\ \E rest \in Rest(n, w) :
     \E up \in RouteToRoot(n, TopoPacket("ReturnMeshTopo", w.packet.hops + 1, w.packet.path),
                           conn_data[n], root_distance[n]) :
       packets_queue' = Queues(n, rest, up, status)
  /\ UNCHANGED <<process, status, conn_data, root_distance, faults>>

\* check_mesh_topo of a returned topology: the root records it, others pass it
\* on.  Printing it raises (see PrintRaises).
RecvReturnMeshTopo(n, w) ==
  /\ Pop(n, w, "ReturnMeshTopo")
  /\ w.packet.hops + 1 <= TopoPrintHops
  /\ root_distance' = IF n = Root
                      THEN [root_distance EXCEPT ![n] = process_mesh_topo(n, w.packet.path)]
                      ELSE root_distance
  /\ \E rest \in Rest(n, w) :
     \E up \in RouteToRoot(n, TopoPacket("ReturnMeshTopo", w.packet.hops + 1, w.packet.path),
                           conn_data[n], root_distance[n]) :
       packets_queue' = Queues(n, rest, up, status)
  /\ UNCHANGED <<process, status, conn_data, faults>>

\* The loop of update_continous skips a popped packet when the queue holds the
\* same packet again, received on another server channel.
SkipDuplicate(n, w) ==
  /\ process[n] = "running"
  /\ w \in packets_queue[n]
  /\ \E v \in packets_queue[n] \ {w} : v.packet = w.packet
  /\ packets_queue' = [packets_queue EXCEPT ![n] = @ \ {w}]
  /\ UNCHANGED <<process, status, conn_data, root_distance, faults>>

---------------------------------------------------------------------------
(* Failures.                                                               *)

\* A datagram is lost, or a packet is left behind by the TCP listener.
Lose(n, w) ==
  /\ w \in packets_queue[n]
  /\ losses < MaxLosses
  /\ losses' = losses + 1
  /\ packets_queue' = [packets_queue EXCEPT ![n] = @ \ {w}]
  /\ UNCHANGED <<process, status, conn_data, root_distance, kills>>

\* An exception that leaves update() ends the process and its queue.
End(n) ==
  /\ process[n] = "running"
  /\ process' = [process EXCEPT ![n] = "ended"]
  /\ packets_queue' = [packets_queue EXCEPT ![n] = {}]
  /\ UNCHANGED <<status, conn_data, root_distance>>

\* print_packet passes two arguments to str_packet, which takes one.
Printed(packet) ==
  \/ packet.type = "ReturnMeshTopo" /\ packet.hops + 1 > TopoPrintHops
  \/ packet.type = "PingPongRoot" /\ packet.hops + 1 > PingPrintHops

PrintRaises(n, w) ==
  /\ w \in packets_queue[n]
  /\ Printed(w.packet)
  /\ End(n)
  /\ UNCHANGED faults

\* Variant: a failed send only switches the channel off.
SendSwitchesOff(n) ==
  /\ process[n] = "running"
  /\ \E c \in get_ch_clients(n) :
       /\ process[c.peer] = "ended"
       /\ status' = [status EXCEPT ![c] = "off"]
  /\ UNCHANGED <<process, conn_data, root_distance, packets_queue, faults>>

\* Connecting or sending to a process that has ended raises: refused or closed
\* connection, or refused datagram whose report raises in print_packet.  The
\* handler it interrupts has made some of its sends: those of the completed
\* handler, less the ones Lose takes away.
SendRaises(n) ==
  /\ \E c \in get_ch_clients(n) : process[c.peer] = "ended"
  /\ End(n)
  /\ UNCHANGED faults

\* The process is killed from outside.
Kill(n) ==
  /\ kills < MaxKills
  /\ kills' = kills + 1
  /\ End(n)
  /\ UNCHANGED losses

---------------------------------------------------------------------------
Handle(n, w) ==
  \/ RecvMakeClient(n, w)
  \/ RecvPing(n, w)
  \/ RecvPong(n, w)
  \/ RecvPingPongRoot(n, w)
  \/ AppendMeshTopo(n, w)
  \/ ReturnMeshTopo(n, w)
  \/ RecvReturnMeshTopo(n, w)
  \/ SkipDuplicate(n, w)

Fail(n) ==
  \/ \E w \in packets_queue[n] : PrintRaises(n, w) \/ Lose(n, w)
  \/ SendRaises(n)
  \/ Kill(n)

Next ==
  \/ \E n \in Device :
       \/ Begin(n)
       \/ BeginFails(n)
       \/ IdleRound(n)
       \/ \E flag \in BOOLEAN : PingRound(n, flag)
       \/ \E w \in packets_queue[n] : Handle(n, w)
       \/ Fail(n)
  \/ TopoRound

Spec == Init /\ [][Next]_vars

\* Every process keeps looping: its rounds come back, its queue is drained, and
\* it sends to its neighbours often enough to notice that one has ended.  Rounds
\* are strongly fair because MaxPending suspends them and the code does not; the
\* pings that are not returned to the root are not needed.
Drain(n) == \E w \in packets_queue[n] : Handle(n, w)

Fairness ==
  /\ \A n \in Device :
       /\ WF_vars(Begin(n) \/ BeginFails(n))
       /\ WF_vars(IdleRound(n))
       /\ WF_vars(Drain(n))
       /\ WF_vars(SendRaises(n))
       /\ SF_vars(PingRound(n, TRUE))
  /\ SF_vars(TopoRound)

FairSpec == Spec /\ Fairness

---------------------------------------------------------------------------
(* Properties.                                                             *)

TypeOK ==
  /\ process \in [Device -> {"new", "running", "ended"}]
  /\ status \in [Client -> {"none", "off", "on"}]
  /\ conn_data \in [Device -> SUBSET (Client \X Server)]
  /\ root_distance \in [Device -> [Channel -> Nat \cup {-1}]]
  /\ packets_queue \in [Device -> SUBSET Wrapper]
  /\ kills \in 0..MaxKills
  /\ losses \in 0..MaxLosses

\* The links a device has put together from ping-pongs are real: the server
\* channel is the one the client channel is connected to.  (process_ping_pong
\* trusts four channel names that three processes wrote into the packet.)
LinksReal ==
  \A n \in Device : \A link \in conn_data[n] : link[2] = ServerOf(link[1])

\* A path from the root down to a device, every hop a link of main.py.
IsDescent(path) ==
  /\ path # <<>>
  /\ path[1] = Root
  /\ \A i \in DOMAIN path : Depth[path[i]] = i - 1
  /\ \A i \in DOMAIN path : i > 1 => path[i] # Root /\ Attach[path[i]] = path[i - 1]

\* A topology never carries a path that turns back or skips a device, although
\* append_mesh_topo also sends it back to the device it came from.
PathsDescend ==
  \A n \in Device : \A w \in packets_queue[n] :
    w.packet.type \in {"SendMeshTopo", "ReturnMeshTopo"} => IsDescent(w.packet.path)

\* Every distance a device has recorded for a channel it knows is the true one.
DistanceTrue ==
  \A n \in Device : \A ch \in Channel :
    root_distance[n][ch] # -1 => root_distance[n][ch] = Depth[ch.dev]

\* route_packet sends ToRoot packets nowhere but to the device n attaches to, so
\* every such packet climbs and none can circle.
ToRootClimbs ==
  \A n \in Device : \A c \in get_ch_closer_to_root(n, conn_data[n], root_distance[n]) :
    n # Root /\ c.peer = Attach[n]

\* The hops of a returned packet are the links it has crossed, down to the last
\* device of its path and up again; a ping-pong crosses one link twice first.
HopsExact ==
  \A n \in Device : \A w \in packets_queue[n] :
    /\ w.packet.type = "SendMeshTopo" => w.packet.hops = Len(w.packet.path) - 1
    /\ w.packet.type = "ReturnMeshTopo" =>
         w.packet.hops = 2 * (Len(w.packet.path) - 1) - Depth[n] - 1
    /\ w.packet.type = "PingPongRoot" =>
         w.packet.hops = 2 + Depth[w.packet.send_ping.dev] - Depth[n] - 1

\* Only a mesh with a device deep enough to take that many hops can lose a
\* process to the report of a packet that has hopped too often.
PrintedOnlyIfDeep ==
  (\E n \in Device : \E w \in packets_queue[n] : Printed(w.packet)) =>
  \E d \in Device : 2 * Depth[d] > TopoPrintHops \/ Depth[d] + 2 > PingPrintHops

HasRoute(n) == get_ch_closer_to_root(n, conn_data[n], root_distance[n]) # {}

\* A way to the root is never lost again, whatever topologies and ping-pongs
\* arrive late, over other links or from processes that have ended since.
RoutesStay == [][\A n \in Device : HasRoute(n) => HasRoute(n)']_vars

AllRunning  == \A n \in Device : process[n] = "running"

\* Once every process is in its main loop, every device finds a way to the root,
\* unless one is killed.
RoutesFound == AllRunning ~> kills > 0 \/ \A n \in Device \ {Root} : HasRoute(n)

\* ... and the root learns every link of the mesh from the pings returned to it.
RootSeesMesh ==
  AllRunning ~> kills > 0 \/ \A c \in Client : <<c, ServerOf(c)>> \in conn_data[Root]

\* A mesh in which one process dies does not live on without it: sends to a dead
\* neighbour raise, so the death spreads from neighbour to neighbour.
OneEndsAll == kills > 0 ~> \A n \in Device : process[n] = "ended"
=============================================================================
