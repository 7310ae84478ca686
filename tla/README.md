# RespirMesh: models, checks and proofs

RespirMesh is a "centralized network mesh": devices connect to each other over
TCP (and UDP), find out how far each of them is from a root, and pass reports up
to it. The repository holds three programs that share the idea and little code:
a mesh written in Python, a C++ client for Linux and the ESP8266, and a Go server
that shows the mesh to a web viewer. This directory holds TLA+ models of their
logic, TLC runs that check small instances, and TLAPS proofs for all instances.

## 1. Inventory

### Python mesh (`RemPythonCommon`, `RemPythonClient`, `ServerPython`)

One process per device. Its main thread calls `update()` for ever: empty
`packets_queue` (`update_continous`), then, 0.3 to 2 seconds after the last time,
one round of `update_discrete`. Every server channel has listener threads that
append to `packets_queue`.

| part | state | operations | must hold |
|---|---|---|---|
| `RemOrchestrator.py` | channels with status, uuid, `root_distance`; `conn_data`; the two queues | start channels, answer MakeClient, link channels, record distances, find channels closer to the root | links are real, distances are true, every device finds a way to the root |
| `RemRouter.py` | none of its own; packets | ping, pong, returned ping-pong, flooded and returned topology, `route_packet` | packets to the root climb, paths are true paths, hop counts are right |
| `packets_queue` | a list | append (listeners), pop and compare (main thread) | nothing lost, nothing processed twice, emptied in the end |
| `OSI4Tcp*`, `OSI4Udp*` | sockets | connect, send, receive, split into packets | whole packets in the order sent |
| `RemHeaderTypes.py` | - | header fields, size, printing | size as `get_size` reads it |
| `OSI2FileScanner.py`, `client_local_2` | files, one per node | look for a node that is connected to the root, connect, rewrite the file | a node does not connect to itself or to a cycle |
| `RemDebugger.py`, `RemServer.py`, `RemLogger.py`, `utils.py`, `RemHardwareMock.py` | - | output | - |

Parts interact through calls in one thread, except that listener threads append to
the queue, and that processes send packets to each other. Hard: pings, pongs and
topologies of all devices overlap; distances and links are learnt in any order;
packets are copied at every hop; datagrams are lost; a process that ends makes its
neighbours raise.

### Go server (`ServerGo`)

| part | state | operations | must hold |
|---|---|---|---|
| `RemTopology.go` | nodes, edges with the time of their last report; a WaitGroup | obtain node or edge, delete the expired ones, list them as JSON | what is reported stays, what is not goes, nothing twice, no panic |
| `RespirMeshServer.go` | session id | split bytes into packets, dispatch, keep the root alive | whole packets only |
| `tcp_server.go` | map of connected clients | accept, read, remove | a closed client is not listed |
| `RemLogs` | - | write to InfluxDB | - |

Every connection, the root's timer, the cleaner and every web viewer are goroutines
of their own that share the topology. Hard: they overlap, and a WaitGroup, which
is no lock, is all that separates them.

### C++ clients (`RemCppCommon`, `RemClientCPP`)

| part | state | operations | must hold |
|---|---|---|---|
| `RemRouter.cpp`, `RemLogger.cpp` | a packet buffer each | report to the parents, rewrite and pass on a child's report, pass on packets for the root, send logs | a report names the link it came over; nothing is lost unseen |
| `RemOrchestrator.cpp` | list of channels | add, receive, stop | who was added is reached, and has a receiver |
| `TaskLooper.cpp` | next time, interval | check, start, now, stop, set | fires once an interval, never when stopped |
| `X86Linux*Channel.cpp`, `SimpleListChnCtrl.cpp` | sockets, a thread per channel, flags | connect to every host that answers, accept, receive | a parent is found; no host is connected to twice |
| `SimpleWiFiScanner.cpp`, `EspAsync*`, `ClientEsp8266.ino` | state of the WiFi client, scan results, loopers, channels | scan, connect, get an address, disconnect, start an access point | the strongest access point is joined, and joined again |
| `ClientEsp_OLD.ino` | flags, tasks, one buffer, list of children | the same in one sketch, with children that connect | the list is right, rounds are whole, the parent is reached again |
| `client_r1`, `client_t`, `SimpleNetwork` | superseded | - | - |

On Linux the main, accept and receiving threads share the list of channels and the
packet buffer without a lock. On the ESP8266 there is one thread, but callbacks
run wherever it yields, that is, in the middle of an update. Hard: what is read
before such a point is used after it; flags are set in one callback and reset in
another; one device passes on what another cut or damaged.

## 2. Modules

| module | models | used by |
|---|---|---|
| `RemMesh` | the Python mesh: orchestrators, routers and channels of all devices | `RemMeshMC`, `RemMesh_proofs` |
| `PacketsQueue` | the queue of one device, its threads | `PacketsQueue_proofs`; implements `Inbox` |
| `Inbox` | what the queue promises to the router | `PacketsQueue` |
| `TcpListener` | one TCP connection: bytes in, packets out | `TcpListenerMC`, `TcpListener_proofs` |
| `RemTopology` | the Go topology, one call after the other | `RemTopologyMC`, `RemTopology_proofs`; implements `Directory` |
| `Directory` | what the topology promises to devices and viewers | `RemTopology` |
| `TopologyCalls` | the Go topology's nodes, calls that overlap | `TopologyCalls_proofs` |
| `TaskLooper` | the C++ looper and the loop that checks it | `RemCppCommon_proofs` |
| `LinuxNode` | one process of the Linux client: threads, channels, list | `LinuxNodeMC`, `LinuxNode_proofs` |
| `RemReports` | packets of a mesh of C++ clients on the way to the Go server | `RemReportsMC`, `RemCppCommon_proofs` |
| `WiFiScanner` | the WiFi of an ESP8266 client | `WiFiScannerMC`, `RemCppCommon_proofs` |
| `EspOld` | the first ESP8266 sketch | `EspOld_proofs` |

`RemCppCommon_proofs` holds the proofs about three components that share
lemmas on sequences and on loops over arrays; it extends all three modules, which is
why `TaskLooper` and `WiFiScanner` have their names in front of Init, Next, Spec and
TypeOK (`LooperSpec`, `WiFiTypeOK`).

Operators named `... Variant: ...` in a comment change one definition the way a
mistake in that code would. No specification uses them; they are there to see that
a property notices the mistake.

### RemMesh

State: `process[n]` (not begun, in its loop, ended), `status[c]` of client channels
("none" until MakeClient makes one), `conn_data[n]`, `root_distance[n]` and
`packets_queue[n]`. Each handler of `process_packet` is one action; it runs to
completion in the main thread and only touches its own process and the queues of
others. `packets_queue[n]` is the *set* of tuples queued at `n` or in flight to it,
for three reasons: the queue is popped from the end it is appended to, links are
independent, and `append_mesh_topo` sends every topology twice. With `Copies` a
handled topology may stay in the set, that is, come again any number of times.
A round takes `update_logic` and one kind of sending; a round that pings and floods
is two rounds with nothing in between.

`Lose` removes a packet (a lost datagram, or the last packet of a combined read, see
`TcpListener`). `SendRaises` ends a process whose neighbour has ended;
`PrintRaises` ends one that prints a packet. Simplifications: uuids are unique;
server channels listen once `start_auto` has returned; the packet kinds no code
makes (ToEdges, Back, ToParent) are left out.

### PacketsQueue and Inbox

A step per list operation: append in a listener thread; pop, compare with one
element, decide in the main thread. `Inbox` knows packets that wait and the one
that is handled. The refinement mapping (`waiting`, `handling`) counts the popped
tuple as waiting until the loop over the list has decided; a skip is then a
stutter, because a copy is still in the list.

### TcpListener

Bytes are positions in the stream, data is a span of positions, so that splitting
is arithmetic and contents only matter for `top_pack_ in splited_packets`. `Recv(k)`
takes any k bytes there are. Reading a size in the middle of a packet gives any
value. `astray` records that more packets than are split off came with one read
that ended inside a packet; from then on the listener reads sizes from the middle
of packets, and the properties that need boundaries say so.

### RemTopology and TopologyCalls

`RemTopology` keeps node and edge objects in a heap, because edges keep pointing to
node objects that have been deleted, and the two slices as sequences of references
with nil. A pass is one step per element, with the slice's length at its start and
now. Time is an age in ticks that stops past the limit.

`Directory` is what a device that reports and a viewer that asks know of it: a set
of ids with ages and a set of links, by the ids of their ends, with ages. `devices` and
`links` of `RemTopology` read them off the lists. A call of `Handle` or
`UpdateRootNode` is one step of the directory and a tick is one; in a pass, deleting an
element is one, and beginning, going past an element and cutting off the nils stutter.

`TopologyCalls` takes `ObtainNode`, `AssembleJSON` and the node loop apart at the
shared accesses, with the WaitGroup as the Go library has it: Wait returns at 0 or
sleeps; the last Done lets all sleepers go; one that wakes up and finds the counter
raised panics. The array behind the slice is shared and never copied; a lookup's
loop is one step. The pass ranges over the slice in its old length and indexes the one
it has shortened, which panics when the index is past its end.

### TaskLooper

The clock is a number below `Width` (2^32 in the code) that wraps around; `next_ts`
is one as well, `Stopped` is the -1 of `stop()`. The loop is `check`, which answers
true (`Fire`, which reads the clock a second time) or false (`Quiet`), and a
`Sleep`; the owner's calls come at any time between. `mode`, `at`, `wait` and
`age` are history, so that properties can speak of real time.

### LinuxNode

The main thread's update is taken apart where another thread can act: a connect
per host, the steps of `add_channel`, the server, the router. `push_back` is
three steps (read the tail, link, write the tail), because the accept thread does
the same without a lock; `channels` is what a loop over the list reaches. What is
undefined in C++ ends the process (`Dies`): data before `set_receiver`, and the
unset listener of an accepted channel, which may also do nothing. A send on a connection the
peer has closed raises or, as SIGPIPE has no handler, ends the process. Channels
whose connect failed are never used again and are left out; logs sent over a
channel are treated as other sends (they change only `managed_to_send`, which only
`clean_channels` would read, which nothing calls).

### RemReports

A link is a sequence of units, a read takes any number of them: packets are glued
and cut as 64-byte reads do. A report is one unit, a log several. A read whose first header
says TO_ROOT is passed on whole, the reports behind it unread: they are "joined", and
reach the server with the target they had. Building a
report in the shared buffer is `Header`, `Body` and a `SendTo` per parent, for
each thread of a device; a copy sent while another thread has written is
`Damaged`. A gluing read that does decode is damaged too. The server takes what the
size field in front says. `reports`, the paths in packets, `lost` and `mixed` are
history: `Accounted` looks for every report on every path.

### WiFiScanner and EspOld

One action per stretch of the loop between two points where the ESP8266 core
yields (`pc`), and one per callback, which may run at those points only. The SDK is
external: `scan`, `found`, `target`, `link`, `ip` are what it is taken to do; a new scan
deletes the results of the last; a station that is told to join something else
leaves what it has. Loopers and tasks may be due at any time. In `WiFiScanner` the
access points and the order of results are free, and the loop that indexes the
results and the two nested ones that sort them are recursive functions over their
rounds; in `EspOld` only whether a valid
one is in range, and the scan's sort is left to `WiFiScanner`, whose code is
the same.

## 3. Runs

| run | shows | bounds |
|---|---|---|
| `mesh_two_protocols` | `LinksReal` | root - 110 over TCP and UDP, one loss; a round may start with 1 packet pending; topologies are printed after 1 hop |
| `mesh_chain_fair` | `PathsDescend`, `DistanceTrue`, `PrintedOnlyIfDeep`, `RoutesStay`, `RoutesFound`, `RootSeesMesh`, `OneEndsAll` | root - 110 - 210 over TCP, rounds one after the other, one kill; limits of 4 hops instead of 50 and 200 |
| `queue` | `ImplementsInbox`, `Drained` | 2 packets, 2 listeners, 3 queued |
| `tcp_listener` | `WholePackets`, `ChunkServed` | sizes 2 and 3, 11 bytes, 9 per read, 2 splits |
| `topology` | `NoPanic`, `ListedOnce`, `LinksHaveNodes`, `FreshStays`, `ImplementsDirectory`, `ExpiredLeave` | 3 ids, 3 links, age limit 1, 5 node and 3 edge objects |
| `topology_calls` | `TypeOK`, `CallsReturn` | 2 callers and the cleaner, 2 ids, 3 nodes |
| `topology_calls_nil` | `NilIfNone` fails | the same |
| `task_looper` | `NotMissed`, `FiresAgain` | clock of 10 values, periods 2 and 5, rounds of up to 2 |
| `linux_node` | `ListedReceives`, `AddedIsListed`, `OneLinkPerHost`, `NoParentAgain`, `FindsParent` | 2 hosts that come and go, 1 child |
| `reports` | `ReportsSound`, `Accounted`, `NotTwice` | leaf below near, near below top, top below mid and the server, mid below the server; one report of leaf and of near, one log of leaf of 2 units, reads of 3 units |
| `wifi` | `WiFiTypeOK`, `Selection`, `NoNeedlessJoin`, `ApOnLeasedChannel`, `Reconnects` | 2 valid access points and a stronger one that is not, 2 channels |
| `esp_old` | `TypeOK`, `ChildrenListed`, `OwnPacketWhole`, `ApInTime`, `Reconnects` | 2 children, array of 2, access point after 1 round instead of 10 |

Why the bounds are enough: three devices in a chain is the smallest mesh with a
packet that is routed by a device that neither made nor wants it, with a topology
that turns back, and with a returned ping-pong. A hop limit of 4 is
just what a chain of three can reach; the limit of 1 in
`mesh_two_protocols` is passed, so that printing happens. 11 bytes hold
four packets, more than are split off one read. Three edges are enough for one to
be moved by a pass and skipped; ids and objects differ once a node has been deleted
and reported again, which takes four node objects. The looper's clock wraps within
two periods, and a round of 2 can step over a deadline. Two hosts are the fewest of
which one fails before another answers; one child puts a second thread into
`push_back`. leaf, near, top and mid are the smallest mesh in
which a report is made in one device, rewritten in the next, passed on unread by the
third over two ways, one of them through a fourth, and in which two
threads meet in one buffer; a read of three units takes a log of two and joins or
glues what is behind it, or cuts the log. Two leases fill the channels, so that a third
overruns them. With two children the first to leave moves the other.

CHECK_DEADLOCK is off where the system may stop: processes that have all ended, a
connection that is closed, objects used up, a server that has panicked, reports
that are all sent, a channel array that was overrun.

### Fairness

Processes and goroutines loop for ever, so steps that stay possible are taken (weak
fairness): begin, handling the queue, starting channels that are off, noticing a
dead neighbour, passes of the cleaner, the loops of `TaskLooper`, `LinuxNode` (its
main thread only), `WiFiScanner` and `EspOld`. Nothing is assumed of neighbours,
callers, children or losses. The rounds of `RemMesh` are strongly fair: in the code
their time comes whatever is pending, while `MaxPending` suspends them until few
packets are; only the rounds whose pings are returned to the root are needed. The
liveness run has no losses and `Copies` FALSE: a set of packets of which copies
may come again without end has behaviours that handle the same packet for ever.

In `WiFiScanner` and `EspOld` strong fairness stands for time: loopers and tasks are due
once in an interval though the loop passes the point where they are asked again
and again; a scan ends; an access point or a parent that is reached again and
again answers sooner or later. That is more than the code can promise of a
radio, and `Reconnects` excepts what could still prevent it: an access
point that does not stay, links that break for ever, and a scan that is always
overtaken by the next one.

### Findings

`GetNodeFromID` is to return "nil if none" (`RemTopology.go:104`) and panics when it
meets the nil that a pass is about to cut off (`topology_calls_nil`).

Not findings, as no comment or test says otherwise, but worth knowing:

- `OneEndsAll`: one dead Python process ends the mesh.
- `ChunkServed`: the last packet of a combined read is always lost.
- `Drained` assumes that neighbours fall silent: while packets arrive as fast as
  they are handled, `update_discrete` is not called.
- A stale edge survives its pass and is only removed by a later one (`ExpiredLeave`).
- `NoParentAgain`: a Linux client that lost its parents never looks for one again.
- `Accounted`: a report is lost or damaged whenever a read returns more than it, or
  two threads build reports at once.
- `FiresAgain` excepts deadlines at the ends of the clock: 0 and -1 are never due.
- `Reconnects` of `WiFiScanner` ends with the array of channels: the ninth lease
  writes behind it.
- `ApInTime`: the access point of the old sketch is not started again once a lost parent ended it.

## 4. Proofs

All are of safety, for all values of the constants within the assumptions stated in
the module (`MeshAssumption`, `QueueAssumption`, `StreamAssumption`,
`LooperAssumption`, `NodeAssumption`, `TopologyAssumption`, `CallsAssumption`,
`ReportsAssumption`, `ScannerAssumption`, `EspOldAssumption`), and checked to the last leaf.

- `RemMesh_proofs`. None of the mesh properties is inductive alone. `MeshInv` adds
  to the type invariant what every packet in a queue means: the channels in a ping
  or pong are the ends of the links it crossed so far, a topology's path is a
  descent that ends at the sender or above, hops are determined by kind and place.
  From it: `TypeCorrect`, `LinksAreReal`, `DistancesAreTrue`, `TopologiesDescend`,
  `ToRootPacketsClimb`, `HopsAreExact`, `ShallowMeshNeverPrints`. The argument for
  climbing: true distances along real links are depths, and of two linked devices
  the one that is less deep is the one attached to. `RoutesAreKept` is a property of
  steps: a device only adds to its links and distances, and since a recorded distance is
  the true one, a later topology cannot overwrite it with another (`DistancesStay`);
  this is the half of `RoutesFound` that needs no fairness.
- `PacketsQueue_proofs`. `QueueInv` is types, the bound of the loop's index, and
  `SkipOnlyCopies` itself; then each step maps to a step or a stutter of `Inbox`
  (`QueueImplementsInbox`). The skip needs that a copy is still in the list, which
  holds because only the main thread removes.
- `TcpListener_proofs`. `WholeInv` says that sent packets tile the stream without
  gap or overlap, that the listener stands at the start of a packet unless it is
  astray, and that what it has split off lies within the current read.
  `WholePackets` and `InOrder` follow. `ChunkServed` (`ServesTheChunk`) is about
  what is not there any more when it is asked for, so `DueInv` says it of every stage: no
  two packets share a byte; while a read is split, the packets that end where the rest
  begins are in hand, and are as many as tries have been used (`Splitting`); when the
  splitting ends, what is due and not in hand would have had to use a try of its own, or
  is the last packet. What is in hand goes to the router and stays there.
- `RemCppCommon_proofs`, `TaskLooper`. `LooperInv` ties `next_ts` to the last call and the clock to its
  age: until the clock wraps around it shows the time of the call plus the age.
  Each property is then arithmetic in one step: a true `check` has `clock > next_ts`,
  which is the period past unless the sum wrapped (`FiresInTime`); a false one has
  not, unless the clock wrapped (`MissedOnlyAcrossWrap`); of a stopped looper no clock is larger
  than -1 (`StoppedStays`).
- `RemCppCommon_proofs`, `RemReports`. `ReportsInv` says of every report on a link, in
  a buffer and in the hands of a thread that its path is a way through the mesh from its source
  to where it is, that its target is the first device on that way that did not join it
  to a packet in front, and that a damaged one stands beside a recorded overlap or
  gluing; a buffer without an overlap holds what its one thread has written. This gives
  `ReportsAreSound`. For the two history properties a report that stands
  somewhere is a copy: its source, number and path. `OneEach`: no place holds two copies of
  which one is on the way of the other, and no two places do (a unit on a link, a parent a
  thread has still to send to, a report at the server). A step moves copies from
  place to place, or makes each one step longer for each parent; those sent to different
  parents have parted and do not meet (`Forks`, `GrowsApart`). `NotTwice` follows.
  `AllAccounted`: along each way to the root some copy of each report stands
  in a place or among the lost. A step that takes it from its place passes it on to
  every parent of the device it has come to (`PassesOn`), one of which is next on the way.
  Nothing is assumed of the mesh: cycles are allowed.
- `RemCppCommon_proofs`, `WiFiScanner`. What the loops compute is proved without
  induction over an operator: `LoopExists` shows that the recursive function of a
  loop exists, and `Reaches` that what holds before round 1 and is kept by each round holds after
  all of them, by taking the first round after which it does not. So what is kept are valid
  results (`KeptIn`), each round of the inner sort leaves the strongest so far in
  front (`SortedFirst`) and the first of the sorted is the strongest
  (`SelectsStrongest`). `WiFiInv` carries that over the yields: results
  live as long as the state says so (`SelectInv`), no scan goes on between the look at
  the state and the join (`ConnectInv`), the station is on the channel of its target
  (`StationInv`), and a lease has left it in `chClients` (`ServerInv`).
- `LinuxNode_proofs`. `ReceiverInv` adds to `ListedReceives` where each thread is in
  `add_channel`: from the second step on its channel has a receiver, and the tail it
  read is an element; so whatever two threads overwrite of each other, only channels with
  receivers are linked (`ReceiverBeforeLink`). `ParentInv` says that the parents are
  those the running scan has come past, or that `is_client_connected` is set or about
  to be; a host is thus connected to once (`OneLink`). `Orphaned` is
  kept by every step, since only a scan makes parents, and `update` starts none while the
  flag is set (`OrphanedForGood`). For `AddedIsListed` (`AddedAreListed`), `ListInv`
  says that, as long as no two threads were in push_back together, the links form a chain
  from head to tail without a loop (`Chain`), in which every channel is but the ones a thread
  is adding; a thread there has read the true tail, and links behind it (`Alone`). The recursive walk of `channels` follows the
  chain, by the argument of the first step that does not, and the chain has no more
  elements than there are channels, so the walk is long enough.
- `RemTopology_proofs`. `TopoInv` is the type, `ListedOnce`, the length of the slice a
  pass shortens (`Shortened`: nil exactly behind `live`), and `Backed`, the
  strengthening of `LinksHaveNodes`: the nodes of a link that has not expired are not
  only listed, but not older than the link. A report makes the link and its nodes
  young together, time makes all older alike, and so the pass over the nodes, which
  comes last, cannot take a node from a link that has stayed. `GoodGraph` is kept by
  each of the nested calls of `Handle` (`ObtainNodeGood`, `ObtainEdgeGood`). A step of
  a pass only takes from a list (`Remains`), which gives `FreshKept`.
  `TopologyImplementsDirectory` is the refinement. Each nested call renews its entries
  one by one (`ObtainNodeShown`, `ObtainEdgeShown`) and together they make the one step
  `Reported` (`HandleShown`): `ObtainEdge` then updates the node objects of the edge
  again, which may be deleted ones or young already, and neither shows
  (`TouchedUnseen`). That a deletion removes one entry and no more, although links are
  shown by the ids of nodes, is `ListedOnce` (`SwapOutListed`, `CleanShown`).
- `TopologyCalls_proofs`. `CallsInv` counts: the counter of the WaitGroup is the number of
  callers between Add and Done, which needs `Caller` to be finite; the index of the pass
  and the end of the slice stay inside the array although others append.
- `EspOld_proofs`. `EspInv` says that the first `chClientsCnt` elements are the list of
  connected children (`Covered`) and that no child is in it twice, so
  the search over the whole array, which may meet a pointer left behind the
  count, stops at the right element first (`ListedChildren`). For the
  access point, `runs` is the number of rounds since the last reset, and a request stands
  only before the first start (`StartInv`). A round is whole (`RoundsAreWhole`) because only
  what fills the buffer leads to the write, and no callback runs between the two.

Proved and in no run (they are weaker for a reader than what the runs check): the
type invariants of `RemMesh`, `PacketsQueue`, `TcpListener`, `RemTopology`, `TaskLooper`,
`LinuxNode` and `RemReports`, `ToRootClimbs`, `HopsExact`, `SkipOnlyCopies`, `InOrder`, `StoppedNeverFires`, `NotEarly`,
`OneEach`.

Every invariant and every safety action property that a passing run checks is proved.
Model-checked only is liveness: `RoutesFound`, `RootSeesMesh`, `OneEndsAll`,
`Drained`, `ExpiredLeave`, `CallsReturn`, `FiresAgain`, `FindsParent`, both
`Reconnects`. Liveness under fairness and ENABLED are out of the
provers' reach. So are the library's theorems of induction, which take an operator
as a parameter; where a loop or a walk had to be followed, the proofs take the first
round at which the claim fails instead, which the well-foundedness of the natural numbers
(a theorem without such a parameter) provides.

## 5. Not modelled

Output and formatting; generated protobuf code; the Python file scanner and its
client, which nothing modelled uses. Of the legacy C++: `client_t` does not compile
against this commit, `client_r1` never handles what its server accepts,
`RespirWifi.hpp` and `ChannelController.hpp` are used by nothing, `SimpleNetwork` is a
library. Of `RemCppCommon`: `clean_channels` and `is_ok`, which nothing calls, packets to
neighbours, which nothing makes, and the lengths of log texts. Of the
Python mesh: the loss of the MakeClient packet is modelled, but no property
promises routes after it, because the code never sends it again; collisions of
random uuids. Of the Go server: data races finer than a statement, and its map of
clients, which nothing reads. Of the ESP8266: what the SDK does beyond the
callbacks the code registers.

## 6. Plan

1. Abstract specifications of `RemReports` and `TopologyCalls` with refinements, and the
   step properties that the liveness of `RemMesh` and `TaskLooper` rests on.
2. `onNewBytes` of the Go server with reads that end inside a packet, composed with
   `RemReports` on one side and `RemTopology` on the other.
3. Python: `OSI2FileScanner` with the files of `client_local_2`.
4. A composition of `PacketsQueue` and `TcpListener`: what reaches the router of what
   was sent.
