------------------------------ MODULE LinuxNode ------------------------------
(***************************************************************************)
(* One process of the Linux client in C++ and its list of channels.  The   *)
(* main thread connects to the parents and starts the server, the accept   *)
(* thread takes the children, every channel has a thread that receives.    *)
(* All of them use the std::list of the orchestrator without a lock.       *)
(*                                                                         *)
(* A channel is numbered in the order of creation.  Channels whose connect *)
(* failed are never used again and are left out.                           *)
(***************************************************************************)
EXTENDS Integers, Sequences, FiniteSets

CONSTANTS
  Host,     \* the devices clients_list names
  Hosts,    \* clients_list: the order they are tried in
  MaxChild  \* bound: children a process accepts

ASSUME NodeAssumption ==
  /\ MaxChild \in Nat
  /\ Hosts \in Seq(Host)
  /\ \A i, j \in 1..Len(Hosts) : Hosts[i] = Hosts[j] => i = j

VARIABLES
  proc,       \* "running", "exited" or "crashed"
  up,         \* hosts that accept connections
  made,       \* channels created so far
  kind,       \* what a channel is: "parent", "child" or "server"
  host,       \* the host a parent channel leads to
  sock,       \* its socket: "open", "lost" by the peer, "shut" by stop()
  on_recv_cb, \* whether set_receiver was called
  managed_to_send,
  thread,     \* its thread: "run" or "ended"
  next, tail, \* std::list: the successor of an element, the last element
  adder,      \* add_channel in the main and in the accept thread
  main,       \* where the main thread is: "loop", "scan", "server" or "router"
  tried,      \* hosts scan_clients is through with
  is_client_connected,
  is_server_started,
  overlap     \* history: two calls of push_back overlapped

chans == <<made, kind, host, sock, managed_to_send, thread>>
list == <<next, tail>>
loop == <<main, tried, is_client_connected, is_server_started>>
vars == <<proc, up, chans, on_recv_cb, list, adder, loop, overlap>>

\* The channels of one scan that finds hosts, the server and the children.
MaxChan == Len(Hosts) + 1 + MaxChild
Chan == 1..MaxChan
End == 0              \* the head of the list, before the first and after the last
None == "none"
Adder == {"main", "accept"}

\* The elements a loop over channels visits: following next from the head.
channels ==
  LET walk[n \in 0..MaxChan] == IF n = 0 THEN End ELSE next[walk[n - 1]]
  IN  {walk[n] : n \in 1..MaxChan} \ {End}

Parents == {c \in 1..made : kind[c] = "parent"}

\* Variant: the element is linked before it has its receiver.
LinkFirst == <<"read", "next", "tail", "set">>

\* The steps of add_channel: set_receiver, then push_back reads the tail, writes
\* the successor of the tail and writes the tail.
add_channel == <<"set", "read", "next", "tail">>

Idle == [chan |-> End, step |-> 0, tail |-> End]
Adding(c) == [chan |-> c, step |-> 1, tail |-> End]
At(a) == IF adder[a].step = 0 THEN "idle" ELSE add_channel[adder[a].step]

Init ==
  /\ proc = "running"
  /\ up \in SUBSET Host
  /\ made = 0
  /\ kind = [c \in Chan |-> None]
  /\ host = [c \in Chan |-> None]
  /\ sock = [c \in Chan |-> None]
  /\ on_recv_cb = [c \in Chan |-> FALSE]
  /\ managed_to_send = [c \in Chan |-> TRUE]
  /\ thread = [c \in Chan |-> None]
  /\ next = [c \in Chan \cup {End} |-> End]
  /\ tail = End
  /\ adder = [a \in Adder |-> Idle]
  /\ main = "loop"
  /\ tried = 0
  /\ is_client_connected = FALSE
  /\ is_server_started = FALSE
  /\ overlap = FALSE

\* A channel with its socket and its thread.
Create(k, h) ==
  /\ made < MaxChan
  /\ made' = made + 1
  /\ kind' = [kind EXCEPT ![made + 1] = k]
  /\ host' = [host EXCEPT ![made + 1] = h]
  /\ sock' = [sock EXCEPT ![made + 1] = "open"]
  /\ thread' = [thread EXCEPT ![made + 1] = "run"]
  /\ UNCHANGED managed_to_send

Dies == /\ proc' = "crashed"
        /\ UNCHANGED <<up, chans, on_recv_cb, list, adder, loop, overlap>>

---------------------------------------------------------------------------
(* add_channel, in the thread a.                                           *)

Done(a) == adder[a].step = Len(add_channel)
AtNext(a) == [chan |-> adder[a].chan, step |-> adder[a].step + 1, tail |-> adder[a].tail]
Step(a) == adder' = [adder EXCEPT ![a] = IF Done(a) THEN Idle ELSE AtNext(a)]

\* What the caller does when add_channel returns.
Return(a) ==
  IF a = "main" /\ Done(a)
  THEN /\ is_client_connected' = (is_client_connected \/ kind[adder[a].chan] = "parent")
       /\ is_server_started' = (is_server_started \/ kind[adder[a].chan] = "server")
  ELSE UNCHANGED <<is_client_connected, is_server_started>>

SetReceiver(a) ==
  /\ proc = "running"
  /\ At(a) = "set"
  /\ on_recv_cb' = [on_recv_cb EXCEPT ![adder[a].chan] = TRUE]
  /\ Step(a) /\ Return(a)
  /\ UNCHANGED <<proc, up, chans, list, main, tried, overlap>>

ReadTail(a) ==
  /\ proc = "running"
  /\ At(a) = "read"
  /\ adder' = [adder EXCEPT ![a].tail = tail, ![a].step = @ + 1]
  /\ overlap' = (overlap \/ \E b \in Adder \ {a} : At(b) \in {"next", "tail"})
  /\ UNCHANGED <<proc, up, chans, on_recv_cb, list, loop>>

LinkNext(a) ==
  /\ proc = "running"
  /\ At(a) = "next"
  /\ next' = [next EXCEPT ![adder[a].tail] = adder[a].chan]
  /\ Step(a)
  /\ UNCHANGED <<proc, up, chans, on_recv_cb, tail, loop, overlap>>

LinkTail(a) ==
  /\ proc = "running"
  /\ At(a) = "tail"
  /\ tail' = adder[a].chan
  /\ Step(a) /\ Return(a)
  /\ UNCHANGED <<proc, up, chans, on_recv_cb, next, main, tried, overlap>>

Add(a) == SetReceiver(a) \/ ReadTail(a) \/ LinkNext(a) \/ LinkTail(a)

---------------------------------------------------------------------------
(* The main thread: update of the scanner, then of the router.             *)

\* Variant: whether there is a parent is not looked at.
AlwaysScan == TRUE

\* Variant: it scans as soon as all parents are lost.
ScanIfLost == \A c \in Parents : sock[c] # "open"

\* The flag is set once and for all.
ToScan == ~is_client_connected

update ==
  /\ proc = "running"
  /\ main = "loop"
  /\ main' = IF ToScan THEN "scan" ELSE "server"
  /\ tried' = 0
  /\ UNCHANGED <<proc, up, chans, on_recv_cb, list, adder, is_client_connected,
                 is_server_started, overlap>>

Scanning == proc = "running" /\ main = "scan" /\ At("main") = "idle"

\* The host answers: its channel runs before it is added to the list.
Connect ==
  /\ Scanning
  /\ tried < Len(Hosts)
  /\ Hosts[tried + 1] \in up
  /\ Create("parent", Hosts[tried + 1])
  /\ adder' = [adder EXCEPT !["main"] = Adding(made + 1)]
  /\ tried' = tried + 1
  /\ UNCHANGED <<proc, up, on_recv_cb, list, main, is_client_connected,
                 is_server_started, overlap>>

\* Variant: the first host that does not answer ends the scan.
GiveUp == main' = "server" /\ tried' = tried + 1

\* What follows a host that does not answer: the next one.
TryNext == main' = main /\ tried' = tried + 1

ConnectFails ==
  /\ Scanning
  /\ tried < Len(Hosts)
  /\ Hosts[tried + 1] \notin up
  /\ TryNext
  /\ UNCHANGED <<proc, up, chans, on_recv_cb, list, adder, is_client_connected,
                 is_server_started, overlap>>

Scanned ==
  /\ Scanning
  /\ tried = Len(Hosts)
  /\ main' = "server"
  /\ UNCHANGED <<proc, up, chans, on_recv_cb, list, adder, tried, is_client_connected,
                 is_server_started, overlap>>

start_servers ==
  /\ proc = "running"
  /\ main = "server" /\ At("main") = "idle"
  /\ ~is_server_started
  /\ Create("server", None)
  /\ adder' = [adder EXCEPT !["main"] = Adding(made + 1)]
  /\ UNCHANGED <<proc, up, on_recv_cb, list, loop, overlap>>

\* The port is taken: exit(60).
ServerFails ==
  /\ proc = "running"
  /\ main = "server" /\ At("main") = "idle"
  /\ ~is_server_started
  /\ proc' = "exited"
  /\ UNCHANGED <<up, chans, on_recv_cb, list, adder, loop, overlap>>

ServerRuns ==
  /\ proc = "running"
  /\ main = "server" /\ At("main") = "idle"
  /\ is_server_started
  /\ main' = "router"
  /\ UNCHANGED <<proc, up, chans, on_recv_cb, list, adder, tried, is_client_connected,
                 is_server_started, overlap>>

\* send on the channels S: the socket of one that is shut throws, that of one
\* the peer has closed may.
Send(S) ==
  \E E \in SUBSET {c \in S : sock[c] = "lost"} :
    managed_to_send' = [c \in Chan |->
      managed_to_send[c] /\ c \notin E /\ ~(c \in S /\ sock[c] = "shut")]

\* RemRouter::update, when its looper is due: send_mesh_topo to the parents.
RouterUpdate ==
  /\ proc = "running"
  /\ main = "router"
  /\ main' = "loop"
  /\ Send(channels \cap Parents)
  /\ UNCHANGED <<proc, up, made, kind, host, sock, on_recv_cb, thread, list, adder,
                 tried, is_client_connected, is_server_started, overlap>>

\* Ctrl-C: sig_exit stops every channel of the list and exits.
sig_exit ==
  /\ proc = "running"
  /\ proc' = "exited"
  /\ sock' = [c \in Chan |-> IF c \in channels THEN "shut" ELSE sock[c]]
  /\ UNCHANGED <<up, made, kind, host, managed_to_send, on_recv_cb, thread, list, adder,
                 loop, overlap>>

Main == \/ update \/ Connect \/ ConnectFails \/ Scanned \/ start_servers
        \/ ServerFails \/ ServerRuns \/ RouterUpdate \/ Add("main")

---------------------------------------------------------------------------
(* The accept thread.                                                      *)

Listening == \E c \in 1..made : kind[c] = "server" /\ thread[c] = "run"

\* Variant: the accepted channel is not added.
AcceptOnly == UNCHANGED adder

\* The accepted channel is handed to add_channel.
AddAccepted == adder' = [adder EXCEPT !["accept"] = Adding(made + 1)]

\* init calls on_conn_start through conn_listener, which nobody set: the call
\* goes wherever the memory points to.
accept_loop ==
  /\ proc = "running"
  /\ Listening /\ At("accept") = "idle"
  /\ Cardinality({c \in 1..made : kind[c] = "child"}) < MaxChild
  /\ \/ /\ Create("child", None)
        /\ AddAccepted
        /\ UNCHANGED <<proc, up, on_recv_cb, list, loop, overlap>>
     \/ Dies

---------------------------------------------------------------------------
(* The thread of a channel c.                                              *)

Receiving(c) == proc = "running" /\ kind[c] \in {"parent", "child"} /\ thread[c] = "run"

\* Data: received() calls on_recv_cb, and the router forwards to the parents.
\* Before set_receiver the pointer holds what the memory held.
Receive(c) ==
  /\ Receiving(c)
  /\ sock[c] = "open"
  /\ \/ /\ on_recv_cb[c]
        /\ Send(channels \cap Parents)
        /\ UNCHANGED <<proc, up, made, kind, host, sock, on_recv_cb, thread, list, adder,
                       loop, overlap>>
     \/ ~on_recv_cb[c] /\ Dies

\* rcv returns 0: the channel is stopped, and stays in the list.
Close(c) ==
  /\ Receiving(c)
  /\ sock[c] = "lost"
  /\ managed_to_send' = [managed_to_send EXCEPT ![c] = FALSE]
  /\ sock' = [sock EXCEPT ![c] = "shut"]
  /\ thread' = [thread EXCEPT ![c] = "ended"]
  /\ UNCHANGED <<proc, up, made, kind, host, on_recv_cb, list, adder, loop, overlap>>

\* A report or a log sent on a connection its peer has closed can end the
\* process instead of raising: only SIGINT has a handler.
BrokenPipe ==
  /\ proc = "running"
  /\ \E c \in channels \cap Parents : sock[c] = "lost"
  /\ Dies

---------------------------------------------------------------------------
(* The other devices.                                                      *)

HostUp(h) ==
  /\ h \notin up
  /\ up' = up \cup {h}
  /\ UNCHANGED <<proc, chans, on_recv_cb, list, adder, loop, overlap>>

Lost(S) == sock' = [c \in Chan |-> IF c \in S /\ sock[c] = "open" THEN "lost" ELSE sock[c]]

HostDown(h) ==
  /\ h \in up
  /\ up' = up \ {h}
  /\ Lost({c \in Parents : host[c] = h})
  /\ UNCHANGED <<proc, made, kind, host, managed_to_send, thread, on_recv_cb, list,
                 adder, loop, overlap>>

ChildLeaves(c) ==
  /\ kind[c] = "child" /\ sock[c] = "open"
  /\ Lost({c})
  /\ UNCHANGED <<proc, up, made, kind, host, managed_to_send, thread, on_recv_cb, list,
                 adder, loop, overlap>>

Next ==
  \/ Main
  \/ sig_exit \/ BrokenPipe
  \/ accept_loop \/ Add("accept")
  \/ \E c \in Chan : Receive(c) \/ Close(c) \/ ChildLeaves(c)
  \/ \E h \in Host : HostUp(h) \/ HostDown(h)

\* The main thread is scheduled.
Spec == Init /\ [][Next]_vars /\ WF_vars(Main)

---------------------------------------------------------------------------
(* Properties.                                                             *)

TypeOK ==
  /\ proc \in {"running", "exited", "crashed"}
  /\ up \subseteq Host
  /\ made \in 0..MaxChan
  /\ kind \in [Chan -> {None, "parent", "child", "server"}]
  /\ host \in [Chan -> Host \cup {None}]
  /\ sock \in [Chan -> {None, "open", "lost", "shut"}]
  /\ on_recv_cb \in [Chan -> BOOLEAN]
  /\ managed_to_send \in [Chan -> BOOLEAN]
  /\ thread \in [Chan -> {None, "run", "ended"}]
  /\ next \in [Chan \cup {End} -> Chan \cup {End}]
  /\ tail \in Chan \cup {End}
  /\ adder \in [Adder -> [chan : Chan \cup {End}, step : 0..Len(add_channel), tail : Chan \cup {End}]]
  /\ main \in {"loop", "scan", "server", "router"}
  /\ tried \in 0..Len(Hosts)
  /\ {is_client_connected, is_server_started, overlap} \subseteq BOOLEAN

\* A channel the rest of the program can reach through the list has its
\* receiver: data that arrives too early, from a thread that was started
\* before add_channel, is a matter of the channels not yet listed.
ListedReceives == \A c \in Chan \cup {End} : next[c] # End => on_recv_cb[next[c]]

\* Whoever was added is reached by the loops over the list, unless two threads
\* were in push_back at the same time.
AddedIsListed ==
  overlap \/ \A c \in 1..made : (\A a \in Adder : adder[a].chan # c) => c \in channels

\* No host has two connections of this process, whatever the hosts and the
\* scans do: a scan that finds a host ends all scanning.
OneLinkPerHost == \A c, d \in Parents : host[c] = host[d] => c = d

\* A process that lost all its parents after the scan that found them never
\* gets one again, whoever accepts connections: nothing resets
\* is_client_connected, on_conn_lost only writes a log line.
Orphaned ==
  /\ is_client_connected /\ main # "scan"
  /\ \A c \in Parents : sock[c] # "open"

NoParentAgain == [][Orphaned => Orphaned']_vars

\* A host that stays up is found, whatever the hosts before it in the list do:
\* the process has a parent in the end, or has died.
FindsParent ==
  \A h \in Host : []<>(h \notin up) \/ <>(is_client_connected \/ proc # "running")
=============================================================================
