------------------------------ MODULE RemReports ------------------------------
(***************************************************************************)
(* The packets of a mesh of Linux clients in C++ on their way to the root: *)
(* the topology reports a device sends to its parents, which name          *)
(* themselves as the target and send them on to the root, and the logs.    *)
(*                                                                         *)
(* A link is a stream.  The receiving thread takes up to MaxRead units off *)
(* it, whatever packets they belong to, and routes them by the header it   *)
(* sees in front.  A unit of a packet is [packet, idx, front]: idx is 1    *)
(* for the unit with the header, front holds for the unit the last sender  *)
(* put its size into, which is what the server at the root splits by.      *)
(*                                                                         *)
(* All threads of a device build reports in the one pb_buffer of the       *)
(* router.                                                                 *)
(*                                                                         *)
(* The number and the path in a report are history.                        *)
(***************************************************************************)
EXTENDS Integers, Sequences, SequencesExt, FiniteSets

CONSTANTS
  Device,   \* devices running the C++ client
  Root,     \* the server
  Up,       \* parents of a device: the channels with connected_to_root
  MaxRead,  \* units one read returns at most: 64 bytes, a report is one unit
  LogSize,  \* units of a log
  Reports,  \* bound: reports a device sends
  Logs      \* bound: logs a device sends

ASSUME ReportsAssumption ==
  /\ Root \notin Device
  /\ {"none", "main", "log"} \cap Device = {}
  /\ Up \in [Device -> SUBSET (Device \cup {Root})]
  /\ {MaxRead, LogSize} \subseteq Nat \ {0}
  /\ Reports \in [Device -> Nat] /\ Logs \in [Device -> Nat]

VARIABLES
  stream,    \* stream[n][p]: units on their way from n to its parent p
  pb_buffer, \* the report in the buffer of a device
  job,       \* what a thread of a device does with it
  reports, logs,  \* how many a device has sent
  arrived,   \* reports the server got
  lost,      \* reports that went down with what they were read together with
  mixed      \* what has happened in which device: "overlap" of threads, "glued"
             \* reads of a report, packets that were "joined" on the way to the root

vars == <<stream, pb_buffer, job, reports, logs, arrived, lost, mixed>>

None == "none"

\* Reports, in the buffer and on the way.  fwd is the ForwardingType.
Report(fwd, src, tgt, num, path) ==
  [fwd |-> fwd, src |-> src, tgt |-> tgt, num |-> num, path |-> path, ok |-> TRUE]
NoReport == Report(None, None, None, 0, <<>>)
Damaged(r) == [r EXCEPT !.ok = FALSE, !.num = 0, !.path = <<>>]

\* A log: TO_ROOT, its text is not modelled.
LogPacket == Report("TO_ROOT", "log", None, 0, <<>>)
IsLog(r) == r.src = "log"

Unit(r, i) == [packet |-> r, idx |-> i, front |-> i = 1]

\* The reports that begin in the units u.
In(u) == {u[i].packet : i \in {j \in 1..Len(u) : u[j].idx = 1}}
Good(R) == {r \in R : ~IsLog(r) /\ r.ok}

\* A copy of a report: the device and the path it came on.
Copy(r) == [src |-> r.src, num |-> r.num, path |-> r.path]
Copies(R) == {Copy(r) : r \in Good(R)}

Main == "main"
Children(n) == {m \in Device : n \in Up[m]}
Threads == {t \in Device \X (Device \cup {Main}) : t[2] = Main \/ t[1] \in Up[t[2]]}

Idle == [step |-> 0, report |-> NoReport, todo |-> {}]

Init ==
  /\ stream = [n \in Device |-> [p \in Up[n] |-> <<>>]]
  /\ pb_buffer = [n \in Device |-> NoReport]
  /\ job = [t \in Threads |-> Idle]
  /\ reports = [n \in Device |-> 0]
  /\ logs = [n \in Device |-> 0]
  /\ arrived = {}
  /\ lost = {}
  /\ mixed = {}

---------------------------------------------------------------------------
(* Sending.                                                                *)

\* The units on their way to p have p on their path.
To(p, u) == [i \in 1..Len(u) |->
  IF u[i].packet \in Good({u[i].packet}) THEN [u[i] EXCEPT !.packet.path = Append(@, p)] ELSE u[i]]

\* The size in the first header is set to the size of the whole.
set_size(u) == [i \in 1..Len(u) |-> [u[i] EXCEPT !.front = i = 1]]

\* Every channel with connected_to_root gets the units u, on top of what is in s.
ToParents(s, n, u) == [s EXCEPT ![n] = [p \in Up[n] |-> @[p] \o To(p, set_size(u))]]

\* The logger sends a packet to the root from its own buffer.
send_log_packet(n) ==
  /\ logs[n] < Logs[n]
  /\ logs' = [logs EXCEPT ![n] = @ + 1]
  /\ stream' = ToParents(stream, n, [i \in 1..LogSize |-> Unit(LogPacket, i)])
  /\ UNCHANGED <<pb_buffer, job, reports, arrived, lost, mixed>>

Overlaps(n) == IF \E t \in Threads : t[1] = n /\ job[t].step # 0 THEN {<<"overlap", n>>} ELSE {}

---------------------------------------------------------------------------
(* A report is built in the buffer and sent to one parent after another.   *)

\* Variant: handle_mesh_topo sends before it has encoded.
SendFirst == <<"header", "send", "body">>

\* What is done to the buffer, in this order.
Steps == <<"header", "body", "send">>
At(t) == IF job[t].step = 0 THEN "idle" ELSE Steps[job[t].step]

Done(j) == IF j.step = Len(Steps) THEN Idle ELSE [j EXCEPT !.step = @ + 1]

\* send_mesh_topo is due in the main thread of n.
send_mesh_topo(n) ==
  LET num == reports[n] + 1
      r == Report("TO_PARENT_TO_ROOT", n, None, num, <<n>>)
  IN /\ At(<<n, Main>>) = "idle"
     /\ reports[n] < Reports[n]
     /\ reports' = [reports EXCEPT ![n] = num]
     /\ job' = [job EXCEPT ![<<n, Main>>] = [step |-> 1, report |-> r, todo |-> Up[n]]]
     /\ mixed' = mixed \cup Overlaps(n)
     /\ UNCHANGED <<stream, pb_buffer, logs, arrived, lost>>

\* The forwarding type is written into the header.
Header(t) ==
  /\ At(t) = "header"
  /\ pb_buffer' = [pb_buffer EXCEPT ![t[1]].fwd = job[t].report.fwd]
  /\ job' = [job EXCEPT ![t] = Done(@)]
  /\ UNCHANGED <<stream, reports, logs, arrived, lost, mixed>>

\* pb_encode writes the rest.
Body(t) ==
  /\ At(t) = "body"
  /\ pb_buffer' = [pb_buffer EXCEPT ![t[1]] = [job[t].report EXCEPT !.fwd = pb_buffer[t[1]].fwd]]
  /\ job' = [job EXCEPT ![t] = Done(@)]
  /\ UNCHANGED <<stream, reports, logs, arrived, lost, mixed>>

\* Variant: the loop over the channels ends at the first parent.
FirstOnly(t, p) == job[t].todo \ (Up[t[1]] \cup {p})

\* The parents the loop over the channels has still to come to.
Others(t, p) == job[t].todo \ {p}

\* send_packet sends what the buffer holds now.
SendTo(t, p) ==
  LET n == t[1]
      r == job[t].report
      sent == IF pb_buffer[n] = r THEN r ELSE Damaged(pb_buffer[n])
  IN /\ At(t) = "send"
     /\ p \in job[t].todo
     /\ stream' = [stream EXCEPT ![n][p] = @ \o To(p, <<Unit(sent, 1)>>)]
     /\ lost' = lost \cup (IF sent = r THEN {} ELSE {[Copy(r) EXCEPT !.path = Append(@, p)]})
     /\ job' = [job EXCEPT ![t].todo = Others(t, p)]
     /\ UNCHANGED <<pb_buffer, reports, logs, arrived, mixed>>

Sent(t) ==
  /\ At(t) = "send"
  /\ job[t].todo = {}
  /\ job' = [job EXCEPT ![t] = Done(@)]
  /\ UNCHANGED <<stream, pb_buffer, reports, logs, arrived, lost, mixed>>

---------------------------------------------------------------------------
(* Receiving: a thread of n reads k units that m has sent.                 *)

\* The parent is the target, what it sends on goes straight to the root.
TypeOnward(r) == "TO_ROOT"

Targeted(n, r) == [r EXCEPT !.fwd = TypeOnward(r), !.tgt = n]

Reading(n, m, k) ==
  /\ At(<<n, m>>) = "idle"
  /\ k \in 1..MaxRead
  /\ k <= Len(stream[m][n])

Taken(n, m, k) == SubSeq(stream[m][n], 1, k)
Rest(n, m, k) == SubSeq(stream[m][n], k + 1, Len(stream[m][n]))
Without(n, m, k) == [stream EXCEPT ![m][n] = Rest(n, m, k)]

\* Bytes from the middle of a packet: their third byte is no ForwardingType.
ReadMiddle(n, m, k) ==
  /\ Reading(n, m, k)
  /\ LET u == Taken(n, m, k)
     IN /\ u[1].idx # 1
        /\ lost' = lost \cup Copies(In(u))
  /\ stream' = Without(n, m, k)
  /\ UNCHANGED <<pb_buffer, job, reports, logs, arrived, mixed>>

\* A report behind the first packet of what was read.
Joins(n, u) == IF \E i \in 2..Len(u) : u[i].idx = 1 THEN {<<"joined", n>>} ELSE {}

\* TO_ROOT: all that was read goes to the parents.
ReadToRoot(n, m, k) ==
  /\ Reading(n, m, k)
  /\ LET u == Taken(n, m, k)
     IN /\ u[1].idx = 1 /\ u[1].packet.fwd = "TO_ROOT"
        /\ stream' = ToParents(Without(n, m, k), n, u)
        /\ mixed' = mixed \cup Joins(n, u)
  /\ UNCHANGED <<pb_buffer, job, reports, logs, arrived, lost>>

\* Variant: the report is sent to the parents as it is, too.
ForwardToo(n, m, k) == stream' = ToParents(Without(n, m, k), n, Taken(n, m, k))

Take(n, m, k) == stream' = Without(n, m, k)

\* TO_PARENT_TO_ROOT: handle_mesh_topo copies the header into the buffer and
\* decodes what follows.
ReadToParent(n, m, k) ==
  /\ Reading(n, m, k)
  /\ LET u == Taken(n, m, k)
         r == u[1].packet
     IN /\ u[1].idx = 1 /\ r.fwd = "TO_PARENT_TO_ROOT"
        /\ pb_buffer' = [pb_buffer EXCEPT ![n].fwd = r.fwd]
        /\ Take(n, m, k)
        /\ \/ /\ Len(u) = 1
              /\ job' = [job EXCEPT ![<<n, m>>] =
                           [step |-> 1, report |-> Targeted(n, r), todo |-> Up[n]]]
              /\ lost' = lost
              /\ mixed' = mixed \cup Overlaps(n)
           \* with other units behind it the decoding fails, or reads their
           \* bytes for fields of the report
           \/ /\ Len(u) > 1
              /\ lost' = lost \cup Copies(In(u))
              /\ job' \in {job, [job EXCEPT ![<<n, m>>] =
                   [step |-> 1, report |-> Damaged(Targeted(n, r)), todo |-> Up[n]]]}
              /\ mixed' = mixed \cup Overlaps(n) \cup {<<"glued", n>>}
  /\ UNCHANGED <<reports, logs, arrived>>

\* The server takes what the first header in front gives as the size.
ServerReads(m) ==
  LET s == stream[m][Root]
      ends == {k \in 1..Len(s) : k = Len(s) \/ s[k + 1].front}
      k == CHOOSE e \in ends : \A f \in ends : e <= f
      u == SubSeq(s, 1, k)
      r == u[1].packet
  IN /\ Root \in Up[m] /\ s # <<>>
     /\ stream' = [stream EXCEPT ![m][Root] = SubSeq(s, k + 1, Len(s))]
     /\ IF k = 1 /\ u[1].idx = 1 /\ ~IsLog(r)
        THEN /\ arrived' = arrived \cup
                  {IF r.fwd = "TO_PARENT_TO_ROOT" THEN [r EXCEPT !.tgt = Root] ELSE r}
             /\ lost' = lost
        ELSE /\ arrived' = arrived
             /\ lost' = lost \cup Copies(In(u))
     /\ UNCHANGED <<pb_buffer, job, reports, logs, mixed>>

Thread(t) == Header(t) \/ Body(t) \/ Sent(t) \/ \E p \in job[t].todo : SendTo(t, p)

Next ==
  \/ \E n \in Device :
       \/ send_mesh_topo(n) \/ send_log_packet(n) \/ ServerReads(n)
       \/ \E m \in Children(n), k \in 1..MaxRead :
            ReadMiddle(n, m, k) \/ ReadToRoot(n, m, k) \/ ReadToParent(n, m, k)
  \/ \E t \in Threads : Thread(t)

Spec == Init /\ [][Next]_vars

---------------------------------------------------------------------------
(* Properties.                                                             *)

Packets == [fwd : {None, "TO_ROOT", "TO_PARENT_TO_ROOT"}, src : Device \cup {None, "log"},
            tgt : Device \cup {None, Root}, num : Nat, path : Seq(Device \cup {Root}), ok : BOOLEAN]

TypeOK ==
  /\ \A n \in Device : \A p \in Up[n] :
       stream[n][p] \in Seq([packet : Packets, idx : Nat, front : BOOLEAN])
  /\ pb_buffer \in [Device -> Packets]
  /\ \A t \in Threads : /\ job[t].step \in 0..Len(Steps)
                        /\ job[t].report \in Packets
                        /\ job[t].todo \subseteq Up[t[1]]
  /\ reports \in [Device -> Nat] /\ logs \in [Device -> Nat]
  /\ arrived \subseteq Packets
  /\ mixed \subseteq {"overlap", "glued", "joined"} \X Device

\* The ways to the root, from every device.
IsWay(s) == \A i \in 1..Len(s) - 1 : s[i] \in Device /\ s[i + 1] \in Up[s[i]]
Ways == UNION {[1..k -> Device] : k \in 1..Cardinality(Device)}
RootPaths == {s \in {Append(w, Root) : w \in Ways} : IsWay(s)}

OnTheWay == UNION {UNION {In(stream[n][p]) : p \in Up[n]} : n \in Device}

\* The copies a thread has still to send.
ToSend == UNION {{[Copy(job[t].report) EXCEPT !.path = Append(@, p)] : p \in job[t].todo} :
                   t \in {s \in Threads : job[s].report.ok}}

\* A link the server learns from an undamaged report is a link of the mesh, of
\* the device that sent the report to its parent, however many devices have sent
\* it on - unless the parent joined it to a packet in front of it: then it stays
\* a report to a parent, and the next device names itself as the other end.
TrueLinks ==
  \A r \in arrived : r.ok =>
    /\ IsWay(r.path) /\ r.path[1] = r.src /\ r.path[Len(r.path)] = Root
    /\ \E i \in 2..Len(r.path) : /\ r.path[i] = r.tgt
                                 /\ \A j \in 2..i - 1 : <<"joined", r.path[j]>> \in mixed

\* A report is damaged only where two threads have been in the buffer of a
\* device at a time, or where a read returned more than the report.
DamageHasCause ==
  (\E r \in OnTheWay \cup arrived : ~r.ok) =>
    \E n \in Device : <<"overlap", n>> \in mixed \/ <<"glued", n>> \in mixed

ReportsSound == TrueLinks /\ DamageHasCause

\* No report is lost between two devices but for a read that cut or glued
\* packets, or for the buffer: on every path to the root each report is on the
\* way, waits to be sent, has arrived or was lost in one of these ways.
Accounted ==
  LET placed == Copies(OnTheWay \cup arrived) \cup ToSend \cup lost
  IN \A s \in RootPaths : \A num \in 1..reports[s[1]] :
       \E c \in placed : c.src = s[1] /\ c.num = num /\ IsPrefix(c.path, s)

\* A report takes every path once: no copy is on the way when the same has
\* arrived or is about to be sent.
NotTwice ==
  /\ Copies(OnTheWay) \cap Copies(arrived) = {}
  /\ ToSend \cap Copies(OnTheWay \cup arrived) = {}
=============================================================================
