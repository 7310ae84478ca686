------------------------- MODULE RemCppCommon_proofs -------------------------
(***************************************************************************)
(* Proofs about three components of RemCppCommon: RemReports, TaskLooper   *)
(* and WiFiScanner.                                                        *)
(***************************************************************************)
EXTENDS RemReports, TaskLooper, WiFiScanner, SequenceTheorems, FiniteSetTheorems,
        WellFoundedInduction, TLAPS

---------------------------------------------------------------------------
(* Sequences.                                                              *)

\* What is left behind the first d elements.
Behind(s, d) == SubSeq(s, d + 1, Len(s))

LEMMA BehindIs ==
  ASSUME NEW U, NEW s \in Seq(U), NEW d \in 0..Len(s)
  PROVE  /\ Behind(s, d) \in Seq(U)
         /\ Len(Behind(s, d)) = Len(s) - d
         /\ \A j \in 1..Len(s) - d : Behind(s, d)[j] = s[j + d]
  <1>1. Len(s) \in Nat
    OBVIOUS
  <1>2. \A i \in d + 1..Len(s) : s[i] \in U
    <2>1. ASSUME NEW i \in d + 1..Len(s) PROVE s[i] \in U
      <3>1. i \in 1..Len(s)
        BY <1>1
      <3>. QED BY <3>1, ElementOfSeq
    <2>. QED BY <2>1
  <1>3. /\ Behind(s, d) \in Seq(U)
        /\ Len(Behind(s, d)) = IF d + 1 <= Len(s) THEN Len(s) - (d + 1) + 1 ELSE 0
        /\ \A j \in 1..Len(s) - (d + 1) + 1 : Behind(s, d)[j] = s[d + 1 + j - 1]
    BY <1>1, <1>2, SubSeqProperties DEF Behind
  <1>4. \A j \in 1..Len(s) - d : j \in 1..Len(s) - (d + 1) + 1 /\ d + 1 + j - 1 = j + d
    BY <1>1
  <1>. QED BY <1>1, <1>3, <1>4

\* A stream loses its first d units and gets the units w.
Flowed(s, d, w, z) ==
  /\ Len(z) = Len(s) - d + Len(w)
  /\ \A j \in 1..Len(s) - d : z[j] = s[j + d]
  /\ \A i \in 1..Len(w) : z[Len(s) - d + i] = w[i]
  /\ \A j \in 1..Len(z) : j \in 1..Len(s) - d \/ j - (Len(s) - d) \in 1..Len(w)

LEMMA FlowIs ==
  ASSUME NEW U, NEW s \in Seq(U), NEW d \in 0..Len(s), NEW w \in Seq(U)
  PROVE  Behind(s, d) \o w \in Seq(U) /\ Flowed(s, d, w, Behind(s, d) \o w)
  <1>. SUFFICES ASSUME NEW z, z = Behind(s, d) \o w
                PROVE  z \in Seq(U) /\ Flowed(s, d, w, z)
    OBVIOUS
  <1>. DEFINE b == Behind(s, d)
  <1>1. b \in Seq(U) /\ Len(b) = Len(s) - d /\ \A j \in 1..Len(s) - d : b[j] = s[j + d]
    BY BehindIs
  <1>2. Len(s) \in Nat /\ Len(w) \in Nat /\ Len(b) \in Nat
    BY <1>1
  <1>. HIDE DEF b
  <1>3. /\ z \in Seq(U) /\ Len(z) = Len(b) + Len(w)
        /\ \A i \in 1..Len(b) + Len(w) : z[i] = IF i <= Len(b) THEN b[i] ELSE w[i - Len(b)]
    BY <1>1, ConcatProperties DEF b
  <1>4. ASSUME NEW j \in 1..Len(s) - d PROVE z[j] = s[j + d]
    <2>1. j \in 1..Len(b) + Len(w) /\ j <= Len(b)
      BY <1>1, <1>2
    <2>. QED BY <1>1, <1>3, <2>1
  <1>5. ASSUME NEW i \in 1..Len(w) PROVE z[Len(s) - d + i] = w[i]
    <2>1. /\ Len(s) - d + i \in 1..Len(b) + Len(w)
          /\ ~(Len(s) - d + i <= Len(b)) /\ Len(s) - d + i - Len(b) = i
      BY <1>1, <1>2
    <2>. QED BY <1>3, <2>1
  <1>6. \A j \in 1..Len(z) : j \in 1..Len(s) - d \/ j - (Len(s) - d) \in 1..Len(w)
    BY <1>1, <1>2, <1>3
  <1>7. Len(z) = Len(s) - d + Len(w)
    BY <1>1, <1>3
  <1>8. Flowed(s, d, w, z)
    BY <1>4, <1>5, <1>6, <1>7 DEF Flowed
  <1>. QED BY <1>3, <1>8

---------------------------------------------------------------------------
(* Ways.                                                                   *)

Node == Device \cup {Root}

LEMMA WayGrows ==
  ASSUME NEW s \in Seq(Node), IsWay(s), Len(s) >= 1, s[Len(s)] \in Device,
         NEW p \in Up[s[Len(s)]]
  PROVE  /\ Append(s, p) \in Seq(Node) /\ IsWay(Append(s, p))
         /\ Len(Append(s, p)) = Len(s) + 1 /\ Append(s, p)[Len(s) + 1] = p
         /\ \A i \in 1..Len(s) : Append(s, p)[i] = s[i]
  <1>1. p \in Node /\ Len(s) \in Nat
    BY ReportsAssumption DEF Node
  <1>2. /\ Append(s, p) \in Seq(Node) /\ Len(Append(s, p)) = Len(s) + 1
        /\ Append(s, p)[Len(s) + 1] = p
        /\ \A i \in 1..Len(s) : Append(s, p)[i] = s[i]
    BY <1>1
  <1>3. ASSUME NEW i \in 1..Len(Append(s, p)) - 1
        PROVE  Append(s, p)[i] \in Device /\ Append(s, p)[i + 1] \in Up[Append(s, p)[i]]
    <2>1. i \in 1..Len(s)
      BY <1>1, <1>2
    <2>2. CASE i = Len(s)
      BY <1>2, <2>1, <2>2
    <2>3. CASE i # Len(s)
      <3>1. i \in 1..Len(s) - 1 /\ i + 1 \in 1..Len(s)
        BY <1>1, <2>1, <2>3
      <3>2. s[i] \in Device /\ s[i + 1] \in Up[s[i]]
        BY <3>1 DEF IsWay
      <3>. QED BY <1>2, <2>1, <3>1, <3>2
    <2>. QED BY <2>2, <2>3
  <1>. QED BY <1>2, <1>3 DEF IsWay

\* What a prefix is.
LEMMA PrefixIs ==
  ASSUME NEW s \in Seq(Node), NEW t \in Seq(Node)
  PROVE  IsPrefix(s, t) <=> Len(s) <= Len(t) /\ \A i \in 1..Len(s) : s[i] = t[i]
  <1>1. Len(s) \in Nat /\ Len(t) \in Nat
    OBVIOUS
  <1>2. ASSUME Len(s) <= Len(t)
        PROVE  SubSeq(s, 1, Len(s)) = SubSeq(t, 1, Len(s)) <=> \A i \in 1..Len(s) : s[i] = t[i]
    <2>. DEFINE a == SubSeq(s, 1, Len(s))
                b == SubSeq(t, 1, Len(s))
    <2>1. a = s
      BY SubSeqFull
    <2>2. /\ b \in Seq(Node) /\ Len(b) = Len(s)
          /\ \A i \in 1..Len(s) : b[i] = t[i]
      <3>1. \A i \in 1..Len(s) : t[i] \in Node
        <4>1. \A i \in 1..Len(s) : i \in 1..Len(t)
          BY <1>1, <1>2
        <4>. QED BY <4>1, ElementOfSeq
      <3>2. /\ b \in Seq(Node)
            /\ Len(b) = IF 1 <= Len(s) THEN Len(s) - 1 + 1 ELSE 0
            /\ \A i \in 1..Len(s) - 1 + 1 : b[i] = t[1 + i - 1]
        BY <1>1, <3>1, SubSeqProperties
      <3>3. \A i \in 1..Len(s) : 1 + i - 1 = i /\ i \in 1..Len(s) - 1 + 1
        BY <1>1
      <3>. QED BY <1>1, <3>2, <3>3
    <2>. HIDE DEF a, b
    <2>3. s = b <=> \A i \in 1..Len(s) : s[i] = b[i]
      BY <2>2, SeqEqual
    <2>. QED BY <2>1, <2>2, <2>3 DEF a, b
  <1>. QED BY <1>2 DEF IsPrefix

LEMMA FunctionIsSeq ==
  ASSUME NEW n \in Nat, NEW U, NEW f \in [1..n -> U]
  PROVE  f \in Seq(U) /\ Len(f) = n
  BY SeqDef

---------------------------------------------------------------------------
(* The invariant: what every packet on a link, in a buffer and at the      *)
(* server is.                                                              *)

Units == [packet : Packets, idx : Nat, front : BOOLEAN]

Joined(n) == <<"joined", n>> \in mixed
Overlapped(n) == <<"overlap", n>> \in mixed
Harmed == \E n \in Device : <<"overlap", n>> \in mixed \/ <<"glued", n>> \in mixed

\* The report r has come to p from the device that wrote it.
Travels(r, p) ==
  /\ r.src \in Device /\ r.num \in 1..reports[r.src]
  /\ Len(r.path) >= 1 /\ r.path[1] = r.src /\ r.path[Len(r.path)] = p
  /\ IsWay(r.path)

\* Its target is the first device on its path that did not join it.
Targets(r) == \E i \in 2..Len(r.path) : /\ r.path[i] = r.tgt
                                        /\ \A j \in 2..i - 1 : Joined(r.path[j])
Aimed(r) == r.fwd = "TO_ROOT" /\ Targets(r)

\* No device has read it as a report to a parent yet.
Unaimed(r) == r.fwd = "TO_PARENT_TO_ROOT" /\ \A j \in 2..Len(r.path) - 1 : Joined(r.path[j])

Live(r) == ~IsLog(r) /\ r.ok

PacketGood(p, r) ==
  /\ r \in Packets
  /\ IsLog(r) => r.fwd = "TO_ROOT"
  /\ ~r.ok => Harmed
  /\ Live(r) => /\ Travels(r, p) /\ Len(r.path) >= 2
                /\ Aimed(r) \/ Unaimed(r)

UnitGood(p, x) == PacketGood(p, x.packet) /\ (IsLog(x.packet) \/ x.idx = 1)

Shape == DOMAIN stream = Device /\ \A n \in Device : DOMAIN stream[n] = Up[n]

StreamGood(n, p) ==
  stream[n][p] \in Seq(Units) /\ \A i \in 1..Len(stream[n][p]) : UnitGood(p, stream[n][p][i])

ReportGood(t, r) ==
  /\ r.ok => /\ Travels(r, t[1])
             /\ Aimed(r) \/ (r.fwd = "TO_PARENT_TO_ROOT" /\ Len(r.path) = 1)
  /\ ~r.ok => Harmed

Jobs == [step : 0..3, report : Packets, todo : SUBSET (Device \cup {Root})]

JobGood(t) ==
  /\ job[t] \in Jobs /\ job[t].todo \subseteq Up[t[1]]
  /\ job[t].report.src # "log"
  /\ job[t].step = 0 => job[t] = Idle
  /\ job[t].step # 0 => ReportGood(t, job[t].report)

\* Unless threads have been in it together, the buffer holds what its one
\* thread has written.
BufferGood(n) ==
  /\ pb_buffer[n].src # "log"
  /\ ~Overlapped(n) =>
       /\ \A t, s \in Threads :
            t[1] = n /\ s[1] = n /\ job[t].step # 0 /\ job[s].step # 0 => t = s
       /\ \A t \in Threads : t[1] = n =>
            /\ job[t].step = 2 => pb_buffer[n].fwd = job[t].report.fwd
            /\ job[t].step = 3 => pb_buffer[n] = job[t].report

ArrivedGood(r) ==
  /\ r \in Packets /\ ~IsLog(r)
  /\ ~r.ok => Harmed
  /\ r.ok => Travels(r, Root) /\ Targets(r)

ReportsInv ==
  /\ Shape
  /\ \A n \in Device : \A p \in Up[n] : StreamGood(n, p)
  /\ pb_buffer \in [Device -> Packets]
  /\ DOMAIN job = Threads /\ \A t \in Threads : JobGood(t)
  /\ \A n \in Device : BufferGood(n)
  /\ reports \in [Device -> Nat] /\ logs \in [Device -> Nat]
  /\ \A r \in arrived : ArrivedGood(r)
  /\ mixed \subseteq {"overlap", "glued", "joined"} \X Device

---------------------------------------------------------------------------
(* Units on their way to a parent.                                         *)

\* What a packet is on its way to p.
Onto(p, r) == IF Live(r) THEN [r EXCEPT !.path = Append(@, p)] ELSE r

LEMMA OntoIs ==
  ASSUME NEW r \in Packets, NEW p \in Node
  PROVE  /\ Onto(p, r) \in Packets
         /\ Onto(p, r).src = r.src /\ Onto(p, r).num = r.num /\ Onto(p, r).ok = r.ok
         /\ Onto(p, r).fwd = r.fwd /\ Onto(p, r).tgt = r.tgt
         /\ Live(r) => Onto(p, r).path = Append(r.path, p)
         /\ ~Live(r) => Onto(p, r) = r
         /\ Live(Onto(p, r)) <=> Live(r)
         /\ IsLog(Onto(p, r)) <=> IsLog(r)
  <1>1. Append(r.path, p) \in Seq(Device \cup {Root})
    BY DEF Packets, Node
  <1>2. CASE Live(r)
    <2>1. Onto(p, r) = [r EXCEPT !.path = Append(r.path, p)]
      BY <1>2 DEF Onto
    <2>. QED BY <1>1, <1>2, <2>1 DEF Packets, Live, IsLog
  <1>3. CASE ~Live(r)
    BY <1>3 DEF Onto
  <1>. QED BY <1>2, <1>3

\* The units w are the units u on their way to p.
IsOnto(w, p, u) ==
  /\ w \in Seq(Units) /\ Len(w) = Len(u)
  /\ \A i \in 1..Len(u) : w[i].packet = Onto(p, u[i].packet) /\ w[i].idx = u[i].idx

LEMMA ToIs ==
  ASSUME NEW u \in Seq(Units), NEW p \in Node
  PROVE  IsOnto(To(p, u), p, u)
  <1>1. Len(u) \in Nat
    OBVIOUS
  <1>2. ASSUME NEW i \in 1..Len(u)
        PROVE  /\ u[i] \in Units /\ To(p, u)[i] \in Units
               /\ To(p, u)[i].packet = Onto(p, u[i].packet)
               /\ To(p, u)[i].idx = u[i].idx
    <2>1. u[i] \in Units
      BY ElementOfSeq
    <2>2. u[i].packet \in Good({u[i].packet}) <=> Live(u[i].packet)
      BY DEF Good, Live
    <2>3. Onto(p, u[i].packet) \in Packets
      BY <2>1, OntoIs DEF Units
    <2>4. To(p, u)[i] = IF Live(u[i].packet)
                        THEN [u[i] EXCEPT !.packet.path = Append(@, p)] ELSE u[i]
      BY <2>2 DEF To
    <2>5. CASE Live(u[i].packet)
      <3>1. To(p, u)[i] = [u[i] EXCEPT !.packet = Onto(p, u[i].packet)]
        BY <2>1, <2>4, <2>5 DEF Onto, Units
      <3>. QED BY <2>1, <2>3, <3>1 DEF Units
    <2>6. CASE ~Live(u[i].packet)
      BY <2>1, <2>4, <2>6 DEF Onto
    <2>. QED BY <2>1, <2>5, <2>6
  <1>3. To(p, u) \in [1..Len(u) -> Units]
    BY <1>2 DEF To
  <1>4. To(p, u) \in Seq(Units) /\ Len(To(p, u)) = Len(u)
    BY <1>1, <1>3, FunctionIsSeq
  <1>. QED BY <1>2, <1>4 DEF IsOnto

LEMMA SetSizeIs ==
  ASSUME NEW u \in Seq(Units)
  PROVE  /\ set_size(u) \in Seq(Units) /\ Len(set_size(u)) = Len(u)
         /\ \A i \in 1..Len(u) : /\ set_size(u)[i].packet = u[i].packet
                                 /\ set_size(u)[i].idx = u[i].idx
  <1>1. Len(u) \in Nat
    OBVIOUS
  <1>2. ASSUME NEW i \in 1..Len(u)
        PROVE  /\ set_size(u)[i] \in Units
               /\ set_size(u)[i].packet = u[i].packet /\ set_size(u)[i].idx = u[i].idx
    <2>1. u[i] \in Units
      BY ElementOfSeq
    <2>2. set_size(u)[i] = [u[i] EXCEPT !.front = (i = 1)]
      BY DEF set_size
    <2>. QED BY <2>1, <2>2 DEF Units
  <1>3. set_size(u) \in [1..Len(u) -> Units]
    BY <1>2 DEF set_size
  <1>4. set_size(u) \in Seq(Units) /\ Len(set_size(u)) = Len(u)
    BY <1>1, <1>3, FunctionIsSeq
  <1>. QED BY <1>2, <1>4

LEMMA SendingIs ==
  ASSUME NEW u \in Seq(Units), NEW p \in Node
  PROVE  IsOnto(To(p, set_size(u)), p, u)
  <1>. DEFINE v == set_size(u)
  <1>1. /\ v \in Seq(Units) /\ Len(v) = Len(u)
        /\ \A i \in 1..Len(u) : v[i].packet = u[i].packet /\ v[i].idx = u[i].idx
    BY SetSizeIs
  <1>. HIDE DEF v
  <1>2. IsOnto(To(p, v), p, v)
    BY <1>1, ToIs
  <1>3. IsOnto(To(p, v), p, u)
    BY <1>1, <1>2 DEF IsOnto
  <1>. QED BY <1>3 DEF v

---------------------------------------------------------------------------
(* What has been said of a packet stays true.                              *)

\* What a step may do to the history.
Later ==
  /\ reports \in [Device -> Nat] /\ reports' \in [Device -> Nat]
  /\ \A n \in Device : reports[n] <= reports'[n]
  /\ mixed \subseteq mixed'

LEMMA TravelsLater ==
  ASSUME Later, NEW r, NEW p, Travels(r, p)
  PROVE  Travels(r, p)'
  <1>1. 1..reports[r.src] \subseteq 1..reports'[r.src]
    BY DEF Later, Travels
  <1>. QED BY <1>1 DEF Travels

LEMMA AimedLater ==
  ASSUME Later, NEW r
  PROVE  /\ Targets(r) => Targets(r)'
         /\ Aimed(r) => Aimed(r)'
         /\ Unaimed(r) => Unaimed(r)'
         /\ Harmed => Harmed'
  <1>1. \A n : Joined(n) => Joined(n)'
    BY DEF Later, Joined
  <1>2. Targets(r) => Targets(r)'
    BY <1>1 DEF Targets
  <1>3. Unaimed(r) => Unaimed(r)'
    BY <1>1 DEF Unaimed
  <1>4. Harmed => Harmed'
    BY DEF Later, Harmed
  <1>. QED BY <1>2, <1>3, <1>4 DEF Aimed

LEMMA PacketLater ==
  ASSUME Later, NEW r, NEW p, PacketGood(p, r)
  PROVE  PacketGood(p, r)'
  <1>1. (Live(r) => Live(r)') /\ (Live(r)' => Live(r))
    BY DEF Live, IsLog
  <1>2. Live(r) => Travels(r, p)' /\ Len(r.path) >= 2 /\ (Aimed(r)' \/ Unaimed(r)')
    BY TravelsLater, AimedLater DEF PacketGood
  <1>3. ~r.ok => Harmed'
    BY AimedLater DEF PacketGood
  <1>. QED BY <1>2, <1>3 DEF PacketGood, Live, IsLog

LEMMA ReportLater ==
  ASSUME Later, NEW t, NEW r, ReportGood(t, r)
  PROVE  ReportGood(t, r)'
  BY TravelsLater, AimedLater DEF ReportGood

LEMMA ArrivedLater ==
  ASSUME Later, NEW r, ArrivedGood(r)
  PROVE  ArrivedGood(r)'
  <1>1. r.ok => Travels(r, Root)' /\ Targets(r)'
    BY TravelsLater, AimedLater DEF ArrivedGood
  <1>2. ~r.ok => Harmed'
    BY AimedLater DEF ArrivedGood
  <1>. QED BY <1>1, <1>2 DEF ArrivedGood

\* A packet that has come to n is sent on to a parent of n.
LEMMA Moves ==
  ASSUME Later, NEW n \in Device, NEW p \in Up[n], NEW r, PacketGood(n, r),
         Live(r) /\ Unaimed(r) => Joined(n)'
  PROVE  PacketGood(p, Onto(p, r))'
  <1>. DEFINE q == Onto(p, r)
  <1>1. p \in Node /\ r \in Packets
    BY ReportsAssumption DEF Node, PacketGood
  <1>2. PacketGood(n, r)'
    BY PacketLater
  <1>3. CASE ~Live(r)
    <2>1. q = r /\ ~Live(r)'
      BY <1>3 DEF Onto, Live, IsLog
    <2>. QED BY <1>2, <2>1 DEF PacketGood
  <1>4. CASE Live(r)
    <2>1. /\ q \in Packets /\ q.src = r.src /\ q.num = r.num /\ q.ok = r.ok
          /\ q.fwd = r.fwd /\ q.tgt = r.tgt /\ q.path = Append(r.path, p)
          /\ Live(q) /\ ~IsLog(q)
      BY <1>1, <1>4, OntoIs DEF Live
    <2>2. /\ Travels(r, n) /\ Len(r.path) >= 2 /\ r.path \in Seq(Node)
          /\ r.path[Len(r.path)] = n
      BY <1>1, <1>4 DEF PacketGood, Packets, Node, Travels
    <2>3. Travels(r, n)' /\ (Aimed(r)' \/ Unaimed(r)') /\ (Unaimed(r)' => Joined(n)')
      <3>1. Aimed(r) => Aimed(r)'
        BY AimedLater
      <3>2. Unaimed(r) => Unaimed(r)'
        BY AimedLater
      <3>3. Travels(r, n)'
        BY <2>2, TravelsLater
      <3>4. Unaimed(r)' => r.fwd = "TO_PARENT_TO_ROOT"
        BY DEF Unaimed
      <3>5. Aimed(r) => r.fwd = "TO_ROOT"
        BY DEF Aimed
      <3>. QED BY <1>4, <3>1, <3>2, <3>3, <3>4, <3>5 DEF PacketGood
    <2>4. /\ q.path \in Seq(Node) /\ IsWay(q.path)
          /\ Len(q.path) = Len(r.path) + 1 /\ q.path[Len(r.path) + 1] = p
          /\ \A i \in 1..Len(r.path) : q.path[i] = r.path[i]
      <3>1. IsWay(r.path) /\ Len(r.path) >= 1 /\ r.path[Len(r.path)] \in Device
            /\ p \in Up[r.path[Len(r.path)]]
        BY <2>2 DEF Travels
      <3>. QED BY <2>1, <2>2, <3>1, WayGrows
    <2>. HIDE DEF q
    <2>5. Len(r.path) \in Nat
      BY <2>2
    <2>6. Travels(q, p)'
      <3>1. q.path[1] = r.path[1] /\ q.path[Len(q.path)] = p
        BY <2>2, <2>4, <2>5
      <3>. QED BY <2>1, <2>2, <2>3, <2>4, <2>5, <3>1 DEF Travels
    <2>7. ASSUME Aimed(r)' PROVE Aimed(q)'
      <3>1. PICK i \in 2..Len(r.path) : /\ r.path[i] = r.tgt
                                        /\ \A j \in 2..i - 1 : Joined(r.path[j])'
        BY <2>7 DEF Aimed, Targets
      <3>2. i \in 2..Len(q.path) /\ i \in 1..Len(r.path) /\ q.path[i] = q.tgt
        BY <2>1, <2>4, <2>5, <3>1
      <3>3. \A j \in 2..i - 1 : Joined(q.path[j])'
        <4>1. ASSUME NEW j \in 2..i - 1 PROVE Joined(q.path[j])'
          <5>1. j \in 1..Len(r.path)
            BY <2>5
          <5>. QED BY <2>4, <3>1, <5>1
        <4>. QED BY <4>1
      <3>4. q.fwd = "TO_ROOT"
        BY <2>1, <2>7 DEF Aimed
      <3>. QED BY <3>2, <3>3, <3>4 DEF Aimed, Targets
    <2>8. ASSUME Unaimed(r)' PROVE Unaimed(q)'
      <3>1. ASSUME NEW j \in 2..Len(q.path) - 1 PROVE Joined(q.path[j])'
        <4>1. j \in 1..Len(r.path) /\ q.path[j] = r.path[j]
          BY <2>4, <2>5
        <4>2. CASE j = Len(r.path)
          BY <2>2, <2>3, <2>8, <4>1, <4>2
        <4>3. CASE j # Len(r.path)
          <5>1. j \in 2..Len(r.path) - 1
            BY <2>5, <4>1, <4>3
          <5>. QED BY <2>8, <4>1, <5>1 DEF Unaimed
        <4>. QED BY <4>2, <4>3
      <3>2. q.fwd = "TO_PARENT_TO_ROOT"
        BY <2>1, <2>8 DEF Unaimed
      <3>. QED BY <3>1, <3>2 DEF Unaimed
    <2>9. Len(q.path) >= 2 /\ q.ok
      BY <1>4, <2>1, <2>2, <2>4, <2>5 DEF Live
    <2>10. PacketGood(p, q)'
      BY <2>1, <2>3, <2>6, <2>7, <2>8, <2>9 DEF PacketGood
    <2>. QED BY <2>10 DEF q
  <1>. QED BY <1>3, <1>4

---------------------------------------------------------------------------
(* What a step does to the streams.                                        *)

LEMMA Still ==
  ASSUME NEW U, NEW s \in Seq(U)
  PROVE  Behind(s, 0) = s /\ s \o <<>> = s /\ <<>> \in Seq(U)
  BY SubSeqFull DEF Behind

\* The stream from n to p loses d units and gets the units w.
Flow(n, p, d, w) ==
  /\ d \in 0..Len(stream[n][p]) /\ w \in Seq(Units)
  /\ stream'[n][p] = Behind(stream[n][p], d) \o w

Streams == Shape /\ \A n \in Device : \A p \in Up[n] : stream[n][p] \in Seq(Units)

LEMMA UnitLater ==
  ASSUME Later, NEW p, NEW x, UnitGood(p, x)
  PROVE  UnitGood(p, x)'
  <1>1. PacketGood(p, x.packet)'
    BY PacketLater DEF UnitGood
  <1>. QED BY <1>1 DEF UnitGood, IsLog

LEMMA FlowUnits ==
  ASSUME Later, NEW p, NEW s \in Seq(Units), \A i \in 1..Len(s) : UnitGood(p, s[i]),
         NEW d \in 0..Len(s), NEW w \in Seq(Units), \A i \in 1..Len(w) : UnitGood(p, w[i])',
         NEW z, z = Behind(s, d) \o w
  PROVE  z \in Seq(Units) /\ \A j \in 1..Len(z) : UnitGood(p, z[j])'
  <1>1. \A i \in 1..Len(s) : UnitGood(p, s[i])'
    <2>1. ASSUME NEW i \in 1..Len(s) PROVE UnitGood(p, s[i])'
      <3>1. UnitGood(p, s[i])
        OBVIOUS
      <3>. QED BY ONLY Later, <3>1, UnitLater
    <2>. QED BY <2>1
  <1>2. /\ z \in Seq(Units)
        /\ \A j \in 1..Len(s) - d : z[j] = s[j + d]
        /\ \A i \in 1..Len(w) : z[Len(s) - d + i] = w[i]
        /\ \A j \in 1..Len(z) : j \in 1..Len(s) - d \/ j - (Len(s) - d) \in 1..Len(w)
    <2>1. z \in Seq(Units) /\ Flowed(s, d, w, z)
      BY FlowIs
    <2>. QED BY ONLY <2>1 DEF Flowed
  <1>3. Len(s) \in Nat /\ Len(w) \in Nat
    OBVIOUS
  <1>4. ASSUME NEW j \in 1..Len(z) PROVE UnitGood(p, z[j])'
    <2>1. CASE j \in 1..Len(s) - d
      <3>1. j + d \in 1..Len(s)
        BY <1>3, <2>1
      <3>2. z[j] = s[j + d]
        BY <1>2, <2>1
      <3>. QED BY <1>1, <3>1, <3>2
    <2>2. CASE j - (Len(s) - d) \in 1..Len(w)
      <3>1. Len(s) - d + (j - (Len(s) - d)) = j
        BY <1>2, <1>3
      <3>2. z[j] = w[j - (Len(s) - d)]
        BY <1>2, <2>2, <3>1
      <3>. QED BY <2>2, <3>2
    <2>. QED BY <1>2, <2>1, <2>2
  <1>. QED BY <1>2, <1>4

LEMMA FlowGood ==
  ASSUME Later, NEW n \in Device, NEW p \in Up[n], StreamGood(n, p), NEW d, NEW w,
         Flow(n, p, d, w), \A i \in 1..Len(w) : UnitGood(p, w[i])'
  PROVE  StreamGood(n, p)'
  <1>1. PICK s : s = stream[n][p]
    OBVIOUS
  <1>2. PICK z : z = stream'[n][p]
    OBVIOUS
  <1>3. /\ s \in Seq(Units) /\ \A i \in 1..Len(s) : UnitGood(p, s[i])
        /\ d \in 0..Len(s) /\ w \in Seq(Units) /\ z = Behind(s, d) \o w
    BY <1>1, <1>2 DEF StreamGood, Flow
  <1>4. z \in Seq(Units) /\ \A j \in 1..Len(z) : UnitGood(p, z[j])'
    BY <1>3, FlowUnits
  <1>. QED BY <1>2, <1>4 DEF StreamGood

\* The parents of n get the units u, on top of what is in f.
LEMMA ToParentsIs ==
  ASSUME NEW f, DOMAIN f = Device, \A a \in Device : DOMAIN f[a] = Up[a],
         NEW n \in Device, NEW u, NEW g, g = ToParents(f, n, u)
  PROVE  /\ DOMAIN g = Device /\ \A a \in Device : DOMAIN g[a] = Up[a]
         /\ \A p \in Up[n] : g[n][p] = f[n][p] \o To(p, set_size(u))
         /\ \A a \in Device : a # n => g[a] = f[a]
  BY DEF ToParents

LEMMA SendFlow ==
  ASSUME Streams, NEW n \in Device, NEW u \in Seq(Units), stream' = ToParents(stream, n, u)
  PROVE  /\ Shape'
         /\ \A a \in Device : \A p \in Up[a] :
              Flow(a, p, 0, IF a = n THEN To(p, set_size(u)) ELSE <<>>)
  <1>1. /\ DOMAIN stream' = Device /\ \A a \in Device : DOMAIN stream'[a] = Up[a]
        /\ \A p \in Up[n] : stream'[n][p] = stream[n][p] \o To(p, set_size(u))
        /\ \A a \in Device : a # n => stream'[a] = stream[a]
    BY ToParentsIs DEF Streams, Shape
  <1>2. ASSUME NEW a \in Device, NEW p \in Up[a]
        PROVE  Flow(a, p, 0, IF a = n THEN To(p, set_size(u)) ELSE <<>>)
    <2>1. /\ stream[a][p] \in Seq(Units) /\ Behind(stream[a][p], 0) = stream[a][p]
          /\ stream[a][p] \o <<>> = stream[a][p] /\ <<>> \in Seq(Units)
          /\ 0 \in 0..Len(stream[a][p])
      BY Still DEF Streams
    <2>2. CASE a = n
      <3>1. p \in Node
        BY ReportsAssumption DEF Node
      <3>2. To(p, set_size(u)) \in Seq(Units)
        BY <3>1, SendingIs DEF IsOnto
      <3>. QED BY <1>1, <2>1, <2>2, <3>2 DEF Flow
    <2>3. CASE a # n
      BY <1>1, <2>1, <2>3 DEF Flow
    <2>. QED BY <2>2, <2>3
  <1>. QED BY <1>1, <1>2 DEF Shape

LEMMA OneFlow ==
  ASSUME Streams, NEW n \in Device, NEW p \in Up[n], NEW w \in Seq(Units),
         stream' = [stream EXCEPT ![n][p] = @ \o w]
  PROVE  /\ Shape'
         /\ \A a \in Device : \A b \in Up[a] :
              Flow(a, b, 0, IF a = n /\ b = p THEN w ELSE <<>>)
  <1>1. /\ DOMAIN stream' = Device /\ \A a \in Device : DOMAIN stream'[a] = Up[a]
        /\ stream'[n][p] = stream[n][p] \o w
        /\ \A a \in Device : \A b \in Up[a] : ~(a = n /\ b = p) => stream'[a][b] = stream[a][b]
    BY DEF Streams, Shape
  <1>2. ASSUME NEW a \in Device, NEW b \in Up[a]
        PROVE  Flow(a, b, 0, IF a = n /\ b = p THEN w ELSE <<>>)
    <2>1. /\ stream[a][b] \in Seq(Units) /\ Behind(stream[a][b], 0) = stream[a][b]
          /\ stream[a][b] \o <<>> = stream[a][b] /\ <<>> \in Seq(Units)
          /\ 0 \in 0..Len(stream[a][b])
      BY Still DEF Streams
    <2>2. CASE a = n /\ b = p
      BY <1>1, <2>1, <2>2 DEF Flow
    <2>3. CASE ~(a = n /\ b = p)
      BY <1>1, <2>1, <2>3 DEF Flow
    <2>. QED BY <2>2, <2>3
  <1>. QED BY <1>1, <1>2 DEF Shape

LEMMA ReadFlow ==
  ASSUME Streams, NEW m \in Device, NEW n \in Up[m], NEW k \in 0..Len(stream[m][n]),
         stream' = Without(n, m, k)
  PROVE  /\ Shape'
         /\ \A a \in Device : \A b \in Up[a] :
              Flow(a, b, IF a = m /\ b = n THEN k ELSE 0, <<>>)
  <1>1. /\ DOMAIN stream' = Device /\ \A a \in Device : DOMAIN stream'[a] = Up[a]
        /\ stream'[m][n] = Behind(stream[m][n], k)
        /\ \A a \in Device : \A b \in Up[a] : ~(a = m /\ b = n) => stream'[a][b] = stream[a][b]
    BY DEF Streams, Shape, Without, Rest, Behind
  <1>2. ASSUME NEW a \in Device, NEW b \in Up[a]
        PROVE  Flow(a, b, IF a = m /\ b = n THEN k ELSE 0, <<>>)
    <2>1. /\ stream[a][b] \in Seq(Units) /\ Behind(stream[a][b], 0) = stream[a][b]
          /\ stream[a][b] \o <<>> = stream[a][b] /\ <<>> \in Seq(Units)
          /\ 0 \in 0..Len(stream[a][b])
      BY Still DEF Streams
    <2>2. CASE a = m /\ b = n
      <3>1. Behind(stream[m][n], k) \in Seq(Units)
        BY BehindIs DEF Streams
      <3>2. Behind(stream[m][n], k) \o <<>> = Behind(stream[m][n], k)
        BY <3>1, Still
      <3>. QED BY <1>1, <2>1, <2>2, <3>2 DEF Flow
    <2>3. CASE ~(a = m /\ b = n)
      BY <1>1, <2>1, <2>3 DEF Flow
    <2>. QED BY <2>2, <2>3
  <1>. QED BY <1>1, <1>2 DEF Shape

LEMMA ThroughFlow ==
  ASSUME Streams, NEW m \in Device, NEW n \in Up[m], n \in Device,
         NEW k \in 0..Len(stream[m][n]), NEW u \in Seq(Units),
         stream' = ToParents(Without(n, m, k), n, u)
  PROVE  /\ Shape'
         /\ \A a \in Device : \A b \in Up[a] :
              Flow(a, b, IF a = m /\ b = n THEN k ELSE 0,
                         IF a = n THEN To(b, set_size(u)) ELSE <<>>)
  <1>1. /\ DOMAIN stream' = Device /\ \A a \in Device : DOMAIN stream'[a] = Up[a]
        /\ \A b \in Up[n] : stream'[n][b] =
             (IF n = m /\ b = n THEN Behind(stream[m][n], k) ELSE stream[n][b])
                \o To(b, set_size(u))
        /\ n # m => stream'[m][n] = Behind(stream[m][n], k)
        /\ \A a \in Device : \A b \in Up[a] :
             a # n /\ ~(a = m /\ b = n) => stream'[a][b] = stream[a][b]
    <2>. DEFINE f == Without(n, m, k)
    <2>1. /\ DOMAIN f = Device /\ \A a \in Device : DOMAIN f[a] = Up[a]
          /\ f[m][n] = Behind(stream[m][n], k)
          /\ \A a \in Device : \A b \in Up[a] : ~(a = m /\ b = n) => f[a][b] = stream[a][b]
      BY DEF Streams, Shape, Without, Rest, Behind
    <2>. HIDE DEF f
    <2>2. /\ DOMAIN stream' = Device /\ \A a \in Device : DOMAIN stream'[a] = Up[a]
          /\ \A b \in Up[n] : stream'[n][b] = f[n][b] \o To(b, set_size(u))
          /\ \A a \in Device : a # n => stream'[a] = f[a]
      <3>1. stream' = ToParents(f, n, u)
        BY DEF f
      <3>. QED BY <2>1, <3>1, ToParentsIs
    <2>3. \A b \in Up[n] : f[n][b] =
             IF n = m /\ b = n THEN Behind(stream[m][n], k) ELSE stream[n][b]
      BY <2>1
    <2>. QED BY <2>1, <2>2, <2>3
  <1>2. ASSUME NEW a \in Device, NEW b \in Up[a]
        PROVE  Flow(a, b, IF a = m /\ b = n THEN k ELSE 0,
                          IF a = n THEN To(b, set_size(u)) ELSE <<>>)
    <2>1. /\ stream[a][b] \in Seq(Units) /\ Behind(stream[a][b], 0) = stream[a][b]
          /\ stream[a][b] \o <<>> = stream[a][b] /\ <<>> \in Seq(Units)
          /\ 0 \in 0..Len(stream[a][b])
      BY Still DEF Streams
    <2>2. /\ Behind(stream[m][n], k) \in Seq(Units)
          /\ Behind(stream[m][n], k) \o <<>> = Behind(stream[m][n], k)
      <3>1. Behind(stream[m][n], k) \in Seq(Units)
        BY BehindIs DEF Streams
      <3>. QED BY <3>1, Still
    <2>3. CASE a = n
      <3>1. b \in Node
        BY ReportsAssumption DEF Node
      <3>2. To(b, set_size(u)) \in Seq(Units)
        BY <3>1, SendingIs DEF IsOnto
      <3>3. CASE a = m /\ b = n
        BY <1>1, <2>3, <3>2, <3>3 DEF Flow
      <3>4. CASE ~(a = m /\ b = n)
        BY <1>1, <2>1, <2>3, <3>2, <3>4 DEF Flow
      <3>. QED BY <3>3, <3>4
    <2>4. CASE a # n
      <3>1. CASE a = m /\ b = n
        BY <1>1, <2>1, <2>2, <2>4, <3>1 DEF Flow
      <3>2. CASE ~(a = m /\ b = n)
        BY <1>1, <2>1, <2>4, <3>2 DEF Flow
      <3>. QED BY <3>1, <3>2
    <2>. QED BY <2>3, <2>4
  <1>. QED BY <1>1, <1>2 DEF Shape

---------------------------------------------------------------------------
(* The invariant holds at first, and threads keep it.                      *)

LEMMA NoReportIs ==
  /\ NoReport \in Packets /\ NoReport.src = "none" /\ Idle \in Jobs
  /\ Idle.step = 0 /\ Idle.todo = {} /\ Idle.report = NoReport
  <1>1. <<>> \in Seq(Device \cup {Root})
    OBVIOUS
  <1>2. NoReport \in Packets /\ NoReport.src = "none"
    BY <1>1 DEF NoReport, Report, Packets, None
  <1>. QED BY <1>2 DEF Idle, Jobs

LEMMA ReportsInit == Init => ReportsInv
  <1>. SUFFICES ASSUME Init PROVE ReportsInv
    OBVIOUS
  <1>. USE DEF Init
  <1>1. Shape
    BY DEF Shape
  <1>2. ASSUME NEW n \in Device, NEW p \in Up[n] PROVE StreamGood(n, p)
    <2>1. stream[n][p] = <<>>
      OBVIOUS
    <2>. QED BY <2>1 DEF StreamGood
  <1>3. pb_buffer \in [Device -> Packets]
    BY NoReportIs
  <1>4. DOMAIN job = Threads
    OBVIOUS
  <1>5. ASSUME NEW t \in Threads PROVE JobGood(t)
    <2>1. job[t] = Idle
      OBVIOUS
    <2>. QED BY <2>1, NoReportIs DEF JobGood
  <1>6. ASSUME NEW n \in Device PROVE BufferGood(n)
    <2>1. \A t \in Threads : job[t].step = 0
      BY NoReportIs
    <2>2. pb_buffer[n].src # "log"
      BY NoReportIs
    <2>. QED BY <2>1, <2>2 DEF BufferGood
  <1>7. reports \in [Device -> Nat] /\ logs \in [Device -> Nat]
    OBVIOUS
  <1>8. arrived = {} /\ mixed = {}
    OBVIOUS
  <1>. QED BY <1>1, <1>2, <1>3, <1>4, <1>5, <1>6, <1>7, <1>8 DEF ReportsInv

\* The steps of a thread by their numbers.
LEMMA AtIs ==
  ASSUME NEW t, job[t] \in Jobs
  PROVE  /\ At(t) = "idle" <=> job[t].step = 0
         /\ At(t) = "header" <=> job[t].step = 1
         /\ At(t) = "body" <=> job[t].step = 2
         /\ At(t) = "send" <=> job[t].step = 3
  <1>1. job[t].step \in 0..3
    BY DEF Jobs
  <1>2. Steps[1] = "header" /\ Steps[2] = "body" /\ Steps[3] = "send"
    BY DEF Steps
  <1>. QED BY <1>1, <1>2 DEF At

LEMMA DoneIs ==
  ASSUME NEW j \in Jobs
  PROVE  /\ j.step = 3 => Done(j) = Idle
         /\ j.step # 3 => /\ Done(j) \in Jobs /\ Done(j).step = j.step + 1
                          /\ Done(j).report = j.report /\ Done(j).todo = j.todo
  BY DEF Done, Steps, Jobs

LEMMA StreamsIf == ReportsInv => Streams
  BY DEF ReportsInv, Streams, StreamGood

\* What is not touched stays good.
LEMMA StreamsKept ==
  ASSUME ReportsInv, Later, UNCHANGED stream
  PROVE  Shape' /\ \A n \in Device : \A p \in Up[n] : StreamGood(n, p)'
  <1>1. Shape'
    BY DEF ReportsInv, Shape
  <1>2. ASSUME NEW n \in Device, NEW p \in Up[n] PROVE StreamGood(n, p)'
    <2>1. StreamGood(n, p)
      BY DEF ReportsInv
    <2>2. stream[n][p] \in Seq(Units)
      BY <2>1 DEF StreamGood
    <2>3. /\ Behind(stream[n][p], 0) \o <<>> = stream[n][p] /\ <<>> \in Seq(Units)
          /\ 0 \in 0..Len(stream[n][p])
      BY <2>2, Still
    <2>4. Flow(n, p, 0, <<>>)
      BY <2>3 DEF Flow
    <2>5. \A i \in 1..Len(<<>>) : UnitGood(p, <<>>[i])'
      OBVIOUS
    <2>. QED BY <2>1, <2>4, <2>5, FlowGood
  <1>. QED BY <1>1, <1>2

LEMMA JobKept ==
  ASSUME ReportsInv, Later, NEW t \in Threads, job'[t] = job[t]
  PROVE  JobGood(t)'
  <1>1. JobGood(t)
    BY DEF ReportsInv
  <1>2. PICK r : r = job[t].report
    OBVIOUS
  <1>3. ReportGood(t, r) => ReportGood(t, r)'
    BY ReportLater
  <1>4. job[t].step # 0 => ReportGood(t, r)'
    BY <1>1, <1>2, <1>3 DEF JobGood
  <1>. QED BY <1>1, <1>2, <1>4 DEF JobGood

LEMMA BufferKept ==
  ASSUME ReportsInv, Later, NEW n \in Device, pb_buffer'[n] = pb_buffer[n],
         \A t \in Threads : t[1] = n => job'[t] = job[t]
  PROVE  BufferGood(n)'
  <1>1. BufferGood(n)
    BY DEF ReportsInv
  <1>2. Overlapped(n) => Overlapped(n)'
    BY DEF Later, Overlapped
  <1>. QED BY <1>1, <1>2 DEF BufferGood

LEMMA ArrivedKept ==
  ASSUME ReportsInv, Later, UNCHANGED arrived
  PROVE  \A r \in arrived' : ArrivedGood(r)'
  <1>1. ASSUME NEW r \in arrived PROVE ArrivedGood(r)'
    <2>1. ArrivedGood(r)
      BY DEF ReportsInv
    <2>. QED BY <2>1, ArrivedLater
  <1>. QED BY <1>1

LEMMA OverlapsIs ==
  ASSUME NEW n \in Device
  PROVE  /\ Overlaps(n) \subseteq {"overlap", "glued", "joined"} \X Device
         /\ <<"overlap", n>> \in Overlaps(n) \/ \A t \in Threads : t[1] = n => job[t].step = 0
  BY DEF Overlaps

\* A thread that begins in an unused buffer is alone in it.
LEMMA BufferBegun ==
  ASSUME ReportsInv, Later, NEW t \in Threads, NEW n \in Device, t[1] = n, NEW j, j.step = 1,
         job' = [job EXCEPT ![t] = j], Overlaps(n) \subseteq mixed',
         NEW a \in Device, a # n => pb_buffer'[a] = pb_buffer[a], pb_buffer'[a].src # "log"
  PROVE  BufferGood(a)'
  <1>1. DOMAIN job = Threads /\ BufferGood(a)
    BY DEF ReportsInv
  <1>2. CASE a # n
    <2>1. \A s \in Threads : s[1] = a => job'[s] = job[s]
      BY <1>1, <1>2
    <2>. QED BY <1>2, <2>1, BufferKept
  <1>3. CASE a = n
    <2>. SUFFICES ASSUME ~Overlapped(n)'
                  PROVE  /\ \A s, q \in Threads : s[1] = n /\ q[1] = n /\ job'[s].step # 0
                                                    /\ job'[q].step # 0 => s = q
                         /\ \A s \in Threads : s[1] = n => job'[s].step \notin {2, 3}
      BY <1>3 DEF BufferGood
    <2>1. \A s \in Threads : s[1] = n => job[s].step = 0
      BY OverlapsIs DEF Overlapped
    <2>2. \A s \in Threads : job'[s] = IF s = t THEN j ELSE job[s]
      BY <1>1
    <2>. QED BY <2>1, <2>2
  <1>. QED BY <1>2, <1>3

LEMMA LaterIf ==
  ASSUME ReportsInv, mixed \subseteq mixed', UNCHANGED reports
  PROVE  Later
  BY DEF ReportsInv, Later

LEMMA SendMeshTopoKeeps ==
  ASSUME ReportsInv, NEW n \in Device, send_mesh_topo(n)
  PROVE  ReportsInv'
  <1>0. PICK num : num = reports[n] + 1
    OBVIOUS
  <1>. DEFINE t == <<n, Main>>
              r == Report("TO_PARENT_TO_ROOT", n, None, num, <<n>>)
              j == [step |-> 1, report |-> r, todo |-> Up[n]]
  <1>1. /\ reports' = [reports EXCEPT ![n] = num] /\ job' = [job EXCEPT ![t] = j]
        /\ mixed' = mixed \cup Overlaps(n)
        /\ UNCHANGED <<stream, pb_buffer, logs, arrived>>
    BY <1>0 DEF send_mesh_topo
  <1>2. Later
    BY <1>0, <1>1 DEF ReportsInv, Later
  <1>3. t \in Threads /\ t[1] = n /\ DOMAIN job = Threads
    BY DEF Threads, ReportsInv
  <1>4. num \in Nat /\ reports[n] \in Nat /\ num >= 1 /\ reports'[n] = num
    BY <1>0, <1>1 DEF ReportsInv
  <1>5. r \in Packets /\ r.src = n /\ r.ok /\ r.num = num /\ r.path = <<n>>
        /\ r.fwd = "TO_PARENT_TO_ROOT"
    <2>1. <<n>> \in Seq(Device \cup {Root})
      OBVIOUS
    <2>. QED BY <1>4, <2>1 DEF Report, Packets, None
  <1>. HIDE DEF r
  <1>6. j \in Jobs /\ j.step = 1 /\ j.todo = Up[n] /\ j.report = r
    BY <1>5, ReportsAssumption DEF Jobs
  <1>7. JobGood(t)'
    <2>1. job'[t] = j
      BY <1>1, <1>3
    <2>2. Travels(r, n)'
      <3>1. Len(<<n>>) = 1 /\ <<n>>[1] = n /\ IsWay(<<n>>)
        BY DEF IsWay
      <3>. QED BY <1>4, <1>5, <3>1 DEF Travels
    <2>3. ReportGood(t, r)'
      BY <1>3, <1>5, <2>2 DEF ReportGood
    <2>4. r.src # "log"
      BY <1>5, ReportsAssumption
    <2>. QED BY <1>3, <1>6, <2>1, <2>3, <2>4 DEF JobGood
  <1>8. ASSUME NEW s \in Threads PROVE JobGood(s)'
    <2>1. CASE s = t
      BY <1>7, <2>1
    <2>2. CASE s # t
      <3>1. job'[s] = job[s]
        BY <1>1, <2>2
      <3>. QED BY <1>2, <3>1, JobKept
    <2>. QED BY <2>1, <2>2
  <1>9. ASSUME NEW a \in Device PROVE BufferGood(a)'
    <2>1. pb_buffer'[a] = pb_buffer[a] /\ pb_buffer[a].src # "log"
      BY <1>1 DEF ReportsInv, BufferGood
    <2>2. Overlaps(n) \subseteq mixed'
      BY <1>1
    <2>. HIDE DEF t, j
    <2>. QED BY <1>1, <1>2, <1>3, <1>6, <2>1, <2>2, BufferBegun
  <1>10. mixed' \subseteq {"overlap", "glued", "joined"} \X Device
    BY <1>1, OverlapsIs DEF ReportsInv
  <1>11. reports' \in [Device -> Nat]
    BY <1>1, <1>4 DEF ReportsInv
  <1>12. DOMAIN job' = Threads
    BY <1>1, <1>3
  <1>13. \A a \in arrived' : ArrivedGood(a)'
    BY <1>1, <1>2, ArrivedKept
  <1>14. Shape' /\ \A a \in Device : \A p \in Up[a] : StreamGood(a, p)'
    BY <1>1, <1>2, StreamsKept
  <1>15. (pb_buffer \in [Device -> Packets])' /\ (logs \in [Device -> Nat])'
    BY <1>1 DEF ReportsInv
  <1>. HIDE DEF t, j
  <1>. QED BY <1>8, <1>9, <1>10, <1>11, <1>12, <1>13, <1>14, <1>15 DEF ReportsInv

LEMMA ThreadIs ==
  ASSUME NEW t \in Threads
  PROVE  t[1] \in Device /\ t = <<t[1], t[2]>>
  BY DEF Threads

\* A thread goes on: what the invariant asks of the buffer and of the jobs.
LEMMA BufferStep ==
  ASSUME ReportsInv, Later, UNCHANGED mixed, NEW t \in Threads, job[t].step # 0, NEW j,
         job' = [job EXCEPT ![t] = j],
         \A a \in Device : a # t[1] => pb_buffer'[a] = pb_buffer[a],
         pb_buffer'[t[1]].src # "log",
         ~Overlapped(t[1]) => /\ j.step = 2 => pb_buffer'[t[1]].fwd = j.report.fwd
                              /\ j.step = 3 => pb_buffer'[t[1]] = j.report
  PROVE  \A a \in Device : BufferGood(a)'
  <1>. DEFINE n == t[1]
  <1>1. n \in Device /\ DOMAIN job = Threads
    BY ThreadIs DEF ReportsInv
  <1>2. ASSUME NEW a \in Device, a # n PROVE BufferGood(a)'
    <2>1. \A s \in Threads : s[1] = a => job'[s] = job[s]
      BY <1>1, <1>2
    <2>. QED BY <1>2, <2>1, BufferKept
  <1>3. BufferGood(n)'
    <2>1. SUFFICES ASSUME ~Overlapped(n)'
                  PROVE  /\ \A s, q \in Threads : s[1] = n /\ q[1] = n /\ job'[s].step # 0
                                                    /\ job'[q].step # 0 => s = q
                         /\ \A s \in Threads : s[1] = n =>
                              /\ job'[s].step = 2 => pb_buffer'[n].fwd = job'[s].report.fwd
                              /\ job'[s].step = 3 => pb_buffer'[n] = job'[s].report
      BY <1>1 DEF BufferGood
    <2>2. ~Overlapped(n) /\ BufferGood(n)
      BY <1>1, <2>1 DEF Overlapped, ReportsInv
    <2>3. \A s \in Threads : s[1] = n /\ s # t => job[s].step = 0
      BY <2>2 DEF BufferGood
    <2>4. \A s \in Threads : job'[s] = IF s = t THEN j ELSE job[s]
      BY <1>1
    <2>. QED BY <2>2, <2>3, <2>4
  <1>. QED BY <1>2, <1>3

LEMMA JobStep ==
  ASSUME ReportsInv, Later, NEW t \in Threads, NEW j, job' = [job EXCEPT ![t] = j],
         j \in Jobs, j.todo \subseteq Up[t[1]], j.report.src # "log",
         j.step = 0 => j = Idle, j.step # 0 => ReportGood(t, j.report)'
  PROVE  DOMAIN job' = Threads /\ \A s \in Threads : JobGood(s)'
  <1>1. DOMAIN job = Threads
    BY DEF ReportsInv
  <1>2. JobGood(t)'
    <2>1. job'[t] = j
      BY <1>1
    <2>. QED BY <2>1 DEF JobGood
  <1>3. ASSUME NEW s \in Threads, s # t PROVE JobGood(s)'
    <2>1. job'[s] = job[s]
      BY <1>1, <1>3
    <2>. QED BY <2>1, JobKept
  <1>. QED BY <1>1, <1>2, <1>3

\* A thread in the middle of its job takes the next step.
LEMMA DoneKeeps ==
  ASSUME ReportsInv, Later, NEW t \in Threads, job[t].step # 0, job' = [job EXCEPT ![t] = Done(@)]
  PROVE  DOMAIN job' = Threads /\ \A s \in Threads : JobGood(s)'
  <1>1. JobGood(t) /\ job[t] \in Jobs
    BY DEF ReportsInv, JobGood
  <1>2. PICK j : j = Done(job[t])
    OBVIOUS
  <1>3. job' = [job EXCEPT ![t] = j]
    BY <1>2
  <1>4. CASE job[t].step = 3
    <2>1. j = Idle
      BY <1>1, <1>2, <1>4, DoneIs
    <2>2. j \in Jobs /\ j.todo \subseteq Up[t[1]] /\ j.report.src # "log" /\ j.step = 0
      BY <2>1, NoReportIs
    <2>. QED BY <1>3, <2>1, <2>2, JobStep
  <1>5. CASE job[t].step # 3
    <2>1. j \in Jobs /\ j.step = job[t].step + 1 /\ j.report = job[t].report /\ j.todo = job[t].todo
      BY <1>1, <1>2, <1>5, DoneIs
    <2>2. job[t].step \in 0..3
      BY <1>1 DEF Jobs
    <2>3. j.step # 0
      BY <2>1, <2>2
    <2>4. PICK r : r = j.report
      OBVIOUS
    <2>5. ReportGood(t, r)
      BY <1>1, <2>1, <2>4 DEF JobGood
    <2>6. ReportGood(t, r)'
      BY <2>5, ReportLater
    <2>7. j.todo \subseteq Up[t[1]] /\ j.report.src # "log"
      BY <1>1, <2>1 DEF JobGood
    <2>8. ReportGood(t, j.report)'
      BY <2>4, <2>6
    <2>. QED BY <1>3, <2>1, <2>3, <2>7, <2>8, JobStep
  <1>. QED BY <1>4, <1>5

LEMMA HeaderKeeps ==
  ASSUME ReportsInv, NEW t \in Threads, Header(t)
  PROVE  ReportsInv'
  <1>. DEFINE n == t[1]
  <1>1. /\ job[t].step = 1 /\ JobGood(t) /\ job[t] \in Jobs
        /\ job' = [job EXCEPT ![t] = Done(@)]
        /\ pb_buffer' = [pb_buffer EXCEPT ![n].fwd = job[t].report.fwd]
        /\ UNCHANGED <<stream, reports, logs, arrived, lost, mixed>>
    <2>1. JobGood(t) /\ job[t] \in Jobs
      BY DEF ReportsInv, JobGood
    <2>2. job[t].step = 1
      BY <2>1, AtIs DEF Header
    <2>. QED BY <2>1, <2>2 DEF Header
  <1>2. Later
    BY <1>1, LaterIf
  <1>3. n \in Device /\ pb_buffer \in [Device -> Packets] /\ job[t].report \in Packets
    BY <1>1, ThreadIs DEF ReportsInv, Jobs
  <1>4. /\ pb_buffer' \in [Device -> Packets]
        /\ pb_buffer'[n].fwd = job[t].report.fwd /\ pb_buffer'[n].src = pb_buffer[n].src
        /\ \A a \in Device : a # n => pb_buffer'[a] = pb_buffer[a]
    <2>1. pb_buffer[n] \in Packets /\ pb_buffer' = [pb_buffer EXCEPT ![n] = [pb_buffer[n] EXCEPT !.fwd = job[t].report.fwd]]
      BY <1>1, <1>3
    <2>2. [pb_buffer[n] EXCEPT !.fwd = job[t].report.fwd] \in Packets
      BY <1>3, <2>1 DEF Packets
    <2>. QED BY <1>3, <2>1, <2>2 DEF Packets
  <1>5. DOMAIN job' = Threads /\ \A s \in Threads : JobGood(s)'
    <2>1. job[t].step # 0 /\ job' = [job EXCEPT ![t] = Done(@)]
      BY <1>1
    <2>. QED BY ONLY ReportsInv, t \in Threads, <1>2, <2>1, DoneKeeps
  <1>6. \A a \in Device : BufferGood(a)'
    <2>1. PICK j : j = Done(job[t])
      OBVIOUS
    <2>2. j.step = 2 /\ j.report = job[t].report
      BY <1>1, <2>1, DoneIs
    <2>3. pb_buffer[n].src # "log"
      BY <1>3 DEF ReportsInv, BufferGood
    <2>4. job' = [job EXCEPT ![t] = j]
      BY <1>1, <2>1
    <2>5. ~Overlapped(t[1]) => /\ j.step = 2 => pb_buffer'[t[1]].fwd = j.report.fwd
                               /\ j.step = 3 => pb_buffer'[t[1]] = j.report
      BY <1>4, <2>2
    <2>6. UNCHANGED mixed /\ job[t].step # 0 /\ pb_buffer'[t[1]].src # "log"
          /\ \A a \in Device : a # t[1] => pb_buffer'[a] = pb_buffer[a]
      BY <1>1, <1>4, <2>3
    <2>. QED BY ONLY ReportsInv, t \in Threads, <1>2, <2>4, <2>5, <2>6, BufferStep
  <1>7. \A r \in arrived' : ArrivedGood(r)'
    BY <1>1, <1>2, ArrivedKept
  <1>8. Shape' /\ \A a \in Device : \A p \in Up[a] : StreamGood(a, p)'
    BY <1>1, <1>2, StreamsKept
  <1>9. /\ reports' \in [Device -> Nat] /\ logs' \in [Device -> Nat]
        /\ mixed' \subseteq {"overlap", "glued", "joined"} \X Device
    BY <1>1 DEF ReportsInv
  <1>. QED BY <1>4, <1>5, <1>6, <1>7, <1>8, <1>9 DEF ReportsInv

LEMMA BodyKeeps ==
  ASSUME ReportsInv, NEW t \in Threads, Body(t)
  PROVE  ReportsInv'
  <1>. DEFINE n == t[1]
  <1>1. /\ job[t].step = 2 /\ JobGood(t) /\ job[t] \in Jobs
        /\ job' = [job EXCEPT ![t] = Done(@)]
        /\ pb_buffer' = [pb_buffer EXCEPT ![n] = [job[t].report EXCEPT !.fwd = pb_buffer[n].fwd]]
        /\ UNCHANGED <<stream, reports, logs, arrived, lost, mixed>>
    <2>1. JobGood(t) /\ job[t] \in Jobs
      BY DEF ReportsInv, JobGood
    <2>2. job[t].step = 2
      BY <2>1, AtIs DEF Body
    <2>. QED BY <2>1, <2>2 DEF Body
  <1>2. Later
    BY <1>1, LaterIf
  <1>3. /\ n \in Device /\ pb_buffer \in [Device -> Packets] /\ job[t].report \in Packets
        /\ pb_buffer[n] \in Packets /\ BufferGood(n)
    BY <1>1, ThreadIs DEF ReportsInv, Jobs
  <1>4. PICK r : r = [job[t].report EXCEPT !.fwd = pb_buffer[n].fwd]
    OBVIOUS
  <1>5. /\ r \in Packets /\ r.src = job[t].report.src
        /\ pb_buffer[n].fwd = job[t].report.fwd => r = job[t].report
    BY <1>3, <1>4 DEF Packets
  <1>6. /\ pb_buffer' \in [Device -> Packets] /\ pb_buffer'[n] = r
        /\ \A a \in Device : a # n => pb_buffer'[a] = pb_buffer[a]
    BY <1>1, <1>3, <1>4, <1>5
  <1>7. DOMAIN job' = Threads /\ \A s \in Threads : JobGood(s)'
    <2>1. job[t].step # 0 /\ job' = [job EXCEPT ![t] = Done(@)]
      BY <1>1
    <2>. QED BY ONLY ReportsInv, t \in Threads, <1>2, <2>1, DoneKeeps
  <1>8. \A a \in Device : BufferGood(a)'
    <2>1. PICK j : j = Done(job[t])
      OBVIOUS
    <2>2. j.step = 3 /\ j.report = job[t].report
      BY <1>1, <2>1, DoneIs
    <2>3. r.src # "log"
      <3>1. job[t].report.src # "log"
        BY <1>1 DEF JobGood
      <3>. QED BY <1>5, <3>1
    <2>4. job' = [job EXCEPT ![t] = j]
      BY <1>1, <2>1
    <2>5. ~Overlapped(t[1]) => /\ j.step = 2 => pb_buffer'[t[1]].fwd = j.report.fwd
                               /\ j.step = 3 => pb_buffer'[t[1]] = j.report
      BY <1>1, <1>3, <1>5, <1>6, <2>2 DEF BufferGood
    <2>6. UNCHANGED mixed /\ job[t].step # 0
      BY <1>1
    <2>7. pb_buffer'[t[1]].src # "log" /\ \A a \in Device : a # t[1] => pb_buffer'[a] = pb_buffer[a]
      BY <1>6, <2>3
    <2>. QED BY ONLY ReportsInv, t \in Threads, <1>2, <2>4, <2>5, <2>6, <2>7, BufferStep
  <1>9. \A a \in arrived' : ArrivedGood(a)'
    BY <1>1, <1>2, ArrivedKept
  <1>10. Shape' /\ \A a \in Device : \A p \in Up[a] : StreamGood(a, p)'
    BY <1>1, <1>2, StreamsKept
  <1>11. /\ reports' \in [Device -> Nat] /\ logs' \in [Device -> Nat]
         /\ mixed' \subseteq {"overlap", "glued", "joined"} \X Device
    BY <1>1 DEF ReportsInv
  <1>. QED BY <1>6, <1>7, <1>8, <1>9, <1>10, <1>11 DEF ReportsInv

LEMMA SentKeeps ==
  ASSUME ReportsInv, NEW t \in Threads, Sent(t)
  PROVE  ReportsInv'
  <1>1. /\ job[t].step = 3 /\ job[t] \in Jobs
        /\ job' = [job EXCEPT ![t] = Done(@)]
        /\ UNCHANGED <<stream, pb_buffer, reports, logs, arrived, lost, mixed>>
    <2>1. job[t] \in Jobs
      BY DEF ReportsInv, JobGood
    <2>2. job[t].step = 3
      BY <2>1, AtIs DEF Sent
    <2>. QED BY <2>1, <2>2 DEF Sent
  <1>2. Later
    BY <1>1, LaterIf
  <1>3. DOMAIN job' = Threads /\ \A s \in Threads : JobGood(s)'
    <2>1. job[t].step # 0 /\ job' = [job EXCEPT ![t] = Done(@)]
      BY <1>1
    <2>. QED BY ONLY ReportsInv, t \in Threads, <1>2, <2>1, DoneKeeps
  <1>4. \A a \in Device : BufferGood(a)'
    <2>1. job' = [job EXCEPT ![t] = Idle]
      BY <1>1, DoneIs
    <2>2. /\ Idle.step = 2 => pb_buffer'[t[1]].fwd = Idle.report.fwd
          /\ Idle.step = 3 => pb_buffer'[t[1]] = Idle.report
      BY NoReportIs
    <2>3. pb_buffer'[t[1]].src # "log"
      BY <1>1, ThreadIs DEF ReportsInv, BufferGood
    <2>4. UNCHANGED mixed /\ job[t].step # 0
          /\ \A a \in Device : a # t[1] => pb_buffer'[a] = pb_buffer[a]
      BY <1>1
    <2>. QED BY ONLY ReportsInv, t \in Threads, <1>2, <2>1, <2>2, <2>3, <2>4, BufferStep
  <1>5. \A a \in arrived' : ArrivedGood(a)'
    BY <1>1, <1>2, ArrivedKept
  <1>6. Shape' /\ \A a \in Device : \A p \in Up[a] : StreamGood(a, p)'
    BY <1>1, <1>2, StreamsKept
  <1>7. /\ reports' \in [Device -> Nat] /\ logs' \in [Device -> Nat]
        /\ pb_buffer' \in [Device -> Packets]
        /\ mixed' \subseteq {"overlap", "glued", "joined"} \X Device
    BY <1>1 DEF ReportsInv
  <1>. QED BY <1>3, <1>4, <1>5, <1>6, <1>7 DEF ReportsInv

LEMMA DamagedIs ==
  ASSUME NEW r \in Packets
  PROVE  Damaged(r) \in Packets /\ ~Damaged(r).ok /\ Damaged(r).src = r.src
  <1>1. <<>> \in Seq(Device \cup {Root})
    OBVIOUS
  <1>. QED BY <1>1 DEF Damaged, Packets

\* What a thread sends: its report, or what the buffer of a device in which
\* threads have met holds instead.
LEMMA SentIs ==
  ASSUME ReportsInv, NEW t \in Threads, job[t].step = 3, NEW p \in Up[t[1]], NEW r,
         r = IF pb_buffer[t[1]] = job[t].report THEN job[t].report ELSE Damaged(pb_buffer[t[1]])
  PROVE  PacketGood(p, Onto(p, r)) /\ r \in Packets /\ ~IsLog(r)
  <1>. DEFINE n == t[1]
  <1>1. /\ n \in Device /\ JobGood(t) /\ job[t] \in Jobs /\ BufferGood(n)
        /\ pb_buffer[n] \in Packets
    BY ThreadIs DEF ReportsInv, JobGood
  <1>2. p \in Node
    BY <1>1, ReportsAssumption DEF Node
  <1>3. CASE r = job[t].report
    <2>1. r \in Packets /\ r.src # "log" /\ ReportGood(t, r)
      BY <1>1, <1>3 DEF JobGood, Jobs
    <2>2. ~IsLog(r)
      BY <2>1 DEF IsLog
    <2>3. PICK q : q = Onto(p, r)
      OBVIOUS
    <2>4. /\ q \in Packets /\ q.src = r.src /\ q.num = r.num /\ q.ok = r.ok
          /\ q.fwd = r.fwd /\ q.tgt = r.tgt /\ (Live(q) <=> Live(r)) /\ ~IsLog(q)
          /\ Live(r) => q.path = Append(r.path, p)
      BY ONLY <1>2, <2>1, <2>2, <2>3, OntoIs
    <2>5. CASE ~r.ok
      <3>1. ~Live(q) /\ Harmed
        BY <2>1, <2>4, <2>5 DEF Live, ReportGood
      <3>2. PacketGood(p, q)
        BY <2>4, <3>1 DEF PacketGood
      <3>. QED BY <2>1, <2>2, <2>3, <3>2
    <2>6. CASE r.ok
      <3>1. /\ Travels(r, n) /\ r.path \in Seq(Node) /\ Len(r.path) \in Nat
            /\ Aimed(r) \/ (r.fwd = "TO_PARENT_TO_ROOT" /\ Len(r.path) = 1)
        BY <2>1, <2>6 DEF ReportGood, Packets, Node
      <3>2. /\ q.path \in Seq(Node) /\ IsWay(q.path)
            /\ Len(q.path) = Len(r.path) + 1 /\ q.path[Len(r.path) + 1] = p
            /\ \A i \in 1..Len(r.path) : q.path[i] = r.path[i]
        <4>1. q.path = Append(r.path, p)
          BY <2>2, <2>4, <2>6 DEF Live
        <4>. QED BY <1>1, <3>1, <4>1, WayGrows DEF Travels
      <3>3. Travels(q, p) /\ Len(q.path) >= 2
        <4>1. q.path[1] = r.path[1] /\ q.path[Len(q.path)] = p /\ Len(r.path) >= 1
          BY <3>1, <3>2 DEF Travels
        <4>2. IsWay(q.path) /\ Len(q.path) >= 2
          BY <3>1, <3>2, <4>1
        <4>. QED BY <2>4, <3>1, <4>1, <4>2 DEF Travels
      <3>4. ASSUME Aimed(r) PROVE Aimed(q)
        <4>1. PICK i \in 2..Len(r.path) : /\ r.path[i] = r.tgt
                                          /\ \A j \in 2..i - 1 : Joined(r.path[j])
          BY <3>4 DEF Aimed, Targets
        <4>2. i \in 2..Len(q.path) /\ q.path[i] = q.tgt
          BY <2>4, <3>1, <3>2, <4>1
        <4>3. \A j \in 2..i - 1 : q.path[j] = r.path[j] /\ Joined(r.path[j])
          BY <3>1, <3>2, <4>1
        <4>. QED BY <2>4, <3>4, <4>2, <4>3 DEF Aimed, Targets
      <3>5. ASSUME r.fwd = "TO_PARENT_TO_ROOT", Len(r.path) = 1 PROVE Unaimed(q)
        BY <2>4, <3>2, <3>5 DEF Unaimed
      <3>6. PacketGood(p, q)
        BY <2>4, <2>6, <3>1, <3>3, <3>4, <3>5 DEF PacketGood
      <3>. QED BY <2>1, <2>2, <2>3, <3>6
    <2>. QED BY <2>5, <2>6
  <1>4. CASE r # job[t].report
    <2>1. pb_buffer[n] # job[t].report /\ r = Damaged(pb_buffer[n])
      BY <1>4
    <2>2. Overlapped(n)
      BY <1>1, <2>1 DEF BufferGood
    <2>3. Harmed
      BY <1>1, <2>2 DEF Harmed, Overlapped
    <2>4. /\ r \in Packets /\ ~r.ok /\ r.src = pb_buffer[n].src
      BY <1>1, <2>1, DamagedIs
    <2>5. ~IsLog(r) /\ ~Live(r)
      BY <1>1, <2>4 DEF IsLog, Live, BufferGood
    <2>6. Onto(p, r) = r
      BY <2>5 DEF Onto
    <2>7. PacketGood(p, r)
      BY <2>3, <2>4, <2>5 DEF PacketGood
    <2>8. PacketGood(p, Onto(p, r))
      BY ONLY <2>6, <2>7
    <2>. QED BY <2>4, <2>5, <2>8
  <1>. QED BY <1>3, <1>4

LEMMA OneUnit ==
  ASSUME NEW r \in Packets, NEW p \in Node, NEW w, w = To(p, <<Unit(r, 1)>>)
  PROVE  w \in Seq(Units) /\ Len(w) = 1 /\ w[1].packet = Onto(p, r) /\ w[1].idx = 1
  <1>. DEFINE x == Unit(r, 1)
  <1>1. x \in Units /\ x.packet = r /\ x.idx = 1
    BY DEF Unit, Units
  <1>. HIDE DEF x
  <1>2. <<x>> \in Seq(Units) /\ Len(<<x>>) = 1 /\ <<x>>[1] = x
    BY <1>1
  <1>3. IsOnto(w, p, <<x>>)
    BY <1>2, ToIs DEF x
  <1>. QED BY <1>1, <1>2, <1>3 DEF IsOnto

LEMMA SendToKeeps ==
  ASSUME ReportsInv, NEW t \in Threads, NEW p \in job[t].todo, SendTo(t, p)
  PROVE  ReportsInv'
  <1>. DEFINE n == t[1]
  <1>1. /\ job[t] \in Jobs /\ JobGood(t) /\ job[t].step = 3
    <2>1. JobGood(t) /\ job[t] \in Jobs
      BY DEF ReportsInv, JobGood
    <2>. QED BY <2>1, AtIs DEF SendTo
  <1>2. n \in Device /\ p \in Up[n] /\ p \in Node
    <2>1. n \in Device /\ p \in Up[n]
      BY <1>1, ThreadIs DEF JobGood
    <2>. QED BY <2>1, ReportsAssumption DEF Node
  <1>3. PICK r : r = IF pb_buffer[n] = job[t].report THEN job[t].report ELSE Damaged(pb_buffer[n])
    OBVIOUS
  <1>4. PICK w : w = To(p, <<Unit(r, 1)>>)
    OBVIOUS
  <1>5. /\ stream' = [stream EXCEPT ![n][p] = @ \o w]
        /\ job' = [job EXCEPT ![t].todo = Others(t, p)]
        /\ UNCHANGED <<pb_buffer, reports, logs, arrived, mixed>>
    BY <1>3, <1>4 DEF SendTo
  <1>6. Later
    BY <1>5, LaterIf
  <1>7. PacketGood(p, Onto(p, r)) /\ r \in Packets
    BY <1>1, <1>2, <1>3, SentIs
  <1>8. w \in Seq(Units) /\ Len(w) = 1 /\ w[1].packet = Onto(p, r) /\ w[1].idx = 1
    BY <1>2, <1>4, <1>7, OneUnit
  <1>9. \A i \in 1..Len(w) : UnitGood(p, w[i])'
    <2>1. UnitGood(p, w[1])
      BY <1>7, <1>8 DEF UnitGood
    <2>2. UnitGood(p, w[1])'
      BY <1>6, <2>1, UnitLater
    <2>. QED BY <1>8, <2>2
  <1>10. /\ Shape'
         /\ \A a \in Device : \A b \in Up[a] :
              Flow(a, b, 0, IF a = n /\ b = p THEN w ELSE <<>>)
    <2>1. Streams
      BY StreamsIf
    <2>2. stream' = [stream EXCEPT ![n][p] = @ \o w]
      BY <1>5
    <2>. QED BY ONLY <1>2, <1>8, <2>1, <2>2, OneFlow
  <1>11. ASSUME NEW a \in Device, NEW b \in Up[a] PROVE StreamGood(a, b)'
    <2>1. PICK v : v = IF a = n /\ b = p THEN w ELSE <<>>
      OBVIOUS
    <2>2. Flow(a, b, 0, v) /\ StreamGood(a, b)
      BY <1>10, <2>1 DEF ReportsInv
    <2>3. \A i \in 1..Len(v) : UnitGood(b, v[i])'
      BY <1>9, <2>1
    <2>. QED BY <1>6, <2>2, <2>3, FlowGood
  <1>12. DOMAIN job' = Threads /\ \A s \in Threads : JobGood(s)'
    <2>1. PICK j : j = [job[t] EXCEPT !.todo = Others(t, p)]
      OBVIOUS
    <2>2. job' = [job EXCEPT ![t] = j]
      BY <1>5, <2>1
    <2>3. j \in Jobs /\ j.step = 3 /\ j.report = job[t].report /\ j.todo \subseteq Up[n]
      BY <1>1, <2>1 DEF Jobs, Others, JobGood
    <2>4. PICK q : q = job[t].report
      OBVIOUS
    <2>5. ReportGood(t, q)' /\ q.src # "log"
      BY <1>1, <1>6, <2>4, ReportLater DEF JobGood
    <2>6. ReportGood(t, j.report)' /\ j.report.src # "log"
      BY <2>3, <2>4, <2>5
    <2>7. j.todo \subseteq Up[t[1]] /\ (j.step = 0 => j = Idle)
      BY <2>3
    <2>. QED BY ONLY ReportsInv, <1>6, t \in Threads, <2>2, <2>3, <2>6, <2>7, JobStep
  <1>13. \A a \in Device : BufferGood(a)'
    <2>1. PICK j : j = [job[t] EXCEPT !.todo = Others(t, p)]
      OBVIOUS
    <2>2. job' = [job EXCEPT ![t] = j]
      BY <1>5, <2>1
    <2>3. j.step = 3 /\ j.report = job[t].report
      BY <1>1, <2>1 DEF Jobs
    <2>4. BufferGood(n)
      BY <1>2 DEF ReportsInv
    <2>5. ~Overlapped(t[1]) => /\ j.step = 2 => pb_buffer'[t[1]].fwd = j.report.fwd
                               /\ j.step = 3 => pb_buffer'[t[1]] = j.report
      BY <1>1, <1>5, <2>3, <2>4 DEF BufferGood
    <2>6. UNCHANGED mixed /\ job[t].step # 0
          /\ \A a \in Device : a # t[1] => pb_buffer'[a] = pb_buffer[a]
      BY <1>1, <1>5
    <2>7. pb_buffer'[t[1]].src # "log"
      BY <1>5, <2>4 DEF BufferGood
    <2>. QED BY ONLY ReportsInv, t \in Threads, <1>6, <2>2, <2>5, <2>6, <2>7, BufferStep
  <1>14. \A a \in arrived' : ArrivedGood(a)'
    BY <1>5, <1>6, ArrivedKept
  <1>15. /\ reports' \in [Device -> Nat] /\ logs' \in [Device -> Nat]
         /\ pb_buffer' \in [Device -> Packets]
         /\ mixed' \subseteq {"overlap", "glued", "joined"} \X Device
    BY <1>5 DEF ReportsInv
  <1>. QED BY <1>10, <1>11, <1>12, <1>13, <1>14, <1>15 DEF ReportsInv

LEMMA LogUnits ==
  ASSUME NEW u, u = [i \in 1..LogSize |-> Unit(LogPacket, i)]
  PROVE  /\ u \in Seq(Units) /\ LogPacket \in Packets /\ IsLog(LogPacket) /\ LogPacket.ok
         /\ LogPacket.fwd = "TO_ROOT" /\ \A i \in 1..Len(u) : u[i].packet = LogPacket
  <1>1. LogPacket \in Packets /\ IsLog(LogPacket) /\ LogPacket.fwd = "TO_ROOT" /\ LogPacket.ok
    <2>1. <<>> \in Seq(Device \cup {Root})
      OBVIOUS
    <2>. QED BY <2>1 DEF LogPacket, Report, Packets, IsLog, None
  <1>2. \A i \in 1..LogSize : Unit(LogPacket, i) \in Units /\ Unit(LogPacket, i).packet = LogPacket
    BY <1>1 DEF Unit, Units
  <1>3. u \in [1..LogSize -> Units] /\ \A i \in 1..LogSize : u[i].packet = LogPacket
    BY <1>2
  <1>4. LogSize \in Nat
    BY ReportsAssumption
  <1>5. u \in Seq(Units) /\ Len(u) = LogSize
    BY <1>3, <1>4, FunctionIsSeq
  <1>. QED BY <1>1, <1>3, <1>5

LEMMA SendLogKeeps ==
  ASSUME ReportsInv, NEW n \in Device, send_log_packet(n)
  PROVE  ReportsInv'
  <1>1. PICK u : u = [i \in 1..LogSize |-> Unit(LogPacket, i)]
    OBVIOUS
  <1>2. /\ stream' = ToParents(stream, n, u) /\ logs' = [logs EXCEPT ![n] = @ + 1]
        /\ UNCHANGED <<pb_buffer, job, reports, arrived, lost, mixed>>
    BY <1>1 DEF send_log_packet
  <1>3. Later
    BY <1>2, LaterIf
  <1>4. /\ u \in Seq(Units) /\ LogPacket \in Packets /\ IsLog(LogPacket) /\ LogPacket.ok
        /\ LogPacket.fwd = "TO_ROOT" /\ \A i \in 1..Len(u) : u[i].packet = LogPacket
    BY <1>1, LogUnits
  <1>5. /\ Shape'
        /\ \A a \in Device : \A p \in Up[a] :
             Flow(a, p, 0, IF a = n THEN To(p, set_size(u)) ELSE <<>>)
    BY <1>2, <1>4, StreamsIf, SendFlow
  <1>6. ASSUME NEW a \in Device, NEW b \in Up[a] PROVE StreamGood(a, b)'
    <2>1. PICK v : v = IF a = n THEN To(b, set_size(u)) ELSE <<>>
      OBVIOUS
    <2>2. Flow(a, b, 0, v) /\ StreamGood(a, b)
      BY <1>5, <2>1 DEF ReportsInv
    <2>3. ASSUME NEW i \in 1..Len(v) PROVE UnitGood(b, v[i])'
      <3>1. a = n /\ v = To(b, set_size(u))
        BY <2>1
      <3>2. b \in Node
        BY ReportsAssumption DEF Node
      <3>3. IsOnto(v, b, u)
        BY <1>4, <3>1, <3>2, SendingIs
      <3>4. v[i].packet = Onto(b, LogPacket) /\ Onto(b, LogPacket) = LogPacket
        BY <1>4, <3>3 DEF IsOnto, Onto, Live
      <3>5. UnitGood(b, v[i])
        BY <1>4, <3>4 DEF UnitGood, PacketGood, Live
      <3>. QED BY <1>3, <3>5, UnitLater
    <2>. QED BY <1>3, <2>2, <2>3, FlowGood
  <1>7. DOMAIN job' = Threads /\ \A t \in Threads : JobGood(t)'
    BY <1>2, <1>3, JobKept DEF ReportsInv
  <1>8. \A a \in Device : BufferGood(a)'
    BY <1>2, <1>3, BufferKept
  <1>9. \A a \in arrived' : ArrivedGood(a)'
    BY <1>2, <1>3, ArrivedKept
  <1>10. /\ reports' \in [Device -> Nat] /\ logs' \in [Device -> Nat]
         /\ pb_buffer' \in [Device -> Packets]
         /\ mixed' \subseteq {"overlap", "glued", "joined"} \X Device
    BY <1>2 DEF ReportsInv
  <1>. QED BY <1>5, <1>6, <1>7, <1>8, <1>9, <1>10 DEF ReportsInv

---------------------------------------------------------------------------
(* Reading keeps the invariant.                                            *)

LEMMA TakenIs ==
  ASSUME NEW m \in Device, NEW n \in Up[m], StreamGood(m, n), NEW k \in Nat \ {0}, k <= Len(stream[m][n]),
         NEW u, u = Taken(n, m, k)
  PROVE  /\ u \in Seq(Units) /\ Len(u) = k /\ k \in 0..Len(stream[m][n])
         /\ \A i \in 1..k : u[i] = stream[m][n][i] /\ u[i] \in Units /\ UnitGood(n, u[i])
  <1>1. PICK s : s = stream[m][n]
    OBVIOUS
  <1>2. s \in Seq(Units) /\ Len(s) \in Nat /\ k <= Len(s)
    BY <1>1 DEF StreamGood
  <1>3. \A i \in 1..k : i \in 1..Len(s) /\ s[i] \in Units
    <2>1. \A i \in 1..k : i \in 1..Len(s)
      BY <1>2
    <2>. QED BY <1>2, <2>1, ElementOfSeq
  <1>4. /\ u \in Seq(Units) /\ Len(u) = (IF 1 <= k THEN k - 1 + 1 ELSE 0)
        /\ \A i \in 1..k - 1 + 1 : u[i] = s[1 + i - 1]
    <2>1. u = SubSeq(s, 1, k)
      BY <1>1 DEF Taken
    <2>. QED BY <1>2, <1>3, <2>1, SubSeqProperties
  <1>5. ASSUME NEW i \in 1..k PROVE u[i] = s[i]
    <2>1. i \in 1..k - 1 + 1 /\ 1 + i - 1 = i
      OBVIOUS
    <2>. QED BY <1>4, <2>1
  <1>6. \A i \in 1..k : UnitGood(n, s[i])
    BY <1>1, <1>3 DEF StreamGood
  <1>7. Len(u) = k /\ k \in 0..Len(s)
    BY <1>2, <1>4
  <1>. QED BY <1>1, <1>3, <1>4, <1>5, <1>6, <1>7

\* A thread of n reads from m.
LEMMA ReadingIs ==
  ASSUME ReportsInv, NEW n \in Device, NEW m \in Children(n), NEW k \in 1..MaxRead,
         Reading(n, m, k), NEW u, u = Taken(n, m, k)
  PROVE  /\ m \in Device /\ n \in Up[m] /\ <<n, m>> \in Threads /\ job[<<n, m>>].step = 0
         /\ k \in 0..Len(stream[m][n]) /\ k \in Nat /\ k >= 1
         /\ u \in Seq(Units) /\ Len(u) = k
         /\ \A i \in 1..k : u[i] = stream[m][n][i] /\ u[i] \in Units /\ UnitGood(n, u[i])
  <1>1. m \in Device /\ n \in Up[m]
    BY DEF Children
  <1>2. <<n, m>> \in Threads
    BY <1>1 DEF Threads
  <1>3. job[<<n, m>>].step = 0
    <2>1. job[<<n, m>>] \in Jobs
      BY <1>2 DEF ReportsInv, JobGood
    <2>. QED BY <2>1, AtIs DEF Reading
  <1>4. k \in Nat \ {0} /\ k <= Len(stream[m][n])
    BY ReportsAssumption DEF Reading
  <1>5. StreamGood(m, n)
    BY <1>1 DEF ReportsInv
  <1>6. /\ u \in Seq(Units) /\ Len(u) = k /\ k \in 0..Len(stream[m][n])
        /\ \A i \in 1..k : u[i] = stream[m][n][i] /\ u[i] \in Units /\ UnitGood(n, u[i])
    BY <1>1, <1>4, <1>5, TakenIs
  <1>. QED BY <1>1, <1>2, <1>3, <1>4, <1>6

\* Units taken off a link leave the others as they are.
LEMMA TakenOffGood ==
  ASSUME ReportsInv, Later, NEW m \in Device, NEW n \in Up[m], NEW k \in 0..Len(stream[m][n]),
         stream' = Without(n, m, k)
  PROVE  Shape' /\ \A a \in Device : \A b \in Up[a] : StreamGood(a, b)'
  <1>1. /\ Shape'
        /\ \A a \in Device : \A b \in Up[a] : Flow(a, b, IF a = m /\ b = n THEN k ELSE 0, <<>>)
    BY StreamsIf, ReadFlow
  <1>2. ASSUME NEW a \in Device, NEW b \in Up[a] PROVE StreamGood(a, b)'
    <2>1. PICK d : d = IF a = m /\ b = n THEN k ELSE 0
      OBVIOUS
    <2>2. Flow(a, b, d, <<>>) /\ StreamGood(a, b)
      BY <1>1, <2>1 DEF ReportsInv
    <2>3. \A i \in 1..Len(<<>>) : UnitGood(b, <<>>[i])'
      OBVIOUS
    <2>. QED BY <2>2, <2>3, FlowGood
  <1>. QED BY <1>1, <1>2

LEMMA ReadMiddleKeeps ==
  ASSUME ReportsInv, NEW n \in Device, NEW m \in Children(n), NEW k \in 1..MaxRead,
         ReadMiddle(n, m, k)
  PROVE  ReportsInv'
  <1>1. /\ Reading(n, m, k) /\ stream' = Without(n, m, k)
        /\ UNCHANGED <<pb_buffer, job, reports, logs, arrived, mixed>>
    BY DEF ReadMiddle
  <1>2. Later
    BY <1>1, LaterIf
  <1>3. m \in Device /\ n \in Up[m] /\ k \in 0..Len(stream[m][n])
    BY <1>1, ReadingIs
  <1>4. Shape' /\ \A a \in Device : \A b \in Up[a] : StreamGood(a, b)'
    BY <1>1, <1>2, <1>3, TakenOffGood
  <1>5. DOMAIN job' = Threads /\ \A t \in Threads : JobGood(t)'
    BY <1>1, <1>2, JobKept DEF ReportsInv
  <1>6. \A a \in Device : BufferGood(a)'
    BY <1>1, <1>2, BufferKept
  <1>7. \A a \in arrived' : ArrivedGood(a)'
    BY <1>1, <1>2, ArrivedKept
  <1>8. /\ reports' \in [Device -> Nat] /\ logs' \in [Device -> Nat]
        /\ pb_buffer' \in [Device -> Packets]
        /\ mixed' \subseteq {"overlap", "glued", "joined"} \X Device
    BY <1>1 DEF ReportsInv
  <1>. QED BY <1>4, <1>5, <1>6, <1>7, <1>8 DEF ReportsInv

LEMMA ReadToRootKeeps ==
  ASSUME ReportsInv, NEW n \in Device, NEW m \in Children(n), NEW k \in 1..MaxRead,
         ReadToRoot(n, m, k)
  PROVE  ReportsInv'
  <1>1. PICK u : u = Taken(n, m, k)
    OBVIOUS
  <1>2. /\ Reading(n, m, k) /\ u[1].packet.fwd = "TO_ROOT"
        /\ stream' = ToParents(Without(n, m, k), n, u)
        /\ mixed' = mixed \cup Joins(n, u)
        /\ UNCHANGED <<pb_buffer, job, reports, logs, arrived, lost>>
    BY <1>1 DEF ReadToRoot
  <1>3. Later
    BY <1>2, LaterIf
  <1>4. /\ m \in Device /\ n \in Up[m] /\ k \in 0..Len(stream[m][n]) /\ k \in Nat /\ k >= 1
        /\ u \in Seq(Units) /\ Len(u) = k
        /\ \A i \in 1..k : u[i] = stream[m][n][i] /\ u[i] \in Units /\ UnitGood(n, u[i])
    BY <1>1, <1>2, ReadingIs
  <1>5. /\ Shape'
        /\ \A a \in Device : \A b \in Up[a] :
             Flow(a, b, IF a = m /\ b = n THEN k ELSE 0,
                        IF a = n THEN To(b, set_size(u)) ELSE <<>>)
    BY <1>2, <1>4, StreamsIf, ThroughFlow
  <1>6. ASSUME NEW i \in 1..k, Live(u[i].packet), Unaimed(u[i].packet)
        PROVE  Joined(n)'
    <2>1. i # 1
      BY <1>2, <1>6 DEF Unaimed
    <2>2. u[i].idx = 1
      BY <1>4, <1>6 DEF UnitGood, Live
    <2>3. i \in 2..Len(u)
      BY <1>4, <2>1
    <2>4. <<"joined", n>> \in mixed'
      BY <1>2, <2>2, <2>3 DEF Joins
    <2>. QED BY <2>4 DEF Joined
  <1>7. ASSUME NEW a \in Device, NEW b \in Up[a] PROVE StreamGood(a, b)'
    <2>1. PICK v : v = IF a = n THEN To(b, set_size(u)) ELSE <<>>
      OBVIOUS
    <2>2. PICK d : d = IF a = m /\ b = n THEN k ELSE 0
      OBVIOUS
    <2>3. Flow(a, b, d, v) /\ StreamGood(a, b)
      BY <1>5, <2>1, <2>2 DEF ReportsInv
    <2>4. ASSUME NEW i \in 1..Len(v) PROVE UnitGood(b, v[i])'
      <3>1. a = n /\ v = To(b, set_size(u))
        BY <2>1
      <3>2. b \in Node
        BY ReportsAssumption DEF Node
      <3>3. IsOnto(v, b, u)
        BY <1>4, <3>1, <3>2, SendingIs
      <3>4. PICK r : r = u[i].packet
        OBVIOUS
      <3>5. i \in 1..k /\ v[i].packet = Onto(b, r) /\ v[i].idx = u[i].idx
        BY <1>4, <3>3, <3>4 DEF IsOnto
      <3>6. PacketGood(n, r) /\ (IsLog(r) \/ u[i].idx = 1)
        BY <1>4, <3>4, <3>5 DEF UnitGood
      <3>7. Live(r) /\ Unaimed(r) => Joined(n)'
        BY <1>6, <3>4, <3>5
      <3>8. b \in Up[n]
        BY <3>1
      <3>9. PacketGood(b, Onto(b, r))'
        BY ONLY <1>3, n \in Device, <3>6, <3>7, <3>8, Moves
      <3>10. IsLog(Onto(b, r)) <=> IsLog(r)
        BY <3>2, <3>6, OntoIs DEF PacketGood
      <3>11. PICK x : x = v[i]
        OBVIOUS
      <3>12. PICK o : o = Onto(b, r)
        OBVIOUS
      <3>13. x.packet = o /\ (IsLog(o) \/ x.idx = 1)
        BY <3>5, <3>6, <3>10, <3>11, <3>12
      <3>14. PacketGood(b, o)'
        BY <3>9, <3>12
      <3>15. UnitGood(b, x)'
        BY <3>13, <3>14 DEF UnitGood, IsLog
      <3>. QED BY <3>11, <3>15
    <2>. QED BY <1>3, <2>3, <2>4, FlowGood
  <1>8. DOMAIN job' = Threads /\ \A t \in Threads : JobGood(t)'
    BY <1>2, <1>3, JobKept DEF ReportsInv
  <1>9. \A a \in Device : BufferGood(a)'
    BY <1>2, <1>3, BufferKept
  <1>10. \A a \in arrived' : ArrivedGood(a)'
    BY <1>2, <1>3, ArrivedKept
  <1>11. mixed' \subseteq {"overlap", "glued", "joined"} \X Device
    BY <1>2 DEF ReportsInv, Joins
  <1>12. /\ reports' \in [Device -> Nat] /\ logs' \in [Device -> Nat]
         /\ pb_buffer' \in [Device -> Packets]
    BY <1>2 DEF ReportsInv
  <1>. QED BY <1>5, <1>7, <1>8, <1>9, <1>10, <1>11, <1>12 DEF ReportsInv

\* The header goes into a buffer where no thread is, or the overlap is on record.
LEMMA BufferWritten ==
  ASSUME ReportsInv, Later, NEW n \in Device, UNCHANGED job, Overlaps(n) \subseteq mixed',
         NEW a \in Device, a # n => pb_buffer'[a] = pb_buffer[a], pb_buffer'[a].src # "log"
  PROVE  BufferGood(a)'
  <1>1. CASE a # n
    BY <1>1, BufferKept
  <1>2. CASE a = n
    <2>1. Overlapped(n)' \/ \A s \in Threads : s[1] = n => job[s].step = 0
      BY OverlapsIs DEF Overlapped
    <2>. QED BY <1>2, <2>1 DEF BufferGood
  <1>. QED BY <1>1, <1>2

\* The parent is the target of a report that has come as a report to a parent.
LEMMA TargetedIs ==
  ASSUME NEW n \in Device, NEW r, PacketGood(n, r), r.fwd = "TO_PARENT_TO_ROOT",
         NEW R, R = Targeted(n, r)
  PROVE  /\ R \in Packets /\ R.src = r.src /\ R.src # "log" /\ R.ok = r.ok
         /\ R.num = r.num /\ R.path = r.path
         /\ R.ok => Travels(R, n) /\ Aimed(R)
         /\ ~R.ok => Harmed
  <1>1. r \in Packets /\ ~IsLog(r)
    BY DEF PacketGood
  <1>2. /\ R \in Packets /\ R.src = r.src /\ R.num = r.num /\ R.path = r.path /\ R.ok = r.ok
        /\ R.fwd = "TO_ROOT" /\ R.tgt = n
    BY <1>1 DEF Targeted, TypeOnward, Packets
  <1>3. r.src # "log"
    BY <1>1 DEF IsLog
  <1>4. ASSUME r.ok PROVE Travels(R, n) /\ Aimed(R)
    <2>1. Travels(r, n) /\ Len(r.path) >= 2 /\ Unaimed(r) /\ Len(r.path) \in Nat
      <3>1. ~Aimed(r)
        BY DEF Aimed
      <3>2. r.path \in Seq(Device \cup {Root})
        BY <1>1 DEF Packets
      <3>. QED BY <1>1, <1>4, <3>1, <3>2 DEF PacketGood, Live
    <2>2. Travels(R, n)
      BY <1>2, <2>1 DEF Travels
    <2>3. Targets(R)
      <3>1. Len(R.path) \in 2..Len(R.path) /\ R.path[Len(R.path)] = R.tgt
        BY <1>2, <2>1 DEF Travels
      <3>2. \A j \in 2..Len(R.path) - 1 : Joined(R.path[j])
        BY <1>2, <2>1 DEF Unaimed
      <3>. QED BY <3>1, <3>2 DEF Targets
    <2>. QED BY <1>2, <2>2, <2>3 DEF Aimed
  <1>5. ~r.ok => Harmed
    BY DEF PacketGood
  <1>. QED BY <1>2, <1>3, <1>4, <1>5

LEMMA ReadToParentKeeps ==
  ASSUME ReportsInv, NEW n \in Device, NEW m \in Children(n), NEW k \in 1..MaxRead,
         ReadToParent(n, m, k)
  PROVE  ReportsInv'
  <1>. DEFINE t == <<n, m>>
  <1>1. PICK u : u = Taken(n, m, k)
    OBVIOUS
  <1>2. PICK r : r = u[1].packet
    OBVIOUS
  <1>3. PICK R : R = Targeted(n, r)
    OBVIOUS
  <1>4. /\ Reading(n, m, k) /\ r.fwd = "TO_PARENT_TO_ROOT"
        /\ pb_buffer' = [pb_buffer EXCEPT ![n].fwd = r.fwd]
        /\ stream' = Without(n, m, k)
        /\ mixed \cup Overlaps(n) \subseteq mixed'
        /\ mixed' \subseteq mixed \cup Overlaps(n) \cup {<<"glued", n>>}
        /\ UNCHANGED <<reports, logs, arrived>>
    BY <1>1, <1>2 DEF ReadToParent, Take
  <1>5. \/ UNCHANGED job
        \/ \E j : /\ job' = [job EXCEPT ![t] = j] /\ j.step = 1 /\ j.todo = Up[n]
                  /\ j = [step |-> 1, report |-> j.report, todo |-> Up[n]]
                  /\ j.report = R \/ (j.report = Damaged(R) /\ <<"glued", n>> \in mixed')
    <2>1. \/ job' = [job EXCEPT ![t] = [step |-> 1, report |-> R, todo |-> Up[n]]]
          \/ job' = job
          \/ /\ job' = [job EXCEPT ![t] = [step |-> 1, report |-> Damaged(R), todo |-> Up[n]]]
             /\ <<"glued", n>> \in mixed'
      BY <1>1, <1>2, <1>3 DEF ReadToParent
    <2>. QED BY <2>1
  <1>6. Later
    BY <1>4, LaterIf
  <1>7. /\ m \in Device /\ n \in Up[m] /\ t \in Threads /\ k \in 0..Len(stream[m][n]) /\ k >= 1
        /\ \A i \in 1..k : UnitGood(n, u[i])
    BY <1>1, <1>4, ReadingIs
  <1>8. PacketGood(n, r)
    <2>1. 1 \in 1..k
      BY <1>7
    <2>. QED BY <1>2, <1>7, <2>1 DEF UnitGood
  <1>9. /\ R \in Packets /\ R.src # "log"
        /\ R.ok => Travels(R, n) /\ Aimed(R)
        /\ ~R.ok => Harmed
    BY <1>3, <1>4, <1>8, TargetedIs
  <1>10. Shape' /\ \A a \in Device : \A b \in Up[a] : StreamGood(a, b)'
    BY <1>4, <1>6, <1>7, TakenOffGood
  <1>11. DOMAIN job' = Threads /\ \A s \in Threads : JobGood(s)'
    <2>1. CASE UNCHANGED job
      BY <1>6, <2>1, JobKept DEF ReportsInv
    <2>2. CASE job' # job
      <3>1. PICK j : /\ job' = [job EXCEPT ![t] = j] /\ j.step = 1
                     /\ j = [step |-> 1, report |-> j.report, todo |-> Up[n]]
                     /\ j.report = R \/ (j.report = Damaged(R) /\ <<"glued", n>> \in mixed')
        BY <1>5, <2>2
      <3>2. PICK q : q = j.report
        OBVIOUS
      <3>3. q \in Packets /\ q.src # "log" /\ ReportGood(t, q)'
        <4>1. CASE q = R
          <5>1. ReportGood(t, R)
            BY <1>9 DEF ReportGood
          <5>. QED BY <1>6, <1>9, <4>1, <5>1, ReportLater
        <4>2. CASE q = Damaged(R) /\ <<"glued", n>> \in mixed'
          <5>1. q \in Packets /\ ~q.ok /\ q.src # "log"
            BY <1>9, <4>2, DamagedIs
          <5>2. Harmed'
            BY <4>2 DEF Harmed
          <5>. QED BY <5>1, <5>2 DEF ReportGood
        <4>. QED BY <3>1, <3>2, <4>1, <4>2
      <3>4. j \in Jobs
        <4>1. Up[n] \subseteq Device \cup {Root}
          BY ReportsAssumption
        <4>. QED BY <3>1, <3>2, <3>3, <4>1 DEF Jobs
      <3>5. j.todo \subseteq Up[t[1]] /\ j.report.src # "log" /\ (j.step = 0 => j = Idle)
        BY <3>1, <3>2, <3>3
      <3>6. ReportGood(t, j.report)'
        BY <3>2, <3>3
      <3>7. job' = [job EXCEPT ![t] = j] /\ t \in Threads
        BY <1>7, <3>1
      <3>. HIDE DEF t
      <3>. QED BY ONLY ReportsInv, <1>6, <3>4, <3>5, <3>6, <3>7, JobStep
    <2>. QED BY <2>1, <2>2
  <1>12. pb_buffer' \in [Device -> Packets]
         /\ \A a \in Device : pb_buffer'[a].src # "log" /\ (a # n => pb_buffer'[a] = pb_buffer[a])
    <2>1. pb_buffer \in [Device -> Packets] /\ \A a \in Device : pb_buffer[a].src # "log"
      BY DEF ReportsInv, BufferGood
    <2>2. PICK x : x = [pb_buffer[n] EXCEPT !.fwd = r.fwd]
      OBVIOUS
    <2>3. x \in Packets /\ x.src = pb_buffer[n].src
      BY <1>8, <2>1, <2>2 DEF Packets, PacketGood
    <2>4. pb_buffer' = [pb_buffer EXCEPT ![n] = x]
      BY <1>4, <2>1, <2>2
    <2>. QED BY <2>1, <2>3, <2>4
  <1>13. ASSUME NEW a \in Device PROVE BufferGood(a)'
    <2>0. Overlaps(n) \subseteq mixed'
      BY <1>4
    <2>1. CASE UNCHANGED job
      BY <1>6, <1>12, <2>0, <2>1, BufferWritten
    <2>2. CASE job' # job
      <3>1. PICK j : job' = [job EXCEPT ![t] = j] /\ j.step = 1
        BY <1>5, <2>2
      <3>2. t \in Threads /\ t[1] = n
        BY <1>7
      <3>. HIDE DEF t
      <3>. QED BY <1>6, <1>12, <2>0, <3>1, <3>2, BufferBegun
    <2>. QED BY <2>1, <2>2
  <1>14. \A a \in arrived' : ArrivedGood(a)'
    BY <1>4, <1>6, ArrivedKept
  <1>15. mixed' \subseteq {"overlap", "glued", "joined"} \X Device
    <2>1. mixed \subseteq {"overlap", "glued", "joined"} \X Device
      BY DEF ReportsInv
    <2>2. Overlaps(n) \subseteq {"overlap", "glued", "joined"} \X Device
      BY OverlapsIs
    <2>3. {<<"glued", n>>} \subseteq {"overlap", "glued", "joined"} \X Device
      OBVIOUS
    <2>. QED BY <1>4, <2>1, <2>2, <2>3
  <1>16. reports' \in [Device -> Nat] /\ logs' \in [Device -> Nat]
    BY <1>4 DEF ReportsInv
  <1>. QED BY <1>10, <1>11, <1>12, <1>13, <1>14, <1>15, <1>16 DEF ReportsInv

---------------------------------------------------------------------------
(* The server.                                                             *)

\* A set of positions has a first one.
LEMMA FirstExists ==
  ASSUME NEW F \in SUBSET Nat, F # {}
  PROVE  \E k \in F : \A l \in F : k <= l
  <1>1. PICK k \in F : \A l \in F : ~(<<l, k>> \in OpToRel(<, Nat))
    BY WFMin, NatLessThanWellFounded, Zenon
  <1>2. \A l \in F : ~(l < k)
    BY <1>1 DEF OpToRel
  <1>. QED BY <1>2

\* What the server takes off the link of m: the units u, at least one.
LEMMA ServerTakes ==
  ASSUME ReportsInv, NEW m \in Device, ServerReads(m)
  PROVE  \E k \in Nat \ {0}, u \in Seq(Units) :
           /\ Root \in Up[m] /\ k \in 0..Len(stream[m][Root])
           /\ u = Taken(Root, m, k) /\ Len(u) = k
           /\ \A i \in 1..k : u[i] = stream[m][Root][i] /\ u[i] \in Units /\ UnitGood(Root, u[i])
           /\ stream' = Without(Root, m, k)
           /\ UNCHANGED <<pb_buffer, job, reports, logs, mixed>>
           /\ \/ /\ k = 1 /\ u[1].idx = 1 /\ ~IsLog(u[1].packet)
                 /\ arrived' = arrived \cup
                      {IF u[1].packet.fwd = "TO_PARENT_TO_ROOT"
                       THEN [u[1].packet EXCEPT !.tgt = Root] ELSE u[1].packet}
                 /\ lost' = lost
              \/ arrived' = arrived /\ lost' = lost \cup Copies(In(u))
  <1>. DEFINE s == stream[m][Root]
              ends == {k \in 1..Len(s) : k = Len(s) \/ s[k + 1].front}
              first == CHOOSE e \in ends : \A f \in ends : e <= f
  <1>1. Root \in Up[m] /\ s # <<>>
    BY DEF ServerReads
  <1>2. StreamGood(m, Root) /\ s \in Seq(Units) /\ Len(s) \in Nat
    <2>1. StreamGood(m, Root)
      BY <1>1 DEF ReportsInv
    <2>. QED BY <2>1 DEF StreamGood
  <1>3. Len(s) >= 1
    BY <1>1, <1>2, EmptySeq
  <1>4. first \in 1..Len(s)
    <2>1. ends \in SUBSET Nat /\ ends # {}
      BY <1>2, <1>3
    <2>2. first \in ends
      <3>. HIDE DEF ends
      <3>. QED BY <2>1, FirstExists
    <2>. QED BY <2>2
  <1>5. PICK k : k = first
    OBVIOUS
  <1>6. PICK u : u = Taken(Root, m, k)
    OBVIOUS
  <1>7. k \in Nat \ {0} /\ k <= Len(stream[m][Root])
    <2>. HIDE DEF first
    <2>. QED BY <1>2, <1>4, <1>5
  <1>8. /\ u \in Seq(Units) /\ Len(u) = k /\ k \in 0..Len(stream[m][Root])
        /\ \A i \in 1..k : u[i] = stream[m][Root][i] /\ u[i] \in Units /\ UnitGood(Root, u[i])
    <2>1. StreamGood(m, Root)
      BY <1>2
    <2>2. Root \in Up[m]
      BY <1>1
    <2>. QED BY ONLY m \in Device, <1>6, <1>7, <2>1, <2>2, TakenIs
  <1>9. /\ stream' = Without(Root, m, k)
        /\ UNCHANGED <<pb_buffer, job, reports, logs, mixed>>
    <2>1. stream' = [stream EXCEPT ![m][Root] = SubSeq(stream[m][Root], first + 1,
                                                       Len(stream[m][Root]))]
      BY DEF ServerReads
    <2>2. UNCHANGED <<pb_buffer, job, reports, logs, mixed>>
      BY DEF ServerReads
    <2>. HIDE DEF first
    <2>3. stream' = Without(Root, m, k)
      BY <1>5, <2>1 DEF Without, Rest
    <2>. QED BY <2>2, <2>3
  <1>10. \/ /\ k = 1 /\ u[1].idx = 1 /\ ~IsLog(u[1].packet)
            /\ arrived' = arrived \cup
                 {IF u[1].packet.fwd = "TO_PARENT_TO_ROOT"
                  THEN [u[1].packet EXCEPT !.tgt = Root] ELSE u[1].packet}
            /\ lost' = lost
         \/ arrived' = arrived /\ lost' = lost \cup Copies(In(u))
    <2>1. PICK v : v = SubSeq(s, 1, first)
      OBVIOUS
    <2>2. \/ /\ first = 1 /\ v[1].idx = 1 /\ ~IsLog(v[1].packet)
             /\ arrived' = arrived \cup
                  {IF v[1].packet.fwd = "TO_PARENT_TO_ROOT"
                   THEN [v[1].packet EXCEPT !.tgt = Root] ELSE v[1].packet}
             /\ lost' = lost
          \/ arrived' = arrived /\ lost' = lost \cup Copies(In(v))
      BY <2>1 DEF ServerReads
    <2>. HIDE DEF first
    <2>3. v = u
      BY <1>5, <1>6, <2>1 DEF Taken
    <2>. QED BY <1>5, <2>2, <2>3
  <1>. HIDE DEF s, first
  <1>. QED BY <1>1, <1>6, <1>7, <1>8, <1>9, <1>10

LEMMA ServerReadsKeeps ==
  ASSUME ReportsInv, NEW m \in Device, ServerReads(m)
  PROVE  ReportsInv'
  <1>1. PICK k \in Nat \ {0}, u \in Seq(Units) :
           /\ Root \in Up[m] /\ k \in 0..Len(stream[m][Root])
           /\ \A i \in 1..k : UnitGood(Root, u[i])
           /\ stream' = Without(Root, m, k)
           /\ UNCHANGED <<pb_buffer, job, reports, logs, mixed>>
           /\ \/ /\ u[1].idx = 1 /\ ~IsLog(u[1].packet)
                 /\ arrived' = arrived \cup
                      {IF u[1].packet.fwd = "TO_PARENT_TO_ROOT"
                       THEN [u[1].packet EXCEPT !.tgt = Root] ELSE u[1].packet}
              \/ arrived' = arrived
    BY ServerTakes
  <1>2. Later
    BY <1>1, LaterIf
  <1>3. Shape' /\ \A a \in Device : \A b \in Up[a] : StreamGood(a, b)'
    BY <1>1, <1>2, TakenOffGood
  <1>4. \A a \in arrived' : ArrivedGood(a)'
    <2>1. CASE arrived' = arrived
      BY <1>2, <2>1, ArrivedKept
    <2>2. CASE arrived' # arrived
      <3>1. PICK r : r = u[1].packet
        OBVIOUS
      <3>2. PICK q : q = IF r.fwd = "TO_PARENT_TO_ROOT" THEN [r EXCEPT !.tgt = Root] ELSE r
        OBVIOUS
      <3>3. PacketGood(Root, r) /\ ~IsLog(r) /\ arrived' = arrived \cup {q}
        <4>1. 1 \in 1..k
          OBVIOUS
        <4>. QED BY <1>1, <2>2, <3>1, <3>2, <4>1 DEF UnitGood
      <3>4. r \in Packets
        BY <3>3 DEF PacketGood
      <3>5. /\ q \in Packets /\ q.src = r.src /\ q.num = r.num /\ q.path = r.path /\ q.ok = r.ok
            /\ q.tgt = IF r.fwd = "TO_PARENT_TO_ROOT" THEN Root ELSE r.tgt
        <4>1. CASE r.fwd = "TO_PARENT_TO_ROOT"
          BY <3>2, <3>4, <4>1 DEF Packets
        <4>2. CASE r.fwd # "TO_PARENT_TO_ROOT"
          BY <3>2, <3>4, <4>2
        <4>. QED BY <4>1, <4>2
      <3>6. ~IsLog(q) /\ (~q.ok => Harmed)
        BY <3>3, <3>5 DEF IsLog, PacketGood
      <3>7. ASSUME r.ok PROVE Travels(q, Root) /\ Targets(q)
        <4>1. /\ Travels(r, Root) /\ Len(r.path) >= 2 /\ Len(r.path) \in Nat
              /\ Aimed(r) \/ Unaimed(r)
          BY <3>3, <3>4, <3>7 DEF PacketGood, Live, Packets
        <4>2. Travels(q, Root)
          BY <3>5, <4>1 DEF Travels
        <4>3. CASE Aimed(r)
          <5>1. q.tgt = r.tgt
            BY <3>5, <4>3 DEF Aimed
          <5>. QED BY <3>5, <4>2, <4>3, <5>1 DEF Aimed, Targets
        <4>4. CASE Unaimed(r)
          <5>1. q.tgt = Root /\ \A j \in 2..Len(q.path) - 1 : Joined(q.path[j])
            BY <3>5, <4>4 DEF Unaimed
          <5>2. Len(q.path) \in 2..Len(q.path) /\ q.path[Len(q.path)] = Root
            BY <3>5, <4>1 DEF Travels
          <5>. QED BY <4>2, <5>1, <5>2 DEF Targets
        <4>. QED BY <4>1, <4>3, <4>4
      <3>8. ArrivedGood(q)
        BY <3>5, <3>6, <3>7 DEF ArrivedGood
      <3>9. ASSUME NEW a \in arrived' PROVE ArrivedGood(a)'
        <4>1. ArrivedGood(a)
          BY <3>3, <3>8 DEF ReportsInv
        <4>. QED BY <1>2, <4>1, ArrivedLater
      <3>. QED BY <3>9
    <2>. QED BY <2>1, <2>2
  <1>5. DOMAIN job' = Threads /\ \A t \in Threads : JobGood(t)'
    BY <1>1, <1>2, JobKept DEF ReportsInv
  <1>6. \A a \in Device : BufferGood(a)'
    BY <1>1, <1>2, BufferKept
  <1>7. /\ reports' \in [Device -> Nat] /\ logs' \in [Device -> Nat]
        /\ pb_buffer' \in [Device -> Packets]
        /\ mixed' \subseteq {"overlap", "glued", "joined"} \X Device
    BY <1>1 DEF ReportsInv
  <1>. QED BY <1>3, <1>4, <1>5, <1>6, <1>7 DEF ReportsInv

---------------------------------------------------------------------------
(* Every step keeps the invariant.                                         *)

LEMMA ReportsNext == ReportsInv /\ [Next]_vars => ReportsInv'
  <1>. SUFFICES ASSUME ReportsInv, [Next]_vars PROVE ReportsInv'
    OBVIOUS
  <1>1. ASSUME NEW n \in Device, send_mesh_topo(n) PROVE ReportsInv'
    BY <1>1, SendMeshTopoKeeps
  <1>2. ASSUME NEW n \in Device, send_log_packet(n) PROVE ReportsInv'
    BY <1>2, SendLogKeeps
  <1>3. ASSUME NEW n \in Device, ServerReads(n) PROVE ReportsInv'
    BY <1>3, ServerReadsKeeps
  <1>4. ASSUME NEW n \in Device, NEW m \in Children(n), NEW k \in 1..MaxRead,
               ReadMiddle(n, m, k)
        PROVE  ReportsInv'
    BY <1>4, ReadMiddleKeeps
  <1>5. ASSUME NEW n \in Device, NEW m \in Children(n), NEW k \in 1..MaxRead,
               ReadToRoot(n, m, k)
        PROVE  ReportsInv'
    BY <1>5, ReadToRootKeeps
  <1>6. ASSUME NEW n \in Device, NEW m \in Children(n), NEW k \in 1..MaxRead,
               ReadToParent(n, m, k)
        PROVE  ReportsInv'
    BY <1>6, ReadToParentKeeps
  <1>7. ASSUME NEW t \in Threads, Thread(t) PROVE ReportsInv'
    <2>1. CASE Header(t)
      BY <2>1, HeaderKeeps
    <2>2. CASE Body(t)
      BY <2>2, BodyKeeps
    <2>3. CASE Sent(t)
      BY <2>3, SentKeeps
    <2>4. ASSUME NEW p \in job[t].todo, SendTo(t, p) PROVE ReportsInv'
      BY <2>4, SendToKeeps
    <2>. QED BY <1>7, <2>1, <2>2, <2>3, <2>4 DEF Thread
  <1>8. CASE UNCHANGED vars
    <2>1. /\ UNCHANGED <<stream, pb_buffer, job, reports, logs, arrived, mixed>> /\ Later
      BY <1>8, LaterIf DEF vars
    <2>2. DOMAIN job' = Threads /\ \A t \in Threads : JobGood(t)'
      BY <2>1, JobKept DEF ReportsInv
    <2>3. \A n \in Device : BufferGood(n)'
      BY <2>1, BufferKept
    <2>4. \A r \in arrived' : ArrivedGood(r)'
      BY <2>1, ArrivedKept
    <2>5. Shape' /\ \A n \in Device : \A p \in Up[n] : StreamGood(n, p)'
      BY <2>1, StreamsKept
    <2>6. /\ reports' \in [Device -> Nat] /\ logs' \in [Device -> Nat]
          /\ pb_buffer' \in [Device -> Packets]
          /\ mixed' \subseteq {"overlap", "glued", "joined"} \X Device
      BY <2>1 DEF ReportsInv
    <2>. QED BY <2>2, <2>3, <2>4, <2>5, <2>6 DEF ReportsInv
  <1>. QED BY <1>1, <1>2, <1>3, <1>4, <1>5, <1>6, <1>7, <1>8 DEF Next

THEOREM ReportsInvariant == Spec => []ReportsInv
  BY ReportsInit, ReportsNext, PTL DEF Spec

\* The state of a device keeps its shape: what is on a link are units of
\* packets, and a thread is at one of its steps with a report and with parents
\* of its device.
THEOREM ReportsTypeCorrect == Spec => []TypeOK
  <1>1. ReportsInv => TypeOK
    <2>. SUFFICES ASSUME ReportsInv PROVE TypeOK
      OBVIOUS
    <2>1. \A n \in Device : \A p \in Up[n] :
            stream[n][p] \in Seq([packet : Packets, idx : Nat, front : BOOLEAN])
      BY DEF ReportsInv, StreamGood, Units
    <2>2. ASSUME NEW t \in Threads
          PROVE  /\ job[t].step \in 0..Len(Steps) /\ job[t].report \in Packets
                 /\ job[t].todo \subseteq Up[t[1]]
      <3>1. job[t] \in Jobs /\ job[t].todo \subseteq Up[t[1]]
        BY DEF ReportsInv, JobGood
      <3>2. Len(Steps) = 3
        BY DEF Steps
      <3>. QED BY <3>1, <3>2 DEF Jobs
    <2>3. arrived \subseteq Packets
      BY DEF ReportsInv, ArrivedGood
    <2>. QED BY <2>1, <2>2, <2>3 DEF ReportsInv, TypeOK
  <1>. QED BY <1>1, ReportsInvariant, PTL

\* What the server learns is true: in any mesh, also one with cycles, a report
\* that arrives undamaged names a link of the way it has come on, and there is
\* no damaged one unless threads have met in a buffer or a read has glued units.
THEOREM ReportsAreSound == Spec => []ReportsSound
  <1>1. ReportsInv => ReportsSound
    <2>. SUFFICES ASSUME ReportsInv PROVE ReportsSound
      OBVIOUS
    <2>1. TrueLinks
      <3>1. ASSUME NEW r \in arrived, r.ok
            PROVE  /\ IsWay(r.path) /\ r.path[1] = r.src /\ r.path[Len(r.path)] = Root
                   /\ \E i \in 2..Len(r.path) :
                        /\ r.path[i] = r.tgt
                        /\ \A j \in 2..i - 1 : <<"joined", r.path[j]>> \in mixed
        <4>1. Travels(r, Root) /\ Targets(r)
          BY <3>1 DEF ReportsInv, ArrivedGood
        <4>. QED BY <4>1 DEF Travels, Targets, Joined
      <3>. QED BY <3>1 DEF TrueLinks
    <2>2. DamageHasCause
      <3>1. ASSUME NEW r \in OnTheWay \cup arrived, ~r.ok PROVE Harmed
        <4>1. CASE r \in arrived
          BY <3>1, <4>1 DEF ReportsInv, ArrivedGood
        <4>2. CASE r \in OnTheWay
          <5>1. PICK n \in Device : \E p \in Up[n] : r \in In(stream[n][p])
            BY <4>2 DEF OnTheWay
          <5>2. PICK p \in Up[n] : r \in In(stream[n][p])
            BY <5>1
          <5>3. PICK i \in 1..Len(stream[n][p]) : r = stream[n][p][i].packet
            BY <5>2 DEF In
          <5>4. UnitGood(p, stream[n][p][i])
            BY DEF ReportsInv, StreamGood
          <5>. QED BY <3>1, <5>3, <5>4 DEF UnitGood, PacketGood
        <4>. QED BY <4>1, <4>2
      <3>. QED BY <3>1 DEF DamageHasCause, Harmed
    <2>. QED BY <2>1, <2>2 DEF ReportsSound
  <1>. QED BY <1>1, ReportsInvariant, PTL

---------------------------------------------------------------------------
(* Who holds a copy of a report.                                           *)

CopySet == [src : Device, num : Nat, path : Seq(Node)]

\* The copy that goes on to p.
Longer(c, p) == [c EXCEPT !.path = Append(@, p)]

\* Copies of one report, one of which is on the way of the other.
Related(c, e) == /\ c.src = e.src /\ c.num = e.num
                 /\ IsPrefix(c.path, e.path) \/ IsPrefix(e.path, c.path)

LEMMA LongerIs ==
  ASSUME NEW c \in CopySet, NEW p \in Node
  PROVE  /\ Longer(c, p) \in CopySet
         /\ Longer(c, p).src = c.src /\ Longer(c, p).num = c.num
         /\ Longer(c, p).path = Append(c.path, p)
         /\ Len(Longer(c, p).path) = Len(c.path) + 1
         /\ Longer(c, p).path[Len(c.path) + 1] = p
         /\ \A i \in 1..Len(c.path) : Longer(c, p).path[i] = c.path[i]
  <1>1. PICK s : s = Append(c.path, p)
    OBVIOUS
  <1>2. /\ s \in Seq(Node) /\ Len(s) = Len(c.path) + 1 /\ s[Len(c.path) + 1] = p
        /\ \A i \in 1..Len(c.path) : s[i] = c.path[i]
    BY <1>1 DEF CopySet
  <1>3. Longer(c, p) = [src |-> c.src, num |-> c.num, path |-> s]
    BY <1>1 DEF Longer, CopySet
  <1>. QED BY <1>1, <1>2, <1>3 DEF CopySet

LEMMA RelatedIs ==
  ASSUME NEW c \in CopySet, NEW e \in CopySet
  PROVE  /\ Related(c, c) /\ (Related(c, e) <=> Related(e, c))
         /\ Related(c, e) <=>
              /\ c.src = e.src /\ c.num = e.num
              /\ \/ Len(c.path) <= Len(e.path) /\ \A i \in 1..Len(c.path) : c.path[i] = e.path[i]
                 \/ Len(e.path) <= Len(c.path) /\ \A i \in 1..Len(e.path) : e.path[i] = c.path[i]
  <1>1. c.path \in Seq(Node) /\ e.path \in Seq(Node) /\ Len(c.path) \in Nat
    BY DEF CopySet
  <1>2. /\ IsPrefix(c.path, c.path)
        /\ IsPrefix(c.path, e.path) <=>
             Len(c.path) <= Len(e.path) /\ \A i \in 1..Len(c.path) : c.path[i] = e.path[i]
        /\ IsPrefix(e.path, c.path) <=>
             Len(e.path) <= Len(c.path) /\ \A i \in 1..Len(e.path) : e.path[i] = c.path[i]
    <2>1. IsPrefix(c.path, c.path)
      BY <1>1, PrefixIs
    <2>2. IsPrefix(c.path, e.path) <=>
            Len(c.path) <= Len(e.path) /\ \A i \in 1..Len(c.path) : c.path[i] = e.path[i]
      BY <1>1, PrefixIs
    <2>3. IsPrefix(e.path, c.path) <=>
            Len(e.path) <= Len(c.path) /\ \A i \in 1..Len(e.path) : e.path[i] = c.path[i]
      BY <1>1, PrefixIs
    <2>. QED BY <2>1, <2>2, <2>3
  <1>. QED BY <1>2 DEF Related

\* Copies that are not on one way do not meet later, and those sent to two
\* parents part.
LEMMA GrowsApart ==
  ASSUME NEW b \in CopySet, NEW c \in CopySet, NEW p \in Node
  PROVE  Related(b, Longer(c, p)) => Related(b, c)
  <1>. SUFFICES ASSUME Related(b, Longer(c, p)) PROVE Related(b, c)
    OBVIOUS
  <1>1. PICK d : d = Longer(c, p)
    OBVIOUS
  <1>2. /\ d \in CopySet /\ d.src = c.src /\ d.num = c.num
        /\ Len(d.path) = Len(c.path) + 1 /\ \A i \in 1..Len(c.path) : d.path[i] = c.path[i]
    BY <1>1, LongerIs
  <1>3. Len(b.path) \in Nat /\ Len(c.path) \in Nat
    BY DEF CopySet
  <1>4. /\ b.src = d.src /\ b.num = d.num
        /\ \/ Len(b.path) <= Len(d.path) /\ \A i \in 1..Len(b.path) : b.path[i] = d.path[i]
           \/ Len(d.path) <= Len(b.path) /\ \A i \in 1..Len(d.path) : d.path[i] = b.path[i]
    BY <1>1, <1>2, RelatedIs
  <1>5. \/ Len(b.path) <= Len(c.path) /\ \A i \in 1..Len(b.path) : b.path[i] = c.path[i]
        \/ Len(c.path) <= Len(b.path) /\ \A i \in 1..Len(c.path) : c.path[i] = b.path[i]
    <2>1. CASE Len(b.path) <= Len(c.path)
      <3>1. \A i \in 1..Len(b.path) : i \in 1..Len(c.path) /\ i \in 1..Len(d.path)
        BY <1>2, <1>3, <2>1
      <3>. QED BY <1>2, <1>4, <2>1, <3>1
    <2>2. CASE Len(c.path) < Len(b.path)
      <3>1. \A i \in 1..Len(c.path) : i \in 1..Len(b.path) /\ i \in 1..Len(d.path)
        BY <1>2, <1>3, <2>2
      <3>. QED BY <1>2, <1>3, <1>4, <2>2, <3>1
    <2>. QED BY <1>3, <2>1, <2>2
  <1>. QED BY <1>2, <1>4, <1>5, RelatedIs

LEMMA Forks ==
  ASSUME NEW b \in CopySet, NEW p \in Node, NEW q \in Node, Related(Longer(b, p), Longer(b, q))
  PROVE  p = q
  <1>1. PICK c, d : c = Longer(b, p) /\ d = Longer(b, q)
    OBVIOUS
  <1>2. /\ c \in CopySet /\ Len(c.path) = Len(b.path) + 1 /\ c.path[Len(b.path) + 1] = p
        /\ d \in CopySet /\ Len(d.path) = Len(b.path) + 1 /\ d.path[Len(b.path) + 1] = q
    BY <1>1, LongerIs
  <1>3. Len(b.path) + 1 \in 1..Len(c.path) /\ Len(b.path) + 1 \in 1..Len(d.path)
    BY <1>2 DEF CopySet
  <1>4. \/ \A i \in 1..Len(c.path) : c.path[i] = d.path[i]
        \/ \A i \in 1..Len(d.path) : d.path[i] = c.path[i]
    BY <1>1, <1>2, RelatedIs
  <1>. QED BY <1>2, <1>3, <1>4

\* The places a copy is held in: a unit on a link, a parent a thread has still
\* to send its report to, a report at the server.
UnitSlot(n, p, i) == <<"unit", n, p, i>>
JobSlot(t, p) == <<"job", t, p>>
ArrivedSlot(r) == <<"arrived", r>>

UnitHolds(n, p, i, c) ==
  /\ n \in Device /\ p \in Up[n] /\ i \in 1..Len(stream[n][p])
  /\ Live(stream[n][p][i].packet) /\ c = Copy(stream[n][p][i].packet)

JobHolds(t, p, c) ==
  t \in Threads /\ p \in job[t].todo /\ job[t].report.ok /\ c = Longer(Copy(job[t].report), p)

ArrivedHolds(r, c) == r \in arrived /\ r.ok /\ c = Copy(r)

Holds(q, c) ==
  \/ \E n, p, i : q = UnitSlot(n, p, i) /\ UnitHolds(n, p, i, c)
  \/ \E t, p : q = JobSlot(t, p) /\ JobHolds(t, p, c)
  \/ \E r : q = ArrivedSlot(r) /\ ArrivedHolds(r, c)

LEMMA SlotsDiffer ==
  ASSUME NEW n, NEW p, NEW i, NEW m, NEW q, NEW j, NEW t, NEW s, NEW r, NEW x
  PROVE  /\ UnitSlot(n, p, i) = UnitSlot(m, q, j) => n = m /\ p = q /\ i = j
         /\ JobSlot(t, p) = JobSlot(s, q) => t = s /\ p = q
         /\ ArrivedSlot(r) = ArrivedSlot(x) => r = x
         /\ UnitSlot(n, p, i) # JobSlot(t, q) /\ UnitSlot(n, p, i) # ArrivedSlot(r)
         /\ JobSlot(t, p) # ArrivedSlot(r)
  BY DEF UnitSlot, JobSlot, ArrivedSlot

LEMMA SlotIs ==
  ASSUME NEW n, NEW p, NEW i, NEW t, NEW r, NEW c
  PROVE  /\ Holds(UnitSlot(n, p, i), c) <=> UnitHolds(n, p, i, c)
         /\ Holds(JobSlot(t, p), c) <=> JobHolds(t, p, c)
         /\ Holds(ArrivedSlot(r), c) <=> ArrivedHolds(r, c)
  <1>1. Holds(UnitSlot(n, p, i), c) => UnitHolds(n, p, i, c)
    BY SlotsDiffer DEF Holds
  <1>2. Holds(JobSlot(t, p), c) => JobHolds(t, p, c)
    BY SlotsDiffer DEF Holds
  <1>3. Holds(ArrivedSlot(r), c) => ArrivedHolds(r, c)
    BY SlotsDiffer DEF Holds
  <1>. QED BY <1>1, <1>2, <1>3 DEF Holds

LEMMA CopyIs ==
  ASSUME NEW r \in Packets, NEW p, Travels(r, p)
  PROVE  /\ Copy(r) \in CopySet /\ Copy(r).src = r.src /\ Copy(r).num = r.num
         /\ Copy(r).path = r.path /\ Copy(r).num \in 1..reports[Copy(r).src]
         /\ Len(Copy(r).path) >= 1 /\ Copy(r).path[Len(Copy(r).path)] = p
  BY DEF Copy, CopySet, Travels, Packets, Node

\* A copy that is held names a report that its device has written, and the
\* device it has come to.
LEMMA UnitCopy ==
  ASSUME ReportsInv, NEW n, NEW p, NEW i, NEW c, UnitHolds(n, p, i, c)
  PROVE  /\ c \in CopySet /\ c.num \in 1..reports[c.src] /\ Len(c.path) >= 1
         /\ c.path[Len(c.path)] = p
  <1>1. PICK r : r = stream[n][p][i].packet
    OBVIOUS
  <1>2. r \in Packets /\ Travels(r, p) /\ c = Copy(r)
    BY <1>1 DEF UnitHolds, ReportsInv, StreamGood, UnitGood, PacketGood
  <1>. QED BY <1>2, CopyIs

LEMMA JobCopy ==
  ASSUME ReportsInv, NEW t \in Threads, job[t].step # 0, job[t].report.ok
  PROVE  /\ Copy(job[t].report) \in CopySet
         /\ Copy(job[t].report).num \in 1..reports[Copy(job[t].report).src]
         /\ Len(Copy(job[t].report).path) >= 1
         /\ Copy(job[t].report).path[Len(Copy(job[t].report).path)] = t[1]
  <1>1. PICK r : r = job[t].report
    OBVIOUS
  <1>2. r \in Packets /\ Travels(r, t[1])
    BY <1>1 DEF ReportsInv, JobGood, Jobs, ReportGood
  <1>. QED BY <1>1, <1>2, CopyIs

LEMMA HeldCopy ==
  ASSUME ReportsInv, NEW q, NEW c, Holds(q, c)
  PROVE  c \in CopySet /\ c.num \in 1..reports[c.src]
  <1>1. ASSUME NEW n, NEW p, NEW i, UnitHolds(n, p, i, c)
        PROVE  c \in CopySet /\ c.num \in 1..reports[c.src]
    BY <1>1, UnitCopy
  <1>2. ASSUME NEW t, NEW p, JobHolds(t, p, c)
        PROVE  c \in CopySet /\ c.num \in 1..reports[c.src]
    <2>1. PICK b : b = Copy(job[t].report)
      OBVIOUS
    <2>2. /\ t \in Threads /\ p \in job[t].todo /\ job[t].report.ok /\ c = Longer(b, p)
      BY <1>2, <2>1 DEF JobHolds
    <2>3. job[t].step # 0 /\ p \in Up[t[1]] /\ t[1] \in Device
      <3>1. JobGood(t)
        BY <2>2 DEF ReportsInv
      <3>2. Idle.todo = {}
        BY NoReportIs
      <3>. QED BY <2>2, <3>1, <3>2, ThreadIs DEF JobGood
    <2>4. p \in Node
      BY <2>3, ReportsAssumption DEF Node
    <2>5. b \in CopySet /\ b.num \in 1..reports[b.src]
      BY <2>1, <2>2, <2>3, JobCopy
    <2>. QED BY <2>2, <2>4, <2>5, LongerIs
  <1>3. ASSUME NEW r, ArrivedHolds(r, c)
        PROVE  c \in CopySet /\ c.num \in 1..reports[c.src]
    <2>1. r \in Packets /\ Travels(r, Root) /\ c = Copy(r)
      BY <1>3 DEF ArrivedHolds, ReportsInv, ArrivedGood
    <2>. QED BY <2>1, CopyIs
  <1>. QED BY <1>1, <1>2, <1>3 DEF Holds

\* A unit that is on a link after a step was there before, or is among the
\* units the step has put there; and those that were there behind the units the
\* step has taken off still are.
LEMMA FlowHolds ==
  ASSUME NEW a \in Device, NEW b \in Up[a], NEW d, NEW w, Flow(a, b, d, w),
         stream[a][b] \in Seq(Units)
  PROVE  /\ \A i, c : UnitHolds(a, b, i, c)' =>
              \/ i \in Nat \ {0} /\ UnitHolds(a, b, i + d, c)
              \/ \E j \in 1..Len(w) : /\ i = Len(stream[a][b]) - d + j
                                      /\ Live(w[j].packet) /\ c = Copy(w[j].packet)
         /\ \A i, c : UnitHolds(a, b, i, c) /\ i > d => UnitHolds(a, b, i - d, c)'
         /\ \A j \in 1..Len(w) : Live(w[j].packet) =>
              \E i : UnitHolds(a, b, i, Copy(w[j].packet))'
  <1>1. PICK s : s = stream[a][b]
    OBVIOUS
  <1>2. PICK z : z = stream'[a][b]
    OBVIOUS
  <1>3. s \in Seq(Units) /\ d \in 0..Len(s) /\ w \in Seq(Units) /\ z = Behind(s, d) \o w
    BY <1>1, <1>2 DEF Flow
  <1>4. /\ Len(z) = Len(s) - d + Len(w)
        /\ \A j \in 1..Len(s) - d : z[j] = s[j + d]
        /\ \A i \in 1..Len(w) : z[Len(s) - d + i] = w[i]
        /\ \A j \in 1..Len(z) : j \in 1..Len(s) - d \/ j - (Len(s) - d) \in 1..Len(w)
    <2>1. Flowed(s, d, w, z)
      BY ONLY <1>3, FlowIs
    <2>. QED BY ONLY <2>1 DEF Flowed
  <1>5. Len(s) \in Nat /\ Len(w) \in Nat /\ d \in Nat
    BY <1>3
  <1>6. ASSUME NEW i, NEW c, UnitHolds(a, b, i, c)'
        PROVE  \/ i \in Nat \ {0} /\ UnitHolds(a, b, i + d, c)
               \/ \E j \in 1..Len(w) : /\ i = Len(stream[a][b]) - d + j
                                       /\ Live(w[j].packet) /\ c = Copy(w[j].packet)
    <2>1. i \in 1..Len(z) /\ Live(z[i].packet) /\ c = Copy(z[i].packet)
      BY <1>2, <1>6 DEF UnitHolds, Live, IsLog, Copy
    <2>2. CASE i \in 1..Len(s) - d
      <3>1. i + d \in 1..Len(s) /\ z[i] = s[i + d] /\ i \in Nat \ {0}
        BY <1>3, <1>4, <1>5, <2>2
      <3>. QED BY <1>1, <2>1, <3>1 DEF UnitHolds
    <2>3. CASE i - (Len(s) - d) \in 1..Len(w)
      <3>1. PICK j \in 1..Len(w) : j = i - (Len(s) - d)
        BY <2>3
      <3>2. i = Len(s) - d + j
        BY <1>4, <1>5, <2>1, <3>1
      <3>3. z[i] = w[j]
        BY <1>4, <3>2
      <3>. QED BY <1>1, <2>1, <3>2, <3>3
    <2>. QED BY <1>4, <2>1, <2>2, <2>3
  <1>7. ASSUME NEW i, NEW c, UnitHolds(a, b, i, c), i > d
        PROVE  UnitHolds(a, b, i - d, c)'
    <2>1. i \in 1..Len(s) /\ Live(s[i].packet) /\ c = Copy(s[i].packet)
      BY <1>1, <1>7 DEF UnitHolds
    <2>2. PICK j : j = i - d
      OBVIOUS
    <2>3. j \in 1..Len(s) - d /\ j + d = i /\ j \in 1..Len(z)
      BY <1>4, <1>5, <1>7, <2>1, <2>2
    <2>4. z[j] = s[i]
      BY <1>4, <2>3
    <2>5. UnitHolds(a, b, j, c)'
      BY <1>2, <2>1, <2>3, <2>4 DEF UnitHolds, Live, IsLog, Copy
    <2>. QED BY <2>2, <2>5
  <1>8. ASSUME NEW j \in 1..Len(w), Live(w[j].packet)
        PROVE  \E i : UnitHolds(a, b, i, Copy(w[j].packet))'
    <2>1. PICK i : i = Len(s) - d + j
      OBVIOUS
    <2>2. i \in 1..Len(z) /\ z[i] = w[j]
      BY <1>3, <1>4, <1>5, <2>1
    <2>3. PICK c : c = Copy(w[j].packet)
      OBVIOUS
    <2>4. UnitHolds(a, b, i, c)'
      BY <1>2, <1>8, <2>2, <2>3 DEF UnitHolds, Live, IsLog, Copy
    <2>. QED BY <2>3, <2>4
  <1>. QED BY <1>6, <1>7, <1>8

---------------------------------------------------------------------------
(* No way is taken twice.                                                  *)

OneEach == \A q, s, c, e : Holds(q, c) /\ Holds(s, e) /\ Related(c, e) => q = s

\* Nothing but what is held already.
LEMMA OneEachKept ==
  ASSUME OneEach, \A q, c : Holds(q, c)' => Holds(q, c)
  PROVE  OneEach'
  <1>1. ASSUME NEW q, NEW s, NEW c, NEW e, Holds(q, c)', Holds(s, e)', Related(c, e)
        PROVE  q = s
    BY <1>1 DEF OneEach
  <1>. QED BY <1>1 DEF OneEach, Related, IsPrefix

\* What is held after k units have been taken off the link from m to n, and was
\* held before.
Earlier(m, n, k, q, c) ==
  \/ \E i \in Nat \ {0} : q = UnitSlot(m, n, i) /\ UnitHolds(m, n, i + k, c)
  \/ Holds(q, c) /\ \A i : q # UnitSlot(m, n, i)

\* What has come of one of the k units: N[i][p] holds what the i-th has
\* become on its way to p.
Newer(m, n, k, N, q, c) ==
  \E i \in 1..k, p \in Node : \E b :
    UnitHolds(m, n, i, b) /\ c = Longer(b, p) /\ q = N[i][p]

LEMMA OlderOne ==
  ASSUME OneEach, NEW m, NEW n, NEW k \in Nat, NEW q, NEW c, NEW s, NEW e,
         Earlier(m, n, k, q, c), Earlier(m, n, k, s, e), Related(c, e)
  PROVE  q = s
  <1>1. CASE (\E i \in Nat \ {0} : q = UnitSlot(m, n, i) /\ UnitHolds(m, n, i + k, c)) /\
             (\E i \in Nat \ {0} : s = UnitSlot(m, n, i) /\ UnitHolds(m, n, i + k, e))
    <2>1. PICK i \in Nat \ {0} : q = UnitSlot(m, n, i) /\ UnitHolds(m, n, i + k, c)
      BY <1>1
    <2>2. PICK j \in Nat \ {0} : s = UnitSlot(m, n, j) /\ UnitHolds(m, n, j + k, e)
      BY <1>1
    <2>3. UnitSlot(m, n, i + k) = UnitSlot(m, n, j + k)
      BY <2>1, <2>2, SlotIs DEF OneEach
    <2>4. i + k = j + k
      BY <2>3, SlotsDiffer
    <2>5. i = j
      BY <2>4
    <2>. QED BY <2>1, <2>2, <2>5
  <1>2. ASSUME NEW i \in Nat \ {0}, q = UnitSlot(m, n, i), UnitHolds(m, n, i + k, c),
               Holds(s, e), \A j : s # UnitSlot(m, n, j)
        PROVE  FALSE
    <2>1. Holds(UnitSlot(m, n, i + k), c)
      BY <1>2, SlotIs
    <2>. QED BY <1>2, <2>1 DEF OneEach
  <1>3. ASSUME NEW i \in Nat \ {0}, s = UnitSlot(m, n, i), UnitHolds(m, n, i + k, e),
               Holds(q, c), \A j : q # UnitSlot(m, n, j)
        PROVE  FALSE
    <2>1. Holds(UnitSlot(m, n, i + k), e)
      BY <1>3, SlotIs
    <2>. QED BY <1>3, <2>1 DEF OneEach
  <1>4. CASE Holds(q, c) /\ Holds(s, e)
    BY <1>4 DEF OneEach
  <1>. QED BY <1>1, <1>2, <1>3, <1>4 DEF Earlier

LEMMA OlderApart ==
  ASSUME OneEach, NEW m, NEW n, NEW k \in Nat, NEW q, NEW c, Earlier(m, n, k, q, c),
         NEW i \in 1..k, NEW b, UnitHolds(m, n, i, b)
  PROVE  ~Related(c, b)
  <1>. SUFFICES ASSUME Related(c, b) PROVE FALSE
    OBVIOUS
  <1>1. Holds(UnitSlot(m, n, i), b)
    BY SlotIs
  <1>2. ASSUME NEW j \in Nat \ {0}, UnitHolds(m, n, j + k, c) PROVE FALSE
    <2>1. Holds(UnitSlot(m, n, j + k), c)
      BY <1>2, SlotIs
    <2>2. UnitSlot(m, n, j + k) = UnitSlot(m, n, i)
      BY <1>1, <2>1 DEF OneEach
    <2>3. j + k = i
      BY <2>2, SlotsDiffer
    <2>. QED BY <2>3
  <1>3. ASSUME Holds(q, c), \A j : q # UnitSlot(m, n, j) PROVE FALSE
    BY <1>1, <1>3 DEF OneEach
  <1>. QED BY <1>2, <1>3 DEF Earlier

LEMMA OlderCopy ==
  ASSUME ReportsInv, NEW m, NEW n, NEW k, NEW q, NEW c, Earlier(m, n, k, q, c)
  PROVE  c \in CopySet
  BY UnitCopy, HeldCopy DEF Earlier

\* A thread of n has read k units from m.
LEMMA ReadOneEach ==
  ASSUME ReportsInv, OneEach, NEW m, NEW n, NEW k \in Nat, NEW N,
         \A q, c : Holds(q, c)' => Earlier(m, n, k, q, c) \/ Newer(m, n, k, N, q, c)
  PROVE  OneEach'
  <1>1. ASSUME NEW q, NEW s, NEW c, NEW e, Earlier(m, n, k, q, c), Newer(m, n, k, N, s, e)
        PROVE  ~Related(c, e)
    <2>1. PICK i \in 1..k, p \in Node : \E b :
                 UnitHolds(m, n, i, b) /\ e = Longer(b, p) /\ s = N[i][p]
      BY <1>1 DEF Newer
    <2>2. PICK b : UnitHolds(m, n, i, b) /\ e = Longer(b, p)
      BY <2>1
    <2>3. ~Related(c, b)
      BY <1>1, <2>2, OlderApart
    <2>. QED BY <1>1, <2>2, <2>3, OlderCopy, UnitCopy, GrowsApart
  <1>2. ASSUME NEW q, NEW s, NEW c, NEW e, Newer(m, n, k, N, q, c), Newer(m, n, k, N, s, e),
               Related(c, e)
        PROVE  q = s
    <2>1. PICK i \in 1..k, p \in Node : \E b :
                 UnitHolds(m, n, i, b) /\ c = Longer(b, p) /\ q = N[i][p]
      BY <1>2 DEF Newer
    <2>2. PICK b : UnitHolds(m, n, i, b) /\ c = Longer(b, p) /\ q = N[i][p]
      BY <2>1
    <2>3. PICK j \in 1..k, r \in Node : \E d :
                 UnitHolds(m, n, j, d) /\ e = Longer(d, r) /\ s = N[j][r]
      BY <1>2 DEF Newer
    <2>4. PICK d : UnitHolds(m, n, j, d) /\ e = Longer(d, r) /\ s = N[j][r]
      BY <2>3
    <2>5. b \in CopySet /\ d \in CopySet /\ c \in CopySet
      BY <2>2, <2>4, UnitCopy, LongerIs
    <2>6. Related(c, d)
      BY <1>2, <2>4, <2>5, GrowsApart
    <2>7. Related(d, b)
      <3>1. Related(d, c)
        BY <2>5, <2>6, RelatedIs
      <3>. QED BY <2>2, <2>5, <3>1, GrowsApart
    <2>8. UnitSlot(m, n, i) = UnitSlot(m, n, j)
      BY <2>2, <2>4, <2>7, SlotIs DEF OneEach
    <2>9. i = j
      BY <2>8, SlotsDiffer
    <2>10. b = d
      BY <2>2, <2>4, <2>9 DEF UnitHolds
    <2>11. p = r
      BY <1>2, <2>2, <2>4, <2>5, <2>10, Forks
    <2>. QED BY <2>2, <2>4, <2>9, <2>11
  <1>3. \A q, c : Newer(m, n, k, N, q, c) => c \in CopySet
    BY UnitCopy, LongerIs DEF Newer
  <1>4. ASSUME NEW q, NEW s, NEW c, NEW e, Holds(q, c)', Holds(s, e)', Related(c, e)
        PROVE  q = s
    <2>1. CASE Earlier(m, n, k, q, c) /\ Earlier(m, n, k, s, e)
      BY <1>4, <2>1, OlderOne
    <2>2. CASE Earlier(m, n, k, q, c) /\ Newer(m, n, k, N, s, e)
      BY <1>1, <1>4, <2>2
    <2>3. CASE Newer(m, n, k, N, q, c) /\ Earlier(m, n, k, s, e)
      <3>1. c \in CopySet /\ e \in CopySet
        BY <1>3, <2>3, OlderCopy
      <3>2. Related(e, c)
        BY <1>4, <3>1, RelatedIs
      <3>. QED BY <1>1, <2>3, <3>2
    <2>4. CASE Newer(m, n, k, N, q, c) /\ Newer(m, n, k, N, s, e)
      BY <1>2, <1>4, <2>4
    <2>. QED BY <1>4, <2>1, <2>2, <2>3, <2>4
  <1>. QED BY <1>4 DEF OneEach, Related, IsPrefix

---------------------------------------------------------------------------
(* What becomes of the copies in a step.                                   *)

Placed(c) == (\E q : Holds(q, c)) \/ c \in lost

\* The copy c has come to a device, and all parents of it have got theirs.
Spread(c) ==
  /\ c \in CopySet /\ Len(c.path) >= 1 /\ c.path[Len(c.path)] \in Device
  /\ \A p \in Up[c.path[Len(c.path)]] : Placed(Longer(c, p))'

\* A step passes the copies on: each is in one place, and each is still held,
\* or lost, or has been sent to all parents.
PassesOn == /\ OneEach => OneEach'
            /\ \A c : Placed(c) => Placed(c)' \/ Spread(c)

\* Units go off the link from m to n.
LEMMA OffUnits ==
  ASSUME ReportsInv, NEW m \in Device, NEW n \in Up[m], NEW k \in 0..Len(stream[m][n]),
         stream' = Without(n, m, k)
  PROVE  /\ \A a, b, i, c : UnitHolds(a, b, i, c)' => Earlier(m, n, k, UnitSlot(a, b, i), c)
         /\ \A a, b, i, c : UnitHolds(a, b, i, c) => \/ \E j : UnitHolds(a, b, j, c)'
                                                     \/ a = m /\ b = n /\ i \in 1..k
  <1>1. /\ Streams
        /\ \A a \in Device : \A b \in Up[a] : Flow(a, b, IF a = m /\ b = n THEN k ELSE 0, <<>>)
    BY StreamsIf, ReadFlow
  <1>2. ASSUME NEW a, NEW b, NEW i, NEW c, UnitHolds(a, b, i, c)'
        PROVE  Earlier(m, n, k, UnitSlot(a, b, i), c)
    <2>1. a \in Device /\ b \in Up[a] /\ stream[a][b] \in Seq(Units)
      BY <1>1, <1>2 DEF UnitHolds, Streams
    <2>2. PICK d : d = IF a = m /\ b = n THEN k ELSE 0
      OBVIOUS
    <2>3. Flow(a, b, d, <<>>)
      BY <1>1, <2>1, <2>2
    <2>4. i \in Nat \ {0} /\ UnitHolds(a, b, i + d, c)
      BY <1>2, <2>1, <2>3, FlowHolds
    <2>5. CASE a = m /\ b = n
      BY <2>2, <2>4, <2>5 DEF Earlier
    <2>6. CASE ~(a = m /\ b = n)
      <3>1. i + d = i
        BY <2>2, <2>4, <2>6
      <3>2. Holds(UnitSlot(a, b, i), c)
        BY <2>4, <3>1, SlotIs
      <3>3. \A j : UnitSlot(a, b, i) # UnitSlot(m, n, j)
        BY <2>6, SlotsDiffer
      <3>. QED BY <3>2, <3>3 DEF Earlier
    <2>. QED BY <2>5, <2>6
  <1>3. ASSUME NEW a, NEW b, NEW i, NEW c, UnitHolds(a, b, i, c), ~(a = m /\ b = n /\ i \in 1..k)
        PROVE  \E j : UnitHolds(a, b, j, c)'
    <2>1. a \in Device /\ b \in Up[a] /\ stream[a][b] \in Seq(Units) /\ i \in 1..Len(stream[a][b])
      BY <1>1, <1>3 DEF UnitHolds, Streams
    <2>2. PICK d : d = IF a = m /\ b = n THEN k ELSE 0
      OBVIOUS
    <2>3. Flow(a, b, d, <<>>)
      BY <1>1, <2>1, <2>2
    <2>4. i > d
      <3>1. i \in Nat /\ i >= 1 /\ k \in Nat
        BY <2>1
      <3>. QED BY <1>3, <2>2, <3>1
    <2>5. UnitHolds(a, b, i - d, c)'
      BY <1>3, <2>1, <2>3, <2>4, FlowHolds
    <2>. QED BY <2>5
  <1>. QED BY <1>2, <1>3

LEMMA TakenCopies ==
  ASSUME ReportsInv, NEW n, NEW m, NEW k \in Nat, NEW u, Len(u) = k,
         \A i \in 1..k : u[i] = stream[m][n][i] /\ UnitGood(n, u[i]),
         NEW i \in 1..k, NEW c, UnitHolds(m, n, i, c)
  PROVE  c \in Copies(In(u))
  <1>1. Live(u[i].packet) /\ c = Copy(u[i].packet) /\ u[i].idx = 1
    BY DEF UnitHolds, UnitGood, Live
  <1>2. u[i].packet \in In(u)
    BY <1>1 DEF In
  <1>. QED BY <1>1, <1>2 DEF Copies, Good, Live

LEMMA ReadMiddlePasses ==
  ASSUME ReportsInv, NEW n \in Device, NEW m \in Children(n), NEW k \in 1..MaxRead,
         ReadMiddle(n, m, k)
  PROVE  PassesOn
  <1>1. PICK u : u = Taken(n, m, k)
    OBVIOUS
  <1>2. /\ Reading(n, m, k) /\ stream' = Without(n, m, k) /\ lost' = lost \cup Copies(In(u))
        /\ UNCHANGED <<job, arrived>>
    BY <1>1 DEF ReadMiddle
  <1>3. /\ m \in Device /\ n \in Up[m] /\ k \in 0..Len(stream[m][n]) /\ k \in Nat
        /\ Len(u) = k /\ \A i \in 1..k : u[i] = stream[m][n][i] /\ UnitGood(n, u[i])
    BY <1>1, <1>2, ReadingIs
  <1>4. /\ \A a, b, i, c : UnitHolds(a, b, i, c)' => Earlier(m, n, k, UnitSlot(a, b, i), c)
        /\ \A a, b, i, c : UnitHolds(a, b, i, c) => \/ \E j : UnitHolds(a, b, j, c)'
                                                    \/ a = m /\ b = n /\ i \in 1..k
    BY <1>2, <1>3, OffUnits
  <1>5. ASSUME NEW q, NEW c, Holds(q, c)' PROVE Earlier(m, n, k, q, c)
    <2>1. ASSUME NEW t, NEW p, q = JobSlot(t, p), JobHolds(t, p, c)' PROVE Earlier(m, n, k, q, c)
      <3>1. Holds(q, c)
        BY <1>2, <2>1, SlotIs DEF JobHolds
      <3>. QED BY <2>1, <3>1, SlotsDiffer DEF Earlier
    <2>2. ASSUME NEW r, q = ArrivedSlot(r), ArrivedHolds(r, c)' PROVE Earlier(m, n, k, q, c)
      <3>1. Holds(q, c)
        BY <1>2, <2>2, SlotIs DEF ArrivedHolds
      <3>. QED BY <2>2, <3>1, SlotsDiffer DEF Earlier
    <2>. QED BY <1>4, <1>5, <2>1, <2>2 DEF Holds
  <1>6. OneEach => OneEach'
    <2>1. PICK N : N = <<>>
      OBVIOUS
    <2>. QED BY <1>3, <1>5, ReadOneEach
  <1>7. ASSUME NEW c, Placed(c) PROVE Placed(c)'
    <2>1. CASE c \in lost
      BY <1>2, <2>1 DEF Placed
    <2>2. ASSUME NEW a, NEW b, NEW i, UnitHolds(a, b, i, c) PROVE Placed(c)'
      <3>1. ASSUME NEW j, UnitHolds(a, b, j, c)' PROVE Placed(c)'
        BY <3>1 DEF Holds, Placed
      <3>2. CASE a = m /\ b = n /\ i \in 1..k
        <4>1. c \in Copies(In(u))
          BY <1>3, <2>2, <3>2, TakenCopies
        <4>. QED BY <1>2, <4>1 DEF Placed
      <3>. QED BY <1>4, <2>2, <3>1, <3>2
    <2>3. ASSUME NEW t, NEW p, JobHolds(t, p, c) PROVE Placed(c)'
      <3>1. JobHolds(t, p, c)'
        BY <1>2, <2>3 DEF JobHolds
      <3>. QED BY <3>1 DEF Holds, Placed
    <2>4. ASSUME NEW r, ArrivedHolds(r, c) PROVE Placed(c)'
      <3>1. ArrivedHolds(r, c)'
        BY <1>2, <2>4 DEF ArrivedHolds
      <3>. QED BY <3>1 DEF Holds, Placed
    <2>. QED BY <1>7, <2>1, <2>2, <2>3, <2>4 DEF Placed, Holds
  <1>. QED BY <1>6, <1>7 DEF PassesOn

LEMMA OntoCopy ==
  ASSUME NEW r \in Packets, NEW p \in Node, Live(r)
  PROVE  Live(Onto(p, r)) /\ Copy(Onto(p, r)) = Longer(Copy(r), p)
  <1>1. /\ Onto(p, r).src = r.src /\ Onto(p, r).num = r.num /\ Onto(p, r).path = Append(r.path, p)
        /\ Live(Onto(p, r))
    BY OntoIs
  <1>2. PICK c : c = Copy(r)
    OBVIOUS
  <1>3. Longer(c, p) = [src |-> r.src, num |-> r.num, path |-> Append(r.path, p)]
    <2>1. PICK x, y, z : x = r.src /\ y = r.num /\ z = r.path
      OBVIOUS
    <2>2. c = [src |-> x, num |-> y, path |-> z]
      BY ONLY <1>2, <2>1 DEF Copy
    <2>3. Longer(c, p) = [src |-> x, num |-> y, path |-> Append(z, p)]
      BY ONLY <2>2 DEF Longer
    <2>. QED BY ONLY <2>1, <2>3
  <1>4. Copy(Onto(p, r)) = [src |-> r.src, num |-> r.num, path |-> Append(r.path, p)]
    BY <1>1 DEF Copy
  <1>5. Copy(Onto(p, r)) = Longer(Copy(r), p)
    BY ONLY <1>2, <1>3, <1>4
  <1>. QED BY ONLY <1>1, <1>5

\* The units on their way to p hold the copies of the units u, one step longer.
LEMMA OntoUnits ==
  ASSUME NEW u \in Seq(Units), NEW p \in Node, NEW w, IsOnto(w, p, u), NEW j \in 1..Len(u)
  PROVE  /\ Live(w[j].packet) <=> Live(u[j].packet)
         /\ Live(u[j].packet) => Copy(w[j].packet) = Longer(Copy(u[j].packet), p)
  <1>1. PICK r : r = u[j].packet
    OBVIOUS
  <1>2. r \in Packets
    <2>1. u[j] \in Units
      BY ElementOfSeq
    <2>. QED BY <1>1, <2>1 DEF Units
  <1>3. w[j].packet = Onto(p, r)
    BY <1>1 DEF IsOnto
  <1>4. Live(Onto(p, r)) <=> Live(r)
    BY <1>2, OntoIs
  <1>5. Live(r) => Copy(Onto(p, r)) = Longer(Copy(r), p)
    BY <1>2, OntoCopy
  <1>. QED BY <1>1, <1>3, <1>4, <1>5

LEMMA ReadToRootPasses ==
  ASSUME ReportsInv, NEW n \in Device, NEW m \in Children(n), NEW k \in 1..MaxRead,
         ReadToRoot(n, m, k)
  PROVE  PassesOn
  <1>1. PICK u : u = Taken(n, m, k)
    OBVIOUS
  <1>2. /\ Reading(n, m, k) /\ stream' = ToParents(Without(n, m, k), n, u)
        /\ UNCHANGED <<job, arrived, lost>>
    BY <1>1 DEF ReadToRoot
  <1>3. /\ m \in Device /\ n \in Up[m] /\ k \in 0..Len(stream[m][n]) /\ k \in Nat
        /\ u \in Seq(Units) /\ Len(u) = k
        /\ \A i \in 1..k : u[i] = stream[m][n][i] /\ UnitGood(n, u[i])
    BY <1>1, <1>2, ReadingIs
  <1>4. /\ Streams
        /\ \A a \in Device : \A b \in Up[a] :
             Flow(a, b, IF a = m /\ b = n THEN k ELSE 0,
                        IF a = n THEN To(b, set_size(u)) ELSE <<>>)
    BY <1>2, <1>3, StreamsIf, ThroughFlow
  <1>5. PICK N : N = [i \in 1..k |-> [p \in Node |->
                        UnitSlot(n, p, Len(stream[n][p]) - (IF n = m /\ p = n THEN k ELSE 0) + i)]]
    OBVIOUS
  <1>6. ASSUME NEW a, NEW b, NEW i, NEW c, UnitHolds(a, b, i, c)'
        PROVE  Earlier(m, n, k, UnitSlot(a, b, i), c) \/ Newer(m, n, k, N, UnitSlot(a, b, i), c)
    <2>1. a \in Device /\ b \in Up[a] /\ stream[a][b] \in Seq(Units) /\ b \in Node
      BY <1>4, <1>6, ReportsAssumption DEF UnitHolds, Streams, Node
    <2>2. PICK d : d = IF a = m /\ b = n THEN k ELSE 0
      OBVIOUS
    <2>3. PICK w : w = IF a = n THEN To(b, set_size(u)) ELSE <<>>
      OBVIOUS
    <2>4. Flow(a, b, d, w)
      BY <1>4, <2>1, <2>2, <2>3
    <2>5. \/ i \in Nat \ {0} /\ UnitHolds(a, b, i + d, c)
          \/ \E j \in 1..Len(w) : /\ i = Len(stream[a][b]) - d + j
                                  /\ Live(w[j].packet) /\ c = Copy(w[j].packet)
      BY <1>6, <2>1, <2>4, FlowHolds
    <2>6. CASE i \in Nat \ {0} /\ UnitHolds(a, b, i + d, c)
      <3>1. CASE a = m /\ b = n
        BY <2>2, <2>6, <3>1 DEF Earlier
      <3>2. CASE ~(a = m /\ b = n)
        <4>1. i + d = i
          BY <2>2, <2>6, <3>2
        <4>2. Holds(UnitSlot(a, b, i), c)
          BY <2>6, <4>1, SlotIs
        <4>3. \A j : UnitSlot(a, b, i) # UnitSlot(m, n, j)
          BY <3>2, SlotsDiffer
        <4>. QED BY <4>2, <4>3 DEF Earlier
      <3>. QED BY <3>1, <3>2
    <2>7. ASSUME NEW j \in 1..Len(w), i = Len(stream[a][b]) - d + j, Live(w[j].packet),
                 c = Copy(w[j].packet)
          PROVE  Newer(m, n, k, N, UnitSlot(a, b, i), c)
      <3>1. a = n /\ IsOnto(w, b, u)
        BY <1>3, <2>1, <2>3, <2>7, SendingIs
      <3>2. j \in 1..k
        BY <1>3, <3>1 DEF IsOnto
      <3>3. Live(u[j].packet) /\ c = Longer(Copy(u[j].packet), b)
        BY <1>3, <2>1, <2>7, <3>1, <3>2, OntoUnits
      <3>4. UnitHolds(m, n, j, Copy(u[j].packet))
        <4>1. j \in 1..Len(stream[m][n])
          BY <1>3, <3>2
        <4>. QED BY <1>3, <3>2, <3>3, <4>1 DEF UnitHolds
      <3>5. N[j][b] = UnitSlot(a, b, i)
        <4>1. N[j][b] = UnitSlot(n, b, Len(stream[n][b]) - (IF n = m /\ b = n THEN k ELSE 0) + j)
          BY <1>5, <2>1, <3>2
        <4>2. i = Len(stream[n][b]) - (IF n = m /\ b = n THEN k ELSE 0) + j
          BY <2>2, <2>7, <3>1
        <4>. QED BY <3>1, <4>1, <4>2
      <3>. QED BY <2>1, <3>2, <3>3, <3>4, <3>5 DEF Newer
    <2>. QED BY <2>5, <2>6, <2>7
  <1>7. ASSUME NEW q, NEW c, Holds(q, c)'
        PROVE  Earlier(m, n, k, q, c) \/ Newer(m, n, k, N, q, c)
    <2>1. ASSUME NEW t, NEW p, q = JobSlot(t, p), JobHolds(t, p, c)' PROVE Earlier(m, n, k, q, c)
      <3>1. Holds(q, c)
        BY <1>2, <2>1, SlotIs DEF JobHolds
      <3>. QED BY <2>1, <3>1, SlotsDiffer DEF Earlier
    <2>2. ASSUME NEW r, q = ArrivedSlot(r), ArrivedHolds(r, c)' PROVE Earlier(m, n, k, q, c)
      <3>1. Holds(q, c)
        BY <1>2, <2>2, SlotIs DEF ArrivedHolds
      <3>. QED BY <2>2, <3>1, SlotsDiffer DEF Earlier
    <2>. QED BY <1>6, <1>7, <2>1, <2>2 DEF Holds
  <1>8. OneEach => OneEach'
    BY <1>3, <1>7, ReadOneEach
  <1>9. ASSUME NEW c, Placed(c) PROVE Placed(c)' \/ Spread(c)
    <2>1. CASE c \in lost
      BY <1>2, <2>1 DEF Placed
    <2>2. ASSUME NEW a, NEW b, NEW i, UnitHolds(a, b, i, c), ~(a = m /\ b = n /\ i \in 1..k)
          PROVE  Placed(c)'
      <3>1. a \in Device /\ b \in Up[a] /\ stream[a][b] \in Seq(Units) /\ i \in 1..Len(stream[a][b])
        BY <1>4, <2>2 DEF UnitHolds, Streams
      <3>2. PICK d : d = IF a = m /\ b = n THEN k ELSE 0
        OBVIOUS
      <3>3. PICK w : w = IF a = n THEN To(b, set_size(u)) ELSE <<>>
        OBVIOUS
      <3>4. Flow(a, b, d, w)
        BY <1>4, <3>1, <3>2, <3>3
      <3>5. i > d
        <4>1. i \in Nat /\ i >= 1
          BY <3>1
        <4>. QED BY <1>3, <2>2, <3>2, <4>1
      <3>6. UnitHolds(a, b, i - d, c)'
        BY <2>2, <3>1, <3>4, <3>5, FlowHolds
      <3>. QED BY <3>6 DEF Holds, Placed
    <2>3. ASSUME NEW i \in 1..k, UnitHolds(m, n, i, c) PROVE Spread(c)
      <3>1. /\ c \in CopySet /\ Len(c.path) >= 1 /\ c.path[Len(c.path)] = n
        BY <2>3, UnitCopy
      <3>2. Live(u[i].packet) /\ c = Copy(u[i].packet)
        BY <1>3, <2>3 DEF UnitHolds
      <3>3. ASSUME NEW p \in Up[n] PROVE Placed(Longer(c, p))'
        <4>1. p \in Node /\ stream[n][p] \in Seq(Units)
          BY <1>4, ReportsAssumption DEF Node, Streams
        <4>2. PICK w : w = To(p, set_size(u))
          OBVIOUS
        <4>3. PICK d : d = IF n = m /\ p = n THEN k ELSE 0
          OBVIOUS
        <4>4. Flow(n, p, d, w)
          BY <1>4, <4>2, <4>3
        <4>5. IsOnto(w, p, u)
          BY <1>3, <4>1, <4>2, SendingIs
        <4>6. i \in 1..Len(w) /\ Live(w[i].packet) /\ Copy(w[i].packet) = Longer(c, p)
          <5>1. i \in 1..Len(w) /\ i \in 1..Len(u)
            BY <1>3, <4>5 DEF IsOnto
          <5>. QED BY <1>3, <3>2, <4>1, <4>5, <5>1, OntoUnits
        <4>7. PICK e : e = Copy(w[i].packet)
          OBVIOUS
        <4>8. \E j : UnitHolds(n, p, j, e)'
          BY <4>1, <4>4, <4>6, <4>7, FlowHolds
        <4>9. Placed(e)'
          BY <4>8 DEF Holds, Placed
        <4>. QED BY <4>6, <4>7, <4>9
      <3>. QED BY <3>1, <3>3 DEF Spread
    <2>4. ASSUME NEW t, NEW p, JobHolds(t, p, c) PROVE Placed(c)'
      <3>1. JobHolds(t, p, c)'
        BY <1>2, <2>4 DEF JobHolds
      <3>. QED BY <3>1 DEF Holds, Placed
    <2>5. ASSUME NEW r, ArrivedHolds(r, c) PROVE Placed(c)'
      <3>1. ArrivedHolds(r, c)'
        BY <1>2, <2>5 DEF ArrivedHolds
      <3>. QED BY <3>1 DEF Holds, Placed
    <2>. QED BY <1>9, <2>1, <2>2, <2>3, <2>4, <2>5 DEF Placed, Holds
  <1>. QED BY <1>8, <1>9 DEF PassesOn

\* A copy that is held as before, by a thread or at the server.
LEMMA HeldOlder ==
  ASSUME NEW m, NEW n, NEW k, NEW q, NEW c
  PROVE  /\ \A s, p : q = JobSlot(s, p) /\ JobHolds(s, p, c) => Earlier(m, n, k, q, c)
         /\ \A r : q = ArrivedSlot(r) /\ ArrivedHolds(r, c) => Earlier(m, n, k, q, c)
  <1>1. ASSUME NEW s, NEW p, q = JobSlot(s, p), JobHolds(s, p, c) PROVE Earlier(m, n, k, q, c)
    <2>1. Holds(q, c)
      BY <1>1, SlotIs
    <2>. QED BY <1>1, <2>1, SlotsDiffer DEF Earlier
  <1>2. ASSUME NEW r, q = ArrivedSlot(r), ArrivedHolds(r, c) PROVE Earlier(m, n, k, q, c)
    <2>1. Holds(q, c)
      BY <1>2, SlotIs
    <2>. QED BY <1>2, <2>1, SlotsDiffer DEF Earlier
  <1>. QED BY <1>1, <1>2

LEMMA ReadToParentPasses ==
  ASSUME ReportsInv, NEW n \in Device, NEW m \in Children(n), NEW k \in 1..MaxRead,
         ReadToParent(n, m, k)
  PROVE  PassesOn
  <1>1. PICK u : u = Taken(n, m, k)
    OBVIOUS
  <1>2. PICK t : t = <<n, m>>
    OBVIOUS
  <1>3. PICK r : r = u[1].packet
    OBVIOUS
  <1>4. PICK R : R = Targeted(n, r)
    OBVIOUS
  <1>5. /\ Reading(n, m, k) /\ r.fwd = "TO_PARENT_TO_ROOT" /\ stream' = Without(n, m, k)
        /\ UNCHANGED arrived
    BY <1>1, <1>3 DEF ReadToParent, Take
  <1>6. /\ m \in Device /\ n \in Up[m] /\ t \in Threads /\ job[t].step = 0
        /\ k \in 0..Len(stream[m][n]) /\ k \in Nat /\ k >= 1 /\ Len(u) = k
        /\ \A i \in 1..k : u[i] = stream[m][n][i] /\ UnitGood(n, u[i])
    BY <1>1, <1>2, <1>5, ReadingIs
  <1>7. \/ /\ k = 1 /\ lost' = lost
           /\ job' = [job EXCEPT ![t] = [step |-> 1, report |-> R, todo |-> Up[n]]]
        \/ /\ lost' = lost \cup Copies(In(u))
           /\ job' = job \/
                job' = [job EXCEPT ![t] = [step |-> 1, report |-> Damaged(R), todo |-> Up[n]]]
    BY <1>1, <1>2, <1>3, <1>4, <1>6 DEF ReadToParent
  <1>8. /\ job[t] = Idle /\ DOMAIN job = Threads /\ job[t].todo = {}
    BY <1>6, NoReportIs DEF ReportsInv, JobGood
  <1>9. /\ R \in Packets /\ R.src = r.src /\ R.num = r.num /\ R.path = r.path /\ R.ok = r.ok
        /\ ~Damaged(R).ok /\ PacketGood(n, r)
    <2>1. PacketGood(n, r)
      <3>1. 1 \in 1..k
        BY <1>6
      <3>. QED BY <1>3, <1>6, <3>1 DEF UnitGood
    <2>. QED BY <1>4, <1>5, <2>1, TargetedIs, DamagedIs
  <1>10. Copy(R) = Copy(r)
    BY <1>9 DEF Copy
  <1>11. ~IsLog(r)
    BY <1>5, <1>9 DEF PacketGood
  <1>12. /\ \A a, b, i, c : UnitHolds(a, b, i, c)' => Earlier(m, n, k, UnitSlot(a, b, i), c)
         /\ \A a, b, i, c : UnitHolds(a, b, i, c) => \/ \E j : UnitHolds(a, b, j, c)'
                                                     \/ a = m /\ b = n /\ i \in 1..k
    BY <1>5, <1>6, OffUnits
  <1>13. PICK N : N = [i \in 1..k |-> [p \in Node |-> JobSlot(t, p)]]
    OBVIOUS
  <1>14. ASSUME NEW s, NEW p, NEW c, JobHolds(s, p, c)'
         PROVE  JobHolds(s, p, c) \/ Newer(m, n, k, N, JobSlot(s, p), c)
    <2>1. CASE s # t \/ job' = job
      <3>1. s \in Threads => job'[s] = job[s]
        BY <1>7, <1>8, <2>1
      <3>. QED BY <1>14, <3>1 DEF JobHolds
    <2>2. CASE s = t /\ job' # job
      <3>1. /\ job'[t].todo = Up[n]
            /\ job'[t].report = R \/ job'[t].report = Damaged(R)
            /\ job'[t].report = R => k = 1 \/ R = Damaged(R)
        BY <1>6, <1>7, <1>8, <2>2
      <3>2. job'[t].report.ok /\ p \in job'[t].todo /\ c = Longer(Copy(job'[t].report), p)
        BY <1>14, <2>2 DEF JobHolds, Copy, Longer
      <3>3. job'[t].report = R /\ R.ok /\ k = 1 /\ p \in Up[n] /\ c = Longer(Copy(r), p)
        BY <1>9, <1>10, <3>1, <3>2
      <3>4. UnitHolds(m, n, 1, Copy(r))
        <4>1. 1 \in 1..Len(stream[m][n]) /\ 1 \in 1..k
          BY <1>6
        <4>. QED BY <1>3, <1>6, <1>9, <1>11, <3>3, <4>1 DEF UnitHolds, Live
      <3>5. p \in Node /\ 1 \in 1..k
        BY <3>3, ReportsAssumption DEF Node
      <3>6. N[1][p] = JobSlot(t, p)
        BY <1>13, <3>5
      <3>. QED BY <2>2, <3>3, <3>4, <3>5, <3>6 DEF Newer
    <2>. QED BY <2>1, <2>2
  <1>15. ASSUME NEW q, NEW c, Holds(q, c)'
         PROVE  Earlier(m, n, k, q, c) \/ Newer(m, n, k, N, q, c)
    <2>1. ASSUME NEW s, NEW p, q = JobSlot(s, p), JobHolds(s, p, c)'
          PROVE  Earlier(m, n, k, q, c) \/ Newer(m, n, k, N, q, c)
      BY <1>14, <2>1, HeldOlder
    <2>2. ASSUME NEW x, q = ArrivedSlot(x), ArrivedHolds(x, c)' PROVE Earlier(m, n, k, q, c)
      <3>1. ArrivedHolds(x, c)
        BY <1>5, <2>2 DEF ArrivedHolds
      <3>. QED BY <2>2, <3>1, HeldOlder
    <2>. QED BY <1>12, <1>15, <2>1, <2>2 DEF Holds
  <1>16. OneEach => OneEach'
    BY <1>6, <1>15, ReadOneEach
  <1>17. ASSUME NEW c, Placed(c) PROVE Placed(c)' \/ Spread(c)
    <2>1. CASE c \in lost
      BY <1>7, <2>1 DEF Placed
    <2>2. ASSUME NEW i \in 1..k, UnitHolds(m, n, i, c) PROVE Placed(c)' \/ Spread(c)
      <3>1. CASE lost' = lost \cup Copies(In(u))
        <4>1. c \in Copies(In(u))
          BY <1>6, <2>2, TakenCopies
        <4>. QED BY <3>1, <4>1 DEF Placed
      <3>2. CASE k = 1 /\ job' = [job EXCEPT ![t] = [step |-> 1, report |-> R, todo |-> Up[n]]]
        <4>1. c \in CopySet /\ Len(c.path) >= 1 /\ c.path[Len(c.path)] = n
          BY <2>2, UnitCopy
        <4>2. r.ok /\ c = Copy(r)
          BY <1>3, <1>6, <2>2, <3>2 DEF UnitHolds, Live
        <4>3. job'[t].report = R /\ job'[t].todo = Up[n]
          BY <1>6, <1>8, <3>2
        <4>4. ASSUME NEW p \in Up[n] PROVE Placed(Longer(c, p))'
          <5>1. PICK e : e = Longer(c, p)
            OBVIOUS
          <5>2. JobHolds(t, p, e)'
            BY <1>6, <1>9, <1>10, <4>2, <4>3, <5>1 DEF JobHolds, Copy, Longer
          <5>3. Placed(e)'
            BY <5>2 DEF Holds, Placed
          <5>. QED BY <5>1, <5>3
        <4>. QED BY <4>1, <4>4 DEF Spread
      <3>. QED BY <1>7, <3>1, <3>2
    <2>3. ASSUME NEW a, NEW b, NEW i, UnitHolds(a, b, i, c) PROVE Placed(c)' \/ Spread(c)
      <3>1. ASSUME NEW j, UnitHolds(a, b, j, c)' PROVE Placed(c)'
        BY <3>1 DEF Holds, Placed
      <3>. QED BY <1>12, <2>2, <2>3, <3>1
    <2>4. ASSUME NEW s, NEW p, JobHolds(s, p, c) PROVE Placed(c)'
      <3>1. s # t /\ s \in Threads
        BY <1>8, <2>4 DEF JobHolds
      <3>2. job'[s] = job[s]
        BY <1>7, <1>8, <3>1
      <3>3. JobHolds(s, p, c)'
        BY <2>4, <3>2 DEF JobHolds
      <3>. QED BY <3>3 DEF Holds, Placed
    <2>5. ASSUME NEW x, ArrivedHolds(x, c) PROVE Placed(c)'
      <3>1. ArrivedHolds(x, c)'
        BY <1>5, <2>5 DEF ArrivedHolds
      <3>. QED BY <3>1 DEF Holds, Placed
    <2>. QED BY <1>17, <2>1, <2>3, <2>4, <2>5 DEF Placed, Holds
  <1>. QED BY <1>16, <1>17 DEF PassesOn

\* What the i-th unit held is now in z.
Moved(m, n, i, z, q, c) == q = z /\ UnitHolds(m, n, i, c)

\* The server has taken k units, the i-th of which z holds now.
LEMMA ArrivedOneEach ==
  ASSUME ReportsInv, OneEach, NEW m, NEW n, NEW k \in Nat, NEW i \in 1..k, NEW z,
         \A q, c : Holds(q, c)' => Earlier(m, n, k, q, c) \/ Moved(m, n, i, z, q, c)
  PROVE  OneEach'
  <1>1. ASSUME NEW q, NEW s, NEW c, NEW e, Holds(q, c)', Holds(s, e)', Related(c, e)
        PROVE  q = s
    <2>1. CASE Earlier(m, n, k, q, c) /\ Earlier(m, n, k, s, e)
      BY <1>1, <2>1, OlderOne
    <2>2. CASE Earlier(m, n, k, q, c) /\ UnitHolds(m, n, i, e)
      BY <1>1, <2>2, OlderApart
    <2>3. CASE UnitHolds(m, n, i, c) /\ Earlier(m, n, k, s, e)
      <3>1. c \in CopySet /\ e \in CopySet
        BY <2>3, OlderCopy, UnitCopy
      <3>2. Related(e, c)
        BY <1>1, <3>1, RelatedIs
      <3>. QED BY <2>3, <3>2, OlderApart
    <2>. QED BY <1>1, <2>1, <2>2, <2>3 DEF Moved
  <1>. QED BY <1>1 DEF OneEach, Related, IsPrefix

LEMMA ServerReadsPasses ==
  ASSUME ReportsInv, NEW m \in Device, ServerReads(m)
  PROVE  PassesOn
  <1>1. PICK k \in Nat \ {0}, u \in Seq(Units) :
           /\ Root \in Up[m] /\ k \in 0..Len(stream[m][Root]) /\ Len(u) = k
           /\ \A i \in 1..k : u[i] = stream[m][Root][i] /\ UnitGood(Root, u[i])
           /\ stream' = Without(Root, m, k)
           /\ UNCHANGED job
           /\ \/ /\ k = 1 /\ u[1].idx = 1 /\ ~IsLog(u[1].packet)
                 /\ arrived' = arrived \cup
                      {IF u[1].packet.fwd = "TO_PARENT_TO_ROOT"
                       THEN [u[1].packet EXCEPT !.tgt = Root] ELSE u[1].packet}
                 /\ lost' = lost
              \/ arrived' = arrived /\ lost' = lost \cup Copies(In(u))
    BY ServerTakes
  <1>2. PICK r : r = u[1].packet
    OBVIOUS
  <1>3. PICK x : x = IF r.fwd = "TO_PARENT_TO_ROOT" THEN [r EXCEPT !.tgt = Root] ELSE r
    OBVIOUS
  <1>4. \/ k = 1 /\ ~IsLog(r) /\ arrived' = arrived \cup {x} /\ lost' = lost
        \/ arrived' = arrived /\ lost' = lost \cup Copies(In(u))
    BY <1>1, <1>2, <1>3
  <1>5. x.ok = r.ok /\ Copy(x) = Copy(r)
    <2>1. r \in Packets
      <3>1. 1 \in 1..k
        OBVIOUS
      <3>. QED BY <1>1, <1>2, <3>1 DEF UnitGood, PacketGood
    <2>2. x.src = r.src /\ x.num = r.num /\ x.path = r.path /\ x.ok = r.ok
      <3>1. CASE r.fwd = "TO_PARENT_TO_ROOT"
        BY <1>3, <2>1, <3>1 DEF Packets
      <3>2. CASE r.fwd # "TO_PARENT_TO_ROOT"
        BY <1>3, <3>2
      <3>. QED BY <3>1, <3>2
    <2>. QED BY <2>2 DEF Copy
  <1>6. /\ \A a, b, i, c : UnitHolds(a, b, i, c)' => Earlier(m, Root, k, UnitSlot(a, b, i), c)
        /\ \A a, b, i, c : UnitHolds(a, b, i, c) => \/ \E j : UnitHolds(a, b, j, c)'
                                                    \/ a = m /\ b = Root /\ i \in 1..k
    BY <1>1, OffUnits
  <1>7. 1 \in 1..Len(stream[m][Root]) /\ 1 \in 1..k /\ r = stream[m][Root][1].packet
    <2>1. 1 \in 1..Len(stream[m][Root]) /\ 1 \in 1..k
      BY <1>1
    <2>. QED BY <1>1, <1>2, <2>1
  <1>8. ASSUME NEW q, NEW c, Holds(q, c)'
        PROVE  Earlier(m, Root, k, q, c) \/ (q = ArrivedSlot(x) /\ UnitHolds(m, Root, 1, c))
    <2>1. ASSUME NEW s, NEW p, q = JobSlot(s, p), JobHolds(s, p, c)' PROVE Earlier(m, Root, k, q, c)
      <3>1. JobHolds(s, p, c)
        BY <1>1, <2>1 DEF JobHolds
      <3>. QED BY <2>1, <3>1, HeldOlder
    <2>2. ASSUME NEW y, q = ArrivedSlot(y), ArrivedHolds(y, c)'
          PROVE  Earlier(m, Root, k, q, c) \/ (q = ArrivedSlot(x) /\ UnitHolds(m, Root, 1, c))
      <3>1. CASE y \in arrived
        <4>1. ArrivedHolds(y, c)
          BY <2>2, <3>1 DEF ArrivedHolds, Copy
        <4>. QED BY <2>2, <4>1, HeldOlder
      <3>2. CASE y \notin arrived
        <4>1. y = x /\ ~IsLog(r) /\ y.ok /\ c = Copy(y)
          BY <1>4, <2>2, <3>2 DEF ArrivedHolds, Copy
        <4>2. UnitHolds(m, Root, 1, c)
          BY <1>1, <1>5, <1>7, <4>1 DEF UnitHolds, Live
        <4>. QED BY <2>2, <4>1, <4>2
      <3>. QED BY <3>1, <3>2
    <2>. QED BY <1>6, <1>8, <2>1, <2>2 DEF Holds
  <1>9. OneEach => OneEach'
    <2>1. PICK z, i : z = ArrivedSlot(x) /\ i = 1
      OBVIOUS
    <2>2. k \in Nat /\ i \in 1..k
      BY <1>7, <2>1
    <2>3. \A q, c : Holds(q, c)' => Earlier(m, Root, k, q, c) \/ Moved(m, Root, i, z, q, c)
      BY <1>8, <2>1 DEF Moved
    <2>. QED BY ONLY ReportsInv, <2>2, <2>3, ArrivedOneEach
  <1>10. ASSUME NEW c, Placed(c) PROVE Placed(c)'
    <2>1. CASE c \in lost
      BY <1>4, <2>1 DEF Placed
    <2>2. ASSUME NEW i \in 1..k, UnitHolds(m, Root, i, c) PROVE Placed(c)'
      <3>1. CASE lost' = lost \cup Copies(In(u))
        <4>1. c \in Copies(In(u))
          BY <1>1, <2>2, TakenCopies
        <4>. QED BY <3>1, <4>1 DEF Placed
      <3>2. CASE k = 1 /\ arrived' = arrived \cup {x}
        <4>1. r.ok /\ c = Copy(x)
          BY <1>5, <1>7, <2>2, <3>2 DEF UnitHolds, Live
        <4>2. ArrivedHolds(x, c)'
          BY <1>5, <3>2, <4>1 DEF ArrivedHolds, Copy
        <4>. QED BY <4>2 DEF Holds, Placed
      <3>. QED BY <1>4, <3>1, <3>2
    <2>3. ASSUME NEW a, NEW b, NEW i, UnitHolds(a, b, i, c) PROVE Placed(c)'
      <3>1. ASSUME NEW j, UnitHolds(a, b, j, c)' PROVE Placed(c)'
        BY <3>1 DEF Holds, Placed
      <3>. QED BY <1>6, <2>2, <2>3, <3>1
    <2>4. ASSUME NEW s, NEW p, JobHolds(s, p, c) PROVE Placed(c)'
      <3>1. JobHolds(s, p, c)'
        BY <1>1, <2>4 DEF JobHolds
      <3>. QED BY <3>1 DEF Holds, Placed
    <2>5. ASSUME NEW y, ArrivedHolds(y, c) PROVE Placed(c)'
      <3>1. ArrivedHolds(y, c)'
        BY <1>4, <2>5 DEF ArrivedHolds, Copy
      <3>. QED BY <3>1 DEF Holds, Placed
    <2>. QED BY <1>10, <2>1, <2>3, <2>4, <2>5 DEF Placed, Holds
  <1>. QED BY <1>9, <1>10 DEF PassesOn

---------------------------------------------------------------------------
(* What becomes of the copies when a thread sends.                         *)

\* Units go onto links, none off them.
LEMMA OnUnits ==
  ASSUME Streams, NEW f,
         \A a \in Device : \A b \in Up[a] : Flow(a, b, 0, f[a][b])
  PROVE  /\ \A a, b, i, c : UnitHolds(a, b, i, c)' =>
              \/ UnitHolds(a, b, i, c)
              \/ /\ a \in Device /\ b \in Up[a]
                 /\ \E j \in 1..Len(f[a][b]) : /\ i = Len(stream[a][b]) + j
                                               /\ Live(f[a][b][j].packet)
                                               /\ c = Copy(f[a][b][j].packet)
         /\ \A a, b, i, c : UnitHolds(a, b, i, c) => UnitHolds(a, b, i, c)'
  <1>1. ASSUME NEW a, NEW b, NEW i, NEW c, UnitHolds(a, b, i, c)'
        PROVE  \/ UnitHolds(a, b, i, c)
               \/ /\ a \in Device /\ b \in Up[a]
                  /\ \E j \in 1..Len(f[a][b]) : /\ i = Len(stream[a][b]) + j
                                                /\ Live(f[a][b][j].packet)
                                                /\ c = Copy(f[a][b][j].packet)
    <2>1. a \in Device /\ b \in Up[a] /\ stream[a][b] \in Seq(Units)
      BY <1>1 DEF UnitHolds, Streams
    <2>2. PICK w : w = f[a][b]
      OBVIOUS
    <2>3. Flow(a, b, 0, w)
      BY <2>1, <2>2
    <2>4. \/ i \in Nat \ {0} /\ UnitHolds(a, b, i + 0, c)
          \/ \E j \in 1..Len(w) : /\ i = Len(stream[a][b]) - 0 + j
                                  /\ Live(w[j].packet) /\ c = Copy(w[j].packet)
      BY <1>1, <2>1, <2>3, FlowHolds
    <2>5. \A j \in 1..Len(w) : Len(stream[a][b]) - 0 + j = Len(stream[a][b]) + j
      BY <2>1
    <2>6. i \in Nat \ {0} => i + 0 = i
      OBVIOUS
    <2>. QED BY <2>1, <2>2, <2>4, <2>5, <2>6
  <1>2. ASSUME NEW a, NEW b, NEW i, NEW c, UnitHolds(a, b, i, c)
        PROVE  UnitHolds(a, b, i, c)'
    <2>1. a \in Device /\ b \in Up[a] /\ stream[a][b] \in Seq(Units) /\ i \in 1..Len(stream[a][b])
      BY <1>2 DEF UnitHolds, Streams
    <2>2. PICK w : w = f[a][b]
      OBVIOUS
    <2>3. Flow(a, b, 0, w)
      BY <2>1, <2>2
    <2>4. i > 0 /\ i - 0 = i
      BY <2>1
    <2>5. PICK j : j = i - 0
      OBVIOUS
    <2>6. UnitHolds(a, b, j, c)'
      BY <1>2, <2>1, <2>3, <2>4, <2>5, FlowHolds
    <2>. QED BY <2>4, <2>5, <2>6
  <1>. QED BY <1>1, <1>2

\* A copy has gone from the place y to the place z.
Handed(y, z, q, c) == (Holds(q, c) /\ q # y) \/ (q = z /\ Holds(y, c))

LEMMA HandedOneEach ==
  ASSUME ReportsInv, OneEach, NEW y, NEW z, \A q, c : Holds(q, c)' => Handed(y, z, q, c)
  PROVE  OneEach'
  <1>1. ASSUME NEW q, NEW s, NEW c, NEW e, Holds(q, c)', Holds(s, e)', Related(c, e)
        PROVE  q = s
    <2>1. Handed(y, z, q, c) /\ Handed(y, z, s, e)
      BY <1>1
    <2>. QED BY <1>1, <2>1 DEF Handed, OneEach
  <1>. QED BY <1>1 DEF OneEach, Related, IsPrefix

LEMMA SendToPasses ==
  ASSUME ReportsInv, NEW t \in Threads, NEW p \in job[t].todo, SendTo(t, p)
  PROVE  PassesOn
  <1>1. PICK n : n = t[1]
    OBVIOUS
  <1>2. PICK h : h = job[t].report
    OBVIOUS
  <1>3. PICK r : r = IF pb_buffer[n] = h THEN h ELSE Damaged(pb_buffer[n])
    OBVIOUS
  <1>4. PICK w : w = To(p, <<Unit(r, 1)>>)
    OBVIOUS
  <1>5. /\ stream' = [stream EXCEPT ![n][p] = @ \o w]
        /\ job' = [job EXCEPT ![t].todo = Others(t, p)]
        /\ lost' = lost \cup (IF r = h THEN {} ELSE {Longer(Copy(h), p)})
        /\ UNCHANGED arrived
    BY <1>1, <1>2, <1>3, <1>4 DEF SendTo, Longer
  <1>6. /\ job[t] \in Jobs /\ JobGood(t) /\ job[t].step = 3 /\ DOMAIN job = Threads
    <2>1. JobGood(t) /\ job[t] \in Jobs /\ DOMAIN job = Threads
      BY DEF ReportsInv, JobGood
    <2>. QED BY <2>1, AtIs DEF SendTo
  <1>7. n \in Device /\ p \in Up[n] /\ p \in Node
    <2>1. n \in Device /\ p \in Up[n]
      BY <1>1, <1>6, ThreadIs DEF JobGood
    <2>. QED BY <2>1, ReportsAssumption DEF Node
  <1>8. r \in Packets
    BY <1>1, <1>2, <1>3, <1>6, <1>7, SentIs
  <1>9. w \in Seq(Units) /\ Len(w) = 1 /\ w[1].packet = Onto(p, r)
    BY <1>4, <1>7, <1>8, OneUnit
  <1>10. Live(r) => r = h
    <2>1. pb_buffer[n] \in Packets
      BY <1>7 DEF ReportsInv
    <2>. QED BY <1>3, <2>1, DamagedIs DEF Live
  <1>11. Live(w[1].packet) <=> Live(r)
    BY <1>7, <1>8, <1>9, OntoIs
  <1>12. Live(r) => Copy(w[1].packet) = Longer(Copy(h), p)
    BY <1>7, <1>8, <1>9, <1>10, OntoCopy
  <1>13. \A c : JobHolds(t, p, c) <=> h.ok /\ c = Longer(Copy(h), p)
    BY <1>2 DEF JobHolds
  <1>14. PICK f : f = [a \in Device |-> [b \in Up[a] |-> IF a = n /\ b = p THEN w ELSE <<>>]]
    OBVIOUS
  <1>15. Streams /\ \A a \in Device : \A b \in Up[a] : Flow(a, b, 0, f[a][b])
    <2>1. Streams
      BY StreamsIf
    <2>2. stream' = [stream EXCEPT ![n][p] = @ \o w]
      BY <1>5
    <2>3. \A a \in Device : \A b \in Up[a] : Flow(a, b, 0, IF a = n /\ b = p THEN w ELSE <<>>)
      BY ONLY <1>7, <1>9, <2>1, <2>2, OneFlow
    <2>4. \A a \in Device : \A b \in Up[a] : f[a][b] = IF a = n /\ b = p THEN w ELSE <<>>
      BY <1>14
    <2>. QED BY <2>1, <2>3, <2>4
  <1>16. /\ \A a, b, i, c : UnitHolds(a, b, i, c)' =>
              \/ UnitHolds(a, b, i, c)
              \/ /\ a \in Device /\ b \in Up[a]
                 /\ \E j \in 1..Len(f[a][b]) : /\ i = Len(stream[a][b]) + j
                                               /\ Live(f[a][b][j].packet)
                                               /\ c = Copy(f[a][b][j].packet)
         /\ \A a, b, i, c : UnitHolds(a, b, i, c) => UnitHolds(a, b, i, c)'
    BY <1>15, OnUnits
  <1>17. PICK y, z : y = JobSlot(t, p) /\ z = UnitSlot(n, p, Len(stream[n][p]) + 1)
    OBVIOUS
  <1>18. ASSUME NEW a, NEW b, NEW i, NEW c, UnitHolds(a, b, i, c)'
         PROVE  Handed(y, z, UnitSlot(a, b, i), c)
    <2>1. CASE UnitHolds(a, b, i, c)
      <3>1. Holds(UnitSlot(a, b, i), c)
        BY <2>1, SlotIs
      <3>2. UnitSlot(a, b, i) # JobSlot(t, p)
        BY SlotsDiffer
      <3>3. UnitSlot(a, b, i) # y
        BY ONLY <1>17, <3>2
      <3>. QED BY <3>1, <3>3 DEF Handed
    <2>2. CASE ~UnitHolds(a, b, i, c)
      <3>1. PICK j \in 1..Len(f[a][b]) : /\ a \in Device /\ b \in Up[a]
                                         /\ i = Len(stream[a][b]) + j
                                         /\ Live(f[a][b][j].packet) /\ c = Copy(f[a][b][j].packet)
        BY <1>16, <1>18, <2>2
      <3>2. f[a][b] = IF a = n /\ b = p THEN w ELSE <<>>
        BY <1>14, <3>1
      <3>3. a = n /\ b = p /\ f[a][b] = w /\ j = 1
        <4>1. PICK v : v = f[a][b]
          OBVIOUS
        <4>2. CASE a = n /\ b = p
          <5>1. v = w /\ j \in 1..Len(v)
            BY <3>2, <4>1, <4>2
          <5>2. j \in 1..1
            BY ONLY <1>9, <5>1
          <5>3. j = 1
            BY ONLY <5>2
          <5>. QED BY ONLY <4>1, <4>2, <5>1, <5>3
        <4>3. CASE ~(a = n /\ b = p)
          <5>1. v = <<>> /\ j \in 1..Len(v)
            BY <3>2, <4>1, <4>3
          <5>. QED BY <5>1
        <4>. QED BY <4>2, <4>3
      <3>4. Live(r) /\ c = Longer(Copy(h), p)
        BY <1>11, <1>12, <3>1, <3>3
      <3>5. JobHolds(t, p, c)
        BY <1>10, <1>13, <3>4 DEF Live
      <3>6. Holds(y, c)
        BY <1>17, <3>5, SlotIs
      <3>7. UnitSlot(a, b, i) = z
        BY <1>17, <3>1, <3>3
      <3>. QED BY <3>6, <3>7 DEF Handed
    <2>. QED BY <2>1, <2>2
  <1>19. ASSUME NEW s, NEW b, NEW c
         PROVE  /\ JobHolds(s, b, c)' => JobHolds(s, b, c) /\ JobSlot(s, b) # y
                /\ JobHolds(s, b, c) /\ ~(s = t /\ b = p) => JobHolds(s, b, c)'
    <2>1. CASE s # t
      <3>1. s \in Threads => job'[s] = job[s]
        BY <1>5, <1>6, <2>1
      <3>2. JobHolds(s, b, c)' <=> JobHolds(s, b, c)
        BY <3>1 DEF JobHolds, Copy, Longer
      <3>3. JobSlot(s, b) # JobSlot(t, p)
        BY <2>1, SlotsDiffer
      <3>. QED BY ONLY <1>17, <3>2, <3>3
    <2>2. CASE s = t
      <3>1. job'[t].report = h /\ job'[t].todo = job[t].todo \ {p}
        BY <1>2, <1>5, <1>6 DEF Others, Jobs
      <3>2. JobHolds(s, b, c)' => JobHolds(s, b, c) /\ b # p
        BY <1>2, <2>2, <3>1 DEF JobHolds, Copy, Longer
      <3>3. JobHolds(s, b, c) /\ b # p => JobHolds(s, b, c)'
        BY <1>2, <2>2, <3>1 DEF JobHolds, Copy, Longer
      <3>. QED BY <1>17, <2>2, <3>2, <3>3, SlotsDiffer
    <2>. QED BY <2>1, <2>2
  <1>20. ASSUME NEW q, NEW c, Holds(q, c)' PROVE Handed(y, z, q, c)
    <2>1. ASSUME NEW s, NEW b, q = JobSlot(s, b), JobHolds(s, b, c)' PROVE Handed(y, z, q, c)
      <3>1. JobHolds(s, b, c) /\ q # y
        BY <1>19, <2>1
      <3>. QED BY <2>1, <3>1, SlotIs DEF Handed
    <2>2. ASSUME NEW x, q = ArrivedSlot(x), ArrivedHolds(x, c)' PROVE Handed(y, z, q, c)
      <3>1. ArrivedHolds(x, c) /\ q # y
        BY <1>5, <1>17, <2>2, SlotsDiffer DEF ArrivedHolds
      <3>. QED BY <2>2, <3>1, SlotIs DEF Handed
    <2>. QED BY <1>18, <1>20, <2>1, <2>2 DEF Holds
  <1>21. OneEach => OneEach'
    BY <1>20, HandedOneEach
  <1>22. ASSUME NEW c, Placed(c) PROVE Placed(c)'
    <2>1. CASE c \in lost
      BY <1>5, <2>1 DEF Placed
    <2>2. ASSUME NEW a, NEW b, NEW i, UnitHolds(a, b, i, c) PROVE Placed(c)'
      <3>1. UnitHolds(a, b, i, c)'
        BY <1>16, <2>2
      <3>. QED BY <3>1 DEF Holds, Placed
    <2>3. CASE JobHolds(t, p, c)
      <3>1. CASE r # h
        BY <1>5, <1>13, <2>3, <3>1 DEF Placed
      <3>2. CASE r = h
        <4>1. Live(r)
          BY <1>2, <1>6, <1>13, <2>3, <3>2 DEF Live, IsLog, JobGood
        <4>2. Live(w[1].packet) /\ c = Copy(w[1].packet)
          BY <1>11, <1>12, <1>13, <2>3, <4>1
        <4>3. f[n][p] = w
          BY <1>7, <1>14
        <4>4. Flow(n, p, 0, w) /\ stream[n][p] \in Seq(Units)
          BY <1>7, <1>15, <4>3 DEF Streams
        <4>5. 1 \in 1..Len(w)
          BY <1>9
        <4>6. \E i : UnitHolds(n, p, i, c)'
          BY <1>7, <4>2, <4>4, <4>5, FlowHolds
        <4>. QED BY <4>6 DEF Holds, Placed
      <3>. QED BY <3>1, <3>2
    <2>4. ASSUME NEW s, NEW b, JobHolds(s, b, c), ~(s = t /\ b = p) PROVE Placed(c)'
      <3>1. JobHolds(s, b, c)'
        BY <1>19, <2>4
      <3>. QED BY <3>1 DEF Holds, Placed
    <2>5. ASSUME NEW x, ArrivedHolds(x, c) PROVE Placed(c)'
      <3>1. ArrivedHolds(x, c)'
        BY <1>5, <2>5 DEF ArrivedHolds
      <3>. QED BY <3>1 DEF Holds, Placed
    <2>. QED BY <1>22, <2>1, <2>2, <2>3, <2>4, <2>5 DEF Placed, Holds
  <1>. QED BY <1>21, <1>22 DEF PassesOn

---------------------------------------------------------------------------
(* The steps that leave the copies where they are, and new reports.        *)

LEMMA PassesIf ==
  ASSUME \A q, c : Holds(q, c)' <=> Holds(q, c), UNCHANGED lost
  PROVE  PassesOn
  <1>1. OneEach => OneEach'
    BY OneEachKept
  <1>2. ASSUME NEW c, Placed(c) PROVE Placed(c)'
    <2>1. CASE c \in lost
      BY <2>1 DEF Placed
    <2>2. ASSUME NEW q, Holds(q, c) PROVE Placed(c)'
      <3>1. Holds(q, c)'
        BY <2>2
      <3>. QED BY <3>1 DEF Placed
    <2>. QED BY <1>2, <2>1, <2>2 DEF Placed
  <1>. QED BY <1>1, <1>2 DEF PassesOn

\* A thread goes on with the same report, or has none to send.
LEMMA JobPasses ==
  ASSUME UNCHANGED <<stream, arrived, lost>>,
         \A s \in Threads : /\ job'[s].todo = job[s].todo
                            /\ job[s].todo # {} => job'[s].report = job[s].report
  PROVE  PassesOn
  <1>1. ASSUME NEW s, NEW p, NEW c PROVE JobHolds(s, p, c)' <=> JobHolds(s, p, c)
    BY DEF JobHolds, Copy, Longer
  <1>2. ASSUME NEW a, NEW b, NEW i, NEW c PROVE UnitHolds(a, b, i, c)' <=> UnitHolds(a, b, i, c)
    BY DEF UnitHolds, Live, IsLog, Copy
  <1>3. ASSUME NEW x, NEW c PROVE ArrivedHolds(x, c)' <=> ArrivedHolds(x, c)
    BY DEF ArrivedHolds, Copy
  <1>4. ASSUME NEW q, NEW c PROVE Holds(q, c)' <=> Holds(q, c)
    BY <1>1, <1>2, <1>3 DEF Holds, UnitSlot, JobSlot, ArrivedSlot
  <1>. QED BY <1>4, PassesIf

LEMMA ThreadPasses ==
  ASSUME ReportsInv, NEW t \in Threads, Header(t) \/ Body(t) \/ Sent(t)
  PROVE  PassesOn
  <1>1. DOMAIN job = Threads /\ job[t] \in Jobs
    BY DEF ReportsInv, JobGood
  <1>2. UNCHANGED <<stream, arrived, lost>> /\ job' = [job EXCEPT ![t] = Done(@)]
    BY DEF Header, Body, Sent
  <1>3. PICK j : j = Done(job[t])
    OBVIOUS
  <1>4. \A s \in Threads : job'[s] = IF s = t THEN j ELSE job[s]
    BY <1>1, <1>2, <1>3
  <1>5. j.todo = job[t].todo /\ (job[t].todo # {} => j.report = job[t].report)
    <2>1. CASE job[t].step = 3
      <3>1. job[t].todo = {}
        BY <1>1, <2>1, AtIs DEF Header, Body, Sent
      <3>2. j.todo = {}
        BY <1>1, <1>3, <2>1, DoneIs, NoReportIs
      <3>. QED BY <3>1, <3>2
    <2>2. CASE job[t].step # 3
      BY <1>1, <1>3, <2>2, DoneIs
    <2>. QED BY <2>1, <2>2
  <1>. QED BY <1>2, <1>4, <1>5, JobPasses

LEMMA SendLogPasses ==
  ASSUME ReportsInv, NEW n \in Device, send_log_packet(n)
  PROVE  PassesOn
  <1>1. PICK u : u = [i \in 1..LogSize |-> Unit(LogPacket, i)]
    OBVIOUS
  <1>2. stream' = ToParents(stream, n, u) /\ UNCHANGED <<job, arrived, lost>>
    BY <1>1 DEF send_log_packet
  <1>3. u \in Seq(Units) /\ IsLog(LogPacket) /\ \A i \in 1..Len(u) : u[i].packet = LogPacket
    BY <1>1, LogUnits
  <1>4. PICK f : f = [a \in Device |-> [b \in Up[a] |->
                        IF a = n THEN To(b, set_size(u)) ELSE <<>>]]
    OBVIOUS
  <1>5. \A a \in Device : \A b \in Up[a] :
          f[a][b] = IF a = n THEN To(b, set_size(u)) ELSE <<>>
    BY <1>4
  <1>6. Streams /\ \A a \in Device : \A b \in Up[a] : Flow(a, b, 0, f[a][b])
    BY <1>2, <1>3, <1>5, StreamsIf, SendFlow
  <1>7. ASSUME NEW a \in Device, NEW b \in Up[a], NEW j \in 1..Len(f[a][b])
        PROVE  ~Live(f[a][b][j].packet)
    <2>1. PICK w : w = f[a][b]
      OBVIOUS
    <2>2. CASE a = n
      <3>1. w = To(b, set_size(u)) /\ b \in Node
        BY <1>5, <2>1, <2>2, ReportsAssumption DEF Node
      <3>2. IsOnto(w, b, u)
        BY <1>3, <3>1, SendingIs
      <3>3. j \in 1..Len(u) /\ w[j].packet = Onto(b, LogPacket)
        BY <1>3, <1>7, <2>1, <3>2 DEF IsOnto
      <3>4. w[j].packet = LogPacket
        BY <1>3, <3>3 DEF Onto, Live
      <3>. QED BY <1>3, <2>1, <3>4 DEF Live
    <2>3. CASE a # n
      <3>1. w = <<>>
        BY <1>5, <2>1, <2>3
      <3>. QED BY <1>7, <2>1, <3>1
    <2>. QED BY <2>2, <2>3
  <1>8. /\ \A a, b, i, c : UnitHolds(a, b, i, c)' =>
              \/ UnitHolds(a, b, i, c)
              \/ /\ a \in Device /\ b \in Up[a]
                 /\ \E j \in 1..Len(f[a][b]) : /\ i = Len(stream[a][b]) + j
                                               /\ Live(f[a][b][j].packet)
                                               /\ c = Copy(f[a][b][j].packet)
        /\ \A a, b, i, c : UnitHolds(a, b, i, c) => UnitHolds(a, b, i, c)'
    BY <1>6, OnUnits
  <1>9. \A a, b, i, c : UnitHolds(a, b, i, c)' <=> UnitHolds(a, b, i, c)
    BY <1>7, <1>8
  <1>10. ASSUME NEW s, NEW p, NEW c PROVE JobHolds(s, p, c)' <=> JobHolds(s, p, c)
    BY <1>2 DEF JobHolds, Copy, Longer
  <1>11. ASSUME NEW x, NEW c PROVE ArrivedHolds(x, c)' <=> ArrivedHolds(x, c)
    BY <1>2 DEF ArrivedHolds, Copy
  <1>12. ASSUME NEW q, NEW c PROVE Holds(q, c)' <=> Holds(q, c)
    BY <1>9, <1>10, <1>11 DEF Holds, UnitSlot, JobSlot, ArrivedSlot
  <1>. QED BY <1>2, <1>12, PassesIf

\* The copies of a new report are the only ones of it.
LEMMA SendMeshTopoPasses ==
  ASSUME ReportsInv, NEW n \in Device, send_mesh_topo(n)
  PROVE  /\ PassesOn
         /\ reports' = [reports EXCEPT ![n] = reports[n] + 1]
         /\ \A p \in Up[n] : \A c :
              c = [src |-> n, num |-> reports[n] + 1, path |-> Append(<<n>>, p)] => Placed(c)'
  <1>1. PICK num : num = reports[n] + 1
    OBVIOUS
  <1>2. PICK t : t = <<n, Main>>
    OBVIOUS
  <1>3. PICK r : r = Report("TO_PARENT_TO_ROOT", n, None, num, <<n>>)
    OBVIOUS
  <1>4. PICK j : j = [step |-> 1, report |-> r, todo |-> Up[n]]
    OBVIOUS
  <1>5. PICK d : d = [src |-> n, num |-> num, path |-> <<n>>]
    OBVIOUS
  <1>6. /\ reports' = [reports EXCEPT ![n] = num] /\ job' = [job EXCEPT ![t] = j]
        /\ UNCHANGED <<stream, arrived, lost>>
    BY <1>1, <1>2, <1>3, <1>4 DEF send_mesh_topo
  <1>7. t \in Threads /\ DOMAIN job = Threads /\ job[t].todo = {}
    <2>1. t \in Threads /\ DOMAIN job = Threads
      BY <1>2 DEF Threads, ReportsInv
    <2>2. JobGood(t) /\ job[t] \in Jobs
      BY <2>1 DEF ReportsInv, JobGood
    <2>3. job[t].step = 0
      BY <1>2, <2>2, AtIs DEF send_mesh_topo
    <2>. QED BY <2>1, <2>2, <2>3, NoReportIs DEF JobGood
  <1>8. d \in CopySet /\ d.src = n /\ d.num = num
    <2>1. num \in Nat
      BY <1>1 DEF ReportsInv
    <2>2. <<n>> \in Seq(Node)
      BY DEF Node
    <2>. QED BY <1>5, <2>1, <2>2 DEF CopySet
  <1>9. r.ok /\ Copy(r) = d
    BY <1>3, <1>5 DEF Report, Copy
  <1>10. job'[t].report = r /\ job'[t].todo = Up[n]
    BY <1>4, <1>6, <1>7
  <1>11. \A s \in Threads : s # t => job'[s] = job[s]
    BY <1>6, <1>7
  <1>12. \A p \in Up[n] : p \in Node
    BY ReportsAssumption DEF Node
  <1>13. ASSUME NEW s, NEW p, NEW c
         PROVE  /\ JobHolds(s, p, c)' <=> \/ JobHolds(s, p, c)
                                          \/ s = t /\ p \in Up[n] /\ c = Longer(d, p)
                /\ s = t => ~JobHolds(s, p, c)
    <2>1. CASE s = t
      BY <1>7, <1>9, <1>10, <2>1 DEF JobHolds, Copy, Longer
    <2>2. CASE s # t
      BY <1>11, <2>2 DEF JobHolds, Copy, Longer
    <2>. QED BY <2>1, <2>2
  <1>14. ASSUME NEW a, NEW b, NEW i, NEW c PROVE UnitHolds(a, b, i, c)' <=> UnitHolds(a, b, i, c)
    BY <1>6 DEF UnitHolds, Live, IsLog, Copy
  <1>15. ASSUME NEW x, NEW c PROVE ArrivedHolds(x, c)' <=> ArrivedHolds(x, c)
    BY <1>6 DEF ArrivedHolds, Copy
  <1>16. ASSUME NEW q, NEW c
         PROVE  Holds(q, c)' <=> \/ Holds(q, c)
                                 \/ \E p \in Up[n] : q = JobSlot(t, p) /\ c = Longer(d, p)
    <2>1. ASSUME Holds(q, c)'
          PROVE  Holds(q, c) \/ \E p \in Up[n] : q = JobSlot(t, p) /\ c = Longer(d, p)
      BY <1>13, <1>14, <1>15, <2>1 DEF Holds
    <2>2. ASSUME Holds(q, c) PROVE Holds(q, c)'
      BY <1>13, <1>14, <1>15, <2>2 DEF Holds
    <2>3. ASSUME NEW p \in Up[n], q = JobSlot(t, p), c = Longer(d, p) PROVE Holds(q, c)'
      <3>1. JobHolds(t, p, c)'
        BY <1>13, <2>3
      <3>. QED BY <2>3, <3>1 DEF Holds
    <2>. QED BY <2>1, <2>2, <2>3
  <1>17. ASSUME NEW q, NEW c, Holds(q, c), NEW p \in Up[n]
         PROVE  ~Related(c, Longer(d, p)) /\ ~Related(Longer(d, p), c)
    <2>1. c \in CopySet /\ c.num \in 1..reports[c.src]
      BY <1>17, HeldCopy
    <2>2. Longer(d, p).src = n /\ Longer(d, p).num = num
      BY <1>8, <1>12, LongerIs
    <2>3. reports[n] \in Nat
      BY DEF ReportsInv
    <2>. QED BY <1>1, <2>1, <2>2, <2>3 DEF Related
  <1>18. OneEach => OneEach'
    <2>. SUFFICES ASSUME OneEach PROVE OneEach'
      OBVIOUS
    <2>1. ASSUME NEW q, NEW s, NEW c, NEW e, Holds(q, c)', Holds(s, e)', Related(c, e)
          PROVE  q = s
      <3>1. CASE Holds(q, c) /\ Holds(s, e)
        BY <2>1, <3>1 DEF OneEach
      <3>2. CASE Holds(q, c) /\ ~Holds(s, e)
        BY <1>16, <1>17, <2>1, <3>2
      <3>3. CASE ~Holds(q, c) /\ Holds(s, e)
        BY <1>16, <1>17, <2>1, <3>3
      <3>4. CASE ~Holds(q, c) /\ ~Holds(s, e)
        <4>1. PICK a \in Up[n] : q = JobSlot(t, a) /\ c = Longer(d, a)
          BY <1>16, <2>1, <3>4
        <4>2. PICK b \in Up[n] : s = JobSlot(t, b) /\ e = Longer(d, b)
          BY <1>16, <2>1, <3>4
        <4>3. a = b
          BY <1>8, <1>12, <2>1, <4>1, <4>2, Forks
        <4>. QED BY <4>1, <4>2, <4>3
      <3>. QED BY <3>1, <3>2, <3>3, <3>4
    <2>. QED BY <2>1 DEF OneEach, Related, IsPrefix
  <1>19. ASSUME NEW c, Placed(c) PROVE Placed(c)'
    <2>1. CASE c \in lost
      BY <1>6, <2>1 DEF Placed
    <2>2. ASSUME NEW q, Holds(q, c) PROVE Placed(c)'
      <3>1. Holds(q, c)'
        BY <1>16, <2>2
      <3>. QED BY <3>1 DEF Placed
    <2>. QED BY <1>19, <2>1, <2>2 DEF Placed
  <1>20. ASSUME NEW p \in Up[n], NEW c,
                c = [src |-> n, num |-> reports[n] + 1, path |-> Append(<<n>>, p)]
         PROVE  Placed(c)'
    <2>1. c = Longer(d, p)
      BY <1>1, <1>5, <1>20 DEF Longer
    <2>2. PICK q : q = JobSlot(t, p)
      OBVIOUS
    <2>3. Holds(q, c)'
      BY <1>16, <2>1, <2>2
    <2>. QED BY <2>3 DEF Placed
  <1>21. PassesOn
    BY <1>18, <1>19 DEF PassesOn
  <1>. QED BY <1>1, <1>6, <1>20, <1>21

LEMMA NextPasses ==
  ASSUME ReportsInv, [Next]_vars
  PROVE  /\ PassesOn
         /\ \/ UNCHANGED reports
            \/ \E n \in Device :
                 /\ reports' = [reports EXCEPT ![n] = reports[n] + 1]
                 /\ \A p \in Up[n] : \A c :
                      c = [src |-> n, num |-> reports[n] + 1, path |-> Append(<<n>>, p)]
                        => Placed(c)'
  <1>1. ASSUME NEW n \in Device, send_mesh_topo(n)
        PROVE  /\ PassesOn
               /\ reports' = [reports EXCEPT ![n] = reports[n] + 1]
               /\ \A p \in Up[n] : \A c :
                    c = [src |-> n, num |-> reports[n] + 1, path |-> Append(<<n>>, p)]
                      => Placed(c)'
    BY <1>1, SendMeshTopoPasses
  <1>2. ASSUME NEW n \in Device, send_log_packet(n) PROVE PassesOn /\ UNCHANGED reports
    BY <1>2, SendLogPasses DEF send_log_packet
  <1>3. ASSUME NEW n \in Device, ServerReads(n) PROVE PassesOn /\ UNCHANGED reports
    BY <1>3, ServerReadsPasses DEF ServerReads
  <1>4. ASSUME NEW n \in Device, NEW m \in Children(n), NEW k \in 1..MaxRead,
               ReadMiddle(n, m, k)
        PROVE  PassesOn /\ UNCHANGED reports
    BY <1>4, ReadMiddlePasses DEF ReadMiddle
  <1>5. ASSUME NEW n \in Device, NEW m \in Children(n), NEW k \in 1..MaxRead,
               ReadToRoot(n, m, k)
        PROVE  PassesOn /\ UNCHANGED reports
    BY <1>5, ReadToRootPasses DEF ReadToRoot
  <1>6. ASSUME NEW n \in Device, NEW m \in Children(n), NEW k \in 1..MaxRead,
               ReadToParent(n, m, k)
        PROVE  PassesOn /\ UNCHANGED reports
    BY <1>6, ReadToParentPasses DEF ReadToParent
  <1>7. ASSUME NEW t \in Threads, Thread(t) PROVE PassesOn /\ UNCHANGED reports
    <2>1. CASE Header(t) \/ Body(t) \/ Sent(t)
      BY <2>1, ThreadPasses DEF Header, Body, Sent
    <2>2. ASSUME NEW p \in job[t].todo, SendTo(t, p) PROVE PassesOn /\ UNCHANGED reports
      BY <2>2, SendToPasses DEF SendTo
    <2>. QED BY <1>7, <2>1, <2>2 DEF Thread
  <1>8. CASE UNCHANGED vars
    <2>1. UNCHANGED <<stream, arrived, lost, job, reports>>
      BY <1>8 DEF vars
    <2>2. \A s \in Threads : /\ job'[s].todo = job[s].todo
                             /\ job[s].todo # {} => job'[s].report = job[s].report
      BY <2>1
    <2>. QED BY <2>1, <2>2, JobPasses
  <1>. QED BY <1>1, <1>2, <1>3, <1>4, <1>5, <1>6, <1>7, <1>8 DEF Next

---------------------------------------------------------------------------
(* Where the properties look for the copies.                               *)

LEMMA CopiesAre ==
  ASSUME ReportsInv, NEW c
  PROVE  /\ c \in Copies(OnTheWay) <=> \E n, p, i : UnitHolds(n, p, i, c)
         /\ c \in Copies(arrived) <=> \E r : ArrivedHolds(r, c)
         /\ c \in ToSend <=> \E t, p : JobHolds(t, p, c)
  <1>1. ASSUME c \in Copies(OnTheWay) PROVE \E n, p, i : UnitHolds(n, p, i, c)
    <2>1. PICK r \in OnTheWay : Live(r) /\ c = Copy(r)
      BY <1>1 DEF Copies, Good, Live
    <2>2. PICK n \in Device : \E p \in Up[n] : r \in In(stream[n][p])
      BY DEF OnTheWay
    <2>3. PICK p \in Up[n] : r \in In(stream[n][p])
      BY <2>2
    <2>4. PICK i \in 1..Len(stream[n][p]) : r = stream[n][p][i].packet
      BY <2>3 DEF In
    <2>5. UnitHolds(n, p, i, c)
      BY <2>1, <2>4 DEF UnitHolds
    <2>. QED BY <2>5
  <1>2. ASSUME NEW n, NEW p, NEW i, UnitHolds(n, p, i, c) PROVE c \in Copies(OnTheWay)
    <2>1. PICK r : r = stream[n][p][i].packet
      OBVIOUS
    <2>2. /\ n \in Device /\ p \in Up[n] /\ i \in 1..Len(stream[n][p])
          /\ Live(r) /\ c = Copy(r)
      BY <1>2, <2>1 DEF UnitHolds
    <2>3. stream[n][p][i].idx = 1
      <3>1. UnitGood(p, stream[n][p][i])
        BY <2>2 DEF ReportsInv, StreamGood
      <3>. QED BY <2>1, <2>2, <3>1 DEF UnitGood, Live
    <2>4. r \in In(stream[n][p])
      BY <2>1, <2>2, <2>3 DEF In
    <2>5. r \in OnTheWay
      BY <2>2, <2>4 DEF OnTheWay
    <2>. QED BY <2>2, <2>5 DEF Copies, Good, Live
  <1>3. c \in Copies(arrived) <=> \E r : ArrivedHolds(r, c)
    <2>1. \A r \in arrived : ~IsLog(r)
      BY DEF ReportsInv, ArrivedGood
    <2>. QED BY <2>1 DEF Copies, Good, ArrivedHolds
  <1>4. ASSUME c \in ToSend PROVE \E t, p : JobHolds(t, p, c)
    <2>1. PICK t \in {s \in Threads : job[s].report.ok} :
                 c \in {[Copy(job[t].report) EXCEPT !.path = Append(@, p)] : p \in job[t].todo}
      BY <1>4 DEF ToSend
    <2>2. PICK p \in job[t].todo : c = [Copy(job[t].report) EXCEPT !.path = Append(@, p)]
      BY <2>1
    <2>3. JobHolds(t, p, c)
      BY <2>1, <2>2 DEF JobHolds, Longer
    <2>. QED BY <2>3
  <1>5. ASSUME NEW t, NEW p, JobHolds(t, p, c) PROVE c \in ToSend
    <2>1. t \in {s \in Threads : job[s].report.ok}
      BY <1>5 DEF JobHolds
    <2>2. c \in {[Copy(job[t].report) EXCEPT !.path = Append(@, a)] : a \in job[t].todo}
      BY <1>5 DEF JobHolds, Longer
    <2>. QED BY <2>1, <2>2 DEF ToSend
  <1>. QED BY <1>1, <1>2, <1>3, <1>4, <1>5

LEMMA CopiesUnion ==
  ASSUME NEW R, NEW T
  PROVE  Copies(R \cup T) = Copies(R) \cup Copies(T)
  BY DEF Copies, Good

LEMMA NoneHeld ==
  ASSUME Init, NEW q, NEW c
  PROVE  ~Holds(q, c)
  <1>1. ASSUME NEW n, NEW p, NEW i PROVE ~UnitHolds(n, p, i, c)
    <2>1. ASSUME n \in Device, p \in Up[n] PROVE Len(stream[n][p]) = 0
      <3>1. stream[n][p] = <<>>
        BY <2>1 DEF Init
      <3>. QED BY <3>1
    <2>. QED BY <2>1 DEF UnitHolds
  <1>2. ASSUME NEW t, NEW p PROVE ~JobHolds(t, p, c)
    BY NoReportIs DEF JobHolds, Init
  <1>3. ASSUME NEW r PROVE ~ArrivedHolds(r, c)
    BY DEF ArrivedHolds, Init
  <1>. QED BY <1>1, <1>2, <1>3 DEF Holds

THEOREM OneEachAlways == Spec => []OneEach
  <1>1. Init => OneEach
    BY NoneHeld DEF OneEach
  <1>2. ReportsInv /\ OneEach /\ [Next]_vars => OneEach'
    BY NextPasses DEF PassesOn
  <1>. QED BY <1>1, <1>2, ReportsInvariant, PTL DEF Spec

\* Whatever the mesh, its links and the reads, no copy of a report is in two
\* places: not on the way while it has arrived, nor waiting in a thread while it
\* is on the way - though devices send each report to all of their parents.
THEOREM NothingTwice == Spec => []NotTwice
  <1>1. ReportsInv /\ OneEach => NotTwice
    <2>. SUFFICES ASSUME ReportsInv, OneEach PROVE NotTwice
      OBVIOUS
    <2>1. ASSUME NEW c, NEW q, NEW s, Holds(q, c), Holds(s, c) PROVE q = s
      <3>1. Related(c, c)
        BY <2>1, HeldCopy, RelatedIs
      <3>. QED BY <2>1, <3>1 DEF OneEach
    <2>2. ASSUME NEW c, c \in Copies(OnTheWay), c \in Copies(arrived) PROVE FALSE
      <3>1. PICK n, p, i : UnitHolds(n, p, i, c)
        BY <2>2, CopiesAre
      <3>2. PICK r : ArrivedHolds(r, c)
        BY <2>2, CopiesAre
      <3>3. UnitSlot(n, p, i) = ArrivedSlot(r)
        BY <2>1, <3>1, <3>2, SlotIs
      <3>. QED BY <3>3, SlotsDiffer
    <2>3. ASSUME NEW c, c \in ToSend, c \in Copies(OnTheWay) PROVE FALSE
      <3>1. PICK n, p, i : UnitHolds(n, p, i, c)
        BY <2>3, CopiesAre
      <3>2. PICK t, b : JobHolds(t, b, c)
        BY <2>3, CopiesAre
      <3>3. UnitSlot(n, p, i) = JobSlot(t, b)
        BY <2>1, <3>1, <3>2, SlotIs
      <3>. QED BY <3>3, SlotsDiffer
    <2>4. ASSUME NEW c, c \in ToSend, c \in Copies(arrived) PROVE FALSE
      <3>1. PICK t, b : JobHolds(t, b, c)
        BY <2>4, CopiesAre
      <3>2. PICK r : ArrivedHolds(r, c)
        BY <2>4, CopiesAre
      <3>3. JobSlot(t, b) = ArrivedSlot(r)
        BY <2>1, <3>1, <3>2, SlotIs
      <3>. QED BY <3>3, SlotsDiffer
    <2>. QED BY <2>2, <2>3, <2>4, CopiesUnion DEF NotTwice
  <1>. QED BY <1>1, OneEachAlways, ReportsInvariant, PTL

---------------------------------------------------------------------------
(* Every report is accounted for on every way to the root.                 *)

RootWay(s) == /\ s \in Seq(Node) /\ IsWay(s) /\ Len(s) >= 2
              /\ s[1] \in Device /\ s[Len(s)] = Root

\* A copy of the report num that has come part of the way s, or all of it.
CopyOn(c, s, num) == c.src = s[1] /\ c.num = num /\ IsPrefix(c.path, s)

AccountedOn(s) == \A num \in 1..reports[s[1]] : \E c : Placed(c) /\ CopyOn(c, s, num)

AllAccounted == \A s : RootWay(s) => AccountedOn(s)

\* A copy that has come part of the way s to a device has gone on to the next.
LEMMA GoesOn ==
  ASSUME NEW s, RootWay(s), NEW num, NEW c, Spread(c), CopyOn(c, s, num)
  PROVE  \E e : Placed(e)' /\ CopyOn(e, s, num)
  <1>1. PICK L : L = Len(c.path)
    OBVIOUS
  <1>2. /\ c \in CopySet /\ c.path \in Seq(Node) /\ L \in Nat /\ L >= 1 /\ c.path[L] \in Device
        /\ \A p \in Up[c.path[L]] : Placed(Longer(c, p))'
    BY <1>1 DEF Spread, CopySet
  <1>3. s \in Seq(Node) /\ Len(s) \in Nat /\ IsWay(s) /\ s[Len(s)] = Root
    BY DEF RootWay
  <1>4. L <= Len(s) /\ \A i \in 1..L : c.path[i] = s[i]
    BY <1>1, <1>2, <1>3, PrefixIs DEF CopyOn
  <1>5. L < Len(s)
    <2>1. s[L] \in Device
      BY <1>2, <1>4
    <2>2. L # Len(s)
      BY <1>3, <2>1, ReportsAssumption
    <2>. QED BY <1>2, <1>3, <1>4, <2>2
  <1>6. PICK p : p = s[L + 1]
    OBVIOUS
  <1>7. p \in Up[c.path[L]] /\ p \in Node
    <2>1. L \in 1..Len(s) - 1 /\ L \in 1..L
      BY <1>2, <1>3, <1>5
    <2>2. p \in Up[c.path[L]]
      BY <1>3, <1>4, <1>6, <2>1 DEF IsWay
    <2>. QED BY <1>2, <2>2, ReportsAssumption DEF Node
  <1>8. PICK e : e = Longer(c, p)
    OBVIOUS
  <1>9. Placed(e)'
    BY <1>2, <1>7, <1>8
  <1>10. /\ e.src = c.src /\ e.num = c.num /\ e.path \in Seq(Node) /\ Len(e.path) = L + 1
         /\ e.path[L + 1] = p /\ \A i \in 1..L : e.path[i] = c.path[i]
    BY <1>1, <1>2, <1>7, <1>8, LongerIs DEF CopySet
  <1>11. Len(e.path) <= Len(s) /\ \A i \in 1..Len(e.path) : e.path[i] = s[i]
    <2>1. Len(e.path) <= Len(s)
      BY <1>2, <1>3, <1>5, <1>10
    <2>2. ASSUME NEW i \in 1..Len(e.path) PROVE e.path[i] = s[i]
      <3>1. CASE i = L + 1
        BY <1>6, <1>10, <3>1
      <3>2. CASE i # L + 1
        <4>1. i \in 1..L
          BY <1>2, <1>10, <3>2
        <4>. QED BY <1>4, <1>10, <4>1
      <3>. QED BY <3>1, <3>2
    <2>. QED BY <2>1, <2>2
  <1>12. CopyOn(e, s, num)
    <2>1. IsPrefix(e.path, s)
      BY <1>3, <1>10, <1>11, PrefixIs
    <2>. QED BY <1>10, <2>1 DEF CopyOn
  <1>. QED BY <1>9, <1>12

\* The first step of a new report on the way s.
LEMMA SetsOut ==
  ASSUME NEW s, RootWay(s), NEW num, NEW c,
         c = [src |-> s[1], num |-> num, path |-> Append(<<s[1]>>, s[2])]
  PROVE  s[2] \in Up[s[1]] /\ CopyOn(c, s, num)
  <1>1. s \in Seq(Node) /\ Len(s) \in Nat /\ Len(s) >= 2 /\ IsWay(s)
    BY DEF RootWay
  <1>2. s[2] \in Up[s[1]]
    <2>1. 1 \in 1..Len(s) - 1 /\ 1 + 1 = 2
      BY <1>1
    <2>. QED BY <1>1, <2>1 DEF IsWay
  <1>3. PICK a, b : a = s[1] /\ b = s[2]
    OBVIOUS
  <1>4. a \in Node /\ b \in Node
    <2>1. 1 \in 1..Len(s) /\ 2 \in 1..Len(s)
      BY <1>1
    <2>. QED BY <1>1, <1>3, <2>1, ElementOfSeq
  <1>5. PICK z : z = Append(<<a>>, b)
    OBVIOUS
  <1>6. z \in Seq(Node) /\ Len(z) = 2 /\ z[1] = a /\ z[2] = b
    BY <1>4, <1>5
  <1>7. \A i \in 1..Len(z) : z[i] = s[i]
    BY <1>3, <1>6
  <1>8. IsPrefix(z, s)
    BY <1>1, <1>6, <1>7, PrefixIs
  <1>9. c.src = s[1] /\ c.num = num /\ c.path = z
    BY <1>3, <1>5
  <1>. QED BY <1>2, <1>8, <1>9 DEF CopyOn

LEMMA AccountedNext ==
  ASSUME ReportsInv, AllAccounted, [Next]_vars
  PROVE  AllAccounted'
  <1>1. ASSUME NEW s, RootWay(s), NEW num \in 1..reports[s[1]]
        PROVE  \E c : Placed(c)' /\ CopyOn(c, s, num)
    <2>1. PICK c : Placed(c) /\ CopyOn(c, s, num)
      BY <1>1 DEF AllAccounted, AccountedOn
    <2>2. Placed(c)' \/ Spread(c)
      BY <2>1, NextPasses DEF PassesOn
    <2>. QED BY <1>1, <2>1, <2>2, GoesOn
  <1>2. ASSUME NEW s, RootWay(s), NEW num \in 1..reports'[s[1]]
        PROVE  \E c : Placed(c)' /\ CopyOn(c, s, num)
    <2>1. CASE num \in 1..reports[s[1]]
      BY <1>1, <1>2, <2>1
    <2>2. CASE num \notin 1..reports[s[1]]
      <3>1. PICK n \in Device :
                 /\ reports' = [reports EXCEPT ![n] = reports[n] + 1]
                 /\ \A p \in Up[n] : \A c :
                      c = [src |-> n, num |-> reports[n] + 1, path |-> Append(<<n>>, p)]
                        => Placed(c)'
        BY <2>2, NextPasses
      <3>2. s[1] \in Device /\ reports \in [Device -> Nat]
        BY <1>2 DEF RootWay, ReportsInv
      <3>3. s[1] = n /\ num = reports[n] + 1
        BY <2>2, <3>1, <3>2
      <3>4. PICK c : c = [src |-> s[1], num |-> num, path |-> Append(<<s[1]>>, s[2])]
        OBVIOUS
      <3>5. s[2] \in Up[s[1]] /\ CopyOn(c, s, num)
        BY <1>2, <3>4, SetsOut
      <3>6. Placed(c)'
        BY <3>1, <3>3, <3>4, <3>5
      <3>. QED BY <3>5, <3>6
    <2>. QED BY <2>1, <2>2
  <1>. QED BY <1>2 DEF AllAccounted, AccountedOn, RootWay, CopyOn, IsWay, IsPrefix

LEMMA RootPathsAre ==
  ASSUME NEW s \in RootPaths
  PROVE  RootWay(s)
  <1>1. PICK w \in Ways : s = Append(w, Root) /\ IsWay(s)
    BY DEF RootPaths
  <1>2. PICK k \in 1..Cardinality(Device) : w \in [1..k -> Device]
    BY DEF Ways
  <1>3. k \in Nat /\ k >= 1
    OBVIOUS
  <1>4. w \in Seq(Device) /\ Len(w) = k
    BY <1>2, <1>3, FunctionIsSeq
  <1>5. w \in Seq(Node) /\ Root \in Node
    <2>1. Device \subseteq Node
      BY DEF Node
    <2>. QED BY <1>4, <2>1 DEF Node
  <1>6. /\ s \in Seq(Node) /\ Len(s) = k + 1 /\ s[k + 1] = Root /\ s[1] = w[1]
    BY <1>1, <1>3, <1>4, <1>5
  <1>7. s[1] \in Device
    BY <1>2, <1>3, <1>6
  <1>. QED BY <1>1, <1>3, <1>6, <1>7 DEF RootWay

\* However the threads of the devices and the links between them take turns, in
\* any mesh a report is never lost without a trace: on each way to the root it
\* has arrived, is under way, waits to be sent, or was lost to the shared buffer
\* or to a read that cut or glued packets.
THEOREM NothingUnaccounted == Spec => []Accounted
  <1>1. Init => AllAccounted
    <2>. SUFFICES ASSUME Init PROVE AllAccounted
      OBVIOUS
    <2>1. ASSUME NEW s, RootWay(s) PROVE reports[s[1]] = 0
      BY <2>1 DEF Init, RootWay
    <2>. QED BY <2>1 DEF AllAccounted, AccountedOn
  <1>2. ReportsInv /\ AllAccounted /\ [Next]_vars => AllAccounted'
    BY AccountedNext
  <1>3. ReportsInv /\ AllAccounted => Accounted
    <2>. SUFFICES ASSUME ReportsInv, AllAccounted PROVE Accounted
      OBVIOUS
    <2>1. ASSUME NEW c, Placed(c)
          PROVE  c \in Copies(OnTheWay \cup arrived) \cup ToSend \cup lost
      BY <2>1, CopiesAre, CopiesUnion DEF Placed, Holds
    <2>2. ASSUME NEW s \in RootPaths, NEW num \in 1..reports[s[1]]
          PROVE  \E c \in Copies(OnTheWay \cup arrived) \cup ToSend \cup lost :
                   c.src = s[1] /\ c.num = num /\ IsPrefix(c.path, s)
      <3>1. PICK c : Placed(c) /\ CopyOn(c, s, num)
        BY <2>2, RootPathsAre DEF AllAccounted, AccountedOn
      <3>. QED BY <2>1, <3>1 DEF CopyOn
    <2>. QED BY <2>2 DEF Accounted
  <1>. QED BY <1>1, <1>2, <1>3, ReportsInvariant, PTL DEF Spec

---------------------------------------------------------------------------
(* TaskLooper, for a clock of any width and any periods.                   *)

\* What relates next_ts and the clock to the last call: as long as the clock
\* has not wrapped around it shows the time of the call plus the age.
LooperInv ==
  /\ LooperTypeOK
  /\ mode = "stopped" => next_ts = Stopped
  /\ mode = "armed" => remHw /\ next_ts = Wrap(at + wait)
  /\ mode = "armed" /\ at + age < Width => clock = at + age

\* An unsigned sum of two times stays a time.
LEMMA WrapIsTime ==
  ASSUME NEW t \in Clock, NEW d \in Clock
  PROVE  Wrap(t + d) \in Clock
  BY LooperAssumption DEF Wrap, Clock

\* An armed looper has the deadline it was asked for.
LEMMA ArmKeeps ==
  ASSUME LooperInv, NEW t \in Clock, NEW d \in Clock, Arm(t, d)
  PROVE  /\ next_ts' \in Clock /\ mode' = "armed" /\ at' = t /\ wait' = d /\ age' = 0
         /\ next_ts' = Wrap(at' + wait')
  BY WrapIsTime DEF Arm

LEMMA LooperInitInv == LooperInit => LooperInv
  <1>0. 0 \in Clock /\ Stopped \in Clock /\ 0 \in 0..MaxAge
    BY LooperAssumption DEF Clock, Stopped
  <1>1. LooperInit => LooperTypeOK
    BY <1>0 DEF LooperInit, LooperTypeOK
  <1>. QED BY <1>1 DEF LooperInv, LooperInit, Stopped

\* A call of the owner keeps the invariant: it arms the looper at the clock, or
\* stops it.
LEMMA CallKeeps ==
  ASSUME LooperInv, clock' = clock, turn' = turn, remHw' \in BOOLEAN,
         tl_interval' \in Interval,
         \/ remHw' /\ \E d \in Interval \cup {0} : Arm(clock, d)
         \/ Disarm
  PROVE  LooperInv'
  <1>0. 0 \in Clock /\ Stopped \in Clock /\ Interval \subseteq Clock
    BY LooperAssumption DEF Clock, Stopped
  <1>1. CASE remHw' /\ \E d \in Interval \cup {0} : Arm(clock, d)
    <2>1. PICK d \in Clock : Arm(clock, d)
      BY <1>0, <1>1
    <2>2. /\ next_ts' \in Clock /\ mode' = "armed" /\ at' = clock /\ wait' = d /\ age' = 0
          /\ next_ts' = Wrap(at' + wait')
      BY <2>1, ArmKeeps DEF LooperInv, LooperTypeOK
    <2>3. LooperTypeOK'
      BY <2>2, LooperAssumption DEF LooperInv, LooperTypeOK
    <2>4. clock' = at' + age'
      BY <2>2, LooperAssumption DEF LooperInv, LooperTypeOK, Clock
    <2>. QED BY <1>1, <2>2, <2>3, <2>4 DEF LooperInv
  <1>2. CASE Disarm
    <2>1. LooperTypeOK'
      BY <1>0, <1>2 DEF Disarm, LooperInv, LooperTypeOK
    <2>. QED BY <1>2, <2>1 DEF Disarm, LooperInv, Stopped
  <1>. QED BY <1>1, <1>2

\* The invariant is inductive.
LEMMA LooperNextInv == LooperInv /\ [LooperNext]_looper_vars => LooperInv'
  <1>. SUFFICES ASSUME LooperInv, [LooperNext]_looper_vars PROVE LooperInv'
    OBVIOUS
  <1>0. 0 \in Clock /\ 0..MaxPause \subseteq Clock /\ Interval \subseteq Clock
    BY LooperAssumption DEF Clock
  <1>1. CASE Fires
    <2>1. PICK d \in 0..MaxPause : Fire(d)
      BY <1>1 DEF Fires
    <2>2. clock' \in Clock /\ tl_interval \in Clock
      BY <1>0, <2>1, WrapIsTime DEF Fire, LooperInv, LooperTypeOK
    <2>3. /\ next_ts' \in Clock /\ mode' = "armed" /\ at' = clock'
          /\ wait' = tl_interval /\ age' = 0 /\ next_ts' = Wrap(at' + wait')
      BY <2>1, <2>2, ArmKeeps DEF Fire
    <2>4. LooperTypeOK'
      BY <2>1, <2>2, <2>3, LooperAssumption DEF Fire, LooperInv, LooperTypeOK
    <2>5. remHw' /\ clock' = at' + age'
      BY <2>1, <2>2, <2>3 DEF Fire, due, LooperInv, LooperTypeOK, Clock
    <2>. QED BY <2>3, <2>4, <2>5 DEF LooperInv
  <1>2. CASE Quiet
    BY <1>2 DEF Quiet, LooperInv, LooperTypeOK, Stopped, Wrap, Clock
  <1>3. ASSUME NEW d \in 1..MaxPause, Sleep(d) PROVE LooperInv'
    <2>1. clock' \in Clock
      BY <1>0, <1>3, WrapIsTime DEF Sleep, LooperInv, LooperTypeOK
    <2>2. age' \in 0..MaxAge
      BY <1>3, LooperAssumption DEF Sleep, Older, LooperInv, LooperTypeOK
    <2>3. LooperTypeOK'
      BY <1>3, <2>1, <2>2 DEF Sleep, LooperInv, LooperTypeOK
    <2>4. ASSUME mode = "armed", at + age' < Width PROVE clock' = at + age'
      <3>1. age' = age + d
        BY <1>3, <2>4, LooperAssumption DEF Sleep, Older, LooperInv, LooperTypeOK, Clock
      <3>2. clock = at + age
        BY <1>3, <2>4, <3>1, LooperAssumption DEF LooperInv, LooperTypeOK, Clock
      <3>. QED
        BY <1>3, <2>4, <3>1, <3>2, LooperAssumption DEF Sleep, Wrap, LooperInv, LooperTypeOK, Clock
    <2>. QED BY <1>3, <2>3, <2>4 DEF Sleep, LooperInv
  <1>4. CASE begin
    BY <1>4, CallKeeps, LooperAssumption DEF begin
  <1>5. CASE now
    BY <1>5, CallKeeps DEF now, LooperInv, LooperTypeOK
  <1>6. CASE stop
    BY <1>6, CallKeeps DEF stop, LooperInv, LooperTypeOK
  <1>7. ASSUME NEW milis \in Interval, set(milis) PROVE LooperInv'
    BY <1>7, CallKeeps DEF set, start, LooperInv, LooperTypeOK
  <1>8. CASE UNCHANGED looper_vars
    BY <1>8 DEF looper_vars, LooperInv, LooperTypeOK, Stopped, Wrap, Clock
  <1>. QED BY <1>1, <1>2, <1>3, <1>4, <1>5, <1>6, <1>7, <1>8 DEF LooperNext, Loop

\* The variables of the looper keep their types, next_ts and the clock stay
\* unsigned numbers of their width.
THEOREM LooperTypeCorrect == LooperSpec => []LooperTypeOK
  <1>1. LooperInv => LooperTypeOK
    BY DEF LooperInv
  <1>. QED BY <1>1, LooperInitInv, LooperNextInv, PTL DEF LooperSpec

\* A stopped looper never fires: no time is greater than next_ts = -1.
THEOREM StoppedStays == LooperSpec => StoppedNeverFires
  <1>1. LooperInv /\ Fires => mode = "armed"
    <2>. SUFFICES ASSUME LooperInv, Fires, mode = "stopped" PROVE FALSE
      BY DEF LooperInv, LooperTypeOK
    <2>1. clock > next_ts
      BY DEF Fires, Fire, due
    <2>. QED BY <2>1, LooperAssumption DEF LooperInv, LooperTypeOK, Stopped, Clock
  <1>2. LooperInv /\ [LooperNext]_looper_vars => [Fires => mode = "armed"]_looper_vars
    BY <1>1
  <1>. QED BY <1>2, LooperInitInv, LooperNextInv, PTL DEF LooperSpec, StoppedNeverFires

\* A looper fires before its period has passed only when the deadline wrapped
\* around.
THEOREM FiresInTime == LooperSpec => NotEarly
  <1>1. LooperInv /\ Fires => age > wait \/ DeadlineWrapped
    <2>. SUFFICES ASSUME LooperInv, Fires, ~DeadlineWrapped PROVE age > wait
      OBVIOUS
    <2>1. clock > next_ts
      BY DEF Fires, Fire, due
    <2>2. mode = "armed"
      BY <2>1, LooperAssumption DEF LooperInv, LooperTypeOK, Stopped, Clock
    <2>3. next_ts = at + wait
      BY <2>2, LooperAssumption DEF DeadlineWrapped, Wrap, LooperInv, LooperTypeOK, Clock
    <2>4. CASE at + age < Width
      BY <2>1, <2>2, <2>3, <2>4, LooperAssumption DEF LooperInv, LooperTypeOK, Clock
    <2>5. CASE at + age >= Width
      BY <2>5, LooperAssumption DEF DeadlineWrapped, LooperInv, LooperTypeOK, Clock
    <2>. QED BY <2>4, <2>5, LooperAssumption DEF LooperInv, LooperTypeOK, Clock
  <1>2. LooperInv /\ [LooperNext]_looper_vars => [Fires => age > wait \/ DeadlineWrapped]_looper_vars
    BY <1>1
  <1>. QED BY <1>2, LooperInitInv, LooperNextInv, PTL DEF LooperSpec, NotEarly

\* A check that is not true comes before the deadline, or the clock has wrapped
\* around since the looper was armed, or the deadline is 0.
THEOREM MissedOnlyAcrossWrap == LooperSpec => NotMissed
  <1>1. ASSUME LooperInv, Quiet, mode = "armed", ~ClockWrapped, next_ts # 0
        PROVE  age <= wait
    <2>1. clock = at + age
      BY <1>1, LooperAssumption DEF ClockWrapped, LooperInv, LooperTypeOK, Clock
    <2>2. clock <= next_ts
      BY <1>1, LooperAssumption DEF Quiet, due, LooperInv, LooperTypeOK, Clock
    <2>3. next_ts <= at + wait
      BY <1>1, LooperAssumption DEF Wrap, LooperInv, LooperTypeOK, Clock
    <2>. QED BY <2>1, <2>2, <2>3, <1>1, LooperAssumption DEF LooperInv, LooperTypeOK, Clock
  <1>2. LooperInv /\ [LooperNext]_looper_vars
          => [(Quiet /\ mode = "armed") => age <= wait \/ ClockWrapped \/ next_ts = 0]_looper_vars
    BY <1>1
  <1>. QED BY <1>2, LooperInitInv, LooperNextInv, PTL DEF LooperSpec, NotMissed

---------------------------------------------------------------------------
(* WiFiScanner, for any access points, signals and sizes.                  *)

\* What holds of 0, and of k if it holds of k - 1, holds up to n.
LEMMA Reaches ==
  ASSUME NEW n \in Nat, NEW S, 0 \in S, \A k \in 1..n : k - 1 \in S => k \in S
  PROVE  \A k \in 0..n : k \in S
  <1>. DEFINE F == {k \in 0..n : k \notin S}
  <1>. SUFFICES ASSUME F # {} PROVE FALSE
    OBVIOUS
  <1>1. PICK k \in F : \A l \in F : k <= l
    <2>1. F \in SUBSET Nat
      OBVIOUS
    <2>. HIDE DEF F
    <2>. QED BY <2>1, FirstExists
  <1>2. k \in 1..n /\ k - 1 \in 0..n /\ ~(k <= k - 1)
    BY <1>1
  <1>3. k - 1 \in S
    BY <1>1, <1>2
  <1>. QED BY <1>1, <1>2, <1>3

\* The values of a loop of n rounds, G[k] being what round k makes of the value
\* before it.
Loops(n, T, a, G, g) ==
  g \in [0..n -> T] /\ g[0] = a /\ \A k \in 1..n : g[k] = G[k][g[k - 1]]

LEMMA LoopExists ==
  ASSUME NEW n \in Nat, NEW T, NEW a \in T, NEW G, \A k \in 1..n : \A x \in T : G[k][x] \in T
  PROVE  \E g : Loops(n, T, a, G, g)
  <1>. DEFINE S == {m \in 0..n : \E g : Loops(m, T, a, G, g)}
  <1>1. 0 \in S
    <2>1. PICK g : g = [k \in 0..0 |-> a]
      OBVIOUS
    <2>2. Loops(0, T, a, G, g)
      BY <2>1 DEF Loops
    <2>. QED BY <2>2
  <1>2. ASSUME NEW m \in 1..n, m - 1 \in S PROVE m \in S
    <2>1. PICK g : Loops(m - 1, T, a, G, g)
      BY <1>2
    <2>2. PICK h : h = [k \in 0..m |-> IF k = m THEN G[m][g[m - 1]] ELSE g[k]]
      OBVIOUS
    <2>3. g[m - 1] \in T /\ h[m] = G[m][g[m - 1]] /\ h[m - 1] = g[m - 1]
      BY <2>1, <2>2 DEF Loops
    <2>4. h \in [0..m -> T]
      BY <2>1, <2>2, <2>3 DEF Loops
    <2>5. ASSUME NEW k \in 1..m PROVE h[k] = G[k][h[k - 1]]
      <3>1. CASE k = m
        BY <2>3, <3>1
      <3>2. CASE k # m
        <4>1. k \in 1..m - 1 /\ k \in 0..m /\ k - 1 \in 0..m /\ k - 1 # m
          BY <3>2
        <4>2. h[k] = g[k] /\ h[k - 1] = g[k - 1]
          BY <2>2, <4>1, <3>2
        <4>. QED BY <2>1, <4>1, <4>2 DEF Loops
      <3>. QED BY <3>1, <3>2
    <2>6. h[0] = a
      BY <2>1, <2>2 DEF Loops
    <2>7. Loops(m, T, a, G, h)
      BY <2>4, <2>5, <2>6 DEF Loops
    <2>. QED BY <2>7
  <1>3. n \in S
    <2>. HIDE DEF S
    <2>1. \A m \in 0..n : m \in S
      BY <1>1, <1>2, Reaches
    <2>. QED BY <2>1
  <1>. QED BY <1>3

\* The equation of the loop over the results.
IsKept(f, g) ==
  g = [k \in 0..Len(f) |->
         IF k = 0 THEN <<>>
         ELSE IF Len(g[k - 1]) < MaxIndexed /\ f[k] \in Valid
              THEN Append(g[k - 1], k)
              ELSE g[k - 1]]

LEMMA KeptExists ==
  ASSUME NEW f \in Seq(AP)
  PROVE  \E g \in [0..Len(f) -> Seq(1..Len(f))] : IsKept(f, g)
  <1>. DEFINE T == Seq(1..Len(f))
              G == [k \in 1..Len(f) |-> [x \in T |->
                      IF Len(x) < MaxIndexed /\ f[k] \in Valid THEN Append(x, k) ELSE x]]
  <1>1. Len(f) \in Nat /\ <<>> \in T
    OBVIOUS
  <1>2. ASSUME NEW k \in 1..Len(f), NEW x \in T PROVE G[k][x] \in T
    <2>1. Append(x, k) \in T
      BY AppendProperties
    <2>. QED BY <2>1
  <1>3. PICK g : Loops(Len(f), T, <<>>, G, g)
    <2>. HIDE DEF T, G
    <2>. QED BY <1>1, <1>2, LoopExists
  <1>4. ASSUME NEW k \in 0..Len(f)
        PROVE  g[k] = IF k = 0 THEN <<>>
                      ELSE IF Len(g[k - 1]) < MaxIndexed /\ f[k] \in Valid
                           THEN Append(g[k - 1], k)
                           ELSE g[k - 1]
    <2>1. CASE k = 0
      BY <1>3, <2>1 DEF Loops
    <2>2. CASE k # 0
      <3>1. k \in 1..Len(f) /\ g[k - 1] \in T
        BY <1>1, <1>3, <2>2 DEF Loops
      <3>. QED BY <1>3, <2>2, <3>1 DEF Loops
    <2>. QED BY <2>1, <2>2
  <1>5. IsKept(f, g)
    <2>1. PICK h : h = [k \in 0..Len(f) |->
                          IF k = 0 THEN <<>>
                          ELSE IF Len(g[k - 1]) < MaxIndexed /\ f[k] \in Valid
                               THEN Append(g[k - 1], k)
                               ELSE g[k - 1]]
      OBVIOUS
    <2>2. \A k \in 0..Len(f) : g[k] = h[k]
      BY <1>4, <2>1
    <2>3. g = h
      BY <1>3, <2>1, <2>2 DEF Loops
    <2>. QED BY <2>1, <2>3 DEF IsKept
  <1>. QED BY <1>3, <1>5 DEF Loops

LEMMA KeptIs ==
  ASSUME NEW f \in Seq(AP)
  PROVE  IsKept(f, Kept(f))
  <1>1. Kept(f) = CHOOSE g : IsKept(f, g)
    BY DEF Kept, IsKept
  <1>2. \E g : IsKept(f, g)
    BY KeptExists
  <1>. QED BY <1>1, <1>2, Zenon

\* What is kept are indexes of valid results, MaxIndexed at most.
KeptSet(f) == {s \in Seq({i \in 1..Len(f) : f[i] \in Valid}) : Len(s) <= MaxIndexed}

LEMMA KeptIn ==
  ASSUME NEW f \in Seq(AP)
  PROVE  \A k \in 0..Len(f) : Kept(f)[k] \in KeptSet(f)
  <1>. DEFINE S == {k \in 0..Len(f) : Kept(f)[k] \in KeptSet(f)}
  <1>1. Len(f) \in Nat /\ MaxIndexed \in Nat \ {0}
    BY ScannerAssumption
  <1>2. PICK g : g = Kept(f)
    OBVIOUS
  <1>3. IsKept(f, g)
    BY <1>2, KeptIs
  <1>4. 0 \in S
    <2>1. g[0] = <<>>
      BY <1>1, <1>3 DEF IsKept
    <2>2. <<>> \in KeptSet(f)
      BY <1>1 DEF KeptSet
    <2>. QED BY <1>1, <1>2, <2>1, <2>2
  <1>5. ASSUME NEW k \in 1..Len(f), k - 1 \in S PROVE k \in S
    <2>1. PICK x : x = g[k - 1]
      OBVIOUS
    <2>2. g[k] = IF Len(x) < MaxIndexed /\ f[k] \in Valid THEN Append(x, k) ELSE x
      <3>1. g[k] = IF Len(g[k - 1]) < MaxIndexed /\ f[k] \in Valid
                   THEN Append(g[k - 1], k) ELSE g[k - 1]
        <4>. HIDE DEF S
        <4>1. k \in 0..Len(f) /\ k # 0
          BY <1>1
        <4>. QED BY <1>3, <4>1 DEF IsKept
      <3>. QED BY <2>1, <3>1
    <2>3. x \in KeptSet(f)
      BY <1>2, <1>5, <2>1
    <2>4. ASSUME Len(x) < MaxIndexed, f[k] \in Valid PROVE Append(x, k) \in KeptSet(f)
      <3>. DEFINE V == {i \in 1..Len(f) : f[i] \in Valid}
      <3>1. k \in V /\ x \in Seq(V) /\ Len(x) \in Nat
        BY <2>3, <2>4 DEF KeptSet
      <3>2. Append(x, k) \in Seq(V) /\ Len(Append(x, k)) = Len(x) + 1
        <4>. HIDE DEF V
        <4>. QED BY <3>1, AppendProperties
      <3>. QED BY <1>1, <2>4, <3>1, <3>2 DEF KeptSet
    <2>5. g[k] \in KeptSet(f)
      BY <2>2, <2>3, <2>4
    <2>. QED BY <1>2, <2>5
  <1>6. \A k \in 0..Len(f) : k \in S
    <2>. HIDE DEF S
    <2>. QED BY <1>1, <1>4, <1>5, Reaches
  <1>. QED BY <1>6

LEMMA IndexedIs ==
  ASSUME NEW f \in Seq(AP)
  PROVE  Indexed(f) \in Seq(1..Len(f)) /\ Indexed(f) \in KeptSet(f)
  <1>1. Indexed(f) \in KeptSet(f)
    BY KeptIn DEF Indexed
  <1>2. \A s \in KeptSet(f) : s \in Seq(1..Len(f))
    BY DEF KeptSet
  <1>. QED BY <1>1, <1>2

---------------------------------------------------------------------------
(* Sorting the indexes: sequences of n positions in 1..m.                  *)

Orders(n, m) == {s \in Seq(1..m) : Len(s) = n}

LEMMA SwapIs ==
  ASSUME NEW n \in Nat, NEW m \in Nat, NEW s \in Orders(n, m), NEW i \in 1..n, NEW j \in 1..n
  PROVE  /\ Swap(s, i, j) \in Orders(n, m)
         /\ Swap(s, i, j)[i] = s[j] /\ Swap(s, i, j)[j] = s[i]
         /\ \A k \in 1..n : k # i /\ k # j => Swap(s, i, j)[k] = s[k]
  <1>1. s \in Seq(1..m) /\ Len(s) = n /\ s[i] \in 1..m /\ s[j] \in 1..m
    BY DEF Orders
  <1>2. PICK t : t = [s EXCEPT ![i] = s[j]]
    OBVIOUS
  <1>3. /\ t \in Seq(1..m) /\ Len(t) = n /\ t[i] = s[j]
        /\ \A k \in 1..n : k # i => t[k] = s[k]
    BY <1>1, <1>2, ExceptSeq
  <1>4. PICK z : z = [t EXCEPT ![j] = s[i]]
    OBVIOUS
  <1>5. /\ z \in Seq(1..m) /\ Len(z) = n /\ z[j] = s[i]
        /\ \A k \in 1..n : k # j => z[k] = t[k]
    BY <1>1, <1>3, <1>4, ExceptSeq
  <1>6. Swap(s, i, j) = z
    BY <1>2, <1>4 DEF Swap
  <1>7. z[i] = s[j]
    BY <1>3, <1>5
  <1>. QED BY <1>3, <1>5, <1>6, <1>7 DEF Orders

\* The equation of the inner loop.
IsRow(f, s, i, g) ==
  g = [j \in 0..Len(s) |->
         IF j <= i THEN s
         ELSE IF Stronger(f, g[j - 1][i], g[j - 1][j]) THEN Swap(g[j - 1], i, j) ELSE g[j - 1]]

LEMMA RowExists ==
  ASSUME NEW f, NEW n \in Nat, NEW m \in Nat, NEW s \in Orders(n, m), NEW i \in 1..n
  PROVE  \E g : IsRow(f, s, i, g)
  <1>. DEFINE T == Orders(n, m)
              G == [j \in 1..n |-> [x \in T |->
                      IF j <= i THEN s
                      ELSE IF Stronger(f, x[i], x[j]) THEN Swap(x, i, j) ELSE x]]
  <1>1. Len(s) = n
    BY DEF Orders
  <1>2. ASSUME NEW j \in 1..n, NEW x \in T PROVE G[j][x] \in T
    <2>1. Swap(x, i, j) \in T
      BY SwapIs
    <2>2. s \in T
      OBVIOUS
    <2>. HIDE DEF T
    <2>3. G[j][x] = IF j <= i THEN s
                    ELSE IF Stronger(f, x[i], x[j]) THEN Swap(x, i, j) ELSE x
      OBVIOUS
    <2>. HIDE DEF G
    <2>. QED BY <2>1, <2>2, <2>3
  <1>3. PICK g : Loops(n, T, s, G, g)
    <2>. HIDE DEF T, G
    <2>1. s \in T
      BY DEF T
    <2>. QED BY <1>2, <2>1, LoopExists
  <1>4. ASSUME NEW j \in 0..n
        PROVE  g[j] = IF j <= i THEN s
                      ELSE IF Stronger(f, g[j - 1][i], g[j - 1][j])
                           THEN Swap(g[j - 1], i, j) ELSE g[j - 1]
    <2>. HIDE DEF T
    <2>1. CASE j = 0
      BY <1>3, <2>1 DEF Loops
    <2>2. CASE j # 0
      <3>1. PICK x \in T : x = g[j - 1]
        BY <1>3, <2>2 DEF Loops
      <3>2. j \in 1..n /\ g[j] = G[j][x]
        BY <1>3, <2>2, <3>1 DEF Loops
      <3>. QED BY <2>2, <3>1, <3>2
    <2>. QED BY <2>1, <2>2
  <1>5. IsRow(f, s, i, g)
    <2>1. PICK h : h = [j \in 0..n |->
                          IF j <= i THEN s
                          ELSE IF Stronger(f, g[j - 1][i], g[j - 1][j])
                               THEN Swap(g[j - 1], i, j) ELSE g[j - 1]]
      OBVIOUS
    <2>2. \A j \in 0..n : g[j] = h[j]
      BY <1>4, <2>1
    <2>. HIDE DEF T, G
    <2>3. g = h
      BY <1>3, <2>1, <2>2 DEF Loops
    <2>. QED BY <1>1, <2>1, <2>3 DEF IsRow
  <1>. QED BY <1>5

\* What a round of the inner loop does.
RowSteps(f, s, i, n, m, g) ==
  /\ \A j \in 0..n : j <= i => g[j] = s
  /\ \A j \in 1..n : i < j =>
       g[j] = IF Stronger(f, g[j - 1][i], g[j - 1][j])
              THEN Swap(g[j - 1], i, j) ELSE g[j - 1]
  /\ \A j \in 0..n : g[j] \in Orders(n, m)

LEMMA RowIs ==
  ASSUME NEW f, NEW n \in Nat, NEW m \in Nat, NEW s \in Orders(n, m), NEW i \in 1..n,
         NEW g, g = Compared(f, s, i)
  PROVE  RowSteps(f, s, i, n, m, g)
  <1>1. Compared(f, s, i) = CHOOSE h : IsRow(f, s, i, h)
    BY DEF Compared, IsRow
  <1>2. \E h : IsRow(f, s, i, h)
    BY RowExists
  <1>3. IsRow(f, s, i, g)
    BY <1>1, <1>2, Zenon
  <1>4. Len(s) = n
    BY DEF Orders
  <1>5. \A j \in 0..n : j <= i => g[j] = s
    BY <1>3, <1>4 DEF IsRow
  <1>6. ASSUME NEW j \in 1..n, i < j
        PROVE  g[j] = IF Stronger(f, g[j - 1][i], g[j - 1][j])
                      THEN Swap(g[j - 1], i, j) ELSE g[j - 1]
    BY <1>3, <1>4, <1>6 DEF IsRow
  <1>. DEFINE S == {j \in 0..n : g[j] \in Orders(n, m)}
  <1>7. 0 \in S
    BY <1>5
  <1>8. ASSUME NEW j \in 1..n, j - 1 \in S PROVE j \in S
    <2>1. CASE j <= i
      BY <1>5, <2>1
    <2>2. CASE i < j
      <3>1. PICK x : x = g[j - 1]
        OBVIOUS
      <3>2. x \in Orders(n, m)
        BY <1>8, <3>1
      <3>3. Swap(x, i, j) \in Orders(n, m)
        BY <3>2, SwapIs
      <3>4. g[j] = Swap(x, i, j) \/ g[j] = x
        BY <1>6, <2>2, <3>1
      <3>. QED BY <3>2, <3>3, <3>4
    <2>. QED BY <2>1, <2>2
  <1>9. \A j \in 0..n : j \in S
    <2>. HIDE DEF S
    <2>. QED BY <1>7, <1>8, Reaches
  <1>. QED BY <1>5, <1>6, <1>9 DEF RowSteps

\* How strong the result is that position k names.
Signal(f, s, k) == Rssi[f[s[k]]]

\* Position 1 of t is the strongest of the first j, and t names what s names.
Leads(f, s, t, n, j) ==
  /\ \A k \in 1..j : k \in 1..n => Signal(f, t, k) <= Signal(f, t, 1)
  /\ \A k \in 1..n : \E l \in 1..n : t[k] = s[l]
  /\ \A l \in 1..n : \E k \in 1..n : t[k] = s[l]

\* The first round of the outer loop brings the strongest to position 1.
LEMMA FirstRound ==
  ASSUME NEW f \in Seq(AP), NEW n \in Nat \ {0}, NEW s \in Orders(n, Len(f))
  PROVE  Leads(f, s, Compared(f, s, 1)[n], n, n)
  <1>1. PICK m : m = Len(f)
    OBVIOUS
  <1>2. PICK g : g = Compared(f, s, 1)
    OBVIOUS
  <1>3. m \in Nat /\ s \in Orders(n, m) /\ 1 \in 1..n
    BY <1>1
  <1>4. /\ \A j \in 0..n : j <= 1 => g[j] = s
        /\ \A j \in 1..n : 1 < j =>
             g[j] = IF Stronger(f, g[j - 1][1], g[j - 1][j])
                    THEN Swap(g[j - 1], 1, j) ELSE g[j - 1]
        /\ \A j \in 0..n : g[j] \in Orders(n, m)
    <2>1. RowSteps(f, s, 1, n, m, g)
      BY ONLY n \in Nat, <1>2, <1>3, RowIs
    <2>. QED BY ONLY <2>1 DEF RowSteps
  <1>5. ASSUME NEW t \in Orders(n, m), NEW k \in 1..n
        PROVE  t[k] \in 1..m /\ Signal(f, t, k) \in Int
    <2>1. t[k] \in 1..m
      <3>1. t \in Seq(1..m) /\ k \in 1..Len(t)
        BY DEF Orders
      <3>. QED BY ONLY <3>1, ElementOfSeq
    <2>2. f[t[k]] \in AP
      BY <1>1, <2>1
    <2>. QED BY <2>1, <2>2, ScannerAssumption DEF Signal
  <1>. DEFINE S == {j \in 0..n : Leads(f, s, g[j], n, j)}
  <1>6. 0 \in S
    <2>1. g[0] = s
      BY <1>4
    <2>. QED BY <2>1 DEF Leads
  <1>7. ASSUME NEW j \in 1..n, j - 1 \in S PROVE j \in S
    <2>1. CASE j = 1
      <3>1. g[1] = s /\ Signal(f, s, 1) \in Int
        BY <1>3, <1>4, <1>5
      <3>2. Leads(f, s, s, n, 1)
        BY <3>1 DEF Leads
      <3>. QED BY <2>1, <3>1, <3>2
    <2>2. CASE 1 < j
      <3>1. PICK x : x = g[j - 1]
        OBVIOUS
      <3>2. x \in Orders(n, m) /\ Leads(f, s, x, n, j - 1)
        BY <1>4, <1>7, <3>1
      <3>3. CASE Stronger(f, x[1], x[j])
        <4>1. PICK z : z = Swap(x, 1, j)
          OBVIOUS
        <4>2. /\ z[1] = x[j] /\ z[j] = x[1] /\ z \in Orders(n, m)
              /\ \A k \in 1..n : k # 1 /\ k # j => z[k] = x[k]
          <5>1. /\ Swap(x, 1, j) \in Orders(n, m)
                /\ Swap(x, 1, j)[1] = x[j] /\ Swap(x, 1, j)[j] = x[1]
                /\ \A k \in 1..n : k # 1 /\ k # j => Swap(x, 1, j)[k] = x[k]
            BY ONLY n \in Nat, j \in 1..n, <1>3, <3>2, SwapIs
          <5>. QED BY ONLY <4>1, <5>1
        <4>3. Signal(f, z, 1) = Signal(f, x, j) /\ Signal(f, z, j) = Signal(f, x, 1)
          BY <4>2 DEF Signal
        <4>4. Signal(f, x, j) > Signal(f, x, 1)
          BY <3>3 DEF Stronger, Signal
        <4>5. ASSUME NEW k \in 1..j, k \in 1..n PROVE Signal(f, z, k) <= Signal(f, z, 1)
          <5>1. Signal(f, z, k) \in Int /\ Signal(f, x, 1) \in Int /\ Signal(f, x, j) \in Int
            BY <1>3, <1>5, <3>2, <4>2, <4>5
          <5>2. CASE k = 1
            BY <5>1, <5>2
          <5>3. CASE k = j
            BY <4>3, <4>4, <5>1, <5>3
          <5>4. CASE k # 1 /\ k # j
            <6>1. k \in 1..j - 1 /\ Signal(f, z, k) = Signal(f, x, k)
              BY <4>2, <5>4 DEF Signal
            <6>2. Signal(f, x, k) <= Signal(f, x, 1)
              BY <3>2, <6>1 DEF Leads
            <6>. QED BY <4>3, <4>4, <5>1, <6>1, <6>2
          <5>. QED BY <5>2, <5>3, <5>4
        <4>6. ASSUME NEW k \in 1..n PROVE \E l \in 1..n : z[k] = s[l]
          <5>1. z[k] = x[k] \/ z[k] = x[1] \/ z[k] = x[j]
            BY <4>2
          <5>2. \A i \in 1..n : \E l \in 1..n : x[i] = s[l]
            BY <3>2 DEF Leads
          <5>3. PICK i \in 1..n : z[k] = x[i]
            BY <1>3, <5>1
          <5>4. PICK l \in 1..n : x[i] = s[l]
            BY <5>2
          <5>. QED BY ONLY <5>3, <5>4
        <4>7. ASSUME NEW l \in 1..n PROVE \E k \in 1..n : z[k] = s[l]
          <5>1. PICK k \in 1..n : x[k] = s[l]
            BY <3>2 DEF Leads
          <5>. QED BY <1>3, <4>2, <5>1
        <4>8. Leads(f, s, z, n, j)
          BY <4>5, <4>6, <4>7 DEF Leads
        <4>9. g[j] = z
          BY <1>4, <2>2, <3>1, <3>3, <4>1
        <4>. QED BY <4>8, <4>9
      <3>4. CASE ~Stronger(f, x[1], x[j])
        <4>1. g[j] = x
          BY <1>4, <2>2, <3>1, <3>4
        <4>2. Signal(f, x, j) <= Signal(f, x, 1)
          <5>1. Signal(f, x, j) \in Int /\ Signal(f, x, 1) \in Int
            BY <1>3, <1>5, <3>2
          <5>2. ~(Signal(f, x, j) > Signal(f, x, 1))
            BY <3>4 DEF Stronger, Signal
          <5>. QED BY <5>1, <5>2
        <4>3. ASSUME NEW k \in 1..j, k \in 1..n PROVE Signal(f, x, k) <= Signal(f, x, 1)
          <5>1. k = j \/ k \in 1..j - 1
            OBVIOUS
          <5>. QED BY <3>2, <4>2, <4>3, <5>1 DEF Leads
        <4>4. Leads(f, s, x, n, j)
          BY <3>2, <4>3 DEF Leads
        <4>. QED BY <4>1, <4>4
      <3>. QED BY <3>3, <3>4
    <2>. QED BY <2>1, <2>2
  <1>8. \A j \in 0..n : j \in S
    <2>. HIDE DEF S
    <2>. QED BY <1>6, <1>7, Reaches
  <1>9. Leads(f, s, g[n], n, n)
    BY <1>8
  <1>. QED BY <1>2, <1>9

\* A later round leaves position 1 alone.
LEMMA LaterRound ==
  ASSUME NEW f, NEW n \in Nat, NEW m \in Nat, NEW s \in Orders(n, m), NEW i \in 2..n
  PROVE  Compared(f, s, i)[n] \in Orders(n, m) /\ Compared(f, s, i)[n][1] = s[1]
  <1>1. PICK g : g = Compared(f, s, i)
    OBVIOUS
  <1>2. /\ \A j \in 0..n : j <= i => g[j] = s
        /\ \A j \in 1..n : i < j =>
             g[j] = IF Stronger(f, g[j - 1][i], g[j - 1][j])
                    THEN Swap(g[j - 1], i, j) ELSE g[j - 1]
        /\ \A j \in 0..n : g[j] \in Orders(n, m)
    <2>1. i \in 1..n
      OBVIOUS
    <2>2. RowSteps(f, s, i, n, m, g)
      BY ONLY n \in Nat, m \in Nat, s \in Orders(n, m), <1>1, <2>1, RowIs
    <2>. QED BY ONLY <2>2 DEF RowSteps
  <1>. DEFINE S == {j \in 0..n : g[j][1] = s[1]}
  <1>3. 0 \in S
    BY <1>2
  <1>4. ASSUME NEW j \in 1..n, j - 1 \in S PROVE j \in S
    <2>1. CASE j <= i
      BY <1>2, <2>1
    <2>2. CASE i < j
      <3>1. PICK x : x = g[j - 1]
        OBVIOUS
      <3>2. x \in Orders(n, m) /\ x[1] = s[1]
        BY <1>2, <1>4, <3>1
      <3>3. Swap(x, i, j)[1] = x[1]
        <4>1. 1 \in 1..n /\ i \in 1..n /\ 1 # i /\ 1 # j
          BY <2>2
        <4>. QED BY <3>2, <4>1, SwapIs
      <3>4. g[j] = Swap(x, i, j) \/ g[j] = x
        BY <1>2, <2>2, <3>1
      <3>. QED BY <3>2, <3>3, <3>4
    <2>. QED BY <2>1, <2>2
  <1>5. \A j \in 0..n : j \in S
    <2>. HIDE DEF S
    <2>. QED BY <1>3, <1>4, Reaches
  <1>. QED BY <1>1, <1>2, <1>5

\* The equation of the outer loop.
IsRounds(f, s, g) ==
  g = [i \in 0..Len(s) - 1 |-> IF i = 0 THEN s ELSE Compared(f, g[i - 1], i)[Len(s)]]

LEMMA RoundKeepsLength ==
  ASSUME NEW f, NEW n \in Nat, NEW m \in Nat, NEW s \in Orders(n, m), NEW i \in 1..n
  PROVE  Compared(f, s, i)[n] \in Orders(n, m)
  <1>1. PICK g : g = Compared(f, s, i)
    OBVIOUS
  <1>2. RowSteps(f, s, i, n, m, g)
    BY <1>1, RowIs
  <1>. QED BY <1>1, <1>2 DEF RowSteps

LEMMA SortedExists ==
  ASSUME NEW f, NEW n \in Nat \ {0}, NEW m \in Nat, NEW s \in Orders(n, m)
  PROVE  \E g : IsRounds(f, s, g)
  <1>. DEFINE T == Orders(n, m)
              G == [i \in 1..n - 1 |-> [x \in T |-> Compared(f, x, i)[n]]]
  <1>1. Len(s) = n
    BY DEF Orders
  <1>2. ASSUME NEW i \in 1..n - 1, NEW x \in T PROVE G[i][x] \in T
    <2>1. i \in 1..n
      OBVIOUS
    <2>2. Compared(f, x, i)[n] \in T
      BY <2>1, RoundKeepsLength
    <2>. HIDE DEF T
    <2>. QED BY <2>2
  <1>3. PICK g : Loops(n - 1, T, s, G, g)
    <2>1. s \in T /\ n - 1 \in Nat
      OBVIOUS
    <2>. HIDE DEF T, G
    <2>. QED BY <1>2, <2>1, LoopExists
  <1>4. ASSUME NEW i \in 0..n - 1
        PROVE  g[i] = IF i = 0 THEN s ELSE Compared(f, g[i - 1], i)[n]
    <2>. HIDE DEF T
    <2>1. CASE i = 0
      BY <1>3, <2>1 DEF Loops
    <2>2. CASE i # 0
      <3>1. PICK x \in T : x = g[i - 1]
        BY <1>3, <2>2 DEF Loops
      <3>2. i \in 1..n - 1
        BY <2>2
      <3>3. g[i] = G[i][x]
        <4>. HIDE DEF G
        <4>. QED BY <1>3, <3>1, <3>2 DEF Loops
      <3>. QED BY <2>2, <3>1, <3>2, <3>3
    <2>. QED BY <2>1, <2>2
  <1>5. IsRounds(f, s, g)
    <2>1. PICK h : h = [i \in 0..n - 1 |-> IF i = 0 THEN s ELSE Compared(f, g[i - 1], i)[n]]
      OBVIOUS
    <2>2. \A i \in 0..n - 1 : g[i] = h[i]
      BY <1>4, <2>1
    <2>. HIDE DEF T, G
    <2>3. g = h
      BY <1>3, <2>1, <2>2 DEF Loops
    <2>. QED BY <1>1, <2>1, <2>3 DEF IsRounds
  <1>. QED BY <1>5

\* The rounds of the outer loop.
SortSteps(f, s, n, g) ==
  g[0] = s /\ \A i \in 1..n - 1 : g[i] = Compared(f, g[i - 1], i)[n]

LEMMA SortedIs ==
  ASSUME NEW f, NEW n \in Nat \ {0}, NEW m \in Nat, NEW s \in Orders(n, m),
         NEW g, g = Sorted(f, s)
  PROVE  SortSteps(f, s, n, g)
  <1>1. Sorted(f, s) = CHOOSE h : IsRounds(f, s, h)
    BY DEF Sorted, IsRounds
  <1>2. \E h : IsRounds(f, s, h)
    BY SortedExists
  <1>3. IsRounds(f, s, g)
    BY <1>1, <1>2, Zenon
  <1>4. Len(s) = n
    BY DEF Orders
  <1>5. g[0] = s
    BY <1>3, <1>4 DEF IsRounds
  <1>6. ASSUME NEW i \in 1..n - 1 PROVE g[i] = Compared(f, g[i - 1], i)[n]
    <2>1. i \in 0..n - 1 /\ i # 0
      OBVIOUS
    <2>. QED BY <1>3, <1>4, <2>1 DEF IsRounds
  <1>. QED BY <1>5, <1>6 DEF SortSteps

\* Position 1 names the strongest of what is in s.
First(f, s, x) ==
  /\ \E l \in 1..Len(s) : s[l] = x
  /\ \A l \in 1..Len(s) : Rssi[f[s[l]]] <= Rssi[f[x]]

\* The first of the sorted results is the strongest.
LEMMA SortedFirst ==
  ASSUME NEW f \in Seq(AP), NEW n \in Nat \ {0}, NEW s \in Orders(n, Len(f))
  PROVE  Sorted(f, s)[n - 1] # <<>> /\ First(f, s, Sorted(f, s)[n - 1][1])
  <1>1. PICK m : m = Len(f)
    OBVIOUS
  <1>2. PICK g : g = Sorted(f, s)
    OBVIOUS
  <1>3. m \in Nat /\ s \in Orders(n, m) /\ Len(s) = n
    BY <1>1 DEF Orders
  <1>4. g[0] = s /\ \A i \in 1..n - 1 : g[i] = Compared(f, g[i - 1], i)[n]
    <2>1. n \in Nat \ {0}
      OBVIOUS
    <2>2. SortSteps(f, s, n, g)
      BY ONLY <1>2, <1>3, <2>1, SortedIs
    <2>. QED BY ONLY <2>2 DEF SortSteps
  <1>. DEFINE S == {i \in 0..n - 1 : /\ g[i] \in Orders(n, m)
                                     /\ i > 0 => First(f, s, g[i][1])}
  <1>5. 0 \in S
    BY <1>3, <1>4
  <1>6. ASSUME NEW i \in 1..n - 1, i - 1 \in S PROVE i \in S
    <2>1. PICK x : x = g[i - 1]
      OBVIOUS
    <2>2. g[i] = Compared(f, x, i)[n] /\ x \in Orders(n, m)
      BY <1>4, <1>6, <2>1
    <2>3. g[i] \in Orders(n, m)
      <3>1. i \in 1..n
        OBVIOUS
      <3>. QED BY <1>3, <2>2, <3>1, RoundKeepsLength
    <2>4. CASE i = 1
      <3>1. Leads(f, s, g[1], n, n)
        <4>1. x = s
          BY <1>4, <2>1, <2>4
        <4>. QED BY <1>1, <1>3, <2>2, <2>4, <4>1, FirstRound
      <3>2. PICK t : t = g[1]
        OBVIOUS
      <3>3. PICK l \in 1..n : t[1] = s[l]
        <4>1. 1 \in 1..n
          OBVIOUS
        <4>2. Leads(f, s, t, n, n)
          BY ONLY <3>1, <3>2
        <4>3. PICK k \in 1..n : k = 1
          BY ONLY <4>1
        <4>4. \E l \in 1..n : t[k] = s[l]
          BY ONLY <4>2 DEF Leads
        <4>. QED BY ONLY <4>3, <4>4
      <3>4. ASSUME NEW k \in 1..n PROVE Rssi[f[s[k]]] <= Rssi[f[t[1]]]
        <4>1. PICK j \in 1..n : t[j] = s[k]
          BY <3>1, <3>2 DEF Leads
        <4>2. Signal(f, t, j) <= Signal(f, t, 1)
          BY <3>1, <3>2 DEF Leads
        <4>. QED BY <4>1, <4>2 DEF Signal
      <3>5. First(f, s, t[1])
        BY <1>3, <3>3, <3>4 DEF First
      <3>. QED BY <2>3, <2>4, <3>2, <3>5
    <2>5. CASE i # 1
      <3>1. First(f, s, x[1])
        BY <1>6, <2>1, <2>5
      <3>2. g[i][1] = x[1]
        <4>1. i \in 2..n
          BY <2>5
        <4>. QED BY <1>3, <2>2, <4>1, LaterRound
      <3>. QED BY <2>3, <3>1, <3>2
    <2>. QED BY <2>4, <2>5
  <1>7. n - 1 \in S
    <2>1. \A i \in 0..n - 1 : i \in S
      <3>1. n - 1 \in Nat
        OBVIOUS
      <3>. HIDE DEF S
      <3>. QED BY <1>5, <1>6, <3>1, Reaches
    <2>. QED BY <2>1
  <1>8. PICK t : t = g[n - 1]
    OBVIOUS
  <1>9. t \in Orders(n, m) /\ (n > 1 => First(f, s, t[1]))
    BY <1>7, <1>8
  <1>10. t # <<>>
    BY <1>9 DEF Orders
  <1>11. First(f, s, t[1])
    <2>1. CASE n = 1
      <3>1. t = s /\ s[1] \in 1..m
        <4>1. n - 1 = 0 /\ 1 \in 1..n
          BY <2>1
        <4>2. t = s
          BY <1>4, <1>8, <4>1
        <4>3. s \in Seq(1..m) /\ 1 \in 1..Len(s)
          BY <1>3, <4>1 DEF Orders
        <4>. QED BY <4>2, <4>3, ElementOfSeq
      <3>2. Rssi[f[s[1]]] \in Int
        <4>1. f[s[1]] \in AP
          BY <1>1, <3>1
        <4>. QED BY <4>1, ScannerAssumption
      <3>. QED BY <1>3, <2>1, <3>1, <3>2 DEF First
    <2>. QED BY <1>9, <2>1
  <1>. QED BY <1>2, <1>8, <1>10, <1>11

\* What wifi_scan_done selects: the strongest of the results that were kept.
LEMMA SelectsStrongest ==
  ASSUME NEW f \in Seq(AP)
  PROVE  /\ Indexed(f) = <<>> => sortedValidAPs(f) = <<>>
         /\ Indexed(f) # <<>> => /\ sortedValidAPs(f) # <<>>
                                 /\ sortedValidAPs(f)[1] \in 1..Len(f)
                                 /\ f[sortedValidAPs(f)[1]] \in Valid
                                 /\ First(f, Indexed(f), sortedValidAPs(f)[1])
  <1>1. PICK s : s = Indexed(f)
    OBVIOUS
  <1>2. PICK n : n = Len(s)
    OBVIOUS
  <1>3. s \in Seq(1..Len(f)) /\ s \in KeptSet(f)
    BY <1>1, IndexedIs
  <1>4. s = <<>> => sortedValidAPs(f) = <<>>
    BY <1>1 DEF sortedValidAPs
  <1>5. ASSUME s # <<>>
        PROVE  /\ sortedValidAPs(f) # <<>>
               /\ sortedValidAPs(f)[1] \in 1..Len(f)
               /\ f[sortedValidAPs(f)[1]] \in Valid
               /\ First(f, s, sortedValidAPs(f)[1])
    <2>1. n \in Nat \ {0} /\ s \in Orders(n, Len(f))
      BY <1>2, <1>3, <1>5, EmptySeq DEF Orders
    <2>2. PICK t : t = Sorted(f, s)[n - 1]
      OBVIOUS
    <2>3. sortedValidAPs(f) = t
      BY <1>1, <1>2, <1>5, <2>2 DEF sortedValidAPs
    <2>4. t # <<>> /\ First(f, s, t[1])
      BY <2>1, <2>2, SortedFirst
    <2>5. PICK l \in 1..Len(s) : s[l] = t[1]
      BY <2>4 DEF First
    <2>6. s[l] \in {i \in 1..Len(f) : f[i] \in Valid}
      BY <1>3, <2>5 DEF KeptSet
    <2>. QED BY <2>3, <2>4, <2>5, <2>6
  <1>. QED BY <1>1, <1>4, <1>5

---------------------------------------------------------------------------
(* The invariant of WiFiScanner.                                           *)

\* b names the strongest of the results f that were kept, a valid one.
Chosen(f, b) == b \in 1..Len(f) /\ f[b] \in Valid /\ First(f, Indexed(f), b)

\* While the state is selecting_ap, the results it was set for are still there.
SelectInv == client_state = "selecting_ap" => ~scan /\ Chosen(found, best)

\* Between the look at the state and WiFi.begin no scan goes on, whatever the
\* callbacks do to client_state.
ConnectInv ==
  pc \in {"connect", "sleep"} =>
    /\ ~scan /\ best \in 1..Len(found)
    /\ ~is_client_connected \/ leased

\* The station is linked to nothing but its target, whose channel it is on.
StationInv ==
  /\ link = NoAP \/ link = target
  /\ target # NoAP => chipWIFIChannel = Channel[target]

\* servap_looper is armed by a lease, and what was leased last is what the
\* station is joined to as long as the state says so.
ServerInv ==
  /\ server_state = "off" => ap_channel = 0
  /\ servap_looper = "armed" => chClients # <<>>
  /\ client_state = "full_available" /\ pc # "overrun" =>
       chClients # <<>> /\ chipWIFIChannel = Channel[Last(chClients)]

WiFiInv == WiFiTypeOK /\ SelectInv /\ ConnectInv /\ StationInv /\ ServerInv

LEMMA WiFiInitInv == WiFiInit => WiFiInv
  <1>. SUFFICES ASSUME WiFiInit PROVE WiFiInv
    OBVIOUS
  <1>1. WiFiTypeOK
    <2>1. <<>> \in Seq(AP) /\ Len(<<>>) = 0 /\ 0 \in Channels
      BY EmptySeq DEF Channels
    <2>2. MaxClients \in Nat /\ Len(chClients) <= MaxClients
      BY <2>1, ScannerAssumption DEF WiFiInit
    <2>3. target = NoAP /\ link = NoAP /\ ip = FALSE /\ found = <<>> /\ chClients = <<>>
      BY DEF WiFiInit
    <2>. QED BY <2>1, <2>2, <2>3 DEF WiFiInit, WiFiTypeOK
  <1>. QED BY <1>1 DEF WiFiInit, WiFiInv, SelectInv, ConnectInv, StationInv, ServerInv

\* What a scan finds are access points.
LEMMA FoundIs ==
  ASSUME NEW S \in SUBSET AP, NEW f \in SetToSeqs(S)
  PROVE  f \in Seq(AP)
  <1>1. Cardinality(S) \in Nat
    BY ScannerAssumption, FS_Subset, FS_CardinalityType
  <1>2. f \in [1..Cardinality(S) -> S]
    BY DEF SetToSeqs
  <1>. QED BY <1>1, <1>2

LEMMA WiFiNextInv == WiFiInv /\ [WiFiNext]_wifi_vars => WiFiInv'
  <1>. SUFFICES ASSUME WiFiInv, [WiFiNext]_wifi_vars PROVE WiFiInv'
    OBVIOUS
  <1>1. CASE Rescan
    <2>1. WiFiTypeOK'
      BY <1>1 DEF WiFiInv, WiFiTypeOK, Rescan, Scanning, wifi
    <2>2. SelectInv'
      BY <1>1 DEF WiFiInv, SelectInv, Rescan, Scanning, WiFiTypeOK
    <2>3. ConnectInv'
      BY <1>1 DEF WiFiInv, ConnectInv, Rescan, Scanning, WiFiTypeOK
    <2>4. StationInv'
      BY <1>1 DEF WiFiInv, StationInv, Rescan, Scanning, wifi, WiFiTypeOK
    <2>5. ServerInv'
      BY <1>1 DEF WiFiInv, ServerInv, Rescan, Scanning, WiFiTypeOK
    <2>. QED BY <2>1, <2>2, <2>3, <2>4, <2>5 DEF WiFiInv
  <1>2. CASE Servap
    <2>1. WiFiTypeOK'
      BY <1>2 DEF WiFiInv, WiFiTypeOK, Servap, ap_server_start, wifi
    <2>2. SelectInv'
      BY <1>2 DEF WiFiInv, SelectInv, Servap, ap_server_start, WiFiTypeOK
    <2>3. ConnectInv'
      BY <1>2 DEF WiFiInv, ConnectInv, Servap, ap_server_start, WiFiTypeOK
    <2>4. StationInv'
      BY <1>2 DEF WiFiInv, StationInv, Servap, ap_server_start, wifi, WiFiTypeOK
    <2>5. ServerInv'
      BY <1>2 DEF WiFiInv, ServerInv, Servap, ap_server_start, WiFiTypeOK
    <2>. QED BY <2>1, <2>2, <2>3, <2>4, <2>5 DEF WiFiInv
  <1>3. CASE Select
    <2>1. WiFiTypeOK'
      BY <1>3 DEF WiFiInv, WiFiTypeOK, Select, ToConnect, wifi
    <2>2. SelectInv'
      BY <1>3 DEF WiFiInv, SelectInv, Select, ToConnect, wifi, WiFiTypeOK
    <2>3. ConnectInv'
      BY <1>3 DEF WiFiInv, SelectInv, Chosen, ConnectInv, Select, ToConnect
    <2>4. StationInv'
      BY <1>3 DEF WiFiInv, StationInv, Select, ToConnect, wifi, WiFiTypeOK
    <2>5. ServerInv'
      BY <1>3 DEF WiFiInv, ServerInv, Select, ToConnect, wifi, WiFiTypeOK
    <2>. QED BY <2>1, <2>2, <2>3, <2>4, <2>5 DEF WiFiInv
  <1>4. CASE CheckIndex
    <2>1. WiFiTypeOK'
      BY <1>4 DEF WiFiInv, WiFiTypeOK, CheckIndex, wifi
    <2>2. SelectInv'
      BY <1>4 DEF WiFiInv, SelectInv, CheckIndex, wifi, WiFiTypeOK
    <2>3. ConnectInv'
      BY <1>4 DEF WiFiInv, ConnectInv, CheckIndex, wifi, WiFiTypeOK
    <2>4. StationInv'
      BY <1>4 DEF WiFiInv, StationInv, CheckIndex, wifi, WiFiTypeOK
    <2>5. ServerInv'
      BY <1>4 DEF WiFiInv, ServerInv, CheckIndex, wifi, WiFiTypeOK
    <2>. QED BY <2>1, <2>2, <2>3, <2>4, <2>5 DEF WiFiInv
  <1>5. CASE wifi_connect_beggin
    <2>1. WiFiTypeOK'
      <3>1. found[best] \in AP /\ best \in 1..Len(found)
        BY <1>5 DEF WiFiInv, WiFiTypeOK, ConnectInv, wifi_connect_beggin
      <3>2. target' \in AP /\ chipWIFIChannel' \in Channels
        BY <1>5, <3>1 DEF wifi_connect_beggin, Channels
      <3>3. link' \in AP \cup {NoAP} /\ ip' \in BOOLEAN /\ (ip' => link' # NoAP)
        BY <1>5 DEF WiFiInv, WiFiTypeOK, wifi_connect_beggin
      <3>. QED BY <1>5, <3>2, <3>3 DEF WiFiInv, WiFiTypeOK, wifi_connect_beggin
    <2>2. SelectInv'
      BY <1>5 DEF WiFiInv, SelectInv, wifi_connect_beggin, WiFiTypeOK
    <2>3. ConnectInv'
      BY <1>5 DEF WiFiInv, ConnectInv, wifi_connect_beggin, WiFiTypeOK
    <2>4. StationInv'
      BY <1>5 DEF WiFiInv, StationInv, wifi_connect_beggin, WiFiTypeOK
    <2>5. ServerInv'
      BY <1>5 DEF WiFiInv, ServerInv, wifi_connect_beggin, WiFiTypeOK
    <2>. QED BY <2>1, <2>2, <2>3, <2>4, <2>5 DEF WiFiInv
  <1>6. CASE wifi_scan_done
    <2>1. PICK f, s : f = found' /\ s = sortedValidAPs(f)
      OBVIOUS
    <2>2. f \in Seq(AP)
      BY <1>6, <2>1, FoundIs DEF WiFiInv, WiFiTypeOK, wifi_scan_done
    <2>3. best' = (IF s = <<>> THEN 0 ELSE s[1])
          /\ client_state' = (IF s = <<>> THEN "filtering_aps" ELSE "selecting_ap")
      BY <1>6, <2>1 DEF wifi_scan_done
    <2>4. s # <<>> => Chosen(f, s[1])
      BY <2>1, <2>2, SelectsStrongest DEF Chosen
    <2>5. WiFiTypeOK'
      <3>1. best' \in Nat
        BY <2>3, <2>4 DEF Chosen
      <3>2. client_state' \in {"filtering_aps", "selecting_ap"} /\ scan' = FALSE
            /\ found' \in Seq(AP) /\ chipWIFIChannel' = chipWIFIChannel
        BY <1>6, <2>1, <2>2, <2>3 DEF wifi_scan_done, ChannelAfterScan
      <3>3. UNCHANGED <<pc, server_state, is_client_connected, servap_looper, ap_channel,
                        chClients, air, wifi, leased>>
        BY <1>6 DEF wifi_scan_done
      <3>. QED BY <3>1, <3>2, <3>3 DEF WiFiInv, WiFiTypeOK, wifi
    <2>6. SelectInv'
      BY <1>6, <2>1, <2>3, <2>4 DEF SelectInv, wifi_scan_done
    <2>7. ConnectInv'
      BY <1>6 DEF WiFiInv, ConnectInv, wifi_scan_done, wifi, ChannelAfterScan, WiFiTypeOK
    <2>8. StationInv'
      BY <1>6 DEF WiFiInv, StationInv, wifi_scan_done, wifi, ChannelAfterScan, WiFiTypeOK
    <2>9. ServerInv'
      BY <1>6 DEF WiFiInv, ServerInv, wifi_scan_done, wifi, ChannelAfterScan, WiFiTypeOK
    <2>. QED BY <2>5, <2>6, <2>7, <2>8, <2>9 DEF WiFiInv
  <1>7. CASE onStationConnected
    <2>1. WiFiTypeOK'
      BY <1>7 DEF WiFiInv, WiFiTypeOK, onStationConnected
    <2>2. SelectInv'
      BY <1>7 DEF WiFiInv, SelectInv, onStationConnected, WiFiTypeOK
    <2>3. ConnectInv'
      BY <1>7 DEF WiFiInv, ConnectInv, onStationConnected, WiFiTypeOK
    <2>4. StationInv'
      BY <1>7 DEF WiFiInv, StationInv, onStationConnected, WiFiTypeOK
    <2>5. ServerInv'
      BY <1>7 DEF WiFiInv, ServerInv, onStationConnected, WiFiTypeOK
    <2>. QED BY <2>1, <2>2, <2>3, <2>4, <2>5 DEF WiFiInv
  <1>8. CASE onStationGotIP
    <2>1. WiFiTypeOK'
      <3>1. link \in AP
        BY <1>8 DEF WiFiInv, WiFiTypeOK, onStationGotIP
      <3>2. chClients' \in Seq(AP) /\ Len(chClients') <= MaxClients
        <4>1. Append(chClients, link) \in Seq(AP) /\ Len(Append(chClients, link)) = Len(chClients) + 1
          BY <3>1, AppendProperties DEF WiFiInv, WiFiTypeOK
        <4>2. Len(chClients) \in Nat /\ MaxClients \in Nat
          BY ScannerAssumption DEF WiFiInv, WiFiTypeOK
        <4>. QED BY <1>8, <4>1, <4>2
             DEF WiFiInv, WiFiTypeOK, onStationGotIP, async_client_init, SlotFree
      <3>. QED BY <1>8, <3>2 DEF WiFiInv, WiFiTypeOK, onStationGotIP
    <2>2. SelectInv'
      BY <1>8 DEF WiFiInv, SelectInv, onStationGotIP, async_client_init, SlotFree, WiFiTypeOK
    <2>3. ConnectInv'
      BY <1>8 DEF WiFiInv, ConnectInv, onStationGotIP, async_client_init, SlotFree, WiFiTypeOK
    <2>4. StationInv'
      BY <1>8 DEF WiFiInv, StationInv, onStationGotIP, async_client_init, SlotFree, WiFiTypeOK
    <2>5. ServerInv'
      <3>1. link \in AP /\ link = target /\ chClients \in Seq(AP) /\ Len(chClients) \in Nat
        BY <1>8 DEF WiFiInv, WiFiTypeOK, StationInv, onStationGotIP
      <3>2. chipWIFIChannel = Channel[link]
        BY <1>8, <3>1 DEF WiFiInv, StationInv, onStationGotIP
      <3>3. CASE SlotFree
        <4>1. chClients' = Append(chClients, link)
          BY <1>8, <3>3 DEF onStationGotIP, async_client_init
        <4>2. chClients' # <<>> /\ Last(chClients') = link
          BY <3>1, <4>1, AppendProperties DEF Last
        <4>. QED BY <1>8, <3>2, <4>2 DEF WiFiInv, ServerInv, onStationGotIP
      <3>4. CASE ~SlotFree
        <4>1. chClients # <<>>
          BY <3>1, <3>4, ScannerAssumption DEF SlotFree
        <4>. QED BY <1>8, <3>4, <4>1 DEF WiFiInv, ServerInv, onStationGotIP
      <3>. QED BY <3>3, <3>4
    <2>. QED BY <2>1, <2>2, <2>3, <2>4, <2>5 DEF WiFiInv
  <1>9. CASE onStationDisconnected
    <2>1. WiFiTypeOK'
      BY <1>9 DEF WiFiInv, WiFiTypeOK, onStationDisconnected
    <2>2. SelectInv'
      BY <1>9 DEF WiFiInv, SelectInv, onStationDisconnected, WiFiTypeOK
    <2>3. ConnectInv'
      BY <1>9 DEF WiFiInv, ConnectInv, onStationDisconnected, WiFiTypeOK
    <2>4. StationInv'
      BY <1>9 DEF WiFiInv, StationInv, onStationDisconnected, WiFiTypeOK
    <2>5. ServerInv'
      BY <1>9 DEF WiFiInv, ServerInv, onStationDisconnected, WiFiTypeOK
    <2>. QED BY <2>1, <2>2, <2>3, <2>4, <2>5 DEF WiFiInv
  <1>10. CASE Air
    <2>1. WiFiTypeOK'
      BY <1>10 DEF WiFiInv, WiFiTypeOK, Air, wifi
    <2>2. SelectInv'
      BY <1>10 DEF WiFiInv, SelectInv, Air, wifi, WiFiTypeOK
    <2>3. ConnectInv'
      BY <1>10 DEF WiFiInv, ConnectInv, Air, wifi, WiFiTypeOK
    <2>4. StationInv'
      BY <1>10 DEF WiFiInv, StationInv, Air, wifi, WiFiTypeOK
    <2>5. ServerInv'
      BY <1>10 DEF WiFiInv, ServerInv, Air, wifi, WiFiTypeOK
    <2>. QED BY <2>1, <2>2, <2>3, <2>4, <2>5 DEF WiFiInv
  <1>11. CASE UNCHANGED wifi_vars
    <2>1. WiFiTypeOK'
      BY <1>11 DEF WiFiInv, WiFiTypeOK, wifi_vars, wifi
    <2>2. SelectInv'
      BY <1>11 DEF WiFiInv, SelectInv, wifi_vars, wifi, WiFiTypeOK
    <2>3. ConnectInv'
      BY <1>11 DEF WiFiInv, ConnectInv, wifi_vars, wifi, WiFiTypeOK
    <2>4. StationInv'
      BY <1>11 DEF WiFiInv, StationInv, wifi_vars, wifi, WiFiTypeOK
    <2>5. ServerInv'
      BY <1>11 DEF WiFiInv, ServerInv, wifi_vars, wifi, WiFiTypeOK
    <2>. QED BY <2>1, <2>2, <2>3, <2>4, <2>5 DEF WiFiInv
  <1>. QED BY <1>1, <1>2, <1>3, <1>4, <1>5, <1>6, <1>7, <1>8, <1>9, <1>10, <1>11
       DEF WiFiNext, update

THEOREM WiFiInvariant == WiFiSpec => []WiFiInv
  BY WiFiInitInv, WiFiNextInv, PTL DEF WiFiSpec

\* The variables of the scanner keep their types; chClients never gets an element
\* behind its end.
THEOREM WiFiTypeCorrect == WiFiSpec => []WiFiTypeOK
  <1>1. WiFiInv => WiFiTypeOK
    BY DEF WiFiInv
  <1>. QED BY <1>1, WiFiInvariant, PTL

\* What is selected is the strongest of the valid access points the scan kept,
\* and its index still names a result when wifi_connect_beggin has slept.
THEOREM SelectionHolds == WiFiSpec => []Selection
  <1>1. WiFiInv => Selection
    BY DEF WiFiInv, SelectInv, ConnectInv, Chosen, First, Selection, BestIsStrongest,
           IndexValid
  <1>. QED BY <1>1, WiFiInvariant, PTL

\* A station that has a lease joins again only if the lease came while
\* wifi_connect_beggin yielded.
THEOREM JoinsOnlyIfNeeded == WiFiSpec => NoNeedlessJoin
  <1>1. WiFiInv /\ wifi_connect_beggin => ~is_client_connected \/ leased
    BY DEF WiFiInv, ConnectInv, wifi_connect_beggin
  <1>2. WiFiInv /\ [WiFiNext]_wifi_vars
          => [wifi_connect_beggin => ~is_client_connected \/ leased]_wifi_vars
    BY <1>1
  <1>. QED BY <1>2, WiFiInvariant, PTL DEF WiFiSpec, NoNeedlessJoin

\* The access point of the device is started once, after a lease, and on the
\* channel of the lease the station has.
THEOREM ApOnItsChannel == WiFiSpec => ApOnLeasedChannel
  <1>. DEFINE P == ap_channel # ap_channel' =>
                     /\ ap_channel = 0 /\ chClients # <<>>
                     /\ client_state = "full_available" =>
                          ap_channel' = Channel[Last(chClients)]
  <1>1. ASSUME WiFiInv, [WiFiNext]_wifi_vars PROVE P
    <2>1. CASE Servap
      BY <1>1, <2>1 DEF WiFiInv, ServerInv, Servap, MayStart, ap_server_start
    <2>2. CASE ~Servap
      <3>1. UNCHANGED ap_channel
        BY <1>1, <2>2
        DEF WiFiNext, update, Rescan, Select, CheckIndex, wifi_connect_beggin, wifi_scan_done,
            onStationConnected, onStationGotIP, onStationDisconnected, Air, wifi_vars
      <3>. QED BY <3>1
    <2>. QED BY <2>1, <2>2
  <1>2. WiFiInv /\ [WiFiNext]_wifi_vars => [P]_wifi_vars
    BY <1>1
  <1>. QED BY <1>2, WiFiInvariant, PTL DEF WiFiSpec, ApOnLeasedChannel
=============================================================================
