------------------------- MODULE TcpListener_proofs -------------------------
(***************************************************************************)
(* For all packets of all sizes, wherever recv cuts the stream: the        *)
(* listener calls the router with whole packets, in order.                 *)
(*                                                                         *)
(* The argument: a recv starts where a packet starts (Starts), because one *)
(* that ends inside a packet ends the thread: what is cut off then leaves  *)
(* nothing behind (Bytes(packet) = 0), and get_size raises on nothing.     *)
(* What was split off is counted by the tries that are left (Splitting).   *)
(***************************************************************************)
EXTENDS TcpListener, FiniteSetTheorems, TLAPS

\* The packets sent fill the stream, one after the other.
Boundary(x) == x = total \/ \E e \in sent : e.lo = x

StreamInv ==
  /\ Boundary(0)
  /\ \A e \in sent : e.lo < e.hi /\ e.hi <= total /\ Boundary(e.hi)

\* What the listener has in hand.
Whole(d) == \E e \in sent : Is(d, e)
AllWhole(s) == \A i \in DOMAIN s : Whole(s[i])

HandInv ==
  /\ listener \in {"size", "split", "cut", "got"} => chunk.hi = read
  /\ listener \in {"size", "split", "cut"} => packet.hi = read
  /\ listener = "size" => splited_packets = <<>> /\ packet.lo < packet.hi

InStep ==
  /\ listener = "recv" => Boundary(read)
  /\ listener = "size" => Boundary(packet.lo)
  /\ listener = "split" =>
       /\ AllWhole(splited_packets)
       /\ \E e \in sent : e.lo = packet.lo /\ Bytes(e) = packet_size
  /\ listener = "cut" =>
       Bytes(packet) = 0 \/ (AllWhole(splited_packets) /\ Boundary(packet.lo))
  /\ listener = "got" => AllWhole(splited_packets) /\ Boundary(read)

SyncInv == ~astray => InStep

WholeInv == TypeOK /\ StreamInv /\ HandInv /\ SyncInv /\ WholePackets

---------------------------------------------------------------------------
(* The stream grows; what is whole stays whole.                            *)

LEMMA SpanBytes == ASSUME NEW lo, NEW hi PROVE Bytes(Span(lo, hi)) = hi - lo
BY DEF Bytes, Span

LEMMA Grows ==
  ASSUME TypeOK, StreamInv, NEW p \in Packet, send_raw(p)
  PROVE  /\ TypeOK'
         /\ StreamInv'
         /\ \A x : Boundary(x) => Boundary(x)'
         /\ \A d : Whole(d) => Whole(d)'
<1> DEFINE e == [content |-> p, lo |-> total, hi |-> total + Size[p]]
<1>1. e \in Sent /\ e.lo = total /\ e.hi = total + Size[p] /\ Size[p] \in Nat \ {0}
  BY StreamAssumption DEF Sent, TypeOK
<1>2. sent' = sent \cup {e} /\ total' = total + Size[p]
  BY DEF send_raw
<1>3. TypeOK'
  <2>1. total' \in Nat /\ read \in 0..total'
    BY <1>1, <1>2 DEF TypeOK
  <2> QED BY <1>1, <1>2, <2>1 DEF TypeOK, send_raw, local
<1>4. \A x : Boundary(x) => Boundary(x)'
  BY <1>1, <1>2 DEF Boundary
<1>5. \A d : Whole(d) => Whole(d)'
  BY <1>2 DEF Whole
<1>6. StreamInv'
  <2>1. Boundary(0)'
    BY <1>4 DEF StreamInv
  <2>2. ASSUME NEW f \in sent'
        PROVE  f.lo < f.hi /\ f.hi <= total' /\ Boundary(f.hi)'
    <3>1. CASE f \in sent
      <4>1. f.lo < f.hi /\ f.hi <= total /\ Boundary(f.hi) /\ f.hi \in Nat
        BY <3>1 DEF StreamInv, TypeOK, Sent
      <4> QED BY <4>1, <1>1, <1>2, <1>4 DEF TypeOK
    <3>2. CASE f = e
      BY <3>2, <1>1, <1>2 DEF Boundary, TypeOK
    <3> QED BY <2>2, <3>1, <3>2, <1>2
  <2> QED BY <2>1, <2>2 DEF StreamInv
<1> QED BY <1>3, <1>4, <1>5, <1>6

\* Where get_size reads inside the stream at a boundary, a packet starts.
LEMMA BoundarySize ==
  ASSUME TypeOK, StreamInv, NEW x \in Nat, x < total, Boundary(x), NEW n, n \in get_size(x)
  PROVE  \E e \in sent : e.lo = x /\ Bytes(e) = n
<1>1. \E e \in sent : e.lo = x
  BY DEF Boundary, TypeOK
<1> QED BY <1>1 DEF get_size

LEMMA SizeType ==
  ASSUME TypeOK, StreamInv, NEW x, NEW n \in get_size(x)
  PROVE  n \in Nat
<1>1. CASE \E e \in sent : e.lo = x
  <2>1. PICK e \in sent : n = Bytes(e)
    BY <1>1 DEF get_size
  <2>2. e.lo \in Nat /\ e.hi \in Nat /\ e.lo < e.hi
    BY DEF TypeOK, StreamInv, Sent
  <2> QED BY <2>1, <2>2 DEF Bytes
<1>2. CASE ~\E e \in sent : e.lo = x
  BY <1>2, StreamAssumption DEF get_size
<1> QED BY <1>1, <1>2

\* Data that is as long as the packet at its start is that packet.
LEMMA FullData ==
  ASSUME TypeOK, StreamInv, NEW e \in sent, e.lo = packet.lo, Bytes(e) = Bytes(packet)
  PROVE  Is(packet, e) /\ Whole(packet) /\ Boundary(packet.hi)
<1>1. e.lo \in Nat /\ e.hi \in Nat /\ packet.lo \in Nat /\ packet.hi \in Nat
  BY DEF TypeOK, Sent, Spans
<1>2. e.hi = packet.hi
  BY <1>1 DEF Bytes
<1> QED BY <1>2 DEF Is, Whole, StreamInv

LEMMA CutType ==
  ASSUME TypeOK
  PROVE  /\ Cut(packet_size) \in packet.lo..packet.hi
         /\ Span(packet.lo, Cut(packet_size)) \in Spans
         /\ Span(Cut(packet_size), packet.hi) \in Spans
<1>1. packet.lo \in Nat /\ packet.hi \in Nat /\ packet_size \in Nat /\ packet.lo <= packet.hi
  BY DEF TypeOK, Spans
<1>2. Cut(packet_size) \in packet.lo..packet.hi
  BY <1>1 DEF Cut
<1> QED BY <1>1, <1>2 DEF Span, Spans

---------------------------------------------------------------------------
(* Types.                                                                  *)

LEMMA TypeInit == Init => TypeOK
<1> SUFFICES ASSUME Init PROVE TypeOK
  OBVIOUS
<1>1. astray \in BOOLEAN
  BY DEF Init
<1>2. tries \in 0..MaxTries
  BY StreamAssumption DEF Init
<1> QED BY <1>1, <1>2 DEF Init, TypeOK, Span, Spans

LEMMA TypeNext == TypeOK /\ StreamInv /\ [Next]_vars => TypeOK'
<1> SUFFICES ASSUME TypeOK, StreamInv, [Next]_vars PROVE TypeOK'
  OBVIOUS
<1>1. CASE \E p \in Packet : send_raw(p)
  BY <1>1, Grows
<1>2. CASE SendRaises
  BY <1>2 DEF SendRaises, TypeOK, local
<1>3. CASE stop
  BY <1>3 DEF stop, TypeOK, local
<1>4. ASSUME NEW k \in 1..MaxRecv, Recv(k) PROVE TypeOK'
  <2>1. read + k \in 0..total /\ read <= read + k /\ read \in Nat /\ k \in Nat
    BY <1>4, StreamAssumption DEF Recv, TypeOK
  <2>2. packet' \in Spans /\ packet'.lo = read /\ packet'.hi = read + k
    BY <1>4, <2>1 DEF Recv, Span, Spans
  <2> QED BY <1>4, <2>1, <2>2 DEF Recv, TypeOK
<1>5. CASE RecvNothing
  BY <1>5 DEF RecvNothing, TypeOK, local
<1>6. CASE SizeRaises
  BY <1>6 DEF SizeRaises, TypeOK, local
<1>7. CASE CheckSize
  <2>1. packet_size' \in Nat
    BY <1>7, SizeType DEF CheckSize
  <2>2. <<packet>> \in Seq(Spans) /\ MaxTries \in 0..MaxTries
    BY StreamAssumption DEF TypeOK
  <2>3. splited_packets' \in Seq(Spans) /\ tries' \in 0..MaxTries /\ listener' \in {"got", "split"}
    BY <1>7, <2>2 DEF CheckSize, TypeOK
  <2> QED BY <1>7, <2>1, <2>3 DEF CheckSize, TypeOK
<1>8. CASE Split
  <2> DEFINE top == Span(packet.lo, Cut(packet_size))
  <2>1. /\ Cut(packet_size) \in packet.lo..packet.hi /\ top \in Spans
        /\ Span(Cut(packet_size), packet.hi) \in Spans
    BY CutType
  <2>2. splited_packets' \in {splited_packets, Append(splited_packets, top)}
    BY <1>8 DEF Split
  <2>3. splited_packets' \in Seq(Spans)
    BY <2>1, <2>2 DEF TypeOK
  <2>4. packet' = Span(Cut(packet_size), packet.hi)
    BY <1>8 DEF Split, Span
  <2>5. packet' \in Spans /\ packet'.lo <= packet'.hi /\ packet'.hi <= read
    BY <2>1, <2>4 DEF Span, TypeOK, Spans
  <2>6. tries' \in 0..MaxTries
    <3>1. tries' = tries - 1 /\ tries > 0 /\ tries \in 0..MaxTries /\ MaxTries \in Nat
      BY <1>8, StreamAssumption DEF Split, TypeOK
    <3> QED BY <3>1
  <2> QED BY <1>8, <2>3, <2>5, <2>6 DEF Split, TypeOK
<1>9. CASE Resize
  <2>1. packet_size' \in Nat
    BY <1>9, SizeType DEF Resize
  <2> QED BY <1>9, <2>1 DEF Resize, TypeOK
<1>10. CASE NoTriesLeft
  <2>1. astray' \in BOOLEAN
    BY <1>10 DEF NoTriesLeft, TypeOK
  <2> QED BY <1>10, <2>1 DEF NoTriesLeft, TypeOK, local
<1>11. CASE GotPacket
  <2>1. /\ Head(splited_packets) \in Spans /\ Tail(splited_packets) \in Seq(Spans)
        /\ Append(delivered, Head(splited_packets)) \in Seq(Spans)
    BY <1>11 DEF GotPacket, TypeOK
  <2> QED BY <1>11, <2>1 DEF GotPacket, TypeOK
<1>12. CASE Again
  BY <1>12 DEF Again, TypeOK, local
<1>13. CASE UNCHANGED vars
  BY <1>13 DEF vars, TypeOK, local
<1> QED
  BY <1>1, <1>2, <1>3, <1>4, <1>5, <1>6, <1>7, <1>8, <1>9, <1>10, <1>11, <1>12, <1>13 DEF Next

---------------------------------------------------------------------------
(* Whole packets.                                                          *)

LEMMA WholeInit == Init => WholeInv
<1> SUFFICES ASSUME Init PROVE WholeInv
  OBVIOUS
<1>1. TypeOK
  BY TypeInit
<1>2. StreamInv
  BY DEF Init, StreamInv, Boundary
<1>3. HandInv /\ SyncInv /\ WholePackets
  BY DEF Init, HandInv, SyncInv, InStep, WholePackets, Boundary
<1> QED BY <1>1, <1>2, <1>3 DEF WholeInv

\* Steps of the sender: what was whole, and in step, stays so.
LEMMA SenderNext ==
  ASSUME WholeInv, NEW p \in Packet, send_raw(p)
  PROVE  HandInv' /\ SyncInv' /\ WholePackets'
<1>1. /\ UNCHANGED <<sender, read, listener, local, delivered, astray>>
      /\ UNCHANGED <<chunk, packet, packet_size, tries, splited_packets>>
      /\ sent \subseteq sent'
  BY DEF send_raw, local
<1>2. (\A x : Boundary(x) => Boundary(x)') /\ (\A d : Whole(d) => Whole(d)')
  BY Grows DEF WholeInv
<1>3. HandInv'
  BY <1>1 DEF HandInv, WholeInv
<1>4. AllWhole(splited_packets) => AllWhole(splited_packets)'
  BY <1>1, <1>2 DEF AllWhole, Whole, Is
<1>5. SyncInv'
  <2> SUFFICES ASSUME ~astray' PROVE InStep'
    BY DEF SyncInv
  <2>1. InStep
    BY <1>1 DEF SyncInv, WholeInv
  <2>2. listener' = "recv" => Boundary(read)'
    BY <2>1, <1>1, <1>2 DEF InStep, Boundary
  <2>3. listener' = "size" => Boundary(packet.lo)'
    BY <2>1, <1>1, <1>2 DEF InStep, Boundary
  <2>4. listener' = "split" =>
          /\ AllWhole(splited_packets)'
          /\ \E e \in sent' : e.lo = packet'.lo /\ Bytes(e) = packet_size'
    BY <2>1, <1>1, <1>4 DEF InStep
  <2>5. listener' = "cut" =>
          Bytes(packet') = 0 \/ (AllWhole(splited_packets)' /\ Boundary(packet.lo)')
    BY <2>1, <1>1, <1>2, <1>4 DEF InStep, Boundary
  <2>6. listener' = "got" => AllWhole(splited_packets)' /\ Boundary(read)'
    BY <2>1, <1>1, <1>2, <1>4 DEF InStep, Boundary
  <2> QED BY <2>2, <2>3, <2>4, <2>5, <2>6 DEF InStep
<1>6. WholePackets'
  BY <1>1 DEF WholePackets, WholeInv
<1> QED BY <1>3, <1>5, <1>6

\* A step that leaves stream, what was delivered and the listener alone.
LEMMA SameStream ==
  ASSUME StreamInv, UNCHANGED <<sent, total>>
  PROVE  /\ StreamInv'
         /\ \A x : Boundary(x)' <=> Boundary(x)
         /\ \A d : Whole(d)' <=> Whole(d)
BY DEF StreamInv, Boundary, Whole

LEMMA WholeNext == WholeInv /\ [Next]_vars => WholeInv'
<1> SUFFICES ASSUME WholeInv, [Next]_vars PROVE WholeInv'
  OBVIOUS
<1> USE DEF WholeInv
<1>0. TypeOK'
  BY TypeNext
<1>1. CASE \E p \in Packet : send_raw(p)
  <2>1. PICK p \in Packet : send_raw(p)
    BY <1>1
  <2>2. StreamInv'
    BY <2>1, Grows
  <2>3. HandInv' /\ SyncInv' /\ WholePackets'
    BY <2>1, SenderNext
  <2> QED BY <1>0, <2>2, <2>3
<1>2. ASSUME UNCHANGED <<sent, total>>,
             HandInv', ~astray' => ~astray, ~astray' /\ InStep => InStep',
             ~astray' /\ InStep => UNCHANGED delivered
      PROVE  WholeInv'
  <2>1. StreamInv'
    BY <1>2, SameStream
  <2>2. SyncInv'
    BY <1>2 DEF SyncInv
  <2>3. WholePackets'
    BY <1>2 DEF WholePackets, SyncInv
  <2> QED BY <1>0, <1>2, <2>1, <2>2, <2>3
<1>3. CASE SendRaises \/ stop \/ RecvNothing \/ SizeRaises
  BY <1>2, <1>3 DEF SendRaises, stop, RecvNothing, SizeRaises, local, HandInv, InStep,
                    AllWhole, Whole, Is, Boundary, Bytes
<1>4. ASSUME NEW k \in 1..MaxRecv, Recv(k) PROVE WholeInv'
  <2>1. read \in Nat /\ k \in Nat \ {0}
    BY <1>4, StreamAssumption DEF TypeOK
  <2>2. packet'.lo = read /\ packet'.hi = read + k /\ chunk'.hi = read + k
    BY <1>4 DEF Recv, Span
  <2>3. HandInv'
    BY <1>4, <2>1, <2>2 DEF Recv, HandInv
  <2>4. InStep => InStep'
    BY <1>4, <2>2 DEF Recv, InStep, Boundary
  <2> QED BY <1>2, <1>4, <2>3, <2>4 DEF Recv
<1>5. CASE CheckSize
  <2>1. UNCHANGED <<sent, total, read, chunk, packet, delivered, astray>>
    BY <1>5 DEF CheckSize
  <2>2. listener = "size" /\ listener' \in {"got", "split"} /\ splited_packets = <<>>
    BY <1>5 DEF CheckSize, HandInv
  <2>3. HandInv'
    BY <2>1, <2>2 DEF HandInv
  <2>4. ASSUME InStep PROVE InStep'
    <3>1. packet.lo \in Nat /\ packet.lo < total /\ Boundary(packet.lo)
      BY <2>2, <2>4 DEF InStep, HandInv, TypeOK, Spans
    <3>2. PICK e \in sent : e.lo = packet.lo /\ Bytes(e) = packet_size'
      BY <1>5, <3>1, BoundarySize DEF CheckSize
    <3>3. CASE packet_size' = Bytes(packet)
      <4>1. Whole(packet) /\ Boundary(packet.hi)
        BY <3>2, <3>3, FullData
      <4>2. listener' = "got" /\ splited_packets' = <<packet>>
        BY <1>5, <3>3 DEF CheckSize
      <4>3. AllWhole(splited_packets)'
        BY <4>1, <4>2, <2>1 DEF AllWhole, Whole
      <4>4. Boundary(read)'
        BY <4>1, <2>1, <2>2 DEF HandInv, Boundary
      <4> QED BY <4>2, <4>3, <4>4 DEF InStep
    <3>4. CASE packet_size' # Bytes(packet)
      <4>1. listener' = "split" /\ splited_packets' = <<>>
        BY <1>5, <3>4, <2>2 DEF CheckSize
      <4>2. AllWhole(splited_packets)'
        BY <4>1 DEF AllWhole
      <4> QED BY <4>1, <4>2, <3>2, <2>1 DEF InStep
    <3> QED BY <3>3, <3>4
  <2> QED BY <1>2, <2>1, <2>3, <2>4
<1>6. CASE Split
  <2> DEFINE top == Span(packet.lo, Cut(packet_size))
  <2>1. /\ UNCHANGED <<sent, total, read, chunk, delivered, astray>>
        /\ listener = "split" /\ listener' = "cut"
    BY <1>6 DEF Split
  <2>2. packet'.lo = Cut(packet_size) /\ packet'.hi = packet.hi
    BY <1>6 DEF Split, Span
  <2>3. HandInv'
    BY <2>1, <2>2 DEF HandInv
  <2>4. ASSUME InStep PROVE InStep'
    <3>1. PICK e \in sent : e.lo = packet.lo /\ Bytes(e) = packet_size
      BY <2>1, <2>4 DEF InStep
    <3>2. e.lo \in Nat /\ e.hi \in Nat /\ packet.lo \in Nat /\ packet.hi \in Nat
      BY DEF TypeOK, Sent, Spans
    <3>3. packet.lo + packet_size = e.hi
      BY <3>1, <3>2 DEF Bytes
    <3>4. CASE e.hi <= packet.hi
      <4>1. Cut(packet_size) = e.hi
        BY <3>3, <3>4 DEF Cut
      <4>2. Whole(top)
        BY <3>1, <4>1 DEF Whole, Is, Span
      <4>3. splited_packets' \in {splited_packets, Append(splited_packets, top)}
        BY <1>6 DEF Split
      <4>4. AllWhole(splited_packets) /\ splited_packets \in Seq(Spans) /\ top \in Spans
        BY <2>1, <2>4, CutType DEF InStep, TypeOK
      <4>5. AllWhole(Append(splited_packets, top))
        BY <4>2, <4>4 DEF AllWhole
      <4>6. AllWhole(splited_packets)'
        BY <4>3, <4>4, <4>5, <2>1 DEF AllWhole, Whole
      <4>7. Boundary(packet.lo)'
        BY <4>1, <2>1, <2>2 DEF StreamInv, Boundary
      <4> QED BY <4>6, <4>7, <2>1 DEF InStep
    <3>5. CASE ~(e.hi <= packet.hi)
      <4>1. packet'.lo = packet'.hi
        BY <3>3, <3>5, <2>2 DEF Cut
      <4>2. packet'.hi - packet'.lo = 0
        <5>1. packet'.hi \in Nat
          BY <2>2, <3>2
        <5> QED BY <4>1, <5>1
      <4>3. Bytes(packet)' = 0
        BY <4>2 DEF Bytes
      <4> QED BY <4>3, <2>1 DEF InStep
    <3> QED BY <3>4, <3>5
  <2> QED BY <1>2, <2>1, <2>3, <2>4
<1>7. CASE Resize
  <2>1. /\ UNCHANGED <<sent, total, read, chunk, packet, splited_packets, delivered, astray>>
        /\ listener = "cut" /\ listener' \in {"got", "split"}
        /\ Bytes(packet) >= SizeBytes
    BY <1>7 DEF Resize
  <2>2. HandInv'
    BY <2>1 DEF HandInv
  <2>3. ASSUME InStep PROVE InStep'
    <3>1. packet.lo \in Nat /\ packet.hi \in Nat /\ packet.hi <= total
      BY DEF TypeOK, Spans
    <3>2. Bytes(packet) # 0 /\ packet.lo < total
      BY <2>1, <3>1, StreamAssumption DEF Bytes, TypeOK
    <3>3. AllWhole(splited_packets) /\ Boundary(packet.lo)
      BY <2>1, <2>3, <3>2 DEF InStep
    <3>4. PICK e \in sent : e.lo = packet.lo /\ Bytes(e) = packet_size'
      BY <1>7, <3>1, <3>2, <3>3, BoundarySize DEF Resize
    <3>5. AllWhole(splited_packets)'
      BY <2>1, <3>3 DEF AllWhole, Whole
    <3>6. CASE packet_size' = Bytes(packet)
      <4>1. Boundary(packet.hi)
        BY <3>4, <3>6, FullData
      <4>2. listener' = "got"
        BY <1>7, <3>6 DEF Resize
      <4>3. Boundary(read)'
        BY <4>1, <2>1 DEF HandInv, Boundary
      <4> QED BY <3>5, <4>2, <4>3 DEF InStep
    <3>7. CASE packet_size' # Bytes(packet)
      <4>1. listener' = "split"
        BY <1>7, <3>7 DEF Resize
      <4> QED BY <3>5, <3>4, <4>1, <2>1 DEF InStep
    <3> QED BY <3>6, <3>7
  <2> QED BY <1>2, <2>1, <2>2, <2>3
<1>8. CASE NoTriesLeft
  <2>1. /\ UNCHANGED <<sent, total, read, chunk, packet, splited_packets, delivered>>
        /\ listener = "split" /\ listener' = "got"
    BY <1>8 DEF NoTriesLeft, local
  <2>2. ~astray' => ~astray /\ \E e \in sent : e.hi = chunk.hi
    BY <1>8 DEF NoTriesLeft
  <2>3. HandInv'
    BY <2>1 DEF HandInv
  <2>4. ASSUME ~astray', InStep PROVE InStep'
    <3>1. Boundary(read)'
      BY <2>1, <2>2, <2>4 DEF HandInv, StreamInv, Boundary
    <3>2. AllWhole(splited_packets)'
      BY <2>1, <2>4 DEF InStep, AllWhole, Whole
    <3> QED BY <2>1, <3>1, <3>2 DEF InStep
  <2> QED BY <1>2, <2>1, <2>2, <2>3, <2>4
<1>9. CASE GotPacket
  <2>1. /\ UNCHANGED <<sent, total, read, chunk, packet, astray>>
        /\ listener = "got" /\ listener' = "got" /\ splited_packets # <<>>
        /\ splited_packets' = Tail(splited_packets)
        /\ delivered' = Append(delivered, Head(splited_packets))
    BY <1>9 DEF GotPacket
  <2>2. HandInv'
    BY <2>1 DEF HandInv
  <2>3. StreamInv'
    BY <2>1, SameStream
  <2>4. ASSUME ~astray' PROVE InStep' /\ \A i \in DOMAIN delivered' : Whole(delivered'[i])
    <3>1. AllWhole(splited_packets) /\ Boundary(read) /\ splited_packets \in Seq(Spans)
      BY <2>1, <2>4 DEF SyncInv, InStep, TypeOK
    <3>2. Whole(Head(splited_packets)) /\ AllWhole(Tail(splited_packets))
      BY <2>1, <3>1 DEF AllWhole
    <3>3. AllWhole(splited_packets)' /\ Boundary(read)'
      BY <2>1, <3>1, <3>2 DEF AllWhole, Whole, Boundary
    <3>4. delivered \in Seq(Spans) /\ \A i \in DOMAIN delivered : Whole(delivered[i])
      BY <2>1, <2>4 DEF WholePackets, Whole, TypeOK
    <3>5. \A i \in DOMAIN delivered' : Whole(delivered'[i])
      BY <2>1, <3>2, <3>4
    <3> QED BY <2>1, <3>3, <3>5 DEF InStep
  <2>5. SyncInv' /\ WholePackets'
    BY <2>1, <2>4 DEF SyncInv, WholePackets, Whole
  <2> QED BY <1>0, <2>2, <2>3, <2>5
<1>10. CASE Again
  BY <1>2, <1>10 DEF Again, local, HandInv, InStep, Boundary
<1>11. CASE UNCHANGED vars
  BY <1>2, <1>11 DEF vars, local, HandInv, InStep, AllWhole, Whole, Is, Boundary, Bytes
<1> QED BY <1>1, <1>3, <1>4, <1>5, <1>6, <1>7, <1>8, <1>9, <1>10, <1>11 DEF Next

THEOREM WholeInvariant == Spec => []WholeInv
<1>1. Init => WholeInv
  BY WholeInit
<1>2. WholeInv /\ [Next]_vars => WholeInv'
  BY WholeNext
<1> QED BY <1>1, <1>2, PTL DEF Spec

\* Positions and sizes stay within the stream, whatever bytes get_size reads.
THEOREM TypeCorrect == Spec => []TypeOK
BY WholeInvariant, PTL DEF WholeInv

\* Wherever recv cuts the stream, the router gets nothing but whole packets.
THEOREM DeliversWholePackets == Spec => []WholePackets
BY WholeInvariant, PTL DEF WholeInv

---------------------------------------------------------------------------
(* Order.                                                                  *)

Ordered(s) == \A i, j \in DOMAIN s : i < j => s[i].hi <= s[j].lo

Within(s, limit) == \A i \in DOMAIN s : s[i].lo <= s[i].hi /\ s[i].hi <= limit

Before(s, t) == \A i \in DOMAIN s : \A j \in DOMAIN t : s[i].hi <= t[j].lo

\* What the listener has taken of the stream so far.
Limit == IF listener \in {"size", "split", "cut"} THEN packet.lo ELSE read

OrderInv ==
  /\ Ordered(delivered) /\ Within(delivered, Limit)
  /\ Ordered(splited_packets) /\ Within(splited_packets, Limit)
  /\ Before(delivered, splited_packets)

LEMMA AppendInOrder ==
  ASSUME NEW s \in Seq(Spans), NEW d \in Spans, NEW m \in Nat, NEW n \in Nat,
         Ordered(s), Within(s, m), m <= d.lo, d.lo <= d.hi, d.hi <= n
  PROVE  Ordered(Append(s, d)) /\ Within(Append(s, d), n)
<1> DEFINE t == Append(s, d)
<1>1. /\ DOMAIN t = DOMAIN s \cup {Len(s) + 1} /\ DOMAIN s = 1..Len(s) /\ Len(s) \in Nat
      /\ t[Len(s) + 1] = d /\ \A i \in DOMAIN s : t[i] = s[i] /\ s[i] \in Spans
  OBVIOUS
<1>2. \A i \in DOMAIN s : s[i].lo \in Nat /\ s[i].hi \in Nat
  BY <1>1 DEF Spans
<1>3. d.lo \in Nat /\ d.hi \in Nat
  BY DEF Spans
<1>4. \A i \in DOMAIN s : s[i].hi <= d.lo /\ s[i].hi <= n
  BY <1>2, <1>3 DEF Within
<1>5. Ordered(t)
  BY <1>1, <1>4 DEF Ordered
<1>6. Within(t, n)
  BY <1>1, <1>4 DEF Within
<1> QED BY <1>5, <1>6

LEMMA WithinMore ==
  ASSUME NEW s \in Seq(Spans), NEW m \in Nat, NEW n \in Nat, m <= n, Within(s, m)
  PROVE  Within(s, n)
<1> SUFFICES ASSUME NEW i \in DOMAIN s PROVE s[i].lo <= s[i].hi /\ s[i].hi <= n
  BY DEF Within
<1>1. s[i].lo <= s[i].hi /\ s[i].hi <= m
  BY DEF Within
<1>2. s[i] \in Spans
  OBVIOUS
<1>3. s[i].hi \in Nat
  BY <1>2 DEF Spans
<1> QED BY <1>1, <1>3

\* Taking more of the stream with the same packets in hand keeps the order.
LEMMA SameInHand ==
  ASSUME TypeOK, TypeOK', OrderInv, UNCHANGED <<delivered, splited_packets>>, Limit <= Limit'
  PROVE  OrderInv'
<1>1. Limit \in Nat /\ Limit' \in Nat
  BY DEF Limit, TypeOK, Spans
<1>2. Within(delivered, Limit)' /\ Within(splited_packets, Limit)'
  <2>1. Within(delivered, Limit') /\ Within(splited_packets, Limit')
    BY <1>1, WithinMore DEF OrderInv, TypeOK
  <2> QED BY <2>1 DEF Within
<1> QED BY <1>2 DEF OrderInv, Ordered, Before

LEMMA OrderNext == WholeInv /\ OrderInv /\ [Next]_vars => OrderInv'
<1> SUFFICES ASSUME WholeInv, OrderInv, [Next]_vars PROVE OrderInv'
  OBVIOUS
<1>1. TypeOK /\ TypeOK' /\ HandInv
  BY TypeNext DEF WholeInv
<1>2. /\ read \in Nat /\ packet.lo \in Nat /\ packet.lo <= read /\ Limit \in Nat
      /\ delivered \in Seq(Spans) /\ splited_packets \in Seq(Spans)
  BY <1>1 DEF TypeOK, Spans, Limit
<1>3. CASE UNCHANGED <<delivered, splited_packets, listener, packet, read>>
  BY <1>1, <1>2, <1>3, SameInHand DEF Limit
<1>4. CASE RecvNothing \/ SizeRaises \/ Again
  BY <1>1, <1>2, <1>4, SameInHand DEF RecvNothing, SizeRaises, Again, Limit, local
<1>5. ASSUME NEW k \in 1..MaxRecv, Recv(k) PROVE OrderInv'
  <2>1. /\ packet'.lo = read /\ splited_packets' = <<>> /\ delivered' = delivered
        /\ listener = "recv" /\ listener' = "size"
    BY <1>5 DEF Recv, Span
  <2>2. Limit' = Limit
    BY <2>1 DEF Limit
  <2> QED BY <2>1, <2>2 DEF OrderInv, Ordered, Within, Before
<1>6. CASE CheckSize
  <2>1. /\ splited_packets = <<>> /\ delivered' = delivered /\ listener = "size"
        /\ packet' = packet /\ read' = read /\ packet.hi = read
        /\ packet \in Spans /\ packet.lo <= packet.hi
    BY <1>1, <1>6 DEF CheckSize, HandInv, TypeOK
  <2>2. CASE listener' = "got" /\ splited_packets' = <<packet>>
    <3>1. Limit' = read /\ Limit = packet.lo
      BY <2>1, <2>2 DEF Limit
    <3>2. Within(delivered, read) /\ Ordered(delivered) /\ Before(delivered, <<packet>>)
      <4>1. Within(delivered, packet.lo) /\ Ordered(delivered)
        BY <3>1 DEF OrderInv
      <4>2. Within(delivered, read)
        BY <1>2, <4>1, WithinMore
      <4>3. Before(delivered, <<packet>>)
        BY <4>1 DEF Within, Before
      <4> QED BY <4>1, <4>2, <4>3
    <3>3. Ordered(<<packet>>) /\ Within(<<packet>>, read)
      BY <1>2, <2>1 DEF Ordered, Within
    <3> QED BY <2>1, <2>2, <3>1, <3>2, <3>3 DEF OrderInv, Ordered, Within, Before
  <2>3. CASE listener' = "split" /\ splited_packets' = splited_packets
    BY <1>1, <1>2, <2>1, <2>3, SameInHand DEF Limit
  <2> QED BY <1>6, <2>2, <2>3 DEF CheckSize
<1>7. CASE Split
  <2> DEFINE top == Span(packet.lo, Cut(packet_size))
  <2>1. /\ delivered' = delivered /\ listener = "split" /\ listener' = "cut"
        /\ packet'.lo = top.hi /\ top.lo = packet.lo
        /\ splited_packets' \in {splited_packets, Append(splited_packets, top)}
    BY <1>7 DEF Split, Span
  <2>2. top \in Spans /\ top.lo <= top.hi /\ top.hi \in Nat
    BY <1>1, CutType DEF Span, Spans, TypeOK
  <2>3. Limit = packet.lo /\ Limit' = top.hi
    BY <2>1 DEF Limit
  <2>4. CASE splited_packets' = splited_packets
    BY <1>1, <2>1, <2>2, <2>3, <2>4, SameInHand
  <2>5. CASE splited_packets' = Append(splited_packets, top)
    <3>1. Ordered(splited_packets) /\ Within(splited_packets, packet.lo)
      BY <2>3 DEF OrderInv
    <3>2. Ordered(Append(splited_packets, top)) /\ Within(Append(splited_packets, top), top.hi)
      BY <1>2, <2>1, <2>2, <3>1, AppendInOrder
    <3>3. Ordered(delivered) /\ Within(delivered, packet.lo) /\ Before(delivered, splited_packets)
      BY <2>3 DEF OrderInv
    <3>4. Within(delivered, top.hi)
      BY <1>2, <2>1, <2>2, <3>3, WithinMore
    <3>5. Before(delivered, Append(splited_packets, top))
      BY <1>2, <2>1, <3>3 DEF Before, Within
    <3> QED BY <2>1, <2>3, <2>5, <3>2, <3>3, <3>4, <3>5 DEF OrderInv, Ordered, Within, Before
  <2> QED BY <2>1, <2>4, <2>5
<1>8. CASE Resize
  BY <1>1, <1>2, <1>8, SameInHand DEF Resize, Limit
<1>9. CASE NoTriesLeft
  BY <1>1, <1>2, <1>9, SameInHand DEF NoTriesLeft, Limit, local
<1>10. CASE GotPacket
  <2> DEFINE s == splited_packets
             h == Head(s)
             t == Tail(s)
  <2>1. /\ listener = "got" /\ s # <<>> /\ Limit' = Limit
        /\ delivered' = Append(delivered, h) /\ splited_packets' = t
    BY <1>10 DEF GotPacket, Limit
  <2>2. /\ s \in Seq(Spans) /\ h \in Spans /\ h = s[1] /\ t \in Seq(Spans)
        /\ 1 \in DOMAIN s /\ \A i \in DOMAIN t : i + 1 \in DOMAIN s /\ t[i] = s[i + 1] /\ i \in Nat \ {0}
    BY <1>2, <2>1
  <2>3. Ordered(t) /\ Within(t, Limit)
    BY <2>2 DEF OrderInv, Ordered, Within
  <2>4. Ordered(s) /\ Within(s, Limit) /\ Before(delivered, s) /\ Ordered(delivered)
        /\ Within(delivered, Limit)
    BY DEF OrderInv
  <2>5. \A j \in DOMAIN t : h.hi <= t[j].lo
    BY <2>2, <2>4 DEF Ordered
  <2>6. \A i \in DOMAIN delivered : delivered[i].hi <= h.lo
    BY <2>2, <2>4 DEF Before
  <2> DEFINE d == Append(delivered, h)
  <2>7. /\ DOMAIN d = DOMAIN delivered \cup {Len(delivered) + 1}
        /\ DOMAIN delivered = 1..Len(delivered) /\ Len(delivered) \in Nat
        /\ d[Len(delivered) + 1] = h /\ \A i \in DOMAIN delivered : d[i] = delivered[i]
    BY <1>2
  <2>8. Ordered(d)
    BY <2>4, <2>6, <2>7 DEF Ordered
  <2>9. Within(d, Limit)
    BY <2>2, <2>4, <2>7 DEF Within
  <2>10. Before(d, t)
    <3>1. \A i \in DOMAIN delivered : \A j \in DOMAIN t : delivered[i].hi <= t[j].lo
      BY <2>2, <2>4 DEF Before
    <3> QED BY <2>5, <2>7, <3>1 DEF Before
  <2> HIDE DEF d, t
  <2> QED BY <2>1, <2>3, <2>8, <2>9, <2>10 DEF OrderInv, Ordered, Within, Before, d, t
<1>11. CASE \E p \in Packet : send_raw(p)
  BY <1>3, <1>11 DEF send_raw, local
<1>12. CASE SendRaises \/ stop
  BY <1>3, <1>12 DEF SendRaises, stop, local
<1>13. CASE UNCHANGED vars
  BY <1>3, <1>13 DEF vars, local
<1> QED BY <1>4, <1>5, <1>6, <1>7, <1>8, <1>9, <1>10, <1>11, <1>12, <1>13 DEF Next

\* The router gets no byte of a connection twice and none out of order, even
\* after the listener has lost its place in the stream.
THEOREM DeliversInOrder == Spec => []InOrder
<1>1. Init => OrderInv
  BY DEF Init, OrderInv, Ordered, Within, Before
<1>2. WholeInv /\ OrderInv /\ [Next]_vars => OrderInv'
  BY OrderNext
<1>3. OrderInv => InOrder
  BY DEF OrderInv, Ordered, InOrder
<1> QED BY <1>1, <1>2, <1>3, WholeInvariant, PTL DEF Spec

---------------------------------------------------------------------------
(* What the router gets of the packets that come together.                 *)

\* No two packets share a byte.
Disjoint ==
  /\ IsFiniteSet(sent)
  /\ \A e, f \in sent : e = f \/ e.hi <= f.lo \/ f.hi <= e.lo

\* What ChunkServed promises of a packet.
Due(e) == \/ Is(chunk, e)
          \/ e.hi < chunk.hi /\ Cardinality(Earlier(e)) < MaxTries

InHand(e) == \E i \in DOMAIN splited_packets :
  splited_packets[i].lo >= chunk.lo /\ SameBytes(splited_packets[i], Span(e.lo, e.hi))

AtRouter(e) == \E i \in DOMAIN delivered :
  delivered[i].lo >= chunk.lo /\ SameBytes(delivered[i], Span(e.lo, e.hi))

\* The packets split off so far are those that end where the rest begins, as many
\* as tries have been used up.
Passed == {e \in InChunk : e.hi <= packet.lo}

Splitting ==
  /\ ~Whole(chunk)
  /\ Cardinality(Passed) + tries = MaxTries
  /\ \A e \in Passed : InHand(e)

ChunkInv ==
  /\ chunk.hi <= read
  /\ listener \in {"size", "split", "cut"} => chunk.lo <= packet.lo
  /\ listener = "size" => chunk = packet
  /\ listener \in {"split", "cut"} =>
       \A i \in DOMAIN splited_packets : splited_packets[i].lo >= chunk.lo

ServedInv ==
  ~astray =>
    /\ listener = "split" => Splitting
    /\ listener = "cut" => Bytes(packet) = 0 \/ Splitting
    /\ listener = "got" => \A e \in InChunk : Due(e) => InHand(e) \/ AtRouter(e)
    /\ listener = "recv" => \A e \in InChunk : Due(e) => AtRouter(e)

DueInv == Disjoint /\ ChunkInv /\ ServedInv

LEMMA DueInit == Init => DueInv
<1> SUFFICES ASSUME Init PROVE DueInv
  OBVIOUS
<1>1. Disjoint
  BY FS_EmptySet DEF Init, Disjoint
<1>2. InChunk = {}
  BY DEF Init, InChunk
<1> QED BY <1>1, <1>2 DEF Init, DueInv, ChunkInv, ServedInv, Span

\* A packet that is sent now lies behind all that has been read.
LEMMA SentBehind ==
  ASSUME TypeOK, StreamInv, DueInv, NEW p \in Packet, send_raw(p)
  PROVE  /\ Disjoint'
         /\ InChunk' = InChunk
         /\ \A e \in InChunk : Earlier(e)' = Earlier(e)
         /\ Whole(chunk)' => Whole(chunk)
         /\ \A c, d : SameBytes(c, d) => SameBytes(c, d)'
<1> DEFINE n == [content |-> p, lo |-> total, hi |-> total + Size[p]]
<1>1. /\ sent' = sent \cup {n} /\ n.lo = total /\ n.hi = total + Size[p]
      /\ Size[p] \in Nat \ {0} /\ total \in Nat /\ chunk' = chunk
  BY StreamAssumption DEF send_raw, TypeOK, local
<1>2. \A e \in sent : e.lo \in Nat /\ e.hi \in Nat /\ e.hi <= n.lo
  BY <1>1 DEF TypeOK, StreamInv, Sent
<1>3. chunk.hi \in Nat /\ chunk.hi <= total
  BY DEF TypeOK, Spans, DueInv, ChunkInv
<1>4. n.hi > chunk.hi /\ n.lo >= chunk.hi
  BY <1>1, <1>3
<1>5. Disjoint'
  <2>1. IsFiniteSet(sent')
    BY <1>1, FS_AddElement DEF DueInv, Disjoint
  <2>2. \A e, f \in sent' : e = f \/ e.hi <= f.lo \/ f.hi <= e.lo
    BY <1>1, <1>2 DEF DueInv, Disjoint
  <2> QED BY <2>1, <2>2 DEF Disjoint
<1>6. InChunk' = InChunk
  BY <1>1, <1>3, <1>4 DEF InChunk
<1>7. ASSUME NEW e \in InChunk PROVE Earlier(e)' = Earlier(e)
  BY <1>6 DEF Earlier
<1>8. Whole(chunk)' => Whole(chunk)
  BY <1>1, <1>3, <1>4 DEF Whole, Is
<1>9. ASSUME NEW c, NEW d, SameBytes(c, d) PROVE SameBytes(c, d)'
  BY <1>1, <1>9 DEF SameBytes
<1> QED BY <1>5, <1>6, <1>7, <1>8, <1>9

LEMMA SentDue ==
  ASSUME WholeInv, DueInv, NEW p \in Packet, send_raw(p)
  PROVE  DueInv'
<1>1. /\ UNCHANGED <<read, listener, delivered, astray>>
      /\ UNCHANGED <<chunk, packet, packet_size, tries, splited_packets>>
  BY DEF send_raw, local
<1>2. /\ Disjoint' /\ InChunk' = InChunk
      /\ \A e \in InChunk : Earlier(e)' = Earlier(e)
      /\ Whole(chunk)' => Whole(chunk)
      /\ \A c, d : SameBytes(c, d) => SameBytes(c, d)'
  BY SentBehind DEF WholeInv
<1>3. \A e \in InChunk : Due(e)' => Due(e)
  BY <1>1, <1>2 DEF Due, Is
<1>4. ASSUME NEW e, InHand(e) PROVE InHand(e)'
  <2>1. PICK i \in DOMAIN splited_packets :
          splited_packets[i].lo >= chunk.lo /\ SameBytes(splited_packets[i], Span(e.lo, e.hi))
    BY <1>4 DEF InHand
  <2>2. PICK c, d : c = splited_packets[i] /\ d = Span(e.lo, e.hi)
    OBVIOUS
  <2>3. SameBytes(c, d)'
    BY <1>2, <2>1, <2>2
  <2> QED BY <1>1, <2>1, <2>2, <2>3 DEF InHand, SameBytes
<1>5. ASSUME NEW e, AtRouter(e) PROVE AtRouter(e)'
  <2>1. PICK i \in DOMAIN delivered :
          delivered[i].lo >= chunk.lo /\ SameBytes(delivered[i], Span(e.lo, e.hi))
    BY <1>5 DEF AtRouter
  <2>2. PICK c, d : c = delivered[i] /\ d = Span(e.lo, e.hi)
    OBVIOUS
  <2>3. SameBytes(c, d)'
    BY <1>2, <2>1, <2>2
  <2> QED BY <1>1, <2>1, <2>2, <2>3 DEF AtRouter, SameBytes
<1>6. ChunkInv'
  BY <1>1 DEF DueInv, ChunkInv
<1>7. Passed' = Passed
  BY <1>1, <1>2 DEF Passed
<1>8. Splitting => Splitting'
  BY <1>1, <1>2, <1>4, <1>7 DEF Splitting
<1>9. ServedInv'
  BY <1>1, <1>2, <1>3, <1>4, <1>5, <1>8 DEF DueInv, ServedInv, Bytes
<1> QED BY <1>2, <1>6, <1>9 DEF DueInv

\* While neither stream nor chunk changes, neither does what is due.
LEMMA SameChunk ==
  ASSUME DueInv, UNCHANGED <<sent, chunk>>
  PROVE  /\ Disjoint'
         /\ InChunk' = InChunk
         /\ \A e : Due(e)' <=> Due(e)
         /\ Whole(chunk)' <=> Whole(chunk)
         /\ \A c, d : SameBytes(c, d)' <=> SameBytes(c, d)
<1>1. Disjoint'
  BY DEF DueInv, Disjoint
<1>2. InChunk' = InChunk
  BY DEF InChunk
<1>3. \A e : Earlier(e)' = Earlier(e)
  BY <1>2 DEF Earlier
<1>4. \A e : Due(e)' <=> Due(e)
  BY <1>3 DEF Due, Is
<1>5. Whole(chunk)' <=> Whole(chunk)
  BY DEF Whole, Is
<1>6. \A c, d : SameBytes(c, d)' <=> SameBytes(c, d)
  BY DEF SameBytes
<1> QED BY <1>1, <1>2, <1>4, <1>5, <1>6

\* Packets are where they are; a packet at the same place is the same packet.
LEMMA Places ==
  ASSUME WholeInv, DueInv
  PROVE  /\ \A e \in sent : e.lo \in Nat /\ e.hi \in Nat /\ e.lo < e.hi
         /\ \A e, f \in sent : e = f \/ e.hi <= f.lo \/ f.hi <= e.lo
         /\ \A e \in InChunk : e \in sent /\ chunk.lo <= e.lo /\ e.hi <= chunk.hi
         /\ chunk.lo \in Nat /\ chunk.hi \in Nat /\ packet.lo \in Nat /\ packet.hi \in Nat
         /\ IsFiniteSet(InChunk)
<1>1. \A e \in sent : e.lo \in Nat /\ e.hi \in Nat /\ e.lo < e.hi
  BY DEF WholeInv, TypeOK, StreamInv, Sent
<1>2. \A e, f \in sent : e = f \/ e.hi <= f.lo \/ f.hi <= e.lo
  BY DEF DueInv, Disjoint
<1>3. InChunk \subseteq sent /\ \A e \in InChunk : chunk.lo <= e.lo /\ e.hi <= chunk.hi
  BY DEF InChunk
<1>4. IsFiniteSet(InChunk)
  BY <1>3, FS_Subset DEF DueInv, Disjoint
<1>5. chunk.lo \in Nat /\ chunk.hi \in Nat /\ packet.lo \in Nat /\ packet.hi \in Nat
  BY DEF WholeInv, TypeOK, Spans
<1> QED BY <1>1, <1>2, <1>3, <1>4, <1>5

\* One recv that is one packet, or is more or less than one.
LEMMA CheckDue == ASSUME WholeInv, DueInv, CheckSize PROVE DueInv'
<1>1. /\ UNCHANGED <<sent, total, read, chunk, packet, delivered, astray>>
      /\ listener = "size" /\ splited_packets = <<>> /\ packet.lo < packet.hi
      /\ packet.hi = read /\ chunk = packet
      /\ listener' \in {"got", "split"} /\ packet_size' \in get_size(packet.lo)
      /\ splited_packets' \in {<<>>, <<packet>>}
  BY DEF CheckSize, WholeInv, HandInv, DueInv, ChunkInv
<1>2. /\ Disjoint' /\ InChunk' = InChunk /\ \A e : Due(e)' <=> Due(e)
      /\ Whole(chunk)' <=> Whole(chunk)
  BY <1>1, SameChunk
<1>3. ChunkInv'
  <2>1. chunk'.hi <= read' /\ chunk'.lo <= packet'.lo
    BY <1>1, Places DEF DueInv, ChunkInv
  <2>2. \A i \in DOMAIN splited_packets' : splited_packets'[i].lo >= chunk'.lo
    BY <1>1, Places
  <2> QED BY <1>1, <2>1, <2>2 DEF ChunkInv
<1>4. ASSUME ~astray PROVE ServedInv'
  <2>1. packet.lo \in Nat /\ packet.lo < total /\ Boundary(packet.lo)
    BY <1>1, <1>4, Places DEF WholeInv, SyncInv, InStep, TypeOK
  <2>2. PICK g \in sent : g.lo = packet.lo /\ Bytes(g) = packet_size'
    BY <1>1, <2>1, BoundarySize DEF WholeInv
  <2>3. CASE packet_size' = Bytes(packet)
    <3>1. Is(packet, g)
      BY <2>2, <2>3, FullData DEF WholeInv
    <3>2. listener' = "got" /\ splited_packets' = <<packet>>
      BY <2>3 DEF CheckSize
    <3>3. ASSUME NEW e \in InChunk PROVE InHand(e)'
      <4>1. e = g
        BY <1>1, <3>1, Places DEF Is
      <4>2. packet = Span(e.lo, e.hi)
        BY <3>1, <4>1 DEF Is, Span, WholeInv, TypeOK, Spans
      <4>3. packet.lo >= chunk.lo
        BY <1>1, Places
      <4>4. splited_packets'[1] = packet /\ 1 \in DOMAIN splited_packets'
        BY <3>2
      <4> QED BY <1>1, <4>2, <4>3, <4>4 DEF InHand, SameBytes
    <3> QED BY <1>2, <3>2, <3>3 DEF ServedInv
  <2>4. CASE packet_size' # Bytes(packet)
    <3>1. listener' = "split" /\ tries' = MaxTries
      BY <2>4 DEF CheckSize
    <3>2. ~Whole(chunk)
      <4> SUFFICES ASSUME NEW e \in sent, Is(chunk, e) PROVE FALSE
        BY DEF Whole
      <4>1. e = g
        BY <1>1, <2>2, Places DEF Is
      <4> QED BY <1>1, <2>2, <2>4, <4>1 DEF Is, Bytes
    <3>3. Passed' = {}
      BY <1>1, <1>2, Places DEF Passed
    <3>4. Cardinality(Passed') + tries' = MaxTries
      BY <3>1, <3>3, FS_EmptySet, StreamAssumption
    <3>5. Splitting'
      BY <1>2, <3>2, <3>3, <3>4 DEF Splitting
    <3> QED BY <3>1, <3>5 DEF ServedInv
  <2> QED BY <2>3, <2>4
<1> QED BY <1>1, <1>2, <1>3, <1>4 DEF DueInv, ServedInv

\* A packet is split off: one more has passed, and one try is used up.
LEMMA SplitDue == ASSUME WholeInv, DueInv, Split PROVE DueInv'
<1> DEFINE top == Span(packet.lo, Cut(packet_size))
<1>1. /\ UNCHANGED <<sent, total, read, chunk, delivered, astray>>
      /\ listener = "split" /\ listener' = "cut" /\ tries > 0 /\ tries' = tries - 1
      /\ packet'.lo = Cut(packet_size) /\ packet'.hi = packet.hi
      /\ splited_packets' = IF \E i \in DOMAIN splited_packets : SameBytes(splited_packets[i], top)
                            THEN splited_packets ELSE Append(splited_packets, top)
  BY DEF Split, Span
<1>2. /\ Disjoint' /\ InChunk' = InChunk
      /\ Whole(chunk)' <=> Whole(chunk)
      /\ \A c, d : SameBytes(c, d)' <=> SameBytes(c, d)
  BY <1>1, SameChunk
<1>3. /\ splited_packets \in Seq(Spans) /\ top \in Spans /\ top.lo = packet.lo
      /\ Cut(packet_size) \in packet.lo..packet.hi
      /\ packet.hi = read /\ chunk.hi = read /\ chunk.lo <= packet.lo
      /\ \A i \in DOMAIN splited_packets : splited_packets[i].lo >= chunk.lo
  BY <1>1, CutType DEF WholeInv, TypeOK, HandInv, DueInv, ChunkInv, Span
<1>4. /\ \A i \in DOMAIN splited_packets :
           i \in DOMAIN splited_packets' /\ splited_packets'[i] = splited_packets[i]
      /\ \E i \in DOMAIN splited_packets' : SameBytes(splited_packets'[i], top)
      /\ \A i \in DOMAIN splited_packets' : splited_packets'[i].lo >= chunk.lo
  <2>1. CASE \E i \in DOMAIN splited_packets : SameBytes(splited_packets[i], top)
    BY <1>1, <1>3, <2>1
  <2>2. CASE ~\E i \in DOMAIN splited_packets : SameBytes(splited_packets[i], top)
    <3> DEFINE s == splited_packets
               t == Append(s, top)
    <3>1. splited_packets' = t
      BY <1>1, <2>2
    <3>2. /\ DOMAIN t = DOMAIN s \cup {Len(s) + 1} /\ t[Len(s) + 1] = top
          /\ DOMAIN s = 1..Len(s) /\ Len(s) \in Nat /\ \A i \in DOMAIN s : t[i] = s[i]
      BY <1>3
    <3>3. SameBytes(top, top)
      BY DEF SameBytes
    <3>4. top.lo >= chunk.lo
      BY <1>3, Places
    <3> HIDE DEF t, top
    <3> QED BY <1>3, <3>1, <3>2, <3>3, <3>4
  <2> QED BY <2>1, <2>2
<1> HIDE DEF top
<1>5. ChunkInv'
  <2>1. chunk'.hi <= read' /\ chunk'.lo <= packet'.lo
    BY <1>1, <1>3, Places DEF DueInv, ChunkInv
  <2> QED BY <1>1, <1>4, <2>1 DEF ChunkInv
<1>6. ASSUME ~astray PROVE Bytes(packet') = 0 \/ Splitting'
  <2>1. PICK g \in sent : g.lo = packet.lo /\ Bytes(g) = packet_size
    BY <1>1, <1>6 DEF WholeInv, SyncInv, InStep
  <2>2. g.lo \in Nat /\ g.hi \in Nat /\ packet.lo \in Nat /\ packet.hi \in Nat /\ g.lo < g.hi
    BY Places
  <2>3. packet.lo + packet_size = g.hi
    BY <2>1, <2>2 DEF Bytes
  <2>4. Splitting
    BY <1>1, <1>6 DEF DueInv, ServedInv
  <2>5. CASE g.hi <= packet.hi
    <3>1. Cut(packet_size) = g.hi
      BY <2>3, <2>5 DEF Cut
    <3>2. top = Span(g.lo, g.hi)
      BY <2>1, <3>1 DEF top
    <3>3. g \in InChunk /\ g \notin Passed
      BY <1>3, <2>1, <2>2, <2>5, Places DEF InChunk, Passed
    <3>4. Passed' = Passed \cup {g}
      <4>1. ASSUME NEW f \in InChunk PROVE f.hi <= g.hi <=> f.hi <= packet.lo \/ f = g
        BY <2>1, <2>2, Places
      <4>2. packet'.lo = g.hi
        BY <1>1, <3>1
      <4> QED BY <1>2, <3>3, <4>1, <4>2 DEF Passed
    <3>5. IsFiniteSet(Passed) /\ Cardinality(Passed) \in Nat
      BY Places, FS_Subset, FS_CardinalityType DEF Passed
    <3>6. Cardinality(Passed \cup {g}) = Cardinality(Passed) + 1
      BY <3>3, <3>5, FS_AddElement
    <3>7. Cardinality(Passed') + tries' = MaxTries
      <4>1. Cardinality(Passed) + tries = MaxTries /\ tries \in Nat
        BY <2>4 DEF Splitting, WholeInv, TypeOK
      <4> QED BY <1>1, <3>4, <3>5, <3>6, <4>1
    <3>8. ASSUME NEW e \in Passed' PROVE InHand(e)'
      <4>1. \E i \in DOMAIN splited_packets' : SameBytes(splited_packets'[i], Span(e.lo, e.hi))
        <5>1. CASE e = g
          BY <1>4, <3>2, <5>1
        <5>2. CASE e \in Passed
          BY <1>4, <2>4, <5>2 DEF Splitting, InHand
        <5> QED BY <3>4, <5>1, <5>2
      <4>2. PICK i \in DOMAIN splited_packets' : SameBytes(splited_packets'[i], Span(e.lo, e.hi))
        BY <4>1
      <4>3. PICK c, d : c = splited_packets'[i] /\ d = Span(e.lo, e.hi)
        OBVIOUS
      <4>4. SameBytes(c, d)'
        BY <1>2, <4>2, <4>3
      <4> QED BY <1>1, <1>4, <4>3, <4>4 DEF InHand, SameBytes
    <3> QED BY <1>2, <2>4, <3>7, <3>8 DEF Splitting
  <2>6. CASE ~(g.hi <= packet.hi)
    <3>1. packet'.lo = packet.hi
      BY <1>1, <2>3, <2>6 DEF Cut
    <3>2. packet'.hi - packet'.lo = 0
      BY <1>1, <2>2, <3>1
    <3> QED BY <3>2 DEF Bytes
  <2> QED BY <2>5, <2>6
<1> QED
  <2>1. ServedInv'
    BY <1>1, <1>6 DEF ServedInv, Bytes
  <2> QED BY <1>2, <1>5, <2>1 DEF DueInv

\* What is left is one packet, the last of the chunk, or there is more to split.
LEMMA ResizeDue == ASSUME WholeInv, DueInv, Resize PROVE DueInv'
<1>1. /\ UNCHANGED <<sent, total, read, chunk, packet, tries, splited_packets, delivered, astray>>
      /\ listener = "cut" /\ listener' \in {"got", "split"} /\ Bytes(packet) >= SizeBytes
      /\ packet.hi = read /\ chunk.hi = read /\ packet_size' \in get_size(packet.lo)
      /\ listener' = "got" => packet_size' = Bytes(packet)
  BY DEF Resize, WholeInv, HandInv
<1>2. /\ Disjoint' /\ InChunk' = InChunk /\ \A e : Due(e)' <=> Due(e)
      /\ Whole(chunk)' <=> Whole(chunk)
      /\ \A c, d : SameBytes(c, d)' <=> SameBytes(c, d)
  BY <1>1, SameChunk
<1>3. ChunkInv'
  BY <1>1 DEF DueInv, ChunkInv
<1>4. \A e : InHand(e)' <=> InHand(e)
  BY <1>1 DEF InHand, SameBytes
<1>5. ASSUME ~astray PROVE ServedInv'
  <2>1. Bytes(packet) # 0 /\ Bytes(packet) \in Nat
    <3>1. packet.hi - packet.lo \in Int
      BY Places
    <3> QED BY <1>1, <3>1, StreamAssumption DEF Bytes
  <2>2. Splitting
    BY <1>1, <1>5, <2>1 DEF DueInv, ServedInv
  <2>3. CASE listener' = "split"
    <3>1. Passed' = Passed
      BY <1>1, <1>2 DEF Passed
    <3>2. Splitting'
      BY <1>1, <1>2, <1>4, <2>2, <3>1 DEF Splitting
    <3> QED BY <2>3, <3>2 DEF ServedInv
  <2>4. CASE listener' = "got"
    <3>1. Boundary(packet.lo)
      BY <1>1, <1>5, <2>1 DEF WholeInv, SyncInv, InStep
    <3>2. packet.lo \in Nat /\ packet.lo < total
      <4>1. packet.lo \in Nat /\ packet.hi \in Nat /\ packet.lo <= packet.hi
            /\ packet.hi <= total /\ total \in Nat
        BY <1>1 DEF WholeInv, TypeOK, Spans
      <4> QED BY <2>1, <4>1 DEF Bytes
    <3>3. PICK g \in sent : g.lo = packet.lo /\ Bytes(g) = packet_size'
      BY <1>1, <3>1, <3>2, BoundarySize DEF WholeInv
    <3>4. Is(packet, g)
      BY <1>1, <2>4, <3>3, FullData DEF WholeInv
    <3>5. ASSUME NEW e \in InChunk, Due(e) PROVE InHand(e)
      <4>1. ~Is(chunk, e)
        BY <2>2, Places DEF Splitting, Whole
      <4>2. e.hi < chunk.hi
        BY <3>5, <4>1 DEF Due
      <4>3. e.hi <= packet.lo
        BY <1>1, <3>4, <4>2, Places DEF Is
      <4>4. e \in Passed
        BY <4>3 DEF Passed
      <4> QED BY <2>2, <4>4 DEF Splitting
    <3> QED BY <1>2, <1>4, <2>4, <3>5 DEF ServedInv
  <2> QED BY <1>1, <2>3, <2>4
<1> QED BY <1>1, <1>2, <1>3, <1>5 DEF DueInv, ServedInv

\* When the tries are used up, as many packets have been split off.
LEMMA NoTriesDue == ASSUME WholeInv, DueInv, NoTriesLeft PROVE DueInv'
<1>1. /\ UNCHANGED <<sent, total, read, chunk, packet, tries, splited_packets, delivered>>
      /\ listener = "split" /\ tries = 0 /\ listener' = "got" /\ (~astray' => ~astray)
  BY DEF NoTriesLeft, local
<1>2. /\ Disjoint' /\ InChunk' = InChunk /\ \A e : Due(e)' <=> Due(e)
  BY <1>1, SameChunk
<1>3. ChunkInv'
  BY <1>1 DEF DueInv, ChunkInv
<1>4. \A e : InHand(e)' <=> InHand(e)
  BY <1>1 DEF InHand, SameBytes
<1>5. ASSUME ~astray, NEW e \in InChunk, Due(e) PROVE InHand(e)
  <2>1. Splitting
    BY <1>1, <1>5 DEF DueInv, ServedInv
  <2>2. PICK g \in sent : g.lo = packet.lo
    BY <1>1, <1>5 DEF WholeInv, SyncInv, InStep
  <2>3. e.hi < chunk.hi /\ Cardinality(Earlier(e)) < MaxTries
    BY <1>5, <2>1, Places DEF Due, Splitting, Whole
  <2>4. CASE e.hi <= packet.lo
    BY <2>1, <2>4 DEF Splitting, Passed
  <2>5. CASE ~(e.hi <= packet.lo)
    <3>1. packet.lo <= e.lo
      BY <2>2, <2>5, Places
    <3>2. Passed \subseteq Earlier(e)
      BY <3>1, Places DEF Passed, Earlier
    <3>3. IsFiniteSet(Earlier(e))
      BY Places, FS_Subset DEF Earlier
    <3>4. /\ Cardinality(Passed) <= Cardinality(Earlier(e))
          /\ Cardinality(Passed) \in Nat /\ Cardinality(Earlier(e)) \in Nat
      BY <3>2, <3>3, FS_Subset, FS_CardinalityType
    <3>5. Cardinality(Passed) = MaxTries
      BY <1>1, <2>1, <3>4 DEF Splitting
    <3> QED BY <2>3, <3>4, <3>5, StreamAssumption
  <2> QED BY <2>4, <2>5
<1>6. ServedInv'
  BY <1>1, <1>2, <1>4, <1>5 DEF ServedInv
<1> QED BY <1>2, <1>3, <1>6 DEF DueInv

\* What is in hand goes to the router, the first of it first.
LEMMA GotDue == ASSUME WholeInv, DueInv, GotPacket PROVE DueInv'
<1> DEFINE s == splited_packets
           h == Head(s)
           t == Tail(s)
           d == Append(delivered, h)
<1>1. /\ UNCHANGED <<sent, total, read, listener, chunk, packet, packet_size, tries, astray>>
      /\ listener = "got" /\ s # <<>> /\ splited_packets' = t /\ delivered' = d
  BY DEF GotPacket
<1>2. /\ s \in Seq(Spans) /\ h = s[1] /\ delivered \in Seq(Spans)
      /\ \A i \in DOMAIN s : i # 1 => i - 1 \in DOMAIN t /\ t[i - 1] = s[i]
      /\ \A i \in DOMAIN delivered : i \in DOMAIN d /\ d[i] = delivered[i]
      /\ \E i \in DOMAIN d : d[i] = h
  <2>1. s \in Seq(Spans) /\ delivered \in Seq(Spans)
    BY DEF WholeInv, TypeOK
  <2>2. h = s[1] /\ \A i \in DOMAIN s : i # 1 => i - 1 \in DOMAIN t /\ t[i - 1] = s[i]
    BY <1>1, <2>1
  <2>3. /\ DOMAIN d = DOMAIN delivered \cup {Len(delivered) + 1} /\ d[Len(delivered) + 1] = h
        /\ DOMAIN delivered = 1..Len(delivered) /\ Len(delivered) \in Nat
        /\ \A i \in DOMAIN delivered : d[i] = delivered[i]
    BY <2>1
  <2> HIDE DEF s, h, t, d
  <2> QED BY <2>1, <2>2, <2>3
<1> HIDE DEF h, t, d
<1>3. /\ Disjoint' /\ InChunk' = InChunk /\ \A e : Due(e)' <=> Due(e)
      /\ \A a, b : SameBytes(a, b)' <=> SameBytes(a, b)
  BY <1>1, SameChunk
<1>4. ChunkInv'
  BY <1>1 DEF DueInv, ChunkInv
<1>5. ASSUME NEW e, InHand(e) PROVE InHand(e)' \/ AtRouter(e)'
  <2>1. PICK i \in DOMAIN s : s[i].lo >= chunk.lo /\ SameBytes(s[i], Span(e.lo, e.hi))
    BY <1>5 DEF InHand
  <2>2. CASE i = 1
    <3>1. PICK j \in DOMAIN d : d[j] = s[i]
      BY <1>2, <2>2
    <3> QED BY <1>1, <2>1, <3>1 DEF AtRouter, SameBytes
  <2>3. CASE i # 1
    <3>1. PICK j \in DOMAIN t : t[j] = s[i]
      BY <1>2, <2>3
    <3> QED BY <1>1, <2>1, <3>1 DEF InHand, SameBytes
  <2> QED BY <2>2, <2>3
<1>6. ASSUME NEW e, AtRouter(e) PROVE AtRouter(e)'
  <2>1. PICK i \in DOMAIN delivered :
          delivered[i].lo >= chunk.lo /\ SameBytes(delivered[i], Span(e.lo, e.hi))
    BY <1>6 DEF AtRouter
  <2>2. i \in DOMAIN d /\ d[i] = delivered[i]
    BY <1>2
  <2> QED BY <1>1, <2>1, <2>2 DEF AtRouter, SameBytes
<1>7. ServedInv'
  BY <1>1, <1>3, <1>5, <1>6 DEF DueInv, ServedInv
<1> QED BY <1>3, <1>4, <1>7 DEF DueInv

LEMMA DueNext == WholeInv /\ DueInv /\ [Next]_vars => DueInv'
<1> SUFFICES ASSUME WholeInv, DueInv, [Next]_vars PROVE DueInv'
  OBVIOUS
<1>1. CASE \E p \in Packet : send_raw(p)
  BY <1>1, SentDue
<1>2. ASSUME NEW k \in 1..MaxRecv, Recv(k) PROVE DueInv'
  <2>1. /\ UNCHANGED <<sent, total>> /\ chunk' = Span(read, read + k) /\ packet' = chunk'
        /\ read' = read + k /\ splited_packets' = <<>> /\ listener' = "size"
    BY <1>2 DEF Recv
  <2>2. read \in Nat /\ k \in Nat
    BY StreamAssumption DEF WholeInv, TypeOK
  <2>3. chunk'.lo = read /\ chunk'.hi = read + k
    BY <2>1 DEF Span
  <2>4. Disjoint' /\ ServedInv'
    BY <2>1 DEF DueInv, Disjoint, ServedInv
  <2>5. ChunkInv'
    BY <2>1, <2>2, <2>3 DEF ChunkInv
  <2> QED BY <2>4, <2>5 DEF DueInv
<1>3. ASSUME UNCHANGED <<sent, read, chunk, packet, tries, splited_packets, delivered, astray>>,
             listener' \in {listener, "ended"} \/ Again
      PROVE  DueInv'
  <2>1. /\ Disjoint' /\ InChunk' = InChunk /\ \A e : Due(e)' <=> Due(e)
        /\ Whole(chunk)' <=> Whole(chunk)
    BY <1>3, SameChunk
  <2>2. ChunkInv'
    BY <1>3 DEF DueInv, ChunkInv, Again
  <2>3. (\A e : InHand(e)' <=> InHand(e)) /\ (\A e : AtRouter(e)' <=> AtRouter(e))
    BY <1>3 DEF InHand, AtRouter, SameBytes
  <2>4. Passed' = Passed
    BY <1>3, <2>1 DEF Passed
  <2>5. Splitting => Splitting'
    BY <1>3, <2>1, <2>3, <2>4 DEF Splitting
  <2>6. splited_packets = <<>> => \A e : ~InHand(e)
    BY DEF InHand
  <2>7. ServedInv'
    BY <1>3, <2>1, <2>3, <2>5, <2>6 DEF DueInv, ServedInv, Again, Bytes
  <2> QED BY <2>1, <2>2, <2>7 DEF DueInv
<1>4. CASE SendRaises \/ stop \/ RecvNothing \/ SizeRaises \/ Again \/ UNCHANGED vars
  BY <1>3, <1>4 DEF SendRaises, stop, RecvNothing, SizeRaises, Again, vars, local
<1> QED BY <1>1, <1>2, <1>4, CheckDue, SplitDue, ResizeDue, NoTriesDue, GotDue DEF Next

\* Of the packets that come with one recv the router gets the one that comes
\* alone, and all but the last up to MaxTries, or one with the same contents.
THEOREM ServesTheChunk == Spec => []ChunkServed
<1>1. Init => DueInv
  BY DueInit
<1>2. WholeInv /\ DueInv /\ [Next]_vars => DueInv'
  BY DueNext
<1>3. DueInv => ChunkServed
  <2> SUFFICES ASSUME DueInv, listener = "recv", ~astray, NEW e \in InChunk, Due(e)
               PROVE  AtRouter(e)
    BY DEF ChunkServed, Due, AtRouter
  <2> QED BY DEF DueInv, ServedInv
<1> QED BY <1>1, <1>2, <1>3, WholeInvariant, PTL DEF Spec
=============================================================================
