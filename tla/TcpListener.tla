----------------------------- MODULE TcpListener -----------------------------
(***************************************************************************)
(* One TCP connection of the Python mesh: send_raw of OSI4TcpClient.py     *)
(* writes packets into a byte stream, the thread of clieant_listener in    *)
(* OSI4TcpServerThread.py reads whatever bytes there are and splits them   *)
(* into packets again by the size in their headers.                        *)
(*                                                                         *)
(* Bytes are positions in the stream: data the listener holds is the span  *)
(* of the positions lo < i <= hi.  An exception in the thread ends it and  *)
(* drops the last reference to the connection, which closes it.            *)
(***************************************************************************)
EXTENDS Integers, Sequences, FiniteSets

CONSTANTS
  Packet,     \* contents of packets
  Size,       \* their sizes in bytes
  SizeBytes,  \* bytes get_size reads: 6
  MaxRecv,    \* bytes recv returns at most: 4096
  MaxTries,   \* packets taken off the data of one recv at most: 20
  MaxBytes    \* bound: bytes sent on the connection

ASSUME StreamAssumption ==
  /\ SizeBytes \in Nat \ {0}
  /\ Size \in [Packet -> Nat]
  /\ \A p \in Packet : Size[p] >= SizeBytes
  /\ MaxRecv \in Nat
  /\ MaxTries \in Nat
  /\ MaxBytes \in Nat

VARIABLES
  sent,         \* packets written, with the span each takes in the stream
  total,        \* bytes written
  sender,       \* "open", "closed" by stop(), or "raised" out of send_raw
  read,         \* bytes read
  listener,     \* where clieant_listener is: "recv", "size", "split", "got" or "ended"
  chunk,        \* what the last recv returned
  packet,       \* what is left of it
  packet_size,  \* packet_size_
  tries,
  splited_packets,
  delivered,    \* what got_packet_type_1 was called with, in order
  astray        \* a recv ended inside a packet that was left unsplit

vars == <<sent, total, sender, read, listener, chunk, packet, packet_size, tries,
          splited_packets, delivered, astray>>
local == <<chunk, packet, packet_size, tries, splited_packets>>

Span(lo, hi) == [lo |-> lo, hi |-> hi]
Bytes(d) == d.hi - d.lo
Spans == [lo : Nat, hi : Nat]

\* A span of the stream is the packet e.
Is(d, e) == d.lo = e.lo /\ d.hi = e.hi

\* Two spans of equal bytes: the same span, or two packets of equal contents.
SameBytes(c, d) ==
  \/ c = d
  \/ \E e, f \in sent : Is(c, e) /\ Is(d, f) /\ e.content = f.content

\* The values get_size may read at a position: the size of the packet that
\* starts there, any value from the middle of a packet.
get_size(lo) ==
  IF \E e \in sent : e.lo = lo THEN {Bytes(e) : e \in {f \in sent : f.lo = lo}}
                               ELSE 0..MaxBytes

Init ==
  /\ sent = {}
  /\ total = 0
  /\ sender = "open"
  /\ read = 0
  /\ listener = "recv"
  /\ chunk = Span(0, 0)
  /\ packet = Span(0, 0)
  /\ packet_size = 0
  /\ tries = 0
  /\ splited_packets = <<>>
  /\ delivered = <<>>
  /\ astray = FALSE

---------------------------------------------------------------------------
(* The sending device.                                                     *)

send_raw(p) ==
  /\ sender = "open"
  /\ listener # "ended"
  /\ total + Size[p] <= MaxBytes
  /\ sent' = sent \cup {[content |-> p, lo |-> total, hi |-> total + Size[p]]}
  /\ total' = total + Size[p]
  /\ UNCHANGED <<sender, read, listener, local, delivered, astray>>

\* Sending on a connection the listener has closed raises.
SendRaises ==
  /\ sender = "open"
  /\ listener = "ended"
  /\ sender' = "raised"
  /\ UNCHANGED <<sent, total, read, listener, local, delivered, astray>>

stop ==
  /\ sender = "open"
  /\ sender' = "closed"
  /\ UNCHANGED <<sent, total, read, listener, local, delivered, astray>>

---------------------------------------------------------------------------
(* clieant_listener.                                                       *)

Recv(k) ==
  /\ listener = "recv"
  /\ read + k <= total
  /\ chunk' = Span(read, read + k)
  /\ packet' = Span(read, read + k)
  /\ read' = read + k
  /\ splited_packets' = <<>>
  /\ listener' = "size"
  /\ UNCHANGED <<sent, total, sender, packet_size, tries, delivered, astray>>

\* recv returns nothing after stop(): stop_client.
RecvNothing ==
  /\ listener = "recv"
  /\ sender = "closed"
  /\ read = total
  /\ listener' = "ended"
  /\ UNCHANGED <<sent, total, sender, read, local, delivered, astray>>

\* get_size raises on data that is too short, empty data included.
SizeRaises ==
  /\ listener \in {"size", "cut"}
  /\ Bytes(packet) < SizeBytes
  /\ listener' = "ended"
  /\ UNCHANGED <<sent, total, sender, read, local, delivered, astray>>

\* Variant: one packet less is split off.
CheckSizeFewer ==
  /\ listener = "size"
  /\ Bytes(packet) >= SizeBytes
  /\ packet_size' \in get_size(packet.lo)
  /\ IF packet_size' = Bytes(packet)
     THEN /\ listener' = "got"
          /\ splited_packets' = <<packet>>
          /\ UNCHANGED tries
     ELSE /\ listener' = "split"
          /\ tries' = IF MaxTries = 0 THEN 0 ELSE MaxTries - 1
          /\ UNCHANGED splited_packets
  /\ UNCHANGED <<sent, total, sender, read, chunk, packet, delivered, astray>>

\* The data of a recv is one packet, or is to be split.
CheckSize ==
  /\ listener = "size"
  /\ Bytes(packet) >= SizeBytes
  /\ packet_size' \in get_size(packet.lo)
  /\ IF packet_size' = Bytes(packet)
     THEN /\ listener' = "got"
          /\ splited_packets' = <<packet>>
          /\ UNCHANGED tries
     ELSE /\ listener' = "split"
          /\ tries' = MaxTries
          /\ UNCHANGED splited_packets
  /\ UNCHANGED <<sent, total, sender, read, chunk, packet, delivered, astray>>

\* Slices end where the data ends.
Cut(size) == IF packet.lo + size <= packet.hi THEN packet.lo + size ELSE packet.hi

\* packet[:packet_size_] is kept unless it is there already.
Split ==
  /\ listener = "split"
  /\ tries > 0
  /\ LET top == Span(packet.lo, Cut(packet_size))
     IN  /\ splited_packets' =
              IF \E i \in DOMAIN splited_packets : SameBytes(splited_packets[i], top)
              THEN splited_packets ELSE Append(splited_packets, top)
         /\ packet' = Span(top.hi, packet.hi)
  /\ tries' = tries - 1
  /\ listener' = "cut"
  /\ UNCHANGED <<sent, total, sender, read, chunk, packet_size, delivered, astray>>

\* Variant: an empty rest ends the splitting, as line 115 has it.
ResizeUnlessEmpty ==
  /\ listener = "cut"
  /\ IF Bytes(packet) = 0
     THEN listener' = "got" /\ UNCHANGED packet_size
     ELSE /\ packet_size' \in get_size(packet.lo)
          /\ listener' = IF packet_size' = Bytes(packet) THEN "got" ELSE "split"
  /\ UNCHANGED <<sent, total, sender, read, chunk, packet, tries, splited_packets,
                 delivered, astray>>

\* Splitting ends when what is left is one packet; it is not added.
Resize ==
  /\ listener = "cut"
  /\ Bytes(packet) >= SizeBytes
  /\ packet_size' \in get_size(packet.lo)
  /\ listener' = IF packet_size' = Bytes(packet) THEN "got" ELSE "split"
  /\ UNCHANGED <<sent, total, sender, read, chunk, packet, tries, splited_packets,
                 delivered, astray>>

\* ... or after MaxTries packets; what is left is not kept for the next recv.
NoTriesLeft ==
  /\ listener = "split"
  /\ tries = 0
  /\ listener' = "got"
  /\ astray' = (astray \/ ~\E e \in sent : e.hi = chunk.hi)
  /\ UNCHANGED <<sent, total, sender, read, local, delivered>>

GotPacket ==
  /\ listener = "got"
  /\ splited_packets # <<>>
  /\ delivered' = Append(delivered, Head(splited_packets))
  /\ splited_packets' = Tail(splited_packets)
  /\ UNCHANGED <<sent, total, sender, read, listener, chunk, packet, packet_size,
                 tries, astray>>

Again ==
  /\ listener = "got"
  /\ splited_packets = <<>>
  /\ listener' = "recv"
  /\ UNCHANGED <<sent, total, sender, read, local, delivered, astray>>

Next ==
  \/ \E p \in Packet : send_raw(p)
  \/ SendRaises
  \/ stop
  \/ \E k \in 1..MaxRecv : Recv(k)
  \/ RecvNothing
  \/ SizeRaises
  \/ CheckSize
  \/ Split
  \/ Resize
  \/ NoTriesLeft
  \/ GotPacket
  \/ Again

Spec == Init /\ [][Next]_vars

---------------------------------------------------------------------------
(* Properties.                                                             *)

Sent == [content : Packet, lo : Nat, hi : Nat]

TypeOK ==
  /\ sent \subseteq Sent
  /\ total \in Nat
  /\ sender \in {"open", "closed", "raised"}
  /\ read \in 0..total
  /\ listener \in {"recv", "size", "split", "cut", "got", "ended"}
  /\ chunk \in Spans
  /\ packet \in Spans /\ packet.lo <= packet.hi /\ packet.hi <= read
  /\ packet_size \in Nat
  /\ tries \in 0..MaxTries
  /\ splited_packets \in Seq(Spans)
  /\ delivered \in Seq(Spans)
  /\ astray \in BOOLEAN

\* The router is never called with part of a packet, with two at once or with
\* bytes from the middle of one, wherever recv cuts the stream, unless more
\* packets than it splits off come with one recv that ends inside a packet.
WholePackets ==
  ~astray => \A i \in DOMAIN delivered : \E e \in sent : Is(delivered[i], e)

\* It is called with no byte twice, nor out of the order they were sent in.
InOrder ==
  \A i, j \in DOMAIN delivered : i < j => delivered[i].hi <= delivered[j].lo

\* Packets that came with one recv, and those of them that came before e.
InChunk == {e \in sent : chunk.lo <= e.lo /\ e.hi <= chunk.hi}
Earlier(e) == {f \in InChunk : f.lo < e.lo}

\* The router gets a packet that comes alone, and of the packets that come
\* together all but the last, up to MaxTries, or packets with the same contents.
ChunkServed ==
  listener = "recv" /\ ~astray =>
    \A e \in InChunk :
      \/ Is(chunk, e)
      \/ e.hi < chunk.hi /\ Cardinality(Earlier(e)) < MaxTries
      => \E i \in DOMAIN delivered :
           delivered[i].lo >= chunk.lo /\ SameBytes(delivered[i], Span(e.lo, e.hi))
=============================================================================
