-------------------------------- MODULE Wire --------------------------------
(* What is sent between two daemons, byte by byte: HTTP/3 frames             *)
(* (http3_frames.c), padding (padding.c), VPN packets as QUIC datagrams      *)
(* (quic_send_packet and the DATAGRAM_RECEIVED event), and requests on the   *)
(* control stream (quic_send_meta, the RECEIVE event, buffer.c,              *)
(* receive_meta).                                                            *)
EXTENDS Integers, Sequences, SequencesExt

CONSTANTS
  Packets,        \* VPN packets, as sequences of bytes
  BufferSize,     \* BUFFER_SIZE - sizeof(QUIC_BUFFER)
  Requests,       \* how many requests are sent
  MaxHeaders,     \* how many HEADERS frames
  Whole,          \* TRUE: a RECEIVE event ends where a frame ends
  None

VARIABLES
  masquerading,   \* quic_http3_masquerading, of the two daemons
  padding,        \* padding_config.mode, of the sender
  packet,         \* the packet that is sent, and what receive_packet gets
  arrived,
  stream,         \* what is under way on the control stream
  ends,           \* history: how many bytes are left to the end of each frame
  inbuf,
  sent, headers,  \* requests and HEADERS frames sent so far
  received        \* the requests that receive_request got

vars == <<masquerading, padding, packet, arrived, stream, ends, inbuf, sent, headers, received>>

Newline == 10
Magic == 253      \* PADDING_MAGIC
DataFrame == 0
HeadersFrame == 1
Huge == 2^30      \* stands for every number from 2^30: none is the length of a frame

-----------------------------------------------------------------------------
(* http3_encode_varint and http3_decode_varint; the latter gives a length of *)
(* 0 if the buffer is too short.                                             *)
Byte(v, i) == (v \div 256^i) % 256
EncodeVarint(v) ==
  CASE v < 64 -> <<v>>
    [] v >= 64 /\ v < 16384 -> <<64 + Byte(v, 1), Byte(v, 0)>>
    [] v >= 16384 /\ v < Huge -> <<128 + Byte(v, 3), Byte(v, 2), Byte(v, 1), Byte(v, 0)>>
    [] OTHER -> <<192, 0, 0, 0, Byte(v, 3), Byte(v, 2), Byte(v, 1), Byte(v, 0)>>

VarintLength(b) == <<1, 2, 4, 8>>[b \div 64 + 1]
BigEndian(s) == FoldLeft(LAMBDA v, b : IF v >= 2^22 THEN Huge ELSE v * 256 + b, 0, s)
NoVarint == [len |-> 0, value |-> 0]
DecodeVarint(s) ==
  IF s = <<>> THEN NoVarint
  ELSE LET n == VarintLength(s[1])
       IN IF Len(s) < n THEN NoVarint
          ELSE [len |-> n, value |-> BigEndian(<<s[1] % 64>> \o SubSeq(s, 2, n))]

(* http3_decode_frame_header, then the tests of http3_parse_data_frame and   *)
(* of http3_parse_headers_frame, which are alike.  The type is a uint8_t.    *)
Rest(s, n) == SubSeq(s, n + 1, Len(s))
ParseFrame(s, type) ==
  LET t == DecodeVarint(s)
      l == DecodeVarint(Rest(s, t.len))
      start == t.len + l.len
  IN IF Len(s) < 2 \/ t.len = 0 \/ l.len = 0 \/ t.value % 256 # type \/ start + l.value > Len(s)
     THEN None
     ELSE [data |-> SubSeq(s, start + 1, start + l.value), size |-> start + l.value]

(* http3_create_data_frame, http3_create_headers_frame *)
CreateFrame(type, data) == EncodeVarint(type) \o EncodeVarint(Len(data)) \o data

(* padding_remove: FALSE is returned for an empty packet, too. *)
padding_remove(s) ==
  IF s = <<>> THEN None
  ELSE IF Len(s) < 3 \/ s[1] # Magic THEN s
  ELSE LET n == s[2] * 256 + s[3] IN IF n = 0 \/ n + 3 > Len(s) THEN None ELSE SubSeq(s, 4, n + 3)

-----------------------------------------------------------------------------
(* quic_send_packet.  The lengths are computed first, the bytes written      *)
(* afterwards: what is sent is as long as was computed.                      *)
PaddingLength(n) ==
  CASE padding = "random" -> 64
    [] padding = "buckets" -> ((n + 127) \div 128) * 128 - n
    [] OTHER -> 0
(* The definitions called Mut... are faults a property must detect; the      *)
(* specification does not use them.                                          *)
MutFrameHeaderLength(n) == IF n <= 64 THEN 2 ELSE IF n < 16384 THEN 3 ELSE IF n < Huge THEN 5 ELSE 9
FrameHeaderLength(n) == IF n < 64 THEN 2 ELSE IF n < 16384 THEN 3 ELSE IF n < Huge THEN 5 ELSE 9
PaddingHeaderLength(n) == IF PaddingLength(n) > 0 THEN 3 ELSE 0

TotalSize(n) ==
  (IF masquerading.sender THEN FrameHeaderLength(n + PaddingLength(n)) ELSE 0)
    + PaddingHeaderLength(n) + n + PaddingLength(n)

Zeros(n) == [i \in 1..n |-> 0]
Padded(p) ==
  LET n == PaddingLength(Len(p))
  IN IF n = 0 THEN p ELSE <<Magic, Byte(Len(p), 1), Byte(Len(p), 0)>> \o p \o Zeros(n)
Written(p) == IF masquerading.sender THEN CreateFrame(DataFrame, Padded(p)) ELSE Padded(p)

quic_send_packet(p) ==
  IF TotalSize(Len(p)) > BufferSize THEN None
  ELSE SubSeq(Written(p) \o Zeros(8), 1, TotalSize(Len(p)))

(* DATAGRAM_RECEIVED *)
Unwrapped(s) ==
  IF masquerading.receiver /\ ParseFrame(s, DataFrame) # None THEN ParseFrame(s, DataFrame).data ELSE s
IsProbe(s) == Len(s) >= 14 /\ s[13] = 0 /\ s[14] = 0
DatagramReceived(s) ==
  LET p == padding_remove(Unwrapped(s)) IN IF p = None THEN None ELSE IF IsProbe(p) THEN None ELSE p

Datagram ==
  /\ packet # None /\ arrived = <<>>
  /\ LET s == quic_send_packet(packet) IN arrived' = <<IF s = None THEN None ELSE DatagramReceived(s)>>
  /\ UNCHANGED <<masquerading, padding, packet, stream, ends, inbuf, sent, headers, received>>

-----------------------------------------------------------------------------
(* buffer.c: the bytes between offset and len are those not consumed yet. *)
EmptyBuffer == [data |-> <<>>, offset |-> 0, maxlen |-> 0]

Compacted(b) == [b EXCEPT !.data = Rest(b.data, b.offset), !.offset = 0]
buffer_prepare(b, size) ==
  LET c == IF b.offset > 0 /\ Len(b.data) + size > b.maxlen THEN Compacted(b) ELSE b
  IN [c EXCEPT !.maxlen = IF Len(c.data) + size > @ THEN Len(c.data) + size ELSE @]
buffer_add(b, s) == [buffer_prepare(b, Len(s)) EXCEPT !.data = @ \o s]

Consumed(b, n) ==
  IF b.offset + n >= Len(b.data) THEN [b EXCEPT !.offset = 0, !.data = <<>>]
  ELSE [b EXCEPT !.offset = @ + n]

(* The while loop of receive_meta: buffer_readline takes one request.        *)
(* buffer_readline leaves a zero for the newline.                            *)
RECURSIVE receive_meta(_, _)
receive_meta(b, requests) ==
  LET left == Rest(b.data, b.offset)
      newlines == {i \in DOMAIN left : left[i] = Newline}
  IN IF newlines = {} THEN [inbuf |-> b, requests |-> requests]
     ELSE LET n == CHOOSE i \in newlines : \A j \in newlines : i <= j
          IN receive_meta(Consumed(b, n), Append(requests, SubSeq(left, 1, n - 1)))

(* RECEIVE: the frames in the buffer, one after the other. *)
Skipped(s) == ParseFrame(s, HeadersFrame)
RECURSIVE Unframed(_, _, _)
Unframed(s, offset, b) ==
  LET left == Rest(s, offset)
      d == ParseFrame(left, DataFrame)
      h == Skipped(left)
  IN IF left = <<>> THEN b
     ELSE IF d # None THEN Unframed(s, offset + d.size, buffer_add(b, d.data))
     ELSE IF h # None THEN Unframed(s, offset + h.size, b)
     ELSE IF offset = 0 THEN buffer_add(b, s) ELSE b

Receive(n) ==
  /\ n \in 1..Len(stream)
  /\ Whole /\ masquerading.receiver => n \in ends
  /\ LET s == SubSeq(stream, 1, n)
         b == IF masquerading.receiver THEN Unframed(s, 0, inbuf) ELSE buffer_add(inbuf, s)
         r == receive_meta(b, received)
     IN inbuf' = r.inbuf /\ received' = r.requests
  /\ stream' = Rest(stream, n) /\ ends' = {e - n : e \in {f \in ends : f > n}}
  /\ UNCHANGED <<masquerading, padding, packet, arrived, sent, headers>>

(* send_request ends a request with a newline; quic_send_meta frames it. *)
Request(i) == [j \in 1..i |-> 48 + i]
Framed(data) == IF masquerading.sender THEN CreateFrame(DataFrame, data) ELSE data
Push(s) == stream' = stream \o s /\ ends' = ends \cup {Len(stream \o s)}

SendMeta ==
  /\ packet = None /\ sent < Requests
  /\ Push(Framed(Append(Request(sent + 1), Newline)))
  /\ sent' = sent + 1
  /\ UNCHANGED <<masquerading, padding, packet, arrived, inbuf, headers, received>>

(* quic_send_packet sends a HEADERS frame now and then. *)
SendHeaders ==
  /\ packet = None /\ masquerading.sender /\ headers < MaxHeaders
  /\ Push(CreateFrame(HeadersFrame, <<71, 69>>))
  /\ headers' = headers + 1
  /\ UNCHANGED <<masquerading, padding, packet, arrived, inbuf, sent, received>>

Init ==
  /\ masquerading \in [sender : BOOLEAN, receiver : BOOLEAN]
  /\ padding \in {"off", "random", "buckets"}
  /\ packet \in Packets \cup {None}
  /\ packet = None => padding = "off" /\ masquerading.sender = masquerading.receiver
  /\ arrived = <<>> /\ stream = <<>> /\ ends = {} /\ inbuf = EmptyBuffer
  /\ sent = 0 /\ headers = 0 /\ received = <<>>

Next == Datagram \/ SendMeta \/ SendHeaders \/ \E n \in 1..Len(stream) : Receive(n)

Spec == Init /\ [][Next]_vars

-----------------------------------------------------------------------------
TypeOK ==
  /\ inbuf.offset \in 0..Len(inbuf.data) /\ Len(inbuf.data) <= inbuf.maxlen
  /\ Len(received) <= Requests

(* Packets that nothing on the wire tells from padded or framed ones. *)
LooksPadded(p) == PaddingLength(Len(p)) = 0 /\ p[1] = Magic
LooksFramed(p) == masquerading.receiver /\ ~masquerading.sender /\ ParseFrame(Padded(p), DataFrame) # None
NeverUnframed == masquerading.sender /\ ~masquerading.receiver

(* What receive_packet gets is the packet that was sent, whatever its        *)
(* length, its padding and the HTTP/3 frame around it are: the lengths that  *)
(* quic_send_packet computes first are those of the bytes it writes          *)
(* afterwards, and DATAGRAM_RECEIVED finds the packet in them.  Exceptions   *)
(* are packets that are too long, those the receiver takes for a probe, and, *)
(* as nothing on the wire tells how a packet was sent, those that are sent   *)
(* without padding and begin like padding, those that are sent without a     *)
(* frame and begin like one, and framed ones at a receiver without           *)
(* masquerading.                                                             *)
DatagramIntact ==
  packet # None /\ arrived # <<>> =>
    \/ arrived = <<packet>>
    \/ TotalSize(Len(packet)) > BufferSize
    \/ IsProbe(packet) \/ LooksPadded(packet) \/ LooksFramed(packet) \/ NeverUnframed

(* The requests arrive as they were sent, in that order, none twice and none *)
(* left in the buffer, however the stream is cut into RECEIVE events and     *)
(* however HEADERS frames come between, if no event ends within a frame.     *)
MetaInOrder ==
  /\ received = [i \in DOMAIN received |-> Request(i)]
  /\ stream = <<>> => Len(received) = sent /\ inbuf.data = <<>>
=============================================================================
