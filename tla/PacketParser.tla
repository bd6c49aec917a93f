------------------------------ MODULE PacketParser -----------------------------
(***************************************************************************)
(* parse_packet of src/sserver.c byte by byte, on what one connection sends: *)
(* a stream of packets, of which recv takes any number of bytes at a time,   *)
(* wherever they cut a packet.  Server.tla has the same function on whole    *)
(* packets, with the loop and the other workers around it; what one call     *)
(* does depends on its own args only, so here one receive is parsed before   *)
(* the next.                                                                 *)
(***************************************************************************)
EXTENDS Integers, Sequences, FiniteSets, SequencesExt

CONSTANTS
  Streams,        \* what the client may send: sequences of packets
  RecvBufferLen,  \* RECV_BUFFER_LEN
  UuidLen,        \* the 32 of parse_packet
  StrayBytes,     \* the fourth byte of header, which nobody writes
  StrayOffsets    \* next_parse_offset after DIS_CONN, which nobody sets

Byte == 0..255
Ping == 0
Conn == 2
DisConnect == 4
Send == 6
Publish == 8
SSP == <<83, 83, 80>>

ASSUME ParserAssumption ==
  /\ UuidLen \in Nat
  /\ RecvBufferLen \in Nat /\ RecvBufferLen >= 6 + UuidLen
  /\ Streams \subseteq Seq([type : Byte, data : Seq(Byte)])
  /\ StrayBytes \subseteq Byte /\ StrayOffsets \subseteq Int

VARIABLES
  stream,       \* the packets the client sends
  pos,          \* how many bytes of them have been received
  start,        \* where the last receive began
  recv_buffer, recv_len,   \* of args
  calls,        \* the activations of parse_packet on args; 0 when it is done
  replies,      \* the types of the replies sent
  lost,         \* the args that were never freed
  closed,       \* the descriptor has been closed
  fate,         \* "up", "crashed" by a size that is negative, or "undefined"
  exact,        \* every receive was one whole packet
  misread       \* the stray byte has hidden a header

parserVars == <<stream, pos, start, recv_buffer, recv_len, calls, replies,
                lost, closed, fate, exact, misread>>

-------------------------------------------------------------------------------
(* The packets in bytes, as sserver.h lists them and test.escript sends them: *)
(* the length has its high byte first, and a PING has none.                   *)
Encode(p) ==
  SSP \o <<p.type>> \o
  IF p.type = Ping THEN <<>> ELSE <<Len(p.data) \div 256, Len(p.data) % 256>> \o p.data

Size(p) == Len(Encode(p))
Bytes == FlattenSeq([i \in 1..Len(stream) |-> Encode(stream[i])])

(* Where the packets end, and so where the first n of them do.               *)
Ends ==
  LET ends[i \in 0..Len(stream)] == IF i = 0 THEN 0 ELSE ends[i - 1] + Size(stream[i])
  IN  ends
Until(n) == Ends[n]

(* The number of the packet that begins at an offset of the stream, 0 if none *)
PacketAt(offset) ==
  LET here == {i \in 1..Len(stream) : Until(i - 1) = offset}
  IN  IF here = {} THEN 0 ELSE CHOOSE i \in here : TRUE

-------------------------------------------------------------------------------
Index == 0..RecvBufferLen - 1

(* recv into the cleared buffer.                                             *)
Receive(n) ==
  /\ calls = 0 /\ fate = "up" /\ ~closed
  /\ n <= RecvBufferLen /\ pos + n <= Len(Bytes)
  /\ recv_buffer' = [i \in Index |-> IF i < n THEN Bytes[pos + i + 1] ELSE 0]
  /\ recv_buffer' \in [Index -> Byte]
  /\ recv_len' = n
  /\ start' = pos
  /\ pos' = pos + n
  /\ calls' = 1
  /\ exact' = (exact /\ PacketAt(pos) # 0 /\ Size(stream[PacketAt(pos)]) = n)
  /\ UNCHANGED <<stream, replies, lost, closed, fate, misread>>

Parsing == calls > 0 /\ fate = "up"

Returns == calls' = 0 /\ UNCHANGED <<recv_buffer, recv_len, fate>>

ShortLenFault == recv_len <= 4

ShortLen == recv_len < 4

(* args is freed and then read for the descriptor: this one, or another.     *)
TooShort ==
  /\ Parsing /\ ShortLen
  /\ closed' \in {closed, TRUE}
  /\ Returns
  /\ UNCHANGED <<stream, pos, start, replies, lost, exact, misread>>

HasSSP == \A i \in 1..3 : recv_buffer[i - 1] = SSP[i]

(* Neither here nor for an unknown type is args freed.                       *)
Drop ==
  /\ lost' = lost + 1
  /\ Returns
  /\ UNCHANGED <<stream, pos, start, replies, closed, exact>>

NotSSP ==
  /\ Parsing /\ ~ShortLen
  /\ \E stray \in StrayBytes :
       /\ ~HasSSP \/ stray # 0
       /\ misread' = (misread \/ HasSSP)
  /\ Drop

PacketType == recv_buffer[3]

Header == Parsing /\ ~ShortLen /\ HasSSP /\ 0 \in StrayBytes

UnknownType ==
  /\ Header
  /\ PacketType \notin {Ping, Conn, DisConnect, Send, Publish}
  /\ Drop
  /\ UNCHANGED misread

DataLenFault == recv_buffer[4] + 256 * recv_buffer[5]

DataLen == 256 * recv_buffer[4] + recv_buffer[5]

OffsetFault == IF PacketType = Ping THEN 6 ELSE 6 + DataLen

Offset == IF PacketType = Ping THEN 4 ELSE 6 + DataLen

(* What remains is cleared, and then moved to the front.                     *)
Moved(offset, remain) ==
  LET cleared == [i \in Index |-> IF i >= offset THEN 0 ELSE recv_buffer[i]]
  IN  [i \in Index |-> cleared[IF i < remain THEN offset + i ELSE i]]

Crash == fate' = "crashed" /\ UNCHANGED <<recv_buffer, recv_len, calls>>

(* The end of parse_packet: args is freed, or parse_packet calls itself.  A   *)
(* size below zero is a very large one to memcpy and bzero; an offset below   *)
(* zero clears what is in front of the buffer.                               *)
Continue(offset) ==
  LET remain == recv_len - offset IN
  \/ remain = 0 /\ Returns
  \/ /\ remain # 0 /\ offset < 0
     /\ fate' = "undefined" /\ UNCHANGED <<recv_buffer, recv_len, calls>>
  \/ remain < 0 /\ Crash
  \/ /\ remain > 0 /\ offset >= 0
     /\ recv_buffer' = Moved(offset, remain)
     /\ recv_len' = remain
     /\ calls' = calls + 1
     /\ UNCHANGED fate

Reply == replies' = Append(replies, PacketType + 1)

(* PING, CONN, SEND and PUBLISH.  One that claims more data than the buffer  *)
(* holds reads beyond it; a PUBLISH shorter than its uuid asks malloc and     *)
(* bzero for a size below zero, before it replies.                           *)
Answer ==
  /\ Header
  /\ PacketType \in {Ping, Conn, Send, Publish}
  /\ \/ /\ PacketType = Publish => DataLen >= UuidLen
        /\ Reply /\ Continue(Offset)
     \/ /\ \/ PacketType \in {Send, Publish} /\ 6 + DataLen > RecvBufferLen
           \/ PacketType = Publish /\ DataLen < UuidLen
        /\ Crash /\ UNCHANGED replies
  /\ UNCHANGED <<stream, pos, start, lost, closed, exact, misread>>

DisConn ==
  /\ Header
  /\ PacketType = DisConnect
  /\ closed' = TRUE
  /\ \E stray \in StrayOffsets : Continue(stray)
  /\ UNCHANGED <<stream, pos, start, replies, lost, exact, misread>>

ParsePacket == TooShort \/ NotSSP \/ UnknownType \/ Answer \/ DisConn

-------------------------------------------------------------------------------
Init ==
  /\ stream \in Streams
  /\ pos = 0 /\ start = 0
  /\ recv_buffer = [i \in Index |-> 0] /\ recv_len = 0
  /\ calls = 0
  /\ replies = <<>> /\ lost = 0 /\ closed = FALSE
  /\ fate = "up" /\ exact = TRUE /\ misread = FALSE

Next ==
  \/ \E n \in 1..RecvBufferLen : Receive(n)
  \/ ParsePacket

Spec == Init /\ [][Next]_parserVars

-------------------------------------------------------------------------------
TypeOK ==
  /\ stream \in Streams
  /\ {pos, start, lost} \subseteq Nat
  /\ recv_buffer \in [Index -> Byte]
  /\ recv_len \in 0..RecvBufferLen
  /\ calls \in Nat /\ (calls > 0 => recv_len > 0)
  /\ replies \in Seq(Nat)
  /\ {closed, exact, misread} \subseteq BOOLEAN
  /\ fate \in {"up", "crashed", "undefined"}

(* From its second activation on, parse_packet reads zeros only, since what   *)
(* remains is cleared before it is moved.  This is what the code does and not *)
(* what it is meant to do: its first comment has the next packet parsed.      *)
RestIsZero == calls > 1 => \A i \in 0..recv_len - 1 : recv_buffer[i] = 0

First == PacketAt(start)

(* The receive began with a whole packet.                                    *)
FirstWhole == First # 0 /\ start + Size(stream[First]) <= pos

(* No size below zero is computed from a receive that begins with a whole    *)
(* packet, whatever follows it, unless it is a PUBLISH shorter than its uuid *)
(* or a DIS_CONN, whose offset nobody sets.                                  *)
CrashHasCause ==
  fate # "up" =>
    \/ ~FirstWhole
    \/ stream[First].type = DisConnect
    \/ stream[First].type = Publish /\ Len(stream[First].data) < UuidLen

(* The receive begins inside a packet, with data that is taken for a packet:  *)
(* SSP, a type and, but for a PING, a length.                                 *)
TakenForPacket == First = 0 /\ \A i \in 1..3 : Bytes[start + i] = SSP[i]
TakenType == Bytes[start + 4]
TakenEnd ==
  start + IF TakenType = Ping THEN 4 ELSE 6 + 256 * Bytes[start + 5] + Bytes[start + 6]

(* The descriptor is closed because a receive has less than four bytes; or it *)
(* begins with a packet that is a DIS_CONN, or has one to three bytes behind   *)
(* it; or it begins inside a packet, with data that is taken for such a one.   *)
ClosedForReason ==
  closed =>
    \/ pos - start < 4
    \/ /\ First # 0
       /\ \/ stream[First].type = DisConnect
          \/ FirstWhole /\ pos - (start + Size(stream[First])) \in 1..3
    \/ /\ TakenForPacket
       /\ TakenType = DisConnect \/ pos - TakenEnd \in 1..3

(* A client that sends, and waits for each answer before it sends again, when *)
(* the stray byte of the header has been 0 each time.                         *)
Answerable(p) ==
  \/ p.type \in {Ping, Conn, Send}
  \/ p.type = Publish /\ Len(p.data) >= UuidLen

SendsAndWaits ==
  exact /\ ~misread /\ \A i \in 1..Len(stream) : Answerable(stream[i])

(* What a client that sends and waits can rely on: as long as every receive  *)
(* is one packet and no header is misread, each packet is answered with the   *)
(* next type, and args is freed.                                              *)
ExactAnswered ==
  SendsAndWaits =>
    /\ fate = "up" /\ ~closed /\ lost = 0
    /\ calls = 0 => \E n \in 0..Len(stream) :
         /\ Until(n) = pos
         /\ replies = [i \in 1..n |-> stream[i].type + 1]

BaseInv == TypeOK /\ RestIsZero

(* The first activation sees what was received.                              *)
BufferIsReceived ==
  /\ start <= pos /\ pos <= Len(Bytes)
  /\ calls = 1 =>
       /\ recv_len = pos - start
       /\ \A i \in 0..recv_len - 1 : recv_buffer[i] = Bytes[start + i + 1]

(* The second one is left with what came behind the first packet, or what has *)
(* been taken for it, unless nobody set the offset.                           *)
RestIsAfterFirst ==
  calls > 1 =>
    \/ First # 0 /\ stream[First].type = DisConnect
    \/ FirstWhole /\ recv_len = pos - (start + Size(stream[First]))
    \/ TakenForPacket /\ (TakenType = DisConnect \/ recv_len = pos - TakenEnd)

(* ExactAnswered with what it means while parse_packet is active.            *)
InStep ==
  SendsAndWaits =>
    /\ fate = "up" /\ ~closed /\ lost = 0 /\ calls \in {0, 1}
    /\ \E n \in 0..Len(stream) :
         /\ replies = [i \in 1..n |-> stream[i].type + 1]
         /\ calls = 0 => Until(n) = pos
         /\ calls = 1 => n < Len(stream) /\ Until(n) = start /\ Until(n + 1) = pos

IInv ==
  /\ BaseInv
  /\ BufferIsReceived /\ RestIsAfterFirst /\ InStep
  /\ CrashHasCause /\ ClosedForReason
===============================================================================
