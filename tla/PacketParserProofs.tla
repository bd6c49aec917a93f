-------------------------- MODULE PacketParserProofs --------------------------
(***************************************************************************)
(* What parse_packet does with what it receives, for every buffer size, every *)
(* stream of packets, however recv cuts it, and every value of the bytes and *)
(* offsets that nobody writes.  It calls itself at most once per receive:     *)
(* what is left is cleared before it is moved to the front, so the second    *)
(* activation reads zeros, finds no header and returns (BaseInv).  The first  *)
(* one reads what was received (BufferIsReceived), and so, when the receive   *)
(* begins where a packet begins, its type and its length (FirstHeader): that *)
(* is what its replies, its crashes and its closes are traced back to.       *)
(***************************************************************************)
EXTENDS PacketParser, SequenceTheorems, Induction, TLAPS

-------------------------------------------------------------------------------
(* A flattened sequence is the last of the concatenations of its first parts. *)
LEMMA FlattenIsJoin ==
  ASSUME NEW S, NEW n \in Nat \ {0}, NEW parts, Len(parts) = n,
         \A i \in 1..n : parts[i] \in Seq(S)
  PROVE  \E joined : FlattenSeq(parts) = joined[n] /\ IsJoin(joined, parts, n)
<1> DEFINE Law(f) == f = [i \in 1..n |-> IF i = 1 THEN parts[i] ELSE f[i - 1] \o parts[i]]
           joined == CHOOSE f : Law(f)
<1>1. PICK f : f \in [1..n -> Seq(S)] /\ IsJoin(f, parts, n)
  BY RunningConcat, Zenon
<1>2. Law(f)
  BY <1>1 DEF IsJoin
<1>3. Law(joined)
  <2> HIDE DEF Law
  <2>1. QED
    BY <1>2, Zenon
<1>4. FlattenSeq(parts) = joined[n]
  <2>1. Len(parts) # 0
    OBVIOUS
  <2>2. QED
    BY <2>1, Zenon DEF FlattenSeq
<1> HIDE DEF joined
<1>5. IsJoin(joined, parts, n)
  BY <1>3 DEF IsJoin
<1>6. QED
  BY <1>4, <1>5

-------------------------------------------------------------------------------
(* The bytes of a packet.                                                    *)
LEMMA LengthBytes ==
  \A n \in Nat : n \div 256 \in Nat /\ n % 256 \in Nat /\ 256 * (n \div 256) + (n % 256) = n
OBVIOUS

LEMMA EncodeFacts ==
  ASSUME NEW p \in [type : Byte, data : Seq(Byte)]
  PROVE  /\ Encode(p) \in Seq(Nat)
         /\ Size(p) = IF p.type = Ping THEN 4 ELSE 6 + Len(p.data)
         /\ Encode(p)[1] = 83 /\ Encode(p)[2] = 83 /\ Encode(p)[3] = 80
         /\ Encode(p)[4] = p.type
         /\ p.type # Ping => 256 * Encode(p)[5] + Encode(p)[6] = Len(p.data)
<1> DEFINE high == Len(p.data) \div 256
           low == Len(p.data) % 256
<1>1. p.type \in Nat /\ p.data \in Seq(Nat) /\ Len(p.data) \in Nat
  <2>1. p.type \in Byte /\ p.data \in Seq(Byte)
    OBVIOUS
  <2>2. Byte \subseteq Nat
    BY DEF Byte
  <2>3. p.data \in Seq(Nat)
    BY <2>1, <2>2, SeqMonotonic, Zenon
  <2>4. Len(p.data) \in Nat
    BY <2>3
  <2>5. QED
    BY <2>1, <2>2, <2>3, <2>4
<1>2. high \in Nat /\ low \in Nat /\ 256 * high + low = Len(p.data)
  BY <1>1, LengthBytes
<1> HIDE DEF high, low
<1> DEFINE front == SSP \o <<p.type>>
           back == <<high, low>> \o p.data
<1>0. front \in Seq(Nat)
  BY <1>1 DEF SSP
<1>3. /\ front \in Seq(Nat) /\ Len(front) = 4
      /\ front[1] = 83 /\ front[2] = 83 /\ front[3] = 80 /\ front[4] = p.type
  BY <1>1 DEF SSP
<1>4. CASE p.type = Ping
  <2>1. Encode(p) = front \o <<>>
    BY <1>4 DEF Encode
  <2> HIDE DEF front
  <2>2. Encode(p) = front
    BY <1>3, <2>1, ConcatEmptySeq
  <2>3. QED
    BY <1>3, <1>4, <2>2 DEF Size
<1>5. CASE p.type # Ping
  <2>1. <<high, low>> \in Seq(Nat) /\ Len(<<high, low>>) = 2
        /\ <<high, low>>[1] = high /\ <<high, low>>[2] = low
    BY <1>2
  <2>2. /\ back \in Seq(Nat) /\ Len(back) = 2 + Len(p.data)
        /\ back[1] = high /\ back[2] = low
    <3>1. 1 \in 1..2 /\ 2 \in 1..2
      OBVIOUS
    <3> DEFINE length == <<high, low>>
    <3>2. length \in Seq(Nat)
      BY <2>1
    <3>2a. Len(length) = 2 /\ length[1] = high /\ length[2] = low
      BY <2>1
    <3>3. back = length \o p.data
      OBVIOUS
    <3> HIDE DEF length, back
    <3>4. /\ length \o p.data \in Seq(Nat)
          /\ Len(length \o p.data) = Len(length) + Len(p.data)
          /\ \A x \in 1..Len(length) : (length \o p.data)[x] = length[x]
      BY <1>1, <3>2
    <3>5. QED
      BY <3>1, <3>2a, <3>3, <3>4
  <2>3. Encode(p) = front \o back
    BY <1>5 DEF Encode, high, low
  <2> HIDE DEF front, back
  <2>4. /\ Encode(p) \in Seq(Nat) /\ Len(Encode(p)) = 4 + Len(back)
        /\ \A i \in 1..4 : Encode(p)[i] = front[i]
        /\ \A i \in 1..Len(back) : Encode(p)[4 + i] = back[i]
    <3>1. /\ front \o back \in Seq(Nat) /\ Len(front \o back) = Len(front) + Len(back)
          /\ \A x \in 1..Len(front) : (front \o back)[x] = front[x]
          /\ \A x \in 1..Len(back) : (front \o back)[Len(front) + x] = back[x]
      <4>1. back \in Seq(Nat)
        BY <2>2
      <4>2. QED
        BY <1>0, <4>1
    <3>2. QED
      BY <1>3, <2>3, <3>1, SMTT(30)
  <2>5. 4 + 1 = 5 /\ 4 + 2 = 6 /\ 1 \in 1..Len(back) /\ 2 \in 1..Len(back)
    BY <1>1, <2>2
  <2>6. Encode(p)[5] = high /\ Encode(p)[6] = low
    BY <2>2, <2>4, <2>5
  <2>7. Encode(p)[1] = 83 /\ Encode(p)[2] = 83 /\ Encode(p)[3] = 80 /\ Encode(p)[4] = p.type
    BY <1>3, <2>4
  <2>8. Size(p) = 6 + Len(p.data)
    BY <1>1, <2>2, <2>4 DEF Size
  <2>9. QED
    BY <1>2, <1>5, <2>4, <2>6, <2>7, <2>8
<1>6. QED
  BY <1>4, <1>5

(* Where the packets of the stream are among its bytes.                      *)
LEMMA EndsIsSum ==
  ASSUME stream \in Streams
  PROVE  /\ Len(stream) \in Nat
         /\ \A k \in 1..Len(stream) :
              /\ stream[k] \in [type : Byte, data : Seq(Byte)]
              /\ Encode(stream[k]) \in Seq(Nat)
              /\ Size(stream[k]) \in Nat /\ Size(stream[k]) >= 4
         /\ IsSum(Ends, [i \in 1..Len(stream) |-> Size(stream[i])], Len(stream))
<1> DEFINE n == Len(stream)
           Packet == [type : Byte, data : Seq(Byte)]
           size == [i \in 1..n |-> Size(stream[i])]
           Law(f) == f = [i \in 0..n |-> IF i = 0 THEN 0 ELSE f[i - 1] + Size(stream[i])]
<1>1. n \in Nat /\ \A k \in 1..n : stream[k] \in Packet
  <2>1. stream \in Seq(Packet)
    BY ParserAssumption
  <2> HIDE DEF Packet
  <2>2. QED
    BY <2>1, ElementOfSeq
<1>2. ASSUME NEW k \in 1..n
      PROVE  Encode(stream[k]) \in Seq(Nat) /\ Size(stream[k]) \in Nat /\ Size(stream[k]) >= 4
  <2>1. stream[k] \in Packet /\ Len(stream[k].data) \in Nat
    BY <1>1
  <2>2. QED
    BY <2>1, EncodeFacts
<1>3. PICK f : IsSum(f, size, n)
  <2>1. \A i \in 1..n : size[i] \in Nat
    BY <1>2
  <2> HIDE DEF size, n
  <2>2. QED
    BY <1>1, <2>1, RunningSum, Zenon
<1>4. Law(f)
  <2>1. \A i \in 0..n : f[i] = IF i = 0 THEN 0 ELSE f[i - 1] + Size(stream[i])
    <3>1. \A i \in 0..n : i # 0 => size[i] = Size(stream[i])
      BY <1>1
    <3> HIDE DEF size
    <3>2. QED
      BY <1>3, <3>1 DEF IsSum
  <2>2. f \in [0..n -> Nat]
    BY <1>3 DEF IsSum
  <2>3. QED
    BY <2>1, <2>2
<1>5. Law(Ends)
  <2>1. Ends = CHOOSE g : Law(g)
    BY Zenon DEF Ends
  <2> HIDE DEF Law
  <2>2. QED
    BY <1>4, <2>1, Zenon
<1>6. \A i \in 1..n : Ends[i] = Ends[i - 1] + Size(stream[i])
  BY <1>5
<1>7. Ends[0] = 0
  BY <1>1, <1>5
<1>8. \A i \in 0..n : Ends[i] \in Nat
  <2> HIDE DEF Law
  <2> DEFINE T == {i \in 0..n : Ends[i] \in Nat}
  <2>1. 0 \in T
    BY <1>1, <1>7
  <2>2. ASSUME NEW i \in 1..n, i - 1 \in T PROVE i \in T
    BY <1>2, <1>6, <2>2
  <2> HIDE DEF T
  <2>3. 0..n \subseteq T
    BY <1>1, <2>1, <2>2, Induct
  <2>4. QED
    BY <2>3 DEF T
<1>9. Ends \in [0..n -> Nat]
  BY <1>5, <1>8
<1>10. IsSum(Ends, size, n)
  <2>1. \A i \in 0..n : i # 0 => i \in 1..n
    BY <1>1
  <2> HIDE DEF Law
  <2>2. QED
    BY <1>6, <1>7, <1>9, <2>1 DEF IsSum
<1>11. QED
  BY <1>1, <1>2, <1>10

(* Each packet begins where the one before it ends, and no other there.      *)
LEMMA UntilFacts ==
  ASSUME stream \in Streams
  PROVE  /\ \A i \in 0..Len(stream) : Until(i) \in Nat
         /\ Until(0) = 0
         /\ \A i \in 1..Len(stream) : Until(i) = Until(i - 1) + Size(stream[i])
         /\ \A i, k \in 0..Len(stream) : i <= k => Until(i) <= Until(k)
         /\ \A i, k \in 0..Len(stream) : Until(i) = Until(k) => i = k
<1> DEFINE n == Len(stream)
           size == [i \in 1..n |-> Size(stream[i])]
<1>1. /\ n \in Nat /\ IsSum(Ends, size, n)
      /\ \A i \in 1..n : size[i] \in Nat /\ size[i] > 0
  BY EndsIsSum
<1>2. /\ \A i \in 0..n : Ends[i] \in Nat
      /\ Ends[0] = 0
  <2> HIDE DEF size
  <2>1. 0 \in 0..n
    BY <1>1
  <2>2. QED
    BY <1>1, <2>1 DEF IsSum
<1>3. ASSUME NEW i \in 1..n
      PROVE  Ends[i] = Ends[i - 1] + Size(stream[i])
  <2>1. size[i] = Size(stream[i]) /\ i \in 0..n /\ i # 0
    OBVIOUS
  <2> HIDE DEF size
  <2>2. QED
    BY <1>1, <2>1 DEF IsSum
<1>4. ASSUME NEW i \in 1..n
      PROVE  Ends[i - 1] < Ends[i]
  <2>1. i - 1 \in 0..n /\ i \in 0..n /\ size[i] = Size(stream[i])
    OBVIOUS
  <2> HIDE DEF size
  <2>2. QED
    BY <1>1, <1>2, <1>3, <2>1
<1> HIDE DEF size
<1>5. ASSUME NEW k \in 0..n, NEW m \in k..n
      PROVE  Ends[k] <= Ends[m]
  BY <1>1, SumsGrow
<1>6. ASSUME NEW i \in 0..n, NEW k \in 0..n, i < k
      PROVE  Ends[i] < Ends[k]
  <2>1. i + 1 \in 1..n /\ k \in (i + 1)..n /\ i + 1 \in 0..n /\ (i + 1) - 1 = i
    BY <1>1, <1>6
  <2>2. Ends[i] < Ends[i + 1] /\ Ends[i + 1] <= Ends[k]
    BY <1>4, <1>5, <2>1
  <2>3. QED
    BY <1>2, <2>1, <2>2
<1>7. ASSUME NEW i \in 0..n, NEW k \in 0..n, Ends[i] = Ends[k]
      PROVE  i = k
  <2>1. ~ (Ends[i] < Ends[k]) /\ ~ (Ends[k] < Ends[i])
    BY <1>2, <1>7
  <2>2. ~ (i < k) /\ ~ (k < i)
    BY <1>6, <2>1
  <2>3. QED
    BY <1>1, <2>2
<1>8. \A i, k \in 0..n : i <= k => Ends[i] <= Ends[k]
  BY <1>1, <1>5
<1>9. QED
  BY <1>2, <1>3, <1>7, <1>8 DEF Until

LEMMA BytesFacts ==
  ASSUME stream \in Streams
  PROVE  /\ Bytes \in Seq(Nat)
         /\ Len(Bytes) = Until(Len(stream))
         /\ \A k \in 1..Len(stream) : \A j \in 1..Size(stream[k]) :
              Bytes[Until(k - 1) + j] = Encode(stream[k])[j]
<1> DEFINE n == Len(stream)
           parts == [i \in 1..n |-> Encode(stream[i])]
<1>1. n \in Nat /\ \A i \in 1..n : parts[i] \in Seq(Nat) /\ parts[i] = Encode(stream[i])
  BY EndsIsSum
<1>2. \A i \in 1..n : Len(parts[i]) = Size(stream[i])
  BY <1>1 DEF Size
<1>3. Len(parts) = n /\ (n = 0 => parts = <<>>)
  BY <1>1
<1>4. Bytes = FlattenSeq(parts)
  BY DEF Bytes
<1> HIDE DEF parts
<1> DEFINE size == [i \in 1..n |-> Size(stream[i])]
<1>5. IsSum(Ends, size, n) /\ \A i \in 1..n : size[i] = Len(parts[i])
  BY <1>2, EndsIsSum
<1> HIDE DEF size
<1> HIDE DEF n
<1>6. CASE n = 0
  <2>1. parts = <<>> /\ Len(parts) = 0
    BY <1>3, <1>6
  <2>2. Bytes = <<>>
    BY <1>4, <2>1, Zenon DEF FlattenSeq
  <2>3. Ends[0] = 0
    BY <1>1, <1>5, SumFacts
  <2>4. Bytes \in Seq(Nat) /\ Len(Bytes) = 0
    BY <2>2
  <2>5. \A k : k \notin 1..n
    BY <1>6
  <2>6. QED
    BY <1>6, <2>3, <2>4, <2>5 DEF Until, n
<1>7. CASE n # 0
  <2>1. n \in Nat \ {0} /\ n \in 1..n
    BY <1>1, <1>7
  <2>2. PICK joined : FlattenSeq(parts) = joined[n] /\ IsJoin(joined, parts, n)
    BY <1>1, <1>3, <2>1, FlattenIsJoin
  <2>3. /\ joined[n] \in Seq(Nat) /\ Len(joined[n]) = Ends[n]
        /\ \A k \in 1..n : \A j \in 1..Len(parts[k]) :
             joined[n][Ends[k - 1] + j] = parts[k][j]
    <3>1. \A i \in 1..n : parts[i] \in Seq(Nat)
      BY <1>1
    <3>2. \A i \in 1..n : size[i] = Len(parts[i])
      BY <1>5
    <3>3. IsSum(Ends, size, n) /\ IsJoin(joined, parts, n) /\ n \in Nat \ {0}
      BY <1>5, <2>1, <2>2
    <3>4. HasParts(joined[n], parts, Ends, n, Nat)
      BY <3>1, <3>2, <3>3, JoinAt
    <3>5. QED
      BY <3>4 DEF HasParts
  <2>4. Bytes = joined[n]
    BY <1>4, <2>2
  <2>5. /\ Bytes \in Seq(Nat) /\ Len(Bytes) = Ends[n]
        /\ \A k \in 1..n : \A j \in 1..Len(parts[k]) : Bytes[Ends[k - 1] + j] = parts[k][j]
    BY <2>3, <2>4
  <2>6. \A k \in 1..n : \A j \in 1..Size(stream[k]) :
          Bytes[Ends[k - 1] + j] = Encode(stream[k])[j]
    BY <1>1, <1>2, <2>5
  <2>7. QED
    BY <2>5, <2>6 DEF Until, n
<1>8. QED
  BY <1>6, <1>7

LEMMA PacketAtFacts ==
  ASSUME stream \in Streams
  PROVE  /\ \A x : PacketAt(x) \in 0..Len(stream)
                   /\ (PacketAt(x) # 0 => Until(PacketAt(x) - 1) = x)
         /\ \A k \in 1..Len(stream) : PacketAt(Until(k - 1)) = k
<1>1. Len(stream) \in Nat
  BY EndsIsSum
<1>2. ASSUME NEW x
      PROVE  PacketAt(x) \in 0..Len(stream) /\ (PacketAt(x) # 0 => Until(PacketAt(x) - 1) = x)
  <2> DEFINE here == {i \in 1..Len(stream) : Until(i - 1) = x}
  <2>1. CASE here = {}
    BY <1>1, <2>1 DEF PacketAt
  <2>2. CASE here # {}
    <3>1. PacketAt(x) = CHOOSE i \in here : TRUE
      BY <2>2 DEF PacketAt
    <3>2. PacketAt(x) \in here
      BY <2>2, <3>1
    <3>3. QED
      BY <1>1, <3>2
  <2>3. QED
    BY <2>1, <2>2
<1>3. ASSUME NEW k \in 1..Len(stream)
      PROVE  PacketAt(Until(k - 1)) = k
  <2> DEFINE here == {i \in 1..Len(stream) : Until(i - 1) = Until(k - 1)}
  <2>1. here = {k}
    <3>1. \A i \in 1..Len(stream) : i - 1 \in 0..Len(stream)
      BY <1>1
    <3>2. \A i \in here : i - 1 = k - 1
      BY <3>1, UntilFacts
    <3>3. \A i \in here : i = k
      BY <1>1, <3>2
    <3>4. QED
      BY <3>3
  <2>2. PacketAt(Until(k - 1)) = CHOOSE i \in here : TRUE
    BY <2>1 DEF PacketAt
  <2>3. QED
    BY <2>1, <2>2
<1>4. QED
  BY <1>2, <1>3

-------------------------------------------------------------------------------
(* An activation that goes on finds a header, so it is the first one.        *)
LEMMA HeaderIsFirst ==
  ASSUME BaseInv, Header
  PROVE  calls = 1
<1>1. calls \in Nat /\ calls > 0 /\ recv_len >= 4
  BY DEF BaseInv, TypeOK, Header, Parsing, ShortLen
<1>2. recv_buffer[0] = 83
  BY DEF Header, HasSSP, SSP
<1>3. calls > 1 => recv_buffer[0] = 0
  BY <1>1 DEF BaseInv, TypeOK, RestIsZero
<1>4. QED
  BY <1>1, <1>2, <1>3

(* What is moved to the front is cleared, and fits.                          *)
LEMMA MovedIsZero ==
  ASSUME BaseInv, NEW offset \in Int, offset >= 0, recv_len - offset > 0
  PROVE  /\ Moved(offset, recv_len - offset) \in [Index -> Byte]
         /\ \A i \in 0..recv_len - offset - 1 : Moved(offset, recv_len - offset)[i] = 0
<1> DEFINE remain == recv_len - offset
           cleared == [i \in Index |-> IF i >= offset THEN 0 ELSE recv_buffer[i]]
<1>1. recv_len \in Nat /\ recv_len <= RecvBufferLen /\ RecvBufferLen \in Nat
  BY ParserAssumption DEF BaseInv, TypeOK
<1>2. cleared \in [Index -> Byte]
  BY DEF BaseInv, TypeOK, Byte
<1>3. \A i \in Index : (IF i < remain THEN offset + i ELSE i) \in Index
  BY <1>1 DEF Index
<1>4. \A i \in 0..remain - 1 : i \in Index /\ offset + i \in Index /\ cleared[offset + i] = 0
  BY <1>1 DEF Index
<1>5. Moved(offset, remain) = [i \in Index |-> cleared[IF i < remain THEN offset + i ELSE i]]
  BY DEF Moved
<1> HIDE DEF cleared
<1>6. Moved(offset, remain) \in [Index -> Byte]
  BY <1>2, <1>3, <1>5
<1>7. ASSUME NEW i \in 0..remain - 1
      PROVE  Moved(offset, remain)[i] = 0
  <2>1. i \in Index /\ i < remain
    BY <1>1, <1>4
  <2>2. QED
    BY <1>4, <1>5, <2>1
<1>8. QED
  BY <1>6, <1>7

LEMMA ContinueKeepsBase ==
  ASSUME BaseInv, Header, NEW offset \in Int, Continue(offset),
         UNCHANGED <<stream, pos, start, lost, exact, misread>>,
         replies' \in Seq(Nat), closed' \in BOOLEAN
  PROVE  BaseInv'
<1> DEFINE remain == recv_len - offset
<1>1. calls = 1
  BY HeaderIsFirst
<1>2. recv_len \in Int /\ recv_len > 0
  BY DEF BaseInv, TypeOK, Header, Parsing
<1>3. CASE remain = 0 \/ offset < 0 \/ remain < 0
  <2>1. /\ UNCHANGED <<recv_buffer, recv_len>>
        /\ calls' \in {0, calls}
        /\ fate' \in {fate, "undefined", "crashed"}
    BY <1>2, <1>3 DEF Continue, Returns, Crash
  <2>2. QED
    BY <1>1, <1>2, <2>1 DEF BaseInv, TypeOK, RestIsZero
<1>4. CASE offset >= 0 /\ remain > 0
  <2>1. /\ recv_buffer' = Moved(offset, remain)
        /\ recv_len' = remain
        /\ calls' = 2
        /\ fate' = fate
    BY <1>1, <1>2, <1>4 DEF Continue, Returns, Crash
  <2>2. recv_buffer' \in [Index -> Byte] /\ RestIsZero'
    BY <1>4, <2>1, MovedIsZero DEF RestIsZero
  <2>3. recv_len' \in 1..RecvBufferLen
    BY <1>2, <1>4, <2>1, ParserAssumption DEF BaseInv, TypeOK
  <2>4. QED
    BY <2>1, <2>2, <2>3 DEF BaseInv, TypeOK
<1>5. QED
  BY <1>2, <1>3, <1>4

LEMMA ReturnKeepsBase ==
  ASSUME BaseInv, Returns, UNCHANGED <<stream, pos, start, replies, exact>>,
         lost' \in Nat, closed' \in BOOLEAN, misread' \in BOOLEAN
  PROVE  BaseInv'
BY DEF BaseInv, TypeOK, Returns, RestIsZero

LEMMA OffsetIsInt ==
  ASSUME BaseInv
  PROVE  Offset \in Int /\ PacketType \in Nat
<1>1. 3 \in Index /\ 4 \in Index /\ 5 \in Index
  BY ParserAssumption DEF Index
<1>2. recv_buffer[3] \in Byte /\ recv_buffer[4] \in Byte /\ recv_buffer[5] \in Byte
  BY <1>1 DEF BaseInv, TypeOK
<1>3. recv_buffer[3] \in Nat /\ recv_buffer[4] \in Nat /\ recv_buffer[5] \in Nat
  BY <1>2 DEF Byte
<1>4. QED
  BY <1>3 DEF Offset, DataLen, PacketType

LEMMA NextBase ==
  ASSUME BaseInv, [Next]_parserVars
  PROVE  BaseInv'
<1>1. CASE UNCHANGED parserVars
  BY <1>1 DEF parserVars, BaseInv, TypeOK, RestIsZero
<1>2. ASSUME NEW n \in 1..RecvBufferLen, Receive(n)
      PROVE  BaseInv'
  <2>1. exact' \in BOOLEAN
    BY <1>2 DEF Receive
  <2>2. QED
    BY <1>2, <2>1, ParserAssumption
    DEF Receive, BaseInv, TypeOK, RestIsZero
<1>3. CASE TooShort
  <2>1. closed' \in BOOLEAN /\ Returns
    BY <1>3 DEF TooShort, BaseInv, TypeOK
  <2>2. QED
    BY <1>3, <2>1, ReturnKeepsBase DEF TooShort, BaseInv, TypeOK
<1>4. CASE NotSSP
  <2>1. misread' \in BOOLEAN
    BY <1>4 DEF NotSSP, BaseInv, TypeOK
  <2>2. QED
    BY <1>4, <2>1, ReturnKeepsBase DEF NotSSP, Drop, BaseInv, TypeOK
<1>5. CASE UnknownType
  BY <1>5, ReturnKeepsBase DEF UnknownType, Drop, BaseInv, TypeOK
<1>6. CASE Answer
  <2>1. CASE Reply /\ Continue(Offset)
    <3>1. replies' \in Seq(Nat)
      BY <2>1, OffsetIsInt DEF Reply, BaseInv, TypeOK
    <3>2. QED
      BY <1>6, <2>1, <3>1, OffsetIsInt, ContinueKeepsBase DEF Answer, BaseInv, TypeOK
  <2>2. CASE Crash /\ UNCHANGED replies
    BY <1>6, <2>2 DEF Answer, Crash, BaseInv, TypeOK, RestIsZero
  <2>3. QED
    BY <1>6, <2>1, <2>2 DEF Answer
<1>7. CASE DisConn
  <2>1. PICK stray \in StrayOffsets : Continue(stray)
    BY <1>7 DEF DisConn
  <2>2. stray \in Int
    BY ParserAssumption
  <2>3. QED
    BY <1>7, <2>1, <2>2, ContinueKeepsBase DEF DisConn, BaseInv, TypeOK
<1>8. QED
  BY <1>1, <1>2, <1>3, <1>4, <1>5, <1>6, <1>7 DEF Next, ParsePacket

(* Initially nothing has been received.                                      *)
LEMMA InitBase == Init => BaseInv
<1> SUFFICES ASSUME Init PROVE BaseInv
  OBVIOUS
<1>1. recv_buffer \in [Index -> Byte] /\ recv_len \in 0..RecvBufferLen
  BY ParserAssumption DEF Init, Byte
<1>2. replies \in Seq(Nat)
  BY DEF Init
<1>3. {closed, exact, misread} \subseteq BOOLEAN
  BY Zenon DEF Init
<1>4. /\ stream \in Streams /\ {pos, start, lost} \subseteq Nat
      /\ calls = 0 /\ fate = "up"
  BY DEF Init
<1>5. RestIsZero
  BY <1>4 DEF RestIsZero
<1>6. QED
  BY <1>1, <1>2, <1>3, <1>4, <1>5 DEF BaseInv, TypeOK

-------------------------------------------------------------------------------
(* What the first activation sees of a receive that begins inside a packet.  *)
LEMMA TakenHeader ==
  ASSUME BaseInv, BufferIsReceived, calls = 1, First = 0, recv_len >= 4, HasSSP
  PROVE  /\ TakenForPacket
         /\ TakenType = PacketType
         /\ Offset < recv_len => TakenEnd = start + Offset
<1>1. recv_len \in Nat /\ start \in Nat
  BY ParserAssumption DEF BaseInv, TypeOK
<1>2. \A i \in 0..recv_len - 1 : recv_buffer[i] = Bytes[start + i + 1]
  BY DEF BufferIsReceived
<1>3. \A i \in 1..4 : recv_buffer[i - 1] = Bytes[start + i]
  <2>1. SUFFICES ASSUME NEW i \in 1..4 PROVE recv_buffer[i - 1] = Bytes[start + i]
    OBVIOUS
  <2>2. i - 1 \in 0..recv_len - 1 /\ start + (i - 1) + 1 = start + i
    BY <1>1
  <2>3. QED
    BY <1>2, <2>2
<1>4. TakenForPacket
  BY <1>3 DEF TakenForPacket, HasSSP
<1>5. TakenType = PacketType
  BY <1>3 DEF TakenType, PacketType
<1>6. ASSUME Offset < recv_len PROVE TakenEnd = start + Offset
  <2>1. CASE PacketType = Ping
    BY <1>5, <2>1 DEF TakenEnd, Offset
  <2>2. CASE PacketType # Ping
    <3>1. recv_buffer[4] \in Nat /\ recv_buffer[5] \in Nat /\ DataLen \in Nat
      <4>1. 4 \in Index /\ 5 \in Index
        BY ParserAssumption DEF Index
      <4>2. recv_buffer[4] \in Byte /\ recv_buffer[5] \in Byte
        BY <4>1 DEF BaseInv, TypeOK
      <4>3. recv_buffer[4] \in Nat /\ recv_buffer[5] \in Nat
        BY <4>2 DEF Byte
      <4>4. QED
        BY <4>3 DEF DataLen
    <3>2. 4 \in 0..recv_len - 1 /\ 5 \in 0..recv_len - 1
      BY <1>1, <1>6, <2>2, <3>1 DEF Offset
    <3>3. recv_buffer[4] = Bytes[start + 4 + 1] /\ recv_buffer[5] = Bytes[start + 5 + 1]
      BY <1>2, <3>2
    <3>4. start + 4 + 1 = start + 5 /\ start + 5 + 1 = start + 6
      BY <1>1
    <3>5. 256 * Bytes[start + 5] + Bytes[start + 6] = DataLen
      BY <3>3, <3>4 DEF DataLen
    <3>6. 6 + 256 * Bytes[start + 5] + Bytes[start + 6] = 6 + DataLen
      <4>1. Bytes[start + 5] \in Nat /\ Bytes[start + 6] \in Nat
        BY <3>1, <3>3, <3>4
      <4>2. QED
        BY <3>5, <4>1
    <3>7. QED
      BY <1>5, <2>2, <3>6 DEF TakenEnd, Offset
  <2>3. QED
    BY <2>1, <2>2
<1>7. QED
  BY <1>4, <1>5, <1>6

(* What the first activation sees of the packet that its receive begins with. *)
LEMMA FirstHeader ==
  ASSUME BaseInv, BufferIsReceived, calls = 1, First # 0, recv_len >= 4
  PROVE  /\ HasSSP
         /\ PacketType = stream[First].type
         /\ FirstWhole <=> Size(stream[First]) <= recv_len
         /\ FirstWhole => Offset = Size(stream[First])
         /\ ~FirstWhole => Offset > recv_len
         /\ FirstWhole /\ PacketType # Ping => DataLen = Len(stream[First].data)
<1> DEFINE p == stream[First]
<1>1. stream \in Streams /\ First \in 1..Len(stream) /\ Until(First - 1) = start
  <2>1. stream \in Streams
    BY DEF BaseInv, TypeOK
  <2>2. First \in 0..Len(stream) /\ Until(First - 1) = start /\ Len(stream) \in Nat
    BY <2>1, PacketAtFacts, EndsIsSum DEF First
  <2>3. QED
    BY <2>1, <2>2
<1>2. p \in [type : Byte, data : Seq(Byte)] /\ Size(p) \in Nat /\ Size(p) >= 4
  BY <1>1, EndsIsSum
<1>3. /\ start \in Nat /\ pos \in Nat /\ recv_len \in Nat /\ recv_len <= RecvBufferLen
      /\ recv_len = pos - start /\ RecvBufferLen \in Nat
  BY ParserAssumption DEF BaseInv, TypeOK, BufferIsReceived
<1>4. ASSUME NEW j \in 1..Size(p), j <= recv_len
      PROVE  recv_buffer[j - 1] = Encode(p)[j]
  <2>1. Bytes[start + j] = Encode(p)[j]
    BY <1>1, BytesFacts
  <2>2. j - 1 \in 0..recv_len - 1 /\ start + (j - 1) + 1 = start + j
    BY <1>2, <1>3, <1>4
  <2>3. recv_buffer[j - 1] = Bytes[start + (j - 1) + 1]
    BY <2>2 DEF BufferIsReceived
  <2>4. QED
    BY <2>1, <2>2, <2>3
<1>5. /\ Size(p) = IF p.type = Ping THEN 4 ELSE 6 + Len(p.data)
      /\ Encode(p)[1] = 83 /\ Encode(p)[2] = 83 /\ Encode(p)[3] = 80
      /\ Encode(p)[4] = p.type
      /\ p.type # Ping => 256 * Encode(p)[5] + Encode(p)[6] = Len(p.data)
  BY <1>2, EncodeFacts
<1>6. Len(p.data) \in Nat
  BY <1>2
<1> HIDE DEF p
<1>7. /\ recv_buffer[0] = 83 /\ recv_buffer[1] = 83 /\ recv_buffer[2] = 80
      /\ recv_buffer[3] = p.type
  <2>1. 1 \in 1..Size(p) /\ 2 \in 1..Size(p) /\ 3 \in 1..Size(p) /\ 4 \in 1..Size(p)
    BY <1>2
  <2>2. 1 - 1 = 0 /\ 2 - 1 = 1 /\ 3 - 1 = 2 /\ 4 - 1 = 3
    OBVIOUS
  <2>3. 1 <= recv_len /\ 2 <= recv_len /\ 3 <= recv_len /\ 4 <= recv_len
    BY <1>3
  <2>4. QED
    BY <1>4, <1>5, <2>1, <2>2, <2>3
<1>8. HasSSP /\ PacketType = p.type
  BY <1>7 DEF HasSSP, SSP, PacketType
<1>9. FirstWhole <=> Size(p) <= recv_len
  BY <1>2, <1>3 DEF FirstWhole, p
<1>10. ASSUME p.type # Ping, recv_len >= 6
       PROVE  DataLen = Len(p.data)
  <2>1. 5 \in 1..Size(p) /\ 6 \in 1..Size(p)
    BY <1>5, <1>6, <1>10
  <2>2. recv_buffer[4] = Encode(p)[5] /\ recv_buffer[5] = Encode(p)[6]
    <3>1. 5 - 1 = 4 /\ 6 - 1 = 5 /\ 5 <= recv_len /\ 6 <= recv_len
      BY <1>3, <1>10
    <3>2. QED
      BY <1>4, <2>1, <3>1
  <2>3. QED
    BY <1>5, <1>10, <2>2 DEF DataLen
<1>11. DataLen \in Nat
  <2>1. 4 \in Index /\ 5 \in Index
    BY ParserAssumption DEF Index
  <2>2. recv_buffer[4] \in Byte /\ recv_buffer[5] \in Byte
    BY <2>1 DEF BaseInv, TypeOK
  <2>3. recv_buffer[4] \in Nat /\ recv_buffer[5] \in Nat
    BY <2>2 DEF Byte
  <2>4. QED
    BY <2>3 DEF DataLen
<1>12. CASE p.type = Ping
  <2>1. Size(p) = 4 /\ Offset = 4 /\ FirstWhole
    BY <1>5, <1>8, <1>9, <1>12 DEF Offset
  <2>2. QED
    BY <1>8, <1>9, <1>12, <2>1 DEF p
<1>13. CASE p.type # Ping
  <2>1. Offset = 6 + DataLen /\ Size(p) = 6 + Len(p.data)
    BY <1>5, <1>8, <1>13 DEF Offset
  <2>2. FirstWhole => recv_len >= 6
    BY <1>3, <1>6, <1>9, <2>1
  <2>3. FirstWhole => DataLen = Len(p.data) /\ Offset = Size(p)
    BY <1>10, <1>13, <2>1, <2>2
  <2>4. ~FirstWhole => Offset > recv_len
    <3>1. CASE recv_len >= 6
      BY <1>3, <1>6, <1>9, <1>10, <1>13, <2>1, <3>1
    <3>2. CASE recv_len < 6
      BY <1>3, <1>11, <2>1, <3>2
    <3>3. QED
      BY <1>3, <3>1, <3>2
  <2>5. QED
    BY <1>8, <1>9, <2>3, <2>4 DEF p
<1>14. QED
  BY <1>12, <1>13

(* An activation in step looks at exactly the next packet of the stream.     *)
LEMMA InStepHeader ==
  ASSUME IInv, Parsing, SendsAndWaits
  PROVE  /\ calls = 1 /\ fate = "up" /\ ~closed /\ lost = 0
         /\ First \in 1..Len(stream) /\ Answerable(stream[First])
         /\ Until(First) = pos
         /\ replies = [i \in 1..First - 1 |-> stream[i].type + 1]
         /\ recv_len = Size(stream[First]) /\ recv_len >= 4
         /\ FirstWhole /\ HasSSP /\ PacketType = stream[First].type
         /\ Offset = recv_len
         /\ PacketType # Ping => DataLen = Len(stream[First].data)
<1>0. calls = 1
  BY DEF IInv, InStep, Parsing
<1>1. BaseInv /\ BufferIsReceived /\ InStep /\ stream \in Streams
  BY DEF IInv, BaseInv, TypeOK
<1>2. PICK n \in 0..Len(stream) :
        /\ replies = [i \in 1..n |-> stream[i].type + 1]
        /\ n < Len(stream) /\ Until(n) = start /\ Until(n + 1) = pos
  BY <1>0, <1>1 DEF InStep
<1>3. Len(stream) \in Nat /\ n + 1 \in 1..Len(stream) /\ (n + 1) - 1 = n
  BY <1>1, <1>2, EndsIsSum
<1>4. First = n + 1
  <2>1. PacketAt(Until((n + 1) - 1)) = n + 1
    BY <1>1, <1>3, PacketAtFacts
  <2>2. QED
    BY <1>2, <1>3, <2>1 DEF First
<1>5. pos = start + Size(stream[First])
  <2>1. Until(n + 1) = Until((n + 1) - 1) + Size(stream[n + 1])
    BY <1>1, <1>3, UntilFacts
  <2>2. QED
    BY <1>2, <1>3, <1>4, <2>1
<1>6. /\ recv_len = pos - start /\ pos \in Nat /\ start \in Nat
      /\ Size(stream[First]) \in Nat /\ Size(stream[First]) >= 4
  BY <1>1, <1>3, <1>4, <1>0, EndsIsSum DEF BaseInv, TypeOK, BufferIsReceived
<1>7. recv_len = Size(stream[First]) /\ recv_len >= 4
  BY <1>5, <1>6
<1>8. First # 0
  BY <1>3, <1>4
<1>9. /\ HasSSP /\ PacketType = stream[First].type
      /\ FirstWhole <=> Size(stream[First]) <= recv_len
      /\ FirstWhole => Offset = Size(stream[First])
      /\ FirstWhole /\ PacketType # Ping => DataLen = Len(stream[First].data)
  BY <1>0, <1>1, <1>7, <1>8, FirstHeader
<1>10. FirstWhole
  BY <1>6, <1>7, <1>9
<1>11. fate = "up" /\ ~closed /\ lost = 0
  BY <1>1 DEF InStep
<1>12. Answerable(stream[First])
  BY <1>3, <1>4 DEF SendsAndWaits
<1>13. replies = [i \in 1..First - 1 |-> stream[i].type + 1]
  BY <1>2, <1>3, <1>4
<1>14. QED
  BY <1>0, <1>2, <1>3, <1>4, <1>7, <1>9, <1>10, <1>11, <1>12, <1>13

(* The stream does not change, and so nor do its offsets.                    *)
LEMMA StreamKept ==
  ASSUME stream' = stream
  PROVE  /\ Bytes' = Bytes
         /\ \A n : Until(n)' = Until(n)
         /\ \A x : PacketAt(x)' = PacketAt(x)
<1>1. Bytes' = Bytes
  BY DEF Bytes, Encode, SSP, Ping
<1>2. Ends' = Ends
  BY DEF Ends, Size, Encode, SSP, Ping
<1>3. \A n : Until(n)' = Until(n)
  BY <1>2 DEF Until
<1>4. QED
  BY <1>1, <1>2 DEF PacketAt, Until

(* Nor does the packet that the receive begins with, while it is parsed.     *)
LEMMA FirstKept ==
  ASSUME UNCHANGED <<stream, pos, start>>
  PROVE  /\ First' = First /\ FirstWhole' = FirstWhole
         /\ Size(stream[First])' = Size(stream[First])
<1>1. First' = First
  BY StreamKept DEF First
<1>2. Size(stream[First])' = Size(stream[First])
  BY <1>1 DEF Size, Encode, SSP, Ping
<1>3. QED
  BY <1>1, <1>2 DEF FirstWhole

LEMMA TakenKept ==
  ASSUME UNCHANGED <<stream, pos, start>>
  PROVE  /\ TakenForPacket' = TakenForPacket /\ TakenType' = TakenType
         /\ TakenEnd' = TakenEnd
<1>1. First' = First /\ Bytes' = Bytes /\ start' = start
  BY FirstKept, StreamKept
<1>2. TakenType' = TakenType
  BY <1>1 DEF TakenType
<1>3. QED
  BY <1>1, <1>2 DEF TakenForPacket, TakenEnd, SSP, Ping

(* Who sends and waits after a step did so before it.                        *)
LEMMA SentAndWaited ==
  ASSUME SendsAndWaits', stream' = stream, exact' => exact, misread => misread'
  PROVE  SendsAndWaits
BY DEF SendsAndWaits, Answerable, Ping, Conn, Send, Publish

-------------------------------------------------------------------------------
(* A call that ends leaves the invariant to what it says of closed and of    *)
(* the replies.                                                              *)
LEMMA ReturnKeeps ==
  ASSUME IInv, BaseInv', Parsing, Returns, UNCHANGED <<stream, pos, start>>,
         ClosedForReason', InStep'
  PROVE  IInv'
<1>1. fate' = "up" /\ calls' = 0
  BY DEF Parsing, Returns
<1>2. BufferIsReceived'
  BY <1>1, StreamKept DEF IInv, BufferIsReceived
<1>3. RestIsAfterFirst' /\ CrashHasCause'
  BY <1>1 DEF RestIsAfterFirst, CrashHasCause
<1>4. QED
  BY <1>2, <1>3 DEF IInv

LEMMA ReasonKept ==
  ASSUME ClosedForReason, UNCHANGED <<stream, pos, start, closed>>
  PROVE  ClosedForReason'
BY FirstKept, TakenKept DEF ClosedForReason, DisConnect

LEMMA ReceiveStep ==
  ASSUME IInv, BaseInv', NEW n \in 1..RecvBufferLen, Receive(n)
  PROVE  IInv'
<1>1. /\ start \in Nat /\ pos \in Nat /\ n \in Nat /\ n >= 1 /\ n <= RecvBufferLen
      /\ RecvBufferLen \in Nat
  BY ParserAssumption DEF IInv, BaseInv, TypeOK
<1>2. /\ calls = 0 /\ fate = "up" /\ ~closed
      /\ pos + n <= Len(Bytes)
      /\ recv_buffer' = [i \in Index |-> IF i < n THEN Bytes[pos + i + 1] ELSE 0]
      /\ recv_len' = n /\ start' = pos /\ pos' = pos + n /\ calls' = 1
      /\ exact' = (exact /\ PacketAt(pos) # 0 /\ Size(stream[PacketAt(pos)]) = n)
      /\ UNCHANGED <<stream, replies, lost, closed, fate, misread>>
  BY DEF Receive
<1>3. BufferIsReceived'
  <2>1. start' <= pos' /\ pos' <= Len(Bytes)' /\ recv_len' = pos' - start'
    BY <1>1, <1>2, StreamKept
  <2>2. ASSUME NEW i \in 0..n - 1
        PROVE  recv_buffer'[i] = Bytes'[start' + i + 1]
    <3>1. i \in Index /\ i < n
      BY <1>1 DEF Index
    <3>2. recv_buffer'[i] = Bytes[pos + i + 1]
      BY <1>2, <3>1
    <3>3. Bytes' = Bytes
      BY <1>2, StreamKept
    <3>4. QED
      BY <1>2, <3>2, <3>3
  <2>3. QED
    BY <1>2, <2>1, <2>2 DEF BufferIsReceived
<1>4. RestIsAfterFirst' /\ CrashHasCause' /\ ClosedForReason'
  BY <1>2 DEF RestIsAfterFirst, CrashHasCause, ClosedForReason
<1>5. InStep'
  <2> SUFFICES ASSUME SendsAndWaits'
               PROVE  /\ fate' = "up" /\ ~closed' /\ lost' = 0 /\ calls' \in {0, 1}
                      /\ \E k \in 0..Len(stream') :
                           /\ replies' = [i \in 1..k |-> stream'[i].type + 1]
                           /\ calls' = 0 => Until(k)' = pos'
                           /\ calls' = 1 => /\ k < Len(stream') /\ Until(k)' = start'
                                           /\ Until(k + 1)' = pos'
    BY DEF InStep
  <2>1. SendsAndWaits /\ exact'
    BY <1>2, SentAndWaited DEF SendsAndWaits
  <2>2. stream \in Streams /\ lost = 0
    BY <2>1 DEF IInv, BaseInv, TypeOK, InStep
  <2>3. PICK k \in 0..Len(stream) :
          Until(k) = pos /\ replies = [i \in 1..k |-> stream[i].type + 1]
    BY <1>2, <2>1 DEF IInv, InStep
  <2> DEFINE m == PacketAt(pos)
  <2>4. m # 0 /\ Size(stream[m]) = n
    BY <1>2, <2>1
  <2>5. m \in 1..Len(stream) /\ Until(m - 1) = pos /\ Len(stream) \in Nat
    <3>1. m \in 0..Len(stream) /\ (m # 0 => Until(m - 1) = pos)
      BY <2>2, PacketAtFacts
    <3>2. QED
      BY <2>2, <2>4, <3>1, EndsIsSum
  <2>6. Until(m) = pos + n
    BY <2>2, <2>4, <2>5, UntilFacts
  <2> HIDE DEF m
  <2>7. k = m - 1
    <3>1. m - 1 \in 0..Len(stream) /\ Until(k) = Until(m - 1)
      BY <2>3, <2>5
    <3>2. QED
      BY <2>2, <2>3, <3>1, UntilFacts
  <2>8. k < Len(stream) /\ Until(k + 1) = pos + n
    BY <2>5, <2>6, <2>7
  <2>9. Until(k)' = Until(k) /\ Until(k + 1)' = Until(k + 1)
    BY <1>2, StreamKept
  <2>10. QED
    BY <1>2, <2>2, <2>3, <2>8, <2>9
<1>6. QED
  BY <1>3, <1>4, <1>5 DEF IInv

LEMMA TooShortStep ==
  ASSUME IInv, BaseInv', TooShort
  PROVE  IInv'
<1>1. /\ Parsing /\ recv_len < 4 /\ Returns
      /\ UNCHANGED <<stream, pos, start, replies, lost, exact, misread>>
  BY DEF TooShort, ShortLen
<1>2. recv_len \in Nat /\ recv_len > 0 /\ calls \in Nat /\ calls > 0
  BY <1>1, ParserAssumption DEF IInv, BaseInv, TypeOK, Parsing
<1>3. ClosedForReason'
  <2>1. CASE calls = 1
    <3>1. pos - start < 4
      BY <1>1, <2>1 DEF IInv, BufferIsReceived
    <3>2. QED
      BY <1>1, <3>1 DEF ClosedForReason
  <2>2. CASE calls > 1
    <3>1. \/ First # 0 /\ stream[First].type = DisConnect
          \/ FirstWhole /\ recv_len = pos - (start + Size(stream[First]))
          \/ TakenForPacket /\ (TakenType = DisConnect \/ recv_len = pos - TakenEnd)
      BY <2>2 DEF IInv, RestIsAfterFirst
    <3>2. recv_len \in 1..3
      BY <1>1, <1>2
    <3>3. /\ First' = First /\ FirstWhole' = FirstWhole /\ stream' = stream
          /\ Size(stream[First])' = Size(stream[First]) /\ pos' = pos /\ start' = start
      BY <1>1, FirstKept
    <3>4. TakenForPacket' = TakenForPacket /\ TakenType' = TakenType /\ TakenEnd' = TakenEnd
      BY <1>1, TakenKept
    <3>5. FirstWhole => First # 0
      BY DEF FirstWhole
    <3>6. QED
      BY <3>1, <3>2, <3>3, <3>4, <3>5 DEF ClosedForReason, DisConnect
  <2>3. QED
    BY <1>2, <2>1, <2>2
<1>4. InStep'
  <2>1. ~SendsAndWaits
    BY <1>1, <1>2, InStepHeader
  <2>2. QED
    BY <1>1, <2>1, SentAndWaited DEF InStep
<1>5. QED
  BY <1>1, <1>3, <1>4, ReturnKeeps

LEMMA DropStep ==
  ASSUME IInv, BaseInv', NotSSP \/ UnknownType
  PROVE  IInv'
<1>1. /\ Parsing /\ Returns
      /\ misread => misread'
      /\ UNCHANGED <<stream, pos, start, replies, closed, exact>>
  <2>1. CASE NotSSP
    <3>1. \E stray \in StrayBytes : misread' = (misread \/ HasSSP)
      BY <2>1, Zenon DEF NotSSP
    <3>2. misread => misread'
      BY <3>1, Zenon
    <3>3. QED
      BY <2>1, <3>2 DEF NotSSP, Drop
  <2>2. CASE UnknownType
    BY <2>2 DEF UnknownType, Drop, Header
  <2>3. QED
    BY <2>1, <2>2
<1>2. ClosedForReason'
  BY <1>1, ReasonKept DEF IInv
<1>3. InStep'
  <2>1. ASSUME SendsAndWaits'
        PROVE  FALSE
    <3>1. SendsAndWaits
      BY <1>1, <2>1, SentAndWaited
    <3>2. HasSSP /\ Answerable(stream[First]) /\ PacketType = stream[First].type
      BY <1>1, <3>1, InStepHeader
    <3>3. CASE NotSSP
      BY <2>1, <3>2, <3>3 DEF NotSSP, SendsAndWaits
    <3>4. CASE UnknownType
      BY <3>2, <3>4 DEF UnknownType, Answerable
    <3>5. QED
      BY <3>3, <3>4
  <2>2. QED
    BY <2>1 DEF InStep
<1>4. QED
  BY <1>1, <1>2, <1>3, ReturnKeeps

(* parse_packet goes on behind its first packet.                             *)
LEMMA ContinueStep ==
  ASSUME IInv, BaseInv', Header, NEW offset \in Int, Continue(offset),
         UNCHANGED <<stream, pos, start>>,
         \/ /\ TakenForPacket
            /\ TakenType = DisConnect \/ (offset < recv_len => TakenEnd = start + offset)
         \/ First # 0 /\ stream[First].type = DisConnect
         \/ /\ First # 0 /\ offset >= 0
            /\ FirstWhole => offset = Size(stream[First])
            /\ ~FirstWhole => offset > recv_len
  PROVE  BufferIsReceived' /\ RestIsAfterFirst' /\ CrashHasCause'
<1>1. /\ fate = "up" /\ calls = 1 /\ recv_len \in Nat /\ recv_len = pos - start
      /\ start \in Nat /\ pos \in Nat
  BY HeaderIsFirst, ParserAssumption
  DEF Header, Parsing, IInv, BaseInv, TypeOK, BufferIsReceived
<1>2. First # 0 => Size(stream[First]) \in Nat
  <2>1. stream \in Streams
    BY DEF IInv, BaseInv, TypeOK
  <2>2. First \in 0..Len(stream) /\ Len(stream) \in Nat
    BY <2>1, PacketAtFacts, EndsIsSum DEF First
  <2>3. QED
    BY <2>1, <2>2, EndsIsSum
<1>3. /\ First' = First /\ FirstWhole' = FirstWhole /\ stream' = stream
      /\ Size(stream[First])' = Size(stream[First]) /\ pos' = pos /\ start' = start
      /\ Bytes' = Bytes
  BY FirstKept, StreamKept
<1>4. FirstWhole => First # 0 /\ Size(stream[First]) <= recv_len
  BY <1>1, <1>2 DEF FirstWhole
<1>5. BufferIsReceived'
  <2>1. calls' = 1 => UNCHANGED <<recv_buffer, recv_len>>
    BY <1>1 DEF Continue, Returns, Crash
  <2>2. QED
    BY <1>1, <1>3, <2>1 DEF IInv, BufferIsReceived
<1>6. CASE First # 0 /\ stream[First].type = DisConnect
  BY <1>3, <1>4, <1>5, <1>6 DEF RestIsAfterFirst, CrashHasCause, DisConnect
<1>7. CASE /\ TakenForPacket
           /\ TakenType = DisConnect \/ (offset < recv_len => TakenEnd = start + offset)
  <2>1. calls' > 1 => recv_len - offset > 0 /\ recv_len' = recv_len - offset
    BY <1>1 DEF Continue, Returns, Crash
  <2>2. calls' > 1 => TakenType = DisConnect \/ recv_len' = pos - TakenEnd
    <3>1. ASSUME recv_len - offset > 0, recv_len' = recv_len - offset,
                 TakenEnd = start + offset
          PROVE  recv_len' = pos - TakenEnd
      BY <1>1, <3>1
    <3>2. recv_len - offset > 0 => offset < recv_len
      BY <1>1
    <3>3. QED
      BY <1>7, <2>1, <3>1, <3>2
  <2>3. TakenForPacket' = TakenForPacket /\ TakenType' = TakenType /\ TakenEnd' = TakenEnd
    BY TakenKept
  <2>4. RestIsAfterFirst'
    BY <1>3, <1>7, <2>2, <2>3 DEF RestIsAfterFirst, DisConnect
  <2>5. CrashHasCause'
    BY <1>3, <1>4, <1>7 DEF TakenForPacket, CrashHasCause
  <2>6. QED
    BY <1>5, <2>4, <2>5
<1>8. CASE /\ First # 0 /\ offset >= 0
           /\ FirstWhole => offset = Size(stream[First])
           /\ ~FirstWhole => offset > recv_len
  <2>1. calls' > 1 => FirstWhole /\ recv_len' = pos - (start + Size(stream[First]))
    <3>1. calls' > 1 => recv_len - offset > 0 /\ recv_len' = recv_len - offset
      BY <1>1 DEF Continue, Returns, Crash
    <3>2. recv_len - offset > 0 => FirstWhole
      BY <1>1, <1>8
    <3>3. QED
      BY <1>1, <1>2, <1>8, <3>1, <3>2
  <2>2. fate' # "up" => ~FirstWhole
    <3>1. fate' # "up" => recv_len - offset < 0
      BY <1>1, <1>8 DEF Continue, Returns, Crash
    <3>2. recv_len - offset < 0 => ~FirstWhole
      BY <1>1, <1>2, <1>4, <1>8
    <3>3. QED
      BY <3>1, <3>2
  <2>3. QED
    BY <1>3, <1>5, <2>1, <2>2 DEF RestIsAfterFirst, CrashHasCause
<1>9. QED
  BY <1>6, <1>7, <1>8

LEMMA AnswerStep ==
  ASSUME IInv, BaseInv', Answer
  PROVE  IInv'
<1>1. /\ Header /\ Parsing
      /\ PacketType \in {Ping, Conn, Send, Publish}
      /\ UNCHANGED <<stream, pos, start, lost, closed, exact, misread>>
  BY DEF Answer, Header
<1>2. /\ calls = 1 /\ recv_len \in Nat /\ recv_len >= 4 /\ recv_len <= RecvBufferLen
      /\ fate = "up" /\ RecvBufferLen \in Nat /\ UuidLen \in Nat
  BY <1>1, HeaderIsFirst, ParserAssumption
  DEF IInv, BaseInv, TypeOK, Header, Parsing, ShortLen
<1>3. Offset \in Nat /\ DataLen \in Nat
  <2>1. 4 \in Index /\ 5 \in Index
    BY ParserAssumption DEF Index
  <2>2. recv_buffer[4] \in Byte /\ recv_buffer[5] \in Byte
    BY <2>1 DEF IInv, BaseInv, TypeOK
  <2>3. recv_buffer[4] \in Nat /\ recv_buffer[5] \in Nat
    BY <2>2 DEF Byte
  <2>4. DataLen \in Nat
    BY <2>3 DEF DataLen
  <2>5. QED
    BY <2>4 DEF Offset
<1>4. First # 0 =>
        /\ PacketType = stream[First].type
        /\ FirstWhole <=> Size(stream[First]) <= recv_len
        /\ FirstWhole => Offset = Size(stream[First])
        /\ ~FirstWhole => Offset > recv_len
        /\ FirstWhole /\ PacketType # Ping => DataLen = Len(stream[First].data)
  BY <1>2, FirstHeader DEF IInv
<1>5. FirstWhole => First # 0
  BY DEF FirstWhole
<1>6. ClosedForReason'
  BY <1>1, ReasonKept DEF IInv
<1>7. /\ First' = First /\ FirstWhole' = FirstWhole /\ stream' = stream
      /\ Bytes' = Bytes
  BY <1>1, FirstKept, StreamKept
<1>8. CASE Reply /\ Continue(Offset)
  <2>1. BufferIsReceived' /\ RestIsAfterFirst' /\ CrashHasCause'
    <3>1. \/ TakenForPacket /\ (Offset < recv_len => TakenEnd = start + Offset)
          \/ /\ First # 0 /\ Offset >= 0
             /\ FirstWhole => Offset = Size(stream[First])
             /\ ~FirstWhole => Offset > recv_len
      <4>1. CASE First = 0
        BY <1>1, <1>2, <4>1, TakenHeader DEF IInv, Header
      <4>2. CASE First # 0
        BY <1>3, <1>4, <4>2
      <4>3. QED
        BY <4>1, <4>2
    <3>2. Offset \in Int /\ UNCHANGED <<stream, pos, start>>
      BY <1>1, <1>3
    <3>3. QED
      BY <1>1, <1>8, <3>1, <3>2, ContinueStep
  <2>2. InStep'
    <3> SUFFICES ASSUME SendsAndWaits'
                 PROVE  /\ fate' = "up" /\ ~closed' /\ lost' = 0 /\ calls' = 0
                        /\ \E n \in 0..Len(stream') :
                             /\ replies' = [i \in 1..n |-> stream'[i].type + 1]
                             /\ Until(n)' = pos'
      BY DEF InStep
    <3>1. SendsAndWaits
      BY <1>1, SentAndWaited
    <3>2. /\ ~closed /\ lost = 0 /\ First \in 1..Len(stream) /\ Until(First) = pos
          /\ replies = [i \in 1..First - 1 |-> stream[i].type + 1]
          /\ PacketType = stream[First].type /\ Offset = recv_len
      BY <1>1, <3>1, InStepHeader
    <3>3. calls' = 0 /\ fate' = "up"
      BY <1>2, <1>8, <3>2 DEF Continue, Returns
    <3>4. replies' = [i \in 1..First |-> stream[i].type + 1]
      <4>1. stream \in Streams
        BY DEF IInv, BaseInv, TypeOK
      <4>2. First \in Nat /\ First - 1 \in Nat /\ First - 1 + 1 = First /\ Len(stream) \in Nat
        BY <3>2, <4>1, EndsIsSum
      <4>3. Len(replies) = First - 1
        BY <3>2, <4>2
      <4>4. replies' = Append(replies, stream[First].type + 1)
        BY <1>8, <3>2 DEF Reply
      <4>5. QED
        BY <3>2, <4>2, <4>3, <4>4
    <3>5. Until(First)' = pos' /\ First \in 0..Len(stream)
      <4>1. \A n : Until(n)' = Until(n)
        BY <1>7, StreamKept
      <4>2. QED
        BY <1>1, <1>7, <3>2, <4>1
    <3>6. QED
      BY <1>1, <1>2, <1>7, <3>2, <3>3, <3>4, <3>5
  <2>3. QED
    BY <1>6, <2>1, <2>2 DEF IInv
<1>9. CASE /\ \/ PacketType \in {Send, Publish} /\ 6 + DataLen > RecvBufferLen
              \/ PacketType = Publish /\ DataLen < UuidLen
           /\ Crash
  <2>1. PacketType # Ping /\ Offset = 6 + DataLen
    BY <1>9 DEF Ping, Send, Publish, Offset
  <2>2. UNCHANGED <<recv_buffer, recv_len, calls>>
    BY <1>9 DEF Crash
  <2>3. FirstWhole => /\ stream[First].type = Publish
                      /\ Len(stream[First].data) < UuidLen
    BY <1>2, <1>3, <1>4, <1>5, <1>9, <2>1
  <2>4. BufferIsReceived' /\ RestIsAfterFirst'
    BY <1>1, <1>2, <1>7, <2>2 DEF IInv, BufferIsReceived, RestIsAfterFirst
  <2>5. CrashHasCause'
    BY <1>7, <2>3 DEF CrashHasCause, Publish
  <2>6. InStep'
    <3>1. ASSUME SendsAndWaits'
          PROVE  FALSE
      <4>1. SendsAndWaits
        BY <1>1, <3>1, SentAndWaited
      <4>2. FirstWhole /\ Answerable(stream[First])
        BY <1>1, <4>1, InStepHeader
      <4>3. stream[First].type = Publish /\ ~(Len(stream[First].data) >= UuidLen)
        <5>1. DataLen = Len(stream[First].data)
          BY <1>4, <1>5, <2>1, <4>2
        <5>2. QED
          BY <1>2, <1>3, <2>3, <4>2, <5>1
      <4>4. QED
        BY <4>2, <4>3 DEF Answerable, Ping, Conn, Send, Publish
    <3>2. QED
      BY <3>1 DEF InStep
  <2>7. QED
    BY <1>6, <2>4, <2>5, <2>6 DEF IInv
<1>10. QED
  BY <1>8, <1>9 DEF Answer

LEMMA DisConnStep ==
  ASSUME IInv, BaseInv', DisConn
  PROVE  IInv'
<1>1. /\ Header /\ Parsing /\ PacketType = DisConnect
      /\ UNCHANGED <<stream, pos, start, replies, lost, exact, misread>>
  BY DEF DisConn, Header
<1>2. PICK stray \in StrayOffsets : Continue(stray)
  BY DEF DisConn
<1>3. stray \in Int
  BY ParserAssumption
<1>4. \/ TakenForPacket /\ TakenType = DisConnect
      \/ First # 0 /\ stream[First].type = DisConnect
  <2>1. calls = 1 /\ recv_len >= 4
    BY <1>1, HeaderIsFirst, ParserAssumption DEF IInv, BaseInv, TypeOK, Header, ShortLen
  <2>2. CASE First = 0
    BY <1>1, <2>1, <2>2, TakenHeader DEF IInv, Header
  <2>3. CASE First # 0
    BY <1>1, <2>1, <2>3, FirstHeader DEF IInv
  <2>4. QED
    BY <2>2, <2>3
<1>5. BufferIsReceived' /\ RestIsAfterFirst' /\ CrashHasCause'
  BY <1>1, <1>2, <1>3, <1>4, ContinueStep
<1>6. ClosedForReason'
  BY <1>1, <1>4, FirstKept, TakenKept DEF ClosedForReason, DisConnect
<1>7. InStep'
  <2>1. ASSUME SendsAndWaits'
        PROVE  FALSE
    <3>1. SendsAndWaits
      BY <1>1, <2>1, SentAndWaited
    <3>2. Answerable(stream[First]) /\ PacketType = stream[First].type
      BY <1>1, <3>1, InStepHeader
    <3>3. QED
      BY <1>1, <3>2 DEF Answerable, Ping, Conn, DisConnect, Send, Publish
  <2>2. QED
    BY <2>1 DEF InStep
<1>8. QED
  BY <1>5, <1>6, <1>7 DEF IInv

-------------------------------------------------------------------------------
LEMMA InitIInv == Init => IInv
<1> SUFFICES ASSUME Init PROVE IInv
  OBVIOUS
<1>1. /\ stream \in Streams /\ pos = 0 /\ start = 0 /\ calls = 0
      /\ replies = <<>> /\ lost = 0 /\ ~closed /\ fate = "up"
  BY DEF Init
<1>2. Until(0) = 0 /\ Len(stream) \in Nat /\ Len(Bytes) \in Nat
  BY <1>1, UntilFacts, EndsIsSum, BytesFacts
<1>3. BufferIsReceived
  BY <1>1, <1>2 DEF BufferIsReceived
<1>4. RestIsAfterFirst /\ CrashHasCause /\ ClosedForReason
  BY <1>1 DEF RestIsAfterFirst, CrashHasCause, ClosedForReason
<1>5. InStep
  <2>1. 0 \in 0..Len(stream) /\ replies = [i \in 1..0 |-> stream[i].type + 1]
    BY <1>1, <1>2
  <2>2. QED
    BY <1>1, <1>2, <2>1 DEF InStep
<1>6. QED
  BY <1>3, <1>4, <1>5, InitBase DEF IInv

LEMMA NextIInv ==
  ASSUME IInv, [Next]_parserVars
  PROVE  IInv'
<1>1. BaseInv'
  BY NextBase DEF IInv
<1>2. CASE UNCHANGED parserVars
  <2>1. /\ UNCHANGED <<stream, pos, start, recv_buffer, recv_len, calls, replies>>
        /\ UNCHANGED <<lost, closed, fate, exact, misread>>
    BY <1>2 DEF parserVars
  <2>2. BufferIsReceived'
    BY <2>1, StreamKept DEF IInv, BufferIsReceived
  <2>3. RestIsAfterFirst' /\ CrashHasCause' /\ ClosedForReason'
    BY <2>1, FirstKept, TakenKept
    DEF IInv, RestIsAfterFirst, CrashHasCause, ClosedForReason, DisConnect, Publish
  <2>4. InStep'
    <3>1. SendsAndWaits' => SendsAndWaits
      BY <2>1, SentAndWaited
    <3>2. \A n : Until(n)' = Until(n)
      BY <2>1, StreamKept
    <3>3. QED
      BY <2>1, <3>1, <3>2 DEF IInv, InStep
  <2>5. QED
    BY <1>1, <2>2, <2>3, <2>4 DEF IInv
<1>3. CASE Next
  BY <1>1, <1>3, ReceiveStep, TooShortStep, DropStep, AnswerStep, DisConnStep
  DEF Next, ParsePacket
<1>4. QED
  BY <1>2, <1>3

(* The invariant of the parser holds of every parse of every stream: the     *)
(* types, what its activations read, and what its replies, its crashes and   *)
(* its closes follow from.                                                   *)
THEOREM ParserInvariance == Spec => []IInv
<1>1. QED
  BY InitIInv, NextIInv, PTL DEF Spec

(* memcpy and bzero get a size below zero only for a receive that does not   *)
(* begin with a whole packet, for a PUBLISH shorter than its uuid, or after  *)
(* DIS_CONN, whose next_parse_offset nobody sets: no other whole packet is   *)
(* harmed by what recv leaves behind it.                                     *)
THEOREM CrashesHaveCause == Spec => []CrashHasCause
<1>1. IInv => CrashHasCause
  BY DEF IInv
<1>2. QED
  BY <1>1, ParserInvariance, PTL

(* parse_packet closes the descriptor only when a receive is shorter than a   *)
(* header, or begins with a DIS_CONN or with a packet that has one to three   *)
(* bytes behind it; or when it begins inside a packet, with data that reads as *)
(* such a one.                                                               *)
THEOREM ClosesHaveReason == Spec => []ClosedForReason
<1>1. IInv => ClosedForReason
  BY DEF IInv
<1>2. QED
  BY <1>1, ParserInvariance, PTL

(* While every receive is one packet that parse_packet answers, the replies  *)
(* are the next types of the packets received, in their order, args is freed *)
(* after each, and nothing is closed, lost or crashed.                       *)
THEOREM PacketsAnswered == Spec => []ExactAnswered
<1>1. IInv => ExactAnswered
  BY DEF IInv, InStep, ExactAnswered
<1>2. QED
  BY <1>1, ParserInvariance, PTL
===============================================================================
