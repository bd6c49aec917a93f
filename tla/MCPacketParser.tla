----------------------------- MODULE MCPacketParser ----------------------------
(* An instance of PacketParser for TLC: a uuid has two bytes, one SEND has a   *)
(* PING for data and one is longer than the buffer, one PUBLISH is shorter     *)
(* than its uuid, and nobody knows the type 9.                                 *)
EXTENDS PacketParser

MCBufferLen == 14

MCOffsets == {-1, 0, 4, 6, 15}

MCPackets ==
  {[type |-> Ping, data |-> <<>>],
   [type |-> Conn, data |-> <<1, 2>>],
   [type |-> DisConnect, data |-> <<>>],
   [type |-> Send, data |-> <<83, 83, 80, 0>>],
   [type |-> Send, data |-> [i \in 1..MCBufferLen - 5 |-> 1]],
   [type |-> Publish, data |-> <<1, 2, 3>>],
   [type |-> Publish, data |-> <<1>>],
   [type |-> 9, data |-> <<>>]}

MCStreams ==
  {<<p>> : p \in MCPackets} \cup {<<p, q>> : p, q \in MCPackets}
    \cup {<<p, p, p>> : p \in {[type |-> Ping, data |-> <<>>]}}
===============================================================================
