------------------------------- MODULE Sockets --------------------------------
(***************************************************************************)
(* The kernel as src/sserver.c uses it, and the clients: one TCP connection  *)
(* per client, the backlog of the listening socket, the descriptors of the   *)
(* process and one epoll instance in edge-triggered mode.                    *)
(*                                                                          *)
(* A socket is put on the ready list when something happens to it while it   *)
(* is registered, and when it is added or modified while an event it is      *)
(* registered for is present; epoll_wait takes it off the list and reports   *)
(* the events that are present then.                                         *)
(***************************************************************************)
EXTENDS Integers, Sequences, FiniteSets

CONSTANTS
  Clients,
  Fds,          \* descriptor numbers the process can have for clients
  Listener,     \* the descriptor of the listening socket
  None,
  MaxPackets,   \* bound on the packets a client sends
  Kinds,        \* what clients send: "request" (PING, CONN, SEND, PUBLISH),
                \* "disconn" (DIS_CONN), "short" (fewer than four bytes)
  Crowded,      \* clients may connect while another one waits for accept
  Pipelined,    \* clients may send, or close, before the last reply, and send
                \* more after a packet that has no reply
  Leave         \* clients may close

ASSUME SocketsAssumption ==
  /\ IsFiniteSet(Clients) /\ IsFiniteSet(Fds) /\ Fds \subseteq Nat
  /\ Listener \notin Fds /\ None \notin Fds \cup Clients
  /\ MaxPackets \in Nat
  /\ Kinds \subseteq {"request", "disconn", "short"}
  /\ {Crowded, Pipelined, Leave} \subseteq BOOLEAN

VARIABLES
  client,     \* "away", "connected" or "closed", as the client sees it
  backlog,    \* clients whose connection waits for accept, oldest first
  sock,       \* the client behind each descriptor
  inbuf,      \* what each client has sent and the server has not received
  reset,      \* clients whose closed end has answered with a RST
  interest,   \* the events each descriptor is registered for
  ready,      \* the ready list of the epoll instance
  sent,       \* history: the packets each client has sent
  inbox       \* history: the replies each client has got, by request

clientVars == <<client, sent>>
sockVars == <<client, backlog, sock, inbuf, reset, interest, ready, sent, inbox>>

(* What follows a DIS_CONN in its buffer can be parsed as a short packet.     *)
Packet == [kind : Kinds \cup {k \in {"short"} : "disconn" \in Kinds},
           from : Clients, n : 1..MaxPackets]
FirstMask == {"IN", "RDHUP"}      \* when a connection is added
AgainMaskFault == {"IN", "OUT", "RDHUP"}
AgainMask == {"IN", "OUT"}        \* after each receive
Event == [fd : Fds \cup {Listener}, flags : SUBSET {"IN", "OUT", "RDHUP", "HUP"}]

Open(fd) == sock[fd] # None
Waiting(c) == \E i \in 1..Len(backlog) : backlog[i] = c
Served(c) == \E fd \in Fds : sock[fd] = c
FdOf(c) == CHOOSE fd \in Fds : sock[fd] = c

HasData(fd) == Open(fd) /\ inbuf[sock[fd]] # <<>>

(* What epoll_wait reports for a descriptor registered for the events mask.  *)
Present(fd, mask) ==
  LET c == sock[fd] IN
  {f \in mask \cup {"HUP"} :
     \/ f = "IN" /\ (inbuf[c] # <<>> \/ client[c] = "closed")
     \/ f = "OUT"
     \/ f = "RDHUP" /\ client[c] = "closed"
     \/ f = "HUP" /\ c \in reset}

EventsOf(fd) ==
  IF fd = Listener THEN {f \in {"IN"} : backlog # <<>>} ELSE Present(fd, interest[fd])

InReady(fd) == \E i \in 1..Len(ready) : ready[i] = fd

(* The elements of s that are in S, in their order.                          *)
Keep(s, S) ==
  LET kept[i \in 0..Len(s)] ==
        IF i = 0 THEN <<>>
        ELSE IF s[i] \in S THEN Append(kept[i - 1], s[i]) ELSE kept[i - 1]
  IN  kept[Len(s)]

(* Something happened to the connection of client c.                         *)
Wake(c) ==
  ready' = IF Served(c) /\ interest[FdOf(c)] # {} /\ ~InReady(FdOf(c))
           THEN Append(ready, FdOf(c))
           ELSE ready

-------------------------------------------------------------------------------
(* The clients.                                                              *)

Request == [kind : {"request"}, from : Clients, n : 1..MaxPackets]

Requests(c) == Keep(sent[c], Request)

Answered(c) == Len(inbox[c]) >= Len(Requests(c))

Connect(c) ==
  /\ client[c] = "away"
  /\ Crowded \/ backlog = <<>>
  /\ client' = [client EXCEPT ![c] = "connected"]
  /\ backlog' = Append(backlog, c)
  /\ ready' = IF InReady(Listener) THEN ready ELSE Append(ready, Listener)
  /\ UNCHANGED <<sock, inbuf, reset, interest, sent, inbox>>

ClientSend(c, kind) ==
  LET p == [kind |-> kind, from |-> c, n |-> Len(sent[c]) + 1] IN
  /\ client[c] = "connected"
  /\ Waiting(c) \/ Served(c)
  /\ Len(sent[c]) < MaxPackets
  /\ Pipelined \/ (Answered(c) /\ Requests(c) = sent[c])
  /\ sent' = [sent EXCEPT ![c] = Append(@, p)]
  /\ inbuf' = [inbuf EXCEPT ![c] = Append(@, p)]
  /\ Wake(c)
  /\ UNCHANGED <<client, backlog, sock, reset, interest, inbox>>

ClientClose(c) ==
  /\ Leave
  /\ client[c] = "connected"
  /\ Pipelined \/ Answered(c)
  /\ client' = [client EXCEPT ![c] = "closed"]
  /\ Wake(c)
  /\ UNCHANGED <<backlog, sock, inbuf, reset, interest, sent, inbox>>

-------------------------------------------------------------------------------
(* The system calls; each constrains all of sockVars.                        *)

LowestFree == {fd \in Fds : ~Open(fd) /\ \A g \in Fds : g < fd => Open(g)}

Accept(fd) ==
  /\ backlog # <<>>
  /\ fd \in LowestFree
  /\ sock' = [sock EXCEPT ![fd] = Head(backlog)]
  /\ backlog' = Tail(backlog)
  /\ UNCHANGED <<client, inbuf, reset, interest, ready, sent, inbox>>

AcceptFails ==
  /\ backlog = <<>> \/ LowestFree = {}
  /\ UNCHANGED sockVars

(* EPOLL_CTL_ADD and EPOLL_CTL_MOD of an open descriptor.                    *)
Register(fd, mask) ==
  /\ Open(fd)
  /\ interest' = [interest EXCEPT ![fd] = mask]
  /\ ready' = IF Present(fd, mask) # {} /\ ~InReady(fd) THEN Append(ready, fd) ELSE ready
  /\ UNCHANGED <<client, backlog, sock, inbuf, reset, sent, inbox>>

(* close, of a descriptor that may be closed already.                        *)
CloseFd(fd) ==
  /\ sock' = [sock EXCEPT ![fd] = None]
  /\ interest' = [interest EXCEPT ![fd] = {}]
  /\ ready' = Keep(ready, (Fds \cup {Listener}) \ {fd})
  /\ UNCHANGED <<client, backlog, inbuf, reset, sent, inbox>>

(* epoll_wait: at most max descriptors that have events, in list order.      *)
ReadyEvents ==
  LET fds == Keep(ready, {fd \in Fds \cup {Listener} : EventsOf(fd) # {}})
  IN [i \in 1..Len(fds) |-> [fd |-> fds[i], flags |-> EventsOf(fds[i])]]

Received(fd, max) ==
  LET data == inbuf[sock[fd]]
  IN SubSeq(data, 1, IF Len(data) < max THEN Len(data) ELSE max)

Receive(fd, max) ==
  /\ HasData(fd)
  /\ inbuf' = [inbuf EXCEPT ![sock[fd]] = SubSeq(@, max + 1, Len(@))]
  /\ UNCHANGED <<client, backlog, sock, reset, interest, ready, sent, inbox>>

(* send: the reply to packet p is written to whatever connection fd is now.  *)
Reply(fd, p) ==
  LET c == sock[fd] IN
  \/ ~Open(fd) /\ UNCHANGED sockVars
  \/ /\ Open(fd) /\ client[c] = "connected"
     /\ inbox' = [inbox EXCEPT ![c] = Append(@, p)]
     /\ UNCHANGED <<client, backlog, sock, inbuf, reset, interest, ready, sent>>
  \/ /\ Open(fd) /\ client[c] = "closed" /\ c \notin reset
     /\ reset' = reset \cup {c}
     /\ Wake(c)
     /\ UNCHANGED <<client, backlog, sock, inbuf, interest, sent, inbox>>

(* send on a connection that has been reset raises SIGPIPE.                  *)
BrokenPipe(fd) == Open(fd) /\ sock[fd] \in reset

SocketsInit ==
  /\ client = [c \in Clients |-> "away"]
  /\ backlog = <<>>
  /\ sock = [fd \in Fds |-> None]
  /\ inbuf = [c \in Clients |-> <<>>]
  /\ reset = {}
  /\ interest = [fd \in Fds |-> {}]
  /\ ready = <<>>
  /\ sent = [c \in Clients |-> <<>>]
  /\ inbox = [c \in Clients |-> <<>>]

-------------------------------------------------------------------------------
(* The values of the kernel's variables and the clients'.                    *)
SocketsTypeOK ==
  /\ client \in [Clients -> {"away", "connected", "closed"}]
  /\ backlog \in Seq(Clients)
  /\ sock \in [Fds -> Clients \cup {None}]
  /\ inbuf \in [Clients -> Seq(Packet)]
  /\ reset \subseteq Clients
  /\ interest \in [Fds -> {{}, FirstMask, AgainMask}]
  /\ ready \in Seq(Fds \cup {Listener})
  /\ sent \in [Clients -> Seq(Packet)]
  /\ inbox \in [Clients -> Seq(Packet)]

Distinct(s) == \A i, k \in 1..Len(s) : s[i] = s[k] => i = k

(* No descriptor is on the ready list twice and no client in the backlog, no *)
(* descriptor is ready that is not registered, and who waits has connected.  *)
QueuesInOrder ==
  /\ Distinct(ready) /\ Distinct(backlog)
  /\ \A i \in 1..Len(ready) : ready[i] # Listener => interest[ready[i]] # {}
  /\ \A i \in 1..Len(backlog) : client[backlog[i]] # "away"
===============================================================================
