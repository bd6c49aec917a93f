-------------------------------- MODULE Server --------------------------------
(***************************************************************************)
(* The server of src/sserver.c: the thread in start_epoll, which accepts and *)
(* receives, the workers of the thread pool, which run parse_packet on what  *)
(* was received, and the clients and the kernel of Sockets.tla between them. *)
(* The pool is the abstract JobPool that ThreadPool.tla implements; its jobs *)
(* are numbered in the order of submission.                                  *)
(*                                                                          *)
(* Descriptors are shared: the loop allocates and closes them, and a worker  *)
(* sends on and closes the descriptor its job was received on.               *)
(***************************************************************************)
EXTENDS Sockets, ConnectionTable

CONSTANTS
  MaxEvents,     \* MAX_WAIT_FD_NUM
  RecvMax,       \* how many packets fit in recv_buffer
  NumThreads,    \* the workers of the pool
  MaxJobs,       \* bound on the receives that deliver data
  Uninitialized  \* whether parse_packet reads anything from memory that nobody
                 \* has written, or that it has freed.  FALSE is an assumption
                 \* about memory that the code does not ensure: the fourth byte
                 \* of header is 0, next_parse_offset after a DIS_CONN is its
                 \* length, and freed args still hold their socket_fd

ASSUME ServerAssumption ==
  /\ {MaxEvents, NumThreads, MaxJobs} \subseteq Nat \ {0}
  /\ MaxJobs >= Cardinality(Clients) * MaxPackets   \* the bound stops no receive
  /\ RecvMax \in {1, 2}
  /\ Uninitialized \in BOOLEAN

VARIABLES
  lpc,         \* where the loop is: "wait", "event", "add", "mod", or
               \* "locked", for ever, in new_connection
  g_events,    \* the events of this round still to be handled
  new_socket,  \* the descriptor accept has returned
  args,        \* per job: the descriptor and the packets in recv_buffer
  pending, running, finished,   \* the jobs of the pool
  up           \* the process has not ended

loopVars == <<lpc, g_events, new_socket>>
poolVars == <<pending, running, finished>>
serverVars == <<loopVars, args, poolVars, tableVars, sockVars, up>>

Jobs == 1..MaxJobs

Pool == INSTANCE JobPool WITH phase <- "open"

Current == Head(g_events)

At(place) == up /\ lpc = place
Parses(j) == up /\ j \in running

-------------------------------------------------------------------------------
(* start_epoll.                                                              *)

NextEvent ==
  /\ g_events' = Tail(g_events)
  /\ lpc' = IF Len(g_events) = 1 THEN "wait" ELSE "event"

BreakLoop == g_events' = <<>> /\ lpc' = "wait"

EpollWait ==
  LET events == ReadyEvents
      n == IF Len(events) < MaxEvents THEN Len(events) ELSE MaxEvents
  IN
  /\ At("wait")
  /\ events # <<>>
  /\ g_events' = SubSeq(events, 1, n)
  /\ ready' = Keep(ready, {events[i].fd : i \in n + 1..Len(events)})
  /\ lpc' = "event"
  /\ UNCHANGED <<new_socket, args, poolVars, tableVars, client, backlog, sock,
                 inbuf, reset, interest, sent, inbox, up>>

EpollTimeout ==
  /\ At("wait")
  /\ ReadyEvents = <<>>
  /\ UNCHANGED serverVars

AcceptConnection ==
  /\ At("event")
  /\ Current.fd = Listener
  /\ \/ /\ AcceptFails
        /\ NextEvent
        /\ UNCHANGED new_socket
     \/ \E fd \in Fds :
        /\ Accept(fd)
        /\ new_socket' = fd
        /\ lpc' = "add"
        /\ UNCHANGED g_events
  /\ UNCHANGED <<args, poolVars, tableVars, up>>

(* A worker whose job holds the number of new_socket may have closed it: the  *)
(* process exits in set_no_block, or epoll_add_fd fails if it was closed       *)
(* between the two.                                                           *)
AddConnection ==
  /\ At("add")
  /\ \/ /\ ~Open(new_socket)
        /\ \/ up' = FALSE /\ UNCHANGED loopVars
           \/ NextEvent /\ new_socket' = None /\ UNCHANGED up
        /\ UNCHANGED <<sockVars, tableVars>>
     \/ /\ Register(new_socket, FirstMask)
        /\ \/ AddNewConnection(new_socket) /\ NextEvent /\ new_socket' = None
           \/ AddBlocked /\ lpc' = "locked" /\ UNCHANGED <<g_events, new_socket>>
        /\ UNCHANGED up
  /\ UNCHANGED <<args, poolVars>>

(* epoll_del_fd; the workers can only close descriptors in between its steps.*)
Hangup ==
  /\ At("event")
  /\ Current.fd # Listener
  /\ Current.flags \cap {"RDHUP", "HUP"} # {}
  /\ CloseFd(Current.fd)
  /\ DropConnection
  /\ NextEvent
  /\ UNCHANGED <<new_socket, args, poolVars, up>>

Readable ==
  /\ At("event")
  /\ Current.fd # Listener
  /\ Current.flags \cap {"RDHUP", "HUP"} = {}
  /\ "IN" \in Current.flags

Submit(j, fd, packets) ==
  /\ j = Cardinality(Pool!Accepted) + 1
  /\ Pool!Submit(j)
  /\ args' = [args EXCEPT ![j] = [socket_fd |-> fd, packets |-> packets]]

RecvData ==
  /\ Readable
  /\ Receive(Current.fd, RecvMax)
  /\ \E j \in Jobs : Submit(j, Current.fd, Received(Current.fd, RecvMax))
  /\ lpc' = "mod"
  /\ UNCHANGED <<g_events, new_socket, tableVars, up>>

(* recv returns 0 (the client has closed) or -1, and the for loop is left.   *)
RecvNothing ==
  /\ Readable
  /\ ~HasData(Current.fd)
  /\ BreakLoop
  /\ UNCHANGED <<new_socket, args, poolVars, tableVars, sockVars, up>>

RearmFault(fd) == UNCHANGED sockVars

Rearm(fd) ==
  \/ ~Open(fd) /\ UNCHANGED sockVars
  \/ Register(fd, AgainMask)

ModFd ==
  /\ At("mod")
  /\ Rearm(Current.fd)
  /\ NextEvent
  /\ UNCHANGED <<new_socket, args, poolVars, tableVars, up>>

(* An event without EPOLLIN, as EPOLLOUT after each modification.            *)
SkipEvent ==
  /\ At("event")
  /\ Current.fd # Listener
  /\ Current.flags \cap {"IN", "RDHUP", "HUP"} = {}
  /\ NextEvent
  /\ UNCHANGED <<new_socket, args, poolVars, tableVars, sockVars, up>>

LoopStep ==
  \/ EpollWait \/ EpollTimeout
  \/ AcceptConnection \/ AddConnection
  \/ Hangup \/ RecvData \/ RecvNothing \/ ModFd \/ SkipEvent

-------------------------------------------------------------------------------
(* parse_packet, run by the workers.                                         *)

StartJob ==
  /\ up
  /\ Cardinality(running) < NumThreads
  /\ Pool!Start
  /\ UNCHANGED <<loopVars, args, tableVars, sockVars, up>>

Packets(j) == args[j].packets
Kind(j) == Head(Packets(j)).kind
Fd(j) == args[j].socket_fd

EndJob(j) ==
  /\ Pool!Finish(j)
  /\ args' = [args EXCEPT ![j] = None]

RemainingFault(j) == UNCHANGED <<args, poolVars>>

(* The bytes after the first packet are overwritten with zeros before they   *)
(* are moved to the front: fewer than four end like a short packet, others   *)
(* are no packet and are dropped.                                            *)
Remaining(j) ==
  \/ /\ Len(Packets(j)) = 2 /\ Packets(j)[2].kind = "short"
     /\ args' = [args EXCEPT ![j].packets = Tail(@)]
     /\ UNCHANGED poolVars
  \/ /\ ~(Len(Packets(j)) = 2 /\ Packets(j)[2].kind = "short")
     /\ EndJob(j)

TooShort(j) == Len(Packets(j)) = 1 /\ Kind(j) = "short"

(* The four bytes compared with "SSP" are three received and one never       *)
(* written: the test may fail for every packet.                              *)
NotSSP(j) ==
  /\ Parses(j)
  /\ ~TooShort(j)
  /\ Kind(j) = "short" \/ Uninitialized
  /\ EndJob(j)
  /\ UNCHANGED <<loopVars, tableVars, sockVars, up>>

ReplyPacket(j) ==
  /\ Parses(j)
  /\ Kind(j) = "request"
  /\ \/ Reply(Fd(j), Head(Packets(j))) /\ Remaining(j) /\ UNCHANGED up
     \/ BrokenPipe(Fd(j)) /\ up' = FALSE /\ UNCHANGED <<sockVars, args, poolVars>>
  /\ UNCHANGED <<loopVars, tableVars>>

(* next_parse_offset is not set for DIS_CONN, so that what remains is         *)
(* anything: nothing or zeros, which end the job; one to three bytes, a short *)
(* packet that closes the descriptor again; or a negative length or offset,   *)
(* given to memcpy or bzero, which counts as the end of the process.          *)
DisConn(j) ==
  /\ Parses(j)
  /\ Kind(j) = "disconn"
  /\ CloseFd(Fd(j))
  /\ \/ Remaining(j) /\ UNCHANGED up
     \/ Uninitialized /\ EndJob(j) /\ up' \in BOOLEAN
     \/ /\ Uninitialized
        /\ args' = [args EXCEPT ![j].packets = <<[Head(@) EXCEPT !.kind = "short"]>>]
        /\ UNCHANGED <<poolVars, up>>
  /\ UNCHANGED <<loopVars, tableVars>>

(* args is freed before its socket_fd is read for close: the number can be   *)
(* garbage, or that of a connection whose args have got the same memory.     *)
ShortPacket(j) ==
  /\ Parses(j)
  /\ TooShort(j)
  /\ \/ CloseFd(Fd(j))
     \/ Uninitialized /\ \E fd \in Fds \ {Fd(j)} : CloseFd(fd)
     \/ Uninitialized /\ UNCHANGED sockVars
  /\ EndJob(j)
  /\ UNCHANGED <<loopVars, tableVars, up>>

ParsePacket(j) == NotSSP(j) \/ ReplyPacket(j) \/ DisConn(j) \/ ShortPacket(j)

WorkerStep ==
  \/ StartJob
  \/ \E j \in Jobs : ParsePacket(j)

Alone == up /\ UNCHANGED <<loopVars, args, poolVars, tableVars, up>>

Environment ==
  \E c \in Clients :
     \/ Connect(c) /\ Alone
     \/ \E kind \in Kinds : ClientSend(c, kind) /\ Alone
     \/ ClientClose(c) /\ Alone

Init ==
  /\ SocketsInit
  /\ TableInit
  /\ lpc = "wait"
  /\ g_events = <<>>
  /\ new_socket = None
  /\ args = [j \in Jobs |-> None]
  /\ pending = <<>> /\ running = {} /\ finished = {}
  /\ up = TRUE

(* The process has ended, or its loop is locked and its workers are done.     *)
Halted == (~up \/ lpc = "locked") /\ UNCHANGED serverVars

Next == LoopStep \/ WorkerStep \/ Environment \/ Halted

Spec == Init /\ [][Next]_serverVars

(* The threads are scheduled; the clients need not do anything.              *)
FairSpec ==
  /\ Spec
  /\ WF_serverVars(LoopStep)
  /\ WF_serverVars(StartJob)
  /\ \A j \in Jobs : WF_serverVars(ParsePacket(j))

-------------------------------------------------------------------------------
(* The values every variable takes in sserver.c.                             *)
TypeOK ==
  /\ SocketsTypeOK /\ TableTypeOK(Fds) /\ up \in BOOLEAN
  /\ lpc \in {"wait", "event", "add", "mod", "locked"}
  /\ g_events \in Seq(Event)
  /\ new_socket \in Fds \cup {None}
  /\ args \in [Jobs -> [socket_fd : Fds, packets : Seq(Packet)] \cup {None}]
  /\ pending \in Seq(Jobs) /\ running \subseteq Jobs /\ finished \subseteq Jobs

(* Clients that wait for each reply get the replies to their own packets,     *)
(* each once and in order, while they crowd, leave, are disconnected and get  *)
(* descriptors of each other.  It is no claim about a client that sends more   *)
(* before the reply: then two jobs of it run at a time, a receive holds two    *)
(* packets, and replies overtake each other or are missing.                   *)
RepliesFaithful ==
  \A c \in Clients :
    /\ Len(inbox[c]) <= Len(Requests(c))
    /\ \A i \in 1..Len(inbox[c]) : inbox[c][i] = Requests(c)[i]

(* A client gets no reply to a packet of another client.                     *)
RepliesToRequester ==
  \A c \in Clients : \A i \in 1..Len(inbox[c]) : inbox[c][i].from = c

(* The unsigned global_connection_id never wraps below zero, where the test  *)
(* for < 0 in epoll_del_fd does not help, and never falls below the number   *)
(* of registered connections, although workers close descriptors behind the  *)
(* loop's back and events of closed descriptors are still handled.           *)
CounterInRange ==
  /\ Cardinality({fd \in Fds : interest[fd] # {}}) <= global_connection_id
  /\ global_connection_id <= Cardinality(Clients)

(* epoll_del_fd closes no connection whose client is still there: the event  *)
(* it acts on is not older than the reuse of its descriptor.  It is checked    *)
(* with Uninitialized FALSE, which assumes that args, freed before a short     *)
(* packet has its descriptor closed, still names that descriptor.              *)
NoWrongClose ==
  [][Hangup /\ Open(Current.fd) => client[sock[Current.fd]] = "closed"]_serverVars

(* Edge triggering loses nothing: whenever there is something to accept or   *)
(* to receive, the descriptor is on the ready list or in the events that the *)
(* loop has yet to handle or is handling.                                    *)
NoStrandedEvent ==
  \A fd \in Fds \cup {Listener} :
    \/ InReady(fd)
    \/ \E i \in 1..Len(g_events) : g_events[i].fd = fd
    \/ IF fd = Listener THEN backlog = <<>>
       ELSE ~HasData(fd) \/ interest[fd] = {}

(* Every PING, CONN, SEND and PUBLISH is answered, when each is received by   *)
(* itself: RecvMax = 1 stands for a recv that never joins two packets.        *)
RequestsAnswered ==
  \A c \in Clients, n \in 1..MaxPackets :
    Len(Requests(c)) >= n ~> Len(inbox[c]) >= n \/ client[c] = "closed"

-------------------------------------------------------------------------------
(* What the counter's range rests on, for any number of clients.             *)

(* No job waits in the queue twice or while it runs, and no descriptor has    *)
(* two events in a round.                                                    *)
NoRepeats ==
  /\ Distinct(pending) /\ \A i \in 1..Len(pending) : pending[i] \notin running
  /\ \A i, k \in 1..Len(g_events) : g_events[i].fd = g_events[k].fd => i = k

(* A job that has not ended still has its args, with a packet in them.       *)
ArgsKept ==
  \A j \in Jobs :
    j \in running \/ (\E i \in 1..Len(pending) : pending[i] = j) =>
      args[j] \in [socket_fd : Fds, packets : Seq(Packet) \ {<<>>}]

(* Between two steps of an event the loop has the event, and its descriptor. *)
EventAtHand ==
  /\ lpc # "wait" => g_events # <<>>
  /\ lpc = "add" => new_socket \in Fds
  /\ lpc = "mod" => Current.fd \in Fds

(* The counter has counted every registered connection, and every one whose  *)
(* event is still to be handled: a hangup takes one of them away, although a *)
(* worker may have closed its descriptor before.                             *)
Watched ==
  {fd \in Fds : interest[fd] # {} \/ \E i \in 1..Len(g_events) : g_events[i].fd = fd}

CounterCovers == Cardinality(Watched) <= global_connection_id

(* Each connection is counted once: the clients not yet accepted, and the    *)
(* one just accepted, have not been.                                         *)
Newcomers ==
  {c \in Clients : client[c] = "away" \/ \E i \in 1..Len(backlog) : backlog[i] = c}

CounterCounts ==
  global_connection_id + (IF lpc = "add" THEN 1 ELSE 0) <= Cardinality(Clients \ Newcomers)

IInv ==
  /\ TypeOK /\ QueuesInOrder /\ NoRepeats /\ ArgsKept /\ EventAtHand
  /\ CounterCovers /\ CounterLimited(lpc = "locked") /\ CounterCounts
===============================================================================
