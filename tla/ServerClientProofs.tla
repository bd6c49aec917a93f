-------------------------- MODULE ServerClientProofs --------------------------
(***************************************************************************)
(* What the server does for clients that keep to a discipline, for any       *)
(* number of them.                                                           *)
(*                                                                          *)
(* Steady clients come one at a time, stay, and send requests: edge           *)
(* triggering strands no event.  What there is to accept or to receive is on *)
(* the ready list or among the events of the round, and the events of the    *)
(* round are not stale, so that the loop is never left early.                *)
(*                                                                          *)
(* Polite clients wait for their replies: each gets its own, and a hangup     *)
(* closes nobody else's connection.  A client has one packet on its way at    *)
(* most, and the descriptor of a job is not reused before the job ends.  They *)
(* send only requests, or what nobody has written is assumed to be benign.    *)
(***************************************************************************)
EXTENDS ServerProofs

-------------------------------------------------------------------------------
(* What keeps edge triggering from losing an event: clients that come one at *)
(* a time, stay, and send nothing that makes the server close a connection.  *)
Steady ==
  /\ ~Crowded /\ ~Leave /\ Kinds \subseteq {"request"}
  /\ Cardinality(Clients) <= Cardinality(Fds)

NobodyLeaves == reset = {} /\ \A c \in Clients : client[c] # "closed"

OneFdEach ==
  /\ Len(backlog) <= 1
  /\ \A fd, g \in Fds : Open(fd) /\ sock[fd] = sock[g] => fd = g
  /\ \A fd \in Fds : Open(fd) => client[sock[fd]] # "away" /\ ~Waiting(sock[fd])
  /\ \A fd \in Fds : interest[fd] # {} => Open(fd)

(* The snapshot is not stale: what an event announces is still there when    *)
(* the loop comes to it, so recv never returns without data.                 *)
EventsCurrent ==
  /\ lpc = "wait" => g_events = <<>>
  /\ lpc = "add" => Current.fd = Listener
  /\ \A i \in 1..Len(g_events) :
       /\ g_events[i].flags \subseteq {"IN", "OUT"}
       /\ /\ "IN" \in g_events[i].flags /\ g_events[i].fd # Listener
          /\ i > 1 \/ lpc # "mod"
          => HasData(g_events[i].fd)

(* What there is to accept or to receive is announced: an event without      *)
(* EPOLLIN does not count, nor the one of the accept that has been done.     *)
Announced ==
  /\ backlog # <<>> =>
       \/ InReady(Listener)
       \/ lpc # "add" /\ \E i \in 1..Len(g_events) : g_events[i].fd = Listener
  /\ \A fd \in Fds : HasData(fd) /\ interest[fd] # {} =>
       \/ InReady(fd)
       \/ \E i \in 1..Len(g_events) : g_events[i].fd = fd /\ "IN" \in g_events[i].flags

SteadyInv == NobodyLeaves /\ OneFdEach /\ EventsCurrent /\ Announced

(* The loop and the connections stay as they are.                            *)
LEMMA SteadyKept ==
  ASSUME SteadyInv,
         UNCHANGED <<loopVars, client, backlog, sock, inbuf, reset, interest, ready>>
  PROVE  SteadyInv'
BY DEF SteadyInv, NobodyLeaves, OneFdEach, EventsCurrent, Announced, loopVars, Current,
       HasData, Open, InReady, Waiting

(* A client that stays makes its descriptor readable by what it sends.       *)
LEMMA PresentSteady ==
  ASSUME SocketsInv, NobodyLeaves, NEW fd \in Fds, Open(fd), NEW mask \in {FirstMask, AgainMask}
  PROVE  /\ Present(fd, mask) \subseteq {"IN", "OUT"}
         /\ "IN" \in Present(fd, mask) <=> HasData(fd)
<1>1. sock[fd] \in Clients
  BY DEF SocketsInv, SocketsTypeOK, Open
<1>2. client[sock[fd]] # "closed" /\ sock[fd] \notin reset
  BY <1>1 DEF NobodyLeaves
<1>3. QED
  BY <1>1, <1>2 DEF Present, FirstMask, AgainMask, HasData

(* There is a descriptor for each client that waits.                         *)
LEMMA FreeDescriptor ==
  ASSUME Assumptions, SocketsInv, Steady, OneFdEach, backlog # <<>>
  PROVE  LowestFree # {}
<1> DEFINE c == backlog[1]
           others == Clients \ {c}
           free == {fd \in Fds : ~Open(fd)}
<1>1. c \in Clients /\ Waiting(c)
  BY DEF SocketsInv, SocketsTypeOK, Waiting
<1> HIDE DEF c
<1>2. ASSUME free = {} PROVE FALSE
  <2>1. \A fd \in Fds : sock[fd] \in others
    <3>1. TAKE fd \in Fds
    <3>2. Open(fd) /\ sock[fd] \in Clients
      BY <1>2 DEF Open, SocketsInv, SocketsTypeOK
    <3>3. sock[fd] # c
      BY <1>1, <3>2 DEF OneFdEach
    <3>4. QED
      BY <3>2, <3>3
  <2>2. sock \in [Fds -> others]
    BY <2>1 DEF SocketsInv, SocketsTypeOK
  <2>3. /\ IsFiniteSet(Clients) /\ IsFiniteSet(Fds)
        /\ Cardinality(Clients) \in Nat /\ Cardinality(Fds) \in Nat
        /\ Cardinality(Clients) <= Cardinality(Fds)
    BY FS_CardinalityType DEF Assumptions, SocketsAssumption, Steady
  <2>4. IsFiniteSet(others) /\ Cardinality(others) = Cardinality(Clients) - 1
    BY <1>1, <2>3, FS_RemoveElement
  <2> HIDE DEF others
  <2>5. \E x, y \in Fds : x # y /\ sock[x] = sock[y]
    BY <2>2, <2>3, <2>4, FS_PigeonHole
  <2>6. QED
    BY <1>2, <2>5 DEF OneFdEach
<1>3. free \subseteq Nat
  BY DEF Assumptions, SocketsAssumption
<1>4. PICK x \in free : \A y \in free : x <= y
  BY <1>2, <1>3, LeastNumber
<1>5. \A g \in Fds : g < x => Open(g)
  BY <1>3, <1>4
<1>6. x \in LowestFree
  BY <1>4, <1>5 DEF LowestFree
<1>7. QED
  BY <1>6

-------------------------------------------------------------------------------
(* The event at hand is done.                                                *)

LEMMA HeadDropped ==
  ASSUME LoopInv, lpc # "wait", NextEvent
  PROVE  /\ lpc' \in {"wait", "event"} /\ (lpc' = "wait" => g_events' = <<>>)
         /\ Current = g_events[1] /\ 1 \in 1..Len(g_events) /\ Len(g_events) \in Nat
         /\ \A k \in 1..Len(g_events') :
              k + 1 \in 1..Len(g_events) /\ k + 1 > 1 /\ g_events'[k] = g_events[k + 1]
         /\ \A i \in 1..Len(g_events) :
              i > 1 => i - 1 \in 1..Len(g_events') /\ g_events'[i - 1] = g_events[i]
<1> DEFINE t == g_events'
<1>1. /\ g_events \in Seq(Event) /\ g_events # <<>> /\ t = Tail(g_events)
      /\ lpc' = IF Len(g_events) = 1 THEN "wait" ELSE "event"
  BY DEF LoopInv, EventAtHand, NextEvent
<1>2. /\ Current = g_events[1] /\ Len(g_events) \in Nat \ {0} /\ Len(t) = Len(g_events) - 1
      /\ \A k \in 1..Len(t) : t[k] = g_events[k + 1]
  BY <1>1 DEF Current
<1> HIDE DEF t
<1>3. ASSUME NEW i \in 1..Len(g_events), i > 1
      PROVE  i - 1 \in 1..Len(t) /\ t[i - 1] = g_events[i]
  <2>1. i - 1 \in 1..Len(t) /\ (i - 1) + 1 = i
    BY <1>2, <1>3
  <2>2. t[i - 1] = g_events[(i - 1) + 1]
    BY <1>2, <2>1
  <2>3. QED
    BY <2>1, <2>2
<1>4. \A k \in 1..Len(t) : k + 1 \in 1..Len(g_events) /\ k + 1 > 1
  BY <1>2
<1>5. lpc' = "wait" => t = <<>>
  <2>1. Len(g_events) = 1 => Tail(g_events) = <<>>
    BY <1>1
  <2>2. QED
    BY <1>1, <2>1 DEF t
<1>6. QED
  BY <1>1, <1>2, <1>3, <1>4, <1>5 DEF t

LEMMA StillCurrent ==
  ASSUME LoopInv, EventsCurrent, lpc # "wait", NextEvent,
         \A fd \in Fds : HasData(fd) => HasData(fd)'
  PROVE  EventsCurrent'
<1>1. /\ lpc' \in {"wait", "event"} /\ g_events \in Seq(Event)
      /\ lpc' = "wait" => g_events' = <<>>
      /\ \A k \in 1..Len(g_events') :
           k + 1 \in 1..Len(g_events) /\ k + 1 > 1 /\ g_events'[k] = g_events[k + 1]
  BY HeadDropped DEF LoopInv
<1>2. ASSUME NEW k \in 1..Len(g_events'), NEW fd, NEW flags,
             g_events'[k].fd = fd, g_events'[k].flags = flags
      PROVE  flags \subseteq {"IN", "OUT"} /\ ("IN" \in flags /\ fd # Listener => HasData(fd)')
  <2>1. /\ fd \in Fds \cup {Listener} /\ flags \subseteq {"IN", "OUT"}
        /\ "IN" \in flags /\ fd # Listener => HasData(fd)
    <3>1. /\ k + 1 \in 1..Len(g_events) /\ k + 1 > 1
          /\ g_events[k + 1].fd = fd /\ g_events[k + 1].flags = flags
          /\ g_events[k + 1] \in Event
      BY <1>1, <1>2
    <3>2. QED
      BY <3>1 DEF EventsCurrent, Event
  <2>2. QED
    BY <2>1
<1>3. \A k \in 1..Len(g_events') :
        /\ g_events'[k].flags \subseteq {"IN", "OUT"}
        /\ "IN" \in g_events'[k].flags /\ g_events'[k].fd # Listener
             => HasData(g_events[k].fd)'
  BY <1>2
<1>4. QED
  BY <1>1, <1>3 DEF EventsCurrent

LEMMA StillAnnounced ==
  ASSUME LoopInv, Announced, lpc # "wait", NextEvent, UNCHANGED backlog,
         \A fd \in Fds \cup {Listener} : InReady(fd) => InReady(fd)',
         \A fd \in Fds : HasData(fd)' /\ interest'[fd] # {} =>
           InReady(fd)' \/ (HasData(fd) /\ interest[fd] # {}),
         Current.fd = Listener => backlog = <<>> \/ lpc = "add",
         \A fd \in Fds : Current.fd = fd /\ "IN" \in Current.flags =>
           InReady(fd)' \/ ~HasData(fd)'
  PROVE  Announced'
<1>1. /\ Current = g_events[1] /\ lpc' # "add" /\ Len(g_events) \in Nat
      /\ \A i \in 1..Len(g_events) :
           i > 1 => i - 1 \in 1..Len(g_events') /\ g_events'[i - 1] = g_events[i]
  BY HeadDropped
<1>2. \A i \in 1..Len(g_events) :
        g_events[i] = Current \/ \E k \in 1..Len(g_events') : g_events'[k] = g_events[i]
  <2>1. TAKE i \in 1..Len(g_events)
  <2>2. CASE i = 1
    BY <1>1, <2>2
  <2>3. CASE i > 1
    BY <1>1, <2>3
  <2>4. QED
    BY <1>1, <2>2, <2>3
<1>3. backlog' # <<>> =>
        InReady(Listener)' \/ \E k \in 1..Len(g_events') : g_events'[k].fd = Listener
  BY <1>2 DEF Announced
<1>4. ASSUME NEW fd \in Fds, HasData(fd)', interest'[fd] # {}
      PROVE  \/ InReady(fd)'
             \/ \E k \in 1..Len(g_events') :
                  g_events'[k].fd = fd /\ "IN" \in g_events'[k].flags
  <2>1. SUFFICES ASSUME ~InReady(fd)' PROVE
          \E k \in 1..Len(g_events') : g_events'[k].fd = fd /\ "IN" \in g_events'[k].flags
    OBVIOUS
  <2>2. PICK i \in 1..Len(g_events) : g_events[i].fd = fd /\ "IN" \in g_events[i].flags
    BY <1>4, <2>1 DEF Announced
  <2>3. g_events[i] # Current
    BY <1>4, <2>1, <2>2
  <2>4. QED
    BY <1>2, <2>2, <2>3
<1>5. QED
  BY <1>1, <1>3, <1>4 DEF Announced

-------------------------------------------------------------------------------
(* The loop.                                                                 *)

LEMMA EpollWaitSteady ==
  ASSUME Assumptions, IInv, SteadyInv, EpollWait
  PROVE  SteadyInv'
<1> DEFINE E == Fds \cup {Listener}
           events == ReadyEvents
           n == IF Len(events) < MaxEvents THEN Len(events) ELSE MaxEvents
           left == {events[i].fd : i \in n + 1..Len(events)}
<1>1. /\ lpc = "wait" /\ events # <<>> /\ lpc' = "event"
      /\ g_events' = SubSeq(events, 1, n) /\ ready' = Keep(ready, left)
      /\ UNCHANGED <<client, backlog, sock, inbuf, reset, interest>>
  BY DEF EpollWait, At
<1>2. SocketsInv /\ Listener \notin Fds
  BY Parts DEF Assumptions, SocketsAssumption
<1>3. /\ events \in Seq(Event)
      /\ \A k \in 1..Len(events) : events[k].flags = EventsOf(events[k].fd)
      /\ \A k \in 1..Len(events) : events[k].fd # Listener => interest[events[k].fd] # {}
      /\ \A fd \in E : InReady(fd) /\ EventsOf(fd) # {} =>
           \E k \in 1..Len(events) : events[k].fd = fd
  BY <1>2, ReadyEventsFacts, ReadyEventsReport DEF Assumptions
<1>4. \A fd \in left : InReady(fd) => InReady(fd)'
  BY <1>1, <1>2, StillReady
<1> HIDE DEF events
<1>5. /\ n \in 1..Len(events) /\ Len(events) \in Nat /\ Len(g_events') = n
      /\ \A k \in 1..n : k \in 1..Len(events) /\ g_events'[k] = events[k]
  <2>1. MaxEvents \in Nat \ {0} /\ Len(events) \in Nat \ {0}
    BY <1>1, <1>3 DEF Assumptions, ServerAssumption
  <2>2. n \in 1..Len(events)
    BY <2>1
  <2> HIDE DEF n
  <2>3. QED
    BY <1>1, <1>3, <2>1, <2>2
<1> HIDE DEF n
<1>6. \A k \in 1..Len(events) :
        k \in 1..n \/ events[k].fd \in left
  BY <1>5
<1> HIDE DEF left
<1>7. ASSUME NEW fd \in Fds, interest[fd] # {}
      PROVE  /\ EventsOf(fd) \subseteq {"IN", "OUT"}
             /\ "IN" \in EventsOf(fd) <=> HasData(fd)
  <2>1. Open(fd) /\ interest[fd] \in {FirstMask, AgainMask} /\ EventsOf(fd) = Present(fd, interest[fd])
    BY <1>2, <1>7 DEF SteadyInv, OneFdEach, SocketsInv, SocketsTypeOK, EventsOf
  <2>2. QED
    BY <1>2, <2>1, PresentSteady DEF SteadyInv
<1>8. EventsCurrent'
  <2>1. ASSUME NEW k \in 1..n, NEW fd, NEW flags,
               g_events'[k].fd = fd, g_events'[k].flags = flags
        PROVE  flags \subseteq {"IN", "OUT"} /\ ("IN" \in flags /\ fd # Listener => HasData(fd)')
    <3>1. fd \in E /\ flags = EventsOf(fd) /\ (fd # Listener => interest[fd] # {})
      <4>1. k \in 1..Len(events) /\ events[k].fd = fd /\ events[k].flags = flags
        BY <1>5, <2>1
      <4>2. events[k] \in Event
        BY <1>3, <4>1
      <4>3. flags = EventsOf(fd) /\ (fd # Listener => interest[fd] # {})
        BY <1>3, <4>1
      <4>4. QED
        BY <4>1, <4>2, <4>3 DEF Event
    <3>2. HasData(fd)' = HasData(fd)
      BY <1>1 DEF HasData, Open
    <3>3. CASE fd = Listener
      BY <3>1, <3>3 DEF EventsOf
    <3>4. CASE fd \in Fds
      BY <1>2, <1>7, <3>1, <3>2, <3>4
    <3>5. QED
      BY <3>1, <3>3, <3>4
  <2>2. \A k \in 1..Len(g_events') :
          /\ g_events'[k].flags \subseteq {"IN", "OUT"}
          /\ "IN" \in g_events'[k].flags /\ g_events'[k].fd # Listener
               => HasData(g_events[k].fd)'
    BY <1>5, <2>1
  <2>3. QED
    BY <1>1, <2>2 DEF EventsCurrent
<1>9. ASSUME NEW fd \in E, InReady(fd), EventsOf(fd) # {}
      PROVE  \/ InReady(fd)'
             \/ \E k \in 1..n : g_events'[k].fd = fd /\ g_events'[k].flags = EventsOf(fd)
  <2>1. PICK k \in 1..Len(events) : events[k].fd = fd
    BY <1>3, <1>9
  <2>2. CASE k \in 1..n
    BY <1>3, <1>5, <2>1, <2>2
  <2>3. CASE fd \in left
    BY <1>4, <1>9, <2>3
  <2>4. QED
    BY <1>6, <2>1, <2>2, <2>3
<1>10. Announced'
  <2>1. g_events = <<>>
    BY <1>1 DEF SteadyInv, EventsCurrent
  <2>2. backlog' # <<>> =>
          InReady(Listener)' \/ \E k \in 1..Len(g_events') : g_events'[k].fd = Listener
    <3>1. SUFFICES ASSUME backlog # <<>>
                   PROVE  InReady(Listener)' \/ \E k \in 1..n : g_events'[k].fd = Listener
      BY <1>1, <1>5
    <3>2. InReady(Listener) /\ EventsOf(Listener) # {}
      BY <2>1, <3>1 DEF SteadyInv, Announced, EventsOf
    <3>3. QED
      BY <1>9, <3>2
  <2>3. ASSUME NEW fd \in Fds, HasData(fd)', interest'[fd] # {}
        PROVE  \/ InReady(fd)'
               \/ \E k \in 1..Len(g_events') :
                    g_events'[k].fd = fd /\ "IN" \in g_events'[k].flags
    <3>1. HasData(fd) /\ interest[fd] # {}
      BY <1>1, <2>3 DEF HasData, Open
    <3>2. InReady(fd) /\ "IN" \in EventsOf(fd)
      BY <1>7, <2>1, <3>1 DEF SteadyInv, Announced
    <3>3. QED
      BY <1>5, <1>9, <3>2
  <2>4. QED
    BY <1>1, <2>2, <2>3 DEF Announced
<1>11. NobodyLeaves' /\ OneFdEach'
  BY <1>1 DEF SteadyInv, NobodyLeaves, OneFdEach, Open, Waiting
<1>12. QED
  BY <1>8, <1>10, <1>11 DEF SteadyInv

(* A step that ends the handling of an event and changes no connection.      *)
LEMMA EventDone ==
  ASSUME IInv, SteadyInv, lpc # "wait", NextEvent,
         UNCHANGED <<client, backlog, sock, inbuf, reset, interest, ready>>,
         Current.fd = Listener => backlog = <<>> \/ lpc = "add",
         Current.fd # Listener => "IN" \notin Current.flags \/ ~HasData(Current.fd),
         Listener \notin Fds
  PROVE  SteadyInv'
<1>1. /\ \A fd \in Fds : HasData(fd)' = HasData(fd)
      /\ \A fd \in Fds \cup {Listener} : InReady(fd)' = InReady(fd)
  BY DEF HasData, Open, InReady
<1>2. LoopInv /\ EventsCurrent /\ Announced
  BY Parts DEF SteadyInv
<1>3. EventsCurrent'
  BY <1>1, <1>2, StillCurrent
<1>4. ASSUME NEW fd \in Fds, Current.fd = fd, "IN" \in Current.flags PROVE ~HasData(fd)'
  BY <1>1, <1>4
<1>5. Announced'
  BY <1>1, <1>2, <1>4, StillAnnounced
<1>6. NobodyLeaves' /\ OneFdEach'
  BY DEF SteadyInv, NobodyLeaves, OneFdEach, Open, Waiting
<1>7. QED
  BY <1>3, <1>5, <1>6 DEF SteadyInv

LEMMA AcceptSteady ==
  ASSUME Assumptions, Steady, IInv, SteadyInv, AcceptConnection
  PROVE  SteadyInv'
<1>1. /\ lpc = "event" /\ Current.fd = Listener /\ Listener \notin Fds
      /\ SocketsInv /\ LoopInv
  BY Parts DEF AcceptConnection, At, Assumptions, SocketsAssumption
<1>2. CASE AcceptFails /\ NextEvent
  <2>1. backlog = <<>> /\ UNCHANGED sockVars
    BY <1>1, <1>2, FreeDescriptor DEF AcceptFails, SteadyInv
  <2>2. QED
    BY <1>1, <1>2, <2>1, EventDone DEF sockVars
<1>3. ASSUME NEW fd \in Fds, Accept(fd), lpc' = "add", UNCHANGED g_events PROVE SteadyInv'
  <2> DEFINE c == Head(backlog)
  <2>1. /\ backlog \in Seq(Clients) /\ Len(backlog) <= 1 /\ backlog # <<>>
        /\ ~Open(fd) /\ sock' = [sock EXCEPT ![fd] = c] /\ backlog' = Tail(backlog)
        /\ sock \in [Fds -> Clients \cup {None}]
        /\ UNCHANGED <<client, inbuf, reset, interest, ready>>
    BY <1>1, <1>3 DEF Accept, LowestFree, SteadyInv, OneFdEach, SocketsInv, SocketsTypeOK
  <2>2. c \in Clients /\ c # None /\ Waiting(c) /\ client[c] # "away" /\ backlog' = <<>>
    <3> DEFINE b == backlog
    <3>1. Len(b) = 1 /\ Head(b) = b[1] /\ b[1] \in Clients
      <4>1. b \in Seq(Clients) /\ Len(b) <= 1 /\ b # <<>>
        BY <2>1
      <4> HIDE DEF b
      <4>2. Len(b) \in Nat \ {0}
        BY <4>1
      <4>3. Len(b) = 1 /\ 1 \in 1..Len(b)
        BY <4>1, <4>2
      <4>4. QED
        BY <4>1, <4>3
    <3>2. Tail(backlog) = <<>>
      BY <2>1, <3>1
    <3>3. QED
      BY <1>1, <2>1, <3>1, <3>2
      DEF c, b, Waiting, SocketsInv, QueuesInOrder, Assumptions, SocketsAssumption
  <2> HIDE DEF c
  <2>3. /\ sock'[fd] = c /\ interest[fd] = {}
        /\ \A g \in Fds : g # fd => sock'[g] = sock[g]
    BY <2>1 DEF SteadyInv, OneFdEach
  <2>4. \A g \in Fds : g # fd => HasData(g)' = HasData(g)
    BY <2>1, <2>3 DEF HasData, Open
  <2>5. \A g \in Fds : HasData(g) => g # fd /\ HasData(g)'
    BY <2>1, <2>4 DEF HasData
  <2>6. NobodyLeaves' /\ OneFdEach'
    <3>1. NobodyLeaves'
      BY <2>1 DEF SteadyInv, NobodyLeaves
    <3>2. Len(backlog') <= 1 /\ \A d : ~Waiting(d)'
      BY <2>2 DEF Waiting
    <3>3. \A g \in Fds : Open(g) => sock[g] # c
      BY <2>2 DEF SteadyInv, OneFdEach
    <3>4. ASSUME NEW g \in Fds, NEW h \in Fds, Open(g)', sock'[g] = sock'[h] PROVE g = h
      BY <2>2, <2>3, <3>3, <3>4 DEF Open, SteadyInv, OneFdEach
    <3>5. ASSUME NEW g \in Fds, Open(g)' PROVE client'[sock'[g]] # "away"
      BY <2>1, <2>2, <2>3, <3>5 DEF Open, SteadyInv, OneFdEach
    <3>6. ASSUME NEW g \in Fds, interest'[g] # {} PROVE Open(g)'
      BY <2>1, <2>2, <2>3, <3>6 DEF Open, SteadyInv, OneFdEach
    <3>7. ASSUME NEW g \in Fds PROVE ~Waiting(sock[g])'
      BY <2>2 DEF Waiting
    <3>8. QED
      BY <3>1, <3>2, <3>4, <3>5, <3>6, <3>7 DEF OneFdEach
  <2>7. EventsCurrent'
    <3>1. Current' = Current /\ g_events \in Seq(Event)
      BY <1>1, <1>3 DEF Current, LoopInv
    <3>2. ASSUME NEW k \in 1..Len(g_events), NEW g, NEW flags,
                 g_events[k].fd = g, g_events[k].flags = flags
          PROVE  flags \subseteq {"IN", "OUT"} /\ ("IN" \in flags /\ g # Listener => HasData(g)')
      <4>1. g \in Fds \cup {Listener}
        <5>1. g_events[k] \in Event
          BY <3>1, <3>2
        <5>2. QED
          BY <3>2, <5>1 DEF Event
      <4>2. flags \subseteq {"IN", "OUT"} /\ ("IN" \in flags /\ g # Listener => HasData(g))
        BY <1>1, <3>2 DEF SteadyInv, EventsCurrent
      <4>3. QED
        BY <2>5, <4>1, <4>2
    <3>3. \A k \in 1..Len(g_events') :
            /\ g_events'[k].flags \subseteq {"IN", "OUT"}
            /\ "IN" \in g_events'[k].flags /\ g_events'[k].fd # Listener
                 => HasData(g_events[k].fd)'
      BY <1>3, <3>2
    <3>4. QED
      BY <1>1, <1>3, <3>1, <3>3 DEF EventsCurrent
  <2>8. Announced'
    <3>1. \A g \in Fds : HasData(g)' /\ interest'[g] # {} => HasData(g) /\ interest[g] # {}
      BY <2>1, <2>3, <2>4
    <3>2. \A g \in Fds : InReady(g)' = InReady(g)
      BY <2>1 DEF InReady
    <3>3. QED
      BY <1>3, <2>2, <3>1, <3>2 DEF SteadyInv, Announced
  <2>9. QED
    BY <2>6, <2>7, <2>8 DEF SteadyInv
<1>4. QED
  BY <1>2, <1>3 DEF AcceptConnection

(* A descriptor is put on the ready list, and none taken off.                *)
LEMMA ReadyGrows ==
  ASSUME SocketsInv, NEW fd, NEW P, ready' = IF P /\ ~InReady(fd) THEN Append(ready, fd) ELSE ready
  PROVE  /\ \A g : InReady(g) => InReady(g)'
         /\ P => InReady(fd)'
<1>1. /\ ready \in Seq(Fds \cup {Listener}) /\ Len(ready) \in Nat
      /\ \A i \in 1..Len(ready) : ready'[i] = ready[i] /\ i \in 1..Len(ready')
  BY DEF SocketsInv, SocketsTypeOK
<1>2. \A g : InReady(g) => InReady(g)'
  BY <1>1 DEF InReady
<1>3. CASE P /\ ~InReady(fd)
  <2>1. ready' = Append(ready, fd)
    BY <1>3
  <2>2. ready'[Len(ready) + 1] = fd /\ Len(ready) + 1 \in 1..Len(ready')
    BY <1>1, <2>1
  <2>3. QED
    BY <1>2, <2>2 DEF InReady
<1>4. CASE InReady(fd)
  BY <1>2, <1>4
<1>5. QED
  BY <1>2, <1>3, <1>4

LEMMA RegisterSteady ==
  ASSUME SocketsInv, SteadyInv, NEW fd \in Fds, NEW mask \in {FirstMask, AgainMask},
         Register(fd, mask)
  PROVE  /\ NobodyLeaves' /\ OneFdEach' /\ UNCHANGED backlog
         /\ \A g \in Fds : HasData(g)' = HasData(g)
         /\ \A g \in Fds \cup {Listener} : InReady(g) => InReady(g)'
         /\ \A g \in Fds : HasData(g)' /\ interest'[g] # {} =>
              InReady(g)' \/ (HasData(g) /\ interest[g] # {})
         /\ mask = AgainMask => InReady(fd)'
<1>1. /\ Open(fd) /\ interest' = [interest EXCEPT ![fd] = mask]
      /\ UNCHANGED <<client, backlog, sock, inbuf, reset>>
      /\ \A g : InReady(g) => InReady(g)'
      /\ Present(fd, mask) # {} => InReady(fd)'
  BY ReadyGrows DEF Register
<1>2. \A g \in Fds : g # fd => interest'[g] = interest[g]
  BY <1>1 DEF SocketsInv, SocketsTypeOK
<1>3. NobodyLeaves' /\ OneFdEach'
  BY <1>1, <1>2 DEF SteadyInv, NobodyLeaves, OneFdEach, Open, Waiting
<1>4. \A g \in Fds : HasData(g)' = HasData(g)
  BY <1>1 DEF HasData, Open
<1>5. HasData(fd) => InReady(fd)'
  BY <1>1, PresentSteady DEF SteadyInv
<1>6. mask = AgainMask => "OUT" \in Present(fd, mask)
  BY DEF AgainMask, Present
<1>7. QED
  BY <1>1, <1>2, <1>3, <1>4, <1>5, <1>6

LEMMA AddConnectionSteady ==
  ASSUME Assumptions, IInv, SteadyInv, AddConnection
  PROVE  SteadyInv'
<1>1. /\ lpc = "add" /\ Current.fd = Listener /\ new_socket \in Fds
      /\ Listener \notin Fds /\ SocketsInv /\ LoopInv /\ EventsCurrent /\ Announced
  BY Parts DEF AddConnection, At, SteadyInv, EventsCurrent, LoopInv, EventAtHand,
               Assumptions, SocketsAssumption
<1>2. CASE UNCHANGED sockVars /\ (UNCHANGED loopVars \/ NextEvent)
  <2>1. CASE UNCHANGED loopVars
    BY <1>2, <2>1, SteadyKept DEF sockVars
  <2>2. CASE NextEvent
    BY <1>1, <1>2, <2>2, EventDone DEF sockVars
  <2>3. QED
    BY <1>2, <2>1, <2>2
<1>3. CASE Register(new_socket, FirstMask)
  <2>1. /\ NobodyLeaves' /\ OneFdEach' /\ UNCHANGED backlog
        /\ \A g \in Fds : HasData(g)' = HasData(g)
        /\ \A g \in Fds \cup {Listener} : InReady(g) => InReady(g)'
        /\ \A g \in Fds : HasData(g)' /\ interest'[g] # {} =>
             InReady(g)' \/ (HasData(g) /\ interest[g] # {})
    BY <1>1, <1>3, RegisterSteady
  <2>2. CASE NextEvent
    <3>1. EventsCurrent'
      BY <1>1, <2>1, <2>2, StillCurrent
    <3>2. Announced'
      BY <1>1, <2>1, <2>2, StillAnnounced
    <3>3. QED
      BY <2>1, <3>1, <3>2 DEF SteadyInv
  <2>3. CASE lpc' = "locked" /\ UNCHANGED <<g_events, new_socket>>
    <3>1. ASSUME NEW i \in 1..Len(g_events), NEW fd, NEW flags,
                 g_events[i].fd = fd, g_events[i].flags = flags
          PROVE  flags \subseteq {"IN", "OUT"} /\ ("IN" \in flags /\ fd # Listener => HasData(fd)')
      <4>1. g_events[i] \in Event
        BY <1>1, <3>1 DEF LoopInv
      <4>2. fd \in Fds \cup {Listener}
        BY <3>1, <4>1 DEF Event
      <4>3. flags \subseteq {"IN", "OUT"} /\ ("IN" \in flags /\ fd # Listener => HasData(fd))
        BY <1>1, <3>1 DEF EventsCurrent
      <4>4. QED
        BY <2>1, <4>2, <4>3
    <3>2. EventsCurrent'
      BY <1>1, <2>3, <3>1 DEF EventsCurrent
    <3>3. Announced'
      BY <1>1, <2>1, <2>3 DEF Announced
    <3>4. QED
      BY <2>1, <3>2, <3>3 DEF SteadyInv
  <2>4. QED
    BY <1>3, <2>2, <2>3 DEF AddConnection, Register
<1>4. QED
  BY <1>2, <1>3 DEF AddConnection

LEMMA ModFdSteady ==
  ASSUME Assumptions, IInv, SteadyInv, ModFd
  PROVE  SteadyInv'
<1>1. /\ lpc = "mod" /\ NextEvent /\ Current.fd \in Fds
      /\ Listener \notin Fds /\ SocketsInv /\ LoopInv /\ EventsCurrent /\ Announced
  BY Parts DEF ModFd, At, SteadyInv, LoopInv, EventAtHand, Assumptions, SocketsAssumption
<1>2. PICK fd \in Fds : fd = Current.fd
  BY <1>1
<1>3. CASE ~Open(fd) /\ UNCHANGED sockVars
  <2>1. ~HasData(Current.fd)
    BY <1>2, <1>3 DEF HasData
  <2>2. QED
    BY <1>1, <1>3, <2>1, EventDone DEF sockVars
<1>4. CASE Register(fd, AgainMask)
  <2>1. /\ NobodyLeaves' /\ OneFdEach' /\ UNCHANGED backlog
        /\ \A g \in Fds : HasData(g)' = HasData(g)
        /\ \A g \in Fds \cup {Listener} : InReady(g) => InReady(g)'
        /\ \A g \in Fds : HasData(g)' /\ interest'[g] # {} =>
             InReady(g)' \/ (HasData(g) /\ interest[g] # {})
        /\ InReady(fd)'
    BY <1>1, <1>4, RegisterSteady
  <2>2. EventsCurrent'
    BY <1>1, <2>1, StillCurrent
  <2>3. \A g \in Fds : Current.fd = g => InReady(g)'
    BY <1>2, <2>1
  <2>4. Announced'
    BY <1>1, <2>1, <2>3, StillAnnounced
  <2>5. QED
    BY <2>1, <2>2, <2>4 DEF SteadyInv
<1>5. QED
  BY <1>2, <1>3, <1>4 DEF ModFd, Rearm

LEMMA SkipEventSteady ==
  ASSUME Assumptions, IInv, SteadyInv, SkipEvent
  PROVE  SteadyInv'
<1>1. /\ lpc = "event" /\ NextEvent /\ Current.fd # Listener /\ "IN" \notin Current.flags
      /\ UNCHANGED sockVars /\ Listener \notin Fds
  BY DEF SkipEvent, At, Assumptions, SocketsAssumption
<1>2. QED
  BY <1>1, EventDone DEF sockVars

(* The event at hand is current: neither epoll_del_fd nor the return from a   *)
(* recv without data is reached.                                             *)
LEMMA AtCurrent ==
  ASSUME IInv, SteadyInv, lpc = "event"
  PROVE  /\ Current.flags \subseteq {"IN", "OUT"}
         /\ "IN" \in Current.flags /\ Current.fd # Listener => HasData(Current.fd)
<1>1. g_events \in Seq(Event) /\ g_events # <<>>
  BY Parts DEF LoopInv, EventAtHand
<1>2. Current = g_events[1] /\ 1 \in 1..Len(g_events)
  BY <1>1 DEF Current
<1>3. QED
  BY <1>2 DEF SteadyInv, EventsCurrent

LEMMA RecvDataSteady ==
  ASSUME Assumptions, IInv, SteadyInv, RecvData
  PROVE  SteadyInv'
<1>1. /\ lpc = "event" /\ lpc' = "mod" /\ Receive(Current.fd, RecvMax) /\ UNCHANGED g_events
      /\ Current.fd \in Fds /\ Listener \notin Fds
      /\ SocketsInv /\ LoopInv /\ EventsCurrent /\ Announced
  BY Parts, AtEvent DEF RecvData, Readable, At, SteadyInv, Assumptions, SocketsAssumption
<1>2. PICK fd \in Fds : fd = Current.fd
  BY <1>1
<1> DEFINE c == sock[fd]
<1>3. /\ Open(fd) /\ c \in Clients /\ inbuf[c] # <<>>
      /\ inbuf' = [inbuf EXCEPT ![c] = SubSeq(@, RecvMax + 1, Len(@))]
      /\ inbuf \in [Clients -> Seq(Packet)]
      /\ UNCHANGED <<client, backlog, sock, reset, interest, ready>>
  BY <1>1, <1>2 DEF Receive, HasData, Open, SocketsInv, SocketsTypeOK
<1> HIDE DEF c
<1>4. \A g \in Fds : Open(g) /\ g # fd => sock[g] \in Clients /\ sock[g] # c
  BY <1>1, <1>3 DEF c, Open, SteadyInv, OneFdEach, SocketsInv, SocketsTypeOK
<1>5. \A g \in Fds : HasData(g)' => HasData(g)
  BY <1>3, <1>4 DEF HasData, Open, c
<1>6. \A g \in Fds : g # fd /\ HasData(g) => HasData(g)'
  BY <1>3, <1>4 DEF HasData, Open
<1>7. EventsCurrent'
  <2>1. /\ g_events \in Seq(Event) /\ Current = g_events[1] /\ 1 \in 1..Len(g_events)
        /\ \A i, k \in 1..Len(g_events) : g_events[i].fd = g_events[k].fd => i = k
    BY <1>1 DEF LoopInv, EventAtHand, Current
  <2>2. ASSUME NEW k \in 1..Len(g_events), NEW g, NEW flags,
               g_events[k].fd = g, g_events[k].flags = flags
        PROVE  /\ flags \subseteq {"IN", "OUT"}
               /\ "IN" \in flags /\ g # Listener /\ k > 1 => HasData(g)'
    <3>1. g_events[k] \in Event
      BY <2>1
    <3>2. g \in Fds \cup {Listener}
      BY <2>2, <3>1 DEF Event
    <3>3. flags \subseteq {"IN", "OUT"} /\ ("IN" \in flags /\ g # Listener => HasData(g))
      BY <1>1, <2>2 DEF EventsCurrent
    <3>4. k > 1 => g # fd
      BY <1>2, <2>1, <2>2
    <3>5. QED
      BY <1>6, <3>2, <3>3, <3>4
  <2>3. \A k \in 1..Len(g_events') :
          /\ g_events'[k].flags \subseteq {"IN", "OUT"}
          /\ "IN" \in g_events'[k].flags /\ g_events'[k].fd # Listener /\ k > 1
               => HasData(g_events[k].fd)'
    BY <1>1, <2>2
  <2>4. QED
    BY <1>1, <2>3 DEF EventsCurrent
<1>8. Announced'
  <2>1. \A g \in Fds \cup {Listener} : InReady(g)' = InReady(g)
    BY <1>3 DEF InReady
  <2>2. QED
    BY <1>1, <1>3, <1>5, <2>1 DEF Announced
<1>9. NobodyLeaves' /\ OneFdEach'
  BY <1>3 DEF SteadyInv, NobodyLeaves, OneFdEach, Open, Waiting
<1>10. QED
  BY <1>7, <1>8, <1>9 DEF SteadyInv

LEMMA LoopSteady ==
  ASSUME Assumptions, Steady, IInv, SteadyInv, LoopStep
  PROVE  SteadyInv'
<1>1. CASE EpollTimeout
  <2>1. UNCHANGED <<loopVars, client, backlog, sock, inbuf, reset, interest, ready>>
    BY <1>1 DEF EpollTimeout, serverVars, sockVars
  <2>2. QED
    BY <2>1, SteadyKept
<1>2. ~Hangup /\ ~RecvNothing
  BY AtCurrent DEF Hangup, RecvNothing, Readable, At
<1>3. QED
  BY <1>1, <1>2, EpollWaitSteady, AcceptSteady, AddConnectionSteady, RecvDataSteady,
     ModFdSteady, SkipEventSteady DEF LoopStep

-------------------------------------------------------------------------------
(* The workers and the clients.                                              *)

LEMMA WorkersSteady ==
  ASSUME Assumptions, Steady, IInv, SteadyInv, WorkerStep
  PROVE  SteadyInv'
<1>1. CASE StartJob
  <2>1. UNCHANGED <<loopVars, client, backlog, sock, inbuf, reset, interest, ready>>
    BY <1>1 DEF StartJob, sockVars
  <2>2. QED
    BY <2>1, SteadyKept
<1>2. ASSUME NEW j \in Jobs, ParsePacket(j) PROVE SteadyInv'
  <2>1. j \in running /\ Fd(j) \in Fds /\ Kind(j) = "request"
    <3>1. j \in running
      BY <1>2 DEF ParsePacket, NotSSP, ReplyPacket, DisConn, ShortPacket, Parses
    <3>2. Fd(j) \in Fds /\ Head(Packets(j)) \in Packet
      BY <3>1, Parts, RunningArgs
    <3>3. QED
      BY <3>1, <3>2 DEF Packet, Kind, Steady
  <2>2. NotSSP(j) \/ ReplyPacket(j)
    BY <1>2, <2>1 DEF ParsePacket, DisConn, ShortPacket, TooShort
  <2>3. UNCHANGED <<loopVars, client, backlog, sock, inbuf, reset, interest, ready>>
    <3>1. CASE NotSSP(j)
      BY <3>1 DEF NotSSP, sockVars
    <3>2. CASE ReplyPacket(j)
      <4>1. Open(Fd(j)) => client[sock[Fd(j)]] # "closed"
        BY <2>1, Parts DEF Open, SteadyInv, NobodyLeaves, SocketsInv, SocketsTypeOK
      <4>2. QED
        BY <3>2, <4>1 DEF ReplyPacket, Reply, sockVars
    <3>3. QED
      BY <2>2, <3>1, <3>2
  <2>4. QED
    BY <2>3, SteadyKept
<1>3. QED
  BY <1>1, <1>2 DEF WorkerStep

(* What the kernel does for a client takes nothing from the events at hand.  *)
LEMMA Beside ==
  ASSUME Assumptions, IInv, EventsCurrent, UNCHANGED loopVars,
         \A fd \in Fds : HasData(fd) => HasData(fd)'
  PROVE  EventsCurrent'
<1>1. g_events \in Seq(Event)
  BY Parts DEF LoopInv
<1>2. ASSUME NEW k \in 1..Len(g_events), NEW fd, NEW flags,
             g_events[k].fd = fd, g_events[k].flags = flags
      PROVE  /\ flags \subseteq {"IN", "OUT"}
             /\ "IN" \in flags /\ fd # Listener /\ (k > 1 \/ lpc # "mod") => HasData(fd)'
  <2>1. g_events[k] \in Event
    BY <1>1
  <2>2. fd \in Fds \cup {Listener}
    BY <1>2, <2>1 DEF Event
  <2>3. /\ flags \subseteq {"IN", "OUT"}
        /\ "IN" \in flags /\ fd # Listener /\ (k > 1 \/ lpc # "mod") => HasData(fd)
    BY <1>2 DEF EventsCurrent
  <2>4. QED
    BY <2>2, <2>3
<1>3. \A k \in 1..Len(g_events') :
        /\ g_events'[k].flags \subseteq {"IN", "OUT"}
        /\ "IN" \in g_events'[k].flags /\ g_events'[k].fd # Listener /\ (k > 1 \/ lpc' # "mod")
             => HasData(g_events[k].fd)'
  BY <1>2 DEF loopVars
<1>4. QED
  BY <1>3 DEF EventsCurrent, loopVars, Current

LEMMA ConnectSteady ==
  ASSUME Assumptions, Steady, IInv, SteadyInv, UNCHANGED loopVars, NEW c \in Clients, Connect(c)
  PROVE  SteadyInv'
<1>1. /\ client[c] = "away" /\ client' = [client EXCEPT ![c] = "connected"]
      /\ backlog = <<>> /\ backlog' = Append(backlog, c)
      /\ client \in [Clients -> {"away", "connected", "closed"}] /\ SocketsInv
      /\ UNCHANGED <<sock, inbuf, reset, interest>>
  BY Parts DEF Connect, Steady, SocketsInv, SocketsTypeOK
<1>2. Len(backlog') = 1 /\ backlog'[1] = c
  BY <1>1
<1>3. \A fd \in Fds : Open(fd) => sock[fd] \in Clients /\ sock[fd] # c
  BY <1>1 DEF Open, SteadyInv, OneFdEach, SocketsInv, SocketsTypeOK
<1>4. NobodyLeaves'
  BY <1>1 DEF SteadyInv, NobodyLeaves
<1>5. OneFdEach'
  <2>1. ASSUME NEW fd \in Fds, Open(fd)
        PROVE  client'[sock[fd]] # "away" /\ ~ \E i \in 1..Len(backlog') : backlog'[i] = sock[fd]
    BY <1>1, <1>2, <1>3, <2>1 DEF SteadyInv, OneFdEach
  <2>2. QED
    BY <1>1, <1>2, <2>1 DEF SteadyInv, OneFdEach, Open, Waiting
<1>6. \A fd \in Fds : HasData(fd)' = HasData(fd)
  BY <1>1 DEF HasData, Open
<1>7. (\A g : InReady(g) => InReady(g)') /\ InReady(Listener)'
  <2>1. ready' = IF TRUE /\ ~InReady(Listener) THEN Append(ready, Listener) ELSE ready
    BY DEF Connect
  <2>2. QED
    BY <1>1, <2>1, ReadyGrows
<1>8. EventsCurrent'
  BY <1>6, Beside DEF SteadyInv
<1>9. Announced'
  BY <1>1, <1>6, <1>7 DEF SteadyInv, Announced, loopVars
<1>10. QED
  BY <1>4, <1>5, <1>8, <1>9 DEF SteadyInv

LEMMA ClientSendSteady ==
  ASSUME Assumptions, Steady, IInv, SteadyInv, UNCHANGED loopVars,
         NEW c \in Clients, NEW kind \in Kinds, ClientSend(c, kind)
  PROVE  SteadyInv'
<1> DEFINE p == [kind |-> kind, from |-> c, n |-> Len(sent[c]) + 1]
<1>1. /\ inbuf' = [inbuf EXCEPT ![c] = Append(@, p)] /\ Wake(c)
      /\ inbuf \in [Clients -> Seq(Packet)] /\ SocketsInv
      /\ UNCHANGED <<client, backlog, sock, reset, interest>>
  BY Parts DEF ClientSend, SocketsInv, SocketsTypeOK
<1> HIDE DEF p
<1>2. inbuf'[c] # <<>> /\ \A d \in Clients : d # c => inbuf'[d] = inbuf[d]
  <2>1. inbuf'[c] = Append(inbuf[c], p) /\ inbuf[c] \in Seq(Packet)
    BY <1>1
  <2>2. Append(inbuf[c], p) # <<>>
    BY <2>1
  <2>3. QED
    BY <1>1, <2>1, <2>2
<1>3. \A fd \in Fds : Open(fd) => sock[fd] \in Clients
  BY <1>1 DEF Open, SocketsInv, SocketsTypeOK
<1>4. \A fd \in Fds : HasData(fd) => HasData(fd)'
  BY <1>1, <1>2, <1>3 DEF HasData, Open
<1>5. \A fd \in Fds : HasData(fd)' => HasData(fd) \/ (Open(fd) /\ sock[fd] = c)
  BY <1>1, <1>2, <1>3 DEF HasData, Open
<1>6. \A g : InReady(g) => InReady(g)'
  BY <1>1, ReadyGrows DEF Wake
<1>7. ASSUME NEW fd \in Fds, Open(fd), sock[fd] = c, interest[fd] # {} PROVE InReady(fd)'
  <2>1. Served(c) /\ FdOf(c) = fd
    BY <1>7 DEF Served, FdOf, SteadyInv, OneFdEach
  <2>2. ready' = IF interest[fd] # {} /\ ~InReady(fd) THEN Append(ready, fd) ELSE ready
    BY <1>1, <2>1 DEF Wake
  <2>3. QED
    BY <1>1, <1>7, <2>2, ReadyGrows
<1>8. EventsCurrent'
  BY <1>4, Beside DEF SteadyInv
<1>9. Announced'
  BY <1>1, <1>5, <1>6, <1>7 DEF SteadyInv, Announced, loopVars
<1>10. NobodyLeaves' /\ OneFdEach'
  BY <1>1 DEF SteadyInv, NobodyLeaves, OneFdEach, Open, Waiting
<1>11. QED
  BY <1>8, <1>9, <1>10 DEF SteadyInv

-------------------------------------------------------------------------------
LEMMA SteadyInit ==
  ASSUME Init
  PROVE  SteadyInv
BY DEF Init, SocketsInit, SteadyInv, NobodyLeaves, OneFdEach, EventsCurrent, Announced,
       HasData, Open

LEMMA SteadyNext ==
  ASSUME Assumptions, Steady, IInv, SteadyInv, [Next]_serverVars
  PROVE  SteadyInv'
<1>1. CASE Environment
  <2>1. PICK c \in Clients : UNCHANGED loopVars /\
               (Connect(c) \/ (\E kind \in Kinds : ClientSend(c, kind)) \/ ClientClose(c))
    BY <1>1 DEF Environment, Alone
  <2>2. ~ClientClose(c)
    BY DEF ClientClose, Steady
  <2>3. QED
    BY <2>1, <2>2, ConnectSteady, ClientSendSteady
<1>2. CASE UNCHANGED serverVars
  <2>1. UNCHANGED <<loopVars, client, backlog, sock, inbuf, reset, interest, ready>>
    BY <1>2 DEF serverVars, sockVars
  <2>2. QED
    BY <2>1, SteadyKept
<1>3. QED
  BY <1>1, <1>2, LoopSteady, WorkersSteady DEF Next, Halted

(* Nothing to accept or to receive is ever stranded by edge triggering, for   *)
(* any number of clients that connect one at a time, stay, and send requests *)
(* only, and any number of workers, events per round and packets.            *)
THEOREM NothingStranded ==
  ASSUME Steady
  PROVE  Spec => []NoStrandedEvent
<1>1. Assumptions
  BY SocketsAssumption, ConnectionTableAssumption, ServerAssumption DEF Assumptions
<1>2. Init => SteadyInv
  BY SteadyInit
<1>3. IInv /\ SteadyInv /\ [Next]_serverVars => SteadyInv'
  BY <1>1, SteadyNext
<1>4. SteadyInv => NoStrandedEvent
  <2>1. Listener \notin Fds
    BY <1>1 DEF Assumptions, SocketsAssumption
  <2>2. QED
    BY <2>1 DEF SteadyInv, Announced, NoStrandedEvent
<1>5. QED
  BY <1>2, <1>3, <1>4, ServerInvariance, PTL DEF Spec

-------------------------------------------------------------------------------
(* Clients that wait: they send when the last reply has come, and nothing    *)
(* after a packet that has no reply.  Packets without a reply are allowed     *)
(* only on the assumption about memory that Uninitialized FALSE makes:        *)
(* otherwise a short packet can have the descriptor of another client closed. *)
Polite == ~Pipelined /\ (Uninitialized => Kinds \subseteq {"request"})

Live(j) == j \in running \/ \E i \in 1..Len(pending) : pending[i] = j

(* What a job does, it does to the client whose packet it parses, and to no   *)
(* other: its descriptor has not been reused.  The loop cannot see that the  *)
(* client leaves, as the descriptor is no longer registered for EPOLLRDHUP.  *)
OneEach ==
  /\ \A c \in Clients : inbuf[c] # <<>> => \E p \in Packet : inbuf[c] = <<p>> /\ p.from = c
  /\ \A j \in Jobs : Live(j) =>
       /\ \E p \in Packet : Packets(j) = <<p>> /\ p.from = sock[Fd(j)]
       /\ inbuf[sock[Fd(j)]] = <<>>
       /\ interest[Fd(j)] = AgainMask \/ (lpc = "mod" /\ Current.fd = Fd(j))
  /\ \A i, j \in Jobs : Live(i) /\ Live(j) /\ sock[Fd(i)] = sock[Fd(j)] => i = j

(* A request on its way is the next to be answered; a packet without a reply  *)
(* is the last of its client.                                                *)
OnItsWay(p) ==
  inbuf[p.from] = <<p>> \/ \E j \in Jobs : Live(j) /\ Packets(j) = <<p>>

Answering ==
  \A p \in Packet : OnItsWay(p) =>
    /\ p.kind = "request" =>
         /\ client[p.from] = "connected"
         /\ Len(inbox[p.from]) < Len(Requests(p.from))
         /\ Requests(p.from)[Len(inbox[p.from]) + 1] = p
    /\ p.kind # "request" => Requests(p.from) # sent[p.from]

(* The hangups of this round are those of clients that have left.            *)
Hangs(fd) ==
  \E i \in 1..Len(g_events) :
    g_events[i].fd = fd /\ g_events[i].flags \cap {"RDHUP", "HUP"} # {}

HangupsCurrent ==
  \A fd \in Fds : Hangs(fd) =>
    /\ Open(fd) /\ client[sock[fd]] = "closed"
    /\ \A j \in Jobs : Live(j) => Fd(j) # fd

Unregistered ==
  /\ \A fd \in Fds : ~Open(fd) => interest[fd] = {}
  /\ lpc = "add" => interest[new_socket] = {}

DescriptorsInv == OneEach /\ HangupsCurrent /\ Unregistered

PacketsInv == RepliesFaithful /\ Answering /\ reset = {}

PoliteInv == DescriptorsInv /\ PacketsInv

LEMMA PacketFrom ==
  ASSUME NEW p \in Packet
  PROVE  p.from \in Clients /\ <<p>> # <<>>
BY DEF Packet

(* A job that has not ended has a descriptor, and the one packet of its client.*)
LEMMA LiveFacts ==
  ASSUME Assumptions, IInv, OneEach, NEW j \in Jobs, Live(j)
  PROVE  /\ Fd(j) \in Fds /\ Open(Fd(j)) /\ sock[Fd(j)] \in Clients
         /\ Len(Packets(j)) = 1 /\ Head(Packets(j)) \in Packet
         /\ Packets(j) = <<Head(Packets(j))>>
         /\ Head(Packets(j)).from = sock[Fd(j)]
<1>1. args[j].socket_fd \in Fds
  BY Parts DEF JobsInv, ArgsKept, Live
<1>2. PICK p \in Packet : Packets(j) = <<p>> /\ p.from = sock[Fd(j)]
  BY DEF OneEach
<1>3. Fd(j) \in Fds /\ sock[Fd(j)] \in Clients
  BY <1>1, <1>2 DEF Fd, Packet
<1>4. Len(Packets(j)) = 1 /\ Head(Packets(j)) = p
  BY <1>2
<1>5. QED
  BY <1>2, <1>3, <1>4 DEF Open, Assumptions, SocketsAssumption

(* The jobs that have not ended, after each step of the pool.                *)
LEMMA EndJobLeaves ==
  ASSUME JobsInv, NEW j \in Jobs, EndJob(j), NEW i \in Jobs, Live(i)'
  PROVE  Live(i) /\ i # j /\ Fd(i)' = Fd(i) /\ Packets(i)' = Packets(i)
<1>1. /\ j \in running /\ running' = running \ {j} /\ UNCHANGED pending
      /\ args' = [args EXCEPT ![j] = None] /\ args \in [Jobs -> Args \cup {None}]
      /\ \A k \in 1..Len(pending) : pending[k] # j
  BY DEF EndJob, Pool!Finish, JobsInv
<1>2. Live(i) /\ i # j
  BY <1>1 DEF Live
<1>3. QED
  BY <1>1, <1>2 DEF Fd, Packets

LEMMA SubmitAdds ==
  ASSUME JobsInv, NEW j \in Jobs, NEW fd, NEW packets, Submit(j, fd, packets)
  PROVE  /\ Fd(j)' = fd /\ Packets(j)' = packets
         /\ \A i \in Jobs : i # j /\ Live(i)' =>
              Live(i) /\ Fd(i)' = Fd(i) /\ Packets(i)' = Packets(i)
<1>1. /\ pending \in Seq(Jobs) /\ pending' = Append(pending, j) /\ UNCHANGED running
      /\ args' = [args EXCEPT ![j] = [socket_fd |-> fd, packets |-> packets]]
      /\ args \in [Jobs -> Args \cup {None}]
  BY DEF Submit, Pool!Submit, JobsInv
<1>2. /\ Len(pending') = Len(pending) + 1 /\ Len(pending) \in Nat /\ pending'[Len(pending) + 1] = j
      /\ \A k \in 1..Len(pending) : pending'[k] = pending[k]
  BY <1>1
<1>3. \A k \in 1..Len(pending') : k \in 1..Len(pending) \/ pending'[k] = j
  BY <1>2
<1>4. \A i \in Jobs : i # j /\ Live(i)' => Live(i)
  BY <1>1, <1>2, <1>3 DEF Live
<1>5. QED
  BY <1>1, <1>4 DEF Fd, Packets

LEMMA StartSame ==
  ASSUME JobsInv, StartJob, NEW i \in Jobs, Live(i)'
  PROVE  Live(i) /\ Fd(i)' = Fd(i) /\ Packets(i)' = Packets(i)
<1>1. /\ pending \in Seq(Jobs) /\ pending # <<>> /\ pending' = Tail(pending)
      /\ running' = running \cup {Head(pending)} /\ UNCHANGED args
  BY DEF StartJob, Pool!Start, JobsInv
<1>2. /\ Head(pending) = pending[1] /\ 1 \in 1..Len(pending)
      /\ \A k \in 1..Len(pending') : pending'[k] = pending[k + 1] /\ k + 1 \in 1..Len(pending)
  BY <1>1
<1>3. QED
  BY <1>1, <1>2 DEF Live, Fd, Packets

(* Nothing is on its way that was not, and nobody has got or sent a packet.  *)
LEMMA PacketsKept ==
  ASSUME PacketsInv, UNCHANGED <<reset, sent, inbox>>,
         \A p \in Packet : OnItsWay(p)' => OnItsWay(p),
         \A p \in Packet : OnItsWay(p) /\ p.kind = "request" /\ client[p.from] = "connected"
           => client'[p.from] = "connected"
  PROVE  PacketsInv'
<1>1. Answering'
  BY DEF PacketsInv, Answering, Requests
<1>2. RepliesFaithful'
  BY DEF PacketsInv, RepliesFaithful, Requests
<1>3. QED
  BY <1>1, <1>2 DEF PacketsInv

(* Live jobs are those that were, or fewer.                                  *)
JobsLeft ==
  \A i \in Jobs : Live(i)' => Live(i) /\ Fd(i)' = Fd(i) /\ Packets(i)' = Packets(i)

LEMMA NothingSent ==
  ASSUME JobsLeft, UNCHANGED inbuf, NEW p \in Packet, OnItsWay(p)'
  PROVE  OnItsWay(p)
BY DEF JobsLeft, OnItsWay

LEMMA JobsSame ==
  ASSUME UNCHANGED <<args, poolVars>>
  PROVE  JobsLeft
BY DEF JobsLeft, Live, Fd, Packets, poolVars

(* The loop is done with the descriptor it was about to register, or is not. *)
LoopMoves ==
  /\ lpc = "mod" => lpc' = "mod" /\ UNCHANGED g_events
  /\ lpc' = "add" => lpc = "add" /\ UNCHANGED new_socket

LEMMA ApartKept ==
  ASSUME OneEach, Unregistered, JobsLeft, LoopMoves, UNCHANGED <<sock, inbuf, interest>>
  PROVE  OneEach' /\ Unregistered'
<1>1. ASSUME NEW c \in Clients, inbuf'[c] # <<>>
      PROVE  \E p \in Packet : inbuf'[c] = <<p>> /\ p.from = c
  BY <1>1 DEF OneEach
<1>2. ASSUME NEW j \in Jobs, Live(j)'
      PROVE  /\ \E p \in Packet : Packets(j)' = <<p>> /\ p.from = sock'[Fd(j)']
             /\ inbuf'[sock'[Fd(j)']] = <<>>
             /\ interest'[Fd(j)'] = AgainMask \/ (lpc' = "mod" /\ Current'.fd = Fd(j)')
  <2>1. Live(j) /\ Fd(j)' = Fd(j) /\ Packets(j)' = Packets(j)
    BY <1>2 DEF JobsLeft
  <2>2. lpc = "mod" => lpc' = "mod" /\ Current' = Current
    BY DEF LoopMoves, Current
  <2>3. QED
    BY <2>1, <2>2 DEF OneEach
<1>3. ASSUME NEW i \in Jobs, NEW j \in Jobs, Live(i)', Live(j)', sock'[Fd(i)'] = sock'[Fd(j)']
      PROVE  i = j
  <2>1. Live(i) /\ Live(j) /\ Fd(i)' = Fd(i) /\ Fd(j)' = Fd(j)
    BY <1>3 DEF JobsLeft
  <2>2. QED
    BY <1>3, <2>1 DEF OneEach
<1>4. OneEach'
  BY <1>1, <1>2, <1>3 DEF OneEach
<1>5. Unregistered'
  BY DEF Unregistered, LoopMoves, Open
<1>6. QED
  BY <1>4, <1>5

LEMMA DescriptorsKept ==
  ASSUME DescriptorsInv, JobsLeft, LoopMoves, UNCHANGED <<sock, inbuf, interest>>,
         \A c : client[c] = "closed" => client'[c] = "closed",
         \A fd \in Fds : Hangs(fd)' => Hangs(fd)
  PROVE  DescriptorsInv'
<1>1. OneEach' /\ Unregistered'
  BY ApartKept DEF DescriptorsInv
<1>2. ASSUME NEW fd \in Fds, Hangs(fd)'
      PROVE  /\ Open(fd)' /\ client'[sock'[fd]] = "closed"
             /\ \A j \in Jobs : Live(j)' => Fd(j)' # fd
  <2>1. Hangs(fd)
    BY <1>2
  <2>2. QED
    BY <2>1 DEF DescriptorsInv, HangupsCurrent, Open, JobsLeft
<1>3. HangupsCurrent'
  BY <1>2 DEF HangupsCurrent
<1>4. QED
  BY <1>1, <1>3 DEF DescriptorsInv

(* A descriptor is closed that no job and no hangup of the round has.        *)
LEMMA DescriptorClosed ==
  ASSUME SocketsInv, DescriptorsInv, JobsLeft, LoopMoves, NEW fd \in Fds, CloseFd(fd),
         \A i \in Jobs : Live(i)' => Fd(i) \in Fds \ {fd},
         lpc = "add" => new_socket \in Fds,
         \A g \in Fds : Hangs(g)' => Hangs(g) /\ g # fd
  PROVE  DescriptorsInv'
<1>1. /\ sock' = [sock EXCEPT ![fd] = None] /\ interest' = [interest EXCEPT ![fd] = {}]
      /\ sock \in [Fds -> Clients \cup {None}] /\ UNCHANGED <<client, inbuf>>
      /\ interest \in [Fds -> {{}, FirstMask, AgainMask}]
  BY DEF CloseFd, SocketsInv, SocketsTypeOK
<1>2. /\ sock'[fd] = None /\ interest'[fd] = {}
      /\ \A g \in Fds \ {fd} : sock'[g] = sock[g] /\ interest'[g] = interest[g]
  BY <1>1
<1>3. ASSUME NEW j \in Jobs, Live(j)'
      PROVE  /\ Live(j) /\ Fd(j)' = Fd(j) /\ Packets(j)' = Packets(j)
             /\ sock'[Fd(j)'] = sock[Fd(j)] /\ interest'[Fd(j)'] = interest[Fd(j)]
  BY <1>2, <1>3 DEF JobsLeft
<1>4. OneEach'
  <2>1. ASSUME NEW c \in Clients, inbuf'[c] # <<>>
        PROVE  \E p \in Packet : inbuf'[c] = <<p>> /\ p.from = c
    BY <1>1, <2>1 DEF DescriptorsInv, OneEach
  <2>2. ASSUME NEW j \in Jobs, Live(j)'
        PROVE  /\ \E p \in Packet : Packets(j)' = <<p>> /\ p.from = sock'[Fd(j)']
               /\ inbuf'[sock'[Fd(j)']] = <<>>
               /\ interest'[Fd(j)'] = AgainMask \/ (lpc' = "mod" /\ Current'.fd = Fd(j)')
    <3>1. lpc = "mod" => lpc' = "mod" /\ Current' = Current
      BY DEF LoopMoves, Current
    <3>2. QED
      BY <1>1, <1>3, <2>2, <3>1 DEF DescriptorsInv, OneEach
  <2>3. ASSUME NEW i \in Jobs, NEW j \in Jobs, Live(i)', Live(j)', sock'[Fd(i)'] = sock'[Fd(j)']
        PROVE  i = j
    BY <1>3, <2>3 DEF DescriptorsInv, OneEach
  <2>4. QED
    BY <2>1, <2>2, <2>3 DEF OneEach
<1>5. Unregistered'
  BY <1>2 DEF DescriptorsInv, Unregistered, LoopMoves, Open
<1>6. ASSUME NEW g \in Fds, Hangs(g)'
      PROVE  /\ Open(g)' /\ client'[sock'[g]] = "closed"
             /\ \A j \in Jobs : Live(j)' => Fd(j)' # g
  <2>1. Hangs(g) /\ g # fd
    BY <1>6
  <2>2. sock'[g] = sock[g] /\ UNCHANGED client
    BY <1>1, <1>2, <2>1
  <2>3. QED
    BY <2>1, <2>2, <1>3 DEF DescriptorsInv, HangupsCurrent, Open
<1>7. HangupsCurrent'
  BY <1>6 DEF HangupsCurrent
<1>8. QED
  BY <1>4, <1>5, <1>7 DEF DescriptorsInv

(* An event that hangs is not the one that is done.                          *)
LEMMA HangsLeft ==
  ASSUME LoopInv, lpc # "wait", NextEvent, NEW fd, Hangs(fd)'
  PROVE  Hangs(fd) /\ fd # Current.fd /\ lpc' \notin {"add", "mod"}
<1>1. /\ lpc' \in {"wait", "event"} /\ Current = g_events[1] /\ 1 \in 1..Len(g_events)
      /\ \A k \in 1..Len(g_events') :
           k + 1 \in 1..Len(g_events) /\ k + 1 > 1 /\ g_events'[k] = g_events[k + 1]
  BY HeadDropped
<1>2. PICK k \in 1..Len(g_events') :
        g_events'[k].fd = fd /\ g_events'[k].flags \cap {"RDHUP", "HUP"} # {}
  BY DEF Hangs
<1>3. \A i, m \in 1..Len(g_events) : g_events[i].fd = g_events[m].fd => i = m
  BY DEF LoopInv
<1>4. QED
  BY <1>1, <1>2, <1>3 DEF Hangs

-------------------------------------------------------------------------------
(* The loop.                                                                 *)

LEMMA EpollWaitPolite ==
  ASSUME Assumptions, IInv, PoliteInv, EpollWait
  PROVE  PoliteInv'
<1> DEFINE events == ReadyEvents
           n == IF Len(events) < MaxEvents THEN Len(events) ELSE MaxEvents
<1>1. /\ lpc = "wait" /\ lpc' = "event" /\ g_events' = SubSeq(events, 1, n) /\ events # <<>>
      /\ UNCHANGED <<args, poolVars, client, sock, inbuf, reset, interest, sent, inbox, up>>
  BY DEF EpollWait, At
<1>2. SocketsInv /\ Listener \notin Fds
  BY Parts DEF Assumptions, SocketsAssumption
<1>3. JobsLeft /\ LoopMoves
  BY <1>1, JobsSame DEF LoopMoves
<1>4. OneEach' /\ Unregistered'
  BY <1>1, <1>3, ApartKept DEF PoliteInv, DescriptorsInv
<1>5. /\ events \in Seq(Event)
      /\ \A k \in 1..Len(events) : events[k].flags = EventsOf(events[k].fd)
      /\ \A k \in 1..Len(events) : events[k].fd # Listener => interest[events[k].fd] # {}
  BY <1>2, ReadyEventsFacts, ReadyEventsReport DEF Assumptions
<1> HIDE DEF events
<1>6. \A k \in 1..Len(g_events') : k \in 1..Len(events) /\ g_events'[k] = events[k]
  <2>1. MaxEvents \in Nat \ {0} /\ Len(events) \in Nat \ {0}
    BY <1>1, <1>5 DEF Assumptions, ServerAssumption
  <2>2. n \in 1..Len(events)
    BY <2>1
  <2> HIDE DEF n
  <2>3. QED
    BY <1>1, <1>5, <2>2
<1>7. ASSUME NEW fd \in Fds, Hangs(fd)'
      PROVE  /\ Open(fd) /\ client[sock[fd]] = "closed"
             /\ \A j \in Jobs : Live(j) => Fd(j) # fd
  <2>1. PICK k \in 1..Len(g_events') :
          g_events'[k].fd = fd /\ g_events'[k].flags \cap {"RDHUP", "HUP"} # {}
    BY <1>7 DEF Hangs
  <2>2. EventsOf(fd) \cap {"RDHUP", "HUP"} # {} /\ interest[fd] # {}
    BY <1>2, <1>5, <1>6, <2>1
  <2>3. Open(fd) /\ sock[fd] \notin reset
    BY <2>2 DEF PoliteInv, DescriptorsInv, PacketsInv, Unregistered
  <2>4. interest[fd] # AgainMask /\ client[sock[fd]] = "closed"
    BY <1>2, <2>2, <2>3 DEF EventsOf, Present, AgainMask
  <2>5. QED
    BY <1>1, <2>3, <2>4 DEF PoliteInv, DescriptorsInv, OneEach
<1>8. HangupsCurrent'
  <2>1. ASSUME NEW fd \in Fds, Hangs(fd)'
        PROVE  /\ Open(fd)' /\ client'[sock'[fd]] = "closed"
               /\ \A j \in Jobs : Live(j)' => Fd(j)' # fd
    BY <1>1, <1>3, <1>7, <2>1 DEF Open, JobsLeft
  <2>2. QED
    BY <2>1 DEF HangupsCurrent
<1>9. PacketsInv'
  BY <1>1, <1>3, NothingSent, PacketsKept DEF PoliteInv
<1>10. QED
  BY <1>4, <1>8, <1>9 DEF PoliteInv, DescriptorsInv

LEMMA LoopWaits ==
  ASSUME UNCHANGED loopVars
  PROVE  LoopMoves /\ \A fd \in Fds : Hangs(fd)' = Hangs(fd)
BY DEF LoopMoves, Hangs, loopVars

LEMMA NothingMoves ==
  ASSUME PoliteInv, UNCHANGED <<loopVars, args, poolVars, sockVars>>
  PROVE  PoliteInv'
<1>1. UNCHANGED <<client, sock, inbuf, reset, interest, sent, inbox>>
  BY DEF sockVars
<1>2. JobsLeft /\ LoopMoves /\ \A fd \in Fds : Hangs(fd)' => Hangs(fd)
  BY JobsSame, LoopWaits
<1>3. DescriptorsInv'
  BY <1>1, <1>2, DescriptorsKept DEF PoliteInv
<1>4. PacketsInv'
  BY <1>1, <1>2, NothingSent, PacketsKept DEF PoliteInv
<1>5. QED
  BY <1>3, <1>4 DEF PoliteInv

(* The loop goes on to its next event, or leaves the round.                  *)
LEMMA LoopGoesOn ==
  ASSUME IInv, PoliteInv, lpc \in {"event", "add"}, NextEvent \/ BreakLoop,
         UNCHANGED <<args, poolVars, sockVars>>
  PROVE  PoliteInv'
<1>1. JobsLeft /\ LoopInv
  BY JobsSame, Parts
<1>2. LoopMoves /\ \A fd \in Fds : Hangs(fd)' => Hangs(fd)
  <2>1. CASE NextEvent
    BY <1>1, <2>1, HeadDropped, HangsLeft DEF LoopMoves
  <2>2. CASE BreakLoop
    BY <2>2 DEF BreakLoop, LoopMoves, Hangs
  <2>3. QED
    BY <2>1, <2>2
<1>3. UNCHANGED <<client, sock, inbuf, reset, interest, sent, inbox>>
  BY DEF sockVars
<1>4. DescriptorsInv'
  BY <1>1, <1>2, <1>3, DescriptorsKept DEF PoliteInv
<1>5. PacketsInv'
  BY <1>1, <1>3, NothingSent, PacketsKept DEF PoliteInv
<1>6. QED
  BY <1>4, <1>5 DEF PoliteInv

LEMMA AcceptPolite ==
  ASSUME Assumptions, IInv, PoliteInv, AcceptConnection
  PROVE  PoliteInv'
<1>1. /\ lpc = "event" /\ Listener \notin Fds /\ SocketsInv /\ LoopInv
      /\ UNCHANGED <<args, poolVars, up>>
  BY Parts DEF AcceptConnection, At, Assumptions, SocketsAssumption
<1>2. CASE AcceptFails /\ NextEvent
  BY <1>1, <1>2, LoopGoesOn DEF AcceptFails
<1>3. ASSUME NEW fd \in Fds, Accept(fd), new_socket' = fd, lpc' = "add", UNCHANGED g_events
      PROVE  PoliteInv'
  <2> DEFINE c == Head(backlog)
  <2>1. /\ ~Open(fd) /\ sock' = [sock EXCEPT ![fd] = c]
        /\ sock \in [Fds -> Clients \cup {None}]
        /\ UNCHANGED <<client, inbuf, reset, interest, sent, inbox>>
    BY <1>1, <1>3 DEF Accept, LowestFree, SocketsInv, SocketsTypeOK
  <2> HIDE DEF c
  <2>2. /\ interest[fd] = {}
        /\ \A g \in Fds : g # fd => sock'[g] = sock[g]
        /\ \A g \in Fds : Open(g) => g # fd
    BY <2>1 DEF PoliteInv, DescriptorsInv, Unregistered
  <2>3. JobsLeft
    BY <1>1, JobsSame
  <2>4. ASSUME NEW j \in Jobs, Live(j)'
        PROVE  /\ Live(j) /\ Fd(j)' = Fd(j) /\ Packets(j)' = Packets(j)
               /\ sock'[Fd(j)] = sock[Fd(j)]
    <3>1. Live(j) /\ Fd(j)' = Fd(j) /\ Packets(j)' = Packets(j)
      BY <2>3, <2>4 DEF JobsLeft
    <3>2. Fd(j) \in Fds /\ Open(Fd(j))
      BY <3>1, LiveFacts DEF PoliteInv, DescriptorsInv
    <3>3. QED
      BY <2>2, <3>1, <3>2
  <2>5. OneEach'
    <3>1. \A d \in Clients : inbuf'[d] # <<>> =>
            \E p \in Packet : inbuf'[d] = <<p>> /\ p.from = d
      BY <2>1 DEF PoliteInv, DescriptorsInv, OneEach
    <3>2. ASSUME NEW j \in Jobs, Live(j)'
          PROVE  /\ \E p \in Packet : Packets(j)' = <<p>> /\ p.from = sock'[Fd(j)']
                 /\ inbuf'[sock'[Fd(j)']] = <<>>
                 /\ interest'[Fd(j)'] = AgainMask \/ (lpc' = "mod" /\ Current'.fd = Fd(j)')
      BY <1>1, <2>1, <2>4, <3>2 DEF PoliteInv, DescriptorsInv, OneEach
    <3>3. ASSUME NEW i \in Jobs, NEW j \in Jobs, Live(i)', Live(j)', sock'[Fd(i)'] = sock'[Fd(j)']
          PROVE  i = j
      BY <2>4, <3>3 DEF PoliteInv, DescriptorsInv, OneEach
    <3>4. QED
      BY <3>1, <3>2, <3>3 DEF OneEach
  <2>6. HangupsCurrent'
    <3>1. ASSUME NEW g \in Fds, Hangs(g)'
          PROVE  /\ Open(g)' /\ client'[sock'[g]] = "closed"
                 /\ \A j \in Jobs : Live(j)' => Fd(j)' # g
      <4>1. Hangs(g)
        BY <1>3, <3>1 DEF Hangs
      <4>2. Open(g) /\ client[sock[g]] = "closed" /\ \A j \in Jobs : Live(j) => Fd(j) # g
        BY <4>1 DEF PoliteInv, DescriptorsInv, HangupsCurrent
      <4>3. QED
        BY <2>1, <2>2, <2>4, <4>2 DEF Open
    <3>2. QED
      BY <3>1 DEF HangupsCurrent
  <2>7. Unregistered'
    BY <1>3, <2>1, <2>2 DEF PoliteInv, DescriptorsInv, Unregistered, Open
  <2>8. PacketsInv'
    BY <1>1, <2>1, <2>3, NothingSent, PacketsKept DEF PoliteInv
  <2>9. QED
    BY <2>5, <2>6, <2>7, <2>8 DEF PoliteInv, DescriptorsInv
<1>4. QED
  BY <1>2, <1>3 DEF AcceptConnection

LEMMA EventOver ==
  ASSUME LoopInv, lpc # "wait", NextEvent
  PROVE  lpc' # "add" /\ \A fd \in Fds : Hangs(fd)' => Hangs(fd)
BY HeadDropped, HangsLeft

(* The loop is done with the event at hand, and every job's descriptor has    *)
(* been modified.                                                            *)
LEMMA Rearmed ==
  ASSUME DescriptorsInv, lpc' # "add", \A fd \in Fds : Hangs(fd)' => Hangs(fd),
         UNCHANGED <<args, poolVars, client, sock, inbuf>>,
         \A j \in Jobs : Live(j) => interest'[Fd(j)] = AgainMask,
         \A fd \in Fds : ~Open(fd) => interest'[fd] = {}
  PROVE  DescriptorsInv'
<1>1. ASSUME NEW j \in Jobs, Live(j)'
      PROVE  Live(j) /\ Fd(j)' = Fd(j) /\ Packets(j)' = Packets(j)
  BY <1>1, JobsSame DEF JobsLeft
<1>2. OneEach'
  <2>1. \A d \in Clients : inbuf'[d] # <<>> =>
          \E p \in Packet : inbuf'[d] = <<p>> /\ p.from = d
    BY DEF DescriptorsInv, OneEach
  <2>2. ASSUME NEW j \in Jobs, Live(j)'
        PROVE  /\ \E p \in Packet : Packets(j)' = <<p>> /\ p.from = sock'[Fd(j)']
               /\ inbuf'[sock'[Fd(j)']] = <<>>
               /\ interest'[Fd(j)'] = AgainMask
    BY <1>1, <2>2 DEF DescriptorsInv, OneEach
  <2>3. ASSUME NEW i \in Jobs, NEW j \in Jobs, Live(i)', Live(j)', sock'[Fd(i)'] = sock'[Fd(j)']
        PROVE  i = j
    BY <1>1, <2>3 DEF DescriptorsInv, OneEach
  <2>4. QED
    BY <2>1, <2>2, <2>3 DEF OneEach
<1>3. ASSUME NEW fd \in Fds, Hangs(fd)'
      PROVE  /\ Open(fd)' /\ client'[sock'[fd]] = "closed"
             /\ \A j \in Jobs : Live(j)' => Fd(j)' # fd
  <2>1. Hangs(fd)
    BY <1>3
  <2>2. QED
    BY <1>1, <2>1 DEF DescriptorsInv, HangupsCurrent, Open
<1>4. HangupsCurrent'
  BY <1>3 DEF HangupsCurrent
<1>5. Unregistered'
  BY DEF Unregistered, Open
<1>6. QED
  BY <1>2, <1>4, <1>5 DEF DescriptorsInv

(* A descriptor is registered, as the loop's own: no job has it, or it is     *)
(* the one just received on.                                                 *)
LEMMA RegisteredAgain ==
  ASSUME Assumptions, IInv, PoliteInv,
         lpc' # "add", \A g \in Fds : Hangs(g)' => Hangs(g),
         NEW fd \in Fds, NEW mask \in {FirstMask, AgainMask}, Register(fd, mask),
         mask = FirstMask => lpc # "mod" /\ interest[fd] = {},
         lpc = "mod" => fd = Current.fd,
         UNCHANGED <<args, poolVars>>
  PROVE  PoliteInv'
<1>1. /\ interest' = [interest EXCEPT ![fd] = mask] /\ Open(fd)
      /\ interest \in [Fds -> {{}, FirstMask, AgainMask}]
      /\ UNCHANGED <<client, sock, inbuf, reset, sent, inbox>>
  BY Parts DEF Register, SocketsInv, SocketsTypeOK
<1>2. ASSUME NEW j \in Jobs, Live(j) PROVE interest'[Fd(j)] = AgainMask
  <2>1. Fd(j) \in Fds
    BY <1>2, LiveFacts DEF PoliteInv, DescriptorsInv
  <2>2. interest[Fd(j)] = AgainMask \/ (lpc = "mod" /\ fd = Fd(j))
    BY <1>2 DEF PoliteInv, DescriptorsInv, OneEach
  <2>3. CASE Fd(j) = fd
    <3>1. mask = AgainMask
      BY <2>2, <2>3 DEF AgainMask
    <3>2. QED
      BY <1>1, <2>3, <3>1
  <2>4. CASE Fd(j) # fd
    BY <1>1, <2>1, <2>2, <2>4
  <2>5. QED
    BY <2>3, <2>4
<1>3. \A g \in Fds : ~Open(g) => interest'[g] = {}
  <2>1. \A g \in Fds : ~Open(g) => g # fd /\ interest[g] = {}
    BY <1>1 DEF PoliteInv, DescriptorsInv, Unregistered
  <2>2. QED
    BY <1>1, <2>1
<1>4. DescriptorsInv'
  BY <1>1, <1>2, <1>3, Rearmed DEF PoliteInv
<1>5. PacketsInv'
  BY <1>1, JobsSame, NothingSent, PacketsKept DEF PoliteInv
<1>6. QED
  BY <1>4, <1>5 DEF PoliteInv

LEMMA AddConnectionPolite ==
  ASSUME Assumptions, IInv, PoliteInv, AddConnection
  PROVE  PoliteInv'
<1>1. /\ lpc = "add" /\ UNCHANGED <<args, poolVars>> /\ LoopInv
      /\ new_socket \in Fds /\ interest[new_socket] = {}
  BY Parts DEF AddConnection, At, LoopInv, EventAtHand, PoliteInv, DescriptorsInv, Unregistered
<1>2. CASE UNCHANGED sockVars /\ UNCHANGED loopVars
  BY <1>1, <1>2, NothingMoves
<1>3. CASE UNCHANGED sockVars /\ NextEvent
  BY <1>1, <1>3, LoopGoesOn
<1>4. CASE Register(new_socket, FirstMask)
  <2>1. lpc' # "add" /\ \A fd \in Fds : Hangs(fd)' => Hangs(fd)
    <3>1. CASE NextEvent
      BY <1>1, <3>1, EventOver
    <3>2. CASE lpc' = "locked" /\ UNCHANGED g_events
      BY <3>2 DEF Hangs
    <3>3. QED
      BY <1>4, <3>1, <3>2 DEF AddConnection, Register
  <2>2. QED
    BY <1>1, <1>4, <2>1, RegisteredAgain
<1>5. QED
  BY <1>2, <1>3, <1>4 DEF AddConnection

LEMMA ModFdPolite ==
  ASSUME Assumptions, IInv, PoliteInv, ModFd
  PROVE  PoliteInv'
<1>1. /\ lpc' # "add" /\ \A fd \in Fds : Hangs(fd)' => Hangs(fd)
      /\ lpc = "mod" /\ Current.fd \in Fds /\ Rearm(Current.fd)
      /\ UNCHANGED <<args, poolVars>>
  <2>1. /\ lpc = "mod" /\ NextEvent /\ Current.fd \in Fds /\ Rearm(Current.fd)
        /\ UNCHANGED <<args, poolVars>> /\ LoopInv
    BY Parts DEF ModFd, At, LoopInv, EventAtHand
  <2>2. QED
    BY <2>1, EventOver
<1>2. CASE ~Open(Current.fd) /\ UNCHANGED sockVars
  <2>1. UNCHANGED <<client, sock, inbuf, reset, interest, sent, inbox>>
    BY <1>2 DEF sockVars
  <2>2. ASSUME NEW j \in Jobs, Live(j) PROVE interest'[Fd(j)] = AgainMask
    <3>1. Fd(j) # Current.fd
      BY <1>2, <2>2, LiveFacts DEF PoliteInv, DescriptorsInv
    <3>2. QED
      BY <2>1, <2>2, <3>1 DEF PoliteInv, DescriptorsInv, OneEach
  <2>3. \A g \in Fds : ~Open(g) => interest'[g] = {}
    BY <2>1 DEF PoliteInv, DescriptorsInv, Unregistered
  <2>4. DescriptorsInv'
    BY <1>1, <2>1, <2>2, <2>3, Rearmed DEF PoliteInv
  <2>5. PacketsInv'
    BY <1>1, <2>1, JobsSame, NothingSent, PacketsKept DEF PoliteInv
  <2>6. QED
    BY <2>4, <2>5 DEF PoliteInv
<1>3. CASE Register(Current.fd, AgainMask)
  <2>1. AgainMask # FirstMask
    BY DEF AgainMask, FirstMask
  <2>2. QED
    BY <1>1, <1>3, <2>1, RegisteredAgain
<1>4. QED
  BY <1>1, <1>2, <1>3 DEF Rearm

(* A hangup closes the connection of a client that has left.                 *)
LEMMA HangupCurrent ==
  ASSUME IInv, PoliteInv, Hangup
  PROVE  Current.fd \in Fds /\ Hangs(Current.fd) /\ client[sock[Current.fd]] = "closed"
<1>1. /\ g_events # <<>> /\ g_events \in Seq(Event) /\ Current.fd # Listener
      /\ Current.flags \cap {"RDHUP", "HUP"} # {}
  BY Parts DEF Hangup, At, LoopInv, EventAtHand
<1>2. Current = g_events[1] /\ 1 \in 1..Len(g_events) /\ Current \in Event
  BY <1>1 DEF Current
<1>3. Current.fd \in Fds /\ Hangs(Current.fd)
  BY <1>1, <1>2 DEF Hangs, Event
<1>4. QED
  BY <1>3 DEF PoliteInv, DescriptorsInv, HangupsCurrent

LEMMA HangupPolite ==
  ASSUME Assumptions, IInv, PoliteInv, Hangup
  PROVE  PoliteInv'
<1>1. /\ lpc = "event" /\ CloseFd(Current.fd) /\ NextEvent /\ SocketsInv /\ LoopInv
      /\ UNCHANGED <<args, poolVars, up>>
  BY Parts DEF Hangup, At
<1>2. Current.fd \in Fds /\ Hangs(Current.fd)
  BY HangupCurrent
<1>3. JobsLeft
  BY <1>1, JobsSame
<1>4. ASSUME NEW i \in Jobs, Live(i)' PROVE Fd(i) \in Fds \ {Current.fd}
  <2>1. Live(i)
    BY <1>3, <1>4 DEF JobsLeft
  <2>2. Fd(i) \in Fds
    BY <2>1, LiveFacts DEF PoliteInv, DescriptorsInv
  <2>3. Fd(i) # Current.fd
    BY <1>2, <2>1 DEF PoliteInv, DescriptorsInv, HangupsCurrent
  <2>4. QED
    BY <2>2, <2>3
<1>5. LoopMoves
  BY <1>1, HeadDropped DEF LoopMoves
<1>6. \A g \in Fds : Hangs(g)' => Hangs(g) /\ g # Current.fd
  BY <1>1, HangsLeft
<1>7. DescriptorsInv'
  BY <1>1, <1>2, <1>3, <1>4, <1>5, <1>6, DescriptorClosed DEF PoliteInv
<1>8. PacketsInv'
  <2>1. UNCHANGED <<client, inbuf, reset, sent, inbox>>
    BY <1>1 DEF CloseFd
  <2>2. QED
    BY <1>1, <1>3, <2>1, NothingSent, PacketsKept DEF PoliteInv
<1>9. QED
  BY <1>7, <1>8 DEF PoliteInv

(* All that a client has sent is one packet, which fits in recv_buffer.      *)
LEMMA ReceivedAll ==
  ASSUME Assumptions, SocketsInv, OneEach, NEW fd \in Fds, Receive(fd, RecvMax)
  PROVE  /\ sock[fd] \in Clients /\ inbuf[sock[fd]] # <<>>
         /\ \E p \in Packet : /\ inbuf[sock[fd]] = <<p>> /\ p.from = sock[fd]
                              /\ Received(fd, RecvMax) = <<p>>
         /\ inbuf' = [inbuf EXCEPT ![sock[fd]] = <<>>]
<1> DEFINE c == sock[fd]
<1>1. /\ c \in Clients /\ inbuf[c] # <<>>
      /\ inbuf' = [inbuf EXCEPT ![c] = SubSeq(@, RecvMax + 1, Len(@))]
  BY DEF Receive, HasData, Open, SocketsInv, SocketsTypeOK
<1>2. PICK p \in Packet : inbuf[c] = <<p>> /\ p.from = c
  BY <1>1 DEF OneEach
<1>3. RecvMax \in {1, 2}
  BY DEF Assumptions, ServerAssumption
<1>4. Received(fd, RecvMax) = <<p>>
  <2>1. Received(fd, RecvMax) = SubSeq(<<p>>, 1, 1)
    BY <1>2, <1>3 DEF Received
  <2>2. SubSeq(<<p>>, 1, 1) = <<p>>
    <3> DEFINE t == SubSeq(<<p>>, 1, 1)
    <3>1. t \in Seq({p}) /\ Len(t) = 1
      OBVIOUS
    <3> HIDE DEF t
    <3>2. t[1] = p
      BY <3>1
    <3>3. t = <<p>>
      BY <3>1, <3>2
    <3>4. QED
      BY <3>3 DEF t
  <2>3. QED
    BY <2>1, <2>2
<1>5. SubSeq(inbuf[c], RecvMax + 1, Len(inbuf[c])) = <<>>
  <2>1. SubSeq(<<p>>, RecvMax + 1, 1) = <<>>
    BY <1>3
  <2>2. QED
    BY <1>2, <2>1
<1>6. QED
  BY <1>1, <1>2, <1>4, <1>5

LEMMA RecvDataPolite ==
  ASSUME Assumptions, IInv, PoliteInv, RecvData
  PROVE  PoliteInv'
<1> DEFINE fd == Current.fd
           c == sock[fd]
           packets == Received(fd, RecvMax)
<1>1. /\ lpc = "event" /\ lpc' = "mod" /\ UNCHANGED <<g_events, new_socket, up>>
      /\ Receive(fd, RecvMax) /\ fd # Listener /\ Current.flags \cap {"RDHUP", "HUP"} = {}
      /\ \E j \in Jobs : Submit(j, fd, packets)
      /\ SocketsInv /\ LoopInv /\ JobsInv
  BY Parts DEF RecvData, Readable, At
<1>2. PICK j \in Jobs : Submit(j, fd, packets)
  BY <1>1
<1>3. /\ g_events \in Seq(Event) /\ Current = g_events[1] /\ 1 \in 1..Len(g_events)
      /\ \A i, k \in 1..Len(g_events) : g_events[i].fd = g_events[k].fd => i = k
  BY <1>1 DEF LoopInv, EventAtHand, Current
<1>4. fd \in Fds /\ ~Hangs(fd) /\ Current' = Current
  <2>1. Current \in Event
    BY <1>3
  <2>2. QED
    BY <1>1, <1>3, <2>1 DEF Event, Hangs, Current
<1>5. /\ UNCHANGED <<client, sock, reset, interest, sent, inbox>> /\ Open(fd)
      /\ inbuf \in [Clients -> Seq(Packet)]
  BY <1>1 DEF Receive, HasData, SocketsInv, SocketsTypeOK
<1>6. /\ c \in Clients /\ inbuf[c] # <<>> /\ inbuf' = [inbuf EXCEPT ![c] = <<>>]
      /\ \E p \in Packet : inbuf[c] = <<p>> /\ p.from = c /\ packets = <<p>>
  BY <1>1, <1>4, ReceivedAll DEF PoliteInv, DescriptorsInv
<1> HIDE DEF fd, packets
<1>7. PICK p \in Packet : inbuf[c] = <<p>> /\ p.from = c /\ packets = <<p>>
  BY <1>6
<1>8. Fd(j)' = fd /\ Packets(j)' = packets
  BY <1>1, <1>2, SubmitAdds
<1>9. ASSUME NEW i \in Jobs, i # j, Live(i)'
      PROVE  /\ Live(i) /\ Fd(i)' = Fd(i) /\ Packets(i)' = Packets(i)
             /\ sock[Fd(i)] \in Clients \ {c} /\ Fd(i) # fd
  <2>1. Live(i) /\ Fd(i)' = Fd(i) /\ Packets(i)' = Packets(i)
    BY <1>1, <1>2, <1>9, SubmitAdds
  <2>2. inbuf[sock[Fd(i)]] = <<>>
    BY <2>1 DEF PoliteInv, DescriptorsInv, OneEach
  <2>3. sock[Fd(i)] \in Clients
    BY <2>1, LiveFacts DEF PoliteInv, DescriptorsInv
  <2>4. QED
    BY <1>6, <2>1, <2>2, <2>3
<1> HIDE DEF c
<1>10. inbuf'[c] = <<>> /\ \A d \in Clients \ {c} : inbuf'[d] = inbuf[d]
  BY <1>5, <1>6
<1>11. OneEach'
  <2>1. ASSUME NEW d \in Clients, inbuf'[d] # <<>>
        PROVE  \E q \in Packet : inbuf'[d] = <<q>> /\ q.from = d
    BY <1>10, <2>1 DEF PoliteInv, DescriptorsInv, OneEach
  <2>2. ASSUME NEW i \in Jobs, Live(i)'
        PROVE  /\ \E q \in Packet : Packets(i)' = <<q>> /\ q.from = sock'[Fd(i)']
               /\ inbuf'[sock'[Fd(i)']] = <<>>
               /\ interest'[Fd(i)'] = AgainMask \/ (lpc' = "mod" /\ Current'.fd = Fd(i)')
    <3>1. CASE i = j
      BY <1>1, <1>4, <1>5, <1>7, <1>8, <1>10, <3>1 DEF c, fd
    <3>2. CASE i # j
      <4>1. /\ \E q \in Packet : Packets(i)' = <<q>> /\ q.from = sock'[Fd(i)']
            /\ inbuf'[sock'[Fd(i)']] = <<>>
        BY <1>5, <1>9, <1>10, <2>2, <3>2 DEF PoliteInv, DescriptorsInv, OneEach
      <4>2. interest'[Fd(i)'] = AgainMask
        BY <1>1, <1>5, <1>9, <2>2, <3>2 DEF PoliteInv, DescriptorsInv, OneEach
      <4>3. QED
        BY <4>1, <4>2
    <3>3. QED
      BY <3>1, <3>2
  <2>3. ASSUME NEW i \in Jobs, NEW k \in Jobs, Live(i)', Live(k)', sock'[Fd(i)'] = sock'[Fd(k)']
        PROVE  i = k
    <3>1. ASSUME NEW m \in Jobs, m # j, Live(m)' PROVE sock'[Fd(m)'] # sock'[Fd(j)']
      BY <1>5, <1>8, <1>9, <3>1 DEF c
    <3>2. CASE i = j \/ k = j
      BY <2>3, <3>1, <3>2
    <3>3. CASE i # j /\ k # j
      <4>1. /\ Live(i) /\ Live(k) /\ Fd(i)' = Fd(i) /\ Fd(k)' = Fd(k)
        BY <1>9, <2>3, <3>3
      <4>2. QED
        BY <1>5, <2>3, <4>1 DEF PoliteInv, DescriptorsInv, OneEach
    <3>4. QED
      BY <3>2, <3>3
  <2>4. QED
    BY <2>1, <2>2, <2>3 DEF OneEach
<1>12. HangupsCurrent'
  <2>1. ASSUME NEW g \in Fds, Hangs(g)'
        PROVE  /\ Open(g)' /\ client'[sock'[g]] = "closed"
               /\ \A i \in Jobs : Live(i)' => Fd(i)' # g
    <3>1. Hangs(g) /\ g # fd
      <4>1. Hangs(g)
        BY <1>1, <2>1 DEF Hangs
      <4>2. QED
        BY <1>4, <4>1 DEF fd
    <3>2. Open(g) /\ client[sock[g]] = "closed" /\ \A i \in Jobs : Live(i) => Fd(i) # g
      BY <3>1 DEF PoliteInv, DescriptorsInv, HangupsCurrent
    <3>3. \A i \in Jobs : Live(i)' => Fd(i)' # g
      BY <1>8, <1>9, <3>1, <3>2
    <3>4. QED
      BY <1>5, <3>2, <3>3 DEF Open
  <2>2. QED
    BY <2>1 DEF HangupsCurrent
<1>13. Unregistered'
  BY <1>1, <1>5 DEF PoliteInv, DescriptorsInv, Unregistered, Open
<1>14. PacketsInv'
  <2>1. ASSUME NEW q \in Packet, OnItsWay(q)' PROVE OnItsWay(q)
    <3>1. CASE inbuf'[q.from] = <<q>>
      <4>1. q.from # c /\ q.from \in Clients
        BY <1>10, <3>1, PacketFrom
      <4>2. QED
        BY <1>10, <3>1, <4>1 DEF OnItsWay
    <3>2. ASSUME NEW i \in Jobs, Live(i)', Packets(i)' = <<q>> PROVE OnItsWay(q)
      <4>1. CASE i = j
        <5>1. q = p
          BY <1>7, <1>8, <3>2, <4>1
        <5>2. QED
          BY <1>7, <5>1 DEF OnItsWay
      <4>2. CASE i # j
        BY <1>9, <3>2, <4>2 DEF OnItsWay
      <4>3. QED
        BY <4>1, <4>2
    <3>3. QED
      BY <2>1, <3>1, <3>2 DEF OnItsWay
  <2>2. QED
    BY <1>1, <1>5, <2>1, PacketsKept DEF PoliteInv
<1>15. QED
  BY <1>11, <1>12, <1>13, <1>14 DEF PoliteInv, DescriptorsInv

LEMMA LoopPolite ==
  ASSUME Assumptions, IInv, PoliteInv, LoopStep
  PROVE  PoliteInv'
<1>1. CASE EpollTimeout
  <2>1. /\ JobsLeft /\ LoopMoves /\ UNCHANGED <<client, sock, inbuf, reset, interest, sent, inbox, up>>
        /\ \A fd \in Fds : Hangs(fd)' => Hangs(fd)
    BY <1>1, JobsSame DEF EpollTimeout, serverVars, sockVars, loopVars, LoopMoves, Hangs
  <2>2. QED
    BY <2>1, DescriptorsKept, NothingSent, PacketsKept DEF PoliteInv
<1>2. CASE RecvNothing
  BY <1>2, LoopGoesOn DEF RecvNothing, Readable, At
<1>3. CASE SkipEvent
  BY <1>3, LoopGoesOn DEF SkipEvent, At
<1>4. QED
  BY <1>1, <1>2, <1>3, EpollWaitPolite, AcceptPolite, AddConnectionPolite, HangupPolite,
     RecvDataPolite, ModFdPolite DEF LoopStep

-------------------------------------------------------------------------------
(* The workers.                                                              *)

LEMMA StartPolite ==
  ASSUME IInv, PoliteInv, StartJob
  PROVE  PoliteInv'
<1>1. JobsLeft
  BY StartSame, Parts DEF JobsLeft
<1>2. /\ UNCHANGED <<client, sock, inbuf, reset, interest, sent, inbox, up>>
      /\ LoopMoves /\ \A fd \in Fds : Hangs(fd)' = Hangs(fd)
  BY LoopWaits DEF StartJob, sockVars
<1>3. DescriptorsInv'
  BY <1>1, <1>2, DescriptorsKept DEF PoliteInv
<1>4. PacketsInv'
  BY <1>1, <1>2, NothingSent, PacketsKept DEF PoliteInv
<1>5. QED
  BY <1>3, <1>4 DEF PoliteInv

(* A job ends, without a reply.                                              *)
LEMMA EndingPolite ==
  ASSUME IInv, PoliteInv, NEW j \in Jobs, EndJob(j), UNCHANGED <<loopVars, sockVars>>
  PROVE  PoliteInv'
<1>1. JobsLeft
  BY EndJobLeaves, Parts DEF JobsLeft
<1>2. UNCHANGED <<client, sock, inbuf, reset, interest, sent, inbox>>
  BY DEF sockVars
<1>3. DescriptorsInv'
  BY <1>1, <1>2, LoopWaits, DescriptorsKept DEF PoliteInv
<1>4. PacketsInv'
  BY <1>1, <1>2, NothingSent, PacketsKept DEF PoliteInv
<1>5. QED
  BY <1>3, <1>4 DEF PoliteInv

(* A job ends and its connection is closed.                                  *)
LEMMA ClosingPolite ==
  ASSUME Assumptions, IInv, PoliteInv, NEW j \in Jobs, Live(j),
         CloseFd(Fd(j)), EndJob(j), UNCHANGED loopVars
  PROVE  PoliteInv'
<1>1. JobsInv /\ SocketsInv /\ LoopInv /\ OneEach
  BY Parts DEF PoliteInv, DescriptorsInv
<1>2. JobsLeft
  BY <1>1, EndJobLeaves DEF JobsLeft
<1>3. ASSUME NEW i \in Jobs, Live(i)' PROVE Fd(i) \in Fds \ {Fd(j)}
  <2>1. Live(i) /\ i # j
    BY <1>1, <1>3, EndJobLeaves
  <2>2. Fd(i) \in Fds
    BY <1>1, <2>1, LiveFacts
  <2>3. Fd(i) # Fd(j)
    BY <1>1, <2>1 DEF OneEach
  <2>4. QED
    BY <2>2, <2>3
<1>4. LoopMoves /\ \A g \in Fds : Hangs(g)' => Hangs(g) /\ g # Fd(j)
  BY LoopWaits DEF PoliteInv, DescriptorsInv, HangupsCurrent
<1>5. lpc = "add" => new_socket \in Fds
  BY <1>1 DEF LoopInv, EventAtHand
<1>6. Fd(j) \in Fds
  BY <1>1, LiveFacts
<1>7. DescriptorsInv'
  BY <1>1, <1>2, <1>3, <1>4, <1>5, <1>6, DescriptorClosed DEF PoliteInv
<1>8. UNCHANGED <<client, inbuf, reset, sent, inbox>>
  BY DEF CloseFd
<1>9. PacketsInv'
  BY <1>2, <1>8, NothingSent, PacketsKept DEF PoliteInv
<1>10. QED
  BY <1>7, <1>9 DEF PoliteInv

(* The one request of the client on its way is answered: nothing else of it  *)
(* is.                                                                       *)
LEMMA ReplyPolite ==
  ASSUME Assumptions, IInv, PoliteInv, NEW j \in Jobs, Live(j), NEW p \in Packet,
         Packets(j) = <<p>>, p.from = sock[Fd(j)],
         inbox' = [inbox EXCEPT ![p.from] = Append(@, p)],
         UNCHANGED <<client, sock, inbuf, reset, interest, sent>>,
         p.kind = "request", EndJob(j), UNCHANGED loopVars
  PROVE  PoliteInv'
<1> DEFINE c == p.from
<1>1. JobsInv /\ SocketsInv /\ OneEach
  BY Parts DEF PoliteInv, DescriptorsInv
<1>2. JobsLeft
  BY <1>1, EndJobLeaves DEF JobsLeft
<1>3. DescriptorsInv'
  BY <1>2, LoopWaits, DescriptorsKept DEF PoliteInv
<1>4. /\ c \in Clients /\ inbox \in [Clients -> Seq(Packet)] /\ inbox[c] \in Seq(Packet)
      /\ inbuf[c] = <<>>
  <2>1. c \in Clients
    BY PacketFrom
  <2>2. inbox \in [Clients -> Seq(Packet)]
    BY <1>1 DEF SocketsInv, SocketsTypeOK
  <2>3. inbuf[c] = <<>>
    BY <1>1 DEF OneEach
  <2>4. QED
    BY <2>1, <2>2, <2>3
<1>5. /\ Len(inbox[c]) < Len(Requests(c)) /\ Requests(c)[Len(inbox[c]) + 1] = p
      /\ OnItsWay(p)
  <2>1. OnItsWay(p)
    BY DEF OnItsWay
  <2>2. QED
    BY <2>1 DEF PoliteInv, PacketsInv, Answering
<1>6. ASSUME NEW q \in Packet, OnItsWay(q)' PROVE OnItsWay(q) /\ q.from # c
  <2>1. OnItsWay(q)
    BY <1>2, <1>6, NothingSent
  <2>2. ASSUME inbuf[q.from] = <<q>> PROVE q.from # c
    <3>1. <<q>> # <<>>
      OBVIOUS
    <3>2. QED
      BY <1>4, <2>2, <3>1
  <2>3. ASSUME NEW i \in Jobs, Live(i)', Packets(i)' = <<q>> PROVE q.from # c
    <3>1. Live(i) /\ i # j /\ Packets(i) = <<q>>
      BY <1>1, <2>3, EndJobLeaves
    <3>2. q.from = sock[Fd(i)] /\ sock[Fd(i)] # sock[Fd(j)]
      BY <1>1, <3>1 DEF OneEach
    <3>3. QED
      BY <3>2
  <2>4. inbuf'[q.from] = <<q>> \/ \E i \in Jobs : Live(i)' /\ Packets(i)' = <<q>>
    BY <1>6 DEF OnItsWay
  <2>5. q.from # c
    BY <2>2, <2>3, <2>4
  <2>6. QED
    BY <2>1, <2>5
<1>7. \A d : Requests(d)' = Requests(d)
  BY DEF Requests
<1>8. /\ inbox'[c] = Append(inbox[c], p)
      /\ \A d \in Clients \ {c} : inbox'[d] = inbox[d]
  BY <1>4
<1> HIDE DEF c
<1>9. Answering'
  <2>1. ASSUME NEW q \in Packet, OnItsWay(q)'
        PROVE  /\ q.kind = "request" =>
                    /\ client'[q.from] = "connected"
                    /\ Len(inbox'[q.from]) < Len(Requests(q.from)')
                    /\ Requests(q.from)'[Len(inbox'[q.from]) + 1] = q
               /\ q.kind # "request" => Requests(q.from)' # sent'[q.from]
    <3>1. OnItsWay(q) /\ q.from \in Clients \ {c}
      BY <1>6, <2>1 DEF Packet
    <3>2. QED
      BY <1>7, <1>8, <3>1 DEF PoliteInv, PacketsInv, Answering
  <2>2. QED
    BY <2>1 DEF Answering
<1>10. RepliesFaithful'
  <2>1. ASSUME NEW d \in Clients
        PROVE  /\ Len(inbox'[d]) <= Len(Requests(d))
               /\ \A i \in 1..Len(inbox'[d]) : inbox'[d][i] = Requests(d)[i]
    <3>1. /\ Len(inbox[d]) <= Len(Requests(d))
          /\ \A i \in 1..Len(inbox[d]) : inbox[d][i] = Requests(d)[i]
      BY DEF PoliteInv, PacketsInv, RepliesFaithful
    <3>2. CASE d # c
      BY <1>8, <3>1, <3>2
    <3>3. CASE d = c
      <4> DEFINE n == Len(inbox[c])
      <4>1. /\ n \in Nat /\ Len(inbox'[c]) = n + 1 /\ inbox'[c][n + 1] = p
            /\ \A i \in 1..n : inbox'[c][i] = inbox[c][i]
        BY <1>4, <1>8
      <4>2. sent[c] \in Seq(Packet)
        BY <1>1, <1>4 DEF SocketsInv, SocketsTypeOK
      <4>3. Requests(c) \in Seq(Packet)
        BY <4>2, KeepFacts DEF Requests
      <4>4. Len(Requests(c)) \in Nat /\ n < Len(Requests(c)) /\ Requests(c)[n + 1] = p
        BY <1>5, <4>3 DEF c
      <4> HIDE DEF n
      <4>5. \A i \in 1..n + 1 : i \in 1..n \/ i = n + 1
        BY <4>1
      <4>6. \A i \in 1..n + 1 : inbox'[c][i] = Requests(c)[i]
        BY <3>1, <3>3, <4>1, <4>4, <4>5 DEF n
      <4>7. QED
        BY <3>3, <4>1, <4>4, <4>6
    <3>4. QED
      BY <3>2, <3>3
  <2>2. QED
    BY <1>7, <2>1 DEF RepliesFaithful
<1>11. PacketsInv'
  BY <1>9, <1>10 DEF PoliteInv, PacketsInv
<1>12. QED
  BY <1>3, <1>11 DEF PoliteInv

LEMMA WorkersPolite ==
  ASSUME Assumptions, Polite, IInv, PoliteInv, WorkerStep
  PROVE  PoliteInv'
<1>1. ASSUME NEW j \in Jobs, ParsePacket(j) PROVE PoliteInv'
  <2>1. Live(j) /\ OneEach
    BY <1>1 DEF ParsePacket, NotSSP, ReplyPacket, DisConn, ShortPacket, Parses, Live,
                PoliteInv, DescriptorsInv
  <2>2. /\ Fd(j) \in Fds /\ Open(Fd(j)) /\ sock[Fd(j)] \in Clients
        /\ Len(Packets(j)) = 1 /\ Packets(j) = <<Head(Packets(j))>>
        /\ Head(Packets(j)) \in Packet /\ Head(Packets(j)).from = sock[Fd(j)]
    BY <2>1, LiveFacts
  <2>3. /\ Kind(j) = "short" => TooShort(j)
        /\ Uninitialized => Kind(j) = "request"
    BY <2>2 DEF Polite, TooShort, Kind, Packet
  <2>4. Remaining(j) => EndJob(j)
    BY <2>2 DEF Remaining
  <2>5. CASE NotSSP(j)
    BY <2>1, <2>5, EndingPolite DEF NotSSP
  <2>6. CASE DisConn(j) \/ ShortPacket(j)
    <3>1. ~Uninitialized
      BY <2>3, <2>6 DEF DisConn, ShortPacket, TooShort
    <3>2. CloseFd(Fd(j)) /\ EndJob(j) /\ UNCHANGED loopVars
      BY <2>4, <2>6, <3>1 DEF DisConn, ShortPacket
    <3>3. QED
      BY <2>1, <3>2, ClosingPolite
  <2>7. CASE ReplyPacket(j)
    <3> DEFINE p == Head(Packets(j))
    <3>1. p \in Packet /\ Packets(j) = <<p>> /\ p.from = sock[Fd(j)] /\ p.kind = "request"
      BY <2>2, <2>7 DEF ReplyPacket, Kind
    <3>2. reset = {} /\ client[sock[Fd(j)]] = "connected"
      <4>1. OnItsWay(p)
        BY <2>1, <3>1 DEF OnItsWay
      <4>2. QED
        BY <3>1, <4>1 DEF PoliteInv, PacketsInv, Answering
    <3>3. Reply(Fd(j), p) /\ Remaining(j) /\ UNCHANGED loopVars
      BY <2>7, <3>2 DEF ReplyPacket, BrokenPipe
    <3> HIDE DEF p
    <3>4. /\ inbox' = [inbox EXCEPT ![p.from] = Append(@, p)]
          /\ UNCHANGED <<client, sock, inbuf, reset, interest, sent>>
      BY <2>2, <3>1, <3>2, <3>3 DEF Reply
    <3>5. QED
      BY <2>1, <2>4, <3>1, <3>3, <3>4, ReplyPolite
  <2>8. QED
    BY <1>1, <2>5, <2>6, <2>7 DEF ParsePacket
<1>2. QED
  BY <1>1, StartPolite DEF WorkerStep

-------------------------------------------------------------------------------
(* The clients.                                                              *)

LEMMA ConnectPolite ==
  ASSUME IInv, PoliteInv, Alone, NEW c \in Clients, Connect(c)
  PROVE  PoliteInv'
<1>1. /\ client[c] = "away" /\ client' = [client EXCEPT ![c] = "connected"]
      /\ client \in [Clients -> {"away", "connected", "closed"}]
      /\ UNCHANGED <<sock, inbuf, reset, interest, sent, inbox, up>>
  BY Parts DEF Connect, Alone, SocketsInv, SocketsTypeOK
<1>2. JobsLeft /\ LoopMoves /\ \A fd \in Fds : Hangs(fd)' = Hangs(fd)
  BY JobsSame, LoopWaits DEF Alone
<1>3. \A d : client[d] = "closed" => client'[d] = "closed"
  BY <1>1
<1>4. \A p \in Packet : client[p.from] = "connected" => client'[p.from] = "connected"
  BY <1>1
<1>5. DescriptorsInv'
  BY <1>1, <1>2, <1>3, DescriptorsKept DEF PoliteInv
<1>6. PacketsInv'
  BY <1>1, <1>2, <1>4, NothingSent, PacketsKept DEF PoliteInv
<1>7. QED
  BY <1>5, <1>6 DEF PoliteInv

(* A client that has its reply has no request on its way, and none that      *)
(* may send has any packet.                                                  *)
LEMMA NoneOnItsWay ==
  ASSUME SocketsInv, PacketsInv, NEW c \in Clients, Answered(c)
  PROVE  /\ \A p \in Packet : OnItsWay(p) /\ p.from = c => p.kind # "request"
         /\ Requests(c) = sent[c] => \A p \in Packet : OnItsWay(p) => p.from # c
<1>1. Len(inbox[c]) \in Nat /\ Len(Requests(c)) \in Nat
  <2>1. inbox[c] \in Seq(Packet) /\ sent[c] \in Seq(Packet)
    BY DEF SocketsInv, SocketsTypeOK
  <2>2. Requests(c) \in Seq(Packet)
    BY <2>1, KeepFacts DEF Requests
  <2>3. QED
    BY <2>1, <2>2
<1>2. \A p \in Packet : OnItsWay(p) /\ p.from = c => p.kind # "request"
  BY <1>1 DEF PacketsInv, Answering, Answered
<1>3. QED
  BY <1>2 DEF PacketsInv, Answering

LEMMA ClosePolite ==
  ASSUME Polite, IInv, PoliteInv, Alone, NEW c \in Clients, ClientClose(c)
  PROVE  PoliteInv'
<1>1. /\ client' = [client EXCEPT ![c] = "closed"] /\ Answered(c) /\ SocketsInv
      /\ client \in [Clients -> {"away", "connected", "closed"}]
      /\ UNCHANGED <<sock, inbuf, reset, interest, sent, inbox, up>>
  BY Parts DEF ClientClose, Alone, Polite, SocketsInv, SocketsTypeOK
<1>2. JobsLeft /\ LoopMoves /\ \A fd \in Fds : Hangs(fd)' = Hangs(fd)
  BY JobsSame, LoopWaits DEF Alone
<1>3. \A d : client[d] = "closed" => client'[d] = "closed"
  BY <1>1
<1>4. \A p \in Packet : OnItsWay(p) /\ p.kind = "request" /\ client[p.from] = "connected"
        => client'[p.from] = "connected"
  BY <1>1, NoneOnItsWay DEF PoliteInv
<1>5. DescriptorsInv'
  BY <1>1, <1>2, <1>3, DescriptorsKept DEF PoliteInv
<1>6. PacketsInv'
  BY <1>1, <1>2, <1>4, NothingSent, PacketsKept DEF PoliteInv
<1>7. QED
  BY <1>5, <1>6 DEF PoliteInv

(* What a client sends is its only packet on its way.                        *)
LEMMA SendPolite ==
  ASSUME Assumptions, Polite, IInv, PoliteInv, Alone,
         NEW c \in Clients, NEW kind \in Kinds, ClientSend(c, kind)
  PROVE  PoliteInv'
<1> DEFINE p == [kind |-> kind, from |-> c, n |-> Len(sent[c]) + 1]
<1>1. /\ client[c] = "connected" /\ Answered(c) /\ Requests(c) = sent[c]
      /\ sent' = [sent EXCEPT ![c] = Append(@, p)]
      /\ inbuf' = [inbuf EXCEPT ![c] = Append(@, p)]
      /\ sent \in [Clients -> Seq(Packet)] /\ inbuf \in [Clients -> Seq(Packet)]
      /\ sent[c] \in Seq(Packet) /\ inbox[c] \in Seq(Packet) /\ SocketsInv
      /\ UNCHANGED <<client, sock, reset, interest, inbox, up>>
  BY Parts DEF ClientSend, Alone, Polite, SocketsInv, SocketsTypeOK
<1>2. p \in Packet /\ p.from = c /\ (p \in Request <=> p.kind = "request")
  <2>1. Len(sent[c]) \in Nat /\ Len(sent[c]) < MaxPackets /\ MaxPackets \in Nat
    BY <1>1 DEF ClientSend, Assumptions, SocketsAssumption
  <2>2. Len(sent[c]) + 1 \in 1..MaxPackets
    BY <2>1
  <2>3. QED
    BY <2>2 DEF Packet, Request
<1> HIDE DEF p
<1>3. JobsLeft /\ LoopMoves /\ (\A fd \in Fds : Hangs(fd)' = Hangs(fd)) /\ UNCHANGED loopVars
  BY JobsSame, LoopWaits DEF Alone
<1>4. \A q \in Packet : OnItsWay(q) => q.from # c
  BY <1>1, NoneOnItsWay DEF PoliteInv
<1>5. inbuf[c] = <<>>
  <2>1. inbuf[c] # <<>> => \E q \in Packet : inbuf[c] = <<q>> /\ q.from = c
    BY DEF PoliteInv, DescriptorsInv, OneEach
  <2>2. QED
    BY <1>4, <2>1 DEF OnItsWay
<1>6. inbuf'[c] = <<p>> /\ \A d \in Clients \ {c} : inbuf'[d] = inbuf[d]
  BY <1>1, <1>5
<1>7. ASSUME NEW j \in Jobs, Live(j)'
      PROVE  /\ Live(j) /\ Fd(j)' = Fd(j) /\ Packets(j)' = Packets(j)
             /\ sock[Fd(j)] \in Clients \ {c}
  <2>1. Live(j) /\ Fd(j)' = Fd(j) /\ Packets(j)' = Packets(j)
    BY <1>3, <1>7 DEF JobsLeft
  <2>2. sock[Fd(j)] \in Clients /\ \E q \in Packet : Packets(j) = <<q>> /\ q.from = sock[Fd(j)]
    BY <2>1, LiveFacts DEF PoliteInv, DescriptorsInv, OneEach
  <2>3. QED
    BY <1>4, <2>1, <2>2 DEF OnItsWay
<1>8. DescriptorsInv'
  <2>1. ASSUME NEW d \in Clients, inbuf'[d] # <<>>
        PROVE  \E q \in Packet : inbuf'[d] = <<q>> /\ q.from = d
    <3>1. CASE d = c
      BY <1>2, <1>6, <3>1
    <3>2. CASE d # c
      BY <1>6, <2>1, <3>2 DEF PoliteInv, DescriptorsInv, OneEach
    <3>3. QED
      BY <3>1, <3>2
  <2>2. ASSUME NEW j \in Jobs, Live(j)'
        PROVE  /\ \E q \in Packet : Packets(j)' = <<q>> /\ q.from = sock'[Fd(j)']
               /\ inbuf'[sock'[Fd(j)']] = <<>>
               /\ interest'[Fd(j)'] = AgainMask \/ (lpc' = "mod" /\ Current'.fd = Fd(j)')
    <3>1. Current' = Current /\ lpc' = lpc
      BY <1>3 DEF Current, loopVars
    <3>2. QED
      BY <1>1, <1>6, <1>7, <2>2, <3>1 DEF PoliteInv, DescriptorsInv, OneEach
  <2>3. ASSUME NEW i \in Jobs, NEW j \in Jobs, Live(i)', Live(j)', sock'[Fd(i)'] = sock'[Fd(j)']
        PROVE  i = j
    BY <1>1, <1>7, <2>3 DEF PoliteInv, DescriptorsInv, OneEach
  <2>4. OneEach'
    BY <2>1, <2>2, <2>3 DEF OneEach
  <2>5. ASSUME NEW fd \in Fds, Hangs(fd)'
        PROVE  /\ Open(fd)' /\ client'[sock'[fd]] = "closed"
               /\ \A j \in Jobs : Live(j)' => Fd(j)' # fd
    BY <1>1, <1>3, <1>7, <2>5 DEF PoliteInv, DescriptorsInv, HangupsCurrent, Open
  <2>6. HangupsCurrent'
    BY <2>5 DEF HangupsCurrent
  <2>7. Unregistered'
    BY <1>1, <1>3 DEF PoliteInv, DescriptorsInv, Unregistered, Open, loopVars
  <2>8. QED
    BY <2>4, <2>6, <2>7 DEF DescriptorsInv
<1>9. /\ Requests(c)' = IF p.kind = "request" THEN Append(sent[c], p) ELSE sent[c]
      /\ sent'[c] = Append(sent[c], p)
      /\ \A d \in Clients \ {c} : Requests(d)' = Requests(d) /\ sent'[d] = sent[d]
  <2>1. sent'[c] = Append(sent[c], p) /\ \A d \in Clients \ {c} : sent'[d] = sent[d]
    BY <1>1
  <2>2. Keep(Append(sent[c], p), Request) =
          IF p \in Request THEN Append(Keep(sent[c], Request), p) ELSE Keep(sent[c], Request)
    BY <1>1, <1>2, KeepAppend
  <2>3. QED
    BY <1>1, <1>2, <2>1, <2>2 DEF Requests
<1>10. Len(inbox[c]) = Len(sent[c]) /\ Len(sent[c]) \in Nat
  <2>1. Len(inbox[c]) >= Len(sent[c]) /\ Len(inbox[c]) <= Len(sent[c])
    BY <1>1 DEF Answered, PoliteInv, PacketsInv, RepliesFaithful
  <2>2. QED
    BY <1>1, <2>1
<1>11. /\ Append(sent[c], p)[Len(sent[c]) + 1] = p /\ Append(sent[c], p) # sent[c]
       /\ Len(Append(sent[c], p)) = Len(sent[c]) + 1
       /\ \A i \in 1..Len(sent[c]) : Append(sent[c], p)[i] = sent[c][i]
  BY <1>1, <1>2
<1>12. Answering'
  <2>1. ASSUME NEW q \in Packet, OnItsWay(q)'
        PROVE  /\ q.kind = "request" =>
                    /\ client'[q.from] = "connected"
                    /\ Len(inbox'[q.from]) < Len(Requests(q.from)')
                    /\ Requests(q.from)'[Len(inbox'[q.from]) + 1] = q
               /\ q.kind # "request" => Requests(q.from)' # sent'[q.from]
    <3>1. CASE q.from = c
      <4>1. q = p
        <5>1. ASSUME NEW j \in Jobs, Live(j)', Packets(j)' = <<q>> PROVE FALSE
          <6>1. OnItsWay(q)
            BY <1>7, <5>1 DEF OnItsWay
          <6>2. QED
            BY <1>4, <3>1, <6>1
        <5>2. inbuf'[q.from] = <<q>>
          BY <2>1, <5>1 DEF OnItsWay
        <5>3. <<q>> = <<p>>
          BY <1>6, <3>1, <5>2
        <5>4. QED
          BY <5>3
      <4>2. CASE p.kind = "request"
        BY <1>1, <1>9, <1>10, <1>11, <3>1, <4>1, <4>2
      <4>3. CASE p.kind # "request"
        BY <1>9, <1>11, <3>1, <4>1, <4>3
      <4>4. QED
        BY <4>2, <4>3
    <3>2. CASE q.from # c
      <4>1. q.from \in Clients \ {c}
        BY <3>2 DEF Packet
      <4>2. OnItsWay(q)
        BY <1>6, <1>7, <2>1, <4>1 DEF OnItsWay
      <4>3. QED
        BY <1>1, <1>9, <4>1, <4>2 DEF PoliteInv, PacketsInv, Answering
    <3>3. QED
      BY <3>1, <3>2
  <2>2. QED
    BY <2>1 DEF Answering
<1>13. RepliesFaithful'
  <2>1. ASSUME NEW d \in Clients
        PROVE  /\ Len(inbox[d]) <= Len(Requests(d)')
               /\ \A i \in 1..Len(inbox[d]) : inbox[d][i] = Requests(d)'[i]
    <3>1. /\ Len(inbox[d]) <= Len(Requests(d))
          /\ \A i \in 1..Len(inbox[d]) : inbox[d][i] = Requests(d)[i]
      BY DEF PoliteInv, PacketsInv, RepliesFaithful
    <3>2. CASE d # c
      BY <1>9, <3>1, <3>2
    <3>3. CASE d = c
      <4>1. \A i \in 1..Len(sent[c]) : inbox[c][i] = sent[c][i]
        BY <1>1, <1>10, <3>1, <3>3
      <4>2. CASE p.kind = "request"
        BY <1>9, <1>10, <1>11, <3>3, <4>1, <4>2
      <4>3. CASE p.kind # "request"
        BY <1>9, <1>10, <3>3, <4>1, <4>3
      <4>4. QED
        BY <4>2, <4>3
    <3>4. QED
      BY <3>2, <3>3
  <2>2. QED
    BY <1>1, <2>1 DEF RepliesFaithful
<1>14. PacketsInv'
  BY <1>1, <1>12, <1>13 DEF PoliteInv, PacketsInv
<1>15. QED
  BY <1>8, <1>14 DEF PoliteInv

-------------------------------------------------------------------------------
LEMMA PoliteInit ==
  ASSUME Assumptions, Init
  PROVE  PoliteInv
<1>1. \A j \in Jobs : ~Live(j)
  BY DEF Init, Live
<1>2. \A fd \in Fds : ~Hangs(fd)
  BY DEF Init, Hangs
<1>3. DescriptorsInv
  BY <1>1, <1>2 DEF Init, SocketsInit, DescriptorsInv, OneEach, HangupsCurrent, Unregistered
<1>4. \A p \in Packet : ~OnItsWay(p)
  <2>1. ASSUME NEW p \in Packet PROVE inbuf[p.from] # <<p>>
    <3>1. inbuf[p.from] = <<>>
      BY DEF Init, SocketsInit, Packet
    <3>2. <<p>> # <<>>
      OBVIOUS
    <3>3. QED
      BY <3>1, <3>2
  <2>2. QED
    BY <1>1, <2>1 DEF OnItsWay
<1>5. RepliesFaithful
  <2>1. ASSUME NEW c \in Clients
        PROVE  Len(inbox[c]) = 0 /\ Len(Requests(c)) \in Nat
    <3>1. inbox[c] = <<>> /\ sent[c] \in Seq(Packet)
      BY DEF Init, SocketsInit
    <3>2. Keep(sent[c], Request) \in Seq(Packet)
      BY <3>1, KeepFacts
    <3>3. QED
      BY <3>1, <3>2 DEF Requests
  <2>2. QED
    BY <2>1 DEF RepliesFaithful
<1>6. PacketsInv
  BY <1>4, <1>5 DEF Init, SocketsInit, PacketsInv, Answering
<1>7. QED
  BY <1>3, <1>6 DEF PoliteInv

LEMMA PoliteNext ==
  ASSUME Assumptions, Polite, IInv, PoliteInv, [Next]_serverVars
  PROVE  PoliteInv'
<1>1. CASE Environment
  <2>1. PICK c \in Clients : Alone /\
               (Connect(c) \/ (\E kind \in Kinds : ClientSend(c, kind)) \/ ClientClose(c))
    BY <1>1 DEF Environment
  <2>2. QED
    BY <2>1, ConnectPolite, SendPolite, ClosePolite
<1>2. CASE UNCHANGED serverVars
  BY <1>2, NothingMoves DEF serverVars
<1>3. QED
  BY <1>1, <1>2, LoopPolite, WorkersPolite DEF Next, Halted

(* Any number of polite clients, served by any number of workers.            *)
LEMMA PoliteInvariance ==
  ASSUME Polite
  PROVE  Spec => [](IInv /\ PoliteInv)
<1>1. Assumptions
  BY SocketsAssumption, ConnectionTableAssumption, ServerAssumption DEF Assumptions
<1>2. Init => PoliteInv
  BY <1>1, PoliteInit
<1>3. IInv /\ PoliteInv /\ [Next]_serverVars => PoliteInv'
  BY <1>1, PoliteNext
<1>4. QED
  BY <1>2, <1>3, ServerInvariance, PTL DEF Spec

(* What a client gets are the replies to its own packets, each once and in    *)
(* order, while other clients come, leave and are disconnected.  If clients    *)
(* send only requests, parse_packet may read anything where nobody has         *)
(* written; otherwise the assumption about memory is needed.                  *)
THEOREM RepliesAreFaithful ==
  ASSUME Polite
  PROVE  Spec => []RepliesFaithful
<1>1. PoliteInv => RepliesFaithful
  BY DEF PoliteInv, PacketsInv
<1>2. QED
  BY <1>1, PoliteInvariance, PTL

(* epoll_del_fd closes the connection of no client that is still there.  The   *)
(* close through args that are freed (sserver.c:221-222) is ruled out: either  *)
(* there are only requests, or freed args are assumed to be intact.           *)
THEOREM HangupsAreRight ==
  ASSUME Polite
  PROVE  Spec => NoWrongClose
<1>1. IInv /\ PoliteInv /\ [Next]_serverVars =>
        [Hangup /\ Open(Current.fd) => client[sock[Current.fd]] = "closed"]_serverVars
  BY HangupCurrent
<1>2. QED
  BY <1>1, PoliteInvariance, PTL DEF Spec, NoWrongClose
===============================================================================
