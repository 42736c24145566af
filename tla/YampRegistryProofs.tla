------------------------- MODULE YampRegistryProofs -------------------------
(***************************************************************************)
(* Proofs about YampRegistry, for every number of accounts, descriptors,   *)
(* slots, events per batch and connections.                                *)
(*                                                                         *)
(* None of the safety properties is inductive alone: a reused descriptor   *)
(* is harmless only because the maps, the slots and the kernel agree on    *)
(* every descriptor, not just on the one a step touches.  IInv collects    *)
(* that agreement; each action is then shown to preserve it.               *)
(***************************************************************************)
EXTENDS YampRegistry, TLAPS

\* A connection is on at most one descriptor, was dialled, and left the
\* backlog for good when it got its descriptor.
ConnsAreDistinct ==
    /\ \A f, g \in FDs : sock[f] = sock[g] /\ sock[f] # NoConn => f = g
    /\ \A f \in FDs : sock[f] <= dialled
    /\ \A l \in Listeners : \A k \in backlog[l] :
           /\ k <= dialled
           /\ \A f \in FDs : sock[f] # k
    /\ \A l, m \in Listeners : l # m => backlog[l] \cap backlog[m] = {}

\* A TLS slot holds the SSL object of the connection on its descriptor, and a
\* connected slot holds a real descriptor.
SlotsHoldTheirSSL ==
    \A i \in Slots : client_sockets[i].connected =>
        /\ client_sockets[i].fd \in FDs
        /\ client_sockets[i].encrypt =>
               client_sockets[i].ssl = sock[client_sockets[i].fd]

\* Only an open connection has input, a hang-up or an identity.
OnlyOpenConnsAct ==
    \A k \in Conns :
        (inbox[k] # NoRequest \/ k \in hup \/ authed[k] # NoUser) => k \in Open

\* The entry found by descriptor is a faithful copy of the slot that owns the
\* descriptor.
CopiesAreFaithful ==
    \A f \in FDs : UsersByFD[f] # Absent =>
        /\ UsersByFD[f].id \in Users
        /\ \E i \in Slots : /\ client_sockets[i].connected
                            /\ client_sockets[i].fd = f
                            /\ UsersByFD[f].con = client_sockets[i]

\* The entry found by id is the one found by its descriptor, except for the
\* accounts a second auth left behind.
RoutesMirrorFDs ==
    \A u \in Users : UsersByID[u] # Absent =>
        /\ UsersByID[u].id = u
        /\ u \notin switched =>
               /\ UsersByID[u].con.fd \in FDs
               /\ UsersByFD[UsersByID[u].con.fd] = UsersByID[u]

\* Outside overlapped an account is on one connection at most.
OneDevice ==
    \A u \in Users \ overlapped : \A j, k \in Open :
        authed[j] = u /\ authed[k] = u => j = k

IInv ==
    /\ TypeOK
    /\ SlotsMatchSockets
    /\ BatchIsFresh
    /\ IdentityMatches
    /\ OnlineIsReachable
    /\ NameAndIDAgree
    /\ ConnsAreDistinct
    /\ SlotsHoldTheirSSL
    /\ OnlyOpenConnsAct
    /\ CopiesAreFaithful
    /\ RoutesMirrorFDs
    /\ OneDevice

-----------------------------------------------------------------------------
(* Lemmas.                                                                 *)

\* The initial state: nothing is open, so everything agrees.
LEMMA InitIInv == Init => IInv
<1> SUFFICES ASSUME Init PROVE IInv
  OBVIOUS
<1> USE UsersAssumption, FDsAssumption, SizesAssumption
<1>1. TypeOK
  BY DEF Init, TypeOK, Connection, ZeroConnection, Entry, Absent, Slots,
         Conns, NoConn, Listeners, NoRequest, Requests
<1>2. SlotsMatchSockets
  BY DEF Init, SlotsMatchSockets, ZeroConnection, NoConn
<1>3. BatchIsFresh
  BY DEF Init, BatchIsFresh
<1>4. IdentityMatches
  BY DEF Init, IdentityMatches, Absent
<1>5. OnlineIsReachable
  BY DEF Init, OnlineIsReachable, Reachable, Open, Conns, NoConn
<1>6. NameAndIDAgree
  BY DEF Init, NameAndIDAgree
<1>7. ConnsAreDistinct
  BY DEF Init, ConnsAreDistinct, NoConn
<1>8. SlotsHoldTheirSSL /\ OnlyOpenConnsAct
  BY DEF Init, SlotsHoldTheirSSL, OnlyOpenConnsAct, ZeroConnection
<1>9. CopiesAreFaithful /\ RoutesMirrorFDs
  BY DEF Init, CopiesAreFaithful, RoutesMirrorFDs
<1>10. OneDevice
  BY DEF Init, OneDevice, Open, Conns, NoConn
<1>. QED
  BY <1>1, <1>2, <1>3, <1>4, <1>5, <1>6, <1>7, <1>8, <1>9, <1>10 DEF IInv

\* What a handler may rely on about the event it was given: it names the slot
\* and the descriptor of one open connection.
LEMMA EventFacts ==
    ASSUME IInv, NEW e, Fresh(e)
    PROVE  /\ e.idx \in Slots
           /\ e.fd \in FDs
           /\ e = EvKey(e.fd, e.idx)
           /\ client_sockets[e.idx].connected
           /\ client_sockets[e.idx].fd = e.fd
           /\ sock[e.fd] \in Conns
           /\ sock[e.fd] \in Open
<1> USE DEF IInv
<1>1. /\ e \in events /\ e.idx \in Slots /\ ~Stale(e) /\ sock[e.fd] # NoConn
  BY DEF Fresh, BatchIsFresh
<1>2. client_sockets[e.idx].connected /\ client_sockets[e.idx].fd = e.fd
  BY <1>1 DEF Stale, TypeOK, Connection
<1>3. e.fd \in FDs
  BY <1>1, <1>2 DEF SlotsHoldTheirSSL
<1>4. sock[e.fd] \in Conns
  BY <1>1, <1>3 DEF TypeOK
<1>5. e = EvKey(e.fd, e.idx)
  BY <1>1 DEF TypeOK, EvKey
<1>. QED
  BY <1>1, <1>2, <1>3, <1>4, <1>5 DEF Open

\* Two events of a batch that concern clients concern different slots and
\* different descriptors.
LEMMA EventsAreDistinct ==
    ASSUME IInv, NEW d \in events, NEW e \in events,
           d.idx \in Slots, e.idx \in Slots, d # e
    PROVE  d.idx # e.idx /\ d.fd # e.fd
<1> USE DEF IInv
<1>1. /\ client_sockets[d.idx].connected /\ client_sockets[d.idx].fd = d.fd
      /\ client_sockets[e.idx].connected /\ client_sockets[e.idx].fd = e.fd
  BY DEF BatchIsFresh, Stale, TypeOK, Connection
<1>2. d = EvKey(d.fd, d.idx) /\ e = EvKey(e.fd, e.idx)
  BY DEF TypeOK, EvKey
<1>. QED
  BY <1>1, <1>2 DEF SlotsMatchSockets

\* Handling one event leaves the others of the batch fresh: they concern other
\* descriptors, hence other connections.
LEMMA ConsumeKeepsBatch ==
    ASSUME IInv, NEW e, Consume(e) PROVE BatchIsFresh'
<1> USE DEF IInv
<1> SUFFICES ASSUME NEW d \in events', d.idx \in Slots
             PROVE  (~Stale(d) /\ sock[d.fd] # NoConn /\ Readable(d.fd))'
  BY DEF BatchIsFresh
<1>1. /\ d \in events /\ d # e /\ e \in events
      /\ e.idx \in Slots /\ e.fd \in FDs /\ sock[e.fd] \in Conns
      /\ inbox' = [inbox EXCEPT ![sock[e.fd]] = NoRequest]
      /\ UNCHANGED <<client_sockets, sock, hup>>
  BY EventFacts DEF Consume, Fresh
<1>2. d.fd # e.fd
  BY <1>1, EventsAreDistinct
<1>3. Fresh(d) /\ sock[d.fd] # NoConn /\ Readable(d.fd)
  BY <1>1 DEF BatchIsFresh, Fresh
<1>4. d.fd \in FDs /\ sock[d.fd] # sock[e.fd]
  BY <1>1, <1>2, <1>3, EventFacts DEF ConnsAreDistinct
<1>. QED
  BY <1>1, <1>3, <1>4 DEF Fresh, Stale, Readable, TypeOK

-----------------------------------------------------------------------------
(* One lemma per action.  Parts of the invariant an action cannot disturb   *)
(* follow from what it leaves UNCHANGED.                                   *)

LEMMA DialIInv ==
    ASSUME IInv, NEW l \in Listeners, Dial(l) PROVE IInv'
<1> USE SizesAssumption DEF IInv
<1>1. /\ dialled + 1 \in Conns
      /\ dialled \in Nat /\ dialled' = dialled + 1
      /\ backlog' = [backlog EXCEPT ![l] = @ \cup {dialled + 1}]
      /\ UNCHANGED <<client_sockets, events, sock, epoll, inbox, hup,
                     UsersByFD, UsersByName, UsersByID,
                     authed, switched, overlapped>>
  BY DEF Dial, TypeOK, Conns, registry, history
<1>2. TypeOK'
  BY <1>1 DEF TypeOK, Conns
<1>3. SlotsMatchSockets' /\ IdentityMatches'
  BY <1>1 DEF SlotsMatchSockets, IdentityMatches
<1>4. BatchIsFresh'
  BY <1>1 DEF BatchIsFresh, Stale, Readable
<1>5. OnlineIsReachable' /\ NameAndIDAgree'
  BY <1>1 DEF OnlineIsReachable, Reachable, Open, NameAndIDAgree
<1>6. ConnsAreDistinct'
  <2>1. \A f \in FDs : sock[f] \in Nat /\ sock[f] <= dialled
    BY DEF ConnsAreDistinct, TypeOK, Conns, NoConn
  <2>2. \A m \in Listeners : \A k \in backlog[m] : k \in Nat /\ k <= dialled
    BY DEF ConnsAreDistinct, TypeOK, Conns
  <2>3. \A f, g \in FDs : sock'[f] = sock'[g] /\ sock'[f] # NoConn => f = g
    BY <1>1 DEF ConnsAreDistinct
  <2>4. \A f \in FDs : sock'[f] <= dialled'
    BY <1>1, <2>1
  <2>5. \A m \in Listeners : \A k \in backlog'[m] :
            k <= dialled' /\ \A f \in FDs : sock'[f] # k
    BY <1>1, <2>1, <2>2 DEF ConnsAreDistinct, TypeOK
  <2>6. \A m, n \in Listeners : m # n => backlog'[m] \cap backlog'[n] = {}
    BY <1>1, <2>2 DEF ConnsAreDistinct, TypeOK
  <2>. QED
    BY <2>3, <2>4, <2>5, <2>6 DEF ConnsAreDistinct
<1>7. SlotsHoldTheirSSL' /\ OnlyOpenConnsAct'
  BY <1>1 DEF SlotsHoldTheirSSL, OnlyOpenConnsAct, Open
<1>8. CopiesAreFaithful' /\ RoutesMirrorFDs' /\ OneDevice'
  BY <1>1 DEF CopiesAreFaithful, RoutesMirrorFDs, OneDevice, Open
<1>. QED
  BY <1>2, <1>3, <1>4, <1>5, <1>6, <1>7, <1>8

LEMMA SendIInv ==
    ASSUME IInv, NEW k \in Conns, NEW r \in Requests, Send(k, r) PROVE IInv'
<1> USE DEF IInv
<1>1. /\ k \in Open
      /\ inbox' = [inbox EXCEPT ![k] = r]
      /\ UNCHANGED <<client_sockets, events, sock, epoll, backlog, dialled,
                     hup, UsersByFD, UsersByName, UsersByID,
                     authed, switched, overlapped>>
  BY DEF Send, registry, history
<1>2. TypeOK'
  BY <1>1 DEF TypeOK
<1>3. SlotsMatchSockets' /\ IdentityMatches'
  BY <1>1 DEF SlotsMatchSockets, IdentityMatches
<1>4. BatchIsFresh'
  <2>1. r # NoRequest
    BY DEF Requests, NoRequest
  <2>. QED
    BY <1>1, <2>1 DEF BatchIsFresh, Stale, Readable, TypeOK
<1>5. OnlineIsReachable' /\ NameAndIDAgree'
  BY <1>1 DEF OnlineIsReachable, Reachable, Open, NameAndIDAgree
<1>6. ConnsAreDistinct' /\ SlotsHoldTheirSSL'
  BY <1>1 DEF ConnsAreDistinct, SlotsHoldTheirSSL
<1>7. OnlyOpenConnsAct'
  BY <1>1 DEF OnlyOpenConnsAct, Open, TypeOK
<1>8. CopiesAreFaithful' /\ RoutesMirrorFDs' /\ OneDevice'
  BY <1>1 DEF CopiesAreFaithful, RoutesMirrorFDs, OneDevice, Open
<1>. QED
  BY <1>2, <1>3, <1>4, <1>5, <1>6, <1>7, <1>8

LEMMA HangUpIInv ==
    ASSUME IInv, NEW k \in Conns, HangUp(k) PROVE IInv'
<1> USE DEF IInv
<1>1. /\ k \in Open
      /\ hup' = hup \cup {k}
      /\ UNCHANGED <<client_sockets, events, sock, epoll, backlog, dialled,
                     inbox, UsersByFD, UsersByName, UsersByID,
                     authed, switched, overlapped>>
  BY DEF HangUp, registry, history
<1>2. TypeOK'
  BY <1>1 DEF TypeOK
<1>3. SlotsMatchSockets' /\ IdentityMatches'
  BY <1>1 DEF SlotsMatchSockets, IdentityMatches
<1>4. BatchIsFresh'
  BY <1>1 DEF BatchIsFresh, Stale, Readable
<1>5. OnlineIsReachable' /\ NameAndIDAgree'
  BY <1>1 DEF OnlineIsReachable, Reachable, Open, NameAndIDAgree
<1>6. ConnsAreDistinct' /\ SlotsHoldTheirSSL'
  BY <1>1 DEF ConnsAreDistinct, SlotsHoldTheirSSL
<1>7. OnlyOpenConnsAct'
  BY <1>1 DEF OnlyOpenConnsAct, Open
<1>8. CopiesAreFaithful' /\ RoutesMirrorFDs' /\ OneDevice'
  BY <1>1 DEF CopiesAreFaithful, RoutesMirrorFDs, OneDevice, Open
<1>. QED
  BY <1>2, <1>3, <1>4, <1>5, <1>6, <1>7, <1>8

\* epoll_wait only reports registered keys whose descriptor is ready, and the
\* registered keys are those of the connected slots.
LEMMA WaitIInv ==
    ASSUME IInv, NEW B \in Batches, epoll_wait(B) PROVE IInv'
<1> USE DEF IInv
<1>1. /\ B \subseteq Ready
      /\ events' = B
      /\ UNCHANGED <<client_sockets, sock, epoll, backlog, dialled, inbox, hup,
                     UsersByFD, UsersByName, UsersByID,
                     authed, switched, overlapped>>
  BY DEF epoll_wait, Batches, kernel, registry, history
<1>2. TypeOK'
  BY <1>1 DEF TypeOK, Ready, EvKey
<1>3. SlotsMatchSockets' /\ IdentityMatches'
  BY <1>1 DEF SlotsMatchSockets, IdentityMatches
<1>4. BatchIsFresh'
  <2> SUFFICES ASSUME NEW e \in B, e.idx \in Slots
               PROVE  ~Stale(e) /\ sock[e.fd] # NoConn /\ Readable(e.fd)
    BY <1>1 DEF BatchIsFresh, Stale, Readable
  <2>1. \A l \in Listeners : l \notin Slots
    BY SizesAssumption
       DEF Listeners, Slots, EV_PLAIN_LISTEN, EV_TLS_LISTEN
  <2>2. e \in epoll /\ sock[e.fd] # NoConn /\ Readable(e.fd)
    BY <1>1, <2>1 DEF Ready, EvKey
  <2>3. PICK i \in Slots : /\ client_sockets[i].connected
                           /\ e = EvKey(client_sockets[i].fd, i)
    BY <2>2 DEF SlotsMatchSockets
  <2>. QED
    BY <2>2, <2>3 DEF Stale, EvKey
<1>5. OnlineIsReachable' /\ NameAndIDAgree'
  BY <1>1 DEF OnlineIsReachable, Reachable, Open, NameAndIDAgree
<1>6. ConnsAreDistinct' /\ SlotsHoldTheirSSL' /\ OnlyOpenConnsAct'
  BY <1>1 DEF ConnsAreDistinct, SlotsHoldTheirSSL, OnlyOpenConnsAct, Open
<1>7. CopiesAreFaithful' /\ RoutesMirrorFDs' /\ OneDevice'
  BY <1>1 DEF CopiesAreFaithful, RoutesMirrorFDs, OneDevice, Open
<1>. QED
  BY <1>2, <1>3, <1>4, <1>5, <1>6, <1>7

LEMMA AcceptFailsIInv ==
    ASSUME IInv, NEW l \in Listeners, AcceptFails(l) PROVE IInv'
<1> USE DEF IInv
<1>1. /\ events' \subseteq events
      /\ backlog' \in [Listeners -> SUBSET Conns]
      /\ \A m \in Listeners : backlog'[m] \subseteq backlog[m]
      /\ UNCHANGED <<client_sockets, sock, epoll, dialled, inbox, hup,
                     UsersByFD, UsersByName, UsersByID,
                     authed, switched, overlapped>>
  BY DEF AcceptFails, TypeOK, registry, history
<1>2. TypeOK'
  BY <1>1 DEF TypeOK
<1>3. SlotsMatchSockets' /\ IdentityMatches'
  BY <1>1 DEF SlotsMatchSockets, IdentityMatches
<1>4. BatchIsFresh'
  BY <1>1 DEF BatchIsFresh, Stale, Readable
<1>5. OnlineIsReachable' /\ NameAndIDAgree'
  BY <1>1 DEF OnlineIsReachable, Reachable, Open, NameAndIDAgree
<1>6. ConnsAreDistinct'
  BY <1>1 DEF ConnsAreDistinct
<1>7. SlotsHoldTheirSSL' /\ OnlyOpenConnsAct'
  BY <1>1 DEF SlotsHoldTheirSSL, OnlyOpenConnsAct, Open
<1>8. CopiesAreFaithful' /\ RoutesMirrorFDs' /\ OneDevice'
  BY <1>1 DEF CopiesAreFaithful, RoutesMirrorFDs, OneDevice, Open
<1>. QED
  BY <1>2, <1>3, <1>4, <1>5, <1>6, <1>7, <1>8

LEMMA HandleOtherIInv ==
    ASSUME IInv, NEW e, HandleOther(e) PROVE IInv'
<1> USE DEF IInv
<1> DEFINE k == sock[e.fd]
<1>1. /\ Fresh(e) /\ e \in events
      /\ events' = events \ {e}
      /\ inbox' = [inbox EXCEPT ![k] = NoRequest]
      /\ UNCHANGED <<client_sockets, sock, epoll, backlog, dialled, hup,
                     UsersByFD, UsersByName, UsersByID,
                     authed, switched, overlapped>>
  BY DEF HandleOther, Consume, Fresh, registry, history
<1>2. e.idx \in Slots /\ e.fd \in FDs /\ k \in Conns
  BY <1>1, EventFacts
<1>3. TypeOK'
  BY <1>1, <1>2 DEF TypeOK
<1>4. SlotsMatchSockets' /\ IdentityMatches'
  BY <1>1 DEF SlotsMatchSockets, IdentityMatches
<1>5. BatchIsFresh'
  BY ConsumeKeepsBatch DEF HandleOther
<1>6. OnlineIsReachable' /\ NameAndIDAgree'
  BY <1>1 DEF OnlineIsReachable, Reachable, Open, NameAndIDAgree
<1>7. ConnsAreDistinct' /\ SlotsHoldTheirSSL'
  BY <1>1 DEF ConnsAreDistinct, SlotsHoldTheirSSL
<1>8. OnlyOpenConnsAct'
  BY <1>1, <1>2 DEF OnlyOpenConnsAct, Open, TypeOK
<1>9. CopiesAreFaithful' /\ RoutesMirrorFDs' /\ OneDevice'
  BY <1>1 DEF CopiesAreFaithful, RoutesMirrorFDs, OneDevice, Open
<1>. QED
  BY <1>3, <1>4, <1>5, <1>6, <1>7, <1>8, <1>9

\* Accept: the new connection takes a free slot and a free descriptor, which
\* no slot, no entry and no event of the batch refers to any more.
LEMMA AcceptIInv ==
    ASSUME IInv, NEW l \in Listeners, Accept(l) PROVE IInv'
<1> USE DEF IInv
<1>1. PICK k \in backlog[l] :
          /\ backlog' = [backlog EXCEPT ![l] = @ \ {k}]
          /\ \/ \E f \in FDs : sock[f] = NoConn /\ Place(k, f, l = EV_TLS_LISTEN)
             \/ UNCHANGED <<client_sockets, sock, epoll>>
  BY DEF Accept
<1>2. /\ events' = events \ {EvKey(NoFD, l)}
      /\ UNCHANGED <<dialled, inbox, hup, UsersByFD, UsersByName, UsersByID,
                     authed, switched, overlapped>>
  BY DEF Accept, registry, history
<1>3. k \in Conns /\ k <= dialled /\ \A f \in FDs : sock[f] # k
  BY DEF TypeOK, ConnsAreDistinct
<1>4. \A m \in Listeners : k \notin backlog'[m]
  BY <1>1 DEF ConnsAreDistinct, TypeOK
<1>5. CASE UNCHANGED <<client_sockets, sock, epoll>>
  <2>1. TypeOK'
    BY <1>1, <1>2, <1>5 DEF TypeOK
  <2>2. ConnsAreDistinct'
    BY <1>1, <1>2, <1>5 DEF ConnsAreDistinct, TypeOK
  <2>3. BatchIsFresh' /\ SlotsMatchSockets' /\ IdentityMatches'
    BY <1>2, <1>5
       DEF BatchIsFresh, Stale, Readable, SlotsMatchSockets, IdentityMatches
  <2>4. OnlineIsReachable' /\ NameAndIDAgree' /\ OneDevice'
    BY <1>2, <1>5 DEF OnlineIsReachable, Reachable, Open, NameAndIDAgree,
                      OneDevice
  <2>5. SlotsHoldTheirSSL' /\ OnlyOpenConnsAct'
    BY <1>2, <1>5 DEF SlotsHoldTheirSSL, OnlyOpenConnsAct, Open
  <2>6. CopiesAreFaithful' /\ RoutesMirrorFDs'
    BY <1>2, <1>5 DEF CopiesAreFaithful, RoutesMirrorFDs
  <2>. QED
    BY <2>1, <2>2, <2>3, <2>4, <2>5, <2>6
<1>6. CASE \E f \in FDs : sock[f] = NoConn /\ Place(k, f, l = EV_TLS_LISTEN)
  <2>1. PICK f \in FDs, i \in Slots, tls \in BOOLEAN :
            /\ sock[f] = NoConn
            /\ ~client_sockets[i].connected
            /\ client_sockets' = [client_sockets EXCEPT ![i] =
                   [connected |-> TRUE, encrypt |-> tls, fd |-> f,
                    ssl |-> IF tls THEN k ELSE NoConn]]
            /\ epoll' = epoll \cup {EvKey(f, i)}
            /\ sock' = [sock EXCEPT ![f] = k]
    BY <1>6 DEF Place, FreeSlots
  <2>2. /\ client_sockets'[i].connected
        /\ client_sockets'[i].fd = f
        /\ client_sockets'[i].encrypt = tls
        /\ client_sockets'[i].ssl = (IF tls THEN k ELSE NoConn)
        /\ \A j \in Slots \ {i} : client_sockets'[j] = client_sockets[j]
        /\ sock'[f] = k
        /\ \A g \in FDs \ {f} : sock'[g] = sock[g]
    BY <2>1 DEF TypeOK
  <2>3. \A j \in Slots : client_sockets[j].connected =>
            j # i /\ client_sockets[j].fd # f
    BY <2>1 DEF SlotsMatchSockets
  <2>4. k # NoConn
    BY <1>3 DEF Conns, NoConn
  <2>5. TypeOK'
    <3>1. client_sockets' \in [Slots -> Connection]
      BY <2>1, <1>3 DEF TypeOK, Connection
    <3>2. sock' \in [FDs -> Conns \cup {NoConn}]
      BY <2>1, <1>3 DEF TypeOK
    <3>3. epoll' \subseteq [fd : FDs, idx : Slots]
      BY <2>1 DEF TypeOK, EvKey
    <3>. QED
      BY <1>1, <1>2, <3>1, <3>2, <3>3 DEF TypeOK
  <2>6. SlotsMatchSockets'
    <3>1. epoll' = {EvKey(client_sockets'[j].fd, j) :
                        j \in {m \in Slots : client_sockets'[m].connected}}
      BY <2>1, <2>2, <2>3 DEF SlotsMatchSockets
    <3>2. \A j, m \in Slots :
              (/\ client_sockets'[j].connected
               /\ client_sockets'[m].connected
               /\ client_sockets'[j].fd = client_sockets'[m].fd) => j = m
      BY <2>2, <2>3 DEF SlotsMatchSockets
    <3>3. \A g \in FDs :
              sock'[g] # NoConn <=>
                  \E j \in Slots : /\ client_sockets'[j].connected
                                   /\ client_sockets'[j].fd = g
      BY <2>1, <2>2, <2>3, <2>4 DEF SlotsMatchSockets
    <3>. QED
      BY <3>1, <3>2, <3>3 DEF SlotsMatchSockets
  <2>7. BatchIsFresh'
    <3> SUFFICES ASSUME NEW e \in events', e.idx \in Slots
                 PROVE  (~Stale(e) /\ sock[e.fd] # NoConn /\ Readable(e.fd))'
      BY DEF BatchIsFresh
    <3>1. ~Stale(e) /\ sock[e.fd] # NoConn /\ Readable(e.fd) /\ Fresh(e)
      BY <1>2 DEF BatchIsFresh, Fresh
    <3>2. e.idx # i /\ e.fd # f /\ e.fd \in FDs
      BY <2>1, <3>1, EventFacts
    <3>. QED
      BY <1>2, <2>2, <3>1, <3>2 DEF Stale, Readable
  <2>8. authed[k] = NoUser /\ k \notin Open
    BY <1>3 DEF OnlyOpenConnsAct, Open
  <2>9. Open' = Open \cup {k}
    BY <1>3, <2>1, <2>2, <2>4 DEF Open, Conns, NoConn
  <2>10. IdentityMatches'
    BY <1>2, <2>1, <2>2, <2>4, <2>8 DEF IdentityMatches
  <2>11. OnlineIsReachable'
    <3> SUFFICES ASSUME NEW u \in Users \ overlapped, NEW j \in Open',
                        authed[j] = u
                 PROVE  /\ UsersByID[u] # Absent
                        /\ sock'[UsersByID[u].con.fd] = j
      BY <1>2 DEF OnlineIsReachable, Reachable
    <3>1. j \in Open
      BY <2>8, <2>9, UsersAssumption DEF UsersAssumption
    <3>2. UsersByID[u] # Absent /\ sock[UsersByID[u].con.fd] = j
      BY <3>1 DEF OnlineIsReachable, Reachable
    <3>3. j # NoConn
      BY <3>1 DEF Open, Conns, NoConn
    <3>4. UsersByID[u].con.fd # f
      BY <2>1, <3>2, <3>3
    <3>. QED
      BY <2>1, <3>2, <3>4 DEF TypeOK
  <2>12. NameAndIDAgree'
    BY <1>2 DEF NameAndIDAgree
  <2>13. ConnsAreDistinct'
    <3>1. \A g, h \in FDs : sock'[g] = sock'[h] /\ sock'[g] # NoConn => g = h
      BY <1>3, <2>2 DEF ConnsAreDistinct
    <3>2. \A g \in FDs : sock'[g] <= dialled'
      BY <1>2, <1>3, <2>2 DEF ConnsAreDistinct
    <3>3. \A m \in Listeners : \A c \in backlog'[m] :
              c <= dialled' /\ \A g \in FDs : sock'[g] # c
      BY <1>1, <1>2, <1>4, <2>2 DEF ConnsAreDistinct, TypeOK
    <3>4. \A m, n \in Listeners : m # n => backlog'[m] \cap backlog'[n] = {}
      BY <1>1 DEF ConnsAreDistinct, TypeOK
    <3>. QED
      BY <3>1, <3>2, <3>3, <3>4 DEF ConnsAreDistinct
  <2>14. SlotsHoldTheirSSL'
    BY <2>2, <2>3 DEF SlotsHoldTheirSSL
  <2>15. OnlyOpenConnsAct'
    BY <1>2, <2>9 DEF OnlyOpenConnsAct
  <2>16. CopiesAreFaithful'
    <3> SUFFICES ASSUME NEW g \in FDs, UsersByFD[g] # Absent
                 PROVE  /\ UsersByFD[g].id \in Users
                        /\ \E j \in Slots : /\ client_sockets'[j].connected
                                            /\ client_sockets'[j].fd = g
                                            /\ UsersByFD[g].con = client_sockets'[j]
      BY <1>2 DEF CopiesAreFaithful
    <3>. QED
      BY <2>2, <2>3 DEF CopiesAreFaithful
  <2>17. RoutesMirrorFDs'
    BY <1>2 DEF RoutesMirrorFDs
  <2>18. OneDevice'
    BY <1>2, <2>8, <2>9, UsersAssumption DEF OneDevice, UsersAssumption
  <2>. QED
    BY <2>5, <2>6, <2>7, <2>10, <2>11, <2>12, <2>13, <2>14, <2>15, <2>16,
       <2>17, <2>18
<1>. QED
  BY <1>1, <1>5, <1>6

\* What the three handlers of a client's event share: the connection is open,
\* has the identity the maps hold for its descriptor, and an entry found by
\* descriptor is a copy of the connection of the event.
LEMMA HandlerFacts ==
    ASSUME IInv, NEW e, Fresh(e)
    PROVE  /\ UsersByFD[e.fd].id = authed[sock[e.fd]]
           /\ UserFromCon(e) = UsersByFD[e.fd]
           /\ UsersByFD[e.fd] # Absent =>
                  /\ UsersByFD[e.fd].id \in Users
                  /\ UsersByFD[e.fd].con = client_sockets[e.idx]
                  /\ UsersByFD[e.fd].con.fd = e.fd
           /\ \A f \in FDs : sock[f] = sock[e.fd] => f = e.fd
<1> USE DEF IInv
<1>1. /\ e.idx \in Slots /\ e.fd \in FDs
      /\ client_sockets[e.idx].connected
      /\ client_sockets[e.idx].fd = e.fd
      /\ sock[e.fd] \in Conns
  BY EventFacts
<1>2. sock[e.fd] # NoConn
  BY <1>1 DEF Conns, NoConn
<1>3. UsersByFD[e.fd].id = authed[sock[e.fd]]
  BY <1>1, <1>2 DEF IdentityMatches
<1>4. ASSUME UsersByFD[e.fd] # Absent
      PROVE  /\ UsersByFD[e.fd].id \in Users
             /\ UsersByFD[e.fd].con = client_sockets[e.idx]
             /\ UsersByFD[e.fd].con.fd = e.fd
  BY <1>1, <1>4 DEF CopiesAreFaithful, SlotsMatchSockets
<1>5. \A f \in FDs : sock[f] = sock[e.fd] => f = e.fd
  BY <1>1, <1>2 DEF ConnsAreDistinct
<1>. QED
  BY <1>1, <1>3, <1>4, <1>5 DEF UserFromCon

\* HandleAuth: the route of the new account is a copy of this connection; the
\* route of the account the connection had before, if it led here, becomes one
\* of the exceptions.
LEMMA HandleAuthIInv ==
    ASSUME IInv, NEW e, HandleAuth(e) PROVE IInv'
<1> USE DEF IInv
<1> DEFINE k   == sock[e.fd]
           c   == client_sockets[e.idx]
           u   == inbox[k].user
           new == [id |-> u, con |-> c]
           old == authed[k]
<1>1. /\ Consume(e) /\ Fresh(e) /\ e \in events
      /\ inbox[k].endpoint = "auth"
      /\ events' = events \ {e}
      /\ inbox' = [inbox EXCEPT ![k] = NoRequest]
      /\ UNCHANGED <<client_sockets, sock, epoll, backlog, dialled, hup>>
  BY DEF HandleAuth, Consume, Fresh
<1>2. /\ e.idx \in Slots /\ e.fd \in FDs /\ k \in Conns /\ k \in Open
      /\ c \in Connection /\ c.connected /\ c.fd = e.fd
  BY <1>1, EventFacts DEF TypeOK
<1>3. u \in Users
  BY <1>1, <1>2 DEF TypeOK, Requests, NoRequest
<1>4. /\ UsersByFD'   = [UsersByFD EXCEPT ![e.fd] = new]
      /\ UsersByName' = [UsersByName EXCEPT ![u] = new]
      /\ UsersByID'   = [UsersByID EXCEPT ![u] = new]
      /\ authed'      = [authed EXCEPT ![k] = u]
  BY <1>2 DEF HandleAuth, StoreByFD, StoreByName, StoreByID
<1>5. /\ switched' = (switched \cup
             {v \in Users : v = old /\ UsersByID[v].con.fd = e.fd}) \ {u}
      /\ overlapped' =
             (overlapped \ {v \in Users : v = old /\ OtherDevices(v, k) = {}})
             \cup {v \in Users : v = u /\ OtherDevices(v, k) # {}}
  BY <1>2 DEF HandleAuth
<1>6. new \in Entry /\ new # Absent /\ new.id = u /\ new.con = c
  BY <1>2, <1>3, UsersAssumption DEF UsersAssumption, Entry, Absent
<1>7. Open' = Open
  BY <1>1 DEF Open
<1>8. TypeOK'
  <2>1. UsersByFD' \in [FDs -> Entry]
    BY <1>4, <1>6 DEF TypeOK
  <2>2. UsersByName' \in [Users -> Entry] /\ UsersByID' \in [Users -> Entry]
    BY <1>4, <1>6 DEF TypeOK
  <2>3. inbox' \in [Conns -> Requests \cup {NoRequest}]
    BY <1>1 DEF TypeOK
  <2>4. authed' \in [Conns -> Users \cup {NoUser}]
    BY <1>3, <1>4 DEF TypeOK
  <2>5. switched' \subseteq Users /\ overlapped' \subseteq Users
    BY <1>5 DEF TypeOK
  <2>. QED
    BY <1>1, <2>1, <2>2, <2>3, <2>4, <2>5 DEF TypeOK
<1>9. SlotsMatchSockets'
  BY <1>1 DEF SlotsMatchSockets
<1>10. BatchIsFresh'
  BY <1>1, ConsumeKeepsBatch
<1>11. IdentityMatches'
  <2> SUFFICES ASSUME NEW f \in FDs
               PROVE  UsersByFD'[f].id = IF sock[f] = NoConn THEN NoUser
                                         ELSE authed'[sock[f]]
    BY <1>1 DEF IdentityMatches
  <2>1. CASE f = e.fd
    BY <1>2, <1>4, <1>6, <2>1 DEF TypeOK, Conns, NoConn
  <2>2. CASE f # e.fd
    BY <1>1, <1>2, <1>4, <2>2, HandlerFacts DEF TypeOK, IdentityMatches
  <2>. QED
    BY <2>1, <2>2
<1>12. ASSUME NEW w \in Users, w # u, w \notin overlapped', w = old
       PROVE  \A j \in Open : authed'[j] # w
  <2>1. ASSUME NEW j \in Open, authed'[j] = w PROVE FALSE
    <3>1. j # k /\ authed[j] = w /\ j \in Conns
      BY <1>2, <1>4, <1>12, <2>1 DEF TypeOK, Open
    <3>2. w \in overlapped
      BY <1>2, <1>12, <3>1 DEF OneDevice
    <3>3. OtherDevices(w, k) # {}
      BY <2>1, <3>1 DEF OtherDevices
    <3>. QED
      BY <1>5, <1>12, <3>2, <3>3
  <2>. QED
    BY <2>1
<1>13. ASSUME NEW w \in Users, w # u, w # old
       PROVE  /\ w \notin overlapped' => w \notin overlapped
              /\ UsersByID'[w] = UsersByID[w]
              /\ \A j \in Open : authed'[j] = w => authed[j] = w
  BY <1>2, <1>4, <1>5, <1>13 DEF TypeOK, Open
<1>14. ASSUME u \notin overlapped'
       PROVE  \A j \in Open : authed'[j] = u => j = k
  BY <1>2, <1>3, <1>4, <1>5, <1>14 DEF OtherDevices, TypeOK, Open
<1>15. OnlineIsReachable'
  <2> SUFFICES ASSUME NEW w \in Users, w \notin overlapped',
                      NEW j \in Open, authed'[j] = w
               PROVE  UsersByID'[w] # Absent /\ sock[UsersByID'[w].con.fd] = j
    BY <1>1, <1>7 DEF OnlineIsReachable, Reachable
  <2>1. CASE w = u
    BY <1>2, <1>3, <1>4, <1>6, <1>14, <2>1 DEF TypeOK
  <2>2. CASE w # u
    BY <1>12, <1>13, <2>2 DEF OnlineIsReachable, Reachable
  <2>. QED
    BY <2>1, <2>2
<1>16. NameAndIDAgree'
  BY <1>4 DEF NameAndIDAgree
<1>17. ConnsAreDistinct' /\ SlotsHoldTheirSSL'
  BY <1>1 DEF ConnsAreDistinct, SlotsHoldTheirSSL
<1>18. OnlyOpenConnsAct'
  BY <1>1, <1>2, <1>4, <1>7 DEF OnlyOpenConnsAct, TypeOK
<1>19. CopiesAreFaithful'
  BY <1>1, <1>2, <1>3, <1>4, <1>6 DEF CopiesAreFaithful, TypeOK
<1>20. RoutesMirrorFDs'
  <2> SUFFICES ASSUME NEW w \in Users, UsersByID'[w] # Absent
               PROVE  /\ UsersByID'[w].id = w
                      /\ w \notin switched' =>
                             /\ UsersByID'[w].con.fd \in FDs
                             /\ UsersByFD'[UsersByID'[w].con.fd] = UsersByID'[w]
    BY DEF RoutesMirrorFDs
  <2>1. CASE w = u
    BY <1>2, <1>3, <1>4, <1>6, <2>1 DEF TypeOK
  <2>2. CASE w # u
    <3>1. UsersByID'[w] = UsersByID[w]
      BY <1>4, <2>2 DEF TypeOK
    <3>2. UsersByID[w].id = w
      BY <3>1 DEF RoutesMirrorFDs
    <3>3. ASSUME w \notin switched'
          PROVE  /\ UsersByID[w].con.fd \in FDs
                 /\ UsersByFD'[UsersByID[w].con.fd] = UsersByID[w]
      <4>1. w \notin switched
        BY <1>5, <2>2, <3>3
      <4>2. /\ UsersByID[w].con.fd \in FDs
            /\ UsersByFD[UsersByID[w].con.fd] = UsersByID[w]
        BY <3>1, <4>1 DEF RoutesMirrorFDs
      <4>3. UsersByID[w].con.fd # e.fd
        BY <1>1, <1>5, <2>2, <3>2, <3>3, <4>2, HandlerFacts
      <4>. QED
        BY <1>4, <4>2, <4>3 DEF TypeOK
    <3>. QED
      BY <3>1, <3>2, <3>3
  <2>. QED
    BY <2>1, <2>2
<1>21. OneDevice'
  <2> SUFFICES ASSUME NEW w \in Users, w \notin overlapped',
                      NEW i \in Open, NEW j \in Open,
                      authed'[i] = w, authed'[j] = w
               PROVE  i = j
    BY <1>7 DEF OneDevice
  <2>1. CASE w = u
    BY <1>14, <2>1
  <2>2. CASE w # u
    BY <1>12, <1>13, <2>2 DEF OneDevice
  <2>. QED
    BY <2>1, <2>2
<1>. QED
  BY <1>8, <1>9, <1>10, <1>11, <1>15, <1>16, <1>17, <1>18, <1>19, <1>20, <1>21

\* HandleUpdateUserProfile: the three entries become the one found by
\* descriptor, which is already the right copy of this connection.
LEMMA HandleUpdateUserProfileIInv ==
    ASSUME IInv, NEW e, HandleUpdateUserProfile(e) PROVE IInv'
<1> USE DEF IInv
<1> DEFINE k     == sock[e.fd]
           found == UsersByFD[e.fd]
<1>1. /\ Consume(e) /\ Fresh(e)
      /\ events' = events \ {e}
      /\ inbox' = [inbox EXCEPT ![k] = NoRequest]
      /\ UNCHANGED <<client_sockets, sock, epoll, backlog, dialled, hup>>
  BY DEF HandleUpdateUserProfile, Consume
<1>2. /\ e.fd \in FDs /\ k \in Conns /\ k \in Open
      /\ client_sockets[e.idx].connected /\ e.idx \in Slots
  BY <1>1, EventFacts
<1>3. UserFromCon(e) = found
  BY <1>1, HandlerFacts
<1>4. /\ Open' = Open
      /\ SlotsMatchSockets' /\ ConnsAreDistinct' /\ SlotsHoldTheirSSL'
  BY <1>1 DEF Open, SlotsMatchSockets, ConnsAreDistinct, SlotsHoldTheirSSL
<1>5. BatchIsFresh'
  BY <1>1, ConsumeKeepsBatch
<1>6. inbox' \in [Conns -> Requests \cup {NoRequest}]
  BY <1>1 DEF TypeOK
<1>7. CASE UNCHANGED <<registry, history>>
  <2>1. TypeOK' /\ IdentityMatches' /\ NameAndIDAgree'
    BY <1>1, <1>6, <1>7
       DEF TypeOK, IdentityMatches, NameAndIDAgree, registry, history
  <2>2. OnlineIsReachable' /\ OneDevice'
    BY <1>1, <1>4, <1>7
       DEF OnlineIsReachable, Reachable, OneDevice, registry, history
  <2>3. OnlyOpenConnsAct'
    BY <1>1, <1>2, <1>4, <1>7 DEF OnlyOpenConnsAct, TypeOK, history
  <2>4. CopiesAreFaithful' /\ RoutesMirrorFDs'
    BY <1>1, <1>7 DEF CopiesAreFaithful, RoutesMirrorFDs, registry, history
  <2>. QED
    BY <1>4, <1>5, <2>1, <2>2, <2>3, <2>4
<1>8. CASE found # Absent
  <2>1. /\ found.id \in Users /\ found.con.fd = e.fd
        /\ found.con = client_sockets[e.idx]
        /\ found.id = authed[k]
        /\ found \in Entry
    BY <1>1, <1>2, <1>8, HandlerFacts DEF TypeOK
  <2>2. /\ UsersByFD'   = [UsersByFD EXCEPT ![e.fd] = found]
        /\ UsersByName' = [UsersByName EXCEPT ![found.id] = found]
        /\ UsersByID'   = [UsersByID EXCEPT ![found.id] = found]
        /\ switched'    = switched \ {found.id}
        /\ UNCHANGED <<authed, overlapped>>
    BY <1>3, <1>8, <2>1
       DEF HandleUpdateUserProfile, StoreByFD, StoreByName, StoreByID
  <2>3. UsersByFD' = UsersByFD
    BY <1>2, <2>2 DEF TypeOK
  <2>4. TypeOK'
    BY <1>1, <1>6, <2>1, <2>2, <2>3 DEF TypeOK
  <2>5. IdentityMatches' /\ NameAndIDAgree' /\ OneDevice'
    BY <1>1, <1>4, <2>2, <2>3
       DEF IdentityMatches, NameAndIDAgree, OneDevice
  <2>6. OnlineIsReachable'
    <3> SUFFICES ASSUME NEW w \in Users \ overlapped, NEW j \in Open,
                        authed[j] = w
                 PROVE  /\ UsersByID'[w] # Absent
                        /\ sock[UsersByID'[w].con.fd] = j
      BY <1>1, <1>4, <2>2 DEF OnlineIsReachable, Reachable
    <3>1. CASE w = found.id
      BY <1>2, <1>8, <2>1, <2>2, <3>1 DEF TypeOK, OneDevice
    <3>2. CASE w # found.id
      BY <2>2, <3>2 DEF TypeOK, OnlineIsReachable, Reachable
    <3>. QED
      BY <3>1, <3>2
  <2>7. OnlyOpenConnsAct'
    BY <1>1, <1>2, <1>4, <2>2 DEF OnlyOpenConnsAct, TypeOK
  <2>8. CopiesAreFaithful'
    BY <1>1, <2>3 DEF CopiesAreFaithful
  <2>9. RoutesMirrorFDs'
    BY <1>2, <2>1, <2>2, <2>3 DEF RoutesMirrorFDs, TypeOK
  <2>. QED
    BY <1>4, <1>5, <2>4, <2>5, <2>6, <2>7, <2>8, <2>9
<1>. QED
  BY <1>3, <1>7, <1>8 DEF HandleUpdateUserProfile

\* DisconnectClient: slot, descriptor, registration and the entry by
\* descriptor go together, so the descriptor can be handed out again.
LEMMA DisconnectIInv ==
    ASSUME IInv, NEW e, DisconnectClient(e) PROVE IInv'
<1> USE DEF IInv
<1> DEFINE k   == sock[e.fd]
           usr == UsersByFD[e.fd]
<1>1. /\ Fresh(e) /\ e \in events
      /\ events' = events \ {e}
      /\ UNCHANGED <<backlog, dialled>>
  BY DEF DisconnectClient, Fresh
<1>2. /\ e.idx \in Slots /\ e.fd \in FDs /\ e = EvKey(e.fd, e.idx)
      /\ client_sockets[e.idx].connected /\ client_sockets[e.idx].fd = e.fd
      /\ k \in Conns /\ k \in Open
      /\ UserFromCon(e) = usr
  BY <1>1, EventFacts, HandlerFacts
<1>3. /\ epoll' = {r \in epoll : r.fd # e.fd}
      /\ sock' = [sock EXCEPT ![e.fd] = NoConn]
      /\ client_sockets' = [client_sockets EXCEPT ![e.idx] = Closed(@)]
      /\ inbox' = [inbox EXCEPT ![k] = NoRequest]
      /\ hup' = hup \ {k}
      /\ authed' = [authed EXCEPT ![k] = NoUser]
      /\ overlapped' = overlapped \
             {v \in Users : v = authed[k] /\ OtherDevices(v, k) = {}}
  BY <1>2 DEF DisconnectClient
<1>4. \/ usr = Absent /\ UNCHANGED <<registry, switched>>
      \/ /\ usr # Absent
         /\ UsersByID'   = [UsersByID EXCEPT ![usr.id] = Absent]
         /\ UsersByName' = [UsersByName EXCEPT ![usr.id] = Absent]
         /\ UsersByFD'   = [UsersByFD EXCEPT ![e.fd] = Absent]
         /\ switched'    = switched \ {usr.id}
  BY <1>2 DEF DisconnectClient, RemoveByID, RemoveByName, RemoveByFD
<1>5. /\ usr.id = authed[k]
      /\ usr # Absent => usr.id \in Users
      /\ \A f \in FDs : sock[f] = k => f = e.fd
  BY <1>1, HandlerFacts
<1>6. /\ ~client_sockets'[e.idx].connected
      /\ \A i \in Slots \ {e.idx} : client_sockets'[i] = client_sockets[i]
      /\ client_sockets' \in [Slots -> Connection]
  <2>1. client_sockets[e.idx] \in Connection
    BY <1>2 DEF TypeOK
  <2>2. /\ Closed(client_sockets[e.idx]) \in Connection
        /\ Closed(client_sockets[e.idx]).connected = FALSE
    BY <2>1 DEF Closed, Connection, NoConn
  <2>. QED
    BY <1>2, <1>3, <2>2 DEF TypeOK
<1>7. /\ sock'[e.fd] = NoConn
      /\ \A f \in FDs \ {e.fd} : sock'[f] = sock[f]
      /\ sock' \in [FDs -> Conns \cup {NoConn}]
  BY <1>2, <1>3 DEF TypeOK
<1>8. \A i \in Slots : client_sockets[i].connected /\ i # e.idx =>
          client_sockets[i].fd # e.fd
  BY <1>2 DEF SlotsMatchSockets
<1>9. Open' = Open \ {k}
  BY <1>2, <1>5, <1>7 DEF Open, Conns, NoConn
<1>10. /\ UsersByFD'[e.fd] = Absent
       /\ \A f \in FDs \ {e.fd} : UsersByFD'[f] = UsersByFD[f]
       /\ \A w \in Users : UsersByID'[w] = Absent \/
                           (w # usr.id /\ UsersByID'[w] = UsersByID[w])
                           \/ (usr = Absent /\ UsersByID'[w] = UsersByID[w])
       /\ \A w \in Users : w # usr.id => UsersByID'[w] = UsersByID[w]
  BY <1>2, <1>4, <1>5 DEF TypeOK, registry
<1>11. TypeOK'
  <2>1. Absent \in Entry
    BY DEF Absent, Entry, Connection, ZeroConnection
  <2>2. /\ UsersByFD' \in [FDs -> Entry]
        /\ UsersByName' \in [Users -> Entry]
        /\ UsersByID' \in [Users -> Entry]
        /\ switched' \subseteq Users
    BY <1>4, <2>1 DEF TypeOK, registry
  <2>3. /\ inbox' \in [Conns -> Requests \cup {NoRequest}]
        /\ authed' \in [Conns -> Users \cup {NoUser}]
        /\ hup' \subseteq Conns
        /\ overlapped' \subseteq Users
        /\ epoll' \subseteq [fd : FDs, idx : Slots]
    BY <1>3 DEF TypeOK
  <2>. QED
    BY <1>1, <1>6, <1>7, <2>2, <2>3 DEF TypeOK
<1>12. SlotsMatchSockets'
  <2>1. epoll' = {EvKey(client_sockets'[i].fd, i) :
                      i \in {j \in Slots : client_sockets'[j].connected}}
    BY <1>2, <1>3, <1>6, <1>8 DEF SlotsMatchSockets, EvKey
  <2>2. \A i, j \in Slots :
            (/\ client_sockets'[i].connected
             /\ client_sockets'[j].connected
             /\ client_sockets'[i].fd = client_sockets'[j].fd) => i = j
    BY <1>6 DEF SlotsMatchSockets
  <2>3. \A f \in FDs :
            sock'[f] # NoConn <=>
                \E i \in Slots : /\ client_sockets'[i].connected
                                 /\ client_sockets'[i].fd = f
    BY <1>2, <1>6, <1>7, <1>8 DEF SlotsMatchSockets
  <2>. QED
    BY <2>1, <2>2, <2>3 DEF SlotsMatchSockets
<1>13. BatchIsFresh'
  <2> SUFFICES ASSUME NEW d \in events', d.idx \in Slots
               PROVE  (~Stale(d) /\ sock[d.fd] # NoConn /\ Readable(d.fd))'
    BY DEF BatchIsFresh
  <2>1. d \in events /\ d # e
    BY <1>1
  <2>2. d.idx # e.idx /\ d.fd # e.fd
    BY <1>1, <1>2, <2>1, EventsAreDistinct
  <2>3. ~Stale(d) /\ sock[d.fd] # NoConn /\ Readable(d.fd) /\ Fresh(d)
    BY <2>1 DEF BatchIsFresh, Fresh
  <2>4. d.fd \in FDs /\ sock[d.fd] \in Conns /\ sock[d.fd] # k
    BY <1>5, <2>2, <2>3, EventFacts
  <2>. QED
    BY <1>3, <1>6, <1>7, <2>2, <2>3, <2>4 DEF Stale, Readable, TypeOK
<1>14. IdentityMatches'
  <2> SUFFICES ASSUME NEW f \in FDs
               PROVE  UsersByFD'[f].id = IF sock'[f] = NoConn THEN NoUser
                                         ELSE authed'[sock'[f]]
    BY DEF IdentityMatches
  <2>1. CASE f = e.fd
    BY <1>7, <1>10, <2>1 DEF Absent
  <2>2. CASE f # e.fd
    BY <1>3, <1>5, <1>7, <1>10, <2>2 DEF TypeOK, IdentityMatches
  <2>. QED
    BY <2>1, <2>2
<1>15. \A w \in Users : \A j \in Open' : authed'[j] = w =>
           j \in Open /\ j # k /\ authed[j] = w
  BY <1>3, <1>9 DEF TypeOK, Open
<1>16. ASSUME NEW w \in Users, w \notin overlapped',
              NEW j \in Open', authed'[j] = w
       PROVE  w \notin overlapped /\ w # authed[k]
  <2>1. j \in Open /\ j # k /\ authed[j] = w
    BY <1>15, <1>16
  <2>2. OtherDevices(w, k) # {}
    BY <2>1 DEF OtherDevices
  <2>3. w \notin overlapped
    BY <1>3, <1>16, <2>2
  <2>. QED
    BY <1>2, <2>1, <2>3 DEF OneDevice
<1>17. OnlineIsReachable'
  <2> SUFFICES ASSUME NEW w \in Users, w \notin overlapped',
                      NEW j \in Open', authed'[j] = w
               PROVE  UsersByID'[w] # Absent /\ sock'[UsersByID'[w].con.fd] = j
    BY DEF OnlineIsReachable, Reachable
  <2>1. j \in Open /\ j # k /\ authed[j] = w /\ j \in Conns
    BY <1>15 DEF Open
  <2>2. w \notin overlapped /\ w # authed[k]
    BY <1>16
  <2>3. UsersByID[w] # Absent /\ sock[UsersByID[w].con.fd] = j
    BY <2>1, <2>2 DEF OnlineIsReachable, Reachable
  <2>4. UsersByID'[w] = UsersByID[w]
    BY <1>5, <1>10, <2>2
  <2>5. UsersByID[w].con.fd # e.fd
    BY <2>1, <2>3
  <2>. QED
    BY <1>3, <2>3, <2>4, <2>5 DEF TypeOK
<1>18. NameAndIDAgree'
  BY <1>4 DEF NameAndIDAgree, registry
<1>19. ConnsAreDistinct'
  <2>1. \A f, g \in FDs : sock'[f] = sock'[g] /\ sock'[f] # NoConn => f = g
    BY <1>7 DEF ConnsAreDistinct
  <2>2. \A f \in FDs : sock'[f] <= dialled'
    BY <1>1, <1>7 DEF ConnsAreDistinct, TypeOK, NoConn
  <2>3. \A l \in Listeners : \A c \in backlog'[l] :
            c <= dialled' /\ \A f \in FDs : sock'[f] # c
    BY <1>1, <1>7 DEF ConnsAreDistinct, TypeOK, Conns, NoConn
  <2>4. \A l, m \in Listeners : l # m => backlog'[l] \cap backlog'[m] = {}
    BY <1>1 DEF ConnsAreDistinct
  <2>. QED
    BY <2>1, <2>2, <2>3, <2>4 DEF ConnsAreDistinct
<1>20. SlotsHoldTheirSSL'
  BY <1>6, <1>7, <1>8 DEF SlotsHoldTheirSSL
<1>21. OnlyOpenConnsAct'
  BY <1>3, <1>9 DEF OnlyOpenConnsAct, TypeOK
<1>22. CopiesAreFaithful'
  <2> SUFFICES ASSUME NEW f \in FDs, UsersByFD'[f] # Absent
               PROVE  /\ UsersByFD'[f].id \in Users
                      /\ \E i \in Slots : /\ client_sockets'[i].connected
                                          /\ client_sockets'[i].fd = f
                                          /\ UsersByFD'[f].con = client_sockets'[i]
    BY DEF CopiesAreFaithful
  <2>1. f # e.fd /\ UsersByFD'[f] = UsersByFD[f]
    BY <1>10
  <2>. QED
    BY <1>2, <1>6, <2>1 DEF CopiesAreFaithful
<1>23. RoutesMirrorFDs'
  <2> SUFFICES ASSUME NEW w \in Users, UsersByID'[w] # Absent
               PROVE  /\ UsersByID'[w].id = w
                      /\ w \notin switched' =>
                             /\ UsersByID'[w].con.fd \in FDs
                             /\ UsersByFD'[UsersByID'[w].con.fd] = UsersByID'[w]
    BY DEF RoutesMirrorFDs
  <2>1. UsersByID'[w] = UsersByID[w] /\ (usr = Absent \/ w # usr.id)
    BY <1>10
  <2>2. UsersByID[w].id = w
    BY <2>1 DEF RoutesMirrorFDs
  <2>3. ASSUME w \notin switched'
        PROVE  /\ UsersByID[w].con.fd \in FDs
               /\ UsersByFD'[UsersByID[w].con.fd] = UsersByID[w]
    <3>1. w \notin switched
      BY <1>4, <2>1, <2>3
    <3>2. /\ UsersByID[w].con.fd \in FDs
          /\ UsersByFD[UsersByID[w].con.fd] = UsersByID[w]
      BY <2>1, <3>1 DEF RoutesMirrorFDs
    <3>3. UsersByID[w].con.fd # e.fd
      BY <2>1, <2>2, <3>2
    <3>. QED
      BY <1>10, <3>2, <3>3
  <2>. QED
    BY <2>1, <2>2, <2>3
<1>24. OneDevice'
  BY <1>15, <1>16 DEF OneDevice
<1>. QED
  BY <1>11, <1>12, <1>13, <1>14, <1>17, <1>18, <1>19, <1>20, <1>21, <1>22,
     <1>23, <1>24

-----------------------------------------------------------------------------
(* Theorems.                                                               *)

\* Every step of the server and of its clients preserves the invariant.
LEMMA NextIInv == IInv /\ [Next]_vars => IInv'
<1> SUFFICES ASSUME IInv, [Next]_vars PROVE IInv'
  OBVIOUS
<1>1. ASSUME NEW l \in Listeners, Dial(l) PROVE IInv'
  BY <1>1, DialIInv
<1>2. ASSUME NEW k \in Conns, HangUp(k) PROVE IInv'
  BY <1>2, HangUpIInv
<1>3. ASSUME NEW k \in Conns, NEW r \in Requests, Send(k, r) PROVE IInv'
  BY <1>3, SendIInv
<1>4. ASSUME NEW B \in Batches, epoll_wait(B) PROVE IInv'
  BY <1>4, WaitIInv
<1>5. ASSUME NEW l \in Listeners, Accept(l) PROVE IInv'
  BY <1>5, AcceptIInv
<1>6. ASSUME NEW l \in Listeners, AcceptFails(l) PROVE IInv'
  BY <1>6, AcceptFailsIInv
<1>7. ASSUME NEW e \in events, HandleAuth(e) PROVE IInv'
  BY <1>7, HandleAuthIInv
<1>8. ASSUME NEW e \in events, HandleUpdateUserProfile(e) PROVE IInv'
  BY <1>8, HandleUpdateUserProfileIInv
<1>9. ASSUME NEW e \in events, HandleOther(e) PROVE IInv'
  BY <1>9, HandleOtherIInv
<1>10. ASSUME NEW e \in events, DisconnectClient(e) PROVE IInv'
  BY <1>10, DisconnectIInv
<1>11. CASE UNCHANGED vars
  <2>1. UNCHANGED <<client_sockets, events, sock, epoll, backlog, dialled,
                    inbox, hup, UsersByFD, UsersByName, UsersByID,
                    authed, switched, overlapped>>
    BY <1>11 DEF vars, kernel, registry, history
  <2>2. TypeOK' /\ SlotsMatchSockets' /\ IdentityMatches' /\ NameAndIDAgree'
    BY <2>1 DEF IInv, TypeOK, SlotsMatchSockets, IdentityMatches,
                NameAndIDAgree
  <2>3. BatchIsFresh' /\ OnlineIsReachable' /\ OneDevice'
    BY <2>1 DEF IInv, BatchIsFresh, Stale, Readable, OnlineIsReachable,
                Reachable, Open, OneDevice
  <2>4. ConnsAreDistinct' /\ SlotsHoldTheirSSL' /\ OnlyOpenConnsAct'
    BY <2>1 DEF IInv, ConnsAreDistinct, SlotsHoldTheirSSL, OnlyOpenConnsAct,
                Open
  <2>5. CopiesAreFaithful' /\ RoutesMirrorFDs'
    BY <2>1 DEF IInv, CopiesAreFaithful, RoutesMirrorFDs
  <2>. QED
    BY <2>2, <2>3, <2>4, <2>5 DEF IInv
<1>. QED
  BY <1>1, <1>2, <1>3, <1>4, <1>5, <1>6, <1>7, <1>8, <1>9, <1>10, <1>11
     DEF Next, Clients, HandleEvent, ClientEvent

\* The strengthened invariant holds in every reachable state.
THEOREM RegistryInvariant == Spec => []IInv
  BY InitIInv, NextIInv, PTL DEF Spec

\* The variables keep their types: slots, entries and histories are what the C
\* structs declare, for every size of the tables.
THEOREM RegistryTyped == Spec => []TypeOK
<1>1. IInv => TypeOK
  BY DEF IInv
<1>. QED
  BY <1>1, RegistryInvariant, PTL

\* The slot table, the descriptor table and the epoll set agree.
THEOREM SlotsFollowSockets == Spec => []SlotsMatchSockets
<1>1. IInv => SlotsMatchSockets
  BY DEF IInv
<1>. QED
  BY <1>1, RegistryInvariant, PTL

\* The test for stale events in the loop never fires: an event still in the
\* batch is about the connection that is in its slot now.
THEOREM EventsAreFresh == Spec => []BatchIsFresh
<1>1. IInv => BatchIsFresh
  BY DEF IInv
<1>. QED
  BY <1>1, RegistryInvariant, PTL

\* A request always runs under the identity its own connection authenticated
\* as; reusing a slot or a descriptor never passes an identity on.
THEOREM RequestsKeepIdentity == Spec => []IdentityMatches
<1>1. IInv => IdentityMatches
  BY DEF IInv
<1>. QED
  BY <1>1, RegistryInvariant, PTL

\* The entry found by id leads over the one found by descriptor to a slot, and
\* from there to the connection.
LEMMA RouteLeadsToOwner == IInv => PushReachesOwner
<1> SUFFICES ASSUME IInv, NEW u \in Users \ switched, UsersByID[u] # Absent
             PROVE  /\ Holds(UsersByID[u].con)
                    /\ authed[sock[UsersByID[u].con.fd]] = u
                    /\ UsersByID[u].con.encrypt =>
                           UsersByID[u].con.ssl = sock[UsersByID[u].con.fd]
  BY DEF PushReachesOwner, ReachesOwner
<1> DEFINE f == UsersByID[u].con.fd
<1>1. UsersByID[u].id = u /\ f \in FDs /\ UsersByFD[f] = UsersByID[u]
  BY DEF IInv, RoutesMirrorFDs
<1>2. PICK i \in Slots : /\ client_sockets[i].connected
                         /\ client_sockets[i].fd = f
                         /\ UsersByID[u].con = client_sockets[i]
  BY <1>1 DEF IInv, CopiesAreFaithful
<1>3. sock[f] # NoConn
  BY <1>1, <1>2 DEF IInv, SlotsMatchSockets
<1>4. authed[sock[f]] = u
  BY <1>1, <1>3 DEF IInv, IdentityMatches
<1>5. UsersByID[u].con.encrypt => UsersByID[u].con.ssl = sock[f]
  BY <1>2 DEF IInv, SlotsHoldTheirSSL
<1>. QED
  BY <1>2, <1>3, <1>4, <1>5 DEF Holds

\* A push reaches a connection of its addressee, through the socket and the SSL
\* object that connection has now, unless the account was left behind by a
\* second auth.
THEOREM PushesReachTheirOwner == Spec => []PushReachesOwner
  BY RouteLeadsToOwner, RegistryInvariant, PTL

\* A connected account that was never on two connections at once is found by
\* every push, and the presence map agrees with the route map.
THEOREM OnlineAccountsAreFound == Spec => [](OnlineIsReachable /\ NameAndIDAgree)
<1>1. IInv => OnlineIsReachable /\ NameAndIDAgree
  BY DEF IInv
<1>. QED
  BY <1>1, RegistryInvariant, PTL
=============================================================================
