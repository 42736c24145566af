---------------------------- MODULE YampRegistry ----------------------------
(***************************************************************************)
(* The connection table and the user registry of yampd: the epoll loop of  *)
(* main.c, the slots of client_sockets, and the three hash maps UsersByFD, *)
(* UsersByName and UsersByID through which a request finds the identity of *)
(* its sender and a push finds the socket of its addressee.                *)
(*                                                                         *)
(* Everything here runs in one thread; what makes it hard is that the same *)
(* connection is known by three names that outlive one another: the file   *)
(* descriptor (reused by the kernel as soon as it is closed), the slot     *)
(* (reused as soon as `connected' is 0) and the Connection struct, which   *)
(* "auth" copies by value into the maps.                                   *)
(*                                                                         *)
(* A connection is numbered in the order clients dial; the number stands   *)
(* for the peer and, for TLS, for its SSL object.  The server never sees   *)
(* it: only sock (the kernel's table) and the ssl field hold it.           *)
(*                                                                         *)
(* Frames arrive whole here and no call blocks; YampFraming has the calls  *)
(* that do, and what becomes of the loop then.                             *)
(***************************************************************************)
EXTENDS Integers, FiniteSets

CONSTANTS
    Users,        \* accounts of the users table
    NoUser,       \* no account: the empty hash map slot
    FDs,          \* file descriptors the kernel may hand out
    NoFD,         \* the fd field of a zeroed slot
    MAX_CLIENTS,  \* size of client_sockets
    MAX_EVENTS,   \* size of the array epoll_wait fills
    MaxConns      \* bound: connections dialled in one behaviour

ASSUME UsersAssumption == NoUser \notin Users
ASSUME FDsAssumption   == NoFD \notin FDs
ASSUME SizesAssumption ==
    /\ MAX_CLIENTS \in Nat \ {0}
    /\ MAX_EVENTS \in Nat \ {0}
    /\ MaxConns \in Nat \ {0}

Slots  == 0 .. MAX_CLIENTS - 1
Conns  == 1 .. MaxConns
NoConn == 0

EV_PLAIN_LISTEN == MAX_CLIENTS
EV_TLS_LISTEN   == MAX_CLIENTS + 1
Listeners       == {EV_PLAIN_LISTEN, EV_TLS_LISTEN}

\* The payload of epoll_event.data: EvKey(fd, idx).
EvKey(fd, idx) == [fd |-> fd, idx |-> idx]

Connection == [connected : BOOLEAN,
               encrypt   : BOOLEAN,
               fd        : FDs \cup {NoFD},
               ssl       : Conns \cup {NoConn}]

ZeroConnection == [connected |-> FALSE, encrypt |-> FALSE,
                   fd |-> NoFD, ssl |-> NoConn]

\* An entry of the hash maps: the user struct, with its copy of the
\* Connection.  hashmap_get's NULL is the entry Absent.
Entry  == [id : Users \cup {NoUser}, con : Connection]
Absent == [id |-> NoUser, con |-> ZeroConnection]

\* What a client may ask: "auth" with a token of one of the accounts,
\* "UpdateUserProfile", or any request that leaves the registry alone (an auth
\* whose token is unknown, malformed JSON, every other endpoint), or a frame
\* that announces more than YAMP_MAX_PAYLOAD bytes.
NoRequest == [endpoint |-> "none", user |-> NoUser]
Requests  == [endpoint : {"auth"}, user : Users] \cup
             [endpoint : {"UpdateUserProfile", "other", "oversized"},
              user : {NoUser}]

VARIABLES
    client_sockets, \* [Slots -> Connection]
    sock,           \* kernel: the connection open on each fd, or NoConn
    epoll,          \* kernel: the keys registered with epfd
    backlog,        \* kernel: per listener, connections not accepted yet
    events,         \* the events of the current batch not handled yet
    dialled,        \* number of connections dialled so far
    inbox,          \* per connection, the request waiting in the socket
    hup,            \* connections whose peer has hung up
    UsersByFD, UsersByName, UsersByID,
    \* History variables: no guard reads them.
    authed,         \* the account each connection last authenticated as
    switched,       \* accounts left behind by a second auth on a connection
    overlapped      \* accounts that have been on two connections at once

kernel   == <<sock, epoll, backlog, dialled, inbox, hup>>
registry == <<UsersByFD, UsersByName, UsersByID>>
history  == <<authed, switched, overlapped>>
vars     == <<client_sockets, events, kernel, registry, history>>

Open == {k \in Conns : \E f \in FDs : sock[f] = k}

Init ==
    /\ client_sockets = [i \in Slots |-> ZeroConnection]
    /\ sock = [f \in FDs |-> NoConn]
    /\ epoll = {}
    /\ backlog = [l \in Listeners |-> {}]
    /\ events = {}
    /\ dialled = 0
    /\ inbox = [k \in Conns |-> NoRequest]
    /\ hup = {}
    /\ UsersByFD = [f \in FDs |-> Absent]
    /\ UsersByName = [u \in Users |-> Absent]
    /\ UsersByID = [u \in Users |-> Absent]
    /\ authed = [k \in Conns |-> NoUser]
    /\ switched = {}
    /\ overlapped = {}

-----------------------------------------------------------------------------
(* The clients.                                                            *)

Dial(l) ==
    /\ dialled < MaxConns
    /\ dialled' = dialled + 1
    /\ backlog' = [backlog EXCEPT ![l] = @ \cup {dialled + 1}]
    /\ UNCHANGED <<client_sockets, events, sock, epoll, inbox, hup,
                   registry, history>>

Send(k, r) ==
    /\ k \in Open \ hup
    /\ inbox[k] = NoRequest
    /\ inbox' = [inbox EXCEPT ![k] = r]
    /\ UNCHANGED <<client_sockets, events, sock, epoll, backlog, dialled, hup,
                   registry, history>>

HangUp(k) ==
    /\ k \in Open \ hup
    /\ hup' = hup \cup {k}
    /\ UNCHANGED <<client_sockets, events, sock, epoll, backlog, dialled,
                   inbox, registry, history>>

-----------------------------------------------------------------------------
(* The epoll loop.  epoll_wait returns as many ready keys as fit, in an    *)
(* order of the kernel's choosing; the loop handles all of them before it  *)
(* asks again, while new data, hang-ups and dials keep arriving.           *)

Readable(f) == inbox[sock[f]] # NoRequest \/ sock[f] \in hup

Ready == {e \in epoll : sock[e.fd] # NoConn /\ Readable(e.fd)} \cup
         {EvKey(NoFD, l) : l \in {m \in Listeners : backlog[m] # {}}}

Batches ==
    {B \in SUBSET Ready : Cardinality(B) =
        IF Cardinality(Ready) < MAX_EVENTS THEN Cardinality(Ready)
                                           ELSE MAX_EVENTS}

epoll_wait(B) ==
    /\ events = {}
    /\ B # {}
    /\ events' = B
    /\ UNCHANGED <<client_sockets, kernel, registry, history>>

\* Mutants: the loop over the slots counts from 1 to MAX_CLIENTS; it skips the
\* test of `connected'.
FreeSlotsFromOne ==
    {i \in 1 .. MAX_CLIENTS : i = MAX_CLIENTS \/ ~client_sockets[i].connected}
AllSlots == Slots

\* The first slot whose connection is over takes the new one.
FreeSlots == {i \in Slots : ~client_sockets[i].connected}

Place(k, f, tls) ==
    \E i \in FreeSlots :
        /\ \A j \in FreeSlots : i <= j
        /\ client_sockets' = [client_sockets EXCEPT ![i] =
               [connected |-> TRUE, encrypt |-> tls, fd |-> f,
                ssl |-> IF tls THEN k ELSE NoConn]]
        /\ epoll' = epoll \cup {EvKey(f, i)}
        /\ sock' = [sock EXCEPT ![f] = k]

\* accept() and the placement of its result; a full table closes the new
\* socket at once.  Any fd that is free may come back: other threads open and
\* close descriptors of their own.
Accept(l) ==
    /\ EvKey(NoFD, l) \in events
    /\ events' = events \ {EvKey(NoFD, l)}
    /\ \E k \in backlog[l] :
        /\ backlog' = [backlog EXCEPT ![l] = @ \ {k}]
        /\ IF FreeSlots # {}
             THEN \E f \in {g \in FDs : sock[g] = NoConn} :
                      Place(k, f, l = EV_TLS_LISTEN)
             ELSE UNCHANGED <<client_sockets, sock, epoll>>
    /\ UNCHANGED <<dialled, inbox, hup, registry, history>>

\* accept() or SSL_accept() fails: the dialled connection is lost before it
\* gets a slot, or (no descriptor left) it stays in the backlog and the
\* listener fires again.
AcceptFails(l) ==
    /\ EvKey(NoFD, l) \in events
    /\ events' = events \ {EvKey(NoFD, l)}
    /\ \/ UNCHANGED backlog
       \/ \E k \in backlog[l] : backlog' = [backlog EXCEPT ![l] = @ \ {k}]
    /\ UNCHANGED <<client_sockets, sock, epoll, dialled, inbox, hup,
                   registry, history>>

-----------------------------------------------------------------------------
(* One event of a client socket.  Stale is the test in front of the        *)
(* handlers: the slot is free, or holds another descriptor by now.         *)

Stale(e) == \/ ~client_sockets[e.idx].connected
            \/ client_sockets[e.idx].fd # e.fd

Fresh(e) == /\ e \in events
            /\ e.idx \in Slots
            /\ ~Stale(e)

\* YAMPRecv and TLSYAMPRecv return 1: a whole frame was read.  Only the plain
\* one refuses a frame longer than YAMP_MAX_PAYLOAD.
Receives(e) ==
    /\ inbox[sock[e.fd]] # NoRequest
    /\ \/ inbox[sock[e.fd]].endpoint # "oversized"
       \/ client_sockets[e.idx].encrypt

RecvFails(e) == \/ sock[e.fd] \in hup
                \/ /\ inbox[sock[e.fd]].endpoint = "oversized"
                   /\ ~client_sockets[e.idx].encrypt

Consume(e) ==
    /\ Fresh(e)
    /\ Receives(e)
    /\ events' = events \ {e}
    /\ inbox' = [inbox EXCEPT ![sock[e.fd]] = NoRequest]
    /\ UNCHANGED <<client_sockets, sock, epoll, backlog, dialled, hup>>

\* UserFromCon: the identity of a request is looked up by descriptor.
UserFromCon(e) == UsersByFD[client_sockets[e.idx].fd]

\* Mutants of the updates of the maps and of the slot.
KeepByFD(fd)      == UNCHANGED UsersByFD
KeepByID(id)      == UNCHANGED UsersByID
StoreNewByID(usr) == UsersByID' = [UsersByID EXCEPT ![usr.id] =
                                       IF @ = Absent THEN usr ELSE @]
OnlySSLFreed(c)   == [c EXCEPT !.ssl = NoConn]

\* hashmap_set and hashmap_delete on the three maps.
StoreByFD(usr)   == UsersByFD'   = [UsersByFD EXCEPT ![usr.con.fd] = usr]
StoreByName(usr) == UsersByName' = [UsersByName EXCEPT ![usr.id] = usr]
StoreByID(usr)   == UsersByID'   = [UsersByID EXCEPT ![usr.id] = usr]
RemoveByFD(fd)   == UsersByFD'   = [UsersByFD EXCEPT ![fd] = Absent]
RemoveByName(id) == UsersByName' = [UsersByName EXCEPT ![id] = Absent]
RemoveByID(id)   == UsersByID'   = [UsersByID EXCEPT ![id] = Absent]

\* A slot whose connection is over keeps its fd and its encrypt flag.
Closed(c) == [c EXCEPT !.connected = FALSE, !.ssl = NoConn]

\* Connections other than k that are open and last authenticated as u.
OtherDevices(u, k) == {j \in Open \ {k} : authed[j] = u}

\* "auth" with a token of u: the same new user struct, with a copy of the
\* connection, goes into the three maps; nothing removes the entries of the
\* account this connection was authenticated as before.
HandleAuth(e) ==
    LET k   == sock[e.fd]
        c   == client_sockets[e.idx]
        u   == inbox[k].user
        new == [id |-> u, con |-> c]
        old == authed[k]
    IN  /\ Consume(e)
        /\ inbox[k].endpoint = "auth"
        /\ StoreByFD(new)
        /\ StoreByName(new)
        /\ StoreByID(new)
        /\ authed'      = [authed EXCEPT ![k] = u]
        /\ switched'    = (switched \cup
               {v \in Users : v = old /\ UsersByID[v].con.fd = c.fd}) \ {u}
        /\ overlapped'  =
               (overlapped \ {v \in Users : v = old /\ OtherDevices(v, k) = {}})
               \cup {v \in Users : v = u /\ OtherDevices(v, k) # {}}

\* "UpdateUserProfile": the entry found by descriptor is stored again under
\* the name and the id (the name itself does not change).
HandleUpdateUserProfile(e) ==
    LET k     == sock[e.fd]
        found == UserFromCon(e)
    IN  /\ Consume(e)
        /\ inbox[k].endpoint = "UpdateUserProfile"
        /\ IF found = Absent
             THEN UNCHANGED <<registry, history>>
             ELSE /\ StoreByFD(found)
                  /\ StoreByName(found)
                  /\ StoreByID(found)
                  /\ switched' = switched \ {found.id}
                  /\ UNCHANGED <<authed, overlapped>>

HandleOther(e) ==
    /\ Consume(e)
    /\ inbox[sock[e.fd]].endpoint \in {"other", "oversized"}
    /\ UNCHANGED <<registry, history>>

\* DisconnectClient: the entries of the user found by descriptor are removed
\* by id and by name, whichever connection those name by now.
DisconnectClient(e) ==
    LET k   == sock[e.fd]
        usr == UserFromCon(e)
        sd  == client_sockets[e.idx].fd
    IN  /\ Fresh(e)
        /\ RecvFails(e)
        /\ events' = events \ {e}
        /\ IF usr = Absent
             THEN UNCHANGED <<registry, switched>>
             ELSE /\ RemoveByID(usr.id)
                  /\ RemoveByName(usr.id)
                  /\ RemoveByFD(sd)
                  /\ switched' = switched \ {usr.id}
        /\ epoll' = {r \in epoll : r.fd # sd}
        /\ sock' = [sock EXCEPT ![sd] = NoConn]
        /\ client_sockets' = [client_sockets EXCEPT ![e.idx] = Closed(@)]
        /\ inbox' = [inbox EXCEPT ![k] = NoRequest]
        /\ hup' = hup \ {k}
        /\ authed' = [authed EXCEPT ![k] = NoUser]
        /\ overlapped' = overlapped \
               {v \in Users : v = authed[k] /\ OtherDevices(v, k) = {}}
        /\ UNCHANGED <<backlog, dialled>>

-----------------------------------------------------------------------------
Clients ==
    \/ \E l \in Listeners : Dial(l)
    \/ \E k \in Conns : HangUp(k) \/ \E r \in Requests : Send(k, r)

ClientEvent(e) ==
    \/ HandleAuth(e)
    \/ HandleUpdateUserProfile(e)
    \/ HandleOther(e)
    \/ DisconnectClient(e)

HandleEvent ==
    \/ \E l \in Listeners : Accept(l) \/ AcceptFails(l)
    \/ \E e \in events : ClientEvent(e)

Next ==
    \/ Clients
    \/ \E B \in Batches : epoll_wait(B)
    \/ HandleEvent

Spec == Init /\ [][Next]_vars

-----------------------------------------------------------------------------
(* Properties.                                                             *)

TypeOK ==
    /\ client_sockets \in [Slots -> Connection]
    /\ sock \in [FDs -> Conns \cup {NoConn}]
    /\ epoll \subseteq [fd : FDs, idx : Slots]
    /\ backlog \in [Listeners -> SUBSET Conns]
    /\ events \subseteq [fd : FDs \cup {NoFD}, idx : Slots \cup Listeners]
    /\ dialled \in 0 .. MaxConns
    /\ inbox \in [Conns -> Requests \cup {NoRequest}]
    /\ hup \subseteq Conns
    /\ UsersByFD \in [FDs -> Entry]
    /\ UsersByName \in [Users -> Entry]
    /\ UsersByID \in [Users -> Entry]
    /\ authed \in [Conns -> Users \cup {NoUser}]
    /\ switched \subseteq Users
    /\ overlapped \subseteq Users

\* The slot table, the kernel's descriptor table and the epoll set describe
\* the same connections, whatever the order of accepts and disconnects within
\* a batch: a connected slot holds an open descriptor of its own, registered
\* under that slot, and no open descriptor or registration is left without its
\* slot (main.c accept branches and DisconnectClient).
SlotsMatchSockets ==
    /\ epoll = {EvKey(client_sockets[i].fd, i) :
                    i \in {j \in Slots : client_sockets[j].connected}}
    /\ \A i, j \in Slots :
           (/\ client_sockets[i].connected
            /\ client_sockets[j].connected
            /\ client_sockets[i].fd = client_sockets[j].fd) => i = j
    /\ \A f \in FDs :
           sock[f] # NoConn <=>
               \E i \in Slots : /\ client_sockets[i].connected
                                /\ client_sockets[i].fd = f

\* No event of a batch outlives its connection although slots and descriptors
\* are reused while the batch is worked off: the test "stale event" of the
\* loop never fires, and every client event still finds its connection ready.
BatchIsFresh ==
    \A e \in events : e.idx \in Slots =>
        /\ ~Stale(e)
        /\ sock[e.fd] # NoConn
        /\ Readable(e.fd)

\* The identity a request runs under is the account that this very connection
\* authenticated as: a new connection on a reused descriptor inherits nothing,
\* and a closed descriptor has no identity (UserFromCon, DisconnectClient).
IdentityMatches ==
    \A f \in FDs :
        UsersByFD[f].id = IF sock[f] = NoConn THEN NoUser
                                              ELSE authed[sock[f]]

\* PushEvent writes to the descriptor or, with encrypt set, to the SSL object
\* of the entry's copy of the connection, if that copy says connected.
Holds(con) == con.connected /\ sock[con.fd] # NoConn

\* A push reaches a connection authenticated as its addressee, over the
\* descriptor and the SSL object that connection has now, unless the account
\* was left behind by a second auth on a connection (PushEvent, "auth",
\* DisconnectClient).
ReachesOwner(u) ==
    UsersByID[u] # Absent =>
        LET con == UsersByID[u].con IN
        /\ Holds(con)
        /\ authed[sock[con.fd]] = u
        /\ con.encrypt => con.ssl = sock[con.fd]

PushReachesOwner == \A u \in Users \ switched : ReachesOwner(u)

\* "toID: the ID of the user to send to", as the push functions document it: a
\* connection that has not authenticated at all is not that user, so nothing is
\* pushed to it (PushFQ, PushRecvIM, PushStatusUpdate).
PushNeverReachesStranger ==
    \A u \in Users :
        (UsersByID[u] # Absent /\ Holds(UsersByID[u].con)) =>
            authed[sock[UsersByID[u].con.fd]] # NoUser

\* A connected user is found by a push: while a connection is authenticated as
\* u, UsersByID leads to it, unless u has been on two connections at once, when
\* the disconnect of either removes the entry of the other (DisconnectClient).
Reachable(u) ==
    \A k \in Open : authed[k] = u =>
        /\ UsersByID[u] # Absent
        /\ sock[UsersByID[u].con.fd] = k

OnlineIsReachable == \A u \in Users \ overlapped : Reachable(u)

\* The map by name (the source of the presence other users are shown) and the
\* map by id (the route of the pushes) always hold the same entries.
NameAndIDAgree == UsersByName = UsersByID
=============================================================================
