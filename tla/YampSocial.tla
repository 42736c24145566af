----------------------------- MODULE YampSocial -----------------------------
(***************************************************************************)
(* Friend requests, friendships and direct conversations: the tables       *)
(* friendreq, friendship and dm, the endpoints that change them, and what  *)
(* a connected client has been told of them.                               *)
(*                                                                         *)
(* The schema puts no key on the three tables, so it is the handlers that  *)
(* must keep them sensible, each with a SELECT before its INSERT.  Every   *)
(* SQL statement commits on its own: a handler with two writes can be cut  *)
(* in two by a crash, and a write whose result code is ignored can fail    *)
(* without anybody being told.  Requests are handled one at a time.        *)
(*                                                                         *)
(* A table is a function from pairs of ids to the number of its rows.      *)
(* One device per account: YampRegistry models the others.                 *)
(***************************************************************************)
EXTENDS Integers, FiniteSets

CONSTANTS
    Users,       \* ids of the accounts
    NameOf,      \* the name of each account
    Strangers,   \* ids a client may send that belong to no account
    MaxRequests  \* bound: rows of friendreq for one pair

ASSUME StrangersAssumption   == Users \cap Strangers = {}
ASSUME MaxRequestsAssumption == MaxRequests \in Nat \ {0}

Ids   == Users \cup Strangers
Pairs == Users \X Users

VARIABLES
    friendreq,    \* rows (sender, recver)
    friendship,   \* rows (sender, accepter)
    dm,           \* rows (starter, recipient)
    job,          \* the request being handled, between two of its writes
    online,       \* accounts with an authenticated connection
    knownFriends, \* per account, the friends its client was told of
    knownReqs,    \* per account, the requesters its client was told of
    \* History variables: no guard reads them.
    asked,        \* pairs (sender, recver) whose request was answered "ok"
    waiting,      \* pairs with a stored request not accepted or denied since
    accepted,     \* pairs whose stored request was accepted
    lost          \* pairs whose friendship a fault swallowed

vars == <<friendreq, friendship, dm, job, online, knownFriends, knownReqs,
          asked, waiting, accepted, lost>>

Idle == [step |-> "idle"]
Inserting(p) == [step |-> "insert", pair |-> p]

Init ==
    /\ friendreq = [p \in Pairs |-> 0]
    /\ friendship = [p \in Pairs |-> 0]
    /\ dm = [p \in Users \X Ids |-> 0]
    /\ job = Idle
    /\ online = {}
    /\ knownFriends = [u \in Users |-> {}]
    /\ knownReqs = [u \in Users |-> {}]
    /\ asked = {}
    /\ waiting = {}
    /\ accepted = {}
    /\ lost = {}

-----------------------------------------------------------------------------
(* The queries.                                                            *)

\* Mutants of the queries: the columns are swapped; the second order of the
\* pair is forgotten.
AreFriendsSwapped(user1, user2) ==
    \E p \in Pairs : friendship[p] > 0 /\ p[1] = user2 /\ p[2] = user1
HasStarted(starter, recipient) ==
    \E p \in Users \X Ids : dm[p] > 0 /\ p[1] = starter /\ p[2] = recipient

\* WHERE (sender = ?1 AND accepter = ?2) OR (accepter = ?3 AND sender = ?4)
\* with user1, user2, user2, user1 bound in that order.
AreFriends(user1, user2) ==
    \E p \in Pairs :
        /\ friendship[p] > 0
        /\ \/ p[1] = user1 /\ p[2] = user2
           \/ p[2] = user2 /\ p[1] = user1

\* WHERE (starter = ?1 AND recipient = ?2) OR (starter = ?3 AND recipient = ?4)
\* with starter, recipient, recipient, starter bound in that order.
HasDMs(starter, recipient) ==
    \E p \in Users \X Ids :
        /\ dm[p] > 0
        /\ \/ p[1] = starter /\ p[2] = recipient
           \/ p[1] = recipient /\ p[2] = starter

\* The friends list "auth" and "ListFriends" send: both columns are looked at.
FriendsList(u) ==
    {v \in Users \ {u} : friendship[<<u, v>>] > 0 \/ friendship[<<v, u>>] > 0}

\* The incoming_fq list "auth" sends: ListFriendReqs puts the id of the sender
\* in the field username, and CreateUserObjectFromUsername looks up the account
\* that has this id for its name.
IncomingFQ(u) ==
    {v \in Users : \E s \in Users : friendreq[<<s, u>>] > 0 /\ NameOf[v] = s}

-----------------------------------------------------------------------------
(* The writes.                                                             *)

Add(table, p) == [table EXCEPT ![p] = @ + 1]

\* Mutant of DELETE: both directions go.
DeleteBoth(table, s, r) == [table EXCEPT ![<<s, r>>] = 0, ![<<r, s>>] = 0]

\* DELETE FROM friendreq WHERE sender = s AND recver = r: every such row.  (If
\* the statement fails nothing changes, and the handlers do nothing else.)
Delete(table, s, r) == [table EXCEPT ![<<s, r>>] = 0]

\* Mutant of the pushes: only the sender is told.
TellSender(s, u) == knownFriends' =
    [v \in Users |-> knownFriends[v] \cup
        IF v = s /\ v \in online THEN {u} ELSE {}]

\* PushNewFriend to both sides; an account without a connection is skipped.
PushNewFriends(s, u) == knownFriends' =
    [v \in Users |-> knownFriends[v] \cup
        CASE v \notin online -> {}
          [] v \in online /\ v = s -> {u}
          [] v \in online /\ v = u -> {s}
          [] OTHER -> {}]

-----------------------------------------------------------------------------
(* The endpoints.                                                          *)

auth(u) ==
    /\ job = Idle
    /\ online' = online \cup {u}
    /\ knownFriends' = [knownFriends EXCEPT ![u] = FriendsList(u)]
    /\ knownReqs' = [knownReqs EXCEPT ![u] = IncomingFQ(u)]
    /\ UNCHANGED <<friendreq, friendship, dm, job, asked, waiting,
                   accepted, lost>>

\* "ListFriends" sends the same list to a connected client again.
ListFriends(u) ==
    /\ job = Idle
    /\ u \in online
    /\ knownFriends' = [knownFriends EXCEPT ![u] = FriendsList(u)]
    /\ UNCHANGED <<friendreq, friendship, dm, job, online, knownReqs, asked,
                   waiting, accepted, lost>>

Disconnect(u) ==
    /\ job = Idle
    /\ u \in online
    /\ online' = online \ {u}
    /\ knownFriends' = [knownFriends EXCEPT ![u] = {}]
    /\ knownReqs' = [knownReqs EXCEPT ![u] = {}]
    /\ UNCHANGED <<friendreq, friendship, dm, job, asked, waiting,
                   accepted, lost>>

MayAsk(u, target) == u # target /\ ~AreFriends(u, target)

\* The answer is "ok" and the event is pushed whether or not the INSERT worked.
SendFriendReq(u, target) ==
    /\ job = Idle
    /\ u \in online
    /\ MayAsk(u, target)
    /\ \/ /\ friendreq[<<u, target>>] < MaxRequests
          /\ friendreq' = Add(friendreq, <<u, target>>)
          /\ waiting' = waiting \cup {<<u, target>>}
       \/ UNCHANGED <<friendreq, waiting>>
    /\ knownReqs' = [v \in Users |-> knownReqs[v] \cup
           IF v = target /\ v \in online THEN {u} ELSE {}]
    /\ asked' = asked \cup {<<u, target>>}
    /\ UNCHANGED <<friendship, dm, job, online, knownFriends, accepted, lost>>

\* Mutant: the result of the DELETE is taken for its number of rows.
AlwaysDeletes(s, u) == TRUE

\* DestroyFriendReq returns whether it deleted a row.
Deletes(s, u) == friendreq[<<s, u>>] > 0

\* The first write of "AcceptFriendReq": u names the sender s.
AcceptFriendReq(u, s) ==
    /\ job = Idle
    /\ u \in online
    /\ Deletes(s, u)
    /\ friendreq' = Delete(friendreq, s, u)
    /\ job' = Inserting(<<s, u>>)
    /\ waiting' = waiting \ {<<s, u>>}
    /\ accepted' = accepted \cup {<<s, u>>}
    /\ UNCHANGED <<friendship, dm, online, knownFriends, knownReqs, asked,
                   lost>>

\* Mutant: the row is written only if the requester is connected.
CreateFriendshipIfOnline(p) ==
    /\ friendship' = IF p[1] \in online THEN Add(friendship, p) ELSE friendship
    /\ UNCHANGED lost

\* The result of the INSERT is ignored.
CreateFriendship(p) ==
    \/ /\ friendship' = Add(friendship, p)
       /\ lost' = lost \ {p}
    \/ /\ UNCHANGED friendship
       /\ lost' = lost \cup {p}

\* The rest of it.
FinishAccept ==
    /\ job.step = "insert"
    /\ LET s == job.pair[1]
           u == job.pair[2]
       IN  IF AreFriends(s, u)
             THEN UNCHANGED <<friendship, knownFriends, lost>>
             ELSE CreateFriendship(job.pair) /\ PushNewFriends(s, u)
    /\ job' = Idle
    /\ UNCHANGED <<friendreq, dm, online, knownReqs, asked, waiting, accepted>>

DenyFriendReq(u, s) ==
    /\ job = Idle
    /\ u \in online
    /\ ~AreFriends(s, u)
    /\ friendreq' = Delete(friendreq, s, u)
    /\ waiting' = waiting \ {<<s, u>>}
    /\ UNCHANGED <<friendship, dm, job, online, knownFriends, knownReqs,
                   asked, accepted, lost>>

\* The recipient is whatever id the client sends.  (The INSERT may fail; the
\* answer is "ok" all the same.)
StartDM(u, recipient) ==
    /\ job = Idle
    /\ u \in online
    /\ ~HasDMs(u, recipient)
    /\ dm' = Add(dm, <<u, recipient>>)
    /\ UNCHANGED <<friendreq, friendship, job, online, knownFriends, knownReqs,
                   asked, waiting, accepted, lost>>

\* The process dies and is started again on the same database file.
Crash ==
    /\ job' = Idle
    /\ online' = {}
    /\ knownFriends' = [u \in Users |-> {}]
    /\ knownReqs' = [u \in Users |-> {}]
    /\ lost' = lost \cup (IF job = Idle THEN {} ELSE {job.pair})
    /\ UNCHANGED <<friendreq, friendship, dm, asked, waiting, accepted>>

Next ==
    \/ \E u \in Users : auth(u) \/ ListFriends(u) \/ Disconnect(u)
    \/ \E u, v \in Users : \/ SendFriendReq(u, v)
                           \/ AcceptFriendReq(u, v)
                           \/ DenyFriendReq(u, v)
    \/ \E u \in Users, r \in Ids : StartDM(u, r)
    \/ FinishAccept
    \/ Crash

Spec == Init /\ [][Next]_vars

-----------------------------------------------------------------------------
(* Properties.                                                             *)

TypeOK ==
    /\ friendreq \in [Pairs -> 0 .. MaxRequests]
    /\ friendship \in [Pairs -> Nat]
    /\ dm \in [Users \X Ids -> Nat]
    /\ job \in {Idle} \cup {Inserting(p) : p \in Pairs}
    /\ online \subseteq Users
    /\ knownFriends \in [Users -> SUBSET Users]
    /\ knownReqs \in [Users -> SUBSET Users]
    /\ asked \subseteq Pairs
    /\ waiting \subseteq Pairs
    /\ accepted \subseteq Pairs
    /\ lost \subseteq Pairs

\* However often a request is sent, accepted, repeated by an impatient client
\* or cut short by a crash, the table never holds the same friendship twice
\* (AcceptFriendReq's DELETE, AreFriends and INSERT).
FriendshipRowsUnique == \A p \in Pairs : friendship[p] <= 1

\* Nobody is his own friend or requester: CreateFriendsListFromUserID gives up
\* on such a row, and "auth" then reads a list that was never made.
NoSelfRows == \A u \in Users : friendreq[<<u, u>>] = 0 /\ friendship[<<u, u>>] = 0

\* A friendship exists only if its sender once asked for it; the accepter, who
\* names the sender freely, cannot make one up (DestroyFriendReq).
FriendshipWasAsked == \A p \in Pairs : friendship[p] > 0 => p \in asked

\* A request that was stored waits in the table until it is accepted or denied,
\* however often either side repeats itself, asks back or answers the other
\* request of the pair, and across crashes (DestroyFriendReq).
RequestsAreKept == \A p \in waiting : friendreq[p] > 0

\* Accepting a stored request makes the two friends, and they stay friends; only
\* a crash between the two writes of AcceptFriendReq or a failed INSERT of the
\* second one swallows the friendship (AcceptFriendReq, CreateFriendship).
AcceptedAreFriends ==
    \A p \in accepted \ lost : p[2] \in FriendsList(p[1]) \/ job = Inserting(p)

\* The friends a connected client was told of, by its list at
\* "auth" and the NewFriend events since, are those of the table; only a failed
\* INSERT leaves it with a friend the table does not have.
FriendViewMatches ==
    \A u \in online :
        /\ FriendsList(u) \subseteq knownFriends[u]
        /\ \A v \in knownFriends[u] \ FriendsList(u) :
               <<u, v>> \in lost \/ <<v, u>> \in lost

\* Two ids share one direct conversation, whoever of them started it (StartDM,
\* HasDMs).
DMUnique ==
    /\ \A u \in Users, r \in Ids : dm[<<u, r>>] <= 1
    /\ \A u, v \in Users :
           u # v /\ dm[<<u, v>>] > 0 => dm[<<v, u>>] = 0

\* Error 8, "Already friends": two accounts are friends once, whoever asked.
OneFriendshipPerPair ==
    \A u, v \in Users : u # v => friendship[<<u, v>>] + friendship[<<v, u>>] <= 1
=============================================================================
