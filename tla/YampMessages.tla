---------------------------- MODULE YampMessages ----------------------------
(***************************************************************************)
(* The messages of one channel: "SendMessage", "DeleteMessage" and         *)
(* "GetMessageHistory", and what the connected clients show of them.       *)
(*                                                                         *)
(* A client fills its view from three sources: the pages of the history,   *)
(* which it asks for from the newest backwards, and the recvim and         *)
(* MessageDeleted events that arrive in between.  The server pushes a      *)
(* message before it inserts it, ignores whether the INSERT worked, and    *)
(* announces a deletion whether or not the DELETE worked.  A page is named *)
(* by a message, which may be deleted while the request is on its way.     *)
(*                                                                         *)
(* Events and responses of a client share one socket and are written by    *)
(* one thread, so they arrive in the order they were made.  Whether the    *)
(* channel is a DM, a group or a channel of a space matters only for who   *)
(* its members are; members are added to groups and never removed.  The    *)
(* clock is assumed not to step back.                                      *)
(***************************************************************************)
EXTENDS Integers, FiniteSets, FiniteSetsExt

CONSTANTS
    Users,
    Ids,      \* ids of messages; each is generated once
    NULL,     \* no message
    LIMIT,    \* the limit of a page, after the clamp to 1 .. HISTORY_MAX_LIMIT
    MaxTime,  \* bound: the last second that is modelled
    MaxFaults \* bound: messages swallowed before another write may fail

ASSUME NULLAssumption  == NULL \notin Ids
ASSUME LIMITAssumption == LIMIT \in Nat \ {0}
ASSUME BoundsAssumption == MaxTime \in Nat /\ MaxFaults \in Nat

VARIABLES
    messages, \* rows of the table
    members,  \* the accounts the channel's events are pushed to
    now,      \* the clock
    job,      \* the message that is pushed and not inserted yet
    online,   \* accounts with an authenticated connection
    shown,    \* per account, the messages its client shows
    complete, \* accounts whose client was told that there is no older message
    asking,   \* per account, the page request on its way to the server
    \* History variables.
    sent,     \* ids generated so far
    faulty,   \* ids of messages a failed write or a crash swallowed
    stranded  \* accounts that asked for the page before a message that is gone

vars == <<messages, members, now, job, online, shown, complete, asking, sent,
          faulty, stranded>>

NoJob == [id |-> NULL]
NoAsk == "nothing"

Init ==
    /\ messages = {}
    /\ members \in SUBSET Users \ {{}}
    /\ now = 0
    /\ job = NoJob
    /\ online = {}
    /\ shown = [u \in Users |-> {}]
    /\ complete = {}
    /\ asking = [u \in Users |-> NoAsk]
    /\ sent = {}
    /\ faulty = {}
    /\ stranded = {}

client == <<shown, complete, asking, stranded>>

Stored == {m.id : m \in messages}

\* CanAccessChat: both ends of a DM, the rows of the group or of the space.
CanAccess(u) == u \in members

\* The members an event is written to; who is offline is skipped.
Audience == members \cap online

\* A handler starts when the one before has ended.
Handling(u) == job = NoJob /\ u \in online

-----------------------------------------------------------------------------
Tick ==
    /\ now < MaxTime
    /\ now' = now + 1
    /\ UNCHANGED <<messages, members, job, online, client, sent, faulty>>

Connect(u) ==
    /\ job = NoJob
    /\ u \notin online
    /\ online' = online \cup {u}
    /\ UNCHANGED <<messages, members, now, job, client, sent, faulty>>

\* The client of u forgets its view.
Forget(U) ==
    /\ online' = online \ U
    /\ shown' = [u \in Users |-> IF u \in U THEN {} ELSE shown[u]]
    /\ asking' = [u \in Users |-> IF u \in U THEN NoAsk ELSE asking[u]]
    /\ complete' = complete \ U
    /\ stranded' = stranded \ U

Disconnect(u) ==
    /\ Handling(u)
    /\ Forget({u})
    /\ UNCHANGED <<messages, members, now, job, sent, faulty>>

-----------------------------------------------------------------------------
\* Mutant: the replied message is not looked up.
MayReplyToAny(reply) == TRUE

\* Error 13, "Replied message does not exist".
MayReply(reply) == reply = NULL \/ reply \in Stored

\* Mutant: the stamp is rounded up to the next second.
StampNext == now + 1

\* msg.timestamp = time(NULL)
Stamp == now

\* PushRecvIM to every member, the sender included.
PushRecvIM(id) ==
    shown' = [u \in Users |-> IF u \in Audience
                                THEN shown[u] \cup {id} ELSE shown[u]]

\* The handler up to the INSERT.
SendMessage(u, id, reply) ==
    /\ Handling(u)
    /\ CanAccess(u)
    /\ MayReply(reply)
    /\ id \notin sent
    /\ sent' = sent \cup {id}
    /\ PushRecvIM(id)
    /\ job' = [id |-> id, author |-> u, reply |-> reply, timestamp |-> Stamp]
    /\ UNCHANGED <<messages, members, now, online, complete, asking, stranded,
                   faulty>>

\* A statement fails that writes the message id.
Fails(id) ==
    /\ Cardinality(faulty) < MaxFaults
    /\ faulty' = faulty \cup {id}

\* The rowid SQLite gives a new row: one more than the largest in use, so that
\* of a deleted last row may come back.
NextRowid == Max({m.rowid : m \in messages} \cup {0}) + 1

\* The rest of it.  InsertMessage ignores the result of its INSERT.
InsertMessage ==
    /\ job # NoJob
    /\ \/ /\ messages' = messages \cup
                 {[id |-> job.id, author |-> job.author, reply |-> job.reply,
                   timestamp |-> job.timestamp, rowid |-> NextRowid]}
          /\ UNCHANGED faulty
       \/ /\ Fails(job.id)
          /\ UNCHANGED messages
    /\ job' = NoJob
    /\ UNCHANGED <<members, now, online, client, sent>>

\* Mutant: the author alone hears of the deletion.
TellAuthor(u, id) == shown' = [shown EXCEPT ![u] = @ \ {id}]

\* PushMessageDeleted to every member.
PushMessageDeleted(u, id) ==
    shown' = [v \in Users |-> IF v \in Audience
                                THEN shown[v] \ {id} ELSE shown[v]]

\* The deletion is announced even if the DELETE failed.
DeleteMessage(u, m) ==
    /\ Handling(u)
    /\ m.author = u
    /\ \/ messages' = messages \ {m} /\ UNCHANGED faulty
       \/ Fails(m.id) /\ UNCHANGED messages
    /\ PushMessageDeleted(u, m.id)
    /\ UNCHANGED <<members, now, job, online, complete, asking, stranded, sent>>

\* The process dies and is started again on the same database file.
Crash ==
    /\ Forget(Users)
    /\ job' = NoJob
    /\ faulty' = faulty \cup ({job.id} \ {NULL})
    /\ UNCHANGED <<messages, members, now, sent>>

\* A deletion of a message that is gone: CreateMessageTypeFromID returns NULL,
\* whose author is read.
DeleteGone(u, id) ==
    /\ Handling(u)
    /\ id \in sent \ Stored
    /\ Crash

\* "AddMemberToGC".  A second row for the same member doubles its events, which
\* a view does not tell apart.
AddMemberToGC(u, v) ==
    /\ Handling(u)
    /\ u \in members
    /\ members' = members \cup {v}
    /\ UNCHANGED <<messages, now, job, online, client, sent, faulty>>

-----------------------------------------------------------------------------
\* A client asks for the newest page, or for the one before a message it shows.
AskPage(u, before) ==
    /\ u \in online
    /\ asking[u] = NoAsk
    /\ before \in shown[u] \cup {NULL}
    /\ asking' = [asking EXCEPT ![u] = before]
    /\ UNCHANGED <<messages, members, now, job, online, shown, complete,
                   stranded, sent, faulty>>

\* Mutant: messages of one second are not told apart.
OlderByTime(m, n) == m.timestamp < n.timestamp

\* ("timestamp", rowid) < ("timestamp", rowid)
Older(m, n) ==
    \/ m.timestamp < n.timestamp
    \/ m.timestamp = n.timestamp /\ m.rowid < n.rowid

\* WHERE of GetMessageHistoryPage: without a row for `before' the subquery is
\* NULL, and no row passes the comparison.
Candidates(before) ==
    IF before = NULL
      THEN messages
      ELSE {m \in messages : \E c \in messages : c.id = before /\ Older(m, c)}

\* The newest n of them.
Newest(n, C) == {m \in C : Cardinality({k \in C : Older(m, k)}) < n}

\* LIMIT + 1 rows are read; the last of them only says that there are more.
\* A user who is not a member gets error 2.
GetMessageHistory(u) ==
    /\ Handling(u)
    /\ asking[u] # NoAsk
    /\ asking' = [asking EXCEPT ![u] = NoAsk]
    /\ IF CanAccess(u)
         THEN LET C        == Candidates(asking[u])
                  has_more == Cardinality(Newest(LIMIT + 1, C)) > LIMIT
              IN  /\ shown' = [shown EXCEPT ![u] =
                                   @ \cup {m.id : m \in Newest(LIMIT, C)}]
                  /\ complete' = IF has_more THEN complete ELSE complete \cup {u}
                  /\ stranded' = IF asking[u] \in Stored \cup {NULL}
                                   THEN stranded ELSE stranded \cup {u}
         ELSE UNCHANGED <<shown, complete, stranded>>
    /\ UNCHANGED <<messages, members, now, job, online, sent, faulty>>

Next ==
    \/ Tick
    \/ Crash
    \/ InsertMessage
    \/ \E u \in Users :
           \/ Connect(u)
           \/ Disconnect(u)
           \/ GetMessageHistory(u)
           \/ \E id \in Ids, r \in Ids \cup {NULL} : SendMessage(u, id, r)
           \/ \E m \in messages : DeleteMessage(u, m)
           \/ \E id \in Ids : DeleteGone(u, id)
           \/ \E v \in Users : AddMemberToGC(u, v)
           \/ \E b \in Ids \cup {NULL} : AskPage(u, b)

Spec == Init /\ [][Next]_vars

-----------------------------------------------------------------------------
(* Properties.                                                             *)

Messages == [id : Ids, author : Users, reply : Ids \cup {NULL},
             timestamp : 0 .. now, rowid : Nat \ {0}]

TypeOK ==
    /\ messages \subseteq Messages
    /\ members \subseteq Users
    /\ now \in 0 .. MaxTime
    /\ job = NoJob \/ job \in [id : Ids, author : Users, reply : Ids \cup {NULL},
                               timestamp : 0 .. now]
    /\ online \subseteq Users
    /\ shown \in [Users -> SUBSET Ids]
    /\ complete \subseteq online
    /\ asking \in [Users -> Ids \cup {NULL, NoAsk}]
    /\ sent \subseteq Ids
    /\ faulty \subseteq sent
    /\ stranded \subseteq online

\* A client shows no message the history does not have: however sends,
\* deletions and page requests of several clients interleave, what was deleted
\* is gone from every view, unless a write failed (SendMessage, DeleteMessage,
\* GetMessageHistory).
NothingStale ==
    \A u \in online : shown[u] \subseteq Stored \cup faulty \cup {job.id}

\* A client that was told has_more = false shows the whole history, and keeps
\* doing so while others send and delete, unless a write failed or it asked for
\* the page before a message that was deleted meanwhile: that page is empty and
\* looks like the last one (GetMessageHistoryPage, has_more).
NothingMissing ==
    \A u \in complete \ stranded : Stored \ faulty \subseteq shown[u]

\* A reply comes after the message it answers in the order of the history, also
\* when both are of the same second or rowids are used again; so the chain of
\* replies that CreateMessageTypeFromID follows comes to an end.
RepliesPointBack ==
    \A m, n \in messages : m.reply = n.id => Older(n, m)
=============================================================================
