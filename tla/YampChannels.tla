---------------------------- MODULE YampChannels ----------------------------
(***************************************************************************)
(* Spaces and their channels: the tables spaces, channels and user-space,  *)
(* the endpoints CreateSpace, InsertChannel, RepositionChannel and         *)
(* GetChannels, and the channel lists that connected members hold.         *)
(*                                                                         *)
(* The three writing endpoints issue several statements, each of which     *)
(* commits on its own.  Between two of them the process may die; a write   *)
(* may fail, which most of the handlers do not look at; and preparing the  *)
(* next statement may fail, which ends the request half way (Abort).       *)
(*                                                                         *)
(* A table is a sequence of rows in the order of their insertion, and the  *)
(* id a row gets from GenerateID is its index.  Nothing deletes a row.     *)
(***************************************************************************)
EXTENDS Integers, Sequences, FiniteSets

CONSTANTS
    Users,       \* ids of the accounts
    Names,       \* channel names
    General,     \* the name of the channel a new space gets
    AskedPos,    \* positions clients ask for
    NoList,      \* a client that has not received the channels of a space
    MaxSpaces,   \* bound: spaces created
    MaxChannels, \* bound: rows of channels
    MaxFaults    \* bound: crashes, failed writes and aborted requests

ASSUME GeneralAssumption == General \in Names
ASSUME AskedAssumption   == AskedPos \subseteq Int
ASSUME BoundsAssumption  ==
    /\ MaxSpaces \in Nat
    /\ MaxChannels \in Nat
    /\ MaxFaults \in Nat

Spaces == 1 .. MaxSpaces

\* The parent of a channel at the top of its space (NULL).
Top == 0

VARIABLES
    spaces,   \* ids with a row in spaces
    made,     \* number of ids given to spaces
    channels, \* rows [space, name, parent, pos]
    members,  \* rows of user-space [user, space, pos]
    job,      \* the request being handled, between two of its writes
    online,   \* accounts with an authenticated connection
    view,     \* per account and space, the channels its client was sent
    faults,   \* faults so far
    \* History variables: no guard reads them.
    tied,     \* groups of siblings where two may share a position
    gappy,    \* groups of siblings whose positions need not be 0 .. n-1
    promised  \* spaces whose creation was answered with success

vars == <<spaces, made, channels, members, job, online, view, faults, tied,
          gappy, promised>>

Idle == [op |-> "idle"]

Init ==
    /\ spaces = {}
    /\ made = 0
    /\ channels = <<>>
    /\ members = <<>>
    /\ job = Idle
    /\ online = {}
    /\ view = [u \in Users |-> [s \in Spaces |-> NoList]]
    /\ faults = 0
    /\ tied = {}
    /\ gappy = {}
    /\ promised = {}

-----------------------------------------------------------------------------
(* The queries.                                                            *)

Group(c) == <<channels[c].space, channels[c].parent>>

\* The channels of a space; those of a group of siblings; those of a name.
InSpace(s) == {c \in DOMAIN channels : channels[c].space = s}
Siblings(g) == {c \in DOMAIN channels : Group(c) = g}
Named(s, n) == {c \in InSpace(s) : channels[c].name = n}

Least(S) == CHOOSE x \in S : \A y \in S : x <= y
Greatest(S) == CHOOSE x \in S : \A y \in S : y <= x

\* Mutant: an empty group starts at 1.
NextPosOne(g) ==
    Greatest({0} \cup {channels[c].pos : c \in Siblings(g)}) + 1

\* SELECT COALESCE(MAX(pos), -1) + 1 ... WHERE space = ? AND parent IS ?
NextPos(g) ==
    IF Siblings(g) = {} THEN 0
    ELSE Greatest({channels[c].pos : c \in Siblings(g)}) + 1

\* What CreateChannelsListFromName sends: every channel of the space, a child
\* below its parent.  The model keeps which channels were sent; the positions
\* a client was sent are out of date after any move, which is not pushed.
ChannelList(s) == InSpace(s)

IsMember(u, s) ==
    \E m \in DOMAIN members : members[m].user = u /\ members[m].space = s

\* Mutant: the maximum is taken over every account.
NextSpacePosOfAll(u) ==
    IF members = <<>> THEN 0
    ELSE Greatest({members[m].pos : m \in DOMAIN members}) + 1

\* COALESCE((SELECT MAX(pos) + 1 FROM user-space WHERE user-id = ?), 0)
NextSpacePos(u) ==
    LET own == {m \in DOMAIN members : members[m].user = u}
    IN  IF own = {} THEN 0 ELSE Greatest({members[m].pos : m \in own}) + 1

-----------------------------------------------------------------------------
(* The writes.                                                             *)

\* A write succeeds, or fails and changes nothing.
Outcome(ok) ==
    /\ ok \/ faults < MaxFaults
    /\ faults' = IF ok THEN faults ELSE faults + 1

\* UPDATE channels SET pos = pos + d for the channels of a set.
Shift(S, d) ==
    [c \in DOMAIN channels |->
        IF c \in S THEN [channels[c] EXCEPT !.pos = @ + d] ELSE channels[c]]

\* UPDATE channels SET pos = p for the channels of a set.
Place(S, p) ==
    [c \in DOMAIN channels |->
        IF c \in S THEN [channels[c] EXCEPT !.pos = p] ELSE channels[c]]

-----------------------------------------------------------------------------
(* Connections.                                                            *)

auth(u) ==
    /\ job = Idle
    /\ u \notin online
    /\ online' = online \cup {u}
    /\ UNCHANGED <<spaces, made, channels, members, job, view, faults, tied,
                   gappy, promised>>

Disconnect(u) ==
    /\ job = Idle
    /\ u \in online
    /\ online' = online \ {u}
    /\ view' = [view EXCEPT ![u] = [s \in Spaces |-> NoList]]
    /\ UNCHANGED <<spaces, made, channels, members, job, faults, tied, gappy,
                   promised>>

\* Members only.  The answer brings the client up to date.
GetChannels(u, s) ==
    /\ job = Idle
    /\ u \in online
    /\ IsMember(u, s)
    /\ view' = [view EXCEPT ![u][s] = ChannelList(s)]
    /\ UNCHANGED <<spaces, made, channels, members, job, online, faults, tied,
                   gappy, promised>>

-----------------------------------------------------------------------------
(* CreateSpace: the space, its channel, the membership of its creator.     *)

CreateSpace(u, ok) ==
    /\ job = Idle
    /\ u \in online
    /\ made < MaxSpaces
    /\ Len(channels) < MaxChannels
    /\ Outcome(ok)
    /\ made' = made + 1
    /\ spaces' = IF ok THEN spaces \cup {made + 1} ELSE spaces
    /\ job' = [op |-> "general", user |-> u, space |-> made + 1]
    /\ UNCHANGED <<channels, members, online, view, tied, gappy, promised>>

\* The second INSERT runs whatever became of the first.
CreateSpaceGeneral(ok) ==
    /\ job.op = "general"
    /\ Outcome(ok)
    /\ channels' = IF ok
                   THEN Append(channels, [space |-> job.space,
                            name |-> General, parent |-> Top, pos |-> 0])
                   ELSE channels
    /\ job' = [job EXCEPT !.op = "member"]
    /\ UNCHANGED <<spaces, made, members, online, view, tied, gappy, promised>>

\* Mutant: the result of the last INSERT is ignored as the others are.
CreateSpaceIgnores(ok) ==
    /\ job.op = "member"
    /\ Outcome(ok)
    /\ members' = IF ok
                  THEN Append(members, [user |-> job.user,
                           space |-> job.space, pos |-> NextSpacePos(job.user)])
                  ELSE members
    /\ promised' = promised \cup {job.space}
    /\ job' = Idle
    /\ UNCHANGED <<spaces, made, channels, online, view, tied, gappy>>

\* Only the result of the last INSERT decides about the answer.
CreateSpaceMember(ok) ==
    /\ job.op = "member"
    /\ Outcome(ok)
    /\ IF ok
       THEN /\ members' = Append(members, [user |-> job.user,
                   space |-> job.space, pos |-> NextSpacePos(job.user)])
            /\ promised' = promised \cup {job.space}
       ELSE UNCHANGED <<members, promised>>
    /\ job' = Idle
    /\ UNCHANGED <<spaces, made, channels, online, view, tied, gappy>>

-----------------------------------------------------------------------------
(* InsertChannel: nobody checks that the space exists or that the account  *)
(* is a member of it.                                                      *)

ParentExists(s, parent) == parent = Top \/ parent \in InSpace(s)

\* PushUpdatedChannelsList to every member with a connection.
PushUpdatedChannels(s, list) ==
    view' = [u \in Users |-> IF u \in online /\ IsMember(u, s)
                             THEN [view[u] EXCEPT ![s] = list] ELSE view[u]]

\* Mutant: the list is read before the INSERT.
InsertPushesFirst(row, ok) ==
    IF ok
    THEN /\ channels' = Append(channels, row)
         /\ PushUpdatedChannels(row.space, ChannelList(row.space))
    ELSE UNCHANGED <<channels, view>>

\* The INSERT.  If it fails the answer is error 1 and nobody is sent a list.
Insert(row, ok) ==
    IF ok
    THEN /\ channels' = Append(channels, row)
         /\ PushUpdatedChannels(row.space,
                ChannelList(row.space) \cup {Len(channels')})
    ELSE UNCHANGED <<channels, view>>

\* No position given: the new row takes the next one.
InsertChannelLast(u, s, n, parent, ok) ==
    /\ job = Idle
    /\ u \in online
    /\ Len(channels) < MaxChannels
    /\ ParentExists(s, parent)
    /\ Outcome(ok)
    /\ Insert([space |-> s, name |-> n, parent |-> parent,
               pos |-> NextPos(<<s, parent>>)], ok)
    /\ UNCHANGED <<spaces, made, members, job, online, tied, gappy, promised>>

\* A position given: first the siblings from there on move by one.  The result
\* of this UPDATE is ignored.
InsertChannelAt(u, s, n, parent, pos, ok) ==
    LET g == <<s, parent>>
        later == {c \in Siblings(g) : channels[c].pos >= pos}
    IN  /\ job = Idle
        /\ u \in online
        /\ Len(channels) < MaxChannels
        /\ ParentExists(s, parent)
        /\ Outcome(ok)
        /\ channels' = IF ok THEN Shift(later, 1) ELSE channels
        /\ job' = [op |-> "insert", row |-> [space |-> s, name |-> n,
                      parent |-> parent, pos |-> pos]]
        /\ tied' = IF ok THEN tied ELSE tied \cup {g}
        /\ gappy' = IF ok /\ pos \in 0 .. NextPos(g) THEN gappy
                    ELSE gappy \cup {g}
        /\ UNCHANGED <<spaces, made, members, online, view, promised>>

\* Then the row is inserted.  If that fails the siblings stay moved.
InsertRow(ok) ==
    /\ job.op = "insert"
    /\ Outcome(ok)
    /\ Insert(job.row, ok)
    /\ job' = Idle
    /\ gappy' = IF ok THEN gappy
                ELSE gappy \cup {<<job.row.space, job.row.parent>>}
    /\ UNCHANGED <<spaces, made, members, online, tied, promised>>

-----------------------------------------------------------------------------
(* RepositionChannel: out of the way to -1, the others by one, then into   *)
(* place.  It asks for no authentication, finds the channel by its name,   *)
(* and sends nobody the new list.                                          *)

\* The groups of the channels called n.
OwnGroups(s, n) == {Group(c) : c \in Named(s, n)}

RepositionChannel(s, n, newpos, ok) ==
    LET oldpos == channels[Least(Named(s, n))].pos
        own == OwnGroups(s, n)
        inRange == \A g \in own : newpos \in 0 .. NextPos(g) - 1
    IN  /\ job = Idle
        /\ Named(s, n) # {}
        /\ oldpos # newpos
        /\ Outcome(ok)
        /\ channels' = IF ok THEN Place(Named(s, n), -1) ELSE channels
        /\ job' = [op |-> "shift", space |-> s, name |-> n, from |-> oldpos,
                   to |-> newpos]
        /\ tied' = IF Cardinality(Named(s, n)) = 1 THEN tied ELSE tied \cup own
        /\ gappy' = IF inRange THEN gappy ELSE gappy \cup own
        /\ UNCHANGED <<spaces, made, members, online, view, promised>>

\* Mutant: the first UPDATE leaves out the channel at the new position.
BetweenShort(from, to, pos) ==
    IF to < from THEN to < pos /\ pos < from
    ELSE from < pos /\ pos <= to

\* The positions that make room, as the two WHERE clauses give them.
Between(from, to, pos) ==
    IF to < from THEN to <= pos /\ pos < from
    ELSE from < pos /\ pos <= to

\* The UPDATE looks at the space and not at the parent: channels of other
\* groups move too.
RepositionShift(ok) ==
    LET s == job.space
        own == OwnGroups(s, job.name)
        moved == {c \in InSpace(s) :
                    Between(job.from, job.to, channels[c].pos)}
        others == {Group(c) : c \in moved} \ own
        spoilt == IF ok THEN others ELSE own
    IN  /\ job.op = "shift"
        /\ Outcome(ok)
        /\ channels' = IF ~ok THEN channels
                       ELSE Shift(moved, IF job.to < job.from THEN 1 ELSE -1)
        /\ job' = [job EXCEPT !.op = "place"]
        /\ tied' = tied \cup spoilt
        /\ gappy' = gappy \cup spoilt
        /\ UNCHANGED <<spaces, made, members, online, view, promised>>

RepositionPlace(ok) ==
    LET own == OwnGroups(job.space, job.name)
    IN  /\ job.op = "place"
        /\ Outcome(ok)
        /\ channels' = IF ok THEN Place(Named(job.space, job.name), job.to)
                       ELSE channels
        /\ job' = Idle
        /\ tied' = IF ok THEN tied ELSE tied \cup own
        /\ gappy' = IF ok THEN gappy ELSE gappy \cup own
        /\ UNCHANGED <<spaces, made, members, online, view, promised>>

-----------------------------------------------------------------------------
(* Faults that end a request.                                              *)

\* The groups an interrupted request leaves behind.
Unfinished ==
    CASE job.op \in {"shift", "place"} -> OwnGroups(job.space, job.name)
      [] job.op = "insert" -> {<<job.row.space, job.row.parent>>}
      [] OTHER -> {}

\* Preparing the next statement fails: the request is answered with error 1.
\* CreateSpace does not look at the results of its preparations.
Abort ==
    /\ job.op \in {"insert", "shift", "place"}
    /\ faults < MaxFaults
    /\ faults' = faults + 1
    /\ job' = Idle
    /\ tied' = tied \cup Unfinished
    /\ gappy' = gappy \cup Unfinished
    /\ UNCHANGED <<spaces, made, channels, members, online, view, promised>>

\* The process dies and is started again: the tables stay, connections go.
Crash ==
    /\ faults < MaxFaults
    /\ faults' = faults + 1
    /\ job' = Idle
    /\ online' = {}
    /\ view' = [u \in Users |-> [s \in Spaces |-> NoList]]
    /\ tied' = tied \cup Unfinished
    /\ gappy' = gappy \cup Unfinished
    /\ UNCHANGED <<spaces, made, channels, members, promised>>

-----------------------------------------------------------------------------

\* The ids of spaces a client can know, those without a row among them.
KnownSpaces == 1 .. made

Next ==
    \/ \E u \in Users : auth(u) \/ Disconnect(u)
    \/ \E u \in Users, s \in KnownSpaces : GetChannels(u, s)
    \/ \E u \in Users, s \in KnownSpaces, n \in Names,
          parent \in {Top} \cup DOMAIN channels :
            \E ok \in BOOLEAN :
                \/ InsertChannelLast(u, s, n, parent, ok)
                \/ \E pos \in AskedPos :
                       InsertChannelAt(u, s, n, parent, pos, ok)
    \/ \E ok \in BOOLEAN :
            \/ \E u \in Users : CreateSpace(u, ok)
            \/ CreateSpaceGeneral(ok)
            \/ CreateSpaceMember(ok)
            \/ InsertRow(ok)
            \/ RepositionShift(ok)
            \/ RepositionPlace(ok)
    \/ \E s \in KnownSpaces, n \in Names, newpos \in AskedPos, ok \in BOOLEAN :
            RepositionChannel(s, n, newpos, ok)
    \/ Abort
    \/ Crash

Spec == Init /\ [][Next]_vars

-----------------------------------------------------------------------------
(* Properties.                                                             *)

Rows == [space : Spaces, name : Names, parent : 0 .. MaxChannels, pos : Int]

Jobs ==
    {Idle}
    \cup [op : {"general", "member"}, user : Users, space : Spaces]
    \cup [op : {"insert"}, row : Rows]
    \cup [op : {"shift", "place"}, space : Spaces, name : Names, from : Int,
          to : Int]

Groups == Spaces \X (0 .. MaxChannels)

\* Every variable has a value of its type; the bounds are kept.
TypeOK ==
    /\ spaces \subseteq Spaces
    /\ made \in 0 .. MaxSpaces
    /\ channels \in Seq(Rows) /\ Len(channels) <= MaxChannels
    /\ members \in Seq([user : Users, space : Spaces, pos : Nat])
    /\ job \in Jobs
    /\ online \subseteq Users
    /\ view \in [Users -> [Spaces -> {NoList} \cup SUBSET (1 .. MaxChannels)]]
    /\ faults \in 0 .. MaxFaults
    /\ tied \subseteq Groups
    /\ gappy \subseteq Groups
    /\ promised \subseteq Spaces

\* Two siblings never share a position, unless one of the group's own requests
\* was interrupted or a write of it failed, two channels of one name were moved
\* together, or a move in another group of the space shifted them: then the
\* order clients show is left to the database.  What the client asks for, a
\* position out of range included, does not matter.
DistinctPositions ==
    job = Idle =>
        \A c, d \in DOMAIN channels :
            c # d /\ Group(c) = Group(d) /\ Group(c) \notin tied
                => channels[c].pos # channels[d].pos

\* As long as clients also ask for positions in range, the positions of n
\* siblings are 0 .. n-1, whatever the insertions and moves so far.
DensePositions ==
    job = Idle =>
        \A g \in {Group(c) : c \in DOMAIN channels} \ (tied \cup gappy) :
            {channels[c].pos : c \in Siblings(g)}
                = 0 .. Cardinality(Siblings(g)) - 1

\* A connected client that was sent the channels of a space holds exactly those
\* of the table, whoever inserted them and whatever failed on the way.
ListsAreCurrent ==
    \A u \in Users, s \in Spaces :
        view[u][s] # NoList => view[u][s] = ChannelList(s)

\* A space whose creation was answered with success has its creator for a
\* member, whatever failed or crashed on the way and after: nobody can become a
\* member later.
PromisedSpacesHaveMembers ==
    \A s \in promised : \E u \in Users : IsMember(u, s)

\* The spaces of an account are numbered 0, 1, 2, ... in the order they were
\* created, whatever other accounts create in between.
SpacesAreInOrder ==
    \A m \in DOMAIN members :
        members[m].pos = Cardinality({k \in 1 .. m - 1 :
                                         members[k].user = members[m].user})

=============================================================================
