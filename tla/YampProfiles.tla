---------------------------- MODULE YampProfiles ----------------------------
(***************************************************************************)
(* Profiles and presence: what "auth" copies of an account into the user   *)
(* registry, what "UpdateUserProfile" writes back from that copy, and what *)
(* friends are shown of each other.                                        *)
(*                                                                         *)
(* UpdateUserProfile writes three columns, display_name, pfp and           *)
(* description, each from the request or, when the request leaves it out,  *)
(* from the entry of the connection; "auth" makes that entry with a copy   *)
(* of display_name only.  Description and pfp are treated alike, so pfp    *)
(* stands for both.                                                        *)
(*                                                                         *)
(* UsersByName is set and deleted together with UsersByID, and a request   *)
(* changes no name: one map stands for both.  Slots, descriptors and the   *)
(* epoll loop are those of YampRegistry; of the people a user is related   *)
(* to only the friends are kept, and friendships do not change here.       *)
(***************************************************************************)
EXTENDS Integers, FiniteSets

CONSTANTS
    Users,       \* accounts of the users table
    NoUser,      \* no account: hashmap_get returned NULL
    FDs,         \* descriptors of client connections
    NoFD,
    Friendships, \* rows of the friendship table, <<sender, accepter>>
    Texts,       \* what a client may put into a field
    Name,        \* display_name of a new account
    NULL,        \* SQL's NULL, and the pointer of a zeroed struct
    MaxUpdates   \* bound: rows written by UpdateUserProfile

ASSUME NamesAssumption ==
    /\ NoUser \notin Users
    /\ NoFD \notin FDs
    /\ NULL \notin Texts \cup {Name}
ASSUME FriendshipsAssumption ==
    Friendships \subseteq {r \in Users \X Users : r[1] # r[2]}
ASSUME UpdatesAssumption == MaxUpdates \in Nat

Fields   == {"display_name", "pfp"}
Profiles == [Fields -> Texts \cup {Name, NULL}]
Blank    == [x \in Fields |-> NULL]

\* An entry of the maps: the user struct with its copy of the connection.
Entries == [id : Users \cup {NoUser}, fd : FDs \cup {NoFD}, profile : Profiles]
Absent  == [id |-> NoUser, fd |-> NoFD, profile |-> Blank]

\* A request's "profile" object: the fields it leaves out are NULL.
Changes == [Fields -> Texts \cup {NULL}]

VARIABLES
    users,      \* the profile columns of the users table
    UsersByFD, UsersByID,
    \* What the client on each descriptor was shown last.
    online,     \* users shown as online
    outdated,   \* users whose row has changed since they were shown
    \* History variables: no guard reads them.
    accepted,   \* per user and field, the last value answered with error 0
    overlapped, \* accounts that have been on two connections at once
    updates     \* rows written so far

registry == <<UsersByFD, UsersByID>>
shown    == <<online, outdated>>
history  == <<accepted, overlapped, updates>>
vars     == <<users, registry, shown, history>>

\* RegisterUserAccount stores the name as display_name.
NewProfile == [Blank EXCEPT !["display_name"] = Name]

Init ==
    /\ users = [u \in Users |-> NewProfile]
    /\ UsersByFD = [f \in FDs |-> Absent]
    /\ UsersByID = [u \in Users |-> Absent]
    /\ online = [f \in FDs |-> {}]
    /\ outdated = [f \in FDs |-> {}]
    /\ accepted = users
    /\ overlapped = {}
    /\ updates = 0

\* Mutant: only the friends who were asked are looked for.
AccepterOf(u) == {v \in Users : <<u, v>> \in Friendships}

\* CreateFriendsListFromUserID: the other side of every row with u in it.
FriendsOf(u) == {v \in Users : \/ <<u, v>> \in Friendships
                               \/ <<v, u>> \in Friendships}

\* CreateUserTypeFromID reads the row, and the status through UsersByName.
IsOnline(u) == UsersByID[u] # Absent

\* PushStatusUpdate(to, who, "online") for every friend: the descriptor is that
\* of the addressee's entry.
Notified(u) == {UsersByID'[v].fd : v \in FriendsOf(u)} \ {NoFD}

-----------------------------------------------------------------------------
(* Sessions.                                                               *)

\* The copy "auth" makes of the row: SELECT name, display_name, id.
Copied(u) == [Blank EXCEPT !["display_name"] = users[u]["display_name"]]

\* "auth" with a token of u on descriptor f.  The entry is in the maps before
\* anybody is notified and before the friends list is built.
auth(f, u) ==
    LET new == [id |-> u, fd |-> f, profile |-> Copied(u)]
    IN  /\ UsersByFD' = [UsersByFD EXCEPT ![f] = new]
        /\ UsersByID' = [UsersByID EXCEPT ![u] = new]
        /\ online' = [h \in FDs |->
               IF h = f THEN {v \in FriendsOf(u) : IsOnline(v)'}
               ELSE IF h \in Notified(u) THEN online[h] \cup {u} ELSE online[h]]
        /\ outdated' = [outdated EXCEPT ![f] = {}]
        /\ overlapped' = IF \E h \in FDs \ {f} : UsersByFD[h].id = u
                           THEN overlapped \cup {u} ELSE overlapped
        /\ UNCHANGED <<users, accepted, updates>>

\* A fresh list replaces what the client knew.
ListFriends(f) ==
    /\ UsersByFD[f] # Absent
    /\ online' = [online EXCEPT ![f] =
                      {v \in FriendsOf(UsersByFD[f].id) : IsOnline(v)}]
    /\ outdated' = [outdated EXCEPT ![f] = {}]
    /\ UNCHANGED <<users, registry, history>>

\* DisconnectClient asks for the people related to the id NULL and finds none:
\* no friend is told.
DisconnectClient(f) ==
    /\ UsersByFD[f] # Absent
    /\ UsersByID' = [UsersByID EXCEPT ![UsersByFD[f].id] = Absent]
    /\ UsersByFD' = [UsersByFD EXCEPT ![f] = Absent]
    /\ online' = [online EXCEPT ![f] = {}]
    /\ outdated' = [outdated EXCEPT ![f] = {}]
    /\ UNCHANGED <<users, history>>

-----------------------------------------------------------------------------
(* UpdateUserProfile.                                                      *)

\* newusr: the entry of the connection under the fields of the request.
Merge(copy, c) == [x \in Fields |-> IF c[x] # NULL THEN c[x] ELSE copy[x]]

\* Mutant: the connection keeps the entry it had.
StoreByIDOnly(new) == /\ UsersByID' = [UsersByID EXCEPT ![new.id] = new]
                      /\ UNCHANGED UsersByFD

Store(new) == /\ UsersByFD' = [UsersByFD EXCEPT ![new.fd] = new]
              /\ UsersByID' = [UsersByID EXCEPT ![new.id] = new]

\* PushProfileUpdate(ids[i], newusr.id), whose parameters are named fromID and
\* toID, in this order: each push shows one of the related users, u among them,
\* to u.
ProfilePushes(u) == {<<id, u>> : id \in {u} \cup FriendsOf(u)}

ShownBy(pushes, f) == {p[1] : p \in {q \in pushes : UsersByID'[q[2]].fd = f}}

UpdateUserProfile(f, c) ==
    LET found == UsersByFD[f]
        u     == found.id
        new   == [found EXCEPT !.profile = Merge(@, c)]
    IN  /\ found # Absent
        /\ updates < MaxUpdates
        /\ updates' = updates + 1
        /\ users' = [users EXCEPT ![u] = new.profile]
        /\ Store(new)
        /\ outdated' = [h \in FDs |->
               (outdated[h] \cup
                {v \in {u} : users[u] # new.profile /\ UsersByFD[h] # Absent})
               \ ShownBy(ProfilePushes(u), h)]
        /\ online' = [h \in FDs |->
               (online[h] \ ShownBy(ProfilePushes(u), h)) \cup
               {v \in ShownBy(ProfilePushes(u), h) : IsOnline(v)'}]
        /\ accepted' = [accepted EXCEPT ![u] = Merge(@, c)]
        /\ UNCHANGED overlapped

\* Mutant: the entry is changed before the result of the UPDATE is looked at.
UpdateFailsLate(f, c) ==
    LET found == UsersByFD[f]
    IN  /\ found # Absent
        /\ Store([found EXCEPT !.profile = Merge(@, c)])
        /\ UNCHANGED <<users, shown, history>>

\* The UPDATE fails: error 4, and neither maps nor table change.
UpdateFails(f, c) ==
    /\ UsersByFD[f] # Absent
    /\ UNCHANGED vars

\* The server dies.  In an UpdateUserProfile the row may have been committed
\* without an answer.
Restart ==
    /\ \/ UNCHANGED <<users, accepted, updates>>
       \/ \E f \in FDs, c \in Changes :
              LET u == UsersByFD[f].id
              IN  /\ UsersByFD[f] # Absent
                  /\ updates < MaxUpdates
                  /\ updates' = updates + 1
                  /\ users' = [users EXCEPT ![u] =
                                   Merge(UsersByFD[f].profile, c)]
                  /\ accepted' = [accepted EXCEPT ![u] = Merge(@, c)]
    /\ UsersByFD' = [f \in FDs |-> Absent]
    /\ UsersByID' = [u \in Users |-> Absent]
    /\ online' = [f \in FDs |-> {}]
    /\ outdated' = [f \in FDs |-> {}]
    /\ UNCHANGED overlapped

Next ==
    \/ \E f \in FDs :
           \/ \E u \in Users : auth(f, u)
           \/ ListFriends(f)
           \/ DisconnectClient(f)
           \/ \E c \in Changes : UpdateUserProfile(f, c) \/ UpdateFails(f, c)
    \/ Restart

Spec == Init /\ [][Next]_vars

-----------------------------------------------------------------------------
(* Properties.                                                             *)

TypeOK ==
    /\ users \in [Users -> Profiles]
    /\ UsersByFD \in [FDs -> Entries]
    /\ UsersByID \in [Users -> Entries]
    /\ online \in [FDs -> SUBSET Users]
    /\ outdated \in [FDs -> SUBSET Users]
    /\ accepted \in [Users -> Profiles]
    /\ overlapped \subseteq Users
    /\ updates \in 0 .. MaxUpdates

\* A client sees a friend who is online as online, whichever of the two came
\* first and whatever happened in between, as long as both accounts are used
\* from one connection at a time: "auth" stores its entry before it notifies
\* and before it lists ("auth", PushStatusUpdate, CreateUserTypeFromID).  (An
\* account that went missing with another connection of its own is back with
\* its next UpdateUserProfile, and nobody is told; and DisconnectClient tells
\* nobody of anyone.)
OnlineFriendsAreSeen ==
    \A f \in FDs : \A v \in Users :
        LET u == UsersByFD[f].id
        IN  (/\ UsersByFD[f] # Absent
             /\ {u, v} \cap overlapped = {}
             /\ \E r \in Friendships : {r[1], r[2]} = {u, v}
             /\ IsOnline(v)) => v \in online[f]

\* No update of a profile brings back an older value.  The last display_name
\* that was accepted stays, across logins and failed updates; a pfp (and a
\* description) stays or is lost to NULL, which an update behind a new login
\* that does not mention it causes.  An account used from two connections at
\* once is the exception: each writes back its own copy ("UpdateUserProfile").
ProfileIsKept ==
    \A u \in Users \ overlapped :
        /\ users[u]["display_name"] = accepted[u]["display_name"]
        /\ users[u]["pfp"] \in {accepted[u]["pfp"], NULL}

\* The copy a connection writes back from never holds a value its row does not
\* have, failed updates included: it is behind the row only by fields it never
\* had ("auth" and "UpdateUserProfile" against the users table).
CopiesAreCurrent ==
    \A f \in FDs :
        LET copy == UsersByFD[f].profile
            row  == users[UsersByFD[f].id]
        IN  (UsersByFD[f] # Absent /\ UsersByFD[f].id \notin overlapped) =>
                /\ copy["display_name"] = row["display_name"]
                /\ copy["pfp"] \in {row["pfp"], NULL}

\* "@param toID The ID of the user to send to, @param fromID The ID of the user
\* that just updated": the friends of a user that just updated are sent the
\* profile, so that what a client was shown of a friend is what the table has
\* (PushProfileUpdate and its caller in "UpdateUserProfile").
FriendsProfilesAreCurrent ==
    \A f \in FDs : UsersByFD[f].id \notin overlapped =>
        \A v \in FriendsOf(UsersByFD[f].id) : v \notin outdated[f]
=============================================================================
