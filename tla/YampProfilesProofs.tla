------------------------- MODULE YampProfilesProofs -------------------------
(***************************************************************************)
(* Proofs about YampProfiles, for any accounts, connections, friendships   *)
(* and field contents and any number of updates, restarts included.        *)
(***************************************************************************)
EXTENDS YampProfiles, TLAPS

-----------------------------------------------------------------------------
(* The inductive invariant.                                                *)

Present(f) == UsersByFD[f] # Absent

\* The entry of a connection names an account and that connection.
EntriesAreOfTheirFD ==
    \A f \in FDs : Present(f) => UsersByFD[f].id \in Users /\ UsersByFD[f].fd = f

\* An account used from one connection at a time has one entry, the same in
\* both maps.
OneEntryEach ==
    /\ \A f, g \in FDs :
           (/\ Present(f) /\ Present(g)
            /\ UsersByFD[f].id = UsersByFD[g].id
            /\ UsersByFD[f].id \notin overlapped) => f = g
    /\ \A f \in FDs : Present(f) /\ UsersByFD[f].id \notin overlapped =>
           UsersByID[UsersByFD[f].id] = UsersByFD[f]

IInv ==
    /\ TypeOK
    /\ EntriesAreOfTheirFD
    /\ OneEntryEach
    /\ OnlineFriendsAreSeen
    /\ ProfileIsKept
    /\ CopiesAreCurrent

-----------------------------------------------------------------------------
(* Lemmas about the operators.                                             *)

LEMMA AbsentFacts ==
    /\ Absent \in Entries /\ Absent.id = NoUser /\ Blank \in Profiles
    /\ NoUser \notin Users
  BY NamesAssumption DEF Absent, Entries, Blank, Profiles

\* A merge takes the fields of the request and the copy for the others.
LEMMA MergeFacts ==
    ASSUME NEW copy \in Profiles, NEW c \in Changes
    PROVE  /\ Merge(copy, c) \in Profiles
           /\ \A x \in Fields :
                  Merge(copy, c)[x] = IF c[x] # NULL THEN c[x] ELSE copy[x]
  BY DEF Merge, Profiles, Changes

\* What is written from a current copy is what a client was last told it has,
\* but for a pfp that is lost.
LEMMA MergeKeepsProfile ==
    ASSUME NEW copy \in Profiles, NEW row \in Profiles, NEW told \in Profiles,
           NEW c \in Changes,
           copy["display_name"] = row["display_name"],
           copy["pfp"] \in {row["pfp"], NULL},
           row["display_name"] = told["display_name"],
           row["pfp"] \in {told["pfp"], NULL}
    PROVE  /\ Merge(copy, c)["display_name"] = Merge(told, c)["display_name"]
           /\ Merge(copy, c)["pfp"] \in {Merge(told, c)["pfp"], NULL}
<1>1. "display_name" \in Fields /\ "pfp" \in Fields
  BY DEF Fields
<1>. QED
  BY <1>1, MergeFacts

LEMMA FriendsOfIsSymmetric ==
    \A u, v \in Users : v \in FriendsOf(u) <=> u \in FriendsOf(v)
  BY DEF FriendsOf

\* The friends in the sense of OnlineFriendsAreSeen.
LEMMA FriendsByRow ==
    \A u, v \in Users :
        (\E r \in Friendships : {r[1], r[2]} = {u, v}) => v \in FriendsOf(u)
<1> SUFFICES ASSUME NEW u \in Users, NEW v \in Users, NEW r \in Friendships,
                    {r[1], r[2]} = {u, v}
             PROVE  v \in FriendsOf(u)
  OBVIOUS
<1>1. r \in Users \X Users /\ r[1] # r[2]
  BY FriendshipsAssumption
<1>2. r = <<r[1], r[2]>>
  BY <1>1
<1>3. r[1] \in {u, v} /\ r[2] \in {u, v}
  OBVIOUS
<1>4. r = <<u, v>> \/ r = <<v, u>>
  BY <1>1, <1>2, <1>3
<1>. QED
  BY <1>4 DEF FriendsOf

-----------------------------------------------------------------------------
(* Types.                                                                  *)

LEMMA InitIInv == Init => IInv
<1> SUFFICES ASSUME Init PROVE IInv
  OBVIOUS
<1>. USE AbsentFacts DEF Init
<1>1. NewProfile \in Profiles
  BY DEF NewProfile, Profiles, Blank
<1>2. TypeOK
  BY <1>1, UpdatesAssumption DEF TypeOK
<1>3. EntriesAreOfTheirFD /\ OneEntryEach
  BY DEF EntriesAreOfTheirFD, OneEntryEach, Present
<1>4. OnlineFriendsAreSeen /\ ProfileIsKept /\ CopiesAreCurrent
  BY <1>1 DEF OnlineFriendsAreSeen, ProfileIsKept, CopiesAreCurrent
<1>. QED
  BY <1>2, <1>3, <1>4 DEF IInv

\* What "auth" stores.
Made(f, u) == [id |-> u, fd |-> f, profile |-> Copied(u)]

LEMMA CopyFacts ==
    ASSUME TypeOK, NEW u \in Users
    PROVE  /\ Copied(u) \in Profiles
           /\ Copied(u)["display_name"] = users[u]["display_name"]
           /\ Copied(u)["pfp"] = NULL
  BY DEF Copied, Profiles, Blank, TypeOK, Fields

LEMMA AuthFacts ==
    ASSUME IInv, NEW f \in FDs, NEW u \in Users, auth(f, u)
    PROVE  /\ Made(f, u) \in Entries /\ Made(f, u) # Absent
           /\ Made(f, u).id = u /\ Made(f, u).fd = f
           /\ Made(f, u).profile = Copied(u)
           /\ UsersByFD' = [UsersByFD EXCEPT ![f] = Made(f, u)]
           /\ UsersByID' = [UsersByID EXCEPT ![u] = Made(f, u)]
           /\ UNCHANGED <<users, accepted, updates>>
           /\ overlapped \subseteq overlapped' /\ overlapped' \subseteq Users
           /\ \A h \in FDs \ {f} : UsersByFD[h].id = u => u \in overlapped'
<1>1. Copied(u) \in Profiles
  BY CopyFacts DEF IInv
<1>2. /\ Made(f, u) \in Entries
      /\ Made(f, u).id = u /\ Made(f, u).fd = f
      /\ Made(f, u).profile = Copied(u)
  BY <1>1 DEF Made, Entries
<1>3. Made(f, u) # Absent
  BY <1>2, AbsentFacts
<1>4. /\ UsersByFD' = [UsersByFD EXCEPT ![f] = Made(f, u)]
      /\ UsersByID' = [UsersByID EXCEPT ![u] = Made(f, u)]
      /\ UNCHANGED <<users, accepted, updates>>
  BY DEF auth, Made
<1>5. /\ overlapped \subseteq overlapped' /\ overlapped' \subseteq Users
      /\ \A h \in FDs \ {f} : UsersByFD[h].id = u => u \in overlapped'
  BY DEF auth, IInv, TypeOK
<1>. QED
  BY <1>2, <1>3, <1>4, <1>5

\* What "UpdateUserProfile" stores.
Changed(f, c) == [UsersByFD[f] EXCEPT !.profile = Merge(@, c)]

LEMMA ChangedFacts ==
    ASSUME IInv, NEW f \in FDs, NEW c \in Changes, Present(f)
    PROVE  /\ UsersByFD[f].id \in Users /\ UsersByFD[f].fd = f
           /\ UsersByFD[f].profile \in Profiles
           /\ Changed(f, c) \in Entries /\ Changed(f, c) # Absent
           /\ Changed(f, c).id = UsersByFD[f].id /\ Changed(f, c).fd = f
           /\ Changed(f, c).profile = Merge(UsersByFD[f].profile, c)
<1>1. UsersByFD[f] \in Entries /\ UsersByFD[f].id \in Users /\ UsersByFD[f].fd = f
  BY DEF IInv, TypeOK, EntriesAreOfTheirFD
<1>2. UsersByFD[f].profile \in Profiles
  BY <1>1 DEF Entries
<1>3. Merge(UsersByFD[f].profile, c) \in Profiles
  BY <1>2, MergeFacts
<1>4. /\ Changed(f, c) \in Entries
      /\ Changed(f, c).id = UsersByFD[f].id /\ Changed(f, c).fd = f
      /\ Changed(f, c).profile = Merge(UsersByFD[f].profile, c)
  BY <1>1, <1>3 DEF Changed, Entries
<1>5. Changed(f, c) # Absent
  BY <1>1, <1>4, AbsentFacts
<1>. QED
  BY <1>1, <1>2, <1>4, <1>5

LEMMA UpdateFacts ==
    ASSUME IInv, NEW f \in FDs, NEW c \in Changes, UpdateUserProfile(f, c),
           NEW u, u = UsersByFD[f].id
    PROVE  /\ Present(f) /\ u \in Users /\ UsersByFD[f].fd = f
           /\ users' = [users EXCEPT ![u] = Merge(UsersByFD[f].profile, c)]
           /\ UsersByFD' = [UsersByFD EXCEPT ![f] = Changed(f, c)]
           /\ UsersByID' = [UsersByID EXCEPT ![u] = Changed(f, c)]
           /\ accepted' = [accepted EXCEPT ![u] = Merge(accepted[u], c)]
           /\ updates' \in 0 .. MaxUpdates /\ overlapped' = overlapped
<1>1. Present(f)
  BY DEF UpdateUserProfile, Present
<1>2. updates' \in 0 .. MaxUpdates
  BY UpdatesAssumption DEF UpdateUserProfile, IInv, TypeOK
<1>3. /\ Store(Changed(f, c))
      /\ users' = [users EXCEPT ![u] = Changed(f, c).profile]
      /\ accepted' = [accepted EXCEPT ![u] = Merge(accepted[u], c)]
      /\ overlapped' = overlapped
  BY DEF UpdateUserProfile, Changed
<1>. QED
  BY <1>1, <1>2, <1>3, ChangedFacts DEF Store

\* The pushes of an update show the user and the friends, all to the user.
LEMMA ShownAreFriends ==
    ASSUME NEW u, NEW h
    PROVE  \A v : v \in ShownBy(ProfilePushes(u), h) <=>
                      v \in {u} \cup FriendsOf(u) /\ UsersByID'[u].fd = h
<1> TAKE v
<1>1. ASSUME v \in ShownBy(ProfilePushes(u), h)
      PROVE  v \in {u} \cup FriendsOf(u) /\ UsersByID'[u].fd = h
  <2>1. PICK p \in ProfilePushes(u) : v = p[1] /\ UsersByID'[p[2]].fd = h
    BY <1>1 DEF ShownBy
  <2>2. PICK id \in {u} \cup FriendsOf(u) : p = <<id, u>>
    BY <2>1 DEF ProfilePushes
  <2>3. p[1] = id /\ p[2] = u
    BY <2>2
  <2>. QED
    BY <2>1, <2>2, <2>3
<1>2. ASSUME v \in {u} \cup FriendsOf(u), UsersByID'[u].fd = h
      PROVE  v \in ShownBy(ProfilePushes(u), h)
  <2>1. <<v, u>> \in ProfilePushes(u)
    BY <1>2 DEF ProfilePushes
  <2>2. <<v, u>>[1] = v /\ <<v, u>>[2] = u
    OBVIOUS
  <2>3. <<v, u>> \in {q \in ProfilePushes(u) : UsersByID'[q[2]].fd = h}
    BY <1>2, <2>1, <2>2
  <2>. QED
    BY <2>2, <2>3 DEF ShownBy
<1>. QED
  BY <1>1, <1>2

LEMMA NextTypeOK == IInv /\ [Next]_vars => TypeOK'
<1> SUFFICES ASSUME IInv, [Next]_vars PROVE TypeOK'
  OBVIOUS
<1>0. TypeOK
  BY DEF IInv
<1>1. ASSUME NEW f \in FDs, NEW u \in Users, auth(f, u) PROVE TypeOK'
  <2>1. online' \in [FDs -> SUBSET Users] /\ outdated' \in [FDs -> SUBSET Users]
    BY <1>0, <1>1 DEF auth, TypeOK, FriendsOf
  <2>. QED
    BY <1>0, <1>1, <2>1, AuthFacts DEF TypeOK
<1>2. ASSUME NEW f \in FDs, ListFriends(f) PROVE TypeOK'
  BY <1>0, <1>2 DEF ListFriends, TypeOK, registry, history, FriendsOf
<1>3. ASSUME NEW f \in FDs, DisconnectClient(f) PROVE TypeOK'
  BY <1>0, <1>3, AbsentFacts DEF DisconnectClient, TypeOK, history
<1>4. ASSUME NEW f \in FDs, NEW c \in Changes, UpdateUserProfile(f, c)
      PROVE  TypeOK'
  <2> DEFINE u == UsersByFD[f].id
  <2>1. Present(f)
    BY <1>4 DEF UpdateUserProfile, Present
  <2>2. /\ u \in Users /\ Changed(f, c) \in Entries
        /\ Merge(UsersByFD[f].profile, c) \in Profiles
        /\ Merge(accepted[u], c) \in Profiles
    BY <1>0, <2>1, ChangedFacts, MergeFacts DEF TypeOK
  <2>3. /\ users' \in [Users -> Profiles] /\ UsersByFD' \in [FDs -> Entries]
        /\ UsersByID' \in [Users -> Entries] /\ accepted' \in [Users -> Profiles]
        /\ overlapped' \subseteq Users /\ updates' \in 0 .. MaxUpdates
    BY <1>0, <1>4, <2>2, UpdateFacts DEF TypeOK
  <2>4. \A h \in FDs : ShownBy(ProfilePushes(u), h) \subseteq Users
    BY <2>2, ShownAreFriends DEF FriendsOf
  <2>5. online' \in [FDs -> SUBSET Users] /\ outdated' \in [FDs -> SUBSET Users]
    BY <1>0, <1>4, <2>2, <2>4 DEF UpdateUserProfile, TypeOK
  <2>. QED
    BY <2>3, <2>5 DEF TypeOK
<1>5. ASSUME NEW f \in FDs, NEW c \in Changes, UpdateFails(f, c) PROVE TypeOK'
  BY <1>0, <1>5 DEF UpdateFails, vars, registry, shown, history, TypeOK
<1>6. CASE Restart
  <2>1. /\ UsersByFD' \in [FDs -> Entries] /\ UsersByID' \in [Users -> Entries]
        /\ online' \in [FDs -> SUBSET Users] /\ outdated' \in [FDs -> SUBSET Users]
        /\ overlapped' \subseteq Users
    BY <1>0, <1>6, AbsentFacts DEF Restart, TypeOK
  <2>2. CASE UNCHANGED <<users, accepted, updates>>
    BY <1>0, <2>1, <2>2 DEF TypeOK
  <2>3. ASSUME NEW f \in FDs, NEW c \in Changes, Present(f),
               updates < MaxUpdates, updates' = updates + 1,
               users' = [users EXCEPT ![UsersByFD[f].id] =
                             Merge(UsersByFD[f].profile, c)],
               accepted' = [accepted EXCEPT ![UsersByFD[f].id] = Merge(@, c)]
        PROVE  TypeOK'
    <3>1. UsersByFD[f].id \in Users /\ UsersByFD[f].profile \in Profiles
      BY <2>3, ChangedFacts
    <3>2. /\ Merge(UsersByFD[f].profile, c) \in Profiles
          /\ Merge(accepted[UsersByFD[f].id], c) \in Profiles
      BY <1>0, <3>1, MergeFacts DEF TypeOK
    <3>3. updates' \in 0 .. MaxUpdates
      BY <1>0, <2>3, UpdatesAssumption DEF TypeOK
    <3>. QED
      BY <1>0, <2>1, <2>3, <3>1, <3>2, <3>3 DEF TypeOK
  <2>. QED
    BY <1>6, <2>2, <2>3 DEF Restart, Present
<1>7. CASE UNCHANGED vars
  BY <1>0, <1>7 DEF vars, registry, shown, history, TypeOK
<1>. QED
  BY <1>1, <1>2, <1>3, <1>4, <1>5, <1>6, <1>7 DEF Next

-----------------------------------------------------------------------------
(* Entries.                                                                *)

LEMMA NextEntries == IInv /\ [Next]_vars => EntriesAreOfTheirFD' /\ OneEntryEach'
<1> SUFFICES ASSUME IInv, [Next]_vars
             PROVE  EntriesAreOfTheirFD' /\ OneEntryEach'
  OBVIOUS
<1>0. /\ UsersByFD \in [FDs -> Entries] /\ UsersByID \in [Users -> Entries]
      /\ EntriesAreOfTheirFD /\ OneEntryEach
  BY DEF IInv, TypeOK
<1>1. ASSUME NEW f \in FDs, NEW u \in Users, auth(f, u)
      PROVE  EntriesAreOfTheirFD' /\ OneEntryEach'
  <2>1. /\ \A h \in FDs \ {f} : UsersByFD'[h] = UsersByFD[h]
        /\ UsersByFD'[f] = Made(f, u)
        /\ \A v \in Users \ {u} : UsersByID'[v] = UsersByID[v]
        /\ UsersByID'[u] = Made(f, u)
        /\ Made(f, u).id = u /\ Made(f, u).fd = f /\ Made(f, u) # Absent
        /\ overlapped \subseteq overlapped'
        /\ \A h \in FDs \ {f} : UsersByFD[h].id = u => u \in overlapped'
    BY <1>0, <1>1, AuthFacts
  <2>2. EntriesAreOfTheirFD'
    BY <1>0, <2>1 DEF EntriesAreOfTheirFD, Present
  <2>3. ASSUME NEW g \in FDs, NEW h \in FDs, Present(g)', Present(h)',
               UsersByFD'[g].id = UsersByFD'[h].id,
               UsersByFD'[g].id \notin overlapped'
        PROVE  g = h
    BY <1>0, <2>1, <2>3 DEF OneEntryEach, Present
  <2>4. ASSUME NEW h \in FDs, Present(h)', UsersByFD'[h].id \notin overlapped'
        PROVE  UsersByID'[UsersByFD'[h].id] = UsersByFD'[h]
    <3>1. CASE h = f
      BY <2>1, <3>1
    <3>2. CASE h # f
      BY <1>0, <2>1, <2>4, <3>2 DEF OneEntryEach, Present, EntriesAreOfTheirFD
    <3>. QED
      BY <3>1, <3>2
  <2>. QED
    BY <2>2, <2>3, <2>4 DEF OneEntryEach
<1>2. ASSUME NEW f \in FDs, DisconnectClient(f)
      PROVE  EntriesAreOfTheirFD' /\ OneEntryEach'
  <2>1. /\ \A h \in FDs \ {f} : UsersByFD'[h] = UsersByFD[h]
        /\ UsersByFD'[f] = Absent
        /\ \A v \in Users \ {UsersByFD[f].id} : UsersByID'[v] = UsersByID[v]
        /\ overlapped' = overlapped /\ Present(f)
    BY <1>0, <1>2 DEF DisconnectClient, history, Present
  <2>2. EntriesAreOfTheirFD'
    BY <1>0, <2>1 DEF EntriesAreOfTheirFD, Present
  <2>3. \A g, h \in FDs : (/\ Present(g)' /\ Present(h)'
                           /\ UsersByFD'[g].id = UsersByFD'[h].id
                           /\ UsersByFD'[g].id \notin overlapped') => g = h
    BY <1>0, <2>1 DEF OneEntryEach, Present
  <2>4. ASSUME NEW h \in FDs, Present(h)', UsersByFD'[h].id \notin overlapped'
        PROVE  UsersByID'[UsersByFD'[h].id] = UsersByFD'[h]
    <3>1. h # f /\ Present(h) /\ UsersByFD'[h] = UsersByFD[h]
      BY <2>1, <2>4 DEF Present
    <3>2. UsersByFD[h].id # UsersByFD[f].id /\ UsersByFD[h].id \in Users
      BY <1>0, <2>1, <2>4, <3>1 DEF OneEntryEach, EntriesAreOfTheirFD
    <3>. QED
      BY <1>0, <2>1, <2>4, <3>1, <3>2 DEF OneEntryEach
  <2>. QED
    BY <2>2, <2>3, <2>4 DEF OneEntryEach
<1>3. ASSUME NEW f \in FDs, NEW c \in Changes, UpdateUserProfile(f, c)
      PROVE  EntriesAreOfTheirFD' /\ OneEntryEach'
  <2> DEFINE u == UsersByFD[f].id
  <2>0. Present(f) /\ u \in Users
    BY <1>3, UpdateFacts
  <2>1. /\ \A h \in FDs \ {f} : UsersByFD'[h] = UsersByFD[h]
        /\ UsersByFD'[f] = Changed(f, c)
        /\ \A v \in Users \ {u} : UsersByID'[v] = UsersByID[v]
        /\ UsersByID'[u] = Changed(f, c)
        /\ Changed(f, c).id = u /\ Changed(f, c).fd = f /\ Changed(f, c) # Absent
        /\ overlapped' = overlapped
    BY <1>0, <1>3, <2>0, UpdateFacts, ChangedFacts
  <2>2. EntriesAreOfTheirFD'
    BY <1>0, <2>0, <2>1 DEF EntriesAreOfTheirFD, Present
  <2>3. ASSUME NEW h \in FDs
        PROVE  (Present(h)' <=> Present(h)) /\ UsersByFD'[h].id = UsersByFD[h].id
    BY <2>0, <2>1 DEF Present
  <2>4. \A g, h \in FDs : (/\ Present(g)' /\ Present(h)'
                           /\ UsersByFD'[g].id = UsersByFD'[h].id
                           /\ UsersByFD'[g].id \notin overlapped') => g = h
    BY <1>0, <2>1, <2>3 DEF OneEntryEach
  <2>5. ASSUME NEW h \in FDs, Present(h)', UsersByFD'[h].id \notin overlapped'
        PROVE  UsersByID'[UsersByFD'[h].id] = UsersByFD'[h]
    <3>1. CASE h = f
      BY <2>1, <3>1
    <3>2. CASE h # f
      <4>1. Present(h) /\ UsersByFD'[h] = UsersByFD[h]
        BY <2>1, <2>3, <2>5, <3>2
      <4>2. UsersByFD[h].id # u /\ UsersByFD[h].id \in Users
        BY <1>0, <2>0, <2>1, <2>5, <3>2, <4>1
           DEF OneEntryEach, EntriesAreOfTheirFD
      <4>. QED
        BY <1>0, <2>1, <2>5, <4>1, <4>2 DEF OneEntryEach
    <3>. QED
      BY <3>1, <3>2
  <2>. QED
    BY <2>2, <2>4, <2>5 DEF OneEntryEach
<1>4. CASE Restart
  BY <1>4 DEF Restart, EntriesAreOfTheirFD, OneEntryEach, Present
<1>5. CASE UNCHANGED <<registry, overlapped>>
  BY <1>0, <1>5 DEF registry, EntriesAreOfTheirFD, OneEntryEach, Present
<1>6. ASSUME NEW f \in FDs, ListFriends(f) PROVE UNCHANGED <<registry, overlapped>>
  BY <1>6 DEF ListFriends, history
<1>7. UNCHANGED vars => UNCHANGED <<registry, overlapped>>
  BY DEF vars, history
<1>. QED
  BY <1>1, <1>2, <1>3, <1>4, <1>5, <1>6, <1>7 DEF Next, UpdateFails

-----------------------------------------------------------------------------
(* Profiles.                                                               *)

Current == ProfileIsKept /\ CopiesAreCurrent

\* A row that a request of an account with one connection writes.
LEMMA WriteKeepsProfile ==
    ASSUME IInv, NEW f \in FDs, NEW c \in Changes, Present(f),
           NEW u \in Users, u = UsersByFD[f].id,
           users' = [users EXCEPT ![u] = Merge(UsersByFD[f].profile, c)],
           accepted' = [accepted EXCEPT ![u] = Merge(accepted[u], c)],
           overlapped' = overlapped
    PROVE  ProfileIsKept'
<1>0. /\ users \in [Users -> Profiles] /\ accepted \in [Users -> Profiles]
      /\ ProfileIsKept
  BY DEF IInv, TypeOK
<1> SUFFICES ASSUME NEW v \in Users \ overlapped
             PROVE  /\ users'[v]["display_name"] = accepted'[v]["display_name"]
                    /\ users'[v]["pfp"] \in {accepted'[v]["pfp"], NULL}
  BY DEF ProfileIsKept
<1>1. CASE v # u
  BY <1>0, <1>1 DEF ProfileIsKept
<1>2. CASE v = u
  <2>1. users'[v] = Merge(UsersByFD[f].profile, c)
        /\ accepted'[v] = Merge(accepted[u], c)
    BY <1>0, <1>2
  <2>2. /\ UsersByFD[f].profile["display_name"] = users[u]["display_name"]
        /\ UsersByFD[f].profile["pfp"] \in {users[u]["pfp"], NULL}
    BY <1>2 DEF IInv, CopiesAreCurrent, Present
  <2>3. /\ users[u]["display_name"] = accepted[u]["display_name"]
        /\ users[u]["pfp"] \in {accepted[u]["pfp"], NULL}
    BY <1>0, <1>2 DEF ProfileIsKept
  <2>4. UsersByFD[f].profile \in Profiles
    BY ChangedFacts
  <2>. QED
    BY <1>0, <2>1, <2>2, <2>3, <2>4, MergeKeepsProfile
<1>. QED
  BY <1>1, <1>2

LEMMA NextCurrent == IInv /\ [Next]_vars => Current'
<1> SUFFICES ASSUME IInv, [Next]_vars PROVE Current'
  OBVIOUS
<1>0. /\ UsersByFD \in [FDs -> Entries] /\ users \in [Users -> Profiles]
      /\ EntriesAreOfTheirFD /\ OneEntryEach /\ ProfileIsKept /\ CopiesAreCurrent
  BY DEF IInv, TypeOK
<1>1. ASSUME NEW f \in FDs, NEW u \in Users, auth(f, u) PROVE Current'
  <2>1. /\ \A h \in FDs \ {f} : UsersByFD'[h] = UsersByFD[h]
        /\ UsersByFD'[f] = Made(f, u)
        /\ Made(f, u).id = u /\ Made(f, u).profile = Copied(u)
        /\ overlapped \subseteq overlapped'
        /\ UNCHANGED <<users, accepted>>
    BY <1>0, <1>1, AuthFacts
  <2>2. ProfileIsKept'
    BY <1>0, <2>1 DEF ProfileIsKept
  <2>3. ASSUME NEW h \in FDs, Present(h)', UsersByFD'[h].id \notin overlapped'
        PROVE  /\ UsersByFD'[h].profile["display_name"] =
                      users[UsersByFD'[h].id]["display_name"]
               /\ UsersByFD'[h].profile["pfp"] \in
                      {users[UsersByFD'[h].id]["pfp"], NULL}
    <3>1. CASE h = f
      <4>1. /\ Copied(u)["display_name"] = users[u]["display_name"]
            /\ Copied(u)["pfp"] = NULL
        BY CopyFacts DEF IInv
      <4>. QED
        BY <2>1, <3>1, <4>1
    <3>2. CASE h # f
      BY <1>0, <2>1, <2>3, <3>2 DEF CopiesAreCurrent, Present
    <3>. QED
      BY <3>1, <3>2
  <2>. QED
    BY <2>1, <2>2, <2>3 DEF CopiesAreCurrent, Present, Current
<1>2. ASSUME NEW f \in FDs, DisconnectClient(f) PROVE Current'
  <2>1. /\ \A h \in FDs \ {f} : UsersByFD'[h] = UsersByFD[h]
        /\ UsersByFD'[f] = Absent
        /\ UNCHANGED <<users, accepted, overlapped>>
    BY <1>0, <1>2 DEF DisconnectClient, history
  <2>. QED
    BY <1>0, <2>1 DEF Current, ProfileIsKept, CopiesAreCurrent
<1>3. ASSUME NEW f \in FDs, NEW c \in Changes, UpdateUserProfile(f, c)
      PROVE  Current'
  <2> DEFINE u == UsersByFD[f].id
             row == Merge(UsersByFD[f].profile, c)
  <2>1. /\ Present(f) /\ u \in Users
        /\ users' = [users EXCEPT ![u] = row]
        /\ UsersByFD' = [UsersByFD EXCEPT ![f] = Changed(f, c)]
        /\ accepted' = [accepted EXCEPT ![u] = Merge(accepted[u], c)]
        /\ overlapped' = overlapped
    BY <1>3, UpdateFacts
  <2>2. ProfileIsKept'
    BY <2>1, WriteKeepsProfile
  <2>3. /\ Changed(f, c).id = u /\ Changed(f, c).profile = row
    BY <2>1, ChangedFacts
  <2>4. ASSUME NEW h \in FDs, Present(h)', UsersByFD'[h].id \notin overlapped'
        PROVE  /\ UsersByFD'[h].profile["display_name"] =
                      users'[UsersByFD'[h].id]["display_name"]
               /\ UsersByFD'[h].profile["pfp"] \in
                      {users'[UsersByFD'[h].id]["pfp"], NULL}
    <3>1. CASE h = f
      <4>1. UsersByFD'[h] = Changed(f, c) /\ users'[u] = row
        BY <1>0, <2>1, <3>1
      <4>. QED
        BY <2>3, <4>1
    <3>2. CASE h # f
      <4>1. UsersByFD'[h] = UsersByFD[h] /\ Present(h)
        BY <1>0, <2>1, <2>4, <3>2 DEF Present
      <4>2. UsersByFD[h].id # u /\ UsersByFD[h].id \in Users
        BY <1>0, <2>1, <2>4, <3>2, <4>1 DEF OneEntryEach, EntriesAreOfTheirFD
      <4>3. users'[UsersByFD[h].id] = users[UsersByFD[h].id]
        BY <1>0, <2>1, <4>2
      <4>. QED
        BY <1>0, <2>1, <2>4, <4>1, <4>3 DEF CopiesAreCurrent, Present
    <3>. QED
      BY <3>1, <3>2
  <2>. QED
    BY <2>2, <2>4 DEF CopiesAreCurrent, Present, Current
<1>4. CASE Restart
  <2>1. CopiesAreCurrent'
    BY <1>4 DEF Restart, CopiesAreCurrent
  <2>2. overlapped' = overlapped
    BY <1>4 DEF Restart
  <2>3. CASE UNCHANGED <<users, accepted, updates>>
    BY <1>0, <2>1, <2>2, <2>3 DEF ProfileIsKept, Current
  <2>4. ASSUME NEW f \in FDs, NEW c \in Changes, Present(f),
               users' = [users EXCEPT ![UsersByFD[f].id] =
                             Merge(UsersByFD[f].profile, c)],
               accepted' = [accepted EXCEPT ![UsersByFD[f].id] =
                                Merge(accepted[UsersByFD[f].id], c)]
        PROVE  Current'
    <3>1. UsersByFD[f].id \in Users
      BY <2>4, ChangedFacts
    <3>2. ProfileIsKept'
      BY <2>2, <2>4, <3>1, WriteKeepsProfile
    <3>. QED
      BY <2>1, <3>2 DEF Current
  <2>. QED
    BY <1>4, <2>3, <2>4 DEF Restart, Present
<1>5. CASE UNCHANGED <<users, registry, accepted, overlapped>>
  BY <1>0, <1>5 DEF registry, Current, ProfileIsKept, CopiesAreCurrent
<1>6. ASSUME NEW f \in FDs, ListFriends(f)
      PROVE  UNCHANGED <<users, registry, accepted, overlapped>>
  BY <1>6 DEF ListFriends, history
<1>7. UNCHANGED vars => UNCHANGED <<users, registry, accepted, overlapped>>
  BY DEF vars, history
<1>. QED
  BY <1>1, <1>2, <1>3, <1>4, <1>5, <1>6, <1>7 DEF Next, UpdateFails

-----------------------------------------------------------------------------
(* Presence.                                                               *)

\* The case that OnlineFriendsAreSeen is about.
Concerned(f, v) ==
    /\ Present(f)
    /\ {UsersByFD[f].id, v} \cap overlapped = {}
    /\ \E r \in Friendships : {r[1], r[2]} = {UsersByFD[f].id, v}
    /\ IsOnline(v)

LEMMA SeenFriends ==
    OnlineFriendsAreSeen <=>
        \A f \in FDs : \A v \in Users : Concerned(f, v) => v \in online[f]
  BY DEF OnlineFriendsAreSeen, Concerned, Present

LEMMA NextSeen ==
    IInv /\ [Next]_vars =>
        \A f \in FDs : \A v \in Users : Concerned(f, v)' => v \in online'[f]
<1> SUFFICES ASSUME IInv, [Next]_vars, NEW f \in FDs, NEW v \in Users,
                    Concerned(f, v)'
             PROVE  v \in online'[f]
  OBVIOUS
<1>0. /\ UsersByFD \in [FDs -> Entries] /\ UsersByID \in [Users -> Entries]
      /\ online \in [FDs -> SUBSET Users]
      /\ EntriesAreOfTheirFD /\ OneEntryEach
      /\ \A h \in FDs : \A w \in Users : Concerned(h, w) => w \in online[h]
      /\ EntriesAreOfTheirFD' /\ OneEntryEach'
  BY SeenFriends, NextEntries DEF IInv, TypeOK
<1> DEFINE u == UsersByFD'[f].id
<1>a. /\ Present(f)' /\ u \in Users /\ u \notin overlapped' /\ v \notin overlapped'
      /\ v \in FriendsOf(u) /\ u \in FriendsOf(v)
      /\ \E r \in Friendships : {r[1], r[2]} = {u, v}
      /\ IsOnline(v)'
  <2>1. Present(f)' /\ u \in Users /\ IsOnline(v)'
        /\ \E r \in Friendships : {r[1], r[2]} = {u, v}
    BY <1>0 DEF Concerned, EntriesAreOfTheirFD
  <2>2. {u, v} \cap overlapped' = {}
    BY DEF Concerned
  <2>. QED
    BY <2>1, <2>2, FriendsByRow, FriendsOfIsSymmetric
<1>1. ASSUME NEW g \in FDs, NEW w \in Users, auth(g, w) PROVE v \in online'[f]
  <2>1. /\ \A h \in FDs \ {g} : UsersByFD'[h] = UsersByFD[h]
        /\ UsersByFD'[g] = Made(g, w)
        /\ \A x \in Users \ {w} : UsersByID'[x] = UsersByID[x]
        /\ Made(g, w).id = w
        /\ overlapped \subseteq overlapped'
        /\ \A h \in FDs \ {g} : UsersByFD[h].id = w => w \in overlapped'
    BY <1>0, <1>1, AuthFacts
  <2>2. online' = [h \in FDs |->
               IF h = g THEN {x \in FriendsOf(w) : IsOnline(x)'}
               ELSE IF h \in Notified(w) THEN online[h] \cup {w} ELSE online[h]]
    BY <1>1 DEF auth
  <2>3. CASE f = g
    BY <1>a, <2>1, <2>2, <2>3
  <2>4. CASE f # g
    <3>1. /\ UsersByFD[f] = UsersByFD'[f] /\ Present(f) /\ u # w
          /\ u \notin overlapped
      BY <1>a, <2>1, <2>4 DEF Present
    <3>2. CASE v = w
      <4>1. UsersByID[u] = UsersByFD[f] /\ UsersByFD[f].fd = f
        BY <1>0, <3>1 DEF OneEntryEach, EntriesAreOfTheirFD
      <4>2. UsersByID'[u].fd = f /\ f # NoFD
        BY <1>a, <2>1, <3>1, <4>1, NamesAssumption
      <4>3. f \in Notified(w)
        BY <1>a, <3>2, <4>2 DEF Notified
      <4>. QED
        BY <2>2, <2>4, <3>2, <4>3
    <3>3. CASE v # w
      <4>1. Concerned(f, v)
        BY <1>a, <2>1, <3>1, <3>3 DEF Concerned, IsOnline
      <4>. QED
        BY <1>0, <2>2, <2>4, <4>1
    <3>. QED
      BY <3>2, <3>3
  <2>. QED
    BY <2>3, <2>4
<1>2. ASSUME NEW g \in FDs, ListFriends(g) PROVE v \in online'[f]
  <2>1. /\ UNCHANGED <<UsersByFD, UsersByID, overlapped>>
        /\ online' = [online EXCEPT ![g] =
                          {x \in FriendsOf(UsersByFD[g].id) : IsOnline(x)}]
    BY <1>2 DEF ListFriends, registry, history
  <2>2. Concerned(f, v) /\ IsOnline(v)
    BY <1>a, <2>1 DEF Concerned, Present, IsOnline
  <2>. QED
    BY <1>0, <1>a, <2>1, <2>2
<1>3. ASSUME NEW g \in FDs, DisconnectClient(g) PROVE v \in online'[f]
  <2>1. /\ UsersByFD' = [UsersByFD EXCEPT ![g] = Absent]
        /\ UsersByID' = [UsersByID EXCEPT ![UsersByFD[g].id] = Absent]
        /\ online' = [online EXCEPT ![g] = {}]
        /\ overlapped' = overlapped /\ Present(g)
    BY <1>3 DEF DisconnectClient, history, Present
  <2>2. f # g /\ UsersByFD'[f] = UsersByFD[f]
    BY <1>0, <1>a, <2>1 DEF Present
  <2>3. v # UsersByFD[g].id /\ UsersByID'[v] = UsersByID[v]
    BY <1>0, <1>a, <2>1 DEF IsOnline
  <2>4. Concerned(f, v)
    BY <1>a, <2>1, <2>2, <2>3 DEF Concerned, Present, IsOnline
  <2>. QED
    BY <1>0, <2>1, <2>2, <2>4
<1>4. ASSUME NEW g \in FDs, NEW c \in Changes, UpdateUserProfile(g, c)
      PROVE  v \in online'[f]
  <2> DEFINE w == UsersByFD[g].id
             S(h) == ShownBy(ProfilePushes(w), h)
  <2>1. /\ Present(g) /\ w \in Users
        /\ UsersByFD' = [UsersByFD EXCEPT ![g] = Changed(g, c)]
        /\ UsersByID' = [UsersByID EXCEPT ![w] = Changed(g, c)]
        /\ Changed(g, c).id = w /\ Changed(g, c) # Absent
        /\ overlapped' = overlapped
    BY <1>4, UpdateFacts, ChangedFacts
  <2>2. online' = [h \in FDs |-> (online[h] \ S(h)) \cup
                                 {x \in S(h) : IsOnline(x)'}]
    BY <1>4 DEF UpdateUserProfile
  <2>3. UsersByFD[f].id = u /\ Present(f)
    BY <1>0, <1>a, <2>1 DEF Present
  <2>4. IsOnline(v)
    <3>1. CASE v = w
      <4>1. UsersByID[w] = UsersByFD[g]
        BY <1>0, <1>a, <2>1, <3>1 DEF OneEntryEach
      <4>. QED
        BY <2>1, <3>1, <4>1 DEF IsOnline, Present
    <3>2. CASE v # w
      BY <1>0, <1>a, <2>1, <3>2 DEF IsOnline
    <3>. QED
      BY <3>1, <3>2
  <2>5. Concerned(f, v)
    BY <1>a, <2>1, <2>3, <2>4 DEF Concerned
  <2>6. v \in online[f]
    BY <1>0, <2>5
  <2>. QED
    BY <1>a, <2>2, <2>6
<1>5. CASE Restart
  <2>1. UsersByFD'[f] = Absent
    BY <1>5 DEF Restart
  <2>. QED
    BY <1>a, <2>1 DEF Present
<1>6. CASE UNCHANGED vars
  <2>1. UNCHANGED <<UsersByFD, UsersByID, online, overlapped>>
    BY <1>6 DEF vars, registry, shown, history
  <2>2. Concerned(f, v)
    BY <1>a, <2>1 DEF Concerned, Present, IsOnline
  <2>. QED
    BY <1>0, <2>1, <2>2
<1>. QED
  BY <1>1, <1>2, <1>3, <1>4, <1>5, <1>6 DEF Next, UpdateFails

-----------------------------------------------------------------------------
(* The theorems.                                                           *)

LEMMA Invariant == Spec => []IInv
<1>1. IInv /\ [Next]_vars => OnlineFriendsAreSeen'
  BY NextSeen DEF OnlineFriendsAreSeen, Concerned, Present
<1>2. IInv /\ [Next]_vars => IInv'
  BY <1>1, NextTypeOK, NextEntries, NextCurrent DEF IInv, Current
<1>. QED
  BY <1>2, InitIInv, PTL DEF Spec

\* The types of the variables, for any accounts and connections.
THEOREM TypeCorrectness == Spec => []TypeOK
<1>1. IInv => TypeOK
  BY DEF IInv
<1>. QED
  BY <1>1, Invariant, PTL

\* However logins, lists, updates and disconnects of two friends interleave,
\* neither misses that the other is online ("auth" stores before it notifies).
THEOREM FriendsSeeEachOther == Spec => []OnlineFriendsAreSeen
<1>1. IInv => OnlineFriendsAreSeen
  BY DEF IInv
<1>. QED
  BY <1>1, Invariant, PTL

\* No UpdateUserProfile, answered or cut off by a crash after its commit,
\* brings back a display_name older than the one accepted last.
THEOREM AcceptedProfilesStay == Spec => []ProfileIsKept
<1>1. IInv => ProfileIsKept
  BY DEF IInv
<1>. QED
  BY <1>1, Invariant, PTL

\* The copy a connection updates from is never ahead of its row nor older.
THEOREM CopiesFollowRows == Spec => []CopiesAreCurrent
<1>1. IInv => CopiesAreCurrent
  BY DEF IInv
<1>. QED
  BY <1>1, Invariant, PTL
=============================================================================
