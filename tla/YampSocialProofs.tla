-------------------------- MODULE YampSocialProofs --------------------------
(***************************************************************************)
(* Proofs about YampSocial, for any accounts and any number of repeated    *)
(* requests, across crashes and failed writes.                             *)
(***************************************************************************)
EXTENDS YampSocial, TLAPS

\* What a request in the table, or in the hands of AcceptFriendReq, has behind
\* it: two different accounts, and a client who asked.
RequestsWereAsked ==
    /\ \A p \in Pairs : friendreq[p] > 0 => p \in asked
    /\ \A p \in Pairs : job = Inserting(p) => p \in asked /\ p[1] # p[2]

\* What AreFriends looks for is what an acceptance leaves: the row itself, in
\* the order of the request, and not just a friendship of the two.
AcceptedAreStored ==
    \A p \in accepted \ lost : friendship[p] > 0 \/ job = Inserting(p)

IInv ==
    /\ TypeOK
    /\ FriendshipRowsUnique
    /\ NoSelfRows
    /\ FriendshipWasAsked
    /\ RequestsAreKept
    /\ AcceptedAreStored
    /\ FriendViewMatches
    /\ DMUnique
    /\ RequestsWereAsked

-----------------------------------------------------------------------------
(* Lemmas about the queries and the job record.                            *)

\* The two halves of the WHERE clause of AreFriends are the same condition:
\* only the row (user1, user2) answers.
LEMMA AreFriendsIsDirected ==
    ASSUME NEW a \in Users, NEW b \in Users
    PROVE  AreFriends(a, b) <=> friendship[<<a, b>>] > 0
  BY DEF AreFriends, Pairs

\* HasDMs, by contrast, sees a conversation whoever started it.
LEMMA HasDMsIsSymmetric ==
    ASSUME NEW u \in Users, NEW r \in Ids
    PROVE  HasDMs(u, r) <=> \/ dm[<<u, r>>] > 0
                            \/ r \in Users /\ dm[<<r, u>>] > 0
  BY DEF HasDMs, Ids

LEMMA JobFacts ==
    /\ \A p \in Pairs : Idle # Inserting(p) /\ Inserting(p).pair = p
    /\ \A p, q \in Pairs : Inserting(p) = Inserting(q) => p = q
    /\ TypeOK /\ job.step = "insert" =>
           /\ job = Inserting(job.pair)
           /\ job.pair \in Pairs
<1>1. \A p \in Pairs : /\ Inserting(p).step = "insert"
                       /\ Inserting(p).pair = p
  BY DEF Inserting
<1>2. Idle.step = "idle"
  BY DEF Idle
<1>3. TypeOK /\ job.step = "insert" => \E p \in Pairs : job = Inserting(p)
  BY <1>2 DEF TypeOK
<1>. QED
  BY <1>1, <1>2, <1>3

LEMMA InitIInv == Init => IInv
<1> SUFFICES ASSUME Init PROVE IInv
  OBVIOUS
<1>1. TypeOK
  BY MaxRequestsAssumption DEF Init, TypeOK, MaxRequestsAssumption
<1>2. FriendshipRowsUnique /\ NoSelfRows /\ FriendshipWasAsked
  BY DEF Init, FriendshipRowsUnique, NoSelfRows, FriendshipWasAsked, Pairs
<1>3. RequestsAreKept /\ AcceptedAreStored /\ FriendViewMatches
  BY DEF Init, RequestsAreKept, AcceptedAreStored, FriendViewMatches
<1>4. DMUnique
  BY DEF Init, DMUnique, Ids
<1>5. RequestsWereAsked
  BY JobFacts DEF Init, RequestsWereAsked
<1>. QED
  BY <1>1, <1>2, <1>3, <1>4, <1>5 DEF IInv

-----------------------------------------------------------------------------
(* One lemma per action.                                                   *)

LEMMA AuthIInv ==
    ASSUME IInv, NEW u \in Users, auth(u) PROVE IInv'
<1> USE DEF IInv
<1>1. UNCHANGED <<friendreq, friendship, dm, job, asked, waiting, accepted,
                 lost>>
  BY DEF auth
<1>2. FriendsList(u) \subseteq Users
  BY DEF FriendsList
<1>3. TypeOK'
  BY <1>1, <1>2 DEF auth, TypeOK, IncomingFQ
<1>4. \A v \in Users : FriendsList(v)' = FriendsList(v)
  BY <1>1 DEF FriendsList
<1>5. FriendViewMatches'
  BY <1>1, <1>4 DEF auth, FriendViewMatches, TypeOK
<1>6. FriendshipRowsUnique' /\ NoSelfRows' /\ FriendshipWasAsked' /\ DMUnique'
  BY <1>1 DEF FriendshipRowsUnique, NoSelfRows, FriendshipWasAsked, DMUnique
<1>7. RequestsAreKept' /\ AcceptedAreStored' /\ RequestsWereAsked'
  BY <1>1 DEF RequestsAreKept, AcceptedAreStored, RequestsWereAsked
<1>. QED
  BY <1>3, <1>5, <1>6, <1>7

LEMMA ListFriendsIInv ==
    ASSUME IInv, NEW u \in Users, ListFriends(u) PROVE IInv'
<1> USE DEF IInv
<1>1. UNCHANGED <<friendreq, friendship, dm, job, online, asked, waiting, accepted,
                 lost>>
  BY DEF ListFriends
<1>2. FriendsList(u) \subseteq Users
  BY DEF FriendsList
<1>3. TypeOK'
  BY <1>1, <1>2 DEF ListFriends, TypeOK
<1>4. \A v \in Users : FriendsList(v)' = FriendsList(v)
  BY <1>1 DEF FriendsList
<1>5. FriendViewMatches'
  BY <1>1, <1>4 DEF ListFriends, FriendViewMatches, TypeOK
<1>6. FriendshipRowsUnique' /\ NoSelfRows' /\ FriendshipWasAsked' /\ DMUnique'
  BY <1>1 DEF FriendshipRowsUnique, NoSelfRows, FriendshipWasAsked, DMUnique
<1>7. RequestsAreKept' /\ AcceptedAreStored' /\ RequestsWereAsked'
  BY <1>1 DEF RequestsAreKept, AcceptedAreStored, RequestsWereAsked
<1>. QED
  BY <1>3, <1>5, <1>6, <1>7

LEMMA DisconnectIInv ==
    ASSUME IInv, NEW u \in Users, Disconnect(u) PROVE IInv'
<1> USE DEF IInv
<1>1. UNCHANGED <<friendreq, friendship, dm, job, asked, waiting, accepted,
                 lost>>
  BY DEF Disconnect
<1>2. TypeOK'
  BY <1>1 DEF Disconnect, TypeOK
<1>3. FriendViewMatches'
  BY <1>1 DEF Disconnect, FriendViewMatches, FriendsList, TypeOK
<1>4. FriendshipRowsUnique' /\ NoSelfRows' /\ FriendshipWasAsked' /\ DMUnique'
  BY <1>1 DEF FriendshipRowsUnique, NoSelfRows, FriendshipWasAsked, DMUnique
<1>5. RequestsAreKept' /\ AcceptedAreStored' /\ RequestsWereAsked'
  BY <1>1 DEF RequestsAreKept, AcceptedAreStored, RequestsWereAsked
<1>. QED
  BY <1>2, <1>3, <1>4, <1>5

LEMMA CrashIInv == IInv /\ Crash => IInv'
<1> SUFFICES ASSUME IInv, Crash PROVE IInv'
  OBVIOUS
<1> USE DEF IInv
<1>1. /\ UNCHANGED <<friendreq, friendship, dm, asked, waiting, accepted>>
      /\ job' = Idle /\ online' = {}
      /\ lost' = lost \cup (IF job = Idle THEN {} ELSE {job.pair})
  BY DEF Crash
<1>2. job # Idle => job.pair \in Pairs /\ job = Inserting(job.pair)
  BY JobFacts DEF TypeOK
<1>3. TypeOK'
  BY <1>1, <1>2 DEF Crash, TypeOK
<1>4. FriendshipRowsUnique' /\ NoSelfRows' /\ FriendshipWasAsked' /\ DMUnique'
  BY <1>1 DEF FriendshipRowsUnique, NoSelfRows, FriendshipWasAsked, DMUnique
<1>5. RequestsAreKept' /\ AcceptedAreStored'
  BY <1>1, <1>2, JobFacts DEF RequestsAreKept, AcceptedAreStored, TypeOK
<1>6. FriendViewMatches' /\ RequestsWereAsked'
  BY <1>1, JobFacts DEF FriendViewMatches, RequestsWereAsked
<1>. QED
  BY <1>3, <1>4, <1>5, <1>6

LEMMA SendFriendReqIInv ==
    ASSUME IInv, NEW u \in Users, NEW target \in Users,
           SendFriendReq(u, target)
    PROVE  IInv'
<1> USE DEF IInv
<1> DEFINE p == <<u, target>>
<1>1. /\ UNCHANGED <<friendship, dm, job, online, knownFriends, accepted, lost>>
      /\ job = Idle /\ u # target /\ p \in Pairs
      /\ asked' = asked \cup {p}
  BY DEF SendFriendReq, MayAsk, Pairs
<1>2. \/ /\ friendreq[p] < MaxRequests
         /\ friendreq' = [friendreq EXCEPT ![p] = @ + 1]
         /\ waiting' = waiting \cup {p}
      \/ friendreq' = friendreq /\ waiting' = waiting
  BY DEF SendFriendReq, Add
<1>3. \A q \in Pairs : friendreq[q] \in Nat
  BY MaxRequestsAssumption DEF TypeOK, MaxRequestsAssumption
<1>4. TypeOK'
  <2>1. friendreq' \in [Pairs -> 0 .. MaxRequests]
    BY <1>1, <1>2, MaxRequestsAssumption DEF TypeOK, MaxRequestsAssumption
  <2>2. knownReqs' \in [Users -> SUBSET Users]
    BY DEF SendFriendReq, TypeOK
  <2>3. waiting' \subseteq Pairs
    BY <1>1, <1>2 DEF TypeOK
  <2>. QED
    BY <1>1, <2>1, <2>2, <2>3 DEF TypeOK
<1>5. FriendshipRowsUnique' /\ DMUnique'
  BY <1>1 DEF FriendshipRowsUnique, DMUnique
<1>6. NoSelfRows'
  <2>1. ASSUME NEW v \in Users
        PROVE  friendreq'[<<v, v>>] = friendreq[<<v, v>>]
    <3>1. <<v, v>> \in Pairs /\ <<v, v>> # p
      BY <1>1 DEF Pairs
    <3>. QED
      BY <1>2, <3>1 DEF TypeOK
  <2>. QED
    BY <1>1, <2>1 DEF NoSelfRows
<1>7. FriendshipWasAsked'
  BY <1>1 DEF FriendshipWasAsked
<1>8. RequestsAreKept' /\ AcceptedAreStored'
  <2>1. ASSUME NEW q \in waiting' PROVE friendreq'[q] > 0
    <3>1. q \in Pairs
      BY <1>1, <1>2 DEF TypeOK
    <3>2. CASE q = p
      BY <1>2, <1>3, <2>1, <3>1, <3>2 DEF RequestsAreKept, TypeOK
    <3>3. CASE q # p
      BY <1>2, <2>1, <3>1, <3>3 DEF RequestsAreKept, TypeOK
    <3>. QED
      BY <3>2, <3>3
  <2>. QED
    BY <1>1, <2>1 DEF RequestsAreKept, AcceptedAreStored
<1>9. FriendViewMatches'
  BY <1>1, <1>2 DEF FriendViewMatches, FriendsList
<1>10. RequestsWereAsked'
  BY <1>1, <1>2, JobFacts DEF RequestsWereAsked, TypeOK
<1>. QED
  BY <1>4, <1>5, <1>6, <1>7, <1>8, <1>9, <1>10

LEMMA AcceptFriendReqIInv ==
    ASSUME IInv, NEW u \in Users, NEW s \in Users, AcceptFriendReq(u, s)
    PROVE  IInv'
<1> USE DEF IInv
<1> DEFINE p == <<s, u>>
<1>1. /\ UNCHANGED <<friendship, dm, online, knownFriends, knownReqs, asked,
                     lost>>
      /\ waiting' = waiting \ {p} /\ accepted' = accepted \cup {p}
      /\ job = Idle /\ job' = Inserting(p) /\ p \in Pairs
      /\ friendreq[p] > 0
      /\ friendreq' = [friendreq EXCEPT ![p] = 0]
  BY DEF AcceptFriendReq, Deletes, Delete, Pairs
<1>2. TypeOK'
  BY <1>1, MaxRequestsAssumption DEF TypeOK, MaxRequestsAssumption
<1>3. FriendshipRowsUnique' /\ DMUnique' /\ FriendshipWasAsked'
  BY <1>1 DEF FriendshipRowsUnique, DMUnique, FriendshipWasAsked
<1>4. NoSelfRows'
  BY <1>1 DEF NoSelfRows, TypeOK, Pairs
<1>5. RequestsAreKept' /\ AcceptedAreStored'
  BY <1>1, JobFacts DEF RequestsAreKept, AcceptedAreStored, TypeOK
<1>6. FriendViewMatches'
  BY <1>1 DEF FriendViewMatches, FriendsList
<1>7. RequestsWereAsked'
  <2>1. p \in asked
    BY <1>1 DEF RequestsWereAsked
  <2>2. p[1] # p[2]
    BY <1>1, <1>4, <2>1 DEF NoSelfRows
  <2>3. \A q \in Pairs : friendreq'[q] > 0 => q \in asked'
    BY <1>1 DEF RequestsWereAsked, TypeOK
  <2>. QED
    BY <1>1, <2>1, <2>2, <2>3, JobFacts DEF RequestsWereAsked
<1>. QED
  BY <1>2, <1>3, <1>4, <1>5, <1>6, <1>7

\* The second write: the row is new, because AreFriends looks for exactly it.
LEMMA FinishAcceptIInv == IInv /\ FinishAccept => IInv'
<1> SUFFICES ASSUME IInv, FinishAccept PROVE IInv'
  OBVIOUS
<1> USE DEF IInv
<1>1. PICK s \in Users, u \in Users :
          /\ job = Inserting(<<s, u>>) /\ job.pair = <<s, u>>
          /\ <<s, u>> \in Pairs /\ s # u /\ <<s, u>> \in asked
  <2>1. job = Inserting(job.pair) /\ job.pair \in Pairs
    BY JobFacts DEF FinishAccept
  <2>2. job.pair \in asked /\ job.pair[1] # job.pair[2]
    BY <2>1 DEF RequestsWereAsked
  <2>. QED
    BY <2>1, <2>2 DEF Pairs
<1> DEFINE p == <<s, u>>
<1>2. /\ UNCHANGED <<friendreq, dm, online, knownReqs, asked, waiting, accepted>>
      /\ job' = Idle
  BY <1>1 DEF FinishAccept
<1>3. \/ friendship[p] > 0 /\ UNCHANGED <<friendship, knownFriends, lost>>
      \/ /\ friendship[p] = 0
         /\ friendship' = [friendship EXCEPT ![p] = 1]
         /\ lost' = lost \ {p}
         /\ PushNewFriends(s, u)
      \/ /\ friendship' = friendship
         /\ lost' = lost \cup {p}
         /\ PushNewFriends(s, u)
  <2>1. CASE AreFriends(s, u)
    BY <1>1, <2>1, AreFriendsIsDirected DEF FinishAccept
  <2>2. CASE ~AreFriends(s, u)
    <3>1. friendship[p] = 0 /\ Add(friendship, p) = [friendship EXCEPT ![p] = 1]
      <4>1. friendship[p] \in Nat /\ ~(friendship[p] > 0)
        BY <1>1, <2>2, AreFriendsIsDirected DEF TypeOK
      <4>2. friendship[p] = 0
        BY <4>1
      <4>. QED
        BY <4>2 DEF Add
    <3>. QED
      BY <1>1, <2>2, <3>1 DEF FinishAccept, CreateFriendship
  <2>. QED
    BY <2>1, <2>2
<1>4. /\ knownFriends' \in [Users -> SUBSET Users]
      /\ lost \ {p} \subseteq lost' /\ lost' \subseteq Pairs
  BY <1>1, <1>3 DEF PushNewFriends, TypeOK
<1>5. TypeOK'
  <2>1. friendship' \in [Pairs -> Nat]
    <3>1. CASE friendship' = friendship
      BY <3>1 DEF TypeOK
    <3>2. CASE friendship' = [friendship EXCEPT ![p] = 1]
      BY <3>2 DEF TypeOK
    <3>. QED
      BY <1>3, <3>1, <3>2
  <2>2. job' \in {Idle} \cup {Inserting(q) : q \in Pairs}
    BY <1>2
  <2>. QED
    BY <1>2, <1>4, <2>1, <2>2 DEF TypeOK
<1>6. FriendshipRowsUnique' /\ DMUnique'
  <2>1. CASE friendship' = friendship
    BY <1>2, <2>1 DEF FriendshipRowsUnique, DMUnique
  <2>2. CASE friendship' = [friendship EXCEPT ![p] = 1]
    BY <1>2, <2>2 DEF FriendshipRowsUnique, DMUnique, TypeOK
  <2>. QED
    BY <1>3, <2>1, <2>2
<1>7. NoSelfRows'
  <2> SUFFICES ASSUME NEW v \in Users
               PROVE  friendship'[<<v, v>>] = 0 /\ friendreq'[<<v, v>>] = 0
    BY DEF NoSelfRows
  <2>1. <<v, v>> \in Pairs /\ <<v, v>> # p
    BY <1>1 DEF Pairs
  <2>2. friendship'[<<v, v>>] = friendship[<<v, v>>]
    BY <1>3, <2>1 DEF TypeOK
  <2>. QED
    BY <1>2, <2>2 DEF NoSelfRows
<1>8. FriendshipWasAsked'
  BY <1>1, <1>2, <1>3 DEF FriendshipWasAsked, TypeOK
<1>9. RequestsAreKept' /\ AcceptedAreStored'
  <2>1. ASSUME NEW q \in accepted \ lost' PROVE friendship'[q] > 0
    <3>1. q \in Pairs
      BY DEF TypeOK
    <3>2. CASE q = p
      BY <1>1, <1>3, <2>1, <3>2 DEF TypeOK
    <3>3. CASE q # p
      <4>1. friendship[q] > 0
        BY <1>1, <1>4, <2>1, <3>1, <3>3, JobFacts DEF AcceptedAreStored
      <4>. QED
        BY <1>3, <3>1, <3>3, <4>1 DEF TypeOK
    <3>. QED
      BY <3>2, <3>3
  <2>. QED
    BY <1>2, <2>1 DEF RequestsAreKept, AcceptedAreStored
<1>10. FriendViewMatches'
  <2> SUFFICES ASSUME NEW w \in online
               PROVE  /\ FriendsList(w)' \subseteq knownFriends'[w]
                      /\ \A v \in knownFriends'[w] \ FriendsList(w)' :
                             <<w, v>> \in lost' \/ <<v, w>> \in lost'
    BY <1>2 DEF FriendViewMatches
  <2>1. /\ w \in Users
        /\ FriendsList(w) \subseteq knownFriends[w]
        /\ \A v \in knownFriends[w] \ FriendsList(w) :
               <<w, v>> \in lost \/ <<v, w>> \in lost
    BY DEF FriendViewMatches, TypeOK
  <2>2. CASE UNCHANGED <<friendship, knownFriends, lost>>
    BY <2>1, <2>2 DEF FriendsList
  <2> DEFINE new == IF w = s THEN {u} ELSE IF w = u THEN {s} ELSE {}
  <2>3. PushNewFriends(s, u) => knownFriends'[w] = knownFriends[w] \cup new
    BY <1>1, <2>1 DEF PushNewFriends, TypeOK
  <2>4. CASE /\ friendship[p] = 0
             /\ friendship' = [friendship EXCEPT ![p] = 1]
             /\ lost' = lost \ {p}
             /\ PushNewFriends(s, u)
    <3>1. FriendsList(w)' = FriendsList(w) \cup new
      BY <1>1, <2>1, <2>4 DEF FriendsList, TypeOK, Pairs
    <3>2. ASSUME NEW v \in knownFriends'[w] \ FriendsList(w)'
          PROVE  <<w, v>> \in lost' \/ <<v, w>> \in lost'
      <4>1. v \in knownFriends[w] \ FriendsList(w) /\ v \notin new
        BY <2>3, <2>4, <3>1, <3>2
      <4>2. <<w, v>> # p /\ <<v, w>> # p
        BY <1>1, <4>1
      <4>. QED
        BY <2>1, <2>4, <4>1, <4>2
    <3>. QED
      BY <2>1, <2>3, <2>4, <3>1, <3>2
  <2>5. CASE /\ friendship' = friendship
             /\ lost' = lost \cup {p}
             /\ PushNewFriends(s, u)
    <3>1. FriendsList(w)' = FriendsList(w)
      BY <2>5 DEF FriendsList
    <3>. QED
      BY <2>1, <2>3, <2>5, <3>1
  <2>. QED
    BY <1>3, <2>2, <2>4, <2>5
<1>11. RequestsWereAsked'
  BY <1>2, JobFacts DEF RequestsWereAsked
<1>. QED
  BY <1>5, <1>6, <1>7, <1>8, <1>9, <1>10, <1>11

LEMMA DenyFriendReqIInv ==
    ASSUME IInv, NEW u \in Users, NEW s \in Users, DenyFriendReq(u, s)
    PROVE  IInv'
<1> USE DEF IInv
<1> DEFINE p == <<s, u>>
<1>1. /\ UNCHANGED <<friendship, dm, job, online, knownFriends, knownReqs,
                     asked, accepted, lost>>
      /\ job = Idle /\ p \in Pairs
      /\ friendreq' = [friendreq EXCEPT ![p] = 0]
      /\ waiting' = waiting \ {p}
  BY DEF DenyFriendReq, Delete, Pairs
<1>2. TypeOK'
  BY <1>1, MaxRequestsAssumption DEF TypeOK, MaxRequestsAssumption
<1>3. FriendshipRowsUnique' /\ DMUnique' /\ FriendshipWasAsked'
  BY <1>1 DEF FriendshipRowsUnique, DMUnique, FriendshipWasAsked
<1>4. NoSelfRows'
  BY <1>1 DEF NoSelfRows, TypeOK, Pairs
<1>5. RequestsAreKept' /\ AcceptedAreStored'
  BY <1>1 DEF RequestsAreKept, AcceptedAreStored, TypeOK
<1>6. FriendViewMatches'
  BY <1>1 DEF FriendViewMatches, FriendsList
<1>7. RequestsWereAsked'
  BY <1>1 DEF RequestsWereAsked, TypeOK
<1>. QED
  BY <1>2, <1>3, <1>4, <1>5, <1>6, <1>7

LEMMA StartDMIInv ==
    ASSUME IInv, NEW u \in Users, NEW r \in Ids, StartDM(u, r) PROVE IInv'
<1> USE DEF IInv
<1>1. /\ UNCHANGED <<friendreq, friendship, job, online, knownFriends,
                     knownReqs, asked, waiting, accepted,
                 lost>>
      /\ <<u, r>> \in Users \X Ids
      /\ dm' = [dm EXCEPT ![<<u, r>>] = @ + 1]
  BY DEF StartDM, Add
<1>2. /\ \A q \in Users \X Ids : dm[q] \in Nat
      /\ dm[<<u, r>>] = 0
      /\ r \in Users => dm[<<r, u>>] = 0
  <2>1. \A q \in Users \X Ids : dm[q] \in Nat
    BY DEF TypeOK
  <2>2. u \in Ids
    BY DEF Ids
  <2>3. ~HasDMs(u, r)
    BY DEF StartDM
  <2>. QED
    BY <2>1, <2>2, <2>3, HasDMsIsSymmetric
<1>3. TypeOK'
  BY <1>1, <1>2 DEF TypeOK
<1>4. DMUnique'
  <2>1. \A q \in Users \X Ids : dm'[q] = IF q = <<u, r>> THEN 1 ELSE dm[q]
    BY <1>1, <1>2 DEF TypeOK
  <2>2. ASSUME NEW v \in Users, NEW x \in Ids PROVE dm'[<<v, x>>] <= 1
    <3>1. <<v, x>> \in Users \X Ids /\ dm[<<v, x>>] <= 1
      BY DEF DMUnique
    <3>. QED
      BY <2>1, <3>1
  <2>3. ASSUME NEW v \in Users, NEW w \in Users, v # w, dm'[<<v, w>>] > 0
        PROVE  dm'[<<w, v>>] = 0
    <3>1. <<v, w>> \in Users \X Ids /\ <<w, v>> \in Users \X Ids
      BY DEF Ids
    <3>2. CASE <<v, w>> = <<u, r>>
      BY <1>2, <2>1, <2>3, <3>1, <3>2
    <3>3. CASE <<w, v>> = <<u, r>>
      BY <1>2, <2>1, <2>3, <3>1, <3>3
    <3>4. CASE <<v, w>> # <<u, r>> /\ <<w, v>> # <<u, r>>
      BY <2>1, <2>3, <3>1, <3>4 DEF DMUnique
    <3>. QED
      BY <3>2, <3>3, <3>4
  <2>. QED
    BY <2>2, <2>3 DEF DMUnique
<1>5. FriendshipRowsUnique' /\ NoSelfRows' /\ FriendshipWasAsked'
  BY <1>1 DEF FriendshipRowsUnique, NoSelfRows, FriendshipWasAsked
<1>6. RequestsAreKept' /\ AcceptedAreStored' /\ FriendViewMatches' /\ RequestsWereAsked'
  BY <1>1
     DEF RequestsAreKept, AcceptedAreStored, FriendViewMatches, FriendsList,
         RequestsWereAsked
<1>. QED
  BY <1>3, <1>4, <1>5, <1>6

-----------------------------------------------------------------------------
(* Theorems.                                                               *)

LEMMA NextIInv == IInv /\ [Next]_vars => IInv'
<1> SUFFICES ASSUME IInv, [Next]_vars PROVE IInv'
  OBVIOUS
<1>1. CASE UNCHANGED vars
  <2>1. UNCHANGED <<friendreq, friendship, dm, job, online, knownFriends,
                    knownReqs, asked, waiting, accepted,
                 lost>>
    BY <1>1 DEF vars
  <2>2. TypeOK' /\ DMUnique'
    BY <2>1 DEF IInv, TypeOK, DMUnique
  <2>3. FriendshipRowsUnique' /\ NoSelfRows' /\ FriendshipWasAsked'
    BY <2>1 DEF IInv, FriendshipRowsUnique, NoSelfRows, FriendshipWasAsked
  <2>4. RequestsAreKept' /\ AcceptedAreStored' /\ FriendViewMatches' /\ RequestsWereAsked'
    BY <2>1 DEF IInv, RequestsAreKept, AcceptedAreStored, FriendViewMatches, FriendsList,
                RequestsWereAsked
  <2>. QED
    BY <2>2, <2>3, <2>4 DEF IInv
<1>2. ASSUME NEW u \in Users, auth(u) \/ ListFriends(u) \/ Disconnect(u)
      PROVE  IInv'
  BY <1>2, AuthIInv, ListFriendsIInv, DisconnectIInv
<1>3. ASSUME NEW u \in Users, NEW v \in Users, SendFriendReq(u, v) PROVE IInv'
  BY <1>3, SendFriendReqIInv
<1>4. ASSUME NEW u \in Users, NEW v \in Users, AcceptFriendReq(u, v)
      PROVE  IInv'
  BY <1>4, AcceptFriendReqIInv
<1>5. ASSUME NEW u \in Users, NEW v \in Users, DenyFriendReq(u, v) PROVE IInv'
  BY <1>5, DenyFriendReqIInv
<1>6. ASSUME NEW u \in Users, NEW r \in Ids, StartDM(u, r) PROVE IInv'
  BY <1>6, StartDMIInv
<1>. QED
  BY <1>1, <1>2, <1>3, <1>4, <1>5, <1>6, FinishAcceptIInv, CrashIInv DEF Next

\* The strengthened invariant holds in every reachable state.
THEOREM SocialInvariant == Spec => []IInv
  BY InitIInv, NextIInv, PTL DEF Spec

\* The table holds no friendship twice, and nobody's friendship with himself,
\* however requests are repeated and wherever the process crashes.
THEOREM TablesStaySensible == Spec => [](FriendshipRowsUnique /\ NoSelfRows)
<1>1. IInv => FriendshipRowsUnique /\ NoSelfRows
  BY DEF IInv
<1>. QED
  BY <1>1, SocialInvariant, PTL

\* No friendship comes about that one of the two did not ask for, across
\* repeated answers and crashes between the two writes of an acceptance.
THEOREM FriendshipsWereAsked == Spec => []FriendshipWasAsked
<1>1. IInv => FriendshipWasAsked
  BY DEF IInv
<1>. QED
  BY <1>1, SocialInvariant, PTL

\* A pair of ids has one conversation, whoever starts it and how often.
THEOREM ConversationsAreUnique == Spec => []DMUnique
<1>1. IInv => DMUnique
  BY DEF IInv
<1>. QED
  BY <1>1, SocialInvariant, PTL

\* A stored request waits until it is answered, whatever else the two accounts
\* ask, accept and deny.
THEOREM RequestsSurvive == Spec => []RequestsAreKept
<1>1. IInv => RequestsAreKept
  BY DEF IInv
<1>. QED
  BY <1>1, SocialInvariant, PTL

\* Accepting a stored request makes the two friends for good; only a crash
\* between the two writes of AcceptFriendReq, or a failed INSERT of the second,
\* swallows the friendship.
THEOREM AcceptingMakesFriends == Spec => []AcceptedAreFriends
<1>1. ASSUME IInv PROVE AcceptedAreFriends
  <2>1. ASSUME NEW p \in accepted \ lost, job # Inserting(p)
        PROVE  p[2] \in FriendsList(p[1])
    <3>1. PICK s \in Users, u \in Users : p = <<s, u>>
      BY <1>1 DEF IInv, TypeOK, Pairs
    <3>2. friendship[<<s, u>>] > 0
      BY <1>1, <2>1, <3>1 DEF IInv, AcceptedAreStored
    <3>3. u # s
      BY <1>1, <3>2 DEF IInv, NoSelfRows
    <3>. QED
      BY <3>1, <3>2, <3>3 DEF FriendsList
  <2>. QED
    BY <2>1 DEF AcceptedAreFriends
<1>. QED
  BY <1>1, SocialInvariant, PTL

\* What connected clients were told of their friends is what the table says,
\* but for failed INSERTs.
THEOREM ClientsKnowTheirFriends == Spec => []FriendViewMatches
<1>1. IInv => FriendViewMatches
  BY DEF IInv
<1>. QED
  BY <1>1, SocialInvariant, PTL
=============================================================================
