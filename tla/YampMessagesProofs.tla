------------------------- MODULE YampMessagesProofs -------------------------
(***************************************************************************)
(* Proofs about YampMessages, for any accounts and messages, any size of a *)
(* page and every way sends, deletions, page requests, failed writes and   *)
(* crashes can fall between each other.                                    *)
(*                                                                         *)
(* What a client shows is a gapless end of the history: with a message it  *)
(* shows every newer one, and before it is answered a page it shows what   *)
(* is not older than the message the page is named by.  So a page that     *)
(* says it is the last one leaves nothing out.                             *)
(***************************************************************************)
EXTENDS YampMessages, FiniteSetTheorems, WellFoundedInduction, TLAPS

-----------------------------------------------------------------------------
(* The inductive invariant.                                                *)

\* An id is in the table once, and not while its message is only pushed.
IdsAreUnique ==
    /\ IsFiniteSet(messages)
    /\ \A m, n \in messages : m.id = n.id => m = n
    /\ \A m \in messages : m.id \in sent /\ m.reply \in sent \cup {NULL}
    /\ job # NoJob => job.id \in sent \ Stored

\* A message that is pushed and not stored is going to be the newest, and no
\* message answers it yet.
JobIsNewest ==
    job # NoJob =>
        /\ \A m \in messages : m.timestamp <= job.timestamp /\ m.reply # job.id
        /\ job.reply \in Stored \cup {NULL}

\* Only connected members show messages, were told that there are no more, or
\* ask for the page before one; and all of them show what is being sent.
Viewing(u) == shown[u] # {} \/ u \in complete \/ asking[u] \notin {NoAsk, NULL}

ViewersAreMembers ==
    \A u \in Users : Viewing(u) => u \in members /\ u \in online

AudienceWasTold == job # NoJob => \A u \in Audience : job.id \in shown[u]

\* A client shows all that is not older than a message.
ShowsFrom(u, c) ==
    \A n \in messages : ~ Older(n, c) => n.id \in shown[u] \cup faulty

ViewsHaveNoGaps ==
    \A u \in Users, c \in messages :
        (c.id \in shown[u] \/ (asking[u] = c.id /\ asking[u] # NoAsk))
            => ShowsFrom(u, c)

IInv ==
    /\ TypeOK
    /\ IdsAreUnique
    /\ JobIsNewest
    /\ ViewersAreMembers
    /\ AudienceWasTold
    /\ ViewsHaveNoGaps
    /\ NothingStale
    /\ NothingMissing
    /\ RepliesPointBack

-----------------------------------------------------------------------------
(* The order of the history.                                               *)

\* Rows are ordered by second and rowid; no two are newer than each other.
LEMMA OlderIsAnOrder ==
    ASSUME NEW k, NEW m, NEW n,
           k.timestamp \in Int, m.timestamp \in Int, n.timestamp \in Int,
           k.rowid \in Int, m.rowid \in Int, n.rowid \in Int
    PROVE  /\ ~ Older(m, m)
           /\ Older(k, m) /\ Older(m, n) => Older(k, n)
           /\ ~ Older(m, k) /\ Older(m, n) => Older(k, n)
BY DEF Older

LEMMA MessageFacts ==
    ASSUME TypeOK
    PROVE  \A m \in messages :
               /\ m.id \in Ids /\ m.author \in Users /\ m.id # NULL
               /\ m.timestamp \in Int /\ m.rowid \in Int /\ m.rowid > 0
               /\ m.timestamp <= now
<1>. SUFFICES ASSUME NEW m \in messages
              PROVE  /\ m.id \in Ids /\ m.author \in Users /\ m.id # NULL
                     /\ m.timestamp \in Int /\ m.rowid \in Int /\ m.rowid > 0
                     /\ m.timestamp <= now
  OBVIOUS
<1>1. m \in Messages /\ now \in Nat
  BY BoundsAssumption DEF TypeOK
<1>2. /\ m.id \in Ids /\ m.author \in Users /\ m.timestamp \in 0 .. now
      /\ m.rowid \in Nat \ {0}
  BY <1>1 DEF Messages
<1>. QED
  BY <1>1, <1>2, NULLAssumption

\* The messages of a set that are newer than one.
Newer(C, m) == {k \in C : Older(m, k)}

LEMMA NewestAre ==
    \A n, C : Newest(n, C) = {m \in C : Cardinality(Newer(C, m)) < n}
BY DEF Newest, Newer

LEMMA NewerFacts ==
    ASSUME TypeOK, NEW C \in SUBSET messages, IsFiniteSet(C)
    PROVE  \A m \in C :
               /\ Newer(C, m) \subseteq C /\ IsFiniteSet(Newer(C, m))
               /\ Cardinality(Newer(C, m)) \in Nat
               /\ \A k \in C : ~ Older(k, m) =>
                      /\ Newer(C, k) \subseteq Newer(C, m)
                      /\ Cardinality(Newer(C, k)) <= Cardinality(Newer(C, m))
               /\ \A k \in Newer(C, m) : /\ Newer(C, k) \subseteq Newer(C, m)
                                         /\ k \notin Newer(C, k)
<1>. SUFFICES ASSUME NEW m \in C
              PROVE  /\ Newer(C, m) \subseteq C /\ IsFiniteSet(Newer(C, m))
                     /\ Cardinality(Newer(C, m)) \in Nat
                     /\ \A k \in C : ~ Older(k, m) =>
                          /\ Newer(C, k) \subseteq Newer(C, m)
                          /\ Cardinality(Newer(C, k)) <= Cardinality(Newer(C, m))
                     /\ \A k \in Newer(C, m) :
                          /\ Newer(C, k) \subseteq Newer(C, m)
                          /\ k \notin Newer(C, k)
  OBVIOUS
<1>1. Newer(C, m) \subseteq C
  BY DEF Newer
<1>2. IsFiniteSet(Newer(C, m)) /\ Cardinality(Newer(C, m)) \in Nat
  BY <1>1, FS_Subset, FS_CardinalityType
<1>3. ASSUME NEW k \in C, ~ Older(k, m)
      PROVE  Newer(C, k) \subseteq Newer(C, m)
  <2>1. ASSUME NEW n \in C, Older(k, n)
        PROVE  Older(m, n)
    BY <1>3, <2>1, MessageFacts, OlderIsAnOrder
  <2>. QED
    BY <2>1 DEF Newer
<1>4. ASSUME NEW k \in C, ~ Older(k, m)
      PROVE  Cardinality(Newer(C, k)) <= Cardinality(Newer(C, m))
  BY <1>2, <1>3, <1>4, FS_Subset
<1>5. ASSUME NEW k \in Newer(C, m)
      PROVE  Newer(C, k) \subseteq Newer(C, m) /\ k \notin Newer(C, k)
  <2>1. k \in C /\ Older(m, k)
    BY DEF Newer
  <2>2. ~ Older(k, k)
    BY <2>1, MessageFacts, OlderIsAnOrder
  <2>3. ASSUME NEW n \in C, Older(k, n)
        PROVE  Older(m, n)
    BY <2>1, <2>3, MessageFacts, OlderIsAnOrder
  <2>. QED
    BY <2>2, <2>3 DEF Newer
<1>. QED
  BY <1>1, <1>2, <1>3, <1>4, <1>5

\* If one message more was asked for and not found, the page holds them all:
\* the newest message that is not on the page would be the one more, with those
\* newer than it.
LEMMA LastPageHoldsAll ==
    ASSUME TypeOK, NEW C \in SUBSET messages, IsFiniteSet(C), NEW L \in Nat,
           ~ (Cardinality(Newest(L + 1, C)) > L)
    PROVE  Newest(L, C) = C
<1> DEFINE Out == {m \in C : ~ (Cardinality(Newer(C, m)) < L)}
           F == {Newer(C, m) : m \in Out}
<1>1. SUFFICES ASSUME Out # {} PROVE FALSE
  BY NewestAre
<1>2. F \subseteq FiniteSubsetsOf(C) /\ F # {}
  BY <1>1, NewerFacts DEF FiniteSubsetsOf
<1>3. IsWellFoundedOn(StrictSubsetOrdering(C), FiniteSubsetsOf(C))
  BY FS_StrictSubsetOrderingWellFounded
<1>4. PICK T \in F : \A U \in F : ~ (<<U, T>> \in StrictSubsetOrdering(C))
  BY <1>2, <1>3, WFMin
<1>5. PICK m \in Out : T = Newer(C, m)
  BY <1>4
<1>6. m \in C /\ ~ (Cardinality(T) < L) /\ T \subseteq C /\ IsFiniteSet(T)
      /\ Cardinality(T) \in Nat
  BY <1>5, NewerFacts
<1>7. ASSUME NEW k \in T
      PROVE  Cardinality(Newer(C, k)) < L
  <2>1. k \in C /\ Newer(C, k) \subseteq T /\ k \notin Newer(C, k)
    BY <1>5, <1>6, <1>7, NewerFacts
  <2>2. Newer(C, k) # T
    BY <1>7, <2>1
  <2>3. <<Newer(C, k), T>> \in StrictSubsetOrdering(C)
    BY <1>6, <2>1, <2>2 DEF StrictSubsetOrdering
  <2>4. Newer(C, k) \notin F
    BY <1>4, <2>3
  <2>. QED
    BY <2>1, <2>4
<1>8. PICK N : N = Newest(L + 1, C)
  OBVIOUS
<1>9. N \subseteq C /\ IsFiniteSet(N) /\ Cardinality(N) \in Nat
  <2>1. N \subseteq C
    BY <1>8, NewestAre
  <2>. QED
    BY <2>1, FS_Subset, FS_CardinalityType
<1>10. T \subseteq N
  <2>1. ASSUME NEW k \in T
        PROVE  k \in N
    <3>1. k \in C /\ Cardinality(Newer(C, k)) \in Nat
      BY <1>6, NewerFacts
    <3>2. Cardinality(Newer(C, k)) < L + 1
      BY <1>7, <3>1
    <3>. QED
      BY <1>8, <3>1, <3>2, NewestAre
  <2>. QED
    BY <2>1
<1>11. Cardinality(T) <= Cardinality(N)
  BY <1>9, <1>10, FS_Subset
<1>12. Cardinality(T) = L
  BY <1>6, <1>8, <1>9, <1>11
<1>13. m \in N
  <2>1. Cardinality(Newer(C, m)) < L + 1
    BY <1>5, <1>12
  <2>. QED
    BY <1>6, <1>8, <2>1, NewestAre
<1>14. m \notin T
  BY <1>5, <1>6, MessageFacts, OlderIsAnOrder DEF Newer
<1>15. T # N
  BY <1>13, <1>14
<1>16. Cardinality(N) # Cardinality(T)
  BY <1>9, <1>10, <1>15, FS_Subset
<1>. QED
  BY <1>6, <1>8, <1>9, <1>11, <1>12, <1>16

\* A finite set of integers has a greatest element, which Max chooses.
LEMMA MaxExists ==
    ASSUME NEW S \in SUBSET Int, IsFiniteSet(S), S # {}
    PROVE  Max(S) \in S /\ \A x \in S : x <= Max(S)
<1> DEFINE Above(k) == {l \in S : k < l}
           F == {Above(k) : k \in S}
<1>1. ASSUME NEW k \in S PROVE Above(k) \in FiniteSubsetsOf(Int)
  <2>1. Above(k) \in SUBSET S
    OBVIOUS
  <2>2. IsFiniteSet(Above(k))
    BY <2>1, FS_Subset
  <2>. QED
    BY <2>2 DEF FiniteSubsetsOf
<1>2. F \subseteq FiniteSubsetsOf(Int) /\ F # {}
  BY <1>1
<1>3. IsWellFoundedOn(StrictSubsetOrdering(Int), FiniteSubsetsOf(Int))
  BY FS_StrictSubsetOrderingWellFounded
<1>4. PICK T \in F : \A U \in F : ~ (<<U, T>> \in StrictSubsetOrdering(Int))
  BY <1>2, <1>3, WFMin
<1>5. PICK k \in S : T = Above(k)
  BY <1>4
<1>6. ASSUME NEW l \in S, k < l PROVE FALSE
  <2>. k \in Int /\ l \in Int /\ S \subseteq Int
    OBVIOUS
  <2>0. Above(l) \subseteq Above(k)
    <3>1. ASSUME NEW m \in S, l < m PROVE k < m
      <4>1. m \in Int
        OBVIOUS
      <4>. QED
        BY <1>6, <3>1, <4>1
    <3>. QED
      BY <3>1
  <2>1. Above(l) \subseteq Above(k) /\ l \in Above(k) /\ l \notin Above(l)
    BY <1>6, <2>0
  <2>2. /\ Above(l) \in SUBSET Int /\ Above(k) \in SUBSET Int
        /\ Above(l) # Above(k)
    BY <2>1
  <2>3. <<Above(l), Above(k)>> \in StrictSubsetOrdering(Int)
    BY <2>1, <2>2 DEF StrictSubsetOrdering
  <2>. QED
    BY <1>4, <1>5, <2>3
<1>7. \A l \in S : l <= k
  BY <1>6
<1>8. \A l \in S : k >= l
  BY <1>7
<1>9. Max(S) \in S /\ \A x \in S : Max(S) >= x
  BY <1>8 DEF Max
<1>. QED
  BY <1>9

\* The row that is inserted gets a larger rowid than the others.
LEMMA NextRowidIsNew ==
    ASSUME TypeOK, IsFiniteSet(messages)
    PROVE  /\ NextRowid \in Nat \ {0}
           /\ \A m \in messages : m.rowid < NextRowid
<1> DEFINE R == {m.rowid : m \in messages}
           S == R \cup {0}
<1>1. IsFiniteSet(R)
  <2> DEFINE f == [m \in messages |-> m.rowid]
  <2>1. f \in Surjection(messages, R)
    BY DEF Surjection
  <2>. QED
    BY <2>1, FS_Surjection
<1>2. S \in SUBSET Int /\ 0 \in S
  BY MessageFacts
<1>3. IsFiniteSet(S)
  BY <1>1, FS_AddElement
<1>4. Max(S) \in S /\ \A x \in S : x <= Max(S)
  BY <1>2, <1>3, MaxExists
<1>5. \A m \in messages : m.rowid \in S
  OBVIOUS
<1>6. NextRowid = Max(S) + 1
  BY DEF NextRowid
<1>. HIDE DEF S
<1>7. PICK x : x = Max(S)
  OBVIOUS
<1>8. x \in Int /\ 0 <= x /\ \A m \in messages : m.rowid \in Int /\ m.rowid <= x
  BY <1>2, <1>4, <1>5, <1>7
<1>9. x + 1 \in Nat \ {0} /\ \A m \in messages : m.rowid < x + 1
  BY <1>8
<1>. QED
  BY <1>6, <1>7, <1>9

-----------------------------------------------------------------------------
(* The steps, by what they do to the table and to the views.               *)

\* Nothing: the clock, somebody connecting, a new member.
Quiet ==
    /\ UNCHANGED <<messages, job, client, sent, faulty>>
    /\ members \subseteq members' /\ members' \subseteq Users
    /\ online \subseteq online' /\ online' \subseteq Users
    /\ now <= now' /\ now' \in 0 .. MaxTime
    /\ job = NoJob \/ UNCHANGED <<members, online>>

\* Clients leave, and a message that was only pushed is lost.
Leave(U) ==
    /\ Forget(U)
    /\ job' = NoJob
    /\ faulty' = faulty \cup ({job.id} \ {NULL})
    /\ UNCHANGED <<messages, members, now, sent>>

LEMMA Steps ==
    ASSUME TypeOK, [Next]_vars
    PROVE  \/ Quiet
           \/ \E U \in SUBSET Users : Leave(U)
           \/ \E u \in Users, id \in Ids, r \in Ids \cup {NULL} :
                  SendMessage(u, id, r)
           \/ InsertMessage
           \/ \E u \in Users, m \in messages : DeleteMessage(u, m)
           \/ \E u \in Users, b \in Ids \cup {NULL} : AskPage(u, b)
           \/ \E u \in Users : GetMessageHistory(u)
<1>0. /\ now \in Int /\ now \in 0 .. MaxTime /\ MaxTime \in Int
      /\ members \subseteq Users /\ online \subseteq Users
  BY BoundsAssumption DEF TypeOK
<1>1. CASE Tick
  BY <1>0, <1>1 DEF Tick, Quiet
<1>2. ASSUME NEW u \in Users, Connect(u)
      PROVE  Quiet
  BY <1>0, <1>2 DEF Connect, Quiet
<1>3. ASSUME NEW u \in Users, NEW v \in Users, AddMemberToGC(u, v)
      PROVE  Quiet
  BY <1>0, <1>3 DEF AddMemberToGC, Handling, Quiet
<1>4. CASE UNCHANGED vars
  BY <1>0, <1>4 DEF vars, client, Quiet
<1>5. ASSUME NEW u \in Users, Disconnect(u)
      PROVE  Leave({u})
  <2>1. job = NoJob /\ job.id = NULL
    BY <1>5 DEF Disconnect, Handling, NoJob
  <2>. QED
    BY <1>5, <2>1 DEF Disconnect, Leave
<1>6. CASE Crash
  BY <1>6 DEF Crash, Leave
<1>7. ASSUME NEW u \in Users, NEW id \in Ids, DeleteGone(u, id)
      PROVE  Leave(Users)
  BY <1>7 DEF DeleteGone, Crash, Leave
<1>. QED
  BY <1>1, <1>2, <1>3, <1>4, <1>5, <1>6, <1>7 DEF Next

\* A message that is being sent.
LEMMA JobFacts ==
    ASSUME TypeOK
    PROVE  /\ NoJob.id = NULL
           /\ job # NoJob => /\ job.id \in Ids /\ job.id # NULL
                             /\ job.author \in Users
                             /\ job.reply \in Ids \cup {NULL}
                             /\ job.timestamp \in 0 .. now
           /\ now \in Nat
BY NULLAssumption, BoundsAssumption DEF TypeOK, NoJob

\* The row that InsertMessage adds is the newest.
NewRow == [id |-> job.id, author |-> job.author, reply |-> job.reply,
           timestamp |-> job.timestamp, rowid |-> NextRowid]

LEMMA NewRowFacts ==
    ASSUME TypeOK, IdsAreUnique, JobIsNewest, job # NoJob
    PROVE  /\ NewRow \in Messages /\ NewRow.id = job.id
           /\ NewRow.reply = job.reply
           /\ \A m \in messages : /\ m.id # job.id /\ Older(m, NewRow)
                                  /\ ~ Older(NewRow, m)
           /\ ~ Older(NewRow, NewRow)
<1>1. /\ job.id \in Ids /\ job.author \in Users /\ job.reply \in Ids \cup {NULL}
      /\ job.timestamp \in 0 .. now /\ now \in Nat
  BY JobFacts
<1>2. NextRowid \in Nat \ {0} /\ \A m \in messages : m.rowid < NextRowid
  BY NextRowidIsNew DEF IdsAreUnique
<1>3. PICK row : row = NewRow
  OBVIOUS
<1>4. /\ row \in Messages /\ row.id = job.id /\ row.reply = job.reply
      /\ row.timestamp = job.timestamp /\ row.rowid = NextRowid
  BY <1>1, <1>2, <1>3 DEF NewRow, Messages
<1>5. row.timestamp \in Int /\ row.rowid \in Int
  BY <1>1, <1>2, <1>4
<1>6. ASSUME NEW m \in messages
      PROVE  m.id # job.id /\ Older(m, row) /\ ~ Older(row, m)
  <2>1. m.id # job.id
    BY DEF IdsAreUnique, Stored
  <2>2. m.timestamp <= row.timestamp /\ m.rowid < row.rowid
    BY <1>2, <1>4 DEF JobIsNewest
  <2>3. m.timestamp \in Int /\ m.rowid \in Int
    BY MessageFacts
  <2>. QED
    BY <1>5, <2>1, <2>2, <2>3 DEF Older
<1>7. ~ Older(row, row)
  BY <1>5 DEF Older
<1>. QED
  BY <1>3, <1>4, <1>6, <1>7

LEMMA InsertIs ==
    ASSUME TypeOK, InsertMessage
    PROVE  /\ job # NoJob /\ job' = NoJob
           /\ UNCHANGED <<members, now, online, client, sent>>
           /\ \/ messages' = messages \cup {NewRow} /\ UNCHANGED faulty
              \/ UNCHANGED messages /\ faulty' = faulty \cup {job.id}
BY DEF InsertMessage, NewRow, Fails

\* A page holds messages of the table.
LEMMA PageIsStored ==
    \A n, b : Newest(n, Candidates(b)) \subseteq Candidates(b)
              /\ Candidates(b) \subseteq messages
BY DEF Newest, Candidates

LEMMA HistoryIs ==
    ASSUME TypeOK, NEW u \in Users, GetMessageHistory(u)
    PROVE  /\ job = NoJob /\ u \in online /\ asking[u] # NoAsk
           /\ asking' = [asking EXCEPT ![u] = NoAsk]
           /\ UNCHANGED <<messages, members, now, job, online, sent, faulty>>
           /\ \/ UNCHANGED <<shown, complete, stranded>>
              \/ /\ u \in members
                 /\ shown' = [shown EXCEPT ![u] = shown[u] \cup
                        {m.id : m \in Newest(LIMIT, Candidates(asking[u]))}]
                 /\ \/ complete' = complete
                    \/ /\ complete' = complete \cup {u}
                       /\ ~ (Cardinality(Newest(LIMIT + 1,
                                 Candidates(asking[u]))) > LIMIT)
                 /\ stranded \subseteq stranded'
                 /\ stranded' \subseteq stranded \cup {u}
                 /\ u \in stranded' \/ asking[u] \in Stored \cup {NULL}
BY DEF GetMessageHistory, Handling, CanAccess

-----------------------------------------------------------------------------
(* Type correctness.                                                       *)

LEMMA TypeInit == Init => TypeOK
BY BoundsAssumption DEF Init, TypeOK

LEMMA TypeKept ==
    ASSUME TypeOK, IdsAreUnique, JobIsNewest, [Next]_vars
    PROVE  TypeOK'
<1>. USE DEF TypeOK
<1>0. now \in Nat /\ MaxTime \in Nat
  BY BoundsAssumption
<1>1. CASE Quiet
  <2>1. now <= now' /\ now' \in 0 .. MaxTime
    BY <1>1 DEF Quiet
  <2>2. 0 .. now \subseteq 0 .. now'
    BY <1>0, <2>1
  <2>3. messages' \subseteq Messages'
    BY <1>1, <2>2 DEF Quiet, Messages
  <2>4. job' = NoJob \/ job' \in [id : Ids, author : Users,
                            reply : Ids \cup {NULL}, timestamp : 0 .. now']
    BY <1>1, <2>2 DEF Quiet
  <2>. QED
    BY <1>1, <2>1, <2>3, <2>4 DEF Quiet, client
<1>2. ASSUME NEW U \in SUBSET Users, Leave(U)
      PROVE  TypeOK'
  <2>1. Messages' = Messages
    BY <1>2 DEF Leave, Messages
  <2>2. faulty' \subseteq sent
    BY <1>2, JobFacts DEF Leave, IdsAreUnique
  <2>3. shown' \in [Users -> SUBSET Ids]
    BY <1>2 DEF Leave, Forget
  <2>4. asking' \in [Users -> Ids \cup {NULL, NoAsk}]
    BY <1>2 DEF Leave, Forget
  <2>. QED
    BY <1>2, <2>1, <2>2, <2>3, <2>4 DEF Leave, Forget
<1>3. ASSUME NEW u \in Users, NEW id \in Ids, NEW r \in Ids \cup {NULL},
             SendMessage(u, id, r)
      PROVE  TypeOK'
  <2>1. Messages' = Messages
    BY <1>3 DEF SendMessage, Messages
  <2>2. job' \in [id : Ids, author : Users, reply : Ids \cup {NULL},
                  timestamp : 0 .. now]
    BY <1>0, <1>3 DEF SendMessage, Stamp
  <2>3. shown' \in [Users -> SUBSET Ids]
    BY <1>3 DEF SendMessage, PushRecvIM
  <2>. QED
    BY <1>3, <2>1, <2>2, <2>3 DEF SendMessage
<1>4. CASE InsertMessage
  <2>1. Messages' = Messages
    BY <1>4 DEF InsertMessage, Messages
  <2>2. messages' \subseteq Messages
    BY <1>4, InsertIs, NewRowFacts
  <2>3. faulty' \subseteq sent
    BY <1>4, InsertIs DEF IdsAreUnique
  <2>. QED
    BY <1>4, <2>1, <2>2, <2>3 DEF InsertMessage, client
<1>5. ASSUME NEW u \in Users, NEW m \in messages, DeleteMessage(u, m)
      PROVE  TypeOK'
  <2>1. Messages' = Messages
    BY <1>5 DEF DeleteMessage, Messages
  <2>2. shown' \in [Users -> SUBSET Ids]
    BY <1>5 DEF DeleteMessage, PushMessageDeleted
  <2>3. faulty' \subseteq sent
    BY <1>5 DEF DeleteMessage, Fails, IdsAreUnique
  <2>. QED
    BY <1>5, <2>1, <2>2, <2>3 DEF DeleteMessage
<1>6. ASSUME NEW u \in Users, NEW b \in Ids \cup {NULL}, AskPage(u, b)
      PROVE  TypeOK'
  BY <1>6 DEF AskPage, Messages
<1>7. ASSUME NEW u \in Users, GetMessageHistory(u)
      PROVE  TypeOK'
  <2>1. Messages' = Messages
    BY <1>7 DEF GetMessageHistory, Messages
  <2>2. shown' \in [Users -> SUBSET Ids]
    <3>1. {m.id : m \in Newest(LIMIT, Candidates(asking[u]))} \subseteq Ids
      BY PageIsStored, MessageFacts
    <3>. QED
      BY <1>7, <3>1, HistoryIs
  <2>3. complete' \subseteq online /\ stranded' \subseteq online
    BY <1>7, HistoryIs
  <2>. QED
    BY <1>7, <2>1, <2>2, <2>3, HistoryIs
<1>. QED
  BY <1>1, <1>2, <1>3, <1>4, <1>5, <1>6, <1>7, Steps

-----------------------------------------------------------------------------
(* The table.                                                              *)

LEMMA TableKept ==
    ASSUME TypeOK, IdsAreUnique, JobIsNewest, RepliesPointBack, [Next]_vars
    PROVE  IdsAreUnique' /\ JobIsNewest' /\ RepliesPointBack'
<1>1. CASE Quiet
  BY <1>1 DEF Quiet, IdsAreUnique, JobIsNewest, RepliesPointBack, Stored
<1>2. ASSUME NEW U \in SUBSET Users, Leave(U)
      PROVE  IdsAreUnique' /\ JobIsNewest' /\ RepliesPointBack'
  BY <1>2 DEF Leave, IdsAreUnique, JobIsNewest, RepliesPointBack
<1>3. ASSUME NEW u \in Users, NEW id \in Ids, NEW r \in Ids \cup {NULL},
             SendMessage(u, id, r)
      PROVE  IdsAreUnique' /\ JobIsNewest' /\ RepliesPointBack'
  <2>1. /\ UNCHANGED messages /\ id \notin sent /\ sent' = sent \cup {id}
        /\ r \in Stored \cup {NULL}
        /\ job' = [id |-> id, author |-> u, reply |-> r, timestamp |-> now]
    BY <1>3 DEF SendMessage, Stamp, MayReply
  <2>2. job'.id = id /\ job'.reply = r /\ job'.timestamp = now
    BY <2>1
  <2>3. \A m \in messages : /\ m.id # id /\ m.id \in sent /\ m.reply # id
                            /\ m.timestamp <= now
    BY <2>1, MessageFacts, NULLAssumption DEF IdsAreUnique
  <2>4. IdsAreUnique'
    BY <2>1, <2>2, <2>3 DEF IdsAreUnique, Stored
  <2>5. JobIsNewest'
    BY <2>1, <2>2, <2>3 DEF JobIsNewest, Stored
  <2>6. RepliesPointBack'
    BY <2>1 DEF RepliesPointBack
  <2>. QED
    BY <2>4, <2>5, <2>6
<1>4. CASE InsertMessage
  <2>1. job # NoJob /\ job' = NoJob /\ sent' = sent
    BY <1>4, InsertIs
  <2>2. CASE UNCHANGED messages
    BY <2>1, <2>2 DEF IdsAreUnique, JobIsNewest, RepliesPointBack
  <2>3. CASE messages' = messages \cup {NewRow}
    <3>1. PICK row : row = NewRow
      OBVIOUS
    <3>2. /\ row.id = job.id /\ row.reply = job.reply
          /\ \A m \in messages : m.id # row.id /\ Older(m, row)
          /\ messages' = messages \cup {row}
      BY <2>1, <2>3, <3>1, NewRowFacts
    <3>3. /\ row.id \in sent /\ row.reply \in Stored \cup {NULL}
          /\ \A m \in messages : m.reply # row.id
      BY <2>1, <3>2 DEF IdsAreUnique, JobIsNewest
    <3>4. row.reply # row.id
      BY <2>1, <3>2, <3>3, JobFacts DEF Stored
    <3>5. Stored \subseteq sent
      BY DEF IdsAreUnique, Stored
    <3>6. IsFiniteSet(messages')
      BY <3>2, FS_AddElement DEF IdsAreUnique
    <3>7. IdsAreUnique'
      <4>1. \A m, n \in messages' : m.id = n.id => m = n
        BY <3>2 DEF IdsAreUnique
      <4>2. \A m \in messages' : m.id \in sent /\ m.reply \in sent \cup {NULL}
        BY <3>2, <3>3, <3>5 DEF IdsAreUnique
      <4>. QED
        BY <2>1, <3>6, <4>1, <4>2 DEF IdsAreUnique
    <3>8. JobIsNewest'
      BY <2>1 DEF JobIsNewest
    <3>9. RepliesPointBack'
      <4>1. ASSUME NEW m \in messages', NEW n \in messages', m.reply = n.id
            PROVE  Older(n, m)
        <5>1. CASE m \in messages /\ n \in messages
          BY <4>1, <5>1 DEF RepliesPointBack
        <5>2. CASE m = row
          BY <3>2, <3>4, <4>1, <5>2
        <5>3. CASE n = row
          BY <3>2, <3>3, <3>4, <4>1, <5>3
        <5>. QED
          BY <3>2, <5>1, <5>2, <5>3
      <4>. QED
        BY <4>1 DEF RepliesPointBack
    <3>. QED
      BY <3>7, <3>8, <3>9
  <2>. QED
    BY <1>4, <2>2, <2>3, InsertIs
<1>5. ASSUME NEW u \in Users, NEW m \in messages, DeleteMessage(u, m)
      PROVE  IdsAreUnique' /\ JobIsNewest' /\ RepliesPointBack'
  <2>1. /\ messages' \subseteq messages /\ job = NoJob /\ job' = NoJob
        /\ sent' = sent
    BY <1>5 DEF DeleteMessage, Handling
  <2>2. IsFiniteSet(messages')
    BY <2>1, FS_Subset DEF IdsAreUnique
  <2>. QED
    BY <2>1, <2>2 DEF IdsAreUnique, JobIsNewest, RepliesPointBack
<1>6. ASSUME NEW u \in Users, NEW b \in Ids \cup {NULL}, AskPage(u, b)
      PROVE  IdsAreUnique' /\ JobIsNewest' /\ RepliesPointBack'
  BY <1>6 DEF AskPage, IdsAreUnique, JobIsNewest, RepliesPointBack, Stored
<1>7. ASSUME NEW u \in Users, GetMessageHistory(u)
      PROVE  IdsAreUnique' /\ JobIsNewest' /\ RepliesPointBack'
  BY <1>7, HistoryIs
  DEF IdsAreUnique, JobIsNewest, RepliesPointBack, Stored
<1>. QED
  BY <1>1, <1>2, <1>3, <1>4, <1>5, <1>6, <1>7, Steps

-----------------------------------------------------------------------------
(* The views.                                                              *)

LEMMA AudienceKept ==
    ASSUME TypeOK, IdsAreUnique, ViewersAreMembers, AudienceWasTold,
           [Next]_vars
    PROVE  ViewersAreMembers' /\ AudienceWasTold'
<1>1. CASE Quiet
  <2>1. /\ UNCHANGED <<job, shown, complete, asking>>
        /\ members \subseteq members' /\ online \subseteq online'
        /\ job = NoJob \/ UNCHANGED <<members, online>>
    BY <1>1 DEF Quiet, client
  <2>. QED
    BY <2>1 DEF ViewersAreMembers, Viewing, AudienceWasTold, Audience
<1>2. ASSUME NEW U \in SUBSET Users, Leave(U)
      PROVE  ViewersAreMembers' /\ AudienceWasTold'
  <2>1. /\ job' = NoJob /\ members' = members
        /\ online' = online \ U /\ complete' = complete \ U
        /\ \A u \in Users : /\ shown'[u] = IF u \in U THEN {} ELSE shown[u]
                            /\ asking'[u] = IF u \in U THEN NoAsk ELSE asking[u]
    BY <1>2 DEF Leave, Forget
  <2>. QED
    BY <2>1 DEF ViewersAreMembers, Viewing, AudienceWasTold
<1>3. ASSUME NEW u \in Users, NEW id \in Ids, NEW r \in Ids \cup {NULL},
             SendMessage(u, id, r)
      PROVE  ViewersAreMembers' /\ AudienceWasTold'
  <2>1. /\ UNCHANGED <<members, online, complete, asking>> /\ job'.id = id
        /\ \A v \in Users : shown'[v] = IF v \in Audience
                                        THEN shown[v] \cup {id} ELSE shown[v]
    BY <1>3 DEF SendMessage, PushRecvIM
  <2>2. Audience' = Audience /\ Audience \subseteq Users
    BY <2>1 DEF Audience, TypeOK
  <2>3. ViewersAreMembers'
    BY <2>1 DEF ViewersAreMembers, Viewing, Audience
  <2>4. AudienceWasTold'
    BY <2>1, <2>2 DEF AudienceWasTold
  <2>. QED
    BY <2>3, <2>4
<1>4. CASE InsertMessage
  <2>1. UNCHANGED <<members, online, shown, complete, asking>> /\ job' = NoJob
    BY <1>4, InsertIs DEF client
  <2>. QED
    BY <2>1 DEF ViewersAreMembers, Viewing, AudienceWasTold
<1>5. ASSUME NEW u \in Users, NEW m \in messages, DeleteMessage(u, m)
      PROVE  ViewersAreMembers' /\ AudienceWasTold'
  <2>1. /\ UNCHANGED <<members, online, complete, asking, job>> /\ job = NoJob
        /\ \A v \in Users : shown'[v] \subseteq shown[v]
    BY <1>5 DEF DeleteMessage, PushMessageDeleted, Handling
  <2>. QED
    BY <2>1 DEF ViewersAreMembers, Viewing, AudienceWasTold
<1>6. ASSUME NEW u \in Users, NEW b \in Ids \cup {NULL}, AskPage(u, b)
      PROVE  ViewersAreMembers' /\ AudienceWasTold'
  <2>1. /\ UNCHANGED <<members, online, complete, shown, job>>
        /\ b \in shown[u] \cup {NULL}
        /\ \A v \in Users : asking'[v] = IF v = u THEN b ELSE asking[v]
    BY <1>6 DEF AskPage, TypeOK
  <2>2. Audience' = Audience
    BY <2>1 DEF Audience
  <2>. QED
    BY <2>1, <2>2 DEF ViewersAreMembers, Viewing, AudienceWasTold
<1>7. ASSUME NEW u \in Users, GetMessageHistory(u)
      PROVE  ViewersAreMembers' /\ AudienceWasTold'
  <2>1. /\ job = NoJob /\ job' = NoJob /\ UNCHANGED <<members, online>>
        /\ u \in online
        /\ \A v \in Users : asking'[v] = IF v = u THEN NoAsk ELSE asking[v]
    BY <1>7, HistoryIs DEF TypeOK
  <2>2. \A v \in Users \ {u} : shown'[v] = shown[v]
    BY <1>7, HistoryIs DEF TypeOK
  <2>3. complete' \subseteq complete \cup {u}
    BY <1>7, HistoryIs
  <2>4. u \in members \/ UNCHANGED <<shown, complete>>
    BY <1>7, HistoryIs
  <2>5. ASSUME NEW v \in Users, Viewing(v)'
        PROVE  v \in members' /\ v \in online'
    <3>1. CASE v # u
      <4>1. Viewing(v)
        BY <2>1, <2>2, <2>3, <2>5, <3>1 DEF Viewing
      <4>. QED
        BY <2>1, <4>1 DEF ViewersAreMembers
    <3>2. CASE v = u /\ u \in members
      BY <2>1, <3>2
    <3>3. CASE v = u /\ UNCHANGED <<shown, complete>>
      <4>1. Viewing(u)
        BY <2>1, <2>5, <3>3 DEF Viewing
      <4>. QED
        BY <2>1, <3>3, <4>1 DEF ViewersAreMembers
    <3>. QED
      BY <2>4, <3>1, <3>2, <3>3
  <2>6. ViewersAreMembers'
    BY <2>5 DEF ViewersAreMembers
  <2>7. AudienceWasTold'
    BY <2>1 DEF AudienceWasTold
  <2>. QED
    BY <2>6, <2>7
<1>. QED
  BY <1>1, <1>2, <1>3, <1>4, <1>5, <1>6, <1>7, Steps

LEMMA StaleKept ==
    ASSUME TypeOK, IdsAreUnique, ViewersAreMembers, NothingStale, [Next]_vars
    PROVE  NothingStale'
<1>1. CASE Quiet
  <2>1. UNCHANGED <<messages, job, shown, faulty>> /\ online' \subseteq Users
    BY <1>1 DEF Quiet, client
  <2>2. \A u \in Users \ online : shown[u] = {}
    BY DEF ViewersAreMembers, Viewing
  <2>. QED
    BY <2>1, <2>2 DEF NothingStale, Stored
<1>2. ASSUME NEW U \in SUBSET Users, Leave(U)
      PROVE  NothingStale'
  <2>1. /\ messages' = messages /\ faulty' = faulty \cup ({job.id} \ {NULL})
        /\ online' = online \ U /\ job' = NoJob /\ online \subseteq Users
        /\ \A u \in Users : shown'[u] = IF u \in U THEN {} ELSE shown[u]
    BY <1>2 DEF Leave, Forget, TypeOK
  <2>2. job'.id = NULL
    BY <2>1, JobFacts
  <2>. QED
    BY <2>1, <2>2 DEF NothingStale, Stored
<1>3. ASSUME NEW u \in Users, NEW id \in Ids, NEW r \in Ids \cup {NULL},
             SendMessage(u, id, r)
      PROVE  NothingStale'
  <2>1. /\ UNCHANGED <<messages, online, faulty>> /\ job'.id = id
        /\ job.id = NULL /\ online \subseteq Users
        /\ \A v \in Users : shown'[v] \subseteq shown[v] \cup {id}
    BY <1>3, JobFacts DEF SendMessage, PushRecvIM, Handling, TypeOK
  <2>2. \A v \in Users : NULL \notin shown[v]
    BY NULLAssumption DEF TypeOK
  <2>. QED
    BY <2>1, <2>2 DEF NothingStale, Stored
<1>4. CASE InsertMessage
  <2>1. /\ UNCHANGED <<online, shown>> /\ job' = NoJob /\ NewRow.id = job.id
        /\ \/ messages' = messages \cup {NewRow} /\ UNCHANGED faulty
           \/ UNCHANGED messages /\ faulty' = faulty \cup {job.id}
    BY <1>4, InsertIs DEF client, NewRow
  <2>2. Stored \cup faulty \cup {job.id} \subseteq Stored' \cup faulty'
    BY <2>1 DEF Stored
  <2>. QED
    BY <2>1, <2>2 DEF NothingStale
<1>5. ASSUME NEW u \in Users, NEW m \in messages, DeleteMessage(u, m)
      PROVE  NothingStale'
  <2>1. /\ UNCHANGED <<online, job>> /\ online \subseteq Users
        /\ \A v \in Users : shown'[v] = IF v \in Audience
                                        THEN shown[v] \ {m.id} ELSE shown[v]
        /\ faulty \subseteq faulty'
    BY <1>5 DEF DeleteMessage, PushMessageDeleted, TypeOK, Fails
  <2>2. messages \ {m} \subseteq messages'
    BY <1>5 DEF DeleteMessage
  <2>3. Stored \ {m.id} \subseteq Stored'
    BY <2>2 DEF Stored
  <2>4. ASSUME NEW v \in online
        PROVE  shown'[v] \subseteq Stored' \cup faulty' \cup {job.id}
    <3>1. v \in Users /\ shown[v] \subseteq Stored \cup faulty \cup {job.id}
      BY <2>1 DEF NothingStale
    <3>2. CASE v \in Audience
      BY <2>1, <2>3, <3>1, <3>2
    <3>3. CASE v \notin Audience
      <4>1. shown[v] = {}
        BY <3>1, <3>3 DEF Audience, ViewersAreMembers, Viewing
      <4>. QED
        BY <2>1, <3>1, <3>3, <4>1
    <3>. QED
      BY <3>2, <3>3
  <2>. QED
    BY <2>1, <2>4 DEF NothingStale
<1>6. ASSUME NEW u \in Users, NEW b \in Ids \cup {NULL}, AskPage(u, b)
      PROVE  NothingStale'
  BY <1>6 DEF AskPage, NothingStale, Stored
<1>7. ASSUME NEW u \in Users, GetMessageHistory(u)
      PROVE  NothingStale'
  <2>1. UNCHANGED <<messages, job, online, faulty>> /\ online \subseteq Users
    BY <1>7, HistoryIs DEF TypeOK
  <2>2. {m.id : m \in Newest(LIMIT, Candidates(asking[u]))} \subseteq Stored
    BY PageIsStored DEF Stored
  <2>3. \A v \in Users : shown'[v] \subseteq shown[v] \cup Stored
    BY <1>7, <2>2, HistoryIs DEF TypeOK
  <2>. QED
    BY <2>1, <2>3 DEF NothingStale, Stored
<1>. QED
  BY <1>1, <1>2, <1>3, <1>4, <1>5, <1>6, <1>7, Steps

-----------------------------------------------------------------------------
(* No gaps, and nothing missing.                                           *)

\* What a member shows once a message is inserted.
LEMMA InsertedIsShown ==
    ASSUME TypeOK, ViewersAreMembers, AudienceWasTold, job # NoJob,
           NEW u \in Users, Viewing(u)
    PROVE  job.id \in shown[u]
BY DEF ViewersAreMembers, AudienceWasTold, Audience

\* A page begins where the view ends, and leaves out nothing in between.
LEMMA PageFits ==
    ASSUME TypeOK, IdsAreUnique, ViewsHaveNoGaps,
           NEW u \in Users, asking[u] # NoAsk,
           NEW b, b = asking[u],
           NEW P, P = Newest(LIMIT, Candidates(b)),
           NEW m \in P, NEW n \in messages, ~ Older(n, m)
    PROVE  n \in P \/ n.id \in shown[u] \cup faulty
<1> DEFINE C == Candidates(b)
<1>1. C \in SUBSET messages /\ IsFiniteSet(C) /\ P \subseteq C
  BY PageIsStored, FS_Subset DEF IdsAreUnique
<1>2. CASE n \in C
  <2>1. /\ Cardinality(Newer(C, n)) <= Cardinality(Newer(C, m))
        /\ Cardinality(Newer(C, n)) \in Nat /\ Cardinality(Newer(C, m)) \in Nat
    BY <1>1, <1>2, NewerFacts
  <2>2. Cardinality(Newer(C, m)) < LIMIT
    BY NewestAre
  <2>3. Cardinality(Newer(C, n)) < LIMIT
    BY <2>1, <2>2, LIMITAssumption
  <2>. QED
    BY <1>2, <2>3, NewestAre
<1>3. CASE n \notin C
  <2>1. b # NULL /\ m \in C
    BY <1>1, <1>3 DEF Candidates
  <2>2. PICK c \in messages : c.id = b /\ Older(m, c)
    BY <2>1 DEF Candidates
  <2>3. ~ Older(n, c)
    BY <1>3, <2>1, <2>2 DEF Candidates
  <2>4. ShowsFrom(u, c)
    BY <2>2 DEF ViewsHaveNoGaps
  <2>. QED
    BY <2>3, <2>4 DEF ShowsFrom
<1>. QED
  BY <1>2, <1>3

LEMMA GapsKept ==
    ASSUME TypeOK, IdsAreUnique, JobIsNewest, ViewersAreMembers,
           AudienceWasTold, ViewsHaveNoGaps, [Next]_vars
    PROVE  ViewsHaveNoGaps'
<1>1. CASE Quiet
  <2>1. UNCHANGED <<messages, shown, asking, faulty>>
    BY <1>1 DEF Quiet, client
  <2>. QED
    BY <2>1 DEF ViewsHaveNoGaps, ShowsFrom
<1>2. ASSUME NEW U \in SUBSET Users, Leave(U)
      PROVE  ViewsHaveNoGaps'
  <2>1. /\ messages' = messages /\ faulty \subseteq faulty'
        /\ \A u \in Users : /\ shown'[u] = IF u \in U THEN {} ELSE shown[u]
                            /\ asking'[u] = IF u \in U THEN NoAsk ELSE asking[u]
    BY <1>2 DEF Leave, Forget
  <2>. QED
    BY <2>1 DEF ViewsHaveNoGaps, ShowsFrom
<1>3. ASSUME NEW u \in Users, NEW id \in Ids, NEW r \in Ids \cup {NULL},
             SendMessage(u, id, r)
      PROVE  ViewsHaveNoGaps'
  <2>1. /\ UNCHANGED <<messages, asking, faulty>> /\ id \notin sent
        /\ \A v \in Users : /\ shown[v] \subseteq shown'[v]
                            /\ shown'[v] \subseteq shown[v] \cup {id}
    BY <1>3 DEF SendMessage, PushRecvIM
  <2>2. \A m \in messages : m.id # id
    BY <2>1 DEF IdsAreUnique
  <2>. QED
    BY <2>1, <2>2 DEF ViewsHaveNoGaps, ShowsFrom
<1>4. CASE InsertMessage
  <2>1. UNCHANGED <<shown, asking>> /\ job # NoJob
    BY <1>4, InsertIs DEF client
  <2>2. CASE UNCHANGED messages /\ faulty' = faulty \cup {job.id}
    BY <2>1, <2>2 DEF ViewsHaveNoGaps, ShowsFrom
  <2>3. CASE messages' = messages \cup {NewRow} /\ UNCHANGED faulty
    <3>1. PICK row : row = NewRow
      OBVIOUS
    <3>2. /\ row.id = job.id /\ messages' = messages \cup {row}
          /\ \A m \in messages : Older(m, row)
          /\ row.id # NULL
      BY <2>1, <2>3, <3>1, NewRowFacts, JobFacts
    <3>3. ASSUME NEW u \in Users, NEW c \in messages', NEW n \in messages',
                 c.id \in shown[u] \/ (asking[u] = c.id /\ asking[u] # NoAsk),
                 ~ Older(n, c)
          PROVE  n.id \in shown[u] \cup faulty
      <4>1. Viewing(u)
        <5>1. c.id # NULL
          BY <3>2, MessageFacts
        <5>. QED
          BY <3>3, <5>1 DEF Viewing
      <4>2. CASE n = row
        BY <2>1, <3>2, <4>1, <4>2, InsertedIsShown
      <4>3. CASE n \in messages /\ c \in messages
        BY <3>3, <4>3 DEF ViewsHaveNoGaps, ShowsFrom
      <4>4. CASE n \in messages /\ c = row
        BY <3>2, <3>3, <4>4
      <4>. QED
        BY <3>2, <4>2, <4>3, <4>4
    <3>. QED
      BY <2>1, <2>3, <3>3 DEF ViewsHaveNoGaps, ShowsFrom
  <2>. QED
    BY <1>4, <2>2, <2>3, InsertIs
<1>5. ASSUME NEW w \in Users, NEW m \in messages, DeleteMessage(w, m)
      PROVE  ViewsHaveNoGaps'
  <2>1. /\ messages' \subseteq messages /\ faulty \subseteq faulty'
        /\ asking' = asking
        /\ m \notin messages' \/ m.id \in faulty'
        /\ \A v \in Users : /\ shown'[v] \subseteq shown[v]
                            /\ shown[v] \ {m.id} \subseteq shown'[v]
    BY <1>5 DEF DeleteMessage, PushMessageDeleted, Fails
  <2>2. ASSUME NEW u \in Users, NEW c \in messages', NEW n \in messages',
               c.id \in shown'[u] \/ (asking'[u] = c.id /\ asking'[u] # NoAsk),
               ~ Older(n, c)
        PROVE  n.id \in shown'[u] \cup faulty'
    <3>1. n.id \in shown[u] \cup faulty
      BY <2>1, <2>2 DEF ViewsHaveNoGaps, ShowsFrom
    <3>2. CASE n.id = m.id
      <4>1. n = m
        BY <2>1, <3>2 DEF IdsAreUnique
      <4>. QED
        BY <2>1, <4>1
    <3>. QED
      BY <2>1, <3>1, <3>2
  <2>. QED
    BY <2>2 DEF ViewsHaveNoGaps, ShowsFrom
<1>6. ASSUME NEW w \in Users, NEW b \in Ids \cup {NULL}, AskPage(w, b)
      PROVE  ViewsHaveNoGaps'
  <2>1. /\ UNCHANGED <<messages, shown, faulty>> /\ b \in shown[w] \cup {NULL}
        /\ \A v \in Users : asking'[v] = IF v = w THEN b ELSE asking[v]
    BY <1>6 DEF AskPage, TypeOK
  <2>2. ASSUME NEW u \in Users, NEW c \in messages,
               c.id \in shown'[u] \/ (asking'[u] = c.id /\ asking'[u] # NoAsk)
        PROVE  c.id \in shown[u] \/ (asking[u] = c.id /\ asking[u] # NoAsk)
    BY <2>1, <2>2, MessageFacts
  <2>. QED
    BY <2>1, <2>2 DEF ViewsHaveNoGaps, ShowsFrom
<1>7. ASSUME NEW w \in Users, GetMessageHistory(w)
      PROVE  ViewsHaveNoGaps'
  <2>1. /\ UNCHANGED <<messages, faulty>> /\ asking[w] # NoAsk
        /\ \A v \in Users : asking'[v] = IF v = w THEN NoAsk ELSE asking[v]
    BY <1>7, HistoryIs DEF TypeOK
  <2>2. PICK b : b = asking[w]
    OBVIOUS
  <2>3. PICK P : P = Newest(LIMIT, Candidates(b))
    OBVIOUS
  <2>4. P \subseteq messages
    BY <2>3, PageIsStored
  <2>5. \/ shown' = shown
        \/ shown' = [shown EXCEPT ![w] = shown[w] \cup {m.id : m \in P}]
    BY <1>7, <2>2, <2>3, HistoryIs
  <2>6. ASSUME NEW u \in Users, NEW c \in messages, NEW n \in messages,
               c.id \in shown'[u] \/ (asking'[u] = c.id /\ asking'[u] # NoAsk),
               ~ Older(n, c)
        PROVE  n.id \in shown'[u] \cup faulty
    <3>1. shown[u] \subseteq shown'[u]
      BY <2>5 DEF TypeOK
    <3>2. CASE c.id \in shown[u] \/ (asking[u] = c.id /\ asking[u] # NoAsk)
      BY <2>6, <3>1, <3>2 DEF ViewsHaveNoGaps, ShowsFrom
    <3>3. CASE ~ (c.id \in shown[u] \/ (asking[u] = c.id /\ asking[u] # NoAsk))
      <4>1. /\ u = w /\ c.id \in {m.id : m \in P}
            /\ shown'[u] = shown[u] \cup {m.id : m \in P}
        BY <2>1, <2>5, <2>6, <3>3 DEF TypeOK
      <4>2. c \in P
        BY <2>4, <4>1 DEF IdsAreUnique
      <4>3. n \in P \/ n.id \in shown[u] \cup faulty
        BY <2>1, <2>2, <2>3, <2>6, <4>1, <4>2, PageFits
      <4>. QED
        BY <4>1, <4>3
    <3>. QED
      BY <3>2, <3>3
  <2>. QED
    BY <2>1, <2>6 DEF ViewsHaveNoGaps, ShowsFrom
<1>. QED
  BY <1>1, <1>2, <1>3, <1>4, <1>5, <1>6, <1>7, Steps

\* The last page, with what was shown before, is the history.
LEMMA LastPageCompletes ==
    ASSUME TypeOK, IdsAreUnique, ViewsHaveNoGaps,
           NEW u \in Users, asking[u] # NoAsk,
           NEW b, b = asking[u], b \in Stored \cup {NULL},
           ~ (Cardinality(Newest(LIMIT + 1, Candidates(b))) > LIMIT),
           NEW n \in messages
    PROVE  n \in Newest(LIMIT, Candidates(b)) \/ n.id \in shown[u] \cup faulty
<1> DEFINE C == Candidates(b)
<1>1. C \in SUBSET messages /\ IsFiniteSet(C)
  BY PageIsStored, FS_Subset DEF IdsAreUnique
<1>2. Newest(LIMIT, C) = C
  BY <1>1, LastPageHoldsAll, LIMITAssumption
<1>3. CASE n \in C
  BY <1>2, <1>3
<1>4. CASE n \notin C
  <2>1. b # NULL
    BY <1>4 DEF Candidates
  <2>2. PICK c \in messages : c.id = b
    BY <2>1 DEF Stored
  <2>3. ~ Older(n, c)
    BY <1>4, <2>1, <2>2 DEF Candidates
  <2>4. ShowsFrom(u, c)
    BY <2>2 DEF ViewsHaveNoGaps
  <2>. QED
    BY <2>3, <2>4 DEF ShowsFrom
<1>. QED
  BY <1>3, <1>4

LEMMA MissingKept ==
    ASSUME TypeOK, IdsAreUnique, JobIsNewest, ViewersAreMembers,
           AudienceWasTold, ViewsHaveNoGaps, NothingMissing, [Next]_vars
    PROVE  NothingMissing'
<1>0. complete \subseteq Users
  BY DEF TypeOK
<1>1. CASE Quiet
  <2>1. UNCHANGED <<messages, shown, complete, stranded, faulty>>
    BY <1>1 DEF Quiet, client
  <2>. QED
    BY <2>1 DEF NothingMissing, Stored
<1>2. ASSUME NEW U \in SUBSET Users, Leave(U)
      PROVE  NothingMissing'
  <2>1. /\ messages' = messages /\ faulty \subseteq faulty'
        /\ complete' = complete \ U /\ stranded' = stranded \ U
        /\ \A u \in Users : shown'[u] = IF u \in U THEN {} ELSE shown[u]
    BY <1>2 DEF Leave, Forget
  <2>. QED
    BY <1>0, <2>1 DEF NothingMissing, Stored
<1>3. ASSUME NEW u \in Users, NEW id \in Ids, NEW r \in Ids \cup {NULL},
             SendMessage(u, id, r)
      PROVE  NothingMissing'
  <2>1. /\ UNCHANGED <<messages, complete, stranded, faulty>>
        /\ \A v \in Users : shown[v] \subseteq shown'[v]
    BY <1>3 DEF SendMessage, PushRecvIM
  <2>. QED
    BY <1>0, <2>1 DEF NothingMissing, Stored
<1>4. CASE InsertMessage
  <2>1. UNCHANGED <<shown, complete, stranded>> /\ job # NoJob
    BY <1>4, InsertIs DEF client
  <2>2. \A u \in complete : job.id \in shown[u]
    BY <1>0, <2>1, InsertedIsShown DEF Viewing
  <2>3. NewRow.id = job.id
    BY DEF NewRow
  <2>. QED
    BY <1>4, <2>1, <2>2, <2>3, InsertIs DEF NothingMissing, Stored
<1>5. ASSUME NEW w \in Users, NEW m \in messages, DeleteMessage(w, m)
      PROVE  NothingMissing'
  <2>1. /\ messages' \subseteq messages /\ faulty \subseteq faulty'
        /\ UNCHANGED <<complete, stranded>>
        /\ m \notin messages' \/ m.id \in faulty'
        /\ \A v \in Users : shown[v] \ {m.id} \subseteq shown'[v]
    BY <1>5 DEF DeleteMessage, PushMessageDeleted, Fails
  <2>2. m.id \notin Stored' \ faulty'
    BY <2>1 DEF Stored, IdsAreUnique
  <2>3. Stored' \subseteq Stored
    BY <2>1 DEF Stored
  <2>. QED
    BY <1>0, <2>1, <2>2, <2>3 DEF NothingMissing
<1>6. ASSUME NEW w \in Users, NEW b \in Ids \cup {NULL}, AskPage(w, b)
      PROVE  NothingMissing'
  BY <1>6 DEF AskPage, NothingMissing, Stored
<1>7. ASSUME NEW w \in Users, GetMessageHistory(w)
      PROVE  NothingMissing'
  <2>1. UNCHANGED <<messages, faulty>> /\ asking[w] # NoAsk
    BY <1>7, HistoryIs
  <2>2. PICK b : b = asking[w]
    OBVIOUS
  <2>3. PICK P : P = Newest(LIMIT, Candidates(b))
    OBVIOUS
  <2>4. CASE UNCHANGED <<shown, complete, stranded>>
    BY <2>1, <2>4 DEF NothingMissing, Stored
  <2>5. CASE /\ shown' = [shown EXCEPT ![w] = shown[w] \cup {m.id : m \in P}]
             /\ \/ complete' = complete
                \/ /\ complete' = complete \cup {w}
                   /\ ~ (Cardinality(Newest(LIMIT + 1, Candidates(b))) > LIMIT)
             /\ stranded \subseteq stranded'
             /\ w \in stranded' \/ b \in Stored \cup {NULL}
    <3>1. \A v \in Users : shown[v] \subseteq shown'[v]
      BY <2>5 DEF TypeOK
    <3>2. ASSUME NEW v \in complete \ stranded'
          PROVE  Stored \ faulty \subseteq shown'[v]
      BY <1>0, <2>5, <3>1, <3>2 DEF NothingMissing
    <3>3. ASSUME w \in complete', w \notin complete, w \notin stranded'
          PROVE  Stored \ faulty \subseteq shown'[w]
      <4>1. /\ ~ (Cardinality(Newest(LIMIT + 1, Candidates(b))) > LIMIT)
            /\ b \in Stored \cup {NULL}
        BY <2>5, <3>3
      <4>2. \A n \in messages : n \in P \/ n.id \in shown[w] \cup faulty
        BY <2>1, <2>2, <2>3, <4>1, LastPageCompletes
      <4>3. shown'[w] = shown[w] \cup {m.id : m \in P}
        BY <2>5 DEF TypeOK
      <4>. QED
        BY <4>2, <4>3 DEF Stored
    <3>4. \A v \in complete' \ stranded' : Stored \ faulty \subseteq shown'[v]
      BY <2>5, <3>2, <3>3
    <3>. QED
      BY <2>1, <3>4 DEF NothingMissing, Stored
  <2>. QED
    BY <1>7, <2>2, <2>3, <2>4, <2>5, HistoryIs
<1>. QED
  BY <1>1, <1>2, <1>3, <1>4, <1>5, <1>6, <1>7, Steps

-----------------------------------------------------------------------------
(* The theorems.                                                           *)

LEMMA InvInit == Init => IInv
<1>. SUFFICES ASSUME Init PROVE IInv
  OBVIOUS
<1>1. /\ messages = {} /\ job = NoJob /\ complete = {} /\ online = {}
      /\ \A u \in Users : shown[u] = {} /\ asking[u] = NoAsk
  BY DEF Init
<1>2. TypeOK
  BY TypeInit
<1>3. IdsAreUnique /\ JobIsNewest
  BY <1>1, FS_EmptySet DEF IdsAreUnique, JobIsNewest
<1>4. ViewersAreMembers /\ AudienceWasTold /\ ViewsHaveNoGaps
  BY <1>1 DEF ViewersAreMembers, Viewing, AudienceWasTold, ViewsHaveNoGaps
<1>5. NothingStale /\ NothingMissing /\ RepliesPointBack
  BY <1>1 DEF NothingStale, NothingMissing, RepliesPointBack
<1>. QED
  BY <1>2, <1>3, <1>4, <1>5 DEF IInv

LEMMA InvNext == IInv /\ [Next]_vars => IInv'
<1>. SUFFICES ASSUME IInv, [Next]_vars PROVE IInv'
  OBVIOUS
<1>1. TypeOK' /\ IdsAreUnique' /\ JobIsNewest' /\ RepliesPointBack'
  BY TypeKept, TableKept DEF IInv
<1>2. ViewersAreMembers' /\ AudienceWasTold' /\ NothingStale'
  BY AudienceKept, StaleKept DEF IInv
<1>3. ViewsHaveNoGaps' /\ NothingMissing'
  BY GapsKept, MissingKept DEF IInv
<1>. QED
  BY <1>1, <1>2, <1>3 DEF IInv

LEMMA InvHolds == Spec => []IInv
BY InvInit, InvNext, PTL DEF Spec

\* Every variable keeps its type; no stamp lies in the future.
THEOREM TypeCorrectness == Spec => []TypeOK
<1>1. IInv => TypeOK
  BY DEF IInv
<1>. QED
  BY <1>1, InvHolds, PTL

\* No client shows a message that was deleted: a deletion reaches all that show
\* it, and no page that is answered later brings it back (PushMessageDeleted
\* goes to the members with a connection, and nobody else has a view).
THEOREM ViewsAreNotStale == Spec => []NothingStale
<1>1. IInv => NothingStale
  BY DEF IInv
<1>. QED
  BY <1>1, InvHolds, PTL

\* A client that was told has_more = false shows the whole history from then
\* on, whatever is sent and deleted, for every size of a page and any number of
\* messages in one second (GetMessageHistoryPage).
THEOREM PagingMissesNothing == Spec => []NothingMissing
<1>1. IInv => NothingMissing
  BY DEF IInv
<1>. QED
  BY <1>1, InvHolds, PTL

\* A reply is behind the message it answers in the order of the history, so
\* chains of replies end.
THEOREM RepliesFollow == Spec => []RepliesPointBack
<1>1. IInv => RepliesPointBack
  BY DEF IInv
<1>. QED
  BY <1>1, InvHolds, PTL

\* A view is an end of the history without gaps: with a message a client shows
\* every newer one, but for those a failed write swallowed.
THEOREM ViewsAreGapless == Spec => []ViewsHaveNoGaps
<1>1. IInv => ViewsHaveNoGaps
  BY DEF IInv
<1>. QED
  BY <1>1, InvHolds, PTL

=============================================================================
