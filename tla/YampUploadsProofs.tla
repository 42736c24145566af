------------------------- MODULE YampUploadsProofs -------------------------
(***************************************************************************)
(* Proofs about YampUploads, for any number of worker threads, of nodes on *)
(* the heap and of tokens, and for every way the steps of the threads and  *)
(* crashes can fall between each other.                                    *)
(***************************************************************************)
EXTENDS YampUploads, SequenceTheorems, TLAPS

-----------------------------------------------------------------------------
(* The inductive invariant.                                                *)

\* What the epoll loop runs, and what the workers run.
LabelsOK ==
    /\ pc[Main] \in {"idle", "lock", "walk", "unlock", "respond"}
    /\ \A w \in Workers :
           pc[w] \in {"idle", "lock", "walk", "unlock found", "unlock missed",
                      "open", "read"}

\* The statements between pthread_mutex_lock and pthread_mutex_unlock.
Critical == {"walk", "unlock", "unlock found", "unlock missed"}

\* The mutex is held exactly by the thread that is at one of them.
OneInside == \A t \in Threads : UTLock = t <=> pc[t] \in Critical

IsLinked(n) == \E i \in DOMAIN queue : queue[i] = n

NodesAreLinkedOnce ==
    \A i, j \in DOMAIN queue : queue[i] = queue[j] => i = j

\* A walk is at a node of the list, or past its end.
WalksStayOnList ==
    /\ \A t \in Threads : pc[t] = "walk" /\ ptr[t] # NULL => IsLinked(ptr[t])
    /\ pc[Main] = "walk" /\ ptr[Main] = NULL => queue = <<>>

\* The node that RegisterUploadToken works on stays as it was allocated until
\* its token is sent, since nobody can present a token that was not sent; and
\* it is not in the list, nor is its token, until it is linked.
NewNodeIsKept ==
    /\ pc[Main] # "idle" =>
           /\ new \in allocated /\ node[new].tok = arg[Main]
           /\ arg[Main] \in generated \ known
    /\ pc[Main] \in {"lock", "walk"} =>
           /\ ~IsLinked(new)
           /\ node[new].before = NULL /\ node[new].after = NULL
           /\ granted[arg[Main]] = 0
           /\ \A n \in Nodes : IsLinked(n) => node[n].tok # arg[Main]

\* The tokens in the list were generated, were not consumed, and each is there
\* once.
TokensAreListedOnce ==
    /\ \A n \in Nodes : IsLinked(n) => /\ node[n].tok \in generated
                                       /\ granted[node[n].tok] = 0
    /\ \A m, n \in Nodes :
           IsLinked(m) /\ IsLinked(n) /\ node[m].tok = node[n].tok => m = n
    /\ \A t \in Tokens \ generated : granted[t] = 0
    /\ \A w \in Workers : arg[w] \in known \cup {NULL}

\* The worker was told that its token is good and has not answered yet.
Holding(w) == pc[w] \in {"unlock found", "open", "read"}

\* No upload without a token that was consumed for it, and no two at a time
\* with the same.
UploadsAreGranted ==
    /\ \A t \in Tokens : granted[t] = 0 => files[t] = "none" /\ answers[t] = "none"
    /\ \A w \in Workers : Holding(w) =>
           /\ arg[w] \in Tokens
           /\ granted[arg[w]] # 0
           /\ answers[arg[w]] = "none"
           /\ files[arg[w]] = IF pc[w] = "read" THEN "partial" ELSE "none"
    /\ \A v, w \in Workers : Holding(v) /\ Holding(w) /\ arg[v] = arg[w] => v = w

IInv ==
    /\ TypeOK
    /\ LabelsOK
    /\ OneInside
    /\ ListIsSound
    /\ NodesAreLinkedOnce
    /\ WalksStayOnList
    /\ NewNodeIsKept
    /\ TokensAreListedOnce
    /\ UploadsAreGranted
    /\ FilesMatchAnswers

-----------------------------------------------------------------------------
(* Lemmas about sequences and about single steps.                          *)

\* What remains of a sequence from which one place is taken.
LEMMA RemoveAtProperties ==
    ASSUME NEW S, NEW s \in Seq(S), NEW p \in 1 .. Len(s)
    PROVE  /\ RemoveAt(s, p) \in Seq(S)
           /\ Len(RemoveAt(s, p)) = Len(s) - 1
           /\ \A i \in 1 .. Len(s) - 1 :
                  RemoveAt(s, p)[i] = IF i < p THEN s[i] ELSE s[i + 1]
<1> DEFINE front == SubSeq(s, 1, p - 1)
           back  == SubSeq(s, p + 1, Len(s))
<1>1. Len(s) \in Nat /\ \A i \in 1 .. Len(s) : s[i] \in S
  BY ElementOfSeq, LenProperties
<1>2. /\ front \in Seq(S)
      /\ Len(front) = p - 1
      /\ \A i \in 1 .. p - 1 : front[i] = s[i]
  <2>1. \A i \in 1 .. p - 1 : s[i] \in S
    BY <1>1
  <2>. QED
    BY <1>1, <2>1, SubSeqProperties
<1>3. /\ back \in Seq(S)
      /\ Len(back) = Len(s) - p
      /\ \A i \in 1 .. Len(s) - p : back[i] = s[p + i]
  <2>1. \A i \in p + 1 .. Len(s) : s[i] \in S
    BY <1>1
  <2>. QED
    BY <1>1, <2>1, SubSeqProperties
<1>. HIDE DEF front, back
<1>4. /\ front \o back \in Seq(S)
      /\ Len(front \o back) = Len(front) + Len(back)
      /\ \A i \in 1 .. Len(front) + Len(back) : (front \o back)[i] =
             IF i <= Len(front) THEN front[i] ELSE back[i - Len(front)]
  BY <1>2, <1>3, ConcatProperties
<1>5. RemoveAt(s, p) = front \o back
  BY DEF RemoveAt, front, back
<1>6. Len(front) + Len(back) = Len(s) - 1
  BY <1>1, <1>2, <1>3
<1>7. ASSUME NEW i \in 1 .. Len(s) - 1
      PROVE  (front \o back)[i] = IF i < p THEN s[i] ELSE s[i + 1]
  <2>1. CASE i < p
    <3>1. i \in 1 .. p - 1 /\ i <= Len(front)
      BY <1>1, <1>2, <2>1
    <3>. QED
      BY <1>2, <1>4, <1>6, <2>1, <3>1
  <2>2. CASE ~(i < p)
    <3>. DEFINE j == i - Len(front)
    <3>1. j \in 1 .. Len(s) - p /\ p + j = i + 1 /\ ~(i <= Len(front))
      BY <1>1, <1>2, <2>2
    <3>2. (front \o back)[i] = back[j]
      BY <1>4, <1>6, <3>1
    <3>. HIDE DEF j
    <3>3. back[j] = s[p + j]
      BY <1>3, <3>1
    <3>. QED
      BY <2>2, <3>1, <3>2, <3>3
  <2>. QED
    BY <2>1, <2>2
<1>. QED
  BY <1>4, <1>5, <1>6, <1>7

LEMMA Names ==
    /\ Main \in Threads /\ Main \notin Workers /\ Workers \subseteq Threads
    /\ NULL \notin Threads /\ NULL \notin Nodes /\ NULL \notin Tokens
  BY NamesAssumption DEF Threads

-----------------------------------------------------------------------------
(* The inductive invariant holds in the initial state.                     *)

LEMMA InitIInv == Init => IInv
<1> SUFFICES ASSUME Init PROVE IInv
  OBVIOUS
<1>1. TypeOK
  BY MaxChunksAssumption DEF Init, TypeOK, Pointers, Blank
<1>2. LabelsOK /\ OneInside
  BY Names DEF Init, LabelsOK, OneInside, Critical
<1>3. ListIsSound /\ NodesAreLinkedOnce /\ WalksStayOnList
  BY Names DEF Init, ListIsSound, NodesAreLinkedOnce, WalksStayOnList
<1>4. NewNodeIsKept /\ TokensAreListedOnce
  BY Names DEF Init, NewNodeIsKept, TokensAreListedOnce, IsLinked
<1>5. UploadsAreGranted /\ FilesMatchAnswers
  BY Names DEF Init, UploadsAreGranted, Holding, FilesMatchAnswers
<1>. QED
  BY <1>1, <1>2, <1>3, <1>4, <1>5 DEF IInv

\* RegisterLink appends the new node behind the last one of the list.
LEMMA LinkFacts ==
    ASSUME IInv, RegisterLink
    PROVE  /\ new \in Nodes /\ new \in allocated /\ Len(queue) \in Nat
           /\ \A i \in 1 .. Len(queue) : queue[i] \in Nodes /\ queue[i] # new
           /\ IF queue = <<>> THEN ptr[Main] = NULL
                              ELSE ptr[Main] = queue[Len(queue)]
           /\ queue' \in Seq(Nodes) /\ Len(queue') = Len(queue) + 1
           /\ \A i \in 1 .. Len(queue) : queue'[i] = queue[i]
           /\ queue'[Len(queue) + 1] = new
<1>1. /\ new \in allocated /\ allocated \subseteq Nodes /\ ~IsLinked(new)
      /\ queue \in Seq(Nodes) /\ queue' = Append(queue, new)
  BY DEF IInv, NewNodeIsKept, TypeOK, RegisterLink
<1>2. Len(queue) \in Nat /\ DOMAIN queue = 1 .. Len(queue)
      /\ \A i \in 1 .. Len(queue) : queue[i] \in Nodes
  BY <1>1, ElementOfSeq, LenProperties
<1>3. CASE ptr[Main] = NULL
  BY <1>1, <1>2, <1>3 DEF IInv, WalksStayOnList, RegisterLink, IsLinked
<1>4. CASE ptr[Main] # NULL
  <2>1. PICK i \in 1 .. Len(queue) : queue[i] = ptr[Main]
    BY <1>2, <1>4, Names DEF IInv, WalksStayOnList, RegisterLink, IsLinked
  <2>2. node[queue[i]].after = NULL
    BY <1>4, <2>1 DEF RegisterLink
  <2>3. i = Len(queue)
    <3>1. node[queue[i]].after = IF i = Len(queue) THEN NULL ELSE queue[i + 1]
      BY DEF IInv, ListIsSound
    <3>2. i # Len(queue) => i + 1 \in 1 .. Len(queue)
      BY <1>2, <2>1
    <3>. QED
      BY <1>2, <2>1, <2>2, <3>1, <3>2, Names
  <2>4. queue # <<>>
    BY <2>1
  <2>. QED
    BY <1>1, <1>2, <2>1, <2>3, <2>4 DEF IsLinked
<1>. QED
  BY <1>3, <1>4

\* ConsumeFound takes the one node of the list that has the token.
LEMMA RemoveFacts ==
    ASSUME IInv, NEW w \in Workers, ConsumeFound(w)
    PROVE  /\ Len(queue) \in Nat
           /\ \A i \in 1 .. Len(queue) : queue[i] \in Nodes
           /\ Place(ptr[w]) \in 1 .. Len(queue)
           /\ queue[Place(ptr[w])] = ptr[w]
           /\ queue' \in Seq(Nodes) /\ Len(queue') = Len(queue) - 1
           /\ \A i \in 1 .. Len(queue) - 1 :
                  queue'[i] = IF i < Place(ptr[w]) THEN queue[i] ELSE queue[i + 1]
           /\ arg[w] \in Tokens /\ granted[arg[w]] = 0
           /\ ptr[w] \in Nodes
           /\ allocated' = allocated \ {ptr[w]}
           /\ UTStack' \in Pointers
           /\ node' \in [Nodes -> [tok : Tokens \cup {NULL},
                                   before : Pointers, after : Pointers]]
<1>1. queue \in Seq(Nodes) /\ IsLinked(ptr[w])
  BY Names DEF IInv, TypeOK, WalksStayOnList, ConsumeFound
<1>2. Len(queue) \in Nat /\ DOMAIN queue = 1 .. Len(queue)
      /\ \A i \in 1 .. Len(queue) : queue[i] \in Nodes
  BY <1>1, ElementOfSeq, LenProperties
<1>3. Place(ptr[w]) \in 1 .. Len(queue) /\ queue[Place(ptr[w])] = ptr[w]
  BY <1>1, <1>2 DEF IsLinked, Place
<1>4. queue' = RemoveAt(queue, Place(ptr[w]))
  BY DEF ConsumeFound, RemoveNode
<1>5. /\ queue' \in Seq(Nodes) /\ Len(queue') = Len(queue) - 1
      /\ \A i \in 1 .. Len(queue) - 1 :
             queue'[i] = IF i < Place(ptr[w]) THEN queue[i] ELSE queue[i + 1]
  BY <1>1, <1>3, <1>4, RemoveAtProperties
<1>6. arg[w] \in Tokens /\ granted[arg[w]] = 0
  <2>1. node[ptr[w]].tok = arg[w] /\ ptr[w] \in Nodes
    BY <1>2, <1>3 DEF ConsumeFound
  <2>. QED
    BY <1>1, <2>1 DEF IInv, TokensAreListedOnce, TypeOK
<1>7. ptr[w] \in Nodes
  BY <1>2, <1>3
<1>8. UTStack' \in Pointers
  BY <1>7 DEF ConsumeFound, RemoveNode, IInv, TypeOK
<1>9. node' \in [Nodes -> [tok : Tokens \cup {NULL},
                           before : Pointers, after : Pointers]]
  <2>1. Unlink(ptr[w]) \in [Nodes -> [tok : Tokens \cup {NULL},
                                      before : Pointers, after : Pointers]]
    <3>1. node \in [Nodes -> [tok : Tokens \cup {NULL},
                              before : Pointers, after : Pointers]]
      BY DEF IInv, TypeOK
    <3>2. node[ptr[w]].before \in Pointers /\ node[ptr[w]].after \in Pointers
      BY <1>7, <3>1
    <3>. QED
      BY <3>1, <3>2 DEF Unlink
  <2>2. Blank \in [tok : Tokens \cup {NULL}, before : Pointers, after : Pointers]
    BY DEF Blank, Pointers
  <2>. QED
    BY <2>1, <2>2 DEF ConsumeFound, RemoveNode, Free
<1>. QED
  BY <1>2, <1>3, <1>5, <1>6, <1>7, <1>8, <1>9 DEF ConsumeFound, RemoveNode

LEMMA AnswerTypes ==
    ASSUME TypeOK, NEW w \in Workers, NEW code \in {"201", "error"},
           Answer(w, code)
    PROVE  /\ answers' \in [Tokens -> {"none", "201", "error", "lost"}]
           /\ arg' \in [Threads -> Tokens \cup {NULL}]
           /\ total' \in [Workers -> 0 .. MaxChunks]
           /\ pc' \in [Threads -> {"idle", "lock", "walk", "unlock", "respond",
                                   "unlock found", "unlock missed", "open",
                                   "read"}]
<1>1. answers' \in [Tokens -> {"none", "201", "error", "lost"}]
  BY DEF TypeOK, Answer
<1>2. arg' \in [Threads -> Tokens \cup {NULL}]
  BY Names DEF TypeOK, Answer
<1>3. total' \in [Workers -> 0 .. MaxChunks]
  <2>1. total \in [Workers -> 0 .. MaxChunks]
    BY DEF TypeOK
  <2>2. 0 \in 0 .. MaxChunks
    BY MaxChunksAssumption
  <2>3. total' = [total EXCEPT ![w] = 0]
    BY DEF Answer
  <2>. QED
    BY <2>1, <2>2, <2>3
<1>. QED
  BY <1>1, <1>2, <1>3, Names DEF TypeOK, Answer, Go

-----------------------------------------------------------------------------
(* Types, statements and the mutex.                                        *)

LEMMA NextTypeOK == IInv /\ [Next]_vars => TypeOK'
<1> SUFFICES ASSUME IInv, TypeOK, [Next]_vars PROVE TypeOK'
  BY DEF IInv
<1>. USE Names
<1>1. ASSUME NEW t \in Tokens, NEW n \in Nodes, Allocate(t, n) PROVE TypeOK'
  BY <1>1 DEF TypeOK, Allocate, Go, Pointers, Blank, uploads
<1>2. CASE RegisterLock
  BY <1>2 DEF TypeOK, RegisterLock, Lock, Go, list, tokens, uploads
<1>3. CASE RegisterWalk
  BY <1>3 DEF TypeOK, RegisterWalk, list, tokens, uploads, Pointers
<1>4. CASE RegisterLink
  <2>1. new \in Nodes /\ ptr[Main] \in Pointers
    BY <1>4, LinkFacts DEF TypeOK
  <2>2. queue' \in Seq(Nodes) /\ UTStack' \in Pointers
    BY <1>4, <2>1, LinkFacts DEF TypeOK, RegisterLink, Pointers
  <2>3. node' \in [Nodes -> [tok : Tokens \cup {NULL},
                            before : Pointers, after : Pointers]]
    <3>1. node \in [Nodes -> [tok : Tokens \cup {NULL},
                             before : Pointers, after : Pointers]]
      BY DEF TypeOK
    <3>2. CASE ptr[Main] = NULL
      BY <1>4, <3>1, <3>2 DEF RegisterLink
    <3>3. CASE ptr[Main] # NULL
      <4>1. ptr[Main] \in Nodes
        BY <2>1, <3>3 DEF Pointers
      <4>2. node' = [node EXCEPT ![ptr[Main]].after = new,
                                 ![new].before = ptr[Main]]
        BY <1>4, <3>3 DEF RegisterLink, LinkBehind
      <4>. QED
        BY <2>1, <3>1, <4>1, <4>2 DEF Pointers
    <3>. QED
      BY <3>2, <3>3
  <2>. QED
    BY <1>4, <2>2, <2>3 DEF TypeOK, RegisterLink, Go, tokens, uploads
<1>5. CASE RegisterUnlock
  BY <1>5 DEF TypeOK, RegisterUnlock, Unlock, Forget, Go, list, tokens,
              uploads, Pointers
<1>6. CASE UploadFile
  BY <1>6 DEF IInv, NewNodeIsKept, TypeOK, UploadFile, Go, list, uploads, Pointers
<1>7. ASSUME NEW w \in Workers, NEW t \in Tokens \cup {NULL}, Put(w, t)
      PROVE  TypeOK'
  BY <1>7 DEF TypeOK, Put, Go, list, tokens, uploads
<1>8. ASSUME NEW w \in Workers, ConsumeLock(w) PROVE TypeOK'
  BY <1>8 DEF TypeOK, ConsumeLock, Lock, Go, list, tokens, uploads
<1>9. ASSUME NEW w \in Workers, ConsumeWalk(w) PROVE TypeOK'
  BY <1>9 DEF TypeOK, ConsumeWalk, list, tokens, uploads, Pointers
<1>10. ASSUME NEW w \in Workers, ConsumeFound(w) PROVE TypeOK'
  <2>1. granted' \in [Tokens -> Nat]
    <3>1. arg[w] \in Tokens /\ granted[arg[w]] = 0
      BY <1>10, RemoveFacts
    <3>2. granted' = [granted EXCEPT ![arg[w]] = granted[arg[w]] + 1]
      BY <1>10 DEF ConsumeFound
    <3>3. granted[arg[w]] + 1 \in Nat
      BY <3>1
    <3>. QED
      BY <3>1, <3>2, <3>3 DEF TypeOK
  <2>2. allocated' \subseteq Nodes /\ queue' \in Seq(Nodes)
        /\ UTStack' \in Pointers
        /\ node' \in [Nodes -> [tok : Tokens \cup {NULL},
                               before : Pointers, after : Pointers]]
    BY <1>10, RemoveFacts DEF TypeOK
  <2>. QED
    BY <1>10, <2>1, <2>2 DEF TypeOK, ConsumeFound, Go, tokens, uploads
<1>11. ASSUME NEW w \in Workers, ConsumeMissed(w) PROVE TypeOK'
  BY <1>11 DEF TypeOK, ConsumeMissed, Go, list, tokens, uploads
<1>12. ASSUME NEW w \in Workers, ConsumeUnlock(w) PROVE TypeOK'
  <2>1. pc' \in [Threads -> {"idle", "lock", "walk", "unlock", "respond",
                             "unlock found", "unlock missed", "open", "read"}]
    BY <1>12 DEF TypeOK, ConsumeUnlock, Go
  <2>2. ptr' \in [Threads -> Pointers] /\ UTLock' \in Threads \cup {NULL}
    BY <1>12 DEF TypeOK, ConsumeUnlock, Unlock, Forget, Pointers
  <2>. QED
    BY <1>12, <2>1, <2>2 DEF TypeOK, ConsumeUnlock, list, tokens, uploads
<1>13. ASSUME NEW w \in Workers, Open(w) PROVE TypeOK'
  <2>1. CASE Answer(w, "error") /\ UNCHANGED files
    BY <1>13, <2>1, AnswerTypes DEF TypeOK, Open, list, tokens
  <2>2. CASE /\ files' = [files EXCEPT ![arg[w]] = "partial"]
             /\ Go(w, "read")
             /\ UNCHANGED <<arg, total, answers>>
    <3>1. /\ files' \in [Tokens -> {"none", "partial", "kept"}]
          /\ pc' \in [Threads -> {"idle", "lock", "walk", "unlock", "respond",
                                  "unlock found", "unlock missed", "open",
                                  "read"}]
      BY <2>2 DEF TypeOK, Go
    <3>. QED
      BY <1>13, <2>2, <3>1 DEF TypeOK, Open, list, tokens
  <2>. QED
    BY <1>13, <2>1, <2>2 DEF Open
<1>14. ASSUME NEW w \in Workers, ReadChunk(w) PROVE TypeOK'
  <2>1. CASE Fits(w) /\ total' = [total EXCEPT ![w] = @ + 1]
             /\ UNCHANGED <<files, pc, arg, answers>>
    <3>1. total[w] \in 0 .. MaxChunks /\ total[w] < MaxChunks
      BY <2>1 DEF Fits, TypeOK
    <3>2. total[w] + 1 \in 0 .. MaxChunks
      BY <3>1, MaxChunksAssumption
    <3>3. total' \in [Workers -> 0 .. MaxChunks]
      BY <2>1, <3>2 DEF TypeOK
    <3>. QED
      BY <1>14, <2>1, <3>3 DEF TypeOK, ReadChunk, list, tokens
  <2>2. CASE Discard(w) /\ Answer(w, "error")
    BY <1>14, <2>2, AnswerTypes DEF TypeOK, ReadChunk, Discard, list, tokens
  <2>. QED
    BY <1>14, <2>1, <2>2 DEF ReadChunk
<1>15. ASSUME NEW w \in Workers, ReadEnd(w) PROVE TypeOK'
  BY <1>15, AnswerTypes DEF TypeOK, ReadEnd, list, tokens
<1>16. CASE Crash
  <2>1. total' \in [Workers -> 0 .. MaxChunks]
    BY <1>16, MaxChunksAssumption DEF Crash
  <2>2. answers' \in [Tokens -> {"none", "201", "error", "lost"}]
    BY <1>16 DEF Crash, TypeOK
  <2>3. queue' \in Seq(Nodes)
    BY <1>16 DEF Crash
  <2>. QED
    BY <1>16, <2>1, <2>2, <2>3 DEF TypeOK, Crash, Blank, Pointers, tokens
<1>17. CASE UNCHANGED vars
  BY <1>17 DEF TypeOK, vars, tokens, uploads
<1>. QED
  BY <1>1, <1>2, <1>3, <1>4, <1>5, <1>6, <1>7, <1>8, <1>9, <1>10, <1>11, <1>12,
     <1>13, <1>14, <1>15, <1>16, <1>17 DEF Next, Register, Consume, Write

\* Whoever enters a critical section found the mutex free, and whoever leaves
\* one gives the mutex back.
LEMMA NextMutex == IInv /\ [Next]_vars => LabelsOK' /\ OneInside'
<1> SUFFICES ASSUME IInv, [Next]_vars PROVE LabelsOK' /\ OneInside'
  OBVIOUS
<1>. USE Names DEF LabelsOK, OneInside, Critical
<1>0. /\ pc \in [Threads -> {"idle", "lock", "walk", "unlock", "respond",
                             "unlock found", "unlock missed", "open", "read"}]
      /\ LabelsOK /\ OneInside
  BY DEF IInv, TypeOK
<1>1. ASSUME NEW t \in Tokens, NEW n \in Nodes, Allocate(t, n)
      PROVE  LabelsOK' /\ OneInside'
  BY <1>0, <1>1 DEF Allocate, Go
<1>2. CASE RegisterLock
  BY <1>0, <1>2 DEF RegisterLock, Lock, Go
<1>3. CASE RegisterWalk
  BY <1>0, <1>3 DEF RegisterWalk
<1>4. CASE RegisterLink
  BY <1>0, <1>4 DEF RegisterLink, Go
<1>5. CASE RegisterUnlock
  BY <1>0, <1>5 DEF RegisterUnlock, Unlock, Go
<1>6. CASE UploadFile
  BY <1>0, <1>6 DEF UploadFile, Go
<1>7. ASSUME NEW w \in Workers, NEW t \in Tokens \cup {NULL}, Put(w, t)
      PROVE  LabelsOK' /\ OneInside'
  BY <1>0, <1>7 DEF Put, Go
<1>8. ASSUME NEW w \in Workers, ConsumeLock(w) PROVE LabelsOK' /\ OneInside'
  BY <1>0, <1>8 DEF ConsumeLock, Lock, Go
<1>9. ASSUME NEW w \in Workers, ConsumeWalk(w) PROVE LabelsOK' /\ OneInside'
  BY <1>0, <1>9 DEF ConsumeWalk
<1>10. ASSUME NEW w \in Workers, ConsumeFound(w) PROVE LabelsOK' /\ OneInside'
  BY <1>0, <1>10 DEF ConsumeFound, Go
<1>11. ASSUME NEW w \in Workers, ConsumeMissed(w) PROVE LabelsOK' /\ OneInside'
  BY <1>0, <1>11 DEF ConsumeMissed, Go
<1>12. ASSUME NEW w \in Workers, ConsumeUnlock(w) PROVE LabelsOK' /\ OneInside'
  BY <1>0, <1>12 DEF ConsumeUnlock, Unlock, Go
<1>13. ASSUME NEW w \in Workers, Open(w) PROVE LabelsOK' /\ OneInside'
  BY <1>0, <1>13 DEF Open, Answer, Go
<1>14. ASSUME NEW w \in Workers, ReadChunk(w) PROVE LabelsOK' /\ OneInside'
  BY <1>0, <1>14 DEF ReadChunk, Answer, Go
<1>15. ASSUME NEW w \in Workers, ReadEnd(w) PROVE LabelsOK' /\ OneInside'
  BY <1>0, <1>15 DEF ReadEnd, Answer, Go
<1>16. CASE Crash
  BY <1>0, <1>16 DEF Crash
<1>17. CASE UNCHANGED vars
  BY <1>0, <1>17 DEF vars
<1>. QED
  BY <1>1, <1>2, <1>3, <1>4, <1>5, <1>6, <1>7, <1>8, <1>9, <1>10, <1>11, <1>12,
     <1>13, <1>14, <1>15, <1>16, <1>17 DEF Next, Register, Consume, Write

-----------------------------------------------------------------------------
(* The list.                                                               *)

\* A node that is not in the list is allocated, with a token that was not
\* generated before.
LEMMA AllocateFacts ==
    ASSUME IInv, NEW t \in Tokens, NEW n \in Nodes, Allocate(t, n)
    PROVE  /\ Len(queue) \in Nat /\ DOMAIN queue = 1 .. Len(queue)
           /\ \A i \in 1 .. Len(queue) : /\ queue[i] \in Nodes \cap allocated
                                         /\ queue[i] # n
                                         /\ node'[queue[i]] = node[queue[i]]
           /\ node'[n] = [tok |-> t, before |-> NULL, after |-> NULL]
           /\ UNCHANGED <<queue, UTStack>> /\ allocated' = allocated \cup {n}
<1>1. queue \in Seq(Nodes)
      /\ node \in [Nodes -> [tok : Tokens \cup {NULL},
                             before : Pointers, after : Pointers]]
  BY DEF IInv, TypeOK
<1>2. Len(queue) \in Nat /\ DOMAIN queue = 1 .. Len(queue)
      /\ \A i \in 1 .. Len(queue) : queue[i] \in Nodes
  BY <1>1, ElementOfSeq, LenProperties
<1>3. \A i \in 1 .. Len(queue) : queue[i] \in allocated
  BY DEF IInv, ListIsSound
<1>. QED
  BY <1>1, <1>2, <1>3 DEF Allocate, Blank

LEMMA AllocateKeepsList ==
    ASSUME IInv, NEW t \in Tokens, NEW n \in Nodes, Allocate(t, n)
    PROVE  ListIsSound' /\ NodesAreLinkedOnce'
<1>1. NodesAreLinkedOnce'
  BY AllocateFacts DEF IInv, NodesAreLinkedOnce
<1>2. ListIsSound'
  <2>1. ASSUME NEW i \in 1 .. Len(queue)
        PROVE  /\ queue[i] \in allocated'
               /\ node'[queue[i]].after =
                      IF i = Len(queue) THEN NULL ELSE queue[i + 1]
               /\ node'[queue[i]].before = IF i = 1 THEN NULL ELSE queue[i - 1]
    <3>1. node'[queue[i]] = node[queue[i]] /\ queue[i] \in allocated'
      BY AllocateFacts
    <3>2. /\ node[queue[i]].after =
                 IF i = Len(queue) THEN NULL ELSE queue[i + 1]
          /\ node[queue[i]].before = IF i = 1 THEN NULL ELSE queue[i - 1]
      BY DEF IInv, ListIsSound
    <3>. QED
      BY <3>1, <3>2
  <2>2. UTStack = IF queue = <<>> THEN NULL ELSE queue[1]
    BY DEF IInv, ListIsSound
  <2>3. queue' = queue /\ UTStack' = UTStack
    BY AllocateFacts
  <2>. QED
    BY <2>1, <2>2, <2>3 DEF ListIsSound
<1>. QED
  BY <1>1, <1>2

LEMMA LinkKeepsList ==
    ASSUME IInv, RegisterLink
    PROVE  ListIsSound' /\ NodesAreLinkedOnce'
<1> DEFINE last == Len(queue)
<1>0. /\ new \in Nodes \cap allocated /\ last \in Nat
      /\ \A i \in 1 .. last : queue[i] \in Nodes /\ queue[i] # new
      /\ Len(queue') = last + 1
      /\ \A i \in 1 .. last : queue'[i] = queue[i]
      /\ queue'[last + 1] = new
      /\ DOMAIN queue = 1 .. last
      /\ DOMAIN queue' = 1 .. last + 1
      /\ queue = <<>> <=> last = 0
  BY LinkFacts, LenProperties, EmptySeq DEF IInv, TypeOK
<1>. HIDE DEF last
<1>1. NodesAreLinkedOnce'
  BY <1>0 DEF IInv, NodesAreLinkedOnce
<1>2. UTStack' = queue'[1] /\ queue' # <<>>
  <2>1. CASE queue = <<>>
    BY <1>0, <2>1, LinkFacts DEF RegisterLink, last
  <2>2. CASE queue # <<>>
    <3>1. last \in 1 .. last /\ ptr[Main] = queue[last] /\ ptr[Main] \in Nodes
      BY <1>0, <2>2, LinkFacts DEF last
    <3>2. UTStack' = UTStack /\ UTStack = queue[1]
      BY <2>2, <3>1, Names DEF RegisterLink, IInv, ListIsSound
    <3>. QED
      BY <1>0, <3>1, <3>2
  <2>. QED
    BY <2>1, <2>2
<1>3. \A i \in 1 .. last + 1 : queue'[i] \in allocated'
  <2>1. \A i \in 1 .. last : queue[i] \in allocated
    BY DEF IInv, ListIsSound, last
  <2>2. allocated' = allocated
    BY DEF RegisterLink
  <2>. QED
    BY <1>0, <2>1, <2>2
<1>4. /\ \A i \in 1 .. last : i # last => node'[queue[i]].after = node[queue[i]].after
      /\ \A i \in 1 .. last : node'[queue[i]].before = node[queue[i]].before
      /\ last # 0 => /\ node'[queue[last]].after = new
                     /\ node'[new].before = queue[last]
      /\ last = 0 => node'[new].before = NULL
      /\ node'[new].after = NULL
  <2>1. node[new].before = NULL /\ node[new].after = NULL
    BY DEF IInv, NewNodeIsKept, RegisterLink
  <2>2. CASE last = 0
    <3>1. queue = <<>>
      BY <2>2, EmptySeq DEF IInv, TypeOK, last
    <3>. QED
      BY <1>0, <2>1, <2>2, <3>1, LinkFacts DEF RegisterLink
  <2>3. CASE last # 0
    <3>1. queue # <<>> /\ last \in 1 .. last
      BY <1>0, <2>3 DEF last
    <3>2. ptr[Main] = queue[last] /\ ptr[Main] # NULL /\ ptr[Main] # new
      BY <1>0, <3>1, LinkFacts, Names DEF last
    <3>3. node' = [node EXCEPT ![queue[last]].after = new,
                               ![new].before = queue[last]]
      BY <3>2 DEF RegisterLink, LinkBehind
    <3>4. \A i \in 1 .. last : i # last => queue[i] # queue[last]
      BY <1>0, <3>1 DEF IInv, NodesAreLinkedOnce
    <3>5. node \in [Nodes -> [tok : Tokens \cup {NULL},
                             before : Pointers, after : Pointers]]
      BY DEF IInv, TypeOK
    <3>6. queue[last] \in Nodes /\ queue[last] # new
      BY <1>0, <3>1
    <3>7. \A n \in Nodes : /\ n # queue[last] => node'[n].after = node[n].after
                           /\ n # new => node'[n].before = node[n].before
      BY <1>0, <3>3, <3>5, <3>6
    <3>8. node'[queue[last]].after = new /\ node'[new].before = queue[last]
      BY <1>0, <3>3, <3>5, <3>6
    <3>9. node'[new].after = NULL
      BY <1>0, <2>1, <3>6, <3>7
    <3>10. \A i \in 1 .. last :
               /\ i # last => node'[queue[i]].after = node[queue[i]].after
               /\ node'[queue[i]].before = node[queue[i]].before
      BY <1>0, <3>4, <3>7
    <3>. QED
      BY <2>3, <3>8, <3>9, <3>10
  <2>. QED
    BY <2>2, <2>3
<1>5. ASSUME NEW i \in 1 .. last + 1
      PROVE  /\ node'[queue'[i]].after =
                    IF i = last + 1 THEN NULL ELSE queue'[i + 1]
             /\ node'[queue'[i]].before = IF i = 1 THEN NULL ELSE queue'[i - 1]
  <2>1. CASE i = last + 1
    BY <1>0, <1>4, <2>1
  <2>2. CASE i # last + 1
    <3>1. i \in 1 .. last /\ (i # last => i + 1 \in 1 .. last)
          /\ (i # 1 => i - 1 \in 1 .. last)
      BY <1>0, <2>2
    <3>2. node[queue[i]].after = IF i = last THEN NULL ELSE queue[i + 1]
      BY <3>1 DEF IInv, ListIsSound, last
    <3>3. node[queue[i]].before = IF i = 1 THEN NULL ELSE queue[i - 1]
      BY <3>1 DEF IInv, ListIsSound, last
    <3>. QED
      BY <1>0, <1>4, <2>2, <3>1, <3>2, <3>3
  <2>. QED
    BY <2>1, <2>2
<1>. QED
  BY <1>0, <1>1, <1>2, <1>3, <1>5 DEF ListIsSound

LEMMA RemoveKeepsList ==
    ASSUME IInv, NEW w \in Workers, ConsumeFound(w)
    PROVE  ListIsSound' /\ NodesAreLinkedOnce'
<1> DEFINE c    == ptr[w]
           p    == Place(c)
           last == Len(queue)
<1>0. /\ last \in Nat /\ p \in 1 .. last /\ queue[p] = c /\ c \in Nodes
      /\ \A i \in 1 .. last : queue[i] \in Nodes
      /\ DOMAIN queue = 1 .. last
      /\ Len(queue') = last - 1 /\ DOMAIN queue' = 1 .. last - 1
      /\ \A i \in 1 .. last - 1 :
             queue'[i] = IF i < p THEN queue[i] ELSE queue[i + 1]
      /\ allocated' = allocated \ {c}
  BY RemoveFacts, LenProperties DEF IInv, TypeOK
<1>1. \A i \in 1 .. last : /\ queue[i] \in allocated
                           /\ node[queue[i]].after =
                                  IF i = last THEN NULL ELSE queue[i + 1]
                           /\ node[queue[i]].before =
                                  IF i = 1 THEN NULL ELSE queue[i - 1]
  BY DEF IInv, ListIsSound
<1>2. \A i, j \in 1 .. last : queue[i] = queue[j] => i = j
  BY <1>0 DEF IInv, NodesAreLinkedOnce
<1>3. \A n \in Nodes \ {c} :
          /\ node'[n].after = IF n = node[c].before THEN node[c].after
                                                    ELSE node[n].after
          /\ node'[n].before = IF n = node[c].after THEN node[c].before
                                                    ELSE node[n].before
  <2>1. node \in [Nodes -> [tok : Tokens \cup {NULL},
                            before : Pointers, after : Pointers]]
    BY DEF IInv, TypeOK
  <2>. QED
    BY <2>1 DEF ConsumeFound, RemoveNode, Free, Unlink
<1>4. UTStack' = IF node[c].before = NULL THEN node[c].after ELSE UTStack
  BY DEF ConsumeFound, RemoveNode
<1>5. queue' = <<>> <=> last = 1
  BY <1>0, RemoveFacts, EmptySeq
<1>6. UTStack = queue[1]
  <2>1. queue \in Seq(Nodes)
    BY DEF IInv, TypeOK
  <2>2. last # 0
    BY <1>0
  <2>3. queue # <<>>
    BY <2>1, <2>2, EmptySeq
  <2>. QED
    BY <2>3 DEF IInv, ListIsSound
<1>. HIDE DEF c, p, last
<1>7. NodesAreLinkedOnce'
  <2>1. SUFFICES ASSUME NEW i \in 1 .. last - 1, NEW j \in 1 .. last - 1,
                        queue'[i] = queue'[j]
                 PROVE  i = j
    BY <1>0 DEF NodesAreLinkedOnce
  <2>2. PICK k \in 1 .. last : k = IF i < p THEN i ELSE i + 1
    BY <1>0
  <2>3. PICK l \in 1 .. last : l = IF j < p THEN j ELSE j + 1
    BY <1>0
  <2>4. queue'[i] = queue[k] /\ queue'[j] = queue[l]
    BY <1>0, <2>2, <2>3
  <2>5. k = l
    BY <1>2, <2>1, <2>4
  <2>. QED
    BY <1>0, <2>2, <2>3, <2>5
<1>8. UTStack' = IF queue' = <<>> THEN NULL ELSE queue'[1]
  <2>1. CASE p = 1
    BY <1>0, <1>1, <1>4, <1>5, <2>1
  <2>2. CASE p # 1
    <3>1. 1 < p /\ last # 1 /\ p - 1 \in 1 .. last /\ 1 \in 1 .. last - 1
      BY <1>0, <2>2
    <3>2. node[c].before # NULL
      BY <1>0, <1>1, <2>2, <3>1, Names
    <3>. QED
      BY <1>0, <1>4, <1>5, <1>6, <3>1, <3>2
  <2>. QED
    BY <2>1, <2>2
<1>9. ASSUME NEW i \in 1 .. last - 1
      PROVE  /\ queue'[i] \in allocated'
             /\ node'[queue'[i]].after =
                    IF i = last - 1 THEN NULL ELSE queue'[i + 1]
             /\ node'[queue'[i]].before = IF i = 1 THEN NULL ELSE queue'[i - 1]
  <2>. DEFINE k == IF i < p THEN i ELSE i + 1
  <2>1. k \in 1 .. last /\ k # p
    BY <1>0
  <2>2. queue'[i] = queue[k]
    BY <1>0
  <2>3. queue[k] # c /\ queue[k] \in Nodes
    BY <1>0, <1>2, <2>1
  <2>4. node'[queue[k]].after = IF i = last - 1 THEN NULL ELSE queue'[i + 1]
    <3>1. CASE k = p - 1
      <4>1. node'[queue[k]].after = node[c].after
        BY <1>0, <1>1, <1>3, <2>1, <2>3, <3>1
      <4>2. i = p - 1 /\ (i = last - 1 <=> p = last)
        BY <1>0, <2>1, <3>1
      <4>3. i # last - 1 => queue'[i + 1] = queue[p + 1]
        BY <1>0, <4>2
      <4>. QED
        BY <1>0, <1>1, <4>1, <4>2, <4>3
    <3>2. CASE k # p - 1
      <4>1. queue[k] # node[c].before
        <5>1. CASE p = 1
          BY <1>0, <1>1, <2>3, <5>1, Names
        <5>2. CASE p # 1
          <6>1. p - 1 \in 1 .. last
            BY <1>0, <5>2
          <6>2. node[c].before = queue[p - 1]
            BY <1>0, <1>1, <5>2
          <6>. QED
            BY <1>2, <2>1, <3>2, <6>1, <6>2
        <5>. QED
          BY <5>1, <5>2
      <4>2. node'[queue[k]].after = IF k = last THEN NULL ELSE queue[k + 1]
        BY <1>1, <1>3, <2>1, <2>3, <4>1
      <4>3. k = last <=> i = last - 1
        BY <1>0, <2>1, <3>2
      <4>4. i # last - 1 => queue'[i + 1] = queue[k + 1]
        BY <1>0, <2>1, <3>2
      <4>. QED
        BY <4>2, <4>3, <4>4
    <3>. QED
      BY <3>1, <3>2
  <2>5. node'[queue[k]].before = IF i = 1 THEN NULL ELSE queue'[i - 1]
    <3>1. CASE k = p + 1
      <4>1. node'[queue[k]].before = node[c].before
        <5>1. node[queue[p]].after = queue[p + 1]
          BY <1>0, <1>1, <2>1, <3>1
        <5>2. queue[k] = node[c].after
          BY <1>0, <3>1, <5>1
        <5>. QED
          BY <1>3, <2>3, <5>2
      <4>2. i = p
        BY <1>0, <3>1
      <4>3. i # 1 => queue'[i - 1] = queue[p - 1]
        BY <1>0, <4>2
      <4>. QED
        BY <1>0, <1>1, <4>1, <4>2, <4>3
    <3>2. CASE k # p + 1
      <4>1. queue[k] # node[c].after
        <5>1. CASE p = last
          BY <1>0, <1>1, <2>3, <5>1, Names
        <5>2. CASE p # last
          <6>1. p + 1 \in 1 .. last
            BY <1>0, <5>2
          <6>2. node[c].after = queue[p + 1]
            BY <1>0, <1>1, <5>2
          <6>. QED
            BY <1>2, <2>1, <3>2, <6>1, <6>2
        <5>. QED
          BY <5>1, <5>2
      <4>2. node'[queue[k]].before = IF k = 1 THEN NULL ELSE queue[k - 1]
        BY <1>1, <1>3, <2>1, <2>3, <4>1
      <4>3. k = 1 <=> i = 1
        BY <1>0, <2>1, <3>2
      <4>4. i # 1 => queue'[i - 1] = queue[k - 1]
        BY <1>0, <2>1, <3>2
      <4>. QED
        BY <4>2, <4>3, <4>4
    <3>. QED
      BY <3>1, <3>2
  <2>6. queue[k] \in allocated'
    BY <1>0, <1>1, <2>1, <2>3
  <2>. QED
    BY <2>2, <2>4, <2>5, <2>6
<1>. QED
  BY <1>0, <1>7, <1>8, <1>9 DEF ListIsSound

\* Only three operations and a crash change the list or what was granted.
LEMMA OthersLeaveTheList ==
    ASSUME [Next]_vars
    PROVE  \/ \E t \in Tokens, n \in Nodes : Allocate(t, n)
           \/ RegisterLink
           \/ \E w \in Workers : ConsumeFound(w)
           \/ Crash
           \/ UNCHANGED <<list, granted>>
<1>1. CASE RegisterLock \/ RegisterWalk \/ RegisterUnlock \/ UploadFile
  BY <1>1 DEF RegisterLock, RegisterWalk, RegisterUnlock, UploadFile
<1>2. ASSUME NEW w \in Workers,
             \/ \E t \in Tokens \cup {NULL} : Put(w, t)
             \/ ConsumeLock(w) \/ ConsumeWalk(w) \/ ConsumeMissed(w)
             \/ ConsumeUnlock(w) \/ Open(w) \/ ReadChunk(w) \/ ReadEnd(w)
      PROVE  UNCHANGED <<list, granted>>
  BY <1>2 DEF Put, ConsumeLock, ConsumeWalk, ConsumeMissed, ConsumeUnlock, Open,
              ReadChunk, ReadEnd
<1>3. UNCHANGED vars => UNCHANGED <<list, granted>>
  BY DEF vars, list
<1>. QED
  BY <1>1, <1>2, <1>3 DEF Next, Register, Consume, Write

LEMMA NextList == IInv /\ [Next]_vars => ListIsSound' /\ NodesAreLinkedOnce'
<1> SUFFICES ASSUME IInv, [Next]_vars PROVE ListIsSound' /\ NodesAreLinkedOnce'
  OBVIOUS
<1>1. CASE Crash
  <2>1. queue' = <<>> /\ UTStack' = NULL
    BY <1>1 DEF Crash
  <2>. QED
    BY <2>1 DEF ListIsSound, NodesAreLinkedOnce
<1>2. CASE UNCHANGED list
  <2>1. ListIsSound /\ NodesAreLinkedOnce
    BY DEF IInv
  <2>2. queue' = queue /\ UTStack' = UTStack /\ node' = node
        /\ allocated' = allocated
    BY <1>2 DEF list
  <2>. QED
    BY <2>1, <2>2 DEF ListIsSound, NodesAreLinkedOnce
<1>. QED
  BY <1>1, <1>2, OthersLeaveTheList, AllocateKeepsList, LinkKeepsList,
     RemoveKeepsList

\* The links lead from a node of the list to the next one.
LEMMA LinksStayOnList ==
    ASSUME IInv
    PROVE  /\ UTStack # NULL => IsLinked(UTStack)
           /\ UTStack = NULL => queue = <<>>
           /\ \A n \in Nodes : IsLinked(n) /\ node[n].after # NULL =>
                  IsLinked(node[n].after)
<1>1. Len(queue) \in Nat /\ DOMAIN queue = 1 .. Len(queue)
      /\ (queue = <<>> <=> Len(queue) = 0)
      /\ \A i \in 1 .. Len(queue) : queue[i] \in Nodes
  BY LenProperties, EmptySeq, ElementOfSeq DEF IInv, TypeOK
<1>2. \A i \in 1 .. Len(queue) :
          node[queue[i]].after = IF i = Len(queue) THEN NULL ELSE queue[i + 1]
  BY DEF IInv, ListIsSound
<1>3. UTStack = IF queue = <<>> THEN NULL ELSE queue[1]
  BY DEF IInv, ListIsSound
<1>4. queue # <<>> => 1 \in 1 .. Len(queue) /\ UTStack # NULL
  BY <1>1, <1>3, Names
<1>5. ASSUME NEW n \in Nodes, IsLinked(n), node[n].after # NULL
      PROVE  IsLinked(node[n].after)
  <2>1. PICK i \in 1 .. Len(queue) : queue[i] = n
    BY <1>1, <1>5 DEF IsLinked
  <2>2. node[queue[i]].after = IF i = Len(queue) THEN NULL ELSE queue[i + 1]
    BY <1>2, <2>1
  <2>3. i # Len(queue)
    BY <1>5, <2>1, <2>2
  <2>4. i + 1 \in 1 .. Len(queue)
    <3>1. Len(queue) \in Nat /\ i \in 1 .. Len(queue)
      BY <1>1, <2>1
    <3>. QED
      BY <2>3, <3>1
  <2>5. node[n].after = queue[i + 1]
    BY <2>1, <2>2, <2>3
  <2>. QED
    BY <1>1, <2>4, <2>5 DEF IsLinked
<1>. QED
  BY <1>1, <1>3, <1>4, <1>5 DEF IsLinked

\* The links lead to nodes of the list, in both directions.
LEMMA NeighboursAreLinked ==
    ASSUME IInv, NEW n \in Nodes, IsLinked(n)
    PROVE  /\ node[n].before # NULL => IsLinked(node[n].before)
           /\ node[n].after # NULL => IsLinked(node[n].after)
<1>1. Len(queue) \in Nat /\ DOMAIN queue = 1 .. Len(queue)
  BY LenProperties DEF IInv, TypeOK
<1>2. PICK i \in 1 .. Len(queue) : queue[i] = n
  BY <1>1 DEF IsLinked
<1>3. node[n].before = IF i = 1 THEN NULL ELSE queue[i - 1]
  BY <1>2 DEF IInv, ListIsSound
<1>4. i # 1 => i - 1 \in 1 .. Len(queue)
  BY <1>1, <1>2
<1>. QED
  BY <1>1, <1>3, <1>4, LinksStayOnList DEF IsLinked

LEMMA NextWalks == IInv /\ [Next]_vars => WalksStayOnList'
<1> SUFFICES ASSUME IInv, [Next]_vars PROVE WalksStayOnList'
  OBVIOUS
<1>. USE Names
<1>0. /\ pc \in [Threads -> {"idle", "lock", "walk", "unlock", "respond",
                             "unlock found", "unlock missed", "open", "read"}]
      /\ ptr \in [Threads -> Pointers]
      /\ LabelsOK /\ WalksStayOnList
      /\ \A s, t \in Threads : pc[s] = "walk" /\ pc[t] = "walk" => s = t
  BY DEF IInv, TypeOK, OneInside, Critical
<1>1. ASSUME NEW t \in Tokens, NEW n \in Nodes, Allocate(t, n)
      PROVE  WalksStayOnList'
  BY <1>0, <1>1 DEF Allocate, Go, WalksStayOnList, IsLinked
<1>2. CASE RegisterLock
  <2>1. /\ queue' = queue
        /\ ptr' = [ptr EXCEPT ![Main] = UTStack]
        /\ pc' = [pc EXCEPT ![Main] = "walk"]
    BY <1>2 DEF RegisterLock, Go, list
  <2>. QED
    BY <1>0, <2>1, LinksStayOnList DEF WalksStayOnList, IsLinked
<1>3. CASE RegisterWalk
  <2>1. /\ queue' = queue /\ pc' = pc
        /\ ptr[Main] \in Nodes /\ pc[Main] = "walk" /\ ptr[Main] # NULL
        /\ node[ptr[Main]].after # NULL
        /\ ptr' = [ptr EXCEPT ![Main] = node[ptr[Main]].after]
    BY <1>0, <1>3 DEF RegisterWalk, list, Pointers
  <2>2. IsLinked(node[ptr[Main]].after)
    BY <1>0, <2>1, LinksStayOnList DEF WalksStayOnList
  <2>. QED
    BY <1>0, <2>1, <2>2 DEF WalksStayOnList, IsLinked
<1>4. CASE RegisterLink
  BY <1>0, <1>4 DEF RegisterLink, Go, WalksStayOnList
<1>5. CASE RegisterUnlock
  BY <1>0, <1>5 DEF RegisterUnlock, Forget, Go, list, WalksStayOnList, IsLinked
<1>6. CASE UploadFile
  BY <1>0, <1>6 DEF UploadFile, Go, list, WalksStayOnList, IsLinked
<1>7. ASSUME NEW w \in Workers, NEW t \in Tokens \cup {NULL}, Put(w, t)
      PROVE  WalksStayOnList'
  BY <1>0, <1>7 DEF Put, Go, list, WalksStayOnList, IsLinked
<1>8. ASSUME NEW w \in Workers, ConsumeLock(w) PROVE WalksStayOnList'
  <2>1. /\ queue' = queue
        /\ ptr' = [ptr EXCEPT ![w] = UTStack]
        /\ pc' = [pc EXCEPT ![w] = "walk"]
    BY <1>8 DEF ConsumeLock, Go, list
  <2>. QED
    BY <1>0, <2>1, LinksStayOnList DEF WalksStayOnList, IsLinked
<1>9. ASSUME NEW w \in Workers, ConsumeWalk(w) PROVE WalksStayOnList'
  <2>1. /\ queue' = queue /\ pc' = pc
        /\ ptr[w] \in Nodes /\ pc[w] = "walk" /\ ptr[w] # NULL
        /\ ptr' = [ptr EXCEPT ![w] = node[ptr[w]].after]
    BY <1>0, <1>9 DEF ConsumeWalk, list, Pointers
  <2>2. node[ptr[w]].after # NULL => IsLinked(node[ptr[w]].after)
    BY <1>0, <2>1, LinksStayOnList DEF WalksStayOnList
  <2>. QED
    BY <1>0, <2>1, <2>2 DEF WalksStayOnList, IsLinked
<1>10. ASSUME NEW w \in Workers, ConsumeFound(w) PROVE WalksStayOnList'
  BY <1>0, <1>10 DEF ConsumeFound, Go, WalksStayOnList
<1>11. ASSUME NEW w \in Workers, ConsumeMissed(w) PROVE WalksStayOnList'
  BY <1>0, <1>11 DEF ConsumeMissed, Go, list, WalksStayOnList, IsLinked
<1>12. ASSUME NEW w \in Workers, ConsumeUnlock(w) PROVE WalksStayOnList'
  BY <1>0, <1>12 DEF ConsumeUnlock, Forget, Go, list, WalksStayOnList, IsLinked
<1>13. ASSUME NEW w \in Workers, Open(w) PROVE WalksStayOnList'
  BY <1>0, <1>13 DEF Open, Answer, Go, list, WalksStayOnList, IsLinked
<1>14. ASSUME NEW w \in Workers, ReadChunk(w) PROVE WalksStayOnList'
  BY <1>0, <1>14 DEF ReadChunk, Answer, Go, list, WalksStayOnList, IsLinked
<1>15. ASSUME NEW w \in Workers, ReadEnd(w) PROVE WalksStayOnList'
  BY <1>0, <1>15 DEF ReadEnd, Answer, Go, list, WalksStayOnList, IsLinked
<1>16. CASE Crash
  BY <1>16 DEF Crash, WalksStayOnList
<1>17. CASE UNCHANGED vars
  BY <1>0, <1>17 DEF vars, WalksStayOnList, IsLinked
<1>. QED
  BY <1>1, <1>2, <1>3, <1>4, <1>5, <1>6, <1>7, <1>8, <1>9, <1>10, <1>11, <1>12,
     <1>13, <1>14, <1>15, <1>16, <1>17 DEF Next, Register, Consume, Write

\* Which nodes are in the list after each operation, and what tokens they have.
LEMMA LinkAddsNode ==
    ASSUME IInv, RegisterLink
    PROVE  /\ \A n \in Nodes : IsLinked(n)' <=> IsLinked(n) \/ n = new
           /\ \A n \in Nodes : node'[n].tok = node[n].tok
<1>1. DOMAIN queue = 1 .. Len(queue) /\ DOMAIN queue' = 1 .. Len(queue) + 1
  BY LinkFacts, LenProperties DEF IInv, TypeOK
<1>2. ASSUME NEW n \in Nodes PROVE IsLinked(n)' <=> IsLinked(n) \/ n = new
  <2>1. IsLinked(n) => IsLinked(n)'
    BY <1>1, LinkFacts DEF IsLinked
  <2>2. n = new => IsLinked(n)'
    <3>1. Len(queue) + 1 \in DOMAIN queue' /\ queue'[Len(queue) + 1] = new
      BY <1>1, LinkFacts
    <3>. QED
      BY <3>1 DEF IsLinked
  <2>3. IsLinked(n)' => IsLinked(n) \/ n = new
    <3> SUFFICES ASSUME NEW i \in 1 .. Len(queue) + 1, queue'[i] = n
                 PROVE  IsLinked(n) \/ n = new
      BY <1>1 DEF IsLinked
    <3>1. i \in 1 .. Len(queue) \/ i = Len(queue) + 1
      BY LinkFacts
    <3>. QED
      BY <1>1, <3>1, LinkFacts DEF IsLinked
  <2>. QED
    BY <2>1, <2>2, <2>3
<1>3. ASSUME NEW n \in Nodes PROVE node'[n].tok = node[n].tok
  <2>1. node \in [Nodes -> [tok : Tokens \cup {NULL},
                            before : Pointers, after : Pointers]]
    BY DEF IInv, TypeOK
  <2>2. \/ node' = node
        \/ node' = [node EXCEPT ![ptr[Main]].after = new,
                                ![new].before = ptr[Main]]
    BY DEF RegisterLink, LinkBehind
  <2>. QED
    BY <2>1, <2>2
<1>. QED
  BY <1>2, <1>3

LEMMA RemoveTakesNode ==
    ASSUME IInv, NEW w \in Workers, ConsumeFound(w)
    PROVE  /\ \A n \in Nodes : IsLinked(n)' <=> IsLinked(n) /\ n # ptr[w]
           /\ \A n \in Nodes \ {ptr[w]} : node'[n].tok = node[n].tok
           /\ IsLinked(ptr[w])
<1> DEFINE p    == Place(ptr[w])
           last == Len(queue)
<1>1. /\ last \in Nat /\ p \in 1 .. last /\ queue[p] = ptr[w]
      /\ DOMAIN queue = 1 .. last /\ DOMAIN queue' = 1 .. last - 1
      /\ \A i \in 1 .. last - 1 :
             queue'[i] = IF i < p THEN queue[i] ELSE queue[i + 1]
  BY RemoveFacts, LenProperties DEF IInv, TypeOK
<1>2. \A i, j \in 1 .. last : queue[i] = queue[j] => i = j
  BY <1>1 DEF IInv, NodesAreLinkedOnce
<1>3. IsLinked(ptr[w])
  BY <1>1 DEF IsLinked
<1>. HIDE DEF p, last
<1>4. ASSUME NEW n \in Nodes, IsLinked(n)' PROVE IsLinked(n) /\ n # ptr[w]
  <2>1. PICK i \in 1 .. last - 1 : queue'[i] = n
    BY <1>1, <1>4 DEF IsLinked
  <2>. DEFINE k == IF i < p THEN i ELSE i + 1
  <2>2. k \in 1 .. last /\ k # p /\ queue[k] = n
    BY <1>1, <2>1
  <2>. QED
    BY <1>1, <1>2, <2>2 DEF IsLinked
<1>5. ASSUME NEW n \in Nodes, IsLinked(n), n # ptr[w] PROVE IsLinked(n)'
  <2>1. PICK k \in 1 .. last : queue[k] = n
    BY <1>1, <1>5 DEF IsLinked
  <2>. DEFINE i == IF k < p THEN k ELSE k - 1
  <2>2. k # p
    BY <1>1, <1>5, <2>1
  <2>3. i \in 1 .. last - 1 /\ (IF i < p THEN i ELSE i + 1) = k
    BY <1>1, <2>1, <2>2
  <2>4. queue'[i] = n
    BY <1>1, <2>1, <2>3
  <2>. QED
    BY <1>1, <2>3, <2>4 DEF IsLinked
<1>6. ASSUME NEW n \in Nodes \ {ptr[w]} PROVE node'[n].tok = node[n].tok
  <2>1. node \in [Nodes -> [tok : Tokens \cup {NULL},
                            before : Pointers, after : Pointers]]
    BY DEF IInv, TypeOK
  <2>. QED
    BY <2>1 DEF ConsumeFound, RemoveNode, Free, Unlink
<1>. QED
  BY <1>3, <1>4, <1>5, <1>6

-----------------------------------------------------------------------------
(* The tokens.                                                             *)

LEMMA NextNewNode == IInv /\ [Next]_vars => NewNodeIsKept'
<1> SUFFICES ASSUME IInv, [Next]_vars PROVE NewNodeIsKept'
  OBVIOUS
<1>. USE Names
<1>0. /\ pc \in [Threads -> {"idle", "lock", "walk", "unlock", "respond",
                             "unlock found", "unlock missed", "open", "read"}]
      /\ arg \in [Threads -> Tokens \cup {NULL}]
      /\ node \in [Nodes -> [tok : Tokens \cup {NULL},
                             before : Pointers, after : Pointers]]
      /\ allocated \subseteq Nodes /\ known \subseteq generated
      /\ LabelsOK /\ NewNodeIsKept
      /\ \A w \in Workers : arg[w] \in known \cup {NULL}
  BY DEF IInv, TypeOK, TokensAreListedOnce
<1>1. ASSUME NEW t \in Tokens, NEW n \in Nodes, Allocate(t, n)
      PROVE  NewNodeIsKept'
  <2>1. /\ pc'[Main] = "lock" /\ arg'[Main] = t /\ new' = n /\ t \notin generated
        /\ n \notin allocated /\ allocated' = allocated \cup {n}
        /\ known' = known /\ generated' = generated \cup {t}
        /\ node' = [node EXCEPT ![n] = [Blank EXCEPT !.tok = t]]
        /\ granted' = granted /\ queue' = queue
    BY <1>0, <1>1 DEF Allocate, Go
  <2>2. node'[n] = [tok |-> t, before |-> NULL, after |-> NULL]
        /\ \A m \in Nodes : m # n => node'[m] = node[m]
    <3>1. \A m \in Nodes : m # n => node'[m] = node[m]
      BY <1>0, <2>1
    <3>2. node'[n] = [tok |-> t, before |-> NULL, after |-> NULL]
      BY <1>1, AllocateFacts
    <3>. QED
      BY <3>1, <3>2
  <2>3. \A m \in Nodes : IsLinked(m) => m # n /\ node[m].tok # t
    <3>1. ASSUME NEW m \in Nodes, IsLinked(m)
          PROVE  m \in allocated /\ node[m].tok \in generated
      <4>1. ListIsSound /\ TokensAreListedOnce
        BY DEF IInv
      <4>2. node[m].tok \in generated
        BY <3>1, <4>1 DEF TokensAreListedOnce
      <4>3. m \in allocated
        <5>1. queue \in Seq(Nodes)
          BY DEF IInv, TypeOK
        <5>2. DOMAIN queue = 1 .. Len(queue)
          BY <5>1, LenProperties
        <5>. QED
          BY <3>1, <4>1, <5>2 DEF IsLinked, ListIsSound
      <4>. QED
        BY <4>2, <4>3
    <3>. QED
      BY <2>1, <3>1
  <2>4. ~IsLinked(n)' /\ \A m \in Nodes : IsLinked(m)' <=> IsLinked(m)
    BY <2>1, <2>3 DEF IsLinked
  <2>5. granted[t] = 0
    BY <2>1 DEF IInv, TokensAreListedOnce
  <2>6. /\ new' \in allocated' /\ node'[new'].tok = arg'[Main]
        /\ arg'[Main] \in generated' \ known'
    <3>1. t \in generated' /\ t \notin known'
      BY <1>0, <2>1
    <3>2. n \in allocated' /\ node'[n].tok = t
      BY <2>1, <2>2
    <3>. QED
      BY <2>1, <3>1, <3>2
  <2>7. /\ node'[new'].before = NULL /\ node'[new'].after = NULL
        /\ granted'[arg'[Main]] = 0
    BY <2>1, <2>2, <2>5
  <2>8. ~IsLinked(new)' /\ \A m \in Nodes : IsLinked(m)' => node'[m].tok # arg'[Main]
    BY <2>1, <2>2, <2>3, <2>4 DEF IsLinked
  <2>. QED
    BY <2>6, <2>7, <2>8 DEF NewNodeIsKept
<1>2. CASE RegisterLock
  BY <1>0, <1>2 DEF RegisterLock, Go, list, tokens, NewNodeIsKept, IsLinked
<1>3. CASE RegisterWalk
  BY <1>0, <1>3 DEF RegisterWalk, list, tokens, NewNodeIsKept, IsLinked
<1>4. CASE RegisterLink
  <2>1. /\ pc'[Main] = "unlock"
        /\ UNCHANGED <<allocated, arg, new, known, generated>>
        /\ pc[Main] = "walk"
    BY <1>0, <1>4 DEF RegisterLink, Go, tokens
  <2>2. node'[new].tok = node[new].tok
    BY <1>4, LinkAddsNode, LinkFacts
  <2>. QED
    BY <1>0, <2>1, <2>2 DEF NewNodeIsKept
<1>5. CASE RegisterUnlock
  BY <1>0, <1>5 DEF RegisterUnlock, Forget, Go, list, tokens, NewNodeIsKept,
                    IsLinked
<1>6. CASE UploadFile
  BY <1>0, <1>6 DEF UploadFile, Go, NewNodeIsKept
<1>7. ASSUME NEW w \in Workers, NEW t \in Tokens \cup {NULL}, Put(w, t)
      PROVE  NewNodeIsKept'
  BY <1>0, <1>7 DEF Put, Go, list, tokens, NewNodeIsKept, IsLinked
<1>8. ASSUME NEW w \in Workers, ConsumeLock(w) PROVE NewNodeIsKept'
  BY <1>0, <1>8 DEF ConsumeLock, Go, list, tokens, NewNodeIsKept, IsLinked
<1>9. ASSUME NEW w \in Workers, ConsumeWalk(w) PROVE NewNodeIsKept'
  BY <1>0, <1>9 DEF ConsumeWalk, list, tokens, NewNodeIsKept, IsLinked
<1>10. ASSUME NEW w \in Workers, ConsumeFound(w) PROVE NewNodeIsKept'
  <2>1. /\ pc'[Main] = pc[Main] /\ UNCHANGED <<arg, new, known, generated>>
        /\ allocated' = allocated \ {ptr[w]} /\ node[ptr[w]].tok = arg[w]
        /\ granted' = [granted EXCEPT ![arg[w]] = @ + 1]
        /\ pc[w] = "walk"
    BY <1>0, <1>10 DEF ConsumeFound, RemoveNode, Go, tokens
  <2>2. arg[w] \in known
    <3>1. arg[w] \in Tokens
      BY <1>10, RemoveFacts
    <3>. QED
      BY <1>0, <3>1
  <2>3. CASE pc[Main] # "idle"
    <3>1. new # ptr[w] /\ new \in Nodes /\ arg[w] # arg[Main]
      BY <1>0, <2>1, <2>2, <2>3 DEF NewNodeIsKept
    <3>2. node'[new].tok = node[new].tok
      BY <1>10, <3>1, RemoveTakesNode
    <3>3. pc[Main] # "walk"
      BY <2>1 DEF IInv, OneInside, Critical
    <3>4. ASSUME pc[Main] = "lock"
          PROVE  /\ ~IsLinked(new)'
                 /\ node'[new].before = NULL /\ node'[new].after = NULL
                 /\ granted'[arg[Main]] = 0
                 /\ \A n \in Nodes : IsLinked(n)' => node'[n].tok # arg[Main]
      <4>0. new' = new
        BY <2>1
      <4>1. ~IsLinked(new) /\ node[new].before = NULL /\ node[new].after = NULL
            /\ granted[arg[Main]] = 0
            /\ \A n \in Nodes : IsLinked(n) => node[n].tok # arg[Main]
        BY <1>0, <3>4 DEF NewNodeIsKept
      <4>2. ~IsLinked(new)'
        BY <1>10, <3>1, <4>0, <4>1, RemoveTakesNode DEF IsLinked
      <4>3. node'[new].before = NULL /\ node'[new].after = NULL
        <5>1. /\ node[ptr[w]].before # new
              /\ node[ptr[w]].after # new
          <6>1. ptr[w] \in Nodes /\ IsLinked(ptr[w])
            BY <1>10, RemoveFacts, RemoveTakesNode
          <6>. QED
            BY <3>1, <4>1, <6>1, NeighboursAreLinked
        <5>. QED
          BY <1>0, <1>10, <3>1, <4>1, <5>1
             DEF ConsumeFound, RemoveNode, Free, Unlink
      <4>4. granted'[arg[Main]] = 0
        <5>1. granted \in [Tokens -> Nat] /\ arg[Main] \in Tokens
          BY <1>0, <2>3 DEF IInv, TypeOK, NewNodeIsKept
        <5>. QED
          BY <2>1, <3>1, <4>1, <5>1
      <4>5. \A n \in Nodes : IsLinked(n)' => node'[n].tok # arg[Main]
        BY <1>10, <4>1, RemoveTakesNode
      <4>. QED
        BY <4>2, <4>3, <4>4, <4>5
    <3>. QED
      BY <1>0, <2>1, <2>3, <3>1, <3>2, <3>3, <3>4 DEF NewNodeIsKept
  <2>4. CASE pc[Main] = "idle"
    BY <2>1, <2>4 DEF NewNodeIsKept
  <2>. QED
    BY <2>3, <2>4
<1>11. ASSUME NEW w \in Workers, ConsumeMissed(w) PROVE NewNodeIsKept'
  BY <1>0, <1>11 DEF ConsumeMissed, Go, list, tokens, NewNodeIsKept, IsLinked
<1>12. ASSUME NEW w \in Workers, ConsumeUnlock(w) PROVE NewNodeIsKept'
  BY <1>0, <1>12 DEF ConsumeUnlock, Go, list, tokens, NewNodeIsKept, IsLinked
<1>13. ASSUME NEW w \in Workers, Open(w) PROVE NewNodeIsKept'
  BY <1>0, <1>13 DEF Open, Answer, Go, list, tokens, NewNodeIsKept, IsLinked
<1>14. ASSUME NEW w \in Workers, ReadChunk(w) PROVE NewNodeIsKept'
  BY <1>0, <1>14 DEF ReadChunk, Answer, Go, list, tokens, NewNodeIsKept, IsLinked
<1>15. ASSUME NEW w \in Workers, ReadEnd(w) PROVE NewNodeIsKept'
  BY <1>0, <1>15 DEF ReadEnd, Answer, Go, list, tokens, NewNodeIsKept, IsLinked
<1>16. CASE Crash
  BY <1>16 DEF Crash, NewNodeIsKept
<1>17. CASE UNCHANGED vars
  BY <1>0, <1>17 DEF vars, NewNodeIsKept, IsLinked
<1>. QED
  BY <1>1, <1>2, <1>3, <1>4, <1>5, <1>6, <1>7, <1>8, <1>9, <1>10, <1>11, <1>12,
     <1>13, <1>14, <1>15, <1>16, <1>17 DEF Next, Register, Consume, Write

LEMMA NextTokens == IInv /\ [Next]_vars => TokensAreListedOnce'
<1> SUFFICES ASSUME IInv, [Next]_vars PROVE TokensAreListedOnce'
  OBVIOUS
<1>. USE Names
<1>0. /\ arg \in [Threads -> Tokens \cup {NULL}]
      /\ granted \in [Tokens -> Nat]
      /\ generated \subseteq Tokens /\ known \subseteq generated
      /\ TokensAreListedOnce
  BY DEF IInv, TypeOK
<1>1. ASSUME NEW t \in Tokens, NEW n \in Nodes, Allocate(t, n)
      PROVE  TokensAreListedOnce'
  <2>1. /\ queue' = queue /\ granted' = granted /\ known' = known
        /\ generated' = generated \cup {t}
        /\ \A w \in Workers : arg'[w] = arg[w]
    BY <1>0, <1>1 DEF Allocate
  <2>2. \A m \in Nodes : IsLinked(m) => node'[m] = node[m]
    BY <1>1, AllocateFacts DEF IsLinked
  <2>3. \A m \in Nodes : IsLinked(m)' <=> IsLinked(m)
    BY <2>1 DEF IsLinked
  <2>. QED
    BY <1>0, <2>1, <2>2, <2>3 DEF TokensAreListedOnce
<1>2. CASE RegisterLink
  <2>1. UNCHANGED <<granted, known, generated, arg>>
    BY <1>2 DEF RegisterLink, tokens
  <2>2. /\ new \in Nodes /\ node[new].tok = arg[Main]
        /\ arg[Main] \in generated /\ granted[arg[Main]] = 0
        /\ \A n \in Nodes : IsLinked(n) => node[n].tok # arg[Main]
    BY <1>2, LinkFacts DEF IInv, NewNodeIsKept, RegisterLink
  <2>3. /\ \A n \in Nodes : IsLinked(n)' <=> IsLinked(n) \/ n = new
        /\ \A n \in Nodes : node'[n].tok = node[n].tok
    BY <1>2, LinkAddsNode
  <2>. QED
    BY <1>0, <2>1, <2>2, <2>3 DEF TokensAreListedOnce
<1>3. ASSUME NEW w \in Workers, ConsumeFound(w) PROVE TokensAreListedOnce'
  <2>1. /\ UNCHANGED <<known, generated, arg>>
        /\ granted' = [granted EXCEPT ![arg[w]] = @ + 1]
        /\ node[ptr[w]].tok = arg[w]
    BY <1>3 DEF ConsumeFound, tokens
  <2>2. ptr[w] \in Nodes /\ arg[w] \in Tokens
    BY <1>3, RemoveFacts
  <2>3. /\ \A n \in Nodes : IsLinked(n)' <=> IsLinked(n) /\ n # ptr[w]
        /\ \A n \in Nodes \ {ptr[w]} : node'[n].tok = node[n].tok
        /\ IsLinked(ptr[w])
    BY <1>3, RemoveTakesNode
  <2>4. arg[w] \in generated
    BY <1>0, <2>1, <2>2, <2>3 DEF TokensAreListedOnce
  <2>5. \A t \in Tokens \ {arg[w]} : granted'[t] = granted[t]
    BY <1>0, <2>1
  <2>6. \A n \in Nodes : IsLinked(n)' => /\ node'[n].tok \in generated
                                         /\ granted'[node'[n].tok] = 0
    <3> SUFFICES ASSUME NEW n \in Nodes, IsLinked(n)'
                 PROVE  node'[n].tok \in generated /\ granted'[node'[n].tok] = 0
      OBVIOUS
    <3>1. IsLinked(n) /\ n # ptr[w] /\ node'[n].tok = node[n].tok
      BY <2>3
    <3>2. /\ node[n].tok # arg[w] /\ node[n].tok \in generated
          /\ granted[node[n].tok] = 0
      BY <1>0, <2>1, <2>2, <2>3, <3>1 DEF TokensAreListedOnce
    <3>. QED
      BY <1>0, <2>5, <3>1, <3>2
  <2>7. \A m, n \in Nodes :
            IsLinked(m)' /\ IsLinked(n)' /\ node'[m].tok = node'[n].tok => m = n
    BY <1>0, <2>3 DEF TokensAreListedOnce
  <2>8. \A t \in Tokens \ generated : granted'[t] = 0
    BY <1>0, <2>4, <2>5 DEF TokensAreListedOnce
  <2>. QED
    BY <1>0, <2>1, <2>6, <2>7, <2>8 DEF TokensAreListedOnce
<1>4. CASE Crash
  BY <1>0, <1>4 DEF Crash, tokens, TokensAreListedOnce, IsLinked
<1>5. ASSUME UNCHANGED <<list, granted, generated>>, known \subseteq known',
             \A w \in Workers : arg'[w] \in known' \cup {NULL}
      PROVE  TokensAreListedOnce'
  BY <1>0, <1>5 DEF TokensAreListedOnce, list, IsLinked
<1>6. CASE RegisterLock \/ RegisterWalk \/ RegisterUnlock \/ UploadFile
  <2>1. UNCHANGED <<list, granted, generated>> /\ known \subseteq known'
    BY <1>6 DEF RegisterLock, RegisterWalk, RegisterUnlock, UploadFile, tokens
  <2>2. \A w \in Workers : arg'[w] = arg[w]
    BY <1>0, <1>6 DEF RegisterLock, RegisterWalk, RegisterUnlock, UploadFile
  <2>. QED
    BY <1>0, <1>5, <2>1, <2>2 DEF TokensAreListedOnce
<1>7. ASSUME NEW w \in Workers,
             \/ \E t \in Tokens \cup {NULL} : Put(w, t)
             \/ ConsumeLock(w) \/ ConsumeWalk(w) \/ ConsumeMissed(w)
             \/ ConsumeUnlock(w) \/ Open(w) \/ ReadChunk(w) \/ ReadEnd(w)
      PROVE  TokensAreListedOnce'
  <2>1. UNCHANGED <<list, granted, generated, known>>
    BY <1>7 DEF Put, ConsumeLock, ConsumeWalk, ConsumeMissed, ConsumeUnlock, Open,
                ReadChunk, ReadEnd, tokens
  <2>2. \/ arg' = arg
        \/ \E t \in known \cup {NULL} : arg' = [arg EXCEPT ![w] = t]
    BY <1>7 DEF Put, ConsumeLock, ConsumeWalk, ConsumeMissed, ConsumeUnlock, Open,
                ReadChunk, ReadEnd, Answer
  <2>3. \A v \in Workers : arg'[v] \in known \cup {NULL}
    BY <1>0, <2>2 DEF TokensAreListedOnce
  <2>. QED
    BY <1>5, <2>1, <2>3
<1>8. CASE UNCHANGED vars
  BY <1>0, <1>5, <1>8 DEF vars, list, TokensAreListedOnce
<1>. QED
  BY <1>1, <1>2, <1>3, <1>4, <1>6, <1>7, <1>8
     DEF Next, Register, Consume, Write

-----------------------------------------------------------------------------
(* The uploads.                                                            *)

Uploading == UploadsAreGranted /\ FilesMatchAnswers

\* A step that leaves the files, the answers and the grants alone, and the
\* workers that were given one with their token.
LEMMA UploadsRest ==
    ASSUME Uploading, UNCHANGED <<files, answers, granted>>,
           \A w \in Workers : /\ Holding(w)' <=> Holding(w)
                              /\ pc'[w] = "read" <=> pc[w] = "read"
                              /\ Holding(w) => arg'[w] = arg[w]
    PROVE  Uploading'
<1>1. UploadsAreGranted'
  BY DEF Uploading, UploadsAreGranted
<1>2. FilesMatchAnswers'
  <2> SUFFICES ASSUME NEW t \in Tokens
               PROVE  /\ files[t] = "kept" <=> answers[t] = "201"
                      /\ files[t] = "partial" =>
                             \/ answers[t] = "lost"
                             \/ \E w \in Workers : pc'[w] = "read" /\ arg'[w] = t
    BY DEF FilesMatchAnswers
  <2>1. files[t] = "kept" <=> answers[t] = "201"
    BY DEF Uploading, FilesMatchAnswers
  <2>2. ASSUME files[t] = "partial", answers[t] # "lost"
        PROVE  \E w \in Workers : pc'[w] = "read" /\ arg'[w] = t
    <3>1. PICK w \in Workers : pc[w] = "read" /\ arg[w] = t
      BY <2>2 DEF Uploading, FilesMatchAnswers
    <3>. QED
      BY <3>1 DEF Holding
  <2>. QED
    BY <2>1, <2>2
<1>. QED
  BY <1>1, <1>2 DEF Uploading

\* An upload that ends with answer code, its file removed or kept to match.
LEMMA AnswerEndsUpload ==
    ASSUME IInv, NEW w \in Workers, Holding(w), pc[w] # "unlock found",
           NEW code \in {"201", "error"}, Answer(w, code),
           files' = [files EXCEPT ![arg[w]] = IF code = "201" THEN "kept"
                                                              ELSE "none"],
           UNCHANGED granted
    PROVE  Uploading'
<1>0. /\ pc \in [Threads -> {"idle", "lock", "walk", "unlock", "respond",
                             "unlock found", "unlock missed", "open", "read"}]
      /\ arg \in [Threads -> Tokens \cup {NULL}]
      /\ files \in [Tokens -> {"none", "partial", "kept"}]
      /\ answers \in [Tokens -> {"none", "201", "error", "lost"}]
      /\ UploadsAreGranted /\ FilesMatchAnswers
  BY DEF IInv, TypeOK
<1>1. /\ arg[w] \in Tokens /\ granted[arg[w]] # 0 /\ answers[arg[w]] = "none"
      /\ \A v \in Workers \ {w} : Holding(v) => arg[v] # arg[w]
  BY <1>0 DEF UploadsAreGranted
<1>2. /\ \A t \in Tokens \ {arg[w]} : files'[t] = files[t] /\ answers'[t] = answers[t]
      /\ answers'[arg[w]] = code
      /\ files'[arg[w]] = IF code = "201" THEN "kept" ELSE "none"
  BY <1>0, <1>1 DEF Answer
<1>3. /\ \A v \in Workers \ {w} : pc'[v] = pc[v] /\ arg'[v] = arg[v]
      /\ pc'[w] = "idle"
  BY <1>0, Names DEF Answer, Go
<1>4. /\ \A v \in Workers \ {w} : Holding(v)' <=> Holding(v)
      /\ ~Holding(w)'
  BY <1>3 DEF Holding
<1>5. UploadsAreGranted'
  <2>1. \A t \in Tokens : granted'[t] = 0 => files'[t] = "none" /\ answers'[t] = "none"
    <3> SUFFICES ASSUME NEW t \in Tokens, granted[t] = 0
                 PROVE  files'[t] = "none" /\ answers'[t] = "none"
      OBVIOUS
    <3>1. t # arg[w] /\ files[t] = "none" /\ answers[t] = "none"
      BY <1>0, <1>1 DEF UploadsAreGranted
    <3>. QED
      BY <1>2, <3>1
  <2>2. \A v \in Workers : Holding(v)' =>
            /\ arg'[v] \in Tokens
            /\ granted'[arg'[v]] # 0
            /\ answers'[arg'[v]] = "none"
            /\ files'[arg'[v]] = IF pc'[v] = "read" THEN "partial" ELSE "none"
    <3> SUFFICES ASSUME NEW v \in Workers, Holding(v)'
                 PROVE  /\ arg'[v] \in Tokens
                        /\ granted'[arg'[v]] # 0
                        /\ answers'[arg'[v]] = "none"
                        /\ files'[arg'[v]] =
                               IF pc'[v] = "read" THEN "partial" ELSE "none"
      OBVIOUS
    <3>1. v # w /\ Holding(v) /\ pc'[v] = pc[v] /\ arg'[v] = arg[v]
      BY <1>3, <1>4
    <3>2. /\ arg[v] \in Tokens \ {arg[w]} /\ granted[arg[v]] # 0
          /\ answers[arg[v]] = "none"
          /\ files[arg[v]] = IF pc[v] = "read" THEN "partial" ELSE "none"
      BY <1>0, <1>1, <3>1 DEF UploadsAreGranted
    <3>. QED
      BY <1>2, <3>1, <3>2
  <2>3. \A u, v \in Workers : Holding(u)' /\ Holding(v)' /\ arg'[u] = arg'[v] => u = v
    BY <1>0, <1>3, <1>4 DEF UploadsAreGranted
  <2>. QED
    BY <2>1, <2>2, <2>3 DEF UploadsAreGranted
<1>6. FilesMatchAnswers'
  <2> SUFFICES ASSUME NEW t \in Tokens
               PROVE  /\ files'[t] = "kept" <=> answers'[t] = "201"
                      /\ files'[t] = "partial" =>
                             \/ answers'[t] = "lost"
                             \/ \E v \in Workers : pc'[v] = "read" /\ arg'[v] = t
    BY DEF FilesMatchAnswers
  <2>1. CASE t = arg[w]
    <3>1. answers'[t] = code /\ files'[t] = IF code = "201" THEN "kept" ELSE "none"
      BY <1>2, <2>1
    <3>2. \/ answers'[t] = "201" /\ files'[t] = "kept"
          \/ answers'[t] = "error" /\ files'[t] = "none"
      BY <3>1
    <3>. QED
      BY <3>2
  <2>2. CASE t # arg[w]
    <3>1. files'[t] = files[t] /\ answers'[t] = answers[t]
      BY <1>2, <2>2
    <3>2. files[t] = "kept" <=> answers[t] = "201"
      BY <1>0 DEF FilesMatchAnswers
    <3>3. ASSUME files[t] = "partial", answers[t] # "lost"
          PROVE  \E v \in Workers : pc'[v] = "read" /\ arg'[v] = t
      <4>1. PICK v \in Workers : pc[v] = "read" /\ arg[v] = t
        BY <1>0, <3>3 DEF FilesMatchAnswers
      <4>. QED
        BY <1>3, <2>2, <4>1
    <3>. QED
      BY <3>1, <3>2, <3>3
  <2>. QED
    BY <2>1, <2>2
<1>. QED
  BY <1>5, <1>6 DEF Uploading

\* A token that grants an upload has granted none before.
LEMMA FoundStartsUpload ==
    ASSUME IInv, NEW w \in Workers, ConsumeFound(w)
    PROVE  Uploading'
<1>0. /\ granted \in [Tokens -> Nat]
      /\ UploadsAreGranted /\ FilesMatchAnswers
      /\ arg[w] \in Tokens /\ granted[arg[w]] = 0
  BY RemoveFacts DEF IInv, TypeOK
<1>1. /\ \A v \in Workers \ {w} : pc'[v] = pc[v]
      /\ pc'[w] = "unlock found" /\ pc[w] = "walk"
      /\ UNCHANGED <<arg, files, answers>>
      /\ \A t \in Tokens \ {arg[w]} : granted'[t] = granted[t]
      /\ granted'[arg[w]] # 0
  <2>1. /\ \A v \in Workers \ {w} : pc'[v] = pc[v]
        /\ pc'[w] = "unlock found" /\ pc[w] = "walk"
    BY Names DEF IInv, TypeOK, ConsumeFound, Go
  <2>2. UNCHANGED <<arg, files, answers>>
        /\ granted' = [granted EXCEPT ![arg[w]] = granted[arg[w]] + 1]
    BY DEF ConsumeFound, uploads
  <2>3. granted[arg[w]] + 1 # 0
    BY <1>0
  <2>4. /\ \A t \in Tokens \ {arg[w]} : granted'[t] = granted[t]
        /\ granted'[arg[w]] # 0
    BY <1>0, <2>2, <2>3
  <2>. QED
    BY <2>1, <2>2, <2>4
<1>2. /\ \A v \in Workers \ {w} : Holding(v)' <=> Holding(v)
      /\ Holding(w)' /\ ~Holding(w)
      /\ \A v \in Workers : Holding(v) => arg[v] # arg[w]
  BY <1>0, <1>1 DEF Holding, UploadsAreGranted
<1>3. files[arg[w]] = "none" /\ answers[arg[w]] = "none"
  BY <1>0 DEF UploadsAreGranted
<1>4. UploadsAreGranted'
  <2>1. \A t \in Tokens : granted'[t] = 0 => files'[t] = "none" /\ answers'[t] = "none"
    BY <1>0, <1>1 DEF UploadsAreGranted
  <2>2. \A v \in Workers : Holding(v)' =>
            /\ arg'[v] \in Tokens
            /\ granted'[arg'[v]] # 0
            /\ answers'[arg'[v]] = "none"
            /\ files'[arg'[v]] = IF pc'[v] = "read" THEN "partial" ELSE "none"
    <3> SUFFICES ASSUME NEW v \in Workers, Holding(v)'
                 PROVE  /\ arg[v] \in Tokens
                        /\ granted'[arg[v]] # 0
                        /\ answers[arg[v]] = "none"
                        /\ files[arg[v]] =
                               IF pc'[v] = "read" THEN "partial" ELSE "none"
      BY <1>1
    <3>1. CASE v = w
      <4>1. granted'[arg[v]] # 0 /\ pc'[v] # "read"
        BY <1>1, <3>1
      <4>. QED
        BY <1>0, <1>3, <3>1, <4>1
    <3>2. CASE v # w
      <4>1. Holding(v) /\ pc'[v] = pc[v] /\ arg[v] # arg[w]
        BY <1>1, <1>2, <3>2
      <4>2. /\ arg[v] \in Tokens /\ granted[arg[v]] # 0
            /\ answers[arg[v]] = "none"
            /\ files[arg[v]] = IF pc[v] = "read" THEN "partial" ELSE "none"
        BY <1>0, <4>1 DEF UploadsAreGranted
      <4>. QED
        BY <1>1, <4>1, <4>2
    <3>. QED
      BY <3>1, <3>2
  <2>3. \A u, v \in Workers : Holding(u)' /\ Holding(v)' /\ arg'[u] = arg'[v] => u = v
    BY <1>0, <1>1, <1>2 DEF UploadsAreGranted
  <2>. QED
    BY <2>1, <2>2, <2>3 DEF UploadsAreGranted
<1>5. FilesMatchAnswers'
  <2>1. \A v \in Workers : pc'[v] = "read" <=> pc[v] = "read"
    BY <1>1
  <2>. QED
    BY <1>0, <1>1, <2>1 DEF FilesMatchAnswers
<1>. QED
  BY <1>4, <1>5 DEF Uploading

LEMMA OpenStartsFile ==
    ASSUME IInv, NEW w \in Workers, pc[w] = "open",
           files' = [files EXCEPT ![arg[w]] = "partial"], Go(w, "read"),
           UNCHANGED <<arg, answers, granted>>
    PROVE  Uploading'
<1>0. /\ files \in [Tokens -> {"none", "partial", "kept"}]
      /\ UploadsAreGranted /\ FilesMatchAnswers /\ Holding(w)
  BY DEF IInv, TypeOK, Holding
<1>1. /\ arg[w] \in Tokens /\ answers[arg[w]] = "none"
      /\ \A v \in Workers \ {w} : Holding(v) => arg[v] # arg[w]
  BY <1>0 DEF UploadsAreGranted
<1>2. /\ \A v \in Workers \ {w} : pc'[v] = pc[v]
      /\ pc'[w] = "read"
      /\ \A t \in Tokens \ {arg[w]} : files'[t] = files[t]
      /\ files'[arg[w]] = "partial"
  BY <1>0, <1>1, Names DEF IInv, TypeOK, Go
<1>3. \A v \in Workers : Holding(v)' <=> Holding(v)
  BY <1>0, <1>2 DEF Holding
<1>4. UploadsAreGranted'
  <2>1. \A t \in Tokens : granted'[t] = 0 => files'[t] = "none" /\ answers'[t] = "none"
    BY <1>0, <1>2 DEF UploadsAreGranted
  <2>2. \A v \in Workers : Holding(v)' =>
            /\ arg'[v] \in Tokens
            /\ granted'[arg'[v]] # 0
            /\ answers'[arg'[v]] = "none"
            /\ files'[arg'[v]] = IF pc'[v] = "read" THEN "partial" ELSE "none"
    BY <1>0, <1>1, <1>2, <1>3 DEF UploadsAreGranted
  <2>3. \A u, v \in Workers : Holding(u)' /\ Holding(v)' /\ arg'[u] = arg'[v] => u = v
    BY <1>0, <1>3 DEF UploadsAreGranted
  <2>. QED
    BY <2>1, <2>2, <2>3 DEF UploadsAreGranted
<1>5. FilesMatchAnswers'
  <2> SUFFICES ASSUME NEW t \in Tokens
               PROVE  /\ files'[t] = "kept" <=> answers[t] = "201"
                      /\ files'[t] = "partial" =>
                             \/ answers[t] = "lost"
                             \/ \E v \in Workers : pc'[v] = "read" /\ arg[v] = t
    BY DEF FilesMatchAnswers
  <2>1. CASE t = arg[w]
    BY <1>1, <1>2, <2>1
  <2>2. CASE t # arg[w]
    <3>1. files'[t] = files[t]
      BY <1>2, <2>2
    <3>2. files[t] = "kept" <=> answers[t] = "201"
      BY <1>0 DEF FilesMatchAnswers
    <3>3. ASSUME files[t] = "partial", answers[t] # "lost"
          PROVE  \E v \in Workers : pc'[v] = "read" /\ arg[v] = t
      <4>1. PICK v \in Workers : pc[v] = "read" /\ arg[v] = t
        BY <1>0, <3>3 DEF FilesMatchAnswers
      <4>. QED
        BY <1>2, <2>2, <4>1
    <3>. QED
      BY <3>1, <3>2, <3>3
  <2>. QED
    BY <2>1, <2>2
<1>. QED
  BY <1>4, <1>5 DEF Uploading

LEMMA CrashLosesUploads ==
    ASSUME IInv, Crash
    PROVE  Uploading'
<1>0. UploadsAreGranted /\ FilesMatchAnswers
  BY DEF IInv
<1>1. /\ \A w \in Workers : pc'[w] = "idle"
      /\ files' = files /\ granted' = granted
      /\ \A t \in Tokens : answers'[t] = IF files[t] = "partial" THEN "lost"
                                                                 ELSE answers[t]
  BY Names DEF Crash
<1>2. \A w \in Workers : ~Holding(w)'
  BY <1>1 DEF Holding
<1>3. UploadsAreGranted'
  <2>1. \A t \in Tokens : granted'[t] = 0 => files'[t] = "none" /\ answers'[t] = "none"
    BY <1>0, <1>1 DEF UploadsAreGranted
  <2>. QED
    BY <1>2, <2>1 DEF UploadsAreGranted
<1>4. FilesMatchAnswers'
  <2> SUFFICES ASSUME NEW t \in Tokens
               PROVE  /\ files[t] = "kept" <=> answers'[t] = "201"
                      /\ files[t] = "partial" => answers'[t] = "lost"
    BY <1>1 DEF FilesMatchAnswers
  <2>1. files[t] = "kept" <=> answers[t] = "201"
    BY <1>0 DEF FilesMatchAnswers
  <2>. QED
    BY <1>1, <2>1
<1>. QED
  BY <1>3, <1>4 DEF Uploading

LEMMA NextUploads == IInv /\ [Next]_vars => Uploading'
<1> SUFFICES ASSUME IInv, [Next]_vars PROVE Uploading'
  OBVIOUS
<1>. USE Names
<1>0. /\ pc \in [Threads -> {"idle", "lock", "walk", "unlock", "respond",
                             "unlock found", "unlock missed", "open", "read"}]
      /\ arg \in [Threads -> Tokens \cup {NULL}]
      /\ Uploading
  BY DEF IInv, TypeOK, Uploading
<1>1. ASSUME UNCHANGED <<files, answers, granted>>,
             \A w \in Workers : pc'[w] = pc[w] /\ arg'[w] = arg[w]
      PROVE  Uploading'
  BY <1>0, <1>1, UploadsRest DEF Holding
<1>2. ASSUME NEW t \in Tokens, NEW n \in Nodes, Allocate(t, n)
      PROVE  Uploading'
  BY <1>0, <1>1, <1>2 DEF Allocate, Go, uploads
<1>3. CASE Register
  <2>1. UNCHANGED <<files, answers, granted>>
    BY <1>3 DEF Register, RegisterLock, RegisterWalk, RegisterLink,
                RegisterUnlock, UploadFile, uploads
  <2>2. \A w \in Workers : pc'[w] = pc[w] /\ arg'[w] = arg[w]
    BY <1>0, <1>3 DEF Register, RegisterLock, RegisterWalk, RegisterLink,
                      RegisterUnlock, UploadFile, Go
  <2>. QED
    BY <1>1, <2>1, <2>2
<1>4. ASSUME NEW w \in Workers,
             \/ \E t \in Tokens \cup {NULL} : Put(w, t)
             \/ ConsumeLock(w) \/ ConsumeWalk(w) \/ ConsumeMissed(w)
             \/ ConsumeUnlock(w)
      PROVE  Uploading'
  <2>1. UNCHANGED <<files, answers, granted>>
    BY <1>4 DEF Put, ConsumeLock, ConsumeWalk, ConsumeMissed, ConsumeUnlock,
                uploads
  <2>2. \A v \in Workers \ {w} : pc'[v] = pc[v] /\ arg'[v] = arg[v]
    BY <1>0, <1>4 DEF Put, ConsumeLock, ConsumeWalk, ConsumeMissed,
                      ConsumeUnlock, Go
  <2>3. pc[w] # "read" /\ pc'[w] # "read"
    BY <1>0, <1>4 DEF Put, ConsumeLock, ConsumeWalk, ConsumeMissed,
                      ConsumeUnlock, Go
  <2>4. /\ Holding(w)' <=> Holding(w)
        /\ Holding(w) => arg'[w] = arg[w]
    BY <1>0, <1>4 DEF Put, ConsumeLock, ConsumeWalk, ConsumeMissed,
                      ConsumeUnlock, Go, Holding
  <2>5. \A v \in Workers : /\ Holding(v)' <=> Holding(v)
                           /\ pc'[v] = "read" <=> pc[v] = "read"
                           /\ Holding(v) => arg'[v] = arg[v]
    BY <2>2, <2>3, <2>4 DEF Holding
  <2>. QED
    BY <1>0, <2>1, <2>5, UploadsRest
<1>5. ASSUME NEW w \in Workers, Open(w) PROVE Uploading'
  <2>1. pc[w] = "open" /\ granted' = granted
    BY <1>5 DEF Open
  <2>2. CASE Answer(w, "error") /\ UNCHANGED files
    <3>1. Holding(w) /\ files[arg[w]] = "none" /\ arg[w] \in Tokens
      BY <1>0, <2>1 DEF Uploading, UploadsAreGranted, Holding
    <3>2. files' = [files EXCEPT ![arg[w]] = "none"]
      BY <2>2, <3>1 DEF IInv, TypeOK
    <3>. QED
      BY <2>1, <2>2, <3>1, <3>2, AnswerEndsUpload
  <2>. QED
    BY <1>5, <2>1, <2>2, OpenStartsFile DEF Open
<1>6. ASSUME NEW w \in Workers, ReadChunk(w) PROVE Uploading'
  <2>1. pc[w] = "read" /\ granted' = granted
    BY <1>6 DEF ReadChunk
  <2>2. CASE Discard(w) /\ Answer(w, "error")
    <3>1. Holding(w) /\ files' = [files EXCEPT ![arg[w]] = "none"]
      BY <2>1, <2>2 DEF Discard, Holding
    <3>. QED
      BY <2>1, <2>2, <3>1, AnswerEndsUpload
  <2>. QED
    BY <1>1, <1>6, <2>2 DEF ReadChunk
<1>7. ASSUME NEW w \in Workers, ReadEnd(w) PROVE Uploading'
  <2>1. /\ pc[w] = "read" /\ granted' = granted
        /\ files' = [files EXCEPT ![arg[w]] = "kept"] /\ Answer(w, "201")
        /\ Holding(w)
    BY <1>7 DEF ReadEnd, Holding
  <2>. QED
    BY <2>1, AnswerEndsUpload
<1>8. CASE UNCHANGED vars
  BY <1>1, <1>8 DEF vars, uploads
<1>. QED
  BY <1>2, <1>3, <1>4, <1>5, <1>6, <1>7, <1>8, FoundStartsUpload,
     CrashLosesUploads DEF Next, Consume, Write

-----------------------------------------------------------------------------
(* The theorems.                                                           *)

LEMMA Invariant == Spec => []IInv
<1>1. IInv /\ [Next]_vars => IInv'
  BY NextTypeOK, NextMutex, NextList, NextWalks, NextNewNode, NextTokens,
     NextUploads DEF IInv, Uploading
<1>. QED
  BY <1>1, InitIInv, PTL DEF Spec

\* The types of the variables, for any number of threads, nodes and tokens.
THEOREM TypeCorrectness == Spec => []TypeOK
<1>1. IInv => TypeOK
  BY DEF IInv
<1>. QED
  BY <1>1, Invariant, PTL

\* The mutex of the tokens is a mutex: one thread at a time is between its
\* lock and its unlock, which is what every statement on the list relies on.
THEOREM OneThreadInTheList == Spec => []OneInside
<1>1. IInv => OneInside
  BY DEF IInv
<1>. QED
  BY <1>1, Invariant, PTL

\* Between any two steps of any threads the links of the list, in both
\* directions, spell out the nodes that were linked and not consumed.
THEOREM ListStaysSound == Spec => []ListIsSound
<1>1. IInv => ListIsSound
  BY DEF IInv
<1>. QED
  BY <1>1, Invariant, PTL

\* No thread reads a node that was freed, in the walks under the lock nor when
\* "UploadFile" copies the token after the unlock.
THEOREM NobodyReadsFreedNodes == Spec => []NoUseAfterFree
<1>1. IInv => NoUseAfterFree
  <2> SUFFICES ASSUME IInv PROVE NoUseAfterFree
    OBVIOUS
  <2>1. queue \in Seq(Nodes)
    BY DEF IInv, TypeOK
  <2>2. \A n : IsLinked(n) => n \in allocated
    BY <2>1, LenProperties DEF IInv, ListIsSound, IsLinked
  <2>. QED
    BY <2>2 DEF IInv, WalksStayOnList, NewNodeIsKept, NoUseAfterFree
<1>. QED
  BY <1>1, Invariant, PTL

\* Whatever the workers do at the same time and whenever the server dies, a
\* file that is kept was answered 201 and the reverse, and a partial one is
\* being written or was lost in a crash.
THEOREM AnswersMatchFiles == Spec => []FilesMatchAnswers
<1>1. IInv => FilesMatchAnswers
  BY DEF IInv
<1>. QED
  BY <1>1, Invariant, PTL

-----------------------------------------------------------------------------
(* The list implements the promise of UploadTokens.                        *)

Valid == {node[queue[i]].tok : i \in 1 .. Len(queue)}

\* The tokens of a list are those of the nodes in it.
LEMMA TokensOfList ==
    ASSUME NEW q \in Seq(Nodes), NEW nodes, NEW t
    PROVE  t \in {nodes[q[i]].tok : i \in 1 .. Len(q)} <=>
               \E n \in Nodes : (\E i \in DOMAIN q : q[i] = n) /\ nodes[n].tok = t
<1>1. DOMAIN q = 1 .. Len(q) /\ \A i \in 1 .. Len(q) : q[i] \in Nodes
  BY ElementOfSeq, LenProperties
<1>. QED
  BY <1>1

LEMMA ValidIsTheList ==
    ASSUME IInv, TypeOK'
    PROVE  /\ \A t : t \in Valid <=>
                  \E n \in Nodes : IsLinked(n) /\ node[n].tok = t
           /\ \A t : t \in Valid' <=>
                  \E n \in Nodes : IsLinked(n)' /\ node'[n].tok = t
<1>1. queue \in Seq(Nodes) /\ queue' \in Seq(Nodes)
  BY DEF IInv, TypeOK
<1>2. \A t : t \in Valid <=> \E n \in Nodes : IsLinked(n) /\ node[n].tok = t
  BY <1>1, TokensOfList DEF Valid, IsLinked
<1>3. \A t : t \in Valid' <=> \E n \in Nodes : IsLinked(n)' /\ node'[n].tok = t
  BY <1>1, TokensOfList DEF Valid, IsLinked
<1>. QED
  BY <1>2, <1>3

LEMMA StepsKeepPromise ==
    ASSUME IInv, TypeOK', [Next]_vars
    PROVE  [Promise!Next]_<<Valid, granted>>
<1>1. ASSUME NEW t \in Tokens, NEW n \in Nodes, Allocate(t, n)
      PROVE  UNCHANGED <<Valid, granted>>
  <2>1. /\ queue' = queue /\ granted' = granted
        /\ \A i \in 1 .. Len(queue) : node'[queue[i]] = node[queue[i]]
    BY <1>1, AllocateFacts DEF Allocate
  <2>. QED
    BY <2>1 DEF Valid
<1>2. CASE RegisterLink
  <2>1. /\ arg[Main] \in Tokens /\ new \in Nodes /\ node[new].tok = arg[Main]
        /\ granted[arg[Main]] = 0 /\ granted' = granted
        /\ \A n \in Nodes : IsLinked(n) => node[n].tok # arg[Main]
    BY <1>2, LinkFacts DEF IInv, TypeOK, NewNodeIsKept, RegisterLink
  <2>2. arg[Main] \notin Valid
    BY <2>1, ValidIsTheList
  <2>3. Valid' = Valid \cup {arg[Main]}
    <3>1. \A t : t \in Valid' <=> t \in Valid \/ t = arg[Main]
      BY <1>2, <2>1, ValidIsTheList, LinkAddsNode
    <3>. QED
      BY <3>1
  <2>. QED
    BY <2>1, <2>2, <2>3 DEF Promise!Next, Promise!Issue, Valid
<1>3. ASSUME NEW w \in Workers, ConsumeFound(w)
      PROVE  Promise!Next
  <2>1. /\ arg[w] \in Tokens /\ ptr[w] \in Nodes /\ node[ptr[w]].tok = arg[w]
        /\ IsLinked(ptr[w])
    BY <1>3, RemoveFacts, RemoveTakesNode DEF ConsumeFound
  <2>2. granted' = [granted EXCEPT ![arg[w]] = 1]
    <3>1. granted[arg[w]] = 0
      BY <1>3, RemoveFacts
    <3>2. granted' = [granted EXCEPT ![arg[w]] = granted[arg[w]] + 1]
      BY <1>3 DEF ConsumeFound
    <3>. QED
      BY <3>1, <3>2
  <2>3. arg[w] \in Valid
    BY <2>1, ValidIsTheList
  <2>4. Valid' = Valid \ {arg[w]}
    <3>1. \A n \in Nodes : IsLinked(n) /\ node[n].tok = arg[w] => n = ptr[w]
      BY <2>1 DEF IInv, TokensAreListedOnce
    <3>2. \A t : t \in Valid' <=> t \in Valid /\ t # arg[w]
      <4> TAKE t
      <4>1. t \in Valid' => t \in Valid /\ t # arg[w]
        BY <1>3, <3>1, ValidIsTheList, RemoveTakesNode
      <4>2. t \in Valid /\ t # arg[w] => t \in Valid'
        BY <1>3, <2>1, ValidIsTheList, RemoveTakesNode
      <4>. QED
        BY <4>1, <4>2
    <3>. QED
      BY <3>2
  <2>. QED
    BY <2>1, <2>2, <2>3, <2>4 DEF Promise!Next, Promise!Redeem, Valid
<1>4. CASE Crash
  <2>1. queue' = <<>> /\ granted' = granted
    BY <1>4 DEF Crash
  <2>2. Valid' = {}
    BY <2>1 DEF Valid
  <2>. QED
    BY <2>1, <2>2 DEF Promise!Next, Promise!Withdraw, Valid
<1>5. CASE UNCHANGED <<list, granted>>
  BY <1>5 DEF list, Valid
<1>. QED
  BY <1>1, <1>2, <1>3, <1>4, <1>5, OthersLeaveTheList

\* The linked list and its mutex keep the promise of UploadTokens: a token is
\* issued once and redeemed at most once, whoever presents it how often, and a
\* crash withdraws what is not redeemed.
THEOREM UploadsKeepPromise == Spec => KeepsPromise
<1>1. Init => Promise!Init
  BY DEF Init, Promise!Init
<1>2. IInv /\ TypeOK' /\ [Next]_vars => [Promise!Next]_<<Valid, granted>>
  BY StepsKeepPromise
<1>. QED
  BY <1>1, <1>2, Invariant, TypeCorrectness, PTL
     DEF Spec, KeepsPromise, Promise!Spec, Valid
=============================================================================
