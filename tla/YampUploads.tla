---------------------------- MODULE YampUploads ----------------------------
(***************************************************************************)
(* Uploads: the list of upload tokens that the epoll loop extends          *)
(* ("UploadFile") and the worker threads of the HTTP server consume, and   *)
(* the file each granted upload writes.                                    *)
(*                                                                         *)
(* The tokens are nodes of a doubly linked list on the heap, guarded by    *)
(* UTLock.  A thread holds the lock for several steps, one per node it     *)
(* looks at; what it does before it locks and after it unlocks interleaves *)
(* with everybody else, and a freed node's address may be handed out again *)
(* at once.  Clients retry: the same token may be presented by several     *)
(* requests at the same time.                                              *)
(***************************************************************************)
EXTENDS Integers, Sequences, SequencesExt

CONSTANTS
    Workers,   \* threads of the HTTP server
    Main,      \* the thread of the epoll loop
    Nodes,     \* addresses calloc may return
    NULL,      \* the null pointer; also "no thread" and "no token"
    Tokens,    \* values GenerateUploadToken_Inline may return, each once
    MaxChunks  \* config.maxupload, in chunks

ASSUME NamesAssumption ==
    /\ Main \notin Workers /\ NULL \notin Nodes \cup Tokens \cup Workers \cup {Main}
ASSUME MaxChunksAssumption == MaxChunks \in Nat

Threads == Workers \cup {Main}

VARIABLES
    UTStack,   \* first node of the list
    node,      \* per address: tok, before, after
    allocated, \* addresses calloc returned and free has not taken back
    UTLock,    \* the thread that holds the mutex
    pc,        \* per thread, the statement it is at
    ptr,       \* per thread, its local variable last or c
    arg,       \* per thread, the token it registers or looks for
    new,       \* the node RegisterUploadToken is about to link or returned
    total,     \* per worker, the chunks received so far
    files,     \* per token, the state of the file its upload wrote
    known,     \* tokens that were sent to a client
    generated, \* tokens generated so far
    \* History variables: no guard reads them.
    queue,     \* the nodes linked, first to last
    granted,   \* per token, how often ConsumeUploadToken returned 1
    answers    \* per token, what the upload it granted was answered

vars == <<UTStack, node, allocated, UTLock, pc, ptr, arg, new, total, files,
          known, generated, queue, granted, answers>>
list    == <<UTStack, node, allocated, queue>>
tokens  == <<known, generated>>
uploads == <<total, files, answers>>

Blank == [tok |-> NULL, before |-> NULL, after |-> NULL]

Init ==
    /\ UTStack = NULL
    /\ node = [n \in Nodes |-> Blank]
    /\ allocated = {}
    /\ UTLock = NULL
    /\ pc = [t \in Threads |-> "idle"]
    /\ ptr = [t \in Threads |-> NULL]
    /\ arg = [t \in Threads |-> NULL]
    /\ new = NULL
    /\ total = [w \in Workers |-> 0]
    /\ files = [t \in Tokens |-> "none"]
    /\ known = {}
    /\ generated = {}
    /\ queue = <<>>
    /\ granted = [t \in Tokens |-> 0]
    /\ answers = [t \in Tokens |-> "none"]

Go(t, label) == pc' = [pc EXCEPT ![t] = label]

\* A local variable that is not read again is cleared.
Forget(t) == ptr' = [ptr EXCEPT ![t] = NULL]

\* Mutant: the mutex is not waited for.
LockFreely(t) == UTLock' = t

\* Mutant: the mutex is not given back.
KeepLocked(t) == UTLock = t /\ UNCHANGED UTLock

\* pthread_mutex_lock and pthread_mutex_unlock.
Lock(t)   == UTLock = NULL /\ UTLock' = t
Unlock(t) == UTLock = t /\ UTLock' = NULL

-----------------------------------------------------------------------------
(* RegisterUploadToken, called by the epoll loop for "UploadFile".         *)

\* calloc and GenerateUploadToken_Inline.
Allocate(t, n) ==
    /\ pc[Main] = "idle"
    /\ t \notin generated
    /\ n \notin allocated
    /\ allocated' = allocated \cup {n}
    /\ node' = [node EXCEPT ![n] = [Blank EXCEPT !.tok = t]]
    /\ generated' = generated \cup {t}
    /\ arg' = [arg EXCEPT ![Main] = t]
    /\ new' = n
    /\ Go(Main, "lock")
    /\ UNCHANGED <<UTStack, UTLock, ptr, known, queue, granted, uploads>>

RegisterLock ==
    /\ pc[Main] = "lock"
    /\ Lock(Main)
    /\ ptr' = [ptr EXCEPT ![Main] = UTStack]
    /\ Go(Main, "walk")
    /\ UNCHANGED <<list, arg, new, tokens, granted, uploads>>

RegisterWalk ==
    /\ pc[Main] = "walk"
    /\ ptr[Main] # NULL
    /\ node[ptr[Main]].after # NULL
    /\ ptr' = [ptr EXCEPT ![Main] = node[ptr[Main]].after]
    /\ UNCHANGED <<list, UTLock, pc, arg, new, tokens, granted, uploads>>

\* Mutant: the new node does not learn its predecessor.
LinkForward(last, n) == node' = [node EXCEPT ![last].after = n]

\* last->after = tok; tok->before = last
LinkBehind(last, n) == node' = [node EXCEPT ![last].after = n, ![n].before = last]

RegisterLink ==
    /\ pc[Main] = "walk"
    /\ IF ptr[Main] = NULL
         THEN UTStack' = new /\ UNCHANGED node
         ELSE /\ node[ptr[Main]].after = NULL
              /\ LinkBehind(ptr[Main], new)
              /\ UNCHANGED UTStack
    /\ queue' = Append(queue, new)
    /\ Go(Main, "unlock")
    /\ UNCHANGED <<allocated, UTLock, ptr, arg, new, tokens, granted, uploads>>

RegisterUnlock ==
    /\ pc[Main] = "unlock"
    /\ Unlock(Main)
    /\ Forget(Main)
    /\ Go(Main, "respond")
    /\ UNCHANGED <<list, arg, new, tokens, granted, uploads>>

\* "UploadFile" copies tok->tok into its response, after the unlock.
UploadFile ==
    /\ pc[Main] = "respond"
    /\ known' = known \cup {node[new].tok}
    /\ new' = NULL
    /\ arg' = [arg EXCEPT ![Main] = NULL]
    /\ Go(Main, "idle")
    /\ UNCHANGED <<list, UTLock, ptr, generated, granted, uploads>>

-----------------------------------------------------------------------------
(* ConsumeUploadToken and Upload_Handler, in a worker.                     *)

\* A client puts to any token it was given, used or not, several times if it
\* likes, or to one it made up (NULL).
Put(w, t) ==
    /\ pc[w] = "idle"
    /\ t \in known \cup {NULL}
    /\ arg' = [arg EXCEPT ![w] = t]
    /\ Go(w, "lock")
    /\ UNCHANGED <<list, UTLock, ptr, new, tokens, granted, uploads>>

ConsumeLock(w) ==
    /\ pc[w] = "lock"
    /\ Lock(w)
    /\ ptr' = [ptr EXCEPT ![w] = UTStack]
    /\ Go(w, "walk")
    /\ UNCHANGED <<list, arg, new, tokens, granted, uploads>>

ConsumeWalk(w) ==
    /\ pc[w] = "walk"
    /\ ptr[w] # NULL
    /\ node[ptr[w]].tok # arg[w]
    /\ ptr' = [ptr EXCEPT ![w] = node[ptr[w]].after]
    /\ UNCHANGED <<list, UTLock, pc, arg, new, tokens, granted, uploads>>

\* Mutant: the successor keeps pointing back to the freed node.
UnlinkForward(c) ==
    IF node[c].before # NULL
      THEN [node EXCEPT ![node[c].before].after = node[c].after]
      ELSE node

\* The neighbours of c are joined.
Unlink(c) ==
    [n \in Nodes |->
        [node[n] EXCEPT
            !.after  = IF n = node[c].before THEN node[c].after ELSE @,
            !.before = IF n = node[c].after THEN node[c].before ELSE @]]

\* Mutant: the node is found but stays in the list and on the heap.
KeepNode(c) == UNCHANGED list

\* Where c is in the list.
Place(c) == CHOOSE i \in DOMAIN queue : queue[i] = c

\* Freed memory is Blank in the model: NoUseAfterFree says that nobody reads it.
Free(nodes, c) == [nodes EXCEPT ![c] = Blank]

RemoveNode(c) ==
    /\ node' = Free(Unlink(c), c)
    /\ UTStack' = IF node[c].before = NULL THEN node[c].after ELSE UTStack
    /\ allocated' = allocated \ {c}
    /\ queue' = RemoveAt(queue, Place(c))

ConsumeFound(w) ==
    /\ pc[w] = "walk"
    /\ ptr[w] # NULL
    /\ node[ptr[w]].tok = arg[w]
    /\ RemoveNode(ptr[w])
    /\ granted' = [granted EXCEPT ![arg[w]] = @ + 1]
    /\ Go(w, "unlock found")
    /\ UNCHANGED <<UTLock, ptr, arg, new, tokens, uploads>>

ConsumeMissed(w) ==
    /\ pc[w] = "walk"
    /\ ptr[w] = NULL
    /\ Go(w, "unlock missed")
    /\ UNCHANGED <<list, UTLock, ptr, arg, new, tokens, granted, uploads>>

\* Without a token the answer is 403.
ConsumeUnlock(w) ==
    /\ pc[w] \in {"unlock found", "unlock missed"}
    /\ Unlock(w)
    /\ Forget(w)
    /\ \/ pc[w] = "unlock found" /\ Go(w, "open") /\ UNCHANGED arg
       \/ /\ pc[w] = "unlock missed" /\ Go(w, "idle")
          /\ arg' = [arg EXCEPT ![w] = NULL]
    /\ UNCHANGED <<list, new, tokens, granted, uploads>>

Answer(w, code) ==
    /\ answers' = [answers EXCEPT ![arg[w]] = code]
    /\ arg' = [arg EXCEPT ![w] = NULL]
    /\ total' = [total EXCEPT ![w] = 0]
    /\ Go(w, "idle")

\* open with O_CREAT | O_EXCL, which may fail (500).
Open(w) ==
    /\ pc[w] = "open"
    /\ \/ /\ files' = [files EXCEPT ![arg[w]] = "partial"]
          /\ Go(w, "read")
          /\ UNCHANGED <<arg, total, answers>>
       \/ Answer(w, "error") /\ UNCHANGED files
    /\ UNCHANGED <<list, UTLock, ptr, new, tokens, granted>>

\* Mutant: the partial file is closed but not removed.
CloseOnly(w) == UNCHANGED files

\* close and unlink after a failure.
Discard(w) == files' = [files EXCEPT ![arg[w]] = "none"]

\* The next chunk does not exceed config.maxupload.
Fits(w) == total[w] < MaxChunks

\* mg_read returns a chunk, which is written if it is not too much (413) and can
\* be written (500 if not).
ReadChunk(w) ==
    /\ pc[w] = "read"
    /\ \/ /\ Fits(w)
          /\ total' = [total EXCEPT ![w] = @ + 1]
          /\ UNCHANGED <<files, pc, arg, answers>>
       \/ Discard(w) /\ Answer(w, "error")
    /\ UNCHANGED <<list, UTLock, ptr, new, tokens, granted>>

\* mg_read returns 0 at the end of the body, and less when the connection
\* breaks: the loop does not tell them apart and answers 201.
ReadEnd(w) ==
    /\ pc[w] = "read"
    /\ files' = [files EXCEPT ![arg[w]] = "kept"]
    /\ Answer(w, "201")
    /\ UNCHANGED <<list, UTLock, ptr, new, tokens, granted>>

\* The process dies and starts again: the heap is gone, the files are not.
Crash ==
    /\ UTStack' = NULL
    /\ node' = [n \in Nodes |-> Blank]
    /\ allocated' = {}
    /\ UTLock' = NULL
    /\ pc' = [t \in Threads |-> "idle"]
    /\ queue' = <<>>
    /\ new' = NULL
    /\ ptr' = [t \in Threads |-> NULL]
    /\ arg' = [t \in Threads |-> NULL]
    /\ total' = [w \in Workers |-> 0]
    /\ answers' = [t \in Tokens |-> IF files[t] = "partial" THEN "lost"
                                                            ELSE answers[t]]
    /\ UNCHANGED <<files, tokens, granted>>

-----------------------------------------------------------------------------
Register ==
    \/ RegisterLock
    \/ RegisterWalk
    \/ RegisterLink
    \/ RegisterUnlock
    \/ UploadFile

Consume(w) ==
    \/ ConsumeLock(w)
    \/ ConsumeWalk(w)
    \/ ConsumeFound(w)
    \/ ConsumeMissed(w)
    \/ ConsumeUnlock(w)

Write(w) == Open(w) \/ ReadChunk(w) \/ ReadEnd(w)

Next ==
    \/ \E t \in Tokens, n \in Nodes : Allocate(t, n)
    \/ Register
    \/ \E w \in Workers : \/ \E t \in Tokens \cup {NULL} : Put(w, t)
                          \/ Consume(w)
                          \/ Write(w)
    \/ Crash

Spec == Init /\ [][Next]_vars

\* Threads keep running, and a thread that waits for the mutex gets it if it is
\* released again and again; the peer of an upload sends, ends or breaks off.
Fairness ==
    /\ WF_vars(Register) /\ SF_vars(RegisterLock)
    /\ \A w \in Workers :
           /\ WF_vars(Consume(w)) /\ SF_vars(ConsumeLock(w))
           /\ WF_vars(Write(w))

FairSpec == Spec /\ Fairness

-----------------------------------------------------------------------------
(* Properties.                                                             *)

Pointers == Nodes \cup {NULL}

TypeOK ==
    /\ UTStack \in Pointers
    /\ node \in [Nodes -> [tok : Tokens \cup {NULL},
                           before : Pointers, after : Pointers]]
    /\ allocated \subseteq Nodes
    /\ UTLock \in Threads \cup {NULL}
    /\ pc \in [Threads -> {"idle", "lock", "walk", "unlock", "respond",
                           "unlock found", "unlock missed", "open", "read"}]
    /\ ptr \in [Threads -> Pointers]
    /\ arg \in [Threads -> Tokens \cup {NULL}]
    /\ new \in Pointers
    /\ total \in [Workers -> 0 .. MaxChunks]
    /\ files \in [Tokens -> {"none", "partial", "kept"}]
    /\ known \subseteq generated /\ generated \subseteq Tokens
    /\ queue \in Seq(Nodes)
    /\ granted \in [Tokens -> Nat]
    /\ answers \in [Tokens -> {"none", "201", "error", "lost"}]

\* At every step of every thread the pointers of the list spell out the nodes
\* that were linked and not consumed, in both directions, and all of them are
\* on the heap (RegisterUploadToken, ConsumeUploadToken).
ListIsSound ==
    /\ UTStack = IF queue = <<>> THEN NULL ELSE queue[1]
    /\ \A i \in 1 .. Len(queue) :
           /\ queue[i] \in allocated
           /\ node[queue[i]].after = IF i = Len(queue) THEN NULL ELSE queue[i + 1]
           /\ node[queue[i]].before = IF i = 1 THEN NULL ELSE queue[i - 1]

\* No thread holds a pointer to freed memory at a statement that follows it:
\* neither while it walks the list, nor when "UploadFile" reads the token of
\* the node it linked after giving up the lock.
NoUseAfterFree ==
    /\ \A t \in Threads : pc[t] = "walk" /\ ptr[t] # NULL => ptr[t] \in allocated
    /\ pc[Main] = "respond" => new \in allocated /\ node[new].tok = arg[Main]

\* A file of the CDN directory belongs to an upload that is running or was
\* answered 201, unless the server crashed while it was written; and every
\* upload answered 201 has its file (Upload_Handler).
FilesMatchAnswers ==
    \A t \in Tokens :
        /\ files[t] = "kept" <=> answers[t] = "201"
        /\ files[t] = "partial" =>
               \/ answers[t] = "lost"
               \/ \E w \in Workers : pc[w] = "read" /\ arg[w] = t

\* The list implements the promise of UploadTokens: whatever the threads do, a
\* token grants one upload at most.
Promise == INSTANCE UploadTokens WITH
    valid <- {node[queue[i]].tok : i \in 1 .. Len(queue)}

KeepsPromise == Promise!Spec

\* Every request of a client is answered, although both kinds of threads
\* compete for the mutex.
EveryPutIsAnswered == \A w \in Workers : pc[w] # "idle" ~> pc[w] = "idle"
=============================================================================
