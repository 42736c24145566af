---------------------------- MODULE YampIPCProofs ----------------------------
(***************************************************************************)
(* Proofs about the plugins' side: what the listeners and the accepter may *)
(* rely on although they share IPCSockets without a lock, and when.        *)
(*                                                                         *)
(* A connection has at most one descriptor and a descriptor at most one    *)
(* slot, whatever happens.  While no descriptor was closed under a running *)
(* listener, the slot and the descriptor a listener remembers are those of *)
(* its connection.  While no plugin hung up in the middle of a frame       *)
(* either, every stream is cut where a frame ends, so that no listener     *)
(* empties a slot, and what poll told the accepter is still true when the  *)
(* accepter acts on it.                                                    *)
(***************************************************************************)
EXTENDS YampIPC, SequenceTheorems, FiniteSetTheorems, WellFoundedInduction, TLAPS

\* The thread has read its descriptor and goes round its loop.
Looping == {"head", "body", "garbled"} \cup Bodies

Running(p) == listener[p].pc \in Looping \cup {"start"}

(* The inductive invariant.                                                *)

\* A plugin is connected once, after it was accepted.
ConnsAreDistinct ==
    /\ \A f \in FDs : conn[f] # Nobody => plugin[conn[f]] \in {"up", "down"}
    /\ \A f, g \in FDs : conn[f] = conn[g] /\ conn[f] # Nobody => f = g

\* A plugin that is not accepted yet has no thread and sent nothing.
NewcomersAreBlank ==
    \A p \in Plugins :
        plugin[p] \in {"new", "waiting"} => listener[p] = NoThread /\ wire[p] = <<>>

\* What a thread remembers of its connection is true of it.
OwnSlot(p) ==
    /\ IPCSockets[listener[p].slot] \in FDs
    /\ conn[IPCSockets[listener[p].slot]] = p
    /\ listener[p].pc # "start" => listener[p].fd = IPCSockets[listener[p].slot]

ThreadsOwnTheirSlots ==
    ~ late => strayed = {} /\ \A p \in Plugins : Running(p) => OwnSlot(p)

\* Heads and bodies take turns.
Alternates(w) ==
    \A i \in 1 .. Len(w) - 1 : (w[i] = "head") <=> (w[i + 1] # "head")

\* Frames, each with its body; and what is left of them after a head.
Whole(w) ==
    w # <<>> => w[1] = "head" /\ w[Len(w)] # "head" /\ Alternates(w)
Rest(w) ==
    w # <<>> /\ w[1] # "head" /\ w[Len(w)] # "head" /\ Alternates(w)

StreamsAreFramed ==
    ~ late /\ ~ torn =>
        \A p \in Plugins :
            /\ listener[p].pc # "garbled"
            /\ IF listener[p].pc = "body" THEN Rest(wire[p]) ELSE Whole(wire[p])

\* What poll watched and reported is still so.
PollIsCurrent ==
    ~ late /\ ~ torn =>
        /\ accepter.pc = "poll" =>
               \A i \in Slots : accepter.watched[i] # Free =>
                   IPCSockets[i] = accepter.watched[i]
        /\ accepter.pc \in {"accept", "close"} =>
               \A i \in accepter.hup :
                   /\ IPCSockets[i] # Free
                   /\ plugin[conn[IPCSockets[i]]] = "down"

IInv ==
    /\ TypeOK
    /\ ConnsAreDistinct
    /\ SlotsAreOpen
    /\ NewcomersAreBlank
    /\ ThreadsOwnTheirSlots
    /\ StreamsAreFramed
    /\ PollIsCurrent
    /\ LivePluginsStay

-----------------------------------------------------------------------------
(* The first free slot.                                                    *)

\* A set of natural numbers has a least element: the first free slot exists.
LEMMA LeastExists ==
    ASSUME NEW S \in SUBSET Nat, S # {}
    PROVE  \E k \in S : \A l \in S : k <= l
<1> DEFINE Below(k) == {l \in S : l < k}
           F == {Below(k) : k \in S}
<1>1. ASSUME NEW k \in S PROVE Below(k) \in FiniteSubsetsOf(Nat)
  <2>. k \in Nat /\ S \subseteq Nat
    OBVIOUS
  <2>1. IsFiniteSet(0 .. k - 1)
    BY FS_Interval
  <2>2. Below(k) \in SUBSET (0 .. k - 1)
    <3>1. ASSUME NEW m \in S, m < k PROVE m \in 0 .. k - 1
      <4>1. m \in Nat
        OBVIOUS
      <4>. QED
        BY <3>1, <4>1
    <3>. QED
      BY <3>1
  <2>3. IsFiniteSet(Below(k))
    BY <2>1, <2>2, FS_Subset
  <2>. QED
    BY <2>3 DEF FiniteSubsetsOf
<1>2. F \subseteq FiniteSubsetsOf(Nat) /\ F # {}
  BY <1>1
<1>3. IsWellFoundedOn(StrictSubsetOrdering(Nat), FiniteSubsetsOf(Nat))
  BY FS_StrictSubsetOrderingWellFounded
<1>4. PICK T \in F : \A U \in F : ~ (<<U, T>> \in StrictSubsetOrdering(Nat))
  BY <1>2, <1>3, WFMin
<1>5. PICK k \in S : T = Below(k)
  BY <1>4
<1>6. ASSUME NEW l \in S, l < k PROVE FALSE
  <2>. k \in Nat /\ l \in Nat /\ S \subseteq Nat
    OBVIOUS
  <2>0. Below(l) \subseteq Below(k)
    <3>1. ASSUME NEW m \in S, m < l PROVE m < k
      <4>1. m \in Nat
        OBVIOUS
      <4>. QED
        BY <1>6, <3>1, <4>1
    <3>. QED
      BY <3>1
  <2>1. Below(l) \subseteq Below(k) /\ l \in Below(k) /\ l \notin Below(l)
    BY <1>6, <2>0
  <2>2. Below(l) \in SUBSET Nat /\ Below(k) \in SUBSET Nat /\ Below(l) # Below(k)
    BY <2>1
  <2>3. <<Below(l), Below(k)>> \in StrictSubsetOrdering(Nat)
    BY <2>1, <2>2 DEF StrictSubsetOrdering
  <2>. QED
    BY <1>4, <1>5, <2>3
<1>. QED
  BY <1>6

-----------------------------------------------------------------------------
(* Threads.                                                                *)

LEMMA NotARunner ==
    ASSUME NEW t \in {NoThread, Returned, GaveUp}
    PROVE  t.pc \in {"none", "returned", "gave up"}
<1>1. CASE t = NoThread
  <2>1. NoThread.pc = "none"
    BY DEF NoThread
  <2>. QED
    BY <1>1, <2>1
<1>2. CASE t = Returned
  <2>1. Returned.pc = "returned"
    BY DEF Returned
  <2>. QED
    BY <1>2, <2>1
<1>3. CASE t = GaveUp
  <2>1. GaveUp.pc = "gave up"
    BY DEF GaveUp
  <2>. QED
    BY <1>3, <2>1
<1>. QED
  BY <1>1, <1>2, <1>3

\* A thread in its loop has a slot and a descriptor, and keeps both when it
\* goes on.
LEMMA LoopingThread ==
    ASSUME NEW t \in Threads, t.pc \in Looping, NEW pc \in Looping
    PROVE  /\ t.slot \in Slots /\ t.fd \in FDs \cup {Free}
           /\ [t EXCEPT !.pc = pc] = [pc |-> pc, slot |-> t.slot, fd |-> t.fd]
           /\ [t EXCEPT !.pc = pc] \in Threads
<1>1. t \in [pc : Looping, slot : Slots, fd : FDs \cup {Free}]
  <2>1. CASE t \in {NoThread, Returned, GaveUp}
    <3>1. t.pc \in {"none", "returned", "gave up"}
      BY <2>1, NotARunner
    <3>. QED
      BY <3>1 DEF Looping, Bodies
  <2>2. CASE t \in [pc : {"start"}, slot : Slots]
    <3>1. t.pc = "start"
      BY <2>2
    <3>. QED
      BY <3>1 DEF Looping, Bodies
  <2>. QED
    BY <2>1, <2>2 DEF Threads, Looping
<1>2. PICK a \in Looping, b \in Slots, c \in FDs \cup {Free} :
          t = [pc |-> a, slot |-> b, fd |-> c]
  BY <1>1
<1>3. [t EXCEPT !.pc = pc] = [pc |-> pc, slot |-> b, fd |-> c]
  BY <1>2
<1>. QED
  BY <1>2, <1>3 DEF Threads, Looping

LEMMA StartingThread ==
    ASSUME NEW t \in Threads, t.pc = "start"
    PROVE  t.slot \in Slots
<1>1. CASE t \in {NoThread, Returned, GaveUp}
  <2>1. t.pc # "start"
    BY <1>1, NotARunner
  <2>. QED
    BY <2>1
<1>2. CASE t \in [pc : {"start"}, slot : Slots]
  BY <1>2
<1>3. CASE t \in [pc : Looping, slot : Slots, fd : FDs \cup {Free}]
  BY <1>3
<1>. QED
  BY <1>1, <1>2, <1>3 DEF Threads, Looping

LEMMA GotoMoves ==
    ASSUME listener \in [Plugins -> Threads], NEW p \in Plugins,
           NEW pc \in Looping, listener[p].pc \in Looping, Goto(p, pc)
    PROVE  /\ listener' = [listener EXCEPT ![p] = listener'[p]]
           /\ listener'[p] = [pc |-> pc, slot |-> listener[p].slot,
                              fd |-> listener[p].fd]
           /\ listener'[p] \in Threads
<1>1. listener' = [listener EXCEPT ![p] = [listener[p] EXCEPT !.pc = pc]]
  BY DEF Goto
<1>2. listener'[p] = [listener[p] EXCEPT !.pc = pc]
  BY <1>1
<1>3. listener[p] \in Threads
  OBVIOUS
<1>. QED
  BY <1>1, <1>2, <1>3, LoopingThread

\* Where a thread's step may take it: its slot, its descriptor and all other
\* threads stay.
Moved(p) ==
    /\ listener[p].pc \in Looping \cup {"start"}
    /\ listener' = [listener EXCEPT ![p] = listener'[p]]
    /\ listener'[p] \in Threads
    /\ \/ listener'[p] \in {Returned, GaveUp}
       \/ /\ listener'[p].pc \in Looping
          /\ listener'[p].slot = listener[p].slot
          /\ listener'[p].fd =
                 IF listener[p].pc = "start" THEN IPCSockets[listener[p].slot]
                 ELSE listener[p].fd

LEMMA ThreadMoves ==
    ASSUME TypeOK, NEW p \in Plugins, UnixListener(p)
    PROVE  Moved(p) /\ UNCHANGED <<plugin, sent, conn, accepter, torn, late>>
<1>. USE DEF TypeOK
<1>a. ASSUME NEW a \in Looping, NEW b \in Looping, listener[p].pc = a, Goto(p, b)
      PROVE  Moved(p)
  <2>1. a # "start"
    BY DEF Looping, Bodies
  <2>2. /\ listener' = [listener EXCEPT ![p] = listener'[p]]
        /\ listener'[p] = [pc |-> b, slot |-> listener[p].slot,
                           fd |-> listener[p].fd]
        /\ listener'[p] \in Threads
    BY <1>a, GotoMoves
  <2>3. /\ listener'[p].pc = b /\ listener'[p].slot = listener[p].slot
        /\ listener'[p].fd = listener[p].fd
    BY <2>2
  <2>. QED
    BY <1>a, <2>1, <2>2, <2>3 DEF Moved
<1>b. ASSUME NEW a \in Looping, listener[p].pc = a, NEW t \in {Returned, GaveUp},
             listener' = [listener EXCEPT ![p] = t]
      PROVE  Moved(p)
  <2>1. listener'[p] = t /\ t \in Threads
    BY <1>b DEF Threads
  <2>. QED
    BY <1>b, <2>1 DEF Moved
<1>c. {"head", "body", "garbled", "query", "bad", "junk"} = Looping
  BY DEF Looping, Bodies
<1>1. CASE StartListener(p)
  <2> DEFINE t == [pc |-> "head", slot |-> listener[p].slot,
                   fd |-> IPCSockets[listener[p].slot]]
  <2>1. listener[p].slot \in Slots
    BY <1>1, StartingThread DEF StartListener
  <2>2. t \in Threads
    BY <2>1 DEF Threads
  <2>3. listener' = [listener EXCEPT ![p] = t] /\ listener'[p] = t
    BY <1>1 DEF StartListener
  <2>. HIDE DEF t
  <2>4. listener' = [listener EXCEPT ![p] = listener'[p]]
    BY <2>3
  <2>5. /\ t.pc \in Looping /\ t.slot = listener[p].slot
        /\ t.fd = IPCSockets[listener[p].slot]
    BY <1>c DEF t
  <2>. QED
    BY <1>1, <2>2, <2>3, <2>4, <2>5 DEF StartListener, Moved
<1>2. CASE RecvHead(p)
  <2>1. /\ listener[p].pc = "head"
        /\ \E b \in Looping : Goto(p, b)
        /\ UNCHANGED <<plugin, sent, conn, accepter, torn, late>>
    BY <1>2, <1>c DEF RecvHead
  <2>. QED
    BY <1>a, <1>c, <2>1
<1>3. CASE RecvHeadEnds(p)
  BY <1>b, <1>c, <1>3 DEF RecvHeadEnds, Return
<1>4. CASE RecvBody(p)
  <2>1. /\ listener[p].pc \in {"body", "garbled"}
        /\ \E b \in Looping : Goto(p, b)
        /\ UNCHANGED <<plugin, sent, conn, accepter, torn, late>>
    BY <1>4, <1>c DEF RecvBody, Bodies
  <2>. QED
    BY <1>a, <1>c, <2>1
<1>5. CASE RecvBodyEnds(p)
  BY <1>b, <1>c, <1>5 DEF RecvBodyEnds, Return
<1>6. CASE GiveUp(p)
  BY <1>b, <1>c, <1>6 DEF GiveUp
<1>7. CASE Dies(p)
  <2>1. listener[p].pc = "bad" /\ UNCHANGED listener
    BY <1>7 DEF Dies
  <2>2. listener' = [listener EXCEPT ![p] = listener'[p]] /\ listener'[p] \in Threads
    BY <2>1
  <2>3. "bad" \in Looping /\ "bad" # "start"
    BY <1>c
  <2>. QED
    BY <1>7, <2>1, <2>2, <2>3 DEF Moved, Dies
<1>8. CASE Answer(p)
  BY <1>a, <1>c, <1>8 DEF Answer
<1>. QED
  BY <1>1, <1>2, <1>3, <1>4, <1>5, <1>6, <1>7, <1>8 DEF UnixListener

\* The connection behind a descriptor is one of the plugins', or nobody.
LEMMA BehindType ==
    ASSUME TypeOK, NEW f
    PROVE  Behind(f) \in Plugins \cup {Nobody}
BY DEF TypeOK, Behind

\* A message is taken off the front of a stream.
LEMMA TailStep ==
    ASSUME NEW S, NEW w \in Seq(S), w # <<>>
    PROVE  /\ Head(w) = w[1] /\ w[1] \in S /\ Len(w) \in Nat \ {0}
           /\ Tail(w) \in Seq(S) /\ Len(Tail(w)) = Len(w) - 1
           /\ \A i \in 1 .. Len(w) - 1 : Tail(w)[i] = w[i + 1]
           /\ (Tail(w) = <<>> <=> Len(w) = 1)
<1>1. Len(w) \in Nat \ {0}
  OBVIOUS
<1>2. Head(w) = w[1] /\ w[1] \in S
  BY <1>1
<1>3. Tail(w) \in Seq(S) /\ Len(Tail(w)) = Len(w) - 1
  BY <1>1
<1>4. \A i \in 1 .. Len(w) - 1 : Tail(w)[i] = w[i + 1]
  BY <1>1
<1>5. Tail(w) = <<>> <=> Len(w) = 1
  <2>1. ASSUME NEW v \in Seq(S) PROVE v = <<>> <=> Len(v) = 0
    BY EmptySeq
  <2>2. Tail(w) = <<>> <=> Len(Tail(w)) = 0
    BY <1>3, <2>1
  <2>. QED
    BY <1>1, <1>3, <2>2
<1>. QED
  BY <1>1, <1>2, <1>3, <1>4, <1>5

-----------------------------------------------------------------------------
(* Type correctness.                                                       *)


LEMMA TypeInit == Init => TypeOK
<1>. SUFFICES ASSUME Init PROVE TypeOK
  OBVIOUS
<1>1. NoThread \in Threads /\ [pc |-> "build"] \in Accepters
  BY DEF Threads, Accepters
<1>2. wire \in [Plugins -> Seq({"head"} \cup Bodies)]
  BY EmptySeq DEF Init
<1>3. 0 \in 0 .. MaxFrames /\ 0 \in Nat /\ 1 \in Nat
  BY BoundsAssumption
<1>4. sent \in [Plugins -> 0 .. MaxFrames] /\ answered \in [Plugins -> Nat]
  BY <1>3 DEF Init
<1>5. /\ conn \in [FDs -> Plugins \cup {Nobody}]
      /\ IPCSockets \in [Slots -> FDs \cup {Free}]
      /\ listener \in [Plugins -> Threads]
      /\ plugin \in [Plugins -> {"new", "waiting", "up", "down"}]
  BY <1>1 DEF Init
<1>. QED
  BY <1>1, <1>2, <1>3, <1>4, <1>5 DEF Init, TypeOK

\* What accept does to the connection, when there is a free slot.
LEMMA AcceptTakes ==
    ASSUME IPCSockets \in [Slots -> FDs \cup {Free}], NEW p, NEW f,
           Accept(p, f)
    PROVE  \/ /\ \A i \in Slots : IPCSockets[i] # Free
              /\ plugin' = [plugin EXCEPT ![p] = "down"]
              /\ UNCHANGED <<conn, IPCSockets, listener>>
           \/ \E i \in Slots :
                 /\ IPCSockets[i] = Free
                 /\ plugin' = [plugin EXCEPT ![p] = "up"]
                 /\ conn' = [conn EXCEPT ![f] = p]
                 /\ IPCSockets' = [IPCSockets EXCEPT ![i] = f]
                 /\ listener' = [listener EXCEPT ![p] =
                                    [pc |-> "start", slot |-> i]]
<1> DEFINE free == {i \in Slots : IPCSockets[i] = Free}
           i == CHOOSE k \in free : \A l \in free : k <= l
<1>1. CASE free = {}
  BY <1>1 DEF Accept
<1>2. CASE free # {}
  <2>1. free \in SUBSET Nat
    BY DEF Slots
  <2>2. \E k \in free : \A l \in free : k <= l
    BY <1>2, <2>1, LeastExists
  <2>3. i \in free
    BY <2>2
  <2>. QED
    BY <1>2, <2>3 DEF Accept
<1>. QED
  BY <1>1, <1>2

LEMMA TypeKept ==
    ASSUME TypeOK, [Next]_vars
    PROVE  TypeOK'
<1>. USE DEF TypeOK
<1>1. ASSUME NEW p \in Plugins, PluginStep(p)
      PROVE  TypeOK'
  <2>1. CASE Connect(p)
    BY <2>1 DEF Connect
  <2>2. ASSUME NEW body \in Bodies, SendFrame(p, body)
        PROVE  TypeOK'
    <3>1. wire[p] \o <<"head", body>> \in Seq({"head"} \cup Bodies)
      OBVIOUS
    <3>2. wire' \in [Plugins -> Seq({"head"} \cup Bodies)]
      BY <2>2, <3>1 DEF SendFrame
    <3>3. sent[p] + 1 \in 0 .. MaxFrames
      BY <2>2, BoundsAssumption DEF SendFrame
    <3>4. sent' \in [Plugins -> 0 .. MaxFrames]
      BY <2>2, <3>3 DEF SendFrame
    <3>. QED
      BY <2>2, <3>2, <3>4 DEF SendFrame
  <2>3. CASE HangUp(p)
    BY <2>3 DEF HangUp
  <2>4. CASE HangUpMidFrame(p)
    <3>1. Append(wire[p], "head") \in Seq({"head"} \cup Bodies)
      OBVIOUS
    <3>2. wire' \in [Plugins -> Seq({"head"} \cup Bodies)]
      BY <2>4, <3>1 DEF HangUpMidFrame
    <3>3. sent[p] + 1 \in 0 .. MaxFrames
      BY <2>4, BoundsAssumption DEF HangUpMidFrame
    <3>4. sent' \in [Plugins -> 0 .. MaxFrames]
      BY <2>4, <3>3 DEF HangUpMidFrame
    <3>. QED
      BY <2>4, <3>2, <3>4 DEF HangUpMidFrame
  <2>. QED
    BY <1>1, <2>1, <2>2, <2>3, <2>4 DEF PluginStep
<1>2. CASE BuildPollfds
  BY <1>2 DEF BuildPollfds, Accepters
<1>3. CASE PollReturns
  <2>1. accepter' \in Accepters
    BY <1>3 DEF PollReturns, Accepters
  <2>. QED
    BY <1>3, <2>1 DEF PollReturns
<1>4. ASSUME NEW p \in Plugins, NEW f \in FDs, Accept(p, f)
      PROVE  TypeOK'
  <2>1. accepter' \in Accepters
    <3>1. accepter \in [pc : {"accept", "close"}, hup : SUBSET Slots]
      BY <1>4 DEF Accept, Accepters
    <3>2. PICK a \in {"accept", "close"}, h \in SUBSET Slots :
              accepter = [pc |-> a, hup |-> h]
      BY <3>1
    <3>3. accepter' = [pc |-> "close", hup |-> h]
      BY <1>4, <3>2 DEF Accept
    <3>. QED
      BY <3>3 DEF Accepters
  <2>2. ASSUME NEW i \in Slots PROVE [pc |-> "start", slot |-> i] \in Threads
    BY DEF Threads
  <2>3. CASE /\ plugin' = [plugin EXCEPT ![p] = "down"]
             /\ UNCHANGED <<conn, IPCSockets, listener>>
    BY <1>4, <2>1, <2>3 DEF Accept
  <2>4. ASSUME NEW i \in Slots,
               plugin' = [plugin EXCEPT ![p] = "up"],
               conn' = [conn EXCEPT ![f] = p],
               IPCSockets' = [IPCSockets EXCEPT ![i] = f],
               listener' = [listener EXCEPT ![p] =
                               [pc |-> "start", slot |-> i]]
        PROVE  TypeOK'
    <3>1. listener' \in [Plugins -> Threads]
      BY <2>2, <2>4
    <3>. QED
      BY <1>4, <2>1, <2>4, <3>1 DEF Accept
  <2>5. IPCSockets \in [Slots -> FDs \cup {Free}]
    OBVIOUS
  <2>6. \/ /\ plugin' = [plugin EXCEPT ![p] = "down"]
           /\ UNCHANGED <<conn, IPCSockets, listener>>
        \/ \E i \in Slots :
              /\ plugin' = [plugin EXCEPT ![p] = "up"]
              /\ conn' = [conn EXCEPT ![f] = p]
              /\ IPCSockets' = [IPCSockets EXCEPT ![i] = f]
              /\ listener' = [listener EXCEPT ![p] =
                                 [pc |-> "start", slot |-> i]]
    BY <1>4, <2>5, AcceptTakes
  <2>. QED
    BY <2>3, <2>4, <2>6
<1>5. CASE CloseHungUp
  <2>1. accepter' \in Accepters
    BY <1>5 DEF CloseHungUp, Accepters
  <2>2. late' \in BOOLEAN
    BY <1>5 DEF CloseHungUp
  <2>3. /\ conn' \in [FDs -> Plugins \cup {Nobody}]
        /\ IPCSockets' \in [Slots -> FDs \cup {Free}]
    BY <1>5 DEF CloseHungUp
  <2>. QED
    BY <1>5, <2>1, <2>2, <2>3 DEF CloseHungUp
<1>6. ASSUME NEW p \in Plugins, UnixListener(p)
      PROVE  TypeOK'
  <2>1. UNCHANGED <<plugin, sent, conn, accepter, torn, late>>
    BY <1>6, ThreadMoves
  <2>2. listener' \in [Plugins -> Threads]
    BY <1>6, ThreadMoves DEF Moved
  <2>3. Source(p) \in Plugins \cup {Nobody}
    BY BehindType DEF Source
  <2>4. wire' \in [Plugins -> Seq({"head"} \cup Bodies)]
    <3>1. CASE UNCHANGED wire
      BY <3>1
    <3>2. CASE wire[Source(p)] # <<>> /\ Receive(Source(p)) /\ Source(p) # Nobody
      <4>1. Source(p) \in Plugins
        BY <2>3, <3>2
      <4>2. Tail(wire[Source(p)]) \in Seq({"head"} \cup Bodies)
        BY <3>2, <4>1, TailStep
      <4>. QED
        BY <3>2, <4>1, <4>2 DEF Receive
    <3>. QED
      BY <1>6, <3>1, <3>2 DEF UnixListener, StartListener, RecvHead,
          RecvHeadEnds, RecvBody, RecvBodyEnds, GiveUp, Dies, Answer
  <2>5. strayed' \subseteq Plugins \X Plugins
    <3>1. CASE UNCHANGED strayed
      BY <3>1
    <3>2. CASE Source(p) # Nobody /\ Meets(p, Source(p))
      BY <2>3, <3>2 DEF Meets
    <3>. QED
      BY <1>6, <3>1, <3>2 DEF UnixListener, StartListener, RecvHead,
          RecvHeadEnds, RecvBody, RecvBodyEnds, GiveUp, Dies, Answer
  <2>6. answered' \in [Plugins -> Nat]
    <3>1. CASE UNCHANGED answered
      BY <3>1
    <3>2. CASE /\ Source(p) # Nobody
               /\ answered' = [answered EXCEPT ![Source(p)] = @ + 1]
      BY <2>3, <3>2
    <3>. QED
      BY <1>6, <3>1, <3>2 DEF UnixListener, StartListener, RecvHead,
          RecvHeadEnds, RecvBody, RecvBodyEnds, GiveUp, Dies, Answer
  <2>7. alive' \in BOOLEAN
    BY <1>6 DEF UnixListener, StartListener, RecvHead, RecvHeadEnds, RecvBody,
        RecvBodyEnds, GiveUp, Dies, Answer
  <2>8. IPCSockets' \in [Slots -> FDs \cup {Free}]
    BY <1>6 DEF UnixListener, StartListener, RecvHead, RecvHeadEnds, RecvBody,
        RecvBodyEnds, GiveUp, Dies, Answer
  <2>. QED
    BY <2>1, <2>2, <2>4, <2>5, <2>6, <2>7, <2>8
<1>7. CASE UNCHANGED vars
  BY <1>7 DEF vars
<1>. QED
  BY <1>1, <1>2, <1>3, <1>4, <1>5, <1>6, <1>7 DEF Next, UnixAccepter

-----------------------------------------------------------------------------
(* Connections, descriptors and slots.                                     *)

LEMMA ConnsInit == Init => ConnsAreDistinct /\ SlotsAreOpen
BY DEF Init, ConnsAreDistinct, SlotsAreOpen

\* What a plugin's step does to the plugin.
LEMMA PluginMoves ==
    ASSUME TypeOK, NEW p \in Plugins, PluginStep(p)
    PROVE  /\ \E s \in {"new", "waiting", "up", "down"} :
                 /\ plugin' = [plugin EXCEPT ![p] = s]
                 /\ \/ plugin[p] = "new" /\ s = "waiting"
                    \/ plugin[p] = "up" /\ s \in {"up", "down"}
           /\ wire' = [wire EXCEPT ![p] = wire'[p]]
           /\ plugin[p] = "new" => UNCHANGED wire
           /\ torn => torn'
           /\ UNCHANGED <<conn, IPCSockets, accepter, listener, alive,
                          answered, strayed, late>>
<1>. USE DEF TypeOK
<1>1. CASE Connect(p)
  BY <1>1 DEF Connect
<1>2. ASSUME NEW body \in Bodies, SendFrame(p, body)
      PROVE  /\ plugin' = [plugin EXCEPT ![p] = "up"]
             /\ plugin[p] = "up"
             /\ wire' = [wire EXCEPT ![p] = wire'[p]]
             /\ torn => torn'
             /\ UNCHANGED <<conn, IPCSockets, accepter, listener, alive,
                            answered, strayed, late>>
  BY <1>2 DEF SendFrame
<1>3. CASE HangUp(p)
  BY <1>3 DEF HangUp
<1>4. CASE HangUpMidFrame(p)
  BY <1>4 DEF HangUpMidFrame
<1>. QED
  BY <1>1, <1>2, <1>3, <1>4 DEF PluginStep

LEMMA ConnsKept ==
    ASSUME TypeOK, ConnsAreDistinct, [Next]_vars
    PROVE  ConnsAreDistinct'
<1>. USE DEF TypeOK, ConnsAreDistinct
<1>1. ASSUME NEW p \in Plugins, PluginStep(p)
      PROVE  ConnsAreDistinct'
  <2>1. PICK s \in {"new", "waiting", "up", "down"} :
            /\ plugin' = [plugin EXCEPT ![p] = s]
            /\ \/ plugin[p] = "new" /\ s = "waiting"
               \/ plugin[p] = "up" /\ s \in {"up", "down"}
    BY <1>1, PluginMoves
  <2>2. UNCHANGED conn
    BY <1>1, PluginMoves
  <2>. QED
    BY <2>1, <2>2
<1>2. ASSUME NEW p \in Plugins, NEW f \in FDs, Accept(p, f)
      PROVE  ConnsAreDistinct'
  <2>1. plugin[p] = "waiting" /\ conn[f] = Nobody
    BY <1>2 DEF Accept, Waiting
  <2>2. \A g \in FDs : conn[g] # p
    BY <2>1, NobodyAssumption
  <2>3. CASE /\ plugin' = [plugin EXCEPT ![p] = "down"]
             /\ UNCHANGED conn
    BY <2>2, <2>3
  <2>4. CASE /\ plugin' = [plugin EXCEPT ![p] = "up"]
             /\ conn' = [conn EXCEPT ![f] = p]
    BY <2>2, <2>4
  <2>. QED
    BY <1>2, <2>3, <2>4, AcceptTakes
<1>3. CASE CloseHungUp
  <2>1. /\ plugin' = plugin
        /\ \A f \in FDs : conn'[f] \in {conn[f], Nobody}
    BY <1>3 DEF CloseHungUp
  <2>. QED
    BY <2>1
<1>4. CASE UNCHANGED <<plugin, conn>>
  BY <1>4
<1>. QED
  BY <1>1, <1>2, <1>3, <1>4, ThreadMoves
  DEF Next, UnixAccepter, BuildPollfds, PollReturns, vars

LEMMA SlotsKept ==
    ASSUME TypeOK, SlotsAreOpen, [Next]_vars
    PROVE  SlotsAreOpen'
<1>. USE DEF TypeOK, SlotsAreOpen
<1>1. CASE UNCHANGED <<conn, IPCSockets>>
  BY <1>1
<1>2. ASSUME NEW p \in Plugins, NEW f \in FDs, Accept(p, f)
      PROVE  SlotsAreOpen'
  <2>1. conn[f] = Nobody /\ f # Free /\ p # Nobody
    BY <1>2, FDsAssumption, NobodyAssumption DEF Accept
  <2>2. \A j \in Slots : IPCSockets[j] # f
    BY <2>1
  <2>3. ASSUME NEW i \in Slots, conn' = [conn EXCEPT ![f] = p],
               IPCSockets' = [IPCSockets EXCEPT ![i] = f]
        PROVE  SlotsAreOpen'
    <3>1. conn'[f] = p /\ \A g \in FDs : g # f => conn'[g] = conn[g]
      BY <2>3
    <3>2. /\ IPCSockets'[i] = f
          /\ \A j \in Slots : j # i => IPCSockets'[j] = IPCSockets[j]
      BY <2>3
    <3>3. ASSUME NEW j \in Slots, IPCSockets'[j] # Free
          PROVE  conn'[IPCSockets'[j]] # Nobody
      <4>1. CASE j = i
        BY <2>1, <3>1, <3>2, <4>1
      <4>2. CASE j # i
        <5>1. IPCSockets'[j] = IPCSockets[j] /\ IPCSockets[j] \in FDs \ {f}
          BY <2>2, <3>2, <3>3, <4>2
        <5>2. conn'[IPCSockets[j]] = conn[IPCSockets[j]]
          BY <3>1, <5>1
        <5>. QED
          BY <3>3, <5>1, <5>2
      <4>. QED
        BY <4>1, <4>2
    <3>4. ASSUME NEW j \in Slots, NEW k \in Slots,
                 IPCSockets'[j] = IPCSockets'[k], IPCSockets'[j] # Free
          PROVE  j = k
      BY <2>2, <3>2, <3>4
    <3>. QED
      BY <3>3, <3>4
  <2>4. IPCSockets \in [Slots -> FDs \cup {Free}]
    OBVIOUS
  <2>5. \/ UNCHANGED <<conn, IPCSockets>>
        \/ \E i \in Slots : /\ conn' = [conn EXCEPT ![f] = p]
                            /\ IPCSockets' = [IPCSockets EXCEPT ![i] = f]
    <3>1. \/ UNCHANGED <<conn, IPCSockets, listener>>
          \/ \E i \in Slots :
                /\ conn' = [conn EXCEPT ![f] = p]
                /\ IPCSockets' = [IPCSockets EXCEPT ![i] = f]
                /\ listener' = [listener EXCEPT ![p] =
                                   [pc |-> "start", slot |-> i]]
      BY <1>2, <2>4, AcceptTakes
    <3>. QED
      BY <3>1
  <2>. QED
    BY <1>1, <2>3, <2>5
<1>3. CASE CloseHungUp
  <2> DEFINE slots == {i \in Slots : IPCSockets[i] # Free /\ i \in accepter.hup}
             fds == {IPCSockets[i] : i \in slots}
  <2>1. /\ conn' = [f \in FDs |-> IF f \in fds THEN Nobody ELSE conn[f]]
        /\ IPCSockets' = [i \in Slots |->
                             IF i \in slots THEN Free ELSE IPCSockets[i]]
    BY <1>3 DEF CloseHungUp
  <2>2. ASSUME NEW i \in Slots, IPCSockets'[i] # Free
        PROVE  conn'[IPCSockets'[i]] # Nobody
    <3>1. i \notin slots /\ IPCSockets'[i] = IPCSockets[i]
      BY <2>1, <2>2
    <3>2. IPCSockets[i] \notin fds
      BY <2>2, <3>1
    <3>. QED
      BY <2>1, <2>2, <3>1, <3>2
  <2>3. \A i \in Slots : IPCSockets'[i] \in {IPCSockets[i], Free}
    BY <2>1
  <2>. QED
    BY <2>2, <2>3
<1>4. ASSUME NEW p \in Plugins, UnixListener(p)
      PROVE  SlotsAreOpen'
  <2>1. CASE RecvBodyEnds(p)
    <3>1. UNCHANGED conn /\ \A i \in Slots : IPCSockets'[i] \in {IPCSockets[i], Free}
      BY <2>1 DEF RecvBodyEnds
    <3>. QED
      BY <3>1
  <2>. QED
    BY <1>1, <1>4, <2>1 DEF UnixListener, StartListener, RecvHead,
        RecvHeadEnds, RecvBody, GiveUp, Dies, Answer
<1>. QED
  BY <1>1, <1>2, <1>3, <1>4, PluginMoves
  DEF Next, UnixAccepter, BuildPollfds, PollReturns, vars

LEMMA BlankInit == Init => NewcomersAreBlank
BY DEF Init, NewcomersAreBlank

\* Whose stream a thread's step shortens: one that is not empty.
LEMMA ThreadReads ==
    ASSUME TypeOK, NEW p \in Plugins, UnixListener(p)
    PROVE  \/ UNCHANGED wire
           \/ /\ Source(p) \in Plugins
              /\ wire[Source(p)] # <<>>
              /\ wire' = [wire EXCEPT ![Source(p)] = Tail(@)]
<1>1. Source(p) \in Plugins \cup {Nobody}
  BY BehindType DEF Source
<1>. QED
  BY <1>1 DEF UnixListener, StartListener, RecvHead, RecvHeadEnds, RecvBody,
      RecvBodyEnds, GiveUp, Dies, Answer, Receive

LEMMA BlankKept ==
    ASSUME TypeOK, NewcomersAreBlank, [Next]_vars
    PROVE  NewcomersAreBlank'
<1>. USE DEF TypeOK, NewcomersAreBlank
<1>1. CASE UNCHANGED <<plugin, listener, wire>>
  BY <1>1
<1>2. ASSUME NEW p \in Plugins, PluginStep(p)
      PROVE  NewcomersAreBlank'
  <2>1. PICK s \in {"new", "waiting", "up", "down"} :
            /\ plugin' = [plugin EXCEPT ![p] = s]
            /\ \/ plugin[p] = "new" /\ s = "waiting"
               \/ plugin[p] = "up" /\ s \in {"up", "down"}
    BY <1>2, PluginMoves
  <2>2. /\ UNCHANGED listener
        /\ wire' = [wire EXCEPT ![p] = wire'[p]]
        /\ plugin[p] = "new" => UNCHANGED wire
    BY <1>2, PluginMoves
  <2>. QED
    BY <2>1, <2>2
<1>3. ASSUME NEW p \in Plugins, NEW f \in FDs, Accept(p, f)
      PROVE  NewcomersAreBlank'
  <2>1. UNCHANGED wire
    BY <1>3 DEF Accept
  <2>2. \/ /\ plugin' = [plugin EXCEPT ![p] = "down"]
           /\ UNCHANGED listener
        \/ \E i \in Slots :
              /\ plugin' = [plugin EXCEPT ![p] = "up"]
              /\ listener' = [listener EXCEPT ![p] =
                                 [pc |-> "start", slot |-> i]]
    BY <1>3, AcceptTakes
  <2>. QED
    BY <2>1, <2>2
<1>4. CASE CloseHungUp
  BY <1>1, <1>4 DEF CloseHungUp
<1>5. ASSUME NEW p \in Plugins, UnixListener(p)
      PROVE  NewcomersAreBlank'
  <2>1. Moved(p) /\ UNCHANGED plugin
    BY <1>5, ThreadMoves
  <2>2. listener[p] # NoThread
    <3>1. listener[p].pc # "none"
      BY <2>1 DEF Moved, Looping, Bodies
    <3>. QED
      BY <3>1 DEF NoThread
  <2>3. plugin[p] \notin {"new", "waiting"}
    BY <2>2
  <2>4. ASSUME NEW q \in Plugins, plugin[q] \in {"new", "waiting"}
        PROVE  listener'[q] = NoThread /\ wire'[q] = <<>>
    <3>1. q # p /\ listener[q] = NoThread /\ wire[q] = <<>>
      BY <2>3, <2>4
    <3>2. listener'[q] = listener[q]
      BY <2>1, <3>1 DEF Moved
    <3>3. wire'[q] = wire[q]
      BY <1>5, <3>1, ThreadReads
    <3>. QED
      BY <3>1, <3>2, <3>3
  <2>. QED
    BY <2>1, <2>4
<1>. QED
  BY <1>1, <1>2, <1>3, <1>4, <1>5
  DEF Next, UnixAccepter, BuildPollfds, PollReturns, vars

-----------------------------------------------------------------------------
(* A thread's slot and descriptor stay its own.                            *)

LEMMA OwnInit == Init => ThreadsOwnTheirSlots
<1>1. NoThread.pc = "none"
  BY DEF NoThread
<1>. QED
  BY <1>1 DEF Init, ThreadsOwnTheirSlots, Running, Looping, Bodies

LEMMA RunningThread ==
    ASSUME TypeOK, NEW p \in Plugins, Running(p)
    PROVE  listener[p].slot \in Slots /\ ~ Ended(listener[p])
<1>1. listener[p] \in Threads
  BY DEF TypeOK
<1>2. listener[p].slot \in Slots
  BY <1>1, LoopingThread, StartingThread DEF Running
<1>3. listener[p].pc \notin {"none", "returned", "gave up"}
  BY DEF Running, Looping, Bodies
<1>. QED
  BY <1>2, <1>3, NotARunner DEF Ended

\* While no descriptor was closed under a thread, the connection behind the
\* number it holds is the one it was started for.
LEMMA OwnSource ==
    ASSUME TypeOK, ThreadsOwnTheirSlots, ~ late, NEW p \in Plugins,
           listener[p].pc \in Looping
    PROVE  Source(p) = p
<1>1. OwnSlot(p) /\ listener[p].pc # "start"
  BY DEF ThreadsOwnTheirSlots, Running, Looping, Bodies
<1>. QED
  BY <1>1 DEF OwnSlot, Source, Behind

\* Running threads of two plugins have two slots.
LEMMA OwnSlotsDiffer ==
    ASSUME TypeOK, ThreadsOwnTheirSlots, ~ late,
           NEW p \in Plugins, NEW q \in Plugins, p # q, Running(p), Running(q)
    PROVE  listener[p].slot # listener[q].slot
BY DEF ThreadsOwnTheirSlots, OwnSlot

\* A thread empties no slot but its own, and returns when it does.
LEMMA ThreadEmpties ==
    ASSUME NEW p \in Plugins, UnixListener(p)
    PROVE  \/ UNCHANGED IPCSockets
           \/ /\ IPCSockets' = [IPCSockets EXCEPT ![listener[p].slot] = Free]
              /\ listener' = [listener EXCEPT ![p] = Returned]
BY DEF UnixListener, StartListener, RecvHead, RecvHeadEnds, RecvBody,
   RecvBodyEnds, Return, GiveUp, Dies, Answer

LEMMA OwnKept ==
    ASSUME TypeOK, SlotsAreOpen, ThreadsOwnTheirSlots, [Next]_vars
    PROVE  ThreadsOwnTheirSlots'
<1>. SUFFICES ASSUME ~ late'
              PROVE  strayed' = {} /\ \A q \in Plugins : Running(q)' => OwnSlot(q)'
  BY DEF ThreadsOwnTheirSlots
<1>. USE DEF TypeOK
<1>1. CASE UNCHANGED <<conn, IPCSockets, listener, strayed, late>>
  BY <1>1 DEF ThreadsOwnTheirSlots, Running, OwnSlot
<1>2. ASSUME NEW p \in Plugins, NEW f \in FDs, Accept(p, f)
      PROVE  strayed' = {} /\ \A q \in Plugins : Running(q)' => OwnSlot(q)'
  <2>1. /\ conn[f] = Nobody /\ UNCHANGED <<strayed, late>>
        /\ strayed' = {} /\ ~ late
    BY <1>2 DEF Accept, ThreadsOwnTheirSlots
  <2>2. ASSUME NEW i \in Slots, IPCSockets[i] = Free,
               conn' = [conn EXCEPT ![f] = p],
               IPCSockets' = [IPCSockets EXCEPT ![i] = f],
               listener' = [listener EXCEPT ![p] =
                               [pc |-> "start", slot |-> i]],
               NEW q \in Plugins, Running(q)'
        PROVE  OwnSlot(q)'
    <3>1. /\ conn'[f] = p /\ \A g \in FDs : g # f => conn'[g] = conn[g]
          /\ IPCSockets'[i] = f
          /\ \A j \in Slots : j # i => IPCSockets'[j] = IPCSockets[j]
      BY <2>2
    <3>2. CASE q = p
      <4>1. listener'[p].pc = "start" /\ listener'[p].slot = i
        BY <2>2
      <4>. QED
        BY <3>1, <3>2, <4>1 DEF OwnSlot
    <3>3. CASE q # p
      <4>1. listener'[q] = listener[q]
        BY <2>2, <3>3
      <4>2. Running(q)
        BY <2>2, <4>1 DEF Running
      <4>3. OwnSlot(q) /\ listener[q].slot \in Slots
        BY <2>1, <4>2, RunningThread DEF ThreadsOwnTheirSlots
      <4>4. listener[q].slot # i
        BY <2>2, <4>3, FDsAssumption DEF OwnSlot
      <4>5. IPCSockets[listener[q].slot] # f
        BY <2>1, <4>3, NobodyAssumption DEF OwnSlot
      <4>. QED
        BY <3>1, <4>1, <4>3, <4>4, <4>5 DEF OwnSlot
    <3>. QED
      BY <3>2, <3>3
  <2>3. IPCSockets \in [Slots -> FDs \cup {Free}]
    OBVIOUS
  <2>4. \/ UNCHANGED <<conn, IPCSockets, listener>>
        \/ \E i \in Slots :
              /\ IPCSockets[i] = Free
              /\ conn' = [conn EXCEPT ![f] = p]
              /\ IPCSockets' = [IPCSockets EXCEPT ![i] = f]
              /\ listener' = [listener EXCEPT ![p] =
                                 [pc |-> "start", slot |-> i]]
    BY <1>2, <2>3, AcceptTakes
  <2>. QED
    BY <1>1, <2>1, <2>2, <2>4
<1>3. CASE CloseHungUp
  <2> DEFINE slots == {i \in Slots : IPCSockets[i] # Free /\ i \in accepter.hup}
             fds == {IPCSockets[i] : i \in slots}
  <2>1. /\ conn' = [f \in FDs |-> IF f \in fds THEN Nobody ELSE conn[f]]
        /\ IPCSockets' = [i \in Slots |->
                             IF i \in slots THEN Free ELSE IPCSockets[i]]
        /\ UNCHANGED <<listener, strayed>>
    BY <1>3 DEF CloseHungUp
  <2>2. ~ late /\ \A p \in {conn[f] : f \in fds} \ {Nobody} : Ended(listener[p])
    BY <1>3 DEF CloseHungUp
  <2>3. ASSUME NEW q \in Plugins, Running(q)'
        PROVE  OwnSlot(q)'
    <3>1. Running(q)
      BY <2>1, <2>3 DEF Running
    <3>2. OwnSlot(q) /\ listener[q].slot \in Slots /\ ~ Ended(listener[q])
      BY <2>2, <3>1, RunningThread DEF ThreadsOwnTheirSlots
    <3>3. IPCSockets[listener[q].slot] \notin fds
      BY <2>2, <3>2, NobodyAssumption DEF OwnSlot
    <3>4. listener[q].slot \notin slots
      BY <3>3
    <3>. QED
      BY <2>1, <3>2, <3>3, <3>4 DEF OwnSlot
  <2>. QED
    BY <2>1, <2>2, <2>3 DEF ThreadsOwnTheirSlots
<1>4. ASSUME NEW p \in Plugins, UnixListener(p)
      PROVE  strayed' = {} /\ \A q \in Plugins : Running(q)' => OwnSlot(q)'
  <2>1. Moved(p) /\ UNCHANGED <<conn, late>> /\ ~ late
    BY <1>4, ThreadMoves
  <2>2. strayed' = {}
    <3>1. strayed = {}
      BY <2>1 DEF ThreadsOwnTheirSlots
    <3>2. CASE listener[p].pc = "start"
      <4>1. listener[p].pc \notin Looping
        BY <3>2 DEF Looping, Bodies
      <4>2. StartListener(p)
        BY <1>4, <3>2 DEF UnixListener, RecvHead, RecvHeadEnds, RecvBody,
            RecvBodyEnds, GiveUp, Dies, Answer
      <4>. QED
        BY <3>1, <4>2 DEF StartListener
    <3>3. CASE listener[p].pc \in Looping
      <4>1. Source(p) = p
        BY <2>1, <3>3, OwnSource
      <4>2. Meets(p, p) => strayed' = {}
        BY <3>1 DEF Meets
      <4>. QED
        BY <1>4, <3>1, <4>1, <4>2 DEF UnixListener, StartListener, RecvHead,
            RecvHeadEnds, RecvBody, RecvBodyEnds, GiveUp, Dies, Answer
    <3>. QED
      BY <2>1, <3>2, <3>3 DEF Moved
  <2>3. Running(p)
    BY <2>1 DEF Moved, Running
  <2>4. OwnSlot(p) /\ listener[p].slot \in Slots
    BY <2>1, <2>3, RunningThread DEF ThreadsOwnTheirSlots
  <2>5. ASSUME NEW q \in Plugins, Running(q)', q # p
        PROVE  OwnSlot(q)'
    <3>1. listener'[q] = listener[q]
      BY <2>1, <2>5 DEF Moved
    <3>2. Running(q)
      BY <2>5, <3>1 DEF Running
    <3>3. OwnSlot(q) /\ listener[q].slot \in Slots
      BY <2>1, <3>2, RunningThread DEF ThreadsOwnTheirSlots
    <3>4. listener[q].slot # listener[p].slot
      BY <2>1, <2>3, <2>5, <3>2, OwnSlotsDiffer
    <3>5. IPCSockets'[listener[q].slot] = IPCSockets[listener[q].slot]
      BY <1>4, <2>4, <3>3, <3>4, ThreadEmpties
    <3>. QED
      BY <2>1, <3>1, <3>3, <3>5 DEF OwnSlot
  <2>6. ASSUME Running(p)'
        PROVE  OwnSlot(p)'
    <3>1. listener'[p] \notin {Returned, GaveUp}
      BY <2>6, NotARunner DEF Running, Looping, Bodies
    <3>2. UNCHANGED IPCSockets
      BY <1>4, <3>1, ThreadEmpties
    <3>3. /\ listener'[p].slot = listener[p].slot
          /\ listener'[p].fd = IPCSockets[listener[p].slot]
      BY <2>1, <2>4, <3>1 DEF Moved, OwnSlot
    <3>. QED
      BY <2>1, <2>4, <3>2, <3>3 DEF OwnSlot
  <2>. QED
    BY <2>2, <2>5, <2>6
<1>5. ASSUME NEW p \in Plugins, PluginStep(p)
      PROVE  UNCHANGED <<conn, IPCSockets, listener, strayed, late>>
  BY <1>5, PluginMoves
<1>. QED
  BY <1>1, <1>2, <1>3, <1>4, <1>5
  DEF Next, UnixAccepter, BuildPollfds, PollReturns, vars

-----------------------------------------------------------------------------
(* Streams of whole frames.                                                *)

Pieces == {"head"} \cup Bodies

\* A frame that is added to a stream goes behind whole frames.
LEMMA FrameAdded ==
    ASSUME NEW w \in Seq(Pieces), NEW body \in Bodies
    PROVE  /\ Whole(w) => Whole(w \o <<"head", body>>)
           /\ Rest(w) => Rest(w \o <<"head", body>>)
<1> DEFINE v == w \o <<"head", body>>
           n == Len(w)
<1>0. "head" \notin Bodies
  BY DEF Bodies
<1>1. v \in Seq(Pieces) /\ Len(v) = n + 2 /\ n \in Nat /\ v # <<>>
  BY DEF Pieces
<1>2. /\ \A i \in 1 .. n : v[i] = w[i]
      /\ v[n + 1] = "head" /\ v[n + 2] = body
  OBVIOUS
<1>3. w # <<>> => n >= 1
  BY EmptySeq
<1>4. w = <<>> => n = 0
  OBVIOUS
<1>5. v[Len(v)] # "head"
  BY <1>0, <1>1, <1>2
<1>6. w = <<>> => v[1] = "head"
  BY <1>2, <1>4
<1>7. w # <<>> => v[1] = w[1]
  BY <1>1, <1>2, <1>3
<1>8. ASSUME Alternates(w), w # <<>> => w[n] # "head", NEW i \in 1 .. n + 1
      PROVE  (v[i] = "head") <=> (v[i + 1] # "head")
  <2>1. CASE i \in 1 .. n - 1
    <3>1. i \in 1 .. n /\ i + 1 \in 1 .. n
      BY <1>1, <2>1
    <3>. QED
      BY <1>2, <1>8, <2>1, <3>1 DEF Alternates
  <2>2. CASE i = n
    <3>1. w # <<>> /\ i \in 1 .. n
      BY <1>1, <1>4, <1>8, <2>2
    <3>. QED
      BY <1>2, <1>8, <2>2, <3>1
  <2>3. CASE i = n + 1
    <3>1. i + 1 = n + 2
      BY <1>1, <2>3
    <3>. QED
      BY <1>0, <1>2, <2>3, <3>1
  <2>. QED
    BY <1>1, <2>1, <2>2, <2>3
<1>9. Alternates(w) /\ (w # <<>> => w[n] # "head") => Alternates(v)
  <2>1. Len(v) - 1 = n + 1
    BY <1>1
  <2>. QED
    BY <1>8, <2>1 DEF Alternates
<1>10. w = <<>> => Alternates(w)
  BY <1>4 DEF Alternates
<1>. QED
  BY <1>1, <1>5, <1>6, <1>7, <1>9, <1>10 DEF Whole, Rest

\* What is behind a head, and behind a body.
LEMMA PieceTaken ==
    ASSUME NEW w \in Seq(Pieces), w # <<>>
    PROVE  /\ Whole(w) => Head(w) = "head" /\ Rest(Tail(w))
           /\ Rest(w) => Head(w) # "head" /\ Whole(Tail(w))
<1> DEFINE v == Tail(w)
           n == Len(w)
<1>1. /\ Head(w) = w[1] /\ n \in Nat \ {0}
      /\ v \in Seq(Pieces) /\ Len(v) = n - 1
      /\ \A i \in 1 .. n - 1 : v[i] = w[i + 1]
      /\ (v = <<>> <=> n = 1)
  BY TailStep
<1>. HIDE DEF v
<1>2. ASSUME n # 1
      PROVE  v[1] = w[2] /\ v[Len(v)] = w[n] /\ 1 \in 1 .. n - 1
  <2>1. 1 \in 1 .. n - 1 /\ n - 1 \in 1 .. n - 1 /\ 1 + 1 = 2 /\ n - 1 + 1 = n
    BY <1>1, <1>2
  <2>. QED
    BY <1>1, <2>1
<1>3. ASSUME Alternates(w)
      PROVE  Alternates(v)
  <2>1. ASSUME NEW i \in 1 .. n - 1 - 1
        PROVE  (v[i] = "head") <=> (v[i + 1] # "head")
    <3>1. i \in 1 .. n - 1 /\ i + 1 \in 1 .. n - 1
      BY <1>1
    <3>2. v[i] = w[i + 1] /\ v[i + 1] = w[i + 1 + 1]
      BY <1>1, <3>1
    <3>. QED
      BY <1>3, <3>1, <3>2 DEF Alternates
  <2>. QED
    BY <1>1, <2>1 DEF Alternates
<1>4. ASSUME Whole(w)
      PROVE  Head(w) = "head" /\ Rest(v)
  <2>1. w[1] = "head" /\ w[n] # "head" /\ Alternates(w)
    BY <1>4 DEF Whole
  <2>2. n # 1
    BY <2>1
  <2>3. w[2] # "head"
    <3>1. 1 \in 1 .. n - 1
      BY <1>2, <2>2
    <3>2. w[1 + 1] # "head"
      BY <2>1, <3>1 DEF Alternates
    <3>. QED
      BY <3>2
  <2>. QED
    BY <1>1, <1>2, <1>3, <2>1, <2>2, <2>3 DEF Rest
<1>5. ASSUME Rest(w)
      PROVE  Head(w) # "head" /\ Whole(v)
  <2>1. w[1] # "head" /\ w[n] # "head" /\ Alternates(w)
    BY <1>5 DEF Rest
  <2>2. CASE n = 1
    BY <1>1, <2>1, <2>2 DEF Whole
  <2>3. CASE n # 1
    <3>1. 1 \in 1 .. n - 1
      BY <1>2, <2>3
    <3>2. w[1 + 1] = "head"
      BY <2>1, <3>1 DEF Alternates
    <3>. QED
      BY <1>1, <1>2, <1>3, <2>1, <2>3, <3>2 DEF Whole
  <2>. QED
    BY <2>2, <2>3
<1>. QED
  BY <1>4, <1>5 DEF v

LEMMA StreamsInit == Init => StreamsAreFramed
<1>1. NoThread.pc = "none"
  BY DEF NoThread
<1>. QED
  BY <1>1 DEF Init, StreamsAreFramed, Whole

\* The stream of a thread is framed, as far as the thread got.
Framed(p) ==
    /\ listener[p].pc # "garbled"
    /\ IF listener[p].pc = "body" THEN Rest(wire[p]) ELSE Whole(wire[p])

\* No thread finds the end of its stream inside a frame.
LEMMA NoThreadEmpties ==
    ASSUME TypeOK, ThreadsOwnTheirSlots, StreamsAreFramed, ~ late, ~ torn,
           NEW p \in Plugins, UnixListener(p)
    PROVE  ~ RecvBodyEnds(p) /\ UNCHANGED IPCSockets
<1>1. ASSUME RecvBodyEnds(p) PROVE FALSE
  <2>1. listener[p].pc \in Looping
    BY <1>1 DEF RecvBodyEnds, Looping
  <2>2. Source(p) = p
    BY <2>1, OwnSource
  <2>3. wire[p] # <<>>
    BY <1>1 DEF RecvBodyEnds, StreamsAreFramed, Rest
  <2>. QED
    BY <1>1, <2>2, <2>3, NobodyAssumption DEF RecvBodyEnds, StreamEnded
<1>. QED
  BY <1>1 DEF UnixListener, StartListener, RecvHead, RecvHeadEnds, RecvBody,
      GiveUp, Dies, Answer

LEMMA StreamsKept ==
    ASSUME TypeOK, NewcomersAreBlank, ThreadsOwnTheirSlots, StreamsAreFramed,
           [Next]_vars
    PROVE  StreamsAreFramed'
<1>. SUFFICES ASSUME ~ late', ~ torn', NEW q \in Plugins
              PROVE  Framed(q)'
  BY DEF StreamsAreFramed, Framed
<1>. USE DEF TypeOK
<1>0. wire \in [Plugins -> Seq(Pieces)]
  BY DEF Pieces
<1>1. ASSUME UNCHANGED <<late, torn>>
      PROVE  ~ late /\ ~ torn /\ \A p \in Plugins : Framed(p)
  BY <1>1 DEF StreamsAreFramed, Framed
<1>2. ASSUME UNCHANGED <<late, torn>>, listener'[q] = listener[q],
             wire'[q] = wire[q]
      PROVE  Framed(q)'
  BY <1>1, <1>2 DEF Framed
<1>3. ASSUME NEW p \in Plugins, PluginStep(p)
      PROVE  Framed(q)'
  <2>1. CASE Connect(p)
    BY <1>2, <2>1 DEF Connect
  <2>2. ASSUME NEW body \in Bodies, SendFrame(p, body)
        PROVE  Framed(q)'
    <3>1. /\ UNCHANGED <<late, torn, listener>>
          /\ wire' = [wire EXCEPT ![p] = @ \o <<"head", body>>]
      BY <2>2 DEF SendFrame
    <3>2. CASE q # p
      BY <1>2, <3>1, <3>2
    <3>3. CASE q = p
      BY <1>0, <1>1, <3>1, <3>3, FrameAdded DEF Framed
    <3>. QED
      BY <3>2, <3>3
  <2>3. CASE HangUp(p)
    BY <1>2, <2>3 DEF HangUp
  <2>4. CASE HangUpMidFrame(p)
    BY <2>4 DEF HangUpMidFrame
  <2>. QED
    BY <1>3, <2>1, <2>2, <2>3, <2>4 DEF PluginStep
<1>4. ASSUME NEW p \in Plugins, NEW f \in FDs, Accept(p, f)
      PROVE  Framed(q)'
  <2>1. UNCHANGED <<late, torn, wire>> /\ plugin[p] = "waiting"
    BY <1>4 DEF Accept, Waiting
  <2>2. CASE q # p
    <3>1. listener'[q] = listener[q]
      <4>1. \/ UNCHANGED <<conn, IPCSockets, listener>>
            \/ \E i \in Slots : listener' = [listener EXCEPT ![p] =
                                                [pc |-> "start", slot |-> i]]
        BY <1>4, AcceptTakes
      <4>. QED
        BY <2>2, <4>1
    <3>. QED
      BY <1>2, <2>1, <3>1
  <2>3. CASE q = p
    <3>1. wire[p] = <<>> /\ listener[p].pc = "none"
      BY <2>1 DEF NewcomersAreBlank, NoThread
    <3>2. listener'[p] = listener[p] \/ listener'[p].pc = "start"
      BY <1>4, AcceptTakes
    <3>. QED
      BY <2>1, <2>3, <3>1, <3>2 DEF Framed, Whole
  <2>. QED
    BY <2>2, <2>3
<1>5. CASE CloseHungUp
  <2>1. /\ UNCHANGED <<listener, wire, torn>> /\ ~ late
    BY <1>5 DEF CloseHungUp
  <2>. QED
    BY <2>1 DEF StreamsAreFramed, Framed
<1>6. ASSUME NEW p \in Plugins, UnixListener(p)
      PROVE  Framed(q)'
  <2>1. Moved(p) /\ UNCHANGED <<late, torn>>
    BY <1>6, ThreadMoves
  <2>2. ~ late /\ ~ torn /\ Framed(p)
    BY <1>1, <2>1
  <2>3. CASE q # p
    <3>1. listener'[q] = listener[q]
      BY <2>1, <2>3 DEF Moved
    <3>2. CASE UNCHANGED wire
      BY <1>2, <2>1, <3>1, <3>2
    <3>3. CASE /\ listener[p].pc \in Looping
               /\ wire' = [wire EXCEPT ![Source(p)] = Tail(@)]
      <4>1. Source(p) = p
        BY <2>2, <3>3, OwnSource
      <4>. QED
        BY <1>2, <2>1, <2>3, <3>1, <3>3, <4>1
    <3>4. CASE listener[p].pc = "start"
      BY <1>6, <3>2, <3>4 DEF UnixListener, StartListener, RecvHead,
          RecvHeadEnds, RecvBody, RecvBodyEnds, GiveUp, Dies, Answer
    <3>. QED
      BY <1>6, <2>1, <3>2, <3>3, <3>4, ThreadReads DEF Moved
  <2>4. CASE q = p
    <3>1. CASE /\ listener[p].pc # "body" /\ listener'[p].pc \notin {"body", "garbled"}
               /\ UNCHANGED wire
      BY <2>2, <2>4, <3>1 DEF Framed
    <3>2. CASE StartListener(p)
      <4>1. listener'[p].pc = "head"
        BY <3>2 DEF StartListener
      <4>. QED
        BY <3>1, <3>2, <4>1 DEF StartListener
    <3>3. ASSUME listener[p].pc \in Looping
          PROVE  /\ Source(p) = p
                 /\ \A pc \in Looping : Goto(p, pc) => listener'[p].pc = pc
                 /\ Return(p) => listener'[p].pc = "returned"
      <4>1. Source(p) = p
        BY <2>2, <3>3, OwnSource
      <4>2. ASSUME NEW pc \in Looping, Goto(p, pc)
            PROVE  listener'[p].pc = pc
        <5>1. listener'[p] = [pc |-> pc, slot |-> listener[p].slot,
                              fd |-> listener[p].fd]
          BY <3>3, <4>2, GotoMoves
        <5>. QED
          BY <5>1
      <4>3. Return(p) => listener'[p].pc = "returned"
        BY DEF Return, Returned
      <4>. QED
        BY <4>1, <4>2, <4>3
    <3>4. CASE RecvHead(p)
      <4>1. listener[p].pc = "head" /\ "head" \in Looping /\ "body" \in Looping
        BY <3>4 DEF RecvHead, Looping
      <4>2. Source(p) = p
        BY <3>3, <4>1
      <4>3. Whole(wire[p])
        BY <2>2, <4>1 DEF Framed
      <4>4. /\ wire[p] # <<>>
            /\ wire' = [wire EXCEPT ![p] = Tail(@)]
            /\ Goto(p, IF Head(wire[p]) = "head" THEN "body" ELSE "garbled")
        BY <3>4, <4>2, NobodyAssumption DEF RecvHead, Receive
      <4>5. Head(wire[p]) = "head" /\ Rest(Tail(wire[p]))
        BY <1>0, <4>3, <4>4, PieceTaken
      <4>6. listener'[p].pc = "body"
        BY <3>3, <4>1, <4>4, <4>5
      <4>7. wire'[p] = Tail(wire[p])
        BY <4>4
      <4>. QED
        BY <2>4, <4>5, <4>6, <4>7 DEF Framed
    <3>5. CASE RecvBody(p)
      <4>1. listener[p].pc = "body" /\ "body" \in Looping
        BY <2>2, <3>5 DEF RecvBody, Looping, Framed
      <4>2. Source(p) = p
        BY <3>3, <4>1
      <4>3. Rest(wire[p])
        BY <2>2, <4>1 DEF Framed
      <4>4. wire[p] # <<>> /\ wire' = [wire EXCEPT ![p] = Tail(@)]
        BY <3>5, <4>2 DEF RecvBody, Receive
      <4>5. Head(wire[p]) # "head" /\ Whole(Tail(wire[p]))
        BY <1>0, <4>3, <4>4, PieceTaken
      <4>6. Head(wire[p]) \in Bodies /\ Goto(p, Head(wire[p]))
        BY <3>5, <4>1, <4>2, <4>5 DEF RecvBody
      <4>7. listener'[p].pc \in Bodies
        BY <3>3, <4>1, <4>6 DEF Looping
      <4>8. wire'[p] = Tail(wire[p])
        BY <4>4
      <4>9. listener'[p].pc \notin {"garbled", "body"}
        BY <4>7 DEF Bodies
      <4>. QED
        BY <2>4, <4>5, <4>8, <4>9 DEF Framed
    <3>6. CASE RecvHeadEnds(p)
      <4>1. listener[p].pc = "head" /\ "head" \in Looping
        BY <3>6 DEF RecvHeadEnds, Looping
      <4>. QED
        BY <3>1, <3>3, <3>6, <4>1 DEF RecvHeadEnds
    <3>7. CASE RecvBodyEnds(p)
      <4>1. StreamsAreFramed /\ ~ late /\ ~ torn
        BY <2>2
      <4>. QED
        BY <1>6, <3>7, <4>1, NoThreadEmpties
    <3>8. CASE GiveUp(p)
      <4>1. listener'[p].pc = "gave up"
        BY <3>8 DEF GiveUp, GaveUp
      <4>. QED
        BY <3>1, <3>8, <4>1 DEF GiveUp
    <3>9. CASE Dies(p)
      <4>1. listener[p].pc = "bad" /\ UNCHANGED <<listener, wire>>
        BY <3>9 DEF Dies
      <4>. QED
        BY <3>1, <4>1
    <3>10. CASE Answer(p)
      <4>1. listener[p].pc = "query" /\ "query" \in Looping /\ "head" \in Looping
        BY <3>10 DEF Answer, Looping, Bodies
      <4>2. listener'[p].pc = "head"
        BY <3>3, <3>10, <4>1 DEF Answer
      <4>. QED
        BY <3>1, <3>10, <4>1, <4>2 DEF Answer
    <3>. QED
      BY <1>6, <3>2, <3>4, <3>5, <3>6, <3>7, <3>8, <3>9, <3>10
      DEF UnixListener
  <2>. QED
    BY <2>3, <2>4
<1>7. CASE UNCHANGED <<late, torn, listener, wire>>
  BY <1>2, <1>7
<1>. QED
  BY <1>3, <1>4, <1>5, <1>6, <1>7
  DEF Next, UnixAccepter, BuildPollfds, PollReturns, vars

-----------------------------------------------------------------------------
(* What poll told the accepter is still so.                                *)

LEMMA PollInit == Init => PollIsCurrent
BY DEF Init, PollIsCurrent

LEMMA PollKept ==
    ASSUME TypeOK, SlotsAreOpen, ThreadsOwnTheirSlots, StreamsAreFramed,
           PollIsCurrent, [Next]_vars
    PROVE  PollIsCurrent'
<1>. SUFFICES ASSUME ~ late', ~ torn'
              PROVE  /\ accepter'.pc = "poll" =>
                            \A i \in Slots : accepter'.watched[i] # Free =>
                                IPCSockets'[i] = accepter'.watched[i]
                     /\ accepter'.pc \in {"accept", "close"} =>
                            \A i \in accepter'.hup :
                                /\ IPCSockets'[i] # Free
                                /\ plugin'[conn'[IPCSockets'[i]]] = "down"
  BY DEF PollIsCurrent
<1>. USE DEF TypeOK
<1>0. accepter.pc \in {"accept", "close"} => accepter.hup \subseteq Slots
  <2>1. CASE accepter = [pc |-> "build"]
    BY <2>1
  <2>2. CASE accepter \in [pc : {"poll"}, watched : [Slots -> FDs \cup {Free}]]
    BY <2>2
  <2>3. CASE accepter \in [pc : {"accept", "close"}, hup : SUBSET Slots]
    BY <2>3
  <2>. QED
    BY <2>1, <2>2, <2>3 DEF Accepters
<1>1. CASE UNCHANGED <<late, torn, accepter, IPCSockets, conn, plugin>>
  BY <1>1 DEF PollIsCurrent
<1>2. ASSUME NEW p \in Plugins, PluginStep(p)
      PROVE  PollIsCurrent'
  <2>1. PICK s \in {"new", "waiting", "up", "down"} :
            /\ plugin' = [plugin EXCEPT ![p] = s]
            /\ \/ plugin[p] = "new" /\ s = "waiting"
               \/ plugin[p] = "up" /\ s \in {"up", "down"}
    BY <1>2, PluginMoves
  <2>2. /\ UNCHANGED <<late, accepter, IPCSockets, conn>>
        /\ torn => torn'
    BY <1>2, PluginMoves
  <2>3. ~ late /\ ~ torn
    BY <2>2
  <2>4. \A r \in Plugins : plugin[r] = "down" => plugin'[r] = "down"
    BY <2>1
  <2>5. ASSUME accepter.pc \in {"accept", "close"}, NEW i \in accepter.hup
        PROVE  IPCSockets[i] # Free /\ plugin'[conn[IPCSockets[i]]] = "down"
    <3>1. i \in Slots /\ IPCSockets[i] # Free
          /\ plugin[conn[IPCSockets[i]]] = "down"
      BY <1>0, <2>3, <2>5 DEF PollIsCurrent
    <3>2. conn[IPCSockets[i]] \in Plugins
      BY <3>1 DEF SlotsAreOpen
    <3>. QED
      BY <2>4, <3>1, <3>2
  <2>. QED
    BY <2>2, <2>3, <2>5 DEF PollIsCurrent
<1>3. CASE BuildPollfds
  <2>1. /\ accepter' = [pc |-> "poll", watched |-> IPCSockets]
        /\ UNCHANGED IPCSockets
    BY <1>3 DEF BuildPollfds
  <2>. QED
    BY <2>1
<1>4. CASE PollReturns
  <2> DEFINE inUse == {i \in Slots : accepter.watched[i] # Free}
             hup == {i \in inUse : HungUp(accepter.watched[i])}
  <2>1. /\ accepter.pc = "poll"
        /\ accepter' \in {[pc |-> "accept", hup |-> hup],
                          [pc |-> "close", hup |-> hup]}
        /\ UNCHANGED <<late, torn, IPCSockets, conn, plugin>>
    BY <1>4 DEF PollReturns
  <2>2. ASSUME NEW i \in hup
        PROVE  IPCSockets[i] # Free /\ plugin[conn[IPCSockets[i]]] = "down"
    <3>1. i \in Slots /\ accepter.watched[i] # Free /\ HungUp(accepter.watched[i])
      BY <2>2
    <3>2. IPCSockets[i] = accepter.watched[i]
      BY <2>1, <3>1 DEF PollIsCurrent
    <3>3. IPCSockets[i] \in FDs /\ conn[IPCSockets[i]] # Nobody
      BY <3>1, <3>2 DEF SlotsAreOpen
    <3>. QED
      BY <3>1, <3>2, <3>3 DEF HungUp, Behind
  <2>3. accepter'.hup = hup /\ accepter'.pc # "poll"
    BY <2>1
  <2>. QED
    BY <2>1, <2>2, <2>3
<1>5. ASSUME NEW p \in Plugins, NEW f \in FDs, Accept(p, f)
      PROVE  PollIsCurrent'
  <2>1. /\ accepter.pc = "accept"
        /\ accepter' = [accepter EXCEPT !.pc = "close"]
        /\ conn[f] = Nobody /\ plugin[p] = "waiting"
        /\ UNCHANGED <<late, torn>>
    BY <1>5 DEF Accept, Waiting
  <2>2. accepter'.pc = "close" /\ accepter'.hup = accepter.hup
    <3>1. accepter \in [pc : {"accept", "close"}, hup : SUBSET Slots]
      BY <2>1 DEF Accepters
    <3>. QED
      BY <2>1, <3>1
  <2>3. ASSUME NEW i \in accepter.hup
        PROVE  IPCSockets'[i] # Free /\ plugin'[conn'[IPCSockets'[i]]] = "down"
    <3>1. i \in Slots /\ IPCSockets[i] # Free
          /\ plugin[conn[IPCSockets[i]]] = "down"
      BY <1>0, <2>1, <2>3 DEF PollIsCurrent
    <3>2. conn[IPCSockets[i]] \in Plugins /\ IPCSockets[i] # f
      BY <2>1, <3>1 DEF SlotsAreOpen
    <3>3. conn[IPCSockets[i]] # p
      BY <2>1, <3>1
    <3>4. CASE plugin' = [plugin EXCEPT ![p] = "down"]
               /\ UNCHANGED <<conn, IPCSockets>>
      BY <3>1, <3>2, <3>3, <3>4
    <3>5. ASSUME NEW j \in Slots, IPCSockets[j] = Free,
                 plugin' = [plugin EXCEPT ![p] = "up"],
                 conn' = [conn EXCEPT ![f] = p],
                 IPCSockets' = [IPCSockets EXCEPT ![j] = f]
          PROVE  IPCSockets'[i] # Free /\ plugin'[conn'[IPCSockets'[i]]] = "down"
      <4>1. IPCSockets'[i] = IPCSockets[i]
        BY <3>1, <3>5
      <4>2. conn'[IPCSockets[i]] = conn[IPCSockets[i]]
        BY <3>2, <3>5
      <4>3. plugin'[conn[IPCSockets[i]]] = plugin[conn[IPCSockets[i]]]
        BY <3>2, <3>3, <3>5
      <4>. QED
        BY <3>1, <4>1, <4>2, <4>3
    <3>6. IPCSockets \in [Slots -> FDs \cup {Free}]
      OBVIOUS
    <3>7. \/ plugin' = [plugin EXCEPT ![p] = "down"]
             /\ UNCHANGED <<conn, IPCSockets, listener>>
          \/ \E j \in Slots :
                /\ IPCSockets[j] = Free
                /\ plugin' = [plugin EXCEPT ![p] = "up"]
                /\ conn' = [conn EXCEPT ![f] = p]
                /\ IPCSockets' = [IPCSockets EXCEPT ![j] = f]
                /\ listener' = [listener EXCEPT ![p] =
                                   [pc |-> "start", slot |-> j]]
      BY <1>5, <3>6, AcceptTakes
    <3>. QED
      BY <3>4, <3>5, <3>7
  <2>. QED
    BY <2>2, <2>3 DEF PollIsCurrent
<1>6. CASE CloseHungUp
  BY <1>6 DEF CloseHungUp
<1>7. ASSUME NEW p \in Plugins, UnixListener(p)
      PROVE  PollIsCurrent'
  <2>1. UNCHANGED <<late, torn, accepter, conn, plugin>> /\ ~ late /\ ~ torn
    BY <1>7, ThreadMoves
  <2>2. UNCHANGED IPCSockets
    BY <1>7, <2>1, NoThreadEmpties
  <2>. QED
    BY <2>1, <2>2 DEF PollIsCurrent
<1>. QED
  BY <1>1, <1>2, <1>3, <1>4, <1>5, <1>6, <1>7
  DEF Next, UnixAccepter, vars, PollIsCurrent

-----------------------------------------------------------------------------
(* Live plugins keep their connection.                                     *)

LEMMA LiveInit == Init => LivePluginsStay
BY DEF Init, LivePluginsStay

LEMMA LiveKept ==
    ASSUME TypeOK, PollIsCurrent, LivePluginsStay, [Next]_vars
    PROVE  LivePluginsStay'
<1>. SUFFICES ASSUME ~ late', ~ torn', NEW q \in Plugins, plugin'[q] = "up"
              PROVE  \E f \in FDs : conn'[f] = q
  BY DEF LivePluginsStay
<1>. USE DEF TypeOK
<1>1. ASSUME ~ late, ~ torn, plugin[q] = "up"
      PROVE  \E f \in FDs : conn[f] = q
  BY <1>1 DEF LivePluginsStay
<1>2. CASE UNCHANGED <<late, torn, conn>> /\ plugin'[q] = plugin[q]
  BY <1>1, <1>2
<1>3. ASSUME NEW p \in Plugins, PluginStep(p)
      PROVE  \E f \in FDs : conn'[f] = q
  <2>1. PICK s \in {"new", "waiting", "up", "down"} :
            /\ plugin' = [plugin EXCEPT ![p] = s]
            /\ \/ plugin[p] = "new" /\ s = "waiting"
               \/ plugin[p] = "up" /\ s \in {"up", "down"}
    BY <1>3, PluginMoves
  <2>2. UNCHANGED <<late, conn>> /\ (torn => torn')
    BY <1>3, PluginMoves
  <2>3. plugin[q] = "up"
    BY <2>1
  <2>. QED
    BY <1>1, <2>2, <2>3
<1>4. ASSUME NEW p \in Plugins, NEW f \in FDs, Accept(p, f)
      PROVE  \E g \in FDs : conn'[g] = q
  <2>1. UNCHANGED <<late, torn>> /\ conn[f] = Nobody
    BY <1>4 DEF Accept
  <2>2. CASE plugin' = [plugin EXCEPT ![p] = "down"] /\ UNCHANGED conn
    <3>1. plugin[q] = "up"
      BY <2>2
    <3>. QED
      BY <1>1, <2>1, <2>2, <3>1
  <2>3. CASE /\ plugin' = [plugin EXCEPT ![p] = "up"]
             /\ conn' = [conn EXCEPT ![f] = p]
    <3>1. CASE q = p
      BY <2>3, <3>1
    <3>2. CASE q # p
      <4>1. PICK g \in FDs : conn[g] = q
        BY <1>1, <2>1, <2>3, <3>2
      <4>. QED
        BY <2>1, <2>3, <4>1, NobodyAssumption
    <3>. QED
      BY <3>1, <3>2
  <2>. QED
    BY <1>4, <2>2, <2>3, AcceptTakes
<1>5. CASE CloseHungUp
  <2> DEFINE slots == {i \in Slots : IPCSockets[i] # Free /\ i \in accepter.hup}
             fds == {IPCSockets[i] : i \in slots}
  <2>1. /\ accepter.pc = "close" /\ ~ late /\ ~ torn
        /\ conn' = [f \in FDs |-> IF f \in fds THEN Nobody ELSE conn[f]]
        /\ UNCHANGED plugin
    BY <1>5 DEF CloseHungUp
  <2>2. PICK f \in FDs : conn[f] = q
    BY <1>1, <2>1
  <2>3. f \notin fds
    <3>1. ASSUME NEW i \in slots, IPCSockets[i] = f
          PROVE  FALSE
      <4>1. plugin[conn[IPCSockets[i]]] = "down"
        BY <2>1 DEF PollIsCurrent
      <4>. QED
        BY <2>1, <2>2, <3>1, <4>1
    <3>. QED
      BY <3>1
  <2>. QED
    BY <2>1, <2>2, <2>3
<1>6. ASSUME NEW p \in Plugins, UnixListener(p)
      PROVE  \E f \in FDs : conn'[f] = q
  BY <1>2, <1>6, ThreadMoves
<1>. QED
  BY <1>2, <1>3, <1>4, <1>5, <1>6
  DEF Next, UnixAccepter, BuildPollfds, PollReturns, vars

-----------------------------------------------------------------------------
(* The theorems.                                                           *)

LEMMA InvHolds == Spec => []IInv
<1>1. Init => IInv
  BY TypeInit, ConnsInit, BlankInit, OwnInit, StreamsInit, PollInit, LiveInit
  DEF IInv
<1>2. IInv /\ [Next]_vars => IInv'
  BY TypeKept, ConnsKept, SlotsKept, BlankKept, OwnKept, StreamsKept, PollKept,
     LiveKept DEF IInv
<1>. QED
  BY <1>1, <1>2, PTL DEF Spec

\* Every variable always has a value of its type: an index into IPCSockets is
\* a slot's, a state of a thread is one UnixListener has.
THEOREM TypeCorrectness == Spec => []TypeOK
<1>1. IInv => TypeOK
  BY DEF IInv
<1>. QED
  BY <1>1, InvHolds, PTL

\* A plugin has at most one descriptor, the slots of IPCSockets hold different
\* descriptors, and every one of them is open, whatever the plugins and the
\* threads do: a slot that is emptied twice, or too early, never makes the
\* array name a closed descriptor or one descriptor twice.
THEOREM SlotsHoldOpenDescriptors == Spec => [](ConnsAreDistinct /\ SlotsAreOpen)
<1>1. IInv => ConnsAreDistinct /\ SlotsAreOpen
  BY DEF IInv
<1>. QED
  BY <1>1, InvHolds, PTL

\* UnixAccepter never closes a plugin that is still connected, however old the
\* answer of poll it acts on: while no plugin hung up in the middle of a frame
\* and no descriptor was closed under its thread, nobody but the accepter
\* empties a slot, so the slot it was told about still holds the same plugin.
THEOREM LivePluginsAreKept == Spec => []LivePluginsStay
<1>1. IInv => LivePluginsStay
  BY DEF IInv
<1>. QED
  BY <1>1, InvHolds, PTL

\* UnixListener, which is told a slot and looks its descriptor up when it runs,
\* reads and answers the connection it was started for and no other, until the
\* accepter closes a descriptor under a thread that still uses it.
THEOREM ListenersStayHome == Spec => []ListenersKeepToTheirOwn
<1>1. IInv => ListenersKeepToTheirOwn
  BY DEF IInv, ThreadsOwnTheirSlots, ListenersKeepToTheirOwn
<1>. QED
  BY <1>1, InvHolds, PTL

=============================================================================
