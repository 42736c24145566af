------------------------------- MODULE YampIPC -------------------------------
(***************************************************************************)
(* The plugins' side of the server: one thread that accepts connections on *)
(* the Unix socket and closes those that hung up (UnixAccepter), one       *)
(* thread per connection that reads its frames and answers them            *)
(* (UnixListener), and the array IPCSockets they share without a lock.     *)
(*                                                                         *)
(* A listener knows its slot, not its connection: it looks its descriptor  *)
(* up when it starts, keeps the number, and frees the slot by index.  The  *)
(* accepter closes what poll reported some time ago.  A descriptor that    *)
(* was closed may be given to the next connection.                         *)
(*                                                                         *)
(* A frame is two pieces on the wire, its head and its body.  A plugin     *)
(* connects once; a plugin that is started again is another plugin.        *)
(*                                                                         *)
(* What SetMainRespOverride appends to respoverrides is left out: the      *)
(* array is shared without a lock by all listeners, by InitYAMPHTTP and by *)
(* "auth", and is what a sequential program makes of it only while no two  *)
(* of them use it at the same time, which this module takes for granted.   *)
(***************************************************************************)
EXTENDS Integers, Sequences, FiniteSets

CONSTANTS
    Plugins,          \* connections of plugins
    Nobody,           \* no connection
    FDs,              \* descriptors the process can get for them
    MAX_IPC_CLIENTS,  \* slots of IPCSockets
    MaxFrames         \* bound: frames a plugin sends

Free  == 0
Slots == 1 .. MAX_IPC_CLIENTS

ASSUME NobodyAssumption == Nobody \notin Plugins
ASSUME FDsAssumption    == Free \notin FDs
ASSUME BoundsAssumption == MAX_IPC_CLIENTS \in Nat \ {0} /\ MaxFrames \in Nat

\* What becomes of a body: it is handled and answered; it kills the process (no
\* endpoint, an override without key or val, details of a space that does not
\* exist where spacejson happens to be no null pointer); it cannot be parsed.
Bodies == {"query", "bad", "junk"}

VARIABLES
    plugin,     \* the plugin's end: "new", "waiting" for accept, "up", "down"
    wire,       \* pieces each plugin sent that nobody received yet
    sent,       \* frames each plugin sent
    conn,       \* open descriptors: the connection behind each
    IPCSockets, \* the descriptor in each slot, or Free
    accepter,   \* what the accepter is about to do, with what poll told it
    listener,   \* the thread that was started for each connection
    alive,      \* the process runs
    \* History variables: no guard reads them.
    answered,   \* per plugin, answers that were sent to it
    strayed,    \* listeners with another connection they read or answered
    torn,       \* a plugin hung up in the middle of a frame
    late        \* a descriptor was closed before its listener had returned

vars == <<plugin, wire, sent, conn, IPCSockets, accepter, listener, alive,
          answered, strayed, torn, late>>

NoThread == [pc |-> "none"]
Returned == [pc |-> "returned"]
GaveUp   == [pc |-> "gave up"]

\* The thread has ended.
Ended(t) == t \in {Returned, GaveUp}

Init ==
    /\ plugin = [p \in Plugins |-> "new"]
    /\ wire = [p \in Plugins |-> <<>>]
    /\ sent = [p \in Plugins |-> 0]
    /\ conn = [f \in FDs |-> Nobody]
    /\ IPCSockets = [i \in Slots |-> Free]
    /\ accepter = [pc |-> "build"]
    /\ listener = [p \in Plugins |-> NoThread]
    /\ alive = TRUE
    /\ answered = [p \in Plugins |-> 0]
    /\ strayed = {}
    /\ torn = FALSE
    /\ late = FALSE

\* The connection behind a descriptor number, open or not.
Behind(f) == IF f \in FDs THEN conn[f] ELSE Nobody

-----------------------------------------------------------------------------
(* The plugins (not in the repository): they connect, send frames, and hang *)
(* up, in the middle of a frame too.                                       *)

Connect(p) ==
    /\ plugin[p] = "new"
    /\ plugin' = [plugin EXCEPT ![p] = "waiting"]
    /\ UNCHANGED <<wire, sent, conn, IPCSockets, accepter, listener, alive,
                   answered, strayed, torn, late>>

SendFrame(p, body) ==
    /\ plugin[p] = "up"
    /\ sent[p] < MaxFrames
    /\ wire' = [wire EXCEPT ![p] = @ \o <<"head", body>>]
    /\ sent' = [sent EXCEPT ![p] = @ + 1]
    /\ UNCHANGED <<plugin, conn, IPCSockets, accepter, listener, alive,
                   answered, strayed, torn, late>>

HangUp(p) ==
    /\ plugin[p] = "up"
    /\ plugin' = [plugin EXCEPT ![p] = "down"]
    /\ UNCHANGED <<wire, sent, conn, IPCSockets, accepter, listener, alive,
                   answered, strayed, torn, late>>

HangUpMidFrame(p) ==
    /\ plugin[p] = "up"
    /\ sent[p] < MaxFrames
    /\ plugin' = [plugin EXCEPT ![p] = "down"]
    /\ wire' = [wire EXCEPT ![p] = Append(@, "head")]
    /\ sent' = [sent EXCEPT ![p] = @ + 1]
    /\ torn' = TRUE
    /\ UNCHANGED <<conn, IPCSockets, accepter, listener, alive, answered,
                   strayed, late>>

-----------------------------------------------------------------------------
(* UnixAccepter.                                                           *)

\* The array of pollfds: the listening socket and the slots in use.
BuildPollfds ==
    /\ accepter.pc = "build"
    /\ accepter' = [pc |-> "poll", watched |-> IPCSockets]
    /\ UNCHANGED <<plugin, wire, sent, conn, IPCSockets, listener, alive,
                   answered, strayed, torn, late>>

\* POLLHUP, or POLLNVAL for a descriptor that is not open.
HungUp(f) == Behind(f) = Nobody \/ plugin[Behind(f)] = "down"

Readable(f) == Behind(f) # Nobody /\ wire[Behind(f)] # <<>>

Waiting == {p \in Plugins : plugin[p] = "waiting"}

\* poll returns when the listening socket or a watched one has news.
PollReturns ==
    LET inUse == {i \in Slots : accepter.watched[i] # Free}
        hup == {i \in inUse : HungUp(accepter.watched[i])}
    IN  /\ accepter.pc = "poll"
        /\ \/ Waiting # {}
           \/ hup # {}
           \/ \E i \in inUse : Readable(accepter.watched[i])
        /\ accepter' = IF Waiting # {} THEN [pc |-> "accept", hup |-> hup]
                       ELSE [pc |-> "close", hup |-> hup]
        /\ UNCHANGED <<plugin, wire, sent, conn, IPCSockets, listener, alive,
                       answered, strayed, torn, late>>

\* Mutant: the first slot is taken whether it is free or not.
AcceptOverwrites(p, f) ==
    /\ accepter.pc = "accept"
    /\ p \in Waiting
    /\ conn[f] = Nobody
    /\ accepter' = [accepter EXCEPT !.pc = "close"]
    /\ plugin' = [plugin EXCEPT ![p] = "up"]
    /\ conn' = [conn EXCEPT ![f] = p]
    /\ IPCSockets' = [IPCSockets EXCEPT ![1] = f]
    /\ listener' = [listener EXCEPT ![p] = [pc |-> "start", slot |-> 1]]
    /\ UNCHANGED <<wire, sent, alive, answered, strayed, torn, late>>

\* The new connection gets a descriptor that is not open and the first slot
\* that is free, and a thread that is told the number of the slot.
Accept(p, f) ==
    LET free == {i \in Slots : IPCSockets[i] = Free}
        i == CHOOSE k \in free : \A l \in free : k <= l
    IN  /\ accepter.pc = "accept"
        /\ p \in Waiting
        /\ conn[f] = Nobody
        /\ accepter' = [accepter EXCEPT !.pc = "close"]
        /\ IF free # {}
           THEN /\ plugin' = [plugin EXCEPT ![p] = "up"]
                /\ conn' = [conn EXCEPT ![f] = p]
                /\ IPCSockets' = [IPCSockets EXCEPT ![i] = f]
                /\ listener' = [listener EXCEPT ![p] =
                                   [pc |-> "start", slot |-> i]]
           ELSE \* close(new_socket)
                /\ plugin' = [plugin EXCEPT ![p] = "down"]
                /\ UNCHANGED <<conn, IPCSockets, listener>>
        /\ UNCHANGED <<wire, sent, alive, answered, strayed, torn, late>>

\* Mutant: the slot is not emptied.
CloseHungUpKeepsSlot ==
    LET slots == {i \in Slots : IPCSockets[i] # Free /\ i \in accepter.hup}
        fds == {IPCSockets[i] : i \in slots}
    IN  /\ accepter.pc = "close"
        /\ conn' = [f \in FDs |-> IF f \in fds THEN Nobody ELSE conn[f]]
        /\ accepter' = [pc |-> "build"]
        /\ UNCHANGED <<plugin, wire, sent, IPCSockets, listener, alive,
                       answered, strayed, torn, late>>

\* What poll said of a slot is applied to the descriptor that is in it now.
CloseHungUp ==
    LET slots == {i \in Slots : IPCSockets[i] # Free /\ i \in accepter.hup}
        fds == {IPCSockets[i] : i \in slots}
        closed == {conn[f] : f \in fds} \ {Nobody}
    IN  /\ accepter.pc = "close"
        /\ conn' = [f \in FDs |-> IF f \in fds THEN Nobody ELSE conn[f]]
        /\ IPCSockets' = [i \in Slots |->
                             IF i \in slots THEN Free ELSE IPCSockets[i]]
        /\ accepter' = [pc |-> "build"]
        /\ late' = (late \/ \E p \in closed : ~Ended(listener[p]))
        /\ UNCHANGED <<plugin, wire, sent, listener, alive, answered, strayed,
                       torn>>

-----------------------------------------------------------------------------
(* UnixListener.  p is the connection the thread was started for; what it  *)
(* reads from is whatever its descriptor stands for by then.               *)

Source(p) == Behind(listener[p].fd)

Goto(p, pc) == listener' = [listener EXCEPT ![p].pc = pc]
Return(p)   == listener' = [listener EXCEPT ![p] = Returned]

Receive(c) == wire' = [wire EXCEPT ![c] = Tail(@)]
Meets(p, c)   == strayed' = strayed \cup ({<<p, c>>} \ {<<p, p>>})

\* IPCSockets[args] is read when the thread runs, not when it was created.
StartListener(p) ==
    /\ listener[p].pc = "start"
    /\ listener' = [listener EXCEPT ![p] =
           [pc |-> "head", slot |-> @.slot, fd |-> IPCSockets[@.slot]]]
    /\ UNCHANGED <<plugin, wire, sent, conn, IPCSockets, accepter, alive,
                   answered, strayed, torn, late>>

\* The length of the next frame.  After an error the thread goes on with a
\* length nobody wrote; one of 0 leads to a text nobody wrote either.
RecvHead(p) ==
    LET c == Source(p)
    IN  /\ listener[p].pc = "head"
        /\ \/ /\ c = Nobody
              /\ \E pc \in {"body", "junk", "bad"} : Goto(p, pc)
              /\ UNCHANGED <<wire, strayed>>
           \/ /\ c # Nobody
              /\ wire[c] # <<>>
              /\ Receive(c)
              /\ Meets(p, c)
              /\ Goto(p, IF Head(wire[c]) = "head" THEN "body" ELSE "garbled")
        /\ UNCHANGED <<plugin, sent, conn, IPCSockets, accepter, alive,
                       answered, torn, late>>

\* The plugin closed its end.
StreamEnded(p) ==
    LET c == Source(p)
    IN  c # Nobody /\ wire[c] = <<>> /\ plugin[c] = "down"

\* Mutant: the slot is emptied, as it is in the middle of a frame.
RecvHeadEndsFrees(p) ==
    /\ listener[p].pc = "head"
    /\ StreamEnded(p)
    /\ IPCSockets' = [IPCSockets EXCEPT ![listener[p].slot] = Free]
    /\ Return(p)
    /\ UNCHANGED <<plugin, wire, sent, conn, accepter, alive, answered, strayed,
                   torn, late>>

\* Between two frames the thread just returns.
RecvHeadEnds(p) ==
    /\ listener[p].pc = "head"
    /\ StreamEnded(p)
    /\ Return(p)
    /\ UNCHANGED <<plugin, wire, sent, conn, IPCSockets, accepter, alive,
                   answered, strayed, torn, late>>

\* The stream ends, or is no longer there, before the frame is whole: the slot
\* is emptied, whatever is in it now, and the descriptor is not closed.
RecvBodyEnds(p) ==
    /\ listener[p].pc \in {"body", "garbled"}
    /\ Source(p) = Nobody \/ StreamEnded(p)
    /\ IPCSockets' = [IPCSockets EXCEPT ![listener[p].slot] = Free]
    /\ Return(p)
    /\ UNCHANGED <<plugin, wire, sent, conn, accepter, alive, answered, strayed,
                   torn, late>>

\* The frame is whole and is parsed.  One that is put together from the wrong
\* pieces either waits for more or ends in a text without an endpoint.
RecvBody(p) ==
    LET c == Source(p)
        piece == Head(wire[c])
    IN  /\ listener[p].pc \in {"body", "garbled"}
        /\ c # Nobody
        /\ wire[c] # <<>>
        /\ Receive(c)
        /\ Meets(p, c)
        /\ \/ /\ listener[p].pc = "body" /\ piece \in Bodies
              /\ Goto(p, piece)
           \/ /\ listener[p].pc = "garbled" \/ piece = "head"
              /\ \E pc \in {"garbled", "junk", "bad"} : Goto(p, pc)
        /\ UNCHANGED <<plugin, sent, conn, IPCSockets, accepter, alive,
                       answered, torn, late>>

\* "Unintelligable payload": the thread returns, and leaves the connection open
\* and its slot taken, with nobody to read it.
GiveUp(p) ==
    /\ listener[p].pc = "junk"
    /\ listener' = [listener EXCEPT ![p] = GaveUp]
    /\ UNCHANGED <<plugin, wire, sent, conn, IPCSockets, accepter, alive,
                   answered, strayed, torn, late>>

\* strcmp or strdup of a null pointer, and every thread ends with the process.
Dies(p) ==
    /\ listener[p].pc = "bad"
    /\ alive' = FALSE
    /\ UNCHANGED <<plugin, wire, sent, conn, IPCSockets, accepter, listener,
                   answered, strayed, torn, late>>

\* Mutant: the branch of an endpoint that does nothing answers nothing.
AnswerNothing(p) ==
    /\ listener[p].pc = "query"
    /\ Goto(p, "head")
    /\ UNCHANGED <<plugin, wire, sent, conn, IPCSockets, accepter, alive,
                   answered, strayed, torn, late>>

\* The answer goes to the descriptor; then the next frame.
Answer(p) ==
    LET c == Source(p)
    IN  /\ listener[p].pc = "query"
        /\ IF c # Nobody
           THEN /\ answered' = [answered EXCEPT ![c] = @ + 1]
                /\ Meets(p, c)
           ELSE UNCHANGED <<answered, strayed>>
        /\ Goto(p, "head")
        /\ UNCHANGED <<plugin, wire, sent, conn, IPCSockets, accepter, alive,
                       torn, late>>

-----------------------------------------------------------------------------

UnixAccepter ==
    /\ alive
    /\ \/ BuildPollfds
       \/ PollReturns
       \/ \E p \in Plugins, f \in FDs : Accept(p, f)
       \/ CloseHungUp

UnixListener(p) ==
    /\ alive
    /\ \/ StartListener(p)
       \/ RecvHead(p)
       \/ RecvHeadEnds(p)
       \/ RecvBody(p)
       \/ RecvBodyEnds(p)
       \/ GiveUp(p)
       \/ Dies(p)
       \/ Answer(p)

PluginStep(p) ==
    \/ Connect(p)
    \/ \E body \in Bodies : SendFrame(p, body)
    \/ HangUp(p)
    \/ HangUpMidFrame(p)

Next ==
    \/ UnixAccepter
    \/ \E p \in Plugins : (alive /\ PluginStep(p)) \/ UnixListener(p)

Spec == Init /\ [][Next]_vars

\* Every thread of the server runs on while the process lives; an answer fits
\* into the buffer of its socket.  Plugins need not do anything.
FairSpec ==
    /\ Spec
    /\ WF_vars(UnixAccepter)
    /\ \A p \in Plugins : WF_vars(UnixListener(p))

-----------------------------------------------------------------------------
(* Properties.                                                             *)

Threads ==
    {NoThread, Returned, GaveUp}
    \cup [pc : {"start"}, slot : Slots]
    \cup [pc : {"head", "body", "garbled"} \cup Bodies, slot : Slots,
          fd : FDs \cup {Free}]

Accepters ==
    {[pc |-> "build"]}
    \cup [pc : {"poll"}, watched : [Slots -> FDs \cup {Free}]]
    \cup [pc : {"accept", "close"}, hup : SUBSET Slots]

\* Every variable has a value of its type.
TypeOK ==
    /\ plugin \in [Plugins -> {"new", "waiting", "up", "down"}]
    /\ wire \in [Plugins -> Seq({"head"} \cup Bodies)]
    /\ sent \in [Plugins -> 0 .. MaxFrames]
    /\ conn \in [FDs -> Plugins \cup {Nobody}]
    /\ IPCSockets \in [Slots -> FDs \cup {Free}]
    /\ accepter \in Accepters
    /\ listener \in [Plugins -> Threads]
    /\ alive \in BOOLEAN
    /\ answered \in [Plugins -> Nat]
    /\ strayed \subseteq Plugins \X Plugins
    /\ torn \in BOOLEAN /\ late \in BOOLEAN

\* A plugin that was given a slot stays connected until it hangs up: a stale
\* answer of poll closes somebody else only where a listener emptied the slot
\* in between, which takes a plugin that hung up in the middle of a frame or a
\* listener that outlived its connection.
LivePluginsStay ==
    \A p \in Plugins :
        plugin[p] = "up" => torn \/ late \/ \E f \in FDs : conn[f] = p

\* Whatever the plugins and the threads do, faults included: the slots in use
\* hold different descriptors, and all of them are open.  A slot emptied too
\* early, by a listener whose plugin hung up inside a frame, or closed on a stale
\* answer of poll, never leaves a descriptor behind that the next plugin is given
\* a second time (UnixAccepter, UnixListener).
SlotsAreOpen ==
    /\ \A i \in Slots : IPCSockets[i] # Free => conn[IPCSockets[i]] # Nobody
    /\ \A i, j \in Slots :
           IPCSockets[i] = IPCSockets[j] /\ IPCSockets[i] # Free => i = j

\* Each listener reads and answers its own connection and no other, although it
\* holds only a number, unless a descriptor was closed under a running listener.
ListenersKeepToTheirOwn ==
    late \/ strayed = {}

\* The descriptor of a plugin that hung up is closed in the end, so that slots
\* and descriptors do not run out, unless a plugin hung up in the middle of a
\* frame, a descriptor was closed under a running listener, or a frame killed the
\* server (and the kernel closed everything).
HungUpIsClosed ==
    \A p \in Plugins :
        plugin[p] = "down" ~>
            torn \/ late \/ ~alive \/ \A f \in FDs : conn[f] # p

\* Every frame is answered if its plugin stays and sent nothing that cannot be
\* parsed, unless some plugin's frame killed the server for all of them; the two
\* faults above excepted.
EveryFrameIsAnswered ==
    \A p \in Plugins : \A n \in 1 .. MaxFrames :
        sent[p] = n ~>
            \/ answered[p] >= n
            \/ plugin[p] = "down" \/ listener[p] = GaveUp
            \/ torn \/ late \/ ~alive

=============================================================================
