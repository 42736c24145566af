----------------------------- MODULE YampFraming -----------------------------
(***************************************************************************)
(* Frames on the sockets of clients, and the one thread that reads and     *)
(* writes all of them with calls that block: SSL_accept, the receive loops *)
(* of network.c, and the sends of answers and events.                      *)
(*                                                                         *)
(* A frame is a head (its length) and BodyLen more units.  A client sends  *)
(* its frames in chunks of its own choosing: a frame in parts, several     *)
(* frames at once.  The stream is counted, not stored: unit i of a client  *)
(* belongs to frame (i - 1) \div FrameLen + 1.  On a TLS connection a      *)
(* chunk is a record; SSL_read takes a whole record from the socket and    *)
(* hands out as much of it as was asked for.                               *)
(*                                                                         *)
(* Slots, maps and refused connections are those of YampRegistry.  The     *)
(* four bytes of a head arrive together.                                   *)
(***************************************************************************)
EXTENDS Integers, Sequences, FiniteSets

CONSTANTS
    Clients,    \* connections of clients
    TLS,        \* those made to the TLS port
    Nobody,     \* no client
    BodyLen,    \* units of a frame behind its head
    Room,       \* answers and events a socket holds until its client reads
    MAX_EVENTS, \* size of the array epoll_wait fills
    MaxUnits    \* bound: units each client sends

ASSUME ClientsAssumption == TLS \subseteq Clients /\ Nobody \notin Clients
ASSUME SizesAssumption ==
    /\ BodyLen \in Nat \ {0}
    /\ Room \in Nat \ {0}
    /\ MAX_EVENTS \in Nat \ {0}
    /\ MaxUnits \in [Clients -> Nat]

FrameLen == BodyLen + 1

VARIABLES
    phase,   \* of a connection: "new", "dialled", "open", "over"
    gone,    \* clients that closed their end
    shaken,  \* TLS clients that have played their part of the handshake
    sent,    \* units each client has sent
    records, \* TLS: where its records end in the stream
    drained, \* units that have left the socket's buffer
    taken,   \* units that recv or SSL_read have handed out
    unread,  \* answers and events in the socket that its client has not read
    events,  \* the events of the current batch not handled yet
    loop,    \* where the thread is
    \* History variables: no guard reads them.
    handled,   \* frames handed to ProcessRequest, whole and in order
    strayed,   \* clients of whose stream something else was read as a frame
    inParts,   \* clients that sent a frame in more than one chunk
    hasty,     \* clients that sent of a frame before the last was handled
    coalesced  \* TLS clients that put pieces of two frames into one record

stream  == <<sent, records, drained, taken>>
history == <<handled, strayed, inParts, hasty, coalesced>>
vars == <<phase, gone, shaken, stream, unread, events, loop, history>>

At(pc, c)   == [pc |-> pc, client |-> c]
InBatch     == At("batch", Nobody)
Body(c, n)  == [pc |-> "body", client |-> c, got |-> n]
\* What is still to be sent, and to whom, before the next event.
Sending(s)  == IF s = <<>> THEN InBatch ELSE [pc |-> "send", left |-> s]

Init ==
    /\ phase = [c \in Clients |-> "new"]
    /\ gone = {}
    /\ shaken = {}
    /\ sent = [c \in Clients |-> 0]
    /\ records = [c \in Clients |-> {}]
    /\ drained = [c \in Clients |-> 0]
    /\ taken = [c \in Clients |-> 0]
    /\ unread = [c \in Clients |-> 0]
    /\ events = {}
    /\ loop = InBatch
    /\ handled = [c \in Clients |-> 0]
    /\ strayed = {}
    /\ inParts = {}
    /\ hasty = {}
    /\ coalesced = {}

-----------------------------------------------------------------------------
(* The clients (not in the repository).                                    *)

Dial(c) ==
    /\ phase[c] = "new"
    /\ phase' = [phase EXCEPT ![c] = "dialled"]
    /\ UNCHANGED <<gone, shaken, stream, unread, events, loop, history>>

Handshake(c) ==
    /\ loop = At("SSL_accept", c)
    /\ c \notin gone \cup shaken
    /\ shaken' = shaken \cup {c}
    /\ UNCHANGED <<phase, gone, stream, unread, events, loop, history>>

\* The frame a unit of the stream belongs to.
FrameOf(i) == (i - 1) \div FrameLen + 1

AtFrameEnd(i) == i % FrameLen = 0

Send(c, n) ==
    LET last == sent[c] + n
    IN  /\ phase[c] = "open"
        /\ c \notin gone
        /\ last <= MaxUnits[c]
        /\ sent' = [sent EXCEPT ![c] = last]
        /\ records' = [records EXCEPT ![c] = IF c \in TLS THEN @ \cup {last} ELSE @]
        /\ inParts' = inParts \cup
               (IF AtFrameEnd(sent[c]) /\ AtFrameEnd(last) THEN {} ELSE {c})
        /\ hasty' = hasty \cup
               (IF FrameOf(last) > handled[c] + 1 THEN {c} ELSE {})
        /\ coalesced' = coalesced \cup
               (IF c \in TLS /\ FrameOf(sent[c] + 1) # FrameOf(last)
                THEN {c} ELSE {})
        /\ UNCHANGED <<phase, gone, shaken, drained, taken, unread, events,
                       loop, handled, strayed>>

Read(c) ==
    /\ phase[c] = "open"
    /\ c \notin gone
    /\ unread[c] > 0
    /\ unread' = [unread EXCEPT ![c] = 0]
    /\ UNCHANGED <<phase, gone, shaken, stream, events, loop, history>>

HangUp(c) ==
    /\ phase[c] \in {"dialled", "open"}
    /\ c \notin gone
    /\ gone' = gone \cup {c}
    /\ UNCHANGED <<phase, shaken, stream, unread, events, loop, history>>

-----------------------------------------------------------------------------
(* The epoll loop.                                                         *)

\* Mutant: only a hang-up is waited for.
ReadableOnHup(c) == c \in gone

\* What is left of a record inside the SSL object does not count.
Readable(c) == sent[c] > drained[c] \/ c \in gone

\* A dialled connection stands for the event of its listener.
Ready == {c \in Clients : \/ phase[c] = "dialled"
                          \/ phase[c] = "open" /\ Readable(c)}

Batches ==
    {B \in SUBSET Ready : Cardinality(B) =
        IF Cardinality(Ready) < MAX_EVENTS THEN Cardinality(Ready)
                                           ELSE MAX_EVENTS}

epoll_wait(B) ==
    /\ loop = InBatch
    /\ events = {}
    /\ B # {}
    /\ events' = B
    /\ UNCHANGED <<phase, gone, shaken, stream, unread, loop, history>>

\* The next event of the batch.
Event(c) ==
    /\ loop = InBatch
    /\ c \in events
    /\ events' = events \ {c}

\* The hello goes into an empty buffer and cannot block.
Open(c) ==
    /\ phase' = [phase EXCEPT ![c] = "open"]
    /\ unread' = [unread EXCEPT ![c] = 1]

Accept(c) ==
    /\ Event(c)
    /\ phase[c] = "dialled"
    /\ IF c \in TLS THEN /\ loop' = At("SSL_accept", c)
                         /\ UNCHANGED <<phase, unread>>
                    ELSE /\ Open(c)
                         /\ UNCHANGED loop
    /\ UNCHANGED <<gone, shaken, stream, history>>

SSL_accept(c) ==
    /\ loop = At("SSL_accept", c)
    /\ \/ c \in shaken /\ Open(c)
       \/ /\ c \in shaken \cup gone
          /\ phase' = [phase EXCEPT ![c] = "over"]
          /\ UNCHANGED unread
    /\ loop' = InBatch
    /\ UNCHANGED <<gone, shaken, stream, events, history>>

-----------------------------------------------------------------------------
(* YAMPRecv and TLSYAMPRecv.                                               *)

Lesser(m, n) == IF m < n THEN m ELSE n

\* How far one call can read: SSL_read stops at the end of a record.
Reach(c) ==
    IF c \in TLS THEN CHOOSE r \in records[c] :
                          /\ r > taken[c]
                          /\ \A s \in records[c] : s > taken[c] => r <= s
    ELSE sent[c]

Arrived(c) == sent[c] > taken[c]

\* Mutant: what a call returns is taken to be what it was asked for.
TakeAsked(c, n) ==
    /\ taken' = [taken EXCEPT ![c] = @ + n]
    /\ drained' = [drained EXCEPT ![c] =
                      IF c \in TLS THEN Reach(c) ELSE Lesser(taken[c] + n, sent[c])]
    /\ UNCHANGED <<sent, records>>

\* One call that asks for up to n units and finds some.
Take(c, n) ==
    LET upTo == Lesser(taken[c] + n, Reach(c))
    IN  /\ taken' = [taken EXCEPT ![c] = upTo]
        /\ drained' = [drained EXCEPT ![c] = IF c \in TLS THEN Reach(c) ELSE upTo]
        /\ UNCHANGED <<sent, records>>

\* DisconnectClient: what is in the buffers of the socket is lost with it, and
\* the history variables forget the connection.
Disconnect(c) ==
    /\ phase' = [phase EXCEPT ![c] = "over"]
    /\ sent' = [sent EXCEPT ![c] = 0]
    /\ records' = [records EXCEPT ![c] = {}]
    /\ drained' = [drained EXCEPT ![c] = 0]
    /\ taken' = [taken EXCEPT ![c] = 0]
    /\ unread' = [unread EXCEPT ![c] = 0]
    /\ loop' = InBatch
    /\ handled' = [handled EXCEPT ![c] = 0]
    /\ strayed' = strayed \ {c}
    /\ inParts' = inParts \ {c}
    /\ hasty' = hasty \ {c}
    /\ coalesced' = coalesced \ {c}

\* The head.  Out of step with the stream, any length comes out of it, 0 too.
RecvHead(c) ==
    /\ Event(c)
    /\ phase[c] = "open"
    /\ Arrived(c)
    /\ Take(c, 1)
    /\ IF AtFrameEnd(taken[c])
         THEN /\ loop' = Body(c, 0)
              /\ UNCHANGED strayed
         ELSE /\ loop' \in {At("garbled", c), At("process", c)}
              /\ strayed' = strayed \cup {c}
    /\ UNCHANGED <<phase, gone, shaken, unread, handled, inParts, hasty,
                   coalesced>>

\* Only YAMPRecv refuses a length above YAMP_MAX_PAYLOAD.
HeadTooLong(c) ==
    /\ Event(c)
    /\ phase[c] = "open"
    /\ Arrived(c)
    /\ c \notin TLS
    /\ Disconnect(c)
    /\ UNCHANGED <<gone, shaken>>

\* Mutant: an end of file is taken for an empty read.
HeadEndsUnseen(c) ==
    /\ Event(c)
    /\ phase[c] = "open"
    /\ ~Arrived(c)
    /\ c \in gone
    /\ UNCHANGED <<phase, loop, gone, shaken, stream, unread, history>>

\* The client closed its end between two frames.
HeadEnds(c) ==
    /\ Event(c)
    /\ phase[c] = "open"
    /\ ~Arrived(c)
    /\ c \in gone
    /\ Disconnect(c)
    /\ UNCHANGED <<gone, shaken>>

\* Mutant: one call of recv is enough for a body.
RecvBodyOnce(c) ==
    /\ loop.pc = "body" /\ loop.client = c
    /\ Arrived(c)
    /\ Take(c, BodyLen)
    /\ loop' = At("process", c)
    /\ strayed' = strayed \cup (IF AtFrameEnd(taken'[c]) THEN {} ELSE {c})
    /\ UNCHANGED <<phase, gone, shaken, unread, events, handled, inParts,
                   hasty, coalesced>>

\* The body.  Each call asks for the full length, however much is there by now,
\* so that the last one may read into the next frame.
RecvBody(c) ==
    /\ loop.pc = "body" /\ loop.client = c
    /\ Arrived(c)
    /\ Take(c, BodyLen)
    /\ LET got == loop.got + taken'[c] - taken[c]
       IN  /\ loop' = IF got < BodyLen THEN Body(c, got) ELSE At("process", c)
           /\ strayed' = strayed \cup (IF got > BodyLen THEN {c} ELSE {})
    /\ UNCHANGED <<phase, gone, shaken, unread, events, handled, inParts,
                   hasty, coalesced>>

\* Behind a head that is none, the loop reads until a length nobody wrote.
RecvGarbled(c) ==
    /\ loop = At("garbled", c)
    /\ Arrived(c)
    /\ \E n \in 1 .. MaxUnits[c] : Take(c, n)
    /\ loop' \in {At("garbled", c), At("process", c)}
    /\ UNCHANGED <<phase, gone, shaken, unread, events, history>>

\* The client closed its end inside a frame.  recv returns 0, which is added to
\* the total for ever; after an error it returns -1, and with a total below 0
\* the loop ends, with a text that nobody sent.
BodyFails(c) ==
    /\ loop.pc \in {"body", "garbled"} /\ loop.client = c
    /\ ~Arrived(c)
    /\ c \in gone
    /\ loop' = At("process", c)
    /\ strayed' = strayed \cup {c}
    /\ UNCHANGED <<phase, gone, shaken, stream, unread, events, handled,
                   inParts, hasty, coalesced>>

-----------------------------------------------------------------------------
(* ProcessRequest, the events it pushes and the answer.                    *)

Pushes(c) == {<<>>} \cup {<<d>> : d \in {e \in Clients : phase[e] = "open"}}

\* A frame leads to at most one event in the model, and maybe to an answer.
ProcessRequest(c) ==
    /\ loop = At("process", c)
    /\ \E push \in Pushes(c), answer \in {<<>>, <<c>>} :
           loop' = Sending(push \o answer)
    /\ handled' = [handled EXCEPT ![c] = IF c \in strayed THEN @ ELSE @ + 1]
    /\ UNCHANGED <<phase, gone, shaken, stream, unread, events, strayed,
                   inParts, hasty, coalesced>>

\* A send waits for room in the buffer, unless nobody will read it any more.
HasRoom(d) == unread[d] < Room \/ d \in gone

YAMPSend ==
    /\ loop.pc = "send"
    /\ LET d == Head(loop.left)
       IN  /\ HasRoom(d)
           /\ unread' = [unread EXCEPT ![d] = IF d \in gone THEN @ ELSE @ + 1]
    /\ loop' = Sending(Tail(loop.left))
    /\ UNCHANGED <<phase, gone, shaken, stream, events, history>>

-----------------------------------------------------------------------------
ClientStep(c) ==
    \/ Dial(c) \/ Handshake(c) \/ Read(c) \/ HangUp(c)
    \/ \E n \in 1 .. 2 * FrameLen : Send(c, n)

\* What the thread does between two calls of epoll_wait.
HandleEvent ==
    \/ \E c \in Clients :
           \/ Accept(c) \/ SSL_accept(c)
           \/ RecvHead(c) \/ HeadTooLong(c) \/ HeadEnds(c)
           \/ RecvBody(c) \/ RecvGarbled(c)
           \/ ProcessRequest(c)
    \/ YAMPSend

Next ==
    \/ \E c \in Clients : ClientStep(c) \/ BodyFails(c)
    \/ \E B \in Batches : epoll_wait(B)
    \/ HandleEvent

Spec == Init /\ [][Next]_vars

\* The thread runs on when no call holds it, and a connection that stays ready
\* comes to the front of the kernel's ready list.  Clients need not do anything.
FairSpec ==
    /\ Spec
    /\ WF_vars(HandleEvent)
    /\ \A c \in Clients : SF_vars(\E B \in Batches : c \in B /\ epoll_wait(B))

-----------------------------------------------------------------------------
(* Properties.                                                             *)

Points ==
    {InBatch}
    \cup {At(pc, c) : pc \in {"SSL_accept", "garbled", "process"}, c \in Clients}
    \cup {Body(c, n) : c \in Clients, n \in 0 .. BodyLen - 1}
    \cup {Sending(s) : s \in UNION {[1 .. n -> Clients] : n \in 0 .. 2}}

\* Every variable has a value of its type, and the stream is read in order.
TypeOK ==
    /\ phase \in [Clients -> {"new", "dialled", "open", "over"}]
    /\ gone \subseteq Clients /\ shaken \subseteq TLS
    /\ \A c \in Clients :
           /\ taken[c] \in 0 .. drained[c]
           /\ drained[c] \in 0 .. sent[c]
           /\ sent[c] \in 0 .. MaxUnits[c]
           /\ records[c] \subseteq 1 .. sent[c]
    /\ unread \in [Clients -> 0 .. Room]
    /\ events \subseteq Clients
    /\ loop \in Points
    /\ handled \in [Clients -> Nat]
    /\ strayed \subseteq Clients /\ inParts \subseteq Clients
    /\ hasty \subseteq Clients /\ coalesced \subseteq TLS

\* What ProcessRequest is given are the frames of the client, each whole and in
\* the order they were sent, however they were cut into chunks.  It takes a
\* client that hangs up inside a frame, or one that sends a frame in parts and
\* the next before it was answered (on a TLS connection: in the same record), to
\* get the loop out of step.
FramesStayWhole ==
    \A c \in strayed :
        \/ c \in gone /\ ~AtFrameEnd(sent[c])
        \/ c \in inParts \cap (IF c \in TLS THEN coalesced ELSE hasty)

\* The call the thread is in waits for somebody else, or never returns: a
\* handshake the client does not go on with, a frame whose rest does not come
\* (after an end of file, recv returns 0 again and again), a client that does
\* not read what it is sent.
Stuck ==
    \/ loop.pc = "SSL_accept" /\ loop.client \notin shaken \cup gone
    \/ loop.pc \in {"body", "garbled"} /\ ~Arrived(loop.client)
    \/ loop.pc = "send" /\ ~HasRoom(Head(loop.left))

\* No client holds the thread for ever.
NobodyHoldsTheLoop == []<>~Stuck

\* If no client holds the thread for ever, each frame is handled or the
\* connection of its client ends, whatever the other clients do and however few
\* events epoll_wait returns; excepted are a client whose stream got out of
\* step, and one that put two frames into one TLS record, the second of which
\* stays in the SSL object, where epoll does not see it.
EveryFrameIsHandled ==
    NobodyHoldsTheLoop =>
        \A c \in Clients : \A n \in 1 .. MaxUnits[c] \div FrameLen :
            sent[c] >= n * FrameLen ~>
                \/ handled[c] >= n
                \/ phase[c] = "over"
                \/ c \in strayed \cup coalesced

\* If no client holds the thread for ever, every connection whose client hung
\* up is closed, before it was accepted as well.
EveryHangupIsNoticed ==
    NobodyHoldsTheLoop =>
        \A c \in Clients : c \in gone ~> phase[c] = "over"
=============================================================================
