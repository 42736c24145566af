# A TLA+ model of yamp-server

`yampd` is a chat server in C: an epoll loop that serves clients over TCP and
TLS, an SQLite database, an HTTP server for uploads and files, and a socket for
plugins. This directory holds TLA+ modules for its stateful parts, TLC
configurations that check them on small instances, and TLAPS proofs that hold
for every value of the constants. `PROJECT.json` lists components, runs,
mutants, the source lines behind every definition, findings, hazards and
theorems.

To check a module: `tlc -workers 2 -config Registry.cfg MCRegistry`. To check
proofs: `tlapm YampRegistryProofs.tla`.

## 1. The system

### Threads

| thread | code | shares |
| --- | --- | --- |
| epoll loop, one thread for all clients | `main.c` `main`, `request.c` `ProcessRequest` | everything below |
| accepter and one listener per plugin | `main.c` `UnixAccepter`, `UnixListener` | `IPCSockets`, `respoverrides`, the database |
| civetweb workers | `http.c` handlers | `UTStack` under `UTLock` |

### Components, their state and what makes them correct

| component | state | operations | correct if |
| --- | --- | --- | --- |
| connection table | `client_sockets`, descriptors, epoll set, event batch | accept, receive, disconnect | slots, descriptors and registrations describe the same connections; no event is applied to another connection |
| user registry | `UsersByFD`, `UsersByName`, `UsersByID` | auth, UpdateUserProfile, disconnect; every push reads | a request runs under its sender's account; a push reaches its addressee |
| friends | tables `friendreq`, `friendship` | Send/Accept/DenyFriendReq, ListFriends, auth | one friendship per request accepted, none made up, none lost; clients know what the tables say |
| direct conversations | table `dm` | StartDM, ListConversations | one conversation per pair |
| messages and history | table `messages` | SendMessage, DeleteMessage, GetMessageHistory | clients show what the history holds; paging skips nothing; replies end |
| groups | tables `gc`, `user-gc` | CreateGC, UpdateGC, AddMemberToGC | members only read and write |
| spaces and channels | tables `spaces`, `channels`, `user-space` | CreateSpace, InsertChannel, RepositionChannel, GetChannels | siblings have distinct positions without gaps; a space that was promised has a member; members see every channel |
| rate limits | `ratelimited`, `LastEndpoint`, `LastRegistration` in a slot | preamble of every request, register | a flood is refused (it is not, see 4); registrations are spaced |
| upload tokens, uploads | list `UTStack`, files of the CDN directory | UploadFile, PUT /cdn/upload/ | a token grants one upload; the list survives all interleavings; files match answers |
| accounts, sessions | tables `users`, `sessions` | register, login | a token opens the account it was given for; accounts are spaced |
| profiles | columns of `users`, copies in the registry | auth, UpdateUserProfile | no update brings back an older value; friends see the newest |
| presence | presence of map entries, status events | auth, disconnect, ListFriends | friends see who is connected |
| framing | bytes of a socket, the call the loop is in | `network.c`, accepts and sends of `main.c` | frames are neither split nor joined; everybody is served |
| plugin IPC, overrides | `IPCSockets`, `respoverrides` | accept, listen, SetMainRespOverride | a plugin is served by its own thread and stays connected; slots come back; frames are answered |

They interact by calls within the epoll thread (a handler writes tables, then
pushes events through the registry to other clients' sockets), by the mutex
`UTLock`, and by unguarded globals between the plugin threads and the epoll loop.

### What is hard about it

* Descriptors and slots are reused while a batch of events is being handled.
* `auth` copies a `Connection` by value; three maps outlive one another.
* An account may be on several connections, and a connection may authenticate
  several times.
* The schema has no keys that keep the tables sensible, handlers have no
  transactions, and most results of `sqlite3_step` are ignored: a crash or a
  failed write between two statements shows.
* Events are pushed before the write they announce.
* Page cursors, slots and tokens name things another client may remove.
* Worker threads free list nodes the epoll loop walks over.
* The one thread that serves all clients waits for each of them in calls that block.

`PROJECT.json` lists each hazard at its line, with the properties about it.

## 2. Modules

| module | models | state in the model |
| --- | --- | --- |
| `YampRegistry` | `main.c` loop, `DisconnectClient`, the map updates of `request.c` | slots, kernel tables, batch, maps |
| `YampFraming` | `network.c`, the accepts, receives and sends of the loop | streams of clients as counts of units, socket buffers, the call the thread is in |
| `YampSocial` | friend and DM handlers, their tables, what clients were told | tables as functions to row counts, the request cut by a crash |
| `YampMessages` | send, delete, page, add a member; clients' views of one channel | table, members, views, page requests on their way |
| `YampChannels` | CreateSpace, InsertChannel, RepositionChannel, GetChannels, statement by statement | tables as sequences of rows, the request between two statements, clients' lists |
| `YampRateLimit` | preamble of `ProcessRequest`, the test of `register` | counters per slot, clock |
| `YampAccounts` | register and login on top of `YampRateLimit` (EXTENDS) | tables, tokens clients hold |
| `YampProfiles` | auth, ListFriends, UpdateUserProfile, disconnect, as far as profiles and presence go | profile columns, copies in the maps, what clients were shown |
| `YampIPC` | `UnixAccepter`, `UnixListener` | plugins' streams, descriptors, slots, a program counter per thread |
| `UploadTokens` | what tokens promise (abstract) | issued and granted tokens |
| `YampUploads` | token list with its mutex, `Upload_Handler`, files | heap nodes, program counters, files |
| `MC*` | symmetry and constants for TLC | |
| `Yamp*Proofs` | theorems and proofs | |

Each action is a handler, or, where another thread or a crash can come between
its parts, one of those parts. Mutant operators (marked `Mutant` in the
modules, used by no specification) are plausible bugs that violate a property.

**YampRegistry.** A connection is a number; `sock` (the kernel's descriptor
table) maps descriptors to them, and the server knows descriptors only.
`Accept`, `AcceptFails`, `HandleAuth`, `HandleUpdateUserProfile`, `HandleOther`,
`DisconnectClient` are the branches of the loop; `epoll_wait` starts a batch,
whose events are handled in any order while clients dial, send and hang up.
Clients send whole frames and no call blocks: both are the subject of
`YampFraming`. The test for stale events has no action of its own,
because `BatchIsFresh`, checked and proved, says that it never succeeds. The
history variables `authed`, `switched` and `overlapped` record, per connection,
the account it last authenticated as; accounts left behind by a second `auth`;
accounts that were on two connections at once. The properties about pushes
exempt the last two. What happens to the first of them is the run
`RegistryReauth`.

**YampFraming.** A frame is a head and `BodyLen` units; a client's stream is not
stored but counted (`sent`, and what left the socket, `drained`, and what the
receive calls handed out, `taken`), since unit i belongs to a known frame. Clients
cut their streams into chunks of any size, hang up anywhere, and read what they
are sent or not; on a TLS connection a chunk is a record, which `SSL_read` takes
from the socket as a whole. `loop` is the call the thread is in: `SSL_accept`, the
receive loop with the number of units it has got, the receive loop behind a
length nobody wrote (`garbled`), the sends of an event and an answer. Every call
of the receive loop asks for the full length, as the code does. A call that
would wait is an action that is not enabled (`Stuck`). The history variables say
what a client has done: `inParts` (a frame in more than one chunk), `hasty` (part
of a frame before the one before it was handled), `coalesced` (pieces of two
frames in one record), and what became of it: `strayed` (something that is no
frame was, or is being, read as one). Slots, maps and refused connections are
those of `YampRegistry`; a dialled connection stands for the event of its
listener; a connection is forgotten when it is closed. The four bytes of a head
arrive together, and so do those of a TLS record.

**YampSocial.** Requests are handled one at a time, so only `AcceptFriendReq`
is cut in two (DELETE, then INSERT): a crash may come between. A failed INSERT
is a second outcome of the write, and both take away the friendship that was
accepted (`lost`). `waiting` and `accepted` remember what became of each stored
request. A SELECT that fails (`AreFriends` and `HasDMs` then answer 0,
`handlers.c:415`, `handlers.c:423`) is not among the faults of the model. (A failed INSERT of
`StartDM` leaves nothing behind and is a stuttering step.) `knownFriends` and
`knownReqs` are what the client of an account was told by `auth`, `ListFriends`
and events. One device per account; `YampRegistry` covers the others.

**YampMessages.** One channel of any kind, whose `members` the server asks the
database for. `SendMessage` pushes, and `InsertMessage` is the INSERT after it; a
crash may come between. A client's view is filled by pages and events; its page
request is a step of its own (`AskPage`), so that the message it names can be
deleted before the server handles it. Failed writes are remembered in `faulty`,
pages asked for before a missing message in `stranded`.

**YampChannels.** Each SQL statement of a writing endpoint is an action, and
`job` is the request between two of them. After a statement the process may die
(`Crash`), the statement may have failed without anybody looking (`Outcome`), or
the preparation of the next one ends the request (`Abort`). An id is the row's
index, the random ids being unique. `tied` and `gappy` are the groups of siblings
where the order is spoilt by something that the model knows of (a failed or
interrupted statement, two channels of one name, a position out of range, a move
that reaches into another group because the UPDATE at `request.c:880` looks at
the space and not at the parent); everywhere else the positions are 0 .. n-1 in
every state between two requests. A SELECT of the next position that fails and
leaves 0 (`request.c:1101`) is not among the faults of the model.

**YampAccounts.** EXTENDS `YampRateLimit`: its clock, its counter and its pause
are those of that module, and `register` and `login` are requests of it, so that
the properties of the limits are checked here too. `RegisterHalf` is a
registration whose session INSERT fails behind the committed account. A failed
INSERT of `login` is an error answer; the second `sqlite3_finalize` of the same
statement behind it (`request.c:350`) is undefined and has no other effect in the
model. Restarts, which forget the pause, are left out.

**YampProfiles.** `auth` copies a row into the maps, `UpdateUserProfile` merges
the request into that copy and writes all columns back. `online` and `outdated`
are what each client was shown. `accepted` and `overlapped` are history
variables: the last value per field that was answered with error 0, and accounts
that have been on two connections at once. `Restart` may come behind the UPDATE
and before the answer.

**YampIPC.** A plugin's stream is a sequence of pieces, two per frame; the
listener knows a slot and a descriptor number, `conn` what the number stands for.
The accepter's poll and the use of its result are two steps, between which
everything may happen. Closing all slots that hung up is one step: the loop
around it is not interrupted, and what is lost by this is a `close(0)` of a slot
that a listener emptied between the test and the close. A descriptor number
closed here may be reused by another plugin, not by a client socket. A send to a
plugin that is gone changes nothing (SIGPIPE is ignored since `http.c:397`), and
one to a plugin that is there fits into its buffer. A frame is answered, or cannot
be parsed and ends its thread, or kills the process (`Dies`): without an
endpoint, or as an override without key or val, it is handed to `strcmp` or
`strdup` as a null pointer. After that nothing happens any more (`alive`). `torn`
and `late` say that a fault of the code happened that some properties exempt: a
plugin that hung up in the middle of a frame, a descriptor closed under a
listener that still runs. The array of overrides is left out. Every listener
appends to it with `realloc` and `auth` reads it (`request.c:294`), in different
threads and without a lock; while no two of them do so at once it is an ordinary
list, and when two do it is a data race with no outcome to model.

**YampRateLimit.** Every call of `time(NULL)` in a handler is a value of its own
between the last one and `MaxTime`. The clock does not step back.

**YampUploads.** One step per node looked at and per pointer update block, for
every thread. A freed address may be allocated again at once, and is blank until
then, since `NoUseAfterFree` says that nobody reads it. An upload that ends and
one that breaks off are both `kept`, as the code does not tell them apart; the
answers 413 and 500 are both `error`. `Crash` also stands for `calloc` failing,
which `UploadFile` does not survive. Locals are cleared when they are dead.
`queue`, `granted` and `answers` are history variables.

## 3. Runs

| run | instance | shows |
| --- | --- | --- |
| `Registry` | 2 accounts, 2 descriptors, 2 slots, 2 events per batch, 3 connections | consistency of slots, descriptors, epoll set and maps; identity; pushes |
| `RegistryReauth` | as `Registry` | violated: a stale route sends events to an unauthenticated connection |
| `Framing` | a plain client with 2 frames of 3 units, a TLS client with 1 frame and the next head, 1 event per batch, buffers of 1 answer | which streams keep their frames; every frame is handled and every hang-up noticed unless somebody holds the thread |
| `Social` | 2 accounts, 1 id without account, 2 rows per request | tables and clients' knowledge |
| `SocialMutual` | same | violated: two accounts are friends twice |
| `Messages` | 2 users, 3 messages, pages of 1, 2 seconds, 1 fault | views against history |
| `Uploads` | 2 workers, 3 addresses, 3 tokens, 1 chunk | list, memory, files, refinement of `UploadTokens`; every PUT is answered |
| `Channels` | 2 users, 2 spaces, 3 channels, 2 names, 1 fault | positions, memberships, clients' lists |
| `IPC` | 2 plugins, 2 descriptors, 2 slots, 1 frame each | slots hold open descriptors; plugins stay, are answered and are cleaned up |
| `Accounts` | 2 slots, 3 names, 2 pairs of e-mail and password, 3 accounts, 2 tokens, pause 2, limit 2, 4 seconds | limits, spacing, tokens, logins |
| `Profiles` | 2 friends, 2 descriptors, 2 texts, 3 updates | presence and profiles |
| `ProfileUpdate` | same | violated: a friend is not sent the new profile |

Why the bounds are enough:

* `Registry`: three connections over two slots and two descriptors reuse both,
  with a third left to be refused; two events per batch let one event change
  what the next one finds. With two accounts there is an owner and a stranger.
  The proofs remove all of these bounds for the safety properties.
* `Framing`: two units of body are the least that can arrive in two parts; two
  frames let a part of one meet the other, on the plain connection in the buffer
  and on the TLS connection in a record. One event per batch makes the two
  connections compete; a buffer of one makes the hello block the first answer.
* `Social`: two accounts give both directions of a pair; the third id is the one
  StartDM accepts without an account. Two rows show a repeated request.
* `Messages`: three messages and pages of one give a first, a middle and a last
  page, with a middle message to delete; two seconds give equal and different
  stamps. `MaxFaults` bounds how many messages writes may swallow; a crash is
  not bounded.
* `Uploads`: three nodes are a first, a middle and a last one to unlink, for two
  workers that may look for the same token; one chunk more than the limit is the
  smallest upload that is too large.
* `Channels`: three channels give a move over a neighbour and a move over two, or
  a parent with a child; two spaces give somebody else's channels and a second
  position in `user-space`. One fault is enough to cut every request at every
  statement; `tied` and `gappy` keep what it left behind, so a second fault
  repeats the first elsewhere.
* `IPC`: two plugins meet in one descriptor or one slot when the first one is gone.
  The refusal of a plugin because all slots are full does not happen at this
  size. With three plugins one more fault comes within reach: a stale report of
  poll closes a live plugin behind a listener that had outlived its own
  connection. That is why `LivePluginsStay` exempts `late`, which two plugins do
  not need.
* `Accounts`: the pause of two seconds fits twice into the time that is modelled;
  three accounts over two pairs of credentials put two accounts under one. A
  limit of two is above what the counter ever reaches; the proof covers all limits.
* `Profiles`: two descriptors let one account be on two connections, or change
  hands; three updates are one by each of two connections and one by a copy that
  is behind.

Deadlock is checked in `Social`, `Messages`, `Uploads`, `Channels`, `Accounts` and
`Profiles`. The registry runs switch it off because dials are bounded and the
server then waits in `epoll_wait` for ever; `Framing`, because a client may hold
the thread for ever; `IPC`, because the plugins may be done
and the accepter then waits in `poll`, or the process is dead.

The type invariants of the modules with proofs are not in the lists of these
runs, because all of them are proved; `Framing` checks its own.

Fairness (`FairSpec`):

* `YampFraming`: weak fairness of `HandleEvent`, the thread, which runs on whenever
  the call it is in can return; strong fairness of `epoll_wait` reporting a given
  connection, because the kernel rotates its ready list and a socket that stays
  ready comes to its front. Clients are not fair, and nothing makes a blocked call
  return. So the two liveness properties are conditional: `NobodyHoldsTheLoop`
  says that the thread is not for ever in a call that waits for somebody else or
  never ends. The code does not guarantee it (see 4), and without it nothing
  else can be promised: the properties say that this is all that can go wrong.
  An end of file inside a frame has no fair action either: `recv` returns 0 again
  and again.
* `YampUploads`: weak fairness of each thread's steps; strong fairness of taking
  the mutex, since every holder releases it after finitely many steps and a
  thread that waits gets it in the end; weak fairness of reading a body, as
  the HTTP server ends a connection that stays silent. Registering, putting and
  crashing are not fair.
* `YampIPC`: weak fairness of the accepter and of each listener, which are
  threads of their own that the kernel schedules, while the process lives. Plugins
  are not fair: they may stay silent, and hang up or not.

## 4. Findings

* `RegistryReauth`: a second `auth` on a connection leaves the first account in
  `UsersByID`; after the disconnect its events go to whoever gets the descriptor.
* `SocialMutual`: both halves of the WHERE clause of `AreFriends` say the same.
* `ProfileUpdate`: `UpdateUserProfile` calls `PushProfileUpdate(ids[i], newusr.id)`,
  whose parameters are (from, to): the updater is sent its friends' profiles.

Met on the way, without a statement of the repository to hold against them or
without a run of their own:

* Connections and presence. The disconnect of one device removes the routes of the
  account's other device (`main.c:201`). `DisconnectClient` asks for the people
  related to the id NULL, so nobody is told that a friend has left (`main.c:196`).
* Friends. `ListFriendReqs` stores ids where names are looked up, so pending
  requests are missing from what `auth` answers (`request.c:275`).
  `PushNewConversation` sends the addressee its own profile.
* Limits. The counter in front of every request is there to answer error 5,
  "Ratelimited" (`request.c:24`). A request takes off the counter what it adds, so
  that error 5 is never answered, however many requests come and whatever the
  limit: the theorem `LimiterNeverFires` is the evidence.
* The loop and its calls. The handshake of a TLS client (`main.c:373`), the rest of
  a frame (`network.c:20`) and room for an answer are waited for in the thread that
  serves everybody: a client that is silent there stops the server. One that hangs
  up inside a frame stops it for good, because `recv` returns 0 and 0 is added to
  the total for ever. A frame in two parts with the next frame behind it swallows
  the start of that frame, because each call asks for the full length. A second
  frame in one TLS record is not handled until the client sends more: it is in the
  SSL object, where `epoll` does not see it.
* Accounts. A registration whose session INSERT fails does not start the pause;
  the client that repeats it under another name with the same e-mail and password
  makes an account that `login` never finds (`LoginIsStable` says that the first
  one keeps it).
* Profiles. An update behind a new login that leaves out the picture and the
  description sets them to NULL, since the copy `auth` makes does not hold them.
  An account on two connections writes back old copies.
* Spaces. `RepositionChannel` asks for no authentication, moves every channel of
  the name, shifts channels below other parents, and sends nobody the new order.
  `InsertChannel` checks neither that the space exists nor that the account is in
  it. Channels and memberships of a space are written even when the row of the
  space was not.
* Plugins. A frame without an endpoint, or an override without key or val, is a null
  pointer in `strcmp` or `strdup` (`main.c:66`, `main.c:82`): one plugin's frame ends
  the server. A frame that cannot be parsed ends the thread and leaves its slot taken.
  A plugin that hangs up in the middle of a frame leaves its descriptor open.
* Messages and uploads. A history page before a deleted message is empty and says
  that there is no more (`stranded`); a second deletion of a message ends the
  process (`DeleteGone`); a failed DELETE is announced as a deletion; an upload
  that breaks off is answered 201. The invite statements name a table the schema
  does not create.

## 5. Proofs

All theorems are proved for every value of the constants under the `ASSUME`s of
their module (distinct null values, positive sizes, `Epoch >= REGISTER_WAIT`).

* `YampRegistryProofs`: the checked invariants are not inductive. `IInv` adds
  six parts. `ConnsAreDistinct`: a connection is on one descriptor at most, was
  dialled and has left the backlog. `SlotsHoldTheirSSL`: a connected TLS slot
  holds the SSL object of its own descriptor. `OnlyOpenConnsAct`: only open
  connections have input, a hang-up or an account. `CopiesAreFaithful`: the copy
  in `UsersByFD` equals the slot that owns the descriptor. `RoutesMirrorFDs`: the
  entry by id is the one found by its descriptor, except for accounts in
  `switched`. `OneDevice`: outside `overlapped` an account has one connection.
  With it: `RegistryTyped`, `SlotsFollowSockets`, `EventsAreFresh`, `RequestsKeepIdentity`,
  `PushesReachTheirOwner`, `OnlineAccountsAreFound`.
* `YampSocialProofs`: the checked invariants are inductive together with two
  more. `RequestsWereAsked`: a request in the table, or in the hands of an
  interrupted `AcceptFriendReq`, is between two different accounts and was asked
  for. `AcceptedAreStored` makes `AcceptedAreFriends` precise: what is left of
  an acceptance is the row in the order of the request, which is what
  `AreFriends` looks for. `AreFriendsIsDirected` and `HasDMsIsSymmetric` say
  what the two queries decide. With it: `TablesStaySensible`,
  `FriendshipsWereAsked`, `RequestsSurvive`, `AcceptingMakesFriends`,
  `ClientsKnowTheirFriends`, `ConversationsAreUnique`.
* `YampAccountsProofs`, about `YampRateLimit` and `YampAccounts`. The limits: the
  counter stays in {-1, 0} because a request adds at most one and takes one off;
  the stamps never pass the clock. With it: `LimiterNeverFires` (which states a
  defect, no promise), `RegistrationsKeepDistance` (an action property). The accounts:
  `AccountsKeepLimits` shows that `AccountsSpec` implements
  `Spec` of `YampRateLimit`, so that the invariant of the limits, and the two
  theorems about them, hold for the run `Accounts` as well. The tables need one more
  part, `Remembered`: a slot's stamp is not older than any account with a session
  that was made through it; without it nothing connects the row and the stamp.
  With it: `AnsweredTokensWork`, `AccountsKeepDistance`, `LoginsStay` (an action
  property).
* `YampUploadsProofs`: what the list looks like can only be said together with
  who is inside. `IInv` adds: the mutex is held exactly by the thread between
  lock and unlock (`OneInside`); no node is linked twice; a walk is at a linked
  node or past the end; the node `RegisterUploadToken` works on stays allocated
  and unlinked until it is appended, because no client can present a token that
  was not sent to it yet (`NewNodeIsKept`); a token is in the list once and only
  if it was not consumed; a worker that holds a token is the only one, and the
  file of that token is its own (`UploadsAreGranted`). `LinkKeepsList` and
  `RemoveKeepsList` are the two surgeries on the list. With it:
  `TypeCorrectness`, `OneThreadInTheList`, `ListStaysSound`,
  `NobodyReadsFreedNodes`, `AnswersMatchFiles`, and `UploadsKeepPromise`: each
  step is a step of `UploadTokens` or changes nothing that it shows, with the
  tokens in the list for `valid`.
* `YampProfilesProofs`: the checked invariants need two parts about the maps. An
  entry names the connection it is for, and an account that was never on two
  connections has one entry, the same in `UsersByFD` and in `UsersByID`. With
  them: `TypeCorrectness`, `FriendsSeeEachOther`, `AcceptedProfilesStay`,
  `CopiesFollowRows`. That friends see each other rests on a friendship being
  known to both (`FriendshipsAssumption`), which is what the query of the
  handlers asks for in either order.
* `YampIPCProofs`: slots and descriptors are shared without a lock, so the proof
  says for each fact how much may have gone wrong. Always: a connection has one
  descriptor, a descriptor one slot, and slots hold open descriptors. While no
  descriptor was closed under a running thread (`late`): a listener's slot and
  descriptor are those of its own connection. While no plugin hung up inside a
  frame either (`torn`): every stream is cut between frames, so that no listener
  leaves its loop by emptying a slot, and what `poll` reported is still true when
  the accepter acts on it. With it: `TypeCorrectness`,
  `SlotsHoldOpenDescriptors`, `LivePluginsAreKept`, `ListenersStayHome`.
* `YampChannelsProofs`: the properties about positions hold between two requests;
  the invariant says what holds inside one. The group a request works on has a
  `Gap`, the position that the inserted row or the moved channel will take; its
  other channels (`Settled`) are apart and leave the gap free (`InPlace`), and in
  groups that are not `gappy` they fill 0 .. N but for the gap (`Numbered`).
  `MakeRoom` and `MoveGap` are the arithmetic of the two UPDATEs,
  `NextPosOfDense` that of `MAX(pos) + 1`, and `CountPositions` turns distinct
  positions 0 .. N-1 into N channels. For the order of spaces, the next position
  is the number of rows the account has (`NextSpacePosCounts`). For the lists and
  promises, a space that is being created is known to nobody
  (`NewSpacesAreEmpty`). With it: `TypeCorrectness`, `PositionsAreDistinct`,
  `PositionsAreDense`, `ListsFollowTable`, `PromisedSpacesAreKept`,
  `SpacesStayInOrder`.
* `YampMessagesProofs`: that a page is the last one says something about the view
  only if the view has no holes. `ViewsHaveNoGaps`: with a message a client shows
  every newer one, and it shows what is not older than the message that its page
  request names. It rests on `ViewersAreMembers` (only connected members have a
  view, and members are never removed), on `AudienceWasTold` (what is being sent
  is already shown by every connected member) and on `JobIsNewest` (the row
  that will be inserted comes behind all others, so that it leaves no gap).
  `PageFits` and `LastPageHoldsAll` are about the query: LIMIT rows before a row
  that is shown close up to it; if LIMIT + 1 rows were asked for and not found,
  the first LIMIT are all there are. The latter is a counting argument over a
  finite set: among the rows that are left out one is the newest, and with it
  and all newer ones there are LIMIT + 1. The ids may be infinitely many: rowids
  are typed as positive numbers. With it: `TypeCorrectness`, `ViewsAreNotStale`,
  `PagingMissesNothing`, `RepliesFollow`, `ViewsAreGapless`.

TLC checked each inductive invariant as an invariant of its instance before it
was proved.

Only model-checked: liveness (`EveryFrameIsHandled`, `EveryHangupIsNoticed`,
`EveryPutIsAnswered`, `HungUpIsClosed`, `EveryFrameIsAnswered`), which is out of
the prover's reach, and `YampFraming`, whose `FramesStayWhole` has no proof yet.
Every other safety property of a passing run is a theorem.

## 6. Not modelled

* Creation and update of groups (`CreateGC`, `UpdateGC`). `YampMessages` starts from
  groups that exist; the member that `CreateGC` leaves uninitialised when an id is
  unknown (`request.c:478`) is listed as a hazard without a property.
* A head or a TLS record that arrives in parts, and a send that is cut short.
  Frames are whole in every model but `YampFraming` and `YampIPC`.
* `respoverrides`, the array plugins append to without a lock.
* SELECTs that fail and answer 0 (`AreFriends`, `HasDMs`, the next position of a
  channel), and restarts in `YampAccounts`.
* `Typing`, `JoinChannel` and `LeaveChannel`, which push an event and keep no
  state, and the people a user is related to through spaces.
* Space invites: their table does not exist, so every call fails.
* The read-only HTTP handlers (no state), random ids and hashes (unique values),
  JSON, the test client.
* `hmap/`, `toml.c` and `ext/civetweb/`: vendored libraries, used here through what
  they promise (a map, a thread per HTTP request that ends with an answer). They
  are more than nine tenths of the C code under `src/`; the server itself is
  `main.c`, `request.c`, `handlers.c`, `http.c`, `network.c`, `helpers.c` and
  `globals.c`.

Memory that is leaked is left out; memory that is used after it was freed is
modelled for upload tokens.

## 7. Plan

Done, in this order: `YampRegistry` with its proofs, `YampSocial` with its
proofs, `YampRateLimit` with its proofs, `UploadTokens` and `YampUploads`,
`YampMessages`, `YampChannels`, `YampIPC`, `YampAccounts` with its proofs,
`YampProfiles`; then the proofs of `YampUploads`, `YampProfiles`, `YampIPC`,
`YampChannels` and `YampMessages`; then `YampFraming`.

1. `CreateGC` and `UpdateGC`, with the hole at an unknown member.
2. A proof of `FramesStayWhole`.
3. The open addressing of `hmap/hashmap.c` as a refinement of a function.
4. A composition of registry and friends for events to several devices.
