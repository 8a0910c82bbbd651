# put-in-pipe: TLA+ models, checks and proofs

put-in-pipe relays a file from a sender to several receivers who download it at
the same time. The sender uploads chunks into a bounded buffer that the server
holds in memory; a chunk is deleted when everyone expected to receive it has
confirmed it; the sender is paused while the buffer is full. Nothing is stored:
a session lives as long as somebody needs it.

This directory models the buffer, the session with the threads that run in it, the
flow control between the server and the sender's page, a client with its
connections and timeout, the registries of clients and sessions, and the page of a
receiver. TLC checks each model on small instances. Theorems about each of them are proved
with TLAPS for every value of the constants.

Paths are relative to the repository's root, which the models call `src/`: the
server is in `src/src/`, its web client in `src/web/src/`, the documentation in
`src/docs/`.

Contents: 1 the system; 2 the modules; 3 the checks; 4 the proofs; 5 where code
and documentation differ; 6 what is left out; 7 the plan.

## 1. The system

### Components

| component | source | state | operations |
|---|---|---|---|
| Chunk buffer | `buffer.cpp`, `chunk.cpp` | the map of chunks with a counter of uses each, the highest index, end of file, the initial freeze, "some chunk was removed", the expected consumers | `addChunk`, `setChunkAsReceived`, `setEndOfFile`, `addNewToExpectedConsumers`, `removeOneFromExpectedConsumers`, `setInitialChunksFreezingDropped`, `sanitize` |
| Transfer session | `transfersession.cpp` | the buffer, weak pointers to sender and receivers, the file's name, the complete type, the freeze timer | `addReceiver`, `removeReceiver`, `addChunk`, `setChunkAsReceived`, `setEndOfFile`, `setFileInfo`, `dropInitialChunksFreeze`, `manualTerminate`, `setTimedout`, `update`, destructor |
| Upload flow control | `transfersession.cpp`, `SessionSender.svelte` | `newChunkIsAllowed` as the handlers read it; the page's count of used places and the answer it waits for | publication before/after each change; `startUpload`, its event handlers, reconnection |
| Session registry | `transfersessionlist.cpp` | map of sessions by identifier, a lifetime timer each | `create`, `get`, `remove`, `possibleToCreateNew` |
| Client, client registry | `client.cpp`, `clientlist.cpp` | connection pointer, session joined, timeout timer, events that wait for an answer; map of clients by token | `joinSession`, `onWebSocketConnected`, `onWebSocketDisconnected`, `dropCurrentWsConnection`, `sendTextWithAck`, `resolveAck`, `~Client`; `create`, `get`, `remove`, `count` |
| WebSocket connection | `websocketconnection.cpp` | the socket and the client it belongs to | creation, replacement, destruction |
| Timers | `timercallback.cpp` | asio timer, running flag | `start`, `stop`, `restart` |
| Publisher/subscriber | `observerpattern.h` | weak pointers to subscribers | `addSubscriber`, `notifySubscribers` |
| Web API | `webapi.cpp` | none of its own | one handler per route and per WebSocket message |
| Web client, sender | `SessionSender.svelte` | upload loop, count of used places | `startUpload`, handlers of events, `onReconnectInit` |
| Web client, receiver | `SessionReceiver.svelte` | chunks had, failed and pending, the order of writing, answers outstanding | `fetchAndDecryptChunk`, `flushChunkToDisk`, `checkIfDone`, `finalizeStrict`, handlers of events, `onReconnectInit`, `onWsClose` |
| Web client, application | `App.svelte`, `lib/ws.js` | which screen is shown, the socket | start of a component, reconnection, closing |
| Serialisation, captcha, configuration | `serializableevent.cpp`, captcha, `config.cpp` | none that changes after start-up | formatting, cryptography, start-up |

### How they interact

The web server (Crow) runs handlers on several threads. WebSocket messages of
one client are handled one after the other; HTTP requests, also of the same
client, run at the same time as those and as each other. Timers run on threads of
their own. All of them call straight into the session, which calls straight
into the buffer: there is no queue, and what keeps them apart is the buffer's
`m_sharedMtx`, the session's `m_receiversMutex` and the registries' mutexes, each
held only for a part of a handler. Destruction is a callback too: the last owner
of a client runs `~Client`, which publishes `destroyed`, to which the session
answers with `removeReceiver` or with its own end. The session publishes events,
which the clients that subscribed serialise and send; the page of the sender
reacts to `new_chunk`, `chunk_removed`, `new_chunk_allowed` and `start_init` by
uploading on.

### What is hard

* **Interleaving of handlers.** Completion (end of file, empty buffer) is tested
  in three handlers, each of which changes one thing and reads another later.
  Admission to a session races with the first deletion of a chunk.
* **Missing locks.** `addChunk` tests the end of file before it takes the mutex;
  `removeOneFromExpectedConsumers` sanitizes the chunk map without taking it.
* **Counting instead of naming.** A chunk counts confirmations and does not
  know whose they are, while consumers come and go and may confirm twice.
* **Stale reads.** `newChunkIsAllowed` is read, and published later, by many
  handlers at once; `noReceiversLeft` is decided under a mutex and used after it.
* **Unreliable connection.** It breaks with chunks and answers under way; the
  page has to go on where the server is.
* **Connections that overlap.** A new connection opens while the server has not noticed the end
  of the old one, whose destructor comes later and finds the client connected anew.
* **Timers that cannot be cancelled.** The handler of a timer that has expired runs, whatever
  was stopped in between.
* **Names that stand for objects.** Clients and sessions are removed by name, and another object may have
  the name by then; limits are tested in one critical section and used in another.
* **Downloads in any order.** Several loops of the receiver's page ask for the same chunks and wait at
  each `await`; answers, announcements and the end of the session come in between.
* **Termination.** Five reasons to end a session, decided in six handlers, and a
  type that has to say which; a session nobody ends lives on.

### What makes each component correct

* Buffer: no chunk is deleted that a consumer still needs, none is kept that
  nobody needs; who joins can get the whole file; the limits hold.
* Session: completion is never missed; a session does not outlive its
  receivers; "ok" means delivered; the two lists of receivers agree; a removed
  session is destroyed and reports.
* Flow control: the sender never overruns the buffer, never waits for room that
  is there, and the file that ends is the whole file.
* Registries: the limits are kept but for requests that overlap; membership is the same seen
  from the client and from the session; nobody is left in a session that ended, no session without the sender it
  needs; a removal by name hits the object it was meant for.
* Client: the callback of an event runs exactly once; a client that is connected can be reached and is
  not timed out; one that is away is removed in the end; no connection outlives its client.
* Receiver's page: "ok" means the whole file, on disk in order; nothing is given up that could still be had;
  the page comes to its end.

The hazards, each with its line and the properties that bear on it, are listed in
`PROJECT.json`.

## 2. The modules

| module | models | state |
|---|---|---|
| `BufferOps` | the buffer's operations as functions from a buffer to the next | none; the record `buf` it is about |
| `Buffer` | concurrent callers of one buffer | `buf`; calls in progress; who confirmed what |
| `ChunkWindow` | abstract: what the buffer promises | a window of chunks, its members, two flags |
| `BufferLemmas` | lemmas about `BufferOps`: what an operation does to a buffer and to the record of who confirmed what | |
| `BufferProofs` | theorems about `Buffer` | |
| `TransferSession` | one session and the threads that run its handlers | `buf`, receivers, mutex, complete type, per thread a step and locals |
| `SessionProofs` | theorems about `TransferSession` | |
| `UploadFlow` | the server's notifications and the sender's page | `buf`, one handler per actor, the wire, the page's `phase`, `sent`, `bufferUsed` |
| `UploadProofs` | theorems about `UploadFlow` | |
| `RoomProofs` | theorems about `UploadFlow` with one worker: when the page stops and goes on | |
| `ClientConnection` | one client, its connections from both ends, its timeout, its events | `client`, `pointer`, `timer`, the sets of `sendTextWithAck`, per connection the server's and the browser's end and what is under way |
| `ConnectionProofs` | theorems about `ClientConnection` | |
| `Registry` | both registries and the requests that use them | the two maps, the objects behind the names, per thread a step and its pointers |
| `RegistryProofs` | theorems about `Registry` | |
| `WebReceiver` | the page of a receiver, the link, and the buffer with another receiver | `buf`, `wire`, `page`, `disk` |
| `ReceiverProofs` | theorems about `WebReceiver` | |
| `MC...` | symmetry sets for TLC | |

`BufferOps` is extended by `Buffer`, `TransferSession`, `UploadFlow` and `WebReceiver`, which therefore share one
translation of `buffer.cpp`. `ClientConnection` and `Registry` stand beside them: what they need of a
session is whether it is listed and that it reports its end. Each module abstracts what
another details: why a session ends (`TransferSession`) happens at any time in `Registry`, `ClientConnection`
and `WebReceiver`; when a client is removed (`ClientConnection`) happens at any time in `Registry`.

**BufferOps.** A buffer is a record; one operator is what one critical section of
`m_sharedMtx` does. `HowMuchIsLeft` is `Chunk::howMuchIsLeft`: the number of
consumers expected *now* less the number of confirmations so far, at least 0.
`Sanitize` deletes every chunk for which that is 0, unless the freeze holds, and
records a deletion for ever in `removed`; the code of confirming, unfreezing and
leaving calls it, and so do the operators. The bytes of chunks and the byte
counters are left out.

**Buffer.** One action per critical section. `addChunk` is two actions because it
reads `m_EOF` before the mutex; a departure is two because it takes no mutex: the
consumer is erased (`BeginLeave`), and the chunk map is sanitized with nothing held
(`FinishLeave`). The latter is a data race on a `std::map`. `RaceStrikes`
says what that means: while a sweep is under way the map may be corrupted, and
nothing is promised from then on. All theorems and invariants are about
the behaviours up to that point. Callers are as free as the web API leaves them:
a member may confirm any chunk any number of times, `Observers` (the sender, who is
never a consumer) included.

**TransferSession.** Every handler of `transfersession.cpp` is a sequence of
steps of a thread: `pc[t]` is the next step and `local[t]` what the handler has read.
A step is one critical section or one unlocked access to shared state. `Start...`
actions begin a handler under the guard the web API has for it (`webapi.cpp`): a kick may name anybody but the sender, also a
client that is just joining or has gone. A
handler keeps the session's object and its clients alive (`shared_ptr`): it owns the client it works for (`by`), and
`removeReceiver` the client it takes from the list (`kept`). A client is destroyed when no handler owns it (`Unowned`; the registry
may let go of it at any time), and `Destroy` waits for `Quiescent`. `Reenter` is what happens when everybody else lets go of a client while a
handler has locked its weak pointer under the mutex: the handler runs the destructor, which waits for the mutex the
handler itself holds, for ever (`"reentered"`). `SocketFree` is the rule that WebSocket messages of
a client are handled one at a time; chunk uploads and joins come by HTTP and are
not subject to it, so that two joins of one client may overlap. `autoDrop` is chosen at the start: such a session drops its freeze at the first
confirmation, once (`autoFired`). `StartDropByTimer`, `SetTimedout` and the destruction of clients are
what timers do, and may happen at any time. `Unlist` is
`TransferSessionList::remove`, after which no new request reaches the session. History variables name what the properties
except: `loose`, `late`, `overtaking`, `drainedBy`, and `crossed`, the receivers that joined between the two halves of
their own removal.

**UploadFlow.** The part of the server that steers the sender, and the page that is
steered. Each handler that changes the buffer reads `newChunkIsAllowed` (`old`),
changes the buffer, reads it again (`Reread`), and publishes it if it differs
(`Publish`; after the freeze, always). `Workers` bounds the handlers in progress. With
one worker thread (Crow starts one fewer than `concurrency`, so a host with one or
two processors has one) handlers are serial; with two they overlap, as they do
with the freeze timer on any host, for it has a thread of its own. The page: `phase` is
`"send"` (about to upload), `"accept"` (waits for `new_chunk`), `"space"` (waits for
`new_chunk_allowed`), `"finished"`. `canSendChunk` is folded into `phase`: the page sets it
false just before each wait. `Break` loses all events and some of the chunks under way,
`Connect` and the two greeting steps are `wsOnConnect`: events reach the page before
`start_init` has been put together. The session is taken to stay (some receiver never
leaves) and to have all its receivers from the start.

**ClientConnection.** A connection goes through the handlers of `webapi.cpp` that run for it:
`server[k]` is `"requested"`, `"accepting"` (wsOnAccept found the client online and is about to drop
its connection), `"accepted"`, `"opening"` (the client has been told, the session not looked up), `"open"`,
`"gone"`. `timer` is `TimerCallback`: `running` is its flag, `armed` an asio wait, `due` counts handlers that a
cancel comes too late for; `firing` is one that has read the flag. `End` is `wsOnClose` with the destructor of
`WebSocketConnection`, which resets the pointer *whichever connection it points to*. The events that
wait for an answer are registered, looked for a connection (`Deliver`), taken out by whoever comes first (`Take`) and
only then called back. A close frame that a handler of the connection itself sends goes out ahead
of what other threads have posted (`CloseAhead`), one sent by others follows it (`CloseAfter`). Two history
variables name what the properties except: `overlap`, a connection of the client ended, or opened, while another was
open that was not being closed; `stale`, a connection opened as the timer fired.

**Registry.** Names and objects are apart: a client object has a token, `clients` maps tokens to objects, and a
removal takes whatever the name stands for. A thread holds pointers (`me`, `at`), and an object that
is unlisted and held by nobody may be destroyed, upon which it tells the others. `leaving` and `closing` are removals
decided and not yet carried out (an event has to be answered, a timer handler is under way); both keep the object they are for. `JoinRefused`
stands for all refusals of the session. Two history variables name exceptions: `overlapped` clients sent a
request before the last one was answered, `reused` tokens named two clients, one after the other. `MaxClients`, `MaxSessions`
and `MaxIncidents` are bounds of the model.

**WebReceiver.** A step is what JavaScript runs between two awaits. `page.fetch[i]` is where the download of chunk `i`
is (`"get"`, `"got"`, `"write"`, `"drain"`, `"confirm"`), its attempt, the chunk it is writing (`put`: its own, or while it drains one that
waited for its turn), and who awaits it: the loop over the chunks of
the first `start_init`, the loop of a reconnection, or the handler of `new_chunk`; when it ends, that one goes on
(`FetchEnds`). `start_init` is put together in three steps while events already go out. Breaks, reloads,
replaced connections, the end of the session, failed downloads and failed writes are bounded together by `MaxFaults`. What the page
cannot know or never checks is recorded in history variables, by which the properties name their exceptions: `missed` (an
announcement came before the component listened and `start_init` does not tell of it), `synced` (this connection's
`start_init` was read), `strayed` (an answer or an end was lost that nobody sends again), `silent` (the
first loop's last download ended without a check, or a chunk was overlooked), `redone` (a stored
chunk was asked for again), `torn` (the write of a chunk that had waited for its turn failed), `byClose` (the page ended because its socket was closed).

`PROJECT.json` maps each definition to the lines it stands for.

## 3. The checks

Run `tlc -config X.cfg M` with module `M` and the configuration. Deadlock is not checked
anywhere: a session ends, a client goes, a page comes to its end, and a bounded upload does.

| run | module, cfg | question | answer |
|---|---|---|---|
| `buffer` | `MCBuffer`, `MCBuffer` | does the buffer lose, keep or withhold chunks; is `IInv` an invariant; is it a `ChunkWindow`? | holds |
| `session` | `MCTransferSession`, `MCSession` | are completion, abandonment and the reported type right under any overlap of handlers, with auto-drop and without? | holds, with the exceptions the properties name |
| `session_liveness` | `MCTransferSession`, `MCSessionLiveness` | does a removed session report, does an ended upload complete? | holds |
| `session_ok_undelivered` | `MCTransferSession`, `MCSessionOkUndelivered` | does "ok" mean that somebody received each chunk? | no, 5.1 |
| `upload_serial` | `MCUploadFlow`, `MCUploadSerial` | one worker, nobody leaves: is no chunk refused, is the sender always told, does the upload finish? | holds |
| `upload_overlap` | `MCUploadFlow`, `MCUploadOverlap` | two workers, departures, a break: is the page's count safe, is no chunk sent twice? | holds |
| `upload_reconnect` | `MCUploadFlow`, `MCUploadReconnect` | is a file whole whose upload survived a break? | no, 5.2 |
| `connection` | `MCClientConnection`, `MCConnection` | is a connected client reachable and an absent one removed, is every event resolved once, do connections go with their client? | holds, with the exceptions the properties name |
| `connection_answer` | `MCClientConnection`, `MCConnectionAnswer` | does the answer to an event resolve it? | no, 5.3 |
| `registry` | `MCRegistry`, `MCRegistry` | how far are the limits overrun, does membership agree, is anybody left behind, does a removal hit its own object? | holds, with the exceptions the properties name |
| `receiver` | `MCWebReceiver`, `MCReceiver` | does "ok" mean the whole file in order, is anything given up early, does the page come to its end? | holds, with the exceptions the properties name |
| `receiver_gaps` | `MCWebReceiver`, `MCReceiverGaps` | does the page refuse to save a file with gaps? | no, 5.4 |

### What the properties say

*Buffer.* `WholeUntilRemoved`: while no deletion is recorded, the buffer holds the file from
its first chunk, which is what admission relies on. `NoStuckChunk`: after the freeze each chunk is
owed by a consumer that has not confirmed it, so the buffer can always be emptied; it relates the
counters, which departures and repetitions distort, to who really confirmed.
`ReleasedWhenConfirmed`: conversely, a chunk that is gone was confirmed by everybody
still expected, *if* nobody confirmed it out of order. `JoinerGetsWholeFile`: nobody
is admitted once a part of the file is gone. `ImplementsWindow`: refinement of `ChunkWindow`.
`IInv` is the inductive invariant of the proofs, checked so that the proofs are about what is true.

*Session.* `CompletionNotMissed`: with the upload ended and the buffer empty, no handler
may come to rest and leave the session listed. `NoAbandonedSession`: after the freeze a listed session has a
living receiver, as long as the sender is there. `ReceiversAreConsumers`: the list in
the session and the set in the buffer, under different mutexes, agree at rest, save for receivers whose join crossed their
removal (`crossed`).
`OkMeansDelivered`: what "ok" may be relied on for. `RemovedSessionReports`: a removed session is destroyed and reports, so no handlers
wait for each other, and the client that is removed is not destroyed under the mutex; a handler that destroys another one there locks
itself out (`Reenter`), and that is left out. `EndedUploadCompletes`: an upload that has ended completes.

*Flow.* `PageCountsEveryChunk`: the page never believes the buffer emptier than it is when
it sends. `EndOfFileMeansWholeFile`, `NoChunkTwice`: nothing is skipped as long as the connection
holds, nothing is repeated even when it does not. `SenderToldOfRoom`: with nothing under way
the page does not wait for room that is there. `NoChunkRefused`: the server has room for what the page
sends. `UploadFinishes`: it ends.

*Client.* `CallbackRunsOnce` and `EventsAreResolved`: the callback of an event, which removes the client, runs once
and in the end does run, whichever of the answer, the fallback timer, the missing connection and the destructor come
first. `ConnectedMeansReachable`, `AwayMeansTimed`: the pointer, the timer and the connections that exist agree, through
any order of openings and late ends. `TimedOutOnlyWhenAway`: a timer that can no longer be cancelled
removes nobody who is there. `ConnectionsGoWithClient`: a connection does not stay when its client is gone.

*Registries.* `ClientsBounded`, `SessionsBounded`: the limits hold but for one place per further request that is between the
test and the insertion. `ReceiversKnowTheirSession`: membership is the same from both sides, which are changed one after the
other and undone by half on failure. `NobodyInEndedSession`: who is in a session that ended is on its way out, also who joined
while it was being removed. `NoSessionWithoutSender`: a session whose sender is gone before the end of the upload is
being closed. `RemovedForOwnReason`: the removals by token and the ends of sessions, which come late, hit those they
were meant for.

*Receiver's page.* `OkMeansWhole`, `FileInOrder`: what "complete" may be relied on for, whatever order downloads,
announcements and writes came in. `NothingGivenUpEarly`: the page reports an incomplete file only if a chunk it lacks is gone.
`ReceiverFinishes`: once the upload has ended the page does not wait for ever.

### Bounds, and why they are enough

* `buffer`: three receivers, two of whom can be consumers at once (so that the limit
  refuses one, and one leaves to make room for another), the sender as an
  observer, a queue of two and three uploads (so that a full queue refuses, and
  an index is inserted after a removal), two `addChunk` calls at once. 3.3 million states.
* `session`: two threads, two receivers, one chunk, auto-drop or not. Every hazard listed is between
  two handlers. A second chunk adds chunks to be kept and none that ends a session. 2.2 million states.
* `session_liveness`: one receiver, one chunk, no symmetry (which liveness checking does not allow). 0.3 million states.
  The same instance is enough for the counterexample of `session_ok_undelivered`.
* `upload_serial`: four chunks through a queue of two, two receivers, so that the page waits for
  room, is woken and waits again. `upload_overlap`: two chunks through a queue of one, so that the page
  waits for room after each, two handlers at once, one break at any point, one receiver that may
  leave. 1.4 million states.
* `connection`: two connections, so that one replaces the other, opens before the other's end is noticed, or comes
  back after it; a third adds another of these. 0.34 million states. The invariants are proved for
  any number; the liveness property is not.
* `registry`: two threads, two tokens, room for two clients and one session, two objects of each kind (so that a token
  comes back and a session is created where one was), one incident. 1.0 million states with symmetry.
  With two incidents (4.2 million) all properties hold as well. The invariants are proved for any bounds.
* `receiver`: two chunks through a queue of two, two attempts, writing to disk, one fault at any point: downloads
  end in either order, a download or a write fails and is retried, a connection breaks, is replaced or the page reloads. 0.8 million states.
  With two faults the invariants hold in memory (4.6 million states) and, as far as it was run, on disk (the first 8.6 million).

`MaxUploads`, `MaxAdding`, `MaxLosses`, `MaxConnections`, `MaxClients`, `MaxSessions`, `MaxIncidents` and `MaxFaults` are bounds of
the models. `MaxQueue`, `MaxConsumers`, `ClientLimit` and `SessionLimit` are the server's configuration, made small;
`Retries` is the page's, made small.

### Fairness

`TransferSession!FairSpec`: a handler that has begun runs to its end (weak fairness of its
steps: it is a running thread, and the only mutex it may wait for is held for a
few instructions, unless its holder has locked itself out: then its steps are not enabled, and fairness asks nothing), and the object of a removed session is destroyed when its last handler ends.
`LiveSpec` adds two assumptions about the world, which `EndedUploadCompletes` needs and
the server cannot give: the freeze timer fires, and a receiver that is there confirms what is in
the buffer. They are strong fairness because a start needs a free thread and, for a confirmation,
the client's socket, which others may take again and again. `RemovedSessionReports` does not
depend on them: the steps it needs are those of handlers already running.

`UploadFlow!FairSpec`: weak fairness for the steps of handlers that have begun, for the page's loop and
for the reconnection; strong fairness for what waits for a free worker (the next chunk, the
end of file, the freeze timer, a confirmation). Receivers that stay confirm; those
that may leave are not assumed to leave.

`ClientConnection!FairSpec` and `WebReceiver!FairSpec`: weak fairness of `SystemStep` as a whole, that is, some step
is taken as long as there is one, of the handlers that have begun, the timers that are armed, the browser's reading and
reconnecting, and the server's answers. There are finitely many of these steps in a row, so none is put off for ever by
others of its kind. What people and the network do (connect, break, kick, leave, confirm, upload, end) is not assumed.

## 4. The proofs

### The buffer

`BufferProofs` proves, for every finite set of receivers, every set of observers apart from it
and every value of the limits:

| theorem | what it says |
|---|---|
| `Invariance` | `Spec => []IInv` |
| `TypeCorrect` | `Spec => []TypeOK` |
| `NothingLostSilently` | `WholeUntilRemoved` and `FreezeKeepsChunks` always hold |
| `NoChunkStuck` | `NoStuckChunk` always holds |
| `OrderlyChunksDelivered` | `ReleasedWhenConfirmed` always holds |
| `JoinersGetWholeFile` | the action property `JoinerGetsWholeFile` |
| `BufferImplementsWindow` | `Buffer` implements `ChunkWindow` |

Assumptions: `LimitsAssumption` (the limits are positive, the bound on uploads a natural number) and
`BufferAssumption` (receivers are finitely many and are not observers, at least one call fits).
TLC evaluates both in every run of `Buffer`.

**The argument.** `NoStuckChunk` and `ReleasedWhenConfirmed` speak of who confirmed,
the code of how many. `IInv` joins them from both sides:

* `UsesCoverConfirmations`: the counter of a buffered chunk is at least the number of
  present consumers that confirmed it. A departure lowers the right side only; a
  confirmation raises both, unless the counter has reached the number of consumers, where it
  is as high as the right side can be. So a chunk confirmed by all is at 0 left.
* `DueChunksSwept`: outside the freeze and with no sweep outstanding, a buffered chunk has
  fewer uses than there are consumers, or none. "Or none" is for buffers without
  consumers, where a chunk is only swept when something happens; a consumer that then joins
  can do so only if nothing was ever removed.
  With the conjunct before, it gives `NoStuckChunk` by counting: confirmations of consumers are fewer
  than consumers, so one of them has not confirmed.
* `UsesExactWhenOrderly`: for a chunk nobody confirmed twice, out of turn, or before leaving,
  the counter is at most the number of confirmations and all of them are from present consumers.
  A sweep takes it only when the counter has reached the number of consumers, so the set of those who
  confirmed, a subset of the consumers of the same size, is all of them. This is `ReleasedWhenConfirmed` at
  the moment of release; afterwards nobody can join, since a removal is on record, so it stays true.
* `ConfirmedByMembers`: only those who joined and observers confirm, and nothing beyond the highest
  index has been confirmed, so a chunk starts with a clean history.

`WholeUntilRemoved` and `FreezeKeepsChunks` are needed for the steps of `Join` (nothing removed, so no
chunk to owe to the newcomer). The proof has one step per action, and one below it per conjunct
the action can disturb. The refinement maps every action to `ChunkWindow`'s step or to no change.

What the operators do to these relations is proved once, in `BufferLemmas`, for any buffer `b`, any set of consumers
and any record `conf` of confirmations: `Sound(b, conf, loose)` is the part of the invariant that every operation keeps
(`AddChunkSound`, `ConfirmSound`, `SanitizeSound` and the rest), whatever the handlers around it do. `SessionProofs` takes its `History` from
there, `UploadProofs` and `ReceiverProofs` what a confirmation changes.

### The registries

`RegistryProofs` proves, for every finite set of threads and of tokens and every limit:

| theorem | what it says |
|---|---|
| `Invariance` | `Spec => []IInv` |
| `NothingDangles` | `TypeOK`: registries, handlers and subscriptions refer to nothing that was destroyed |
| `MembershipAgrees` | `ReceiversKnowTheirSession` |
| `NobodyLeftBehind` | `NobodyInEndedSession` |
| `SendersHoldSessions` | `NoSessionWithoutSender` |
| `RemovalsHaveReasons` | the action property `RemovedForOwnReason` |
| `SessionLimitNearlyKept`, `ClientLimitNearlyKept` | `SessionsBounded`, `ClientsBounded` |

Assumption: `RegistryAssumption` (finite sets of threads and tokens, `None` is no token, positive limits).

**The argument.** What a handler tested must still hold when it acts, although its pointer, the registries and the client
may have changed. `HandlersHold` says what the pointers of each step are. `OverlapsNoted` says that two handlers of
one client are recorded in `overlapped`, whence `TestStillHolds`: a client found in no session and without overlapping
requests is still in none. `SubscribersKnow` then relates the three places membership is kept: whoever is subscribed to a
session is in it or a handler is about to put it there; `MembersSubscribed` adds that receivers and creators are subscribed.
Together they give `ReceiversKnowTheirSession`, and with `GoneWithTheirSession` (the end of a session makes
only those go that were in it) `RemovedForOwnReason`. `NobodyInEndedSession` and `NoSessionWithoutSender` are inductive with these; the
latter needs that the creator is subscribed as long as the session is open, so that its end is heard. `TokensNoted` makes
sure that two objects under one token are on record, so that a removal by name hits the object or an exception.
The limits are proved apart, by counting: the registered and the handlers between test and insertion together only grow by
the test, which leaves one place, and by the other threads, of which there are one fewer than threads.

### A client's connections

`ConnectionProofs` proves, for any number of connections:

| theorem | what it says |
|---|---|
| `Invariance` | `Spec => []IInv` |
| `PointerNeverDangles` | `TypeOK`: the pointer is to a connection whose object exists |
| `CallbacksRunOnce` | `CallbackRunsOnce` |
| `ConnectedClientsReachable` | `ConnectedMeansReachable` |
| `AbsentClientsTimed` | `AwayMeansTimed` |
| `NoConnectionLeft` | `ConnectionsGoWithClient` |
| `TimeOutsAreDeserved` | the action property `TimedOutOnlyWhenAway` |

Assumption: `ConnectionAssumption` (the number of connections is natural, `None` is none of them).

**The argument.** `AcksOnce`: an event in `pending` or `taken`, which exclude each other, has not been called back, and
`complete` is raised only as the session reports; so each way to resolve it finds it once. `TimerOnItsWay`: a listed client
without connection has a running timer, and a running timer is armed, due or firing. `OthersClosing`: as long as
connections have not overlapped, all but the one pointed to are being closed, which `ConnectedMeansReachable` and, at the end of
the client, `GoneForGood` need. `FiringWhenAway`: a handler that has read the timer's flag does so while there is no connection,
unless one opens as it fires (`stale`); as `Open` stops the timer, a handler that is due and finds the flag set has
been overtaken by no opening. Queues of frames are sequences, for which the proof cites the library's theorems.

### A transfer session

`SessionProofs` proves, for every finite set of threads and of receivers and every limit, with auto-drop and without:

| theorem | what it says |
|---|---|
| `Invariance` | `Spec => []IInv` |
| `TypeCorrect` | `TypeOK`: handlers leave nothing behind, the mutex is held only inside `addReceiver` or by a handler that has locked itself out |
| `CompletionIsNotMissed` | `CompletionNotMissed` |
| `NoSessionIsAbandoned` | `NoAbandonedSession` |
| `ReceiversAreTheConsumers` | `ReceiversAreConsumers`, but for the joins that a kick crosses (`crossed`) |
| `OkIsDelivered` | `OkMeansDelivered` |

Assumptions: `LimitsAssumption`, `SessionAssumption` (finite sets of receivers and threads; the sender and `Nobody` are
neither).

**The argument.** The properties speak of the session at rest, and a handler that has just finished had its last look at
the state some steps earlier. The invariant therefore says, for the states in between, *who will see it*:
`CompletionSeen`: if the upload is over and the buffer empty (and not by a departure alone), some handler stands at a place from
which it will remove the session; `AbandonmentSeen`: the same for a session after its freeze without receivers. Each is preserved because
the last of two racing handlers reads what the first has changed: a handler may only fall out of `Completes` by a test that
fails, and the test fails only if the condition does. `Discrepancies` accounts for each receiver listed but dead, or
expected but not listed, by a handler that is dealing with it, so that with no handler the two sets agree. `CountsHold` says what a count
of no chunks is still worth later: nothing but chunks inserted after the end of file (`late`) or between the count and the test
(`overtaking`) can be in the buffer. `OkWhenDone` carries that to the end of the session, and `History` (`Sound` of `BufferLemmas`, over the real
handlers) turns "the buffer is empty" into "confirmed by everybody expected".
A join and a removal of one receiver may cross, since a kick names whom it likes: `crossed` is then exactly the discrepancy, and
it is gone when the receiver leaves the list. Two joins cannot: `addReceiver` refuses the second under the mutex. When a handler has locked
itself out its discrepancy stays for ever, and the session is never at rest again; `Discrepancies` speaks of sessions in which
none has (`~Stuck`).

### The upload

`UploadProofs` proves, for any receivers, any set of leavers, any number of workers, uploads and broken connections:

| theorem | what it says |
|---|---|
| `Invariance` | `Spec => []IInv` |
| `TypeCorrect` | `TypeOK`, with bounds on what is under way and on the page's count |
| `ChunksAreUploadedOnce` | `NoChunkTwice` |
| `TheFileIsWholeAtItsEnd` | `EndOfFileMeansWholeFile` |
| `ThePageCountsEveryChunk` | `PageCountsEveryChunk` |

Assumptions: `LimitsAssumption`, `UploadFlowAssumption` (some receiver never leaves, the receivers fit into the session, there is a
worker).

**The argument.** All four are conservation laws: a chunk that is not at one place is at another. `OneUnderWay` counts the chunks posted, being
inserted, announced by a handler or on the wire, and a `start_init` that will stand for one of them: never more than the page
waits for, plus one for each break. `HeardOnce` and `InStep` count the same from the side of the buffer: what the server has numbered is
what the page has sent less what it has not been told, and the chunks in the buffer, with the removals not yet told of, are covered by
`bufferUsed` and the announcements on their way. A handler that has removed chunks and not told of it (`Untold`) is a term of the sum, so the overlap of
any number of handlers is only a sum over more of them. Sums over handlers and over the events on
the wire would be recursive definitions, of which the provers can prove nothing by induction; they are defined instead as the
cardinality of the set of points under the graph (`Points`), and what a step does to a sum follows from the library's theorems about cardinalities
(`SumUpdate`, `SumTail`, `WireAppend`).

`RoomProofs` is about one worker, that is, handlers that do not overlap (a host with one worker thread, where the freeze does not run out in the
middle of a handler; 5 says what goes wrong otherwise), and a connection that holds:

| theorem | besides | what it says |
|---|---|---|
| `NoChunkIsRefused` | any receivers may leave | `NoChunkRefused` |
| `SenderIsToldOfRoom` | none leaves | `SenderToldOfRoom` |

`IInv` remains the first part of the induction; two more come on top of it.

* `RInv`, for the first. With one worker a handler that runs is alone (`OneHandler`), so what it read of `newChunkIsAllowed` after its change
  still holds when it publishes it (`HandlersKnow`): the very fact that fails with two. From there it has to be carried over the wire: an
  `Allowed(TRUE)` that the page will act on, because it waits for room or will have heard by then of the chunk that fills the
  buffer (`Heeded`), is there while there is room, since in between nobody inserts; and when the page is about to send or has sent there is room
  (`RoomHolds`). When the page goes on after an acceptance it does so by its own count, and there `InStep`, of `IInv`, says
  that this count covers the buffer.
* `TInv`, for the second. Covering is not enough there, a page that counts too many waits for nothing: as no departure is clamped
  away, the count is exact (`CountIsExact`). A page that waits for room, or will once it has read that its chunk has come,
  *will hear* of room if there is any: from an event behind that one, or from a handler that found the buffer full before
  and will find it open (`WillHear`, `NewsCounted`). The event on which the page begins to wait is the announcement of the chunk, and what the
  page counts at that moment is the number of chunks when it was sent (`Count(k)`: those there are, and those whose removal is told of
  behind the k-th event), also if they have been confirmed since.

Each action of a handler that adds no chunk is shown once to be a step `Handles` and `Tells`, from which both invariants follow for all of them
(`HandlesKeeps`, `TellsKeeps`); `Insert`, `TellNew` and `Receive` have lemmas of their own.

### The receiver's page

`ReceiverProofs` proves, for any number of chunks, any queue, any number of attempts and of faults, on disk or in memory:

| theorem | what it says |
|---|---|
| `Invariance` | `Spec => []IInv` |
| `TypeCorrect` | `TypeOK`: among others, the page never waits for more answers than there are chunks |
| `OkIsOfAWholeFile` | `OkMeansWhole` |
| `ChunksAreWrittenInOrder` | `FileInOrder` |
| `OnlyWhatIsGoneIsGivenUp` | `NothingGivenUpEarly` |

Assumptions: `LimitsAssumption`, `WebReceiverAssumption` (two receivers apart from each other, room for both, at least one
attempt).

**The argument.** What the page will do depends on events still on the wire, so the invariant says what it *will have heard* by the `k`-th of them, for each `k`
up to the end of the wire. `CaughtUp`: by the time it is told of the end it knows the highest index, and by the time it has read all that is
there now it knows it if the last chunk is uploaded. `NoneSkipped`: each chunk that the server has and the page will know the index of
is there, on its way, in a loop's list, or named by an event before that. Reading an event moves every `k` down by one (`ReadsKeeps`), sending one
adds a `k` at the end (`GrowsKeeps`), a close frame that overtakes cuts off the rest (`CutsKeeps`); the other steps leave the wire alone. Both need the order
in which `wsOnConnect` puts `start_init` together: events go to the page first, the chunks are listed then, the index is read last.
`LoopsHold`: a loop with something left awaits a download, and each end of a download lets it go on; so with nothing pending no loop has anything left, and
`NoneSkipped` says that what the page lacks the server lacks too. `DiskHolds` is about `flushChunkToDisk`: at most one download writes, what is on
disk is an initial segment, what waits is above it, and who writes goes on until the next chunk is not waiting. A first write that
fails leaves nothing behind, and its chunk is asked for again. It holds until a chunk that had waited fails to be written (`torn`) or a stored chunk is asked for
again (`redone`). `AnswersHold` bounds the answers awaited by the chunks settled.
The proof has one lemma for a step of a download (`MovesKeeps`), whichever it is, so an action adds only what it does to the disk and to
the answers.

### What was checked before, and what is only model-checked

TLC has checked every conjunct of each `IInv`, and `RInv` and `TInv`, as an invariant: of `Buffer` in a run, of the others while the proofs were made (of
`ReceiverProofs` with one fault on disk, and with two as far as it was run). It
evaluates all assumptions in every run.

Every safety property that a passing run checks is stated by a theorem. Only model-checked is liveness, which is beyond this prover
together with ENABLED. The proofs do not use induction over data, and no module they reach declares a recursive operator.

## 5. Where code and documentation differ

Each has a run that exhibits it; the quotations are in `PROJECT.json`.

1. `session_ok_undelivered`. The last receiver leaves after the end of file. Its departure sanitizes the
   buffer (no consumer, so nobody is waited for), and the chunks are counted after that: always 0, always "ok".
2. `upload_reconnect`. A chunk is lost with the connection; `start_init` resolves the pending acceptance all the
   same, and the file ends short of a chunk.
3. `connection_answer`. A session leaves its list before its destructor sends `complete`. The answer then
   finds no session, the connection is closed, and the client is removed by the fallback timer two seconds later.
   `docs/vibecode/SESSION_LIFECYCLE.md:74` and `:80` describe the answer as what removes it, the timer as being for dead clients.
4. `receiver_gaps`. A socket closed for good after the end of the upload makes `onWsClose` save the chunks there are as a
   complete file, past `finalizeStrict`, which calls itself the single decision point.

Met while modelling, visible in the models, without a run of their own:

* A receiver confirms a chunk and leaves; its confirmation stays and counts for another, for whom the chunk is deleted unseen
  (`chunk.cpp:45`). `ReleasedWhenConfirmed` excepts it by name.
* A chunk may be inserted after the end of file (`late` in `TransferSession`), because `m_EOF` is
  tested without the mutex; and between a handler's count of no chunks and its test for the end of file
  (`overtaking`). `OkMeansDelivered` excepts both by name.
* A departure that takes the last chunk of an ended upload with it does not end the session while
  receivers remain (`drainedBy`); `CompletionNotMissed` excepts it by name.
* After the end of file the sender may go. When the receivers go after it, `update` takes each for the
  sender, and the session waits for its lifetime timer (`transfersession.cpp:491`).
* A receiver may join between `removeReceiver`'s test for receivers and the removal of the
  session, and is then in a session that ends as "no_receivers".
* `webapi.cpp:1048` hands any identifier but the sender's to `removeReceiver`, which takes the client from the list under one mutex
  (`transfersession.cpp:135-157`) and from the consumers under another (`:161`). If the client's `addReceiver` falls in between, it is listed and
  everybody is told of it, but no chunk waits for it, and the session may end "ok" without it (`crossed`). A kick of somebody who is no receiver ends an auto-drop session that has none yet.
* A departure that makes room does not tell the sender that it may upload (`transfersession.cpp:162`); if the others have
  confirmed everything, nobody will. With overlapping handlers the differences of `newChunkIsAllowed` two of them see may
  both be none although together they made room. `upload_serial` claims `SenderToldOfRoom` for one worker without departures.
* A `new_chunk_allowed` read before and published after another handler's change (`transfersession.cpp:464`) wakes the sender
  into a full buffer; the page has no handler for `add_chunk_failure` and waits for an acceptance that does not come.
* The unlocked sanitize (`RaceStrikes`).
* The destructor of a replaced connection resets the pointer of a client that has connected anew, and starts its timeout
  (`websocketconnection.cpp:9`): the client is unreachable and is timed out while it is connected (`overlap`).
  `web_interface_api.md:288` describes the replacement without this.
* Requests of one client that overlap make it a member of two sessions (`overlapped`); `web_interface_api.md:82` has it in one.
* A removal by token that comes late hits the client that has registered with the same captcha since (`reused`).
* The receiver's page may wait for ever: a confirmation or its answer lost with a connection is not sent again, and a session
  that ended, or a server that timed the client out, while the link was down refuses every reconnection (`strayed`); an announcement before the component
  listens has no listener (`missed`); the loop over the first `start_init` does not check at its end, and chunks that
  went out of order are overlooked (`silent`). `complete` read before the `start_init` of a reconnection makes a part of a file
  a whole one (`synced`), and a stored chunk whose confirmation waited too long is written twice (`redone`).
* `transfersession.cpp:139` locks weak pointers under `m_receiversMutex`; if the handler thereby becomes the last owner of a client,
  `~Client` comes back for the mutex, which is not recursive, and the session is held for ever (`Reenter`). The comment at `:124-129` is about this
  hazard, and the code avoids it for the client it removes only. `addReceiver` has it too (`:67`, `:84`, `:99`), and the subscribers it notifies at `:110`.
* A write to disk that fails is retried by downloading the chunk again (`SessionReceiver.svelte:271-277`). If it was the write of a chunk that
  had waited for its turn (`:50`), the chunk before it is written already: its second copy is put aside for ever, the one that failed is counted as
  there and stays where it was, and the page says ok with a hole on disk (`torn`). The model lets later writes succeed or fail. A browser's
  stream may instead stay broken after the first failure; then `close()` rejects as well, and nobody catches it
  (`App.svelte:322`).

## 6. What is left out

* The memory effects of undefined behaviour: of the data race in the buffer beyond "nothing is promised"; the unlocked reads of the weak
  pointer `m_webSocketConnection` (`client.cpp:68`), taken for atomic; a timer handler that runs after the end of its client;
  a Crow connection used after its deletion.
* The bytes of chunks, counters and statistics.
* Owners of clients beyond the handlers of one session: in `TransferSession` the registry and the handlers elsewhere let go of a client at any
  time, in `Registry` a client ends between the critical sections of the handlers that do not hold it.
* Events without an answer, except those that steer the sender or a receiver's page: they change nothing in the server.
* `TimerCallback::restart` and `timeRemaining`, `Client::resetWsTimeoutTimerIfItActive`: they move a deadline, and the models let
  a timer fire at any time. The timers of a session and its lifetime fire at any time too.
* Joins, auto-drop and HTTP uploads in `UploadFlow`, whose subject is an upload that has begun by socket.
  A break is taken to be noticed by the server before the page reconnects, and the page to reconnect before its wait of 15 seconds
  for a connection (`ws.js:140-154`) is over; when it is not the upload loop stops with an error. No property depends on it.
* In `WebReceiver`: kick and leave, the file dialog, the freeze (a buffer whose other receiver confirms nothing does what a
  frozen one does), decryption, `personal_received`.
* Serialisation, captcha, configuration, screens: formatting, cryptography and presentation without concurrent state. What the
  captcha decides is an input of `StartRegister`.
* Vendored libraries: Crow, asio, plog, the PNG codec, the ciphers and the rest are modelled only by how handlers run. They are
  most of the repository: of some 33 800 lines of implementation about 5 000 are the program's own, server and web client, and
  a good part of those formats, logs, routes and draws.

## 7. The plan

Done:

1. `BufferOps`, `Buffer`, `ChunkWindow`: the heart, everything about chunks composes `BufferOps`.
2. `BufferProofs`.
3. `TransferSession`: the buffer under the real handlers.
4. `UploadFlow`: server and sender's page.
5. `ClientConnection`: connections, timeout, events that wait for an answer.
6. `Registry`: limits, membership, removals by name.
7. `WebReceiver`: server and receiver's page.
8. `RegistryProofs`, `ConnectionProofs`.
9. `BufferLemmas`, `SessionProofs`, `UploadProofs`, `ReceiverProofs`.
10. `RoomProofs`: `NoChunkRefused` and `SenderToldOfRoom` for one worker.

Left:

11. `ClientLifetime`: all owners of clients (the registry, the handlers of all sessions, pointers locked for one notification), to say for which
    schedules `Reenter` is reached and which change of the code would rule it out.

The runs are few by intention, each with several properties.
