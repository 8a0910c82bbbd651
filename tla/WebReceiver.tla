----------------------------- MODULE WebReceiver -----------------------------
(***************************************************************************)
(* The web page of a receiver (web/src/components/SessionReceiver.svelte): *)
(* it is told of chunks, downloads them by HTTP, several at once and each  *)
(* with retries, writes them to disk in order or keeps them in memory,     *)
(* confirms them on the WebSocket and decides when the file is complete.   *)
(* It has to do so although its connection breaks and comes back, the page *)
(* is loaded anew, downloads fail and chunks disappear from the server.    *)
(*                                                                         *)
(* A step of the page is what JavaScript runs between two awaits.  Of the  *)
(* server there is the buffer, with another receiver in it who may confirm *)
(* anything; its handlers are taken whole here, except wsOnConnect, which  *)
(* puts start_init together while events already go to the page.           *)
(*                                                                         *)
(* The file's name and size are taken to be known, the wait for the file   *)
(* dialog and the pause before a retry to be over at once, the initial     *)
(* freeze to be dropped (a buffer whose other receiver confirms nothing    *)
(* does what a frozen one does).  Left out: kick and leave, which end the  *)
(* page's visit, and personal_received, which makes it check what the      *)
(* chunk_download that follows checks again.                               *)
(***************************************************************************)
EXTENDS BufferOps, Sequences

CONSTANTS Me, Other,    \* the receiver at the page, and another one
          ToDisk,       \* writable is set: the browser lets the page save to disk
          Retries,      \* attempts at a download
          MaxFaults     \* bound: how often something goes wrong

ASSUME WebReceiverAssumption ==
    /\ Me # Other /\ MaxConsumers >= 2
    /\ ToDisk \in BOOLEAN /\ Retries \in Nat \ {0} /\ MaxFaults \in Nat

VARIABLES buf,       \* m_buffer
          session,   \* "listed", or the type of its completion
          greeting,  \* wsOnConnect: its step and its snapshot
          wire,      \* events on their way to the page
          toServer,  \* confirmations on their way to the server
          link,      \* "up", "down", or "closed" for good
          losses, failures,
          page,      \* the state of the component
          disk,      \* the chunks written, in the order in which the writes ended
          dropped,   \* history: chunks announced before the page listened
          missed,    \* history: one of them was not in start_init
          synced,    \* history: start_init of this connection has been read
          strayed,   \* history: an event the page waits for will never come
          silent,    \* history: the page waits for nothing, or checks nothing (see below)
          redone,    \* history: a stored chunk was asked for again
          torn,      \* history: writing a chunk that had waited its turn failed
          byClose    \* history: the page ended because its socket was closed

server == <<buf, session, greeting>>
net == <<wire, toServer, link, losses, failures>>
browser == <<page, disk>>
history == <<dropped, missed, synced, strayed, silent, redone, torn, byClose>>
vars == <<server, net, browser, history>>

Total == MaxUploads

\* Breaks, reloads, replacements, the end of the session, failed downloads and writes.
FaultsLeft == losses + failures < MaxFaults

\* Who awaits a download: the loop over the chunks of the first start_init, the
\* loop of the l-th reconnection, or the handler of new_chunk.
Loop == 0..MaxFaults
NewChunkHandler == MaxFaults + 1

\* put: the chunk that is being written, which at "drain" is another one.
NoFetch == [st |-> "none", try |-> 0, by |-> 0, put |-> 0]

FreshPage ==
    [mounted  |-> FALSE,                      \* the component is there and listens
     known    |-> 0,                          \* highestKnownChunk
     finished |-> FALSE,                      \* uploadFinished
     have     |-> {},                         \* chunks, or writtenChunks
     failed   |-> {},                         \* failedChunks
     fetch    |-> [i \in Index |-> NoFetch],  \* pendingFetches, and where they are
     loops    |-> [l \in Loop |-> {}],        \* what each loop has left to look at
     unacked  |-> 0,                          \* chunksConfirmed - chunksAcknowledged
     buffered |-> {},                         \* chunkBuffer
     next     |-> 1,                          \* nextWriteIndex
     closing  |-> FALSE,                      \* the timer of onWsClose runs
     done     |-> "no"]                       \* completeHandled, and the status

Init ==
    /\ buf = [EmptyBuffer EXCEPT !.expected = {Me, Other}, !.freezing = FALSE]
    /\ session = "listed"
    /\ greeting = [step |-> "none", chunks |-> {}, top |-> 0, eof |-> FALSE]
    /\ wire = <<>> /\ toServer = <<>> /\ link = "down" /\ losses = 0 /\ failures = 0
    /\ page = FreshPage /\ disk = <<>>
    /\ dropped = {} /\ missed = FALSE /\ synced = FALSE /\ strayed = FALSE
    /\ silent = FALSE /\ redone = FALSE /\ torn = FALSE /\ byClose = FALSE

-----------------------------------------------------------------------------
(* The server *)

NewChunk(i) == [kind |-> "new_chunk", i |-> i]
UploadFinished == [kind |-> "upload_finished"]
Finished == [kind |-> "chunk_download"]
Complete(status) == [kind |-> "complete", status |-> status]
Close == [kind |-> "close"]

Closed(w) == \E k \in 1..Len(w) : w[k] = Close

\* sendText to the page: lost without a connection, or after the close frame.
Tell(events) == wire' = IF link = "up" /\ ~Closed(wire) THEN wire \o events ELSE wire

\* The session ends if condition, and tells the page so after events; lost: the
\* page waits for an event that does not come.
EndIf(condition, events, lost) ==
    /\ session' = IF condition THEN "ok" ELSE session
    /\ Tell(IF condition THEN Append(events, Complete("ok")) ELSE events)
    /\ strayed' = (strayed \/ lost \/ (condition /\ link # "up"))

Upload ==
    /\ session = "listed" /\ ~buf.eof /\ buf.top < Total /\ NewChunkIsAllowed(buf)
    /\ buf' = AddChunk(buf)
    /\ Tell(<<NewChunk(buf'.top)>>)
    /\ UNCHANGED <<session, greeting, toServer, link, losses, failures, browser, history>>

EndUpload ==
    /\ session = "listed" /\ ~buf.eof /\ buf.top = Total
    /\ buf' = SetEndOfFile(buf)
    /\ EndIf(buf.chunks = {}, <<UploadFinished>>, FALSE)
    /\ UNCHANGED <<greeting, toServer, link, losses, failures, browser,
                   dropped, missed, synced, silent, redone, torn, byClose>>

OtherConfirms(i) ==
    /\ session = "listed" /\ i \in buf.chunks
    /\ buf' = SetChunkAsReceived(buf, i)
    /\ EndIf(buf'.chunks = {} /\ buf.eof, <<>>, FALSE)
    /\ UNCHANGED <<greeting, toServer, link, losses, failures, browser,
                   dropped, missed, synced, silent, redone, torn, byClose>>

\* The lifetime of the session is over, or the sender ends it.
EndSession ==
    /\ session = "listed" /\ FaultsLeft
    /\ losses' = losses + 1
    /\ session' = "timeout"
    /\ Tell(<<Complete("timeout")>>)
    /\ strayed' = (strayed \/ link # "up")
    /\ UNCHANGED <<buf, greeting, toServer, link, failures, browser,
                   dropped, missed, synced, silent, redone, torn, byClose>>

\* A confirmation of a chunk that is not buffered has no answer.
ReadConfirm ==
    /\ toServer # <<>> /\ session = "listed"
    /\ LET i == Head(toServer)
           answered == i \in buf.chunks
       IN  /\ buf' = SetChunkAsReceived(buf, i)
           /\ EndIf(answered /\ buf'.chunks = {} /\ buf.eof,
                    IF answered THEN <<Finished>> ELSE <<>>, ~answered)
    /\ toServer' = Tail(toServer)
    /\ UNCHANGED <<greeting, link, losses, failures, browser,
                   dropped, missed, synced, silent, redone, torn, byClose>>

\* The close frame overtakes what other threads have posted to the connection.
CloseAhead ==
    IF Closed(wire) THEN UNCHANGED wire
    ELSE \E n \in 0..Len(wire) : wire' = Append(SubSeq(wire, 1, n), Close)

\* "Session not found": the server closes the connection as it reads from it.
ReadConfirmTooLate ==
    /\ toServer # <<>> /\ session # "listed"
    /\ toServer' = <<>>
    /\ CloseAhead
    /\ UNCHANGED <<server, link, losses, failures, browser, history>>

\* The server closes the connection in favour of another one of this client.
Replace ==
    /\ link = "up" /\ ~Closed(wire) /\ FaultsLeft
    /\ losses' = losses + 1
    /\ wire' = Append(wire, Close)
    /\ UNCHANGED <<server, toServer, link, failures, browser, history>>

-----------------------------------------------------------------------------
(* The connection *)

Answers == {k \in 1..Len(wire) : wire[k].kind = "chunk_download"}

\* What is under way both ways is gone.  A page whose session has ended meanwhile
\* tries to reconnect for ever.
LoseConnection ==
    /\ FaultsLeft
    /\ losses' = losses + 1
    /\ link' = "down" /\ wire' = <<>> /\ toServer' = <<>>
    /\ greeting' = [greeting EXCEPT !.step = "none"]
    /\ synced' = FALSE

Break ==
    /\ link = "up"
    /\ LoseConnection
    /\ strayed' = (strayed \/ toServer # <<>> \/ Answers # {} \/ session # "listed")
    /\ UNCHANGED <<buf, session, failures, browser, dropped, missed, silent, redone, torn, byClose>>

\* The page is loaded anew: all it had is gone, whatever the server thinks.
Reload ==
    /\ page.mounted /\ link # "closed"
    /\ LoseConnection
    /\ page' = FreshPage /\ disk' = <<>> /\ dropped' = {}
    /\ strayed' = (strayed \/ session # "listed")
    /\ UNCHANGED <<buf, session, failures, missed, silent, redone, torn, byClose>>

\* wsOnConnect: events reach the page; then the chunks are listed; then the
\* highest index and the end of file are read; then start_init is sent.
Connect ==
    /\ link = "down" /\ session = "listed"
    /\ link' = "up"
    /\ greeting' = [greeting EXCEPT !.step = "list"]
    /\ UNCHANGED <<buf, session, wire, toServer, losses, failures, browser, history>>

ListChunks ==
    /\ greeting.step = "list"
    /\ greeting' = [greeting EXCEPT !.step = "read", !.chunks = buf.chunks]
    /\ UNCHANGED <<buf, session, net, browser, history>>

ReadState ==
    /\ greeting.step = "read"
    /\ greeting' = [greeting EXCEPT !.step = "send", !.top = buf.top, !.eof = buf.eof]
    /\ UNCHANGED <<buf, session, net, browser, history>>

SendStartInit ==
    /\ greeting.step = "send"
    /\ Tell(<<[kind |-> "start_init", chunks |-> greeting.chunks, top |-> greeting.top,
               eof |-> greeting.eof]>>)
    /\ greeting' = [greeting EXCEPT !.step = "none"]
    /\ UNCHANGED <<buf, session, toServer, link, losses, failures, browser, history>>

-----------------------------------------------------------------------------
(* The page: when it is done *)

Pending(p) == {i \in Index : p.fetch[i].st # "none"}

\* Mutants: no look for gaps; one index too many.
FinalizeUnchecked(p) == [p EXCEPT !.done = "ok"]
FinalizeFromZero(p) ==
    [p EXCEPT !.done = IF 0..p.known \subseteq p.have THEN "ok" ELSE "incomplete"]

\* finalizeStrict
Finalize(p) == [p EXCEPT !.done = IF 1..p.known \subseteq p.have THEN "ok" ELSE "incomplete"]

CheckIfDone(p) ==
    IF /\ p.finished /\ Pending(p) = {} /\ p.unacked = 0 /\ p.known > 0
       /\ Cardinality(p.have) + Cardinality(p.failed) >= p.known
    THEN Finalize(p) ELSE p

-----------------------------------------------------------------------------
(* The page: downloads *)

LowestOf(S) == CHOOSE i \in S : \A j \in S : i <= j

\* fetchAndDecryptChunk, up to its request; it does nothing for a chunk that is
\* there or on its way.
Fetch(p, i, by) == [p EXCEPT !.fetch[i] = [st |-> "get", try |-> 1, by |-> by, put |-> 0]]

\* Mutant: no loop checks at its end.
LoopOnUnchecked(p, l) ==
    LET todo == p.loops[l] \ (p.have \cup Pending(p))
        next == LowestOf(todo)
    IN  IF todo # {} THEN Fetch([p EXCEPT !.loops[l] = {j \in @ : j > next}], next, l)
        ELSE [p EXCEPT !.loops[l] = {}]

\* Loop l goes on to the next chunk that has to be fetched; at its end the loop
\* of a reconnection checks whether all is done, the first one does not.
LoopOn(p, l) ==
    LET todo == p.loops[l] \ (p.have \cup Pending(p))
        next == LowestOf(todo)
    IN  IF todo # {} THEN Fetch([p EXCEPT !.loops[l] = {j \in @ : j > next}], next, l)
        ELSE LET ended == [p EXCEPT !.loops[l] = {}]
             IN  IF l = 0 THEN ended ELSE CheckIfDone(ended)

\* A download is over, and whoever awaits it goes on.
FetchEnds(p, i) ==
    LET by == p.fetch[i].by
        q == [p EXCEPT !.fetch[i] = NoFetch]
    IN  IF by = NewChunkHandler THEN CheckIfDone(q) ELSE LoopOn(q, by)

FetchFails(p, i) == FetchEnds([p EXCEPT !.failed = @ \cup {i}], i)

\* The pause before the next attempt, or the end after the last.
Retry(p, i) ==
    IF p.fetch[i].try < Retries
    THEN [p EXCEPT !.fetch[i].st = "get", !.fetch[i].try = @ + 1]
    ELSE FetchFails(p, i)

\* The end of the first loop's last download checks nothing.
NoteSilence(i) ==
    silent' = (silent \/ (page.fetch[i].by = 0 /\ page'.fetch[i].st = "none"))

At(i, st) == page.fetch[i].st = st

\* /api/session/chunk is answered, with the chunk or with 404 (a chunk that is gone
\* stays so, and the time this answer takes does not matter) ...
Serve(i) ==
    /\ At(i, "get") /\ session = "listed"
    /\ page' = IF i \in buf.chunks THEN [page EXCEPT !.fetch[i].st = "got"]
               ELSE FetchFails(page, i)
    /\ NoteSilence(i)
    /\ UNCHANGED <<server, net, disk, dropped, missed, synced,
                   strayed, redone, torn, byClose>>

\* ... or, without its session, with an error.
ServeTooLate(i) ==
    /\ At(i, "get") /\ session # "listed"
    /\ page' = Retry(page, i)
    /\ NoteSilence(i)
    /\ UNCHANGED <<server, net, disk, dropped, missed, synced,
                   strayed, redone, torn, byClose>>

\* Something throws: the download, the decryption, or a write, which then has put
\* nothing on disk.  The chunk is asked for again whatever was being written: if that
\* was one that had waited, its turn has come and nobody comes back to it.
Fail(i) ==
    /\ page.fetch[i].st \in {"get", "got", "write", "drain"}
    /\ FaultsLeft
    /\ failures' = failures + 1
    /\ page' = Retry(page, i)
    /\ torn' = (torn \/ At(i, "drain"))
    /\ NoteSilence(i)
    /\ UNCHANGED <<server, wire, toServer, link, losses, disk, dropped, missed, synced,
                   strayed, redone, byClose>>

\* Mutant: a stored chunk is not noted.
ConfirmUnnoted(p, i) ==
    IF link = "up"
    THEN /\ toServer' = Append(toServer, i)
         /\ page' = FetchEnds([p EXCEPT !.unacked = @ + 1], i)
    ELSE /\ page' = [p EXCEPT !.fetch[i].st = "confirm"]
         /\ UNCHANGED toServer

\* Chunk i is stored, p says how: it is confirmed, or waits for a connection.
ConfirmStored(p, i) ==
    LET q == [p EXCEPT !.have = @ \cup {i}]
    IN  IF link = "up"
        THEN /\ toServer' = Append(toServer, i)
             /\ page' = FetchEnds([q EXCEPT !.unacked = @ + 1], i)
        ELSE /\ page' = [q EXCEPT !.fetch[i].st = "confirm"]
             /\ UNCHANGED toServer

\* The download of chunk i begins to write chunk j.
BeginWrite(p, i, st, j) == [p EXCEPT !.fetch[i] = [@ EXCEPT !.st = st, !.put = j]]

\* Mutant: chunks are written as they come.
ArriveInAnyOrder(i) ==
    /\ At(i, "got")
    /\ page' = BeginWrite(page, i, "write", i)
    /\ UNCHANGED <<server, wire, toServer, link, losses, failures, disk, history>>

\* flushChunkToDisk: the next chunk is written at once; any other waits for its turn.
Arrive(i) ==
    /\ At(i, "got")
    /\ IF ToDisk /\ i = page.next
       THEN /\ page' = BeginWrite(page, i, "write", i)
            /\ UNCHANGED toServer
       ELSE ConfirmStored(IF ToDisk THEN [page EXCEPT !.buffered = @ \cup {i}] ELSE page, i)
    /\ UNCHANGED <<server, wire, link, losses, failures, disk, history>>

\* A write ends; those chunks that were waiting for it follow, one by one.
Written(i) ==
    /\ At(i, "write") \/ At(i, "drain")
    /\ disk' = Append(disk, page.fetch[i].put)
    /\ LET p == [page EXCEPT !.next = @ + 1,
                             !.buffered = IF At(i, "drain") THEN @ \ {page.next} ELSE @]
       IN  IF p.next \in p.buffered
           THEN /\ page' = BeginWrite(p, i, "drain", p.next)
                /\ UNCHANGED toServer
           ELSE ConfirmStored(p, i)
    /\ UNCHANGED <<server, wire, link, losses, failures, history>>

\* waitForConnection resolves ...
ConfirmLate(i) ==
    /\ At(i, "confirm") /\ link = "up"
    /\ toServer' = Append(toServer, i)
    /\ page' = FetchEnds([page EXCEPT !.unacked = @ + 1], i)
    /\ UNCHANGED <<server, wire, link, losses, failures, disk, history>>

\* ... or throws after 15 seconds, and the chunk is asked for again (when the socket
\* is closed for good onWsClose is sooner).
WaitTooLong(i) ==
    /\ At(i, "confirm") /\ link = "down"
    /\ page' = Retry(page, i)
    /\ redone' = TRUE
    /\ NoteSilence(i)
    /\ UNCHANGED <<server, net, disk, dropped, missed, synced, strayed, torn, byClose>>

FetchStep(i) ==
    \/ Serve(i) \/ ServeTooLate(i) \/ Arrive(i) \/ Written(i)
    \/ ConfirmLate(i) \/ WaitTooLong(i)

-----------------------------------------------------------------------------
(* The page: events *)

\* markUnrecoverable: what lies below the buffer and is not here is lost.
MarkUnrecoverable(p, e) ==
    LET lowest == IF e.chunks = {} THEN e.top + 1 ELSE LowestOf(e.chunks)
    IN  [p EXCEPT !.failed = @ \cup (1..(lowest - 1) \ p.have)]

\* The component is made from the first start_init; onReconnectInit takes others.
TakeStartInit(p, e) ==
    LET l == IF p.mounted THEN losses ELSE 0
        q == [p EXCEPT !.mounted = TRUE, !.finished = @ \/ e.eof,
                       !.known = IF e.top > @ THEN e.top ELSE @, !.loops[l] = e.chunks]
    IN  LoopOn(MarkUnrecoverable(q, e), l)

TakeNewChunk(p, i) ==
    LET q == [p EXCEPT !.known = IF i > @ THEN i ELSE @]
    IN  IF i \in p.have \cup Pending(p) THEN CheckIfDone(q) ELSE Fetch(q, i, NewChunkHandler)

TakeEvent(p, e) ==
    CASE e.kind = "start_init" -> TakeStartInit(p, e)
      [] e.kind = "new_chunk" -> TakeNewChunk(p, e.i)
      [] e.kind = "chunk_download" -> CheckIfDone([p EXCEPT !.unacked = @ - 1])
      [] e.kind = "upload_finished" -> CheckIfDone([p EXCEPT !.finished = TRUE])
      [] e.kind = "complete" -> IF e.status = "ok" THEN Finalize(p)
                                ELSE [p EXCEPT !.done = e.status]
      [] e.kind = "close" -> [p EXCEPT !.closing = TRUE]

\* start_init says what the events told that came before it.
Covers(e, events) ==
    /\ UploadFinished \in events => e.eof
    /\ \A i \in Index : NewChunk(i) \in events => i \in e.chunks

\* Chunks below the highest index that start_init does not list, although it lists a
\* lower one, for chunks go in any order: nothing is tried, nothing is given up.
Overlooked(p, e) == 1..p.known \ (p.have \cup p.failed \cup Pending(p) \cup e.chunks)

\* An event that comes before the component is there has no listener.
ReadEvent ==
    /\ wire # <<>>
    /\ LET e == Head(wire)
           heard == page.mounted \/ e.kind = "start_init"
       IN  /\ page' = IF heard THEN TakeEvent(page, e) ELSE page
           /\ link' = IF e.kind = "close" THEN "closed" ELSE link
           /\ dropped' = IF heard THEN {} ELSE dropped \cup {e}
           /\ missed' = (missed \/ (e.kind = "start_init" /\ ~Covers(e, dropped)))
           /\ silent' = (silent \/ (e.kind = "start_init" /\ Overlooked(page', e) # {}))
           /\ synced' = (synced \/ e.kind = "start_init")
           /\ strayed' = (strayed \/ (~heard /\ e.kind \in {"complete", "close"}))
    /\ wire' = Tail(wire)
    /\ UNCHANGED <<server, toServer, losses, failures, disk, redone, torn, byClose>>

\* onWsClose, half a second after the socket was closed for good.
CloseTimer ==
    /\ page.closing
    /\ page' = [page EXCEPT !.done = IF page.finished /\ page.have # {} THEN "ok" ELSE "error"]
    /\ byClose' = TRUE
    /\ UNCHANGED <<server, net, disk, dropped, missed, synced, strayed, silent, redone, torn>>

-----------------------------------------------------------------------------

\* What goes on by itself once there is something to do.
SystemStep ==
    /\ page.done = "no"
    /\ \/ ReadConfirm \/ ReadConfirmTooLate
       \/ Connect \/ ListChunks \/ ReadState \/ SendStartInit
       \/ ReadEvent \/ CloseTimer
       \/ \E i \in Index : FetchStep(i)

WorldStep ==
    /\ page.done = "no"
    /\ \/ Upload \/ EndUpload \/ EndSession \/ Replace \/ Break \/ Reload
       \/ \E i \in Index : OtherConfirms(i) \/ Fail(i)

\* What happens after the page has come to its end does not concern it.
Next == SystemStep \/ WorldStep

Spec == Init /\ [][Next]_vars

\* The server answers, the browser reconnects and handles what it is sent: there
\* are finitely many such steps, and some is taken as long as there is one.
FairSpec == Spec /\ WF_vars(SystemStep)

-----------------------------------------------------------------------------
(* Properties *)

Status == {"no", "ok", "incomplete", "timeout", "error"}

\* The types of the variables; a chunk that waits for its turn to be written is
\* one the page takes itself to have.
TypeOK ==
    /\ buf \in BufferType({Me, Other})
    /\ session \in {"listed", "ok", "timeout"} /\ link \in {"up", "down", "closed"}
    /\ losses \in 0..MaxFaults /\ failures \in 0..MaxFaults
    /\ page.known \in 0..Total /\ page.done \in Status
    /\ page.have \cup page.failed \subseteq Index
    /\ page.buffered \subseteq page.have /\ (~ToDisk => disk = <<>>)
    /\ \A l \in Loop : page.loops[l] \subseteq Index
    /\ page.unacked \in 0..Total

Told == page.done = "ok" /\ ~byClose

\* "ok" means the whole file: the page never takes a file with holes, or a part of
\* it, for complete; unless it ends because its socket was closed, a chunk was
\* announced before the page listened, or "complete" reaches a page that has not
\* caught up after a break.
OkMeansWhole == Told /\ ~missed /\ synced => page.have = 1..Total

\* What is on disk then is every chunk once and in order, whatever the order the
\* downloads ended in and whichever failed, as a write of the chunk itself may;
\* unless, besides, a stored chunk was asked for again, or it was writing a chunk
\* that had waited its turn that failed (then the page counts what the disk lacks).
FileInOrder ==
    Told /\ ToDisk /\ ~missed /\ synced /\ ~redone /\ ~torn
        => disk = [k \in 1..Total |-> k]

\* The page does not give up a file it could still complete: a chunk it has not
\* is gone from the server, or the session is, or its download failed; with the
\* exceptions of OkMeansWhole.
NothingGivenUpEarly ==
    page.done = "incomplete" /\ failures = 0 /\ ~missed /\ synced
        => session # "listed" \/ \E i \in 1..page.known : i \notin page.have \cup buf.chunks

\* Once the upload has ended the page comes to its end, whatever the other receiver
\* does: it does not wait for ever for a chunk, an answer or a retry.  Unless a
\* confirmation, its answer or the end of the session is lost with a connection
\* (strayed: then the page waits for an answer that will not come, or reconnects
\* for ever to a server that refuses it), an announcement came before the page
\* listened (missed), the last download of the first loop failed, or a chunk was
\* overlooked (silent).
ReceiverFinishes == buf.eof ~> page.done # "no" \/ strayed \/ missed \/ silent

-----------------------------------------------------------------------------
(* What the comments of the page say and it does not do *)

\* SessionReceiver.svelte:339-341: a single decision point, which refuses to
\* produce a file if anything is missing.
NoFileWithGaps == page.done = "ok" => 1..page.known \subseteq page.have
=============================================================================
