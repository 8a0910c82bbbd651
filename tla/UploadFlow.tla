----------------------------- MODULE UploadFlow -----------------------------
(***************************************************************************)
(* How the web page of the sender is kept from overrunning the buffer.     *)
(* The page (src/web/src/components/SessionSender.svelte) uploads a file   *)
(* chunk by chunk: it waits until the server has accepted a chunk, and     *)
(* when by its own count the buffer is full, it waits to be told that a    *)
(* new chunk is allowed.  The server (src/src/transfersession.cpp) tells   *)
(* it from the handlers that change the buffer, each of which reads        *)
(* newChunkIsAllowed before and after the change and publishes a           *)
(* difference.  None of this is done under one lock: between two steps of  *)
(* a handler, up to Workers - 1 others may run.                            *)
(*                                                                         *)
(* The receivers have all joined; Leavers may leave, not every one, so     *)
(* that the session goes on.  The sender's connection may break; what is   *)
(* then under way to the page is lost, what is under way to the server may *)
(* be; the server notices before the page reconnects.  Sessions that drop  *)
(* their freeze on the first confirmation are left out.                    *)
(***************************************************************************)
EXTENDS BufferOps, Sequences

CONSTANTS Receiver, Sender, FreezeTimer,  \* who a handler works for
          Leavers,      \* receivers that may leave
          Workers,      \* how many handlers may run at once
          MaxLosses     \* bound: how often the sender's connection breaks

ASSUME UploadFlowAssumption ==
    /\ Receiver # {} /\ IsFiniteSet(Receiver)
    /\ Sender \notin Receiver /\ FreezeTimer \notin Receiver \cup {Sender}
    /\ Leavers \subseteq Receiver /\ Leavers # Receiver
    /\ Workers \in Nat \ {0} /\ MaxLosses \in Nat
    /\ Cardinality(Receiver) <= MaxConsumers

\* The file has as many chunks as the model can number.
Total == MaxUploads

VARIABLES buf,        \* m_buffer
          at,         \* the handler that runs for each actor, and its locals
          greeting,   \* wsOnConnect of the sender: its step and its snapshot
          posted,     \* chunks on their way to the server
          finishing,  \* upload_finished is on its way to the server
          wire,       \* events on their way to the page
          online,     \* the sender's connection is up, on both sides
          losses,     \* how often it broke
          phase,      \* what startUpload waits for
          sent,       \* the i of startUpload: chunks taken as accepted
          bufferUsed, \* the page's count of chunks in the buffer
          confirmed   \* what each receiver confirmed

server == <<buf, at, greeting, confirmed>>
link == <<posted, finishing, wire, online, losses>>
page == <<phase, sent, bufferUsed>>
vars == <<server, link, page>>

Actor == Receiver \cup {Sender, FreezeTimer}
AtRest == [step |-> "idle", chunk |-> 0, gone |-> 0, old |-> FALSE, new |-> FALSE]

Init ==
    /\ buf = [EmptyBuffer EXCEPT !.expected = Receiver]
    /\ at = [a \in Actor |-> AtRest]
    /\ greeting = [step |-> "none", chunks |-> 0]
    /\ posted = 0 /\ finishing = FALSE /\ wire = <<>> /\ online = TRUE /\ losses = 0
    /\ phase = "send" /\ sent = 0 /\ bufferUsed = 0
    /\ confirmed = [c \in Receiver |-> {}]

-----------------------------------------------------------------------------
(* Handlers *)

Running == {a \in Actor : at[a].step # "idle"}
Quiet == Running = {} /\ greeting.step = "none"

Begin(a, l) ==
    /\ at[a].step = "idle" /\ Cardinality(Running) < Workers
    /\ at' = [at EXCEPT ![a] = l]

In(a, s) == at[a].step = s
Go(a, s) == at' = [at EXCEPT ![a].step = s]
Finish(a) == at' = [at EXCEPT ![a] = AtRest]

\* sendText to the sender: lost when there is no connection.
Tell(event) ==
    /\ wire' = IF online THEN Append(wire, event) ELSE wire
    /\ UNCHANGED <<posted, finishing, online, losses>>

New == [kind |-> "new_chunk"]
Refused == [kind |-> "add_chunk_failure"]
Removed(n) == [kind |-> "chunk_removed", n |-> n]
Allowed(status) == [kind |-> "new_chunk_allowed", status |-> status]
StartInit(n) == [kind |-> "start_init", n |-> n]

Lost(b, after) == Cardinality(b.chunks \ after.chunks)

-----------------------------------------------------------------------------
(* addChunk and setEndOfFile, for the sender *)

\* newChunkIsAllowed is read a first time.
BeginAddChunk ==
    /\ posted > 0
    /\ Begin(Sender, [AtRest EXCEPT !.step = "insert",
                                    !.old = NewChunkIsAllowed(buf)])
    /\ posted' = posted - 1
    /\ UNCHANGED <<buf, greeting, confirmed, finishing, wire, online, losses, page>>

Insert ==
    /\ In(Sender, "insert")
    /\ IF NewChunkIsAllowed(buf)
       THEN /\ buf' = AddChunk(buf)
            /\ at' = [at EXCEPT ![Sender].step = "tellNew",
                                ![Sender].chunk = buf'.top]
            /\ UNCHANGED link
       ELSE Finish(Sender) /\ Tell(Refused) /\ UNCHANGED buf
    /\ UNCHANGED <<greeting, confirmed, page>>

TellNew ==
    /\ In(Sender, "tellNew")
    /\ Tell(New)
    /\ Go(Sender, "reread")
    /\ UNCHANGED <<buf, greeting, confirmed, page>>

\* upload_finished follows the chunks on the same connection.
EndOfFile ==
    /\ finishing /\ posted = 0
    /\ at[Sender].step = "idle" /\ Cardinality(Running) < Workers
    /\ buf' = SetEndOfFile(buf)
    /\ finishing' = FALSE
    /\ UNCHANGED <<at, greeting, confirmed, posted, wire, online, losses, page>>

-----------------------------------------------------------------------------
(* setChunkAsReceived, for a receiver *)

\* A receiver learns of a chunk from new_chunk, or from start_init before that.
BeginConfirm(c, i) ==
    /\ c \in buf.expected /\ i \in buf.chunks \ confirmed[c]
    /\ Begin(c, [AtRest EXCEPT !.step = "confirm", !.chunk = i,
                               !.old = NewChunkIsAllowed(buf)])
    /\ UNCHANGED <<buf, greeting, confirmed, link, page>>

Confirm(c) ==
    /\ In(c, "confirm")
    /\ LET i == at[c].chunk
       IN  /\ buf' = SetChunkAsReceived(buf, i)
           /\ confirmed' = [confirmed EXCEPT ![c] = @ \cup {i}]
           /\ IF i \in buf.chunks
              THEN at' = [at EXCEPT ![c].step = "tellRemoved",
                                    ![c].gone = Lost(buf, buf')]
              ELSE Finish(c)
    /\ UNCHANGED <<greeting, link, page>>

-----------------------------------------------------------------------------
(* removeReceiver *)

BeginLeave(c) ==
    /\ c \in Leavers \cap buf.expected
    /\ Begin(c, [AtRest EXCEPT !.step = "sweep"])
    /\ buf' = RemoveConsumer(buf, c)
    /\ UNCHANGED <<greeting, confirmed, link, page>>

Sweep(c) ==
    /\ In(c, "sweep")
    /\ buf' = Sanitize(buf)
    /\ at' = [at EXCEPT ![c].step = "tellLeft", ![c].gone = Lost(buf, buf')]
    /\ UNCHANGED <<greeting, confirmed, link, page>>

\* The page is told which chunks went, and nothing of newChunkIsAllowed.
TellLeft(c) ==
    /\ In(c, "tellLeft")
    /\ IF at[c].gone # 0 THEN Tell(Removed(at[c].gone)) ELSE UNCHANGED link
    /\ Finish(c)
    /\ UNCHANGED <<buf, greeting, confirmed, page>>

-----------------------------------------------------------------------------
(* dropInitialChunksFreeze, for the timer or, with one worker, the sender *)

DropFreeze ==
    /\ buf.freezing
    /\ buf' = DropFreezing(buf)
    /\ Begin(FreezeTimer, [AtRest EXCEPT !.step = "tellRemoved",
                                         !.gone = Lost(buf, buf')])
    /\ UNCHANGED <<greeting, confirmed, link, page>>

-----------------------------------------------------------------------------
(* What the handlers that change the buffer have in common *)

TellRemoved(a) ==
    /\ In(a, "tellRemoved")
    /\ IF at[a].gone # 0 THEN Tell(Removed(at[a].gone)) ELSE UNCHANGED link
    /\ Go(a, "reread")
    /\ UNCHANGED <<buf, greeting, confirmed, page>>

\* newChunkIsAllowed is read a second time ...
Reread(a) ==
    /\ In(a, "reread")
    /\ at' = [at EXCEPT ![a].step = "publish", ![a].new = NewChunkIsAllowed(buf)]
    /\ UNCHANGED <<buf, greeting, confirmed, link, page>>

\* Mutants
PublishNotAtDrop(a) ==
    /\ In(a, "publish")
    /\ IF a # FreezeTimer /\ at[a].new # at[a].old
       THEN Tell(Allowed(at[a].new)) ELSE UNCHANGED link
    /\ Finish(a)
    /\ UNCHANGED <<buf, greeting, confirmed, page>>

\* ... and published if it differs, at the end of the freeze in any case.
Publish(a) ==
    /\ In(a, "publish")
    /\ IF a = FreezeTimer \/ at[a].new # at[a].old
       THEN Tell(Allowed(at[a].new)) ELSE UNCHANGED link
    /\ Finish(a)
    /\ UNCHANGED <<buf, greeting, confirmed, page>>

-----------------------------------------------------------------------------
(* The connection of the sender *)

\* The connection breaks: events under way are lost, and some of the chunks.
Break ==
    /\ online /\ losses < MaxLosses
    /\ online' = FALSE /\ losses' = losses + 1
    /\ wire' = <<>>
    /\ posted' \in 0..posted /\ finishing' \in {finishing, FALSE}
    /\ greeting' = [greeting EXCEPT !.step = "none"]
    /\ UNCHANGED <<buf, at, confirmed, page>>

\* wsOnConnect: events reach the page again; then the buffer is listed; then
\* the list is sent as start_init.
Connect ==
    /\ ~online
    /\ online' = TRUE
    /\ greeting' = [step |-> "list", chunks |-> 0]
    /\ UNCHANGED <<buf, at, confirmed, posted, finishing, wire, losses, page>>

ListChunks ==
    /\ greeting.step = "list"
    /\ greeting' = [step |-> "send", chunks |-> Cardinality(buf.chunks)]
    /\ UNCHANGED <<buf, at, confirmed, link, page>>

SendStartInit ==
    /\ greeting.step = "send"
    /\ Tell(StartInit(greeting.chunks))
    /\ greeting' = [greeting EXCEPT !.step = "none"]
    /\ UNCHANGED <<buf, at, confirmed, page>>

-----------------------------------------------------------------------------
(* The page *)

\* sendBinary; without a connection the loop waits for one and tries again.
SendChunk ==
    /\ phase = "send" /\ sent < Total /\ online
    /\ posted' = posted + 1
    /\ phase' = "accept"
    /\ UNCHANGED <<server, finishing, wire, online, losses, sent, bufferUsed>>

\* Mutants
FinishUploadEarly ==
    /\ phase = "send" /\ sent = Total - 1
    /\ phase' = "finished"
    /\ finishing' = online
    /\ UNCHANGED <<server, posted, wire, online, losses, sent, bufferUsed>>

\* upload_finished is sent once, whether or not there is a connection.
FinishUpload ==
    /\ phase = "send" /\ sent = Total
    /\ phase' = "finished"
    /\ finishing' = online
    /\ UNCHANGED <<server, posted, wire, online, losses, sent, bufferUsed>>

\* Mutants
ChunkAcceptedNoWait(used) ==
    /\ bufferUsed' = used
    /\ IF phase = "accept"
       THEN sent' = sent + 1 /\ phase' = "send"
       ELSE UNCHANGED <<phase, sent>>
ChunkAcceptedUncounted(used) ==
    /\ IF phase = "accept"
       THEN sent' = sent + 1 /\ phase' = IF used >= MaxQueue THEN "space" ELSE "send"
       ELSE UNCHANGED <<phase, sent>>
    /\ UNCHANGED bufferUsed

\* startUpload goes on with a chunk accepted, the buffer counted as used.
ChunkAccepted(used) ==
    /\ bufferUsed' = used
    /\ IF phase = "accept"
       THEN /\ sent' = sent + 1
            /\ phase' = IF used >= MaxQueue THEN "space" ELSE "send"
       ELSE UNCHANGED <<phase, sent>>

\* Mutants
ResumeAgain(used) ==
    /\ bufferUsed' = used
    /\ phase' = IF phase \notin {"accept", "space"} THEN phase
                ELSE IF used >= MaxQueue THEN "space" ELSE "send"
    /\ UNCHANGED sent

\* start_init stands for whatever the page is waiting for.
Resume(used) ==
    /\ bufferUsed' = used
    /\ sent' = IF phase = "accept" THEN sent + 1 ELSE sent
    /\ phase' = IF phase \notin {"accept", "space"} THEN phase
                ELSE IF used >= MaxQueue THEN "space" ELSE "send"

\* Mutants
ChunksGoneUnclamped(n) ==
    /\ bufferUsed' = bufferUsed - n
    /\ UNCHANGED <<phase, sent>>

\* Chunks may be removed before the page has counted them.
ChunksGone(n) ==
    /\ bufferUsed' = IF n > bufferUsed THEN 0 ELSE bufferUsed - n
    /\ UNCHANGED <<phase, sent>>

\* The handlers of the page; add_chunk_failure has none.
Receive ==
    /\ wire # <<>>
    /\ LET e == Head(wire)
       IN  \/ /\ e.kind = "new_chunk"
              /\ ChunkAccepted(bufferUsed + 1)
           \/ /\ e.kind = "chunk_removed"
              /\ ChunksGone(e.n)
           \/ /\ e.kind = "new_chunk_allowed"
              /\ phase' = IF phase = "space" /\ e.status THEN "send" ELSE phase
              /\ UNCHANGED <<sent, bufferUsed>>
           \/ /\ e.kind = "start_init"
              /\ Resume(e.n)
           \/ /\ e.kind = "add_chunk_failure"
              /\ UNCHANGED page
    /\ wire' = Tail(wire)
    /\ UNCHANGED <<server, posted, finishing, online, losses>>

-----------------------------------------------------------------------------

Step(a) == \/ TellRemoved(a) \/ Reread(a) \/ Publish(a)
           \/ a = Sender /\ (Insert \/ TellNew)
           \/ a \in Receiver /\ (Confirm(a) \/ Sweep(a) \/ TellLeft(a))

Page == SendChunk \/ FinishUpload \/ Receive
Greet == ListChunks \/ SendStartInit

Next ==
    \/ BeginAddChunk \/ EndOfFile \/ DropFreeze
    \/ \E c \in Receiver, i \in Index : BeginConfirm(c, i)
    \/ \E c \in Receiver : BeginLeave(c)
    \/ \E a \in Actor : Step(a)
    \/ Break \/ Connect \/ Greet \/ Page

Spec == Init /\ [][Next]_vars

\* Handlers and the page run, the freeze ends, the sender reconnects, and each
\* receiver that stays confirms what is in the buffer.
FairSpec ==
    /\ Spec
    /\ WF_vars(Page) /\ WF_vars(Greet) /\ WF_vars(Connect)
    /\ \A a \in Actor : WF_vars(Step(a))
    /\ SF_vars(BeginAddChunk) /\ SF_vars(EndOfFile) /\ SF_vars(DropFreeze)
    /\ \A c \in Receiver : SF_vars(\E i \in Index : BeginConfirm(c, i))

-----------------------------------------------------------------------------
(* Properties *)

\* The types of the variables.  The page waits for the answer to one chunk at a
\* time, so that no more than one is under way, and one more after each break; its
\* count of chunks never falls below zero.
TypeOK ==
    /\ buf \in BufferType(Receiver)
    /\ \A a \in Actor : at[a].chunk \in 0..MaxUploads /\ at[a].gone \in 0..MaxQueue
    /\ greeting.step \in {"none", "list", "send"} /\ greeting.chunks \in 0..MaxQueue
    /\ posted \in 0..(MaxLosses + 1)
    /\ phase \in {"send", "accept", "space", "finished"}
    /\ sent \in 0..Total
    /\ bufferUsed \in 0..(MaxQueue + Total)   \* start_init, and what it counted already

\* The end of file means that the whole file is there: when the server takes
\* upload_finished, it has numbered every chunk of it, if the connection held.
EndOfFileMeansWholeFile == buf.eof /\ losses = 0 => buf.top = Total

\* The page never takes the buffer for emptier than it is when it sends: its
\* count, kept from events, covers every chunk there is, if the connection held.
PageCountsEveryChunk ==
    phase = "send" /\ losses = 0 => Cardinality(buf.chunks) <= bufferUsed

\* No chunk is uploaded twice, whatever breaks: the server has not numbered more
\* chunks than the page sent, the ones on their way or being inserted included.
NoChunkTwice ==
    buf.top + posted + (IF In(Sender, "insert") THEN 1 ELSE 0)
        <= sent + (IF phase = "accept" THEN 1 ELSE 0)

\* SESSION_LIFECYCLE.md:19: the sender pauses while the buffer is full and resumes
\* on new_chunk_allowed.  So no chunk is refused: the page, which does not listen
\* for a refusal, would wait for its acceptance for ever.
NoChunkRefused == \A k \in 1..Len(wire) : wire[k] # Refused

\* EDGE_CASES.md:57, BUFFER_AND_CHUNKS.md:49-51: once room is made in a full
\* buffer, the sender is told.  When nothing is running and nothing is under way,
\* the page does not wait for room that is there.
SenderToldOfRoom ==
    Quiet /\ wire = <<>> /\ phase = "space" => ~NewChunkIsAllowed(buf)

\* SessionSender.svelte:276: a chunk that meets a broken connection is sent again
\* after the reconnection, so the file is whole even then.
BrokenUploadIsWhole == buf.eof => buf.top = Total

\* The upload is finished, whenever the receivers that stay go on confirming.
UploadFinishes == <>(buf.eof)
=============================================================================
