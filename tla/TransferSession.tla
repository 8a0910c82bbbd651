-------------------------- MODULE TransferSession --------------------------
(***************************************************************************)
(* One transfer session (src/src/transfersession.cpp) and the threads that *)
(* run its handlers: the workers of the web server, one WebSocket message  *)
(* of a client at a time but any number of HTTP requests at once, and the  *)
(* timer threads.  A handler is a sequence of steps; a step is one         *)
(* critical section of the buffer or of m_receiversMutex, or one unlocked  *)
(* access.  Between two steps of a handler any other thread may run.       *)
(*                                                                         *)
(* The session object lives as long as it is listed in TransferSessionList *)
(* or a handler is running in it; its destructor reports m_completeType.   *)
(* What the session tells its members meanwhile changes nothing in it and  *)
(* is left out; newChunkIsAllowed, which steers the sender, is the subject *)
(* of module UploadFlow.                                                   *)
(*                                                                         *)
(* The buffer is a record of BufferOps.  The unlocked sanitize of a        *)
(* departure is one step of its own here; that it races with the other     *)
(* operations in memory is the subject of module Buffer.                   *)
(***************************************************************************)
EXTENDS BufferOps

CONSTANTS Thread,     \* threads that run handlers
          Receiver,   \* clients that may join as receivers
          Sender,     \* the client that created the session
          Nobody      \* no client: a handler run by a timer; no mutex owner

ASSUME SessionAssumption ==
    /\ Sender \notin Receiver
    /\ Nobody \notin Receiver \cup {Sender} \cup Thread
    /\ IsFiniteSet(Receiver) /\ IsFiniteSet(Thread)

VARIABLES buf,           \* m_buffer
          receivers,     \* m_dataReceivers, expired pointers included
          mutex,         \* the thread that holds m_receiversMutex exclusively
          named,         \* m_fileInfo.name is not empty
          autoDrop,      \* Options::autoDropFreezeOnFirstChunk
          autoFired,     \* m_autoDropFreezeFired
          completeType,  \* m_completeType
          listed,        \* the session is in TransferSessionList
          over,          \* what ~TransferSession reported, "no" before it ran
          alive,         \* clients whose object exists
          joined,        \* receivers that have joined, here for ever
          pc, local,     \* where each thread is, and its local variables
          confirmed,     \* history: which of its consumers confirmed a chunk while
                         \* it was buffered
          loose,         \* history: chunks confirmed twice, out of turn, or by
                         \* a receiver that left before the others confirmed
          late,          \* history: chunks inserted past the end of file
          overtaking,    \* history: chunks inserted while a handler that has
                         \* counted no chunks is about to test for the end of file
          crossed,       \* history: receivers in the list that a removal which had
                         \* not seen them there took from the consumers
          drainedBy      \* history: whether a departure took the last chunk

session == <<receivers, mutex, named, autoDrop, autoFired>>
ending == <<completeType, listed, over>>
clients == <<alive, joined>>
history == <<confirmed, loose, late, overtaking, crossed, drainedBy>>
vars == <<buf, session, ending, clients, pc, local, history>>

Client == Receiver \cup {Sender}
CompleteType == {"ok", "timeout", "senderIsGone", "noReceivers"}

\* by: the client the handler works for.  who: the receiver it adds or removes.
\* kept: removeReceiver's removedClient.  by and kept are owners of the client's
\* object.  none: it found no chunks, or no receivers.  back: where the handler
\* it is nested in goes on.
AtRest == [by |-> Nobody, who |-> Nobody, kept |-> Nobody, chunk |-> 0,
           none |-> FALSE, back |-> "idle"]

Init ==
    /\ buf = EmptyBuffer
    /\ receivers = {} /\ mutex = Nobody
    /\ named = FALSE /\ autoDrop \in BOOLEAN /\ autoFired = FALSE
    /\ completeType = "ok" /\ listed = TRUE /\ over = "no"
    /\ alive = Client /\ joined = {}
    /\ pc = [t \in Thread |-> "idle"]
    /\ local = [t \in Thread |-> AtRest]
    /\ confirmed = [i \in Index |-> {}]
    /\ loose = {} /\ late = {} /\ overtaking = {} /\ crossed = {}
    /\ drainedBy = "other"

-----------------------------------------------------------------------------
(* Threads *)

Quiescent == \A t \in Thread : pc[t] = "idle"

Adding == {"addTest", "addInsert"}
Joining == {"join", "joinPush"}

\* The WebSocket messages of a client are handled one after the other.
SocketFree(c) == \A t \in Thread : local[t].by = c => pc[t] \in Adding \cup Joining

\* No handler owns the object of client c.
Unowned(c) == \A t \in Thread : c \notin {local[t].by, local[t].kept}

\* Thread t starts a handler at step s with locals l.
Begin(t, s, l) ==
    /\ pc[t] = "idle"
    /\ pc' = [pc EXCEPT ![t] = s]
    /\ local' = [local EXCEPT ![t] = l]

Go(t, s) == pc' = [pc EXCEPT ![t] = s] /\ UNCHANGED local

GoWith(t, s, field, value) ==
    /\ pc' = [pc EXCEPT ![t] = s]
    /\ local' = [local EXCEPT ![t][field] = value]

\* removedClient is given back, and the receiver is done with.
GoForget(t, s) ==
    /\ pc' = [pc EXCEPT ![t] = s]
    /\ local' = [local EXCEPT ![t].who = Nobody, ![t].kept = Nobody]

Finish(t) == /\ pc' = [pc EXCEPT ![t] = "idle"]
             /\ local' = [local EXCEPT ![t] = AtRest]

\* The end of dropInitialChunksFreeze: back to the confirmation it is nested
\* in, or done.
Return(t) == IF local[t].back = "idle" THEN Finish(t)
             ELSE pc' = [pc EXCEPT ![t] = local[t].back]
                  /\ local' = [local EXCEPT ![t].back = "idle"]

\* What a step that sanitized the buffer records.
Drained(cause) ==
    drainedBy' = IF buf.chunks # {} /\ buf'.chunks = {} THEN cause ELSE drainedBy

\* TransferSessionList::remove and the return of the handler.
Unlist(t) == /\ listed' = FALSE
             /\ Return(t)
             /\ UNCHANGED <<completeType, over>>

-----------------------------------------------------------------------------
(* addChunk, on behalf of the sender *)

StartAddChunk(t) ==
    /\ listed /\ Sender \in alive
    /\ buf.top + Cardinality({u \in Thread : pc[u] \in Adding}) < MaxUploads
    /\ Begin(t, "addTest", [AtRest EXCEPT !.by = Sender])
    /\ UNCHANGED <<buf, session, ending, clients, history>>

AddTestEndOfFile(t) ==
    /\ pc[t] = "addTest"
    /\ IF buf.eof THEN Finish(t) ELSE Go(t, "addInsert")
    /\ UNCHANGED <<buf, session, ending, clients, history>>

\* Threads that counted no chunks and will test for the end of file.
CountedNone == {u \in Thread : \/ pc[u] = "confirmEnd" /\ local[u].none
                               \/ pc[u] = "dropEof"}

AddInsert(t) ==
    /\ pc[t] = "addInsert"
    /\ buf' = AddChunk(buf)
    /\ Finish(t)
    /\ LET new == buf'.chunks \ buf.chunks
       IN  /\ late' = IF buf.eof THEN late \cup new ELSE late
           /\ overtaking' = IF ~buf.eof /\ CountedNone # {}
                            THEN overtaking \cup new ELSE overtaking
    /\ UNCHANGED <<session, ending, clients, confirmed, loose, crossed, drainedBy>>

AddChunkSteps(t) == AddTestEndOfFile(t) \/ AddInsert(t)

-----------------------------------------------------------------------------
(* setChunkAsReceived, on behalf of any member, a kicked one included *)

\* The first confirmation of an auto-drop session drops the freeze first.
StartConfirm(t, c, i) ==
    /\ listed /\ c \in alive \cap (joined \cup {Sender}) /\ SocketFree(c)
    /\ LET l == [AtRest EXCEPT !.by = c, !.chunk = i]
           fires == autoDrop /\ buf.freezing /\ ~autoFired
       IN  /\ autoFired' = (autoFired \/ fires)
           /\ IF fires
              THEN Begin(t, "drop", [l EXCEPT !.back = "confirm"])
              ELSE Begin(t, "confirm", l)
    /\ UNCHANGED <<buf, receivers, mutex, named, autoDrop, ending, clients, history>>

ConfirmSet(t) ==
    /\ pc[t] = "confirm"
    /\ LET i == local[t].chunk
           c == local[t].by
       IN  /\ buf' = SetChunkAsReceived(buf, i)
           /\ IF i \in buf.chunks
              THEN /\ Go(t, "confirmCount")
                   /\ confirmed' = [confirmed EXCEPT ![i] = @ \cup ({c} \cap buf.expected)]
                   /\ loose' = IF c \in confirmed[i] \/ c \notin buf.expected
                               THEN loose \cup {i} ELSE loose
              ELSE Finish(t) /\ UNCHANGED <<confirmed, loose>>
    /\ Drained("other")
    /\ UNCHANGED <<session, ending, clients, late, overtaking, crossed>>

ConfirmCount(t) ==
    /\ pc[t] = "confirmCount"
    /\ GoWith(t, "confirmEnd", "none", buf.chunks = {})
    /\ UNCHANGED <<buf, session, ending, clients, history>>

ConfirmEnd(t) ==
    /\ pc[t] = "confirmEnd"
    /\ IF local[t].none /\ buf.eof
       THEN Unlist(t)
       ELSE Finish(t) /\ UNCHANGED ending
    /\ UNCHANGED <<buf, session, clients, history>>

ConfirmSteps(t) == ConfirmSet(t) \/ ConfirmCount(t) \/ ConfirmEnd(t)

-----------------------------------------------------------------------------
(* setEndOfFile and setFileInfo, on behalf of the sender *)

StartEndOfFile(t) ==
    /\ listed /\ Sender \in alive /\ SocketFree(Sender)
    /\ ~buf.eof
    /\ buf' = SetEndOfFile(buf)
    /\ Begin(t, "eofCount", [AtRest EXCEPT !.by = Sender])
    /\ UNCHANGED <<session, ending, clients, history>>

\* Mutants
EndOfFileNoRecheck(t) ==
    /\ pc[t] = "eofCount"
    /\ Finish(t)
    /\ UNCHANGED <<buf, session, ending, clients, history>>

EndOfFileEnds(t) ==
    /\ pc[t] = "eofCount"
    /\ Unlist(t)
    /\ UNCHANGED <<buf, session, clients, history>>

\* All chunks may have been confirmed before the end of file was known.
EndOfFileCount(t) ==
    /\ pc[t] = "eofCount"
    /\ IF buf.chunks = {} THEN Unlist(t) ELSE Finish(t) /\ UNCHANGED ending
    /\ UNCHANGED <<buf, session, clients, history>>

SetFileInfo ==
    /\ listed /\ Sender \in alive /\ SocketFree(Sender)
    /\ ~named
    /\ named' = TRUE
    /\ UNCHANGED <<buf, receivers, mutex, autoDrop, autoFired, ending, clients, pc,
                   local, history>>

-----------------------------------------------------------------------------
(* dropInitialChunksFreeze: by the sender, by the freeze timer, or nested in a
   confirmation *)

StartDropBySender(t) ==
    /\ listed /\ Sender \in alive /\ SocketFree(Sender)
    /\ buf.freezing
    /\ Begin(t, "drop", [AtRest EXCEPT !.by = Sender])
    /\ UNCHANGED <<buf, session, ending, clients, history>>

\* The timer holds a weak pointer: it fires while the object exists.
StartDropByTimer(t) ==
    /\ listed \/ ~Quiescent
    /\ buf.freezing
    /\ Begin(t, "drop", AtRest)
    /\ UNCHANGED <<buf, session, ending, clients, history>>

DropUnfreeze(t) ==
    /\ pc[t] = "drop"
    /\ IF buf.freezing
       THEN buf' = DropFreezing(buf) /\ Go(t, "dropCheck")
       ELSE Return(t) /\ UNCHANGED buf
    /\ Drained("other")
    /\ UNCHANGED <<session, ending, clients, confirmed, loose, late,
                   overtaking, crossed>>

\* A session without receivers, or without a file name, ends with its freeze.
DropCheckReceivers(t) ==
    /\ pc[t] = "dropCheck" /\ mutex = Nobody
    /\ IF receivers # {} /\ named
       THEN Go(t, "dropCount") /\ UNCHANGED completeType
       ELSE /\ Go(t, "unlist")
            /\ completeType' = IF receivers = {} THEN "noReceivers"
                               ELSE "senderIsGone"
    /\ UNCHANGED <<buf, session, listed, over, clients, history>>

DropCount(t) ==
    /\ pc[t] = "dropCount"
    /\ IF buf.chunks = {} THEN Go(t, "dropEof") ELSE Return(t)
    /\ UNCHANGED <<buf, session, ending, clients, history>>

DropTestEndOfFile(t) ==
    /\ pc[t] = "dropEof"
    /\ IF buf.eof THEN Unlist(t) ELSE Return(t) /\ UNCHANGED ending
    /\ UNCHANGED <<buf, session, clients, history>>

\* TransferSessionList::remove after m_completeType was written.
UnlistStep(t) ==
    /\ pc[t] = "unlist"
    /\ Unlist(t)
    /\ UNCHANGED <<buf, session, clients, history>>

DropSteps(t) == \/ DropUnfreeze(t) \/ DropCheckReceivers(t)
                \/ DropCount(t) \/ DropTestEndOfFile(t)

-----------------------------------------------------------------------------
(* sessionJoin and addReceiver *)

\* A client that has joined is turned away, and so is everybody after a removal;
\* two requests of one client may both get past this.
StartJoin(t, c) ==
    /\ listed /\ c \in alive /\ c \notin joined
    /\ ~buf.removed
    /\ Begin(t, "join", [AtRest EXCEPT !.by = c, !.who = c])
    /\ UNCHANGED <<buf, session, ending, clients, history>>

JoinAsConsumer(t) ==
    /\ pc[t] = "join" /\ mutex = Nobody
    /\ LET c == local[t].who
       IN  IF c \notin receivers /\ CanAddConsumer(buf, c)
           THEN buf' = AddConsumer(buf, c) /\ mutex' = t /\ Go(t, "joinPush")
           ELSE Finish(t) /\ UNCHANGED <<buf, mutex>>
    /\ UNCHANGED <<receivers, named, autoDrop, autoFired, ending, clients, history>>

\* The receiver is listed and told of, the mutex is released, and the client
\* remembers the session it is in.
JoinPush(t) ==
    /\ pc[t] = "joinPush"
    /\ receivers' = receivers \cup {local[t].who}
    /\ mutex' = Nobody
    /\ joined' = joined \cup {local[t].who}
    /\ Finish(t)
    /\ UNCHANGED <<buf, named, autoDrop, autoFired, ending, alive, history>>

-----------------------------------------------------------------------------
(* removeReceiver: a kick by the sender, or the end of the receiver *)

\* The sender may name anybody but itself, a receiver or not.
StartKick(t, c) ==
    /\ listed /\ Sender \in alive /\ SocketFree(Sender)
    /\ Begin(t, "rmList", [AtRest EXCEPT !.by = Sender, !.who = c])
    /\ UNCHANGED <<buf, session, ending, clients, history>>

\* m_dataReceivers becomes rest; the pointer to the removed client is kept.
TakeFromList(t, rest) ==
    /\ receivers' = rest
    /\ crossed' = crossed \cap rest
    /\ LET c == local[t].who
       IN  local' = [local EXCEPT ![t].none = (rest = {}),
                                  ![t].kept = IF c \in receivers \cap alive
                                              THEN c ELSE Nobody]
    /\ pc' = [pc EXCEPT ![t] = "rmConsumer"]
    /\ UNCHANGED <<confirmed, loose, late, overtaking, drainedBy>>

\* Mutants
RemoveFromListKeepExpired(t) ==
    /\ pc[t] = "rmList" /\ mutex = Nobody
    /\ TakeFromList(t, receivers \ ({local[t].who} \cap alive))
    /\ UNCHANGED <<buf, mutex, named, autoDrop, autoFired, ending, clients>>
RemoveFromListDestroys(t) ==
    /\ pc[t] = "rmList" /\ mutex = Nobody
    /\ LET c == local[t].who
       IN  IF c \in receivers \cap alive /\ Unowned(c)
           THEN /\ receivers' = receivers \ {c} /\ alive' = alive \ {c}
                /\ mutex' = t
                /\ UNCHANGED <<pc, local, history>>
           ELSE TakeFromList(t, (receivers \cap alive) \ {c}) /\ UNCHANGED <<mutex, alive>>
    /\ UNCHANGED <<buf, named, autoDrop, autoFired, ending, joined>>

\* Expired pointers go as well as the receiver itself.
RemoveFromList(t) ==
    /\ pc[t] = "rmList" /\ mutex = Nobody
    /\ TakeFromList(t, (receivers \cap alive) \ {local[t].who})
    /\ UNCHANGED <<buf, mutex, named, autoDrop, autoFired, ending, clients>>

\* The receiver may have joined since the list was read.  Unless a sweep is to
\* follow, the handler is done with it.
RemoveFromConsumers(t) ==
    /\ pc[t] = "rmConsumer"
    /\ LET c == local[t].who
           present == \/ c \in receivers
                      \/ \E u \in Thread : pc[u] = "joinPush" /\ local[u].who = c
       IN  /\ buf' = RemoveConsumer(buf, c)
           /\ IF c \in buf.expected THEN Go(t, "rmSweep")
              ELSE GoForget(t, "rmCheck")
           /\ loose' = loose \cup {i \in buf.chunks : c \in buf.expected \cap confirmed[i]}
           /\ confirmed' = [i \in Index |-> IF i \in buf.chunks THEN confirmed[i] \ {c}
                                            ELSE confirmed[i]]
           /\ crossed' = IF c \in buf.expected /\ present
                         THEN crossed \cup {c} ELSE crossed
    /\ UNCHANGED <<session, ending, clients, late, overtaking, drainedBy>>

\* The sanitize without m_sharedMtx; the sender is not told of the room it makes.
RemoveSweep(t) ==
    /\ pc[t] = "rmSweep"
    /\ buf' = Sanitize(buf)
    /\ Drained("departure")
    /\ GoForget(t, "rmCheck")
    /\ UNCHANGED <<session, ending, clients, confirmed, loose, late,
                   overtaking, crossed>>

\* Mutants
RemoveCheckFreezeOnly(t) ==
    /\ pc[t] = "rmCheck"
    /\ IF local[t].none /\ autoDrop
       THEN Go(t, "unlist") /\ completeType' = "ok"
       ELSE /\ IF local[t].none /\ buf.removed THEN Go(t, "rmEof") ELSE Finish(t)
            /\ UNCHANGED completeType
    /\ UNCHANGED <<buf, session, listed, over, clients, history>>

\* With no receivers left an auto-drop session ends, and so does one whose
\* freeze is over; m_someChunkWasRemoved is read too but implies the latter.
RemoveCheck(t) ==
    /\ pc[t] = "rmCheck"
    /\ IF local[t].none /\ autoDrop
       THEN Go(t, "unlist") /\ completeType' = "ok"
       ELSE /\ IF local[t].none /\ (buf.removed \/ ~buf.freezing)
               THEN Go(t, "rmEof") ELSE Finish(t)
            /\ UNCHANGED completeType
    /\ UNCHANGED <<buf, session, listed, over, clients, history>>

RemoveTestEndOfFile(t) ==
    /\ pc[t] = "rmEof"
    /\ IF buf.eof THEN Go(t, "rmCount") /\ UNCHANGED completeType
       ELSE Go(t, "unlist") /\ completeType' = "noReceivers"
    /\ UNCHANGED <<buf, session, listed, over, clients, history>>

RemoveCount(t) ==
    /\ pc[t] = "rmCount"
    /\ completeType' = IF buf.chunks = {} THEN "ok" ELSE "noReceivers"
    /\ Go(t, "unlist")
    /\ UNCHANGED <<buf, session, listed, over, clients, history>>

RemoveSteps(t) == \/ RemoveFromList(t) \/ RemoveFromConsumers(t) \/ RemoveSweep(t)
                  \/ RemoveCheck(t) \/ RemoveTestEndOfFile(t) \/ RemoveCount(t)

-----------------------------------------------------------------------------
(* update(ClientInternal::destroyed): the object of a member is destroyed, by
   its timeout or by leaving, once no handler owns it *)

ReceiverDestroyed(t, c) ==
    /\ listed \/ ~Quiescent
    /\ c \in alive \cap joined
    /\ Unowned(c)
    /\ alive' = alive \ {c}
    /\ Begin(t, IF Sender \in alive THEN "rmList" ELSE "goneEof",
             [AtRest EXCEPT !.who = c])
    /\ UNCHANGED <<buf, session, ending, joined, history>>

SenderDestroyed(t) ==
    /\ listed \/ ~Quiescent
    /\ Sender \in alive
    /\ Unowned(Sender)
    /\ alive' = alive \ {Sender}
    /\ Begin(t, "goneEof", AtRest)
    /\ UNCHANGED <<buf, session, ending, joined, history>>

\* Taken for the sender's end: also that of any receiver once the sender is gone.
GoneTestEndOfFile(t) ==
    /\ pc[t] = "goneEof"
    /\ IF buf.eof THEN Go(t, "goneList") /\ UNCHANGED completeType
       ELSE Go(t, "unlist") /\ completeType' = "senderIsGone"
    /\ UNCHANGED <<buf, session, listed, over, clients, history>>

GoneTestReceivers(t) ==
    /\ pc[t] = "goneList" /\ mutex = Nobody
    /\ IF receivers = {} THEN Go(t, "unlist") /\ completeType' = "noReceivers"
       ELSE Finish(t) /\ UNCHANGED completeType
    /\ UNCHANGED <<buf, session, listed, over, clients, history>>

\* The clients whose weak pointers a handler locks while it holds the mutex: those
\* of the list, or those addReceiver subscribes and publishes to.
LockedUnderMutex(t) ==
    ((IF pc[t] = "joinPush" THEN joined \cup {Sender} ELSE receivers) \cap alive)
        \ {local[t].who}

\* Everybody else lets go of one of them meanwhile: its destructor, run by the
\* handler itself, waits for the mutex the handler holds.
Reenter(t) ==
    /\ \/ pc[t] \in {"join", "rmList"} /\ mutex = Nobody
       \/ pc[t] = "joinPush"
    /\ \E c \in LockedUnderMutex(t) :
           /\ Unowned(c)
           /\ (c # Sender /\ Sender \in alive) \/ buf.eof
           /\ alive' = alive \ {c}
    /\ mutex' = t
    /\ pc' = [pc EXCEPT ![t] = "reentered"]
    /\ UNCHANGED <<buf, receivers, named, autoDrop, autoFired, ending, joined, local,
                   history>>

-----------------------------------------------------------------------------
(* manualTerminate, the session's lifetime timer, the destructor *)

Terminate(t) ==
    /\ listed /\ Sender \in alive /\ SocketFree(Sender)
    /\ Begin(t, "unlist", [AtRest EXCEPT !.by = Sender])
    /\ completeType' = "senderIsGone"
    /\ UNCHANGED <<buf, session, listed, over, clients, history>>

SetTimedout(t) ==
    /\ listed
    /\ Begin(t, "unlist", AtRest)
    /\ completeType' = "timeout"
    /\ UNCHANGED <<buf, session, listed, over, clients, history>>

\* The last handler gives its pointer back and the object goes.
Destroy ==
    /\ ~listed /\ Quiescent /\ over = "no"
    /\ over' = completeType
    /\ UNCHANGED <<buf, session, completeType, listed, clients, pc, local,
                   history>>

-----------------------------------------------------------------------------

Start(t) ==
    \/ StartAddChunk(t)
    \/ \E c \in Client, i \in Index : StartConfirm(t, c, i)
    \/ StartEndOfFile(t)
    \/ StartDropBySender(t)
    \/ StartDropByTimer(t)
    \/ \E c \in Receiver : StartJoin(t, c) \/ StartKick(t, c) \/ ReceiverDestroyed(t, c)
    \/ SenderDestroyed(t)
    \/ Terminate(t)
    \/ SetTimedout(t)

Step(t) ==
    \/ AddChunkSteps(t) \/ ConfirmSteps(t) \/ EndOfFileCount(t) \/ DropSteps(t)
    \/ JoinAsConsumer(t) \/ JoinPush(t) \/ RemoveSteps(t)
    \/ GoneTestEndOfFile(t) \/ GoneTestReceivers(t) \/ UnlistStep(t)

Next == SetFileInfo \/ Destroy \/ \E t \in Thread : Start(t) \/ Step(t) \/ Reenter(t)

Spec == Init /\ [][Next]_vars

\* A handler that has begun runs to its end, unless it has locked itself out.
FairSpec == Spec /\ WF_vars(Destroy) /\ \A t \in Thread : WF_vars(Step(t))

\* Besides, the freeze timer fires, and a receiver that is there confirms each
\* chunk it has not confirmed, as often as a thread is free to take it.
FreezeTimerFires == \E t \in Thread : StartDropByTimer(t)
ConfirmsOwed(c, i) ==
    /\ c \in receivers /\ i \in buf.chunks /\ c \notin confirmed[i]
    /\ \E t \in Thread : StartConfirm(t, c, i)
LiveSpec ==
    /\ FairSpec
    /\ SF_vars(FreezeTimerFires)
    /\ \A c \in Receiver, i \in Index : SF_vars(ConfirmsOwed(c, i))

-----------------------------------------------------------------------------
(* Invariants *)

\* The types of the variables, the use counters within the limit of consumers; a
\* thread at rest has no locals, and only a thread inside addReceiver, or one that
\* has locked itself out, holds the mutex of the receivers.
TypeOK ==
    /\ buf \in BufferType(Receiver)
    /\ receivers \subseteq Receiver
    /\ mutex \in {t \in Thread : pc[t] \in {"joinPush", "reentered"}} \cup {Nobody}
    /\ named \in BOOLEAN /\ autoDrop \in BOOLEAN
    /\ autoFired \in BOOLEAN
    /\ completeType \in CompleteType /\ over \in CompleteType \cup {"no"}
    /\ listed \in BOOLEAN
    /\ alive \subseteq Client /\ joined \subseteq Receiver
    /\ \A t \in Thread : pc[t] = "idle" => local[t] = AtRest
    /\ confirmed \in [Index -> SUBSET Receiver]
    /\ loose \subseteq Index /\ late \subseteq Index /\ overtaking \subseteq Index
    /\ crossed \subseteq Receiver

\* Completion is never missed: when the upload has ended, the buffer is empty and
\* no handler is running, the session has been removed.  The last confirmation,
\* the end of file and the end of the freeze each test for it, in any order of
\* their steps.  A departure that takes the last chunk with it does not test
\* while receivers remain (transfersession.cpp:201), and is left out here.
CompletionNotMissed ==
    Quiescent /\ listed /\ buf.eof /\ buf.chunks = {} => drainedBy = "departure"

\* A session does not outlive its receivers: after the freeze, while the sender
\* is there and no handler is running, a listed session has a living receiver.
\* The last receiver's departure and the end of the freeze may overlap: whoever
\* comes second sees what the other did.
NoAbandonedSession ==
    Quiescent /\ listed /\ ~buf.freezing /\ Sender \in alive
        => receivers \cap alive # {}

\* The session's list of receivers and the buffer's set of consumers, which are
\* changed under different mutexes, agree whenever no handler is running, save for
\* receivers that joined between the two halves of their own removal: these are
\* listed and told of, but no chunk waits for them.
ReceiversAreConsumers ==
    Quiescent /\ over = "no" /\ Sender \in alive
        => /\ receivers \subseteq alive
           /\ buf.expected \subseteq receivers
           /\ receivers \ crossed \subseteq buf.expected

\* "ok" means delivered: the upload has ended and every receiver that is still
\* there has confirmed every chunk.  Left out are receivers whose join crossed
\* their removal, chunks with confirmations out of order and chunks that slipped
\* in between the count of chunks and the test for the end of file.
OkMeansDelivered ==
    over = "ok" /\ ~autoDrop
        => buf.eof /\ \A c \in receivers \ crossed, i \in 1..buf.top :
               c \in confirmed[i] \/ i \in loose \cup late \cup overtaking

\* A removed session is destroyed and reports, whatever its handlers are doing.
\* The client that is removed may be destroyed with them: its destructor comes
\* back to removeReceiver when the mutex is free again (transfersession.cpp:
\* 123-128).  Nothing of the kind protects the other clients whose pointers are
\* locked under the mutex (67, 87, 101, 107, 139): if the last owner of one of
\* them lets go meanwhile, the session is held for ever, and that is left out.
RemovedSessionReports ==
    ~listed ~> over # "no" \/ \E t \in Thread : pc[t] = "reentered"

\* An upload that has ended completes: if the receivers go on confirming what
\* they have not confirmed and nobody leaves, the session ends, however the
\* confirmations, the end of file and the end of the freeze interleave.
EndedUploadCompletes ==
    buf.eof /\ receivers # {} ~> over # "no" \/ joined # receivers \/ alive # Client

-----------------------------------------------------------------------------
(* What the documentation says and the code does not do *)

=============================================================================
