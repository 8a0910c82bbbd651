------------------------------- MODULE Buffer -------------------------------
(***************************************************************************)
(* The chunk buffer of one session under concurrent callers: the operations *)
(* of BufferOps, interleaved the way src/src/buffer.cpp lets them.  An      *)
(* operation that runs inside one critical section of m_sharedMtx is one    *)
(* action.  Two are not:                                                    *)
(*                                                                          *)
(*   - addChunk reads m_EOF before it takes the mutex, so a call is split   *)
(*     into the test and the insertion;                                     *)
(*   - removeOneFromExpectedConsumers never takes the mutex: it erases the  *)
(*     consumer and then sanitizes the chunk map with nothing held, while   *)
(*     the other operations go on.  That is a data race on a std::map; the  *)
(*     model lets the sweep either take effect as if it were serialised or  *)
(*     corrupt the map, after which nothing is promised and nothing moves.  *)
(*                                                                          *)
(* Who calls: the sender uploads, receivers join once and leave once, and   *)
(* any member of the session, even one that was kicked and even the sender, *)
(* may confirm any chunk any number of times (WebAPI confirm_chunk).        *)
(***************************************************************************)
EXTENDS BufferOps

CONSTANTS Receiver,     \* clients that may join as receivers
          Observers,    \* clients that confirm without ever having joined
          MaxAdding     \* bound: addChunk calls in progress at once

ASSUME BufferAssumption ==
    /\ Observers \cap Receiver = {}
    /\ IsFiniteSet(Receiver)
    /\ MaxAdding \in Nat \ {0}

VARIABLES buf,        \* the buffer, a record of BufferOps
          adding,     \* number of addChunk calls past their test of m_EOF
          sweeping,   \* consumers erased, whose unlocked sanitize is running
          corrupt,    \* the data race on the chunk map has struck
          confirmed,  \* history: who confirmed a chunk while it was buffered
          repeated,   \* history: chunks confirmed twice, or by a non-consumer
          orphaned,   \* history: chunks confirmed by a consumer that left
          joined      \* history: the receivers that ever joined

vars == <<buf, adding, sweeping, corrupt, confirmed, repeated, orphaned, joined>>
history == <<confirmed, repeated, orphaned, joined>>

Client == Receiver \cup Observers

Init ==
    /\ buf = EmptyBuffer
    /\ adding = 0
    /\ sweeping = {}
    /\ corrupt = FALSE
    /\ confirmed = [i \in Index |-> {}]
    /\ repeated = {}
    /\ orphaned = {}
    /\ joined = {}

-----------------------------------------------------------------------------

\* addChunk up to the point where it waits for the mutex.
BeginAddChunk ==
    /\ ~buf.eof
    /\ adding < MaxAdding
    /\ buf.top + adding < MaxUploads
    /\ adding' = adding + 1
    /\ UNCHANGED <<buf, sweeping, corrupt, history>>

\* addChunk from there on; a full queue makes it return 0 and change nothing.
FinishAddChunk ==
    /\ adding > 0
    /\ adding' = adding - 1
    /\ buf' = AddChunk(buf)
    /\ UNCHANGED <<sweeping, corrupt, history>>

ConfirmChunk(c, i) ==
    /\ c \in joined \cup Observers
    /\ i \in buf.chunks
    /\ buf' = SetChunkAsReceived(buf, i)
    /\ confirmed' = [confirmed EXCEPT ![i] = @ \cup {c}]
    /\ repeated' = IF c \in confirmed[i] \/ c \notin buf.expected
                   THEN repeated \cup {i} ELSE repeated
    /\ UNCHANGED <<adding, sweeping, corrupt, orphaned, joined>>

EndOfFile ==
    /\ ~buf.eof
    /\ buf' = SetEndOfFile(buf)
    /\ UNCHANGED <<adding, sweeping, corrupt, history>>

\* A client joins one session at most (Client::joinSession).
Join(c) ==
    /\ c \notin joined
    /\ CanAddConsumer(buf, c)
    /\ buf' = AddConsumer(buf, c)
    /\ joined' = joined \cup {c}
    /\ UNCHANGED <<adding, sweeping, corrupt, confirmed, repeated, orphaned>>

\* removeOneFromExpectedConsumers: the erasure ...
BeginLeave(c) ==
    /\ c \in buf.expected
    /\ buf' = RemoveConsumer(buf, c)
    /\ sweeping' = sweeping \cup {c}
    /\ orphaned' = orphaned \cup {i \in buf.chunks : c \in confirmed[i]}
    /\ UNCHANGED <<adding, corrupt, confirmed, repeated, joined>>

\* ... and the sanitize that runs without the mutex.
FinishLeave(c) ==
    /\ c \in sweeping
    /\ buf' = Sanitize(buf)
    /\ sweeping' = sweeping \ {c}
    /\ UNCHANGED <<adding, corrupt, history>>

Unfreeze ==
    /\ buf.freezing
    /\ buf' = DropFreezing(buf)
    /\ UNCHANGED <<adding, sweeping, corrupt, history>>

\* Another operation meets an unlocked sanitize in the chunk map.
RaceStrikes ==
    /\ sweeping # {}
    /\ corrupt' = TRUE
    /\ UNCHANGED <<buf, adding, sweeping, history>>

Next ==
    /\ ~corrupt
    /\ \/ BeginAddChunk
       \/ FinishAddChunk
       \/ \E c \in Client, i \in Index : ConfirmChunk(c, i)
       \/ EndOfFile
       \/ \E c \in Receiver : Join(c) \/ BeginLeave(c) \/ FinishLeave(c)
       \/ Unfreeze
       \/ RaceStrikes

Spec == Init /\ [][Next]_vars

-----------------------------------------------------------------------------
(* Invariants *)

\* The types of the variables; every buffered index was handed out by addChunk.
TypeOK ==
    /\ buf \in BufferType(Receiver)
    /\ buf.chunks \subseteq 1..buf.top
    /\ adding \in 0..MaxAdding
    /\ buf.top + adding <= MaxUploads
    /\ sweeping \subseteq Receiver
    /\ corrupt \in BOOLEAN
    /\ confirmed \in [Index -> SUBSET Client]
    /\ repeated \subseteq Index /\ orphaned \subseteq Index
    /\ joined \subseteq Receiver
    /\ buf.expected \subseteq joined
    /\ Cardinality(buf.expected) <= MaxConsumers

\* While m_someChunkWasRemoved is false nothing has been lost: the buffer still
\* holds the file from its first chunk to its last.  addNewToExpectedConsumers
\* rests on it when it lets a receiver in (buffer.cpp:168-185).
WholeUntilRemoved == ~buf.removed => buf.chunks = 1..buf.top

\* No chunk leaves while the initial freeze holds, whoever confirms or leaves.
FreezeKeepsChunks == buf.freezing => ~buf.removed

\* No chunk is left behind: once the freeze is over and no sanitize is under
\* way, every buffered chunk is owed by a consumer that has not confirmed it, so
\* the confirmations still to come are enough to empty the buffer.  It relates
\* the uses counters, which departures and repeated confirmations distort, to
\* who really confirmed (buffer.cpp:76-91, 187-193, 226-253).
NoStuckChunk ==
    (~buf.freezing /\ sweeping = {} /\ buf.expected # {})
        => \A i \in buf.chunks : buf.expected \ confirmed[i] # {}

\* A chunk that left the buffer had been confirmed by every consumer still
\* expected, provided nobody confirmed it twice or out of turn and nobody who
\* had confirmed it left before the others did.
ReleasedWhenConfirmed ==
    \A i \in 1..buf.top \ buf.chunks :
        i \notin repeated \cup orphaned => buf.expected \subseteq confirmed[i]

\* A receiver is admitted only while the buffer still holds the whole file, so
\* nobody starts on a file whose beginning is gone.
JoinerGetsWholeFile ==
    [][\A c \in buf'.expected \ buf.expected : buf'.chunks = 1..buf'.top]_vars

-----------------------------------------------------------------------------
(* The inductive invariant: what the invariants above need besides themselves *)

\* The uses counter of a chunk never runs behind the consumers that confirmed
\* it, so a chunk confirmed by all of them is seen as wanted by none.
UsesCoverConfirmations ==
    \A i \in buf.chunks : Cardinality(confirmed[i] \cap buf.expected) <= buf.uses[i]

\* Nor does it run ahead, for a chunk whose confirmations were all in order.
UsesExactWhenOrderly ==
    \A i \in buf.chunks \ (repeated \cup orphaned) :
        /\ confirmed[i] \subseteq buf.expected
        /\ buf.uses[i] <= Cardinality(confirmed[i])

\* After the freeze a chunk that is due has been swept, unless a sweep is still
\* to come; with no consumers a chunk may sit there, but only an untouched one.
DueChunksSwept ==
    (~buf.freezing /\ sweeping = {})
        => \A i \in buf.chunks :
               buf.uses[i] < Cardinality(buf.expected) \/ buf.uses[i] = 0

ConfirmedByMembers ==
    \A i \in Index : /\ confirmed[i] \subseteq joined \cup Observers
                     /\ i > buf.top => confirmed[i] = {}

IInv ==
    /\ TypeOK
    /\ WholeUntilRemoved
    /\ FreezeKeepsChunks
    /\ UsesCoverConfirmations
    /\ UsesExactWhenOrderly
    /\ DueChunksSwept
    /\ ConfirmedByMembers
    /\ ReleasedWhenConfirmed

-----------------------------------------------------------------------------
(* The abstract specification *)

Window == INSTANCE ChunkWindow
            WITH Member <- Receiver, Capacity <- MaxQueue,
                 MaxMembers <- MaxConsumers,
                 window <- buf.chunks, top <- buf.top, frozen <- buf.freezing,
                 closed <- buf.removed, members <- buf.expected

\* The buffer, seen through its chunks, flags and consumers only, is a window of
\* at most MaxQueue chunks that never takes a chunk back: every interleaving of
\* the split operations is one of its steps or changes nothing it can see.
ImplementsWindow == Window!Spec

=============================================================================
