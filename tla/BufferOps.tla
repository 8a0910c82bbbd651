----------------------------- MODULE BufferOps -----------------------------
(***************************************************************************)
(* The operations of TransferSessionDetails::Buffer (src/src/buffer.cpp)   *)
(* as functions from the value of a buffer to its next value.  A buffer is *)
(* a record                                                                *)
(*                                                                         *)
(*   chunks    the indices in m_chunks                                     *)
(*   uses      Chunk::m_uses of every index (that of a chunk that is not   *)
(*             buffered is never looked at)                                *)
(*   top       m_chunksMaxIndex                                            *)
(*   eof       m_EOF                                                       *)
(*   freezing  m_initialChunksFreezing                                     *)
(*   removed   m_someChunkWasRemoved                                       *)
(*   expected  m_expectedConsumers                                         *)
(*                                                                         *)
(* One operator is what one critical section of m_sharedMtx does, so that  *)
(* a specification can put its threads between any two of them.  The bytes *)
(* of a chunk, its size and the byte counters are left out.                *)
(***************************************************************************)
EXTENDS Naturals, FiniteSets

CONSTANTS MaxQueue,      \* Config::transferSessionChunkQueueMaxSize()
          MaxConsumers,  \* Config::transferSessionMaxConsumerCardinality()
          MaxUploads     \* bound: chunks uploaded in a behaviour

ASSUME LimitsAssumption ==
    /\ MaxQueue \in Nat \ {0}
    /\ MaxConsumers \in Nat \ {0}
    /\ MaxUploads \in Nat

Index == 1..MaxUploads

BufferType(Consumer) ==
    [chunks: SUBSET Index, uses: [Index -> 0..MaxConsumers], top: 0..MaxUploads,
     eof: BOOLEAN, freezing: BOOLEAN, removed: BOOLEAN,
     expected: SUBSET Consumer]

EmptyBuffer == [chunks   |-> {},
                uses     |-> [i \in Index |-> 0],
                top      |-> 0,
                eof      |-> FALSE,
                freezing |-> TRUE,
                removed  |-> FALSE,
                expected |-> {}]

-----------------------------------------------------------------------------
(* Chunk *)

\* The receivers a chunk still waits for, as the chunk counts them: the number
\* of consumers expected now less the number of confirmations so far.
HowMuchIsLeft(b, i) == IF b.uses[i] >= Cardinality(b.expected)
                       THEN 0 ELSE Cardinality(b.expected) - b.uses[i]

\* Mutants
IncrementUsesUncapped(b, i) == [b EXCEPT !.uses[i] = @ + 1]

IncrementUses(b, i) ==
    IF Cardinality(b.expected) > b.uses[i] THEN [b EXCEPT !.uses[i] = @ + 1] ELSE b

-----------------------------------------------------------------------------
(* Buffer *)

Awaited(b) == {i \in b.chunks : HowMuchIsLeft(b, i) # 0}

\* Mutants
SanitizeUnrecorded(b) ==
    IF b.freezing THEN b ELSE [b EXCEPT !.chunks = Awaited(b)]
SanitizeEarly(b) ==
    IF b.freezing THEN b
    ELSE LET kept == {i \in b.chunks : HowMuchIsLeft(b, i) > 1}
         IN  [b EXCEPT !.chunks = kept, !.removed = @ \/ kept # b.chunks]

\* Every chunk nobody is counted as waiting for goes, unless the initial freeze
\* still holds; a removal is remembered for ever.
Sanitize(b) ==
    IF b.freezing THEN b
    ELSE [b EXCEPT !.chunks  = Awaited(b),
                   !.removed = @ \/ Awaited(b) # b.chunks]

NewChunkIsAllowed(b) == MaxQueue > Cardinality(b.chunks)

\* Mutants
AddChunkPastLimit(b) ==
    IF MaxQueue >= Cardinality(b.chunks)
    THEN [b EXCEPT !.top = @ + 1, !.chunks = @ \cup {b.top + 1},
                   !.uses[b.top + 1] = 0]
    ELSE b

\* The critical section of addChunk, entered after the end-of-file flag was
\* tested without the mutex: the test for room is made under it.
AddChunk(b) ==
    IF NewChunkIsAllowed(b)
    THEN [b EXCEPT !.top = @ + 1, !.chunks = @ \cup {b.top + 1},
                   !.uses[b.top + 1] = 0]
    ELSE b

\* Mutants
SetChunkAsReceivedNoSweep(b, i) ==
    IF i \in b.chunks THEN IncrementUses(b, i) ELSE b

SetChunkAsReceived(b, i) ==
    IF i \in b.chunks THEN Sanitize(IncrementUses(b, i)) ELSE b

SetEndOfFile(b) == [b EXCEPT !.eof = TRUE]

\* Mutants
CanAddConsumerPastLimit(b, c) ==
    /\ ~b.removed
    /\ Cardinality(b.expected) <= MaxConsumers
    /\ c \notin b.expected
CanAddConsumerAnyTime(b, c) ==
    /\ Cardinality(b.expected) + 1 <= MaxConsumers
    /\ c \notin b.expected

CanAddConsumer(b, c) ==
    /\ ~b.removed
    /\ Cardinality(b.expected) + 1 <= MaxConsumers
    /\ c \notin b.expected

AddConsumer(b, c) == [b EXCEPT !.expected = @ \cup {c}]

\* The first half of removeOneFromExpectedConsumers; the second is a Sanitize
\* that runs without m_sharedMtx.
RemoveConsumer(b, c) == [b EXCEPT !.expected = @ \ {c}]

\* Mutants
DropFreezingNoSweep(b) == [b EXCEPT !.freezing = FALSE]

DropFreezing(b) == Sanitize([b EXCEPT !.freezing = FALSE])
=============================================================================
