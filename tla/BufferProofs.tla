---------------------------- MODULE BufferProofs ----------------------------
(***************************************************************************)
(* Proofs about Buffer, for every number of receivers, queue length, limit  *)
(* of consumers and number of uploads.  The inductive invariant is IInv of  *)
(* Buffer; its parts about the buffer and its history are restated here as  *)
(* the predicate Sound of BufferLemmas, whose lemmas say what each operation *)
(* does to it.                                                              *)
(***************************************************************************)
EXTENDS Buffer, BufferLemmas

-----------------------------------------------------------------------------
(* The invariant *)

LEMMA InvIsSound ==
    IInv <=> /\ TypeOK
             /\ Sound(buf, confirmed, repeated \cup orphaned)
             /\ DueChunksSwept
             /\ ConfirmedByMembers
BY DEF IInv, Sound, Whole, Frozen, Counted, Exact, Released, WholeUntilRemoved,
       FreezeKeepsChunks, UsesCoverConfirmations, UsesExactWhenOrderly,
       ReleasedWhenConfirmed

LEMMA InitIInv == Init => IInv
<1> SUFFICES ASSUME Init PROVE IInv OBVIOUS
<1>1. buf = EmptyBuffer /\ confirmed = [i \in Index |-> {}] BY DEF Init
<1>2. /\ buf \in BufferType(Receiver) /\ Bounded(buf, confirmed)
      /\ Sound(buf, confirmed, repeated \cup orphaned)
  BY <1>1, EmptySound
<1>3. buf.chunks = {} /\ buf.top = 0 /\ buf.expected = {}
  BY <1>1 DEF EmptyBuffer
<1>4. TypeOK
  <2>1. confirmed \in [Index -> SUBSET Client] BY <1>1
  <2>2. adding \in 0..MaxAdding /\ buf.top + adding <= MaxUploads
    BY <1>3, LimitsAssumption, BufferAssumption DEF Init
  <2>3. Cardinality(buf.expected) <= MaxConsumers BY <1>2 DEF Bounded
  <2> QED BY <1>2, <1>3, <2>1, <2>2, <2>3 DEF Init, TypeOK
<1>5. DueChunksSwept BY <1>3 DEF DueChunksSwept
<1>6. ConfirmedByMembers BY DEF Init, ConfirmedByMembers
<1> QED BY <1>2, <1>4, <1>5, <1>6, InvIsSound

\* What every step below starts from.
LEMMA BeforeStep ==
    ASSUME IInv
    PROVE  /\ TypeOK /\ DueChunksSwept /\ ConfirmedByMembers
           /\ IsFiniteSet(Receiver)
           /\ buf \in BufferType(Receiver)
           /\ Sound(buf, confirmed, repeated \cup orphaned)
           /\ Bounded(buf, confirmed)
           /\ IsFiniteSet(buf.expected) /\ Cardinality(buf.expected) \in Nat
           /\ Cardinality(buf.expected) <= MaxConsumers
           /\ Client = Receiver \cup Observers
           /\ confirmed \in [Index -> SUBSET Client]
           /\ buf.top \in Nat /\ buf.chunks \subseteq 1..buf.top
           /\ \A i \in Index : buf.uses[i] \in Nat
<1>1. TypeOK /\ DueChunksSwept /\ ConfirmedByMembers
      /\ Sound(buf, confirmed, repeated \cup orphaned)
  BY InvIsSound
<1>2. buf \in BufferType(Receiver) /\ buf.chunks \subseteq 1..buf.top
      /\ confirmed \in [Index -> SUBSET Client]
      /\ Cardinality(buf.expected) <= MaxConsumers
  BY <1>1 DEF TypeOK
<1>3. buf.top \in Nat /\ \A i \in Index : buf.uses[i] \in Nat
  BY <1>2, LimitsAssumption DEF BufferType
<1>4. Bounded(buf, confirmed) BY <1>1, <1>2 DEF Bounded, ConfirmedByMembers
<1>5. IsFiniteSet(Receiver) BY BufferAssumption
<1> QED BY <1>1, <1>2, <1>3, <1>4, <1>5, ExpectedFinite DEF Client

\* What is left to prove of a step that keeps the buffer sound.
LEMMA AfterStep ==
    ASSUME TypeOK', DueChunksSwept', ConfirmedByMembers',
           Sound(buf', confirmed', repeated' \cup orphaned')
    PROVE  IInv'
<1>1. Sound(buf, confirmed, repeated \cup orphaned)' OBVIOUS
<1> QED BY <1>1, InvIsSound, PTL

LEMMA BeginAddChunkInv == IInv /\ BeginAddChunk => IInv'
<1> SUFFICES ASSUME IInv, BeginAddChunk PROVE IInv' OBVIOUS
<1>1. TypeOK'
  BY BeforeStep, BufferAssumption, LimitsAssumption
  DEF TypeOK, BeginAddChunk, history, BufferType
<1>2. Sound(buf', confirmed', repeated' \cup orphaned') /\ ConfirmedByMembers'
      /\ DueChunksSwept'
  BY BeforeStep DEF BeginAddChunk, history, ConfirmedByMembers, DueChunksSwept
<1> QED BY <1>1, <1>2, AfterStep

LEMMA EndOfFileInv == IInv /\ EndOfFile => IInv'
<1> SUFFICES ASSUME IInv, EndOfFile PROVE IInv' OBVIOUS
<1>1. /\ buf' = SetEndOfFile(buf)
      /\ UNCHANGED <<adding, sweeping, corrupt, confirmed, repeated, orphaned, joined>>
  BY DEF EndOfFile, history
<1>2. /\ buf' \in BufferType(Receiver)
      /\ buf'.chunks = buf.chunks /\ buf'.uses = buf.uses /\ buf'.top = buf.top
      /\ buf'.freezing = buf.freezing /\ buf'.expected = buf.expected
      /\ Sound(buf', confirmed, repeated \cup orphaned)
  BY <1>1, BeforeStep, EndOfFileSound
<1>3. TypeOK' BY <1>1, <1>2, BeforeStep DEF TypeOK
<1>4. ConfirmedByMembers' /\ DueChunksSwept'
  BY <1>1, <1>2, BeforeStep DEF ConfirmedByMembers, DueChunksSwept
<1> QED BY <1>1, <1>2, <1>3, <1>4, AfterStep

LEMMA FinishAddChunkInv == IInv /\ FinishAddChunk => IInv'
<1> SUFFICES ASSUME IInv, FinishAddChunk PROVE IInv' OBVIOUS
<1>1. buf.top < MaxUploads
  BY BeforeStep, BufferAssumption, LimitsAssumption DEF FinishAddChunk, TypeOK
<1>2. /\ UNCHANGED <<sweeping, corrupt, confirmed, repeated, orphaned, joined>>
      /\ adding' = adding - 1 /\ adding > 0 /\ buf' = AddChunk(buf)
  BY DEF FinishAddChunk, history
<1>3. /\ buf' \in BufferType(Receiver)
      /\ buf'.freezing = buf.freezing /\ buf'.expected = buf.expected
      /\ \/ buf' = buf
         \/ /\ buf'.top = buf.top + 1
            /\ buf'.chunks = buf.chunks \cup {buf.top + 1}
            /\ buf'.uses = [buf.uses EXCEPT ![buf.top + 1] = 0]
  BY <1>1, <1>2, BeforeStep, AddChunkEffect
<1>4. Bounded(buf', confirmed) /\ Sound(buf', confirmed, repeated \cup orphaned)
  BY <1>1, <1>2, BeforeStep, AddChunkSound
<1>5. buf'.top = buf.top \/ buf'.top = buf.top + 1 BY <1>3
<1>6. TypeOK'
  <2>1. adding \in 1..MaxAdding /\ adding' \in 0..MaxAdding
    BY <1>2, BeforeStep, BufferAssumption DEF TypeOK
  <2>2. buf'.top + adding' <= MaxUploads
    BY <1>2, <1>5, <2>1, BeforeStep, BufferAssumption, LimitsAssumption DEF TypeOK
  <2> QED BY <1>2, <1>3, <1>4, <2>1, <2>2, BeforeStep DEF TypeOK, Bounded
<1>7. DueChunksSwept'
  <2>1. \A i \in buf'.chunks : \/ buf'.uses[i] = 0
                               \/ i \in buf.chunks /\ buf'.uses[i] = buf.uses[i]
    <3>1. buf.chunks \subseteq Index /\ buf.uses \in [Index -> 0..MaxConsumers]
      BY BeforeStep DEF BufferType
    <3>2. buf.top + 1 \in Index BY <1>1, BeforeStep, LimitsAssumption DEF Index
    <3> QED BY <1>3, <3>1, <3>2
  <2> QED BY <1>2, <1>3, <2>1, BeforeStep DEF DueChunksSwept
<1>8. ConfirmedByMembers'
  BY <1>2, <1>4, BeforeStep DEF ConfirmedByMembers, Bounded
<1> QED BY <1>2, <1>4, <1>6, <1>7, <1>8, AfterStep

LEMMA ConfirmChunkInv ==
    ASSUME NEW c \in Client, NEW i \in Index
    PROVE  IInv /\ ConfirmChunk(c, i) => IInv'
<1> SUFFICES ASSUME IInv, ConfirmChunk(c, i) PROVE IInv' OBVIOUS
<1> DEFINE loose  == repeated \cup orphaned
           loose2 == repeated' \cup orphaned'
<1>1. /\ i \in buf.chunks /\ buf' = SetChunkAsReceived(buf, i)
      /\ c \in joined \cup Observers
      /\ confirmed' = [confirmed EXCEPT ![i] = @ \cup {c}]
      /\ repeated' = IF c \in confirmed[i] \/ c \notin buf.expected
                     THEN repeated \cup {i} ELSE repeated
      /\ UNCHANGED <<adding, sweeping, corrupt, orphaned, joined>>
  BY DEF ConfirmChunk
<1>2. ConfirmedBy(buf, confirmed, confirmed', loose, loose2, i, c)
  BY <1>1, BeforeStep DEF ConfirmedBy
<1>3. confirmed' \in [Index -> SUBSET Client] BY <1>1, BeforeStep
<1>4. /\ buf' \in BufferType(Receiver)
      /\ buf'.top = buf.top /\ buf'.freezing = buf.freezing
      /\ buf'.expected = buf.expected /\ buf'.chunks \subseteq buf.chunks
      /\ Bounded(buf', confirmed') /\ Sound(buf', confirmed', loose2) /\ Swept(buf')
  <2>1. /\ IsFiniteSet(Receiver) /\ buf \in BufferType(Receiver)
        /\ Bounded(buf, confirmed) /\ Sound(buf, confirmed, loose)
    BY BeforeStep
  <2> HIDE DEF loose, loose2
  <2> QED BY <1>1, <1>2, <2>1, ConfirmSound
<1>5. TypeOK' BY <1>1, <1>3, <1>4, BeforeStep DEF TypeOK
<1>6. DueChunksSwept' BY <1>1, <1>4 DEF Swept, DueChunksSwept
<1>7. ConfirmedByMembers' BY <1>1, <1>4, BeforeStep DEF ConfirmedByMembers
<1> QED BY <1>4, <1>5, <1>6, <1>7, AfterStep

\* A receiver that joins finds a buffer that still holds everything, and has
\* confirmed none of it, so the counters stay right for the larger set.
LEMMA JoinInv ==
    ASSUME NEW c \in Receiver
    PROVE  IInv /\ Join(c) => IInv'
<1> SUFFICES ASSUME IInv, Join(c) PROVE IInv' OBVIOUS
<1>1. /\ c \notin joined /\ CanAddConsumer(buf, c)
      /\ buf' = AddConsumer(buf, c) /\ joined' = joined \cup {c}
      /\ UNCHANGED <<adding, sweeping, corrupt, confirmed, repeated, orphaned>>
  BY DEF Join
<1>2. \A i \in Index : c \notin confirmed[i]
  BY <1>1, BeforeStep, BufferAssumption DEF ConfirmedByMembers
<1>3. /\ buf' \in BufferType(Receiver)
      /\ buf'.chunks = buf.chunks /\ buf'.uses = buf.uses /\ buf'.top = buf.top
      /\ buf'.freezing = buf.freezing /\ buf'.expected = buf.expected \cup {c}
      /\ Bounded(buf', confirmed) /\ Sound(buf', confirmed, repeated \cup orphaned)
  BY <1>1, <1>2, BeforeStep, AddConsumerSound
<1>4. TypeOK' BY <1>1, <1>3, BeforeStep DEF TypeOK, Bounded
<1>5. DueChunksSwept'
  <2>1. Cardinality(buf'.expected) = Cardinality(buf.expected) + 1
    BY <1>1, <1>3, BeforeStep, OneMore DEF CanAddConsumer
  <2>2. buf.chunks \subseteq Index BY BeforeStep DEF BufferType
  <2>3. \A i \in buf.chunks : buf.uses[i] < Cardinality(buf.expected)
                               => buf.uses[i] < Cardinality(buf'.expected)
    BY <2>1, <2>2, BeforeStep
  <2> QED BY <1>1, <1>3, <2>3, BeforeStep DEF DueChunksSwept
<1>6. ConfirmedByMembers' BY <1>1, <1>3, BeforeStep DEF ConfirmedByMembers
<1> QED BY <1>1, <1>3, <1>4, <1>5, <1>6, AfterStep

\* A departure orphans the chunks the leaver had confirmed; for the others the
\* confirmations are still those of expected consumers.
LEMMA BeginLeaveInv ==
    ASSUME NEW c \in Receiver
    PROVE  IInv /\ BeginLeave(c) => IInv'
<1> SUFFICES ASSUME IInv, BeginLeave(c) PROVE IInv' OBVIOUS
<1>1. /\ c \in buf.expected /\ buf' = RemoveConsumer(buf, c)
      /\ sweeping' = sweeping \cup {c}
      /\ orphaned' = orphaned \cup {i \in buf.chunks : c \in confirmed[i]}
      /\ UNCHANGED <<adding, corrupt, confirmed, repeated, joined>>
  BY DEF BeginLeave
<1>2. repeated' \cup orphaned' = (repeated \cup orphaned)
          \cup {i \in buf.chunks : c \in buf.expected \cap confirmed[i]}
  BY <1>1
<1>3. /\ buf' \in BufferType(Receiver)
      /\ buf'.chunks = buf.chunks /\ buf'.top = buf.top
      /\ buf'.expected = buf.expected \ {c}
      /\ Bounded(buf', confirmed) /\ Sound(buf', confirmed, repeated' \cup orphaned')
  BY <1>1, <1>2, BeforeStep, RemoveConsumerSound
<1>4. buf.chunks \subseteq Index BY BeforeStep DEF BufferType
<1>5. TypeOK' BY <1>1, <1>3, <1>4, BeforeStep DEF TypeOK, Bounded
<1>6. DueChunksSwept' BY <1>1 DEF DueChunksSwept
<1>7. ConfirmedByMembers' BY <1>1, <1>3, BeforeStep DEF ConfirmedByMembers
<1> QED BY <1>1, <1>3, <1>5, <1>6, <1>7, AfterStep

LEMMA FinishLeaveInv ==
    ASSUME NEW c \in Receiver
    PROVE  IInv /\ FinishLeave(c) => IInv'
<1> SUFFICES ASSUME IInv, FinishLeave(c) PROVE IInv' OBVIOUS
<1>1. /\ buf' = Sanitize(buf) /\ sweeping' = sweeping \ {c}
      /\ UNCHANGED <<adding, corrupt, confirmed, repeated, orphaned, joined>>
  BY DEF FinishLeave, history
<1>2. /\ buf' \in BufferType(Receiver)
      /\ buf'.top = buf.top /\ buf'.freezing = buf.freezing
      /\ buf'.expected = buf.expected /\ buf'.chunks \subseteq buf.chunks
  BY <1>1, BeforeStep, SanitizeEffect
<1>3. Sound(buf', confirmed, repeated \cup orphaned) /\ Swept(buf')
  BY <1>1, BeforeStep, SanitizeSound
<1>4. TypeOK' BY <1>1, <1>2, BeforeStep DEF TypeOK
<1>5. DueChunksSwept' BY <1>3 DEF Swept, DueChunksSwept
<1>6. ConfirmedByMembers' BY <1>1, <1>2, BeforeStep DEF ConfirmedByMembers
<1> QED BY <1>1, <1>3, <1>4, <1>5, <1>6, AfterStep

LEMMA UnfreezeInv == IInv /\ Unfreeze => IInv'
<1> SUFFICES ASSUME IInv, Unfreeze PROVE IInv' OBVIOUS
<1>1. /\ buf' = DropFreezing(buf)
      /\ UNCHANGED <<adding, sweeping, corrupt, confirmed, repeated, orphaned, joined>>
  BY DEF Unfreeze, history
<1>2. /\ buf' \in BufferType(Receiver)
      /\ buf'.top = buf.top /\ buf'.expected = buf.expected
      /\ buf'.chunks \subseteq buf.chunks
      /\ Sound(buf', confirmed, repeated \cup orphaned) /\ Swept(buf')
  BY <1>1, BeforeStep, UnfreezeSound
<1>3. TypeOK' BY <1>1, <1>2, BeforeStep DEF TypeOK
<1>4. DueChunksSwept' BY <1>2 DEF Swept, DueChunksSwept
<1>5. ConfirmedByMembers' BY <1>1, <1>2, BeforeStep DEF ConfirmedByMembers
<1> QED BY <1>1, <1>2, <1>3, <1>4, <1>5, AfterStep

LEMMA StepIInv == IInv /\ [Next]_vars => IInv'
<1> SUFFICES ASSUME IInv, [Next]_vars PROVE IInv' OBVIOUS
<1>1. CASE UNCHANGED vars
  <2>1. TypeOK' BY <1>1, BeforeStep DEF vars, TypeOK
  <2>2. Sound(buf, confirmed, repeated \cup orphaned)' /\ DueChunksSwept'
        /\ ConfirmedByMembers'
    BY <1>1, BeforeStep DEF vars, DueChunksSwept, ConfirmedByMembers
  <2> QED BY <2>1, <2>2, InvIsSound, PTL
<1>2. CASE BeginAddChunk BY <1>2, BeginAddChunkInv
<1>3. CASE FinishAddChunk BY <1>3, FinishAddChunkInv
<1>4. CASE \E c \in Client, i \in Index : ConfirmChunk(c, i)
  BY <1>4, ConfirmChunkInv
<1>5. CASE EndOfFile BY <1>5, EndOfFileInv
<1>6. CASE \E c \in Receiver : Join(c) \/ BeginLeave(c) \/ FinishLeave(c)
  BY <1>6, JoinInv, BeginLeaveInv, FinishLeaveInv
<1>7. CASE Unfreeze BY <1>7, UnfreezeInv
<1>8. CASE RaceStrikes
  <2>1. TypeOK' BY <1>8, BeforeStep DEF RaceStrikes, history, TypeOK
  <2>2. Sound(buf, confirmed, repeated \cup orphaned)' /\ DueChunksSwept'
        /\ ConfirmedByMembers'
    BY <1>8, BeforeStep
    DEF RaceStrikes, history, DueChunksSwept, ConfirmedByMembers
  <2> QED BY <2>1, <2>2, InvIsSound, PTL
<1> QED BY <1>1, <1>2, <1>3, <1>4, <1>5, <1>6, <1>7, <1>8 DEF Next

-----------------------------------------------------------------------------
(* Theorems *)

\* The invariant holds in every reachable state.
THEOREM Invariance == Spec => []IInv
BY InitIInv, StepIInv, PTL DEF Spec

\* Types, and a set of consumers that never exceeds its limit although
\* departures are not serialised with the admissions.
THEOREM TypeCorrect == Spec => []TypeOK
<1>1. IInv => TypeOK BY DEF IInv
<1> QED BY <1>1, Invariance, PTL

\* While no removal was recorded the buffer holds the whole upload, and no
\* removal happens during the initial freeze.
THEOREM NothingLostSilently == Spec => [](WholeUntilRemoved /\ FreezeKeepsChunks)
<1>1. IInv => WholeUntilRemoved /\ FreezeKeepsChunks BY DEF IInv
<1> QED BY <1>1, Invariance, PTL

\* Outside the freeze and between sweeps, every buffered chunk is still owed by
\* a consumer that has not confirmed it.
THEOREM NoChunkStuck == Spec => []NoStuckChunk
<1>1. IInv => NoStuckChunk
  <2> SUFFICES ASSUME IInv, ~buf.freezing, sweeping = {}, buf.expected # {},
                      NEW i \in buf.chunks, buf.expected \subseteq confirmed[i]
               PROVE  FALSE
    BY DEF NoStuckChunk
  <2>1. buf.uses[i] \in Nat /\ Cardinality(buf.expected) \in Nat
    BY BeforeStep DEF BufferType
  <2>2. Cardinality(buf.expected) # 0 BY BeforeStep, FS_EmptySet
  <2>3. buf.uses[i] < Cardinality(buf.expected)
    BY <2>1, <2>2, BeforeStep DEF DueChunksSwept
  <2>4. confirmed[i] \cap buf.expected = buf.expected OBVIOUS
  <2>5. Cardinality(confirmed[i] \cap buf.expected) <= buf.uses[i]
    BY BeforeStep DEF Sound, Counted
  <2>6. Cardinality(buf.expected) <= buf.uses[i] BY <2>4, <2>5
  <2> QED BY <2>1, <2>3, <2>6
<1> QED BY <1>1, Invariance, PTL

\* A chunk whose confirmations were orderly leaves the buffer only once every
\* consumer still expected has confirmed it.
THEOREM OrderlyChunksDelivered == Spec => []ReleasedWhenConfirmed
<1>1. IInv => ReleasedWhenConfirmed BY DEF IInv
<1> QED BY <1>1, Invariance, PTL

\* Whoever is admitted is admitted to a buffer that holds the whole upload.
THEOREM JoinersGetWholeFile == Spec => JoinerGetsWholeFile
<1> DEFINE A == \A c \in buf'.expected \ buf.expected : buf'.chunks = 1..buf'.top
<1>1. IInv /\ [Next]_vars => [A]_vars
  <2> SUFFICES ASSUME IInv, Next PROVE A BY DEF vars
  <2>1. ASSUME NEW c \in Receiver, Join(c) PROVE A
    <3>1. buf.chunks = 1..buf.top
      BY <2>1, BeforeStep DEF Join, CanAddConsumer, Sound, Whole
    <3>2. buf'.chunks = buf.chunks /\ buf'.top = buf.top
      BY <2>1, BeforeStep DEF Join, AddConsumer, BufferType
    <3> QED BY <3>1, <3>2
  <2>2. ASSUME buf'.expected \subseteq buf.expected PROVE A BY <2>2
  <2>3. CASE BeginAddChunk \/ RaceStrikes
    BY <2>2, <2>3 DEF BeginAddChunk, RaceStrikes
  <2>4. CASE FinishAddChunk
    <3>1. buf.top < MaxUploads
      BY <2>4, BeforeStep, BufferAssumption, LimitsAssumption
      DEF FinishAddChunk, TypeOK
    <3> QED BY <2>2, <2>4, <3>1, BeforeStep, AddChunkEffect DEF FinishAddChunk
  <2>5. CASE \E c \in Client, i \in Index : ConfirmChunk(c, i)
    <3> PICK c \in Client, i \in Index : ConfirmChunk(c, i) BY <2>5
    <3>1. IncrementUses(buf, i) \in BufferType(Receiver)
          /\ IncrementUses(buf, i).expected = buf.expected
      <4>1. i \in Index /\ buf.uses[i] \in 0..MaxConsumers
        BY BeforeStep DEF BufferType
      <4> QED BY <4>1, BeforeStep, LimitsAssumption DEF IncrementUses, BufferType
    <3>2. buf'.expected = buf.expected
      BY <3>1, SanitizeEffect, BufferAssumption DEF ConfirmChunk, SetChunkAsReceived
    <3> QED BY <2>2, <3>2
  <2>6. CASE EndOfFile
    BY <2>2, <2>6, BeforeStep DEF EndOfFile, SetEndOfFile, BufferType
  <2>7. ASSUME NEW c \in Receiver, BeginLeave(c) PROVE A
    BY <2>2, <2>7, BeforeStep DEF BeginLeave, RemoveConsumer, BufferType
  <2>8. ASSUME NEW c \in Receiver, FinishLeave(c) PROVE A
    BY <2>2, <2>8, BeforeStep, SanitizeEffect DEF FinishLeave
  <2>9. CASE Unfreeze
    <3> DEFINE mid == [buf EXCEPT !.freezing = FALSE]
    <3>1. mid \in BufferType(Receiver) /\ mid.expected = buf.expected
      BY BeforeStep DEF BufferType
    <3>2. buf' = Sanitize(mid) BY <2>9 DEF Unfreeze, DropFreezing
    <3> HIDE DEF mid
    <3>3. Sanitize(mid).expected = mid.expected
      BY <3>1, SanitizeEffect, BufferAssumption
    <3> QED BY <2>2, <3>1, <3>2, <3>3
  <2> QED BY <2>1, <2>3, <2>4, <2>5, <2>6, <2>7, <2>8, <2>9 DEF Next
<1> QED BY <1>1, Invariance, PTL DEF Spec, JoinerGetsWholeFile

-----------------------------------------------------------------------------
(* Refinement *)

\* What Sanitize does to what the window shows.
LEMMA ReleasesRecorded ==
    ASSUME NEW m \in BufferType(Receiver)
    PROVE  /\ Sanitize(m).top = m.top /\ Sanitize(m).freezing = m.freezing
           /\ Sanitize(m).expected = m.expected
           /\ Sanitize(m).chunks \subseteq m.chunks
           /\ Sanitize(m).removed = (m.removed \/ Sanitize(m).chunks # m.chunks)
BY SanitizeEffect, BufferAssumption

\* A sanitizing step releases chunks of the window, or shows nothing.
LEMMA SanitizeReleases ==
    ASSUME NEW mid \in BufferType(Receiver),
           mid.chunks = buf.chunks, mid.top = buf.top,
           mid.removed = buf.removed, mid.expected = buf.expected,
           buf' = Sanitize(mid),
           mid.freezing => buf.freezing
    PROVE  Window!Release \/ UNCHANGED Window!vars
<1>1. mid.freezing => Sanitize(mid).chunks = mid.chunks BY DEF Sanitize
<1>2. mid.freezing \in BOOLEAN /\ mid.removed \in BOOLEAN BY DEF BufferType
<1>3. /\ buf'.top = buf.top /\ buf'.freezing = mid.freezing
      /\ buf'.expected = buf.expected /\ buf'.chunks \subseteq buf.chunks
      /\ buf'.removed = (buf.removed \/ buf'.chunks # buf.chunks)
      /\ mid.freezing => buf'.chunks = buf.chunks
  BY <1>1, ReleasesRecorded
<1>4. CASE mid.freezing
  BY <1>2, <1>3, <1>4 DEF Window!vars
<1>5. CASE ~mid.freezing
  BY <1>2, <1>3, <1>5 DEF Window!Release
<1> QED BY <1>4, <1>5

\* The instance counts sets the way this module does.
LEMMA SameCardinality == ASSUME NEW S PROVE Window!Cardinality(S) = Cardinality(S)
BY DEF Window!Cardinality, Cardinality

\* Every behaviour of the buffer is a behaviour of the abstract window.
THEOREM BufferImplementsWindow == Spec => ImplementsWindow
<1>1. Init => Window!Init BY DEF Init, EmptyBuffer, Window!Init
<1>2. IInv /\ [Next]_vars => [Window!Next]_(Window!vars)
  <2> SUFFICES ASSUME IInv, [Next]_vars
               PROVE  Window!Next \/ UNCHANGED Window!vars
    OBVIOUS
  <2>1. CASE UNCHANGED vars BY <2>1 DEF vars, Window!vars
  <2>2. CASE BeginAddChunk \/ RaceStrikes
    <3>1. buf' = buf BY <2>2 DEF BeginAddChunk, RaceStrikes
    <3> QED BY <3>1 DEF Window!vars
  <2>3. CASE FinishAddChunk
    <3>1. buf.top < MaxUploads
      BY <2>3, BeforeStep, BufferAssumption, LimitsAssumption
      DEF FinishAddChunk, TypeOK
    <3>2. buf' = AddChunk(buf) BY <2>3 DEF FinishAddChunk
    <3>3. CASE buf' = buf BY <3>3 DEF Window!vars
    <3>4. CASE buf' # buf
      <4>1. /\ buf'.freezing = buf.freezing /\ buf'.removed = buf.removed
            /\ buf'.expected = buf.expected
            /\ NewChunkIsAllowed(buf)
            /\ buf'.top = buf.top + 1
            /\ buf'.chunks = buf.chunks \cup {buf.top + 1}
        BY <3>1, <3>2, <3>4, BeforeStep, AddChunkEffect
      <4>2. Cardinality(buf.chunks) < MaxQueue
        <5>1. buf.top \in Nat /\ buf.chunks \subseteq 1..buf.top BY BeforeStep
        <5>2. IsFiniteSet(buf.chunks) BY <5>1, IntervalFinite, FS_Subset
        <5>3. Cardinality(buf.chunks) \in Nat BY <5>2, FS_CardinalityType
        <5> QED BY <4>1, <5>3, LimitsAssumption DEF NewChunkIsAllowed
      <4> QED BY <4>1, <4>2, SameCardinality DEF Window!Next, Window!Enter
    <3> QED BY <3>3, <3>4
  <2>4. CASE \E c \in Client, i \in Index : ConfirmChunk(c, i)
    <3> PICK c \in Client, i \in Index : ConfirmChunk(c, i) BY <2>4
    <3> DEFINE mid == IncrementUses(buf, i)
    <3>1. i \in Index /\ buf.uses[i] \in 0..MaxConsumers
      BY BeforeStep DEF BufferType
    <3>2. /\ mid \in BufferType(Receiver)
          /\ mid.chunks = buf.chunks /\ mid.top = buf.top
          /\ mid.removed = buf.removed /\ mid.expected = buf.expected
          /\ mid.freezing = buf.freezing
      BY <3>1, BeforeStep, LimitsAssumption DEF IncrementUses, BufferType
    <3>3. buf' = Sanitize(mid) BY DEF ConfirmChunk, SetChunkAsReceived
    <3> HIDE DEF mid
    <3> QED BY <3>2, <3>3, SanitizeReleases DEF Window!Next
  <2>5. CASE EndOfFile
    BY <2>5, BeforeStep DEF EndOfFile, SetEndOfFile, BufferType, Window!vars
  <2>6. ASSUME NEW c \in Receiver, Join(c) PROVE Window!Next
    <3>1. /\ buf'.chunks = buf.chunks /\ buf'.top = buf.top
          /\ buf'.freezing = buf.freezing /\ buf'.removed = buf.removed
          /\ buf'.expected = buf.expected \cup {c}
          /\ ~buf.removed /\ c \notin buf.expected
          /\ Cardinality(buf.expected) + 1 <= MaxConsumers
      BY <2>6, BeforeStep DEF Join, CanAddConsumer, AddConsumer, BufferType
    <3>2. Cardinality(buf.expected) < MaxConsumers
      BY <3>1, BeforeStep, LimitsAssumption
    <3>3. UNCHANGED <<buf.chunks, buf.top, buf.freezing, buf.removed>> BY <3>1
    <3>4. Window!Admit(c)
      BY <3>1, <3>2, <3>3, SameCardinality DEF Window!Admit
    <3> QED BY <3>4 DEF Window!Next
  <2>7. ASSUME NEW c \in Receiver, BeginLeave(c) PROVE Window!Next
    <3>1. Window!Depart(c)
      BY <2>7, BeforeStep DEF BeginLeave, RemoveConsumer, BufferType, Window!Depart
    <3> QED BY <3>1 DEF Window!Next
  <2>8. ASSUME NEW c \in Receiver, FinishLeave(c)
        PROVE  Window!Release \/ UNCHANGED Window!vars
    BY <2>8, BeforeStep, SanitizeReleases DEF FinishLeave
  <2>9. CASE Unfreeze
    <3> DEFINE mid == [buf EXCEPT !.freezing = FALSE]
    <3>1. /\ mid \in BufferType(Receiver)
          /\ mid.chunks = buf.chunks /\ mid.top = buf.top
          /\ mid.removed = buf.removed /\ mid.expected = buf.expected
          /\ mid.freezing = FALSE
      BY BeforeStep DEF BufferType
    <3>2. buf' = Sanitize(mid) BY <2>9 DEF Unfreeze, DropFreezing
    <3> HIDE DEF mid
    <3> QED BY <3>1, <3>2, SanitizeReleases DEF Window!Next
  <2> QED
    BY <2>1, <2>2, <2>3, <2>4, <2>5, <2>6, <2>7, <2>8, <2>9
    DEF Next, Window!Next
<1> QED BY <1>1, <1>2, Invariance, PTL DEF Spec, ImplementsWindow, Window!Spec
=============================================================================
