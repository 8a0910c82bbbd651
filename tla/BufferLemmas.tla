---------------------------- MODULE BufferLemmas ----------------------------
(***************************************************************************)
(* What the operations of BufferOps do to a buffer and to its history, for  *)
(* any finite set of consumers.  Sound(b, conf, loose) relates a buffer to  *)
(* conf, who confirmed each chunk while it was buffered, and loose, the     *)
(* chunks whose confirmations were not in order; every operation keeps it.  *)
(* The proofs about Buffer, TransferSession, UploadFlow and WebReceiver rest *)
(* on these lemmas.                                                         *)
(***************************************************************************)
EXTENDS BufferOps, FiniteSetTheorems, TLAPS

Whole(b) == ~b.removed => b.chunks = 1..b.top
Frozen(b) == b.freezing => ~b.removed
Counted(b, conf) ==
    \A i \in b.chunks : Cardinality(conf[i] \cap b.expected) <= b.uses[i]
Exact(b, conf, loose) ==
    \A i \in b.chunks \ loose : /\ conf[i] \subseteq b.expected
                                /\ b.uses[i] <= Cardinality(conf[i])
Released(b, conf, loose) ==
    \A i \in 1..b.top \ b.chunks : i \notin loose => b.expected \subseteq conf[i]
Swept(b) ==
    ~b.freezing => \A i \in b.chunks : b.uses[i] < Cardinality(b.expected)

Sound(b, conf, loose) ==
    /\ Whole(b) /\ Frozen(b) /\ Counted(b, conf)
    /\ Exact(b, conf, loose) /\ Released(b, conf, loose)

\* What the confirmation of chunk i by client c adds to the history.
ConfirmedBy(b, conf, conf2, loose, loose2, i, c) ==
    /\ i \in b.chunks
    /\ conf2[i] = conf[i] \cup {c}
    /\ \A j \in Index : j # i => conf2[j] = conf[j]
    /\ loose \subseteq loose2
    /\ c \in conf[i] \/ c \notin b.expected => i \in loose2

-----------------------------------------------------------------------------
(* Lemmas about the operators *)

\* The indices handed out so far are finitely many.
LEMMA IntervalFinite == ASSUME NEW n \in Nat PROVE IsFiniteSet(1..n)
  BY FS_Interval

\* The consumers of a buffer are finitely many.
LEMMA ExpectedFinite ==
    ASSUME NEW C, IsFiniteSet(C), NEW b \in BufferType(C)
    PROVE  /\ IsFiniteSet(b.expected)
           /\ Cardinality(b.expected) \in Nat
           /\ b.expected \subseteq C
<1>1. b.expected \subseteq C BY DEF BufferType
<1>2. IsFiniteSet(b.expected) BY <1>1, FS_Subset
<1> QED BY <1>1, <1>2, FS_CardinalityType

\* One more member makes a set larger by one at most.
LEMMA OneMore ==
    ASSUME NEW S, NEW x, IsFiniteSet(S)
    PROVE  /\ Cardinality(S \cup {x}) \in Nat
           /\ Cardinality(S \cup {x}) <= Cardinality(S) + 1
           /\ x \notin S => Cardinality(S \cup {x}) = Cardinality(S) + 1
<1>1. Cardinality(S) \in Nat BY FS_CardinalityType
<1>2. Cardinality(S \cup {x}) =
          IF x \in S THEN Cardinality(S) ELSE Cardinality(S) + 1
  BY FS_AddElement
<1> QED BY <1>1, <1>2

\* Sanitize touches the chunks and the removed flag only: it keeps exactly the
\* chunks that are still counted as awaited, and nothing while the freeze holds.
LEMMA SanitizeEffect ==
    ASSUME NEW C, IsFiniteSet(C), NEW b \in BufferType(C)
    PROVE  /\ Sanitize(b) \in BufferType(C)
           /\ Sanitize(b).uses = b.uses
           /\ Sanitize(b).top = b.top
           /\ Sanitize(b).eof = b.eof
           /\ Sanitize(b).freezing = b.freezing
           /\ Sanitize(b).expected = b.expected
           /\ Sanitize(b).chunks \subseteq b.chunks
           /\ Sanitize(b).removed = (b.removed \/ Sanitize(b).chunks # b.chunks)
           /\ Sanitize(b).chunks =
                 IF b.freezing THEN b.chunks
                 ELSE {i \in b.chunks : b.uses[i] < Cardinality(b.expected)}
<1>1. Cardinality(b.expected) \in Nat BY ExpectedFinite
<1>2. \A i \in b.chunks : b.uses[i] \in Nat BY LimitsAssumption DEF BufferType
<1>3. Awaited(b) = {i \in b.chunks : b.uses[i] < Cardinality(b.expected)}
  BY <1>1, <1>2 DEF Awaited, HowMuchIsLeft
<1>4. Awaited(b) \subseteq b.chunks BY DEF Awaited
<1>5. CASE b.freezing
  BY <1>5 DEF Sanitize, BufferType
<1>6. CASE ~b.freezing
  <2>1. Sanitize(b) = [b EXCEPT !.chunks  = Awaited(b),
                                !.removed = @ \/ Awaited(b) # b.chunks]
    BY <1>6 DEF Sanitize
  <2> QED BY <1>3, <1>4, <1>6, <2>1 DEF BufferType
<1> QED BY <1>5, <1>6

\* Confirming takes chunks away, and otherwise counts only: the consumers are few
\* enough for the counters of the chunks.
LEMMA ConfirmEffect ==
    ASSUME NEW C, IsFiniteSet(C), Cardinality(C) <= MaxConsumers,
           NEW b \in BufferType(C), NEW i
    PROVE  LET d == SetChunkAsReceived(b, i)
           IN  /\ d \in BufferType(C) /\ d.top = b.top /\ d.eof = b.eof
               /\ d.chunks \subseteq b.chunks
<1> DEFINE u == IncrementUses(b, i)
<1>1. /\ Cardinality(b.expected) \in Nat /\ Cardinality(b.expected) <= MaxConsumers
  <2>1. b.expected \subseteq C BY DEF BufferType
  <2>2. Cardinality(b.expected) <= Cardinality(C) BY <2>1, FS_Subset
  <2>3. Cardinality(C) \in Nat BY FS_CardinalityType
  <2>4. Cardinality(b.expected) \in Nat BY ExpectedFinite
  <2> QED BY <2>2, <2>3, <2>4, LimitsAssumption
<1>2. u \in BufferType(C) /\ u.top = b.top /\ u.eof = b.eof /\ u.chunks = b.chunks
  BY <1>1, LimitsAssumption DEF IncrementUses, BufferType
<1> HIDE DEF u
<1>3. CASE i \in b.chunks
  <2>1. SetChunkAsReceived(b, i) = Sanitize(u) BY <1>3 DEF SetChunkAsReceived, u
  <2>2. /\ Sanitize(u) \in BufferType(C) /\ Sanitize(u).top = u.top
        /\ Sanitize(u).eof = u.eof /\ Sanitize(u).chunks \subseteq u.chunks
    BY <1>2, SanitizeEffect
  <2> QED BY <1>2, <2>1, <2>2
<1>4. CASE i \notin b.chunks BY <1>4 DEF SetChunkAsReceived
<1> QED BY <1>3, <1>4

\* Sanitizing a sound buffer leaves a sound buffer with no chunk due: a chunk is
\* dropped only when its counter has reached the number of consumers, and then,
\* if its confirmations were orderly, they are those of all the consumers.
LEMMA SanitizeSound ==
    ASSUME NEW C, IsFiniteSet(C), NEW b \in BufferType(C), NEW conf, NEW loose,
           Sound(b, conf, loose)
    PROVE  Sound(Sanitize(b), conf, loose) /\ Swept(Sanitize(b))
<1> DEFINE s == Sanitize(b)
<1>1. /\ s \in BufferType(C) /\ s.uses = b.uses /\ s.top = b.top
      /\ s.freezing = b.freezing /\ s.expected = b.expected
      /\ s.removed = (b.removed \/ s.chunks # b.chunks)
      /\ s.chunks = IF b.freezing THEN b.chunks
                    ELSE {i \in b.chunks : b.uses[i] < Cardinality(b.expected)}
  BY SanitizeEffect
<1>2. s.chunks \subseteq b.chunks BY <1>1
<1> HIDE DEF s
<1>3. Whole(s) BY <1>1 DEF Sound, Whole
<1>4. Frozen(s) BY <1>1 DEF Sound, Frozen
<1>5. Counted(s, conf) BY <1>1, <1>2 DEF Sound, Counted
<1>6. Exact(s, conf, loose) BY <1>1, <1>2 DEF Sound, Exact
<1>7. Released(s, conf, loose)
  <2> SUFFICES ASSUME NEW i \in 1..s.top, i \notin s.chunks, i \notin loose
               PROVE  s.expected \subseteq conf[i]
    BY DEF Released
  <2>1. CASE i \notin b.chunks
    BY <1>1, <2>1 DEF Sound, Released
  <2>2. CASE i \in b.chunks
    <3>1. ~(b.uses[i] < Cardinality(b.expected)) BY <1>1, <2>2
    <3>2. conf[i] \subseteq b.expected /\ b.uses[i] <= Cardinality(conf[i])
      BY <2>2 DEF Sound, Exact
    <3>3. /\ IsFiniteSet(b.expected) /\ Cardinality(b.expected) \in Nat
      BY ExpectedFinite
    <3>4. IsFiniteSet(conf[i]) /\ Cardinality(conf[i]) <= Cardinality(b.expected)
      BY <3>2, <3>3, FS_Subset
    <3>5. Cardinality(conf[i]) \in Nat BY <3>4, FS_CardinalityType
    <3>6. b.uses[i] \in Nat BY <2>2, LimitsAssumption DEF BufferType
    <3>7. Cardinality(b.expected) = Cardinality(conf[i])
      BY <3>1, <3>2, <3>3, <3>4, <3>5, <3>6
    <3>8. b.expected = conf[i] BY <3>2, <3>3, <3>7, FS_Subset
    <3> QED BY <1>1, <3>8
  <2> QED BY <2>1, <2>2
<1>8. Swept(s) BY <1>1 DEF Swept
<1> QED BY <1>3, <1>4, <1>5, <1>6, <1>7, <1>8 DEF Sound, s

\* One more confirmation of chunk i by client c keeps the counters covering what
\* was confirmed: the counter either moves or already counts all the consumers.
LEMMA IncrementSound ==
    ASSUME NEW C, IsFiniteSet(C), NEW b \in BufferType(C),
           Cardinality(b.expected) <= MaxConsumers,
           NEW conf, NEW conf2, NEW loose, NEW loose2, NEW i, NEW c,
           Sound(b, conf, loose), ConfirmedBy(b, conf, conf2, loose, loose2, i, c)
    PROVE  /\ IncrementUses(b, i) \in BufferType(C)
           /\ Sound(IncrementUses(b, i), conf2, loose2)
<1> DEFINE d == IncrementUses(b, i)
<1> USE DEF ConfirmedBy
<1>1. i \in Index BY DEF BufferType
<1>2. /\ IsFiniteSet(b.expected) /\ Cardinality(b.expected) \in Nat
  BY ExpectedFinite
<1>3. b.uses[i] \in 0..MaxConsumers BY <1>1 DEF BufferType
<1>4. /\ d.chunks = b.chunks /\ d.top = b.top /\ d.freezing = b.freezing
      /\ d.removed = b.removed /\ d.expected = b.expected
      /\ d.uses = [b.uses EXCEPT ![i] =
                     IF Cardinality(b.expected) > b.uses[i] THEN @ + 1 ELSE @]
      /\ d \in BufferType(C)
  BY <1>1, <1>2, <1>3, LimitsAssumption DEF IncrementUses, BufferType
<1> HIDE DEF d
<1>5. \A j \in Index : /\ j # i => conf2[j] = conf[j] /\ d.uses[j] = b.uses[j]
  BY <1>1, <1>4 DEF BufferType
<1>6. b.chunks \subseteq Index BY DEF BufferType
<1>7. Whole(d) /\ Frozen(d) BY <1>4 DEF Sound, Whole, Frozen
<1>8. d.uses[i] = IF Cardinality(b.expected) > b.uses[i]
                  THEN b.uses[i] + 1 ELSE b.uses[i]
  BY <1>1, <1>4 DEF BufferType
<1>9. Counted(d, conf2)
  <2>1. Cardinality(conf2[i] \cap b.expected) <= d.uses[i]
    <3> DEFINE S == conf[i] \cap b.expected
               T == conf2[i] \cap b.expected
    <3>1. IsFiniteSet(S) /\ IsFiniteSet(T) /\ Cardinality(T) <= Cardinality(b.expected)
      BY <1>2, FS_Subset
    <3>2. /\ Cardinality(S) \in Nat /\ Cardinality(T) \in Nat
      BY <3>1, FS_CardinalityType
    <3>3. Cardinality(T) <= Cardinality(S) + 1
      <4>1. T = S \/ T = S \cup {c} BY <1>1, <1>5
      <4> HIDE DEF T, S
      <4>2. Cardinality(S \cup {c}) <= Cardinality(S) + 1
        BY <3>1, OneMore
      <4>3. CASE T = S BY <3>2, <4>3
      <4> QED BY <4>1, <4>2, <4>3
    <3>4. Cardinality(S) <= b.uses[i] BY DEF Sound, Counted
    <3> HIDE DEF S, T
    <3>5. Cardinality(T) <= d.uses[i]
      BY <1>2, <1>3, <1>8, <3>1, <3>2, <3>3, <3>4
    <3> QED BY <3>5 DEF T
  <2>2. \A j \in b.chunks : j # i =>
            Cardinality(conf2[j] \cap b.expected) <= d.uses[j]
    BY <1>5, <1>6 DEF Sound, Counted
  <2> QED BY <1>4, <2>1, <2>2 DEF Counted
<1>10. Exact(d, conf2, loose2)
  <2>1. ASSUME i \notin loose2
        PROVE  /\ conf2[i] \subseteq b.expected
               /\ d.uses[i] <= Cardinality(conf2[i])
    <3>1. c \notin conf[i] /\ c \in b.expected BY <2>1
    <3>2. conf[i] \subseteq b.expected /\ b.uses[i] <= Cardinality(conf[i])
      BY <2>1 DEF Sound, Exact
    <3>3. IsFiniteSet(conf[i]) BY <1>2, <3>2, FS_Subset
    <3>4. Cardinality(conf[i]) \in Nat BY <3>3, FS_CardinalityType
    <3>5. Cardinality(conf[i] \cup {c}) = Cardinality(conf[i]) + 1
      BY <3>1, <3>3, OneMore
    <3>6. conf2[i] = conf[i] \cup {c} BY <1>1, <1>5
    <3>7. d.uses[i] <= b.uses[i] + 1 BY <1>3, <1>8
    <3>8. d.uses[i] \in Nat BY <1>3, <1>8
    <3>9. d.uses[i] <= Cardinality(conf2[i])
      <4>1. b.uses[i] \in Nat BY <1>3, LimitsAssumption
      <4>2. Cardinality(conf2[i]) = Cardinality(conf[i]) + 1 BY <3>5, <3>6
      <4>3. b.uses[i] <= Cardinality(conf[i]) BY <3>2
      <4> QED BY <3>4, <3>7, <3>8, <4>1, <4>2, <4>3
    <3> QED BY <3>1, <3>2, <3>6, <3>9
  <2>2. \A j \in b.chunks \ loose2 : j # i =>
            conf2[j] \subseteq b.expected /\ d.uses[j] <= Cardinality(conf2[j])
    BY <1>5, <1>6 DEF Sound, Exact
  <2> QED BY <1>4, <2>1, <2>2 DEF Exact
<1>11. Released(d, conf2, loose2)
  <2> SUFFICES ASSUME NEW j \in 1..d.top, j \notin d.chunks, j \notin loose2
               PROVE  d.expected \subseteq conf2[j]
    BY DEF Released
  <2>1. j \in Index BY <1>4, LimitsAssumption DEF BufferType, Index
  <2> QED BY <1>4, <1>5, <2>1 DEF Sound, Released
<1> QED BY <1>4, <1>7, <1>9, <1>10, <1>11 DEF Sound, d

\* Adding a chunk changes nothing when the queue is full, and otherwise appends it.
LEMMA AddChunkEffect ==
    ASSUME NEW C, IsFiniteSet(C), NEW b \in BufferType(C), b.top < MaxUploads
    PROVE  /\ AddChunk(b) \in BufferType(C)
           /\ AddChunk(b).eof = b.eof /\ AddChunk(b).freezing = b.freezing
           /\ AddChunk(b).removed = b.removed /\ AddChunk(b).expected = b.expected
           /\ \/ AddChunk(b) = b
              \/ /\ NewChunkIsAllowed(b)
                 /\ AddChunk(b).top = b.top + 1
                 /\ AddChunk(b).chunks = b.chunks \cup {b.top + 1}
                 /\ AddChunk(b).uses = [b.uses EXCEPT ![b.top + 1] = 0]
<1>1. b.top + 1 \in Index BY LimitsAssumption DEF BufferType, Index
<1>2. b.top + 1 \in 0..MaxUploads BY LimitsAssumption DEF BufferType
<1>3. 0 \in 0..MaxConsumers BY LimitsAssumption
<1> QED BY <1>1, <1>2, <1>3 DEF AddChunk, BufferType


-----------------------------------------------------------------------------
(* The operations keep a buffer sound *)

\* The indices a buffer handed out, and no confirmation of those to come.
Bounded(b, conf) ==
    /\ b.chunks \subseteq 1..b.top
    /\ Cardinality(b.expected) <= MaxConsumers
    /\ \A i \in Index : i > b.top => conf[i] = {}

LEMMA EmptySound ==
    ASSUME NEW C, NEW loose
    PROVE  LET conf == [i \in Index |-> {}]
           IN  /\ EmptyBuffer \in BufferType(C)
               /\ Bounded(EmptyBuffer, conf)
               /\ Sound(EmptyBuffer, conf, loose)
<1>1. EmptyBuffer \in BufferType(C) BY LimitsAssumption DEF EmptyBuffer, BufferType
<1>2. /\ EmptyBuffer.chunks = {} /\ EmptyBuffer.top = 0 /\ EmptyBuffer.freezing
      /\ ~EmptyBuffer.removed /\ EmptyBuffer.expected = {}
  BY DEF EmptyBuffer
<1>3. 1..EmptyBuffer.top = {} BY <1>2
<1>4. Cardinality(EmptyBuffer.expected) <= MaxConsumers
  BY <1>2, FS_EmptySet, LimitsAssumption
<1> QED
  BY <1>1, <1>2, <1>3, <1>4
  DEF Bounded, Sound, Whole, Frozen, Counted, Exact, Released

\* Nothing of this is about the end of file.
LEMMA EndOfFileSound ==
    ASSUME NEW C, NEW b \in BufferType(C), NEW conf, NEW loose,
           Bounded(b, conf), Sound(b, conf, loose)
    PROVE  LET d == SetEndOfFile(b)
           IN  /\ d \in BufferType(C)
               /\ d.chunks = b.chunks /\ d.uses = b.uses /\ d.top = b.top /\ d.eof
               /\ d.freezing = b.freezing /\ d.removed = b.removed
               /\ d.expected = b.expected
               /\ Bounded(d, conf) /\ Sound(d, conf, loose)
<1> DEFINE d == SetEndOfFile(b)
<1>1. /\ d \in BufferType(C)
      /\ d.chunks = b.chunks /\ d.uses = b.uses /\ d.top = b.top /\ d.eof
      /\ d.freezing = b.freezing /\ d.removed = b.removed /\ d.expected = b.expected
  BY DEF SetEndOfFile, BufferType
<1> HIDE DEF d
<1>2. Bounded(d, conf) BY <1>1 DEF Bounded
<1>3. Sound(d, conf, loose)
  BY <1>1 DEF Sound, Whole, Frozen, Counted, Exact, Released
<1> QED BY <1>1, <1>2, <1>3 DEF d

\* A new chunk has no confirmation and no use.
LEMMA AddChunkSound ==
    ASSUME NEW C, IsFiniteSet(C), NEW b \in BufferType(C), b.top < MaxUploads,
           NEW conf, NEW loose,
           Bounded(b, conf), Sound(b, conf, loose)
    PROVE  /\ Bounded(AddChunk(b), conf)
           /\ Sound(AddChunk(b), conf, loose)
<1> DEFINE d == AddChunk(b)
           n == b.top + 1
<1>1. /\ d \in BufferType(C) /\ d.freezing = b.freezing
      /\ d.removed = b.removed /\ d.expected = b.expected
      /\ \/ d = b
         \/ /\ d.top = n /\ d.chunks = b.chunks \cup {n}
            /\ d.uses = [b.uses EXCEPT ![n] = 0]
  BY AddChunkEffect
<1>2. /\ b.chunks \subseteq 1..b.top /\ b.top \in Nat
      /\ Cardinality(b.expected) <= MaxConsumers
      /\ \A i \in Index : i > b.top => conf[i] = {}
      /\ b.chunks \subseteq Index /\ b.uses \in [Index -> 0..MaxConsumers]
  BY LimitsAssumption DEF Bounded, BufferType
<1>3. n \in Index /\ n > b.top /\ n \notin b.chunks /\ 1..n = (1..b.top) \cup {n}
  BY <1>2, LimitsAssumption DEF Index
<1> HIDE DEF d, n
<1>4. CASE d = b BY <1>4 DEF d
<1>5. CASE /\ d.top = n /\ d.chunks = b.chunks \cup {n}
           /\ d.uses = [b.uses EXCEPT ![n] = 0]
  <2>1. d.uses[n] = 0 /\ \A i \in b.chunks : i # n /\ d.uses[i] = b.uses[i]
    BY <1>2, <1>3, <1>5
  <2>2. conf[n] = {} /\ Cardinality({}) = 0 BY <1>2, <1>3, FS_EmptySet
  <2>3. Bounded(d, conf)
    <3>1. \A i \in Index : i > n => i > b.top BY <1>2, <1>3 DEF n, Index
    <3> QED BY <1>1, <1>2, <1>3, <1>5, <3>1 DEF Bounded
  <2>4. Whole(d) /\ Frozen(d) BY <1>1, <1>3, <1>5 DEF Sound, Whole, Frozen
  <2>5. Counted(d, conf)
    <3>1. conf[n] \cap d.expected = {} BY <2>2
    <3>2. Cardinality(conf[n] \cap d.expected) <= d.uses[n] BY <2>1, <2>2, <3>1
    <3> QED BY <1>1, <1>5, <2>1, <3>2 DEF Sound, Counted
  <2>6. Exact(d, conf, loose)
    <3>1. conf[n] \subseteq d.expected /\ d.uses[n] <= Cardinality(conf[n])
      BY <2>1, <2>2
    <3> QED BY <1>1, <1>5, <2>1, <3>1 DEF Sound, Exact
  <2>7. Released(d, conf, loose) BY <1>1, <1>3, <1>5 DEF Sound, Released
  <2> QED BY <2>3, <2>4, <2>5, <2>6, <2>7 DEF Sound, d
<1> QED BY <1>1, <1>4, <1>5

\* A confirmation counts one use and sweeps.
LEMMA ConfirmSound ==
    ASSUME NEW C, IsFiniteSet(C), NEW b \in BufferType(C),
           NEW conf, NEW conf2, NEW loose, NEW loose2, NEW i, NEW c,
           Bounded(b, conf), Sound(b, conf, loose),
           ConfirmedBy(b, conf, conf2, loose, loose2, i, c)
    PROVE  LET d == SetChunkAsReceived(b, i)
           IN  /\ d \in BufferType(C)
               /\ d.top = b.top /\ d.eof = b.eof /\ d.freezing = b.freezing
               /\ d.expected = b.expected /\ d.chunks \subseteq b.chunks
               /\ d.removed = (b.removed \/ d.chunks # b.chunks)
               /\ Bounded(d, conf2) /\ Sound(d, conf2, loose2) /\ Swept(d)
<1>1. Cardinality(b.expected) <= MaxConsumers BY DEF Bounded
<1> DEFINE m == IncrementUses(b, i)
           d == SetChunkAsReceived(b, i)
<1>2. /\ IncrementUses(b, i) \in BufferType(C)
      /\ Sound(IncrementUses(b, i), conf2, loose2)
  BY <1>1, IncrementSound
<1>3. /\ m.chunks = b.chunks /\ m.top = b.top /\ m.eof = b.eof
      /\ m.freezing = b.freezing /\ m.removed = b.removed /\ m.expected = b.expected
  BY DEF IncrementUses, BufferType
<1>5. d = Sanitize(m) BY DEF SetChunkAsReceived, ConfirmedBy
<1> HIDE DEF m, d
<1>6. /\ d \in BufferType(C)
      /\ d.top = b.top /\ d.eof = b.eof /\ d.freezing = b.freezing
      /\ d.expected = b.expected /\ d.chunks \subseteq b.chunks
      /\ d.removed = (b.removed \/ d.chunks # b.chunks)
  <2>1. /\ Sanitize(m) \in BufferType(C)
        /\ Sanitize(m).top = m.top /\ Sanitize(m).eof = m.eof
        /\ Sanitize(m).freezing = m.freezing /\ Sanitize(m).expected = m.expected
        /\ Sanitize(m).chunks \subseteq m.chunks
        /\ Sanitize(m).removed = (m.removed \/ Sanitize(m).chunks # m.chunks)
    BY <1>2, SanitizeEffect DEF m
  <2> QED BY <1>3, <1>5, <2>1
<1>7. Sound(d, conf2, loose2) /\ Swept(d)
  <2>1. m \in BufferType(C) /\ Sound(m, conf2, loose2) BY <1>2 DEF m
  <2>2. Sound(Sanitize(m), conf2, loose2) /\ Swept(Sanitize(m))
    BY <2>1, SanitizeSound
  <2> QED BY <1>5, <2>2
<1>8. Bounded(d, conf2)
  <2>1. i \in 1..b.top /\ b.top \in Nat
    BY LimitsAssumption DEF Bounded, BufferType, ConfirmedBy
  <2>2. \A j \in Index : j > b.top => conf2[j] = conf[j]
    BY <2>1 DEF Index, ConfirmedBy
  <2> QED BY <1>6, <2>2 DEF Bounded
<1> QED BY <1>6, <1>7, <1>8 DEF d

\* A consumer is admitted to a whole buffer of which it confirmed nothing.
LEMMA AddConsumerSound ==
    ASSUME NEW C, IsFiniteSet(C), NEW b \in BufferType(C), NEW conf, NEW loose,
           NEW c \in C, CanAddConsumer(b, c), \A i \in Index : c \notin conf[i],
           Bounded(b, conf), Sound(b, conf, loose)
    PROVE  LET d == AddConsumer(b, c)
           IN  /\ d \in BufferType(C)
               /\ d.chunks = b.chunks /\ d.uses = b.uses /\ d.top = b.top
               /\ d.eof = b.eof /\ d.freezing = b.freezing /\ d.removed = b.removed
               /\ d.expected = b.expected \cup {c}
               /\ Bounded(d, conf) /\ Sound(d, conf, loose)
<1> DEFINE d == AddConsumer(b, c)
<1>1. /\ d \in BufferType(C)
      /\ d.chunks = b.chunks /\ d.uses = b.uses /\ d.top = b.top
      /\ d.eof = b.eof /\ d.freezing = b.freezing /\ d.removed = b.removed
      /\ d.expected = b.expected \cup {c}
  BY DEF AddConsumer, BufferType
<1>2. /\ c \notin b.expected /\ ~b.removed
      /\ Cardinality(b.expected) + 1 <= MaxConsumers
  BY DEF CanAddConsumer
<1> HIDE DEF d
<1>3. Cardinality(d.expected) = Cardinality(b.expected) + 1
  <2>1. IsFiniteSet(b.expected) BY ExpectedFinite
  <2> QED BY <1>1, <1>2, <2>1, OneMore
<1>4. b.chunks \subseteq Index BY DEF BufferType
<1>5. Bounded(d, conf) BY <1>1, <1>2, <1>3 DEF Bounded
<1>6. Whole(d) /\ Frozen(d) BY <1>1 DEF Sound, Whole, Frozen
<1>7. Counted(d, conf)
  <2>1. \A i \in b.chunks : conf[i] \cap d.expected = conf[i] \cap b.expected
    BY <1>1, <1>4
  <2> QED BY <1>1, <2>1 DEF Sound, Counted
<1>8. Exact(d, conf, loose) BY <1>1 DEF Sound, Exact
<1>9. Released(d, conf, loose) BY <1>1, <1>2 DEF Sound, Whole, Released
<1> QED BY <1>1, <1>5, <1>6, <1>7, <1>8, <1>9 DEF Sound, d

\* A departure loosens the chunks the leaver had confirmed; for the others the
\* confirmations are still those of expected consumers.
LEMMA RemoveConsumerSound ==
    ASSUME NEW C, IsFiniteSet(C), NEW b \in BufferType(C), NEW conf,
           NEW loose, NEW loose2, NEW c,
           loose2 = loose \cup {i \in b.chunks : c \in b.expected \cap conf[i]},
           Bounded(b, conf), Sound(b, conf, loose)
    PROVE  LET d == RemoveConsumer(b, c)
           IN  /\ d \in BufferType(C)
               /\ d.chunks = b.chunks /\ d.uses = b.uses /\ d.top = b.top
               /\ d.eof = b.eof /\ d.freezing = b.freezing /\ d.removed = b.removed
               /\ d.expected = b.expected \ {c}
               /\ Bounded(d, conf) /\ Sound(d, conf, loose2)
<1> DEFINE d == RemoveConsumer(b, c)
<1>1. /\ d \in BufferType(C)
      /\ d.chunks = b.chunks /\ d.uses = b.uses /\ d.top = b.top
      /\ d.eof = b.eof /\ d.freezing = b.freezing /\ d.removed = b.removed
      /\ d.expected = b.expected \ {c}
  BY DEF RemoveConsumer, BufferType
<1> HIDE DEF d
<1>2. /\ IsFiniteSet(b.expected) /\ Cardinality(b.expected) \in Nat
  BY ExpectedFinite
<1>3. /\ Cardinality(d.expected) <= Cardinality(b.expected)
      /\ Cardinality(d.expected) \in Nat
  BY <1>1, <1>2, FS_Subset, FS_CardinalityType
<1>4. Bounded(d, conf)
  BY <1>1, <1>2, <1>3, LimitsAssumption DEF Bounded
<1>5. Whole(d) /\ Frozen(d) BY <1>1 DEF Sound, Whole, Frozen
<1>6. Counted(d, conf)
  <2> SUFFICES ASSUME NEW i \in b.chunks
               PROVE  Cardinality(conf[i] \cap d.expected) <= b.uses[i]
    BY <1>1 DEF Counted
  <2> DEFINE S == conf[i] \cap b.expected
             T == conf[i] \cap d.expected
  <2>1. IsFiniteSet(S) /\ T \subseteq S BY <1>1, <1>2, FS_Subset
  <2>2. IsFiniteSet(T) /\ Cardinality(T) <= Cardinality(S) BY <2>1, FS_Subset
  <2>3. Cardinality(T) \in Nat /\ Cardinality(S) \in Nat
    BY <2>1, <2>2, FS_CardinalityType
  <2>4. Cardinality(S) <= b.uses[i] BY DEF Sound, Counted
  <2>5. b.uses[i] \in Nat BY LimitsAssumption DEF BufferType
  <2> QED BY <2>2, <2>3, <2>4, <2>5
<1>7. Exact(d, conf, loose2)
  <2>1. \A i \in b.chunks \ loose2 : i \notin loose /\ c \notin b.expected \cap conf[i]
    OBVIOUS
  <2> QED BY <1>1, <2>1 DEF Sound, Exact
<1>8. Released(d, conf, loose2) BY <1>1 DEF Sound, Released
<1> QED BY <1>1, <1>4, <1>5, <1>6, <1>7, <1>8 DEF Sound, d

\* Who is not expected may be forgotten.
LEMMA ForgetSound ==
    ASSUME NEW C, IsFiniteSet(C), NEW b \in BufferType(C), NEW conf, NEW conf2,
           NEW loose,
           \A i \in Index : /\ conf2[i] \subseteq conf[i]
                            /\ conf[i] \cap b.expected \subseteq conf2[i],
           Bounded(b, conf), Sound(b, conf, loose)
    PROVE  Bounded(b, conf2) /\ Sound(b, conf2, loose)
<1>1. Bounded(b, conf2) BY DEF Bounded
<1>2. b.chunks \subseteq Index /\ 1..b.top \subseteq Index
  BY LimitsAssumption DEF BufferType, Index
<1>3. Counted(b, conf2)
  <2>1. \A i \in b.chunks : conf2[i] \cap b.expected = conf[i] \cap b.expected
    BY <1>2
  <2> QED BY <2>1 DEF Sound, Counted
<1>4. Exact(b, conf2, loose)
  <2>1. \A i \in b.chunks \ loose : conf2[i] = conf[i] BY <1>2 DEF Sound, Exact
  <2> QED BY <2>1 DEF Sound, Exact
<1>5. Released(b, conf2, loose)
  <2> SUFFICES ASSUME NEW i \in 1..b.top \ b.chunks, i \notin loose
               PROVE  b.expected \subseteq conf2[i]
    BY DEF Released
  <2>1. b.expected \subseteq conf[i] BY DEF Sound, Released
  <2> QED BY <1>2, <2>1
<1> QED BY <1>1, <1>3, <1>4, <1>5 DEF Sound

\* A sanitize on its own, and the one that ends the freeze.
LEMMA SweepSound ==
    ASSUME NEW C, IsFiniteSet(C), NEW b \in BufferType(C), NEW conf, NEW loose,
           Bounded(b, conf), Sound(b, conf, loose)
    PROVE  Bounded(Sanitize(b), conf) /\ Sound(Sanitize(b), conf, loose)
           /\ Swept(Sanitize(b))
<1>1. /\ Sanitize(b).top = b.top /\ Sanitize(b).expected = b.expected
      /\ Sanitize(b).chunks \subseteq b.chunks
  BY SanitizeEffect
<1>2. Bounded(Sanitize(b), conf) BY <1>1 DEF Bounded
<1> QED BY <1>2, SanitizeSound

LEMMA UnfreezeSound ==
    ASSUME NEW C, IsFiniteSet(C), NEW b \in BufferType(C), NEW conf, NEW loose,
           Bounded(b, conf), Sound(b, conf, loose)
    PROVE  LET d == DropFreezing(b)
           IN  /\ d \in BufferType(C)
               /\ d.top = b.top /\ d.eof = b.eof /\ ~d.freezing
               /\ d.expected = b.expected /\ d.chunks \subseteq b.chunks
               /\ d.removed = (b.removed \/ d.chunks # b.chunks)
               /\ Bounded(d, conf) /\ Sound(d, conf, loose) /\ Swept(d)
<1> DEFINE m == [b EXCEPT !.freezing = FALSE]
           d == DropFreezing(b)
<1>1. /\ m \in BufferType(C)
      /\ m.chunks = b.chunks /\ m.uses = b.uses /\ m.top = b.top /\ m.eof = b.eof
      /\ m.freezing = FALSE /\ m.removed = b.removed /\ m.expected = b.expected
  BY DEF BufferType
<1>2. d = Sanitize(m) BY DEF DropFreezing
<1> HIDE DEF m, d
<1>3. Bounded(m, conf) BY <1>1 DEF Bounded
<1>4. Sound(m, conf, loose)
  BY <1>1 DEF Sound, Whole, Frozen, Counted, Exact, Released
<1>5. /\ d \in BufferType(C)
      /\ d.top = b.top /\ d.eof = b.eof /\ ~d.freezing
      /\ d.expected = b.expected /\ d.chunks \subseteq b.chunks
      /\ d.removed = (b.removed \/ d.chunks # b.chunks)
  <2>1. /\ Sanitize(m) \in BufferType(C)
        /\ Sanitize(m).top = m.top /\ Sanitize(m).eof = m.eof
        /\ Sanitize(m).freezing = m.freezing /\ Sanitize(m).expected = m.expected
        /\ Sanitize(m).chunks \subseteq m.chunks
        /\ Sanitize(m).removed = (m.removed \/ Sanitize(m).chunks # m.chunks)
    BY <1>1, SanitizeEffect
  <2> QED BY <1>1, <1>2, <2>1
<1> QED BY <1>1, <1>2, <1>3, <1>4, <1>5, SweepSound DEF d
=============================================================================
