------------------------------ MODULE RoomProofs ------------------------------
(***************************************************************************)
(* Proofs about the room for chunks in UploadFlow: with one worker, and    *)
(* while the connection holds, no chunk is refused, and the page does not  *)
(* wait for room that is there.  For any receivers, queue length and       *)
(* number of uploads.                                                      *)
(***************************************************************************)
EXTENDS UploadProofs

\* The handlers run one after the other, and the connection holds.
Serial == Workers = 1 /\ MaxLosses = 0

Room == NewChunkIsAllowed(buf)

-----------------------------------------------------------------------------
(* Why no chunk is refused *)

OneHandler == \A a, b \in Running : a = b

\* A handler reads newChunkIsAllowed after its change of the buffer, and nobody
\* changes it before the handler is done; a chunk that arrives finds room.
HandlersKnow ==
    \A a \in Actor : /\ In(a, "publish") => at[a].new = Room
                     /\ In(a, "insert") => Room

\* The k-th event under way is one on which the page may go on, as it waits for
\* room or will have heard of a chunk by then.
Heeded(k) ==
    /\ wire[k] = Allowed(TRUE)
    /\ phase = "space" \/ \E j \in 1..(k - 1) : wire[j] = New

\* There is room when the page is about to send or has sent, and when it will be told
\* to go on.
RoomHolds ==
    /\ phase = "send" \/ posted # 0 => Room
    /\ \A k \in 1..Len(wire) : Heeded(k) => Room

RInv == OneHandler /\ HandlersKnow /\ RoomHolds /\ NoChunkRefused

\* A handler a goes on with the locals l, and sends at most the event e, which takes
\* n chunks from the page's count; it adds no chunk.
Handles(a, l, e, n) ==
    /\ a \in Running \/ Running = {}
    /\ at' = [at EXCEPT ![a] = l]
    /\ \/ wire' = wire /\ n = 0
       \/ wire' = Append(wire, e) /\ n = Taken(e)
    /\ e # Refused /\ (e = Allowed(TRUE) => Room')
    /\ UNCHANGED <<phase, sent, bufferUsed>>
    /\ posted' # 0 => posted # 0
    /\ Room => Room'
    /\ l.step = "publish" => l.new = Room'
    /\ l.step = "insert" => Room'

-----------------------------------------------------------------------------
(* Lemmas *)

\* While the connection holds, the page waits for the answer to at most one chunk,
\* and this is all that is under way.
LEMMA Together ==
    ASSUME Serial, IInv
    PROVE  /\ losses = 0 /\ online /\ greeting.step = "none"
           /\ Inits(wire) = {}
           /\ posted + One(In(Sender, "insert")) + One(In(Sender, "tellNew"))
                  + News(wire) <= One(phase = "accept")
<1>1. losses = 0 BY UploadFlowAssumption DEF Serial, IInv, Types
<1>2. online /\ greeting.step = "none" /\ Inits(wire) = {}
  BY <1>1 DEF IInv, GreetingHolds
<1>3. One(ToBeGreeted) = 0 BY <1>2 DEF ToBeGreeted, One
<1>4. posted + One(In(Sender, "insert")) + One(In(Sender, "tellNew")) + News(wire)
          + One(ToBeGreeted) <= One(phase = "accept") + losses
  BY DEF IInv, OneUnderWay
<1>5. \A q : One(q) \in {0, 1} BY DEF One
<1> DEFINE I == One(In(Sender, "insert"))
           T == One(In(Sender, "tellNew"))
           W == One(phase = "accept")
<1>6. I \in {0, 1} /\ T \in {0, 1} /\ W \in {0, 1} BY <1>5
<1> HIDE DEF I, T, W
<1>7. posted + I + T + News(wire) + 0 <= W + 0 BY <1>1, <1>3, <1>4 DEF I, T, W
<1>8. posted + I + T + News(wire) <= W BY <1>6, <1>7, Numbers
<1> QED BY <1>1, <1>2, <1>8 DEF I, T, W

\* An event that announces a chunk counts.
LEMMA NewCounts ==
    ASSUME NEW w \in Seq(Event), NEW k \in 1..Len(w), w[k] = New
    PROVE  News(w) # 0
<1> DEFINE f == [j \in 1..Len(w) |-> Announced(w[j])]
<1>1. f[k] = 1 BY DEF Announced, New, One
<1> HIDE DEF f
<1>2. <<k, 1>> \in Points(1..Len(w), f) BY <1>1, LimitsAssumption DEF Points
<1>3. IsFiniteSet(1..Len(w)) BY FS_Interval
<1>4. IsFiniteSet(Points(1..Len(w), f)) BY <1>3, SumType
<1>5. Cardinality(Points(1..Len(w), f)) # 0 BY <1>2, <1>4, FS_EmptySet
<1> QED BY <1>5 DEF News, Sum, f

\* Unless the page waits for the answer to a chunk, nothing of one is under way;
\* and there is one sign of it at a time.
LEMMA NothingUnderWay ==
    ASSUME Serial, IInv
    PROVE  /\ phase # "accept" =>
                  posted = 0 /\ ~In(Sender, "insert") /\ ~In(Sender, "tellNew")
           /\ phase # "accept" \/ posted # 0 \/ In(Sender, "insert")
                  \/ In(Sender, "tellNew") =>
                  \A k \in 1..Len(wire) : wire[k] # New
           /\ In(Sender, "insert") \/ In(Sender, "tellNew") =>
                  posted = 0 /\ phase = "accept"
<1> DEFINE I == One(In(Sender, "insert"))
           T == One(In(Sender, "tellNew"))
           W == One(phase = "accept")
<1>1. I \in {0, 1} /\ T \in {0, 1} /\ W \in {0, 1} BY DEF One
<1>2. posted + I + T + News(wire) <= W BY Together
<1>3. posted \in Nat /\ News(wire) \in Nat BY Numbers
<1>4. wire \in Seq(Event) BY DEF IInv, Types
<1>5. (In(Sender, "insert") <=> I = 1) /\ (In(Sender, "tellNew") <=> T = 1)
      /\ (phase = "accept" <=> W = 1)
  BY DEF One
<1> HIDE DEF I, T, W
<1>6. W # 1 => posted = 0 /\ I = 0 /\ T = 0 BY <1>1, <1>2, <1>3
<1>7. W # 1 \/ posted # 0 \/ I = 1 \/ T = 1 => News(wire) = 0 BY <1>1, <1>2, <1>3
<1>8. I = 1 \/ T = 1 => posted = 0 /\ W = 1 BY <1>1, <1>2, <1>3
<1>9. News(wire) = 0 => \A k \in 1..Len(wire) : wire[k] # New BY <1>4, NewCounts
<1> QED BY <1>5, <1>6, <1>7, <1>8, <1>9

\* With one worker a handler begins when none is running.
LEMMA BeginsAlone ==
    ASSUME Serial, Cardinality(Running) < Workers
    PROVE  Running = {}
<1>1. Running \subseteq Actor BY DEF Running
<1>2. IsFiniteSet(Running) BY <1>1, ActorFinite, FS_Subset
<1>3. Cardinality(Running) \in Nat BY <1>2, FS_CardinalityType
<1>4. Cardinality(Running) = 0 BY <1>3 DEF Serial
<1> QED BY <1>2, <1>4, FS_EmptySet

\* Room is not lost when no chunk is added.
LEMMA ShrunkRoom ==
    ASSUME IInv, buf'.chunks \subseteq buf.chunks
    PROVE  Room => Room'
<1>1. IsFiniteSet(buf.chunks) BY Numbers
<1>2. IsFiniteSet(buf'.chunks) /\ Cardinality(buf'.chunks) <= Cardinality(buf.chunks)
  BY <1>1, FS_Subset
<1>3. Cardinality(buf'.chunks) \in Nat BY <1>2, FS_CardinalityType
<1> QED
  BY <1>2, <1>3, Numbers, LimitsAssumption DEF Room, NewChunkIsAllowed

\* What a handler's step keeps, as long as the handler adds no chunk.
LEMMA HandlesKeeps ==
    ASSUME IInv, RInv, NEW a \in Actor, NEW l \in Locals, NEW e \in Event, NEW n,
           Handles(a, l, e, n)
    PROVE  RInv' /\ \A c \in Actor \ {a} : at[c].step = "idle" /\ at'[c] = at[c]
<1>1. /\ at'[a] = l /\ \A c \in Actor \ {a} : at'[c] = at[c]
  BY DEF Handles, IInv, Types
<1>2. \A c \in Actor \ {a} : at[c].step = "idle"
  BY DEF Handles, RInv, OneHandler, Running
<1>3. OneHandler' BY <1>1, <1>2 DEF OneHandler, Running
<1>4. HandlersKnow' BY <1>1, <1>2 DEF HandlersKnow, In, Handles
<1>5. wire \in Seq(Event) BY DEF IInv, Types
<1>6. \/ wire' = wire
      \/ /\ Len(wire') = Len(wire) + 1 /\ wire'[Len(wire) + 1] = e
         /\ \A k \in 1..Len(wire) : wire'[k] = wire[k]
  BY <1>5 DEF Handles
<1>7. Len(wire) \in Nat BY <1>5
<1>8. RoomHolds'
  <2>1. ASSUME NEW k \in 1..Len(wire)', Heeded(k)' PROVE Room'
    <3>1. CASE k \in 1..Len(wire)
      <4>1. \A j \in 1..k : wire'[j] = wire[j] BY <1>6, <1>7, <3>1
      <4>2. k \in 1..k BY <1>7, <3>1
      <4>3. Heeded(k)
        BY <1>7, <2>1, <3>1, <4>1, <4>2 DEF Heeded, Handles, Allowed
      <4> QED BY <3>1, <4>3 DEF RInv, RoomHolds, Handles
    <3>2. CASE k \notin 1..Len(wire)
      <4>1. wire'[k] = e BY <1>6, <1>7, <3>2
      <4> QED BY <2>1, <4>1 DEF Heeded, Handles, Allowed
    <3> QED BY <3>1, <3>2
  <2>2. phase' = "send" \/ posted' # 0 => Room'
    BY DEF RInv, RoomHolds, Handles
  <2> QED BY <2>1, <2>2 DEF RoomHolds
<1>9. NoChunkRefused'
  <2>1. ASSUME NEW k \in 1..Len(wire)' PROVE wire'[k] # Refused
    <3>1. CASE k \in 1..Len(wire)
      BY <1>6, <3>1 DEF RInv, NoChunkRefused
    <3>2. CASE k \notin 1..Len(wire) BY <1>6, <1>7, <3>2 DEF Handles
    <3> QED BY <3>1, <3>2
  <2> QED BY <2>1 DEF NoChunkRefused, Refused
<1> QED BY <1>1, <1>2, <1>3, <1>4, <1>8, <1>9 DEF RInv

-----------------------------------------------------------------------------
(* Why the page does not wait for room that is there *)

\* A handler that will publish that a new chunk is allowed, if one is.
Telling(l) == l.step \in {"tellRemoved", "reread", "publish"} /\ ~l.old

\* After the k-th event under way the page will be told of room, unless there is none.
WillHear(k) ==
    \/ ~Room
    \/ \E j \in (k + 1)..Len(wire) : wire[j] = Allowed(TRUE)
    \/ \E a \in Actor : Telling(at[a])

\* Where the handlers are, if no receiver leaves.
HandlersTell ==
    \A a \in Actor : /\ at[a].step \notin {"sweep", "tellLeft"}
                     /\ In(a, "confirm") => at[a].old = Room
                     /\ In(a, "tellNew") => buf.chunks # {}

\* The page's count, with what it will be told, is the number of chunks.
CountIsExact ==
    Cardinality(buf.chunks) + Untold + Gone(wire)
        = bufferUsed + One(In(Sender, "tellNew")) + News(wire)

\* The number of chunks there were when the k-th event was sent.
After(k) == Sum((k + 1)..Len(wire), [j \in 1..Len(wire) |-> Taken(wire[j])])
Count(k) == Cardinality(buf.chunks) + Untold + After(k)

\* What the page makes of a chunk that is announced: if that one filled the buffer,
\* room is told of later.
NewsCounted ==
    \A k \in 1..Len(wire) : wire[k] = New =>
        Count(k) # 0 /\ (Count(k) < MaxQueue \/ WillHear(k))

TInv == HandlersTell /\ CountIsExact /\ NewsCounted /\ (phase = "space" => WillHear(0))

\* What else a step of a handler does that adds no chunk, if no receiver leaves.
Tells(a, l, e, n) ==
    /\ Cardinality(buf'.chunks) + Keeps(l) + n = Cardinality(buf.chunks) + Keeps(at[a])
    /\ at[a].step # "tellNew" /\ Announced(e) = 0
    /\ l.step \notin {"tellNew", "sweep", "tellLeft"}
    /\ l.step = "confirm" => l.old = Room'
    /\ Room' => Room \/ Telling(l)
    /\ Room' /\ Telling(at[a]) => Telling(l) \/ wire' = Append(wire, Allowed(TRUE))

-----------------------------------------------------------------------------
(* The handlers *)

\* An event for the cases in which none is sent.
LEMMA NoEvent ==
    /\ Allowed(FALSE) \in Event /\ Announced(Allowed(FALSE)) = 0
    /\ Allowed(FALSE) # Refused /\ Allowed(FALSE) # Allowed(TRUE)
BY DEF Allowed, Refused, Event, Announced, One

LEMMA BeginAddChunkHandles ==
    ASSUME Serial, IInv, RInv, BeginAddChunk
    PROVE  \E l \in Locals, e \in Event, n \in Nat :
               Handles(Sender, l, e, n) /\ Tells(Sender, l, e, n)
<1> DEFINE l == [AtRest EXCEPT !.step = "insert", !.old = NewChunkIsAllowed(buf)]
<1>1. /\ posted > 0 /\ posted' = posted - 1 /\ at[Sender].step = "idle"
      /\ Cardinality(Running) < Workers /\ at' = [at EXCEPT ![Sender] = l]
      /\ UNCHANGED <<buf, wire, phase, sent, bufferUsed>>
  BY DEF BeginAddChunk, Begin, page
<1>2. l \in Locals /\ l.step = "insert" /\ Keeps(l) = 0
  <2>1. NewChunkIsAllowed(buf) \in BOOLEAN BY DEF NewChunkIsAllowed
  <2> QED BY <2>1, AtRestTyped DEF Locals, Steps, Keeps
<1> HIDE DEF l
<1>3. Running = {} BY <1>1, BeginsAlone
<1>4. Room /\ Room' /\ posted # 0
  BY <1>1, Numbers DEF RInv, RoomHolds, Room
<1>5. Handles(Sender, l, Allowed(FALSE), 0)
  BY <1>1, <1>2, <1>3, <1>4, NoEvent DEF Handles
<1>6. Keeps(at[Sender]) = 0 BY <1>1 DEF Keeps
<1>7. Cardinality(buf'.chunks) + Keeps(l) + 0
          = Cardinality(buf.chunks) + Keeps(at[Sender])
  BY <1>1, <1>2, <1>6, Numbers
<1>8. Tells(Sender, l, Allowed(FALSE), 0)
  BY <1>1, <1>2, <1>4, <1>7, NoEvent DEF Tells, Telling
<1> QED BY <1>2, <1>5, <1>8, NoEvent

LEMMA DropFreezeHandles ==
    ASSUME Serial, IInv, RInv, DropFreeze
    PROVE  \E l \in Locals, e \in Event, n \in Nat :
               Handles(FreezeTimer, l, e, n) /\ Tells(FreezeTimer, l, e, n)
<1> DEFINE a == FreezeTimer
           l == [AtRest EXCEPT !.step = "tellRemoved", !.gone = Lost(buf, buf')]
<1>1. /\ at[a].step = "idle" /\ at' = [at EXCEPT ![a] = l]
      /\ Cardinality(Running) < Workers /\ buf' = DropFreezing(buf)
      /\ UNCHANGED <<posted, wire, phase, sent, bufferUsed>>
  BY DEF DropFreeze, Begin, link, page
<1>2. buf \in BufferType(Receiver) BY DEF IInv, Types
<1>3. buf'.chunks \subseteq buf.chunks BY <1>1, <1>2, UnfreezeEffect
<1>4. /\ Lost(buf, buf') \in 0..MaxQueue
      /\ Cardinality(buf.chunks) \in Nat /\ Cardinality(buf'.chunks) \in Nat
      /\ Cardinality(buf'.chunks) + Lost(buf, buf') = Cardinality(buf.chunks)
  BY <1>2, <1>3, LostCount DEF IInv, BufferHolds
<1>5. l \in Locals /\ l.step = "tellRemoved" /\ Keeps(l) = Lost(buf, buf') /\ ~l.old
  BY <1>4, AtRestTyped DEF Locals, Steps, Keeps, AtRest
<1> HIDE DEF l
<1>6. Running = {} BY <1>1, BeginsAlone
<1>7. Room => Room' BY <1>3, ShrunkRoom
<1>8. Handles(a, l, Allowed(FALSE), 0)
  BY <1>1, <1>5, <1>6, <1>7, NoEvent DEF Handles
<1>9. Keeps(at[a]) = 0 BY <1>1 DEF Keeps
<1>10. Cardinality(buf'.chunks) + Keeps(l) + 0 = Cardinality(buf.chunks) + Keeps(at[a])
  BY <1>4, <1>5, <1>9, LimitsAssumption
<1>11. Tells(a, l, Allowed(FALSE), 0)
  BY <1>1, <1>5, <1>10, NoEvent DEF Tells, Telling
<1>12. l \in Locals BY <1>5
<1>13. 0 \in Nat OBVIOUS
<1> QED BY <1>8, <1>11, <1>12, <1>13, NoEvent, Zenon

LEMMA BeginConfirmHandles ==
    ASSUME Serial, IInv, RInv, NEW c \in Receiver, NEW i \in Index, BeginConfirm(c, i)
    PROVE  \E l \in Locals, e \in Event, n \in Nat :
               Handles(c, l, e, n) /\ Tells(c, l, e, n)
<1> DEFINE l == [AtRest EXCEPT !.step = "confirm", !.chunk = i,
                               !.old = NewChunkIsAllowed(buf)]
<1>1. /\ at[c].step = "idle" /\ at' = [at EXCEPT ![c] = l]
      /\ Cardinality(Running) < Workers
      /\ UNCHANGED <<buf, posted, wire, phase, sent, bufferUsed>>
  BY DEF BeginConfirm, Begin, link, page
<1>2. l \in Locals /\ l.step = "confirm" /\ Keeps(l) = 0 /\ l.old = Room
  <2>1. NewChunkIsAllowed(buf) \in BOOLEAN BY DEF NewChunkIsAllowed
  <2>2. i \in 0..MaxUploads BY LimitsAssumption DEF Index
  <2> QED BY <2>1, <2>2, AtRestTyped DEF Locals, Steps, Keeps, Room
<1> HIDE DEF l
<1>3. Running = {} BY <1>1, BeginsAlone
<1>4. Room' = Room BY <1>1 DEF Room
<1>5. Handles(c, l, Allowed(FALSE), 0)
  BY <1>1, <1>2, <1>3, <1>4, NoEvent DEF Handles
<1>6. Keeps(at[c]) = 0 BY <1>1 DEF Keeps
<1>7. Cardinality(buf'.chunks) + Keeps(l) + 0 = Cardinality(buf.chunks) + Keeps(at[c])
  BY <1>1, <1>2, <1>6, Numbers
<1>8. Tells(c, l, Allowed(FALSE), 0)
  BY <1>1, <1>2, <1>4, <1>7, NoEvent DEF Tells, Telling
<1> QED BY <1>2, <1>5, <1>8, NoEvent

LEMMA ConfirmHandles ==
    ASSUME IInv, RInv, NEW c \in Receiver, Confirm(c)
    PROVE  \E l \in Locals, e \in Event, n \in Nat :
               Handles(c, l, e, n) /\ (HandlersTell => Tells(c, l, e, n))
<1> DEFINE i == at[c].chunk
           l == [at[c] EXCEPT !.step = "tellRemoved", !.gone = Lost(buf, buf')]
<1>1. /\ at[c].step = "confirm" /\ buf' = SetChunkAsReceived(buf, i)
      /\ UNCHANGED <<posted, wire, phase, sent, bufferUsed>>
      /\ IF i \in buf.chunks
         THEN at' = [at EXCEPT ![c].step = "tellRemoved", ![c].gone = Lost(buf, buf')]
         ELSE at' = [at EXCEPT ![c] = AtRest]
  BY DEF Confirm, Finish, In, link, page
<1>2. at \in [Actor -> Locals] /\ c \in Actor /\ buf \in BufferType(Receiver)
  BY DEF IInv, Types, Actor
<1>3. buf'.chunks \subseteq buf.chunks
  BY <1>1, <1>2, ConfirmEffect, UploadFlowAssumption
<1>4. /\ Lost(buf, buf') \in 0..MaxQueue
      /\ Cardinality(buf.chunks) \in Nat /\ Cardinality(buf'.chunks) \in Nat
      /\ Cardinality(buf'.chunks) + Lost(buf, buf') = Cardinality(buf.chunks)
  BY <1>2, <1>3, LostCount DEF IInv, BufferHolds
<1>5. Keeps(at[c]) = 0 /\ c \in Running BY <1>1, <1>2 DEF Keeps, Running
<1>6. Room => Room' BY <1>3, ShrunkRoom
<1>7. 0 \in Nat OBVIOUS
<1>8. CASE i \in buf.chunks
  <2>1. /\ l \in Locals /\ l.step = "tellRemoved" /\ Keeps(l) = Lost(buf, buf')
        /\ l.old = at[c].old
    BY <1>2, <1>4 DEF Locals, Steps, Keeps
  <2>2. at' = [at EXCEPT ![c] = l] BY <1>1, <1>2, <1>8
  <2> HIDE DEF l
  <2>3. Handles(c, l, Allowed(FALSE), 0)
    BY <1>1, <1>5, <1>6, <2>1, <2>2, NoEvent DEF Handles
  <2>4. Cardinality(buf'.chunks) + Keeps(l) + 0 = Cardinality(buf.chunks) + Keeps(at[c])
    BY <1>4, <1>5, <2>1, LimitsAssumption
  <2>5. HandlersTell => l.old = Room BY <1>1, <1>2, <2>1 DEF HandlersTell, In
  <2>6. HandlersTell => Tells(c, l, Allowed(FALSE), 0)
    BY <1>1, <2>1, <2>4, <2>5, NoEvent DEF Tells, Telling
  <2>7. l \in Locals BY <2>1
  <2> QED BY <1>7, <2>3, <2>6, <2>7, NoEvent, Zenon
<1>9. CASE i \notin buf.chunks
  <2>1. buf' = buf /\ at' = [at EXCEPT ![c] = AtRest]
    BY <1>1, <1>9 DEF SetChunkAsReceived
  <2>2. AtRest \in Locals /\ Keeps(AtRest) = 0 /\ AtRest.step = "idle"
    BY AtRestTyped DEF AtRest
  <2>3. Handles(c, AtRest, Allowed(FALSE), 0)
    BY <1>1, <1>5, <1>6, <2>1, <2>2, NoEvent DEF Handles
  <2>4. Cardinality(buf'.chunks) + Keeps(AtRest) + 0
            = Cardinality(buf.chunks) + Keeps(at[c])
    BY <1>4, <1>5, <2>1, <2>2
  <2>5. Room' = Room BY <2>1 DEF Room
  <2>6. Tells(c, AtRest, Allowed(FALSE), 0)
    BY <1>1, <2>2, <2>4, <2>5, NoEvent DEF Tells, Telling
  <2>7. AtRest \in Locals BY <2>2
  <2> QED BY <1>7, <2>3, <2>6, <2>7, NoEvent, Zenon
<1> QED BY <1>8, <1>9

LEMMA BeginLeaveHandles ==
    ASSUME Serial, IInv, RInv, NEW c \in Receiver, BeginLeave(c)
    PROVE  \E l \in Locals, e \in Event, n \in Nat : Handles(c, l, e, n)
<1> DEFINE l == [AtRest EXCEPT !.step = "sweep"]
<1>1. /\ at' = [at EXCEPT ![c] = l] /\ Cardinality(Running) < Workers
      /\ buf' = RemoveConsumer(buf, c)
      /\ UNCHANGED <<posted, wire, phase, sent, bufferUsed>>
  BY DEF BeginLeave, Begin, link, page
<1>2. l \in Locals /\ l.step = "sweep" BY AtRestTyped DEF Locals, Steps
<1> HIDE DEF l
<1>3. Running = {} BY <1>1, BeginsAlone
<1>4. buf'.chunks = buf.chunks
  BY <1>1 DEF RemoveConsumer, BufferType, IInv, Types
<1>5. Room => Room' BY <1>4, ShrunkRoom
<1>6. Handles(c, l, Allowed(FALSE), 0)
  BY <1>1, <1>2, <1>3, <1>5, NoEvent DEF Handles
<1>7. l \in Locals /\ 0 \in Nat BY <1>2
<1> QED BY <1>6, <1>7, NoEvent, Zenon

LEMMA SweepHandles ==
    ASSUME IInv, RInv, NEW c \in Receiver, Sweep(c)
    PROVE  \E l \in Locals, e \in Event, n \in Nat : Handles(c, l, e, n)
<1> DEFINE l == [at[c] EXCEPT !.step = "tellLeft", !.gone = Lost(buf, buf')]
<1>1. /\ at[c].step = "sweep" /\ buf' = Sanitize(buf)
      /\ UNCHANGED <<posted, wire, phase, sent, bufferUsed>>
  BY DEF Sweep, In, link, page
<1>2. at \in [Actor -> Locals] /\ c \in Actor /\ buf \in BufferType(Receiver)
  BY DEF IInv, Types, Actor
<1>3. buf'.chunks \subseteq buf.chunks
  BY <1>1, <1>2, SanitizeEffect, UploadFlowAssumption
<1>4. Lost(buf, buf') \in 0..MaxQueue
  BY <1>2, <1>3, LostCount DEF IInv, BufferHolds
<1>5. l \in Locals /\ l.step = "tellLeft" BY <1>2, <1>4 DEF Locals, Steps
<1>6. at' = [at EXCEPT ![c] = l] BY <1>2 DEF Sweep
<1> HIDE DEF l
<1>7. Room => Room' BY <1>3, ShrunkRoom
<1>8. c \in Running BY <1>1, <1>2 DEF Running
<1>9. Handles(c, l, Allowed(FALSE), 0)
  BY <1>1, <1>5, <1>6, <1>7, <1>8, NoEvent DEF Handles
<1>10. l \in Locals /\ 0 \in Nat BY <1>5
<1> QED BY <1>9, <1>10, NoEvent, Zenon

\* Telling of the chunks that were removed, if there are any.
LEMMA RemovedEvent ==
    ASSUME Serial, IInv, NEW a \in Actor, at[a].step \in {"tellRemoved", "tellLeft"},
           IF at[a].gone # 0 THEN Tell(Removed(at[a].gone)) ELSE UNCHANGED link
    PROVE  \E e \in Event, n \in Nat :
               /\ \/ wire' = wire /\ n = 0
                  \/ wire' = Append(wire, e) /\ n = Taken(e)
               /\ n = Keeps(at[a]) /\ posted' = posted
               /\ e # Refused /\ e # Allowed(TRUE) /\ Announced(e) = 0
<1>1. at[a].gone \in 0..MaxQueue /\ Keeps(at[a]) = at[a].gone /\ at[a].gone \in Nat
  BY LimitsAssumption DEF IInv, Types, Locals, Keeps
<1>2. online BY Together
<1>3. CASE at[a].gone = 0
  BY <1>1, <1>3, NoEvent DEF link
<1>4. CASE at[a].gone # 0
  <2> DEFINE e == Removed(at[a].gone)
  <2>1. at[a].gone \in 1..MaxQueue BY <1>1, <1>4
  <2>2. /\ e \in Event /\ Taken(e) = at[a].gone /\ Announced(e) = 0
        /\ e # Refused /\ e # Allowed(TRUE)
    BY <2>1 DEF Event, Removed, Refused, Allowed, Announced, Taken, One
  <2>3. wire' = Append(wire, e) /\ posted' = posted BY <1>2, <1>4 DEF Tell
  <2> HIDE DEF e
  <2> QED BY <1>1, <2>2, <2>3
<1> QED BY <1>3, <1>4

LEMMA TellLeftHandles ==
    ASSUME Serial, IInv, RInv, NEW c \in Receiver, TellLeft(c)
    PROVE  \E l \in Locals, e \in Event, n \in Nat : Handles(c, l, e, n)
<1>1. /\ at[c].step = "tellLeft" /\ at' = [at EXCEPT ![c] = AtRest]
      /\ IF at[c].gone # 0 THEN Tell(Removed(at[c].gone)) ELSE UNCHANGED link
      /\ UNCHANGED <<buf, phase, sent, bufferUsed>>
  BY DEF TellLeft, In, Finish, page
<1>2. c \in Actor /\ c \in Running BY <1>1 DEF Actor, Running
<1>3. PICK e \in Event, n \in Nat :
        /\ \/ wire' = wire /\ n = 0
           \/ wire' = Append(wire, e) /\ n = Taken(e)
        /\ posted' = posted /\ e # Refused /\ e # Allowed(TRUE)
  BY <1>1, <1>2, RemovedEvent
<1>4. Room' = Room BY <1>1 DEF Room
<1>5. AtRest \in Locals /\ AtRest.step = "idle" BY AtRestTyped DEF AtRest
<1>6. Handles(c, AtRest, e, n) BY <1>1, <1>2, <1>3, <1>4, <1>5 DEF Handles
<1> QED BY <1>5, <1>6

LEMMA TellRemovedHandles ==
    ASSUME Serial, IInv, RInv, NEW a \in Actor, TellRemoved(a)
    PROVE  \E l \in Locals, e \in Event, n \in Nat :
               Handles(a, l, e, n) /\ Tells(a, l, e, n)
<1> DEFINE l == [at[a] EXCEPT !.step = "reread"]
<1>1. /\ at[a].step = "tellRemoved"
      /\ IF at[a].gone # 0 THEN Tell(Removed(at[a].gone)) ELSE UNCHANGED link
      /\ UNCHANGED <<buf, phase, sent, bufferUsed>>
  BY DEF TellRemoved, In, page
<1>2. at \in [Actor -> Locals] BY DEF IInv, Types
<1>3. PICK e \in Event, n \in Nat :
        /\ \/ wire' = wire /\ n = 0
           \/ wire' = Append(wire, e) /\ n = Taken(e)
        /\ n = Keeps(at[a]) /\ posted' = posted
        /\ e # Refused /\ e # Allowed(TRUE) /\ Announced(e) = 0
  BY <1>1, RemovedEvent
<1>4. l \in Locals /\ l.step = "reread" /\ Keeps(l) = 0 /\ l.old = at[a].old
  BY <1>2 DEF Locals, Steps, Keeps
<1>5. at' = [at EXCEPT ![a] = l] BY <1>2 DEF TellRemoved, Go
<1> HIDE DEF l
<1>6. Room' = Room /\ a \in Running BY <1>1 DEF Room, Running
<1>7. Handles(a, l, e, n) BY <1>1, <1>3, <1>4, <1>5, <1>6 DEF Handles
<1>8. Cardinality(buf'.chunks) + Keeps(l) + n = Cardinality(buf.chunks) + Keeps(at[a])
  BY <1>1, <1>3, <1>4, Numbers
<1>9. Tells(a, l, e, n) BY <1>1, <1>3, <1>4, <1>6, <1>8 DEF Tells, Telling
<1> QED BY <1>4, <1>7, <1>9

LEMMA RereadHandles ==
    ASSUME IInv, RInv, NEW a \in Actor, Reread(a)
    PROVE  \E l \in Locals, e \in Event, n \in Nat :
               Handles(a, l, e, n) /\ Tells(a, l, e, n)
<1> DEFINE l == [at[a] EXCEPT !.step = "publish", !.new = NewChunkIsAllowed(buf)]
<1>1. /\ at[a].step = "reread"
      /\ UNCHANGED <<buf, posted, wire, phase, sent, bufferUsed>>
  BY DEF Reread, In, link, page
<1>2. at \in [Actor -> Locals] BY DEF IInv, Types
<1>3. /\ l \in Locals /\ l.step = "publish" /\ Keeps(l) = 0 /\ l.old = at[a].old
      /\ l.new = Room
  <2>1. NewChunkIsAllowed(buf) \in BOOLEAN BY DEF NewChunkIsAllowed
  <2> QED BY <1>2, <2>1 DEF Locals, Steps, Keeps, Room
<1>4. at' = [at EXCEPT ![a] = l] BY <1>2 DEF Reread
<1> HIDE DEF l
<1>5. Room' = Room /\ a \in Running BY <1>1 DEF Room, Running
<1>6. Handles(a, l, Allowed(FALSE), 0)
  BY <1>1, <1>3, <1>4, <1>5, NoEvent DEF Handles
<1>7. Keeps(at[a]) = 0 BY <1>1 DEF Keeps
<1>8. Cardinality(buf'.chunks) + Keeps(l) + 0 = Cardinality(buf.chunks) + Keeps(at[a])
  BY <1>1, <1>3, <1>7, Numbers
<1>9. Tells(a, l, Allowed(FALSE), 0)
  BY <1>1, <1>3, <1>5, <1>8, NoEvent DEF Tells, Telling
<1>10. l \in Locals /\ 0 \in Nat BY <1>3
<1> QED BY <1>6, <1>9, <1>10, NoEvent, Zenon

LEMMA PublishHandles ==
    ASSUME Serial, IInv, RInv, NEW a \in Actor, Publish(a)
    PROVE  \E l \in Locals, e \in Event, n \in Nat :
               Handles(a, l, e, n) /\ Tells(a, l, e, n)
<1> DEFINE e == Allowed(at[a].new)
<1>1. /\ at[a].step = "publish" /\ at' = [at EXCEPT ![a] = AtRest]
      /\ IF a = FreezeTimer \/ at[a].new # at[a].old THEN Tell(e) ELSE UNCHANGED link
      /\ UNCHANGED <<buf, phase, sent, bufferUsed>>
  BY DEF Publish, In, Finish, page
<1>2. at[a].new \in BOOLEAN /\ at[a].old \in BOOLEAN /\ at[a].new = Room
  BY <1>1 DEF IInv, Types, Locals, RInv, HandlersKnow, In
<1>3. e \in Event /\ Taken(e) = 0 /\ Announced(e) = 0 /\ e # Refused
  BY <1>2 DEF Event, Allowed, Refused, Taken, Announced, One
<1>4. e = Allowed(TRUE) => at[a].new = TRUE BY <1>2 DEF Allowed
<1>5. at[a].new = TRUE => e = Allowed(TRUE) OBVIOUS
<1>6. /\ \/ wire' = wire /\ at[a].new = at[a].old
         \/ wire' = Append(wire, e)
      /\ posted' = posted
  BY <1>1, Together DEF Tell, link
<1> HIDE DEF e
<1>7. Room' = Room /\ a \in Running BY <1>1 DEF Room, Running
<1>8. AtRest \in Locals /\ AtRest.step = "idle" /\ Keeps(AtRest) = 0
  BY AtRestTyped DEF AtRest
<1>9. Handles(a, AtRest, e, 0)
  BY <1>1, <1>2, <1>3, <1>4, <1>6, <1>7, <1>8 DEF Handles
<1>10. Keeps(at[a]) = 0 BY <1>1 DEF Keeps
<1>11. Cardinality(buf'.chunks) + Keeps(AtRest) + 0
           = Cardinality(buf.chunks) + Keeps(at[a])
  BY <1>1, <1>8, <1>10, Numbers
<1>12. Room' /\ Telling(at[a]) => wire' = Append(wire, Allowed(TRUE))
  BY <1>2, <1>5, <1>6, <1>7 DEF Telling
<1>13. Tells(a, AtRest, e, 0)
  BY <1>1, <1>3, <1>7, <1>8, <1>11, <1>12 DEF Tells
<1>14. AtRest \in Locals /\ e \in Event /\ 0 \in Nat BY <1>3, <1>8
<1> QED BY <1>9, <1>13, <1>14, Zenon

-----------------------------------------------------------------------------
(* No chunk is refused *)

\* A chunk is inserted: it finds room, and takes it.
LEMMA InsertEffect ==
    ASSUME Serial, IInv, RInv, Insert
    PROVE  /\ at[Sender].step = "insert" /\ phase = "accept" /\ posted = 0
           /\ \A k \in 1..Len(wire) : wire[k] # New
           /\ buf' = AddChunk(buf)
           /\ UNCHANGED <<posted, wire, phase, sent, bufferUsed>>
           /\ buf'.chunks = buf.chunks \cup {buf.top + 1}
           /\ buf.top + 1 \notin buf.chunks
           /\ \E l \in Locals : /\ l.step = "tellNew" /\ Keeps(l) = 0
                                /\ at' = [at EXCEPT ![Sender] = l]
<1>1. at[Sender].step = "insert" /\ In(Sender, "insert") /\ Sender \in Actor
  BY DEF Insert, In, Actor
<1>2. Room BY <1>1 DEF RInv, HandlersKnow
<1>3. phase = "accept" /\ posted = 0 /\ \A k \in 1..Len(wire) : wire[k] # New
  BY <1>1, NothingUnderWay
<1>4. buf' = AddChunk(buf) /\ UNCHANGED <<posted, wire, phase, sent, bufferUsed>>
  BY <1>2 DEF Insert, Room, link, page
<1>5. buf \in BufferType(Receiver) /\ at \in [Actor -> Locals] BY DEF IInv, Types
<1>6. buf'.top = buf.top + 1 /\ buf'.chunks = buf.chunks \cup {buf.top + 1}
  BY <1>2, <1>4, <1>5 DEF AddChunk, BufferType, Room
<1>7. buf.top + 1 \notin buf.chunks BY Numbers DEF IInv, BufferHolds
<1> DEFINE l == [at[Sender] EXCEPT !.step = "tellNew", !.chunk = buf'.top]
<1>8. at' = [at EXCEPT ![Sender] = l] BY <1>2, <1>5 DEF Insert, Room
<1>9. buf'.top \in 0..MaxUploads
  <2>1. IInv' BY InsertKeeps
  <2> QED BY <2>1 DEF IInv, Types, BufferType
<1>10. l \in Locals /\ l.step = "tellNew" /\ Keeps(l) = 0
  BY <1>1, <1>5, <1>9 DEF Locals, Steps, Keeps
<1> QED BY <1>1, <1>3, <1>4, <1>6, <1>7, <1>8, <1>10

LEMMA InsertRoom ==
    ASSUME Serial, IInv, RInv, Insert
    PROVE  RInv'
<1>1. /\ at[Sender].step = "insert" /\ phase = "accept" /\ posted = 0
      /\ \A k \in 1..Len(wire) : wire[k] # New
      /\ UNCHANGED <<posted, wire, phase, sent, bufferUsed>>
  BY InsertEffect
<1>2. PICK l \in Locals : l.step = "tellNew" /\ at' = [at EXCEPT ![Sender] = l]
  BY InsertEffect
<1>3. Sender \in Actor /\ Sender \in Running BY <1>1 DEF Actor, Running
<1>4. at'[Sender] = l /\ \A c \in Actor \ {Sender} : at'[c] = at[c]
  BY <1>2, <1>3 DEF IInv, Types
<1>5. \A c \in Actor \ {Sender} : at[c].step = "idle"
  BY <1>3 DEF RInv, OneHandler, Running
<1>6. OneHandler' BY <1>4, <1>5 DEF OneHandler, Running
<1>7. HandlersKnow' BY <1>2, <1>4, <1>5 DEF HandlersKnow, In
<1>8. Len(wire) \in Nat BY DEF IInv, Types
<1>9. RoomHolds'
  <2>1. \A k \in 1..Len(wire) : \A j \in 1..(k - 1) : j \in 1..Len(wire) BY <1>8
  <2>2. \A k \in 1..Len(wire) : ~Heeded(k)' BY <1>1, <2>1 DEF Heeded
  <2> QED BY <1>1, <2>2 DEF RoomHolds
<1>10. NoChunkRefused' BY <1>1 DEF RInv, NoChunkRefused
<1> QED BY <1>6, <1>7, <1>9, <1>10 DEF RInv

LEMMA TellNewHandles ==
    ASSUME Serial, IInv, RInv, TellNew
    PROVE  \E l \in Locals :
               /\ Handles(Sender, l, New, 0) /\ l.step = "reread" /\ Keeps(l) = 0
               /\ at[Sender].step = "tellNew" /\ UNCHANGED buf
               /\ wire' = Append(wire, New)
<1> DEFINE l == [at[Sender] EXCEPT !.step = "reread"]
<1>1. /\ at[Sender].step = "tellNew" /\ Tell(New)
      /\ UNCHANGED <<buf, phase, sent, bufferUsed>>
  BY DEF TellNew, In, page
<1>2. at \in [Actor -> Locals] /\ Sender \in Actor BY DEF IInv, Types, Actor
<1>3. l \in Locals /\ l.step = "reread" /\ Keeps(l) = 0
  BY <1>1, <1>2 DEF Locals, Steps, Keeps
<1>4. at' = [at EXCEPT ![Sender] = l] BY <1>2 DEF TellNew, Go
<1> HIDE DEF l
<1>5. wire' = Append(wire, New) /\ posted' = posted BY <1>1, Together DEF Tell
<1>6. Room' = Room /\ Sender \in Running BY <1>1, <1>2 DEF Room, Running
<1>7. New # Refused /\ New # Allowed(TRUE) /\ Taken(New) = 0
  BY DEF New, Refused, Allowed, Taken
<1>8. Handles(Sender, l, New, 0) BY <1>1, <1>3, <1>4, <1>5, <1>6, <1>7 DEF Handles
<1> QED BY <1>1, <1>3, <1>5, <1>8

\* The events by their kind.
LEMMA Kinds ==
    ASSUME NEW e \in Event
    PROVE  /\ e.kind = "new_chunk" <=> e = New
           /\ e.kind = "new_chunk_allowed" /\ e.status <=> e = Allowed(TRUE)
BY DEF Event, New, Allowed

\* Taking the first event off the wire.
LEMMA Shift ==
    ASSUME IInv, wire # <<>>, wire' = Tail(wire)
    PROVE  /\ Len(wire) = Len(wire') + 1 /\ Len(wire') \in Nat
           /\ Head(wire) = wire[1] /\ Head(wire) \in Event
           /\ \A k \in 1..Len(wire') : wire'[k] = wire[k + 1] /\ k + 1 \in 1..Len(wire)
           /\ 1 \in 1..Len(wire)
<1>1. wire \in Seq(Event) BY DEF IInv, Types
<1>2. /\ Len(wire') \in Nat /\ Len(wire) = Len(wire') + 1 /\ wire[1] = Head(wire)
      /\ Head(wire) \in Event /\ \A k \in 1..Len(wire') : wire'[k] = wire[k + 1]
  BY <1>1, HeadTailProperties
<1> QED BY <1>2

LEMMA ReceiveRoom ==
    ASSUME Serial, IInv, RInv, Receive
    PROVE  RInv'
<1> DEFINE e == Head(wire)
<1>1. /\ wire # <<>> /\ wire' = Tail(wire)
      /\ UNCHANGED <<buf, at, posted>>
      /\ \/ e.kind = "new_chunk" /\ ChunkAccepted(bufferUsed + 1)
         \/ e.kind = "chunk_removed" /\ ChunksGone(e.n)
         \/ /\ e.kind = "new_chunk_allowed"
            /\ phase' = IF phase = "space" /\ e.status THEN "send" ELSE phase
         \/ e.kind = "start_init"
         \/ e.kind = "add_chunk_failure" /\ UNCHANGED page
  BY DEF Receive, server
<1>2. /\ Len(wire) = Len(wire') + 1 /\ Len(wire') \in Nat
      /\ e = wire[1] /\ e \in Event /\ 1 \in 1..Len(wire)
      /\ \A k \in 1..Len(wire') : wire'[k] = wire[k + 1] /\ k + 1 \in 1..Len(wire)
  BY <1>1, Shift
<1>3. (e.kind = "new_chunk" <=> e = New)
      /\ (e.kind = "new_chunk_allowed" /\ e.status <=> e = Allowed(TRUE))
  BY <1>2, Kinds
<1> HIDE DEF e
<1>4. e.kind # "start_init" BY <1>2, Together DEF Inits
<1>5. Room' = Room BY <1>1 DEF Room
<1>6. phase' = "space" => phase = "space" \/ e = New
  BY <1>1, <1>3, <1>4 DEF ChunksGone, page
<1>7. phase' = "send" => Room
  <2>1. CASE phase = "send" BY <2>1 DEF RInv, RoomHolds
  <2>2. CASE phase # "send" /\ phase' = "send" /\ e = New
    <3>1. phase = "accept" /\ ~In(Sender, "tellNew")
      BY <1>2, <2>2, NothingUnderWay
    <3>2. bufferUsed + 1 < MaxQueue
      BY <1>1, <1>3, <2>2, <3>1, Numbers, LimitsAssumption
      DEF ChunkAccepted, New, ChunksGone
    <3>3. One(In(Sender, "tellNew")) = 0 /\ One(phase = "accept") = 1
          /\ One(In(Sender, "insert")) \in {0, 1}
      BY <3>1 DEF One
    <3>4. News(wire) <= 1 BY <3>3, Together, Numbers
    <3>5. Cardinality(buf.chunks) + Untold + Gone(wire) <= bufferUsed + 0 + News(wire)
      BY <3>3, Together DEF IInv, InStep
    <3>6. Cardinality(buf.chunks) <= bufferUsed + 1 BY <3>4, <3>5, Numbers
    <3> QED BY <3>2, <3>6, Numbers, LimitsAssumption DEF Room, NewChunkIsAllowed
  <2>3. CASE phase # "send" /\ phase' = "send" /\ e # New
    <3>1. phase = "space" /\ e = Allowed(TRUE)
      BY <1>1, <1>3, <1>4, <2>3 DEF ChunksGone, page
    <3>2. Heeded(1) BY <1>2, <3>1 DEF Heeded
    <3> QED BY <1>2, <3>2 DEF RInv, RoomHolds
  <2> QED BY <2>1, <2>2, <2>3
<1>8. ASSUME NEW k \in 1..Len(wire'), Heeded(k)' PROVE Room
  <2>1. wire[k + 1] = Allowed(TRUE) /\ k + 1 \in 1..Len(wire)
    BY <1>2, <1>8 DEF Heeded, Allowed
  <2>2. phase = "space" \/ \E j \in 1..k : wire[j] = New
    <3>1. CASE phase' = "space"
      <4>1. 1 \in 1..k BY <1>2
      <4> QED BY <1>2, <1>6, <3>1, <4>1
    <3>2. CASE phase' # "space"
      <4>1. PICK j \in 1..(k - 1) : wire'[j] = New BY <1>8, <3>2 DEF Heeded, New
      <4>2. j \in 1..Len(wire') /\ j + 1 \in 1..k BY <1>2
      <4> QED BY <1>2, <4>1, <4>2
    <3> QED BY <3>1, <3>2
  <2>3. (k + 1) - 1 = k BY <1>2
  <2>4. Heeded(k + 1) BY <2>1, <2>2, <2>3 DEF Heeded
  <2> QED BY <2>1, <2>4 DEF RInv, RoomHolds
<1>9. RoomHolds' BY <1>1, <1>5, <1>7, <1>8 DEF RInv, RoomHolds
<1>10. NoChunkRefused' BY <1>2 DEF RInv, NoChunkRefused, Refused
<1>11. OneHandler' /\ HandlersKnow'
  BY <1>1, <1>5 DEF RInv, OneHandler, HandlersKnow, Running, In
<1> QED BY <1>9, <1>10, <1>11 DEF RInv

\* A step that moves no handler and sends no event.
LEMMA OtherRoom ==
    ASSUME RInv, UNCHANGED <<at, wire>>, Room' = Room,
           phase' = "space" => phase = "space",
           phase' = "send" \/ posted' # 0 => phase = "send" \/ posted # 0
    PROVE  RInv'
<1>1. OneHandler' /\ HandlersKnow'
  BY DEF RInv, OneHandler, HandlersKnow, Running, In
<1>2. RoomHolds' BY DEF RInv, RoomHolds, Heeded
<1>3. NoChunkRefused' BY DEF RInv, NoChunkRefused
<1> QED BY <1>1, <1>2, <1>3 DEF RInv

\* What a step can be while the connection holds.
LEMMA SerialSteps ==
    ASSUME Serial, IInv, [Next]_vars
    PROVE  \/ UNCHANGED vars \/ BeginAddChunk \/ EndOfFile \/ DropFreeze
           \/ \E c \in Receiver, i \in Index : BeginConfirm(c, i)
           \/ \E c \in Receiver : BeginLeave(c)
           \/ \E a \in Actor : TellRemoved(a) \/ Reread(a) \/ Publish(a)
           \/ Insert \/ TellNew
           \/ \E c \in Receiver : Confirm(c) \/ Sweep(c) \/ TellLeft(c)
           \/ SendChunk \/ FinishUpload \/ Receive
<1>1. ~Break BY Together DEF Break, Serial
<1>2. ~Connect /\ ~ListChunks /\ ~SendStartInit
  BY Together DEF Connect, ListChunks, SendStartInit
<1> QED BY <1>1, <1>2 DEF Next, Step, Page, Greet

LEMMA OtherSteps ==
    ASSUME IInv, UNCHANGED vars \/ EndOfFile \/ SendChunk \/ FinishUpload
    PROVE  /\ UNCHANGED <<at, wire, bufferUsed>> /\ buf'.chunks = buf.chunks
           /\ Room' = Room /\ (phase' = "space" => phase = "space")
           /\ phase' = "send" \/ posted' # 0 => phase = "send" \/ posted # 0
<1>1. buf' = buf \/ buf' = SetEndOfFile(buf)
  BY DEF EndOfFile, SendChunk, FinishUpload, vars, server
<1>2. buf'.chunks = buf.chunks
  BY <1>1 DEF SetEndOfFile, BufferType, IInv, Types
<1>3. Room' = Room BY <1>2 DEF Room, NewChunkIsAllowed
<1> QED
  BY <1>2, <1>3 DEF EndOfFile, SendChunk, FinishUpload, vars, server, link, page

LEMMA RoomStep ==
    ASSUME Serial, IInv, RInv, [Next]_vars
    PROVE  RInv'
<1>1. CASE UNCHANGED vars \/ EndOfFile \/ SendChunk \/ FinishUpload
  BY <1>1, OtherSteps, OtherRoom
<1>2. CASE Insert BY <1>2, InsertRoom
<1>3. CASE Receive BY <1>3, ReceiveRoom
<1>4. CASE TellNew
  <2>1. PICK l \in Locals : Handles(Sender, l, New, 0) BY <1>4, TellNewHandles
  <2>2. New \in Event /\ Sender \in Actor BY DEF New, Event, Actor
  <2> QED BY <2>1, <2>2, HandlesKeeps
<1>5. CASE \/ BeginAddChunk \/ DropFreeze
           \/ \E c \in Receiver, i \in Index : BeginConfirm(c, i)
           \/ \E c \in Receiver : BeginLeave(c)
           \/ \E a \in Actor : TellRemoved(a) \/ Reread(a) \/ Publish(a)
           \/ \E c \in Receiver : Confirm(c) \/ Sweep(c) \/ TellLeft(c)
  <2>1. \E a \in Actor, l \in Locals, e \in Event, n \in Nat : Handles(a, l, e, n)
    BY <1>5, BeginAddChunkHandles, DropFreezeHandles, BeginConfirmHandles,
       BeginLeaveHandles, TellRemovedHandles, RereadHandles, PublishHandles,
       ConfirmHandles, SweepHandles, TellLeftHandles DEF Actor
  <2> QED BY <2>1, HandlesKeeps
<1> QED BY <1>1, <1>2, <1>3, <1>4, <1>5, SerialSteps

LEMMA RoomInit ==
    ASSUME Init
    PROVE  RInv
<1>1. /\ buf.chunks = {} /\ at = [a \in Actor |-> AtRest] /\ wire = <<>>
  BY DEF Init, EmptyBuffer
<1>2. Running = {} BY <1>1 DEF Running, AtRest
<1>3. Room BY <1>1, FS_EmptySet, LimitsAssumption DEF Room, NewChunkIsAllowed
<1>4. HandlersKnow BY <1>1 DEF HandlersKnow, In, AtRest
<1>5. 1..Len(wire) = {} BY <1>1
<1> QED
  BY <1>2, <1>3, <1>4, <1>5 DEF RInv, OneHandler, RoomHolds, NoChunkRefused

\* With one worker, and while the connection holds, the sender pauses in time: no
\* chunk it uploads meets a full buffer (Buffer::addChunk of src/src/buffer.cpp), whoever
\* confirms or leaves meanwhile, so startUpload never waits for an acceptance that
\* does not come.
THEOREM NoChunkIsRefused ==
    ASSUME Workers = 1, MaxLosses = 0
    PROVE  Spec => []NoChunkRefused
<1>1. Init => IInv /\ RInv BY InitIInv, RoomInit
<1>2. IInv /\ RInv /\ [Next]_vars => IInv' /\ RInv'
  BY StepIInv, RoomStep DEF Serial
<1>3. RInv => NoChunkRefused BY DEF RInv
<1> QED BY <1>1, <1>2, <1>3, PTL DEF Spec

-----------------------------------------------------------------------------
(* Lemmas about the page's count *)

\* What was sent after the k-th event, when one more is sent ...
LEMMA AfterSent ==
    ASSUME IInv, NEW e \in Event, wire' = Append(wire, e), NEW k \in Nat
    PROVE  /\ k \in 1..Len(wire) => After(k)' = After(k) + Taken(e)
           /\ k = Len(wire) + 1 => After(k)' = 0
<1> DEFINE n == Len(wire)
           f == [j \in 1..Len(wire) |-> Taken(wire[j])]
           g == [j \in 1..Len(wire') |-> Taken(wire'[j])]
<1>1. wire \in Seq(Event) BY DEF IInv, Types
<1>2. /\ n \in Nat /\ Len(wire') = n + 1 /\ wire'[n + 1] = e
      /\ \A j \in 1..n : wire'[j] = wire[j]
  BY <1>1
<1>3. After(k) = Sum((k + 1)..n, f) /\ After(k)' = Sum((k + 1)..(n + 1), g)
  BY <1>2 DEF After
<1>4. (\A j \in 1..n : f[j] = g[j]) /\ g[n + 1] = Taken(e) BY <1>2
<1>5. Taken(e) \in 0..MaxQueue BY EventWeight
<1> HIDE DEF n, f, g
<1>6. ASSUME k \in 1..n PROVE After(k)' = After(k) + Taken(e)
  <2> DEFINE S == (k + 1)..n
             m == n + 1
  <2>1. IsFiniteSet(S) BY <1>2, FS_Interval
  <2>2. (k + 1)..(n + 1) = S \cup {m} /\ m \notin S BY <1>2, <1>6
  <2>3. g[m] = Taken(e) /\ g[m] \in 0..MaxQueue BY <1>4, <1>5
  <2>4. \A j \in S : g[j] = f[j] BY <1>2, <1>4
  <2>5. Sum((k + 1)..n, f) = Sum(S, f)
        /\ Sum((k + 1)..(n + 1), g) = Sum(S \cup {m}, g)
    BY <2>2
  <2> HIDE DEF S, m
  <2>6. Sum(S \cup {m}, g) = Sum(S, g) + g[m] BY <2>1, <2>2, <2>3, SumSplit
  <2>7. Sum(S, g) = Sum(S, f) BY <2>4, SumSame
  <2> QED BY <1>3, <2>3, <2>5, <2>6, <2>7
<1>7. ASSUME k = n + 1 PROVE After(k)' = 0
  <2>1. (k + 1)..(n + 1) = {} BY <1>2, <1>7
  <2>2. \A h : Points({}, h) = {} BY DEF Points
  <2>3. Sum({}, g) = 0 BY <2>2, FS_EmptySet DEF Sum
  <2>4. After(k)' = Sum((k + 1)..(n + 1), g) BY <1>3
  <2> QED BY <2>1, <2>3, <2>4
<1> QED BY <1>6, <1>7 DEF n

\* ... and when the page takes the first.
LEMMA AfterTaken ==
    ASSUME IInv, wire # <<>>, wire' = Tail(wire)
    PROVE  /\ \A k \in 1..Len(wire') : After(k)' = After(k + 1)
           /\ After(1) = Gone(wire')
<1> DEFINE n == Len(wire')
           f == [j \in 1..Len(wire) |-> Taken(wire[j])]
           g == [j \in 1..Len(wire') |-> Taken(wire'[j])]
<1>1. /\ n \in Nat /\ Len(wire) = n + 1
      /\ \A k \in 1..n : wire'[k] = wire[k + 1] /\ k + 1 \in 1..(n + 1)
  BY Shift
<1>2. \A k : After(k) = Sum((k + 1)..(n + 1), f) /\ After(k)' = Sum((k + 1)..n, g)
  BY <1>1 DEF After
<1>3. \A k \in 1..n : g[k] = f[k + 1] BY <1>1
<1>4. Gone(wire') = Sum(1..n, g) BY DEF Gone
<1> HIDE DEF n, f, g
<1>5. ASSUME NEW m \in Nat, m > 0 PROVE Sum((m + 1)..(n + 1), f) = Sum(m..n, g)
  <2>1. \A k \in m..n : g[k] = f[k + 1] BY <1>1, <1>3, <1>5
  <2> QED BY <1>1, <2>1, SumShift
<1>6. ASSUME NEW k \in 1..n PROVE After(k)' = After(k + 1)
  <2>1. k + 1 \in Nat /\ k + 1 > 0 BY <1>1
  <2> QED BY <1>2, <1>5, <2>1
<1>7. After(1) = Gone(wire')
  <2>1. 1 \in Nat /\ 1 > 0 OBVIOUS
  <2>2. Sum((1 + 1)..(n + 1), f) = Sum(1..n, g) BY <1>5, <2>1
  <2> QED BY <1>2, <1>4, <2>2
<1> QED BY <1>6, <1>7 DEF n

LEMMA ChunksCounted ==
    ASSUME NEW b \in BufferType(Receiver)
    PROVE  Cardinality(b.chunks) \in Nat
<1>1. IsFiniteSet(Index) BY LimitsAssumption, IntervalFinite DEF Index
<1>2. IsFiniteSet(b.chunks) BY <1>1, FS_Subset DEF BufferType
<1> QED BY <1>2, FS_CardinalityType

LEMMA AfterType == ASSUME IInv, NEW k \in Nat PROVE After(k) \in Nat
<1>1. Len(wire) \in Nat BY DEF IInv, Types
<1>2. IsFiniteSet((k + 1)..Len(wire)) BY <1>1, FS_Interval
<1> QED BY <1>2, SumType DEF After

-----------------------------------------------------------------------------
(* The page is told of room *)

\* A step of a handler that adds no chunk.
LEMMA TellsKeeps ==
    ASSUME IInv, IInv', RInv, TInv, NEW a \in Actor, NEW l \in Locals,
           NEW e \in Event, NEW n \in Nat, Handles(a, l, e, n), Tells(a, l, e, n)
    PROVE  TInv'
<1>1. \A c \in Actor \ {a} : at[c].step = "idle" /\ at'[c] = at[c]
  BY HandlesKeeps
<1>2. /\ at'[a] = l /\ Untold \in Nat /\ Untold' \in Nat
      /\ Untold' + Keeps(at[a]) = Untold + Keeps(l)
  BY UntoldMoves DEF IInv, Handles
<1>3. Keeps(l) \in Nat /\ Keeps(at[a]) \in Nat
  BY LimitsAssumption DEF IInv, Types, Locals, Keeps
<1>4. wire \in Seq(Event) /\ Len(wire) \in Nat BY DEF IInv, Types
<1>5. \/ wire' = wire /\ n = 0
      \/ wire' = Append(wire, e) /\ n = Taken(e)
  BY DEF Handles
<1>6. /\ Gone(wire') = Gone(wire) + n /\ News(wire') = News(wire)
  <2>1. CASE wire' = wire /\ n = 0 BY <2>1, Numbers
  <2>2. CASE wire' = Append(wire, e) /\ n = Taken(e)
    BY <1>4, <2>2, WireAppend, Numbers DEF Tells
  <2> QED BY <1>5, <2>1, <2>2
<1>7. /\ \A k \in 1..Len(wire) : After(k)' = After(k) + n /\ wire'[k] = wire[k]
      /\ Len(wire') \in Nat /\ Len(wire) <= Len(wire')
  <2>1. CASE wire' = wire /\ n = 0
    <3>1. \A k \in 1..Len(wire) : After(k) \in Nat BY <1>4, AfterType
    <3> QED BY <1>4, <2>1, <3>1 DEF After
  <2>2. CASE wire' = Append(wire, e) /\ n = Taken(e)
    <3>1. ASSUME NEW k \in 1..Len(wire) PROVE After(k)' = After(k) + n
      <4>1. k \in Nat BY <1>4
      <4>2. After(k)' = After(k) + Taken(e) BY <2>2, <4>1, AfterSent
      <4> QED BY <2>2, <4>2
    <3> QED BY <1>4, <2>2, <3>1
  <2> QED BY <1>5, <2>1, <2>2
<1>8. Cardinality(buf.chunks) \in Nat
      /\ Cardinality(buf'.chunks) + Keeps(l) + n
             = Cardinality(buf.chunks) + Keeps(at[a])
  BY Numbers DEF Tells
<1>9. ~In(Sender, "tellNew") /\ ~In(Sender, "tellNew")'
  BY <1>1, <1>2 DEF Tells, In, Actor
<1>10. HandlersTell' BY <1>1, <1>2 DEF HandlersTell, In, Tells
<1>11. Cardinality(buf'.chunks) \in Nat
  <2>1. buf' \in BufferType(Receiver) BY DEF IInv, Types
  <2> QED BY <2>1, ChunksCounted
<1>12. Cardinality(buf'.chunks) + Untold' + n = Cardinality(buf.chunks) + Untold
  BY <1>2, <1>3, <1>8, <1>11
<1>13. CountIsExact'
  <2>1. Cardinality(buf.chunks) + Untold + Gone(wire) = bufferUsed + 0 + News(wire)
    BY <1>9 DEF TInv, CountIsExact, One
  <2>2. Gone(wire) \in Nat /\ News(wire) \in Nat /\ bufferUsed \in Nat BY Numbers
  <2>3. Cardinality(buf'.chunks) + Untold' + (Gone(wire) + n)
            = bufferUsed + 0 + News(wire)
    BY <1>2, <1>8, <1>11, <1>12, <2>1, <2>2
  <2> QED BY <1>6, <1>9, <2>3 DEF CountIsExact, Handles, One
<1>14. ASSUME NEW k \in 0..Len(wire), WillHear(k) PROVE WillHear(k)'
  <2>1. CASE ~Room BY <1>2, <2>1 DEF WillHear, Tells
  <2>2. CASE \E j \in (k + 1)..Len(wire) : wire[j] = Allowed(TRUE)
    <3>1. PICK j \in (k + 1)..Len(wire) : wire[j] = Allowed(TRUE) BY <2>2
    <3>2. j \in 1..Len(wire) /\ j \in (k + 1)..Len(wire') BY <1>4, <1>7
    <3>3. wire'[j] = Allowed(TRUE) BY <1>7, <3>1, <3>2
    <3> QED BY <3>2, <3>3 DEF WillHear, Allowed
  <2>3. CASE \E b \in Actor : Telling(at[b])
    <3>1. Telling(at[a]) BY <1>1, <2>3 DEF Telling
    <3>2. CASE Telling(l) BY <1>2, <3>2 DEF WillHear
    <3>3. CASE ~Room' BY <3>3 DEF WillHear
    <3>4. CASE wire' = Append(wire, Allowed(TRUE))
      <4>1. Len(wire') = Len(wire) + 1 /\ wire'[Len(wire) + 1] = Allowed(TRUE)
        <5>1. Allowed(TRUE) \in Event BY DEF Allowed, Event
        <5>2. \A x \in Event : /\ Len(Append(wire, x)) = Len(wire) + 1
                               /\ Append(wire, x)[Len(wire) + 1] = x
          BY <1>4
        <5> QED BY <3>4, <5>1, <5>2
      <4>2. Len(wire) + 1 \in (k + 1)..Len(wire') BY <1>4, <4>1
      <4> QED BY <4>1, <4>2 DEF WillHear, Allowed
    <3> QED BY <3>1, <3>2, <3>3, <3>4 DEF Tells
  <2> QED BY <1>14, <2>1, <2>2, <2>3 DEF WillHear
<1>15. NewsCounted'
  <2> SUFFICES ASSUME NEW k \in 1..Len(wire'), wire'[k] = New
               PROVE  Count(k)' # 0 /\ (Count(k)' < MaxQueue \/ WillHear(k)')
    BY DEF NewsCounted, New
  <2>1. k \in 1..Len(wire)
    <3>1. Announced(New) = 1 BY DEF New, Announced, One
    <3> QED BY <1>4, <1>5, <3>1 DEF Tells
  <2>2. Count(k)' = Count(k)
    <3>1. After(k) \in Nat /\ After(k)' = After(k) + n BY <1>7, <2>1, AfterType
    <3> DEFINE d == After(k)
    <3>2. d \in Nat BY <3>1
    <3> HIDE DEF d
    <3>3. Cardinality(buf'.chunks) + Untold' + (d + n)
              = Cardinality(buf.chunks) + Untold + d
      BY <1>2, <1>8, <1>11, <1>12, <3>2, SMTT(20)
    <3> QED BY <3>1, <3>3 DEF Count, d
  <2>3. Count(k) # 0 /\ (Count(k) < MaxQueue \/ WillHear(k))
    BY <1>7, <2>1 DEF TInv, NewsCounted
  <2>4. k \in 0..Len(wire) BY <2>1
  <2> QED BY <1>14, <2>2, <2>3, <2>4
<1>16. phase' = "space" => WillHear(0)'
  <2>1. 0 \in 0..Len(wire) BY <1>4
  <2> QED BY <1>14, <2>1 DEF TInv, Handles
<1> QED BY <1>10, <1>13, <1>15, <1>16 DEF TInv

LEMMA TellNewTells ==
    ASSUME Serial, IInv, RInv, TInv, TellNew
    PROVE  TInv'
<1>1. PICK l \in Locals :
        /\ Handles(Sender, l, New, 0) /\ l.step = "reread" /\ Keeps(l) = 0
        /\ at[Sender].step = "tellNew" /\ UNCHANGED buf
        /\ wire' = Append(wire, New)
  BY TellNewHandles
<1>2. Sender \in Actor /\ New \in Event /\ Taken(New) = 0 /\ Announced(New) = 1
  BY DEF Actor, New, Event, Taken, Announced, One
<1>3. \A c \in Actor \ {Sender} : at[c].step = "idle" /\ at'[c] = at[c]
  BY <1>1, <1>2, HandlesKeeps
<1>4. at'[Sender] = l BY <1>1, <1>2 DEF IInv, Types, Handles
<1>5. Untold = 0 /\ Untold' = 0
  <2>1. \A c \in Actor : Keeps(at[c]) = 0 BY <1>1, <1>3 DEF Keeps
  <2>2. \A c \in Actor : Keeps(at'[c]) = 0 BY <1>1, <1>3, <1>4 DEF Keeps
  <2>3. Untold = 0 BY <2>1, NothingUntold
  <2>4. Keeps(at[Sender]) = 0 BY <1>2, <2>1
  <2>5. Untold' = Untold BY <1>1, <1>2, <2>4, UntoldKept DEF Handles
  <2> QED BY <2>3, <2>5
<1>6. wire \in Seq(Event) /\ Len(wire) \in Nat BY DEF IInv, Types
<1>7. /\ News(wire') = News(wire) + 1 /\ Gone(wire') = Gone(wire) + 0
      /\ Len(wire') = Len(wire) + 1 /\ \A k \in 1..Len(wire) : wire'[k] = wire[k]
  BY <1>1, <1>2, <1>6, WireAppend
<1>8. In(Sender, "tellNew") /\ ~In(Sender, "tellNew")'
  BY <1>1, <1>4 DEF In
<1>9. phase = "accept" /\ \A k \in 1..Len(wire) : wire[k] # New
  BY <1>8, NothingUnderWay
<1>10. HandlersTell' BY <1>1, <1>3, <1>4 DEF HandlersTell, In
<1>11. CountIsExact'
  <2>1. Cardinality(buf.chunks) + Untold + Gone(wire) = bufferUsed + 1 + News(wire)
    BY <1>8 DEF TInv, CountIsExact, One
  <2>2. Cardinality(buf.chunks) + Untold + (Gone(wire) + 0)
            = bufferUsed + 0 + (News(wire) + 1)
    BY <2>1, Numbers
  <2> QED BY <1>1, <1>5, <1>7, <1>8, <2>2 DEF CountIsExact, Handles, One
<1>12. NewsCounted'
  <2> SUFFICES ASSUME NEW k \in 1..Len(wire'), wire'[k] = New
               PROVE  Count(k)' # 0 /\ (Count(k)' < MaxQueue \/ WillHear(k)')
    BY DEF NewsCounted, New
  <2>1. k = Len(wire) + 1 BY <1>6, <1>7, <1>9
  <2>2. After(k)' = 0
    <3>1. k \in Nat BY <1>6, <2>1
    <3> QED BY <1>1, <1>2, <2>1, <3>1, AfterSent
  <2>3. Count(k)' = Cardinality(buf.chunks) + 0 + 0 BY <1>1, <1>5, <2>2 DEF Count
  <2>4. Cardinality(buf.chunks) # 0
    <3>1. buf.chunks # {} BY <1>2, <1>8 DEF TInv, HandlersTell
    <3> QED BY <3>1, Numbers, FS_EmptySet
  <2>5. ~Room' => WillHear(k)' BY DEF WillHear
  <2>6. Room' <=> MaxQueue > Cardinality(buf.chunks)
    BY <1>1 DEF Room, NewChunkIsAllowed
  <2> QED BY <2>3, <2>4, <2>5, <2>6, Numbers, LimitsAssumption
<1>13. phase' # "space" BY <1>1, <1>9 DEF Handles
<1> QED BY <1>10, <1>11, <1>12, <1>13 DEF TInv

LEMMA InsertTells ==
    ASSUME Serial, IInv, RInv, TInv, Insert
    PROVE  TInv'
<1>1. /\ at[Sender].step = "insert" /\ phase = "accept"
      /\ \A k \in 1..Len(wire) : wire[k] # New
      /\ UNCHANGED <<posted, wire, phase, sent, bufferUsed>>
      /\ buf'.chunks = buf.chunks \cup {buf.top + 1} /\ buf.top + 1 \notin buf.chunks
  BY InsertEffect
<1>2. PICK l \in Locals : /\ l.step = "tellNew" /\ Keeps(l) = 0
                          /\ at' = [at EXCEPT ![Sender] = l]
  BY InsertEffect
<1>3. Sender \in Actor /\ Sender \in Running /\ Keeps(at[Sender]) = 0
  BY <1>1 DEF Actor, Running, Keeps
<1>4. at'[Sender] = l /\ \A c \in Actor \ {Sender} : at'[c] = at[c]
  BY <1>2, <1>3 DEF IInv, Types
<1>5. \A c \in Actor \ {Sender} : at[c].step = "idle"
  BY <1>3 DEF RInv, OneHandler, Running
<1>6. Untold' = Untold BY <1>2, <1>3, UntoldKept
<1>7. Cardinality(buf'.chunks) = Cardinality(buf.chunks) + 1
  BY <1>1, Numbers, OneMore
<1>8. ~In(Sender, "tellNew") /\ In(Sender, "tellNew")'
  BY <1>1, <1>2, <1>4 DEF In
<1>9. HandlersTell'
  <2>1. buf'.chunks # {} BY <1>1
  <2> QED BY <1>2, <1>4, <1>5, <2>1 DEF HandlersTell, In
<1>10. CountIsExact'
  <2>1. Cardinality(buf.chunks) + Untold + Gone(wire) = bufferUsed + 0 + News(wire)
    BY <1>8 DEF TInv, CountIsExact, One
  <2>2. (Cardinality(buf.chunks) + 1) + Untold + Gone(wire)
            = bufferUsed + 1 + News(wire)
    BY <2>1, Numbers
  <2> QED BY <1>1, <1>6, <1>7, <1>8, <2>2 DEF CountIsExact, One
<1>11. NewsCounted' BY <1>1 DEF NewsCounted, New
<1> QED BY <1>1, <1>9, <1>10, <1>11 DEF TInv

\* Chunks that are announced are announced by an event.
LEMMA SomeNew ==
    ASSUME NEW w \in Seq(Event), News(w) # 0
    PROVE  \E k \in 1..Len(w) : w[k] = New
<1> DEFINE f == [j \in 1..Len(w) |-> Announced(w[j])]
<1>1. News(w) = Cardinality(Points(1..Len(w), f)) BY DEF News, Sum
<1>2. Points(1..Len(w), f) # {} BY <1>1, FS_EmptySet
<1>3. PICK p : p \in Points(1..Len(w), f) BY <1>2
<1>4. p[1] \in 1..Len(w) /\ p[2] \in 1..MaxQueue /\ p[2] <= Announced(w[p[1]])
  BY <1>3 DEF Points
<1>5. w[p[1]] \in Event BY <1>4
<1>6. Announced(w[p[1]]) # 0 BY <1>4, LimitsAssumption
<1>7. w[p[1]].kind = "new_chunk" BY <1>6 DEF Announced, One
<1>8. w[p[1]] = New BY <1>5, <1>7, Kinds
<1> QED BY <1>4, <1>8

\* What was sent after an event is part of what was sent after the first.
LEMMA AfterWithin ==
    ASSUME IInv, NEW k \in Nat, k >= 1
    PROVE  After(k) <= After(1)
<1> DEFINE f == [j \in 1..Len(wire) |-> Taken(wire[j])]
           P == Points((k + 1)..Len(wire), f)
           Q == Points((1 + 1)..Len(wire), f)
<1>1. Len(wire) \in Nat BY DEF IInv, Types
<1>2. IsFiniteSet((1 + 1)..Len(wire)) BY <1>1, FS_Interval
<1>3. IsFiniteSet(Q) BY <1>2, SumType
<1>4. (k + 1)..Len(wire) \subseteq (1 + 1)..Len(wire) BY <1>1
<1>5. P \subseteq Q BY <1>4 DEF Points
<1>6. After(k) = Cardinality(P) /\ After(1) = Cardinality(Q) BY DEF After, Sum
<1> QED BY <1>3, <1>5, <1>6, FS_Subset


LEMMA ReceiveTells ==
    ASSUME Serial, IInv, RInv, TInv, Receive
    PROVE  TInv'
<1> DEFINE e == Head(wire)
<1>1. /\ wire # <<>> /\ wire' = Tail(wire)
      /\ UNCHANGED <<buf, at, posted>>
      /\ \/ e.kind = "new_chunk" /\ ChunkAccepted(bufferUsed + 1)
         \/ e.kind = "chunk_removed" /\ ChunksGone(e.n)
         \/ /\ e.kind = "new_chunk_allowed"
            /\ phase' = IF phase = "space" /\ e.status THEN "send" ELSE phase
            /\ UNCHANGED bufferUsed
         \/ e.kind = "start_init"
         \/ e.kind = "add_chunk_failure" /\ UNCHANGED page
  BY DEF Receive, server
<1>2. /\ Len(wire) = Len(wire') + 1 /\ Len(wire') \in Nat
      /\ e = wire[1] /\ e \in Event /\ 1 \in 1..Len(wire)
      /\ \A k \in 1..Len(wire') : wire'[k] = wire[k + 1] /\ k + 1 \in 1..Len(wire)
  BY <1>1, Shift
<1>3. (e.kind = "new_chunk" <=> e = New)
      /\ (e.kind = "new_chunk_allowed" /\ e.status <=> e = Allowed(TRUE))
  BY <1>2, Kinds
<1>4. /\ News(wire') \in Nat /\ Gone(wire') \in Nat
      /\ News(wire) = News(wire') + Announced(e) /\ Gone(wire) = Gone(wire') + Taken(e)
  BY ReceiveMoves
<1> HIDE DEF e
<1>5. e.kind # "start_init" BY <1>2, Together DEF Inits
<1>6. /\ Room' = Room /\ Untold' = Untold
      /\ In(Sender, "tellNew")' = In(Sender, "tellNew")
  BY <1>1 DEF Room, Untold, In
<1> DEFINE T == One(In(Sender, "tellNew"))
           H == Cardinality(buf.chunks) + Untold
<1>7. T \in {0, 1} /\ H \in Nat /\ T' = T /\ H' = H /\ T + News(wire) <= 1
  <2>1. T \in {0, 1} /\ H \in Nat /\ T' = T /\ H' = H
    BY <1>1, <1>6, Numbers DEF One
  <2>2. One(phase = "accept") \in {0, 1} /\ One(In(Sender, "insert")) \in {0, 1}
    BY DEF One
  <2>3. T + News(wire) <= 1 BY <2>1, <2>2, Together, Numbers
  <2> QED BY <2>1, <2>3
<1>8. H + Gone(wire) = bufferUsed + T + News(wire) BY DEF TInv, CountIsExact
<1>9. \A k \in Nat : Count(k) = H + After(k) /\ Count(k)' = H + After(k)'
  BY <1>7 DEF Count
<1> HIDE DEF H, T
<1>10. ASSUME NEW k \in Nat, WillHear(k + 1) PROVE WillHear(k)'
  <2>1. CASE ~Room BY <1>6, <2>1 DEF WillHear
  <2>2. CASE \E j \in ((k + 1) + 1)..Len(wire) : wire[j] = Allowed(TRUE)
    <3>1. PICK j \in ((k + 1) + 1)..Len(wire) : wire[j] = Allowed(TRUE) BY <2>2
    <3>2. j - 1 \in (k + 1)..Len(wire') /\ j - 1 \in 1..Len(wire') /\ (j - 1) + 1 = j
      BY <1>2
    <3>3. wire'[j - 1] = Allowed(TRUE) BY <1>2, <3>1, <3>2
    <3> QED BY <3>2, <3>3 DEF WillHear, Allowed
  <2>3. CASE \E a \in Actor : Telling(at[a]) BY <1>1, <2>3 DEF WillHear
  <2> QED BY <1>10, <2>1, <2>2, <2>3 DEF WillHear
<1>11. HandlersTell' BY <1>1, <1>6 DEF TInv, HandlersTell, In
<1>12. NewsCounted'
  <2> SUFFICES ASSUME NEW k \in 1..Len(wire'), wire'[k] = New
               PROVE  Count(k)' # 0 /\ (Count(k)' < MaxQueue \/ WillHear(k)')
    BY DEF NewsCounted, New
  <2>1. k + 1 \in 1..Len(wire) /\ wire[k + 1] = New /\ k \in Nat /\ k + 1 \in Nat
    BY <1>2
  <2>2. Count(k + 1) # 0 /\ (Count(k + 1) < MaxQueue \/ WillHear(k + 1))
    BY <2>1 DEF TInv, NewsCounted
  <2>3. After(k)' = After(k + 1) BY <1>1, AfterTaken
  <2>4. Count(k)' = Count(k + 1) BY <1>9, <2>1, <2>3
  <2> QED BY <1>10, <2>1, <2>2, <2>4
\* A chunk that is announced ends the wait for its acceptance.
<1>13. CASE e = New
  <2>1. phase = "accept" /\ T = 0 /\ News(wire) = 1
    <3>1. phase = "accept" /\ ~In(Sender, "tellNew")
      BY <1>2, <1>13, NothingUnderWay
    <3>2. T = 0 BY <3>1 DEF One, T
    <3>3. Announced(e) = 1 BY <1>13 DEF Announced, New, One
    <3> QED BY <1>4, <1>7, <3>1, <3>2, <3>3, Numbers
  <2>2. Taken(e) = 0 /\ Announced(e) = 1 BY <1>13 DEF New, Taken, Announced, One
  <2>3. /\ bufferUsed' = bufferUsed + 1
        /\ phase' = "space" => bufferUsed + 1 >= MaxQueue
    BY <1>1, <1>3, <1>13, <2>1 DEF ChunkAccepted, New
  <2>4. H + Gone(wire') = bufferUsed' + T + News(wire')
    BY <1>4, <1>7, <1>8, <2>1, <2>2, <2>3, Numbers
  <2>5. CountIsExact' BY <1>7, <2>4 DEF CountIsExact, H, T
  <2>6. Count(1) = H + Gone(wire')
    <3>1. After(1) = Gone(wire') BY <1>1, AfterTaken
    <3> QED BY <1>9, <3>1
  <2>7. Count(1) = bufferUsed + 1
    BY <1>4, <1>7, <1>8, <2>1, <2>2, <2>6, Numbers
  <2>8. Count(1) < MaxQueue \/ WillHear(1)
    BY <1>2, <1>13 DEF TInv, NewsCounted
  <2>9. phase' = "space" => WillHear(0 + 1)
    BY <2>3, <2>7, <2>8, Numbers, LimitsAssumption
  <2>10. phase' = "space" => WillHear(0)' BY <1>10, <2>9
  <2> QED BY <1>11, <1>12, <2>5, <2>10 DEF TInv
<1>14. CASE e # New
  <2>1. Announced(e) = 0 BY <1>3, <1>14 DEF Announced, One
  <2>2. bufferUsed' + Taken(e) = bufferUsed
    <3>1. CASE e.kind = "chunk_removed"
      <4>1. Taken(e) = e.n /\ e.n \in Nat
        BY <1>2, <3>1, LimitsAssumption DEF Taken, Event
      <4>2. e.n <= bufferUsed
        <5>1. CASE News(wire) + T = 0
          BY <1>4, <1>7, <1>8, <4>1, <5>1, Numbers
        <5>2. CASE T = 1
          <6>1. In(Sender, "tellNew") /\ Sender \in Actor BY <5>2 DEF One, Actor, T
          <6>2. buf.chunks # {} BY <6>1 DEF TInv, HandlersTell
          <6>3. Cardinality(buf.chunks) # 0 BY <6>2, Numbers, FS_EmptySet
          <6>4. H >= 1 BY <6>3, Numbers DEF H
          <6>5. News(wire) = 0 BY <1>7, <5>2, Numbers
          <6> QED BY <1>4, <1>7, <1>8, <4>1, <5>2, <6>4, <6>5, Numbers
        <5>3. CASE News(wire) # 0
          <6>1. PICK k \in 1..Len(wire) : wire[k] = New
            BY <5>3, SomeNew DEF IInv, Types
          <6>2. k # 1 /\ k - 1 \in 1..Len(wire') /\ (k - 1) + 1 = k /\ k \in Nat
            BY <1>2, <1>14, <6>1
          <6>3. Count(k) # 0 BY <6>1 DEF TInv, NewsCounted
          <6>4. After(k) \in Nat /\ After(k) <= Gone(wire')
            BY <1>1, <6>2, AfterType, AfterTaken, AfterWithin
          <6>5. Count(k) = H + After(k) BY <1>9, <6>2
          <6>6. News(wire) <= 1 /\ T = 0 BY <1>7, <5>3, Numbers
          <6>7. H + Gone(wire') >= 1 BY <1>4, <1>7, <6>3, <6>4, <6>5
          <6>8. bufferUsed \in Nat /\ News(wire) \in Nat BY Numbers
          <6>9. H + (Gone(wire') + e.n) = bufferUsed + 0 + News(wire)
            BY <1>4, <1>8, <4>1, <6>6
          <6> QED BY <1>4, <1>7, <4>1, <6>6, <6>7, <6>8, <6>9
        <5> QED BY <1>7, <5>1, <5>2, <5>3, Numbers
      <4>3. bufferUsed' = bufferUsed - e.n
        BY <1>1, <3>1, <4>1, <4>2, Numbers DEF ChunksGone
      <4> QED BY <4>1, <4>2, <4>3, Numbers
    <3>2. CASE e.kind # "chunk_removed"
      <4>1. Taken(e) = 0 /\ bufferUsed' = bufferUsed
        BY <1>1, <1>3, <1>5, <1>14, <3>2 DEF Taken, page
      <4> QED BY <4>1, Numbers
    <3> QED BY <3>1, <3>2
  <2>3. bufferUsed' \in Nat
    <3>1. IInv' BY ReceiveKeeps
    <3> QED BY <3>1 DEF IInv, Types
  <2>4. Taken(e) \in Nat BY <1>2, EventWeight, LimitsAssumption
  <2>5. H + Gone(wire') = bufferUsed' + T + News(wire')
    <3>1. H + (Gone(wire') + Taken(e)) = bufferUsed + T + (News(wire') + 0)
      BY <1>4, <1>8, <2>1
    <3> QED BY <1>4, <1>7, <2>2, <2>3, <2>4, <3>1
  <2>6. CountIsExact' BY <1>7, <2>5 DEF CountIsExact, H, T
  <2>7. phase' = "space" => phase = "space" /\ e # Allowed(TRUE)
    BY <1>1, <1>3, <1>5, <1>14 DEF ChunksGone, page, Allowed
  <2>8. phase' = "space" => WillHear(0)'
    <3> SUFFICES ASSUME phase' = "space" PROVE WillHear(0)'
      OBVIOUS
    <3>1. WillHear(0) BY <2>7 DEF TInv
    <3>2. ASSUME NEW j \in 1..Len(wire), wire[j] = Allowed(TRUE)
          PROVE  j \in 2..Len(wire)
      <4>1. wire[1] # wire[j] BY <1>2, <2>7, <3>2
      <4>2. j # 1 BY <4>1
      <4> QED BY <1>2, <4>2
    <3>3. (0 + 1) + 1 = 2 /\ 0 + 1 = 1 OBVIOUS
    <3>4. WillHear(0 + 1) BY <3>1, <3>2, <3>3 DEF WillHear
    <3> QED BY <1>10, <3>4
  <2> QED BY <1>11, <1>12, <2>6, <2>8 DEF TInv
<1> QED BY <1>13, <1>14

\* A step that moves no handler, sends no event and takes none.
LEMMA OtherTells ==
    ASSUME TInv, UNCHANGED <<at, wire, bufferUsed>>, buf'.chunks = buf.chunks,
           Room' = Room, phase' = "space" => phase = "space"
    PROVE  TInv'
<1>1. HandlersTell' BY DEF TInv, HandlersTell, In
<1>2. Untold' = Untold /\ News(wire') = News(wire) /\ Gone(wire') = Gone(wire)
  BY DEF Untold
<1>3. CountIsExact' BY <1>2 DEF TInv, CountIsExact, In
<1>4. \A k : WillHear(k) => WillHear(k)' BY DEF WillHear
<1>5. \A k : Count(k)' = Count(k) BY <1>2 DEF Count, After
<1>6. NewsCounted' BY <1>4, <1>5 DEF TInv, NewsCounted
<1>7. phase' = "space" => WillHear(0)' BY <1>4 DEF TInv
<1> QED BY <1>1, <1>3, <1>6, <1>7 DEF TInv

\* No receiver is about to leave.
LEMMA NobodyLeaves ==
    ASSUME Leavers = {}, TInv, NEW c \in Receiver
    PROVE  ~BeginLeave(c) /\ ~Sweep(c) /\ ~TellLeft(c)
<1>1. c \in Actor BY DEF Actor
<1> QED BY <1>1 DEF BeginLeave, Sweep, TellLeft, TInv, HandlersTell, In

LEMMA TellsStep ==
    ASSUME Serial, Leavers = {}, IInv, IInv', RInv, TInv, [Next]_vars
    PROVE  TInv'
<1>1. CASE UNCHANGED vars \/ EndOfFile \/ SendChunk \/ FinishUpload
  BY <1>1, OtherSteps, OtherTells
<1>2. CASE Insert BY <1>2, InsertTells
<1>3. CASE Receive BY <1>3, ReceiveTells
<1>4. CASE TellNew BY <1>4, TellNewTells
<1>5. CASE \/ BeginAddChunk \/ DropFreeze
           \/ \E c \in Receiver, i \in Index : BeginConfirm(c, i)
           \/ \E a \in Actor : TellRemoved(a) \/ Reread(a) \/ Publish(a)
           \/ \E c \in Receiver : Confirm(c)
  <2>1. HandlersTell BY DEF TInv
  <2>2. \E a \in Actor, l \in Locals, e \in Event, n \in Nat :
            Handles(a, l, e, n) /\ Tells(a, l, e, n)
    BY <1>5, <2>1, BeginAddChunkHandles, DropFreezeHandles, BeginConfirmHandles,
       TellRemovedHandles, RereadHandles, PublishHandles, ConfirmHandles DEF Actor
  <2> QED BY <2>2, TellsKeeps
<1> QED BY <1>1, <1>2, <1>3, <1>4, <1>5, SerialSteps, NobodyLeaves

LEMMA TellsInit ==
    ASSUME Init
    PROVE  TInv
<1>1. /\ buf.chunks = {} /\ at = [a \in Actor |-> AtRest] /\ wire = <<>>
      /\ phase = "send" /\ bufferUsed = 0
  BY DEF Init, EmptyBuffer
<1>2. \A a \in Actor : at[a] = AtRest BY <1>1
<1>3. ~In(Sender, "tellNew") BY <1>2 DEF In, AtRest, Actor
<1>4. Untold = 0 BY <1>2, AtRestTyped, NothingUntold
<1>5. News(wire) = 0 /\ Gone(wire) = 0 BY <1>1, WireEmpty
<1>6. Cardinality(buf.chunks) = 0 BY <1>1, FS_EmptySet
<1>7. HandlersTell BY <1>2 DEF HandlersTell, In, AtRest
<1>8. CountIsExact BY <1>1, <1>3, <1>4, <1>5, <1>6 DEF CountIsExact, One
<1>9. 1..Len(wire) = {} BY <1>1
<1> QED BY <1>1, <1>7, <1>8, <1>9 DEF TInv, NewsCounted

\* With one worker, while the connection holds and no receiver leaves, room is always
\* told of (newChunkIsAllowed, read before and after setChunkAsReceived and
\* dropInitialChunksFreeze in src/src/transfersession.cpp): when nothing runs and nothing
\* is under way, startUpload does not wait for room that is there.
THEOREM SenderIsToldOfRoom ==
    ASSUME Workers = 1, MaxLosses = 0, Leavers = {}
    PROVE  Spec => []SenderToldOfRoom
<1>1. Init => IInv /\ RInv /\ TInv BY InitIInv, RoomInit, TellsInit
<1>2. IInv /\ RInv /\ TInv /\ [Next]_vars => IInv' /\ RInv' /\ TInv'
  BY StepIInv, RoomStep, TellsStep DEF Serial
<1>3. ASSUME TInv PROVE SenderToldOfRoom
  <2> SUFFICES ASSUME Running = {}, wire = <<>>, phase = "space" PROVE ~Room
    BY DEF SenderToldOfRoom, Quiet, Room
  <2>1. WillHear(0) BY <1>3 DEF TInv
  <2>2. \A a \in Actor : ~Telling(at[a]) BY DEF Running, Telling
  <2>3. (0 + 1)..Len(wire) = {} OBVIOUS
  <2> QED BY <2>1, <2>2, <2>3 DEF WillHear
<1> QED BY <1>1, <1>2, <1>3, PTL DEF Spec
=============================================================================
