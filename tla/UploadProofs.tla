---------------------------- MODULE UploadProofs ----------------------------
(***************************************************************************)
(* Proofs about UploadFlow, for any receivers, leavers, number of workers, *)
(* queue length, number of uploads and of broken connections.              *)
(***************************************************************************)
EXTENDS UploadFlow, BufferLemmas, SequenceTheorems

-----------------------------------------------------------------------------
(* Sums *)

\* The sum of f over the finite set S, for small values: the number of points
\* under its graph.
Points(S, f) == {p \in S \X (1..MaxQueue) : p[2] <= f[p[1]]}
Sum(S, f) == Cardinality(Points(S, f))

One(p) == IF p THEN 1 ELSE 0

\* The chunks an event announces, and those it takes away; the sums over a
\* sequence of events.
Announced(e) == One(e.kind = "new_chunk")
Taken(e) == IF e.kind = "chunk_removed" THEN e.n ELSE 0
News(w) == Sum(1..Len(w), [k \in 1..Len(w) |-> Announced(w[k])])
Gone(w) == Sum(1..Len(w), [k \in 1..Len(w) |-> Taken(w[k])])

\* The chunks a handler has removed and not told of.
Keeps(l) == IF l.step \in {"tellRemoved", "tellLeft"} THEN l.gone ELSE 0
Untold == Sum(Actor, [a \in Actor |-> Keeps(at[a])])

-----------------------------------------------------------------------------
(* The inductive invariant *)

Steps == {"idle", "insert", "tellNew", "confirm", "tellRemoved", "sweep", "tellLeft",
          "reread", "publish"}
Locals == [step: Steps, chunk: 0..MaxUploads, gone: 0..MaxQueue,
           old: BOOLEAN, new: BOOLEAN]
Event == [kind: {"new_chunk", "add_chunk_failure"}]
             \cup [kind: {"chunk_removed"}, n: 1..MaxQueue]
             \cup [kind: {"new_chunk_allowed"}, status: BOOLEAN]
             \cup [kind: {"start_init"}, n: 0..MaxQueue]

Types ==
    /\ buf \in BufferType(Receiver)
    /\ at \in [Actor -> Locals]
    /\ greeting \in [step: {"none", "list", "send"}, chunks: 0..MaxQueue]
    /\ posted \in Nat /\ finishing \in BOOLEAN /\ wire \in Seq(Event)
    /\ online \in BOOLEAN /\ losses \in 0..MaxLosses
    /\ phase \in {"send", "accept", "space", "finished"}
    /\ sent \in 0..Total /\ bufferUsed \in Nat

BufferHolds == buf.chunks \subseteq 1..buf.top /\ Cardinality(buf.chunks) <= MaxQueue

\* Where the page is in the file.
PageHolds ==
    /\ phase = "accept" => sent < Total
    /\ phase = "finished" => sent = Total
    /\ finishing \/ buf.eof => phase = "finished"

\* A connection begins with one start_init, and none comes before the first break.
Inits(w) == {k \in 1..Len(w) : w[k].kind = "start_init"}
GreetingHolds ==
    /\ ~online => greeting.step = "none" /\ Inits(wire) = {}
    /\ greeting.step # "none" => Inits(wire) = {}
    /\ \A j, k \in Inits(wire) : j = k
    /\ losses = 0 => online /\ greeting.step = "none" /\ Inits(wire) = {}

ToBeGreeted == ~online \/ greeting.step # "none" \/ Inits(wire) # {}

\* The page waits for the answer to one chunk at a time; each break may leave it
\* without the answer it waits for, until start_init stands for it.
OneUnderWay ==
    posted + One(In(Sender, "insert")) + One(In(Sender, "tellNew")) + News(wire)
        + One(ToBeGreeted) <= One(phase = "accept") + losses

\* The page hears once of each chunk the server numbers.
HeardOnce ==
    /\ One(In(Sender, "tellNew")) + News(wire) <= buf.top
    /\ bufferUsed + One(In(Sender, "tellNew")) + News(wire) <= MaxQueue + buf.top

\* While the connection holds, the server numbers what the page sends, and the
\* page's count, with what it will be told, covers the buffer.
InStep ==
    losses = 0 =>
        /\ buf.top = sent + One(In(Sender, "tellNew")) + News(wire)
        /\ Cardinality(buf.chunks) + Untold + Gone(wire)
               <= bufferUsed + One(In(Sender, "tellNew")) + News(wire)

IInv ==
    /\ Types /\ BufferHolds /\ PageHolds /\ GreetingHolds /\ NoChunkTwice
    /\ OneUnderWay /\ HeardOnce /\ InStep

-----------------------------------------------------------------------------
(* Lemmas about sums *)

\* The points of a finite sum are finitely many.
LEMMA SumType ==
    ASSUME NEW S, IsFiniteSet(S), NEW f
    PROVE  IsFiniteSet(Points(S, f)) /\ Sum(S, f) \in Nat
<1>1. IsFiniteSet(S \X (1..MaxQueue))
  <2>1. MaxQueue \in Int BY LimitsAssumption
  <2>2. IsFiniteSet(1..MaxQueue) BY <2>1, FS_Interval
  <2> QED BY <2>2, FS_Product
<1>2. Points(S, f) \subseteq S \X (1..MaxQueue) BY DEF Points
<1>3. IsFiniteSet(Points(S, f)) BY <1>1, <1>2, FS_Subset
<1> QED BY <1>3, FS_CardinalityType DEF Sum

\* A sum depends on the values over its set only.
LEMMA SumSame ==
    ASSUME NEW S, NEW f, NEW g, \A x \in S : f[x] = g[x]
    PROVE  Sum(S, f) = Sum(S, g)
<1>1. Points(S, f) = Points(S, g) BY DEF Points
<1> QED BY <1>1 DEF Sum

\* One more argument adds its value to a sum.
LEMMA SumSplit ==
    ASSUME NEW S, IsFiniteSet(S), NEW x, x \notin S, NEW f, f[x] \in 0..MaxQueue
    PROVE  Sum(S \cup {x}, f) = Sum(S, f) + f[x]
<1> DEFINE C == {x} \X (1..f[x])
           P == Points(S, f)
<1>1. f[x] \in Nat /\ f[x] <= MaxQueue BY LimitsAssumption
<1>2. IsFiniteSet({x}) /\ Cardinality({x}) = 1 BY FS_Singleton
<1>3. IsFiniteSet(1..f[x]) /\ Cardinality(1..f[x]) = f[x] BY <1>1, FS_Interval, SMTT(20)
<1>4. IsFiniteSet(C) /\ Cardinality(C) = f[x]
  <2>1. IsFiniteSet(C) /\ Cardinality(C) = Cardinality({x}) * Cardinality(1..f[x])
    BY <1>2, <1>3, FS_Product
  <2> QED BY <1>1, <1>2, <1>3, <2>1
<1>5. IsFiniteSet(P) /\ Cardinality(P) \in Nat BY SumType DEF Sum
<1>6. Points(S \cup {x}, f) = P \cup C
  <2>1. ASSUME NEW p \in Points(S \cup {x}, f) PROVE p \in P \cup C
    BY <1>1, <2>1, LimitsAssumption DEF Points
  <2>2. ASSUME NEW p \in P PROVE p \in Points(S \cup {x}, f) BY <2>2 DEF Points
  <2>3. ASSUME NEW p \in C PROVE p \in Points(S \cup {x}, f)
    BY <1>1, <2>3, LimitsAssumption DEF Points
  <2> QED BY <2>1, <2>2, <2>3
<1>7. P \cap C = {} BY DEF Points
<1> HIDE DEF C, P
<1>8. Cardinality(P \cup C) = Cardinality(P) + Cardinality(C)
  <2>1. Cardinality(P \cup C) = Cardinality(P) + Cardinality(C) - Cardinality(P \cap C)
    BY <1>4, <1>5, FS_Union
  <2>2. Cardinality(P \cap C) = 0 BY <1>7, FS_EmptySet
  <2> QED BY <1>1, <1>4, <1>5, <2>1, <2>2
<1> QED BY <1>1, <1>4, <1>5, <1>6, <1>8 DEF Sum, P

\* A sum changes by the change of one of its values.
LEMMA SumUpdate ==
    ASSUME NEW S, IsFiniteSet(S), NEW x \in S, NEW f, NEW g,
           f[x] \in 0..MaxQueue, g[x] \in 0..MaxQueue,
           \A y \in S \ {x} : f[y] = g[y]
    PROVE  Sum(S, g) + f[x] = Sum(S, f) + g[x]
<1> DEFINE R == S \ {x}
<1>1. IsFiniteSet(R) /\ x \notin R /\ S = R \cup {x} BY FS_Subset
<1>2. Sum(R, f) = Sum(R, g) BY SumSame
<1>3. Sum(R, f) \in Nat BY <1>1, SumType
<1> HIDE DEF R
<1>4. Sum(R \cup {x}, f) = Sum(R, f) + f[x] BY <1>1, SumSplit
<1>5. Sum(R \cup {x}, g) = Sum(R, g) + g[x] BY <1>1, SumSplit
<1> QED BY <1>1, <1>2, <1>3, <1>4, <1>5, LimitsAssumption

\* A sum over an interval is the sum over the next one of the same values.
LEMMA SumShift ==
    ASSUME NEW m \in Nat, NEW n \in Nat, NEW f, NEW g, \A k \in m..n : g[k] = f[k + 1]
    PROVE  Sum((m + 1)..(n + 1), f) = Sum(m..n, g)
<1> DEFINE P == Points(m..n, g)
           Q == Points((m + 1)..(n + 1), f)
           shift == [p \in P |-> <<p[1] + 1, p[2]>>]
<1>1. IsFiniteSet(m..n) /\ IsFiniteSet((m + 1)..(n + 1)) BY FS_Interval
<1>2. IsFiniteSet(P) /\ IsFiniteSet(Q) BY <1>1, SumType
<1>3. shift \in [P -> Q] BY DEF Points
<1>4. \A p, q \in P : shift[p] = shift[q] => p = q BY DEF Points
<1>5. \A q \in Q : \E p \in P : shift[p] = q
  <2> SUFFICES ASSUME NEW q \in Q PROVE \E p \in P : shift[p] = q
    OBVIOUS
  <2>1. q \in ((m + 1)..(n + 1)) \X (1..MaxQueue) /\ q[2] <= f[q[1]] BY DEF Points
  <2>2. q[1] - 1 \in m..n /\ g[q[1] - 1] = f[q[1]] BY <2>1
  <2>3. <<q[1] - 1, q[2]>> \in P BY <2>1, <2>2 DEF Points
  <2>4. shift[<<q[1] - 1, q[2]>>] = q BY <2>1, <2>3
  <2> QED BY <2>3, <2>4
<1>6. ExistsBijection(P, Q)
  <2> HIDE DEF P, Q, shift
  <2> QED
    BY <1>3, <1>4, <1>5, ZenonT(40)
    DEF ExistsBijection, Bijection, Injection, Surjection, IsInjective
<1> QED BY <1>2, <1>6, FS_Bijection DEF Sum

\* A sum over a finite sequence without its first element.
LEMMA SumTail ==
    ASSUME NEW n \in Nat, NEW f, NEW g, f[1] \in 0..MaxQueue,
           \A k \in 1..n : g[k] = f[k + 1]
    PROVE  Sum(1..(n + 1), f) = Sum(1..n, g) + f[1]
<1>1. Sum((1 + 1)..(n + 1), f) = Sum(1..n, g)
  <2> DEFINE m == 1
  <2>1. m \in Nat /\ \A k \in m..n : g[k] = f[k + 1] OBVIOUS
  <2> HIDE DEF m
  <2>2. Sum((m + 1)..(n + 1), f) = Sum(m..n, g) BY <2>1, SumShift
  <2> QED BY <2>2 DEF m
<1>2. 1..(n + 1) = ((1 + 1)..(n + 1)) \cup {1} /\ 1 \notin (1 + 1)..(n + 1) OBVIOUS
<1>3. IsFiniteSet((1 + 1)..(n + 1)) BY FS_Interval
<1>4. Sum(((1 + 1)..(n + 1)) \cup {1}, f) = Sum((1 + 1)..(n + 1), f) + f[1]
  BY <1>2, <1>3, SumSplit
<1> QED BY <1>1, <1>2, <1>4

-----------------------------------------------------------------------------
(* Lemmas about the events under way *)

\* What an event announces and takes, as a value of a sum.
LEMMA EventWeight ==
    ASSUME NEW e \in Event
    PROVE  Announced(e) \in 0..MaxQueue /\ Taken(e) \in 0..MaxQueue
BY LimitsAssumption DEF Event, Announced, Taken, One

\* Both sums are numbers, and zero when nothing is under way.
LEMMA WireType ==
    ASSUME NEW w \in Seq(Event)
    PROVE  News(w) \in Nat /\ Gone(w) \in Nat
<1>1. IsFiniteSet(1..Len(w)) BY FS_Interval
<1> QED BY <1>1, SumType DEF News, Gone

LEMMA WireEmpty ==
    News(<<>>) = 0 /\ Gone(<<>>) = 0 /\ Inits(<<>>) = {}
<1>1. 1..Len(<<>>) = {} OBVIOUS
<1>2. \A f : Points({}, f) = {} BY DEF Points
<1> QED BY <1>1, <1>2, FS_EmptySet DEF News, Gone, Inits, Sum

LEMMA WireAppend ==
    ASSUME NEW w \in Seq(Event), NEW e \in Event
    PROVE  /\ Append(w, e) \in Seq(Event)
           /\ News(Append(w, e)) = News(w) + Announced(e)
           /\ Gone(Append(w, e)) = Gone(w) + Taken(e)
           /\ e.kind # "start_init" => Inits(Append(w, e)) = Inits(w)
           /\ e.kind = "start_init" => Inits(Append(w, e)) = Inits(w) \cup {Len(w) + 1}
<1> DEFINE v == Append(w, e)
           n == Len(w)
<1>1. n \in Nat /\ v \in Seq(Event) /\ Len(v) = n + 1 /\ v[n + 1] = e
      /\ \A k \in 1..n : v[k] = w[k]
  OBVIOUS
<1>2. 1..(n + 1) = 1..n \cup {n + 1} /\ n + 1 \notin 1..n BY <1>1
<1>3. IsFiniteSet(1..n) BY <1>1, FS_Interval
<1> HIDE DEF v, n
<1>4. News(v) = News(w) + Announced(e)
  <2> DEFINE f == [k \in 1..(n + 1) |-> Announced(v[k])]
             g == [k \in 1..n |-> Announced(w[k])]
  <2>1. f[n + 1] = Announced(e) /\ f[n + 1] \in 0..MaxQueue BY <1>1, EventWeight
  <2>2. \A k \in 1..n : f[k] = g[k] BY <1>1
  <2>3. News(v) = Sum(1..(n + 1), f) /\ News(w) = Sum(1..n, g) BY <1>1 DEF News, n
  <2> HIDE DEF f, g
  <2>4. Sum(1..n \cup {n + 1}, f) = Sum(1..n, f) + f[n + 1]
    BY <1>2, <1>3, <2>1, SumSplit
  <2>5. Sum(1..n, f) = Sum(1..n, g) BY <2>2, SumSame
  <2> QED BY <1>2, <2>1, <2>3, <2>4, <2>5
<1>5. Gone(v) = Gone(w) + Taken(e)
  <2> DEFINE f == [k \in 1..(n + 1) |-> Taken(v[k])]
             g == [k \in 1..n |-> Taken(w[k])]
  <2>1. f[n + 1] = Taken(e) /\ f[n + 1] \in 0..MaxQueue BY <1>1, EventWeight
  <2>2. \A k \in 1..n : f[k] = g[k] BY <1>1
  <2>3. Gone(v) = Sum(1..(n + 1), f) /\ Gone(w) = Sum(1..n, g) BY <1>1 DEF Gone, n
  <2> HIDE DEF f, g
  <2>4. Sum(1..n \cup {n + 1}, f) = Sum(1..n, f) + f[n + 1]
    BY <1>2, <1>3, <2>1, SumSplit
  <2>5. Sum(1..n, f) = Sum(1..n, g) BY <2>2, SumSame
  <2> QED BY <1>2, <2>1, <2>3, <2>4, <2>5
<1>6. e.kind # "start_init" => Inits(v) = Inits(w) BY <1>1, <1>2 DEF Inits, n
<1>7. e.kind = "start_init" => Inits(v) = Inits(w) \cup {Len(w) + 1}
  BY <1>1, <1>2 DEF Inits, n
<1> QED BY <1>1, <1>4, <1>5, <1>6, <1>7 DEF v

LEMMA WireTail ==
    ASSUME NEW w \in Seq(Event), w # <<>>
    PROVE  /\ Head(w) \in Event /\ Tail(w) \in Seq(Event)
           /\ News(w) = News(Tail(w)) + Announced(Head(w))
           /\ Gone(w) = Gone(Tail(w)) + Taken(Head(w))
           /\ \A k \in Inits(Tail(w)) : k + 1 \in Inits(w)
           /\ Head(w).kind = "start_init" <=> 1 \in Inits(w)
           /\ \A k \in Inits(w) \ {1} : k - 1 \in Inits(Tail(w))
<1> DEFINE v == Tail(w)
           n == Len(v)
<1>1. n \in Nat /\ v \in Seq(Event) /\ Len(w) = n + 1 /\ w[1] = Head(w)
      /\ Head(w) \in Event /\ \A k \in 1..n : v[k] = w[k + 1]
  BY HeadTailProperties
<1>2. \A k \in 1..n : k + 1 \in 1..(n + 1) BY <1>1
<1>3. 1 \in 1..(n + 1) BY <1>1
<1> HIDE DEF v, n
<1>4. News(w) = News(v) + Announced(Head(w))
  <2> DEFINE f == [k \in 1..(n + 1) |-> Announced(w[k])]
             g == [k \in 1..n |-> Announced(v[k])]
  <2>1. f[1] = Announced(Head(w)) /\ f[1] \in 0..MaxQueue BY <1>1, <1>3, EventWeight
  <2>2. \A k \in 1..n : g[k] = f[k + 1] BY <1>1, <1>2
  <2>3. News(w) = Sum(1..(n + 1), f) /\ News(v) = Sum(1..n, g) BY <1>1 DEF News, n
  <2> HIDE DEF f, g
  <2>4. Sum(1..(n + 1), f) = Sum(1..n, g) + f[1] BY <1>1, <2>1, <2>2, SumTail
  <2> QED BY <2>1, <2>3, <2>4
<1>5. Gone(w) = Gone(v) + Taken(Head(w))
  <2> DEFINE f == [k \in 1..(n + 1) |-> Taken(w[k])]
             g == [k \in 1..n |-> Taken(v[k])]
  <2>1. f[1] = Taken(Head(w)) /\ f[1] \in 0..MaxQueue BY <1>1, <1>3, EventWeight
  <2>2. \A k \in 1..n : g[k] = f[k + 1] BY <1>1, <1>2
  <2>3. Gone(w) = Sum(1..(n + 1), f) /\ Gone(v) = Sum(1..n, g) BY <1>1 DEF Gone, n
  <2> HIDE DEF f, g
  <2>4. Sum(1..(n + 1), f) = Sum(1..n, g) + f[1] BY <1>1, <2>1, <2>2, SumTail
  <2> QED BY <2>1, <2>3, <2>4
<1>6. \A k \in Inits(v) : k + 1 \in Inits(w) BY <1>1, <1>2 DEF Inits, n
<1>7. Head(w).kind = "start_init" <=> 1 \in Inits(w) BY <1>1, <1>3 DEF Inits
<1>8. \A k \in Inits(w) \ {1} : k - 1 \in Inits(v)
  <2> SUFFICES ASSUME NEW k \in Inits(w) \ {1} PROVE k - 1 \in Inits(v)
    OBVIOUS
  <2>1. k \in 1..(n + 1) /\ k # 1 /\ w[k].kind = "start_init" BY <1>1 DEF Inits
  <2>2. k - 1 \in 1..n /\ v[k - 1] = w[(k - 1) + 1] BY <1>1, <2>1
  <2>3. (k - 1) + 1 = k BY <2>1
  <2> QED BY <2>1, <2>2, <2>3 DEF Inits, n
<1> QED BY <1>1, <1>4, <1>5, <1>6, <1>7, <1>8 DEF v

\* sendText reaches the wire if there is a connection.
LEMMA TellMoves ==
    ASSUME Types, NEW e \in Event, Tell(e)
    PROVE  /\ wire' \in Seq(Event)
           /\ UNCHANGED <<posted, finishing, online, losses>>
           /\ ~online => wire' = wire
           /\ online => /\ News(wire') = News(wire) + Announced(e)
                        /\ Gone(wire') = Gone(wire) + Taken(e)
                        /\ e.kind # "start_init" => Inits(wire') = Inits(wire)
                        /\ e.kind = "start_init" =>
                               Inits(wire') = Inits(wire) \cup {Len(wire) + 1}
<1>1. wire \in Seq(Event) BY DEF Types
<1>2. CASE online
  <2>1. wire' = Append(wire, e) BY <1>2 DEF Tell
  <2> QED BY <1>1, <1>2, <2>1, WireAppend DEF Tell
<1>3. CASE ~online
  BY <1>1, <1>3 DEF Tell
<1> QED BY <1>2, <1>3

-----------------------------------------------------------------------------
(* Lemmas about the handlers and the buffer *)

LEMMA ActorFinite == IsFiniteSet(Actor)
<1>1. IsFiniteSet({Sender}) /\ IsFiniteSet({FreezeTimer}) BY FS_Singleton
<1>2. {Sender, FreezeTimer} = {Sender} \cup {FreezeTimer} OBVIOUS
<1> QED BY <1>1, <1>2, UploadFlowAssumption, FS_Union DEF Actor

\* What the chunks nobody was told of come to when one handler moves.
LEMMA UntoldMoves ==
    ASSUME Types, NEW a \in Actor, NEW l \in Locals, at' = [at EXCEPT ![a] = l]
    PROVE  /\ at' \in [Actor -> Locals]
           /\ at'[a] = l /\ \A c \in Actor \ {a} : at'[c] = at[c]
           /\ Untold \in Nat /\ Untold' \in Nat
           /\ Untold' + Keeps(at[a]) = Untold + Keeps(l)
<1>1. /\ at' \in [Actor -> Locals] /\ at'[a] = l
      /\ \A c \in Actor \ {a} : at'[c] = at[c]
  BY DEF Types
<1> DEFINE f == [c \in Actor |-> Keeps(at[c])]
           g == [c \in Actor |-> Keeps(at'[c])]
<1>2. \A k \in Locals : Keeps(k) \in 0..MaxQueue
  BY LimitsAssumption DEF Locals, Keeps
<1>3. f[a] = Keeps(at[a]) /\ f[a] \in 0..MaxQueue BY <1>2 DEF Types
<1>4. g[a] = Keeps(l) /\ g[a] \in 0..MaxQueue BY <1>1, <1>2
<1>5. \A c \in Actor \ {a} : f[c] = g[c] BY <1>1
<1>6. Untold = Sum(Actor, f) /\ Untold' = Sum(Actor, g) BY DEF Untold
<1> HIDE DEF f, g
<1>7. Sum(Actor, g) + f[a] = Sum(Actor, f) + g[a]
  BY <1>3, <1>4, <1>5, ActorFinite, SumUpdate
<1>8. Sum(Actor, f) \in Nat /\ Sum(Actor, g) \in Nat BY ActorFinite, SumType
<1> QED BY <1>1, <1>3, <1>4, <1>6, <1>7, <1>8

LEMMA NothingUntold ==
    ASSUME \A a \in Actor : Keeps(at[a]) = 0
    PROVE  Untold = 0
<1> DEFINE f == [a \in Actor |-> Keeps(at[a])]
<1>1. \A a \in Actor : f[a] = 0 OBVIOUS
<1> HIDE DEF f
<1>2. Points(Actor, f) = {} BY <1>1 DEF Points
<1> QED BY <1>2, FS_EmptySet DEF Untold, Sum, f

LEMMA UntoldKept ==
    ASSUME IInv, NEW a \in Actor, NEW l \in Locals, at' = [at EXCEPT ![a] = l],
           Keeps(at[a]) = 0, Keeps(l) = 0
    PROVE  at' \in [Actor -> Locals] /\ at'[a] = l /\ Untold' = Untold
<1>1. at' \in [Actor -> Locals] /\ at'[a] = l BY UntoldMoves DEF IInv
<1>2. Untold \in Nat /\ Untold' \in Nat /\ Untold' + Keeps(at[a]) = Untold + Keeps(l)
  BY UntoldMoves DEF IInv
<1>3. \A m, n \in Nat : m + 0 = n + 0 => m = n OBVIOUS
<1>4. Untold' = Untold BY <1>2, <1>3, Zenon
<1> QED BY <1>1, <1>4, Zenon

\* The chunks of a buffer within its limit are finitely many, and so are those of
\* them that an operation takes away.
LEMMA LostCount ==
    ASSUME NEW b \in BufferType(Receiver), NEW d, d.chunks \subseteq b.chunks,
           Cardinality(b.chunks) <= MaxQueue
    PROVE  /\ Cardinality(b.chunks) \in Nat /\ Cardinality(d.chunks) \in Nat
           /\ Lost(b, d) \in 0..MaxQueue
           /\ Cardinality(d.chunks) + Lost(b, d) = Cardinality(b.chunks)
           /\ Cardinality(d.chunks) <= MaxQueue
<1>1. IsFiniteSet(Index) BY LimitsAssumption, IntervalFinite DEF Index
<1>2. b.chunks \subseteq Index BY DEF BufferType
<1>3. IsFiniteSet(b.chunks) BY <1>1, <1>2, FS_Subset
<1>4. IsFiniteSet(d.chunks) BY <1>3, FS_Subset
<1>5. IsFiniteSet(b.chunks \ d.chunks)
      /\ Cardinality(b.chunks \ d.chunks) =
             Cardinality(b.chunks) - Cardinality(b.chunks \cap d.chunks)
  BY <1>3, FS_Difference
<1>6. b.chunks \cap d.chunks = d.chunks OBVIOUS
<1>7. /\ Cardinality(b.chunks) \in Nat /\ Cardinality(d.chunks) \in Nat
      /\ Cardinality(b.chunks \ d.chunks) \in Nat
  BY <1>3, <1>4, <1>5, FS_CardinalityType
<1>8. Lost(b, d) = Cardinality(b.chunks \ d.chunks) BY DEF Lost
<1>9. Cardinality(b.chunks \ d.chunks) = Cardinality(b.chunks) - Cardinality(d.chunks)
  BY <1>5, <1>6
<1> QED BY <1>7, <1>8, <1>9, LimitsAssumption

LEMMA UnfreezeEffect ==
    ASSUME NEW b \in BufferType(Receiver)
    PROVE  LET d == DropFreezing(b)
           IN  /\ d \in BufferType(Receiver) /\ d.top = b.top /\ d.eof = b.eof
               /\ d.chunks \subseteq b.chunks
<1> DEFINE u == [b EXCEPT !.freezing = FALSE]
<1>1. u \in BufferType(Receiver) /\ u.top = b.top /\ u.eof = b.eof /\ u.chunks = b.chunks
  BY DEF BufferType
<1> HIDE DEF u
<1>2. DropFreezing(b) = Sanitize(u) BY DEF DropFreezing, u
<1>3. /\ Sanitize(u) \in BufferType(Receiver) /\ Sanitize(u).top = u.top
      /\ Sanitize(u).eof = u.eof /\ Sanitize(u).chunks \subseteq u.chunks
  BY <1>1, SanitizeEffect, UploadFlowAssumption
<1> QED BY <1>1, <1>2, <1>3

-----------------------------------------------------------------------------
(* The handlers *)

\* The handler of a goes on with the locals l.  It may take chunks away and tell of
\* them later, and otherwise leaves alone what the page depends on.
Relays(a, l) ==
    /\ at' = [at EXCEPT ![a] = l]
    /\ buf' \in BufferType(Receiver) /\ buf'.chunks \subseteq buf.chunks
    /\ buf'.top = buf.top /\ buf'.eof = buf.eof
    /\ wire' \in Seq(Event) /\ News(wire') = News(wire) /\ Inits(wire') = Inits(wire)
    /\ UNCHANGED <<greeting, posted, finishing, online, losses, phase, sent, bufferUsed>>
    /\ l.step \notin {"insert", "tellNew"} /\ at[a].step \notin {"insert", "tellNew"}
    /\ online => Keeps(l) + Gone(wire') <= Lost(buf, buf') + Keeps(at[a]) + Gone(wire)

LEMMA RelaysKeeps ==
    ASSUME IInv, NEW a \in Actor, NEW l \in Locals, Relays(a, l)
    PROVE  IInv'
<1>1. /\ at' \in [Actor -> Locals] /\ at'[a] = l
      /\ \A c \in Actor \ {a} : at'[c] = at[c]
      /\ Untold \in Nat /\ Untold' \in Nat
      /\ Untold' + Keeps(at[a]) = Untold + Keeps(l)
  BY UntoldMoves DEF IInv, Relays
<1>2. Types' BY <1>1 DEF IInv, Types, Relays
<1>3. BufferHolds'
  <2>1. buf'.chunks \subseteq 1..buf'.top BY DEF IInv, BufferHolds, Relays
  <2>2. Cardinality(buf'.chunks) <= MaxQueue
    BY LostCount DEF IInv, Types, BufferHolds, Relays
  <2> QED BY <2>1, <2>2 DEF BufferHolds
<1>4. PageHolds' /\ GreetingHolds' BY DEF IInv, PageHolds, GreetingHolds, Relays
<1>5. In(Sender, "insert")' <=> In(Sender, "insert") BY <1>1 DEF Relays, In, Actor
<1>6. In(Sender, "tellNew")' <=> In(Sender, "tellNew") BY <1>1 DEF Relays, In, Actor
<1>7. NoChunkTwice' BY <1>5 DEF IInv, NoChunkTwice, Relays
<1>8. ToBeGreeted' <=> ToBeGreeted BY DEF ToBeGreeted, Relays
<1>9. OneUnderWay' BY <1>5, <1>6, <1>8 DEF IInv, OneUnderWay, Relays, One
<1>10. HeardOnce' BY <1>6 DEF IInv, HeardOnce, Relays, One
<1>11. InStep'
  <2>1. /\ Cardinality(buf.chunks) \in Nat /\ Cardinality(buf'.chunks) \in Nat
        /\ Lost(buf, buf') \in 0..MaxQueue
        /\ Cardinality(buf'.chunks) + Lost(buf, buf') = Cardinality(buf.chunks)
    BY LostCount DEF IInv, Types, BufferHolds, Relays
  <2>2. /\ Keeps(l) \in 0..MaxQueue /\ Keeps(at[a]) \in 0..MaxQueue
    BY LimitsAssumption DEF IInv, Types, Locals, Keeps
  <2>3. /\ News(wire) \in Nat /\ Gone(wire) \in Nat /\ Gone(wire') \in Nat
        /\ bufferUsed \in Nat /\ One(In(Sender, "tellNew")) \in Nat
    BY WireType DEF IInv, Types, Relays, One
  <2>4. /\ One(In(Sender, "tellNew")') = One(In(Sender, "tellNew"))
        /\ News(wire') = News(wire) /\ bufferUsed' = bufferUsed
    BY <1>6 DEF Relays, One
  <2> SUFFICES ASSUME losses = 0
               PROVE  /\ buf'.top = sent' + One(In(Sender, "tellNew")') + News(wire')
                      /\ Cardinality(buf'.chunks) + Untold' + Gone(wire')
                           <= bufferUsed' + One(In(Sender, "tellNew")') + News(wire')
    BY DEF InStep, Relays
  <2>5. buf'.top = sent' + One(In(Sender, "tellNew")') + News(wire')
    BY <2>4 DEF IInv, InStep, Relays
  <2>6. Keeps(l) + Gone(wire') <= Lost(buf, buf') + Keeps(at[a]) + Gone(wire)
    BY DEF Relays, IInv, GreetingHolds
  <2>7. Cardinality(buf'.chunks) + Untold' + Gone(wire')
            <= Cardinality(buf.chunks) + Untold + Gone(wire)
    BY <1>1, <2>1, <2>2, <2>3, <2>6, LimitsAssumption
  <2>8. Cardinality(buf.chunks) + Untold + Gone(wire)
            <= bufferUsed + One(In(Sender, "tellNew")) + News(wire)
    BY DEF IInv, InStep
  <2> QED BY <1>1, <2>1, <2>3, <2>4, <2>5, <2>7, <2>8
<1> QED BY <1>2, <1>3, <1>4, <1>7, <1>9, <1>10, <1>11 DEF IInv

LEMMA AtRestTyped == AtRest \in Locals /\ Keeps(AtRest) = 0
BY LimitsAssumption DEF AtRest, Locals, Steps, Keeps

LEMMA BeginConfirmKeeps ==
    ASSUME IInv, NEW c \in Receiver, NEW i \in Index, BeginConfirm(c, i)
    PROVE  IInv'
<1> DEFINE l == [AtRest EXCEPT !.step = "confirm", !.chunk = i,
                               !.old = NewChunkIsAllowed(buf)]
<1>1. /\ at[c].step = "idle" /\ at' = [at EXCEPT ![c] = l]
      /\ UNCHANGED <<buf, greeting, confirmed, link, page>>
  BY DEF BeginConfirm, Begin
<1>2. l \in Locals /\ l.step = "confirm" /\ Keeps(l) = 0
  <2>1. NewChunkIsAllowed(buf) \in BOOLEAN BY DEF NewChunkIsAllowed
  <2>2. i \in 0..MaxUploads BY LimitsAssumption DEF Index
  <2> QED BY <2>1, <2>2, AtRestTyped DEF Locals, Steps, Keeps
<1> HIDE DEF l
<1>3. Lost(buf, buf') \in Nat /\ Gone(wire) \in Nat
  BY <1>1, LostCount, WireType, LimitsAssumption DEF IInv, Types, BufferHolds
<1>4. Keeps(at[c]) = 0 BY <1>1 DEF Keeps
<1>5. Relays(c, l)
  BY <1>1, <1>2, <1>3, <1>4 DEF Relays, IInv, Types, link, page
<1> QED BY <1>2, <1>5, RelaysKeeps DEF Actor

LEMMA ConfirmKeeps ==
    ASSUME IInv, NEW c \in Receiver, Confirm(c)
    PROVE  IInv'
<1> DEFINE i == at[c].chunk
           l == [at[c] EXCEPT !.step = "tellRemoved", !.gone = Lost(buf, buf')]
<1>1. /\ at[c].step = "confirm" /\ buf' = SetChunkAsReceived(buf, i)
      /\ UNCHANGED <<greeting, link, page>>
      /\ IF i \in buf.chunks
         THEN at' = [at EXCEPT ![c].step = "tellRemoved", ![c].gone = Lost(buf, buf')]
         ELSE at' = [at EXCEPT ![c] = AtRest]
  BY DEF Confirm, Finish, In
<1>2. at \in [Actor -> Locals] /\ c \in Actor /\ buf \in BufferType(Receiver)
  BY DEF IInv, Types, Actor
<1>3. /\ buf' \in BufferType(Receiver) /\ buf'.chunks \subseteq buf.chunks
      /\ buf'.top = buf.top /\ buf'.eof = buf.eof
  BY <1>1, <1>2, ConfirmEffect, UploadFlowAssumption
<1>4. Lost(buf, buf') \in 0..MaxQueue
  BY <1>2, <1>3, LostCount DEF IInv, BufferHolds
<1>5. Keeps(at[c]) = 0 /\ Gone(wire) \in Nat
  BY <1>1, WireType DEF Keeps, IInv, Types
<1>6. CASE i \in buf.chunks
  <2>1. l \in Locals /\ l.step = "tellRemoved" /\ Keeps(l) = Lost(buf, buf')
    BY <1>2, <1>4 DEF Locals, Steps, Keeps
  <2>2. at' = [at EXCEPT ![c] = l] BY <1>1, <1>2, <1>6
  <2> HIDE DEF l
  <2>3. Relays(c, l)
    BY <1>1, <1>3, <1>4, <1>5, <2>1, <2>2 DEF Relays, IInv, Types, link, page
  <2> QED BY <1>2, <2>1, <2>3, RelaysKeeps
<1>7. CASE i \notin buf.chunks
  <2>1. Relays(c, AtRest)
    BY <1>1, <1>3, <1>4, <1>5, <1>7, AtRestTyped, LimitsAssumption
    DEF Relays, IInv, Types, link, page, AtRest
  <2> QED BY <1>2, <2>1, AtRestTyped, RelaysKeeps
<1> QED BY <1>6, <1>7

LEMMA BeginLeaveKeeps ==
    ASSUME IInv, NEW c \in Receiver, BeginLeave(c)
    PROVE  IInv'
<1> DEFINE l == [AtRest EXCEPT !.step = "sweep"]
<1>1. /\ at[c].step = "idle" /\ at' = [at EXCEPT ![c] = l]
      /\ buf' = RemoveConsumer(buf, c) /\ UNCHANGED <<greeting, link, page>>
  BY DEF BeginLeave, Begin
<1>2. l \in Locals /\ l.step = "sweep" /\ Keeps(l) = 0
  BY AtRestTyped DEF Locals, Steps, Keeps
<1> HIDE DEF l
<1>3. /\ buf' \in BufferType(Receiver) /\ buf'.chunks = buf.chunks
      /\ buf'.top = buf.top /\ buf'.eof = buf.eof
  BY <1>1 DEF RemoveConsumer, BufferType, IInv, Types
<1>4. Lost(buf, buf') \in Nat /\ Gone(wire) \in Nat
  <2>1. Lost(buf, buf') \in 0..MaxQueue
    BY <1>3, LostCount DEF IInv, Types, BufferHolds
  <2> QED BY <2>1, WireType, LimitsAssumption DEF IInv, Types
<1>5. Keeps(at[c]) = 0 BY <1>1 DEF Keeps
<1>6. Relays(c, l)
  BY <1>1, <1>2, <1>3, <1>4, <1>5 DEF Relays, IInv, Types, link, page
<1> QED BY <1>2, <1>6, RelaysKeeps DEF Actor

LEMMA SweepKeeps ==
    ASSUME IInv, NEW c \in Receiver, Sweep(c)
    PROVE  IInv'
<1> DEFINE l == [at[c] EXCEPT !.step = "tellLeft", !.gone = Lost(buf, buf')]
<1>1. /\ at[c].step = "sweep" /\ buf' = Sanitize(buf)
      /\ UNCHANGED <<greeting, link, page>>
  BY DEF Sweep, In
<1>2. at \in [Actor -> Locals] /\ c \in Actor /\ buf \in BufferType(Receiver)
  BY DEF IInv, Types, Actor
<1>3. /\ buf' \in BufferType(Receiver) /\ buf'.chunks \subseteq buf.chunks
      /\ buf'.top = buf.top /\ buf'.eof = buf.eof
  BY <1>1, <1>2, SanitizeEffect, UploadFlowAssumption
<1>4. Lost(buf, buf') \in 0..MaxQueue
  BY <1>2, <1>3, LostCount DEF IInv, BufferHolds
<1>5. Keeps(at[c]) = 0 /\ Gone(wire) \in Nat
  BY <1>1, WireType DEF Keeps, IInv, Types
<1>6. l \in Locals /\ l.step = "tellLeft" /\ Keeps(l) = Lost(buf, buf')
  BY <1>2, <1>4 DEF Locals, Steps, Keeps
<1>7. at' = [at EXCEPT ![c] = l] BY <1>2 DEF Sweep
<1> HIDE DEF l
<1>8. Relays(c, l)
  BY <1>1, <1>3, <1>4, <1>5, <1>6, <1>7 DEF Relays, IInv, Types, link, page
<1> QED BY <1>2, <1>6, <1>8, RelaysKeeps

LEMMA DropFreezeKeeps ==
    ASSUME IInv, DropFreeze
    PROVE  IInv'
<1> DEFINE a == FreezeTimer
           l == [AtRest EXCEPT !.step = "tellRemoved", !.gone = Lost(buf, buf')]
<1>1. /\ at[a].step = "idle" /\ at' = [at EXCEPT ![a] = l]
      /\ buf' = DropFreezing(buf) /\ UNCHANGED <<greeting, link, page>>
  BY DEF DropFreeze, Begin
<1>2. at \in [Actor -> Locals] /\ a \in Actor /\ buf \in BufferType(Receiver)
  BY DEF IInv, Types, Actor
<1>3. /\ buf' \in BufferType(Receiver) /\ buf'.chunks \subseteq buf.chunks
      /\ buf'.top = buf.top /\ buf'.eof = buf.eof
  BY <1>1, <1>2, UnfreezeEffect
<1>4. Lost(buf, buf') \in 0..MaxQueue
  BY <1>2, <1>3, LostCount DEF IInv, BufferHolds
<1>5. Keeps(at[a]) = 0 /\ Gone(wire) \in Nat
  BY <1>1, WireType DEF Keeps, IInv, Types
<1>6. l \in Locals /\ l.step = "tellRemoved" /\ Keeps(l) = Lost(buf, buf')
  BY <1>4, AtRestTyped DEF Locals, Steps, Keeps
<1> HIDE DEF l
<1>7. Relays(a, l)
  BY <1>1, <1>3, <1>4, <1>5, <1>6 DEF Relays, IInv, Types, link, page
<1> QED BY <1>2, <1>6, <1>7, RelaysKeeps

\* The wire after a handler of a told of the chunks it had removed.
LEMMA RemovedTold ==
    ASSUME IInv, NEW a \in Actor, at[a].step \in {"tellRemoved", "tellLeft"},
           IF at[a].gone # 0 THEN Tell(Removed(at[a].gone)) ELSE UNCHANGED link
    PROVE  /\ wire' \in Seq(Event) /\ News(wire') = News(wire)
           /\ Inits(wire') = Inits(wire)
           /\ UNCHANGED <<posted, finishing, online, losses>>
           /\ Gone(wire) \in Nat
           /\ online => Gone(wire') = Gone(wire) + at[a].gone
           /\ at[a].gone \in Nat
<1> DEFINE e == Removed(at[a].gone)
<1>1. at[a].gone \in 0..MaxQueue /\ wire \in Seq(Event) /\ Types
  BY DEF IInv, Types, Locals
<1>2. at[a].gone \in Nat BY <1>1, LimitsAssumption
<1>3. News(wire) \in Nat /\ Gone(wire) \in Nat BY <1>1, WireType
<1>4. CASE at[a].gone = 0
  BY <1>1, <1>3, <1>4 DEF link
<1>5. CASE at[a].gone # 0
  <2>1. at[a].gone \in 1..MaxQueue BY <1>1, <1>5, LimitsAssumption
  <2>2. e \in Event /\ Announced(e) = 0 /\ Taken(e) = at[a].gone /\ e.kind # "start_init"
    BY <2>1 DEF Event, Removed, Announced, Taken, One
  <2>3. Tell(e) BY <1>5
  <2> HIDE DEF e
  <2> QED BY <1>1, <1>2, <1>3, <2>2, <2>3, TellMoves
<1> QED BY <1>4, <1>5

LEMMA TellLeftKeeps ==
    ASSUME IInv, NEW c \in Receiver, TellLeft(c)
    PROVE  IInv'
<1>1. /\ at[c].step = "tellLeft" /\ at' = [at EXCEPT ![c] = AtRest]
      /\ IF at[c].gone # 0 THEN Tell(Removed(at[c].gone)) ELSE UNCHANGED link
      /\ UNCHANGED <<buf, greeting, page>>
  BY DEF TellLeft, In, Finish
<1>2. c \in Actor BY DEF Actor
<1>3. /\ wire' \in Seq(Event) /\ News(wire') = News(wire) /\ Inits(wire') = Inits(wire)
      /\ UNCHANGED <<posted, finishing, online, losses>> /\ Gone(wire) \in Nat
      /\ online => Gone(wire') = Gone(wire) + at[c].gone
      /\ at[c].gone \in Nat
  BY <1>1, <1>2, RemovedTold
<1>4. Lost(buf, buf') \in Nat
  BY <1>1, LostCount, LimitsAssumption DEF IInv, Types, BufferHolds
<1>5. Keeps(at[c]) = at[c].gone BY <1>1 DEF Keeps
<1>6. Relays(c, AtRest)
  BY <1>1, <1>3, <1>4, <1>5, AtRestTyped DEF Relays, IInv, Types, page, AtRest
<1> QED BY <1>2, <1>6, AtRestTyped, RelaysKeeps

LEMMA TellRemovedKeeps ==
    ASSUME IInv, NEW a \in Actor, TellRemoved(a)
    PROVE  IInv'
<1> DEFINE l == [at[a] EXCEPT !.step = "reread"]
<1>1. /\ at[a].step = "tellRemoved"
      /\ IF at[a].gone # 0 THEN Tell(Removed(at[a].gone)) ELSE UNCHANGED link
      /\ UNCHANGED <<buf, greeting, page>>
  BY DEF TellRemoved, In
<1>2. at \in [Actor -> Locals] BY DEF IInv, Types
<1>3. /\ wire' \in Seq(Event) /\ News(wire') = News(wire) /\ Inits(wire') = Inits(wire)
      /\ UNCHANGED <<posted, finishing, online, losses>> /\ Gone(wire) \in Nat
      /\ online => Gone(wire') = Gone(wire) + at[a].gone
      /\ at[a].gone \in Nat
  BY <1>1, RemovedTold
<1>4. Lost(buf, buf') \in Nat
  BY <1>1, LostCount, LimitsAssumption DEF IInv, Types, BufferHolds
<1>5. Keeps(at[a]) = at[a].gone BY <1>1 DEF Keeps
<1>6. l \in Locals /\ l.step = "reread" /\ Keeps(l) = 0
  BY <1>2 DEF Locals, Steps, Keeps
<1>7. at' = [at EXCEPT ![a] = l] BY <1>2 DEF TellRemoved, Go
<1> HIDE DEF l
<1>8. Relays(a, l)
  BY <1>1, <1>3, <1>4, <1>5, <1>6, <1>7 DEF Relays, IInv, Types, page
<1> QED BY <1>6, <1>8, RelaysKeeps

LEMMA RereadKeeps ==
    ASSUME IInv, NEW a \in Actor, Reread(a)
    PROVE  IInv'
<1> DEFINE l == [at[a] EXCEPT !.step = "publish", !.new = NewChunkIsAllowed(buf)]
<1>1. at[a].step = "reread" /\ UNCHANGED <<buf, greeting, link, page>>
  BY DEF Reread, In
<1>2. at \in [Actor -> Locals] BY DEF IInv, Types
<1>3. l \in Locals /\ l.step = "publish" /\ Keeps(l) = 0
  <2>1. NewChunkIsAllowed(buf) \in BOOLEAN BY DEF NewChunkIsAllowed
  <2> QED BY <1>2, <2>1 DEF Locals, Steps, Keeps
<1>4. at' = [at EXCEPT ![a] = l] BY <1>2 DEF Reread
<1> HIDE DEF l
<1>5. Lost(buf, buf') \in Nat /\ Gone(wire) \in Nat
  BY <1>1, LostCount, WireType, LimitsAssumption DEF IInv, Types, BufferHolds
<1>6. Keeps(at[a]) = 0 BY <1>1 DEF Keeps
<1>7. Relays(a, l)
  BY <1>1, <1>3, <1>4, <1>5, <1>6 DEF Relays, IInv, Types, link, page
<1> QED BY <1>3, <1>7, RelaysKeeps

LEMMA PublishKeeps ==
    ASSUME IInv, NEW a \in Actor, Publish(a)
    PROVE  IInv'
<1> DEFINE e == Allowed(at[a].new)
<1>1. /\ at[a].step = "publish" /\ at' = [at EXCEPT ![a] = AtRest]
      /\ Tell(e) \/ UNCHANGED link
      /\ UNCHANGED <<buf, greeting, page>>
  BY DEF Publish, In, Finish
<1>2. Types /\ wire \in Seq(Event) /\ News(wire) \in Nat /\ Gone(wire) \in Nat
  BY WireType DEF IInv, Types
<1>3. e \in Event /\ Announced(e) = 0 /\ Taken(e) = 0 /\ e.kind # "start_init"
  BY DEF IInv, Types, Locals, Event, Allowed, Announced, Taken, One
<1> HIDE DEF e
<1>4. /\ wire' \in Seq(Event) /\ News(wire') = News(wire) /\ Inits(wire') = Inits(wire)
      /\ UNCHANGED <<posted, finishing, online, losses>>
      /\ Gone(wire') = Gone(wire)
  <2>1. CASE UNCHANGED link BY <1>2, <2>1 DEF link
  <2>2. CASE Tell(e) BY <1>2, <1>3, <2>2, TellMoves DEF Types
  <2> QED BY <1>1, <2>1, <2>2
<1>5. Lost(buf, buf') \in Nat
  BY <1>1, LostCount, LimitsAssumption DEF IInv, Types, BufferHolds
<1>6. Keeps(at[a]) = 0 BY <1>1 DEF Keeps
<1>7. Relays(a, AtRest)
  BY <1>1, <1>2, <1>4, <1>5, <1>6, AtRestTyped DEF Relays, IInv, Types, page, AtRest
<1> QED BY <1>7, AtRestTyped, RelaysKeeps

\* The numbers the invariant speaks of.
LEMMA Numbers ==
    ASSUME IInv
    PROVE  /\ News(wire) \in Nat /\ Gone(wire) \in Nat /\ Untold \in Nat
           /\ Cardinality(buf.chunks) \in Nat /\ IsFiniteSet(buf.chunks)
           /\ buf.top \in Nat /\ buf.top <= MaxUploads /\ sent \in Nat
           /\ posted \in Nat /\ losses \in Nat /\ bufferUsed \in Nat
<1>1. IsFiniteSet(Index) /\ buf.chunks \subseteq Index
  BY LimitsAssumption, IntervalFinite DEF IInv, Types, BufferType, Index
<1>2. IsFiniteSet(buf.chunks) BY <1>1, FS_Subset
<1>3. Untold \in Nat BY ActorFinite, SumType DEF Untold
<1>4. buf.top \in 0..MaxUploads /\ sent \in 0..MaxUploads /\ losses \in 0..MaxLosses
      /\ posted \in Nat /\ bufferUsed \in Nat
  BY DEF IInv, Types, BufferType, Total
<1> QED
  BY <1>2, <1>3, <1>4, WireType, FS_CardinalityType, LimitsAssumption,
     UploadFlowAssumption DEF IInv, Types

\* The handlers of the sender.
LEMMA BeginAddChunkKeeps ==
    ASSUME IInv, BeginAddChunk
    PROVE  IInv'
<1> DEFINE l == [AtRest EXCEPT !.step = "insert", !.old = NewChunkIsAllowed(buf)]
<1>1. /\ posted > 0 /\ posted' = posted - 1 /\ at[Sender].step = "idle"
      /\ UNCHANGED <<buf, greeting, finishing, wire, online, losses, page>>
  BY DEF BeginAddChunk, Begin
<1>2. at' = [at EXCEPT ![Sender] = l] /\ Sender \in Actor
  BY DEF BeginAddChunk, Begin, Actor
<1>3. l \in Locals /\ l.step = "insert" /\ Keeps(l) = 0
  <2>1. NewChunkIsAllowed(buf) \in BOOLEAN BY DEF NewChunkIsAllowed
  <2> QED BY <2>1, AtRestTyped DEF Locals, Steps, Keeps
<1> HIDE DEF l
<1>4. at' \in [Actor -> Locals] /\ at'[Sender] = l /\ Untold' = Untold
  <2>1. Keeps(at[Sender]) = 0 BY <1>1 DEF Keeps
  <2> QED BY <1>2, <1>3, <2>1, UntoldKept
<1>5. ~In(Sender, "insert") /\ ~In(Sender, "tellNew")
      /\ In(Sender, "insert")' /\ ~In(Sender, "tellNew")'
  BY <1>1, <1>3, <1>4 DEF In
<1>6. Types' BY <1>1, <1>4 DEF IInv, Types, page
<1>7. BufferHolds' /\ PageHolds' /\ GreetingHolds' /\ (ToBeGreeted' <=> ToBeGreeted)
  BY <1>1 DEF IInv, BufferHolds, PageHolds, GreetingHolds, ToBeGreeted, page
<1>8. NoChunkTwice' BY <1>1, <1>5, Numbers DEF IInv, NoChunkTwice, page
<1>9. OneUnderWay' BY <1>1, <1>5, <1>7, Numbers DEF IInv, OneUnderWay, One, page
<1>10. HeardOnce' BY <1>1, <1>5 DEF IInv, HeardOnce, One, page
<1>11. InStep' BY <1>1, <1>4, <1>5 DEF IInv, InStep, One, page
<1> QED BY <1>6, <1>7, <1>8, <1>9, <1>10, <1>11 DEF IInv

LEMMA InsertKeeps ==
    ASSUME IInv, Insert
    PROVE  IInv'
<1>1. at[Sender].step = "insert" /\ UNCHANGED <<greeting, page>> /\ In(Sender, "insert")
      /\ ~In(Sender, "tellNew") /\ Sender \in Actor /\ Keeps(at[Sender]) = 0
  BY DEF Insert, In, Actor, Keeps
<1>2. buf \in BufferType(Receiver) /\ at \in [Actor -> Locals] BY DEF IInv, Types
<1>3. CASE NewChunkIsAllowed(buf)
  <2> DEFINE l == [at[Sender] EXCEPT !.step = "tellNew", !.chunk = buf'.top]
  <2>1. buf.top < MaxUploads
    <3>1. buf.top + posted + 1 <= sent + One(phase = "accept")
      BY <1>1 DEF IInv, NoChunkTwice, One
    <3>2. sent + One(phase = "accept") <= MaxUploads
      BY LimitsAssumption DEF IInv, Types, PageHolds, Total, One
    <3>3. One(phase = "accept") \in Nat BY DEF One
    <3> QED BY <3>1, <3>2, <3>3, Numbers, LimitsAssumption
  <2>2. buf' = AddChunk(buf) /\ UNCHANGED link BY <1>3 DEF Insert
  <2>3. /\ buf' \in BufferType(Receiver) /\ buf'.eof = buf.eof
        /\ buf'.top = buf.top + 1 /\ buf'.chunks = buf.chunks \cup {buf.top + 1}
    <3>1. AddChunk(buf).top = buf.top + 1 BY <1>2, <1>3 DEF AddChunk, BufferType
    <3>2. /\ AddChunk(buf) \in BufferType(Receiver) /\ AddChunk(buf).eof = buf.eof
          /\ \/ AddChunk(buf) = buf
             \/ AddChunk(buf).chunks = buf.chunks \cup {buf.top + 1}
      BY <1>2, <2>1, UploadFlowAssumption, AddChunkEffect
    <3>3. AddChunk(buf) # buf BY <3>1, Numbers
    <3> QED BY <2>2, <3>1, <3>2, <3>3
  <2>4. buf'.top \in 0..MaxUploads BY <2>3 DEF BufferType
  <2>5. l \in Locals /\ l.step = "tellNew" /\ Keeps(l) = 0
    BY <1>1, <1>2, <2>4 DEF Locals, Steps, Keeps
  <2>6. at' = [at EXCEPT ![Sender] = l] BY <1>2, <1>3 DEF Insert
  <2> HIDE DEF l
  <2>7. at' \in [Actor -> Locals] /\ at'[Sender] = l /\ Untold' = Untold
    BY <1>1, <2>5, <2>6, UntoldKept
  <2>8. ~In(Sender, "insert")' /\ In(Sender, "tellNew")' BY <2>5, <2>7 DEF In
  <2>9. Cardinality(buf'.chunks) \in Nat
        /\ Cardinality(buf'.chunks) <= Cardinality(buf.chunks) + 1
    BY <2>3, Numbers, OneMore
  <2>10. Types' BY <1>1, <2>2, <2>3, <2>7 DEF IInv, Types, link, page
  <2>11. BufferHolds'
    <3>1. buf'.chunks \subseteq 1..buf'.top
      BY <2>3, Numbers DEF IInv, BufferHolds
    <3>2. Cardinality(buf'.chunks) <= MaxQueue
      BY <1>3, <2>9, Numbers, LimitsAssumption DEF NewChunkIsAllowed
    <3> QED BY <3>1, <3>2 DEF BufferHolds
  <2>12. PageHolds' /\ GreetingHolds' /\ (ToBeGreeted' <=> ToBeGreeted)
    BY <1>1, <2>2, <2>3 DEF IInv, PageHolds, GreetingHolds, ToBeGreeted, page, link
  <2>13. NoChunkTwice'
    BY <1>1, <2>2, <2>3, <2>8, Numbers DEF IInv, NoChunkTwice, page, link
  <2>14. OneUnderWay'
    BY <1>1, <2>2, <2>8, <2>12, Numbers DEF IInv, OneUnderWay, One, page, link
  <2>15. HeardOnce'
    BY <1>1, <2>2, <2>3, <2>8, Numbers, LimitsAssumption
    DEF IInv, HeardOnce, One, page, link
  <2>16. InStep'
    BY <1>1, <2>2, <2>3, <2>7, <2>8, <2>9, Numbers DEF IInv, InStep, One, page, link
  <2> QED
    BY <2>10, <2>11, <2>12, <2>13, <2>14, <2>15, <2>16 DEF IInv
<1>4. CASE ~NewChunkIsAllowed(buf)
  <2>1. at' = [at EXCEPT ![Sender] = AtRest] /\ Tell(Refused) /\ UNCHANGED buf
    BY <1>4 DEF Insert, Finish
  <2>2. /\ Refused \in Event /\ Announced(Refused) = 0 /\ Taken(Refused) = 0
        /\ Refused.kind # "start_init"
    BY DEF Event, Refused, Announced, Taken, One
  <2>3. wire' \in Seq(Event) /\ UNCHANGED <<posted, finishing, online, losses>>
        /\ News(wire') = News(wire) /\ Gone(wire') = Gone(wire)
        /\ Inits(wire') = Inits(wire)
    <3>1. Types /\ online \in BOOLEAN BY DEF IInv, Types
    <3> QED BY <2>1, <2>2, <3>1, Numbers, TellMoves
  <2>4. at' \in [Actor -> Locals] /\ at'[Sender] = AtRest /\ Untold' = Untold
    BY <1>1, <2>1, AtRestTyped, UntoldKept
  <2>5. ~In(Sender, "insert")' /\ ~In(Sender, "tellNew")' BY <2>4 DEF In, AtRest
  <2>6. Types' BY <1>1, <2>1, <2>3, <2>4 DEF IInv, Types, page
  <2>7. BufferHolds' /\ PageHolds' /\ GreetingHolds' /\ (ToBeGreeted' <=> ToBeGreeted)
    BY <1>1, <2>1, <2>3, SMTT(20)
    DEF IInv, BufferHolds, PageHolds, GreetingHolds, ToBeGreeted, page
  <2>8. NoChunkTwice'
    BY <1>1, <2>1, <2>3, <2>5, Numbers, SMTT(20) DEF IInv, NoChunkTwice, page
  <2>9. OneUnderWay'
    BY <1>1, <2>1, <2>3, <2>5, <2>7, Numbers, SMTT(20)
    DEF IInv, OneUnderWay, One, page
  <2>10. HeardOnce' BY <1>1, <2>1, <2>3, <2>5 DEF IInv, HeardOnce, One, page
  <2>11. InStep' BY <1>1, <2>1, <2>3, <2>4, <2>5 DEF IInv, InStep, One, page
  <2> QED BY <2>6, <2>7, <2>8, <2>9, <2>10, <2>11 DEF IInv
<1> QED BY <1>3, <1>4

LEMMA TellNewKeeps ==
    ASSUME IInv, TellNew
    PROVE  IInv'
<1> DEFINE l == [at[Sender] EXCEPT !.step = "reread"]
<1>1. at[Sender].step = "tellNew" /\ UNCHANGED <<buf, greeting, page>>
      /\ In(Sender, "tellNew") /\ ~In(Sender, "insert") /\ Tell(New)
      /\ Sender \in Actor /\ Keeps(at[Sender]) = 0
  BY DEF TellNew, In, Actor, Keeps
<1>2. Types /\ at \in [Actor -> Locals] /\ online \in BOOLEAN BY DEF IInv, Types
<1>3. at' = [at EXCEPT ![Sender] = l] BY <1>2 DEF TellNew, Go
<1>4. l \in Locals /\ l.step = "reread" /\ Keeps(l) = 0
  BY <1>1, <1>2 DEF Locals, Steps, Keeps
<1> HIDE DEF l
<1>5. at' \in [Actor -> Locals] /\ at'[Sender] = l /\ Untold' = Untold
  BY <1>1, <1>3, <1>4, UntoldKept
<1>6. ~In(Sender, "insert")' /\ ~In(Sender, "tellNew")' BY <1>4, <1>5 DEF In
<1>7. /\ New \in Event /\ Announced(New) = 1 /\ Taken(New) = 0
      /\ New.kind # "start_init"
  BY DEF Event, New, Announced, Taken, One
<1>8. wire' \in Seq(Event) /\ UNCHANGED <<posted, finishing, online, losses>>
      /\ Inits(wire') = Inits(wire) /\ Gone(wire') = Gone(wire)
      /\ News(wire') \in Nat /\ News(wire') <= News(wire) + 1
      /\ (online => News(wire') = News(wire) + 1)
  BY <1>1, <1>2, <1>7, Numbers, TellMoves, WireType
<1>9. Types' BY <1>1, <1>5, <1>8 DEF IInv, Types, page
<1>10. BufferHolds' /\ PageHolds' /\ GreetingHolds' /\ (ToBeGreeted' <=> ToBeGreeted)
  BY <1>1, <1>8
  DEF IInv, BufferHolds, PageHolds, GreetingHolds, ToBeGreeted, page
<1>11. NoChunkTwice'
  BY <1>1, <1>6, <1>8, Numbers DEF IInv, NoChunkTwice, page
<1>12. OneUnderWay'
  BY <1>1, <1>6, <1>8, <1>10, Numbers, SMTT(20) DEF IInv, OneUnderWay, One, page
<1>13. One(In(Sender, "tellNew")) = 1 /\ One(In(Sender, "tellNew")') = 0
  BY <1>1, <1>6 DEF One
<1>14. HeardOnce'
  <2>1. 1 + News(wire) <= buf.top /\ bufferUsed + 1 + News(wire) <= MaxQueue + buf.top
    BY <1>13 DEF IInv, HeardOnce
  <2>2. /\ News(wire) \in Nat /\ buf.top \in Nat /\ bufferUsed \in Nat /\ MaxQueue \in Nat
        /\ News(wire') \in Nat /\ News(wire') <= News(wire) + 1
    BY <1>8, Numbers, LimitsAssumption
  <2>3. 0 + News(wire') <= buf.top BY <2>1, <2>2
  <2>4. bufferUsed + 0 + News(wire') <= MaxQueue + buf.top BY <2>1, <2>2
  <2> QED BY <1>1, <1>13, <2>3, <2>4 DEF HeardOnce, page
<1>15. InStep'
  <2> SUFFICES ASSUME losses = 0
               PROVE  /\ buf.top = sent + 0 + News(wire')
                      /\ Cardinality(buf.chunks) + Untold + Gone(wire)
                           <= bufferUsed + 0 + News(wire')
    BY <1>1, <1>5, <1>8, <1>13 DEF InStep, page
  <2>1. News(wire') = News(wire) + 1 BY <1>8 DEF IInv, GreetingHolds
  <2>2. /\ buf.top = sent + 1 + News(wire)
        /\ Cardinality(buf.chunks) + Untold + Gone(wire) <= bufferUsed + 1 + News(wire)
    BY <1>13 DEF IInv, InStep
  <2> QED BY <2>1, <2>2, Numbers
<1> QED BY <1>9, <1>10, <1>11, <1>12, <1>14, <1>15 DEF IInv

LEMMA EndOfFileKeeps ==
    ASSUME IInv, EndOfFile
    PROVE  IInv'
<1>1. finishing /\ finishing' = FALSE /\ buf' = SetEndOfFile(buf)
      /\ UNCHANGED <<at, greeting, posted, wire, online, losses, page>>
  BY DEF EndOfFile
<1>2. /\ buf' \in BufferType(Receiver) /\ buf'.chunks = buf.chunks
      /\ buf'.top = buf.top
  BY <1>1 DEF SetEndOfFile, BufferType, IInv, Types
<1>3. Types' BY <1>1, <1>2 DEF IInv, Types, page
<1>4. BufferHolds' /\ PageHolds' /\ GreetingHolds' /\ (ToBeGreeted' <=> ToBeGreeted)
  BY <1>1, <1>2 DEF IInv, BufferHolds, PageHolds, GreetingHolds, ToBeGreeted, page
<1>5. Untold' = Untold /\ In(Sender, "insert")' = In(Sender, "insert")
      /\ In(Sender, "tellNew")' = In(Sender, "tellNew")
  BY <1>1 DEF Untold, In
<1>6. NoChunkTwice' /\ OneUnderWay' /\ HeardOnce' /\ InStep'
  BY <1>1, <1>2, <1>4, <1>5
  DEF IInv, NoChunkTwice, OneUnderWay, HeardOnce, InStep, One, page
<1> QED BY <1>3, <1>4, <1>6 DEF IInv

-----------------------------------------------------------------------------
(* The connection and the page *)

LEMMA BreakKeeps ==
    ASSUME IInv, Break
    PROVE  IInv'
<1>1. /\ online /\ losses < MaxLosses /\ online' = FALSE /\ losses' = losses + 1
      /\ wire' = <<>> /\ posted' \in 0..posted /\ finishing' \in {finishing, FALSE}
      /\ UNCHANGED <<buf, at, page>>
  BY DEF Break
<1>2. greeting' = [greeting EXCEPT !.step = "none"] BY DEF Break
<1>3. greeting' \in [step: {"none", "list", "send"}, chunks: 0..MaxQueue]
      /\ greeting'.step = "none"
  BY <1>2 DEF IInv, Types
<1>4. News(wire') = 0 /\ Gone(wire') = 0 /\ Inits(wire') = {} BY <1>1, WireEmpty
<1>5. losses' \in 0..MaxLosses /\ losses' # 0 /\ posted' \in Nat /\ posted' <= posted
  <2>1. losses \in Nat /\ MaxLosses \in Nat /\ posted \in Nat
    BY Numbers, UploadFlowAssumption
  <2>2. losses' \in 0..MaxLosses /\ losses' # 0 BY <1>1, <2>1
  <2>3. posted' \in Nat /\ posted' <= posted BY <1>1, <2>1
  <2> QED BY <2>2, <2>3
<1>6. Types'
  <2>1. <<>> \in Seq(Event) BY EmptySeq
  <2>2. wire' \in Seq(Event) BY <1>1, <2>1
  <2>3. online' \in BOOLEAN /\ finishing' \in BOOLEAN BY <1>1 DEF IInv, Types
  <2> QED BY <1>1, <1>3, <1>5, <2>2, <2>3 DEF IInv, Types, page
<1>7. BufferHolds' /\ PageHolds'
  <2>1. finishing' => finishing BY <1>1 DEF IInv, Types
  <2> QED BY <1>1, <2>1 DEF IInv, BufferHolds, PageHolds, page
<1>8. GreetingHolds' BY <1>1, <1>3, <1>4, <1>5 DEF GreetingHolds
<1>9. In(Sender, "insert")' = In(Sender, "insert")
      /\ In(Sender, "tellNew")' = In(Sender, "tellNew")
  BY <1>1 DEF In
<1>10. NoChunkTwice'
  <2> DEFINE insert == IF In(Sender, "insert") THEN 1 ELSE 0
             accept == IF phase = "accept" THEN 1 ELSE 0
  <2>1. buf.top + posted + insert <= sent + accept BY DEF IInv, NoChunkTwice
  <2>2. insert \in {0, 1} /\ accept \in {0, 1} OBVIOUS
  <2>3. buf.top \in Nat /\ posted \in Nat /\ sent \in Nat BY Numbers
  <2>4. insert' = insert /\ accept' = accept /\ sent' = sent /\ buf' = buf
    BY <1>1, <1>9 DEF page
  <2> HIDE DEF insert, accept
  <2>5. buf.top + posted' + insert <= sent + accept BY <1>5, <2>1, <2>2, <2>3
  <2> QED BY <2>4, <2>5 DEF NoChunkTwice, insert, accept
<1>11. OneUnderWay'
  <2>1. posted + One(In(Sender, "insert")) + One(In(Sender, "tellNew")) + News(wire)
            + One(ToBeGreeted) <= One(phase = "accept") + losses
    BY DEF IInv, OneUnderWay
  <2>2. One(ToBeGreeted') = 1 BY <1>1 DEF ToBeGreeted, One
  <2>3. \A q : One(q) \in {0, 1} BY DEF One
  <2>4. posted' + One(In(Sender, "insert")) + One(In(Sender, "tellNew")) + 0 + 1
            <= One(phase = "accept") + (losses + 1)
    BY <1>5, <2>1, <2>3, Numbers
  <2> QED BY <1>1, <1>4, <1>9, <2>2, <2>4 DEF OneUnderWay, page
<1>12. HeardOnce'
  <2> DEFINE T == One(In(Sender, "tellNew"))
  <2>1. T + News(wire) <= buf.top /\ bufferUsed + T + News(wire) <= MaxQueue + buf.top
    BY DEF IInv, HeardOnce
  <2>2. T \in {0, 1} BY DEF One
  <2>3. News(wire) \in Nat /\ buf.top \in Nat /\ bufferUsed \in Nat /\ MaxQueue \in Nat
    BY Numbers, LimitsAssumption
  <2>4. T' = T /\ bufferUsed' = bufferUsed /\ buf' = buf BY <1>1, <1>9 DEF page
  <2> HIDE DEF T
  <2>5. T + 0 <= buf.top /\ bufferUsed + T + 0 <= MaxQueue + buf.top
    BY <2>1, <2>2, <2>3
  <2> QED BY <1>4, <2>4, <2>5 DEF HeardOnce, T
<1>13. InStep' BY <1>5 DEF InStep
<1> QED BY <1>6, <1>7, <1>8, <1>10, <1>11, <1>12, <1>13 DEF IInv

\* A step of the greeting, before its start_init reaches the page.
LEMMA GreetsKeeps ==
    ASSUME IInv, wire' \in Seq(Event), News(wire') = News(wire),
           losses # 0, ToBeGreeted, ToBeGreeted', GreetingHolds', online' \in BOOLEAN,
           greeting' \in [step: {"none", "list", "send"}, chunks: 0..MaxQueue],
           UNCHANGED <<buf, at, posted, finishing, losses, page>>
    PROVE  IInv'
<1>1. Types' BY DEF IInv, Types, page
<1>2. BufferHolds' /\ PageHolds' BY DEF IInv, BufferHolds, PageHolds, page
<1>3. NoChunkTwice' /\ OneUnderWay' /\ HeardOnce' /\ InStep'
  BY DEF IInv, NoChunkTwice, OneUnderWay, HeardOnce, InStep, In, One, page
<1> QED BY <1>1, <1>2, <1>3 DEF IInv

LEMMA ConnectKeeps ==
    ASSUME IInv, Connect
    PROVE  IInv'
<1>1. /\ ~online /\ online' = TRUE /\ greeting' = [step |-> "list", chunks |-> 0]
      /\ UNCHANGED <<buf, at, posted, finishing, wire, losses, page>>
  BY DEF Connect
<1>2. greeting' \in [step: {"none", "list", "send"}, chunks: 0..MaxQueue]
      /\ greeting'.step = "list"
  BY <1>1, LimitsAssumption
<1>3. losses # 0 /\ Inits(wire) = {} BY <1>1 DEF IInv, GreetingHolds
<1>4. GreetingHolds' BY <1>1, <1>2, <1>3 DEF GreetingHolds
<1>5. ToBeGreeted /\ ToBeGreeted' BY <1>1, <1>2 DEF ToBeGreeted
<1> QED BY <1>1, <1>2, <1>3, <1>4, <1>5, GreetsKeeps DEF IInv, Types

LEMMA ListChunksKeeps ==
    ASSUME IInv, ListChunks
    PROVE  IInv'
<1>1. /\ greeting.step = "list"
      /\ greeting' = [step |-> "send", chunks |-> Cardinality(buf.chunks)]
      /\ UNCHANGED <<buf, at, posted, finishing, wire, online, losses, page>>
  BY DEF ListChunks, link
<1>2. greeting' \in [step: {"none", "list", "send"}, chunks: 0..MaxQueue]
      /\ greeting'.step = "send"
  BY <1>1, Numbers, LimitsAssumption DEF IInv, BufferHolds
<1>3. losses # 0 BY <1>1 DEF IInv, GreetingHolds
<1>4. GreetingHolds' BY <1>1, <1>2 DEF IInv, GreetingHolds
<1>5. ToBeGreeted /\ ToBeGreeted' BY <1>1, <1>2 DEF ToBeGreeted
<1> QED BY <1>1, <1>2, <1>3, <1>4, <1>5, GreetsKeeps DEF IInv, Types

LEMMA SendStartInitKeeps ==
    ASSUME IInv, SendStartInit
    PROVE  IInv'
<1> DEFINE e == StartInit(greeting.chunks)
<1>1. /\ greeting.step = "send" /\ Tell(e)
      /\ greeting' = [greeting EXCEPT !.step = "none"] /\ UNCHANGED <<buf, at, page>>
  BY DEF SendStartInit
<1>2. greeting' \in [step: {"none", "list", "send"}, chunks: 0..MaxQueue]
      /\ greeting'.step = "none"
  BY <1>1 DEF IInv, Types
<1>3. e \in Event /\ Announced(e) = 0 /\ e.kind = "start_init"
  BY DEF IInv, Types, Event, StartInit, Announced, One
<1>4. online /\ losses # 0 /\ Inits(wire) = {} BY <1>1 DEF IInv, GreetingHolds
<1> HIDE DEF e
<1>5. /\ wire' \in Seq(Event) /\ News(wire') = News(wire)
      /\ UNCHANGED <<posted, finishing, online, losses>>
      /\ Inits(wire') = {Len(wire) + 1}
  <2>1. Types /\ Tell(e) /\ News(wire) + 0 = News(wire) BY <1>1, Numbers DEF IInv
  <2> QED BY <1>3, <1>4, <2>1, TellMoves
<1>6. GreetingHolds' BY <1>2, <1>4, <1>5 DEF GreetingHolds
<1>7. ToBeGreeted /\ ToBeGreeted' BY <1>1, <1>5 DEF ToBeGreeted
<1> QED BY <1>1, <1>2, <1>4, <1>5, <1>6, <1>7, GreetsKeeps DEF IInv, Types

LEMMA SendChunkKeeps ==
    ASSUME IInv, SendChunk
    PROVE  IInv'
<1>1. /\ phase = "send" /\ sent < Total /\ posted' = posted + 1 /\ phase' = "accept"
      /\ UNCHANGED <<buf, at, greeting, finishing, wire, online, losses, sent, bufferUsed>>
  BY DEF SendChunk, server
<1>2. Types' BY <1>1 DEF IInv, Types
<1>3. BufferHolds' /\ PageHolds' /\ GreetingHolds' /\ (ToBeGreeted' <=> ToBeGreeted)
  BY <1>1 DEF IInv, BufferHolds, PageHolds, GreetingHolds, ToBeGreeted
<1>4. In(Sender, "insert")' = In(Sender, "insert")
      /\ In(Sender, "tellNew")' = In(Sender, "tellNew") /\ Untold' = Untold
  BY <1>1 DEF In, Untold
<1>5. NoChunkTwice' BY <1>1, <1>4, Numbers DEF IInv, NoChunkTwice
<1>6. OneUnderWay' BY <1>1, <1>3, <1>4, Numbers DEF IInv, OneUnderWay, One
<1>7. HeardOnce' BY <1>1, <1>4 DEF IInv, HeardOnce, One
<1>8. InStep' BY <1>1, <1>4 DEF IInv, InStep, One
<1> QED BY <1>2, <1>3, <1>5, <1>6, <1>7, <1>8 DEF IInv

LEMMA FinishUploadKeeps ==
    ASSUME IInv, FinishUpload
    PROVE  IInv'
<1>1. /\ phase = "send" /\ sent = Total /\ phase' = "finished" /\ finishing' = online
      /\ UNCHANGED <<buf, at, greeting, posted, wire, online, losses, sent, bufferUsed>>
  BY DEF FinishUpload, server
<1>2. Types' BY <1>1 DEF IInv, Types
<1>3. BufferHolds' /\ PageHolds' /\ GreetingHolds' /\ (ToBeGreeted' <=> ToBeGreeted)
  BY <1>1 DEF IInv, BufferHolds, PageHolds, GreetingHolds, ToBeGreeted
<1>4. In(Sender, "insert")' = In(Sender, "insert")
      /\ In(Sender, "tellNew")' = In(Sender, "tellNew") /\ Untold' = Untold
  BY <1>1 DEF In, Untold
<1>5. NoChunkTwice' BY <1>1, <1>4 DEF IInv, NoChunkTwice
<1>6. OneUnderWay' BY <1>1, <1>3, <1>4 DEF IInv, OneUnderWay, One
<1>7. HeardOnce' BY <1>1, <1>4 DEF IInv, HeardOnce, One
<1>8. InStep' BY <1>1, <1>4 DEF IInv, InStep, One
<1> QED BY <1>2, <1>3, <1>5, <1>6, <1>7, <1>8 DEF IInv

LEMMA StutterKeeps ==
    ASSUME IInv, UNCHANGED vars
    PROVE  IInv'
<1>1. UNCHANGED <<buf, at, greeting, posted, finishing, wire, online, losses, phase,
                  sent, bufferUsed>>
  BY DEF vars, server, link, page
<1>2. Types' /\ BufferHolds' /\ PageHolds' /\ GreetingHolds'
      /\ (ToBeGreeted' <=> ToBeGreeted)
  BY <1>1 DEF IInv, Types, BufferHolds, PageHolds, GreetingHolds, ToBeGreeted
<1>3. In(Sender, "insert")' = In(Sender, "insert")
      /\ In(Sender, "tellNew")' = In(Sender, "tellNew") /\ Untold' = Untold
  BY <1>1 DEF In, Untold
<1>4. NoChunkTwice' /\ OneUnderWay' /\ HeardOnce' /\ InStep'
  BY <1>1, <1>2, <1>3 DEF IInv, NoChunkTwice, OneUnderWay, HeardOnce, InStep, One
<1> QED BY <1>2, <1>4 DEF IInv

\* The page takes an event off the wire.
LEMMA ReceiveMoves ==
    ASSUME IInv, Receive
    PROVE  LET e == Head(wire)
           IN  /\ e \in Event /\ wire' \in Seq(Event)
               /\ News(wire') \in Nat /\ Gone(wire') \in Nat
               /\ News(wire) = News(wire') + Announced(e)
               /\ Gone(wire) = Gone(wire') + Taken(e)
               /\ UNCHANGED <<buf, at, greeting, posted, finishing, online, losses>>
               /\ GreetingHolds'
               /\ e.kind # "start_init" => (ToBeGreeted' <=> ToBeGreeted)
               /\ e.kind = "start_init" => ToBeGreeted /\ ~ToBeGreeted'
<1> DEFINE e == Head(wire)
<1>1. /\ wire # <<>> /\ wire' = Tail(wire)
      /\ UNCHANGED <<buf, at, greeting, posted, finishing, online, losses>>
  BY DEF Receive, server
<1>2. wire \in Seq(Event) BY DEF IInv, Types
<1>3. /\ e \in Event /\ wire' \in Seq(Event)
      /\ News(wire) = News(wire') + Announced(e)
      /\ Gone(wire) = Gone(wire') + Taken(e)
      /\ \A k \in Inits(wire') : k + 1 \in Inits(wire)
      /\ e.kind = "start_init" <=> 1 \in Inits(wire)
      /\ \A k \in Inits(wire) \ {1} : k - 1 \in Inits(wire')
  BY <1>1, <1>2, WireTail
<1> HIDE DEF e
<1>4. News(wire') \in Nat /\ Gone(wire') \in Nat BY <1>3, WireType
<1>5. \A k \in Inits(wire') : k \in Nat \ {0} BY <1>3 DEF Inits
<1>6. GreetingHolds BY DEF IInv
<1>7. GreetingHolds'
  <2>1. Inits(wire) = {} => Inits(wire') = {} BY <1>3
  <2>2. \A j, k \in Inits(wire') : j = k
    <3> SUFFICES ASSUME NEW j \in Inits(wire'), NEW k \in Inits(wire') PROVE j = k
      OBVIOUS
    <3>1. j + 1 = k + 1 BY <1>3, <1>6 DEF GreetingHolds
    <3> QED BY <1>5, <3>1
  <2> QED BY <1>1, <1>6, <2>1, <2>2 DEF GreetingHolds
<1>8. ASSUME e.kind # "start_init" PROVE ToBeGreeted' <=> ToBeGreeted
  <2>1. Inits(wire') = {} <=> Inits(wire) = {} BY <1>3, <1>8
  <2> QED BY <1>1, <2>1 DEF ToBeGreeted
<1>9. ASSUME e.kind = "start_init" PROVE ToBeGreeted /\ ~ToBeGreeted'
  <2>1. 1 \in Inits(wire) BY <1>3, <1>9
  <2>2. online /\ greeting.step = "none" BY <1>6, <2>1 DEF GreetingHolds
  <2>3. Inits(wire') = {}
    <3> SUFFICES ASSUME NEW k \in Inits(wire') PROVE FALSE
      OBVIOUS
    <3>1. k + 1 = 1 BY <1>3, <1>6, <2>1 DEF GreetingHolds
    <3> QED BY <1>5, <3>1
  <2> QED BY <1>1, <2>1, <2>2, <2>3 DEF ToBeGreeted
<1> QED BY <1>1, <1>3, <1>4, <1>7, <1>8, <1>9 DEF e

\* What the page does with an event, as the invariant sees it.
LEMMA ReceiveKeeps ==
    ASSUME IInv, Receive
    PROVE  IInv'
<1> DEFINE e == Head(wire)
           T == One(In(Sender, "tellNew"))
           I == One(In(Sender, "insert"))
           W == One(phase = "accept")
           Wn == One(phase' = "accept")
           G == One(ToBeGreeted)
           Gn == One(ToBeGreeted')
<1>1. /\ e \in Event /\ wire' \in Seq(Event)
      /\ News(wire') \in Nat /\ Gone(wire') \in Nat
      /\ News(wire) = News(wire') + Announced(e)
      /\ Gone(wire) = Gone(wire') + Taken(e)
      /\ UNCHANGED <<buf, at, greeting, posted, finishing, online, losses>>
      /\ GreetingHolds'
      /\ e.kind # "start_init" => (ToBeGreeted' <=> ToBeGreeted)
      /\ e.kind = "start_init" => ToBeGreeted /\ ~ToBeGreeted'
  BY ReceiveMoves
<1>2. /\ \/ e.kind = "new_chunk" /\ ChunkAccepted(bufferUsed + 1)
         \/ e.kind = "chunk_removed" /\ ChunksGone(e.n)
         \/ /\ e.kind = "new_chunk_allowed"
            /\ phase' = IF phase = "space" /\ e.status THEN "send" ELSE phase
            /\ UNCHANGED <<sent, bufferUsed>>
         \/ e.kind = "start_init" /\ Resume(e.n)
         \/ e.kind = "add_chunk_failure" /\ UNCHANGED page
  BY DEF Receive
<1> HIDE DEF e
<1>3. /\ phase \in {"send", "accept", "space", "finished"} /\ sent \in 0..MaxUploads
      /\ phase = "accept" => sent < MaxUploads
      /\ phase = "finished" => sent = MaxUploads
  BY DEF IInv, Types, PageHolds, Total
<1>4. /\ \A q : One(q) \in {0, 1} BY DEF One
<1>5. In(Sender, "insert")' = In(Sender, "insert")
      /\ In(Sender, "tellNew")' = In(Sender, "tellNew") /\ Untold' = Untold
  BY <1>1 DEF In, Untold
<1>6. BufferHolds' BY <1>1 DEF IInv, BufferHolds
<1>7. /\ buf.top + posted + I <= sent + W
      /\ posted + I + T + News(wire) + G <= W + losses
      /\ T + News(wire) <= buf.top
      /\ bufferUsed + T + News(wire) <= MaxQueue + buf.top
      /\ losses = 0 =>
             /\ buf.top = sent + T + News(wire)
             /\ Cardinality(buf.chunks) + Untold + Gone(wire)
                    <= bufferUsed + T + News(wire)
  BY DEF IInv, NoChunkTwice, OneUnderWay, HeardOnce, InStep, One
\* What is left to show of an event, one kind at a time.
<1> DEFINE Goal ==
             /\ phase' \in {"send", "accept", "space", "finished"}
             /\ sent' \in 0..MaxUploads /\ bufferUsed' \in Nat
             /\ phase' = "accept" => sent' < MaxUploads
             /\ phase' = "finished" => sent' = MaxUploads
             /\ phase = "finished" => phase' = "finished"
             /\ buf.top + posted + I <= sent' + Wn
             /\ posted + I + T + News(wire') + Gn
                    <= Wn + losses
             /\ T + News(wire') <= buf.top
             /\ bufferUsed' + T + News(wire') <= MaxQueue + buf.top
             /\ losses = 0 =>
                    /\ buf.top = sent' + T + News(wire')
                    /\ Cardinality(buf.chunks) + Untold + Gone(wire')
                           <= bufferUsed' + T + News(wire')
<1>8. ASSUME Goal PROVE IInv'
  <2>1. Types' BY <1>1, <1>8 DEF IInv, Types, Total
  <2>2. PageHolds' BY <1>1, <1>8 DEF IInv, PageHolds, Total
  <2>3. NoChunkTwice' /\ OneUnderWay' /\ HeardOnce' /\ InStep'
    BY <1>1, <1>5, <1>8 DEF NoChunkTwice, OneUnderWay, HeardOnce, InStep, One
  <2> QED BY <1>1, <1>6, <2>1, <2>2, <2>3 DEF IInv
<1>9. T \in {0, 1} /\ I \in {0, 1} /\ G \in {0, 1} /\ W \in {0, 1} BY <1>4
<1> HIDE DEF T, I, W, Wn, G, Gn
<1>14. /\ News(wire') \in Nat /\ Gone(wire') \in Nat
       /\ News(wire) = News(wire') + Announced(e)
       /\ Gone(wire) = Gone(wire') + Taken(e)
  BY <1>1
<1>10. ASSUME e.kind = "new_chunk" /\ ChunkAccepted(bufferUsed + 1)
       PROVE  Goal
  <2>1. Announced(e) = 1 /\ Taken(e) = 0 BY <1>10 DEF Announced, Taken, One
  <2>2. Gn = G BY <1>1, <1>10 DEF One, G, Gn
  <2>3. bufferUsed' = bufferUsed + 1 BY <1>10 DEF ChunkAccepted
  <2>4. CASE phase = "accept"
    <3>1. sent' = sent + 1 /\ phase' \in {"space", "send"}
      BY <1>10, <2>4 DEF ChunkAccepted
    <3>2. W = 1 /\ Wn = 0
      BY <2>4, <3>1 DEF One, W, Wn
    <3> QED
      BY <1>3, <1>7, <1>9, <1>14, <2>1, <2>2, <2>3, <2>4, <3>1, <3>2,
         Numbers, LimitsAssumption
  <2>5. CASE phase # "accept"
    <3>1. sent' = sent /\ phase' = phase BY <1>10, <2>5 DEF ChunkAccepted
    <3>2. W = 0 /\ Wn = 0
      BY <2>5, <3>1 DEF One, W, Wn
    <3> QED
      BY <1>3, <1>7, <1>9, <1>14, <2>1, <2>2, <2>3, <2>5, <3>1, <3>2,
         Numbers, LimitsAssumption
  <2> QED BY <2>4, <2>5
<1>11. ASSUME e.kind = "chunk_removed" /\ ChunksGone(e.n)
       PROVE  Goal
  <2>1. Announced(e) = 0 /\ Taken(e) = e.n BY <1>11 DEF Announced, Taken, One
  <2>2. Gn = G BY <1>1, <1>11 DEF One, G, Gn
  <2>3. e.n \in Nat BY <1>1, <1>11, LimitsAssumption DEF Event
  <2>4. sent' = sent /\ phase' = phase /\ Wn = W BY <1>11 DEF ChunksGone, W, Wn
  <2>5. bufferUsed' \in Nat /\ bufferUsed' <= bufferUsed /\ bufferUsed <= bufferUsed' + e.n
    BY <1>11, <2>3, Numbers DEF ChunksGone
  <2> QED
    BY <1>3, <1>7, <1>9, <1>14, <2>1, <2>2, <2>3, <2>4, <2>5,
       Numbers, LimitsAssumption
<1>12. ASSUME \/ /\ e.kind = "new_chunk_allowed"
                 /\ phase' = IF phase = "space" /\ e.status THEN "send" ELSE phase
                 /\ UNCHANGED <<sent, bufferUsed>>
              \/ e.kind = "add_chunk_failure" /\ UNCHANGED page
       PROVE  Goal
  <2>1. Announced(e) = 0 /\ Taken(e) = 0 BY <1>12 DEF Announced, Taken, One
  <2>2. Gn = G BY <1>1, <1>12 DEF One, G, Gn
  <2>3. sent' = sent /\ bufferUsed' = bufferUsed BY <1>12 DEF page
  <2>4. phase' = phase \/ (phase = "space" /\ phase' = "send") BY <1>12 DEF page
  <2>5. Wn = W BY <2>4 DEF One, W, Wn
  <2> QED
    BY <1>3, <1>7, <1>9, <1>14, <2>1, <2>2, <2>3, <2>4, <2>5,
       Numbers, LimitsAssumption
<1>13. ASSUME e.kind = "start_init" /\ Resume(e.n)
       PROVE  Goal
  <2>1. Announced(e) = 0 /\ Taken(e) = 0 BY <1>13 DEF Announced, Taken, One
  <2>2. Gn = 0 /\ G = 1 BY <1>1, <1>13 DEF One, G, Gn
  <2>3. e.n \in 0..MaxQueue BY <1>1, <1>13 DEF Event
  <2>4. bufferUsed' = e.n /\ bufferUsed' \in Nat /\ bufferUsed' <= MaxQueue
    BY <1>13, <2>3, LimitsAssumption DEF Resume
  <2>5. losses # 0 BY <1>1, <1>13 DEF IInv, GreetingHolds, ToBeGreeted
  <2>6. CASE phase = "accept"
    <3>1. sent' = sent + 1 /\ phase' \in {"space", "send"}
      BY <1>13, <2>6 DEF Resume
    <3>2. W = 1 /\ Wn = 0
      BY <2>6, <3>1 DEF One, W, Wn
    <3> QED
      BY <1>3, <1>7, <1>9, <1>14, <2>1, <2>2, <2>4, <2>5, <2>6, <3>1, <3>2,
         Numbers, LimitsAssumption
  <2>7. CASE phase # "accept"
    <3>1. /\ sent' = sent /\ phase' \in {"space", "send", "finished"}
          /\ phase = "finished" <=> phase' = "finished"
      BY <1>3, <1>13, <2>7 DEF Resume
    <3>2. W = 0 /\ Wn = 0
      BY <2>7, <3>1 DEF One, W, Wn
    <3> QED
      BY <1>3, <1>7, <1>9, <1>14, <2>1, <2>2, <2>4, <2>5, <2>7, <3>1, <3>2,
         Numbers, LimitsAssumption
  <2> QED BY <2>6, <2>7
<1> QED BY <1>2, <1>8, <1>10, <1>11, <1>12, <1>13

LEMMA StepIInv ==
    ASSUME IInv, [Next]_vars
    PROVE  IInv'
<1>1. CASE UNCHANGED vars BY <1>1, StutterKeeps
<1>2. CASE BeginAddChunk \/ EndOfFile \/ DropFreeze
  BY <1>2, BeginAddChunkKeeps, EndOfFileKeeps, DropFreezeKeeps
<1>3. CASE \E c \in Receiver, i \in Index : BeginConfirm(c, i)
  BY <1>3, BeginConfirmKeeps
<1>4. CASE \E c \in Receiver : BeginLeave(c) BY <1>4, BeginLeaveKeeps
<1>5. CASE \E a \in Actor : Step(a)
  <2>1. PICK a \in Actor : Step(a) BY <1>5
  <2>2. CASE TellRemoved(a) \/ Reread(a) \/ Publish(a)
    BY <2>2, TellRemovedKeeps, RereadKeeps, PublishKeeps
  <2>3. CASE a = Sender /\ (Insert \/ TellNew)
    BY <2>3, InsertKeeps, TellNewKeeps
  <2>4. CASE a \in Receiver /\ (Confirm(a) \/ Sweep(a) \/ TellLeft(a))
    BY <2>4, ConfirmKeeps, SweepKeeps, TellLeftKeeps
  <2> QED BY <2>1, <2>2, <2>3, <2>4 DEF Step
<1>6. CASE Break \/ Connect BY <1>6, BreakKeeps, ConnectKeeps
<1>7. CASE Greet BY <1>7, ListChunksKeeps, SendStartInitKeeps DEF Greet
<1>8. CASE Page BY <1>8, SendChunkKeeps, FinishUploadKeeps, ReceiveKeeps DEF Page
<1> QED BY <1>1, <1>2, <1>3, <1>4, <1>5, <1>6, <1>7, <1>8 DEF Next

LEMMA InitIInv ==
    ASSUME Init
    PROVE  IInv
<1>1. /\ buf = [EmptyBuffer EXCEPT !.expected = Receiver]
      /\ at = [a \in Actor |-> AtRest]
      /\ greeting = [step |-> "none", chunks |-> 0]
      /\ posted = 0 /\ finishing = FALSE /\ online = TRUE /\ losses = 0
      /\ phase = "send" /\ sent = 0 /\ bufferUsed = 0
  BY DEF Init
<1>2. wire = <<>> BY DEF Init
<1>3. News(wire) = 0 /\ Gone(wire) = 0 /\ Inits(wire) = {} /\ wire \in Seq(Event)
  BY <1>2, WireEmpty
<1>4. buf \in BufferType(Receiver)
  <2>1. /\ buf = [chunks |-> {}, uses |-> [i \in Index |-> 0], top |-> 0, eof |-> FALSE,
                  freezing |-> TRUE, removed |-> FALSE, expected |-> Receiver]
    BY <1>1 DEF EmptyBuffer
  <2>2. 0 \in 0..MaxConsumers /\ 0 \in 0..MaxUploads BY LimitsAssumption
  <2> QED BY <2>1, <2>2 DEF BufferType
<1>5. buf.chunks = {} /\ buf.top = 0 /\ buf.eof = FALSE
  BY <1>1 DEF EmptyBuffer
<1>6. Cardinality(buf.chunks) = 0 BY <1>5, FS_EmptySet
<1>7. \A a \in Actor : at[a] = AtRest BY <1>1
<1>8. ~In(Sender, "insert") /\ ~In(Sender, "tellNew")
  BY <1>7 DEF In, AtRest, Actor
<1>9. Untold = 0 BY <1>7, AtRestTyped, NothingUntold
<1>10. greeting.step = "none"
       /\ greeting \in [step: {"none", "list", "send"}, chunks: 0..MaxQueue]
  BY <1>1, LimitsAssumption
<1>11. ~ToBeGreeted BY <1>1, <1>3, <1>10 DEF ToBeGreeted
<1>12. Types
  <2>1. at \in [Actor -> Locals] BY <1>1, AtRestTyped
  <2>2. 0 \in 0..MaxLosses /\ 0 \in 0..Total
    BY LimitsAssumption, UploadFlowAssumption DEF Total
  <2> QED BY <1>1, <1>3, <1>4, <1>10, <2>1, <2>2 DEF Types
<1>13. BufferHolds BY <1>5, <1>6, LimitsAssumption DEF BufferHolds
<1>14. PageHolds BY <1>1, <1>5 DEF PageHolds
<1>15. GreetingHolds BY <1>1, <1>3, <1>10 DEF GreetingHolds
<1>16. NoChunkTwice BY <1>1, <1>5, <1>8 DEF NoChunkTwice
<1>17. OneUnderWay BY <1>1, <1>3, <1>8, <1>11 DEF OneUnderWay, One
<1>18. HeardOnce BY <1>1, <1>3, <1>5, <1>8, LimitsAssumption DEF HeardOnce, One
<1>19. InStep BY <1>1, <1>3, <1>5, <1>6, <1>8, <1>9 DEF InStep, One
<1> QED BY <1>12, <1>13, <1>14, <1>15, <1>16, <1>17, <1>18, <1>19 DEF IInv

-----------------------------------------------------------------------------
(* The theorems *)

\* The inductive invariant holds in every reachable state.
THEOREM Invariance == Spec => []IInv
BY InitIInv, StepIInv, PTL DEF Spec

\* Types: at most one chunk is under way to the server, and one more after each
\* break of the connection, and the page's count of the chunks in the buffer
\* (bufferUsed, kept from events alone) stays within the queue and the file.
THEOREM TypeCorrect == Spec => []TypeOK
<1>1. ASSUME IInv PROVE TypeOK
  <2>1. Types /\ OneUnderWay /\ HeardOnce BY <1>1 DEF IInv
  <2>2. /\ \A p : One(p) \in {0, 1} BY DEF One
  <2>3. posted <= MaxLosses + 1
    <3> DEFINE I == One(In(Sender, "insert"))
               T == One(In(Sender, "tellNew"))
               G == One(ToBeGreeted)
               W == One(phase = "accept")
    <3>1. I \in {0, 1} /\ T \in {0, 1} /\ G \in {0, 1} /\ W \in {0, 1} BY <2>2
    <3>2. posted + I + T + News(wire) + G <= W + losses BY <2>1 DEF OneUnderWay
    <3>3. losses \in 0..MaxLosses /\ MaxLosses \in Nat
      BY <2>1, UploadFlowAssumption DEF Types
    <3> HIDE DEF I, T, G, W
    <3> QED BY <1>1, <3>1, <3>2, <3>3, Numbers
  <2>4. bufferUsed <= MaxQueue + Total
    <3> DEFINE T == One(In(Sender, "tellNew"))
    <3>1. T \in {0, 1} BY <2>2
    <3>2. bufferUsed + T + News(wire) <= MaxQueue + buf.top BY <2>1 DEF HeardOnce
    <3> HIDE DEF T
    <3> QED BY <1>1, <3>1, <3>2, Numbers, LimitsAssumption DEF Total
  <2>5. \A a \in Actor : at[a].chunk \in 0..MaxUploads /\ at[a].gone \in 0..MaxQueue
    BY <2>1 DEF Types, Locals
  <2>6. posted \in 0..(MaxLosses + 1)
    BY <2>1, <2>3, UploadFlowAssumption DEF Types
  <2>7. bufferUsed \in 0..(MaxQueue + Total)
    BY <2>1, <2>4, LimitsAssumption DEF Types, Total
  <2> QED BY <2>1, <2>5, <2>6, <2>7 DEF Types, TypeOK
<1> QED BY <1>1, Invariance, PTL

\* No chunk is uploaded twice, however often the connection breaks (startUpload
\* sends again only what start_init does not stand for): what the server numbered,
\* what is on its way and what is being inserted is not more than the page sent.
THEOREM ChunksAreUploadedOnce == Spec => []NoChunkTwice
<1>1. IInv => NoChunkTwice BY DEF IInv
<1> QED BY <1>1, Invariance, PTL

\* While the connection holds, the end of file (upload_finished) reaches a server
\* that has numbered every chunk of the file.
THEOREM TheFileIsWholeAtItsEnd == Spec => []EndOfFileMeansWholeFile
<1>1. ASSUME IInv, buf.eof, losses = 0 PROVE buf.top = Total
  <2>1. sent = Total BY <1>1 DEF IInv, PageHolds
  <2>2. buf.top = sent + One(In(Sender, "tellNew")) + News(wire)
    BY <1>1 DEF IInv, InStep
  <2>3. One(In(Sender, "tellNew")) \in Nat BY DEF One
  <2> QED BY <1>1, <2>1, <2>2, <2>3, Numbers DEF Total
<1>2. IInv => EndOfFileMeansWholeFile BY <1>1 DEF EndOfFileMeansWholeFile
<1> QED BY <1>2, Invariance, PTL

\* While the connection holds, the page does not take the buffer for emptier than it
\* is when it sends: whatever handlers are between the change of the buffer and the
\* event that tells of it, bufferUsed covers every chunk there is.
THEOREM ThePageCountsEveryChunk == Spec => []PageCountsEveryChunk
<1>1. ASSUME IInv, phase = "send", losses = 0
      PROVE  Cardinality(buf.chunks) <= bufferUsed
  <2> DEFINE I == One(In(Sender, "insert"))
             T == One(In(Sender, "tellNew"))
             G == One(ToBeGreeted)
             W == One(phase = "accept")
  <2>1. I \in {0, 1} /\ T \in {0, 1} /\ G \in {0, 1} BY DEF One
  <2>2. W = 0 BY <1>1 DEF One
  <2>3. posted + I + T + News(wire) + G <= W + losses
    BY <1>1 DEF IInv, OneUnderWay
  <2>4. Cardinality(buf.chunks) + Untold + Gone(wire) <= bufferUsed + T + News(wire)
    BY <1>1 DEF IInv, InStep
  <2> HIDE DEF I, T, G, W
  <2>5. T = 0 /\ News(wire) = 0 BY <1>1, <2>1, <2>2, <2>3, Numbers
  <2> QED BY <1>1, <2>4, <2>5, Numbers
<1>2. IInv => PageCountsEveryChunk BY <1>1 DEF PageCountsEveryChunk
<1> QED BY <1>2, Invariance, PTL
=============================================================================
