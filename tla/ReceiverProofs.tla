--------------------------- MODULE ReceiverProofs ---------------------------
(***************************************************************************)
(* Proofs about WebReceiver, for any number of chunks, any queue length,   *)
(* any number of attempts and of faults.                                   *)
(***************************************************************************)
EXTENDS WebReceiver, BufferLemmas, SequenceTheorems, WellFoundedInduction

-----------------------------------------------------------------------------
(* The inductive invariant *)

FetchType == [st: {"none", "get", "got", "write", "drain", "confirm"},
              try: 0..Retries, by: 0..NewChunkHandler, put: 0..Total]
PageType ==
    [mounted: BOOLEAN, known: 0..Total, finished: BOOLEAN,
     have: SUBSET Index, failed: SUBSET Index,
     fetch: [Index -> FetchType], loops: [Loop -> SUBSET Index],
     unacked: Int, buffered: SUBSET Index, next: Nat \ {0},
     closing: BOOLEAN, done: Status]
StartInits == [kind: {"start_init"}, chunks: SUBSET Index, top: 0..Total, eof: BOOLEAN]
Event == [kind: {"new_chunk"}, i: Index]
             \cup [kind: {"upload_finished", "chunk_download", "close"}]
             \cup [kind: {"complete"}, status: {"ok", "timeout"}]
             \cup StartInits

Types ==
    /\ buf \in BufferType({Me, Other}) /\ session \in {"listed", "ok", "timeout"}
    /\ greeting \in [step: {"none", "list", "read", "send"}, chunks: SUBSET Index,
                     top: 0..Total, eof: BOOLEAN]
    /\ wire \in Seq(Event) /\ toServer \in Seq(Index)
    /\ link \in {"up", "down", "closed"}
    /\ losses \in 0..MaxFaults /\ failures \in 0..MaxFaults
    /\ page \in PageType
    /\ missed \in BOOLEAN /\ synced \in BOOLEAN /\ redone \in BOOLEAN
    /\ torn \in BOOLEAN /\ byClose \in BOOLEAN

\* What the page is told is so, with b for the buffer and s for the session; and it
\* stays so.
Says(e, b, s) ==
    /\ e.kind = "new_chunk" => e.i <= b.top
    /\ e.kind = "upload_finished" => b.eof
    /\ e.kind = "complete" => s # "listed" /\ (e.status = "ok" => b.eof)
    /\ e.kind = "start_init" => /\ e.top <= b.top /\ e.chunks \subseteq 1..e.top
                                /\ e.eof => b.eof /\ e.top = Total
True(e) == Says(e, buf, session)
Greeting == [kind |-> "start_init", chunks |-> greeting.chunks, top |-> greeting.top,
             eof |-> greeting.eof]
WordHolds ==
    /\ buf.chunks \subseteq 1..buf.top /\ (buf.eof => buf.top = Total)
    /\ session = "ok" => buf.eof
    /\ \A k \in 1..Len(wire) : True(wire[k])
    /\ greeting.step = "read" => greeting.chunks \subseteq 1..buf.top
    /\ greeting.step = "send" => True(Greeting)
    /\ page.known <= buf.top /\ (page.finished => buf.eof)

\* A connection begins with one start_init, and the page with the first.
Inits == {k \in 1..Len(wire) : wire[k].kind = "start_init"}
GreetingHolds ==
    /\ link = "down" =>
           wire = <<>> /\ toServer = <<>> /\ greeting.step = "none" /\ ~synced
    /\ greeting.step # "none" => ~synced /\ Inits = {}
    /\ synced => page.mounted /\ Inits = {}
    /\ \A j, k \in Inits : j = k
    /\ page.mounted => dropped = {}
    /\ ~page.mounted => page = FreshPage

\* The page confirms a chunk once, and is answered once at most.
Settled == {i \in page.have : page.fetch[i].st = "none"}
AnswersHold ==
    /\ Len(toServer) + Cardinality(Answers) <= page.unacked
    /\ page.unacked <= Cardinality(Settled)

\* A loop that has something left to look at awaits a download.
LoopsHold ==
    /\ \A l \in Loop : page.loops[l] # {} =>
           l <= losses /\ \E i \in Pending(page) : page.fetch[i].by = l
    /\ page.mounted /\ ~synced => \A l \in Loop : l >= losses => page.loops[l] = {}

\* What is being written, and what waits for its turn.
Writers(p) == {i \in Index : p.fetch[i].st \in {"write", "drain"}}
Wanted(p) == {i \in Index : p.fetch[i].st \in {"get", "got"}}
FetchHolds ==
    /\ \A i \in Index : page.fetch[i].st = "confirm" => i \in page.have
    /\ page.buffered \subseteq page.have
    /\ ~ToDisk => disk = <<>> /\ Writers(page) = {}

InOrder(n) == [k \in 1..n |-> k]
DiskHolds ==
    ToDisk /\ ~redone /\ ~torn =>
        /\ (Writers(page) \cup Wanted(page)) \cap page.have = {}
        /\ \A i, j \in Writers(page) : i = j
        /\ disk = InOrder(page.next - 1)
        /\ \A i \in Writers(page) :
               /\ page.fetch[i].put = page.next
               /\ IF page.fetch[i].st = "write" THEN i = page.next
                  ELSE i < page.next /\ page.next \in page.buffered
        /\ Writers(page) = {} => page.next \notin page.buffered
        /\ 1..(page.next - 1) \subseteq page.have \cup Writers(page)
        /\ page.have \subseteq 1..(page.next - 1) \cup page.buffered
        /\ \A j \in page.buffered : j >= page.next

-----------------------------------------------------------------------------
(* What the page will know by the k-th event on the wire *)

\* It will have read the start_init of the connection;
Reported(k) == synced \/ \E j \in 1..(k - 1) : wire[j].kind = "start_init"

\* it will have been told that the file has come to its end;
EndTold(k) ==
    \/ page.finished
    \/ \E j \in 1..(k - 1) :
           \/ wire[j].kind = "upload_finished"
           \/ wire[j].kind = "complete" /\ wire[j].status = "ok"
           \/ wire[j].kind = "start_init" /\ wire[j].eof

\* it will know how many chunks there are, or has missed something;
EndKnown(k) ==
    \/ page.known = Total \/ NewChunk(Total) \in dropped
    \/ \E j \in 1..(k - 1) : \/ wire[j] = NewChunk(Total)
                             \/ wire[j].kind = "start_init" /\ wire[j].top = Total

\* it will know of a chunk as high as m;
Reached(m, k) ==
    \/ m <= page.known
    \/ \E j \in 1..(k - 1) : \/ wire[j].kind = "new_chunk" /\ m <= wire[j].i
                             \/ wire[j].kind = "start_init" /\ m <= wire[j].top

\* it will have, or fetch, or have a loop look at chunk m, or has missed it.
Tracked(p, m) ==
    m \in p.have \/ m \in Pending(p) \/ \E l \in Loop : m \in p.loops[l]
Named(m, k) ==
    \/ Tracked(page, m) \/ NewChunk(m) \in dropped
    \/ \E j \in 1..(k - 1) : \/ wire[j] = NewChunk(m)
                             \/ wire[j].kind = "start_init" /\ m \in wire[j].chunks

Listening == link = "up" /\ ~Closed(wire)
Past == Len(wire) + 1
AtEnd(k) == k = Past /\ Listening

\* Whoever is told of the end knows how many chunks there are, or will by the time
\* that what is on the wire now is read.
CaughtUp ==
    ~missed => \A k \in 1..Past :
        /\ Reported(k) /\ (EndTold(k) \/ (AtEnd(k) /\ buf.top = Total)) => EndKnown(k)
        /\ AtEnd(k) /\ buf.top = Total /\ greeting.step = "send"
               => greeting.top = Total \/ EndKnown(k)

\* No chunk that can be had is skipped.
NoneSkipped ==
    ~missed /\ failures = 0 /\ session = "listed" =>
        \A m \in buf.chunks, k \in 1..Past :
            /\ Reported(k) /\ (Reached(m, k) \/ AtEnd(k)) => Named(m, k)
            /\ AtEnd(k) /\ greeting.step \in {"read", "send"}
                   => m \in greeting.chunks \/ Named(m, k)

\* How the page comes to its end.
DoneHolds ==
    /\ page.done = "no" => ~byClose
    /\ page.done = "ok" /\ ~byClose =>
           /\ 1..page.known \subseteq page.have
           /\ page.finished \/ (synced /\ ~missed => page.known = Total)
    /\ page.done = "incomplete" =>
           /\ ~(1..page.known \subseteq page.have)
           /\ session # "listed" \/ Pending(page) = {}

IInv ==
    /\ Types /\ WordHolds /\ GreetingHolds /\ AnswersHold /\ LoopsHold /\ FetchHolds
    /\ DiskHolds /\ CaughtUp /\ NoneSkipped /\ DoneHolds

-----------------------------------------------------------------------------
(* Lemmas about the page *)

\* LowestOf is a least element.
LEMMA Lowest ==
    ASSUME NEW S \in SUBSET Nat, S # {}
    PROVE  LowestOf(S) \in S /\ \A j \in S : LowestOf(S) <= j
<1> DEFINE R == OpToRel(<, Nat)
<1>1. IsWellFoundedOn(R, Nat) BY NatLessThanWellFounded
<1>2. \A x, y \in Nat : x < y => <<x, y>> \in R BY DEF OpToRel
<1> HIDE DEF R
<1>3. PICK i \in S : \A j \in S : <<j, i>> \notin R BY <1>1, WFMin
<1>4. ASSUME NEW j \in S PROVE i <= j
  <2>1. ~(j < i) BY <1>2, <1>3
  <2> QED BY <2>1
<1>5. \E k \in S : \A j \in S : k <= j BY <1>4
<1> QED BY <1>5 DEF LowestOf

\* q is p with the downloads and the loops gone on, and perhaps the end decided.
Same(p, q) ==
    /\ q \in PageType
    /\ q.mounted = p.mounted /\ q.known = p.known /\ q.finished = p.finished
    /\ q.have = p.have /\ q.unacked = p.unacked
    /\ q.buffered = p.buffered /\ q.next = p.next

Concludes(p, q) ==
    \/ q.done = p.done
    \/ /\ q.finished /\ Pending(q) = {}
       /\ q.done = IF 1..q.known \subseteq q.have THEN "ok" ELSE "incomplete"

Awaits(p, l) == p.loops[l] # {} => \E i \in Pending(p) : p.fetch[i].by = l

\* Checking for the end changes nothing else.
LEMMA CheckEffect ==
    ASSUME NEW p \in PageType
    PROVE  LET q == CheckIfDone(p)
           IN  /\ Same(p, q) /\ Concludes(p, q)
               /\ q.fetch = p.fetch /\ q.loops = p.loops
<1>1. CASE CheckIfDone(p) = p
  BY <1>1 DEF Same, Concludes
<1>2. CASE CheckIfDone(p) # p
  <2> DEFINE d == IF 1..p.known \subseteq p.have THEN "ok" ELSE "incomplete"
  <2>1. CheckIfDone(p) = [p EXCEPT !.done = d] /\ p.finished /\ Pending(p) = {}
    BY <1>2 DEF CheckIfDone, Finalize
  <2>2. d \in Status BY DEF Status
  <2> HIDE DEF d
  <2> DEFINE q == [p EXCEPT !.done = d]
  <2>3. /\ q \in PageType /\ q.mounted = p.mounted /\ q.known = p.known
        /\ q.finished = p.finished /\ q.have = p.have /\ q.unacked = p.unacked
        /\ q.buffered = p.buffered /\ q.next = p.next /\ q.done = d
        /\ q.fetch = p.fetch /\ q.loops = p.loops
    BY <2>2 DEF PageType
  <2> HIDE DEF q
  <2>4. Pending(q) = {} BY <2>1, <2>3 DEF Pending
  <2> QED BY <2>1, <2>3, <2>4 DEF Same, Concludes, q, d
<1> QED BY <1>1, <1>2

\* A loop goes on to what is neither there nor on its way, and to all of that.
LEMMA LoopEffect ==
    ASSUME NEW p \in PageType, NEW l \in Loop
    PROVE  LET q == LoopOn(p, l)
           IN  /\ Same(p, q) /\ Concludes(p, q) /\ Awaits(q, l)
               /\ \A i \in Index : \/ q.fetch[i] = p.fetch[i]
                                   \/ /\ p.fetch[i].st = "none" /\ i \notin p.have
                                      /\ q.fetch[i] = [st |-> "get", try |-> 1, by |-> l, put |-> 0]
               /\ \A k \in Loop \ {l} : q.loops[k] = p.loops[k]
               /\ q.loops[l] \subseteq p.loops[l]
               /\ p.loops[l] \subseteq q.have \cup Pending(q) \cup q.loops[l]
<1> DEFINE todo == p.loops[l] \ (p.have \cup Pending(p))
           n == LowestOf(todo)
           q == LoopOn(p, l)
<1>1. p.loops[l] \subseteq Index BY DEF PageType
<1>2. CASE todo # {}
  <2>1. todo \in SUBSET Nat BY <1>1, LimitsAssumption DEF Index
  <2>2. n \in todo /\ \A j \in todo : n <= j BY <1>2, <2>1, Lowest
  <2> HIDE DEF n
  <2>3. n \in Index /\ n \in p.loops[l] /\ n \notin p.have /\ p.fetch[n].st = "none"
    BY <1>1, <2>2 DEF Pending
  <2> DEFINE r == [p EXCEPT !.loops[l] = {j \in @ : j > n}]
             f == [st |-> "get", try |-> 1, by |-> l, put |-> 0]
  <2>4. q = [r EXCEPT !.fetch[n] = f] BY <1>2 DEF LoopOn, Fetch, n
  <2>5. f \in FetchType
    BY WebReceiverAssumption, LimitsAssumption DEF FetchType, Loop, NewChunkHandler, Total
  <2>6. /\ q \in PageType /\ Same(p, q) /\ q.done = p.done
        /\ q.fetch = [p.fetch EXCEPT ![n] = f]
        /\ q.loops = [p.loops EXCEPT ![l] = {j \in p.loops[l] : j > n}]
    <3>1. /\ r \in PageType /\ r.fetch = p.fetch
          /\ r.loops = [p.loops EXCEPT ![l] = {j \in p.loops[l] : j > n}]
          /\ Same(p, r) /\ r.done = p.done
      BY DEF PageType, Same
    <3> HIDE DEF q, r, f
    <3>2. [r.fetch EXCEPT ![n] = f] \in [Index -> FetchType]
      BY <2>5, <3>1 DEF PageType
    <3> DEFINE g == [r.fetch EXCEPT ![n] = f]
    <3>3. q = [r EXCEPT !.fetch = g] BY <2>4, <3>1 DEF PageType
    <3> HIDE DEF g
    <3>4. /\ q \in PageType /\ q.fetch = g /\ q.loops = r.loops
          /\ q.done = r.done /\ Same(r, q)
      BY <3>1, <3>2, <3>3 DEF PageType, Same, g
    <3> QED BY <3>1, <3>4 DEF Same, g
  <2> HIDE DEF q, f, r, todo
  <2>7. Pending(q) = Pending(p) \cup {n}
    BY <2>3, <2>6 DEF Pending, PageType, f
  <2>8. q.fetch[n].by = l BY <2>3, <2>6 DEF PageType, f
  <2>9. q.loops[l] = {j \in p.loops[l] : j > n} BY <2>6 DEF PageType
  <2>10. ASSUME NEW m \in p.loops[l] PROVE m \in q.have \cup Pending(q) \cup q.loops[l]
    <3>1. q.have = p.have BY <2>6 DEF Same
    <3>2. CASE m \in todo
      <4>1. m = n \/ m > n BY <1>1, <2>1, <2>2, <3>2
      <4> QED BY <2>7, <2>9, <4>1
    <3>3. CASE m \notin todo BY <2>7, <3>1, <3>3 DEF todo
    <3> QED BY <3>2, <3>3
  <2>11. \A i \in Index : \/ q.fetch[i] = p.fetch[i]
                          \/ /\ p.fetch[i].st = "none" /\ i \notin p.have
                             /\ q.fetch[i] = f
    BY <2>3, <2>6 DEF PageType
  <2>12. \A k \in Loop \ {l} : q.loops[k] = p.loops[k] BY <2>6 DEF PageType
  <2>13. Awaits(q, l) BY <2>7, <2>8 DEF Awaits
  <2> QED BY <2>6, <2>9, <2>10, <2>11, <2>12, <2>13 DEF Concludes, q, f
<1>3. CASE todo = {}
  <2> DEFINE e == [p EXCEPT !.loops[l] = {}]
  <2>1. q = e \/ q = CheckIfDone(e) BY <1>3 DEF LoopOn
  <2>2. /\ e \in PageType /\ Same(p, e) /\ e.done = p.done /\ e.fetch = p.fetch
        /\ e.loops = [p.loops EXCEPT ![l] = {}]
    BY DEF PageType, Same
  <2> HIDE DEF q, e
  <2>3. /\ Same(e, q) /\ Concludes(e, q) /\ q.fetch = e.fetch /\ q.loops = e.loops
    BY <2>1, <2>2, CheckEffect DEF Same, Concludes
  <2>4. Same(p, q) /\ Concludes(p, q) BY <2>2, <2>3 DEF Same, Concludes
  <2>5. Pending(q) = Pending(p) BY <2>2, <2>3 DEF Pending
  <2>6. q.loops[l] = {} /\ \A k \in Loop \ {l} : q.loops[k] = p.loops[k]
    BY <2>2, <2>3 DEF PageType
  <2>7. p.loops[l] \subseteq q.have \cup Pending(q) BY <1>3, <2>4, <2>5 DEF Same
  <2> QED BY <2>2, <2>3, <2>4, <2>6, <2>7 DEF Awaits, q
<1> QED BY <1>2, <1>3

\* The download of chunk i ends, or begins anew, and its loop may go on.
Goes(p, q, i) ==
    /\ Same(p, q) /\ Concludes(p, q)
    /\ q.fetch[i].st \in {"none", "get"}
    /\ \A j \in Index \ {i} :
           \/ q.fetch[j] = p.fetch[j]
           \/ p.fetch[j].st = "none" /\ j \notin p.have /\ q.fetch[j].st = "get"
    /\ \A m \in Index \ {i} : Tracked(p, m) => Tracked(q, m)
    /\ \A l \in Loop : q.loops[l] \subseteq p.loops[l] /\ (Awaits(p, l) => Awaits(q, l))

\* What the page gave up before is of no account.
LEMMA GoesFrom ==
    ASSUME NEW p, NEW r, NEW q, NEW i \in Index, Goes(r, q, i), Same(p, r),
           r.done = p.done, r.fetch = p.fetch, r.loops = p.loops
    PROVE  Goes(p, q, i)
<1>1. Pending(r) = Pending(p) BY DEF Pending
<1>2. \A m : Tracked(p, m) => Tracked(r, m) BY <1>1 DEF Tracked, Same
<1>3. \A l \in Loop : Awaits(p, l) => Awaits(r, l) BY <1>1 DEF Awaits
<1> QED BY <1>2, <1>3 DEF Goes, Same, Concludes

LEMMA EndEffect ==
    ASSUME NEW p \in PageType, NEW i \in Index
    PROVE  LET q == FetchEnds(p, i)
           IN  Goes(p, q, i) /\ (i \in p.have => q.fetch[i].st = "none")
<1> DEFINE by == p.fetch[i].by
           r == [p EXCEPT !.fetch[i] = NoFetch]
           q == FetchEnds(p, i)
<1>1. NoFetch \in FetchType /\ NoFetch.st = "none"
  BY WebReceiverAssumption, LimitsAssumption DEF NoFetch, FetchType, NewChunkHandler, Total
<1>2. /\ r \in PageType /\ Same(p, r) /\ r.done = p.done /\ r.loops = p.loops
      /\ r.fetch = [p.fetch EXCEPT ![i] = NoFetch]
  BY <1>1 DEF PageType, Same
<1>3. by \in Loop \/ by = NewChunkHandler
  BY WebReceiverAssumption DEF PageType, FetchType, Loop, NewChunkHandler
<1>4. q = IF by = NewChunkHandler THEN CheckIfDone(r) ELSE LoopOn(r, by)
  BY DEF FetchEnds
<1> HIDE DEF r, q
<1>5. r.fetch[i] = NoFetch /\ \A j \in Index \ {i} : r.fetch[j] = p.fetch[j]
  BY <1>2 DEF PageType
<1>6. Pending(r) = Pending(p) \ {i} BY <1>1, <1>5 DEF Pending
<1>7. \A m \in Index \ {i} : Tracked(p, m) => Tracked(r, m)
  BY <1>2, <1>6 DEF Tracked, Same
<1>8. \A l \in Loop : l # by /\ Awaits(p, l) => Awaits(r, l)
  BY <1>2, <1>5, <1>6 DEF Awaits
<1>9. CASE by = NewChunkHandler
  <2>1. q = CheckIfDone(r) BY <1>4, <1>9
  <2>2. Same(r, q) /\ Concludes(r, q) /\ q.fetch = r.fetch /\ q.loops = r.loops
    BY <1>2, <2>1, CheckEffect
  <2>3. Pending(q) = Pending(r) BY <2>2 DEF Pending
  <2>4. Same(p, q) /\ Concludes(p, q) BY <1>2, <2>2 DEF Same, Concludes
  <2>5. \A m \in Index : Tracked(r, m) => Tracked(q, m)
    BY <2>2, <2>3 DEF Tracked, Same
  <2>6. by \notin Loop
    BY <1>9, WebReceiverAssumption DEF Loop, NewChunkHandler
  <2>7. \A l \in Loop : Awaits(p, l) => Awaits(q, l)
    BY <1>8, <2>2, <2>3, <2>6 DEF Awaits
  <2>8. \A l \in Loop : q.loops[l] \subseteq p.loops[l] BY <1>2, <2>2
  <2>9. q.fetch[i].st = "none" /\ \A j \in Index \ {i} : q.fetch[j] = p.fetch[j]
    BY <1>1, <1>5, <2>2
  <2> QED BY <1>7, <2>4, <2>5, <2>7, <2>8, <2>9 DEF Goes, q
<1>10. CASE by \in Loop
  <2> HIDE DEF by
  <2>1. by # NewChunkHandler
    BY <1>10, WebReceiverAssumption DEF Loop, NewChunkHandler
  <2>2. q = LoopOn(r, by) BY <1>4, <2>1
  <2>3. /\ Same(r, q) /\ Concludes(r, q) /\ Awaits(q, by)
        /\ \A j \in Index : \/ q.fetch[j] = r.fetch[j]
                            \/ /\ r.fetch[j].st = "none" /\ j \notin r.have
                               /\ q.fetch[j] = [st |-> "get", try |-> 1, by |-> by, put |-> 0]
        /\ \A k \in Loop \ {by} : q.loops[k] = r.loops[k]
        /\ q.loops[by] \subseteq r.loops[by]
        /\ r.loops[by] \subseteq q.have \cup Pending(q) \cup q.loops[by]
    <3>1. r \in PageType BY <1>2
    <3> DEFINE v == LoopOn(r, by)
    <3>2. /\ Same(r, v) /\ Concludes(r, v) /\ Awaits(v, by)
          /\ \A j \in Index : \/ v.fetch[j] = r.fetch[j]
                              \/ /\ r.fetch[j].st = "none" /\ j \notin r.have
                                 /\ v.fetch[j] = [st |-> "get", try |-> 1, by |-> by, put |-> 0]
          /\ \A k \in Loop \ {by} : v.loops[k] = r.loops[k]
          /\ v.loops[by] \subseteq r.loops[by]
          /\ r.loops[by] \subseteq v.have \cup Pending(v) \cup v.loops[by]
      BY <1>10, <3>1, LoopEffect
    <3>3. v = q BY <2>2
    <3> HIDE DEF v
    <3> QED BY <3>2, <3>3
  <2>4. Same(p, q) /\ Concludes(p, q) BY <1>2, <2>3 DEF Same, Concludes
  <2>5. \A j \in Pending(r) : j \in Pending(q) /\ q.fetch[j] = r.fetch[j]
    BY <2>3 DEF Pending
  <2>6. \A m \in Index : Tracked(r, m) => Tracked(q, m)
    <3> SUFFICES ASSUME NEW m \in Index, Tracked(r, m) PROVE Tracked(q, m)
      OBVIOUS
    <3>1. CASE m \in r.have \cup Pending(r)
      BY <2>3, <2>5, <3>1 DEF Tracked, Same
    <3>2. CASE \E l \in Loop : m \in r.loops[l]
      <4>1. PICK l \in Loop : m \in r.loops[l] BY <3>2
      <4>2. CASE l = by BY <2>3, <4>1, <4>2 DEF Tracked
      <4>3. CASE l # by BY <2>3, <4>1, <4>3 DEF Tracked
      <4> QED BY <4>2, <4>3
    <3> QED BY <3>1, <3>2 DEF Tracked
  <2>7. ASSUME NEW l \in Loop, Awaits(p, l) PROVE Awaits(q, l)
    <3>1. CASE l = by BY <2>3, <3>1
    <3>2. CASE l # by
      <4>1. Awaits(r, l) /\ q.loops[l] = r.loops[l] BY <1>8, <2>3, <2>7, <3>2
      <4> QED BY <2>5, <4>1 DEF Awaits
    <3> QED BY <3>1, <3>2
  <2>8. \A l \in Loop : q.loops[l] \subseteq p.loops[l] BY <1>2, <2>3
  <2>9. \A j \in Index \ {i} :
            \/ q.fetch[j] = p.fetch[j]
            \/ p.fetch[j].st = "none" /\ j \notin p.have /\ q.fetch[j].st = "get"
    BY <1>2, <1>5, <2>3 DEF Same
  <2>10. /\ q.fetch[i].st \in {"none", "get"}
         /\ (i \in p.have => q.fetch[i].st = "none")
    BY <1>1, <1>2, <1>5, <2>3 DEF Same
  <2> QED BY <1>7, <2>4, <2>6, <2>7, <2>8, <2>9, <2>10 DEF Goes, q
<1> QED BY <1>3, <1>9, <1>10

\* A download that has failed for good ends.
LEMMA FailEffect ==
    ASSUME NEW p \in PageType, NEW i \in Index
    PROVE  Goes(p, FetchFails(p, i), i)
<1> DEFINE r == [p EXCEPT !.failed = @ \cup {i}]
           q == FetchFails(p, i)
<1>1. q = FetchEnds(r, i) BY DEF FetchFails
<1>2. /\ r \in PageType /\ Same(p, r) /\ r.done = p.done
      /\ r.fetch = p.fetch /\ r.loops = p.loops
  BY DEF PageType, Same
<1> HIDE DEF q, r
<1>3. Goes(r, q, i) BY <1>1, <1>2, EndEffect
<1>4. Goes(p, q, i) BY <1>2, <1>3, GoesFrom
<1> QED BY <1>4 DEF q

\* A failed download is tried again, or ends.
LEMMA RetryEffect ==
    ASSUME NEW p \in PageType, NEW i \in Pending(p)
    PROVE  Goes(p, Retry(p, i), i)
<1> DEFINE q == Retry(p, i)
           f == [p.fetch[i] EXCEPT !.st = "get", !.try = @ + 1]
<1>1. i \in Index /\ p.fetch[i].st # "none" BY DEF Pending
<1>2. CASE p.fetch[i].try < Retries
  <2>1. f \in FetchType /\ f.st = "get" /\ f.by = p.fetch[i].by
    <3>1. p.fetch[i] \in FetchType BY <1>1 DEF PageType
    <3>2. p.fetch[i].try \in 0..Retries BY <3>1 DEF FetchType
    <3>3. p.fetch[i].try + 1 \in 0..Retries
      BY <1>2, <3>2, WebReceiverAssumption
    <3> QED BY <3>1, <3>3 DEF FetchType
  <2>2. q = [p EXCEPT !.fetch[i] = f]
    BY <1>1, <1>2 DEF Retry, PageType, FetchType
  <2> HIDE DEF f, q
  <2>3. /\ Same(p, q) /\ q.done = p.done /\ q.loops = p.loops
        /\ q.fetch[i] = f /\ \A j \in Index \ {i} : q.fetch[j] = p.fetch[j]
    BY <1>1, <2>1, <2>2 DEF PageType, Same
  <2>4. Pending(q) = Pending(p) BY <1>1, <2>1, <2>3 DEF Pending
  <2>5. \A m \in Index : Tracked(p, m) => Tracked(q, m)
    BY <2>3, <2>4 DEF Tracked, Same
  <2>6. \A j \in Index : q.fetch[j].by = p.fetch[j].by BY <2>1, <2>3
  <2>7. \A l \in Loop : Awaits(p, l) => Awaits(q, l)
    BY <2>3, <2>4, <2>6 DEF Awaits, Pending
  <2> QED BY <2>1, <2>3, <2>5, <2>7 DEF Goes, Concludes, q
<1>3. CASE ~(p.fetch[i].try < Retries)
  <2>1. q = FetchFails(p, i) BY <1>3 DEF Retry
  <2> QED BY <1>1, <2>1, FailEffect
<1> QED BY <1>2, <1>3
-----------------------------------------------------------------------------
(* What the server and the network do *)

\* The server goes on, and the page, which does not, may be told of it.
Grows ==
    /\ UNCHANGED <<greeting, link, failures, page, disk, dropped, missed, synced,
                   redone, torn, byClose>>
    /\ buf' \in BufferType({Me, Other}) /\ session' \in {"listed", "ok", "timeout"}
    /\ buf'.chunks \subseteq 1..buf'.top /\ (buf'.eof => buf'.top = Total)
    /\ buf.eof => buf'.eof
    /\ session' = "ok" => buf'.eof
    /\ session # "listed" => session' = session
    /\ losses' \in 0..MaxFaults /\ losses <= losses'
    /\ toServer' \in Seq(Index) /\ (toServer = <<>> => toServer' = <<>>)
    /\ wire' \in Seq(Event) /\ Len(wire) <= Len(wire') /\ (Listening' => Listening)
    /\ \A j \in 1..Len(wire) : wire'[j] = wire[j]
    /\ \A j \in Past..Len(wire') : /\ Listening /\ wire'[j].kind # "start_init"
                                   /\ Says(wire'[j], buf', session')
    /\ \/ buf'.top = buf.top /\ buf'.chunks \subseteq buf.chunks
       \/ /\ buf'.top = buf.top + 1 /\ buf'.chunks = buf.chunks \cup {buf'.top}
          /\ ~buf'.eof
          /\ Listening => Len(wire') = Past /\ wire'[Past] = NewChunk(buf'.top)

\* What is so stays so.
LEMMA StaysSo ==
    ASSUME NEW e \in Event, NEW b \in BufferType({Me, Other}), NEW s,
           NEW c \in BufferType({Me, Other}), NEW t,
           b.top <= c.top, b.eof => c.eof, s # "listed" => t = s, Says(e, b, s)
    PROVE  Says(e, c, t)
<1>1. b.top \in Nat /\ c.top \in Nat BY LimitsAssumption DEF BufferType
<1>2. e.kind = "new_chunk" => e.i \in Nat
  BY LimitsAssumption DEF Event, StartInits, Index
<1>3. e.kind = "start_init" => e.top \in Nat
  BY LimitsAssumption DEF Event, StartInits
<1>4. e.kind = "new_chunk" => e.i <= c.top BY <1>1, <1>2 DEF Says
<1>5. e.kind = "start_init" => /\ e.top <= c.top /\ e.chunks \subseteq 1..e.top
                               /\ e.eof => c.eof /\ e.top = Total
  BY <1>1, <1>3 DEF Says
<1>6. e.kind = "complete" => t # "listed" /\ (e.status = "ok" => c.eof) BY DEF Says
<1>7. e.kind = "upload_finished" => c.eof BY DEF Says
<1> QED BY <1>4, <1>5, <1>6, <1>7 DEF Says

LEMMA GrowsKeeps ==
    ASSUME IInv, page.done = "no", Grows, AnswersHold'
    PROVE  IInv'
<1> USE DEF IInv
<1>1. Types' BY DEF Types, Grows
<1>2. buf.top \in Nat /\ buf'.top \in Nat /\ buf.top <= buf'.top /\ Len(wire) \in Nat
  <2>1. Len(wire) \in Nat BY DEF Types
  <2> QED BY <1>1, <2>1, LimitsAssumption DEF Types, BufferType, Grows
<1>3. WordHolds'
  <2>1. ASSUME NEW k \in 1..Len(wire') PROVE Says(wire'[k], buf', session')
    <3>1. CASE k \in 1..Len(wire)
      <4>1. wire[k] \in Event /\ wire'[k] = wire[k] /\ Says(wire[k], buf, session)
        BY <3>1 DEF Types, WordHolds, True, Grows
      <4> QED BY <1>1, <1>2, <4>1, StaysSo DEF Types, Grows
    <3>2. CASE k \in Past..Len(wire') BY <3>2 DEF Grows
    <3> QED BY <1>2, <3>1, <3>2 DEF Past
  <2>2. greeting.step = "send" => Says(Greeting, buf', session')
    <3> SUFFICES ASSUME greeting.step = "send" PROVE Says(Greeting, buf', session')
      OBVIOUS
    <3>1. Greeting \in Event BY DEF Types, Greeting, Event, StartInits
    <3>2. Says(Greeting, buf, session) BY DEF WordHolds, True
    <3> QED BY <1>1, <1>2, <3>1, <3>2, StaysSo DEF Types, Grows
  <2>3. greeting' = greeting /\ page' = page BY DEF Grows
  <2>4. Greeting' = Greeting BY <2>3 DEF Greeting
  <2>5. greeting.step = "read" => greeting.chunks \subseteq 1..buf'.top
    BY <1>2 DEF WordHolds
  <2>6. page.known <= buf'.top /\ (page.finished => buf'.eof)
    BY <1>2, LimitsAssumption, SMTT(20) DEF WordHolds, Grows, Types, PageType
  <2>7. \A k \in 1..Len(wire') : True(wire[k])' BY <2>1 DEF True
  <2>8. greeting'.step = "send" => True(Greeting)' BY <2>2, <2>3, <2>4 DEF True
  <2> QED BY <2>3, <2>5, <2>6, <2>7, <2>8 DEF WordHolds, Grows
<1>4. GreetingHolds'
  <2>1. Inits' = Inits BY <1>1, <1>2, SMTT(20) DEF Inits, Grows, Types, Past
  <2>2. link = "down" => wire' = <<>>
    <3> SUFFICES ASSUME link = "down" PROVE wire' = <<>> OBVIOUS
    <3>1. ~Listening /\ Len(wire) = 0 BY DEF Listening, GreetingHolds
    <3>2. Len(wire') = 0 BY <1>1, <3>1 DEF Grows, Past, Types
    <3> QED BY <1>1, <3>2 DEF Types
  <2> QED BY <2>1, <2>2 DEF GreetingHolds, Grows
<1>5. LoopsHold'
  BY <1>1 DEF LoopsHold, Grows, Pending, Types, Loop
<1>6. FetchHolds' /\ DiskHolds' BY DEF FetchHolds, DiskHolds, Grows, Writers, Wanted
<1>7. DoneHolds' BY DEF DoneHolds, Grows
<1>8. Past' = Len(wire') + 1 /\ Past = Len(wire) + 1 /\ Len(wire') \in Nat
  BY <1>1 DEF Past, Types
<1>9. ASSUME NEW k \in 1..Past', k <= Past
      PROVE  /\ Reported(k)' <=> Reported(k)
             /\ EndTold(k)' <=> EndTold(k)
             /\ EndKnown(k)' <=> EndKnown(k)
             /\ \A m : Reached(m, k)' <=> Reached(m, k)
             /\ \A m : Named(m, k)' <=> Named(m, k)
  <2>1. \A j \in 1..(k - 1) : wire'[j] = wire[j] BY <1>2, <1>8, <1>9 DEF Grows
  <2>2. Reported(k)' <=> Reported(k) BY <2>1 DEF Reported, Grows
  <2>3. EndTold(k)' <=> EndTold(k) BY <2>1 DEF EndTold, Grows
  <2>4. EndKnown(k)' <=> EndKnown(k) BY <2>1 DEF EndKnown, Grows
  <2>5. \A m : Reached(m, k)' <=> Reached(m, k) BY <2>1 DEF Reached, Grows
  <2>6. \A m : Named(m, k)' <=> Named(m, k) BY <2>1 DEF Named, Grows, Tracked, Pending
  <2> QED BY <2>2, <2>3, <2>4, <2>5, <2>6
<1>10. \A k \in 1..Past' : AtEnd(k)' => k = Past' /\ Listening
  BY DEF AtEnd, Grows
<1>11. ASSUME NEW k \in 1..Past', Reported(k)', k >= Past PROVE Reported(Past)
  <2>1. CASE synced' BY <2>1 DEF Grows, Reported
  <2>2. CASE \E j \in 1..(k - 1) : wire'[j].kind = "start_init"
    <3>1. PICK j \in 1..(k - 1) : wire'[j].kind = "start_init" BY <2>2
    <3>2. j \in 1..(Past - 1) \/ j \in Past..Len(wire') BY <1>2, <1>8
    <3>3. j \in 1..(Past - 1) /\ wire'[j] = wire[j]
      BY <1>2, <1>8, <3>1, <3>2 DEF Grows
    <3> QED BY <3>1, <3>3 DEF Reported
  <2> QED BY <1>11, <2>1, <2>2 DEF Reported
<1>12. ASSUME NEW k \in 1..Past', k > Past PROVE AtEnd(Past)
  <2>1. Past \in Past..Len(wire') BY <1>2, <1>8, <1>12
  <2> QED BY <2>1 DEF Grows, AtEnd
<1>13. ASSUME NEW k \in 1..Past', AtEnd(k)' PROVE AtEnd(Past) /\ k >= Past
  BY <1>2, <1>8, <1>10, <1>13 DEF AtEnd, Grows
<1>14. ASSUME NEW k \in 1..Past', k >= Past
       PROVE  /\ EndKnown(Past) => EndKnown(k)'
              /\ \A m : Named(m, Past) => Named(m, k)'
  <2>1. \A j \in 1..(Past - 1) : j \in 1..(k - 1) /\ wire'[j] = wire[j]
    BY <1>2, <1>8, <1>14 DEF Grows
  <2>2. EndKnown(Past) => EndKnown(k)' BY <2>1 DEF EndKnown, Grows
  <2>3. \A m : Named(m, Past) => Named(m, k)'
    BY <2>1 DEF Named, Grows, Tracked, Pending
  <2> QED BY <2>2, <2>3
<1>15. CaughtUp'
  <2> SUFFICES ASSUME ~missed, NEW k \in 1..Past'
               PROVE  /\ Reported(k)' /\ (EndTold(k)' \/ (AtEnd(k)' /\ buf'.top = Total))
                             => EndKnown(k)'
                      /\ AtEnd(k)' /\ buf'.top = Total /\ greeting.step = "send"
                             => greeting.top = Total \/ EndKnown(k)'
    BY DEF CaughtUp, Grows
  <2>1. /\ Reported(Past) /\ EndTold(Past) => EndKnown(Past)
        /\ AtEnd(Past) /\ buf.top = Total /\ Reported(Past) => EndKnown(Past)
        /\ AtEnd(Past) /\ buf.top = Total /\ greeting.step = "send"
               => greeting.top = Total \/ EndKnown(Past)
    <3>1. Past \in 1..Past BY <1>2, <1>8
    <3> QED BY <3>1 DEF CaughtUp
  <2>2. ASSUME k >= Past, AtEnd(Past), k > Past \/ k = Past',
               buf'.top = Total, buf.top # Total
        PROVE  EndKnown(k)'
    <3>1. Len(wire') = Past /\ wire'[Past] = NewChunk(Total)
      BY <2>2 DEF Grows, AtEnd
    <3>2. Past \in 1..(k - 1) BY <1>2, <1>8, <2>2, <3>1
    <3> QED BY <3>1, <3>2 DEF EndKnown
  <2>3. ASSUME Reported(k)', EndTold(k)' PROVE EndKnown(k)'
    <3>1. CASE k <= Past
      <4>1. k \in 1..Past BY <1>8, <3>1
      <4> QED BY <1>9, <2>3, <3>1, <4>1 DEF CaughtUp
    <3>2. CASE k > Past
      <4>1. AtEnd(Past) /\ k >= Past BY <1>2, <1>8, <1>12, <3>2
      <4>2. Reported(Past) BY <1>11, <2>3, <4>1
      <4>3. CASE EndTold(Past) BY <1>14, <2>1, <4>1, <4>2, <4>3
      <4>4. CASE ~EndTold(Past)
        <5>1. PICK j \in 1..(k - 1) :
                  \/ wire'[j].kind = "upload_finished"
                  \/ wire'[j].kind = "complete" /\ wire'[j].status = "ok"
                  \/ wire'[j].kind = "start_init" /\ wire'[j].eof
          BY <2>3, <4>4 DEF EndTold, Grows
        <5>2. j \in Past..Len(wire')
          <6>1. j \in 1..(Past - 1) => wire'[j] = wire[j] BY <1>8 DEF Grows
          <6>2. j \notin 1..(Past - 1) BY <4>4, <5>1, <6>1 DEF EndTold
          <6> QED BY <1>2, <1>8, <6>2
        <5>3. Says(wire'[j], buf', session') BY <5>2 DEF Grows
        <5>4. buf'.eof BY <5>1, <5>3 DEF Says
        <5>5. buf'.top = Total /\ buf.top = buf'.top BY <5>4 DEF Grows
        <5> QED BY <1>14, <2>1, <4>1, <4>2, <5>5
      <4> QED BY <4>3, <4>4
    <3> QED BY <1>2, <1>8, <3>1, <3>2
  <2>4. ASSUME AtEnd(k)', buf'.top = Total, Reported(k)' PROVE EndKnown(k)'
    <3>1. AtEnd(Past) /\ k >= Past /\ k = Past' BY <1>10, <1>13, <2>4
    <3>2. Reported(Past) BY <1>11, <2>4, <3>1
    <3> QED BY <1>14, <2>1, <2>2, <2>4, <3>1, <3>2
  <2>5. ASSUME AtEnd(k)', buf'.top = Total, greeting.step = "send"
        PROVE  greeting.top = Total \/ EndKnown(k)'
    <3>1. AtEnd(Past) /\ k >= Past /\ k = Past' BY <1>10, <1>13, <2>5
    <3> QED BY <1>14, <2>1, <2>2, <2>5, <3>1
  <2> QED BY <2>3, <2>4, <2>5
<1>16. NoneSkipped'
  <2> SUFFICES ASSUME ~missed, failures = 0, session' = "listed",
                      NEW m \in buf'.chunks, NEW k \in 1..Past'
               PROVE  /\ Reported(k)' /\ (Reached(m, k)' \/ AtEnd(k)') => Named(m, k)'
                      /\ AtEnd(k)' /\ greeting.step \in {"read", "send"}
                             => m \in greeting.chunks \/ Named(m, k)'
    BY DEF NoneSkipped, Grows
  <2>1. session = "listed" BY DEF Grows
  <2>2. CASE m \in buf.chunks
    <3>1. /\ AtEnd(Past) /\ Reported(Past) => Named(m, Past)
          /\ AtEnd(Past) /\ greeting.step \in {"read", "send"}
                 => m \in greeting.chunks \/ Named(m, Past)
      <4>1. Past \in 1..Past BY <1>2, <1>8
      <4> QED BY <2>1, <2>2, <4>1 DEF NoneSkipped
    <3>2. ASSUME Reported(k)', Reached(m, k)' PROVE Named(m, k)'
      <4>1. CASE k <= Past
        <5>1. k \in 1..Past BY <1>8, <4>1
        <5> QED BY <1>9, <2>1, <2>2, <3>2, <4>1, <5>1 DEF NoneSkipped
      <4>2. CASE k > Past
        <5>1. AtEnd(Past) /\ k >= Past BY <1>2, <1>8, <1>12, <4>2
        <5> QED BY <1>11, <1>14, <3>1, <3>2, <5>1
      <4> QED BY <1>2, <1>8, <4>1, <4>2
    <3>3. ASSUME AtEnd(k)' PROVE AtEnd(Past) /\ k >= Past BY <1>13, <3>3
    <3> QED BY <1>11, <1>14, <3>1, <3>2, <3>3
  <2>3. CASE m \notin buf.chunks
    <3>1. /\ m = buf.top + 1 /\ m = buf'.top
          /\ Listening => Len(wire') = Past /\ wire'[Past] = NewChunk(m)
      BY <2>3 DEF Grows
    <3>2. ASSUME k > Past PROVE Named(m, k)'
      <4>1. Past \in 1..(k - 1) BY <1>2, <1>8, <3>2
      <4>2. Listening BY <1>12, <3>2 DEF AtEnd
      <4> QED BY <3>1, <4>1, <4>2 DEF Named
    <3>3. ASSUME k <= Past PROVE ~Reached(m, k)' /\ ~AtEnd(k)'
      <4>1. k \in 1..Past BY <1>8, <3>3
      <4>2. ~Reached(m, k)
        <5>1. ~(m <= page.known)
          BY <1>2, <3>1, LimitsAssumption DEF WordHolds, Types, PageType
        <5>2. ASSUME NEW j \in 1..(k - 1)
              PROVE  /\ ~(wire[j].kind = "new_chunk" /\ m <= wire[j].i)
                     /\ ~(wire[j].kind = "start_init" /\ m <= wire[j].top)
          <6>1. j \in 1..Len(wire) BY <1>2, <1>8, <4>1
          <6>2. wire[j] \in Event /\ Says(wire[j], buf, session)
            BY <6>1 DEF Types, WordHolds, True
          <6>3. wire[j].kind = "new_chunk" => wire[j].i \in Nat /\ wire[j].i <= buf.top
            BY <6>2, LimitsAssumption DEF Event, StartInits, Index, Says
          <6>4. wire[j].kind = "start_init" => wire[j].top \in Nat /\ wire[j].top <= buf.top
            BY <6>2, LimitsAssumption DEF Event, StartInits, Says
          <6> QED BY <1>2, <3>1, <6>3, <6>4
        <5> QED BY <5>1, <5>2 DEF Reached
      <4>3. ~AtEnd(k)'
        <5>1. AtEnd(k)' => Listening /\ k = Past' BY <1>10
        <5>2. Listening => Past' = Past + 1 BY <1>8, <3>1
        <5> QED BY <1>2, <1>8, <3>3, <5>1, <5>2
      <4> QED BY <1>9, <3>3, <4>2, <4>3
    <3> QED BY <1>2, <1>8, <3>2, <3>3
  <2> QED BY <2>2, <2>3
<1> QED BY <1>1, <1>3, <1>4, <1>5, <1>6, <1>7, <1>15, <1>16

\* What is told comes after what was told before, or nowhere.
LEMMA TellGrows ==
    ASSUME wire \in Seq(Event), NEW events \in Seq(Event), Tell(events), link' = link
    PROVE  /\ wire' \in Seq(Event) /\ Len(wire) <= Len(wire')
           /\ Listening' => Listening
           /\ \A j \in 1..Len(wire) : wire'[j] = wire[j]
           /\ \A j \in Past..Len(wire') :
                  /\ Listening /\ j - Len(wire) \in 1..Len(events)
                  /\ wire'[j] = events[j - Len(wire)]
           /\ Listening => Len(wire') = Len(wire) + Len(events)
<1>1. Len(wire) \in Nat /\ Len(events) \in Nat OBVIOUS
<1>2. CASE Listening
  <2>1. wire' = wire \o events BY <1>2 DEF Tell, Listening
  <2>2. /\ wire' \in Seq(Event) /\ Len(wire') = Len(wire) + Len(events)
        /\ \A j \in 1..(Len(wire) + Len(events)) :
               wire'[j] = IF j <= Len(wire) THEN wire[j] ELSE events[j - Len(wire)]
    BY <2>1
  <2>3. ASSUME NEW j \in Past..Len(wire')
        PROVE  j - Len(wire) \in 1..Len(events) /\ wire'[j] = events[j - Len(wire)]
    <3>1. j \in 1..(Len(wire) + Len(events)) /\ ~(j <= Len(wire))
      BY <1>1, <2>2 DEF Past
    <3> QED BY <1>1, <2>2, <3>1
  <2>4. \A j \in 1..Len(wire) : wire'[j] = wire[j]
    <3>1. \A j \in 1..Len(wire) : j \in 1..(Len(wire) + Len(events)) /\ j <= Len(wire)
      BY <1>1
    <3> QED BY <2>2, <3>1
  <2> QED BY <1>1, <1>2, <2>2, <2>3, <2>4
<1>3. CASE ~Listening
  <2>1. wire' = wire BY <1>3 DEF Tell, Listening
  <2> QED BY <1>1, <1>3, <2>1 DEF Past, Listening, Closed
<1> QED BY <1>2, <1>3

\* The answers on the wire are finitely many.
LEMMA AnswersFinite ==
    ASSUME wire \in Seq(Event)
    PROVE  IsFiniteSet(Answers) /\ Cardinality(Answers) \in Nat
<1>1. Answers \subseteq 1..Len(wire) /\ Len(wire) \in Nat BY DEF Answers
<1>2. IsFiniteSet(1..Len(wire)) BY <1>1, FS_Interval
<1> QED BY <1>1, <1>2, FS_Subset, FS_CardinalityType

\* What the server says beside its answers does not add to them.
LEMMA NoMoreAnswers ==
    ASSUME IInv, Grows, toServer' = toServer,
           \A j \in Past..Len(wire') : wire'[j].kind # "chunk_download"
    PROVE  AnswersHold'
<1>1. Len(wire) \in Nat /\ Len(wire') \in Nat BY DEF IInv, Types, Grows
<1>2. Answers' = Answers
  <2>1. \A j \in 1..Len(wire') : j \in 1..Len(wire) \/ j \in Past..Len(wire')
    BY <1>1 DEF Past
  <2>2. \A j \in 1..Len(wire) : j \in 1..Len(wire') /\ wire'[j] = wire[j]
    BY <1>1 DEF Grows
  <2> QED BY <2>1, <2>2 DEF Answers
<1> QED BY <1>2 DEF IInv, AnswersHold, Settled, Grows

-----------------------------------------------------------------------------
(* The steps of the server *)

LEMMA Consumers ==
    /\ IsFiniteSet({Me, Other}) /\ Cardinality({Me, Other}) <= MaxConsumers
<1>1. IsFiniteSet({}) /\ Cardinality({}) = 0 BY FS_EmptySet
<1>2. IsFiniteSet({Me}) /\ Cardinality({Me}) = 1 BY FS_Singleton
<1>3. {Me, Other} = {Me} \cup {Other} /\ Other \notin {Me} BY WebReceiverAssumption
<1>4. IsFiniteSet({Me, Other}) /\ Cardinality({Me, Other}) = 2
  BY <1>2, <1>3, FS_AddElement
<1> QED BY <1>4, WebReceiverAssumption, LimitsAssumption

LEMMA UploadKeeps ==
    ASSUME IInv, page.done = "no", Upload
    PROVE  IInv'
<1> USE DEF IInv
<1> DEFINE n == buf.top + 1
           events == <<NewChunk(n)>>
<1>1. /\ buf' = AddChunk(buf) /\ NewChunkIsAllowed(buf) /\ ~buf.eof /\ buf.top < Total
      /\ session = "listed"
      /\ UNCHANGED <<session, greeting, toServer, link, losses, failures, browser, history>>
  BY DEF Upload
<1>2. buf \in BufferType({Me, Other}) /\ buf.top \in Nat
  BY LimitsAssumption DEF Types, BufferType
<1>3. /\ buf' \in BufferType({Me, Other}) /\ ~buf'.eof /\ buf'.top = n
      /\ buf'.chunks = buf.chunks \cup {n}
  <2>1. AddChunk(buf) # buf
    <3>1. AddChunk(buf).top = n
      BY <1>1, <1>2 DEF AddChunk, BufferType
    <3> QED BY <1>2, <3>1
  <2>2. IsFiniteSet({Me, Other}) /\ buf.top < MaxUploads
    BY <1>1, Consumers DEF Total
  <2>3. /\ AddChunk(buf) \in BufferType({Me, Other}) /\ AddChunk(buf).eof = buf.eof
        /\ AddChunk(buf).top = n /\ AddChunk(buf).chunks = buf.chunks \cup {n}
    BY <1>2, <2>1, <2>2, AddChunkEffect
  <2> QED BY <1>1, <2>3
<1>4. n \in Index /\ n \in Nat BY <1>1, <1>2, LimitsAssumption DEF Index, Total
<1>5. NewChunk(n) \in Event /\ events \in Seq(Event)
  BY <1>4 DEF NewChunk, Event
<1>6. Tell(events) BY <1>3 DEF Upload
<1>7. Len(events) = 1 /\ events[1] = NewChunk(n) OBVIOUS
<1> HIDE DEF events
<1>8. /\ wire' \in Seq(Event) /\ Len(wire) <= Len(wire') /\ (Listening' => Listening)
      /\ \A j \in 1..Len(wire) : wire'[j] = wire[j]
      /\ \A j \in Past..Len(wire') :
             /\ Listening /\ j - Len(wire) \in 1..Len(events)
             /\ wire'[j] = events[j - Len(wire)]
      /\ Listening => Len(wire') = Len(wire) + Len(events)
  <2>1. wire \in Seq(Event) /\ link' = link BY <1>1 DEF Types
  <2> QED BY <1>5, <1>6, <2>1, TellGrows
<1>9. \A j \in Past..Len(wire') : Listening /\ wire'[j] = NewChunk(n) BY <1>7, <1>8
<1>10. Len(wire) \in Nat BY DEF Types
<1>11. Listening => Len(wire') = Past /\ wire'[Past] = NewChunk(n)
  BY <1>7, <1>8, <1>9, <1>10 DEF Past
<1>12. \A j \in Past..Len(wire') :
          /\ Listening /\ wire'[j].kind = "new_chunk"
          /\ Says(wire'[j], buf', session')
  BY <1>3, <1>4, <1>9 DEF NewChunk, Says
<1>13. buf'.chunks \subseteq 1..buf'.top
  <2>1. buf.chunks \subseteq 1..buf.top BY DEF WordHolds
  <2> QED BY <1>2, <1>3, <2>1
<1>14. Grows
  BY <1>1, <1>2, <1>3, <1>8, <1>11, <1>12, <1>13
  DEF Grows, Types, browser, history
<1>15. AnswersHold' BY <1>1, <1>12, <1>14, NoMoreAnswers
<1> QED BY <1>14, <1>15, GrowsKeeps

\* A step of the server other than an upload, with what it tells.
LEMMA ServerKeeps ==
    ASSUME IInv, page.done = "no", session = "listed",
           NEW events \in Seq(Event), Tell(events),
           UNCHANGED <<greeting, link, failures, page, disk, dropped, missed, synced,
                       redone, torn, byClose>>,
           buf' \in BufferType({Me, Other}), buf'.top = buf.top,
           buf'.chunks \subseteq buf.chunks, buf.eof => buf'.eof,
           buf'.eof => buf'.top = Total,
           session' \in {"listed", "ok", "timeout"}, session' = "ok" => buf'.eof,
           losses' \in 0..MaxFaults, losses <= losses',
           toServer' \in Seq(Index), toServer = <<>> => toServer' = <<>>,
           \A j \in 1..Len(events) :
               events[j].kind # "start_init" /\ Says(events[j], buf', session')
    PROVE  /\ Grows
           /\ AnswersHold' => IInv'
           /\ toServer' = toServer
                /\ (\A j \in 1..Len(events) : events[j].kind # "chunk_download") => IInv'
<1>1. /\ wire' \in Seq(Event) /\ Len(wire) <= Len(wire') /\ (Listening' => Listening)
      /\ \A j \in 1..Len(wire) : wire'[j] = wire[j]
      /\ \A j \in Past..Len(wire') :
             /\ Listening /\ j - Len(wire) \in 1..Len(events)
             /\ wire'[j] = events[j - Len(wire)]
  <2>1. wire \in Seq(Event) /\ link' = link BY DEF IInv, Types
  <2> QED BY <2>1, TellGrows
<1>2. \A j \in Past..Len(wire') : /\ Listening /\ wire'[j].kind # "start_init"
                                  /\ Says(wire'[j], buf', session')
  BY <1>1
<1>3. buf'.chunks \subseteq 1..buf'.top BY DEF IInv, WordHolds
<1>4. Grows BY <1>1, <1>2, <1>3 DEF Grows
<1>5. AnswersHold' => IInv' BY <1>4, GrowsKeeps
<1>6. ASSUME toServer' = toServer,
             \A j \in 1..Len(events) : events[j].kind # "chunk_download"
      PROVE  IInv'
  <2>1. \A j \in Past..Len(wire') : wire'[j].kind # "chunk_download" BY <1>1, <1>6
  <2> QED BY <1>4, <1>5, <1>6, <2>1, NoMoreAnswers
<1> QED BY <1>4, <1>5, <1>6

\* "complete" comes last.
LEMMA EndEvents ==
    ASSUME NEW e \in Seq(Event), NEW s \in {"ok", "timeout"}
    PROVE  /\ Append(e, Complete(s)) \in Seq(Event)
           /\ Len(Append(e, Complete(s))) = Len(e) + 1
           /\ \A j \in 1..Len(Append(e, Complete(s))) :
                  \/ j \in 1..Len(e) /\ Append(e, Complete(s))[j] = e[j]
                  \/ Append(e, Complete(s))[j] = Complete(s)
<1>1. Complete(s) \in Event BY DEF Complete, Event
<1> QED BY <1>1

LEMMA EndUploadKeeps ==
    ASSUME IInv, page.done = "no", EndUpload
    PROVE  IInv'
<1> DEFINE e == <<UploadFinished>>
           events == IF buf.chunks = {} THEN Append(e, Complete("ok")) ELSE e
<1>1. /\ session = "listed" /\ buf.top = Total /\ buf' = SetEndOfFile(buf)
      /\ session' = IF buf.chunks = {} THEN "ok" ELSE session
      /\ Tell(events)
      /\ UNCHANGED <<greeting, toServer, link, losses, failures, browser,
                     dropped, missed, synced, redone, torn, byClose>>
  BY DEF EndUpload, EndIf
<1>2. buf \in BufferType({Me, Other}) BY DEF IInv, Types
<1>3. /\ buf' \in BufferType({Me, Other}) /\ buf'.top = buf.top /\ buf'.eof
      /\ buf'.chunks = buf.chunks
  BY <1>1, <1>2 DEF SetEndOfFile, BufferType
<1>4. e \in Seq(Event) /\ Len(e) = 1 /\ e[1] = UploadFinished
  BY DEF UploadFinished, Event
<1> HIDE DEF e
<1>5. /\ events \in Seq(Event)
      /\ \A j \in 1..Len(events) :
             \/ events[j] = UploadFinished
             \/ events[j] = Complete("ok") /\ buf.chunks = {}
  BY <1>4, EndEvents
<1> HIDE DEF events
<1>6. \A j \in 1..Len(events) :
          /\ events[j].kind # "start_init" /\ Says(events[j], buf', session')
          /\ events[j].kind # "chunk_download"
  BY <1>1, <1>3, <1>5 DEF UploadFinished, Complete, Says
<1>7. /\ losses' \in 0..MaxFaults /\ losses <= losses' /\ toServer' \in Seq(Index)
      /\ session' \in {"listed", "ok", "timeout"}
  BY <1>1 DEF IInv, Types
<1> QED BY <1>1, <1>3, <1>5, <1>6, <1>7, ServerKeeps DEF browser

LEMMA OtherConfirmsKeeps ==
    ASSUME IInv, page.done = "no", NEW i \in Index, OtherConfirms(i)
    PROVE  IInv'
<1> DEFINE events == IF buf'.chunks = {} /\ buf.eof THEN Append(<<>>, Complete("ok"))
                     ELSE <<>>
<1>1. /\ session = "listed" /\ buf' = SetChunkAsReceived(buf, i)
      /\ session' = IF buf'.chunks = {} /\ buf.eof THEN "ok" ELSE session
      /\ Tell(events)
      /\ UNCHANGED <<greeting, toServer, link, losses, failures, browser,
                     dropped, missed, synced, redone, torn, byClose>>
  BY DEF OtherConfirms, EndIf
<1>2. /\ buf' \in BufferType({Me, Other}) /\ buf'.top = buf.top /\ buf'.eof = buf.eof
      /\ buf'.chunks \subseteq buf.chunks
  BY <1>1, Consumers, ConfirmEffect DEF IInv, Types
<1>3. /\ events \in Seq(Event)
      /\ \A j \in 1..Len(events) : events[j] = Complete("ok") /\ buf'.chunks = {} /\ buf.eof
  <2>1. <<>> \in Seq(Event) /\ 1..Len(<<>>) = {} OBVIOUS
  <2> QED BY <2>1, EndEvents
<1> HIDE DEF events
<1>4. \A j \in 1..Len(events) :
          /\ events[j].kind # "start_init" /\ Says(events[j], buf', session')
          /\ events[j].kind # "chunk_download"
  BY <1>1, <1>2, <1>3 DEF Complete, Says
<1>5. /\ losses' \in 0..MaxFaults /\ losses <= losses' /\ toServer' \in Seq(Index)
      /\ session' \in {"listed", "ok", "timeout"} /\ (buf.eof => buf.top = Total)
  BY <1>1 DEF IInv, Types, WordHolds
<1> QED BY <1>1, <1>2, <1>3, <1>4, <1>5, ServerKeeps DEF browser

LEMMA EndSessionKeeps ==
    ASSUME IInv, page.done = "no", EndSession
    PROVE  IInv'
<1> DEFINE events == <<Complete("timeout")>>
<1>1. /\ session = "listed" /\ FaultsLeft /\ losses' = losses + 1
      /\ session' = "timeout" /\ Tell(events)
      /\ UNCHANGED <<buf, greeting, toServer, link, failures, browser,
                     dropped, missed, synced, redone, torn, byClose>>
  BY DEF EndSession
<1>2. /\ events \in Seq(Event) /\ Len(events) = 1 /\ events[1] = Complete("timeout")
  BY DEF Complete, Event
<1> HIDE DEF events
<1>3. \A j \in 1..Len(events) :
          /\ events[j].kind # "start_init" /\ Says(events[j], buf', session')
          /\ events[j].kind # "chunk_download"
  BY <1>1, <1>2 DEF Complete, Says
<1>4. losses' \in 0..MaxFaults /\ losses <= losses'
  BY <1>1, WebReceiverAssumption DEF IInv, Types, FaultsLeft
<1>5. /\ toServer' \in Seq(Index) /\ (buf'.eof => buf'.top = Total)
      /\ buf' \in BufferType({Me, Other})
  BY <1>1 DEF IInv, Types, WordHolds
<1> QED BY <1>1, <1>2, <1>3, <1>4, <1>5, ServerKeeps DEF browser

\* A confirmation goes, and an answer may come in its place.
LEMMA ReadConfirmKeeps ==
    ASSUME IInv, page.done = "no", ReadConfirm
    PROVE  IInv'
<1> DEFINE i == Head(toServer)
           answered == i \in buf.chunks
           base == IF answered THEN <<Finished>> ELSE <<>>
           over == answered /\ buf'.chunks = {} /\ buf.eof
           events == IF over THEN Append(base, Complete("ok")) ELSE base
<1>1. /\ toServer # <<>> /\ session = "listed" /\ buf' = SetChunkAsReceived(buf, i)
      /\ session' = IF over THEN "ok" ELSE session
      /\ Tell(events) /\ toServer' = Tail(toServer)
      /\ UNCHANGED <<greeting, link, losses, failures, browser,
                     dropped, missed, synced, redone, torn, byClose>>
  BY DEF ReadConfirm, EndIf
<1>2. /\ toServer \in Seq(Index) /\ toServer' \in Seq(Index)
      /\ Len(toServer') = Len(toServer) - 1 /\ Len(toServer) \in Nat \ {0}
  BY <1>1 DEF IInv, Types
<1>3. /\ buf' \in BufferType({Me, Other}) /\ buf'.top = buf.top /\ buf'.eof = buf.eof
      /\ buf'.chunks \subseteq buf.chunks
  BY <1>1, Consumers, ConfirmEffect DEF IInv, Types
<1>4. /\ base \in Seq(Event) /\ Len(base) \in {0, 1}
      /\ \A j \in 1..Len(base) : j = 1 /\ base[j] = Finished
  <2>1. Finished \in Event BY DEF Finished, Event
  <2>2. CASE answered BY <2>1, <2>2
  <2>3. CASE ~answered
    <3>1. base = <<>> BY <2>3
    <3> QED BY <3>1
  <2> QED BY <2>2, <2>3
<1> HIDE DEF base
<1>5. /\ events \in Seq(Event)
      /\ \A j \in 1..Len(events) :
             \/ j = 1 /\ events[j] = Finished
             \/ events[j] = Complete("ok") /\ over
  BY <1>4, EndEvents
<1> HIDE DEF events
<1>6. \A j \in 1..Len(events) :
          events[j].kind # "start_init" /\ Says(events[j], buf', session')
  BY <1>1, <1>3, <1>5 DEF Finished, Complete, Says
<1> HIDE DEF over
<1>7. /\ losses' \in 0..MaxFaults /\ losses <= losses' /\ (buf.eof => buf.top = Total)
      /\ session' \in {"listed", "ok", "timeout"} /\ (session' = "ok" => buf.eof)
  BY <1>1 DEF IInv, Types, WordHolds, over
<1>8. Grows /\ (AnswersHold' => IInv')
  BY <1>1, <1>2, <1>3, <1>5, <1>6, <1>7, ServerKeeps DEF browser
<1>9. Answers' \subseteq Answers \cup {Past}
  <2>1. wire \in Seq(Event) /\ link' = link BY <1>1 DEF IInv, Types
  <2>2. /\ \A j \in 1..Len(wire) : wire'[j] = wire[j]
        /\ \A j \in Past..Len(wire') :
               j - Len(wire) \in 1..Len(events) /\ wire'[j] = events[j - Len(wire)]
    BY <1>1, <1>5, <2>1, TellGrows
  <2>3. Len(wire) \in Nat /\ Len(wire') \in Nat BY <1>8 DEF IInv, Types, Grows
  <2> SUFFICES ASSUME NEW j \in 1..Len(wire'), wire'[j].kind = "chunk_download"
               PROVE  j \in Answers \cup {Past}
    BY DEF Answers
  <2>4. CASE j \in 1..Len(wire) BY <2>2, <2>4 DEF Answers
  <2>5. CASE j \in Past..Len(wire')
    <3>1. j - Len(wire) = 1 BY <1>5, <2>2, <2>5 DEF Complete
    <3> QED BY <2>3, <3>1 DEF Past
  <2> QED BY <2>3, <2>4, <2>5 DEF Past
<1>10. Cardinality(Answers') <= Cardinality(Answers) + 1 /\ Cardinality(Answers') \in Nat
  <2>1. IsFiniteSet(Answers) /\ Cardinality(Answers) \in Nat
    BY AnswersFinite DEF IInv, Types
  <2>2. /\ IsFiniteSet(Answers \cup {Past}) /\ Cardinality(Answers \cup {Past}) \in Nat
        /\ Cardinality(Answers \cup {Past}) <= Cardinality(Answers) + 1
    BY <2>1, OneMore, FS_AddElement
  <2>3. IsFiniteSet(Answers') /\ Cardinality(Answers') <= Cardinality(Answers \cup {Past})
    BY <1>9, <2>2, FS_Subset
  <2>4. Cardinality(Answers') \in Nat BY <2>3, FS_CardinalityType
  <2> QED BY <2>1, <2>2, <2>3, <2>4
<1>11. page' = page /\ page.unacked \in Int BY <1>1 DEF browser, IInv, Types, PageType
<1>12. Settled' = Settled BY <1>11 DEF Settled
<1>13. AnswersHold'
  <2>1. /\ Len(toServer) + Cardinality(Answers) <= page.unacked
        /\ page.unacked <= Cardinality(Settled)
    BY DEF IInv, AnswersHold
  <2>2. Cardinality(Answers) \in Nat BY AnswersFinite DEF IInv, Types
  <2>3. Len(toServer') + Cardinality(Answers') <= page.unacked
    BY <1>2, <1>10, <1>11, <2>1, <2>2
  <2> QED BY <1>11, <1>12, <2>1, <2>3 DEF AnswersHold
<1> QED BY <1>8, <1>13

-----------------------------------------------------------------------------
(* The end of a connection *)

\* The close frame comes after a part of what was told, and nothing after it.
Cuts ==
    /\ UNCHANGED <<buf, session, greeting, link, failures, page, disk, dropped, missed,
                   synced, redone, torn, byClose>>
    /\ link # "down" /\ losses' \in 0..MaxFaults /\ losses <= losses'
    /\ toServer' \in {toServer, <<>>}
    /\ \E n \in 0..Len(wire) : wire' = Append(SubSeq(wire, 1, n), Close)

LEMMA CutsKeeps ==
    ASSUME IInv, page.done = "no", Cuts
    PROVE  IInv'
<1> USE DEF IInv
<1>1. PICK n \in 0..Len(wire) : wire' = Append(SubSeq(wire, 1, n), Close) BY DEF Cuts
<1>2. Len(wire) \in Nat /\ n \in Nat /\ n <= Len(wire) /\ wire \in Seq(Event)
  BY DEF Types
<1>3. Close \in Event BY DEF Close, Event
<1>4. /\ wire' \in Seq(Event) /\ Len(wire') = n + 1 /\ wire'[n + 1] = Close
      /\ \A j \in 1..n : wire'[j] = wire[j]
  <2> DEFINE s == SubSeq(wire, 1, n)
  <2>1. s \in Seq(Event) /\ Len(s) = n /\ \A j \in 1..n : s[j] = wire[j]
    BY <1>2, SubSeqProperties
  <2> HIDE DEF s
  <2>2. wire' = Append(s, Close) BY <1>1 DEF s
  <2> QED BY <1>2, <1>3, <2>1, <2>2, AppendProperties
<1>5. Types'
  <2>1. <<>> \in Seq(Index) /\ toServer \in Seq(Index) BY DEF Types
  <2>2. toServer' = toServer \/ toServer' = <<>> BY DEF Cuts
  <2>3. toServer' \in Seq(Index) BY <2>1, <2>2
  <2> QED BY <1>4, <2>3 DEF Types, Cuts
<1>6. \A j \in 1..Len(wire') : (j \in 1..n /\ j \in 1..Len(wire)) \/ j = n + 1
  BY <1>2, <1>4
<1>7. WordHolds'
  <2>1. \A j \in 1..Len(wire') : Says(wire'[j], buf, session)
    BY <1>4, <1>6 DEF WordHolds, True, Says, Close
  <2>2. Greeting' = Greeting BY DEF Greeting, Cuts
  <2> QED BY <2>1, <2>2 DEF WordHolds, True, Cuts
<1>8. Inits' \subseteq Inits /\ Answers' \subseteq Answers
  BY <1>4, <1>6 DEF Inits, Answers, Close
<1>9. GreetingHolds' BY <1>8 DEF GreetingHolds, Cuts
<1>10. AnswersHold'
  <2>1. /\ Cardinality(Answers') <= Cardinality(Answers)
        /\ Cardinality(Answers') \in Nat /\ Cardinality(Answers) \in Nat
    <3>1. IsFiniteSet(Answers) BY AnswersFinite DEF Types
    <3>2. IsFiniteSet(Answers') /\ Cardinality(Answers') <= Cardinality(Answers)
      BY <1>8, <3>1, FS_Subset
    <3> QED BY <3>1, <3>2, FS_CardinalityType
  <2>2. Len(toServer') <= Len(toServer) /\ Len(toServer') \in Nat /\ Len(toServer) \in Nat
    BY DEF Cuts, Types
  <2>3. page' = page /\ page.unacked \in Int BY DEF Cuts, Types, PageType
  <2>4. /\ Len(toServer) + Cardinality(Answers) <= page.unacked
        /\ page.unacked <= Cardinality(Settled)
    BY DEF AnswersHold
  <2>5. Settled' = Settled BY <2>3 DEF Settled
  <2>6. Len(toServer') + Cardinality(Answers') <= page.unacked
    BY <2>1, <2>2, <2>3, <2>4
  <2> QED BY <2>3, <2>4, <2>5, <2>6 DEF AnswersHold
<1>11. LoopsHold'
  <2>1. /\ page' = page /\ synced' = synced
        /\ losses' \in Nat /\ losses \in Nat /\ losses <= losses' /\ Loop \subseteq Nat
    BY WebReceiverAssumption DEF Cuts, Types, Loop
  <2>2. ASSUME NEW l \in Loop PROVE l \in Nat /\ (l <= losses => l <= losses')
                                    /\ (l >= losses' => l >= losses)
    BY <2>1
  <2>3. Pending(page') = Pending(page) BY <2>1
  <2> QED BY <2>1, <2>2, <2>3 DEF LoopsHold
<1>12. FetchHolds' /\ DiskHolds' /\ DoneHolds'
  BY DEF FetchHolds, DiskHolds, DoneHolds, Cuts, Writers, Wanted
<1>13. Past' = n + 2 /\ ~Listening'
  <2>1. Closed(wire') BY <1>2, <1>4 DEF Closed
  <2>2. Past' = n + 2 BY <1>2, <1>4 DEF Past
  <2> QED BY <2>1, <2>2 DEF Listening
<1>14. ASSUME NEW k \in 1..Past'
       PROVE  \E h \in 1..Past : /\ Reported(k)' <=> Reported(h)
                                 /\ EndTold(k)' <=> EndTold(h)
                                 /\ EndKnown(k)' <=> EndKnown(h)
                                 /\ \A m : Reached(m, k)' <=> Reached(m, h)
                                 /\ \A m : Named(m, k)' <=> Named(m, h)
  <2> DEFINE h == IF k <= n + 1 THEN k ELSE n + 1
  <2>1. h \in 1..Past /\ h \in 1..(n + 1) BY <1>2, <1>13 DEF Past
  <2>2. \A j \in 1..(k - 1) : j \in 1..(h - 1) \/ wire'[j] = Close
    BY <1>2, <1>4, <1>13
  <2>3. \A j \in 1..(h - 1) : j \in 1..(k - 1) /\ wire'[j] = wire[j]
    BY <1>2, <1>4, <1>13, <2>1
  <2> HIDE DEF h
  <2>4. \A j \in 1..(k - 1) : j \in 1..(h - 1) \/ wire'[j].kind = "close"
    BY <2>2 DEF Close
  <2>5. \A m : NewChunk(m).kind = "new_chunk" BY DEF NewChunk
  <2>6. Reported(k)' <=> Reported(h) BY <2>3, <2>4 DEF Reported, Cuts
  <2>7. EndTold(k)' <=> EndTold(h) BY <2>3, <2>4 DEF EndTold, Cuts
  <2>8. EndKnown(k)' <=> EndKnown(h) BY <2>3, <2>4, <2>5 DEF EndKnown, Cuts
  <2>9. \A m : Reached(m, k)' <=> Reached(m, h) BY <2>3, <2>4 DEF Reached, Cuts
  <2>10. \A m : Named(m, k)' <=> Named(m, h)
    BY <2>3, <2>4, <2>5 DEF Named, Cuts, Tracked, Pending
  <2> QED BY <2>1, <2>6, <2>7, <2>8, <2>9, <2>10
<1>15. \A k : ~AtEnd(k)' BY <1>13 DEF AtEnd
<1>16. CaughtUp' BY <1>14, <1>15 DEF CaughtUp, Cuts
<1>17. NoneSkipped' BY <1>14, <1>15 DEF NoneSkipped, Cuts
<1> QED BY <1>5, <1>7, <1>9, <1>10, <1>11, <1>12, <1>16, <1>17

LEMMA ReplaceKeeps ==
    ASSUME IInv, page.done = "no", Replace
    PROVE  IInv'
<1>1. losses' \in 0..MaxFaults /\ losses <= losses'
  BY WebReceiverAssumption DEF IInv, Types, Replace, FaultsLeft
<1>2. \E n \in 0..Len(wire) : wire' = Append(SubSeq(wire, 1, n), Close)
  <2>1. wire \in Seq(Event) /\ Len(wire) \in 0..Len(wire) BY DEF IInv, Types
  <2>2. SubSeq(wire, 1, Len(wire)) = wire BY <2>1
  <2> QED BY <2>1, <2>2 DEF Replace
<1>3. Cuts BY <1>1, <1>2 DEF Cuts, Replace, server, browser, history
<1> QED BY <1>3, CutsKeeps

LEMMA ReadConfirmTooLateKeeps ==
    ASSUME IInv, page.done = "no", ReadConfirmTooLate
    PROVE  IInv'
<1> USE DEF IInv
<1>1. /\ toServer # <<>> /\ toServer' = <<>>
      /\ UNCHANGED <<server, link, losses, failures, browser, history>>
  BY DEF ReadConfirmTooLate
<1>2. link # "down" BY <1>1 DEF GreetingHolds
<1>3. CASE wire' = wire
  <2>1. <<>> \in Seq(Index) /\ Len(<<>>) = 0 OBVIOUS
  <2>2. Types' BY <1>1, <1>3, <2>1 DEF Types, server, browser, history
  <2>3. WordHolds'
    BY <1>1, <1>3 DEF WordHolds, True, Says, Greeting, server, browser
  <2>4. GreetingHolds'
    BY <1>1, <1>2, <1>3 DEF GreetingHolds, Inits, server, browser, history
  <2>5. Answers' = Answers /\ Settled' = Settled
    BY <1>1, <1>3 DEF Answers, Settled, browser
  <2>6. AnswersHold'
    <3>1. Cardinality(Answers) \in Nat BY AnswersFinite DEF Types
    <3>2. Len(toServer) \in Nat BY DEF Types
    <3>3. page' = page /\ page.unacked \in Int BY <1>1 DEF browser, Types, PageType
    <3>4. Len(toServer') = 0 BY <1>1, <2>1
    <3> QED BY <2>5, <3>1, <3>2, <3>3, <3>4 DEF AnswersHold
  <2>7. LoopsHold' /\ FetchHolds' /\ DiskHolds' /\ DoneHolds'
    BY <1>1 DEF LoopsHold, Pending, FetchHolds, DiskHolds, DoneHolds, Writers, Wanted,
                browser, history, server
  <2>8. CaughtUp'
    BY <1>1, <1>3 DEF CaughtUp, Past, Reported, EndTold, EndKnown, AtEnd, Listening,
                      Closed, server, browser, history
  <2>9. NoneSkipped'
    BY <1>1, <1>3 DEF NoneSkipped, Past, Reported, Reached, Named, AtEnd, Listening,
                      Closed, Tracked, Pending, server, browser, history
  <2> QED BY <2>2, <2>3, <2>4, <2>6, <2>7, <2>8, <2>9
<1>4. CASE \E n \in 0..Len(wire) : wire' = Append(SubSeq(wire, 1, n), Close)
  <2>1. Cuts
    BY <1>1, <1>2, <1>4 DEF Cuts, Types, server, browser, history
  <2> QED BY <2>1, CutsKeeps
<1> QED BY <1>3, <1>4 DEF ReadConfirmTooLate, CloseAhead

\* A page that is loaded anew owes nothing.
LEMMA FreshPageHolds ==
    /\ FreshPage \in PageType /\ FreshPage.done = "no" /\ ~FreshPage.mounted
    /\ FreshPage.known = 0 /\ ~FreshPage.finished /\ FreshPage.have = {}
    /\ FreshPage.unacked = 0 /\ FreshPage.buffered = {} /\ FreshPage.next = 1
    /\ \A l \in Loop : FreshPage.loops[l] = {}
    /\ \A i \in Index : FreshPage.fetch[i] = NoFetch /\ FreshPage.fetch[i].st = "none"
    /\ Pending(FreshPage) = {} /\ Writers(FreshPage) = {} /\ Wanted(FreshPage) = {}
<1>1. NoFetch \in FetchType /\ NoFetch.st = "none"
  BY WebReceiverAssumption, LimitsAssumption DEF NoFetch, FetchType, NewChunkHandler, Total
<1>2. FreshPage \in PageType
  BY <1>1, LimitsAssumption DEF FreshPage, PageType, Status, Total
<1>3. /\ \A l \in Loop : FreshPage.loops[l] = {}
      /\ \A i \in Index : FreshPage.fetch[i] = NoFetch
  BY DEF FreshPage
<1>4. /\ FreshPage.done = "no" /\ ~FreshPage.mounted
      /\ FreshPage.known = 0 /\ ~FreshPage.finished /\ FreshPage.have = {}
      /\ FreshPage.unacked = 0 /\ FreshPage.buffered = {} /\ FreshPage.next = 1
  BY DEF FreshPage
<1>5. Pending(FreshPage) = {} /\ Writers(FreshPage) = {} /\ Wanted(FreshPage) = {}
  BY <1>1, <1>3 DEF Pending, Writers, Wanted
<1> QED BY <1>1, <1>2, <1>3, <1>4, <1>5

\* Without a connection nothing is under way.
LEMMA LoseKeeps ==
    ASSUME IInv, page.done = "no", LoseConnection,
           UNCHANGED <<buf, session, failures, missed, redone, torn, byClose>>
    PROVE  /\ losses' \in 0..MaxFaults /\ losses' = losses + 1
           /\ wire' = <<>> /\ toServer' = <<>> /\ Answers' = {} /\ Inits' = {}
           /\ page' \in PageType => Types'
           /\ page'.known <= buf.top /\ (page'.finished => buf.eof) => WordHolds'
           /\ (page'.mounted => dropped' = {}) /\ (~page'.mounted => page' = FreshPage)
                => GreetingHolds'
           /\ CaughtUp' /\ NoneSkipped'
           /\ page'.done = "no" => DoneHolds'
<1> USE DEF IInv
<1>1. /\ losses' = losses + 1 /\ link' = "down" /\ wire' = <<>> /\ toServer' = <<>>
      /\ greeting' = [greeting EXCEPT !.step = "none"] /\ synced' = FALSE /\ FaultsLeft
  BY DEF LoseConnection
<1>2. losses' \in 0..MaxFaults BY <1>1, WebReceiverAssumption DEF Types, FaultsLeft
<1>3. /\ greeting'.step = "none"
      /\ greeting' \in [step: {"none", "list", "read", "send"}, chunks: SUBSET Index,
                        top: 0..Total, eof: BOOLEAN]
  BY <1>1 DEF Types
<1>4. Len(wire') = 0 /\ wire' \in Seq(Event) /\ toServer' \in Seq(Index) BY <1>1
<1>5. page' \in PageType => Types' BY <1>1, <1>2, <1>3, <1>4 DEF Types
<1>6. Answers' = {} /\ Inits' = {} BY <1>4 DEF Answers, Inits
<1>7. page'.known <= buf.top /\ (page'.finished => buf.eof) => WordHolds'
  BY <1>3, <1>4 DEF WordHolds
<1>8. (page'.mounted => dropped' = {}) /\ (~page'.mounted => page' = FreshPage)
          => GreetingHolds'
  BY <1>1, <1>3, <1>6 DEF GreetingHolds
<1>9. Past' = 1 BY <1>4 DEF Past
<1>10. \A k \in 1..Past' : ~Reported(k)' BY <1>1, <1>9 DEF Reported
<1>11. \A k : ~AtEnd(k)' BY <1>1 DEF AtEnd, Listening
<1>12. CaughtUp' /\ NoneSkipped' BY <1>10, <1>11 DEF CaughtUp, NoneSkipped
<1>13. page'.done = "no" => DoneHolds' BY DEF DoneHolds
<1> QED BY <1>1, <1>2, <1>5, <1>6, <1>7, <1>8, <1>12, <1>13

LEMMA BreakKeeps ==
    ASSUME IInv, page.done = "no", Break
    PROVE  IInv'
<1> USE DEF IInv
<1>1. /\ LoseConnection
      /\ UNCHANGED <<buf, session, failures, browser, dropped, missed, silent, redone, torn, byClose>>
  BY DEF Break
<1>2. page' = page /\ disk' = disk BY <1>1 DEF browser
<1>3. /\ losses' = losses + 1 /\ wire' = <<>> /\ toServer' = <<>> /\ Answers' = {}
      /\ Types' /\ WordHolds' /\ GreetingHolds' /\ CaughtUp' /\ NoneSkipped' /\ DoneHolds'
  BY <1>1, <1>2, LoseKeeps DEF Types, WordHolds, GreetingHolds
<1>4. AnswersHold'
  <2>1. Cardinality(Answers) \in Nat /\ Len(toServer) \in Nat /\ page.unacked \in Int
    BY AnswersFinite DEF Types, PageType
  <2>2. Len(toServer') = 0 /\ Cardinality(Answers') = 0 BY <1>3, FS_EmptySet
  <2>3. Settled' = Settled BY <1>2 DEF Settled
  <2> QED BY <1>2, <2>1, <2>2, <2>3 DEF AnswersHold
<1>5. LoopsHold'
  <2>1. losses \in Nat BY WebReceiverAssumption DEF Types
  <2>2. \A l \in Loop : l \in Nat BY WebReceiverAssumption DEF Loop
  <2>3. \A l \in Loop : l <= losses => l <= losses' BY <1>3, <2>1, <2>2
  <2>4. \A l \in Loop : l >= losses' => ~(l <= losses) BY <1>3, <2>1, <2>2
  <2> QED BY <1>2, <2>3, <2>4 DEF LoopsHold, Pending
<1>6. FetchHolds' /\ DiskHolds'
  BY <1>1, <1>2 DEF FetchHolds, DiskHolds, Writers, Wanted
<1> QED BY <1>3, <1>4, <1>5, <1>6

LEMMA ReloadKeeps ==
    ASSUME IInv, page.done = "no", Reload
    PROVE  IInv'
<1> USE DEF IInv
<1>1. /\ LoseConnection /\ page' = FreshPage /\ disk' = <<>> /\ dropped' = {}
      /\ UNCHANGED <<buf, session, failures, missed, silent, redone, torn, byClose>>
  BY DEF Reload
<1>2. buf.top \in Nat BY LimitsAssumption DEF Types, BufferType
<1>3. /\ wire' = <<>> /\ toServer' = <<>> /\ Answers' = {}
      /\ Types' /\ WordHolds' /\ GreetingHolds' /\ CaughtUp' /\ NoneSkipped' /\ DoneHolds'
  BY <1>1, <1>2, FreshPageHolds, LoseKeeps
<1>4. AnswersHold'
  <2>1. Len(toServer') = 0 /\ Cardinality({}) = 0 BY <1>3, FS_EmptySet
  <2>2. Settled' = {} BY <1>1, FreshPageHolds DEF Settled
  <2> QED BY <1>1, <1>3, <2>1, <2>2, FreshPageHolds DEF AnswersHold
<1>5. LoopsHold' BY <1>1, FreshPageHolds DEF LoopsHold
<1>6. FetchHolds' BY <1>1, FreshPageHolds DEF FetchHolds
<1>7. DiskHolds'
  <2>1. InOrder(0) = <<>> BY DEF InOrder
  <2>2. 1..(1 - 1) = {} /\ 1 - 1 = 0 OBVIOUS
  <2> QED BY <1>1, <2>1, <2>2, FreshPageHolds DEF DiskHolds
<1> QED BY <1>3, <1>4, <1>5, <1>6, <1>7

-----------------------------------------------------------------------------
(* The beginning of a connection *)

\* What the greeting leaves alone.
LEMMA GreetsKeeps ==
    ASSUME IInv, page.done = "no",
           UNCHANGED <<buf, session, toServer, losses, failures, page, disk, dropped,
                       missed, synced, redone, torn, byClose>>
    PROVE  /\ LoopsHold' /\ FetchHolds' /\ DiskHolds' /\ DoneHolds'
           /\ wire' = wire => AnswersHold'
           /\ wire' = wire =>
                \A k : /\ Reported(k)' <=> Reported(k)
                       /\ EndTold(k)' <=> EndTold(k)
                       /\ EndKnown(k)' <=> EndKnown(k)
                       /\ \A m : Reached(m, k)' <=> Reached(m, k)
                       /\ \A m : Named(m, k)' <=> Named(m, k)
<1> USE DEF IInv
<1>1. LoopsHold' /\ FetchHolds' /\ DiskHolds' /\ DoneHolds'
  BY DEF LoopsHold, Pending, FetchHolds, DiskHolds, DoneHolds, Writers, Wanted
<1>2. wire' = wire => AnswersHold' BY DEF AnswersHold, Answers, Settled
<1>3. ASSUME wire' = wire, NEW k
      PROVE  /\ Reported(k)' <=> Reported(k)
             /\ EndTold(k)' <=> EndTold(k)
             /\ EndKnown(k)' <=> EndKnown(k)
             /\ \A m : Reached(m, k)' <=> Reached(m, k)
             /\ \A m : Named(m, k)' <=> Named(m, k)
  BY <1>3 DEF Reported, EndTold, EndKnown, Reached, Named, Tracked, Pending
<1> QED BY <1>1, <1>2, <1>3

LEMMA ConnectKeeps ==
    ASSUME IInv, page.done = "no", Connect
    PROVE  IInv'
<1> USE DEF IInv
<1>1. /\ link = "down" /\ link' = "up" /\ greeting' = [greeting EXCEPT !.step = "list"]
      /\ UNCHANGED <<buf, session, wire, toServer, losses, failures, page, disk, dropped,
                     missed, synced, redone, torn, byClose>>
  BY DEF Connect, browser, history
<1>2. /\ greeting'.step = "list"
      /\ greeting' \in [step: {"none", "list", "read", "send"}, chunks: SUBSET Index,
                        top: 0..Total, eof: BOOLEAN]
  BY <1>1 DEF Types
<1>3. wire = <<>> /\ toServer = <<>> /\ ~synced BY <1>1 DEF GreetingHolds
<1>4. Types' BY <1>1, <1>2 DEF Types
<1>5. WordHolds' BY <1>1, <1>2 DEF WordHolds, True, Says
<1>6. Inits' = {} BY <1>1, <1>3 DEF Inits
<1>7. GreetingHolds' BY <1>1, <1>3, <1>6 DEF GreetingHolds
<1>8. /\ LoopsHold' /\ FetchHolds' /\ DiskHolds' /\ DoneHolds' /\ AnswersHold'
  BY <1>1, GreetsKeeps
<1>9. Past' = 1 BY <1>1, <1>3 DEF Past
<1>10. \A k \in 1..Past' : ~Reported(k)' BY <1>1, <1>3, <1>9 DEF Reported
<1>11. CaughtUp' /\ NoneSkipped' BY <1>2, <1>10 DEF CaughtUp, NoneSkipped
<1> QED BY <1>4, <1>5, <1>7, <1>8, <1>11

LEMMA ListChunksKeeps ==
    ASSUME IInv, page.done = "no", ListChunks
    PROVE  IInv'
<1> USE DEF IInv
<1>1. /\ greeting.step = "list"
      /\ greeting' = [greeting EXCEPT !.step = "read", !.chunks = buf.chunks]
      /\ UNCHANGED <<buf, session, wire, toServer, link, losses, failures, page, disk,
                     dropped, missed, synced, redone, torn, byClose>>
  BY DEF ListChunks, browser, history, net
<1>2. /\ greeting'.step = "read" /\ greeting'.chunks = buf.chunks
      /\ greeting' \in [step: {"none", "list", "read", "send"}, chunks: SUBSET Index,
                        top: 0..Total, eof: BOOLEAN]
  <2>1. buf.chunks \in SUBSET Index BY DEF Types, BufferType
  <2> QED BY <1>1, <2>1 DEF Types
<1>3. Types' BY <1>1, <1>2 DEF Types
<1>4. WordHolds' BY <1>1, <1>2 DEF WordHolds, True, Says
<1>5. Inits' = Inits BY <1>1 DEF Inits
<1>6. GreetingHolds' BY <1>1, <1>2, <1>5 DEF GreetingHolds
<1>7. /\ LoopsHold' /\ FetchHolds' /\ DiskHolds' /\ DoneHolds' /\ AnswersHold'
      /\ \A k : /\ Reported(k)' <=> Reported(k)
                /\ EndTold(k)' <=> EndTold(k)
                /\ EndKnown(k)' <=> EndKnown(k)
                /\ \A m : Reached(m, k)' <=> Reached(m, k)
                /\ \A m : Named(m, k)' <=> Named(m, k)
  BY <1>1, GreetsKeeps
<1>8. Past' = Past /\ \A k : AtEnd(k)' <=> AtEnd(k)
  BY <1>1 DEF Past, AtEnd, Listening, Closed
<1>9. CaughtUp' BY <1>1, <1>2, <1>7, <1>8 DEF CaughtUp
<1>10. NoneSkipped' BY <1>1, <1>2, <1>7, <1>8 DEF NoneSkipped
<1> QED BY <1>3, <1>4, <1>6, <1>7, <1>9, <1>10

LEMMA ReadStateKeeps ==
    ASSUME IInv, page.done = "no", ReadState
    PROVE  IInv'
<1> USE DEF IInv
<1>1. /\ greeting.step = "read"
      /\ greeting' = [greeting EXCEPT !.step = "send", !.top = buf.top, !.eof = buf.eof]
      /\ UNCHANGED <<buf, session, wire, toServer, link, losses, failures, page, disk,
                     dropped, missed, synced, redone, torn, byClose>>
  BY DEF ReadState, browser, history, net
<1>2. /\ greeting'.step = "send" /\ greeting'.chunks = greeting.chunks
      /\ greeting'.top = buf.top /\ greeting'.eof = buf.eof
      /\ greeting' \in [step: {"none", "list", "read", "send"}, chunks: SUBSET Index,
                        top: 0..Total, eof: BOOLEAN]
  <2>1. buf.top \in 0..Total /\ buf.eof \in BOOLEAN BY DEF Types, BufferType, Total
  <2> QED BY <1>1, <2>1 DEF Types
<1>3. Types' BY <1>1, <1>2 DEF Types
<1>4. WordHolds'
  <2>1. buf.top \in Nat BY LimitsAssumption DEF Types, BufferType
  <2>2. True(Greeting)'
    BY <1>1, <1>2, <2>1 DEF WordHolds, True, Says, Greeting
  <2> QED BY <1>1, <1>2, <2>2 DEF WordHolds, True, Says
<1>5. Inits' = Inits BY <1>1 DEF Inits
<1>6. GreetingHolds' BY <1>1, <1>2, <1>5 DEF GreetingHolds
<1>7. /\ LoopsHold' /\ FetchHolds' /\ DiskHolds' /\ DoneHolds' /\ AnswersHold'
      /\ \A k : /\ Reported(k)' <=> Reported(k)
                /\ EndTold(k)' <=> EndTold(k)
                /\ EndKnown(k)' <=> EndKnown(k)
                /\ \A m : Reached(m, k)' <=> Reached(m, k)
                /\ \A m : Named(m, k)' <=> Named(m, k)
  BY <1>1, GreetsKeeps
<1>8. Past' = Past /\ \A k : AtEnd(k)' <=> AtEnd(k)
  BY <1>1 DEF Past, AtEnd, Listening, Closed
<1>9. CaughtUp' BY <1>1, <1>2, <1>7, <1>8 DEF CaughtUp
<1>10. NoneSkipped' BY <1>1, <1>2, <1>7, <1>8 DEF NoneSkipped
<1> QED BY <1>3, <1>4, <1>6, <1>7, <1>9, <1>10

LEMMA SendStartInitKeeps ==
    ASSUME IInv, page.done = "no", SendStartInit
    PROVE  IInv'
<1> USE DEF IInv
<1>1. /\ greeting.step = "send"
      /\ greeting' = [greeting EXCEPT !.step = "none"]
      /\ wire' = IF Listening THEN wire \o <<Greeting>> ELSE wire
      /\ UNCHANGED <<buf, session, toServer, link, losses, failures, page, disk,
                     dropped, missed, synced, redone, torn, byClose>>
  BY DEF SendStartInit, Tell, Listening, Greeting, browser, history
<1>2. /\ greeting'.step = "none"
      /\ greeting' \in [step: {"none", "list", "read", "send"}, chunks: SUBSET Index,
                        top: 0..Total, eof: BOOLEAN]
  BY <1>1 DEF Types
<1>3. /\ LoopsHold' /\ FetchHolds' /\ DiskHolds' /\ DoneHolds'
      /\ wire' = wire => AnswersHold'
      /\ wire' = wire =>
            \A k : /\ Reported(k)' <=> Reported(k)
                   /\ EndTold(k)' <=> EndTold(k)
                   /\ EndKnown(k)' <=> EndKnown(k)
                   /\ \A m : Reached(m, k)' <=> Reached(m, k)
                   /\ \A m : Named(m, k)' <=> Named(m, k)
  BY <1>1, GreetsKeeps
<1>4. Inits = {} /\ ~synced BY <1>1 DEF GreetingHolds
<1>5. CASE ~Listening
  <2>1. wire' = wire BY <1>1, <1>5
  <2>2. Types' BY <1>1, <1>2, <2>1 DEF Types
  <2>3. WordHolds' BY <1>1, <1>2, <2>1 DEF WordHolds, True, Says
  <2>4. Inits' = Inits BY <2>1 DEF Inits
  <2>5. GreetingHolds' BY <1>1, <1>2, <2>1, <2>4 DEF GreetingHolds
  <2>6. Past' = Past /\ \A k : ~AtEnd(k)'
    BY <1>1, <1>5, <2>1 DEF Past, AtEnd, Listening, Closed
  <2>7. CaughtUp' BY <1>1, <1>2, <1>3, <2>1, <2>6 DEF CaughtUp
  <2>8. NoneSkipped' BY <1>1, <1>2, <1>3, <2>1, <2>6 DEF NoneSkipped
  <2> QED BY <1>3, <2>1, <2>2, <2>3, <2>5, <2>7, <2>8
<1>6. CASE Listening
  <2>1. Greeting \in Event /\ Greeting.kind = "start_init" /\ Greeting.top = greeting.top
        /\ Greeting.chunks = greeting.chunks /\ Greeting.eof = greeting.eof
    BY DEF Types, Greeting, Event, StartInits
  <2>2. Says(Greeting, buf, session) BY <1>1 DEF WordHolds, True
  <2> DEFINE g == Greeting
  <2> HIDE DEF g
  <2>3. Len(wire) \in Nat /\ wire \in Seq(Event) BY DEF Types
  <2>4. /\ wire' \in Seq(Event) /\ Len(wire') = Len(wire) + 1 /\ wire'[Past] = g
        /\ \A j \in 1..Len(wire) : wire'[j] = wire[j]
    <3>1. g \in Event /\ wire' = wire \o <<g>> BY <1>1, <1>6, <2>1 DEF g
    <3> QED BY <2>3, <3>1 DEF Past
  <2>5. /\ g.kind = "start_init" /\ g.top = greeting.top /\ g.chunks = greeting.chunks
        /\ g.eof = greeting.eof /\ Says(g, buf, session)
    BY <2>1, <2>2 DEF g
  <2>6. \A j \in 1..Len(wire') : j \in 1..Len(wire) \/ j = Past
    BY <2>3, <2>4 DEF Past
  <2>7. Types' BY <1>1, <1>2, <2>4 DEF Types
  <2>8. WordHolds'
    <3>1. \A j \in 1..Len(wire') : Says(wire'[j], buf, session)
      BY <2>4, <2>5, <2>6 DEF WordHolds, True
    <3> QED BY <1>1, <1>2, <3>1 DEF WordHolds, True
  <2>9. GreetingHolds'
    <3>1. Inits' = {Past}
      <4>1. \A j \in 1..Len(wire) : wire'[j].kind # "start_init" BY <1>4, <2>4 DEF Inits
      <4>2. Past \in 1..Len(wire') BY <2>3, <2>4 DEF Past
      <4> QED BY <2>4, <2>5, <2>6, <4>1, <4>2 DEF Inits
    <3>2. link' = "up" BY <1>1, <1>6 DEF Listening
    <3> QED BY <1>1, <1>2, <1>4, <3>1, <3>2 DEF GreetingHolds
  <2>10. AnswersHold'
    <3>1. \A j \in 1..Len(wire) : j \in 1..Len(wire') /\ wire'[j] = wire[j]
      BY <2>3, <2>4
    <3>2. Answers' = Answers BY <2>4, <2>5, <2>6, <3>1 DEF Answers
    <3> QED BY <1>1, <3>2 DEF AnswersHold, Settled
  <2>11. Past' = Past + 1 /\ Past = Len(wire) + 1 BY <2>4 DEF Past
  <2>13. ASSUME NEW k \in 1..Past
         PROVE  /\ Reported(k)' <=> Reported(k) /\ ~Reported(k)
                /\ EndTold(k)' <=> EndTold(k)
                /\ EndKnown(k)' <=> EndKnown(k)
                /\ \A m : Reached(m, k)' <=> Reached(m, k)
                /\ \A m : Named(m, k)' <=> Named(m, k)
    <3>1. \A j \in 1..(k - 1) : j \in 1..Len(wire) /\ wire'[j] = wire[j]
      BY <2>3, <2>4, <2>11
    <3>2. Reported(k)' <=> Reported(k) BY <1>1, <3>1 DEF Reported
    <3>3. ~Reported(k) BY <1>4, <3>1 DEF Reported, Inits
    <3>4. EndTold(k)' <=> EndTold(k) BY <1>1, <3>1 DEF EndTold
    <3>5. EndKnown(k)' <=> EndKnown(k) BY <1>1, <3>1 DEF EndKnown
    <3>6. \A m : Reached(m, k)' <=> Reached(m, k) BY <1>1, <3>1 DEF Reached
    <3>7. \A m : Named(m, k)' <=> Named(m, k)
      BY <1>1, <3>1 DEF Named, Tracked, Pending
    <3> QED BY <3>2, <3>3, <3>4, <3>5, <3>6, <3>7
  <2>14. Past \in 1..Past /\ AtEnd(Past) BY <1>6, <2>3, <2>11 DEF AtEnd
  <2>15. \A k \in 1..Past' : k \in 1..Past \/ k = Past + 1 BY <2>3, <2>11
  <2>16. \A k : AtEnd(k)' => k = Past + 1 BY <2>11 DEF AtEnd
  <2>17. Past \in 1..((Past + 1) - 1) BY <2>3, <2>11
  <2>18. \A j \in 1..(Past - 1) : j \in 1..((Past + 1) - 1) /\ wire'[j] = wire[j]
    BY <2>3, <2>4, <2>11
  <2>19. PICK h : h = Past + 1 OBVIOUS
  <2>20. /\ EndKnown(Past) => EndKnown(h)'
         /\ \A m : Named(m, Past) => Named(m, h)'
    <3>1. EndKnown(Past) => EndKnown(h)' BY <1>1, <2>18, <2>19 DEF EndKnown
    <3>2. \A m : Named(m, Past) => Named(m, h)'
      BY <1>1, <2>18, <2>19 DEF Named, Tracked, Pending
    <3> QED BY <3>1, <3>2
  <2>21. CaughtUp'
    <3> SUFFICES ASSUME ~missed, EndTold(h)' \/ buf.top = Total PROVE EndKnown(h)'
      BY <1>1, <1>2, <2>13, <2>15, <2>16, <2>19 DEF CaughtUp
    <3>1. buf.top = Total
      <4> SUFFICES ASSUME EndTold(h)' PROVE buf.top = Total OBVIOUS
      <4>1. page.finished => buf.top = Total BY DEF WordHolds
      <4>2. ASSUME NEW j \in 1..(h - 1),
                   \/ wire'[j].kind = "upload_finished"
                   \/ wire'[j].kind = "complete" /\ wire'[j].status = "ok"
                   \/ wire'[j].kind = "start_init" /\ wire'[j].eof
            PROVE  buf.top = Total
        <5>1. j \in 1..Len(wire') BY <2>3, <2>4, <2>11, <2>19
        <5>2. Says(wire'[j], buf, session) BY <1>1, <2>8, <5>1 DEF WordHolds, True
        <5>3. buf.eof BY <4>2, <5>2 DEF Says
        <5> QED BY <5>3 DEF WordHolds
      <4> QED BY <1>1, <4>1, <4>2 DEF EndTold
    <3>2. greeting.top = Total \/ EndKnown(Past) BY <1>1, <2>14, <3>1 DEF CaughtUp
    <3>3. greeting.top = Total => EndKnown(h)'
      BY <2>4, <2>5, <2>17, <2>19 DEF EndKnown
    <3> QED BY <2>20, <3>2, <3>3
  <2>22. NoneSkipped'
    <3> SUFFICES ASSUME ~missed, failures = 0, session = "listed", NEW m \in buf.chunks
                 PROVE  Named(m, h)'
      BY <1>1, <1>2, <2>13, <2>15, <2>16, <2>19 DEF NoneSkipped
    <3>1. m \in greeting.chunks \/ Named(m, Past) BY <1>1, <2>14 DEF NoneSkipped
    <3>2. m \in greeting.chunks => Named(m, h)'
      BY <2>4, <2>5, <2>17, <2>19 DEF Named
    <3> QED BY <2>20, <3>1, <3>2
  <2> QED BY <1>3, <2>7, <2>8, <2>9, <2>10, <2>21, <2>22
<1> QED BY <1>5, <1>6

-----------------------------------------------------------------------------
(* What the page does by itself *)

\* The download of chunk i goes on, or ends, and others may begin; nothing is heard.
Moves(i) ==
    /\ UNCHANGED <<buf, session, greeting, wire, link, losses, dropped, missed, synced,
                   byClose>>
    /\ failures' \in 0..MaxFaults /\ failures <= failures'
    /\ redone' \in BOOLEAN /\ torn' \in BOOLEAN
    /\ toServer' \in Seq(Index) /\ (link # "up" => toServer' = toServer)
    /\ page' \in PageType
    /\ page'.mounted = page.mounted /\ page'.known = page.known
    /\ page'.finished = page.finished
    /\ Concludes(page, page')
    /\ \A m \in Index \ {i} : Tracked(page, m) => Tracked(page', m)
    /\ i \in buf.chunks /\ failures' = 0 /\ session = "listed" => Tracked(page', i)
    /\ \A l \in Loop : /\ page'.loops[l] \subseteq page.loops[l]
                       /\ Awaits(page, l) => Awaits(page', l)

\* The end is decided in one of two ways.
LEMMA ConcludesHolds ==
    ASSUME IInv, page.done = "no", byClose' = byClose, Concludes(page, page')
    PROVE  DoneHolds'
<1>1. ~byClose BY DEF IInv, DoneHolds
<1> QED BY <1>1 DEF DoneHolds, Concludes

LEMMA MovesKeeps ==
    ASSUME IInv, page.done = "no", NEW i \in Pending(page), Moves(i)
    PROVE  /\ Types' /\ WordHolds' /\ GreetingHolds' /\ LoopsHold'
           /\ CaughtUp' /\ NoneSkipped' /\ DoneHolds'
<1> USE DEF IInv
<1>1. page.mounted
  <2>1. ~page.mounted => Pending(page) = {} BY FreshPageHolds DEF GreetingHolds
  <2> QED BY <2>1
<1>2. Types' BY DEF Types, Moves
<1>3. WordHolds' BY DEF WordHolds, Moves, True, Says, Greeting
<1>4. GreetingHolds'
  <2>1. Inits' = Inits BY DEF Inits, Moves
  <2>2. page'.mounted BY <1>1 DEF Moves
  <2>3. link = "down" => toServer' = toServer BY DEF Moves
  <2> QED BY <2>1, <2>2, <2>3 DEF GreetingHolds, Moves
<1>5. LoopsHold'
  <2>1. ASSUME NEW l \in Loop, page'.loops[l] # {}
        PROVE  l <= losses /\ \E j \in Pending(page') : page'.fetch[j].by = l
    <3>1. page.loops[l] # {} BY <2>1 DEF Moves
    <3>2. l <= losses /\ Awaits(page, l) BY <3>1 DEF LoopsHold, Awaits
    <3>3. Awaits(page', l) BY <3>2 DEF Moves
    <3> QED BY <2>1, <3>2, <3>3 DEF Awaits
  <2>2. page'.mounted /\ ~synced => \A l \in Loop : l >= losses => page'.loops[l] = {}
    BY DEF LoopsHold, Moves
  <2>3. losses' = losses /\ synced' = synced BY DEF Moves
  <2> QED BY <2>1, <2>2, <2>3 DEF LoopsHold
<1>6. Past' = Past /\ \A k : AtEnd(k)' <=> AtEnd(k)
  BY DEF Past, AtEnd, Listening, Closed, Moves
<1>7. ASSUME NEW k
      PROVE  /\ Reported(k)' <=> Reported(k)
             /\ EndTold(k)' <=> EndTold(k)
             /\ EndKnown(k)' <=> EndKnown(k)
             /\ \A m : Reached(m, k)' <=> Reached(m, k)
  BY DEF Reported, EndTold, EndKnown, Reached, Moves
<1>8. CaughtUp' BY <1>6, <1>7 DEF CaughtUp, Moves
<1>9. NoneSkipped'
  <2> SUFFICES ASSUME ~missed, failures' = 0, session = "listed", NEW m \in buf.chunks,
                      NEW k
               PROVE  Named(m, k) => Named(m, k)'
    <3>1. failures' = 0 => failures = 0
      BY WebReceiverAssumption DEF Types, Moves
    <3> QED BY <1>6, <1>7, <3>1 DEF NoneSkipped, Moves
  <2>1. m \in Index BY DEF Types, BufferType
  <2>2. Tracked(page, m) => Tracked(page', m) BY <2>1 DEF Moves
  <2> QED BY <2>2 DEF Named, Moves
<1>10. DoneHolds' BY ConcludesHolds DEF Moves
<1> QED BY <1>2, <1>3, <1>4, <1>5, <1>8, <1>9, <1>10

\* A chunk that is on its way has not been settled.
LEMMA SettledFinite ==
    ASSUME page \in PageType
    PROVE  IsFiniteSet(Settled) /\ Cardinality(Settled) \in Nat
<1>1. IsFiniteSet(Index) BY LimitsAssumption, IntervalFinite DEF Index
<1>2. Settled \subseteq Index BY DEF Settled, PageType
<1> QED BY <1>1, <1>2, FS_Subset, FS_CardinalityType

\* Nothing is sent and nothing comes back.
LEMMA NothingAnswered ==
    ASSUME IInv, page' \in PageType, UNCHANGED <<wire, toServer>>,
           page'.unacked = page.unacked, Settled \subseteq Settled'
    PROVE  AnswersHold'
<1>1. page \in PageType BY DEF IInv, Types
<1>2. Cardinality(Settled) \in Nat /\ IsFiniteSet(Settled)
  BY <1>1, SettledFinite
<1>3. /\ IsFiniteSet(Settled') /\ Cardinality(Settled') \in Nat
  <2>1. IsFiniteSet(Index) BY LimitsAssumption, IntervalFinite DEF Index
  <2>2. Settled' \subseteq Index BY DEF Settled, PageType
  <2> QED BY <2>1, <2>2, FS_Subset, FS_CardinalityType
<1>4. Cardinality(Settled) <= Cardinality(Settled') BY <1>3, FS_Subset
<1>5. Answers' = Answers BY DEF Answers
<1>6. page.unacked \in Int BY <1>1 DEF PageType
<1> QED BY <1>2, <1>3, <1>4, <1>5, <1>6 DEF AnswersHold, IInv

\* A download ends or begins anew without the chunk.
LEMMA GoesKeeps ==
    ASSUME IInv, page.done = "no", NEW i \in Pending(page), Goes(page, page', i),
           UNCHANGED <<buf, session, greeting, wire, toServer, link, losses, disk,
                       dropped, missed, synced, byClose>>,
           failures' \in 0..MaxFaults, failures <= failures',
           redone' \in BOOLEAN, torn' \in BOOLEAN, redone => redone', torn => torn',
           redone' \/ torn' \/ page.fetch[i].st \in {"get", "got", "write"},
           i \in buf.chunks /\ failures' = 0 /\ session = "listed" => Tracked(page', i)
    PROVE  IInv'
<1> USE DEF IInv
<1>1. i \in Index /\ page.fetch[i].st # "none" BY DEF Pending
<1>2. Moves(i) BY DEF Moves, Goes, Same, Types
<1>3. /\ Types' /\ WordHolds' /\ GreetingHolds' /\ LoopsHold'
      /\ CaughtUp' /\ NoneSkipped' /\ DoneHolds'
  BY <1>2, MovesKeeps
<1>4. /\ page'.have = page.have /\ page'.unacked = page.unacked
      /\ page'.buffered = page.buffered /\ page'.next = page.next
      /\ page'.fetch[i].st \in {"none", "get"}
      /\ \A j \in Index \ {i} :
             \/ page'.fetch[j] = page.fetch[j]
             \/ /\ page.fetch[j].st = "none" /\ j \notin page.have
                /\ page'.fetch[j].st = "get"
  BY DEF Goes, Same
<1>5. AnswersHold'
  <2>1. Settled \subseteq Settled'
    <3>1. page.have \subseteq Index BY DEF Types, PageType
    <3> QED BY <1>1, <1>4, <3>1 DEF Settled
  <2> QED BY <1>2, <1>4, <2>1, NothingAnswered DEF Moves
<1>6. Writers(page') = Writers(page) \ {i}
  BY <1>1, <1>4 DEF Writers
<1>7. FetchHolds' BY <1>1, <1>4, <1>6 DEF FetchHolds
<1>8. DiskHolds'
  <2> SUFFICES ASSUME ToDisk, ~redone', ~torn' PROVE DiskHolds' BY DEF DiskHolds
  <2>1. ~redone /\ ~torn /\ page.fetch[i].st \in {"get", "got", "write"} OBVIOUS
  <2>2. \A j \in Writers(page') : j \in Writers(page) /\ page'.fetch[j] = page.fetch[j]
    BY <1>4, <1>6, <2>1 DEF Writers
  <2>3. (Writers(page) \cup Wanted(page)) \cap page.have = {} BY <2>1 DEF DiskHolds
  <2>4. i \notin page.have BY <1>1, <2>1, <2>3 DEF Writers, Wanted
  <2>5. \A j \in Wanted(page') : j \in Wanted(page) \/ j \notin page.have
    BY <1>4, <2>4 DEF Wanted
  <2>6. (Writers(page') \cup Wanted(page')) \cap page'.have = {}
    BY <1>4, <2>2, <2>3, <2>5
  <2>7. i \in Writers(page) => page.next \notin page.buffered /\ i = page.next
    BY <2>1, <2>4 DEF DiskHolds, Writers, FetchHolds
  <2>8. Writers(page') = {} => page.next \notin page.buffered
    BY <1>6, <2>1, <2>7 DEF DiskHolds
  <2>9. page.next \in Nat /\ i \in Nat
    BY <1>1, LimitsAssumption DEF Types, PageType, Index
  <2>10. 1..(page.next - 1) \subseteq page'.have \cup Writers(page')
    BY <1>4, <1>6, <2>1, <2>7, <2>9 DEF DiskHolds
  <2> QED BY <1>4, <2>1, <2>2, <2>6, <2>8, <2>10 DEF DiskHolds
<1> QED BY <1>3, <1>5, <1>7, <1>8

LEMMA ServeTooLateKeeps ==
    ASSUME IInv, page.done = "no", NEW i \in Index, ServeTooLate(i)
    PROVE  IInv'
<1>1. /\ page.fetch[i].st = "get" /\ session # "listed" /\ page' = Retry(page, i)
      /\ UNCHANGED <<server, net, disk, dropped, missed, synced, strayed, redone, torn, byClose>>
  BY DEF ServeTooLate, At
<1>2. i \in Pending(page) /\ i \in Wanted(page) BY <1>1 DEF Pending, Wanted
<1>3. Goes(page, page', i) BY <1>1, <1>2, RetryEffect DEF IInv, Types
<1>4. failures' \in 0..MaxFaults /\ failures <= failures'
  BY <1>1, WebReceiverAssumption DEF IInv, Types, net
<1>5. redone' \in BOOLEAN /\ torn' \in BOOLEAN BY <1>1 DEF IInv, Types
<1> QED BY <1>1, <1>2, <1>3, <1>4, <1>5, GoesKeeps DEF server, net

LEMMA FailKeeps ==
    ASSUME IInv, page.done = "no", NEW i \in Index, Fail(i)
    PROVE  IInv'
<1>1. /\ page.fetch[i].st \in {"get", "got", "write", "drain"}
      /\ FaultsLeft /\ failures' = failures + 1 /\ page' = Retry(page, i)
      /\ torn' = (torn \/ page.fetch[i].st = "drain")
      /\ UNCHANGED <<server, wire, toServer, link, losses, disk, dropped, missed, synced,
                     strayed, redone, byClose>>
  BY DEF Fail, At
<1>2. i \in Pending(page) BY <1>1 DEF Pending
<1>3. Goes(page, page', i) BY <1>1, <1>2, RetryEffect DEF IInv, Types
<1>4. failures' \in 0..MaxFaults /\ failures <= failures' /\ failures' # 0
  BY <1>1, WebReceiverAssumption DEF IInv, Types, FaultsLeft
<1>5. /\ redone' \in BOOLEAN /\ torn' \in BOOLEAN /\ (redone => redone') /\ (torn => torn')
      /\ redone' \/ torn' \/ page.fetch[i].st \in {"get", "got", "write"}
  BY <1>1 DEF IInv, Types
<1> QED BY <1>1, <1>2, <1>3, <1>4, <1>5, GoesKeeps DEF server

\* The chunk is there when its confirmation is given up.
LEMMA WaitTooLongKeeps ==
    ASSUME IInv, page.done = "no", NEW i \in Index, WaitTooLong(i)
    PROVE  IInv'
<1>1. /\ page.fetch[i].st = "confirm" /\ page' = Retry(page, i) /\ redone' = TRUE
      /\ UNCHANGED <<server, net, disk, dropped, missed, synced, strayed, torn, byClose>>
  BY DEF WaitTooLong, At
<1>2. i \in Pending(page) /\ i \in page.have
  BY <1>1 DEF Pending, IInv, FetchHolds
<1>3. Goes(page, page', i) BY <1>1, <1>2, RetryEffect DEF IInv, Types
<1>4. Tracked(page', i) BY <1>2, <1>3 DEF Tracked, Goes, Same
<1>5. failures' \in 0..MaxFaults /\ failures <= failures'
  BY <1>1, WebReceiverAssumption DEF IInv, Types, net
<1>6. torn' \in BOOLEAN BY <1>1 DEF IInv, Types
<1> QED BY <1>1, <1>2, <1>3, <1>4, <1>5, <1>6, GoesKeeps DEF server, net

\* The download of chunk i goes on, and so does nothing else.
Stays(p, q, i) ==
    /\ q \in PageType
    /\ q.mounted = p.mounted /\ q.known = p.known /\ q.finished = p.finished
    /\ q.done = p.done /\ q.unacked = p.unacked /\ q.loops = p.loops
    /\ p.have \subseteq q.have /\ q.have \subseteq p.have \cup {i}
    /\ q.fetch[i].st # "none" /\ q.fetch[i].by = p.fetch[i].by
    /\ \A j \in Index \ {i} : q.fetch[j] = p.fetch[j]

LEMMA StaysKeeps ==
    ASSUME IInv, page.done = "no", NEW i \in Pending(page), Stays(page, page', i),
           UNCHANGED <<buf, session, greeting, wire, toServer, link, losses, failures,
                       dropped, missed, synced, redone, torn, byClose>>
    PROVE  /\ Types' /\ WordHolds' /\ GreetingHolds' /\ AnswersHold' /\ LoopsHold'
           /\ CaughtUp' /\ NoneSkipped' /\ DoneHolds'
<1> USE DEF IInv
<1>1. i \in Index /\ page.fetch[i].st # "none" BY DEF Pending
<1>2. Pending(page') = Pending(page) BY <1>1 DEF Pending, Stays
<1>3. \A m : Tracked(page, m) => Tracked(page', m) BY <1>2 DEF Tracked, Stays
<1>4. Tracked(page', i) BY <1>1, <1>2 DEF Tracked, Pending
<1>5. \A j \in Index : page'.fetch[j].by = page.fetch[j].by BY DEF Stays
<1>6. \A l \in Loop : Awaits(page, l) => Awaits(page', l)
  BY <1>2, <1>5 DEF Awaits, Stays, Pending
<1>7. failures' \in 0..MaxFaults /\ failures <= failures'
  BY WebReceiverAssumption DEF Types
<1>8. Moves(i)
  BY <1>3, <1>4, <1>6, <1>7 DEF Moves, Stays, Types, Concludes
<1>9. Settled \subseteq Settled'
  <2>1. page.have \subseteq Index BY DEF Types, PageType
  <2> QED BY <1>1, <2>1 DEF Settled, Stays
<1>10. AnswersHold' BY <1>9, NothingAnswered DEF Stays
<1> QED BY <1>8, <1>10, MovesKeeps

\* Setting the state of a download.
LEMMA SetState ==
    ASSUME NEW p \in PageType, NEW i \in Index,
           NEW s \in {"get", "got", "write", "drain", "confirm"},
           NEW q, q = [p EXCEPT !.fetch[i].st = s]
    PROVE  /\ Stays(p, q, i) /\ q.fetch[i].st = s
           /\ q.have = p.have /\ q.buffered = p.buffered /\ q.next = p.next
<1> DEFINE f == [p.fetch[i] EXCEPT !.st = s]
<1>1. p.fetch[i] \in FetchType BY DEF PageType
<1>2. f \in FetchType /\ f.st = s /\ f.by = p.fetch[i].by BY <1>1 DEF FetchType
<1>3. q = [p EXCEPT !.fetch[i] = f] BY DEF PageType
<1> HIDE DEF f
<1>4. /\ q \in PageType /\ q.fetch[i] = f /\ \A j \in Index \ {i} : q.fetch[j] = p.fetch[j]
      /\ q.mounted = p.mounted /\ q.known = p.known /\ q.finished = p.finished
      /\ q.done = p.done /\ q.unacked = p.unacked /\ q.loops = p.loops
      /\ q.have = p.have /\ q.buffered = p.buffered /\ q.next = p.next
  BY <1>2, <1>3, SMTT(20) DEF PageType
<1> QED BY <1>2, <1>4 DEF Stays

\* A download begins to write a chunk.
LEMMA WriteEffect ==
    ASSUME NEW p \in PageType, NEW i \in Index, NEW s \in {"write", "drain"},
           NEW j \in Index
    PROVE  LET q == BeginWrite(p, i, s, j)
           IN  /\ Stays(p, q, i) /\ q.fetch[i].st = s /\ q.fetch[i].put = j
               /\ q.have = p.have /\ q.buffered = p.buffered /\ q.next = p.next
<1> DEFINE f == [p.fetch[i] EXCEPT !.st = s, !.put = j]
           q == BeginWrite(p, i, s, j)
<1>1. p.fetch[i] \in FetchType BY DEF PageType
<1>2. f \in FetchType /\ f.st = s /\ f.put = j /\ f.by = p.fetch[i].by
  <2>1. j \in 0..Total BY LimitsAssumption DEF Index, Total
  <2> QED BY <1>1, <2>1 DEF FetchType
<1>3. q = [p EXCEPT !.fetch[i] = f] BY DEF PageType, BeginWrite
<1> HIDE DEF f, q
<1>4. /\ q \in PageType /\ q.fetch[i] = f /\ \A k \in Index \ {i} : q.fetch[k] = p.fetch[k]
      /\ q.mounted = p.mounted /\ q.known = p.known /\ q.finished = p.finished
      /\ q.done = p.done /\ q.unacked = p.unacked /\ q.loops = p.loops
      /\ q.have = p.have /\ q.buffered = p.buffered /\ q.next = p.next
  BY <1>2, <1>3, SMTT(20) DEF PageType
<1>5. /\ Stays(p, q, i) /\ q.fetch[i].st = s /\ q.fetch[i].put = j
      /\ q.have = p.have /\ q.buffered = p.buffered /\ q.next = p.next
  <2>1. q.fetch[i].st # "none" BY <1>2, <1>4
  <2> QED BY <1>2, <1>4, <2>1 DEF Stays
<1> QED BY <1>5 DEF q

LEMMA ServeKeeps ==
    ASSUME IInv, page.done = "no", NEW i \in Index, Serve(i)
    PROVE  IInv'
<1> USE DEF IInv
<1>1. /\ page.fetch[i].st = "get" /\ session = "listed"
      /\ page' = IF i \in buf.chunks THEN [page EXCEPT !.fetch[i].st = "got"]
                 ELSE FetchFails(page, i)
      /\ UNCHANGED <<server, net, disk, dropped, missed, synced, strayed, redone, torn, byClose>>
  BY DEF Serve, At
<1>2. i \in Pending(page) /\ i \in Wanted(page) BY <1>1 DEF Pending, Wanted
<1>3. page \in PageType BY DEF Types
<1>4. CASE i \in buf.chunks
  <2>1. page' = [page EXCEPT !.fetch[i].st = "got"] BY <1>1, <1>4
  <2>2. /\ Stays(page, page', i) /\ page'.fetch[i].st = "got"
        /\ page'.have = page.have /\ page'.buffered = page.buffered
        /\ page'.next = page.next
    BY <1>3, <2>1, SetState
  <2>3. /\ Types' /\ WordHolds' /\ GreetingHolds' /\ AnswersHold' /\ LoopsHold'
        /\ CaughtUp' /\ NoneSkipped' /\ DoneHolds'
    BY <1>1, <1>2, <2>2, StaysKeeps DEF server, net
  <2>4. Writers(page') = Writers(page) /\ Wanted(page') = Wanted(page)
    BY <1>1, <2>2 DEF Writers, Wanted, Stays
  <2>5. \A j \in Writers(page) : page'.fetch[j] = page.fetch[j]
    BY <1>1, <2>2 DEF Writers, Stays
  <2>6. FetchHolds' BY <1>1, <2>2, <2>4 DEF FetchHolds, Stays
  <2>7. DiskHolds' BY <1>1, <2>2, <2>4, <2>5, SMTT(20) DEF DiskHolds
  <2> QED BY <2>3, <2>6, <2>7
<1>5. CASE i \notin buf.chunks
  <2>1. Goes(page, page', i) BY <1>1, <1>3, <1>5, FailEffect
  <2>2. failures' \in 0..MaxFaults /\ failures <= failures'
    BY <1>1, WebReceiverAssumption DEF Types, net
  <2>3. redone' \in BOOLEAN /\ torn' \in BOOLEAN BY <1>1 DEF Types
  <2> QED BY <1>1, <1>2, <1>5, <2>1, <2>2, <2>3, GoesKeeps DEF server, net
<1> QED BY <1>4, <1>5

\* Chunk i is there, and its confirmation is sent, or waits for a connection.
Confirms(i) ==
    /\ UNCHANGED <<buf, session, greeting, wire, link, losses, failures, dropped, missed,
                   synced, redone, torn, byClose>>
    /\ page' \in PageType
    /\ page'.mounted = page.mounted /\ page'.known = page.known
    /\ page'.finished = page.finished /\ page'.have = page.have \cup {i}
    /\ Concludes(page, page')
    /\ \A j \in Index \ {i} :
           \/ page'.fetch[j] = page.fetch[j]
           \/ page.fetch[j].st = "none" /\ j \notin page'.have /\ page'.fetch[j].st = "get"
    /\ \A m \in Index \ {i} : Tracked(page, m) => Tracked(page', m)
    /\ \A l \in Loop : /\ page'.loops[l] \subseteq page.loops[l]
                       /\ Awaits(page, l) => Awaits(page', l)
    /\ \/ /\ toServer' = Append(toServer, i) /\ link = "up"
          /\ page'.fetch[i].st = "none" /\ page'.unacked = page.unacked + 1
       \/ /\ toServer' = toServer
          /\ page'.fetch[i].st = "confirm" /\ page'.unacked = page.unacked

LEMMA ConfirmsKeeps ==
    ASSUME IInv, page.done = "no", NEW i \in Pending(page), Confirms(i)
    PROVE  /\ Types' /\ WordHolds' /\ GreetingHolds' /\ AnswersHold' /\ LoopsHold'
           /\ CaughtUp' /\ NoneSkipped' /\ DoneHolds'
           /\ page'.buffered \subseteq page'.have /\ (~ToDisk => disk' = disk) => FetchHolds'
           /\ Writers(page') = Writers(page) \ {i}
           /\ ToDisk /\ ~redone /\ ~torn =>
                 /\ (Writers(page') \cup Wanted(page')) \cap page'.have = {}
                 /\ \A j \in Writers(page') : page'.fetch[j] = page.fetch[j]
<1> USE DEF IInv
<1>1. i \in Index /\ page.fetch[i].st # "none" BY DEF Pending
<1>2. Tracked(page', i) BY DEF Confirms, Tracked
<1>3. toServer' \in Seq(Index) /\ (link # "up" => toServer' = toServer)
  <2>1. toServer \in Seq(Index) BY DEF Types
  <2>2. toServer' = toServer \/ (toServer' = Append(toServer, i) /\ link = "up")
    BY DEF Confirms
  <2> QED BY <1>1, <2>1, <2>2
<1>4. failures' \in 0..MaxFaults /\ failures <= failures' /\ redone' \in BOOLEAN
      /\ torn' \in BOOLEAN
  BY WebReceiverAssumption DEF Types, Confirms
<1>5. Moves(i) BY <1>2, <1>3, <1>4 DEF Moves, Confirms
<1>6. /\ Types' /\ WordHolds' /\ GreetingHolds' /\ LoopsHold'
      /\ CaughtUp' /\ NoneSkipped' /\ DoneHolds'
  BY <1>5, MovesKeeps
<1>7. page.have \subseteq Index BY DEF Types, PageType
<1>8. Settled \subseteq Settled' BY <1>1, <1>7 DEF Settled, Confirms
<1>9. AnswersHold'
  <2>1. CASE toServer' = toServer /\ page'.unacked = page.unacked
    BY <1>8, <2>1, NothingAnswered DEF Confirms
  <2>2. CASE /\ toServer' = Append(toServer, i)
             /\ page'.fetch[i].st = "none" /\ page'.unacked = page.unacked + 1
    <3>1. i \notin Settled /\ i \in Settled' BY <1>1, <2>2 DEF Settled, Confirms
    <3>2. IsFiniteSet(Settled) /\ Cardinality(Settled) \in Nat
      BY SettledFinite DEF Types
    <3>3. Cardinality(Settled \cup {i}) = Cardinality(Settled) + 1
      BY <3>1, <3>2, FS_AddElement
    <3>4. IsFiniteSet(Settled') /\ Cardinality(Settled') \in Nat
      <4>1. IsFiniteSet(Index) BY LimitsAssumption, IntervalFinite DEF Index
      <4>2. Settled' \subseteq Index BY DEF Settled, Confirms, PageType
      <4> QED BY <4>1, <4>2, FS_Subset, FS_CardinalityType
    <3>5. Cardinality(Settled) + 1 <= Cardinality(Settled')
      <4>1. Settled \cup {i} \subseteq Settled' BY <1>8, <3>1
      <4> QED BY <3>3, <3>4, <4>1, FS_Subset
    <3>6. Len(toServer') = Len(toServer) + 1 /\ Len(toServer) \in Nat
      BY <1>1, <2>2 DEF Types
    <3>7. Answers' = Answers BY DEF Answers, Confirms
    <3>8. Cardinality(Answers) \in Nat /\ page.unacked \in Int
      BY AnswersFinite DEF Types, PageType
    <3> QED BY <2>2, <3>2, <3>4, <3>5, <3>6, <3>7, <3>8 DEF AnswersHold
  <2> QED BY <2>1, <2>2 DEF Confirms
<1>10. Writers(page') = Writers(page) \ {i} BY <1>1 DEF Writers, Confirms
<1>11. page'.buffered \subseteq page'.have /\ (~ToDisk => disk' = disk) => FetchHolds'
  BY <1>10 DEF FetchHolds, Confirms
<1>12. ASSUME ToDisk, ~redone, ~torn
       PROVE  /\ (Writers(page') \cup Wanted(page')) \cap page'.have = {}
              /\ \A j \in Writers(page') : page'.fetch[j] = page.fetch[j]
  <2>1. (Writers(page) \cup Wanted(page)) \cap page.have = {} BY <1>12 DEF DiskHolds
  <2>2. \A j \in Writers(page') : page'.fetch[j] = page.fetch[j]
    BY <1>10 DEF Writers, Confirms
  <2>3. \A j \in Wanted(page') : j # i /\ (j \in Wanted(page) \/ j \notin page'.have)
    BY DEF Wanted, Confirms
  <2> QED BY <1>10, <2>1, <2>2, <2>3 DEF Confirms
<1> QED BY <1>6, <1>9, <1>10, <1>11, <1>12

\* A chunk that is stored is confirmed; p says how it was stored.
LEMMA StoredConfirms ==
    ASSUME IInv, NEW i \in Pending(page), NEW p \in PageType,
           p.mounted = page.mounted, p.known = page.known, p.finished = page.finished,
           p.have = page.have, p.done = page.done, p.unacked = page.unacked,
           p.fetch = page.fetch, p.loops = page.loops,
           ConfirmStored(p, i),
           UNCHANGED <<buf, session, greeting, wire, link, losses, failures, dropped,
                       missed, synced, redone, torn, byClose>>
    PROVE  Confirms(i) /\ page'.buffered = p.buffered /\ page'.next = p.next
<1> USE DEF IInv
<1>1. i \in Index /\ page.fetch[i].st # "none" BY DEF Pending
<1> DEFINE q == [p EXCEPT !.have = @ \cup {i}]
<1>2. /\ q \in PageType /\ q.mounted = p.mounted /\ q.known = p.known
      /\ q.finished = p.finished /\ q.have = p.have \cup {i} /\ q.done = p.done
      /\ q.unacked = p.unacked /\ q.fetch = p.fetch /\ q.loops = p.loops
      /\ q.buffered = p.buffered /\ q.next = p.next
  BY <1>1 DEF PageType
<1>3. IF link = "up"
      THEN /\ toServer' = Append(toServer, i)
           /\ page' = FetchEnds([q EXCEPT !.unacked = @ + 1], i)
      ELSE /\ page' = [q EXCEPT !.fetch[i].st = "confirm"]
           /\ UNCHANGED toServer
  BY DEF ConfirmStored
<1> HIDE DEF q
<1>4. CASE link = "up"
  <2> DEFINE r == [q EXCEPT !.unacked = @ + 1]
  <2>1. /\ r \in PageType /\ r.mounted = p.mounted /\ r.known = p.known
        /\ r.finished = p.finished /\ r.have = p.have \cup {i} /\ r.done = p.done
        /\ r.unacked = p.unacked + 1 /\ r.fetch = p.fetch /\ r.loops = p.loops
        /\ r.buffered = p.buffered /\ r.next = p.next
    BY <1>2 DEF PageType
  <2>2. page' = FetchEnds(r, i) /\ toServer' = Append(toServer, i) BY <1>3, <1>4
  <2> HIDE DEF r
  <2>3. Goes(r, page', i) /\ page'.fetch[i].st = "none"
    <3> DEFINE v == FetchEnds(r, i)
    <3>1. Goes(r, v, i) /\ (i \in r.have => v.fetch[i].st = "none")
      BY <1>1, <2>1, EndEffect
    <3>2. v = page' BY <2>2
    <3> HIDE DEF v
    <3> QED BY <2>1, <3>1, <3>2
  <2>4. Pending(r) = Pending(page) BY <2>1 DEF Pending
  <2>5. \A m : Tracked(page, m) => Tracked(r, m) BY <2>1, <2>4 DEF Tracked
  <2>6. \A l \in Loop : Awaits(page, l) => Awaits(r, l) BY <2>1, <2>4 DEF Awaits
  <2> QED BY <1>4, <2>1, <2>2, <2>3, <2>5, <2>6 DEF Confirms, Goes, Same, Concludes
<1>5. CASE link # "up"
  <2>1. page' = [q EXCEPT !.fetch[i].st = "confirm"] /\ toServer' = toServer
    BY <1>3, <1>5
  <2>2. /\ Stays(q, page', i) /\ page'.fetch[i].st = "confirm"
        /\ page'.have = q.have /\ page'.buffered = q.buffered /\ page'.next = q.next
    BY <1>1, <1>2, <2>1, SetState
  <2>3. Pending(page') = Pending(page) BY <1>1, <1>2, <2>2 DEF Pending, Stays
  <2>4. \A m : Tracked(page, m) => Tracked(page', m)
    BY <1>2, <2>2, <2>3 DEF Tracked, Stays
  <2>5. \A j \in Index : page'.fetch[j].by = page.fetch[j].by BY <1>2, <2>2 DEF Stays
  <2>6. \A l \in Loop : Awaits(page, l) => Awaits(page', l)
    BY <1>2, <2>2, <2>3, <2>5 DEF Awaits, Stays, Pending
  <2> QED BY <1>2, <2>1, <2>2, <2>4, <2>6 DEF Confirms, Stays, Concludes
<1> QED BY <1>4, <1>5

\* The confirmation that waited for a connection is sent.
LEMMA ConfirmLateKeeps ==
    ASSUME IInv, page.done = "no", NEW i \in Index, ConfirmLate(i)
    PROVE  IInv'
<1> USE DEF IInv
<1> DEFINE r == [page EXCEPT !.unacked = @ + 1]
<1>1. /\ page.fetch[i].st = "confirm" /\ link = "up"
      /\ toServer' = Append(toServer, i) /\ page' = FetchEnds(r, i)
      /\ UNCHANGED <<server, wire, link, losses, failures, disk, history>>
  BY DEF ConfirmLate, At
<1>2. i \in Pending(page) /\ i \in page.have BY <1>1 DEF Pending, FetchHolds
<1>3. /\ r \in PageType /\ r.mounted = page.mounted /\ r.known = page.known
      /\ r.finished = page.finished /\ r.have = page.have /\ r.done = page.done
      /\ r.unacked = page.unacked + 1 /\ r.fetch = page.fetch /\ r.loops = page.loops
      /\ r.buffered = page.buffered /\ r.next = page.next
  <2>1. page \in PageType BY DEF Types
  <2> QED BY <2>1 DEF PageType
<1> HIDE DEF r
<1>4. Goes(r, page', i) /\ page'.fetch[i].st = "none"
  <2> DEFINE v == FetchEnds(r, i)
  <2>1. Goes(r, v, i) /\ (i \in r.have => v.fetch[i].st = "none") BY <1>3, EndEffect
  <2>2. v = page' BY <1>1
  <2> HIDE DEF v
  <2> QED BY <1>2, <1>3, <2>1, <2>2
<1>5. Pending(r) = Pending(page) BY <1>3 DEF Pending
<1>6. \A m : Tracked(page, m) => Tracked(r, m) BY <1>3, <1>5 DEF Tracked
<1>7. \A l \in Loop : Awaits(page, l) => Awaits(r, l) BY <1>3, <1>5 DEF Awaits
<1>8. Confirms(i)
  BY <1>1, <1>2, <1>3, <1>4, <1>6, <1>7
  DEF Confirms, Goes, Same, Concludes, server, history
<1>9. page'.buffered = page.buffered /\ page'.next = page.next /\ page'.have = page.have
  BY <1>3, <1>4 DEF Goes, Same
<1>10. /\ Types' /\ WordHolds' /\ GreetingHolds' /\ AnswersHold' /\ LoopsHold'
       /\ CaughtUp' /\ NoneSkipped' /\ DoneHolds'
       /\ page'.buffered \subseteq page'.have /\ (~ToDisk => disk' = disk) => FetchHolds'
       /\ Writers(page') = Writers(page) \ {i}
       /\ ToDisk /\ ~redone /\ ~torn =>
             /\ (Writers(page') \cup Wanted(page')) \cap page'.have = {}
             /\ \A j \in Writers(page') : page'.fetch[j] = page.fetch[j]
  BY <1>2, <1>8, ConfirmsKeeps
<1>11. FetchHolds' BY <1>1, <1>9, <1>10 DEF FetchHolds
<1>12. Writers(page') = Writers(page) BY <1>1, <1>10 DEF Writers
<1>13. DiskHolds' BY <1>1, <1>9, <1>10, <1>12 DEF DiskHolds, history
<1> QED BY <1>10, <1>11, <1>13

\* One more chunk in order.
LEMMA InOrderGrows ==
    ASSUME NEW n \in Nat
    PROVE  Append(InOrder(n), n + 1) = InOrder(n + 1)
<1>1. InOrder(n) \in Seq(Nat) /\ Len(InOrder(n)) = n /\ \A k \in 1..n : InOrder(n)[k] = k
  <2>1. InOrder(n) = [k \in 1..n |-> k] BY DEF InOrder
  <2>2. InOrder(n) \in [1..n -> Nat] BY <2>1
  <2> QED BY <2>1, <2>2
<1>2. InOrder(n + 1) \in Seq(Nat) /\ Len(InOrder(n + 1)) = n + 1
      /\ \A k \in 1..(n + 1) : InOrder(n + 1)[k] = k
  <2>1. InOrder(n + 1) = [k \in 1..(n + 1) |-> k] BY DEF InOrder
  <2>2. InOrder(n + 1) \in [1..(n + 1) -> Nat] BY <2>1
  <2> QED BY <2>1, <2>2
<1> DEFINE s == InOrder(n)
           t == InOrder(n + 1)
           a == Append(s, n + 1)
<1> HIDE DEF s, t
<1>3. /\ a \in Seq(Nat) /\ Len(a) = n + 1 /\ a[n + 1] = n + 1
      /\ \A k \in 1..n : a[k] = s[k]
  BY <1>1, AppendProperties DEF s
<1>4. \A k \in 1..(n + 1) : k \in 1..n \/ k = n + 1 OBVIOUS
<1>5. \A k \in 1..(n + 1) : a[k] = t[k] BY <1>1, <1>2, <1>3, <1>4 DEF s, t
<1>6. a = t BY <1>2, <1>3, <1>5, SeqEqual DEF t
<1> QED BY <1>6 DEF s, t

\* The chunk that is next is written at once, any other is stored for its turn.
LEMMA ArriveKeeps ==
    ASSUME IInv, page.done = "no", NEW i \in Index, Arrive(i)
    PROVE  IInv'
<1> USE DEF IInv
<1> DEFINE n == page.next
<1>1. /\ page.fetch[i].st = "got"
      /\ UNCHANGED <<server, wire, link, losses, failures, disk, history>>
  BY DEF Arrive, At
<1>2. i \in Pending(page) /\ i \in Wanted(page) /\ page \in PageType
  BY <1>1 DEF Pending, Wanted, Types
<1>3. n \in Nat /\ n # 0 /\ i \in Nat
  BY <1>2, LimitsAssumption DEF PageType, Index
<1>4. CASE ToDisk /\ i = n
  <2>1. /\ page' = BeginWrite(page, i, "write", i)
        /\ toServer' = toServer /\ disk' = disk
    BY <1>1, <1>4 DEF Arrive
  <2>2. /\ Stays(page, page', i) /\ page'.fetch[i].st = "write"
        /\ page'.fetch[i].put = i
        /\ page'.have = page.have /\ page'.buffered = page.buffered /\ page'.next = n
    <3>1. LET q == BeginWrite(page, i, "write", i)
          IN  /\ Stays(page, q, i) /\ q.fetch[i].st = "write" /\ q.fetch[i].put = i
              /\ q.have = page.have /\ q.buffered = page.buffered /\ q.next = page.next
      BY <1>2, WriteEffect
    <3> QED BY <2>1, <3>1
  <2>3. /\ Types' /\ WordHolds' /\ GreetingHolds' /\ AnswersHold' /\ LoopsHold'
        /\ CaughtUp' /\ NoneSkipped' /\ DoneHolds'
    BY <1>1, <1>2, <2>1, <2>2, StaysKeeps DEF server, history
  <2>4. Writers(page') = Writers(page) \cup {i} /\ Wanted(page') = Wanted(page) \ {i}
    BY <1>1, <2>2 DEF Writers, Wanted, Stays
  <2>5. FetchHolds' BY <1>4, <2>2, <2>4 DEF FetchHolds, Stays
  <2>6. DiskHolds'
    <3> SUFFICES ASSUME ~redone, ~torn PROVE DiskHolds' BY <1>1 DEF DiskHolds, history
    <3> USE <1>4 DEF DiskHolds
    <3>1. i \notin page.have BY <1>2
    <3>2. Writers(page) = {}
      <4> SUFFICES ASSUME NEW j \in Writers(page) PROVE FALSE OBVIOUS
      <4>1. CASE page.fetch[j].st = "write" BY <1>1, <4>1
      <4>2. CASE page.fetch[j].st # "write" BY <3>1, <4>2 DEF FetchHolds
      <4> QED BY <4>1, <4>2
    <3>3. Writers(page') = {i} BY <2>4, <3>2
    <3>4. disk' = InOrder(page'.next - 1) BY <2>1, <2>2
    <3>5. (Writers(page') \cup Wanted(page')) \cap page'.have = {}
      BY <2>2, <2>4, <3>1, <3>2
    <3>6. 1..(n - 1) \subseteq page'.have \cup Writers(page') BY <2>2, <3>2
    <3>7. page'.have \subseteq 1..(n - 1) \cup page'.buffered BY <2>2
    <3>8. \A j \in page'.buffered : j >= page'.next BY <2>2
    <3> QED BY <2>2, <3>3, <3>4, <3>5, <3>6, <3>7, <3>8
  <2> QED BY <2>3, <2>5, <2>6
<1>5. CASE ~(ToDisk /\ i = n)
  <2> DEFINE p == IF ToDisk THEN [page EXCEPT !.buffered = @ \cup {i}] ELSE page
  <2>1. ConfirmStored(p, i) /\ disk' = disk BY <1>1, <1>5 DEF Arrive
  <2>2. /\ p \in PageType /\ p.mounted = page.mounted /\ p.known = page.known
        /\ p.finished = page.finished /\ p.have = page.have /\ p.done = page.done
        /\ p.unacked = page.unacked /\ p.fetch = page.fetch /\ p.loops = page.loops
        /\ p.next = n
        /\ p.buffered = IF ToDisk THEN page.buffered \cup {i} ELSE page.buffered
    BY <1>2 DEF PageType
  <2> HIDE DEF p
  <2>3. Confirms(i) /\ page'.buffered = p.buffered /\ page'.next = n
    BY <1>1, <1>2, <2>1, <2>2, StoredConfirms DEF server, history
  <2>4. page'.have = page.have \cup {i} BY <2>3 DEF Confirms
  <2>5. /\ Types' /\ WordHolds' /\ GreetingHolds' /\ AnswersHold' /\ LoopsHold'
        /\ CaughtUp' /\ NoneSkipped' /\ DoneHolds'
        /\ page'.buffered \subseteq page'.have /\ (~ToDisk => disk' = disk) => FetchHolds'
        /\ Writers(page') = Writers(page) \ {i}
        /\ ToDisk /\ ~redone /\ ~torn =>
              /\ (Writers(page') \cup Wanted(page')) \cap page'.have = {}
              /\ \A j \in Writers(page') : page'.fetch[j] = page.fetch[j]
    BY <1>2, <2>3, ConfirmsKeeps
  <2>6. FetchHolds' BY <2>1, <2>2, <2>3, <2>4, <2>5 DEF FetchHolds
  <2>7. DiskHolds'
    <3> SUFFICES ASSUME ToDisk, ~redone, ~torn PROVE DiskHolds' BY <1>1 DEF DiskHolds, history
    <3>1. i # n /\ page'.buffered = page.buffered \cup {i} BY <1>5, <2>2, <2>3
    <3>2. i \notin page.have /\ i \notin Writers(page)
      BY <1>1, <1>2 DEF DiskHolds, Writers
    <3>3. Writers(page') = Writers(page) BY <2>5, <3>2
    <3>4. i >= n
      <4>1. 1..(n - 1) \subseteq page.have \cup Writers(page) BY DEF DiskHolds
      <4>2. i \notin 1..(n - 1) BY <3>2, <4>1
      <4>3. i >= 1 BY LimitsAssumption DEF Index
      <4> QED BY <1>3, <4>2, <4>3
    <3>5. /\ \A j, k \in Writers(page') : j = k
          /\ disk' = InOrder(page'.next - 1)
          /\ \A j \in Writers(page') :
                 /\ page'.fetch[j].put = page'.next
                 /\ IF page'.fetch[j].st = "write" THEN j = page'.next
                    ELSE j < page'.next /\ page'.next \in page'.buffered
      BY <2>1, <2>3, <2>5, <3>1, <3>3 DEF DiskHolds
    <3>6. Writers(page') = {} => page'.next \notin page'.buffered
      BY <2>3, <3>1, <3>3 DEF DiskHolds
    <3>7. /\ 1..(n - 1) \subseteq page'.have \cup Writers(page')
          /\ page'.have \subseteq 1..(n - 1) \cup page'.buffered
      BY <2>4, <3>1, <3>3 DEF DiskHolds
    <3>8. \A j \in page'.buffered : j >= page'.next
      BY <2>3, <3>1, <3>4 DEF DiskHolds
    <3> QED BY <2>3, <2>5, <3>5, <3>6, <3>7, <3>8 DEF DiskHolds
  <2> QED BY <2>5, <2>6, <2>7
<1> QED BY <1>4, <1>5

\* A chunk is on disk, and perhaps the one after it waits to be written.
LEMMA WrittenKeeps ==
    ASSUME IInv, page.done = "no", NEW i \in Index, Written(i)
    PROVE  IInv'
<1> USE DEF IInv
<1> DEFINE n == page.next
           p == [page EXCEPT !.next = @ + 1,
                             !.buffered = IF At(i, "drain") THEN @ \ {page.next} ELSE @]
<1>1. /\ page.fetch[i].st \in {"write", "drain"}
      /\ UNCHANGED <<server, wire, link, losses, failures, history>>
      /\ disk' = Append(disk, page.fetch[i].put)
      /\ IF p.next \in p.buffered
         THEN /\ page' = BeginWrite(p, i, "drain", p.next)
              /\ UNCHANGED toServer
         ELSE ConfirmStored(p, i)
  BY DEF Written, At
<1>2. /\ i \in Pending(page) /\ i \in Writers(page) /\ page \in PageType /\ ToDisk
      /\ n \in Nat /\ n # 0 /\ i \in Nat
  <2>1. i \in Pending(page) /\ i \in Writers(page) /\ page \in PageType
    BY <1>1 DEF Pending, Writers, Types
  <2>2. ToDisk BY <2>1 DEF FetchHolds
  <2> QED BY <2>1, <2>2, LimitsAssumption DEF PageType, Index
<1>3. /\ p \in PageType /\ p.mounted = page.mounted /\ p.known = page.known
      /\ p.finished = page.finished /\ p.have = page.have /\ p.done = page.done
      /\ p.unacked = page.unacked /\ p.fetch = page.fetch /\ p.loops = page.loops
      /\ p.next = n + 1
      /\ p.buffered = IF page.fetch[i].st = "drain" THEN page.buffered \ {n}
                      ELSE page.buffered
  <2> DEFINE b == IF page.fetch[i].st = "drain" THEN page.buffered \ {n}
                  ELSE page.buffered
  <2>1. b \in SUBSET Index /\ n + 1 \in Nat \ {0} BY <1>2 DEF PageType
  <2>2. p = [page EXCEPT !.next = n + 1, !.buffered = b] BY <1>2 DEF PageType, At
  <2> HIDE DEF b, p
  <2>3. /\ p \in PageType /\ p.mounted = page.mounted /\ p.known = page.known
        /\ p.finished = page.finished /\ p.have = page.have /\ p.done = page.done
        /\ p.unacked = page.unacked /\ p.fetch = page.fetch /\ p.loops = page.loops
        /\ p.next = n + 1 /\ p.buffered = b
    BY <1>2, <2>1, <2>2 DEF PageType
  <2> QED BY <2>3 DEF b
<1> HIDE DEF p
<1>4. ASSUME ~redone, ~torn
      PROVE  /\ Writers(page) = {i} /\ Wanted(page) \cap page.have = {}
             /\ i \notin page.have
             /\ disk' = InOrder(n)
             /\ (IF page.fetch[i].st = "write" THEN i = n ELSE i < n)
             /\ 1..n \subseteq page.have \cup {i}
             /\ page.have \subseteq 1..n \cup p.buffered
             /\ \A j \in p.buffered : j >= n + 1
  <2> USE <1>4 DEF DiskHolds
  <2>1. Writers(page) = {i} BY <1>2
  <2>2. (Writers(page) \cup Wanted(page)) \cap page.have = {} BY <1>2
  <2>3. disk' = InOrder(n)
    <3>1. n - 1 \in Nat /\ (n - 1) + 1 = n BY <1>2
    <3>2. disk = InOrder(n - 1) /\ page.fetch[i].put = n BY <1>2
    <3>3. Append(InOrder(n - 1), (n - 1) + 1) = InOrder((n - 1) + 1)
      BY <3>1, InOrderGrows
    <3> QED BY <1>1, <3>1, <3>2, <3>3
  <2>4. IF page.fetch[i].st = "write" THEN i = n ELSE i < n /\ n \in page.buffered
    BY <1>2
  <2>5. n \in page.have \cup {i} BY <2>4 DEF FetchHolds
  <2>6. 1..(n - 1) \subseteq page.have \cup {i} BY <1>2, <2>1
  <2>7. 1..n \subseteq page.have \cup {i}
    <3>1. \A j \in 1..n : j \in 1..(n - 1) \/ j = n BY <1>2
    <3> QED BY <2>5, <2>6, <3>1
  <2>8. n \notin p.buffered
    BY <1>1, <1>3, <2>1, <2>2, <2>4 DEF FetchHolds
  <2>9. page.have \subseteq 1..n \cup p.buffered
    <3>1. page.have \subseteq 1..(n - 1) \cup page.buffered BY <1>2
    <3>2. page.buffered \subseteq p.buffered \cup {n} BY <1>3
    <3>3. 1..(n - 1) \subseteq 1..n /\ n \in 1..n BY <1>2
    <3> QED BY <3>1, <3>2, <3>3
  <2>10. \A j \in p.buffered : j >= n + 1
    <3> SUFFICES ASSUME NEW j \in p.buffered PROVE j >= n + 1 OBVIOUS
    <3>1. j \in page.buffered /\ j # n BY <1>3, <2>8
    <3>2. j >= n BY <1>2, <3>1
    <3>3. j \in Nat BY <1>2, <3>1, LimitsAssumption DEF PageType, Index
    <3> QED BY <1>2, <3>1, <3>2, <3>3
  <2> QED BY <2>1, <2>2, <2>3, <2>4, <2>7, <2>9, <2>10
<1>5. CASE p.next \in p.buffered
  <2>1. /\ page' = BeginWrite(p, i, "drain", p.next)
        /\ toServer' = toServer
    BY <1>1, <1>5
  <2>2. /\ Stays(p, page', i) /\ page'.fetch[i].st = "drain"
        /\ page'.fetch[i].put = p.next
        /\ page'.have = p.have /\ page'.buffered = p.buffered /\ page'.next = p.next
    <3>1. p.next \in Index BY <1>3, <1>5 DEF PageType
    <3>2. LET q == BeginWrite(p, i, "drain", p.next)
          IN  /\ Stays(p, q, i) /\ q.fetch[i].st = "drain" /\ q.fetch[i].put = p.next
              /\ q.have = p.have /\ q.buffered = p.buffered /\ q.next = p.next
      BY <1>3, <3>1, WriteEffect
    <3> QED BY <2>1, <3>2
  <2>3. Stays(page, page', i) BY <1>3, <2>2 DEF Stays
  <2>4. /\ Types' /\ WordHolds' /\ GreetingHolds' /\ AnswersHold' /\ LoopsHold'
        /\ CaughtUp' /\ NoneSkipped' /\ DoneHolds'
    BY <1>1, <1>2, <2>1, <2>3, StaysKeeps DEF server, history
  <2>5. Writers(page') = Writers(page) /\ Wanted(page') = Wanted(page)
    BY <1>1, <2>2, <2>3 DEF Writers, Wanted, Stays
  <2>6. FetchHolds'
    <3>1. page'.buffered \subseteq page'.have BY <1>3, <2>2 DEF FetchHolds
    <3> QED BY <1>2, <1>3, <2>2, <2>3, <3>1 DEF FetchHolds, Stays
  <2>7. DiskHolds'
    <3> SUFFICES ASSUME ~redone, ~torn PROVE DiskHolds' BY <1>1 DEF DiskHolds, history
    <3>1. /\ Writers(page) = {i} /\ Wanted(page) \cap page.have = {}
          /\ i \notin page.have
          /\ disk' = InOrder(n)
          /\ (IF page.fetch[i].st = "write" THEN i = n ELSE i < n)
          /\ 1..n \subseteq page.have \cup {i}
          /\ page.have \subseteq 1..n \cup p.buffered
          /\ \A j \in p.buffered : j >= n + 1
      BY <1>4
    <3>2. page'.next = n + 1 /\ page'.have = page.have /\ page'.buffered = p.buffered
      BY <1>3, <2>2
    <3>4. Writers(page') = {i} BY <2>5, <3>1
    <3>5. i < n + 1 BY <1>2, <3>1
    <3>6. page'.next - 1 = n BY <1>2, <3>2
    <3>7. (Writers(page') \cup Wanted(page')) \cap page'.have = {}
      BY <2>5, <3>1, <3>2
    <3>8. \A j, k \in Writers(page') : j = k BY <3>4
    <3>9. disk' = InOrder(page'.next - 1) BY <3>1, <3>6
    <3>10. \A j \in Writers(page') :
               /\ page'.fetch[j].put = page'.next
               /\ IF page'.fetch[j].st = "write" THEN j = page'.next
                  ELSE j < page'.next /\ page'.next \in page'.buffered
      BY <1>3, <1>5, <2>2, <3>2, <3>4, <3>5
    <3>11. 1..(page'.next - 1) \subseteq page'.have \cup Writers(page')
      BY <3>1, <3>2, <3>4, <3>6
    <3>12. page'.have \subseteq 1..(page'.next - 1) \cup page'.buffered
      BY <3>1, <3>2, <3>6
    <3> QED BY <3>1, <3>2, <3>4, <3>7, <3>8, <3>9, <3>10, <3>11, <3>12 DEF DiskHolds
  <2> QED BY <2>4, <2>6, <2>7
<1>6. CASE p.next \notin p.buffered
  <2>1. ConfirmStored(p, i) BY <1>1, <1>6
  <2>2. Confirms(i) /\ page'.buffered = p.buffered /\ page'.next = p.next
    BY <1>1, <1>2, <1>3, <2>1, StoredConfirms DEF server, history
  <2>3. page'.have = page.have \cup {i} BY <2>2 DEF Confirms
  <2>4. /\ Types' /\ WordHolds' /\ GreetingHolds' /\ AnswersHold' /\ LoopsHold'
        /\ CaughtUp' /\ NoneSkipped' /\ DoneHolds'
        /\ page'.buffered \subseteq page'.have /\ (~ToDisk => disk' = disk) => FetchHolds'
        /\ Writers(page') = Writers(page) \ {i}
        /\ ToDisk /\ ~redone /\ ~torn =>
              /\ (Writers(page') \cup Wanted(page')) \cap page'.have = {}
              /\ \A j \in Writers(page') : page'.fetch[j] = page.fetch[j]
    BY <1>2, <2>2, ConfirmsKeeps
  <2>5. FetchHolds' BY <1>2, <1>3, <2>2, <2>3, <2>4 DEF FetchHolds
  <2>6. DiskHolds'
    <3> SUFFICES ASSUME ~redone, ~torn PROVE DiskHolds' BY <1>1 DEF DiskHolds, history
    <3>1. /\ Writers(page) = {i} /\ disk' = InOrder(n)
          /\ 1..n \subseteq page.have \cup {i}
          /\ page.have \subseteq 1..n \cup p.buffered
          /\ \A j \in p.buffered : j >= n + 1
          /\ (IF page.fetch[i].st = "write" THEN i = n ELSE i < n)
      BY <1>4
    <3>2. page'.next = n + 1 /\ page'.next - 1 = n /\ page'.buffered = p.buffered
      BY <1>2, <1>3, <2>2
    <3>3. Writers(page') = {} BY <2>4, <3>1
    <3>4. i \in 1..n
      <4>1. i >= 1 BY LimitsAssumption DEF Index
      <4> QED BY <1>2, <3>1, <4>1
    <3>5. (Writers(page') \cup Wanted(page')) \cap page'.have = {} BY <1>2, <2>4
    <3>6. 1..(page'.next - 1) \subseteq page'.have \cup Writers(page')
      BY <2>3, <3>1, <3>2
    <3>7. page'.have \subseteq 1..(page'.next - 1) \cup page'.buffered
      BY <2>3, <3>1, <3>2, <3>4
    <3>8. page'.next \notin page'.buffered BY <1>3, <1>6, <3>2
    <3> QED BY <2>1, <3>1, <3>2, <3>3, <3>5, <3>6, <3>7, <3>8 DEF DiskHolds
  <2> QED BY <2>4, <2>5, <2>6
<1> QED BY <1>5, <1>6

-----------------------------------------------------------------------------
(* What the page hears *)

LEMMA FirstEvent ==
    ASSUME wire \in Seq(Event), wire # <<>>, wire' = Tail(wire)
    PROVE  /\ Head(wire) = wire[1] /\ Head(wire) \in Event
           /\ Len(wire) \in Nat /\ Len(wire) >= 1
           /\ wire' \in Seq(Event) /\ Len(wire') = Len(wire) - 1
           /\ \A j \in 1..Len(wire') : wire'[j] = wire[j + 1]
<1>1. Head(wire) = wire[1] /\ Len(wire) \in Nat /\ Len(wire) >= 1 OBVIOUS
<1>2. /\ Head(wire) \in Event /\ Tail(wire) \in Seq(Event)
      /\ Len(Tail(wire)) = Len(wire) - 1
      /\ \A j \in 1..Len(Tail(wire)) : Tail(wire)[j] = wire[j + 1]
  BY HeadTailProperties
<1> QED BY <1>1, <1>2

\* The answers that are left move up.
LEMMA AnswersMove ==
    ASSUME wire \in Seq(Event), wire # <<>>, wire' = Tail(wire)
    PROVE  /\ Cardinality(Answers') \in Nat /\ Cardinality(Answers) \in Nat
           /\ Cardinality(Answers')
                <= Cardinality(Answers) - (IF Head(wire).kind = "chunk_download" THEN 1 ELSE 0)
<1>1. /\ Head(wire) = wire[1] /\ Len(wire) \in Nat /\ Len(wire) >= 1
      /\ wire' \in Seq(Event) /\ Len(wire') = Len(wire) - 1
      /\ \A j \in 1..Len(wire') : wire'[j] = wire[j + 1]
  BY FirstEvent
<1> DEFINE T == Answers \ {1}
           f == [k \in Answers' |-> k + 1]
<1>2. IsFiniteSet(Answers) /\ Cardinality(Answers) \in Nat BY AnswersFinite
<1>3. /\ IsFiniteSet(T) /\ Cardinality(T) \in Nat
      /\ Cardinality(T) = IF 1 \in Answers THEN Cardinality(Answers) - 1
                          ELSE Cardinality(Answers)
  BY <1>2, FS_RemoveElement, FS_CardinalityType
<1>4. 1 \in Answers <=> Head(wire).kind = "chunk_download" BY <1>1 DEF Answers
<1>5. \A k \in Answers' : k + 1 \in T /\ k \in Nat
  BY <1>1 DEF Answers
<1>6. f \in [Answers' -> T] BY <1>5
<1>7. \A j, k \in Answers' : f[j] = f[k] => j = k BY <1>5
<1>8. f \in Injection(Answers', T) BY <1>6, <1>7 DEF Injection, IsInjective
<1>9. IsFiniteSet(Answers') /\ Cardinality(Answers') <= Cardinality(T)
  BY <1>3, <1>8, FS_Injection
<1> HIDE DEF T
<1>10. Cardinality(Answers') \in Nat BY <1>9, FS_CardinalityType
<1> QED BY <1>2, <1>3, <1>4, <1>9, <1>10

\* The page takes an event off the wire.
Heard == page.mounted \/ Head(wire).kind = "start_init"
Reads ==
    /\ wire # <<>> /\ wire' = Tail(wire)
    /\ link' = IF Head(wire).kind = "close" THEN "closed" ELSE link
    /\ dropped' = IF Heard THEN {} ELSE dropped \cup {Head(wire)}
    /\ missed' = (missed \/ (Head(wire).kind = "start_init" /\ ~Covers(Head(wire), dropped)))
    /\ synced' = (synced \/ Head(wire).kind = "start_init")
    /\ UNCHANGED <<buf, session, greeting, toServer, losses, failures, disk, redone, torn, byClose>>

\* It learns from it what it says, and nothing else, and forgets nothing.
Learns(e) ==
    /\ page' \in PageType
    /\ IF Heard THEN page'.mounted ELSE page' = page
    /\ page'.finished => \/ page.finished \/ e.kind = "upload_finished"
                         \/ e.kind = "start_init" /\ e.eof
    /\ \/ page'.known = page.known
       \/ e.kind = "new_chunk" /\ page'.known = e.i
       \/ e.kind = "start_init" /\ page'.known = e.top
    /\ \/ page.known = Total \/ NewChunk(Total) \in dropped \/ e = NewChunk(Total)
       \/ e.kind = "start_init" /\ e.top = Total
       => page'.known = Total \/ NewChunk(Total) \in dropped' \/ missed'
    /\ \A m \in Index :
           \/ Tracked(page, m) \/ NewChunk(m) \in dropped \/ e = NewChunk(m)
           \/ e.kind = "start_init" /\ m \in e.chunks
           => Tracked(page', m) \/ NewChunk(m) \in dropped' \/ missed'

LEMMA ReadsKeeps ==
    ASSUME IInv, page.done = "no", Reads, Learns(Head(wire))
    PROVE  Types' /\ WordHolds' /\ GreetingHolds' /\ CaughtUp' /\ NoneSkipped'
<1> USE DEF IInv
<1> DEFINE e == Head(wire)
<1>1. /\ e = wire[1] /\ e \in Event
      /\ Len(wire) \in Nat /\ Len(wire) >= 1
      /\ wire' \in Seq(Event) /\ Len(wire') = Len(wire) - 1
      /\ \A j \in 1..Len(wire') : wire'[j] = wire[j + 1]
  BY FirstEvent DEF Reads, Types
<1>2. Says(e, buf, session) BY <1>1 DEF WordHolds, True
<1>3. Types' BY <1>1 DEF Reads, Learns, Types
<1>4. WordHolds'
  <2>1. \A j \in 1..Len(wire') : Says(wire'[j], buf, session)
    <3>1. \A j \in 1..Len(wire') : j + 1 \in 1..Len(wire) BY <1>1
    <3> QED BY <1>1, <3>1 DEF WordHolds, True
  <2>2. page'.known <= buf.top BY <1>2 DEF Learns, WordHolds, Says
  <2>3. page'.finished => buf.eof BY <1>2 DEF Learns, WordHolds, Says
  <2> QED BY <2>1, <2>2, <2>3 DEF WordHolds, True, Says, Greeting, Reads
<1>5. ASSUME NEW j \in Inits' PROVE j + 1 \in Inits /\ j \in Nat /\ j >= 1
  BY <1>1, <1>5 DEF Inits
<1>6. e.kind = "start_init" => 1 \in Inits BY <1>1 DEF Inits
<1>7. e.kind = "start_init" => Inits' = {}
  <2> SUFFICES ASSUME e.kind = "start_init", NEW j \in Inits' PROVE FALSE OBVIOUS
  <2>1. j + 1 = 1 BY <1>5, <1>6 DEF GreetingHolds
  <2> QED BY <1>5, <2>1
<1>8. Inits = {} => Inits' = {} BY <1>5
<1>9. GreetingHolds'
  <2>1. link' # "down" BY DEF Reads, GreetingHolds
  <2>2. greeting.step # "none" => ~synced' /\ Inits' = {}
    BY <1>6, <1>8 DEF Reads, GreetingHolds
  <2>3. synced' => page'.mounted /\ Inits' = {}
    BY <1>7, <1>8 DEF Reads, GreetingHolds, Heard, Learns
  <2>4. ASSUME NEW j \in Inits', NEW k \in Inits' PROVE j = k
    <3>1. j + 1 = k + 1 BY <1>5, <2>4 DEF GreetingHolds
    <3> QED BY <1>5, <2>4, <3>1
  <2>5. page'.mounted => dropped' = {}
    BY DEF Reads, GreetingHolds, Heard, Learns
  <2>6. ~page'.mounted => page' = FreshPage
    BY DEF GreetingHolds, Learns, Heard
  <2>7. greeting' = greeting BY DEF Reads
  <2> QED BY <2>1, <2>2, <2>3, <2>4, <2>5, <2>6, <2>7 DEF GreetingHolds
<1>10. Past' = Len(wire) /\ Past = Len(wire) + 1 BY <1>1 DEF Past
<1>11. missed => missed' BY DEF Reads
<1>12. ASSUME NEW k \in 1..Past', NEW h, h = k + 1
       PROVE  /\ h \in 1..Past
              /\ 1 \in 1..(h - 1)
              /\ \A j \in 1..(k - 1) : j + 1 \in 1..(h - 1) /\ wire'[j] = wire[j + 1]
              /\ \A j \in 1..(h - 1) :
                     j = 1 \/ (j - 1 \in 1..(k - 1) /\ wire'[j - 1] = wire[j])
  <2>1. k \in Nat /\ k >= 1 /\ k <= Len(wire) BY <1>1, <1>10, <1>12
  <2>2. h \in 1..Past /\ 1 \in 1..(h - 1) /\ h - 1 = k BY <1>1, <1>10, <1>12, <2>1
  <2>3. ASSUME NEW j \in 1..(k - 1) PROVE j + 1 \in 1..(h - 1) /\ wire'[j] = wire[j + 1]
    BY <1>1, <2>1, <2>2
  <2>4. ASSUME NEW j \in 1..(h - 1), j # 1
        PROVE  j - 1 \in 1..(k - 1) /\ wire'[j - 1] = wire[j]
    <3>1. j - 1 \in 1..(k - 1) BY <2>1, <2>2, <2>4
    <3>2. wire'[j - 1] = wire[(j - 1) + 1] BY <2>3, <3>1
    <3>3. (j - 1) + 1 = j BY <2>4
    <3> QED BY <3>1, <3>2, <3>3
  <2> QED BY <2>2, <2>3, <2>4
<1> HIDE DEF e
<1>13. ASSUME NEW k \in 1..Past', NEW h, h = k + 1, ~missed'
       PROVE  /\ Reported(k)' => Reported(h)
              /\ EndTold(k)' => EndTold(h)
              /\ EndKnown(h) => EndKnown(k)'
              /\ \A m : Reached(m, k)' => Reached(m, h)
              /\ \A m \in Index : Named(m, h) => Named(m, k)'
              /\ AtEnd(k)' => AtEnd(h)
  <2>1. /\ h \in 1..Past
        /\ 1 \in 1..(h - 1)
        /\ \A j \in 1..(k - 1) : j + 1 \in 1..(h - 1) /\ wire'[j] = wire[j + 1]
        /\ \A j \in 1..(h - 1) :
               j = 1 \/ (j - 1 \in 1..(k - 1) /\ wire'[j - 1] = wire[j])
    BY <1>12, <1>13
  <2>2. e = wire[1] BY <1>1
  <2>3. /\ synced' = (synced \/ e.kind = "start_init") /\ Learns(e)
    BY DEF Reads, e
  <2>4. Reported(k)' => Reported(h) BY <2>1, <2>2, <2>3, ZenonT(40) DEF Reported
  <2>5. EndTold(k)' => EndTold(h)
    <3>1. page'.finished => EndTold(h) BY <2>1, <2>2, <2>3 DEF Learns, EndTold
    <3> QED BY <2>1, <3>1 DEF EndTold
  <2>6. EndKnown(h) => EndKnown(k)'
    <3> SUFFICES ASSUME EndKnown(h) PROVE EndKnown(k)' OBVIOUS
    <3>1. CASE \/ page.known = Total \/ NewChunk(Total) \in dropped \/ e = NewChunk(Total)
               \/ e.kind = "start_init" /\ e.top = Total
      <4>1. page'.known = Total \/ NewChunk(Total) \in dropped'
        BY <1>13, <2>3, <3>1 DEF Learns
      <4> QED BY <4>1 DEF EndKnown
    <3>2. CASE ~(\/ page.known = Total \/ NewChunk(Total) \in dropped \/ e = NewChunk(Total)
                 \/ e.kind = "start_init" /\ e.top = Total)
      <4>1. PICK j \in 1..(h - 1) : \/ wire[j] = NewChunk(Total)
                                    \/ wire[j].kind = "start_init" /\ wire[j].top = Total
        BY <3>2 DEF EndKnown
      <4>2. j # 1 BY <2>2, <3>2, <4>1
      <4>3. j - 1 \in 1..(k - 1) /\ wire'[j - 1] = wire[j] BY <2>1, <4>2
      <4> QED BY <4>1, <4>3 DEF EndKnown
    <3> QED BY <3>1, <3>2
  <2>7. ASSUME NEW m, Reached(m, k)' PROVE Reached(m, h)
    <3>1. m <= page'.known => Reached(m, h) BY <2>1, <2>2, <2>3 DEF Learns, Reached
    <3> QED BY <2>1, <2>7, <3>1 DEF Reached
  <2>8. ASSUME NEW m \in Index, Named(m, h) PROVE Named(m, k)'
    <3>1. CASE \/ Tracked(page, m) \/ NewChunk(m) \in dropped \/ e = NewChunk(m)
               \/ e.kind = "start_init" /\ m \in e.chunks
      <4>1. Tracked(page', m) \/ NewChunk(m) \in dropped'
        BY <1>13, <2>3, <3>1 DEF Learns
      <4> QED BY <4>1 DEF Named
    <3>2. CASE ~(\/ Tracked(page, m) \/ NewChunk(m) \in dropped \/ e = NewChunk(m)
                 \/ e.kind = "start_init" /\ m \in e.chunks)
      <4>1. PICK j \in 1..(h - 1) : \/ wire[j] = NewChunk(m)
                                    \/ wire[j].kind = "start_init" /\ m \in wire[j].chunks
        BY <2>8, <3>2 DEF Named
      <4>2. j # 1 BY <2>2, <3>2, <4>1
      <4>3. j - 1 \in 1..(k - 1) /\ wire'[j - 1] = wire[j] BY <2>1, <4>2
      <4> QED BY <4>1, <4>3 DEF Named
    <3> QED BY <3>1, <3>2
  <2>9. AtEnd(k)' => AtEnd(h)
    <3> SUFFICES ASSUME AtEnd(k)' PROVE AtEnd(h) OBVIOUS
    <3>1. k = Past' /\ link' = "up" /\ ~Closed(wire)' BY DEF AtEnd, Listening
    <3>2. h = Past BY <1>1, <1>10, <1>13, <3>1
    <3>3. link = "up" /\ e.kind # "close" BY <3>1 DEF Reads, e
    <3>4. ~Closed(wire)
      <4> SUFFICES ASSUME NEW j \in 1..Len(wire), wire[j] = Close PROVE FALSE
        BY DEF Closed
      <4>1. j # 1 BY <1>1, <3>3 DEF Close
      <4>2. j - 1 \in 1..Len(wire') /\ (j - 1) + 1 = j BY <1>1, <4>1
      <4>3. wire'[j - 1] = Close BY <1>1, <4>2
      <4> QED BY <3>1, <4>2, <4>3 DEF Closed
    <3> QED BY <3>2, <3>3, <3>4 DEF AtEnd, Listening
  <2> QED BY <2>4, <2>5, <2>6, <2>7, <2>8, <2>9
<1>14. CaughtUp'
  <2> SUFFICES ASSUME ~missed', NEW k \in 1..Past'
               PROVE  /\ Reported(k)' /\ (EndTold(k)' \/ (AtEnd(k)' /\ buf.top = Total))
                             => EndKnown(k)'
                      /\ AtEnd(k)' /\ buf.top = Total /\ greeting.step = "send"
                             => greeting.top = Total \/ EndKnown(k)'
    BY DEF CaughtUp, Reads
  <2>1. PICK h : h = k + 1 OBVIOUS
  <2>2. /\ Reported(k)' => Reported(h)
        /\ EndTold(k)' => EndTold(h)
        /\ EndKnown(h) => EndKnown(k)'
        /\ AtEnd(k)' => AtEnd(h)
    BY <1>13, <2>1
  <2>3. h \in 1..Past BY <1>12, <2>1
  <2> QED BY <1>11, <2>2, <2>3 DEF CaughtUp
<1>15. NoneSkipped'
  <2> SUFFICES ASSUME ~missed', failures = 0, session = "listed",
                      NEW m \in buf.chunks, NEW k \in 1..Past'
               PROVE  /\ Reported(k)' /\ (Reached(m, k)' \/ AtEnd(k)') => Named(m, k)'
                      /\ AtEnd(k)' /\ greeting.step \in {"read", "send"}
                             => m \in greeting.chunks \/ Named(m, k)'
    BY DEF NoneSkipped, Reads
  <2>1. PICK h : h = k + 1 OBVIOUS
  <2>2. m \in Index BY DEF Types, BufferType
  <2>3. /\ Reported(k)' => Reported(h)
        /\ Reached(m, k)' => Reached(m, h)
        /\ Named(m, h) => Named(m, k)'
        /\ AtEnd(k)' => AtEnd(h)
    BY <1>13, <2>1, <2>2
  <2>4. h \in 1..Past BY <1>12, <2>1
  <2> QED BY <1>11, <2>3, <2>4 DEF NoneSkipped
<1> QED BY <1>3, <1>4, <1>9, <1>14, <1>15

\* Downloads may begin, of chunks that are not there, and none ends.
Runs(p, q) ==
    /\ q.have = p.have /\ q.buffered = p.buffered /\ q.next = p.next
    /\ \A j \in Index :
           \/ q.fetch[j] = p.fetch[j]
           \/ p.fetch[j].st = "none" /\ j \notin p.have /\ q.fetch[j].st = "get"

LEMMA RunsKeeps ==
    ASSUME IInv, Runs(page, page'), disk' = disk, redone' = redone, torn' = torn
    PROVE  FetchHolds' /\ DiskHolds' /\ Settled' = Settled
<1> USE DEF IInv
<1>1. page.have \subseteq Index BY DEF Types, PageType
<1>2. Settled' = Settled BY <1>1 DEF Settled, Runs
<1>3. Writers(page') = Writers(page) BY DEF Writers, Runs
<1>4. \A j \in Writers(page) : page'.fetch[j] = page.fetch[j] BY DEF Writers, Runs
<1>5. FetchHolds' BY <1>3 DEF FetchHolds, Runs
<1>6. \A j \in Wanted(page') : j \in Wanted(page) \/ j \notin page.have
  BY DEF Wanted, Runs
<1>7. DiskHolds' BY <1>3, <1>4, <1>6 DEF DiskHolds, Runs
<1> QED BY <1>2, <1>5, <1>7

LEMMA AnswersRead ==
    ASSUME IInv, Reads, Settled' = Settled,
           page'.unacked = page.unacked
               - (IF Head(wire).kind = "chunk_download" THEN 1 ELSE 0)
    PROVE  AnswersHold'
<1> DEFINE a == IF Head(wire).kind = "chunk_download" THEN 1 ELSE 0
<1>1. a \in {0, 1} OBVIOUS
<1>2. page'.unacked = page.unacked - a /\ page.unacked \in Int
  BY DEF IInv, Types, PageType
<1>3. /\ Cardinality(Answers') \in Nat /\ Cardinality(Answers) \in Nat
      /\ Cardinality(Answers') <= Cardinality(Answers) - a
  BY AnswersMove DEF Reads, IInv, Types
<1> HIDE DEF a
<1>4. Len(toServer) \in Nat /\ toServer' = toServer BY DEF IInv, Types, Reads
<1>5. Cardinality(Settled) \in Nat BY SettledFinite DEF IInv, Types
<1>6. /\ Len(toServer) + Cardinality(Answers) <= page.unacked
      /\ page.unacked <= Cardinality(Settled)
  BY DEF IInv, AnswersHold
<1>7. /\ Len(toServer) + Cardinality(Answers') <= page'.unacked
      /\ page'.unacked <= Cardinality(Settled)
  BY <1>1, <1>2, <1>3, <1>4, <1>5, <1>6
<1> QED BY <1>4, <1>7 DEF AnswersHold

\* Events other than start_init leave the loops as they are.
LEMMA HearsKeeps ==
    ASSUME IInv, page.done = "no", Reads, Learns(Head(wire)),
           Head(wire).kind = "start_init" => FALSE,
           Runs(page, page'), page'.mounted = page.mounted, page'.loops = page.loops,
           \A l \in Loop : Awaits(page, l) => Awaits(page', l),
           page'.unacked = page.unacked
               - (IF Head(wire).kind = "chunk_download" THEN 1 ELSE 0),
           DoneHolds'
    PROVE  IInv'
<1> USE DEF IInv
<1>1. Types' /\ WordHolds' /\ GreetingHolds' /\ CaughtUp' /\ NoneSkipped'
  BY ReadsKeeps
<1>2. FetchHolds' /\ DiskHolds' /\ Settled' = Settled BY RunsKeeps DEF Reads
<1>3. AnswersHold' BY <1>2, AnswersRead
<1>4. LoopsHold'
  <2>1. losses' = losses /\ synced' = synced BY DEF Reads, Types
  <2>2. ASSUME NEW l \in Loop, page'.loops[l] # {}
        PROVE  l <= losses /\ \E j \in Pending(page') : page'.fetch[j].by = l
    <3>1. l <= losses /\ Awaits(page, l) BY <2>2 DEF LoopsHold, Awaits
    <3> QED BY <2>2, <3>1 DEF Awaits
  <2> QED BY <2>1, <2>2 DEF LoopsHold
<1> QED BY <1>1, <1>2, <1>3, <1>4

\* An event without a listener is noted in dropped.
LEMMA UnheardKeeps ==
    ASSUME IInv, page.done = "no", Reads, ~Heard, page' = page
    PROVE  IInv'
<1> USE DEF IInv
<1>1. Head(wire).kind # "start_init" /\ ~page.mounted BY DEF Heard
<1>2. Learns(Head(wire))
  BY <1>1 DEF Learns, Heard, Reads, Types
<1>3. Runs(page, page') BY DEF Runs
<1>4. page.unacked = 0 /\ page.have = {} BY <1>1, FreshPageHolds DEF GreetingHolds
<1>5. page'.unacked = page.unacked
               - (IF Head(wire).kind = "chunk_download" THEN 1 ELSE 0)
  <2>1. Cardinality(Answers) = 0
    <3>1. Cardinality(Answers) \in Nat /\ Len(toServer) \in Nat
      BY AnswersFinite DEF Types
    <3> QED BY <1>4, <3>1 DEF AnswersHold
  <2>2. Answers = {} BY <2>1, AnswersFinite, FS_EmptySet DEF Types
  <2>3. Head(wire) = wire[1] /\ 1 \in 1..Len(wire)
    BY FirstEvent DEF Reads, Types
  <2>4. Head(wire).kind # "chunk_download" BY <2>2, <2>3 DEF Answers
  <2>5. page'.unacked = 0 /\ page'.unacked = page.unacked - 0 BY <1>4
  <2> QED BY <2>4, <2>5
<1>6. DoneHolds' BY DEF DoneHolds, Reads
<1> QED BY <1>1, <1>2, <1>3, <1>5, <1>6, HearsKeeps

\* Events that begin no download.
LEMMA PlainKeeps ==
    ASSUME IInv, page.done = "no", Reads, page.mounted,
           Head(wire).kind \notin {"start_init", "new_chunk"},
           page' \in PageType, page'.mounted, page'.known = page.known,
           page'.finished = page.finished \/ Head(wire).kind = "upload_finished",
           page'.have = page.have, page'.fetch = page.fetch, page'.loops = page.loops,
           page'.buffered = page.buffered, page'.next = page.next,
           page'.unacked = page.unacked
               - (IF Head(wire).kind = "chunk_download" THEN 1 ELSE 0),
           DoneHolds'
    PROVE  IInv'
<1> USE DEF IInv
<1>1. dropped = {} BY DEF GreetingHolds
<1>2. Pending(page') = Pending(page) BY DEF Pending
<1>3. \A m : Tracked(page, m) => Tracked(page', m) BY <1>2 DEF Tracked
<1>4. Learns(Head(wire)) BY <1>1, <1>3 DEF Learns, Heard, NewChunk
<1>5. Runs(page, page') BY DEF Runs
<1>6. \A l \in Loop : Awaits(page, l) => Awaits(page', l) BY <1>2 DEF Awaits
<1>7. page'.mounted = page.mounted BY DEF Types, PageType
<1> QED BY <1>4, <1>5, <1>6, <1>7, HearsKeeps

\* A download begins.
LEMMA FetchEffect ==
    ASSUME NEW p \in PageType, NEW i \in Index, p.fetch[i].st = "none", i \notin p.have,
           NEW q, q = Fetch(p, i, NewChunkHandler)
    PROVE  /\ Same(p, q) /\ q.done = p.done /\ q.loops = p.loops
           /\ Runs(p, q) /\ Pending(q) = Pending(p) \cup {i}
           /\ \A l \in Loop : Awaits(p, l) => Awaits(q, l)
<1> DEFINE f == [st |-> "get", try |-> 1, by |-> NewChunkHandler, put |-> 0]
<1>1. f \in FetchType /\ f.st = "get"
  BY WebReceiverAssumption, LimitsAssumption DEF FetchType, NewChunkHandler, Total
<1> HIDE DEF f
<1>2. /\ Same(p, q) /\ q.done = p.done /\ q.loops = p.loops
      /\ q.fetch = [p.fetch EXCEPT ![i] = f]
  BY <1>1 DEF Fetch, PageType, Same, f
<1>3. Pending(q) = Pending(p) \cup {i} BY <1>1, <1>2 DEF Pending, PageType
<1>4. Runs(p, q) BY <1>1, <1>2 DEF Runs, Same, PageType
<1>5. ASSUME NEW l \in Loop, Awaits(p, l) PROVE Awaits(q, l)
  <2>1. \A j \in Pending(p) : q.fetch[j] = p.fetch[j]
    BY <1>2 DEF Pending, PageType
  <2> QED BY <1>2, <1>3, <1>5, <2>1 DEF Awaits
<1> QED BY <1>2, <1>3, <1>4, <1>5

\* The check for the end comes after a change that begins no download.
LEMMA CheckedEffect ==
    ASSUME NEW p \in PageType, NEW q \in PageType, NEW r, r = CheckIfDone(q),
           q.done = p.done, q.have = p.have, q.buffered = p.buffered, q.next = p.next,
           q.fetch = p.fetch, q.loops = p.loops
    PROVE  /\ Same(q, r) /\ Concludes(p, r) /\ Runs(p, r)
           /\ r.fetch = p.fetch /\ r.loops = p.loops /\ Pending(r) = Pending(p)
<1>1. Same(q, r) /\ Concludes(q, r) /\ r.fetch = q.fetch /\ r.loops = q.loops
  BY CheckEffect
<1>2. Concludes(p, r) BY <1>1 DEF Concludes
<1>3. Runs(p, r) BY <1>1 DEF Runs, Same
<1>4. Pending(r) = Pending(p) BY <1>1 DEF Pending
<1> QED BY <1>1, <1>2, <1>3, <1>4

\* The page fetches a chunk it is told of.
LEMMA NewChunkKeeps ==
    ASSUME IInv, page.done = "no", Reads, page.mounted, Head(wire).kind = "new_chunk",
           page' = TakeNewChunk(page, Head(wire).i)
    PROVE  IInv'
<1> USE DEF IInv
<1> DEFINE e == Head(wire)
           i == Head(wire).i
           q == [page EXCEPT !.known = IF i > @ THEN i ELSE @]
<1>1. e \in Event BY FirstEvent DEF Reads, Types
<1>2. e = NewChunk(i) /\ i \in Index
  BY <1>1 DEF Event, StartInits, NewChunk
<1>3. page \in PageType /\ page.known \in 0..Total BY DEF Types, PageType
<1>4. i \in 1..Total /\ Total \in Nat BY <1>2, LimitsAssumption DEF Index, Total
<1>5. q.known \in 0..Total /\ (q.known = page.known \/ q.known = i)
      /\ (page.known = Total \/ i = Total => q.known = Total)
  <2>1. q.known = IF i > page.known THEN i ELSE page.known BY <1>3 DEF PageType
  <2> HIDE DEF q, i
  <2> QED BY <1>3, <1>4, <2>1
<1>6. /\ q \in PageType /\ q.mounted = page.mounted /\ q.finished = page.finished
      /\ q.have = page.have /\ q.unacked = page.unacked /\ q.buffered = page.buffered
      /\ q.next = page.next /\ q.done = page.done /\ q.fetch = page.fetch
      /\ q.loops = page.loops
  <2> DEFINE n == IF i > page.known THEN i ELSE page.known
  <2>1. n \in 0..Total BY <1>3, <1>4
  <2>2. q = [page EXCEPT !.known = n] BY <1>3 DEF PageType
  <2> HIDE DEF n, q
  <2> QED BY <1>3, <2>1, <2>2 DEF PageType
<1> HIDE DEF q
<1>7. /\ Same(q, page') /\ Concludes(page, page') /\ Runs(page, page')
      /\ page'.loops = page.loops
      /\ i \in page'.have \cup Pending(page') /\ Pending(page) \subseteq Pending(page')
      /\ \A l \in Loop : Awaits(page, l) => Awaits(page', l)
  <2>1. Pending(q) = Pending(page) BY <1>6 DEF Pending
  <2>2. CASE i \in page.have \cup Pending(page)
    <3>1. page' = CheckIfDone(q) BY <2>2 DEF TakeNewChunk, q
    <3>2. /\ Same(q, page') /\ Concludes(page, page') /\ Runs(page, page')
          /\ page'.fetch = page.fetch /\ page'.loops = page.loops
          /\ Pending(page') = Pending(page)
      BY <1>3, <1>6, <3>1, CheckedEffect
    <3>3. \A l \in Loop : Awaits(page, l) => Awaits(page', l)
      BY <3>2 DEF Awaits
    <3> QED BY <2>2, <3>2, <3>3 DEF Runs
  <2>3. CASE i \notin page.have \cup Pending(page)
    <3>1. page' = Fetch(q, i, NewChunkHandler) BY <2>3 DEF TakeNewChunk, q
    <3>2. q.fetch[i].st = "none" /\ i \notin q.have
      BY <1>2, <1>6, <2>3 DEF Pending
    <3>3. /\ Same(q, page') /\ page'.done = q.done /\ page'.loops = q.loops
          /\ Runs(q, page') /\ Pending(page') = Pending(q) \cup {i}
          /\ \A l \in Loop : Awaits(q, l) => Awaits(page', l)
      BY <1>2, <1>6, <3>1, <3>2, FetchEffect
    <3>4. Runs(page, page') BY <1>6, <3>3 DEF Runs
    <3>5. \A l \in Loop : Awaits(page, l) => Awaits(q, l) BY <1>6, <2>1 DEF Awaits
    <3> QED BY <1>6, <2>1, <3>3, <3>4, <3>5 DEF Concludes
  <2> QED BY <2>2, <2>3
<1>8. /\ page' \in PageType /\ page'.mounted = page.mounted
      /\ page'.finished = page.finished /\ page'.known = q.known
      /\ page'.have = page.have /\ page'.unacked = page.unacked
  BY <1>6, <1>7 DEF Same
<1>9. dropped = {} BY DEF GreetingHolds
<1>10. \A m : Tracked(page, m) => Tracked(page', m) BY <1>7, <1>8 DEF Tracked
<1>11. Tracked(page', i) BY <1>7 DEF Tracked
<1>12. Learns(e)
  <2>1. page'.known = page.known \/ page'.known = e.i BY <1>5, <1>8
  <2>2. page.known = Total \/ e = NewChunk(Total) => page'.known = Total
    BY <1>5, <1>8 DEF NewChunk
  <2>3. ASSUME NEW m \in Index, Tracked(page, m) \/ e = NewChunk(m)
        PROVE  Tracked(page', m)
    BY <1>10, <1>11, <2>3 DEF NewChunk
  <2> QED BY <1>8, <1>9, <2>1, <2>2, <2>3 DEF Learns, Heard
<1>13. DoneHolds' BY <1>7, ConcludesHolds DEF Reads
<1>14. page'.unacked = page.unacked
               - (IF Head(wire).kind = "chunk_download" THEN 1 ELSE 0)
  BY <1>8 DEF PageType
<1> QED BY <1>7, <1>8, <1>12, <1>13, <1>14, HearsKeeps

\* The page is told that the upload has ended ...
LEMMA UploadFinishedKeeps ==
    ASSUME IInv, page.done = "no", Reads, page.mounted,
           Head(wire).kind = "upload_finished",
           page' = CheckIfDone([page EXCEPT !.finished = TRUE])
    PROVE  IInv'
<1> USE DEF IInv
<1> DEFINE q == [page EXCEPT !.finished = TRUE]
<1>1. page \in PageType BY DEF Types
<1>2. /\ q \in PageType /\ q.mounted = page.mounted /\ q.known = page.known
      /\ q.finished /\ q.done = page.done
      /\ q.have = page.have /\ q.unacked = page.unacked /\ q.buffered = page.buffered
      /\ q.next = page.next /\ q.fetch = page.fetch /\ q.loops = page.loops
  BY <1>1 DEF PageType
<1> HIDE DEF q
<1>3. page' = CheckIfDone(q) BY DEF q
<1>4. /\ Same(q, page') /\ Concludes(page, page')
      /\ page'.fetch = page.fetch /\ page'.loops = page.loops
  BY <1>1, <1>2, <1>3, CheckedEffect
<1>5. DoneHolds' BY <1>4, ConcludesHolds DEF Reads
<1>6. page'.unacked = page.unacked - 0 BY <1>1, <1>2, <1>4 DEF Same, PageType
<1> QED BY <1>2, <1>4, <1>5, <1>6, PlainKeeps DEF Same

\* ... or that a confirmation has been read.
LEMMA ChunkDownloadKeeps ==
    ASSUME IInv, page.done = "no", Reads, page.mounted,
           Head(wire).kind = "chunk_download",
           page' = CheckIfDone([page EXCEPT !.unacked = @ - 1])
    PROVE  IInv'
<1> USE DEF IInv
<1> DEFINE q == [page EXCEPT !.unacked = @ - 1]
<1> DEFINE n == page.unacked - 1
<1>1. page \in PageType /\ n \in Int /\ q = [page EXCEPT !.unacked = n]
  BY DEF Types, PageType
<1> HIDE DEF n, q
<1>2. /\ q \in PageType /\ q.mounted = page.mounted /\ q.known = page.known
      /\ q.finished = page.finished /\ q.done = page.done
      /\ q.have = page.have /\ q.unacked = n /\ q.buffered = page.buffered
      /\ q.next = page.next /\ q.fetch = page.fetch /\ q.loops = page.loops
  BY <1>1 DEF PageType
<1>3. page' = CheckIfDone(q) BY DEF q
<1>4. /\ Same(q, page') /\ Concludes(page, page')
      /\ page'.fetch = page.fetch /\ page'.loops = page.loops
  BY <1>1, <1>2, <1>3, CheckedEffect
<1>5. DoneHolds' BY <1>4, ConcludesHolds DEF Reads
<1> QED BY <1>2, <1>4, <1>5, PlainKeeps DEF Same, n

\* The socket is closed for good.
LEMMA CloseKeeps ==
    ASSUME IInv, page.done = "no", Reads, page.mounted, Head(wire).kind = "close",
           page' = [page EXCEPT !.closing = TRUE]
    PROVE  IInv'
<1>1. page \in PageType BY DEF IInv, Types
<1>2. /\ page' \in PageType /\ page'.mounted = page.mounted
      /\ page'.known = page.known
      /\ page'.finished = page.finished /\ page'.done = page.done
      /\ page'.have = page.have /\ page'.unacked = page.unacked
      /\ page'.buffered = page.buffered
      /\ page'.next = page.next /\ page'.fetch = page.fetch /\ page'.loops = page.loops
  BY <1>1 DEF PageType
<1>3. DoneHolds' BY <1>2, ConcludesHolds DEF Reads, Concludes
<1>4. page'.unacked = page.unacked - 0 BY <1>1, <1>2 DEF PageType
<1> QED BY <1>2, <1>3, <1>4, PlainKeeps

\* The session is over: whoever has read everything that came before "ok" knows
\* how many chunks there are.
LEMMA CompleteKeeps ==
    ASSUME IInv, page.done = "no", Reads, page.mounted, Head(wire).kind = "complete",
           page' = IF Head(wire).status = "ok" THEN Finalize(page)
                   ELSE [page EXCEPT !.done = Head(wire).status]
    PROVE  IInv'
<1> USE DEF IInv
<1> DEFINE e == Head(wire)
           d == IF e.status # "ok" THEN e.status
                ELSE IF 1..page.known \subseteq page.have THEN "ok" ELSE "incomplete"
<1>1. /\ e = wire[1] /\ e \in Event /\ Len(wire) \in Nat /\ Len(wire) >= 1
  BY FirstEvent DEF Reads, Types
<1>2. e.kind = "complete" /\ e.status \in {"ok", "timeout"}
  BY <1>1 DEF Event, StartInits
<1>3. session # "listed"
  <2>1. True(wire[1]) BY <1>1 DEF WordHolds
  <2> QED BY <1>1, <1>2, <2>1 DEF True, Says
<1>4. page \in PageType /\ d \in Status /\ page' = [page EXCEPT !.done = d]
  BY <1>2 DEF Types, Finalize, Status
<1>5. d = "ok" => e.status = "ok" /\ 1..page.known \subseteq page.have
  OBVIOUS
<1>6. /\ d # "no" /\ (d = "incomplete" => ~(1..page.known \subseteq page.have))
  BY <1>2
<1> HIDE DEF d
<1>7. /\ page' \in PageType /\ page'.done = d /\ page'.mounted = page.mounted
      /\ page'.known = page.known /\ page'.finished = page.finished
      /\ page'.have = page.have /\ page'.unacked = page.unacked
      /\ page'.buffered = page.buffered
      /\ page'.next = page.next /\ page'.fetch = page.fetch /\ page'.loops = page.loops
  BY <1>4 DEF PageType
<1>8. ASSUME e.status = "ok", synced, ~missed PROVE page.known = Total
  <2>1. 2 \in 1..Past /\ 1 \in 1..(2 - 1) BY <1>1 DEF Past
  <2>2. EndTold(2) BY <1>1, <1>2, <1>8, <2>1 DEF EndTold
  <2>3. Reported(2) BY <1>8 DEF Reported
  <2>4. EndKnown(2) BY <1>8, <2>1, <2>2, <2>3 DEF CaughtUp
  <2>5. dropped = {} BY DEF GreetingHolds
  <2>6. \A j \in 1..(2 - 1) : wire[j] = e BY <1>1
  <2>7. e # NewChunk(Total) BY <1>2 DEF NewChunk
  <2> QED BY <1>2, <2>4, <2>5, <2>6, <2>7 DEF EndKnown
<1>9. DoneHolds'
  <2>1. synced' = synced /\ missed' = missed /\ session' = session
    BY <1>2 DEF Reads, Types
  <2> QED BY <1>3, <1>5, <1>6, <1>7, <1>8, <2>1 DEF DoneHolds
<1>10. page'.unacked = page.unacked - 0 BY <1>4, <1>7 DEF PageType
<1> QED BY <1>2, <1>7, <1>9, <1>10, PlainKeeps

\* What start_init does to the page: its loop is the one that has nothing to do.
LEMMA StartInitEffect ==
    ASSUME IInv, page.done = "no", Reads, Head(wire).kind = "start_init",
           page' = TakeStartInit(page, Head(wire)),
           NEW l, l = IF page.mounted THEN losses ELSE 0
    PROVE  /\ Head(wire) \in StartInits /\ True(Head(wire)) /\ ~synced
           /\ l \in Loop /\ l <= losses /\ page.loops[l] = {}
           /\ page' \in PageType /\ page'.mounted
           /\ page'.known = IF Head(wire).top > page.known THEN Head(wire).top
                            ELSE page.known
           /\ page'.finished = (page.finished \/ Head(wire).eof)
           /\ page'.unacked = page.unacked
           /\ Runs(page, page') /\ Concludes(page, page') /\ Awaits(page', l)
           /\ \A k \in Loop \ {l} : page'.loops[k] = page.loops[k]
           /\ Head(wire).chunks \subseteq
                  page'.have \cup Pending(page') \cup page'.loops[l]
<1> USE DEF IInv
<1> DEFINE e == Head(wire)
<1>1. /\ e = wire[1] /\ e \in Event /\ Len(wire) \in Nat /\ Len(wire) >= 1
  BY FirstEvent DEF Reads, Types
<1>2. e \in StartInits BY <1>1 DEF Event
<1>3. True(e) BY <1>1 DEF WordHolds
<1>4. ~synced
  <2>1. 1 \in Inits BY <1>1 DEF Inits
  <2> QED BY <2>1 DEF GreetingHolds
<1>5. l \in Loop /\ l <= losses /\ page.loops[l] = {}
  <2>1. losses \in Nat /\ losses <= MaxFaults /\ MaxFaults \in Nat
    BY WebReceiverAssumption DEF Types
  <2>2. l \in Loop /\ l <= losses BY <2>1 DEF Loop
  <2>3. page.mounted => page.loops[l] = {} BY <1>4, <2>1, <2>2 DEF LoopsHold
  <2>4. ~page.mounted => page.loops[l] = {} BY <2>2 DEF GreetingHolds, FreshPage
  <2> QED BY <2>2, <2>3, <2>4
<1>6. page \in PageType BY DEF Types
<1> DEFINE n == IF e.top > page.known THEN e.top ELSE page.known
           x == page.finished \/ e.eof
           q == [page EXCEPT !.mounted = TRUE, !.finished = x,
                             !.known = n, !.loops[l] = e.chunks]
           low == IF e.chunks = {} THEN e.top + 1 ELSE LowestOf(e.chunks)
           f == page.failed \cup (1..(low - 1) \ page.have)
           m == [q EXCEPT !.failed = f]
<1>7. n \in 0..Total /\ x \in BOOLEAN /\ e.chunks \in SUBSET Index
  BY <1>2, <1>6 DEF StartInits, PageType
<1>8. f \in SUBSET Index
  <2>1. low \in 1..(Total + 1)
    <3>1. CASE e.chunks = {}
      BY <1>2, <3>1, LimitsAssumption DEF StartInits, Total
    <3>2. CASE e.chunks # {}
      <4>1. e.chunks \in SUBSET Nat BY <1>7, LimitsAssumption DEF Index
      <4>2. LowestOf(e.chunks) \in e.chunks BY <3>2, <4>1, Lowest
      <4> QED BY <1>7, <3>2, <4>2, LimitsAssumption DEF Index, Total
    <3> QED BY <3>1, <3>2
  <2> HIDE DEF low
  <2>2. 1..(low - 1) \subseteq Index BY <2>1, LimitsAssumption DEF Index, Total
  <2> QED BY <1>6, <2>2 DEF PageType
<1> HIDE DEF n, x, f
<1>9. /\ q \in PageType /\ q.mounted /\ q.finished = x /\ q.known = n
      /\ q.have = page.have /\ q.failed = page.failed /\ q.unacked = page.unacked
      /\ q.buffered = page.buffered /\ q.next = page.next /\ q.done = page.done
      /\ q.fetch = page.fetch /\ q.loops = [page.loops EXCEPT ![l] = e.chunks]
  BY <1>5, <1>6, <1>7 DEF PageType
<1>10. page' = LoopOn(m, l)
  <2>1. q = [page EXCEPT !.mounted = TRUE, !.finished = @ \/ e.eof,
                         !.known = IF e.top > @ THEN e.top ELSE @, !.loops[l] = e.chunks]
    BY <1>6 DEF n, x, PageType
  <2>2. page' = LoopOn(MarkUnrecoverable(q, e), l) BY <2>1 DEF TakeStartInit
  <2>3. q.failed = page.failed /\ q.have = page.have BY <1>9
  <2> HIDE DEF q
  <2>4. MarkUnrecoverable(q, e) = m BY <1>9, <2>3 DEF MarkUnrecoverable, f, PageType
  <2> QED BY <2>2, <2>4
<1> HIDE DEF q
<1>11. /\ m \in PageType /\ Same(q, m) /\ m.done = q.done
       /\ m.fetch = q.fetch /\ m.loops = q.loops
  BY <1>8, <1>9 DEF PageType, Same
<1> HIDE DEF m
<1>12. /\ Same(m, page') /\ Concludes(m, page') /\ Awaits(page', l)
       /\ \A i \in Index : \/ page'.fetch[i] = m.fetch[i]
                           \/ /\ m.fetch[i].st = "none" /\ i \notin m.have
                              /\ page'.fetch[i] = [st |-> "get", try |-> 1, by |-> l, put |-> 0]
       /\ \A k \in Loop \ {l} : page'.loops[k] = m.loops[k]
       /\ m.loops[l] \subseteq page'.have \cup Pending(page') \cup page'.loops[l]
  <2> DEFINE r == LoopOn(m, l)
  <2>1. /\ Same(m, r) /\ Concludes(m, r) /\ Awaits(r, l)
        /\ \A i \in Index : \/ r.fetch[i] = m.fetch[i]
                            \/ /\ m.fetch[i].st = "none" /\ i \notin m.have
                               /\ r.fetch[i] = [st |-> "get", try |-> 1, by |-> l, put |-> 0]
        /\ \A k \in Loop \ {l} : r.loops[k] = m.loops[k]
        /\ m.loops[l] \subseteq r.have \cup Pending(r) \cup r.loops[l]
    BY <1>5, <1>11, LoopEffect
  <2>2. r = page' BY <1>10
  <2> HIDE DEF r
  <2> QED BY <2>1, <2>2
<1>13. /\ page' \in PageType /\ page'.mounted /\ page'.known = n /\ page'.finished = x
       /\ page'.unacked = page.unacked
  BY <1>9, <1>11, <1>12 DEF Same
<1>14. Runs(page, page') BY <1>9, <1>11, <1>12 DEF Runs, Same
<1>15. Concludes(page, page') BY <1>9, <1>11, <1>12 DEF Concludes
<1>16. m.loops = [page.loops EXCEPT ![l] = e.chunks] BY <1>9, <1>11
<1>17. m.loops[l] = e.chunks /\ \A k \in Loop \ {l} : m.loops[k] = page.loops[k]
  BY <1>5, <1>6, <1>16 DEF PageType
<1> QED BY <1>2, <1>3, <1>4, <1>5, <1>12, <1>13, <1>14, <1>15, <1>17 DEF n, x

LEMMA StartInitKeeps ==
    ASSUME IInv, page.done = "no", Reads, Head(wire).kind = "start_init",
           page' = TakeStartInit(page, Head(wire))
    PROVE  IInv'
<1> USE DEF IInv
<1> DEFINE e == Head(wire)
<1>1. PICK l : l = IF page.mounted THEN losses ELSE 0 OBVIOUS
<1>2. /\ e \in StartInits /\ True(e) /\ ~synced
      /\ l \in Loop /\ l <= losses /\ page.loops[l] = {}
      /\ page' \in PageType /\ page'.mounted
      /\ page'.known = IF e.top > page.known THEN e.top ELSE page.known
      /\ page'.finished = (page.finished \/ e.eof)
      /\ page'.unacked = page.unacked
      /\ Runs(page, page') /\ Concludes(page, page') /\ Awaits(page', l)
      /\ \A k \in Loop \ {l} : page'.loops[k] = page.loops[k]
      /\ e.chunks \subseteq page'.have \cup Pending(page') \cup page'.loops[l]
  BY <1>1, StartInitEffect
<1>3. /\ e.kind = "start_init" /\ e.top \in 0..Total /\ e.chunks \subseteq 1..e.top
      /\ page.known \in 0..Total /\ Total \in Nat
  BY <1>2, LimitsAssumption DEF True, Says, StartInits, Types, PageType, Total
<1>4. Pending(page) \subseteq Pending(page')
      /\ \A i \in Pending(page) : page'.fetch[i] = page.fetch[i]
  BY <1>2 DEF Pending, Runs
<1>5. ~missed' => Covers(e, dropped) BY <1>3 DEF Reads
<1>6. ASSUME ~missed', NEW i \in Index, NewChunk(i) \in dropped PROVE i \in e.chunks
  BY <1>5, <1>6 DEF Covers
<1>7. ASSUME NEW i \in Index, Tracked(page, i) \/ i \in e.chunks PROVE Tracked(page', i)
  <2>1. i \in e.chunks => Tracked(page', i) BY <1>2 DEF Tracked
  <2>2. i \in page.have \cup Pending(page) => Tracked(page', i)
    BY <1>2, <1>4 DEF Tracked, Runs
  <2>3. ASSUME NEW k \in Loop, i \in page.loops[k] PROVE Tracked(page', i)
    <3>1. k # l BY <1>2, <2>3
    <3>2. i \in page'.loops[k] BY <1>2, <2>3, <3>1
    <3> QED BY <3>2 DEF Tracked
  <2> QED BY <1>7, <2>1, <2>2, <2>3 DEF Tracked
<1>8. Learns(e)
  <2>1. page'.known = page.known \/ page'.known = e.top BY <1>2
  <2>2. page.known = Total \/ e.top = Total => page'.known = Total BY <1>2, <1>3
  <2>3. ASSUME ~missed', NewChunk(Total) \in dropped PROVE page'.known = Total
    <3>1. CASE Total \in Index
      <4>1. Total \in e.chunks BY <1>6, <2>3, <3>1
      <4> QED BY <1>3, <2>2, <4>1
    <3>2. CASE Total \notin Index
      <4>1. Total = 0 BY <1>3, <3>2 DEF Index, Total
      <4> QED BY <1>3, <2>2, <4>1
    <3> QED BY <3>1, <3>2
  <2>4. e # NewChunk(Total) /\ \A i : e # NewChunk(i) BY <1>3 DEF NewChunk
  <2>5. \A i \in Index : Tracked(page, i) \/ NewChunk(i) \in dropped \/ i \in e.chunks
                             => Tracked(page', i) \/ missed'
    BY <1>6, <1>7
  <2>6. page'.finished => page.finished \/ e.eof BY <1>2
  <2> HIDE DEF e
  <2>7. Heard BY DEF Heard, e
  <2> QED BY <1>2, <1>3, <2>1, <2>2, <2>3, <2>4, <2>5, <2>6, <2>7 DEF Learns
<1>9. Types' /\ WordHolds' /\ GreetingHolds' /\ CaughtUp' /\ NoneSkipped'
  BY <1>8, ReadsKeeps
<1>10. FetchHolds' /\ DiskHolds' /\ Settled' = Settled BY <1>2, RunsKeeps DEF Reads
<1>11. AnswersHold'
  <2>1. page'.unacked = page.unacked - 0 BY <1>2 DEF PageType
  <2> QED BY <1>3, <1>10, <2>1, AnswersRead
<1>12. LoopsHold'
  <2>1. losses' = losses /\ synced' BY DEF Reads
  <2>2. ASSUME NEW k \in Loop, page'.loops[k] # {}
        PROVE  k <= losses /\ \E j \in Pending(page') : page'.fetch[j].by = k
    <3>1. CASE k = l BY <1>2, <2>2, <3>1 DEF Awaits
    <3>2. CASE k # l
      <4>1. page.loops[k] # {} BY <1>2, <2>2, <3>2
      <4>2. k <= losses /\ \E j \in Pending(page) : page.fetch[j].by = k
        BY <4>1 DEF LoopsHold
      <4> QED BY <1>4, <4>2
    <3> QED BY <3>1, <3>2
  <2> QED BY <2>1, <2>2 DEF LoopsHold
<1>13. DoneHolds' BY <1>2, ConcludesHolds DEF Reads
<1> QED BY <1>9, <1>10, <1>11, <1>12, <1>13

LEMMA ReadEventKeeps ==
    ASSUME IInv, page.done = "no", ReadEvent
    PROVE  IInv'
<1> DEFINE e == Head(wire)
<1>1. Reads BY DEF ReadEvent, Reads, Heard, server
<1>2. e \in Event BY <1>1, FirstEvent DEF Reads, IInv, Types
<1>3. CASE ~Heard
  <2>1. page' = page BY <1>3 DEF ReadEvent, Heard
  <2> QED BY <1>1, <1>3, <2>1, UnheardKeeps
<1>4. CASE Heard
  <2>1. page' = TakeEvent(page, e) BY <1>4 DEF ReadEvent, Heard
  <2>2. CASE e.kind = "start_init"
    <3>1. page' = TakeStartInit(page, e) BY <2>1, <2>2 DEF TakeEvent
    <3> QED BY <1>1, <2>2, <3>1, StartInitKeeps
  <2>3. CASE e.kind # "start_init"
    <3>1. page.mounted BY <1>4, <2>3 DEF Heard
    <3>2. CASE e.kind = "new_chunk"
      <4>1. page' = TakeNewChunk(page, e.i) BY <2>1, <3>2 DEF TakeEvent
      <4> QED BY <1>1, <3>1, <3>2, <4>1, NewChunkKeeps
    <3>3. CASE e.kind = "chunk_download"
      <4>1. page' = CheckIfDone([page EXCEPT !.unacked = @ - 1])
        BY <2>1, <3>3 DEF TakeEvent
      <4> QED BY <1>1, <3>1, <3>3, <4>1, ChunkDownloadKeeps
    <3>4. CASE e.kind = "upload_finished"
      <4>1. page' = CheckIfDone([page EXCEPT !.finished = TRUE])
        BY <2>1, <3>4 DEF TakeEvent
      <4> QED BY <1>1, <3>1, <3>4, <4>1, UploadFinishedKeeps
    <3>5. CASE e.kind = "complete"
      <4>1. page' = IF e.status = "ok" THEN Finalize(page)
                    ELSE [page EXCEPT !.done = e.status]
        BY <2>1, <3>5 DEF TakeEvent
      <4> QED BY <1>1, <3>1, <3>5, <4>1, CompleteKeeps
    <3>6. CASE e.kind = "close"
      <4>1. page' = [page EXCEPT !.closing = TRUE] BY <2>1, <3>6 DEF TakeEvent
      <4> QED BY <1>1, <3>1, <3>6, <4>1, CloseKeeps
    <3>7. e.kind \in {"new_chunk", "chunk_download", "upload_finished", "complete",
                      "close"}
      BY <1>2, <2>3 DEF Event, StartInits
    <3> QED BY <3>2, <3>3, <3>4, <3>5, <3>6, <3>7
  <2> QED BY <2>2, <2>3
<1> QED BY <1>3, <1>4

\* The page's end by its timer is not one it has made sure of.
LEMMA CloseTimerKeeps ==
    ASSUME IInv, page.done = "no", CloseTimer
    PROVE  IInv'
<1> USE DEF IInv
<1> DEFINE d == IF page.finished /\ page.have # {} THEN "ok" ELSE "error"
<1>1. /\ page.closing /\ page' = [page EXCEPT !.done = d] /\ byClose' = TRUE
      /\ UNCHANGED <<server, net, disk, dropped, missed, synced, strayed, silent, redone, torn>>
  BY DEF CloseTimer
<1>2. page.mounted
  <2>1. ~page.mounted => ~page.closing BY DEF GreetingHolds, FreshPage
  <2> QED BY <1>1, <2>1
<1>3. d \in Status /\ d # "no" /\ d # "incomplete" BY DEF Status
<1> HIDE DEF d
<1>4. page \in PageType BY DEF Types
<1>5. /\ page' \in PageType /\ page'.done = d /\ page'.mounted = page.mounted
      /\ page'.known = page.known /\ page'.finished = page.finished
      /\ page'.have = page.have /\ page'.unacked = page.unacked
      /\ page'.buffered = page.buffered
      /\ page'.next = page.next /\ page'.fetch = page.fetch /\ page'.loops = page.loops
  BY <1>1, <1>3, <1>4 DEF PageType
<1>6. /\ wire' = wire /\ toServer' = toServer /\ link' = link /\ losses' = losses
      /\ failures' = failures /\ buf' = buf /\ session' = session
      /\ greeting' = greeting /\ disk' = disk /\ dropped' = dropped
      /\ missed' = missed /\ synced' = synced /\ redone' = redone /\ torn' = torn
  BY <1>1 DEF server, net
<1>7. Pending(page') = Pending(page) BY <1>5 DEF Pending
<1>8. Types' BY <1>1, <1>5, <1>6 DEF Types
<1>9. WordHolds' BY <1>5, <1>6 DEF WordHolds, True, Says, Greeting
<1>10. GreetingHolds' BY <1>2, <1>5, <1>6 DEF GreetingHolds, Inits
<1>11. AnswersHold' BY <1>5, <1>6 DEF AnswersHold, Answers, Settled
<1>12. LoopsHold' BY <1>5, <1>6, <1>7 DEF LoopsHold
<1>13. Writers(page') = Writers(page) /\ Wanted(page') = Wanted(page)
  BY <1>5 DEF Writers, Wanted
<1>14. FetchHolds' BY <1>5, <1>6, <1>13 DEF FetchHolds
<1>15. DiskHolds' BY <1>5, <1>6, <1>13 DEF DiskHolds
<1>16. Past' = Past /\ \A k : AtEnd(k)' <=> AtEnd(k)
  BY <1>6 DEF Past, AtEnd, Listening, Closed
<1>17. ASSUME NEW k
       PROVE  /\ Reported(k)' <=> Reported(k)
              /\ EndTold(k)' <=> EndTold(k)
              /\ EndKnown(k)' <=> EndKnown(k)
              /\ \A m : Reached(m, k)' <=> Reached(m, k)
  BY <1>5, <1>6 DEF Reported, EndTold, EndKnown, Reached
<1>18. ASSUME NEW k, NEW m PROVE Named(m, k)' <=> Named(m, k)
  <2>1. Tracked(page', m) <=> Tracked(page, m) BY <1>5, <1>7 DEF Tracked
  <2> QED BY <1>6, <2>1 DEF Named
<1>19. CaughtUp' BY <1>6, <1>16, <1>17 DEF CaughtUp
<1>20. NoneSkipped' BY <1>6, <1>16, <1>17, <1>18 DEF NoneSkipped
<1>21. DoneHolds' BY <1>1, <1>3, <1>5 DEF DoneHolds
<1> QED BY <1>8, <1>9, <1>10, <1>11, <1>12, <1>14, <1>15, <1>19, <1>20, <1>21

-----------------------------------------------------------------------------
(* The inductive invariant holds *)

LEMMA StutterKeeps ==
    ASSUME IInv, UNCHANGED vars
    PROVE  IInv'
<1>1. /\ wire' = wire /\ toServer' = toServer /\ link' = link /\ losses' = losses
      /\ failures' = failures /\ buf' = buf /\ session' = session
      /\ greeting' = greeting /\ disk' = disk /\ dropped' = dropped
      /\ missed' = missed /\ synced' = synced /\ redone' = redone /\ torn' = torn
      /\ byClose' = byClose /\ page' = page
  BY DEF vars, server, net, browser, history
<1> USE <1>1 DEF IInv
<1>2. Types' BY DEF Types
<1>3. WordHolds' BY DEF WordHolds, True, Says, Greeting
<1>4. GreetingHolds' BY DEF GreetingHolds, Inits
<1>5. AnswersHold' BY DEF AnswersHold, Answers, Settled
<1>6. LoopsHold' BY DEF LoopsHold
<1>7. FetchHolds' BY DEF FetchHolds
<1>8. DiskHolds' BY DEF DiskHolds
<1>9. Past' = Past /\ \A k : AtEnd(k)' <=> AtEnd(k)
  BY DEF Past, AtEnd, Listening, Closed
<1>10. ASSUME NEW k
       PROVE  /\ Reported(k)' <=> Reported(k)
              /\ EndTold(k)' <=> EndTold(k)
              /\ EndKnown(k)' <=> EndKnown(k)
              /\ \A m : Reached(m, k)' <=> Reached(m, k)
              /\ \A m : Named(m, k)' <=> Named(m, k)
  BY DEF Reported, EndTold, EndKnown, Reached, Named
<1>11. CaughtUp' BY <1>9, <1>10 DEF CaughtUp
<1>12. NoneSkipped' BY <1>9, <1>10 DEF NoneSkipped
<1>13. DoneHolds' BY DEF DoneHolds
<1> QED BY <1>2, <1>3, <1>4, <1>5, <1>6, <1>7, <1>8, <1>11, <1>12, <1>13

LEMMA InitIInv == Init => IInv
<1> SUFFICES ASSUME Init PROVE IInv OBVIOUS
<1>1. /\ buf = [EmptyBuffer EXCEPT !.expected = {Me, Other}, !.freezing = FALSE]
      /\ session = "listed"
      /\ greeting = [step |-> "none", chunks |-> {}, top |-> 0, eof |-> FALSE]
      /\ wire = <<>> /\ toServer = <<>> /\ link = "down" /\ losses = 0 /\ failures = 0
      /\ page = FreshPage /\ disk = <<>>
      /\ dropped = {} /\ ~missed /\ ~synced /\ ~redone /\ ~torn /\ ~byClose
      /\ missed \in BOOLEAN /\ synced \in BOOLEAN /\ redone \in BOOLEAN
      /\ torn \in BOOLEAN /\ byClose \in BOOLEAN
  BY DEF Init
<1>2. /\ buf \in BufferType({Me, Other}) /\ buf.chunks = {} /\ buf.top = 0 /\ ~buf.eof
  <2> DEFINE c == {Me, Other}
  <2>1. buf = [chunks |-> {}, uses |-> [i \in Index |-> 0], top |-> 0, eof |-> FALSE,
               freezing |-> FALSE, removed |-> FALSE, expected |-> c]
    BY <1>1 DEF EmptyBuffer
  <2> HIDE DEF c
  <2>2. buf \in [chunks: SUBSET Index, uses: [Index -> 0..MaxConsumers],
                 top: 0..MaxUploads, eof: BOOLEAN, freezing: BOOLEAN, removed: BOOLEAN,
                 expected: SUBSET c]
    BY <2>1, LimitsAssumption
  <2> QED BY <2>1, <2>2 DEF BufferType, c
<1>3. /\ page \in PageType /\ ~page.mounted /\ page.known = 0 /\ ~page.finished
      /\ page.have = {} /\ page.unacked = 0 /\ page.buffered = {} /\ page.next = 1
      /\ page.done = "no" /\ Pending(page) = {} /\ \A l \in Loop : page.loops[l] = {}
  BY <1>1, FreshPageHolds DEF FreshPage
<1>4. Len(wire) = 0 /\ 1..0 = {} BY <1>1
<1>5. Types
  <2>1. losses \in 0..MaxFaults /\ failures \in 0..MaxFaults
    BY <1>1, WebReceiverAssumption
  <2>2. greeting.chunks \in SUBSET Index /\ 0 \in 0..Total
    BY <1>1, LimitsAssumption DEF Total
  <2>3. wire \in Seq(Event) /\ toServer \in Seq(Index) BY <1>1
  <2> QED BY <1>1, <1>2, <1>3, <2>1, <2>2, <2>3 DEF Types
<1>6. WordHolds BY <1>1, <1>2, <1>3, <1>4 DEF WordHolds
<1>7. Inits = {} /\ Answers = {} BY <1>4 DEF Inits, Answers
<1>8. GreetingHolds BY <1>1, <1>3, <1>7 DEF GreetingHolds
<1>9. AnswersHold
  <2>1. Settled = {} BY <1>3 DEF Settled
  <2>2. Cardinality(Answers) = 0 /\ Cardinality(Settled) = 0
    BY <1>7, <2>1, FS_EmptySet
  <2>3. Len(toServer) = 0 BY <1>1
  <2> QED BY <1>3, <2>2, <2>3 DEF AnswersHold
<1>10. LoopsHold BY <1>3 DEF LoopsHold
<1>11. Writers(page) = {} /\ Wanted(page) = {}
  <2>1. \A i \in Index : page.fetch[i].st = "none" BY <1>3 DEF Pending
  <2> QED BY <2>1 DEF Writers, Wanted
<1>12. FetchHolds
  <2>1. \A i \in Index : page.fetch[i].st = "none" BY <1>3 DEF Pending
  <2> QED BY <1>1, <1>3, <1>11, <2>1 DEF FetchHolds
<1>13. DiskHolds
  <2>1. page.next - 1 = 0 BY <1>3
  <2>2. disk = InOrder(page.next - 1) BY <1>1, <2>1 DEF InOrder
  <2> QED BY <1>3, <1>11, <2>1, <2>2 DEF DiskHolds
<1>14. ~AtEnd(1) /\ \A k : ~AtEnd(k) BY <1>1 DEF AtEnd, Listening
<1>15. Past = 1 BY <1>4 DEF Past
<1>16. CaughtUp
  <2>1. \A k \in 1..Past : ~Reported(k) BY <1>1, <1>15 DEF Reported
  <2> QED BY <1>14, <2>1 DEF CaughtUp
<1>17. NoneSkipped BY <1>2 DEF NoneSkipped
<1>18. DoneHolds BY <1>1, <1>3 DEF DoneHolds
<1> QED BY <1>5, <1>6, <1>8, <1>9, <1>10, <1>12, <1>13, <1>16, <1>17, <1>18 DEF IInv

LEMMA StepIInv == IInv /\ [Next]_vars => IInv'
<1>1. ASSUME IInv, SystemStep PROVE IInv'
  <2>1. page.done = "no" BY <1>1 DEF SystemStep
  <2>2. CASE ReadConfirm BY <1>1, <2>1, <2>2, ReadConfirmKeeps
  <2>3. CASE ReadConfirmTooLate BY <1>1, <2>1, <2>3, ReadConfirmTooLateKeeps
  <2>4. CASE Connect BY <1>1, <2>1, <2>4, ConnectKeeps
  <2>5. CASE ListChunks BY <1>1, <2>1, <2>5, ListChunksKeeps
  <2>6. CASE ReadState BY <1>1, <2>1, <2>6, ReadStateKeeps
  <2>7. CASE SendStartInit BY <1>1, <2>1, <2>7, SendStartInitKeeps
  <2>8. CASE ReadEvent BY <1>1, <2>1, <2>8, ReadEventKeeps
  <2>9. CASE CloseTimer BY <1>1, <2>1, <2>9, CloseTimerKeeps
  <2>10. ASSUME NEW i \in Index, FetchStep(i) PROVE IInv'
    <3>1. CASE Serve(i) BY <1>1, <2>1, <3>1, ServeKeeps
    <3>2. CASE ServeTooLate(i) BY <1>1, <2>1, <3>2, ServeTooLateKeeps
    <3>3. CASE Arrive(i) BY <1>1, <2>1, <3>3, ArriveKeeps
    <3>4. CASE Written(i) BY <1>1, <2>1, <3>4, WrittenKeeps
    <3>5. CASE ConfirmLate(i) BY <1>1, <2>1, <3>5, ConfirmLateKeeps
    <3>6. CASE WaitTooLong(i) BY <1>1, <2>1, <3>6, WaitTooLongKeeps
    <3> QED BY <2>10, <3>1, <3>2, <3>3, <3>4, <3>5, <3>6 DEF FetchStep
  <2> QED BY <1>1, <2>2, <2>3, <2>4, <2>5, <2>6, <2>7, <2>8, <2>9, <2>10
          DEF SystemStep
<1>2. ASSUME IInv, WorldStep PROVE IInv'
  <2>1. page.done = "no" BY <1>2 DEF WorldStep
  <2>2. CASE Upload BY <1>2, <2>1, <2>2, UploadKeeps
  <2>3. CASE EndUpload BY <1>2, <2>1, <2>3, EndUploadKeeps
  <2>4. CASE EndSession BY <1>2, <2>1, <2>4, EndSessionKeeps
  <2>5. CASE Replace BY <1>2, <2>1, <2>5, ReplaceKeeps
  <2>6. CASE Break BY <1>2, <2>1, <2>6, BreakKeeps
  <2>7. CASE Reload BY <1>2, <2>1, <2>7, ReloadKeeps
  <2>8. ASSUME NEW i \in Index, OtherConfirms(i) \/ Fail(i) PROVE IInv'
    <3>1. CASE OtherConfirms(i) BY <1>2, <2>1, <3>1, OtherConfirmsKeeps
    <3>2. CASE Fail(i) BY <1>2, <2>1, <3>2, FailKeeps
    <3> QED BY <2>8, <3>1, <3>2
  <2> QED BY <1>2, <2>2, <2>3, <2>4, <2>5, <2>6, <2>7, <2>8 DEF WorldStep
<1> QED BY <1>1, <1>2, StutterKeeps DEF Next

\* The inductive invariant holds in every reachable state.
THEOREM Invariance == Spec => []IInv
BY InitIInv, StepIInv, PTL DEF Spec

-----------------------------------------------------------------------------
(* What the page promises *)

\* Types: the page never waits for more answers to its confirmations
\* (chunksConfirmed - chunksAcknowledged) than there are chunks, whatever breaks.
THEOREM TypeCorrect == Spec => []TypeOK
<1>1. ASSUME IInv PROVE TypeOK
  <2> USE <1>1 DEF IInv
  <2>1. page.unacked \in 0..Total
    <3>1. /\ IsFiniteSet(Index) /\ Cardinality(Index) = Total /\ Total \in Nat
      BY LimitsAssumption, FS_Interval DEF Index, Total
    <3>2. Settled \subseteq Index BY DEF Settled, Types, PageType
    <3>3. Cardinality(Settled) <= Total /\ Cardinality(Settled) \in Nat
      BY <3>1, <3>2, FS_Subset, FS_CardinalityType
    <3>4. Cardinality(Answers) \in Nat /\ Len(toServer) \in Nat
      BY AnswersFinite DEF Types
    <3>5. page.unacked \in Int BY DEF Types, PageType
    <3> QED BY <3>1, <3>3, <3>4, <3>5 DEF AnswersHold
  <2>2. page \in PageType BY DEF Types
  <2>3. /\ page.known \in 0..Total /\ page.done \in Status
        /\ page.have \cup page.failed \subseteq Index
        /\ \A l \in Loop : page.loops[l] \subseteq Index
    BY <2>2 DEF PageType
  <2>4. page.buffered \subseteq page.have /\ (~ToDisk => disk = <<>>) BY DEF FetchHolds
  <2> QED BY <2>1, <2>3, <2>4 DEF Types, TypeOK
<1> QED BY <1>1, Invariance, PTL

\* Whoever says ok has the whole file.
LEMMA OkHasAll ==
    ASSUME IInv, Told, ~missed, synced
    PROVE  page.have = 1..Total
<1> USE DEF IInv
<1>1. page.done = "ok" /\ ~byClose BY DEF Told
<1>2. 1..page.known \subseteq page.have /\ (page.finished \/ page.known = Total)
  BY <1>1 DEF DoneHolds
<1>3. page.finished => page.known = Total
  <2> SUFFICES ASSUME page.finished PROVE page.known = Total OBVIOUS
  <2>1. dropped = {} BY DEF GreetingHolds
  <2>2. 1 \in 1..Past /\ 1..(1 - 1) = {} BY DEF Past, Types
  <2>3. Reported(1) /\ EndTold(1) BY DEF Reported, EndTold
  <2>4. EndKnown(1) BY <2>2, <2>3 DEF CaughtUp
  <2> QED BY <2>1, <2>2, <2>4 DEF EndKnown
<1>4. page.have \subseteq 1..Total BY DEF Types, PageType, Index, Total
<1>5. page.known = Total BY <1>2, <1>3
<1>6. 1..Total \subseteq page.have BY <1>2, <1>5
<1> QED BY <1>4, <1>6

\* finalizeStrict says ok of a whole file only: whatever order the answers, the events
\* and the ends of the downloads come in, whatever breaks in between and whatever
\* the other receiver takes from the buffer.
THEOREM OkIsOfAWholeFile == Spec => []OkMeansWhole
<1>1. IInv => OkMeansWhole BY OkHasAll DEF OkMeansWhole
<1> QED BY <1>1, Invariance, PTL

\* flushChunkToDisk writes every chunk once and in order, with any number of downloads
\* at a time, however often they, and the writes of the chunks they bring, fail and
\* are tried again: as long as no chunk that has waited its turn fails to be written,
\* and none that is stored is asked for again.
THEOREM ChunksAreWrittenInOrder == Spec => []FileInOrder
<1>1. ASSUME IInv, Told, ToDisk, ~missed, synced, ~redone, ~torn
      PROVE  disk = [k \in 1..Total |-> k]
  <2>1. page.have = 1..Total BY <1>1, OkHasAll
  <2> USE <1>1 DEF IInv
  <2>2. page.next \in Nat \ {0} BY DEF Types, PageType
  <2>3. Total \in Nat BY LimitsAssumption DEF Total
  <2>4. Writers(page) = {}
    <3>1. Writers(page) \subseteq 1..Total BY DEF Writers, Index, Total
    <3>2. Writers(page) \cap page.have = {} BY DEF DiskHolds
    <3> QED BY <2>1, <3>1, <3>2
  <2>5. /\ disk = InOrder(page.next - 1) /\ page.next \notin page.buffered
        /\ 1..(page.next - 1) \subseteq page.have
        /\ page.have \subseteq 1..(page.next - 1) \cup page.buffered
    BY <2>4 DEF DiskHolds
  <2>6. page.next \notin 1..Total
    <3>1. page.next \notin 1..(page.next - 1) BY <2>2
    <3> QED BY <2>1, <2>5, <3>1
  <2>7. page.next > 1 => page.next - 1 \in 1..Total BY <2>1, <2>2, <2>5
  <2>8. page.next - 1 = Total BY <2>2, <2>3, <2>6, <2>7
  <2> QED BY <2>5, <2>8 DEF InOrder
<1>2. IInv => FileInOrder BY <1>1 DEF FileInOrder
<1> QED BY <1>2, Invariance, PTL

\* finalizeStrict refuses the file only for a chunk that cannot be had any more: no
\* chunk the server still has escapes the page's loops and handlers.
THEOREM OnlyWhatIsGoneIsGivenUp == Spec => []NothingGivenUpEarly
<1>1. ASSUME IInv, page.done = "incomplete", failures = 0, ~missed, synced,
             session = "listed"
      PROVE  \E i \in 1..page.known : i \notin page.have \cup buf.chunks
  <2> USE <1>1 DEF IInv
  <2>1. ~(1..page.known \subseteq page.have) /\ Pending(page) = {} BY DEF DoneHolds
  <2>2. PICK i \in 1..page.known : i \notin page.have BY <2>1
  <2>3. i \notin buf.chunks
    <3> SUFFICES ASSUME i \in buf.chunks PROVE FALSE OBVIOUS
    <3>1. dropped = {} BY DEF GreetingHolds
    <3>2. 1 \in 1..Past /\ 1..(1 - 1) = {} BY DEF Past, Types
    <3>3. Reported(1) /\ Reached(i, 1) BY <2>2 DEF Reported, Reached
    <3>4. Named(i, 1) BY <3>2, <3>3 DEF NoneSkipped
    <3>5. Tracked(page, i) BY <3>1, <3>2, <3>4 DEF Named
    <3>6. PICK l \in Loop : i \in page.loops[l] BY <2>1, <2>2, <3>5 DEF Tracked
    <3> QED BY <2>1, <3>6 DEF LoopsHold
  <2> QED BY <2>2, <2>3
<1>2. IInv => NothingGivenUpEarly BY <1>1 DEF NothingGivenUpEarly
<1> QED BY <1>2, Invariance, PTL
=============================================================================
