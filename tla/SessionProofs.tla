---------------------------- MODULE SessionProofs ----------------------------
(***************************************************************************)
(* Proofs about TransferSession, for any threads, receivers, queue length, *)
(* limit of consumers and number of uploads.                               *)
(***************************************************************************)
EXTENDS TransferSession, BufferLemmas

-----------------------------------------------------------------------------
(* The inductive invariant *)

Confirming == {"confirm", "confirmCount", "confirmEnd"}
Dropping == {"drop", "dropCheck", "dropCount", "dropEof"}
Removing == {"rmList", "rmConsumer", "rmSweep", "rmCheck", "rmEof", "rmCount"}
Place == Adding \cup Joining \cup Confirming \cup Dropping \cup Removing
             \cup {"idle", "eofCount", "unlist", "goneEof", "goneList", "reentered"}

Locals == [by: Client \cup {Nobody}, who: Receiver \cup {Nobody},
           kept: Receiver \cup {Nobody}, chunk: Index \cup {0}, none: BOOLEAN,
           back: {"idle", "confirm"}]

Types ==
    /\ buf \in BufferType(Receiver)
    /\ receivers \subseteq Receiver
    /\ mutex \in Thread \cup {Nobody}
    /\ named \in BOOLEAN /\ autoDrop \in BOOLEAN /\ autoFired \in BOOLEAN
    /\ completeType \in CompleteType /\ over \in CompleteType \cup {"no"}
    /\ listed \in BOOLEAN
    /\ alive \subseteq Client /\ joined \subseteq Receiver
    /\ pc \in [Thread -> Place]
    /\ local \in [Thread -> Locals]
    /\ confirmed \in [Index -> SUBSET Receiver]
    /\ loose \subseteq Index /\ late \subseteq Index /\ overtaking \subseteq Index
    /\ crossed \subseteq Receiver

\* What the place of a handler says of its locals and of the mutex.
HandlerOK(t) ==
    /\ pc[t] = "idle" => local[t] = AtRest
    /\ local[t].by # Nobody => local[t].by \in alive
    /\ local[t].kept # Nobody => local[t].kept \in alive
    /\ pc[t] \in Confirming => local[t].back = "idle"
    /\ pc[t] \in Confirming \/ local[t].back = "confirm"
           => local[t].chunk \in Index /\ local[t].by \in Client
    /\ local[t].back = "confirm" => pc[t] \in Dropping \cup {"unlist"}
    /\ pc[t] \in Joining => local[t].who \in Receiver /\ local[t].by = local[t].who
    /\ pc[t] \in {"rmList", "rmConsumer"} => local[t].who \in Receiver
    /\ pc[t] \in {"joinPush", "reentered"} <=> mutex = t

HandlersHold == \A t \in Thread : HandlerOK(t)

\* Uploads in progress have an index left.
RoomForUploads ==
    buf.top + Cardinality({u \in Thread : pc[u] \in Adding}) <= MaxUploads

\* Whoever is listed, or about to be, is a consumer, unless its removal crossed
\* its join.
Membership ==
    /\ \A t \in Thread : pc[t] = "joinPush" => local[t].who \in buf.expected \cup crossed
    /\ receivers \subseteq joined \cap (buf.expected \cup crossed)

\* With the sender there, and no handler locked out by itself, whoever is listed
\* but gone, or expected but not listed, is the business of a handler.
Stuck == \E t \in Thread : pc[t] = "reentered"
Discrepancies ==
    ~Stuck /\ Sender \in alive =>
        /\ \A c \in receivers \ alive :
               \E t \in Thread : pc[t] = "rmList" /\ local[t].who = c
        /\ \A c \in buf.expected \ receivers :
               \E t \in Thread : /\ pc[t] \in {"joinPush", "rmList", "rmConsumer"}
                                 /\ local[t].who = c

\* A handler that will end the session because nobody is left.
Abandons(t) == \/ pc[t] \in {"rmConsumer", "rmSweep", "rmCheck"} /\ local[t].none
               \/ pc[t] \in {"rmEof", "rmCount", "unlist", "dropCheck"}
AbandonmentSeen ==
    listed /\ ~buf.freezing /\ Sender \in alive /\ receivers = {}
        => \E t \in Thread : Abandons(t)

\* A handler that will end the session because everything was confirmed.
Completes(t) == \/ pc[t] = "confirmEnd" /\ local[t].none
                \/ pc[t] \in {"confirmCount", "eofCount", "dropCheck", "dropCount",
                              "dropEof", "unlist"}
CompletionSeen ==
    listed /\ buf.eof /\ buf.chunks = {} /\ drainedBy # "departure"
        => \E t \in Thread : Completes(t)

\* Who counted no chunks, or tested for the end of file, was right but for the
\* chunks that came since.
CountsHold ==
    /\ CountedNone # {} => buf.chunks \subseteq late \cup overtaking
    /\ \A t \in Thread : pc[t] \in {"eofCount", "rmCount", "goneList"} => buf.eof

OkWhenDone ==
    /\ completeType = "ok" /\ ~autoDrop
       /\ (~listed \/ \E t \in Thread : pc[t] = "unlist")
           => buf.eof /\ buf.chunks \subseteq late \cup overtaking
    /\ over # "no" => ~listed /\ Quiescent /\ over = completeType

History ==
    /\ Bounded(buf, confirmed)
    /\ Sound(buf, confirmed, loose)
    /\ \A i \in buf.chunks : confirmed[i] \subseteq buf.expected

IInv ==
    /\ Types /\ HandlersHold /\ RoomForUploads /\ Membership /\ Discrepancies
    /\ AbandonmentSeen /\ CompletionSeen /\ CountsHold /\ OkWhenDone /\ History

-----------------------------------------------------------------------------
(* What a step of one thread leaves alone *)

Moves(t) ==
    /\ pc' \in [Thread -> Place] /\ local' \in [Thread -> Locals]
    /\ \A u \in Thread \ {t} : pc'[u] = pc[u] /\ local'[u] = local[u]

LEMMA BeginMoves ==
    ASSUME Types, NEW t \in Thread, NEW s \in Place, NEW l \in Locals, Begin(t, s, l)
    PROVE  pc[t] = "idle" /\ Moves(t) /\ pc'[t] = s /\ local'[t] = l
BY DEF Types, Begin, Moves

LEMMA GoMoves ==
    ASSUME Types, NEW t \in Thread, NEW s \in Place, Go(t, s)
    PROVE  Moves(t) /\ pc'[t] = s /\ local'[t] = local[t]
BY DEF Types, Go, Moves

LEMMA GoNoneMoves ==
    ASSUME Types, NEW t \in Thread, NEW s \in Place, NEW v \in BOOLEAN,
           GoWith(t, s, "none", v)
    PROVE  /\ Moves(t) /\ pc'[t] = s
           /\ local'[t] = [local[t] EXCEPT !.none = v]
BY ZenonT(40) DEF Types, GoWith, Moves, Locals

LEMMA ForgetMoves ==
    ASSUME Types, NEW t \in Thread, NEW s \in Place, GoForget(t, s)
    PROVE  /\ Moves(t) /\ pc'[t] = s
           /\ local'[t].by = local[t].by /\ local'[t].kept = Nobody
           /\ local'[t].chunk = local[t].chunk /\ local'[t].none = local[t].none
           /\ local'[t].back = local[t].back
<1> DEFINE m == [local[t] EXCEPT !.who = Nobody, !.kept = Nobody]
<1>1. local[t] \in Locals BY DEF Types
<1>2. /\ m \in Locals /\ m.by = local[t].by /\ m.kept = Nobody
      /\ m.chunk = local[t].chunk /\ m.none = local[t].none /\ m.back = local[t].back
  BY <1>1 DEF Locals
<1>3. pc' = [pc EXCEPT ![t] = s] /\ local' = [local EXCEPT ![t] = m]
  BY DEF GoForget, Types
<1> HIDE DEF m
<1> QED BY <1>2, <1>3 DEF Types, Moves

LEMMA TakeMoves ==
    ASSUME Types, NEW t \in Thread, NEW rest, TakeFromList(t, rest)
    PROVE  /\ Moves(t) /\ pc'[t] = "rmConsumer"
           /\ local'[t].by = local[t].by /\ local'[t].who = local[t].who
           /\ local'[t].kept \in alive \cup {Nobody}
           /\ local'[t].chunk = local[t].chunk /\ local'[t].none = (rest = {})
           /\ local'[t].back = local[t].back
<1> DEFINE k == IF local[t].who \in receivers \cap alive THEN local[t].who ELSE Nobody
           n == (rest = {})
           m == [local[t] EXCEPT !.none = n, !.kept = k]
<1>1. local[t] \in Locals BY DEF Types
<1>2. k \in Receiver \cup {Nobody} /\ k \in alive \cup {Nobody} BY DEF Types
<1>3. pc' = [pc EXCEPT ![t] = "rmConsumer"] /\ local' = [local EXCEPT ![t] = m]
  BY DEF TakeFromList, Types
<1>4. n \in BOOLEAN /\ (n <=> rest = {}) OBVIOUS
<1> HIDE DEF k, n
<1>5. /\ m \in Locals /\ m.by = local[t].by /\ m.who = local[t].who /\ m.kept = k
      /\ m.chunk = local[t].chunk /\ m.none = n /\ m.back = local[t].back
  BY <1>1, <1>2, <1>4 DEF Locals
<1> HIDE DEF m
<1>6. "rmConsumer" \in Place BY DEF Place, Removing
<1>7. Moves(t) /\ pc'[t] = "rmConsumer" /\ local'[t] = m
  BY <1>3, <1>5, <1>6 DEF Types, Moves
<1> QED BY <1>2, <1>4, <1>5, <1>7 DEF n

LEMMA AtRestTyped == AtRest \in Locals
BY DEF AtRest, Locals

LEMMA FinishMoves ==
    ASSUME Types, NEW t \in Thread, Finish(t)
    PROVE  Moves(t) /\ pc'[t] = "idle" /\ local'[t] = AtRest
BY AtRestTyped DEF Types, Finish, Moves, Place

LEMMA ReturnMoves ==
    ASSUME Types, NEW t \in Thread, Return(t)
    PROVE  /\ Moves(t)
           /\ \/ /\ local[t].back = "idle"
                 /\ pc'[t] = "idle" /\ local'[t] = AtRest
              \/ /\ local[t].back = "confirm" /\ pc'[t] = "confirm"
                 /\ local'[t] = [local[t] EXCEPT !.back = "idle"]
<1>1. CASE local[t].back = "idle" BY <1>1, FinishMoves DEF Return
<1>2. CASE local[t].back # "idle"
  <2>1. local[t] \in Locals /\ local[t].back = "confirm" BY <1>2 DEF Types, Locals
  <2>2. /\ pc' = [pc EXCEPT ![t] = "confirm"]
        /\ local' = [local EXCEPT ![t] = [local[t] EXCEPT !.back = "idle"]]
    BY <1>2, <2>1 DEF Return, Types
  <2>3. [local[t] EXCEPT !.back = "idle"] \in Locals BY <2>1 DEF Locals
  <2> QED BY <2>1, <2>2, <2>3 DEF Types, Moves, Place, Confirming
<1> QED BY <1>1, <1>2

\* A thread that starts a handler, or is inside one, meets a session that has not
\* been destroyed.
LEMMA NotOver ==
    ASSUME IInv, NEW t \in Thread, listed \/ ~Quiescent \/ pc[t] # "idle"
    PROVE  over = "no"
BY DEF IInv, OkWhenDone, Quiescent

\* The others' part of HandlersHold.
LEMMA OthersHold ==
    ASSUME IInv, NEW t \in Thread, Moves(t), HandlerOK(t)',
           \A u \in Thread \ {t} :
               /\ local[u].by \in alive => local[u].by \in alive'
               /\ local[u].kept \in alive => local[u].kept \in alive'
               /\ mutex' = u <=> mutex = u
    PROVE  HandlersHold'
<1> SUFFICES ASSUME NEW u \in Thread, u # t PROVE HandlerOK(u)'
  BY DEF HandlersHold
<1>1. HandlerOK(u) BY DEF IInv, HandlersHold
<1>2. pc'[u] = pc[u] /\ local'[u] = local[u] BY DEF Moves
<1> QED BY <1>1, <1>2 DEF HandlerOK

LEMMA RoomKept ==
    ASSUME IInv, NEW t \in Thread, Moves(t), buf'.top = buf.top,
           pc'[t] \in Adding => pc[t] \in Adding
    PROVE  RoomForUploads'
<1> DEFINE A == {u \in Thread : pc[u] \in Adding}
           B == {u \in Thread : pc'[u] \in Adding}
<1>1. B \subseteq A BY DEF Moves
<1>2. IsFiniteSet(A) BY SessionAssumption, FS_Subset
<1>3. IsFiniteSet(B) /\ Cardinality(B) <= Cardinality(A) BY <1>1, <1>2, FS_Subset
<1>4. Cardinality(A) \in Nat /\ Cardinality(B) \in Nat
  BY <1>2, <1>3, FS_CardinalityType
<1>5. buf.top + Cardinality(A) <= MaxUploads BY DEF IInv, RoomForUploads
<1>6. buf.top \in Nat BY LimitsAssumption DEF IInv, Types, BufferType
<1>7. buf.top + Cardinality(B) <= MaxUploads
  BY <1>3, <1>4, <1>5, <1>6, LimitsAssumption
<1> QED BY <1>7 DEF RoomForUploads

LEMMA MembershipKept ==
    ASSUME IInv, NEW t \in Thread, Moves(t), pc'[t] # "joinPush",
           receivers' = receivers, joined' = joined, buf'.expected = buf.expected,
           crossed' = crossed
    PROVE  Membership'
BY DEF IInv, Membership, Moves

LEMMA DiscrepanciesKept ==
    ASSUME IInv, NEW t \in Thread, Moves(t),
           receivers' = receivers, buf'.expected = buf.expected,
           Sender \in alive' => alive' = alive, pc[t] # "reentered",
           pc[t] \in {"joinPush", "rmList", "rmConsumer"} =>
               pc'[t] = pc[t] /\ local'[t].who = local[t].who
    PROVE  Discrepancies'
BY DEF IInv, Discrepancies, Stuck, Moves

LEMMA AbandonmentKept ==
    ASSUME IInv, NEW t \in Thread, Moves(t),
           listed' => listed, receivers' = receivers, buf'.freezing = buf.freezing,
           alive' \subseteq alive,
           Abandons(t) /\ listed' /\ ~buf.freezing /\ receivers = {} => Abandons(t)'
    PROVE  AbandonmentSeen'
<1> SUFFICES ASSUME listed', ~buf'.freezing, Sender \in alive', receivers' = {}
             PROVE  \E u \in Thread : Abandons(u)'
  BY DEF AbandonmentSeen
<1>1. PICK u \in Thread : Abandons(u) BY DEF IInv, AbandonmentSeen
<1>2. u # t => Abandons(u)' BY <1>1 DEF Moves, Abandons
<1> QED BY <1>1, <1>2

LEMMA CompletionKept ==
    ASSUME IInv, NEW t \in Thread, Moves(t),
           listed' => listed, buf'.eof = buf.eof,
           buf'.chunks = {} => buf.chunks = {}, drainedBy' = drainedBy,
           Completes(t) /\ listed' /\ buf.eof /\ buf.chunks = {} => Completes(t)'
    PROVE  CompletionSeen'
<1> SUFFICES ASSUME listed', buf'.eof, buf'.chunks = {}, drainedBy' # "departure"
             PROVE  \E u \in Thread : Completes(u)'
  BY DEF CompletionSeen
<1>1. PICK u \in Thread : Completes(u) BY DEF IInv, CompletionSeen
<1>2. u # t => Completes(u)' BY <1>1 DEF Moves, Completes
<1> QED BY <1>1, <1>2

LEMMA CountsKept ==
    ASSUME IInv, NEW t \in Thread, Moves(t),
           buf.eof => buf'.eof, buf'.chunks \subseteq buf.chunks,
           late \subseteq late', overtaking \subseteq overtaking',
           (t \in CountedNone)' => t \in CountedNone \/ buf.chunks = {},
           pc'[t] \in {"eofCount", "rmCount", "goneList"} => buf'.eof
    PROVE  CountsHold'
<1>1. CountedNone' \subseteq CountedNone \cup {t} BY DEF CountedNone, Moves
<1>2. CountedNone' # {} => buf'.chunks \subseteq late' \cup overtaking'
  BY <1>1 DEF IInv, CountsHold
<1>3. \A u \in Thread : pc'[u] \in {"eofCount", "rmCount", "goneList"} => buf'.eof
  BY DEF IInv, CountsHold, Moves
<1> QED BY <1>2, <1>3 DEF CountsHold

LEMMA OkKept ==
    ASSUME IInv, NEW t \in Thread, Moves(t),
           over = "no", over' = over, autoDrop' = autoDrop,
           buf.eof => buf'.eof, buf'.chunks \subseteq buf.chunks,
           late \subseteq late', overtaking \subseteq overtaking',
           completeType' = "ok" /\ ~autoDrop =>
               \/ buf.eof /\ buf.chunks \subseteq late \cup overtaking
               \/ /\ completeType = "ok" /\ listed' = listed
                  /\ pc'[t] = "unlist" => pc[t] = "unlist"
    PROVE  OkWhenDone'
BY DEF IInv, OkWhenDone, Moves

\* Most steps leave the buffer, the members and the history alone and move one
\* handler on, none that adds a receiver or takes one away.
Silent(t) ==
    /\ Moves(t)
    /\ UNCHANGED <<buf, receivers, mutex, autoDrop, over, clients, history>>
    /\ named' \in BOOLEAN /\ autoFired' \in BOOLEAN
    /\ completeType' \in CompleteType /\ listed' \in BOOLEAN
    /\ listed' => listed
    /\ pc[t] \notin {"joinPush", "rmList", "rmConsumer", "reentered"}
    /\ pc'[t] # "joinPush"

\* What such a step still has to show: that it passes on what it was in charge of.
PassesOn(t) ==
    /\ Abandons(t) /\ listed' /\ ~buf.freezing /\ receivers = {} => Abandons(t)'
    /\ Completes(t) /\ listed' /\ buf.eof /\ buf.chunks = {} => Completes(t)'
    /\ (t \in CountedNone)' => t \in CountedNone \/ buf.chunks = {}
    /\ pc'[t] \in {"eofCount", "rmCount", "goneList"} => buf.eof
    /\ completeType' = "ok" /\ ~autoDrop =>
           \/ buf.eof /\ buf.chunks \subseteq late \cup overtaking
           \/ /\ completeType = "ok" /\ listed' = listed
              /\ pc'[t] = "unlist" => pc[t] = "unlist"

LEMMA SilentKeeps ==
    ASSUME IInv, NEW t \in Thread, Silent(t), PassesOn(t),
           HandlerOK(t)', RoomForUploads', over = "no"
    PROVE  IInv'
<1>1. /\ Moves(t) /\ UNCHANGED <<buf, receivers, mutex, autoDrop, over, alive, joined>>
      /\ UNCHANGED <<confirmed, loose, late, overtaking, crossed, drainedBy>>
  BY DEF Silent, clients, history
<1>2. Types' BY <1>1 DEF IInv, Types, Silent, Moves
<1>3. HandlersHold' BY <1>1, OthersHold DEF Silent, IInv, HandlersHold, HandlerOK
<1>4. Membership' BY <1>1, MembershipKept DEF Silent, Joining
<1>5. Discrepancies' BY <1>1, DiscrepanciesKept DEF Silent, Joining
<1>6. AbandonmentSeen' BY <1>1, AbandonmentKept DEF Silent, PassesOn
<1>7. CompletionSeen' BY <1>1, CompletionKept DEF Silent, PassesOn
<1>8. CountsHold' BY <1>1, CountsKept DEF PassesOn
<1>9. OkWhenDone' BY <1>1, OkKept DEF PassesOn
<1>10. History' BY <1>1 DEF IInv, History
<1> QED
  BY <1>2, <1>3, <1>4, <1>5, <1>6, <1>7, <1>8, <1>9, <1>10 DEF IInv

-----------------------------------------------------------------------------
(* The silent steps *)

LEMMA StartAddChunkKeeps ==
    ASSUME IInv, NEW t \in Thread, StartAddChunk(t)
    PROVE  IInv'
<1> DEFINE l == [AtRest EXCEPT !.by = Sender]
<1>1. /\ listed /\ Sender \in alive /\ Begin(t, "addTest", l)
      /\ buf.top + Cardinality({u \in Thread : pc[u] \in Adding}) < MaxUploads
      /\ UNCHANGED <<buf, session, ending, clients, history>>
  BY DEF StartAddChunk
<1>2. /\ l \in Locals /\ l.by = Sender /\ l.who = Nobody /\ l.chunk = 0
      /\ l.kept = Nobody /\ l.back = "idle"
  BY DEF AtRest, Locals, Client
<1> HIDE DEF l
<1>3. pc[t] = "idle" /\ Moves(t) /\ pc'[t] = "addTest" /\ local'[t] = l
  BY <1>1, <1>2, BeginMoves DEF IInv, Place, Adding
<1>4. HandlerOK(t)'
  BY <1>1, <1>2, <1>3, SessionAssumption
  DEF IInv, HandlersHold, HandlerOK, Confirming, Joining, Removing, session, clients
<1>5. RoomForUploads'
  <2> DEFINE A == {u \in Thread : pc[u] \in Adding}
             B == {u \in Thread : pc'[u] \in Adding}
  <2>1. B = A \cup {t} BY <1>3 DEF Moves, Adding
  <2>2. IsFiniteSet(A) BY SessionAssumption, FS_Subset
  <2>3. /\ Cardinality(B) \in Nat /\ Cardinality(A) \in Nat
        /\ Cardinality(B) <= Cardinality(A) + 1
    BY <2>1, <2>2, OneMore, FS_CardinalityType
  <2>4. buf.top \in Nat BY LimitsAssumption DEF IInv, Types, BufferType
  <2>5. buf.top + Cardinality(B) <= MaxUploads
    BY <1>1, <2>3, <2>4, LimitsAssumption
  <2> QED BY <1>1, <2>5 DEF RoomForUploads
<1>6. Silent(t)
  BY <1>1, <1>3 DEF Silent, session, ending, IInv, Types, Joining, Removing
<1>7. PassesOn(t) /\ over = "no"
  BY <1>1, <1>3, NotOver
  DEF PassesOn, Abandons, Completes, CountedNone, ending
<1> QED BY <1>4, <1>5, <1>6, <1>7, SilentKeeps

LEMMA AddTestEndOfFileKeeps ==
    ASSUME IInv, NEW t \in Thread, AddTestEndOfFile(t)
    PROVE  IInv'
<1>1. /\ pc[t] = "addTest" /\ UNCHANGED <<buf, session, ending, clients, history>>
      /\ Finish(t) \/ Go(t, "addInsert")
  BY DEF AddTestEndOfFile
<1>2. /\ Moves(t)
      /\ \/ pc'[t] = "idle" /\ local'[t] = AtRest
         \/ pc'[t] = "addInsert" /\ local'[t] = local[t]
  BY <1>1, FinishMoves, GoMoves DEF IInv, Place, Adding
<1>3. HandlerOK(t)'
  BY <1>1, <1>2
  DEF IInv, HandlersHold, HandlerOK, Confirming, Joining, Removing, Dropping,
      session, clients, AtRest
<1>4. RoomForUploads' BY <1>1, <1>2, RoomKept DEF Adding
<1>5. Silent(t)
  BY <1>1, <1>2 DEF Silent, session, ending, IInv, Types, Joining, Removing
<1>6. PassesOn(t) /\ over = "no"
  BY <1>1, <1>2, NotOver
  DEF PassesOn, Abandons, Completes, CountedNone, ending
<1> QED BY <1>3, <1>4, <1>5, <1>6, SilentKeeps

LEMMA StartConfirmKeeps ==
    ASSUME IInv, NEW t \in Thread, NEW c \in Client, NEW i \in Index,
           StartConfirm(t, c, i)
    PROVE  IInv'
<1> DEFINE l == [AtRest EXCEPT !.by = c, !.chunk = i]
           m == [l EXCEPT !.back = "confirm"]
<1>1. /\ listed /\ c \in alive \cap (joined \cup {Sender})
      /\ autoFired' \in BOOLEAN
      /\ Begin(t, "drop", m) \/ Begin(t, "confirm", l)
      /\ UNCHANGED <<buf, receivers, mutex, named, autoDrop, ending, clients, history>>
  BY DEF StartConfirm, IInv, Types
<1>2. /\ l \in Locals /\ l.by = c /\ l.who = Nobody /\ l.chunk = i
      /\ l.kept = Nobody /\ l.back = "idle"
      /\ m \in Locals /\ m.by = c /\ m.who = Nobody /\ m.chunk = i
      /\ m.kept = Nobody /\ m.back = "confirm"
  BY DEF AtRest, Locals
<1> HIDE DEF l, m
<1>3. /\ pc[t] = "idle" /\ Moves(t)
      /\ \/ pc'[t] = "drop" /\ local'[t] = m
         \/ pc'[t] = "confirm" /\ local'[t] = l
  BY <1>1, <1>2, BeginMoves DEF IInv, Place, Confirming, Dropping
<1>4. HandlerOK(t)'
  BY <1>1, <1>2, <1>3
  DEF IInv, HandlersHold, HandlerOK, Confirming, Joining, Removing, Dropping, clients
<1>5. RoomForUploads' BY <1>1, <1>3, RoomKept DEF Adding
<1>6. Silent(t)
  BY <1>1, <1>3 DEF Silent, ending, IInv, Types, Joining, Removing
<1>7. PassesOn(t) /\ over = "no"
  BY <1>1, <1>3, NotOver
  DEF PassesOn, Abandons, Completes, CountedNone, ending
<1> QED BY <1>4, <1>5, <1>6, <1>7, SilentKeeps

LEMMA ConfirmCountKeeps ==
    ASSUME IInv, NEW t \in Thread, ConfirmCount(t)
    PROVE  IInv'
<1>1. /\ pc[t] = "confirmCount"
      /\ GoWith(t, "confirmEnd", "none", buf.chunks = {})
      /\ UNCHANGED <<buf, session, ending, clients, history>>
  BY DEF ConfirmCount
<1>2. /\ Moves(t) /\ pc'[t] = "confirmEnd"
      /\ local'[t] = [local[t] EXCEPT !.none = (buf.chunks = {})]
  BY <1>1, GoNoneMoves DEF IInv, Place, Confirming
<1>3. /\ local'[t].by = local[t].by /\ local'[t].who = local[t].who
      /\ local'[t].chunk = local[t].chunk /\ local'[t].back = local[t].back
      /\ local'[t].none = (buf.chunks = {})
  BY <1>2 DEF IInv, Types, Locals
<1>4. HandlerOK(t)'
  BY <1>1, <1>2, <1>3
  DEF IInv, HandlersHold, HandlerOK, Confirming, Joining, Removing, Dropping,
      session, clients
<1>5. RoomForUploads' BY <1>1, <1>2, RoomKept DEF Adding
<1>6. Silent(t)
  BY <1>1, <1>2 DEF Silent, session, ending, IInv, Types, Joining, Removing
<1>7. PassesOn(t) /\ over = "no"
  BY <1>1, <1>2, <1>3, NotOver
  DEF PassesOn, Abandons, Completes, CountedNone, ending
<1> QED BY <1>4, <1>5, <1>6, <1>7, SilentKeeps

\* Unlist returns from the handler, which may be a drop nested in a confirmation.
LEMMA UnlistMoves ==
    ASSUME IInv, NEW t \in Thread, Unlist(t)
    PROVE  /\ Moves(t) /\ listed' = FALSE /\ completeType' = completeType /\ over' = over
           /\ \/ /\ local[t].back = "idle"
                 /\ pc'[t] = "idle" /\ local'[t] = AtRest
              \/ /\ local[t].back = "confirm" /\ pc'[t] = "confirm"
                 /\ local'[t] = [local[t] EXCEPT !.back = "idle"]
BY ReturnMoves DEF Unlist, IInv

\* A handler that comes to rest, or returns to its confirmation, is in order.
LEMMA ReturnedOK ==
    ASSUME IInv, NEW t \in Thread, pc[t] \notin {"joinPush", "reentered"}, Moves(t),
           UNCHANGED <<mutex, alive, joined>>,
           \/ pc'[t] = "idle" /\ local'[t] = AtRest
           \/ /\ local[t].back = "confirm" /\ pc'[t] = "confirm"
              /\ local'[t] = [local[t] EXCEPT !.back = "idle"]
    PROVE  HandlerOK(t)'
<1>1. CASE pc'[t] = "idle" /\ local'[t] = AtRest
  BY <1>1 DEF IInv, HandlersHold, HandlerOK, AtRest, Confirming, Joining, Removing
<1>2. CASE /\ local[t].back = "confirm" /\ pc'[t] = "confirm"
           /\ local'[t] = [local[t] EXCEPT !.back = "idle"]
  <2>1. /\ local'[t].by = local[t].by /\ local'[t].chunk = local[t].chunk
        /\ local'[t].back = "idle"
    BY <1>2 DEF IInv, Types, Locals
  <2> QED
    BY <1>2, <2>1
    DEF IInv, HandlersHold, HandlerOK, Confirming, Joining, Removing
<1> QED BY <1>1, <1>2

\* The count of no chunks still holds when the end of file is tested.
LEMMA ConfirmEndKeeps ==
    ASSUME IInv, NEW t \in Thread, ConfirmEnd(t)
    PROVE  IInv'
<1>1. pc[t] = "confirmEnd" /\ UNCHANGED <<buf, session, clients, history>>
  BY DEF ConfirmEnd
<1>2. /\ Moves(t) /\ pc'[t] = "idle" /\ local'[t] = AtRest
      /\ completeType' = completeType /\ over' = over
      /\ listed' \in BOOLEAN /\ (listed' => listed)
      /\ local[t].none /\ buf.eof => ~listed'
      /\ ~(local[t].none /\ buf.eof) => listed' = listed
  <2>1. CASE local[t].none /\ buf.eof
    <3>1. Unlist(t) BY <2>1 DEF ConfirmEnd
    <3>2. local[t].back # "confirm"
      BY <1>1 DEF IInv, HandlersHold, HandlerOK, Confirming
    <3> QED BY <2>1, <3>1, <3>2, UnlistMoves
  <2>2. CASE ~(local[t].none /\ buf.eof)
    <3>1. Finish(t) /\ UNCHANGED ending BY <2>2 DEF ConfirmEnd
    <3> QED BY <2>2, <3>1, FinishMoves DEF ending, IInv, Types
  <2> QED BY <2>1, <2>2
<1>3. HandlerOK(t)' BY <1>1, <1>2, ReturnedOK DEF session, clients
<1>4. RoomForUploads' BY <1>1, <1>2, RoomKept DEF Adding
<1>5. Silent(t)
  BY <1>1, <1>2 DEF Silent, session, IInv, Types, Joining, Removing
<1>6. PassesOn(t) /\ over = "no"
  BY <1>1, <1>2, NotOver
  DEF PassesOn, Abandons, Completes, CountedNone, IInv, CountsHold
<1> QED BY <1>3, <1>4, <1>5, <1>6, SilentKeeps

LEMMA EndOfFileCountKeeps ==
    ASSUME IInv, NEW t \in Thread, EndOfFileCount(t)
    PROVE  IInv'
<1>1. pc[t] = "eofCount" /\ UNCHANGED <<buf, session, clients, history>>
  BY DEF EndOfFileCount
<1>2. /\ Moves(t) /\ pc'[t] = "idle" /\ local'[t] = AtRest
      /\ completeType' = completeType /\ over' = over
      /\ listed' \in BOOLEAN /\ (listed' => listed)
      /\ buf.chunks = {} => ~listed'
      /\ buf.chunks # {} => listed' = listed
  <2>1. CASE buf.chunks = {}
    <3>1. Unlist(t) BY <2>1 DEF EndOfFileCount
    <3>2. local[t].back # "confirm"
      BY <1>1 DEF IInv, HandlersHold, HandlerOK, Dropping
    <3> QED BY <2>1, <3>1, <3>2, UnlistMoves
  <2>2. CASE buf.chunks # {}
    <3>1. Finish(t) /\ UNCHANGED ending BY <2>2 DEF EndOfFileCount
    <3> QED BY <2>2, <3>1, FinishMoves DEF ending, IInv, Types
  <2> QED BY <2>1, <2>2
<1>3. HandlerOK(t)' BY <1>1, <1>2, ReturnedOK DEF session, clients
<1>4. RoomForUploads' BY <1>1, <1>2, RoomKept DEF Adding
<1>5. Silent(t)
  BY <1>1, <1>2 DEF Silent, session, IInv, Types, Joining, Removing
<1>6. PassesOn(t) /\ over = "no"
  BY <1>1, <1>2, NotOver
  DEF PassesOn, Abandons, Completes, CountedNone, IInv, CountsHold
<1> QED BY <1>3, <1>4, <1>5, <1>6, SilentKeeps

\* DropCount and DropTestEndOfFile go back to the confirmation they are nested in
\* when the session does not end.
LEMMA DropCountKeeps ==
    ASSUME IInv, NEW t \in Thread, DropCount(t)
    PROVE  IInv'
<1>1. /\ pc[t] = "dropCount" /\ UNCHANGED <<buf, session, ending, clients, history>>
      /\ (buf.chunks = {} /\ Go(t, "dropEof")) \/ (buf.chunks # {} /\ Return(t))
  BY DEF DropCount
<1>2. CASE buf.chunks = {} /\ Go(t, "dropEof")
  <2>1. Moves(t) /\ pc'[t] = "dropEof" /\ local'[t] = local[t]
    BY <1>2, GoMoves DEF IInv, Place, Dropping
  <2>2. HandlerOK(t)'
    BY <1>1, <2>1
    DEF IInv, HandlersHold, HandlerOK, Confirming, Joining, Removing, Dropping,
        session, clients
  <2>3. RoomForUploads' BY <1>1, <2>1, RoomKept DEF Adding
  <2>4. Silent(t)
    BY <1>1, <2>1 DEF Silent, session, ending, IInv, Types, Joining, Removing
  <2>5. PassesOn(t) /\ over = "no"
    BY <1>1, <1>2, <2>1, NotOver DEF PassesOn, Abandons, Completes, CountedNone, ending
  <2> QED BY <2>2, <2>3, <2>4, <2>5, SilentKeeps
<1>3. CASE buf.chunks # {} /\ Return(t)
  <2>1. /\ Moves(t)
        /\ \/ pc'[t] = "idle" /\ local'[t] = AtRest
           \/ /\ local[t].back = "confirm" /\ pc'[t] = "confirm"
              /\ local'[t] = [local[t] EXCEPT !.back = "idle"]
    BY <1>3, ReturnMoves DEF IInv
  <2>2. HandlerOK(t)' BY <1>1, <2>1, ReturnedOK DEF session, clients
  <2>3. RoomForUploads' BY <1>1, <2>1, RoomKept DEF Adding
  <2>4. Silent(t)
    BY <1>1, <2>1 DEF Silent, session, ending, IInv, Types, Joining, Removing
  <2>5. PassesOn(t) /\ over = "no"
    BY <1>1, <1>3, <2>1, NotOver DEF PassesOn, Abandons, Completes, CountedNone, ending
  <2> QED BY <2>2, <2>3, <2>4, <2>5, SilentKeeps
<1> QED BY <1>1, <1>2, <1>3

LEMMA DropTestEndOfFileKeeps ==
    ASSUME IInv, NEW t \in Thread, DropTestEndOfFile(t)
    PROVE  IInv'
<1>1. pc[t] = "dropEof" /\ UNCHANGED <<buf, session, clients, history>>
  BY DEF DropTestEndOfFile
<1>2. /\ Moves(t) /\ completeType' = completeType /\ over' = over
      /\ \/ pc'[t] = "idle" /\ local'[t] = AtRest
         \/ /\ local[t].back = "confirm" /\ pc'[t] = "confirm"
            /\ local'[t] = [local[t] EXCEPT !.back = "idle"]
      /\ listed' \in BOOLEAN /\ (listed' => listed)
      /\ buf.eof => ~listed'
      /\ ~buf.eof => listed' = listed
  <2>1. CASE buf.eof
    <3>1. Unlist(t) BY <2>1 DEF DropTestEndOfFile
    <3> QED BY <2>1, <3>1, UnlistMoves
  <2>2. CASE ~buf.eof
    <3>1. Return(t) /\ UNCHANGED ending BY <2>2 DEF DropTestEndOfFile
    <3> QED BY <2>2, <3>1, ReturnMoves DEF ending, IInv, Types
  <2> QED BY <2>1, <2>2
<1>3. HandlerOK(t)' BY <1>1, <1>2, ReturnedOK DEF session, clients
<1>4. RoomForUploads' BY <1>1, <1>2, RoomKept DEF Adding
<1>5. Silent(t)
  BY <1>1, <1>2 DEF Silent, session, IInv, Types, Joining, Removing
<1>6. PassesOn(t) /\ over = "no"
  BY <1>1, <1>2, NotOver
  DEF PassesOn, Abandons, Completes, CountedNone, IInv, CountsHold
<1> QED BY <1>3, <1>4, <1>5, <1>6, SilentKeeps

LEMMA UnlistStepKeeps ==
    ASSUME IInv, NEW t \in Thread, UnlistStep(t)
    PROVE  IInv'
<1>1. /\ pc[t] = "unlist" /\ Unlist(t) /\ UNCHANGED <<buf, session, clients, history>>
  BY DEF UnlistStep
<1>2. /\ Moves(t) /\ completeType' = completeType /\ over' = over /\ listed' = FALSE
      /\ \/ pc'[t] = "idle" /\ local'[t] = AtRest
         \/ /\ local[t].back = "confirm" /\ pc'[t] = "confirm"
            /\ local'[t] = [local[t] EXCEPT !.back = "idle"]
  BY <1>1, UnlistMoves
<1>3. HandlerOK(t)' BY <1>1, <1>2, ReturnedOK DEF session, clients
<1>4. RoomForUploads' BY <1>1, <1>2, RoomKept DEF Adding
<1>5. Silent(t)
  BY <1>1, <1>2 DEF Silent, session, IInv, Types, Joining, Removing
<1>6. PassesOn(t) /\ over = "no"
  BY <1>1, <1>2, NotOver
  DEF PassesOn, Abandons, Completes, CountedNone, IInv, OkWhenDone
<1> QED BY <1>3, <1>4, <1>5, <1>6, SilentKeeps

LEMMA StartDropBySenderKeeps ==
    ASSUME IInv, NEW t \in Thread, StartDropBySender(t)
    PROVE  IInv'
<1> DEFINE l == [AtRest EXCEPT !.by = Sender]
<1>1. /\ listed /\ Sender \in alive
      /\ Begin(t, "drop", l)
      /\ UNCHANGED <<buf, session, ending, clients, history>>
  BY DEF StartDropBySender
<1>2. /\ l \in Locals /\ l.by = Sender /\ l.who = Nobody /\ l.kept = Nobody /\ l.back = "idle"
  BY DEF AtRest, Locals, Client
<1> HIDE DEF l
<1>3. pc[t] = "idle" /\ Moves(t) /\ pc'[t] = "drop" /\ local'[t] = l
  BY <1>1, <1>2, BeginMoves DEF IInv, Place, Dropping
<1>4. HandlerOK(t)'
  BY <1>1, <1>2, <1>3, SessionAssumption
  DEF IInv, HandlersHold, HandlerOK, Confirming, Joining, Removing, Dropping,
      Membership, session, clients
<1>5. RoomForUploads' BY <1>1, <1>3, RoomKept DEF Adding
<1>6. Silent(t)
  BY <1>1, <1>3
  DEF Silent, session, ending, IInv, Types, Joining, Removing, CompleteType
<1>7. PassesOn(t) /\ over = "no"
  BY <1>1, <1>3, NotOver DEF PassesOn, Abandons, Completes, CountedNone, ending
<1> QED BY <1>4, <1>5, <1>6, <1>7, SilentKeeps

LEMMA StartDropByTimerKeeps ==
    ASSUME IInv, NEW t \in Thread, StartDropByTimer(t)
    PROVE  IInv'
<1> DEFINE l == AtRest
<1>1. /\ listed \/ ~Quiescent
      /\ Begin(t, "drop", l)
      /\ UNCHANGED <<buf, session, ending, clients, history>>
  BY DEF StartDropByTimer
<1>2. /\ l \in Locals /\ l.by = Nobody /\ l.who = Nobody /\ l.kept = Nobody /\ l.back = "idle"
  BY DEF AtRest, Locals, Client
<1> HIDE DEF l
<1>3. pc[t] = "idle" /\ Moves(t) /\ pc'[t] = "drop" /\ local'[t] = l
  BY <1>1, <1>2, BeginMoves DEF IInv, Place, Dropping
<1>4. HandlerOK(t)'
  BY <1>1, <1>2, <1>3, SessionAssumption
  DEF IInv, HandlersHold, HandlerOK, Confirming, Joining, Removing, Dropping,
      Membership, session, clients
<1>5. RoomForUploads' BY <1>1, <1>3, RoomKept DEF Adding
<1>6. Silent(t)
  BY <1>1, <1>3
  DEF Silent, session, ending, IInv, Types, Joining, Removing, CompleteType
<1>7. PassesOn(t) /\ over = "no"
  BY <1>1, <1>3, NotOver DEF PassesOn, Abandons, Completes, CountedNone, ending
<1> QED BY <1>4, <1>5, <1>6, <1>7, SilentKeeps

LEMMA StartKickKeeps ==
    ASSUME IInv, NEW t \in Thread, NEW c \in Receiver, StartKick(t, c)
    PROVE  IInv'
<1> DEFINE l == [AtRest EXCEPT !.by = Sender, !.who = c]
<1>1. /\ listed /\ Sender \in alive
      /\ Begin(t, "rmList", l)
      /\ UNCHANGED <<buf, session, ending, clients, history>>
  BY DEF StartKick
<1>2. /\ l \in Locals /\ l.by = Sender /\ l.who = c /\ l.kept = Nobody /\ l.back = "idle"
  BY DEF AtRest, Locals, Client
<1> HIDE DEF l
<1>3. pc[t] = "idle" /\ Moves(t) /\ pc'[t] = "rmList" /\ local'[t] = l
  BY <1>1, <1>2, BeginMoves DEF IInv, Place, Removing
<1>4. HandlerOK(t)'
  BY <1>1, <1>2, <1>3, SessionAssumption
  DEF IInv, HandlersHold, HandlerOK, Confirming, Joining, Removing, Dropping,
      Membership, session, clients
<1>5. RoomForUploads' BY <1>1, <1>3, RoomKept DEF Adding
<1>6. Silent(t)
  BY <1>1, <1>3
  DEF Silent, session, ending, IInv, Types, Joining, Removing, CompleteType
<1>7. PassesOn(t) /\ over = "no"
  BY <1>1, <1>3, NotOver DEF PassesOn, Abandons, Completes, CountedNone, ending
<1> QED BY <1>4, <1>5, <1>6, <1>7, SilentKeeps

LEMMA TerminateKeeps ==
    ASSUME IInv, NEW t \in Thread, Terminate(t)
    PROVE  IInv'
<1> DEFINE l == [AtRest EXCEPT !.by = Sender]
<1>1. /\ listed /\ Sender \in alive
      /\ Begin(t, "unlist", l)
      /\ UNCHANGED <<buf, session, listed, over, clients, history>> /\ completeType' = "senderIsGone"
  BY DEF Terminate
<1>2. /\ l \in Locals /\ l.by = Sender /\ l.who = Nobody /\ l.kept = Nobody /\ l.back = "idle"
  BY DEF AtRest, Locals, Client
<1> HIDE DEF l
<1>3. pc[t] = "idle" /\ Moves(t) /\ pc'[t] = "unlist" /\ local'[t] = l
  BY <1>1, <1>2, BeginMoves DEF IInv, Place, Dropping
<1>4. HandlerOK(t)'
  BY <1>1, <1>2, <1>3, SessionAssumption
  DEF IInv, HandlersHold, HandlerOK, Confirming, Joining, Removing, Dropping,
      Membership, session, clients
<1>5. RoomForUploads' BY <1>1, <1>3, RoomKept DEF Adding
<1>6. Silent(t)
  BY <1>1, <1>3
  DEF Silent, session, ending, IInv, Types, Joining, Removing, CompleteType
<1>7. PassesOn(t) /\ over = "no"
  BY <1>1, <1>3, NotOver DEF PassesOn, Abandons, Completes, CountedNone, ending
<1> QED BY <1>4, <1>5, <1>6, <1>7, SilentKeeps

LEMMA SetTimedoutKeeps ==
    ASSUME IInv, NEW t \in Thread, SetTimedout(t)
    PROVE  IInv'
<1> DEFINE l == AtRest
<1>1. /\ listed
      /\ Begin(t, "unlist", l)
      /\ UNCHANGED <<buf, session, listed, over, clients, history>> /\ completeType' = "timeout"
  BY DEF SetTimedout
<1>2. /\ l \in Locals /\ l.by = Nobody /\ l.who = Nobody /\ l.kept = Nobody /\ l.back = "idle"
  BY DEF AtRest, Locals, Client
<1> HIDE DEF l
<1>3. pc[t] = "idle" /\ Moves(t) /\ pc'[t] = "unlist" /\ local'[t] = l
  BY <1>1, <1>2, BeginMoves DEF IInv, Place, Dropping
<1>4. HandlerOK(t)'
  BY <1>1, <1>2, <1>3, SessionAssumption
  DEF IInv, HandlersHold, HandlerOK, Confirming, Joining, Removing, Dropping,
      Membership, session, clients
<1>5. RoomForUploads' BY <1>1, <1>3, RoomKept DEF Adding
<1>6. Silent(t)
  BY <1>1, <1>3
  DEF Silent, session, ending, IInv, Types, Joining, Removing, CompleteType
<1>7. PassesOn(t) /\ over = "no"
  BY <1>1, <1>3, NotOver DEF PassesOn, Abandons, Completes, CountedNone, ending
<1> QED BY <1>4, <1>5, <1>6, <1>7, SilentKeeps

LEMMA DropCheckReceiversKeeps ==
    ASSUME IInv, NEW t \in Thread, DropCheckReceivers(t)
    PROVE  IInv'
<1>1. /\ pc[t] = "dropCheck" /\ UNCHANGED <<buf, session, listed, over, clients, history>>
      /\ \/ receivers # {} /\ Go(t, "dropCount") /\ completeType' = completeType
         \/ receivers = {} /\ Go(t, "unlist") /\ completeType' = "noReceivers"
         \/ receivers # {} /\ Go(t, "unlist") /\ completeType' = "senderIsGone"
  BY DEF DropCheckReceivers
<1>2. /\ Moves(t)
      /\ \/ receivers # {} /\ pc'[t] = "dropCount" /\ local'[t] = local[t] /\ completeType' = completeType
         \/ receivers = {} /\ pc'[t] = "unlist" /\ local'[t] = local[t] /\ completeType' = "noReceivers"
         \/ receivers # {} /\ pc'[t] = "unlist" /\ local'[t] = local[t] /\ completeType' = "senderIsGone"
  BY <1>1, GoMoves, FinishMoves DEF IInv, Place, Removing, Dropping
<1>3. HandlerOK(t)'
  BY <1>1, <1>2
  DEF IInv, HandlersHold, HandlerOK, Confirming, Joining, Removing, Dropping,
      session, clients, AtRest
<1>4. RoomForUploads' BY <1>1, <1>2, RoomKept DEF Adding
<1>5. Silent(t)
  BY <1>1, <1>2
  DEF Silent, session, IInv, Types, Joining, Removing, CompleteType
<1>6. PassesOn(t) /\ over = "no"
  BY <1>1, <1>2, NotOver
  DEF PassesOn, Abandons, Completes, CountedNone, IInv, CountsHold
<1> QED BY <1>3, <1>4, <1>5, <1>6, SilentKeeps

LEMMA RemoveCheckKeeps ==
    ASSUME IInv, NEW t \in Thread, RemoveCheck(t)
    PROVE  IInv'
<1>1. /\ pc[t] = "rmCheck" /\ UNCHANGED <<buf, session, listed, over, clients, history>>
      /\ \/ local[t].none /\ autoDrop /\ Go(t, "unlist") /\ completeType' = "ok"
         \/ local[t].none /\ ~buf.freezing /\ Go(t, "rmEof") /\ completeType' = completeType
         \/ local[t].none /\ buf.removed /\ Go(t, "rmEof") /\ completeType' = completeType
         \/ ~(local[t].none /\ ~buf.freezing) /\ Finish(t) /\ completeType' = completeType
  BY DEF RemoveCheck
<1>2. /\ Moves(t)
      /\ \/ local[t].none /\ autoDrop /\ pc'[t] = "unlist" /\ local'[t] = local[t] /\ completeType' = "ok"
         \/ local[t].none /\ ~buf.freezing /\ pc'[t] = "rmEof" /\ local'[t] = local[t] /\ completeType' = completeType
         \/ local[t].none /\ buf.removed /\ pc'[t] = "rmEof" /\ local'[t] = local[t] /\ completeType' = completeType
         \/ ~(local[t].none /\ ~buf.freezing) /\ pc'[t] = "idle" /\ local'[t] = AtRest /\ completeType' = completeType
  BY <1>1, GoMoves, FinishMoves DEF IInv, Place, Removing, Dropping
<1>3. HandlerOK(t)'
  BY <1>1, <1>2
  DEF IInv, HandlersHold, HandlerOK, Confirming, Joining, Removing, Dropping,
      session, clients, AtRest
<1>4. RoomForUploads' BY <1>1, <1>2, RoomKept DEF Adding
<1>5. Silent(t)
  BY <1>1, <1>2
  DEF Silent, session, IInv, Types, Joining, Removing, CompleteType
<1>6. PassesOn(t) /\ over = "no"
  BY <1>1, <1>2, NotOver
  DEF PassesOn, Abandons, Completes, CountedNone, IInv, CountsHold
<1> QED BY <1>3, <1>4, <1>5, <1>6, SilentKeeps

LEMMA RemoveTestEndOfFileKeeps ==
    ASSUME IInv, NEW t \in Thread, RemoveTestEndOfFile(t)
    PROVE  IInv'
<1>1. /\ pc[t] = "rmEof" /\ UNCHANGED <<buf, session, listed, over, clients, history>>
      /\ \/ buf.eof /\ Go(t, "rmCount") /\ completeType' = completeType
         \/ Go(t, "unlist") /\ completeType' = "noReceivers"
  BY DEF RemoveTestEndOfFile
<1>2. /\ Moves(t)
      /\ \/ buf.eof /\ pc'[t] = "rmCount" /\ local'[t] = local[t] /\ completeType' = completeType
         \/ pc'[t] = "unlist" /\ local'[t] = local[t] /\ completeType' = "noReceivers"
  BY <1>1, GoMoves, FinishMoves DEF IInv, Place, Removing, Dropping
<1>3. HandlerOK(t)'
  BY <1>1, <1>2
  DEF IInv, HandlersHold, HandlerOK, Confirming, Joining, Removing, Dropping,
      session, clients, AtRest
<1>4. RoomForUploads' BY <1>1, <1>2, RoomKept DEF Adding
<1>5. Silent(t)
  BY <1>1, <1>2
  DEF Silent, session, IInv, Types, Joining, Removing, CompleteType
<1>6. PassesOn(t) /\ over = "no"
  BY <1>1, <1>2, NotOver
  DEF PassesOn, Abandons, Completes, CountedNone, IInv, CountsHold
<1> QED BY <1>3, <1>4, <1>5, <1>6, SilentKeeps

\* "ok" is written at an empty buffer only, after the end of file.
LEMMA RemoveCountKeeps ==
    ASSUME IInv, NEW t \in Thread, RemoveCount(t)
    PROVE  IInv'
<1>1. /\ pc[t] = "rmCount" /\ UNCHANGED <<buf, session, listed, over, clients, history>>
      /\ \/ buf.chunks = {} /\ Go(t, "unlist") /\ completeType' = "ok"
         \/ Go(t, "unlist") /\ completeType' = "noReceivers"
  BY DEF RemoveCount
<1>2. /\ Moves(t)
      /\ \/ buf.chunks = {} /\ pc'[t] = "unlist" /\ local'[t] = local[t] /\ completeType' = "ok"
         \/ pc'[t] = "unlist" /\ local'[t] = local[t] /\ completeType' = "noReceivers"
  BY <1>1, GoMoves, FinishMoves DEF IInv, Place, Removing, Dropping
<1>3. HandlerOK(t)'
  BY <1>1, <1>2
  DEF IInv, HandlersHold, HandlerOK, Confirming, Joining, Removing, Dropping,
      session, clients, AtRest
<1>4. RoomForUploads' BY <1>1, <1>2, RoomKept DEF Adding
<1>5. Silent(t)
  BY <1>1, <1>2
  DEF Silent, session, IInv, Types, Joining, Removing, CompleteType
<1>6. PassesOn(t) /\ over = "no"
  BY <1>1, <1>2, NotOver
  DEF PassesOn, Abandons, Completes, CountedNone, IInv, CountsHold
<1> QED BY <1>3, <1>4, <1>5, <1>6, SilentKeeps

LEMMA GoneTestEndOfFileKeeps ==
    ASSUME IInv, NEW t \in Thread, GoneTestEndOfFile(t)
    PROVE  IInv'
<1>1. /\ pc[t] = "goneEof" /\ UNCHANGED <<buf, session, listed, over, clients, history>>
      /\ \/ buf.eof /\ Go(t, "goneList") /\ completeType' = completeType
         \/ Go(t, "unlist") /\ completeType' = "senderIsGone"
  BY DEF GoneTestEndOfFile
<1>2. /\ Moves(t)
      /\ \/ buf.eof /\ pc'[t] = "goneList" /\ local'[t] = local[t] /\ completeType' = completeType
         \/ pc'[t] = "unlist" /\ local'[t] = local[t] /\ completeType' = "senderIsGone"
  BY <1>1, GoMoves, FinishMoves DEF IInv, Place, Removing, Dropping
<1>3. HandlerOK(t)'
  BY <1>1, <1>2
  DEF IInv, HandlersHold, HandlerOK, Confirming, Joining, Removing, Dropping,
      session, clients, AtRest
<1>4. RoomForUploads' BY <1>1, <1>2, RoomKept DEF Adding
<1>5. Silent(t)
  BY <1>1, <1>2
  DEF Silent, session, IInv, Types, Joining, Removing, CompleteType
<1>6. PassesOn(t) /\ over = "no"
  BY <1>1, <1>2, NotOver
  DEF PassesOn, Abandons, Completes, CountedNone, IInv, CountsHold
<1> QED BY <1>3, <1>4, <1>5, <1>6, SilentKeeps

LEMMA GoneTestReceiversKeeps ==
    ASSUME IInv, NEW t \in Thread, GoneTestReceivers(t)
    PROVE  IInv'
<1>1. /\ pc[t] = "goneList" /\ UNCHANGED <<buf, session, listed, over, clients, history>>
      /\ \/ Finish(t) /\ completeType' = completeType
         \/ Go(t, "unlist") /\ completeType' = "noReceivers"
  BY DEF GoneTestReceivers
<1>2. /\ Moves(t)
      /\ \/ pc'[t] = "idle" /\ local'[t] = AtRest /\ completeType' = completeType
         \/ pc'[t] = "unlist" /\ local'[t] = local[t] /\ completeType' = "noReceivers"
  BY <1>1, GoMoves, FinishMoves DEF IInv, Place, Removing, Dropping
<1>3. HandlerOK(t)'
  BY <1>1, <1>2
  DEF IInv, HandlersHold, HandlerOK, Confirming, Joining, Removing, Dropping,
      session, clients, AtRest
<1>4. RoomForUploads' BY <1>1, <1>2, RoomKept DEF Adding
<1>5. Silent(t)
  BY <1>1, <1>2
  DEF Silent, session, IInv, Types, Joining, Removing, CompleteType
<1>6. PassesOn(t) /\ over = "no"
  BY <1>1, <1>2, NotOver
  DEF PassesOn, Abandons, Completes, CountedNone, IInv, CountsHold
<1> QED BY <1>3, <1>4, <1>5, <1>6, SilentKeeps

-----------------------------------------------------------------------------
(* The steps that change the buffer *)

\* A step that changes the buffer but not its consumers, nor who is a member.
LEMMA BufferStepKeeps ==
    ASSUME IInv, NEW t \in Thread, Moves(t),
           UNCHANGED <<receivers, mutex, autoDrop, named, autoFired, ending, clients>>,
           over = "no",
           buf' \in BufferType(Receiver), buf'.expected = buf.expected,
           HandlerOK(t)', RoomForUploads',
           pc[t] \notin Joining \cup {"rmList", "rmConsumer", "reentered"},
           pc'[t] \notin Joining, crossed' = crossed,
           confirmed' \in [Index -> SUBSET Receiver], loose' \subseteq Index,
           late' \subseteq Index, overtaking' \subseteq Index,
           AbandonmentSeen', CompletionSeen', CountsHold', OkWhenDone', History'
    PROVE  IInv'
<1>1. /\ UNCHANGED <<receivers, mutex, autoDrop, named, autoFired>>
      /\ UNCHANGED <<completeType, listed, over, alive, joined>>
  BY DEF ending, clients
<1>2. Types' BY <1>1 DEF IInv, Types, Moves
<1>3. HandlersHold' BY <1>1, OthersHold DEF IInv, HandlersHold, HandlerOK
<1>4. Membership' BY <1>1, MembershipKept DEF Joining
<1>5. Discrepancies' BY <1>1, DiscrepanciesKept DEF Joining
<1> QED BY <1>2, <1>3, <1>4, <1>5 DEF IInv

\* What every such step starts from.
LEMMA BufferBefore ==
    ASSUME IInv
    PROVE  /\ buf \in BufferType(Receiver) /\ IsFiniteSet(Receiver)
           /\ Bounded(buf, confirmed) /\ Sound(buf, confirmed, loose)
           /\ confirmed \in [Index -> SUBSET Receiver]
           /\ buf.top \in Nat /\ buf.chunks \subseteq Index
           /\ loose \subseteq Index /\ late \subseteq Index /\ overtaking \subseteq Index
<1>1. buf.top \in Nat /\ buf.chunks \subseteq Index
  BY LimitsAssumption DEF IInv, Types, BufferType
<1> QED BY <1>1, SessionAssumption DEF IInv, Types, History

\* A chunk that is inserted is late when the end of file was announced, and
\* overtakes when a handler that counted no chunks has yet to test for it.
LEMMA AddInsertKeeps ==
    ASSUME IInv, NEW t \in Thread, AddInsert(t)
    PROVE  IInv'
<1> DEFINE new == buf'.chunks \ buf.chunks
<1>1. /\ pc[t] = "addInsert" /\ buf' = AddChunk(buf) /\ Finish(t)
      /\ late' = IF buf.eof THEN late \cup new ELSE late
      /\ overtaking' = IF ~buf.eof /\ CountedNone # {}
                       THEN overtaking \cup new ELSE overtaking
      /\ UNCHANGED <<session, ending, clients, confirmed, loose, crossed, drainedBy>>
  BY DEF AddInsert
<1>2. Moves(t) /\ pc'[t] = "idle" /\ local'[t] = AtRest
  BY <1>1, FinishMoves DEF IInv
<1> DEFINE A == {u \in Thread : pc[u] \in Adding}
           B == {u \in Thread : pc'[u] \in Adding}
<1>3. /\ Cardinality(B) \in Nat /\ Cardinality(A) \in Nat
      /\ Cardinality(A) = Cardinality(B) + 1
  <2>1. B = A \ {t} /\ t \in A BY <1>1, <1>2 DEF Moves, Adding
  <2>2. IsFiniteSet(A) BY SessionAssumption, FS_Subset
  <2>3. IsFiniteSet(B) /\ t \notin B /\ A = B \cup {t} BY <2>1, <2>2, FS_Subset
  <2> QED BY <2>2, <2>3, OneMore, FS_CardinalityType
<1>4. buf.top + Cardinality(A) <= MaxUploads BY DEF IInv, RoomForUploads
<1>5. buf.top < MaxUploads BY <1>3, <1>4, BufferBefore, LimitsAssumption
<1>6. /\ buf' \in BufferType(Receiver) /\ buf'.eof = buf.eof
      /\ buf'.freezing = buf.freezing /\ buf'.expected = buf.expected
      /\ \/ buf' = buf
         \/ buf'.top = buf.top + 1 /\ buf'.chunks = buf.chunks \cup {buf.top + 1}
  BY <1>1, <1>5, BufferBefore, AddChunkEffect
<1>7. Bounded(buf', confirmed) /\ Sound(buf', confirmed, loose)
  BY <1>1, <1>5, BufferBefore, AddChunkSound
<1>8. RoomForUploads'
  <2>1. buf'.top = buf.top \/ buf'.top = buf.top + 1 BY <1>6
  <2>2. buf'.top + Cardinality(B) <= MaxUploads
    BY <1>3, <1>4, <2>1, BufferBefore, LimitsAssumption
  <2> QED BY <2>2 DEF RoomForUploads
<1>9. HandlerOK(t)' BY <1>1, <1>2, ReturnedOK DEF session, clients
<1>10. /\ late \subseteq late' /\ late' \subseteq Index
       /\ overtaking \subseteq overtaking' /\ overtaking' \subseteq Index
       /\ buf.chunks \subseteq buf'.chunks
       /\ buf.eof \/ CountedNone # {} => buf'.chunks \ buf.chunks \subseteq late' \cup overtaking'
  <2>1. buf'.chunks \subseteq Index BY <1>6 DEF BufferType
  <2> QED BY <1>1, <1>6, <2>1, BufferBefore
<1>11. over = "no" BY <1>1, NotOver
<1>12. AbandonmentSeen'
  BY <1>1, <1>2, <1>6, AbandonmentKept DEF Abandons, session, ending, clients
<1>13. CompletionSeen'
  <2>1. buf'.chunks = {} => buf.chunks = {} BY <1>10
  <2> QED
    BY <1>1, <1>2, <1>6, <2>1, CompletionKept DEF Completes, ending
<1>14. CountsHold'
  <2>1. CountedNone' \subseteq CountedNone BY <1>2 DEF CountedNone, Moves
  <2>2. CountedNone' # {} => buf'.chunks \subseteq late' \cup overtaking'
    BY <1>10, <2>1 DEF IInv, CountsHold
  <2>3. \A u \in Thread : pc'[u] \in {"eofCount", "rmCount", "goneList"} => buf'.eof
    BY <1>2, <1>6 DEF IInv, CountsHold, Moves
  <2> QED BY <2>2, <2>3 DEF CountsHold
<1>15. OkWhenDone'
  <2> SUFFICES ASSUME completeType' = "ok", ~autoDrop',
                      ~listed' \/ \E u \in Thread : pc'[u] = "unlist"
               PROVE  buf'.eof /\ buf'.chunks \subseteq late' \cup overtaking'
    BY <1>1, <1>11 DEF OkWhenDone, ending
  <2>1. completeType = "ok" /\ ~autoDrop
        /\ (~listed \/ \E u \in Thread : pc[u] = "unlist")
    BY <1>1, <1>2 DEF session, ending, Moves
  <2>2. buf.eof /\ buf.chunks \subseteq late \cup overtaking
    BY <2>1 DEF IInv, OkWhenDone
  <2> QED BY <1>6, <1>10, <2>2
<1>16. History'
  <2>1. \A i \in buf.chunks : confirmed[i] \subseteq buf.expected BY DEF IInv, History
  <2>2. buf.top + 1 \in Index /\ buf.top + 1 > buf.top
    BY <1>5, BufferBefore, LimitsAssumption DEF Index
  <2>3. confirmed[buf.top + 1] = {} BY <2>2, BufferBefore DEF Bounded
  <2>4. \A i \in buf'.chunks : confirmed'[i] \subseteq buf'.expected
    BY <1>1, <1>6, <2>1, <2>3
  <2> QED BY <1>1, <1>7, <2>4 DEF History
<1> QED
  BY <1>1, <1>2, <1>6, <1>8, <1>9, <1>10, <1>11, <1>12, <1>13, <1>14, <1>15, <1>16,
     BufferBefore, BufferStepKeeps
  DEF session, Joining, Removing, IInv, Types

\* A confirmation may take the last chunk, and then counts the chunks.
LEMMA ConfirmSetKeeps ==
    ASSUME IInv, NEW t \in Thread, ConfirmSet(t)
    PROVE  IInv'
<1> DEFINE i == local[t].chunk
           c == local[t].by
<1>1. /\ pc[t] = "confirm" /\ buf' = SetChunkAsReceived(buf, i) /\ Drained("other")
      /\ UNCHANGED <<session, ending, clients, late, overtaking, crossed>>
  BY DEF ConfirmSet
<1>2. i \in Index /\ c \in Client
  BY <1>1 DEF IInv, HandlersHold, HandlerOK, Confirming
<1>3. over = "no" BY <1>1, NotOver
<1>4. CASE i \notin buf.chunks
  <2>1. buf' = buf /\ Finish(t) /\ UNCHANGED <<confirmed, loose>>
    BY <1>1, <1>4 DEF ConfirmSet, SetChunkAsReceived
  <2>2. drainedBy' = drainedBy BY <1>1, <2>1 DEF Drained
  <2>3. Moves(t) /\ pc'[t] = "idle" /\ local'[t] = AtRest
    BY <2>1, FinishMoves DEF IInv
  <2>4. HandlerOK(t)' BY <1>1, <2>3, ReturnedOK DEF session, clients
  <2>5. RoomForUploads' BY <2>1, <2>3, RoomKept DEF Adding
  <2>6. Silent(t)
    BY <1>1, <2>1, <2>2, <2>3
    DEF Silent, session, ending, history, IInv, Types, Joining, Removing
  <2>7. PassesOn(t) BY <1>1, <2>3 DEF PassesOn, Abandons, Completes, CountedNone, ending
  <2> QED BY <1>3, <2>4, <2>5, <2>6, <2>7, SilentKeeps
<1>5. CASE i \in buf.chunks
  <2> DEFINE conf == [confirmed EXCEPT ![i] = @ \cup {c}]
  <2>1. /\ Go(t, "confirmCount")
        /\ confirmed' = [confirmed EXCEPT ![i] = @ \cup ({c} \cap buf.expected)]
        /\ loose' = IF c \in confirmed[i] \/ c \notin buf.expected
                    THEN loose \cup {i} ELSE loose
    BY <1>5 DEF ConfirmSet
  <2>2. Moves(t) /\ pc'[t] = "confirmCount" /\ local'[t] = local[t]
    BY <2>1, GoMoves DEF IInv, Place, Confirming
  <2>3. /\ ConfirmedBy(buf, confirmed, conf, loose, loose', i, c)
        /\ \A j \in Index : /\ confirmed'[j] \subseteq conf[j]
                             /\ conf[j] \cap buf.expected \subseteq confirmed'[j]
    BY <1>2, <1>5, <2>1, BufferBefore DEF ConfirmedBy
  <2>4. /\ buf' \in BufferType(Receiver) /\ buf'.top = buf.top /\ buf'.eof = buf.eof
        /\ buf'.freezing = buf.freezing /\ buf'.expected = buf.expected
        /\ buf'.chunks \subseteq buf.chunks
        /\ Bounded(buf', confirmed') /\ Sound(buf', confirmed', loose')
    <3> HIDE DEF i, c, conf
    <3>1. /\ buf' \in BufferType(Receiver) /\ buf'.top = buf.top /\ buf'.eof = buf.eof
          /\ buf'.freezing = buf.freezing /\ buf'.expected = buf.expected
          /\ buf'.chunks \subseteq buf.chunks
          /\ Bounded(buf', conf) /\ Sound(buf', conf, loose')
      BY <1>1, <2>3, BufferBefore, ConfirmSound
    <3> DEFINE b == buf'
               conf2 == confirmed'
               loose2 == loose'
    <3>2. \A j \in Index : /\ conf2[j] \subseteq conf[j]
                           /\ conf[j] \cap b.expected \subseteq conf2[j]
      BY <2>3, <3>1
    <3>3. b \in BufferType(Receiver) /\ Bounded(b, conf) /\ Sound(b, conf, loose2)
      BY <3>1
    <3> HIDE DEF b, conf2, loose2
    <3>4. Bounded(b, conf2) /\ Sound(b, conf2, loose2)
      BY <3>2, <3>3, BufferBefore, ForgetSound
    <3> QED BY <3>1, <3>4 DEF b, conf2, loose2
  <2>5. /\ confirmed' \in [Index -> SUBSET Receiver] /\ loose' \subseteq Index
        /\ \A j \in buf'.chunks : confirmed'[j] \subseteq buf'.expected
    <3>1. buf.expected \subseteq Receiver BY BufferBefore DEF BufferType
    <3>2. \A j \in buf.chunks : confirmed'[j] \subseteq buf.expected
      BY <1>2, <2>1, BufferBefore DEF IInv, History
    <3> QED BY <1>2, <2>1, <2>4, <3>1, <3>2, BufferBefore
  <2>6. HandlerOK(t)'
    BY <1>1, <2>2
    DEF IInv, HandlersHold, HandlerOK, Confirming, Joining, Removing, Dropping,
        session, clients
  <2>7. RoomForUploads' BY <1>1, <2>2, <2>4, RoomKept DEF Adding
  <2>8. AbandonmentSeen'
    BY <1>1, <2>2, <2>4, AbandonmentKept DEF Abandons, session, ending, clients
  <2>9. CompletionSeen' BY <2>2 DEF CompletionSeen, Completes
  <2>10. CountsHold' BY <1>1, <2>2, <2>4, CountsKept DEF CountedNone
  <2>11. OkWhenDone'
    BY <1>1, <1>3, <2>2, <2>4, OkKept DEF session, ending
  <2>12. History' BY <2>4, <2>5 DEF History
  <2> QED
    BY <1>1, <1>3, <2>2, <2>4, <2>5, <2>6, <2>7, <2>8, <2>9, <2>10, <2>11, <2>12,
       BufferBefore, BufferStepKeeps
    DEF session, Joining, Removing
<1> QED BY <1>4, <1>5

LEMMA StartEndOfFileKeeps ==
    ASSUME IInv, NEW t \in Thread, StartEndOfFile(t)
    PROVE  IInv'
<1> DEFINE l == [AtRest EXCEPT !.by = Sender]
<1>1. /\ listed /\ Sender \in alive /\ Begin(t, "eofCount", l)
      /\ buf' = SetEndOfFile(buf)
      /\ UNCHANGED <<session, ending, clients, history>>
  BY DEF StartEndOfFile
<1>2. l \in Locals /\ l.by = Sender /\ l.who = Nobody /\ l.kept = Nobody /\ l.back = "idle"
  BY DEF AtRest, Locals, Client
<1> HIDE DEF l
<1>3. pc[t] = "idle" /\ Moves(t) /\ pc'[t] = "eofCount" /\ local'[t] = l
  BY <1>1, <1>2, BeginMoves DEF IInv, Place
<1>4. over = "no" BY <1>1, NotOver
<1>5. /\ buf' \in BufferType(Receiver) /\ buf'.chunks = buf.chunks
      /\ buf'.top = buf.top /\ buf'.eof /\ buf'.freezing = buf.freezing
      /\ buf'.expected = buf.expected
      /\ Bounded(buf', confirmed) /\ Sound(buf', confirmed, loose)
  BY <1>1, BufferBefore, EndOfFileSound
<1>6. HandlerOK(t)'
  BY <1>1, <1>2, <1>3, SessionAssumption
  DEF IInv, HandlersHold, HandlerOK, Confirming, Joining, Removing, Dropping,
      session, clients
<1>7. RoomForUploads' BY <1>3, <1>5, RoomKept DEF Adding
<1>8. AbandonmentSeen'
  BY <1>1, <1>3, <1>5, AbandonmentKept DEF Abandons, session, ending, clients
<1>9. CompletionSeen' BY <1>3 DEF CompletionSeen, Completes
<1>10. CountsHold' BY <1>1, <1>3, <1>5, CountsKept DEF CountedNone, history
<1>11. OkWhenDone'
  BY <1>1, <1>3, <1>4, <1>5, OkKept DEF session, ending, history
<1>12. History' BY <1>1, <1>5 DEF IInv, History, history, clients
<1> QED
  BY <1>1, <1>3, <1>4, <1>5, <1>6, <1>7, <1>8, <1>9, <1>10, <1>11, <1>12,
     BufferBefore, BufferStepKeeps
  DEF session, history, Joining, Removing

\* The end of the freeze passes the session on to the check of its receivers.
LEMMA DropUnfreezeKeeps ==
    ASSUME IInv, NEW t \in Thread, DropUnfreeze(t)
    PROVE  IInv'
<1>1. /\ pc[t] = "drop" /\ Drained("other")
      /\ UNCHANGED <<session, ending, clients, confirmed, loose, late, overtaking, crossed>>
  BY DEF DropUnfreeze
<1>2. over = "no" BY <1>1, NotOver
<1>3. CASE ~buf.freezing
  <2>1. buf' = buf /\ Return(t) BY <1>3 DEF DropUnfreeze
  <2>2. drainedBy' = drainedBy BY <1>1, <2>1 DEF Drained
  <2>3. /\ Moves(t)
        /\ \/ pc'[t] = "idle" /\ local'[t] = AtRest
           \/ /\ local[t].back = "confirm" /\ pc'[t] = "confirm"
              /\ local'[t] = [local[t] EXCEPT !.back = "idle"]
    BY <2>1, ReturnMoves DEF IInv
  <2>4. HandlerOK(t)' BY <1>1, <2>3, ReturnedOK DEF session, clients
  <2>5. RoomForUploads' BY <2>1, <2>3, RoomKept DEF Adding
  <2>6. Silent(t)
    BY <1>1, <2>1, <2>2, <2>3
    DEF Silent, session, ending, history, IInv, Types, Joining, Removing
  <2>7. PassesOn(t) BY <1>1, <2>3 DEF PassesOn, Abandons, Completes, CountedNone, ending
  <2> QED BY <1>2, <2>4, <2>5, <2>6, <2>7, SilentKeeps
<1>4. CASE buf.freezing
  <2>1. buf' = DropFreezing(buf) /\ Go(t, "dropCheck") BY <1>4 DEF DropUnfreeze
  <2>2. Moves(t) /\ pc'[t] = "dropCheck" /\ local'[t] = local[t]
    BY <2>1, GoMoves DEF IInv, Place, Dropping
  <2>3. /\ buf' \in BufferType(Receiver) /\ buf'.top = buf.top /\ buf'.eof = buf.eof
        /\ buf'.expected = buf.expected /\ buf'.chunks \subseteq buf.chunks
        /\ Bounded(buf', confirmed) /\ Sound(buf', confirmed, loose)
    BY <2>1, BufferBefore, UnfreezeSound
  <2>4. HandlerOK(t)'
    BY <1>1, <2>2
    DEF IInv, HandlersHold, HandlerOK, Confirming, Joining, Removing, Dropping,
        session, clients
  <2>5. RoomForUploads' BY <1>1, <2>2, <2>3, RoomKept DEF Adding
  <2>6. AbandonmentSeen' BY <2>2 DEF AbandonmentSeen, Abandons
  <2>7. CompletionSeen' BY <2>2 DEF CompletionSeen, Completes
  <2>8. CountsHold' BY <1>1, <2>2, <2>3, CountsKept DEF CountedNone
  <2>9. OkWhenDone'
    BY <1>1, <1>2, <2>2, <2>3, OkKept DEF session, ending
  <2>10. History' BY <1>1, <2>3 DEF IInv, History, clients
  <2> QED
    BY <1>1, <1>2, <2>2, <2>3, <2>4, <2>5, <2>6, <2>7, <2>8, <2>9, <2>10,
       BufferBefore, BufferStepKeeps
    DEF session, Joining, Removing
<1> QED BY <1>3, <1>4

\* A sweep is what a departure leaves behind; if it takes the last chunk nobody
\* need be there to see it.
LEMMA RemoveSweepKeeps ==
    ASSUME IInv, NEW t \in Thread, RemoveSweep(t)
    PROVE  IInv'
<1>1. /\ pc[t] = "rmSweep" /\ buf' = Sanitize(buf) /\ Drained("departure")
      /\ GoForget(t, "rmCheck")
      /\ UNCHANGED <<session, ending, clients, confirmed, loose, late, overtaking, crossed>>
  BY DEF RemoveSweep
<1>2. /\ Moves(t) /\ pc'[t] = "rmCheck"
      /\ local'[t].by = local[t].by /\ local'[t].kept = Nobody
      /\ local'[t].chunk = local[t].chunk /\ local'[t].none = local[t].none
      /\ local'[t].back = local[t].back
  BY <1>1, ForgetMoves DEF IInv, Place, Removing
<1>3. over = "no" BY <1>1, NotOver
<1>4. /\ buf' \in BufferType(Receiver) /\ buf'.top = buf.top /\ buf'.eof = buf.eof
      /\ buf'.freezing = buf.freezing
      /\ buf'.expected = buf.expected /\ buf'.chunks \subseteq buf.chunks
  BY <1>1, BufferBefore, SanitizeEffect
<1>5. Bounded(buf', confirmed) /\ Sound(buf', confirmed, loose)
  BY <1>1, BufferBefore, SweepSound
<1>6. HandlerOK(t)'
  BY <1>1, <1>2
  DEF IInv, HandlersHold, HandlerOK, Confirming, Joining, Removing, Dropping,
      session, clients
<1>7. RoomForUploads' BY <1>1, <1>2, <1>4, RoomKept DEF Adding
<1>8. AbandonmentSeen'
  BY <1>1, <1>2, <1>4, AbandonmentKept DEF Abandons, session, ending, clients
<1>9. CompletionSeen'
  <2>1. CASE buf.chunks # {} /\ buf'.chunks = {}
    BY <1>1, <2>1 DEF CompletionSeen, Drained
  <2>2. CASE ~(buf.chunks # {} /\ buf'.chunks = {})
    <3>1. drainedBy' = drainedBy BY <1>1, <2>2 DEF Drained
    <3>2. buf'.chunks = {} => buf.chunks = {} BY <2>2
    <3> QED BY <1>1, <1>2, <1>4, <3>1, <3>2, CompletionKept DEF Completes, ending
  <2> QED BY <2>1, <2>2
<1>10. CountsHold' BY <1>1, <1>2, <1>4, CountsKept DEF CountedNone
<1>11. OkWhenDone' BY <1>1, <1>2, <1>3, <1>4, OkKept DEF session, ending
<1>12. History' BY <1>1, <1>4, <1>5 DEF IInv, History
<1> QED
  BY <1>1, <1>2, <1>3, <1>4, <1>6, <1>7, <1>8, <1>9, <1>10, <1>11, <1>12,
     BufferBefore, BufferStepKeeps
  DEF session, Joining, Removing

-----------------------------------------------------------------------------
(* The steps that change who is a member *)

LEMMA StartJoinKeeps ==
    ASSUME IInv, NEW t \in Thread, NEW c \in Receiver, StartJoin(t, c)
    PROVE  IInv'
<1> DEFINE l == [AtRest EXCEPT !.by = c, !.who = c]
<1>1. /\ listed /\ c \in alive /\ c \notin joined /\ Begin(t, "join", l)
      /\ UNCHANGED <<buf, session, ending, clients, history>>
  BY DEF StartJoin
<1>2. l \in Locals /\ l.by = c /\ l.who = c /\ l.kept = Nobody /\ l.back = "idle"
  BY DEF AtRest, Locals, Client
<1> HIDE DEF l
<1>3. pc[t] = "idle" /\ Moves(t) /\ pc'[t] = "join" /\ local'[t] = l
  BY <1>1, <1>2, BeginMoves DEF IInv, Place, Joining
<1>4. /\ UNCHANGED <<receivers, mutex, named, autoDrop, autoFired>>
      /\ UNCHANGED <<completeType, listed, over, alive, joined>>
      /\ UNCHANGED <<confirmed, loose, late, overtaking, crossed, drainedBy>> /\ buf' = buf
  BY <1>1 DEF session, ending, clients, history
<1>5. Types' BY <1>3, <1>4 DEF IInv, Types, Moves
<1>6. HandlersHold'
  <2>1. HandlerOK(t)'
    BY <1>1, <1>2, <1>3, <1>4
    DEF IInv, HandlersHold, HandlerOK, Confirming, Joining, Removing
  <2> QED BY <1>3, <1>4, <2>1, OthersHold DEF IInv, HandlersHold, HandlerOK
<1>7. RoomForUploads' BY <1>3, <1>4, RoomKept DEF Adding
<1>8. Membership' BY <1>3, <1>4, MembershipKept
<1>9. Discrepancies' BY <1>3, <1>4, DiscrepanciesKept
<1>10. AbandonmentSeen' BY <1>3, <1>4, AbandonmentKept DEF Abandons
<1>11. CompletionSeen' BY <1>3, <1>4, CompletionKept DEF Completes
<1>12. CountsHold' BY <1>3, <1>4, CountsKept DEF CountedNone
<1>13. OkWhenDone' BY <1>1, <1>3, <1>4, NotOver, OkKept
<1>14. History' BY <1>4 DEF IInv, History
<1> QED
  BY <1>5, <1>6, <1>7, <1>8, <1>9, <1>10, <1>11, <1>12, <1>13, <1>14 DEF IInv

\* A receiver becomes a consumer under the mutex of the receivers.  Nothing of what
\* it may have confirmed before counts: everything is still buffered.
LEMMA JoinAsConsumerKeeps ==
    ASSUME IInv, NEW t \in Thread, JoinAsConsumer(t)
    PROVE  IInv'
<1> DEFINE c == local[t].who
           admitted == c \notin receivers /\ CanAddConsumer(buf, c)
<1>1. /\ pc[t] = "join" /\ mutex = Nobody
      /\ UNCHANGED <<receivers, named, autoDrop, autoFired, ending, clients, history>>
  BY DEF JoinAsConsumer
<1>2. /\ UNCHANGED <<completeType, listed, over, alive, joined>>
      /\ UNCHANGED <<confirmed, loose, late, overtaking, crossed, drainedBy>>
  BY <1>1 DEF ending, clients, history
<1>3. over = "no" BY <1>1, NotOver
<1>4. CASE ~admitted
  <2>1. Finish(t) /\ UNCHANGED <<buf, mutex>> BY <1>4 DEF JoinAsConsumer
  <2>2. Moves(t) /\ pc'[t] = "idle" /\ local'[t] = AtRest
    BY <2>1, FinishMoves DEF IInv
  <2>3. HandlerOK(t)' BY <1>1, <1>2, <2>1, <2>2, ReturnedOK
  <2>4. RoomForUploads' BY <2>1, <2>2, RoomKept DEF Adding
  <2>5. Silent(t)
    BY <1>1, <1>2, <2>1, <2>2
    DEF Silent, clients, history, IInv, Types, Joining, Removing
  <2>6. PassesOn(t)
    BY <1>1, <1>2, <2>2 DEF PassesOn, Abandons, Completes, CountedNone
  <2> QED BY <1>3, <2>3, <2>4, <2>5, <2>6, SilentKeeps
<1>5. CASE admitted
  <2>1. buf' = AddConsumer(buf, c) /\ mutex' = t /\ Go(t, "joinPush")
    BY <1>5 DEF JoinAsConsumer
  <2>2. Moves(t) /\ pc'[t] = "joinPush" /\ local'[t] = local[t]
    BY <2>1, GoMoves DEF IInv, Place, Joining
  <2>3. c \in Receiver /\ local[t].by = c
    BY <1>1 DEF IInv, HandlersHold, HandlerOK, Joining
  <2>4. c \notin buf.expected /\ \A i \in Index : c \notin confirmed[i]
    <3>1. c \notin buf.expected /\ ~buf.removed BY <1>5 DEF CanAddConsumer
    <3>2. buf.chunks = 1..buf.top BY <3>1 DEF IInv, History, Sound, Whole
    <3>3. \A i \in Index : i \in buf.chunks \/ i > buf.top
      BY <3>2, BufferBefore, LimitsAssumption DEF Index
    <3>4. \A i \in Index : i > buf.top => confirmed[i] = {}
      BY DEF IInv, History, Bounded
    <3>5. \A i \in buf.chunks : confirmed[i] \subseteq buf.expected BY DEF IInv, History
    <3> QED BY <3>1, <3>3, <3>4, <3>5
  <2>5. /\ buf' \in BufferType(Receiver) /\ buf'.chunks = buf.chunks
        /\ buf'.top = buf.top /\ buf'.eof = buf.eof /\ buf'.freezing = buf.freezing
        /\ buf'.expected = buf.expected \cup {c}
        /\ Bounded(buf', confirmed) /\ Sound(buf', confirmed, loose)
    <3> HIDE DEF c
    <3> QED BY <1>5, <2>1, <2>3, <2>4, BufferBefore, AddConsumerSound
  <2>6. Types' BY <1>1, <1>2, <2>1, <2>2, <2>5 DEF IInv, Types, Moves
  <2>7. HandlersHold'
    <3>1. HandlerOK(t)'
      BY <1>1, <1>2, <2>1, <2>2
      DEF IInv, HandlersHold, HandlerOK, Confirming, Joining, Removing, Dropping
    <3>2. \A u \in Thread \ {t} : mutex' = u <=> mutex = u
      BY <1>1, <2>1, SessionAssumption
    <3> QED BY <1>2, <2>2, <3>1, <3>2, OthersHold
  <2>8. RoomForUploads' BY <2>2, <2>5, RoomKept DEF Adding
  <2>9. Membership'
    BY <1>1, <1>2, <2>2, <2>5 DEF IInv, Membership, Moves
  <2>10. Discrepancies'
    <3>1. Stuck' => Stuck BY <2>2 DEF Stuck, Moves
    <3>2. Stuck => Stuck' BY <1>1, <2>2 DEF Stuck, Moves
    <3> QED BY <1>1, <1>2, <2>2, <2>5, <3>1, <3>2 DEF IInv, Discrepancies, Moves
  <2>11. AbandonmentSeen'
    BY <1>1, <1>2, <2>2, <2>5, AbandonmentKept DEF Abandons
  <2>12. CompletionSeen' BY <1>1, <1>2, <2>2, <2>5, CompletionKept DEF Completes
  <2>13. CountsHold' BY <1>1, <1>2, <2>2, <2>5, CountsKept DEF CountedNone
  <2>14. OkWhenDone' BY <1>1, <1>2, <1>3, <2>2, <2>5, OkKept
  <2>15. History' BY <1>2, <2>5 DEF IInv, History
  <2> QED
    BY <2>6, <2>7, <2>8, <2>9, <2>10, <2>11, <2>12, <2>13, <2>14, <2>15 DEF IInv
<1> QED BY <1>4, <1>5

\* The receiver that is listed is the one the handler that holds the mutex works
\* for; if it is no consumer any more, its removal has crossed its join.
LEMMA JoinPushKeeps ==
    ASSUME IInv, NEW t \in Thread, JoinPush(t)
    PROVE  IInv'
<1> DEFINE c == local[t].who
<1>1. /\ pc[t] = "joinPush" /\ Finish(t)
      /\ receivers' = receivers \cup {c} /\ joined' = joined \cup {c}
      /\ mutex' = Nobody
      /\ UNCHANGED <<buf, named, autoDrop, autoFired, ending, alive, history>>
  BY DEF JoinPush
<1>2. /\ UNCHANGED <<completeType, listed, over>>
      /\ UNCHANGED <<confirmed, loose, late, overtaking, crossed, drainedBy>>
  BY <1>1 DEF ending, history
<1>3. Moves(t) /\ pc'[t] = "idle" /\ local'[t] = AtRest
  BY <1>1, FinishMoves DEF IInv
<1>4. c \in Receiver /\ c \in alive /\ c \in buf.expected \cup crossed /\ mutex = t
  <2>1. c \in Receiver /\ local[t].by = c /\ c # Nobody /\ mutex = t
    BY <1>1, SessionAssumption DEF IInv, HandlersHold, HandlerOK, Joining
  <2>2. c \in alive BY <2>1 DEF IInv, HandlersHold, HandlerOK
  <2>3. c \in buf.expected \cup crossed BY <1>1 DEF IInv, Membership
  <2> QED BY <2>1, <2>2, <2>3
<1> HIDE DEF c
<1>5. Types' BY <1>1, <1>2, <1>3, <1>4 DEF IInv, Types, Moves
<1>6. HandlersHold'
  <2>1. HandlerOK(t)'
    BY <1>1, <1>3, SessionAssumption
    DEF HandlerOK, AtRest, Confirming, Joining, Removing
  <2>2. \A u \in Thread \ {t} : mutex' = u <=> mutex = u
    BY <1>1, <1>4, SessionAssumption
  <2> QED BY <1>1, <1>3, <2>1, <2>2, OthersHold
<1>7. RoomForUploads' BY <1>1, <1>3, RoomKept DEF Adding
<1>8. Membership'
  <2>1. \A u \in Thread : pc'[u] = "joinPush"
                              => local'[u].who \in buf'.expected \cup crossed'
    BY <1>1, <1>2, <1>3 DEF IInv, Membership, Moves
  <2>2. receivers' \subseteq joined' \cap (buf'.expected \cup crossed')
    BY <1>1, <1>2, <1>4 DEF IInv, Membership
  <2> QED BY <2>1, <2>2 DEF Membership
<1>9. Discrepancies'
  <2> SUFFICES ASSUME ~Stuck', Sender \in alive'
               PROVE  /\ \A d \in receivers' \ alive' :
                             \E u \in Thread : pc'[u] = "rmList" /\ local'[u].who = d
                      /\ \A d \in buf'.expected \ receivers' :
                             \E u \in Thread :
                                 /\ pc'[u] \in {"joinPush", "rmList", "rmConsumer"}
                                 /\ local'[u].who = d
    BY DEF Discrepancies
  <2>1. ~Stuck BY <1>1, <1>3 DEF Stuck, Moves
  <2>2. \A d \in receivers' \ alive' :
            \E u \in Thread : pc'[u] = "rmList" /\ local'[u].who = d
    BY <1>1, <1>3, <1>4, <2>1 DEF IInv, Discrepancies, Moves
  <2>3. \A d \in buf'.expected \ receivers' :
            \E u \in Thread : /\ pc'[u] \in {"joinPush", "rmList", "rmConsumer"}
                              /\ local'[u].who = d
    BY <1>1, <1>3, <2>1 DEF IInv, Discrepancies, Moves, c
  <2> QED BY <2>2, <2>3
<1>10. AbandonmentSeen' BY <1>1 DEF AbandonmentSeen
<1>11. CompletionSeen' BY <1>1, <1>2, <1>3, CompletionKept DEF Completes
<1>12. CountsHold' BY <1>1, <1>2, <1>3, CountsKept DEF CountedNone
<1>13. OkWhenDone' BY <1>1, <1>2, <1>3, NotOver, OkKept
<1>14. History' BY <1>1, <1>2 DEF IInv, History
<1> QED
  BY <1>5, <1>6, <1>7, <1>8, <1>9, <1>10, <1>11, <1>12, <1>13, <1>14 DEF IInv

\* Whoever is dropped from the list without being asked for is gone already, and
\* the handler of its end is on its way to the list.
LEMMA RemoveFromListKeeps ==
    ASSUME IInv, NEW t \in Thread, RemoveFromList(t)
    PROVE  IInv'
<1> DEFINE c == local[t].who
           rest == (receivers \cap alive) \ {c}
<1>1. /\ pc[t] = "rmList" /\ mutex = Nobody /\ TakeFromList(t, rest)
      /\ receivers' = rest /\ crossed' = crossed \cap rest
      /\ UNCHANGED <<confirmed, loose, late, overtaking, drainedBy>>
      /\ UNCHANGED <<buf, mutex, named, autoDrop, autoFired, ending, clients>>
  BY DEF RemoveFromList, TakeFromList
<1>2. UNCHANGED <<completeType, listed, over, alive, joined>>
  BY <1>1 DEF ending, clients
<1> HIDE DEF rest
<1>3. /\ Moves(t) /\ pc'[t] = "rmConsumer"
      /\ local'[t].by = local[t].by /\ local'[t].who = c
      /\ local'[t].kept \in alive \cup {Nobody}
      /\ local'[t].chunk = local[t].chunk /\ local'[t].back = local[t].back
      /\ local'[t].none = (rest = {})
  BY <1>1, TakeMoves DEF IInv
<1>4. rest \subseteq receivers \cap alive /\ rest \subseteq Receiver
      /\ (receivers \cap alive) \subseteq rest \cup {c}
  BY DEF rest, IInv, Types
<1>5. Types' BY <1>1, <1>2, <1>3, <1>4 DEF IInv, Types, Moves
<1>6. HandlersHold'
  <2>1. HandlerOK(t)'
    BY <1>1, <1>2, <1>3
    DEF IInv, HandlersHold, HandlerOK, Confirming, Joining, Removing, Dropping
  <2> QED BY <1>1, <1>2, <1>3, <2>1, OthersHold DEF IInv, HandlersHold, HandlerOK
<1>7. RoomForUploads' BY <1>1, <1>3, RoomKept DEF Adding
<1>8. Membership'
  <2>1. \A u \in Thread : pc'[u] # "joinPush"
    BY <1>1, <1>3, SessionAssumption DEF IInv, HandlersHold, HandlerOK, Moves
  <2>2. receivers' \subseteq joined' \cap (buf'.expected \cup crossed')
    BY <1>1, <1>2, <1>4 DEF IInv, Membership
  <2> QED BY <2>1, <2>2 DEF Membership
<1>9. Discrepancies'
  <2> SUFFICES ASSUME ~Stuck', Sender \in alive', NEW d \in buf'.expected \ receivers'
               PROVE  \E u \in Thread :
                          /\ pc'[u] \in {"joinPush", "rmList", "rmConsumer"}
                          /\ local'[u].who = d
    BY <1>1, <1>2, <1>4 DEF Discrepancies
  <2>1. CASE d = c BY <1>3, <2>1
  <2>2. CASE d # c
    <3>1. ~Stuck BY <1>1, <1>3 DEF Stuck, Moves
    <3>2. PICK u \in Thread : /\ pc[u] \in {"joinPush", "rmList", "rmConsumer"}
                              /\ local[u].who = d
      BY <1>1, <1>2, <1>4, <2>2, <3>1 DEF IInv, Discrepancies
    <3>3. u # t BY <2>2, <3>2
    <3> QED BY <1>3, <3>2, <3>3 DEF Moves
  <2> QED BY <2>1, <2>2
<1>10. AbandonmentSeen'
  BY <1>1, <1>3 DEF AbandonmentSeen, Abandons
<1>11. CompletionSeen' BY <1>1, <1>2, <1>3, CompletionKept DEF Completes
<1>12. CountsHold' BY <1>1, <1>2, <1>3, CountsKept DEF CountedNone
<1>13. OkWhenDone' BY <1>1, <1>2, <1>3, NotOver, OkKept
<1>14. History' BY <1>1, <1>2 DEF IInv, History
<1> QED
  BY <1>5, <1>6, <1>7, <1>8, <1>9, <1>10, <1>11, <1>12, <1>13, <1>14 DEF IInv

\* Whoever is taken from the consumers while it is listed, or about to be, has
\* joined since the list was read.
LEMMA RemoveFromConsumersKeeps ==
    ASSUME IInv, NEW t \in Thread, RemoveFromConsumers(t)
    PROVE  IInv'
<1> DEFINE c == local[t].who
           present == \/ c \in receivers
                      \/ \E u \in Thread : pc[u] = "joinPush" /\ local[u].who = c
<1>1. /\ pc[t] = "rmConsumer" /\ buf' = RemoveConsumer(buf, c)
      /\ IF c \in buf.expected THEN Go(t, "rmSweep") ELSE GoForget(t, "rmCheck")
      /\ loose' = loose \cup {i \in buf.chunks : c \in buf.expected \cap confirmed[i]}
      /\ confirmed' = [i \in Index |-> IF i \in buf.chunks THEN confirmed[i] \ {c}
                                       ELSE confirmed[i]]
      /\ crossed' = IF c \in buf.expected /\ present THEN crossed \cup {c} ELSE crossed
      /\ UNCHANGED <<session, ending, clients, late, overtaking, drainedBy>>
  BY DEF RemoveFromConsumers
<1>2. /\ UNCHANGED <<receivers, mutex, named, autoDrop, autoFired>>
      /\ UNCHANGED <<completeType, listed, over, alive, joined>>
  BY <1>1 DEF session, ending, clients
<1>3. /\ Moves(t) /\ pc'[t] \in {"rmSweep", "rmCheck"}
      /\ local'[t].by = local[t].by /\ local'[t].kept \in {local[t].kept, Nobody}
      /\ local'[t].chunk = local[t].chunk /\ local'[t].none = local[t].none
      /\ local'[t].back = local[t].back
  <2>1. "rmSweep" \in Place /\ "rmCheck" \in Place BY DEF Place, Removing
  <2>2. CASE c \in buf.expected BY <1>1, <2>1, <2>2, GoMoves DEF IInv
  <2>3. CASE c \notin buf.expected BY <1>1, <2>1, <2>3, ForgetMoves DEF IInv
  <2> QED BY <2>2, <2>3
<1>4. c \in Receiver BY <1>1 DEF IInv, HandlersHold, HandlerOK
<1>5. /\ buf' \in BufferType(Receiver) /\ buf'.chunks = buf.chunks
      /\ buf'.top = buf.top /\ buf'.eof = buf.eof /\ buf'.freezing = buf.freezing
      /\ buf'.expected = buf.expected \ {c}
      /\ Bounded(buf', confirmed) /\ Sound(buf', confirmed, loose')
  <2> HIDE DEF c, present
  <2> QED BY <1>1, BufferBefore, RemoveConsumerSound
<1>6. loose' \subseteq Index BY <1>1, BufferBefore
<1>7. /\ confirmed' \in [Index -> SUBSET Receiver] /\ crossed' \subseteq Receiver
      /\ \A i \in buf'.chunks : confirmed'[i] \subseteq buf'.expected
  <2> HIDE DEF c, present
  <2>1. confirmed' \in [Index -> SUBSET Receiver] BY <1>1, BufferBefore
  <2>2. crossed' \subseteq Receiver BY <1>1, <1>4 DEF IInv, Types
  <2>3. \A i \in buf.chunks : confirmed[i] \subseteq buf.expected BY DEF IInv, History
  <2> QED BY <1>1, <1>5, <2>1, <2>2, <2>3, BufferBefore
<1>8. Bounded(buf', confirmed') /\ Sound(buf', confirmed', loose')
  <2> DEFINE b == buf'
             conf2 == confirmed'
             loose2 == loose'
  <2>1. /\ b \in BufferType(Receiver) /\ b.expected = buf.expected \ {c}
        /\ Bounded(b, confirmed) /\ Sound(b, confirmed, loose2)
    BY <1>5
  <2>2. \A i \in Index : /\ conf2[i] \subseteq confirmed[i]
                         /\ confirmed[i] \cap b.expected \subseteq conf2[i]
    BY <1>1, <2>1
  <2> HIDE DEF b, conf2, loose2
  <2>3. Bounded(b, conf2) /\ Sound(b, conf2, loose2)
    BY <2>1, <2>2, BufferBefore, ForgetSound
  <2> QED BY <2>3 DEF b, conf2, loose2
<1>9. Types' BY <1>1, <1>2, <1>3, <1>5, <1>6, <1>7 DEF IInv, Types, Moves
<1>10. HandlersHold'
  <2>1. HandlerOK(t)'
    BY <1>1, <1>2, <1>3
    DEF IInv, HandlersHold, HandlerOK, Confirming, Joining, Removing, Dropping
  <2> QED BY <1>2, <1>3, <2>1, OthersHold DEF IInv, HandlersHold, HandlerOK
<1>11. RoomForUploads' BY <1>3, <1>5, RoomKept DEF Adding
<1>12. Membership'
  <2>1. \A u \in Thread : pc[u] = "joinPush" => local[u].who \in buf'.expected \cup crossed'
    BY <1>1, <1>5 DEF IInv, Membership
  <2>2. receivers \subseteq buf'.expected \cup crossed'
    BY <1>1, <1>5 DEF IInv, Membership
  <2>3. receivers' \subseteq joined' BY <1>2 DEF IInv, Membership
  <2> QED BY <1>2, <1>3, <2>1, <2>2, <2>3 DEF Membership, Moves
<1>13. Discrepancies'
  <2> SUFFICES ASSUME ~Stuck', Sender \in alive'
               PROVE  /\ \A d \in receivers' \ alive' :
                             \E u \in Thread : pc'[u] = "rmList" /\ local'[u].who = d
                      /\ \A d \in buf'.expected \ receivers' :
                             \E u \in Thread :
                                 /\ pc'[u] \in {"joinPush", "rmList", "rmConsumer"}
                                 /\ local'[u].who = d
    BY DEF Discrepancies
  <2>1. ~Stuck BY <1>1, <1>3 DEF Stuck, Moves
  <2>2. \A d \in receivers' \ alive' :
            \E u \in Thread : pc'[u] = "rmList" /\ local'[u].who = d
    BY <1>1, <1>2, <1>3, <2>1 DEF IInv, Discrepancies, Moves
  <2>3. \A d \in buf'.expected \ receivers' :
            \E u \in Thread : /\ pc'[u] \in {"joinPush", "rmList", "rmConsumer"}
                              /\ local'[u].who = d
    BY <1>2, <1>3, <1>5, <2>1 DEF IInv, Discrepancies, Moves
  <2> QED BY <2>2, <2>3
<1>14. AbandonmentSeen'
  BY <1>1, <1>2, <1>3, <1>5, AbandonmentKept DEF Abandons
<1>15. CompletionSeen'
  BY <1>1, <1>2, <1>3, <1>5, CompletionKept DEF Completes
<1>16. CountsHold' BY <1>1, <1>3, <1>5, CountsKept DEF CountedNone
<1>17. OkWhenDone' BY <1>1, <1>2, <1>3, <1>5, NotOver, OkKept
<1>18. History' BY <1>7, <1>8 DEF History
<1> QED
  BY <1>9, <1>10, <1>11, <1>12, <1>13, <1>14, <1>15, <1>16, <1>17, <1>18 DEF IInv

\* The end of a receiver starts its removal while the sender is there.
LEMMA ReceiverDestroyedKeeps ==
    ASSUME IInv, NEW t \in Thread, NEW c \in Receiver, ReceiverDestroyed(t, c)
    PROVE  IInv'
<1> DEFINE l == [AtRest EXCEPT !.who = c]
           s == IF Sender \in alive THEN "rmList" ELSE "goneEof"
<1>1. /\ listed \/ ~Quiescent
      /\ c \in alive \cap joined /\ alive' = alive \ {c} /\ Begin(t, s, l)
      /\ \A u \in Thread : c \notin {local[u].by, local[u].kept}
      /\ UNCHANGED <<buf, session, ending, joined, history>>
  BY DEF ReceiverDestroyed, Unowned
<1>2. l \in Locals /\ l.by = Nobody /\ l.who = c /\ l.kept = Nobody /\ l.back = "idle"
  BY DEF AtRest, Locals, Client
<1>3. s \in Place /\ s \in {"rmList", "goneEof"} /\ (Sender \in alive => s = "rmList")
  BY DEF Place, Removing
<1> HIDE DEF l, s
<1>4. pc[t] = "idle" /\ Moves(t) /\ pc'[t] = s /\ local'[t] = l
  BY <1>1, <1>2, <1>3, BeginMoves DEF IInv
<1>5. /\ UNCHANGED <<receivers, mutex, named, autoDrop, autoFired>>
      /\ UNCHANGED <<completeType, listed, over, joined>>
      /\ UNCHANGED <<confirmed, loose, late, overtaking, crossed, drainedBy>> /\ buf' = buf
  BY <1>1 DEF session, ending, history
<1>6. Types' BY <1>1, <1>4, <1>5 DEF IInv, Types, Moves
<1>7. HandlersHold'
  <2>1. HandlerOK(t)'
    BY <1>1, <1>2, <1>3, <1>4, <1>5
    DEF IInv, HandlersHold, HandlerOK, Confirming, Joining, Removing
  <2>2. \A u \in Thread \ {t} : /\ local[u].by \in alive => local[u].by \in alive'
                                /\ local[u].kept \in alive => local[u].kept \in alive'
    BY <1>1
  <2> QED BY <1>4, <1>5, <2>1, <2>2, OthersHold DEF IInv, HandlersHold, HandlerOK
<1>8. RoomForUploads' BY <1>3, <1>4, <1>5, RoomKept DEF Adding
<1>9. Membership' BY <1>3, <1>4, <1>5, MembershipKept DEF Joining, Removing
<1>10. Discrepancies'
  <2> SUFFICES ASSUME ~Stuck', Sender \in alive'
               PROVE  /\ \A d \in receivers' \ alive' :
                             \E u \in Thread : pc'[u] = "rmList" /\ local'[u].who = d
                      /\ \A d \in buf'.expected \ receivers' :
                             \E u \in Thread :
                                 /\ pc'[u] \in {"joinPush", "rmList", "rmConsumer"}
                                 /\ local'[u].who = d
    BY DEF Discrepancies
  <2>0. ~Stuck BY <1>4 DEF Stuck, Moves
  <2>1. \A d \in receivers' \ alive' :
            \E u \in Thread : pc'[u] = "rmList" /\ local'[u].who = d
    BY <1>1, <1>2, <1>3, <1>4, <1>5, <2>0 DEF IInv, Discrepancies, Moves
  <2>2. \A d \in buf'.expected \ receivers' :
            \E u \in Thread : /\ pc'[u] \in {"joinPush", "rmList", "rmConsumer"}
                              /\ local'[u].who = d
    BY <1>1, <1>4, <1>5, <2>0 DEF IInv, Discrepancies, Moves
  <2> QED BY <2>1, <2>2
<1>11. AbandonmentSeen' BY <1>1, <1>4, <1>5, AbandonmentKept DEF Abandons
<1>12. CompletionSeen' BY <1>4, <1>5, CompletionKept DEF Completes
<1>13. CountsHold' BY <1>3, <1>4, <1>5, CountsKept DEF CountedNone
<1>14. OkWhenDone' BY <1>1, <1>3, <1>4, <1>5, NotOver, OkKept
<1>15. History' BY <1>5 DEF IInv, History
<1> QED
  BY <1>6, <1>7, <1>8, <1>9, <1>10, <1>11, <1>12, <1>13, <1>14, <1>15 DEF IInv

LEMMA SenderDestroyedKeeps ==
    ASSUME IInv, NEW t \in Thread, SenderDestroyed(t)
    PROVE  IInv'
<1>1. /\ listed \/ ~Quiescent
      /\ alive' = alive \ {Sender} /\ Begin(t, "goneEof", AtRest)
      /\ \A u \in Thread : Sender \notin {local[u].by, local[u].kept}
      /\ UNCHANGED <<buf, session, ending, joined, history>>
  BY DEF SenderDestroyed, Unowned
<1>2. pc[t] = "idle" /\ Moves(t) /\ pc'[t] = "goneEof" /\ local'[t] = AtRest
  BY <1>1, AtRestTyped, BeginMoves DEF IInv, Place
<1>3. /\ UNCHANGED <<receivers, mutex, named, autoDrop, autoFired>>
      /\ UNCHANGED <<completeType, listed, over, joined>>
      /\ UNCHANGED <<confirmed, loose, late, overtaking, crossed, drainedBy>> /\ buf' = buf
  BY <1>1 DEF session, ending, history
<1>4. Types' BY <1>1, <1>2, <1>3 DEF IInv, Types, Moves
<1>5. HandlersHold'
  <2>1. HandlerOK(t)'
    BY <1>1, <1>2, <1>3
    DEF IInv, HandlersHold, HandlerOK, AtRest, Confirming, Joining, Removing
  <2>2. \A u \in Thread \ {t} : /\ local[u].by \in alive => local[u].by \in alive'
                                /\ local[u].kept \in alive => local[u].kept \in alive'
    BY <1>1
  <2> QED BY <1>2, <1>3, <2>1, <2>2, OthersHold DEF IInv, HandlersHold, HandlerOK
<1>6. RoomForUploads' BY <1>2, <1>3, RoomKept DEF Adding
<1>7. Membership' BY <1>2, <1>3, MembershipKept DEF Joining, Removing
<1>8. Discrepancies' BY <1>1 DEF Discrepancies
<1>9. AbandonmentSeen' BY <1>1 DEF AbandonmentSeen
<1>10. CompletionSeen' BY <1>2, <1>3, CompletionKept DEF Completes
<1>11. CountsHold' BY <1>2, <1>3, CountsKept DEF CountedNone
<1>12. OkWhenDone' BY <1>1, <1>2, <1>3, NotOver, OkKept
<1>13. History' BY <1>3 DEF IInv, History
<1> QED
  BY <1>4, <1>5, <1>6, <1>7, <1>8, <1>9, <1>10, <1>11, <1>12, <1>13 DEF IInv

\* A handler that has locked itself out leaves nothing to be settled: it keeps the
\* mutex, and the session, for ever.
LEMMA ReenterKeeps ==
    ASSUME IInv, NEW t \in Thread, Reenter(t)
    PROVE  IInv'
<1>1. PICK c \in LockedUnderMutex(t) : Unowned(c) /\ alive' = alive \ {c}
  BY DEF Reenter
<1>2. /\ pc[t] \in {"join", "joinPush", "rmList"}
      /\ pc[t] = "joinPush" \/ mutex = Nobody
      /\ mutex' = t /\ pc' = [pc EXCEPT ![t] = "reentered"] /\ local' = local
      /\ UNCHANGED <<buf, receivers, named, autoDrop, autoFired, ending, joined, history>>
  BY DEF Reenter
<1>3. /\ UNCHANGED <<completeType, listed, over>> /\ alive' \subseteq alive
      /\ UNCHANGED <<confirmed, loose, late, overtaking, crossed, drainedBy>>
  BY <1>1, <1>2 DEF ending, history
<1>4. Moves(t) /\ pc'[t] = "reentered" /\ local'[t] = local[t]
  BY <1>2 DEF IInv, Types, Moves, Place
<1>5. Types' BY <1>2, <1>3, <1>4 DEF IInv, Types, Moves
<1>6. HandlersHold'
  <2>1. \A u \in Thread : /\ local[u].by \in alive => local[u].by \in alive'
                          /\ local[u].kept \in alive => local[u].kept \in alive'
    BY <1>1 DEF Unowned
  <2>2. HandlerOK(t)'
    BY <1>2, <1>4, <2>1
    DEF IInv, HandlersHold, HandlerOK, Confirming, Joining, Removing, Dropping
  <2>3. \A u \in Thread \ {t} : mutex' = u <=> mutex = u
    BY <1>2, SessionAssumption DEF IInv, HandlersHold, HandlerOK
  <2> QED BY <1>4, <2>1, <2>2, <2>3, OthersHold
<1>7. RoomForUploads' BY <1>2, <1>4, RoomKept DEF Adding
<1>8. Membership' BY <1>2, <1>3, <1>4, MembershipKept
<1>9. Discrepancies' BY <1>4 DEF Discrepancies, Stuck
<1>10. AbandonmentSeen' BY <1>2, <1>3, <1>4, AbandonmentKept DEF Abandons
<1>11. CompletionSeen' BY <1>2, <1>3, <1>4, CompletionKept DEF Completes
<1>12. CountsHold' BY <1>2, <1>3, <1>4, CountsKept DEF CountedNone
<1>13. OkWhenDone' BY <1>2, <1>3, <1>4, NotOver, OkKept
<1>14. History' BY <1>2, <1>3 DEF IInv, History
<1> QED
  BY <1>5, <1>6, <1>7, <1>8, <1>9, <1>10, <1>11, <1>12, <1>13, <1>14 DEF IInv

-----------------------------------------------------------------------------
(* The other steps, and every step *)

LEMMA SetFileInfoKeeps ==
    ASSUME IInv, SetFileInfo
    PROVE  IInv'
<1>1. /\ named' = TRUE
      /\ UNCHANGED <<buf, receivers, mutex, autoDrop, autoFired, ending, clients, pc,
                     local, history>>
  BY DEF SetFileInfo
<1>2. /\ UNCHANGED <<buf, receivers, mutex, autoDrop, autoFired, pc, local>>
      /\ UNCHANGED <<completeType, listed, over, alive, joined>>
      /\ UNCHANGED <<confirmed, loose, late, overtaking, crossed, drainedBy>>
  BY <1>1 DEF ending, clients, history
<1>3. Types' BY <1>1, <1>2 DEF IInv, Types
<1>4. HandlersHold' /\ RoomForUploads' /\ Membership' /\ Discrepancies'
  BY <1>2
  DEF IInv, HandlersHold, HandlerOK, RoomForUploads, Membership, Discrepancies, Stuck
<1>5. AbandonmentSeen' /\ CompletionSeen' /\ CountsHold'
  BY <1>2 DEF IInv, AbandonmentSeen, Abandons, CompletionSeen, Completes, CountsHold,
              CountedNone
<1>6. OkWhenDone' /\ History'
  BY <1>2 DEF IInv, OkWhenDone, Quiescent, History
<1> QED BY <1>3, <1>4, <1>5, <1>6 DEF IInv

LEMMA DestroyKeeps ==
    ASSUME IInv, Destroy
    PROVE  IInv'
<1>1. /\ ~listed /\ Quiescent /\ over' = completeType
      /\ UNCHANGED <<buf, session, completeType, listed, clients, pc, local, history>>
  BY DEF Destroy
<1>2. /\ UNCHANGED <<buf, receivers, mutex, named, autoDrop, autoFired, pc, local>>
      /\ UNCHANGED <<completeType, listed, alive, joined>>
      /\ UNCHANGED <<confirmed, loose, late, overtaking, crossed, drainedBy>>
  BY <1>1 DEF session, clients, history
<1>3. Types' BY <1>1, <1>2 DEF IInv, Types
<1>4. HandlersHold' /\ RoomForUploads' /\ Membership' /\ Discrepancies'
  BY <1>2
  DEF IInv, HandlersHold, HandlerOK, RoomForUploads, Membership, Discrepancies, Stuck
<1>5. AbandonmentSeen' /\ CompletionSeen' /\ CountsHold'
  BY <1>2 DEF IInv, AbandonmentSeen, Abandons, CompletionSeen, Completes, CountsHold,
              CountedNone
<1>6. OkWhenDone' /\ History'
  BY <1>1, <1>2 DEF IInv, OkWhenDone, Quiescent, History
<1> QED BY <1>3, <1>4, <1>5, <1>6 DEF IInv

LEMMA StutterKeeps ==
    ASSUME IInv, UNCHANGED vars
    PROVE  IInv'
<1>1. /\ UNCHANGED <<buf, receivers, mutex, named, autoDrop, autoFired, pc, local>>
      /\ UNCHANGED <<completeType, listed, over, alive, joined>>
      /\ UNCHANGED <<confirmed, loose, late, overtaking, crossed, drainedBy>>
  BY DEF vars, session, ending, clients, history
<1>2. Types' BY <1>1 DEF IInv, Types
<1>3. HandlersHold' /\ RoomForUploads' /\ Membership' /\ Discrepancies'
  BY <1>1
  DEF IInv, HandlersHold, HandlerOK, RoomForUploads, Membership, Discrepancies, Stuck
<1>4. AbandonmentSeen' /\ CompletionSeen' /\ CountsHold'
  BY <1>1 DEF IInv, AbandonmentSeen, Abandons, CompletionSeen, Completes, CountsHold,
              CountedNone
<1>5. OkWhenDone' /\ History'
  BY <1>1 DEF IInv, OkWhenDone, Quiescent, History
<1> QED BY <1>2, <1>3, <1>4, <1>5 DEF IInv

LEMMA StartKeeps ==
    ASSUME IInv, NEW t \in Thread, Start(t)
    PROVE  IInv'
<1>1. CASE StartAddChunk(t) BY <1>1, StartAddChunkKeeps
<1>2. CASE \E c \in Client, i \in Index : StartConfirm(t, c, i)
  BY <1>2, StartConfirmKeeps
<1>3. CASE StartEndOfFile(t) BY <1>3, StartEndOfFileKeeps
<1>4. CASE StartDropBySender(t) BY <1>4, StartDropBySenderKeeps
<1>5. CASE StartDropByTimer(t) BY <1>5, StartDropByTimerKeeps
<1>6. CASE \E c \in Receiver : StartJoin(t, c) \/ StartKick(t, c)
                               \/ ReceiverDestroyed(t, c)
  BY <1>6, StartJoinKeeps, StartKickKeeps, ReceiverDestroyedKeeps
<1>7. CASE SenderDestroyed(t) BY <1>7, SenderDestroyedKeeps
<1>8. CASE Terminate(t) BY <1>8, TerminateKeeps
<1>9. CASE SetTimedout(t) BY <1>9, SetTimedoutKeeps
<1> QED
  BY <1>1, <1>2, <1>3, <1>4, <1>5, <1>6, <1>7, <1>8, <1>9 DEF Start

LEMMA StepKeeps ==
    ASSUME IInv, NEW t \in Thread, Step(t)
    PROVE  IInv'
<1>1. CASE AddChunkSteps(t)
  BY <1>1, AddTestEndOfFileKeeps, AddInsertKeeps DEF AddChunkSteps
<1>2. CASE ConfirmSteps(t)
  BY <1>2, ConfirmSetKeeps, ConfirmCountKeeps, ConfirmEndKeeps DEF ConfirmSteps
<1>3. CASE EndOfFileCount(t) BY <1>3, EndOfFileCountKeeps
<1>4. CASE DropSteps(t)
  BY <1>4, DropUnfreezeKeeps, DropCheckReceiversKeeps, DropCountKeeps,
     DropTestEndOfFileKeeps DEF DropSteps
<1>5. CASE JoinAsConsumer(t) BY <1>5, JoinAsConsumerKeeps
<1>6. CASE JoinPush(t) BY <1>6, JoinPushKeeps
<1>7. CASE RemoveSteps(t)
  BY <1>7, RemoveFromListKeeps, RemoveFromConsumersKeeps, RemoveSweepKeeps,
     RemoveCheckKeeps, RemoveTestEndOfFileKeeps, RemoveCountKeeps DEF RemoveSteps
<1>8. CASE GoneTestEndOfFile(t) BY <1>8, GoneTestEndOfFileKeeps
<1>9. CASE GoneTestReceivers(t) BY <1>9, GoneTestReceiversKeeps
<1>10. CASE UnlistStep(t) BY <1>10, UnlistStepKeeps
<1> QED
  BY <1>1, <1>2, <1>3, <1>4, <1>5, <1>6, <1>7, <1>8, <1>9, <1>10 DEF Step

LEMMA StepIInv ==
    ASSUME IInv, [Next]_vars
    PROVE  IInv'
<1>1. CASE UNCHANGED vars BY <1>1, StutterKeeps
<1>2. CASE SetFileInfo BY <1>2, SetFileInfoKeeps
<1>3. CASE Destroy BY <1>3, DestroyKeeps
<1>4. CASE \E t \in Thread : Start(t) \/ Step(t) \/ Reenter(t)
  BY <1>4, StartKeeps, StepKeeps, ReenterKeeps
<1> QED BY <1>1, <1>2, <1>3, <1>4 DEF Next

LEMMA InitIInv ==
    ASSUME Init
    PROVE  IInv
<1>1. /\ buf = EmptyBuffer /\ receivers = {} /\ mutex = Nobody
      /\ named = FALSE /\ autoDrop \in BOOLEAN /\ autoFired = FALSE
      /\ completeType = "ok" /\ listed = TRUE /\ over = "no"
      /\ alive = Client /\ joined = {}
      /\ pc = [t \in Thread |-> "idle"] /\ local = [t \in Thread |-> AtRest]
      /\ confirmed = [i \in Index |-> {}]
      /\ loose = {} /\ late = {} /\ overtaking = {} /\ crossed = {}
  BY DEF Init
<1>2. buf \in BufferType(Receiver)
  BY <1>1, LimitsAssumption DEF EmptyBuffer, BufferType
<1>3. /\ buf.chunks = {} /\ buf.top = 0 /\ buf.eof = FALSE /\ buf.freezing = TRUE
      /\ buf.expected = {}
  BY <1>1 DEF EmptyBuffer
<1>4. Types
  BY <1>1, <1>2, AtRestTyped DEF Types, Place, CompleteType, Client
<1>5. HandlersHold
  BY <1>1, SessionAssumption
  DEF HandlersHold, HandlerOK, AtRest, Confirming, Joining, Removing
<1>6. RoomForUploads
  <2>1. {u \in Thread : pc[u] \in Adding} = {} BY <1>1 DEF Adding
  <2> QED BY <1>3, <2>1, FS_EmptySet, LimitsAssumption DEF RoomForUploads
<1>7. Membership BY <1>1, <1>3 DEF Membership, Joining, Removing
<1>8. Discrepancies BY <1>1, <1>3 DEF Discrepancies
<1>9. AbandonmentSeen /\ CompletionSeen BY <1>3 DEF AbandonmentSeen, CompletionSeen
<1>10. CountsHold BY <1>1, <1>3 DEF CountsHold
<1>11. OkWhenDone BY <1>1 DEF OkWhenDone
<1>12. History
  <2>1. Sound(buf, confirmed, loose) BY <1>1, EmptySound
  <2>2. Bounded(buf, confirmed) BY <1>1, EmptySound
  <2> QED BY <1>1, <1>3, <2>1, <2>2 DEF History
<1> QED
  BY <1>4, <1>5, <1>6, <1>7, <1>8, <1>9, <1>10, <1>11, <1>12 DEF IInv

-----------------------------------------------------------------------------
(* The theorems *)

\* The inductive invariant holds in every reachable state.
THEOREM Invariance == Spec => []IInv
BY InitIInv, StepIInv, PTL DEF Spec

\* Types: every variable stays in its type, an idle thread has no locals left over
\* from a handler, and m_receiversMutex is held only inside addReceiver, between
\* the consumer's registration and the push into m_dataReceivers.
THEOREM TypeCorrect == Spec => []TypeOK
<1>1. IInv => TypeOK
  BY DEF IInv, Types, HandlersHold, HandlerOK, TypeOK
<1> QED BY <1>1, Invariance, PTL

\* Completion is never missed (setChunkAsReceived, setEndOfFile and
\* dropInitialChunksFreeze each test for it): with the upload over, the buffer
\* empty and no handler running the session is removed, unless a departure took
\* the last chunk.
THEOREM CompletionIsNotMissed == Spec => []CompletionNotMissed
<1>1. IInv => CompletionNotMissed
  BY DEF IInv, CompletionSeen, Completes, Quiescent, CompletionNotMissed
<1> QED BY <1>1, Invariance, PTL

\* A session does not outlive its receivers (removeReceiver against
\* dropInitialChunksFreeze): after the freeze, with the sender there and no handler
\* running, a listed session has a living receiver.
THEOREM NoSessionIsAbandoned == Spec => []NoAbandonedSession
<1>1. IInv => NoAbandonedSession
  <2> SUFFICES ASSUME IInv, Quiescent, listed, ~buf.freezing, Sender \in alive
               PROVE  receivers \cap alive # {}
    BY DEF NoAbandonedSession
  <2>1. receivers # {} BY DEF IInv, AbandonmentSeen, Abandons, Quiescent
  <2>2. receivers \subseteq alive BY DEF IInv, Discrepancies, Stuck, Quiescent
  <2> QED BY <2>1, <2>2
<1> QED BY <1>1, Invariance, PTL

\* m_dataReceivers and Buffer::m_expectedConsumers, changed under two mutexes by
\* addReceiver and removeReceiver, agree whenever no handler is running, but for
\* receivers whose join crossed their removal: whoever is expected is listed, and
\* whoever is listed and did not cross is expected.
THEOREM ReceiversAreTheConsumers == Spec => []ReceiversAreConsumers
<1>1. IInv => ReceiversAreConsumers
  <2> SUFFICES ASSUME IInv, Quiescent, Sender \in alive
               PROVE  /\ receivers \subseteq alive
                      /\ buf.expected \subseteq receivers
                      /\ receivers \ crossed \subseteq buf.expected
    BY DEF ReceiversAreConsumers
  <2>1. receivers \ crossed \subseteq buf.expected BY DEF IInv, Membership
  <2>2. buf.expected \subseteq receivers /\ receivers \subseteq alive
    BY DEF IInv, Discrepancies, Stuck, Quiescent
  <2> QED BY <2>1, <2>2
<1> QED BY <1>1, Invariance, PTL

\* A session that reports "ok" from its destructor has delivered: the upload has
\* ended and whoever is still a receiver, and did not join across its own removal,
\* has confirmed every chunk, save those confirmed out of order and those that
\* slipped in past a count.
THEOREM OkIsDelivered == Spec => []OkMeansDelivered
<1>1. IInv => OkMeansDelivered
  <2> SUFFICES ASSUME IInv, over = "ok", ~autoDrop
               PROVE  buf.eof /\ \A c \in receivers \ crossed, i \in 1..buf.top :
                          c \in confirmed[i] \/ i \in loose \cup late \cup overtaking
    BY DEF OkMeansDelivered
  <2>1. buf.eof /\ buf.chunks \subseteq late \cup overtaking
    BY DEF IInv, OkWhenDone
  <2>2. receivers \ crossed \subseteq buf.expected BY DEF IInv, Membership
  <2>3. Released(buf, confirmed, loose) BY DEF IInv, History, Sound
  <2> QED BY <2>1, <2>2, <2>3 DEF Released
<1> QED BY <1>1, Invariance, PTL
=============================================================================
