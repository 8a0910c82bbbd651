-------------------------- MODULE ConnectionProofs --------------------------
(***************************************************************************)
(* Proofs about ClientConnection, for any number of connections: that the  *)
(* callback of an event runs once, that a connected client is reachable    *)
(* and an absent one is timed, that no client is timed out while it is     *)
(* connected, and that its connections go with it.                         *)
(***************************************************************************)
EXTENDS ClientConnection, SequenceTheorems, TLAPS

-----------------------------------------------------------------------------
(* The inductive invariant *)

\* An event that is still to be resolved has not been, and the end of the
\* session is reported after it left its list.
AcksOnce ==
    /\ \A e \in Event : ran[e] <= 1
    /\ \A e \in pending \cup taken : ran[e] = 0
    /\ session # "reported" => ~Raised("complete")

\* A timer that runs is on its way to fire, and it runs while there is no
\* connection.
TimerOnItsWay ==
    client = "listed" =>
        /\ timer.running => timer.armed \/ timer.due > 0 \/ firing
        /\ ~(\E k \in Conn : Live(k)) => firing \/ timer.running

\* What the client has lost sight of is being closed.
OthersClosing ==
    client # "destroyed" /\ ~overlap =>
        \A k \in Conn : Live(k) /\ k # pointer => k \in sentClose

\* The client ends when no handler holds it, and closes what it still has.
GoneForGood ==
    client = "destroyed" =>
        /\ pointer = None
        /\ \A k \in Conn : server[k] \notin {"accepting", "opening"}
        /\ ~overlap => \A k \in Conn : Live(k) => k \in sentClose

FiringWhenAway ==
    firing /\ client = "listed" /\ ~stale /\ ~overlap => ~\E k \in Conn : Live(k)

IInv ==
    /\ TypeOK /\ AcksOnce /\ TimerOnItsWay /\ ConnectedMeansReachable
    /\ OthersClosing /\ GoneForGood /\ FiringWhenAway

-----------------------------------------------------------------------------
(* What is under way on a connection *)

Frame == Event \cup {"close"}

\* A close frame put into a queue, at its end or ahead, leaves it a queue.
LEMMA QueueGrows ==
    ASSUME NEW q \in Seq(Frame), NEW x \in Frame, NEW n \in 0..Len(q)
    PROVE  /\ Append(q, x) \in Seq(Frame)
           /\ Append(SubSeq(q, 1, n), x) \in Seq(Frame)
           /\ q \o <<x, "close">> \in Seq(Frame)
           /\ <<"close">> \in Seq(Frame)
           /\ q # <<>> => Tail(q) \in Seq(Frame)
<1>1. SubSeq(q, 1, n) \in Seq(Frame)
  BY SubSeqProperties
<1>2. Append(q, x) \in Seq(Frame) /\ Append(SubSeq(q, 1, n), x) \in Seq(Frame)
  BY <1>1, AppendProperties
<1>3. <<x, "close">> \in Seq(Frame) /\ <<"close">> \in Seq(Frame)
  BY DEF Frame
<1>4. q \o <<x, "close">> \in Seq(Frame)
  BY <1>3, ConcatProperties
<1>5. q # <<>> => Tail(q) \in Seq(Frame)
  BY HeadTailProperties
<1> QED BY <1>2, <1>3, <1>4, <1>5

\* Closing connections changes their queues to queues.
LEMMA CloseAfterTypes ==
    ASSUME Queues, NEW ks, CloseAfter(ks)
    PROVE  toPage' \in [Conn -> Seq(Frame)]
<1>1. \A k \in Conn : toPage[k] \in Seq(Frame) /\ "close" \in Frame
  BY DEF Queues, Frame
<1>2. \A k \in Conn : Append(toPage[k], "close") \in Seq(Frame)
  BY <1>1, AppendProperties
<1> QED BY <1>1, <1>2 DEF CloseAfter

LEMMA CloseAheadTypes ==
    ASSUME Queues, NEW k \in Conn, CloseAhead(k)
    PROVE  toPage' \in [Conn -> Seq(Frame)]
<1>1. toPage \in [Conn -> Seq(Frame)] /\ "close" \in Frame
  BY DEF Queues, Frame
<1>2. CASE UNCHANGED toPage
  BY <1>1, <1>2
<1>3. CASE \E n \in 0..Len(toPage[k]) :
               toPage' = [toPage EXCEPT ![k] = Append(SubSeq(@, 1, n), "close")]
  <2>1. PICK n \in 0..Len(toPage[k]) :
             toPage' = [toPage EXCEPT ![k] = Append(SubSeq(@, 1, n), "close")]
    BY <1>3
  <2>2. Append(SubSeq(toPage[k], 1, n), "close") \in Seq(Frame)
    BY <1>1, <2>1, QueueGrows
  <2> QED BY <1>1, <2>1, <2>2
<1> QED BY <1>2, <1>3 DEF CloseAhead

\* No connection is none.
LEMMA NoneApart == None \notin Conn
  BY ConnectionAssumption

-----------------------------------------------------------------------------
(* Every step keeps the invariant *)

\* A wait that ends leaves its handler due.
LEMMA ExpireKeeps ==
    ASSUME IInv, Expire
    PROVE  IInv'
<1> USE NoneApart DEF IInv, Expire,
        registry, link, acks, net, history
<1>1. Queues' BY DEF TypeOK, Queues, Frame
<1>2. TypeOK'
  <2>1. timer \in [running : BOOLEAN, armed : BOOLEAN, due : Nat] /\ timer.due + 1 \in Nat
    BY DEF TypeOK
  <2>2. timer' \in [running : BOOLEAN, armed : BOOLEAN, due : Nat]
    <3>1. timer' = [timer EXCEPT !.armed = FALSE, !.due = timer.due + 1]
      OBVIOUS
    <3> HIDE DEF Expire, IInv
    <3> QED BY <2>1, <3>1
  <2> QED BY <1>1, <2>2 DEF TypeOK, Live
<1>3. AcksOnce' BY DEF AcksOnce, TypeOK, Raised
<1>4. TimerOnItsWay' BY DEF TimerOnItsWay, TypeOK, Live
<1>5. ConnectedMeansReachable' BY DEF ConnectedMeansReachable, TypeOK, Live
<1>6. OthersClosing' BY DEF OthersClosing, TypeOK, Live
<1>7. GoneForGood' BY DEF GoneForGood, TypeOK, Live
<1>8. FiringWhenAway' BY DEF FiringWhenAway, TypeOK, Live
<1> QED BY <1>2, <1>3, <1>4, <1>5, <1>6, <1>7, <1>8

\* A handler that finds the timer running removes a client that is away.
LEMMA RunExpiredKeeps ==
    ASSUME IInv, RunExpired
    PROVE  IInv'
<1> USE NoneApart DEF IInv, RunExpired,
        registry, link, acks, net, history
<1>1. Queues' BY DEF TypeOK, Queues, Frame
<1>2. TypeOK' BY <1>1 DEF TypeOK, Live
<1>3. AcksOnce' BY DEF AcksOnce, TypeOK, Raised
<1>4. TimerOnItsWay' BY DEF TimerOnItsWay, TypeOK, Live
<1>5. ConnectedMeansReachable' BY DEF ConnectedMeansReachable, TypeOK, Live
<1>6. OthersClosing' BY DEF OthersClosing, TypeOK, Live
<1>7. GoneForGood' BY DEF GoneForGood, TypeOK, Live
<1>8. FiringWhenAway' BY DEF FiringWhenAway, ConnectedMeansReachable, TypeOK, Live
<1> QED BY <1>2, <1>3, <1>4, <1>5, <1>6, <1>7, <1>8

\* The client that is removed is no longer listed.
LEMMA FireKeeps ==
    ASSUME IInv, Fire
    PROVE  IInv'
<1> USE NoneApart DEF IInv, Fire, Remove,
        registry, link, acks, net, history
<1>1. Queues' BY DEF TypeOK, Queues, Frame
<1>2. TypeOK' BY <1>1 DEF TypeOK, Live
<1>3. AcksOnce' BY DEF AcksOnce, TypeOK, Raised
<1>4. TimerOnItsWay' BY DEF TimerOnItsWay, TypeOK, Live
<1>5. ConnectedMeansReachable' BY DEF ConnectedMeansReachable, TypeOK, Live
<1>6. OthersClosing' BY DEF OthersClosing, TypeOK, Live
<1>7. GoneForGood' BY DEF GoneForGood, TypeOK, Live
<1>8. FiringWhenAway' BY DEF FiringWhenAway, TypeOK, Live
<1> QED BY <1>2, <1>3, <1>4, <1>5, <1>6, <1>7, <1>8

\* A request is no connection yet.
LEMMA ConnectKeeps ==
    ASSUME IInv, NEW k \in Conn, Connect(k)
    PROVE  IInv'
<1> USE NoneApart DEF IInv, Connect,
        registry, link, acks, net, history
<1>1. Queues' BY DEF TypeOK, Queues, Frame
<1>2. TypeOK' BY <1>1 DEF TypeOK, Live
<1>3. AcksOnce' BY DEF AcksOnce, TypeOK, Raised
<1>4. TimerOnItsWay' BY DEF TimerOnItsWay, TypeOK, Live
<1>5. ConnectedMeansReachable' BY DEF ConnectedMeansReachable, TypeOK, Live
<1>6. OthersClosing' BY DEF OthersClosing, TypeOK, Live
<1>7. GoneForGood' BY DEF GoneForGood, TypeOK, Live
<1>8. FiringWhenAway' BY DEF FiringWhenAway, TypeOK, Live
<1> QED BY <1>2, <1>3, <1>4, <1>5, <1>6, <1>7, <1>8

\* It never becomes one.
LEMMA RefuseKeeps ==
    ASSUME IInv, NEW k \in Conn, Refuse(k)
    PROVE  IInv'
<1> USE NoneApart DEF IInv, Refuse,
        registry, link, acks, net, history
<1>1. Queues' BY DEF TypeOK, Queues, Frame
<1>2. TypeOK' BY <1>1 DEF TypeOK, Live
<1>3. AcksOnce' BY DEF AcksOnce, TypeOK, Raised
<1>4. TimerOnItsWay' BY DEF TimerOnItsWay, TypeOK, Live
<1>5. ConnectedMeansReachable' BY DEF ConnectedMeansReachable, TypeOK, Live
<1>6. OthersClosing' BY DEF OthersClosing, TypeOK, Live
<1>7. GoneForGood' BY DEF GoneForGood, TypeOK, Live
<1>8. FiringWhenAway' BY DEF FiringWhenAway, TypeOK, Live
<1> QED BY <1>2, <1>3, <1>4, <1>5, <1>6, <1>7, <1>8

\* A client with a connection is told apart from one without.
LEMMA AcceptKeeps ==
    ASSUME IInv, NEW k \in Conn, Accept(k)
    PROVE  IInv'
<1> USE NoneApart DEF IInv, Accept, Admit,
        registry, link, acks, net, history
<1>1. Queues' BY DEF TypeOK, Queues, Frame
<1>2. TypeOK' BY <1>1 DEF TypeOK, Live
<1>3. AcksOnce' BY DEF AcksOnce, TypeOK, Raised
<1>4. TimerOnItsWay' BY DEF TimerOnItsWay, TypeOK, Live
<1>5. ConnectedMeansReachable' BY DEF ConnectedMeansReachable, TypeOK, Live
<1>6. OthersClosing' BY DEF OthersClosing, TypeOK, Live
<1>7. GoneForGood' BY DEF GoneForGood, TypeOK, Live
<1>8. FiringWhenAway' BY DEF FiringWhenAway, TypeOK, Live
<1> QED BY <1>2, <1>3, <1>4, <1>5, <1>6, <1>7, <1>8

\* The current connection is being closed from now on.
LEMMA DropCurrentKeeps ==
    ASSUME IInv, NEW k \in Conn, DropCurrent(k)
    PROVE  IInv'
<1> USE NoneApart DEF IInv, DropCurrent, Admit,
        registry, link, acks, net, history
<1>1. Queues' BY CloseAfterTypes DEF TypeOK, Queues, Frame
<1>2. TypeOK' BY <1>1 DEF TypeOK, Live, CloseAfter, CurrentConnection
<1>3. AcksOnce' BY DEF AcksOnce, TypeOK, Raised
<1>4. TimerOnItsWay' BY DEF TimerOnItsWay, TypeOK, Live
<1>5. ConnectedMeansReachable' BY DEF ConnectedMeansReachable, TypeOK, Live
<1>6. OthersClosing' BY DEF OthersClosing, TypeOK, Live, CloseAfter, CurrentConnection
<1>7. GoneForGood' BY DEF GoneForGood, TypeOK, Live, CloseAfter, CurrentConnection
<1>8. FiringWhenAway' BY DEF FiringWhenAway, TypeOK, Live
<1> QED BY <1>2, <1>3, <1>4, <1>5, <1>6, <1>7, <1>8

\* The client points to its new connection and its timer is stopped.
LEMMA OpenKeeps ==
    ASSUME IInv, NEW k \in Conn, Open(k)
    PROVE  IInv'
<1> USE NoneApart DEF IInv, Open, StopTimer,
        registry, link, acks, net, history
<1>1. Queues' BY DEF TypeOK, Queues, Frame
<1>2. TypeOK' BY <1>1 DEF TypeOK, Live
<1>3. AcksOnce' BY DEF AcksOnce, TypeOK, Raised
<1>4. TimerOnItsWay' BY DEF TimerOnItsWay, TypeOK, Live
<1>5. ConnectedMeansReachable' BY DEF ConnectedMeansReachable, TypeOK, Live
<1>6. OthersClosing' BY DEF OthersClosing, TypeOK, Live
<1>7. GoneForGood' BY DEF GoneForGood, TypeOK, Live
<1>8. FiringWhenAway' BY DEF FiringWhenAway, TypeOK, Live
<1> QED BY <1>2, <1>3, <1>4, <1>5, <1>6, <1>7, <1>8

\* A connection without a client is closed as it opens.
LEMMA OpenForNobodyKeeps ==
    ASSUME IInv, NEW k \in Conn, OpenForNobody(k)
    PROVE  IInv'
<1> USE NoneApart DEF IInv, OpenForNobody,
        registry, link, acks, net, history
<1>1. Queues' BY CloseAheadTypes, QueueGrows DEF TypeOK, Queues, Frame
<1>2. TypeOK' BY <1>1 DEF TypeOK, Live, CloseAhead
<1>3. AcksOnce' BY DEF AcksOnce, TypeOK, Raised
<1>4. TimerOnItsWay' BY DEF TimerOnItsWay, TypeOK, Live
<1>5. ConnectedMeansReachable' BY DEF ConnectedMeansReachable, TypeOK, Live
<1>6. OthersClosing' BY DEF OthersClosing, TypeOK, Live, CloseAhead
<1>7. GoneForGood' BY DEF GoneForGood, TypeOK, Live, CloseAhead
<1>8. FiringWhenAway' BY DEF FiringWhenAway, TypeOK, Live
<1> QED BY <1>2, <1>3, <1>4, <1>5, <1>6, <1>7, <1>8

\* A connection without a session is closed as it opens.
LEMMA LookUpSessionKeeps ==
    ASSUME IInv, NEW k \in Conn, LookUpSession(k)
    PROVE  IInv'
<1> USE NoneApart DEF IInv, LookUpSession,
        registry, link, acks, net, history
<1>1. Queues'
  <2>1. <<"close">> \in Seq(Event \cup {"close"})
    OBVIOUS
  <2>2. Queues /\ UNCHANGED toServer
    BY DEF TypeOK
  <2>3. \/ UNCHANGED toPage
        \/ toPage' = [toPage EXCEPT ![k] = IF page[k] = "closed" THEN toPage[k] ELSE <<"close">>]
    OBVIOUS
  <2> HIDE DEF LookUpSession, IInv
  <2> QED BY <2>1, <2>2, <2>3 DEF Queues
<1>2. TypeOK' BY <1>1 DEF TypeOK, Live
<1>3. AcksOnce' BY DEF AcksOnce, TypeOK, Raised
<1>4. TimerOnItsWay' BY DEF TimerOnItsWay, TypeOK, Live
<1>5. ConnectedMeansReachable' BY DEF ConnectedMeansReachable, TypeOK, Live
<1>6. OthersClosing' BY DEF OthersClosing, TypeOK, Live
<1>7. GoneForGood' BY DEF GoneForGood, TypeOK, Live
<1>8. FiringWhenAway' BY DEF FiringWhenAway, TypeOK, Live
<1> QED BY <1>2, <1>3, <1>4, <1>5, <1>6, <1>7, <1>8

\* The client loses its pointer, and no other connection is open or the overlap is noted.
LEMMA EndKeeps ==
    ASSUME IInv, NEW k \in Conn, server[k] = "open", End(k)
    PROVE  IInv'
<1> USE NoneApart DEF IInv, End, StartTimer,
        registry, link, acks, net, history
<1>1. Queues' BY SMTT(20) DEF TypeOK, Queues, Frame
<1>2. TypeOK'
  <2>1. timer' \in [running : BOOLEAN, armed : BOOLEAN, due : Nat]
    BY DEF TypeOK
  <2>2. pointer' \in {j \in Conn : Live(j)'} \cup {None}
    BY DEF TypeOK, Live, GoneForGood
  <2>3. server' \in [Conn -> {"unused", "requested", "accepting", "accepted", "opening",
                             "open", "gone"}]
        /\ page' \in [Conn -> {"unused", "connecting", "open", "closed"}]
        /\ overlap' \in BOOLEAN
    BY DEF TypeOK
  <2> QED BY <1>1, <2>1, <2>2, <2>3 DEF TypeOK
<1>3. AcksOnce' BY DEF AcksOnce, TypeOK, Raised
<1>4. TimerOnItsWay' BY DEF TimerOnItsWay, TypeOK, Live
<1>5. ConnectedMeansReachable' BY DEF ConnectedMeansReachable, TypeOK, Live
<1>6. OthersClosing' BY DEF OthersClosing, TypeOK, Live
<1>7. GoneForGood' BY DEF GoneForGood, TypeOK, Live
<1>8. FiringWhenAway' BY DEF FiringWhenAway, TypeOK, Live
<1> QED BY <1>2, <1>3, <1>4, <1>5, <1>6, <1>7, <1>8

\* The server does not notice yet.
LEMMA LoseKeeps ==
    ASSUME IInv, NEW k \in Conn, Lose(k)
    PROVE  IInv'
<1> USE NoneApart DEF IInv, Lose,
        registry, link, acks, net, history
<1>1. Queues'
  <2>1. <<>> \in Seq(Event \cup {"close"})
    OBVIOUS
  <2> QED BY <2>1 DEF TypeOK, Queues
<1>2. TypeOK' BY <1>1 DEF TypeOK, Live
<1>3. AcksOnce' BY DEF AcksOnce, TypeOK, Raised
<1>4. TimerOnItsWay' BY DEF TimerOnItsWay, TypeOK, Live
<1>5. ConnectedMeansReachable' BY DEF ConnectedMeansReachable, TypeOK, Live
<1>6. OthersClosing' BY DEF OthersClosing, TypeOK, Live
<1>7. GoneForGood' BY DEF GoneForGood, TypeOK, Live
<1>8. FiringWhenAway' BY DEF FiringWhenAway, TypeOK, Live
<1> QED BY <1>2, <1>3, <1>4, <1>5, <1>6, <1>7, <1>8

\* The event is a new one.
LEMMA KickKeeps ==
    ASSUME IInv, Kick
    PROVE  IInv'
<1> USE NoneApart DEF IInv, Kick, Register,
        registry, link, acks, net, history
<1>1. Queues' BY DEF TypeOK, Queues, Frame
<1>2. TypeOK' BY <1>1 DEF TypeOK, Live, Event, Raised, AcksOnce
<1>3. AcksOnce' BY DEF AcksOnce, TypeOK, Raised, Event
<1>4. TimerOnItsWay' BY DEF TimerOnItsWay, TypeOK, Live
<1>5. ConnectedMeansReachable' BY DEF ConnectedMeansReachable, TypeOK, Live
<1>6. OthersClosing' BY DEF OthersClosing, TypeOK, Live
<1>7. GoneForGood' BY DEF GoneForGood, TypeOK, Live
<1>8. FiringWhenAway' BY DEF FiringWhenAway, TypeOK, Live
<1> QED BY <1>2, <1>3, <1>4, <1>5, <1>6, <1>7, <1>8

\* The end is not reported yet.
LEMMA EndSessionKeeps ==
    ASSUME IInv, EndSession
    PROVE  IInv'
<1> USE NoneApart DEF IInv, EndSession,
        registry, link, acks, net, history
<1>1. Queues' BY DEF TypeOK, Queues, Frame
<1>2. TypeOK' BY <1>1 DEF TypeOK, Live
<1>3. AcksOnce' BY DEF AcksOnce, TypeOK, Raised
<1>4. TimerOnItsWay' BY DEF TimerOnItsWay, TypeOK, Live
<1>5. ConnectedMeansReachable' BY DEF ConnectedMeansReachable, TypeOK, Live
<1>6. OthersClosing' BY DEF OthersClosing, TypeOK, Live
<1>7. GoneForGood' BY DEF GoneForGood, TypeOK, Live
<1>8. FiringWhenAway' BY DEF FiringWhenAway, TypeOK, Live
<1> QED BY <1>2, <1>3, <1>4, <1>5, <1>6, <1>7, <1>8

\* It is reported once.
LEMMA ReportCompleteKeeps ==
    ASSUME IInv, ReportComplete
    PROVE  IInv'
<1> USE NoneApart DEF IInv, ReportComplete, Register,
        registry, link, acks, net, history
<1>1. Queues' BY DEF TypeOK, Queues, Frame
<1>2. TypeOK' BY <1>1 DEF TypeOK, Live, Event, Raised, AcksOnce
<1>3. AcksOnce' BY DEF AcksOnce, TypeOK, Raised, Event
<1>4. TimerOnItsWay' BY DEF TimerOnItsWay, TypeOK, Live
<1>5. ConnectedMeansReachable' BY DEF ConnectedMeansReachable, TypeOK, Live
<1>6. OthersClosing' BY DEF OthersClosing, TypeOK, Live
<1>7. GoneForGood' BY DEF GoneForGood, TypeOK, Live
<1>8. FiringWhenAway' BY DEF FiringWhenAway, TypeOK, Live
<1> QED BY <1>2, <1>3, <1>4, <1>5, <1>6, <1>7, <1>8

\* Without a connection the event is taken out of the pending ones.
LEMMA DeliverKeeps ==
    ASSUME IInv, NEW e \in Event, Deliver(e)
    PROVE  IInv'
<1> USE NoneApart DEF IInv, Deliver, Take,
        registry, link, acks, net, history
<1>1. Queues'
  <2>1. \A k \in Conn : Append(toPage[k], e) \in Seq(Event \cup {"close"})
    BY AppendProperties DEF TypeOK, Queues
  <2>2. Queues /\ UNCHANGED toServer
    BY DEF TypeOK
  <2>3. \/ UNCHANGED toPage
        \/ pointer \in Conn /\ toPage' = [toPage EXCEPT ![pointer] = Append(toPage[pointer], e)]
    BY DEF TypeOK
  <2> HIDE DEF Deliver, IInv
  <2> QED BY <2>1, <2>2, <2>3 DEF Queues
<1>2. TypeOK' BY <1>1 DEF TypeOK, Live
<1>3. AcksOnce' BY DEF AcksOnce, TypeOK, Raised
<1>4. TimerOnItsWay' BY DEF TimerOnItsWay, TypeOK, Live
<1>5. ConnectedMeansReachable' BY DEF ConnectedMeansReachable, TypeOK, Live
<1>6. OthersClosing' BY DEF OthersClosing, TypeOK, Live
<1>7. GoneForGood' BY DEF GoneForGood, TypeOK, Live
<1>8. FiringWhenAway' BY DEF FiringWhenAway, TypeOK, Live
<1> QED BY <1>2, <1>3, <1>4, <1>5, <1>6, <1>7, <1>8

\* The fallback takes an event that is still pending.
LEMMA FallbackFiresKeeps ==
    ASSUME IInv, NEW e \in Event, FallbackFires(e)
    PROVE  IInv'
<1> USE NoneApart DEF IInv, FallbackFires, Take,
        registry, link, acks, net, history
<1>1. Queues' BY DEF TypeOK, Queues, Frame
<1>2. TypeOK' BY <1>1 DEF TypeOK, Live
<1>3. AcksOnce' BY DEF AcksOnce, TypeOK, Raised
<1>4. TimerOnItsWay' BY DEF TimerOnItsWay, TypeOK, Live
<1>5. ConnectedMeansReachable' BY DEF ConnectedMeansReachable, TypeOK, Live
<1>6. OthersClosing' BY DEF OthersClosing, TypeOK, Live
<1>7. GoneForGood' BY DEF GoneForGood, TypeOK, Live
<1>8. FiringWhenAway' BY DEF FiringWhenAway, TypeOK, Live
<1> QED BY <1>2, <1>3, <1>4, <1>5, <1>6, <1>7, <1>8

\* What was taken had not been resolved.
LEMMA RunCallbackKeeps ==
    ASSUME IInv, NEW e \in Event, RunCallback(e)
    PROVE  IInv'
<1> USE NoneApart DEF IInv, RunCallback, Remove,
        registry, link, acks, net, history
<1>1. Queues' BY DEF TypeOK, Queues, Frame
<1>2. TypeOK' BY <1>1 DEF TypeOK, Live
<1>3. AcksOnce' BY DEF AcksOnce, TypeOK, Raised
<1>4. TimerOnItsWay' BY DEF TimerOnItsWay, TypeOK, Live
<1>5. ConnectedMeansReachable' BY DEF ConnectedMeansReachable, TypeOK, Live
<1>6. OthersClosing' BY DEF OthersClosing, TypeOK, Live
<1>7. GoneForGood' BY DEF GoneForGood, TypeOK, Live
<1>8. FiringWhenAway' BY DEF FiringWhenAway, TypeOK, Live
<1> QED BY <1>2, <1>3, <1>4, <1>5, <1>6, <1>7, <1>8

\* The answer takes an event that is still pending, or the connection is closed.
LEMMA ReadAnswerKeeps ==
    ASSUME IInv, NEW k \in Conn, NEW e \in Event, ReadAnswer(k, e)
    PROVE  IInv'
<1> USE NoneApart DEF IInv, ReadAnswer, Take,
        registry, link, acks, net, history
<1>1. Queues' BY CloseAheadTypes, QueueGrows DEF TypeOK, Queues, Frame
<1>2. TypeOK' BY <1>1 DEF TypeOK, Live, CloseAhead
<1>3. AcksOnce' BY DEF AcksOnce, TypeOK, Raised
<1>4. TimerOnItsWay' BY DEF TimerOnItsWay, TypeOK, Live
<1>5. ConnectedMeansReachable' BY DEF ConnectedMeansReachable, TypeOK, Live
<1>6. OthersClosing' BY DEF OthersClosing, TypeOK, Live, CloseAhead
<1>7. GoneForGood' BY DEF GoneForGood, TypeOK, Live, CloseAhead
<1>8. FiringWhenAway' BY DEF FiringWhenAway, TypeOK, Live
<1> QED BY <1>2, <1>3, <1>4, <1>5, <1>6, <1>7, <1>8

\* The client is no longer listed.
LEMMA LeaveKeeps ==
    ASSUME IInv, Leave
    PROVE  IInv'
<1> USE NoneApart DEF IInv, Leave, Remove,
        registry, link, acks, net, history
<1>1. Queues' BY DEF TypeOK, Queues, Frame
<1>2. TypeOK' BY <1>1 DEF TypeOK, Live
<1>3. AcksOnce' BY DEF AcksOnce, TypeOK, Raised
<1>4. TimerOnItsWay' BY DEF TimerOnItsWay, TypeOK, Live
<1>5. ConnectedMeansReachable' BY DEF ConnectedMeansReachable, TypeOK, Live
<1>6. OthersClosing' BY DEF OthersClosing, TypeOK, Live
<1>7. GoneForGood' BY DEF GoneForGood, TypeOK, Live
<1>8. FiringWhenAway' BY DEF FiringWhenAway, TypeOK, Live
<1> QED BY <1>2, <1>3, <1>4, <1>5, <1>6, <1>7, <1>8

\* What is pending is resolved, and the last connection is being closed.
LEMMA DestroyKeeps ==
    ASSUME IInv, Destroy
    PROVE  IInv'
<1> USE NoneApart DEF IInv, Destroy, CurrentConnection,
        registry, link, acks, net, history
<1>1. Queues' BY CloseAfterTypes DEF TypeOK, Queues, Frame
<1>2. TypeOK' BY <1>1 DEF TypeOK, Live, CloseAfter, CurrentConnection
<1>3. AcksOnce'
  <2>1. \A e \in Event : ran'[e] = IF e \in pending THEN ran[e] + 1 ELSE ran[e]
    OBVIOUS
  <2>2. "complete" \in Event
    BY DEF Event
  <2>3. pending' = {} /\ UNCHANGED <<taken, session>>
    OBVIOUS
  <2> HIDE DEF Destroy
  <2> QED BY <2>1, <2>2, <2>3 DEF AcksOnce, TypeOK, Raised
<1>4. TimerOnItsWay' BY DEF TimerOnItsWay, TypeOK, Live
<1>5. ConnectedMeansReachable' BY DEF ConnectedMeansReachable, TypeOK, Live
<1>6. OthersClosing' BY DEF OthersClosing, TypeOK, Live, CloseAfter, CurrentConnection
<1>7. GoneForGood'
  <2>1. pointer' = None /\ UNCHANGED <<server, overlap>>
        /\ sentClose' = sentClose \cup CurrentConnection /\ client # "destroyed"
    BY DEF CloseAfter
  <2>2. \A k \in Conn : server[k] \notin {"accepting", "opening"}
    OBVIOUS
  <2>3. \A k \in Conn : Live(k) /\ ~overlap => k \in sentClose'
    BY <2>1 DEF OthersClosing, CurrentConnection, TypeOK
  <2> HIDE DEF Destroy
  <2> QED BY <2>1, <2>2, <2>3 DEF GoneForGood, Live
<1>8. FiringWhenAway' BY DEF FiringWhenAway, TypeOK, Live
<1> QED BY <1>2, <1>3, <1>4, <1>5, <1>6, <1>7, <1>8

\* The server knows nothing of it yet.
LEMMA PageReadsEventKeeps ==
    ASSUME IInv, NEW k \in Conn, NEW e \in Event, PageReadsEvent(k, e)
    PROVE  IInv'
<1> USE NoneApart DEF IInv, PageReadsEvent,
        registry, link, acks, net, history
<1>1. Queues' BY DEF TypeOK, Queues, Frame
<1>2. TypeOK' BY <1>1 DEF TypeOK, Live
<1>3. AcksOnce' BY DEF AcksOnce, TypeOK, Raised
<1>4. TimerOnItsWay' BY DEF TimerOnItsWay, TypeOK, Live
<1>5. ConnectedMeansReachable' BY DEF ConnectedMeansReachable, TypeOK, Live
<1>6. OthersClosing' BY DEF OthersClosing, TypeOK, Live
<1>7. GoneForGood' BY DEF GoneForGood, TypeOK, Live
<1>8. FiringWhenAway' BY DEF FiringWhenAway, TypeOK, Live
<1> QED BY <1>2, <1>3, <1>4, <1>5, <1>6, <1>7, <1>8

\* Nor of this.
LEMMA PageReadsCloseKeeps ==
    ASSUME IInv, NEW k \in Conn, PageReadsClose(k)
    PROVE  IInv'
<1> USE NoneApart DEF IInv, PageReadsClose,
        registry, link, acks, net, history
<1>1. Queues' BY DEF TypeOK, Queues, Frame
<1>2. TypeOK' BY <1>1 DEF TypeOK, Live
<1>3. AcksOnce' BY DEF AcksOnce, TypeOK, Raised
<1>4. TimerOnItsWay' BY DEF TimerOnItsWay, TypeOK, Live
<1>5. ConnectedMeansReachable' BY DEF ConnectedMeansReachable, TypeOK, Live
<1>6. OthersClosing' BY DEF OthersClosing, TypeOK, Live
<1>7. GoneForGood' BY DEF GoneForGood, TypeOK, Live
<1>8. FiringWhenAway' BY DEF FiringWhenAway, TypeOK, Live
<1> QED BY <1>2, <1>3, <1>4, <1>5, <1>6, <1>7, <1>8

\* Nor of this.
LEMMA PageClosesKeeps ==
    ASSUME IInv, NEW k \in Conn, PageCloses(k)
    PROVE  IInv'
<1> USE NoneApart DEF IInv, PageCloses,
        registry, link, acks, net, history
<1>1. Queues' BY DEF TypeOK, Queues, Frame
<1>2. TypeOK' BY <1>1 DEF TypeOK, Live
<1>3. AcksOnce' BY DEF AcksOnce, TypeOK, Raised
<1>4. TimerOnItsWay' BY DEF TimerOnItsWay, TypeOK, Live
<1>5. ConnectedMeansReachable' BY DEF ConnectedMeansReachable, TypeOK, Live
<1>6. OthersClosing' BY DEF OthersClosing, TypeOK, Live
<1>7. GoneForGood' BY DEF GoneForGood, TypeOK, Live
<1>8. FiringWhenAway' BY DEF FiringWhenAway, TypeOK, Live
<1> QED BY <1>2, <1>3, <1>4, <1>5, <1>6, <1>7, <1>8

-----------------------------------------------------------------------------
(* Theorems *)

\* It holds at first: the client is listed, away and timed.
LEMMA InitIInv == Init => IInv
<1> SUFFICES ASSUME Init PROVE IInv
  OBVIOUS
<1> USE NoneApart DEF Init
<1>1. <<>> \in Seq(Event \cup {"close"})
  OBVIOUS
<1>2. Queues
  BY <1>1 DEF Queues
<1>3. TypeOK
  BY <1>2 DEF TypeOK, Live
<1>4. AcksOnce /\ TimerOnItsWay
  BY DEF AcksOnce, TimerOnItsWay, Raised, Event
<1>5. ConnectedMeansReachable /\ OthersClosing
  BY DEF ConnectedMeansReachable, OthersClosing, Live
<1>6. GoneForGood /\ FiringWhenAway
  BY DEF GoneForGood, FiringWhenAway
<1> QED BY <1>3, <1>4, <1>5, <1>6 DEF IInv

\* Nothing changes.
LEMMA StutterKeeps == IInv /\ UNCHANGED vars => IInv'
<1> SUFFICES ASSUME IInv, UNCHANGED vars PROVE IInv'
  OBVIOUS
<1> USE DEF IInv, vars, registry, link, acks, net, history
<1>1. TypeOK'
  BY DEF TypeOK, Queues, Live
<1>2. AcksOnce' /\ TimerOnItsWay'
  BY DEF AcksOnce, TimerOnItsWay, Raised, Live
<1>3. ConnectedMeansReachable' /\ OthersClosing'
  BY DEF ConnectedMeansReachable, OthersClosing, Live
<1>4. GoneForGood' /\ FiringWhenAway'
  BY DEF GoneForGood, FiringWhenAway, Live
<1> QED BY <1>1, <1>2, <1>3, <1>4

LEMMA NextIInv == IInv /\ [Next]_vars => IInv'
<1> SUFFICES ASSUME IInv, [Next]_vars PROVE IInv'
  OBVIOUS
<1>1. CASE TimerStep
  BY <1>1, ExpireKeeps, RunExpiredKeeps, FireKeeps DEF TimerStep
<1>2. ASSUME NEW k \in Conn, HandlerStep(k) PROVE IInv'
  <2>1. NoticeLoss(k) \/ ReadClose(k) => server[k] = "open" /\ End(k)
    BY DEF NoticeLoss, ReadClose
  <2> QED
    BY <1>2, <2>1, RefuseKeeps, AcceptKeeps, DropCurrentKeeps, OpenKeeps, OpenForNobodyKeeps,
       LookUpSessionKeeps, EndKeeps, ReadAnswerKeeps DEF HandlerStep
<1>3. ASSUME NEW k \in Conn, PageStep(k) PROVE IInv'
  BY <1>3, PageReadsCloseKeeps, PageReadsEventKeeps DEF PageStep
<1>4. ASSUME NEW e \in Event, EventStep(e) PROVE IInv'
  BY <1>4, DeliverKeeps, RunCallbackKeeps, FallbackFiresKeeps DEF EventStep
<1>5. CASE ReportComplete \/ Destroy
  BY <1>5, ReportCompleteKeeps, DestroyKeeps
<1>6. ASSUME NEW k \in Conn, Connect(k) \/ Lose(k) \/ PageCloses(k) PROVE IInv'
  BY <1>6, ConnectKeeps, LoseKeeps, PageClosesKeeps
<1>7. CASE Kick \/ EndSession \/ Leave
  BY <1>7, KickKeeps, EndSessionKeeps, LeaveKeeps
<1>8. CASE UNCHANGED vars
  BY <1>8, StutterKeeps
<1> QED BY <1>1, <1>2, <1>3, <1>4, <1>5, <1>6, <1>7, <1>8 DEF Next, SystemStep

\* The inductive invariant holds in every state, whatever connections break,
\* overlap or end while the timer fires.
THEOREM Invariance == Spec => []IInv
<1>1. Init => IInv
  BY InitIInv
<1>2. IInv /\ [Next]_vars => IInv'
  BY NextIInv
<1> QED BY <1>1, <1>2, PTL DEF Spec

\* The client never points to a connection object that is gone
\* (websocketconnection.cpp:9), and the parts of its state keep their types.
THEOREM PointerNeverDangles == Spec => []TypeOK
<1>1. IInv => TypeOK
  BY DEF IInv
<1> QED BY <1>1, Invariance, PTL

\* The answer, the fallback timer, the lack of a connection and the end of the
\* client resolve an event once between them (client.h:83-84).
THEOREM CallbacksRunOnce == Spec => []CallbackRunsOnce
<1>1. IInv => CallbackRunsOnce
  BY DEF IInv, AcksOnce, CallbackRunsOnce
<1> QED BY <1>1, Invariance, PTL

\* A client with a connection can be reached and its timer is stopped, unless
\* one of its connections ended while another was open.
THEOREM ConnectedClientsReachable == Spec => []ConnectedMeansReachable
<1>1. IInv => ConnectedMeansReachable
  BY DEF IInv
<1> QED BY <1>1, Invariance, PTL

\* A client without a connection is on its way to be removed.
THEOREM AbsentClientsTimed == Spec => []AwayMeansTimed
<1>1. IInv => AwayMeansTimed
  BY DEF IInv, TimerOnItsWay, AwayMeansTimed, TypeOK
<1> QED BY <1>1, Invariance, PTL

\* ~Client leaves no connection open, unless the client had lost sight of one.
THEOREM NoConnectionLeft == Spec => []ConnectionsGoWithClient
<1>1. IInv => ConnectionsGoWithClient
  BY DEF IInv, GoneForGood, ConnectionsGoWithClient, Live
<1> QED BY <1>1, Invariance, PTL

\* The timer removes no client that is connected, unless connections overlapped
\* or the client came back as it fired.
THEOREM TimeOutsAreDeserved == Spec => TimedOutOnlyWhenAway
<1>1. IInv /\ [Next]_vars
        => [client = "listed" /\ Fire => overlap \/ stale \/ ~\E k \in Conn : Live(k)]_vars
  BY DEF IInv, FiringWhenAway, Fire
<1> QED BY <1>1, Invariance, PTL DEF Spec, TimedOutOnlyWhenAway
=============================================================================
