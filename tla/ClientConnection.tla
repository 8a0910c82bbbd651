-------------------------- MODULE ClientConnection --------------------------
(***************************************************************************)
(* A client that has joined a session (src/src/client.cpp) and its         *)
(* WebSocket connections: the handlers of src/src/webapi.cpp that accept,  *)
(* open, read and close them, the object that ties a connection to its     *)
(* client (websocketconnection.cpp), the timer that removes a client       *)
(* without a connection (timercallback.cpp), the events that wait for an   *)
(* answer, and the other end in the browser (web/src/lib/ws.js).           *)
(*                                                                         *)
(* Every connection has a thread of its own at the server, the timers have *)
(* one, and the events of the session come from any other; a step is one   *)
(* critical section or one access to shared memory.  The browser may open  *)
(* a connection while the server has not noticed the end of the last one,  *)
(* or in a second tab.  A page that has closed its socket reads nothing    *)
(* more from it.                                                           *)
(*                                                                         *)
(* Left out: the events without an answer; the unlocked reads of           *)
(* m_webSocketConnection, taken for atomic; and a timer handler that runs  *)
(* after the end of the client it belongs to, which is undefined.          *)
(***************************************************************************)
EXTENDS Naturals, Sequences

CONSTANTS MaxConnections,   \* connections the browser opens
          None              \* no connection

Conn == 1..MaxConnections

ASSUME ConnectionAssumption == MaxConnections \in Nat /\ None \notin Conn

Event == {"kicked", "complete"}

VARIABLES client,      \* "listed" in ClientList, "removed" from it, "destroyed"
          session,     \* "listed", "removed" from its list, "reported" complete
          pointer,     \* m_webSocketConnection
          timer,       \* m_wsTimeoutTimer: m_isRunning, a wait is armed, and
                       \* the handlers that are due and cannot be cancelled
          firing,      \* a handler has read m_isRunning and goes on to remove
          pending,     \* m_pendingAcks
          fallback,    \* those whose fallback timer is armed
          sending,     \* registered, about to look for the connection
          taken,       \* taken out of m_pendingAcks, callback about to run
          ran,         \* history: times the callback of an event ran
          server,      \* where the handlers of a connection are
          sentClose,   \* has_sent_close_
          page,        \* the browser's end
          toPage, toServer,   \* what is under way on a connection
          lost,        \* connections broken, the server not aware of it yet
          overlap,     \* history: a connection ended while another was open, or
                       \* opened in place of one that is not being closed
          stale        \* history: a connection opened as the timer fired

registry == <<client, session>>
link == <<pointer, timer, firing>>
acks == <<pending, fallback, sending, taken, ran>>
net == <<server, sentClose, page, toPage, toServer, lost>>
history == <<overlap, stale>>
vars == <<registry, link, acks, net, history>>

Init ==
    /\ client = "listed" /\ session = "listed"
    /\ pointer = None /\ firing = FALSE
    /\ timer = [running |-> TRUE, armed |-> TRUE, due |-> 0]
    /\ pending = {} /\ fallback = {} /\ sending = {} /\ taken = {}
    /\ ran = [e \in Event |-> 0]
    /\ server = [k \in Conn |-> "unused"] /\ sentClose = {}
    /\ page = [k \in Conn |-> "unused"] /\ lost = {}
    /\ toPage = [k \in Conn |-> <<>>] /\ toServer = [k \in Conn |-> <<>>]
    /\ overlap = FALSE /\ stale = FALSE

-----------------------------------------------------------------------------
(* TimerCallback *)

\* Mutants
StartTimerUnarmed(tm) == [tm EXCEPT !.running = TRUE]
StopTimerKeepsFlag(tm) == [tm EXCEPT !.armed = FALSE]
StopTimerNever(tm) == tm

StartTimer(tm) ==
    IF tm.running THEN tm ELSE [tm EXCEPT !.running = TRUE, !.armed = TRUE]

StopTimer(tm) ==
    IF tm.running THEN [tm EXCEPT !.running = FALSE, !.armed = FALSE] ELSE tm

\* The wait ends: from now on a cancel comes too late for its handler.
Expire ==
    /\ timer.armed
    /\ timer' = [timer EXCEPT !.armed = FALSE, !.due = @ + 1]
    /\ UNCHANGED <<registry, pointer, firing, acks, net, history>>

RunExpired ==
    /\ timer.due > 0 /\ ~firing /\ client # "destroyed"
    /\ timer' = [timer EXCEPT !.due = @ - 1]
    /\ firing' = timer.running
    /\ UNCHANGED <<registry, pointer, acks, net, history>>

\* ClientList::remove
Remove == /\ client' = IF client = "listed" THEN "removed" ELSE client
          /\ UNCHANGED session

Fire ==
    /\ firing
    /\ firing' = FALSE
    /\ timer' = [timer EXCEPT !.running = FALSE]
    /\ Remove
    /\ UNCHANGED <<pointer, acks, net, history>>

-----------------------------------------------------------------------------
(* Connections *)

\* A close frame follows what was sent on the connections ks before.
CloseAfter(ks) ==
    /\ sentClose' = sentClose \cup ks
    /\ toPage' = [k \in Conn |-> IF k \in ks \ sentClose /\ page[k] # "closed"
                                 THEN Append(toPage[k], "close") ELSE toPage[k]]

\* Closed by a handler of its own, a connection sends the close frame at once,
\* before what other threads have posted to it and it has not yet written.
CloseAhead(k) ==
    /\ sentClose' = sentClose \cup {k}
    /\ IF k \in sentClose \/ page[k] = "closed" THEN UNCHANGED toPage
       ELSE \E n \in 0..Len(toPage[k]) :
                toPage' = [toPage EXCEPT ![k] = Append(SubSeq(@, 1, n), "close")]

\* Mutants
CurrentConnectionForgotten == {}

CurrentConnection == IF pointer = None THEN {} ELSE {pointer}

\* The browser opens a connection: the first, another tab's, or one in place of
\* a connection it has lost.
Connect(k) ==
    /\ server[k] = "unused" /\ \A j \in 1..(k - 1) : server[j] # "unused"
    /\ server' = [server EXCEPT ![k] = "requested"]
    /\ page' = [page EXCEPT ![k] = "connecting"]
    /\ UNCHANGED <<registry, link, acks, sentClose, toPage, toServer, lost, history>>

\* wsOnAccept returns: with the session gone the connection is refused.
Admit(k) ==
    IF session = "listed"
    THEN server' = [server EXCEPT ![k] = "accepted"] /\ UNCHANGED page
    ELSE /\ server' = [server EXCEPT ![k] = "gone"]
         /\ page' = [page EXCEPT ![k] = "closed"]

Refuse(k) ==
    /\ server[k] = "requested" /\ client # "listed"
    /\ server' = [server EXCEPT ![k] = "gone"]
    /\ page' = [page EXCEPT ![k] = "closed"]
    /\ UNCHANGED <<registry, link, acks, sentClose, toPage, toServer, lost, history>>

\* A client whose timer does not run is taken to be online.
Accept(k) ==
    /\ server[k] = "requested" /\ client = "listed"
    /\ IF timer.running THEN Admit(k)
       ELSE server' = [server EXCEPT ![k] = "accepting"] /\ UNCHANGED page
    /\ UNCHANGED <<registry, link, acks, sentClose, toPage, toServer, lost, history>>

\* dropCurrentWsConnection, of whatever connection is the current one by now.
DropCurrent(k) ==
    /\ server[k] = "accepting"
    /\ CloseAfter(CurrentConnection)
    /\ Admit(k)
    /\ UNCHANGED <<registry, link, acks, toServer, lost, history>>

\* The handshake is answered and onWebSocketConnected run.
Open(k) ==
    /\ server[k] = "accepted" /\ client # "destroyed"
    /\ server' = [server EXCEPT ![k] = "opening"]
    /\ page' = [page EXCEPT ![k] = IF @ = "connecting" THEN "open" ELSE @]
    /\ pointer' = k
    /\ timer' = StopTimer(timer)
    /\ stale' = (stale \/ firing)
    /\ overlap' = (overlap \/ \E j \in Conn \ ({k} \cup sentClose) : server[j] \in {"opening", "open"})
    /\ UNCHANGED <<registry, firing, acks, sentClose, toPage, toServer, lost>>

OpenForNobody(k) ==
    /\ server[k] = "accepted" /\ client = "destroyed"
    /\ server' = [server EXCEPT ![k] = "open"]
    /\ page' = [page EXCEPT ![k] = IF @ = "connecting" THEN "open" ELSE @]
    /\ CloseAhead(k)
    /\ UNCHANGED <<registry, link, acks, toServer, lost, history>>

\* The rest of wsOnConnect: the session may have ended since the connection was
\* accepted.  What other threads post meanwhile is written afterwards.
LookUpSession(k) ==
    /\ server[k] = "opening"
    /\ server' = [server EXCEPT ![k] = "open"]
    /\ IF session = "listed" THEN UNCHANGED <<sentClose, toPage>>
       ELSE /\ sentClose' = sentClose \cup {k}
            /\ toPage' = [toPage EXCEPT ![k] = IF page[k] = "closed" THEN @ ELSE <<"close">>]
    /\ UNCHANGED <<registry, link, acks, page, toServer, lost, history>>

\* Mutants
EndKeepsPointer(k) ==
    /\ server' = [server EXCEPT ![k] = "gone"]
    /\ page' = [page EXCEPT ![k] = "closed"]
    /\ toPage' = [toPage EXCEPT ![k] = <<>>] /\ toServer' = [toServer EXCEPT ![k] = <<>>]
    /\ lost' = lost \ {k} /\ sentClose' = sentClose \ {k}
    /\ IF client = "destroyed" THEN UNCHANGED <<pointer, timer, overlap>>
       ELSE /\ timer' = StartTimer(timer) /\ UNCHANGED pointer
            /\ overlap' = (overlap \/ \E j \in Conn \ {k} : server[j] \in {"opening", "open"})
    /\ UNCHANGED <<registry, firing, acks, stale>>

\* wsOnClose and the destructor it runs: onWebSocketDisconnected resets the
\* pointer, whichever connection it points to.
End(k) ==
    /\ server' = [server EXCEPT ![k] = "gone"]
    /\ page' = [page EXCEPT ![k] = "closed"]
    /\ toPage' = [toPage EXCEPT ![k] = <<>>] /\ toServer' = [toServer EXCEPT ![k] = <<>>]
    /\ lost' = lost \ {k} /\ sentClose' = sentClose \ {k}
    /\ IF client = "destroyed" THEN UNCHANGED <<pointer, timer, overlap>>
       ELSE /\ pointer' = None
            /\ timer' = StartTimer(timer)
            /\ overlap' = (overlap \/ \E j \in Conn \ {k} : server[j] \in {"opening", "open"})
    /\ UNCHANGED <<registry, firing, acks, stale>>

\* The network breaks a connection: what is under way is gone, the browser sees
\* it closed and the server will.
Lose(k) ==
    /\ server[k] \notin {"unused", "gone"} /\ k \notin lost
    /\ lost' = lost \cup {k}
    /\ page' = [page EXCEPT ![k] = "closed"]
    /\ toPage' = [toPage EXCEPT ![k] = <<>>] /\ toServer' = [toServer EXCEPT ![k] = <<>>]
    /\ UNCHANGED <<registry, link, acks, server, sentClose, history>>

NoticeLoss(k) == k \in lost /\ server[k] = "open" /\ End(k)

-----------------------------------------------------------------------------
(* Events that wait for an answer: sendTextWithAck and resolveAck *)

Raised(e) == e \in pending \cup taken \/ ran[e] > 0

Register(e) ==
    /\ pending' = pending \cup {e}
    /\ fallback' = fallback \cup {e}
    /\ sending' = sending \cup {e}
    /\ UNCHANGED <<taken, ran>>

\* resolveAck up to the end of its critical section.
Take(e) ==
    IF e \in pending
    THEN /\ pending' = pending \ {e}
         /\ fallback' = fallback \ {e}
         /\ taken' = taken \cup {e}
    ELSE UNCHANGED <<pending, fallback, taken>>

\* The sender kicks this receiver.
Kick ==
    /\ session = "listed" /\ client # "destroyed" /\ ~Raised("kicked")
    /\ Register("kicked")
    /\ UNCHANGED <<registry, link, net, history>>

\* The session leaves its list, whatever the reason ...
EndSession ==
    /\ session = "listed"
    /\ session' = "removed"
    /\ UNCHANGED <<client, link, acks, net, history>>

\* ... and its destructor tells the clients that are still there.
ReportComplete ==
    /\ session = "removed"
    /\ session' = "reported"
    /\ IF client # "destroyed" THEN Register("complete") ELSE UNCHANGED acks
    /\ UNCHANGED <<client, link, net, history>>

\* Without a connection the event counts as answered.
Deliver(e) ==
    /\ e \in sending
    /\ sending' = sending \ {e}
    /\ IF pointer = None
       THEN Take(e) /\ UNCHANGED toPage
       ELSE /\ toPage' = IF pointer \in sentClose \/ page[pointer] = "closed" THEN toPage
                         ELSE [toPage EXCEPT ![pointer] = Append(@, e)]
            /\ UNCHANGED <<pending, fallback, taken>>
    /\ UNCHANGED <<registry, link, ran, server, sentClose, page, toServer,
                   lost, history>>

\* Mutants
FallbackLeavesEntry(e) ==
    /\ e \in fallback
    /\ fallback' = fallback \ {e}
    /\ taken' = IF client = "listed" THEN taken \cup {e} ELSE taken
    /\ UNCHANGED <<registry, link, pending, sending, ran, net, history>>

\* The fallback timer finds its client through ClientList.
FallbackFires(e) ==
    /\ e \in fallback
    /\ IF client = "listed" THEN Take(e)
       ELSE fallback' = fallback \ {e} /\ UNCHANGED <<pending, taken>>
    /\ UNCHANGED <<registry, link, sending, ran, net, history>>

RunCallback(e) ==
    /\ e \in taken
    /\ taken' = taken \ {e}
    /\ ran' = [ran EXCEPT ![e] = @ + 1]
    /\ Remove
    /\ UNCHANGED <<link, pending, fallback, sending, net, history>>

-----------------------------------------------------------------------------
(* What the server reads from a connection *)

ReadAnswer(k, e) ==
    /\ server[k] = "open" /\ toServer[k] # <<>> /\ Head(toServer[k]) = e
    /\ toServer' = [toServer EXCEPT ![k] = Tail(@)]
    /\ IF client # "destroyed" /\ session = "listed"
       THEN Take(e) /\ UNCHANGED <<sentClose, toPage>>
       ELSE CloseAhead(k) /\ UNCHANGED <<pending, fallback, taken>>
    /\ UNCHANGED <<registry, link, sending, ran, server, page, lost, history>>

ReadClose(k) ==
    /\ server[k] = "open" /\ toServer[k] # <<>> /\ Head(toServer[k]) = "close"
    /\ End(k)

\* /api/me/leave
Leave ==
    /\ client = "listed"
    /\ Remove
    /\ UNCHANGED <<link, acks, net, history>>

\* Mutants
DestroyDropsCallbacks ==
    /\ client = "removed"
    /\ sending = {} /\ taken = {} /\ ~firing
    /\ \A k \in Conn : server[k] \notin {"accepting", "opening"}
    /\ client' = "destroyed"
    /\ pending' = {} /\ fallback' = {}
    /\ CloseAfter(CurrentConnection) /\ pointer' = None
    /\ timer' = [running |-> FALSE, armed |-> FALSE, due |-> 0]
    /\ UNCHANGED <<session, firing, sending, taken, ran,
                   server, page, toServer, lost, history>>

\* ~Client, when no handler holds the client: the callbacks that are left, the
\* end of the connection and of the timer.
Destroy ==
    /\ client = "removed"
    /\ sending = {} /\ taken = {} /\ ~firing
    /\ \A k \in Conn : server[k] \notin {"accepting", "opening"}
    /\ client' = "destroyed"
    /\ pending' = {} /\ fallback' = {}
    /\ ran' = [e \in Event |-> IF e \in pending THEN ran[e] + 1 ELSE ran[e]]
    /\ CloseAfter(CurrentConnection) /\ pointer' = None
    /\ timer' = [running |-> FALSE, armed |-> FALSE, due |-> 0]
    /\ UNCHANGED <<session, firing, sending, taken,
                   server, page, toServer, lost, history>>

-----------------------------------------------------------------------------
(* What the browser reads *)

\* It answers the event, and both of them end its visit: it closes the socket.
PageReadsEvent(k, e) ==
    /\ page[k] = "open" /\ server[k] # "opening"
    /\ toPage[k] # <<>> /\ Head(toPage[k]) = e
    /\ toPage' = [toPage EXCEPT ![k] = <<>>]
    /\ toServer' = [toServer EXCEPT ![k] = @ \o <<e, "close">>]
    /\ page' = [page EXCEPT ![k] = "closed"]
    /\ UNCHANGED <<registry, link, acks, server, sentClose, lost, history>>

PageReadsClose(k) ==
    /\ page[k] = "open" /\ server[k] # "opening"
    /\ toPage[k] # <<>> /\ Head(toPage[k]) = "close"
    /\ toPage' = [toPage EXCEPT ![k] = <<>>]
    /\ toServer' = [toServer EXCEPT ![k] = Append(@, "close")]
    /\ page' = [page EXCEPT ![k] = "closed"]
    /\ UNCHANGED <<registry, link, acks, server, sentClose, lost, history>>

\* disconnect, or the end of the tab.
PageCloses(k) ==
    /\ page[k] = "open" /\ server[k] # "opening"
    /\ toServer' = [toServer EXCEPT ![k] = Append(@, "close")]
    /\ toPage' = [toPage EXCEPT ![k] = <<>>]
    /\ page' = [page EXCEPT ![k] = "closed"]
    /\ UNCHANGED <<registry, link, acks, server, sentClose, lost, history>>

-----------------------------------------------------------------------------

HandlerStep(k) ==
    \/ Refuse(k) \/ Accept(k) \/ DropCurrent(k) \/ Open(k) \/ OpenForNobody(k)
    \/ LookUpSession(k) \/ NoticeLoss(k) \/ ReadClose(k)
    \/ \E e \in Event : ReadAnswer(k, e)

EventStep(e) == Deliver(e) \/ RunCallback(e) \/ FallbackFires(e)

TimerStep == Expire \/ RunExpired \/ Fire

PageStep(k) == PageReadsClose(k) \/ \E e \in Event : PageReadsEvent(k, e)

\* What goes on by itself, once begun.
SystemStep ==
    \/ TimerStep \/ ReportComplete \/ Destroy
    \/ \E k \in Conn : HandlerStep(k) \/ PageStep(k)
    \/ \E e \in Event : EventStep(e)

Next ==
    \/ SystemStep
    \/ \E k \in Conn : Connect(k) \/ Lose(k) \/ PageCloses(k)
    \/ Kick \/ EndSession \/ Leave

Spec == Init /\ [][Next]_vars

\* A handler that has begun runs to its end, a timer that is armed expires, the
\* browser reads what it is sent and a broken connection is noticed: some such
\* step is taken as long as there is one, and there are finitely many of them.
FairSpec == Spec /\ WF_vars(SystemStep)

-----------------------------------------------------------------------------
(* Invariants *)

Live(k) == server[k] \in {"opening", "open"}

Queues ==
    /\ toPage \in [Conn -> Seq(Event \cup {"close"})]
    /\ toServer \in [Conn -> Seq(Event \cup {"close"})]

\* The types of the variables; the pointer is to a connection whose object exists.
TypeOK ==
    /\ client \in {"listed", "removed", "destroyed"}
    /\ session \in {"listed", "removed", "reported"}
    /\ pointer \in {k \in Conn : Live(k)} \cup {None}
    /\ timer \in [running : BOOLEAN, armed : BOOLEAN, due : Nat]
    /\ firing \in BOOLEAN /\ overlap \in BOOLEAN /\ stale \in BOOLEAN
    /\ pending \cup taken \cup sending \subseteq Event
    /\ fallback \subseteq pending /\ pending \cap taken = {}
    /\ ran \in [Event -> Nat]
    /\ server \in [Conn -> {"unused", "requested", "accepting", "accepted", "opening",
                            "open", "gone"}]
    /\ page \in [Conn -> {"unused", "connecting", "open", "closed"}]
    /\ sentClose \subseteq Conn /\ lost \subseteq Conn
    /\ Queues

\* client.h:83-84: the callback of an event runs once, whichever of its answer,
\* its fallback timer, the lack of a connection and the end of the client come.
CallbackRunsOnce == \A e \in Event : ran[e] <= 1

\* A client that is connected can be reached and is not about to time out: its
\* pointer is to a connection and its timer is stopped.  Left out are clients of
\* whom one connection ended while another was open.
ConnectedMeansReachable ==
    client # "destroyed" /\ ~overlap /\ (\E k \in Conn : Live(k))
        => pointer # None /\ ~timer.running

\* A client that is away does not stay for ever: while it has no connection its
\* timer runs, and the wait is armed, its handler due, or removal under way.
AwayMeansTimed ==
    client = "listed" /\ ~(\E k \in Conn : Live(k))
        => firing \/ (timer.running /\ (timer.armed \/ timer.due > 0))

\* No connection outlives its client: once the client is gone every connection
\* is being closed or has been broken, save those it had lost sight of.
ConnectionsGoWithClient ==
    client = "destroyed" /\ ~overlap
        => \A k \in Conn : server[k] = "open" => k \in sentClose \cup lost

\* A client is timed out only while it has no connection, unless one of its
\* connections ended while another was open, or it came back as the timer fired.
TimedOutOnlyWhenAway ==
    [][client = "listed" /\ Fire => overlap \/ stale \/ ~\E k \in Conn : Live(k)]_vars

\* An event is resolved in the end: answered or not, whatever becomes of the
\* connection and of the client.
EventsAreResolved == \A e \in Event : Raised(e) ~> ran[e] = 1

-----------------------------------------------------------------------------
(* What the documentation says and the code does not do *)

\* SESSION_LIFECYCLE.md:74: the server matches the answer and runs the callback.
AnswersCount == [][\A k \in Conn, e \in Event : ReadAnswer(k, e) => e \notin pending']_vars
=============================================================================
