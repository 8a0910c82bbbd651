------------------------------- MODULE Registry -------------------------------
(***************************************************************************)
(* The two registries of the server, ClientList (src/src/clientlist.cpp)   *)
(* and TransferSessionList (src/src/transfersessionlist.cpp), and the HTTP *)
(* handlers of src/src/webapi.cpp that register a client, let it leave,    *)
(* create a session and join one.                                          *)
(*                                                                         *)
(* A registry maps names to objects: a client is named by its token, a     *)
(* session by its creator's public identifier, which is a function of the  *)
(* token, so that a token names both.  An object is alive as long as it is *)
(* registered or a handler holds a pointer to it; then its destructor      *)
(* tells the other side, and registered entries are removed by name.       *)
(* A handler is a sequence of steps, each a critical section of a registry *)
(* or of one object; requests of the same client may overlap.              *)
(*                                                                         *)
(* Why a session ends is the subject of TransferSession, when a client's   *)
(* timer or answer removes it that of ClientConnection: here both may      *)
(* happen at any time.  A token comes back when its captcha is used again. *)
(***************************************************************************)
EXTENDS Naturals, FiniteSets

CONSTANTS Thread,        \* threads that run handlers
          Token,         \* names of clients and sessions
          None,          \* no name
          ClientLimit,   \* Config::apiMaxClientCount()
          SessionLimit,  \* Config::transferSessionCountLimit()
          MaxClients,    \* bound: client objects made
          MaxSessions,   \* bound: session objects made
          MaxIncidents   \* bound: uploads and sessions ended, kicks, clients timed out

ASSUME RegistryAssumption ==
    /\ IsFiniteSet(Thread) /\ Thread # {} /\ IsFiniteSet(Token) /\ None \notin Token
    /\ ClientLimit \in Nat \ {0} /\ SessionLimit \in Nat \ {0}
    /\ MaxClients \in Nat /\ MaxSessions \in Nat /\ MaxIncidents \in Nat

Clients == 1..MaxClients
Sessions == 1..MaxSessions
Nobody == 0              \* no object

VARIABLES clients,    \* ClientList::m_map
          sessions,   \* TransferSessionList::m_map
          token,      \* m_id of a client object, None before it is made
          joined,     \* m_joinedSession of a client object
          dead,       \* client objects destroyed
          creator,    \* m_dataSender of a session object, Nobody before it is made
          receivers,  \* m_dataReceivers of a session object
          subscribed, \* clients told of the end of a session object
          uploaded,   \* session objects whose file has ended
          ended,      \* session objects destroyed
          pc, local,  \* where each thread is, and its local variables
          leaving,    \* calls of ClientList::remove on their way, and why
          closing,    \* session objects that call TransferSessionList::remove
          incidents,  \* how many there were
          overlapped, \* history: clients whose requests overlapped
          reused      \* history: tokens that named two client objects

registries == <<clients, sessions>>
clientObjects == <<token, joined, dead>>
sessionObjects == <<creator, receivers, subscribed, uploaded, ended>>
threads == <<pc, local>>
calls == <<leaving, closing>>
history == <<incidents, overlapped, reused>>
vars == <<registries, clientObjects, sessionObjects, threads, calls, history>>

\* name: of what the handler is about.  me, at: the objects it has pointers to.
AtRest == [name |-> None, me |-> Nobody, at |-> Nobody]

Init ==
    /\ clients = [k \in Token |-> Nobody] /\ sessions = [k \in Token |-> Nobody]
    /\ token = [o \in Clients |-> None] /\ joined = [o \in Clients |-> None] /\ dead = {}
    /\ creator = [s \in Sessions |-> Nobody] /\ receivers = [s \in Sessions |-> {}]
    /\ subscribed = [s \in Sessions |-> {}] /\ uploaded = {} /\ ended = {}
    /\ pc = [t \in Thread |-> "idle"] /\ local = [t \in Thread |-> AtRest]
    /\ leaving = {} /\ closing = {}
    /\ incidents = 0 /\ overlapped = {} /\ reused = {}

-----------------------------------------------------------------------------
(* Registries and threads *)

ListedClients == {k \in Token : clients[k] # Nobody}
ListedSessions == {k \in Token : sessions[k] # Nobody}

Listed(o) == token[o] # None /\ clients[token[o]] = o
Open(s) == creator[s] # Nobody /\ s \notin ended
Id(s) == token[creator[s]]

RemoveSession(k) == sessions' = [sessions EXCEPT ![k] = Nobody]

Begin(t, step, l) ==
    /\ pc[t] = "idle"
    /\ pc' = [pc EXCEPT ![t] = step]
    /\ local' = [local EXCEPT ![t] = l]

Go(t, step) == pc' = [pc EXCEPT ![t] = step] /\ UNCHANGED local

Finish(t) == /\ pc' = [pc EXCEPT ![t] = "idle"]
             /\ local' = [local EXCEPT ![t] = AtRest]

GoIf(t, condition, step) == IF condition THEN Go(t, step) ELSE Finish(t)

\* Client o begins a request that may make it a member of a session.
NoteOverlap(o) ==
    overlapped' = IF \E u \in Thread : local[u].me = o THEN overlapped \cup {o} ELSE overlapped

-----------------------------------------------------------------------------
(* identityRequest, identityValidation and internalCreateClient; meLeave *)

\* Mutant: the limit is not tested.
RegisterUnlimited(t, k) ==
    /\ Begin(t, "clientInsert", [AtRest EXCEPT !.name = k])
    /\ UNCHANGED <<registries, clientObjects, sessionObjects, calls, history>>

\* The limit is tested first: a request that does not pass changes nothing.
StartRegister(t, k) ==
    /\ Cardinality(ListedClients) < ClientLimit
    /\ Begin(t, "clientInsert", [AtRest EXCEPT !.name = k])
    /\ UNCHANGED <<registries, clientObjects, sessionObjects, calls, history>>

\* Nothing is made for a token that is in use.
ClientInsert(t) ==
    /\ pc[t] = "clientInsert"
    /\ LET k == local[t].name
       IN  IF clients[k] # Nobody THEN UNCHANGED <<clients, token, reused>>
           ELSE \E o \in Clients :
                  /\ token[o] = None /\ \A p \in 1..(o - 1) : token[p] # None
                  /\ clients' = [clients EXCEPT ![k] = o]
                  /\ token' = [token EXCEPT ![o] = k]
                  /\ reused' = IF \E p \in Clients : token[p] = k THEN reused \cup {k} ELSE reused
    /\ Finish(t)
    /\ UNCHANGED <<sessions, joined, dead, sessionObjects, calls, incidents, overlapped>>

StartLeave(t, k) ==
    /\ clients[k] # Nobody
    /\ Begin(t, "leave", [AtRest EXCEPT !.me = clients[k]])
    /\ UNCHANGED <<registries, clientObjects, sessionObjects, calls, history>>

Leave(t) ==
    /\ pc[t] = "leave"
    /\ clients' = [clients EXCEPT ![token[local[t].me]] = Nobody]
    /\ Finish(t)
    /\ UNCHANGED <<sessions, clientObjects, sessionObjects, calls, history>>

-----------------------------------------------------------------------------
(* sessionCreate *)

StartCreate(t, k) ==
    /\ clients[k] # Nobody
    /\ Begin(t, "createTest", [AtRest EXCEPT !.me = clients[k]])
    /\ NoteOverlap(clients[k])
    /\ UNCHANGED <<registries, clientObjects, sessionObjects, calls, incidents, reused>>

CreateTestJoined(t) ==
    /\ pc[t] = "createTest"
    /\ GoIf(t, joined[local[t].me] = None, "createCount")
    /\ UNCHANGED <<registries, clientObjects, sessionObjects, calls, history>>

\* Mutant: one session too many.
CreateTestOneMore(t) ==
    /\ pc[t] = "createCount"
    /\ GoIf(t, Cardinality(ListedSessions) <= SessionLimit, "createInsert")
    /\ UNCHANGED <<registries, clientObjects, sessionObjects, calls, history>>

\* possibleToCreateNew
CreateTestCount(t) ==
    /\ pc[t] = "createCount"
    /\ GoIf(t, Cardinality(ListedSessions) < SessionLimit, "createInsert")
    /\ UNCHANGED <<registries, clientObjects, sessionObjects, calls, history>>

\* TransferSessionList::create; the creator is subscribed before the session is
\* registered.
CreateInsert(t) ==
    /\ pc[t] = "createInsert"
    /\ LET o == local[t].me
           k == token[o]
       IN  IF sessions[k] # Nobody
           THEN Finish(t) /\ UNCHANGED <<sessions, creator, subscribed>>
           ELSE \E s \in Sessions :
                  /\ creator[s] = Nobody /\ \A r \in 1..(s - 1) : creator[r] # Nobody
                  /\ sessions' = [sessions EXCEPT ![k] = s]
                  /\ creator' = [creator EXCEPT ![s] = o]
                  /\ subscribed' = [subscribed EXCEPT ![s] = {o}]
                  /\ pc' = [pc EXCEPT ![t] = "createJoin"]
                  /\ local' = [local EXCEPT ![t].at = s]
    /\ UNCHANGED <<clients, clientObjects, receivers, uploaded, ended, calls, history>>

\* A creator that is in a session meanwhile takes the new one back.
CreateJoin(t) ==
    /\ pc[t] = "createJoin"
    /\ LET o == local[t].me
       IN  IF joined[o] = None
           THEN joined' = [joined EXCEPT ![o] = token[o]] /\ UNCHANGED sessions
           ELSE RemoveSession(token[o]) /\ UNCHANGED joined
    /\ Finish(t)
    /\ UNCHANGED <<clients, token, dead, sessionObjects, calls, history>>

-----------------------------------------------------------------------------
(* sessionJoin *)

StartJoin(t, k, id) ==
    /\ clients[k] # Nobody
    /\ Begin(t, "joinGet", [AtRest EXCEPT !.me = clients[k], !.name = id])
    /\ NoteOverlap(clients[k])
    /\ UNCHANGED <<registries, clientObjects, sessionObjects, calls, incidents, reused>>

JoinGet(t) ==
    /\ pc[t] = "joinGet"
    /\ LET s == sessions[local[t].name]
       IN  IF s = Nobody THEN Finish(t)
           ELSE /\ pc' = [pc EXCEPT ![t] = "joinTest"]
                /\ local' = [local EXCEPT ![t].at = s]
    /\ UNCHANGED <<registries, clientObjects, sessionObjects, calls, history>>

\* Mutant: whether the client is in a session is not tested.
JoinTestNothing(t) ==
    /\ pc[t] = "joinTest"
    /\ Go(t, "joinAdd")
    /\ UNCHANGED <<registries, clientObjects, sessionObjects, calls, history>>

JoinTestJoined(t) ==
    /\ pc[t] = "joinTest"
    /\ GoIf(t, joined[local[t].me] = None, "joinAdd")
    /\ UNCHANGED <<registries, clientObjects, sessionObjects, calls, history>>

\* A chunk was removed, or the session has receivers enough.
JoinRefused(t) ==
    /\ pc[t] = "joinAdd"
    /\ Finish(t)
    /\ UNCHANGED <<registries, clientObjects, sessionObjects, calls, history>>

\* Mutant: the receiver does not subscribe to the session.
JoinAddUnsubscribed(t) ==
    /\ pc[t] = "joinAdd"
    /\ receivers' = [receivers EXCEPT ![local[t].at] = @ \cup {local[t].me}]
    /\ Go(t, "joinJoin")
    /\ UNCHANGED <<registries, clientObjects, creator, subscribed, uploaded, ended, calls,
                   history>>

\* addReceiver; a client is a receiver once.
JoinAdd(t) ==
    /\ pc[t] = "joinAdd"
    /\ LET o == local[t].me
           s == local[t].at
       IN  IF \E p \in receivers[s] : token[p] = token[o]
           THEN Finish(t) /\ UNCHANGED <<receivers, subscribed>>
           ELSE /\ receivers' = [receivers EXCEPT ![s] = @ \cup {o}]
                /\ subscribed' = [subscribed EXCEPT ![s] = @ \cup {o}]
                /\ Go(t, "joinJoin")
    /\ UNCHANGED <<registries, clientObjects, creator, uploaded, ended, calls, history>>

\* Mutant: the client is not told which session it is in.
JoinJoinForgotten(t) ==
    /\ pc[t] = "joinJoin"
    /\ Finish(t)
    /\ UNCHANGED <<registries, clientObjects, sessionObjects, calls, history>>

\* A client that is in a session meanwhile stays a receiver of this one.
JoinJoin(t) ==
    /\ pc[t] = "joinJoin"
    /\ LET o == local[t].me
       IN  joined' = IF joined[o] = None THEN [joined EXCEPT ![o] = local[t].name] ELSE joined
    /\ Finish(t)
    /\ UNCHANGED <<registries, token, dead, sessionObjects, calls, history>>

-----------------------------------------------------------------------------
(* What happens to sessions and clients apart from these requests *)

Incident == /\ incidents < MaxIncidents
            /\ incidents' = incidents + 1
            /\ UNCHANGED <<overlapped, reused>>

\* The end of the upload lets the session outlive its sender.
EndUpload(s) ==
    /\ Incident
    /\ sessions[Id(s)] = s /\ creator[s] \notin dead
    /\ uploaded' = uploaded \cup {s}
    /\ UNCHANGED <<registries, clientObjects, creator, receivers, subscribed, ended,
                   threads, calls>>

\* A handler or a timer of the session decides that it ends ...
EndSession(s) ==
    /\ Incident
    /\ sessions[Id(s)] = s
    /\ closing' = closing \cup {s}
    /\ UNCHANGED <<registries, clientObjects, sessionObjects, threads, leaving>>

\* ... and removes what is registered by its name.
CloseSession(s) ==
    /\ closing' = closing \ {s}
    /\ RemoveSession(Id(s))
    /\ UNCHANGED <<clients, clientObjects, sessionObjects, threads, leaving, history>>

\* removeReceiver by the sender: the client goes when it has been told.
Kick(s, o) ==
    /\ Incident
    /\ sessions[Id(s)] = s /\ o \in receivers[s] \ dead
    /\ receivers' = [receivers EXCEPT ![s] = @ \ {o}]
    /\ leaving' = leaving \cup {<<o, Nobody>>}
    /\ UNCHANGED <<registries, clientObjects, creator, subscribed, uploaded, ended,
                   threads, closing>>

\* The timer of a client without a connection.
TimeOut(o) ==
    /\ Incident
    /\ Listed(o)
    /\ leaving' = leaving \cup {<<o, Nobody>>}
    /\ UNCHANGED <<registries, clientObjects, sessionObjects, threads, closing>>

\* The callback of such an event or timer.
RemoveClient(o, why) ==
    /\ leaving' = leaving \ {<<o, why>>}
    /\ clients' = [clients EXCEPT ![token[o]] = Nobody]
    /\ UNCHANGED <<sessions, clientObjects, sessionObjects, threads, closing, history>>

-----------------------------------------------------------------------------
(* Destructors *)

Told(o) == {s \in Sessions : Open(s) /\ o \in subscribed[s]}

\* TransferSession::update takes the end of any member for its sender's once the
\* sender is gone.
SenderGone(o) == {s \in Told(o) : creator[s] \in dead \cup {o}}

\* Mutant: the sessions are not told.
DestroyClientSilently(o) ==
    /\ token[o] # None /\ o \notin dead /\ ~Listed(o)
    /\ \A t \in Thread : local[t].me # o
    /\ dead' = dead \cup {o}
    /\ UNCHANGED <<registries, token, joined, sessionObjects, threads, calls, history>>

\* ~Client: sessions lose their sender, or a receiver, by its public identifier.
DestroyClient(o) ==
    /\ token[o] # None /\ o \notin dead /\ ~Listed(o)
    /\ \A t \in Thread : local[t].me # o
    /\ dead' = dead \cup {o} /\ joined' = [joined EXCEPT ![o] = None]
    /\ closing' = closing \cup {s \in SenderGone(o) : s \notin uploaded \/ receivers[s] = {}}
    /\ LET Same(s) == {p \in receivers[s] : token[p] = token[o]}
           losing == Told(o) \ SenderGone(o)
       IN  /\ receivers' = [s \in Sessions |->
                              IF s \in losing THEN receivers[s] \ (Same(s) \cup dead')
                              ELSE receivers[s]]
           /\ leaving' = leaving \cup
                {<<p, Nobody>> : p \in UNION {Same(s) : s \in losing} \ dead'}
    /\ UNCHANGED <<registries, token, creator, subscribed, uploaded, ended,
                   threads, history>>

\* Mutant: the session goes while a handler works on it.
DestroySessionInUse(s) ==
    /\ Open(s) /\ sessions[Id(s)] # s /\ s \notin closing
    /\ ended' = ended \cup {s}
    /\ leaving' = leaving \cup {<<o, s>> : o \in subscribed[s] \ dead}
    /\ receivers' = [receivers EXCEPT ![s] = {}]
    /\ subscribed' = [subscribed EXCEPT ![s] = {}]
    /\ UNCHANGED <<registries, clientObjects, creator, uploaded, threads, closing, history>>

\* ~TransferSession: whoever is still there is told, and goes when it has been.
DestroySession(s) ==
    /\ Open(s) /\ sessions[Id(s)] # s /\ s \notin closing
    /\ \A t \in Thread : local[t].at # s
    /\ ended' = ended \cup {s}
    /\ leaving' = leaving \cup {<<o, s>> : o \in subscribed[s] \ dead}
    /\ receivers' = [receivers EXCEPT ![s] = {}]
    /\ subscribed' = [subscribed EXCEPT ![s] = {}]
    /\ UNCHANGED <<registries, clientObjects, creator, uploaded, threads, closing, history>>

-----------------------------------------------------------------------------

Start(t) ==
    \E k \in Token : \/ StartRegister(t, k) \/ StartLeave(t, k) \/ StartCreate(t, k)
                     \/ \E id \in Token : StartJoin(t, k, id)

Step(t) ==
    \/ ClientInsert(t) \/ Leave(t)
    \/ CreateTestJoined(t) \/ CreateTestCount(t) \/ CreateInsert(t) \/ CreateJoin(t)
    \/ JoinGet(t) \/ JoinTestJoined(t) \/ JoinRefused(t) \/ JoinAdd(t) \/ JoinJoin(t)

SessionStep(s) ==
    /\ Open(s)
    /\ \/ EndUpload(s) \/ EndSession(s) \/ DestroySession(s)
       \/ \E o \in Clients : Kick(s, o)

ClientStep(o) == TimeOut(o) \/ DestroyClient(o)

Next ==
    \/ \E t \in Thread : Start(t) \/ Step(t)
    \/ \E s \in Sessions : SessionStep(s)
    \/ \E s \in closing : CloseSession(s)
    \/ \E o \in Clients : ClientStep(o)
    \/ \E call \in leaving : RemoveClient(call[1], call[2])

Spec == Init /\ [][Next]_vars

-----------------------------------------------------------------------------
(* Properties *)

Place == {"idle", "clientInsert", "leave", "createTest", "createCount", "createInsert",
          "createJoin", "joinGet", "joinTest", "joinAdd", "joinJoin"}

Types ==
    /\ clients \in [Token -> Clients \cup {Nobody}]
    /\ sessions \in [Token -> Sessions \cup {Nobody}]
    /\ token \in [Clients -> Token \cup {None}] /\ joined \in [Clients -> Token \cup {None}]
    /\ creator \in [Sessions -> Clients \cup {Nobody}]
    /\ receivers \in [Sessions -> SUBSET Clients] /\ subscribed \in [Sessions -> SUBSET Clients]
    /\ dead \subseteq Clients /\ uploaded \cup ended \cup closing \subseteq Sessions
    /\ pc \in [Thread -> Place]
    /\ local \in [Thread -> [name : Token \cup {None}, me : Clients \cup {Nobody},
                             at : Sessions \cup {Nobody}]]
    /\ leaving \subseteq Clients \X (Sessions \cup {Nobody})
    /\ overlapped \subseteq Clients /\ reused \subseteq Token

\* The types of the variables; what is registered is alive, under its own name, and
\* a handler never works with an object that was destroyed.
TypeOK ==
    /\ Types
    /\ \A k \in ListedClients : token[clients[k]] = k /\ clients[k] \notin dead
    /\ \A k \in ListedSessions : Open(sessions[k]) /\ Id(sessions[k]) = k
    /\ \A t \in Thread : local[t].me \notin dead /\ local[t].at \notin ended

\* Limits are tested in one critical section and used in another: they are overrun,
\* but by no more than the handlers that can be between the two at once.
Inserting(step) == {t \in Thread : pc[t] = step}
ClientsBounded ==
    Cardinality(ListedClients) + Cardinality(Inserting("clientInsert"))
        <= ClientLimit + Cardinality(Thread) - 1
SessionsBounded ==
    Cardinality(ListedSessions) + Cardinality(Inserting("createInsert"))
        <= SessionLimit + Cardinality(Thread) - 1

\* No handler works for client o.
AtPeace(o) == \A t \in Thread : local[t].me # o

\* Who is a receiver of a session knows it for the session it is in, unless two of
\* its requests overlapped.
ReceiversKnowTheirSession ==
    \A s \in Sessions : Open(s) =>
        \A o \in receivers[s] \ (dead \cup overlapped) : AtPeace(o) => joined[o] = Id(s)

\* A session does not end without its members: a client that is registered and in a
\* session is going, or that session has not ended; whatever the order of its join,
\* the session's end and its removal from the registry.
NobodyInEndedSession ==
    \A o \in Clients :
        Listed(o) /\ joined[o] # None /\ (\A call \in leaving : call[1] # o)
            => \E s \in Sessions : Open(s) /\ Id(s) = joined[o] /\ o \in subscribed[s]

\* A registered session whose upload has not ended has its sender, or is about to go.
NoSessionWithoutSender ==
    \A k \in ListedSessions :
        creator[sessions[k]] \in dead => sessions[k] \in uploaded \cup closing

\* A client in a session is removed only for a reason of its own (it leaves, is
\* away too long, is kicked) or because that session ended, and never because
\* another one did; unless its requests overlapped or its token came back.
OwnReason(o) ==
    \/ \E t \in Thread : pc[t] = "leave" /\ local[t].me = o
    \/ \E call \in leaving : call[1] = o /\ (call[2] # Nobody => Id(call[2]) = joined[o])
RemovedForOwnReason ==
    [][\A o \in Clients :
          Listed(o) /\ clients'[token[o]] # o /\ joined[o] # None
              => OwnReason(o) \/ o \in overlapped \/ token[o] \in reused]_vars
=============================================================================
