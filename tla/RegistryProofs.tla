---------------------------- MODULE RegistryProofs ----------------------------
(***************************************************************************)
(* Proofs about Registry, for any threads, tokens and limits: that its     *)
(* objects are used only while they exist, how far the limits can be       *)
(* overrun, and what joins, departures and removals by name leave of the   *)
(* membership of clients in sessions.                                      *)
(***************************************************************************)
EXTENDS Registry, FiniteSetTheorems, TLAPS

-----------------------------------------------------------------------------
(* The inductive invariant *)

\* What has not been made has no members, and what was destroyed has none left.
ObjectsMade ==
    /\ \A o \in dead : token[o] # None
    /\ \A o \in Clients : token[o] = None => joined[o] = None
    /\ \A s \in Sessions : creator[s] # Nobody => token[creator[s]] # None
    /\ \A s \in ended : creator[s] # Nobody
    /\ \A s \in Sessions : ~Open(s) => receivers[s] = {} /\ subscribed[s] = {}
    /\ \A s \in Sessions : \A o \in subscribed[s] : token[o] # None
    /\ \A call \in leaving : /\ token[call[1]] # None
                             /\ call[2] # Nobody => creator[call[2]] # Nobody

TokensNoted ==
    \A o, p \in Clients : o # p /\ token[o] = token[p] /\ token[o] # None => token[o] \in reused

\* What a handler holds, step by step.
HandlersHold ==
    \A t \in Thread :
        /\ local[t].me # Nobody => token[local[t].me] # None
        /\ pc[t] \notin {"idle", "clientInsert"} => local[t].me # Nobody
        /\ pc[t] \in {"clientInsert", "joinGet", "joinTest", "joinAdd", "joinJoin"}
               => local[t].name # None
        /\ pc[t] \in {"joinTest", "joinAdd", "joinJoin"}
               => /\ local[t].at # Nobody /\ creator[local[t].at] # Nobody
                  /\ Id(local[t].at) = local[t].name
        /\ pc[t] = "createJoin" => local[t].at # Nobody /\ creator[local[t].at] = local[t].me
        /\ pc[t] = "joinJoin" => local[t].me \in subscribed[local[t].at]

MembersSubscribed ==
    \A s \in Sessions : Open(s) =>
        creator[s] \in subscribed[s] /\ receivers[s] \subseteq subscribed[s]

\* Requests of one client overlap, or one of them only lets it leave.
OverlapsNoted ==
    \A t, u \in Thread :
        (t # u /\ local[t].me = local[u].me /\ local[t].me # Nobody
         /\ pc[t] # "leave" /\ pc[u] # "leave")
            => local[t].me \in overlapped

\* A client that was found in no session still is in none.
TestStillHolds ==
    \A t \in Thread :
        (pc[t] \in {"createCount", "createInsert", "createJoin", "joinAdd", "joinJoin"}
         /\ local[t].me \notin overlapped)
            => joined[local[t].me] = None

Joining(o, s) ==
    \E t \in Thread : /\ pc[t] \in {"createJoin", "joinJoin"}
                      /\ local[t].me = o /\ local[t].at = s

\* Who is subscribed to a session is in it, or about to be.
SubscribersKnow ==
    \A s \in Sessions : \A o \in subscribed[s] \ (dead \cup overlapped) :
        joined[o] = Id(s) \/ Joining(o, s)

\* Who goes because a session ended was in that one.
GoneWithTheirSession ==
    \A call \in leaving :
        call[2] # Nobody /\ call[1] \notin dead \cup overlapped => joined[call[1]] = Id(call[2])

IInv ==
    /\ TypeOK /\ ObjectsMade /\ TokensNoted /\ HandlersHold /\ MembersSubscribed
    /\ OverlapsNoted /\ TestStillHolds /\ SubscribersKnow /\ GoneWithTheirSession
    /\ NobodyInEndedSession /\ NoSessionWithoutSender

-----------------------------------------------------------------------------
(* What the objects are *)

\* No object is nobody, and no token is none.
LEMMA NobodyApart == Nobody \notin Clients /\ Nobody \notin Sessions /\ None \notin Token
  BY RegistryAssumption DEF Nobody, Clients, Sessions

\* The invariant holds before anything has been made.
LEMMA InitIInv == Init => IInv
<1> SUFFICES ASSUME Init PROVE IInv
  OBVIOUS
<1> USE NobodyApart DEF Init
<1>1. TypeOK
  BY DEF TypeOK, Types, ListedClients, ListedSessions, AtRest, Place
<1>2. ObjectsMade /\ TokensNoted
  BY DEF ObjectsMade, TokensNoted, Open
<1>3. HandlersHold /\ OverlapsNoted /\ TestStillHolds
  BY DEF HandlersHold, OverlapsNoted, TestStillHolds, AtRest
<1>4. MembersSubscribed /\ SubscribersKnow /\ GoneWithTheirSession
  BY DEF MembersSubscribed, SubscribersKnow, GoneWithTheirSession, Open
<1>5. NobodyInEndedSession /\ NoSessionWithoutSender
  BY DEF NobodyInEndedSession, NoSessionWithoutSender, Listed, ListedSessions
<1> QED BY <1>1, <1>2, <1>3, <1>4, <1>5 DEF IInv

-----------------------------------------------------------------------------
(* Every step keeps the invariant *)

\* The limit on clients is tested: nobody is made yet.
LEMMA StartRegisterKeeps ==
    ASSUME IInv, NEW t \in Thread, NEW k \in Token, StartRegister(t, k)
    PROVE  IInv'
<1> USE NobodyApart DEF IInv, StartRegister, Begin,
        registries, clientObjects, sessionObjects, calls, history
<1>1. Types' BY DEF Types, TypeOK, Place, AtRest
<1>2. TypeOK' BY <1>1 DEF TypeOK, Types, AtRest, ListedClients, ListedSessions, Open, Id
<1>3. ObjectsMade' BY DEF ObjectsMade, TypeOK, Types, Open
<1>4. TokensNoted' BY DEF TokensNoted, TypeOK, Types
<1>5. HandlersHold' BY DEF HandlersHold, TypeOK, Types, AtRest, Id
<1>6. MembersSubscribed' BY DEF MembersSubscribed, TypeOK, Types, Open
<1>7. OverlapsNoted' BY DEF OverlapsNoted, TypeOK, Types, AtRest
<1>8. TestStillHolds' BY DEF TestStillHolds, TypeOK, Types, AtRest
<1>9. SubscribersKnow' BY DEF SubscribersKnow, TypeOK, Types, Joining, Id
<1>10. GoneWithTheirSession' BY DEF GoneWithTheirSession, TypeOK, Types, Id
<1>11. NobodyInEndedSession' BY DEF NobodyInEndedSession, TypeOK, Types, Listed, Open, Id
<1>12. NoSessionWithoutSender' BY DEF NoSessionWithoutSender, TypeOK, Types, ListedSessions
<1> QED BY <1>1, <1>2, <1>3, <1>4, <1>5, <1>6, <1>7, <1>8, <1>9, <1>10, <1>11, <1>12

\* A client is made: it is new, so no handler, session or other token knows it.
LEMMA ClientInsertKeeps ==
    ASSUME IInv, NEW t \in Thread, ClientInsert(t)
    PROVE  IInv'
<1> USE NobodyApart DEF IInv, ClientInsert, Finish,
        registries, clientObjects, sessionObjects, calls, history
<1> DEFINE k == local[t].name
<1>k. k \in Token
  BY DEF TypeOK, Types, HandlersHold
<1>t. \A o \in Clients : token[o] # None => token'[o] = token[o]
  BY <1>k DEF TypeOK, Types
<1>i. \A s \in Sessions : creator[s] # Nobody => Id(s)' = Id(s)
  BY <1>k, <1>t DEF TypeOK, Types, ObjectsMade, Id
<1>l. \A o \in Clients : token[o] # None /\ Listed(o)' => Listed(o)
  BY <1>k, <1>t DEF TypeOK, Types, Listed
<1> USE <1>k, <1>t, <1>i, <1>l
<1>1. Types' BY SMTT(20) DEF Types, TypeOK, Place, AtRest
<1>2. TypeOK'
  BY <1>1 DEF TypeOK, Types, ObjectsMade, HandlersHold, ListedClients, ListedSessions, Open,
       AtRest
<1>3. ObjectsMade' BY DEF ObjectsMade, TypeOK, Types, Open
<1>4. TokensNoted' BY DEF TokensNoted, TypeOK, Types
<1>5. HandlersHold' BY DEF HandlersHold, TypeOK, Types, AtRest, Id
<1>6. MembersSubscribed' BY DEF MembersSubscribed, TypeOK, Types, Open
<1>7. OverlapsNoted' BY DEF OverlapsNoted, TypeOK, Types, AtRest
<1>8. TestStillHolds' BY DEF TestStillHolds, TypeOK, Types, AtRest
<1>9. SubscribersKnow'
  BY DEF SubscribersKnow, TypeOK, Types, Joining, ObjectsMade, Open, HandlersHold
<1>10. GoneWithTheirSession' BY DEF GoneWithTheirSession, TypeOK, Types, ObjectsMade
<1>11. NobodyInEndedSession' BY DEF NobodyInEndedSession, TypeOK, Types, ObjectsMade, Open
<1>12. NoSessionWithoutSender' BY DEF NoSessionWithoutSender, TypeOK, Types, ListedSessions
<1> QED BY <1>1, <1>2, <1>3, <1>4, <1>5, <1>6, <1>7, <1>8, <1>9, <1>10, <1>11, <1>12

\* A request to leave begins; it does not overlap with others as far as sessions go.
LEMMA StartLeaveKeeps ==
    ASSUME IInv, NEW t \in Thread, NEW k \in Token, StartLeave(t, k)
    PROVE  IInv'
<1> USE NobodyApart DEF IInv, StartLeave, Begin,
        registries, clientObjects, sessionObjects, calls, history
<1>1. Types' BY DEF Types, TypeOK, Place, AtRest
<1>2. TypeOK' BY <1>1 DEF TypeOK, Types, AtRest, ListedClients, ListedSessions, Open, Id
<1>3. ObjectsMade' BY DEF ObjectsMade, TypeOK, Types, Open
<1>4. TokensNoted' BY DEF TokensNoted, TypeOK, Types
<1>5. HandlersHold' BY DEF HandlersHold, TypeOK, Types, ListedClients, AtRest, Id
<1>6. MembersSubscribed' BY DEF MembersSubscribed, TypeOK, Types, Open
<1>7. OverlapsNoted' BY DEF OverlapsNoted, TypeOK, Types, AtRest
<1>8. TestStillHolds' BY DEF TestStillHolds, TypeOK, Types, AtRest
<1>9. SubscribersKnow' BY DEF SubscribersKnow, TypeOK, Types, Joining, Id
<1>10. GoneWithTheirSession' BY DEF GoneWithTheirSession, TypeOK, Types, Id
<1>11. NobodyInEndedSession' BY DEF NobodyInEndedSession, TypeOK, Types, Listed, Open, Id
<1>12. NoSessionWithoutSender' BY DEF NoSessionWithoutSender, TypeOK, Types, ListedSessions
<1> QED BY <1>1, <1>2, <1>3, <1>4, <1>5, <1>6, <1>7, <1>8, <1>9, <1>10, <1>11, <1>12

\* A client leaves, or whoever is registered by its name.
LEMMA LeaveKeeps ==
    ASSUME IInv, NEW t \in Thread, Leave(t)
    PROVE  IInv'
<1> USE NobodyApart DEF IInv, Leave, Finish,
        registries, clientObjects, sessionObjects, calls, history
<1>1. Types' BY DEF Types, TypeOK, Place, AtRest
<1>2. TypeOK' BY <1>1 DEF TypeOK, Types, AtRest, ListedClients, ListedSessions, Open, Id
<1>3. ObjectsMade' BY DEF ObjectsMade, TypeOK, Types, Open
<1>4. TokensNoted' BY DEF TokensNoted, TypeOK, Types
<1>5. HandlersHold' BY DEF HandlersHold, TypeOK, Types, AtRest, Id
<1>6. MembersSubscribed' BY DEF MembersSubscribed, TypeOK, Types, Open
<1>7. OverlapsNoted' BY DEF OverlapsNoted, TypeOK, Types, AtRest
<1>8. TestStillHolds' BY DEF TestStillHolds, TypeOK, Types, AtRest
<1>9. SubscribersKnow' BY DEF SubscribersKnow, TypeOK, Types, Joining, Id
<1>10. GoneWithTheirSession' BY DEF GoneWithTheirSession, TypeOK, Types, Id
<1>11. NobodyInEndedSession' BY DEF NobodyInEndedSession, TypeOK, Types, Listed, Open, Id
<1>12. NoSessionWithoutSender' BY DEF NoSessionWithoutSender, TypeOK, Types, ListedSessions
<1> QED BY <1>1, <1>2, <1>3, <1>4, <1>5, <1>6, <1>7, <1>8, <1>9, <1>10, <1>11, <1>12

\* A request to create a session begins, and is noted if it overlaps.
LEMMA StartCreateKeeps ==
    ASSUME IInv, NEW t \in Thread, NEW k \in Token, StartCreate(t, k)
    PROVE  IInv'
<1> USE NobodyApart DEF IInv, StartCreate, Begin, NoteOverlap,
        registries, clientObjects, sessionObjects, calls, history
<1>1. Types' BY DEF Types, TypeOK, Place, AtRest
<1>2. TypeOK' BY <1>1 DEF TypeOK, Types, AtRest, ListedClients, ListedSessions, Open, Id
<1>3. ObjectsMade' BY DEF ObjectsMade, TypeOK, Types, Open
<1>4. TokensNoted' BY DEF TokensNoted, TypeOK, Types
<1>5. HandlersHold' BY DEF HandlersHold, TypeOK, Types, ListedClients, AtRest, Id
<1>6. MembersSubscribed' BY DEF MembersSubscribed, TypeOK, Types, Open
<1>7. OverlapsNoted' BY DEF OverlapsNoted, TypeOK, Types, AtRest
<1>8. TestStillHolds' BY DEF TestStillHolds, TypeOK, Types, AtRest
<1>9. SubscribersKnow' BY DEF SubscribersKnow, TypeOK, Types, Joining, Id
<1>10. GoneWithTheirSession' BY DEF GoneWithTheirSession, TypeOK, Types, Id
<1>11. NobodyInEndedSession' BY DEF NobodyInEndedSession, TypeOK, Types, Listed, Open, Id
<1>12. NoSessionWithoutSender' BY DEF NoSessionWithoutSender, TypeOK, Types, ListedSessions
<1> QED BY <1>1, <1>2, <1>3, <1>4, <1>5, <1>6, <1>7, <1>8, <1>9, <1>10, <1>11, <1>12

\* The client is found in no session, which a request that overlaps may change.
LEMMA CreateTestJoinedKeeps ==
    ASSUME IInv, NEW t \in Thread, CreateTestJoined(t)
    PROVE  IInv'
<1> USE NobodyApart DEF IInv, CreateTestJoined, GoIf, Go, Finish,
        registries, clientObjects, sessionObjects, calls, history
<1>c. \/ pc' = [pc EXCEPT ![t] = "createCount"] /\ local' = local
      \/ pc' = [pc EXCEPT ![t] = "idle"] /\ local' = [local EXCEPT ![t] = AtRest]
  OBVIOUS
<1>1. Types' BY <1>c DEF Types, TypeOK, Place, AtRest
<1>2. TypeOK' BY <1>1 DEF TypeOK, Types, AtRest, ListedClients, ListedSessions, Open, Id
<1>3. ObjectsMade' BY DEF ObjectsMade, TypeOK, Types, Open
<1>4. TokensNoted' BY DEF TokensNoted, TypeOK, Types
<1>5. HandlersHold' BY <1>c DEF HandlersHold, TypeOK, Types, AtRest, Id
<1>6. MembersSubscribed' BY DEF MembersSubscribed, TypeOK, Types, Open
<1>7. OverlapsNoted' BY DEF OverlapsNoted, TypeOK, Types, AtRest
<1>8. TestStillHolds' BY DEF TestStillHolds, TypeOK, Types, AtRest
<1>9. SubscribersKnow' BY DEF SubscribersKnow, TypeOK, Types, Joining, Id
<1>10. GoneWithTheirSession' BY DEF GoneWithTheirSession, TypeOK, Types, Id
<1>11. NobodyInEndedSession' BY DEF NobodyInEndedSession, TypeOK, Types, Listed, Open, Id
<1>12. NoSessionWithoutSender' BY DEF NoSessionWithoutSender, TypeOK, Types, ListedSessions
<1> QED BY <1>1, <1>2, <1>3, <1>4, <1>5, <1>6, <1>7, <1>8, <1>9, <1>10, <1>11, <1>12

\* The limit on sessions is tested.
LEMMA CreateTestCountKeeps ==
    ASSUME IInv, NEW t \in Thread, CreateTestCount(t)
    PROVE  IInv'
<1> USE NobodyApart DEF IInv, CreateTestCount, GoIf, Go, Finish,
        registries, clientObjects, sessionObjects, calls, history
<1>c. \/ pc' = [pc EXCEPT ![t] = "createInsert"] /\ local' = local
      \/ pc' = [pc EXCEPT ![t] = "idle"] /\ local' = [local EXCEPT ![t] = AtRest]
  OBVIOUS
<1>1. Types' BY <1>c, SMTT(20) DEF Types, TypeOK, Place, AtRest
<1>2. TypeOK' BY <1>1 DEF TypeOK, Types, AtRest, ListedClients, ListedSessions, Open, Id
<1>3. ObjectsMade' BY DEF ObjectsMade, TypeOK, Types, Open
<1>4. TokensNoted' BY DEF TokensNoted, TypeOK, Types
<1>5. HandlersHold' BY <1>c DEF HandlersHold, TypeOK, Types, AtRest, Id
<1>6. MembersSubscribed' BY DEF MembersSubscribed, TypeOK, Types, Open
<1>7. OverlapsNoted' BY DEF OverlapsNoted, TypeOK, Types, AtRest
<1>8. TestStillHolds' BY DEF TestStillHolds, TypeOK, Types, AtRest
<1>9. SubscribersKnow' BY DEF SubscribersKnow, TypeOK, Types, Joining, Id
<1>10. GoneWithTheirSession' BY DEF GoneWithTheirSession, TypeOK, Types, Id
<1>11. NobodyInEndedSession' BY DEF NobodyInEndedSession, TypeOK, Types, Listed, Open, Id
<1>12. NoSessionWithoutSender' BY DEF NoSessionWithoutSender, TypeOK, Types, ListedSessions
<1> QED BY <1>1, <1>2, <1>3, <1>4, <1>5, <1>6, <1>7, <1>8, <1>9, <1>10, <1>11, <1>12

\* A session is made, and its sender subscribed.
LEMMA CreateInsertKeeps ==
    ASSUME IInv, NEW t \in Thread, CreateInsert(t)
    PROVE  IInv'
<1> USE NobodyApart DEF IInv, CreateInsert, Finish,
        registries, clientObjects, sessionObjects, calls, history
<1>o. local[t].me \in Clients /\ token[local[t].me] \in Token /\ local[t].me \notin dead
  BY DEF TypeOK, Types, HandlersHold
<1>s. /\ \A s \in Sessions : creator[s] # Nobody => creator'[s] = creator[s] /\ Id(s)' = Id(s)
                                                  /\ subscribed'[s] = subscribed[s]
      /\ \A s \in Sessions : creator[s] = Nobody /\ creator'[s] # Nobody =>
            /\ creator'[s] = local[t].me /\ subscribed'[s] = {local[t].me}
            /\ local'[t].at = s /\ local'[t].me = local[t].me /\ pc'[t] = "createJoin"
            /\ sessions'[token[local[t].me]] = s
      /\ \A s \in Sessions : creator'[s] = Nobody =>
            creator[s] = Nobody /\ subscribed'[s] = subscribed[s]
  BY <1>o DEF TypeOK, Types, Id
<1> USE <1>o, <1>s
<1>1. Types'
  <2>1. CASE sessions[token[local[t].me]] # Nobody
    BY <2>1 DEF Types, TypeOK, Place, AtRest
  <2>2. CASE sessions[token[local[t].me]] = Nobody
    <3>1. PICK s \in Sessions :
              /\ creator[s] = Nobody
              /\ sessions' = [sessions EXCEPT ![token[local[t].me]] = s]
              /\ creator' = [creator EXCEPT ![s] = local[t].me]
              /\ subscribed' = [subscribed EXCEPT ![s] = {local[t].me}]
              /\ pc' = [pc EXCEPT ![t] = "createJoin"]
              /\ local' = [local EXCEPT ![t].at = s]
      BY <2>2
    <3>2. UNCHANGED <<clients, clientObjects, receivers, uploaded, ended, calls, history>>
      OBVIOUS
    <3> HIDE DEF CreateInsert
    <3> QED BY <3>2, <3>1 DEF Types, TypeOK, Place, AtRest
  <2> QED BY <2>1, <2>2
<1>2. TypeOK'
  <2>1. CASE sessions[token[local[t].me]] # Nobody
    BY <2>1, <1>1 DEF TypeOK, Types, ObjectsMade, ListedClients, ListedSessions, Open, Id,
           AtRest
  <2>2. CASE sessions[token[local[t].me]] = Nobody
    <3>1. PICK s \in Sessions :
              /\ creator[s] = Nobody
              /\ sessions' = [sessions EXCEPT ![token[local[t].me]] = s]
              /\ creator' = [creator EXCEPT ![s] = local[t].me]
              /\ subscribed' = [subscribed EXCEPT ![s] = {local[t].me}]
              /\ pc' = [pc EXCEPT ![t] = "createJoin"]
              /\ local' = [local EXCEPT ![t].at = s]
      BY <2>2
    <3>2. UNCHANGED <<clients, clientObjects, receivers, uploaded, ended, calls, history>>
      OBVIOUS
    <3> HIDE DEF CreateInsert
    <3> QED BY <3>2, <3>1, <1>1 DEF TypeOK, Types, ObjectsMade, ListedClients,
           ListedSessions, Open, Id, AtRest
  <2> QED BY <2>1, <2>2
<1>3. ObjectsMade' BY <1>1 DEF ObjectsMade, TypeOK, Types, Open
<1>4. TokensNoted' BY DEF TokensNoted, TypeOK, Types
<1>5. HandlersHold' BY DEF HandlersHold, TypeOK, Types, AtRest, Id
<1>6. MembersSubscribed' BY <1>1 DEF MembersSubscribed, ObjectsMade, TypeOK, Types, Open
<1>7. OverlapsNoted' BY SMTT(20) DEF OverlapsNoted, TypeOK, Types, AtRest
<1>8. TestStillHolds' BY DEF TestStillHolds, TypeOK, Types, AtRest
<1>9. SubscribersKnow'
  <2> SUFFICES ASSUME NEW s \in Sessions, NEW o \in subscribed'[s] \ (dead \cup overlapped)
               PROVE  joined[o] = Id(s)' \/ Joining(o, s)'
    BY DEF SubscribersKnow, Id
  <2>1. CASE creator[s] # Nobody
    <3>1. o \in subscribed[s] /\ Id(s)' = Id(s)
      BY <2>1
    <3>2. \A u \in Thread : pc[u] \in {"createJoin", "joinJoin"} =>
                             pc'[u] = pc[u] /\ local'[u] = local[u]
      BY DEF TypeOK, Types
    <3> HIDE DEF CreateInsert
    <3> QED BY <3>1, <3>2 DEF SubscribersKnow, Joining
  <2>2. CASE creator[s] = Nobody /\ creator'[s] # Nobody
    BY <2>2 DEF Joining
  <2>3. CASE creator'[s] = Nobody
    BY <2>3 DEF ObjectsMade, Open
  <2> QED BY <2>1, <2>2, <2>3
<1>10. GoneWithTheirSession' BY <1>1 DEF GoneWithTheirSession, ObjectsMade, TypeOK, Types
<1>11. NobodyInEndedSession' BY DEF NobodyInEndedSession, TypeOK, Types, Listed, Open, Id
<1>12. NoSessionWithoutSender' BY DEF NoSessionWithoutSender, TypeOK, Types, ListedSessions
<1> QED BY <1>1, <1>2, <1>3, <1>4, <1>5, <1>6, <1>7, <1>8, <1>9, <1>10, <1>11, <1>12

\* The sender joins its session, unless it overlapped with itself.
LEMMA CreateJoinKeeps ==
    ASSUME IInv, NEW t \in Thread, CreateJoin(t)
    PROVE  IInv'
<1> USE NobodyApart DEF IInv, CreateJoin, Finish, RemoveSession,
        registries, clientObjects, sessionObjects, calls, history
<1>1. Types' BY DEF Types, TypeOK, Place, AtRest, HandlersHold
<1>2. TypeOK' BY <1>1 DEF TypeOK, Types, AtRest, ListedClients, ListedSessions, Open, Id
<1>3. ObjectsMade' BY DEF ObjectsMade, TypeOK, Types, Open, HandlersHold
<1>4. TokensNoted' BY DEF TokensNoted, TypeOK, Types
<1>5. HandlersHold' BY DEF HandlersHold, TypeOK, Types, AtRest, Id
<1>6. MembersSubscribed' BY DEF MembersSubscribed, TypeOK, Types, Open
<1>7. OverlapsNoted' BY DEF OverlapsNoted, TypeOK, Types, AtRest
<1>8. TestStillHolds'
  BY DEF TestStillHolds, TypeOK, Types, AtRest, OverlapsNoted, HandlersHold
<1>9. SubscribersKnow'
  <2> SUFFICES ASSUME NEW s \in Sessions, NEW o \in subscribed[s] \ (dead \cup overlapped)
               PROVE  joined'[o] = Id(s) \/ Joining(o, s)'
    BY DEF SubscribersKnow, Id
  <2>1. o \in Clients /\ Id(s) # None
    BY DEF TypeOK, Types, ObjectsMade, Open, Id
  <2>2. CASE joined[o] = Id(s)
    BY <2>1, <2>2 DEF TypeOK, Types
  <2>3. CASE \E u \in Thread \ {t} : /\ pc[u] \in {"createJoin", "joinJoin"}
                                   /\ local[u].me = o /\ local[u].at = s
    BY <2>3 DEF Joining, TypeOK, Types
  <2>4. CASE local[t].me = o /\ local[t].at = s
    BY <2>1, <2>4 DEF TestStillHolds, HandlersHold, TypeOK, Types, Id
  <2> QED BY <2>2, <2>3, <2>4 DEF SubscribersKnow, Joining
<1>10. GoneWithTheirSession' BY DEF GoneWithTheirSession, TypeOK, Types, Id, ObjectsMade
<1>11. NobodyInEndedSession'
  BY DEF NobodyInEndedSession, TypeOK, Types, Listed, Open, Id, HandlersHold,
       MembersSubscribed, ObjectsMade
<1>12. NoSessionWithoutSender' BY DEF NoSessionWithoutSender, TypeOK, Types, ListedSessions
<1> QED BY <1>1, <1>2, <1>3, <1>4, <1>5, <1>6, <1>7, <1>8, <1>9, <1>10, <1>11, <1>12

\* What a request to join carries along.
LEMMA JoinFrame ==
    ASSUME NEW o \in Clients, NEW id \in Token
    PROVE  [AtRest EXCEPT !.me = o, !.name = id]
               \in [name : Token \cup {None}, me : Clients \cup {Nobody},
                    at : Sessions \cup {Nobody}]
BY DEF AtRest

\* A request to join begins, and is noted if it overlaps.
LEMMA StartJoinKeeps ==
    ASSUME IInv, NEW t \in Thread, NEW k \in Token, NEW id \in Token, StartJoin(t, k, id)
    PROVE  IInv'
<1> USE NobodyApart DEF IInv, StartJoin, Begin, NoteOverlap,
        registries, clientObjects, sessionObjects, calls, history
<1>1. Types'
  <2> DEFINE R == [name : Token \cup {None}, me : Clients \cup {Nobody},
                   at : Sessions \cup {Nobody}]
             l == [AtRest EXCEPT !.me = clients[k], !.name = id]
  <2>1. clients[k] \in Clients BY DEF TypeOK, Types
  <2>2. l \in R BY <2>1, JoinFrame
  <2>3. local \in [Thread -> R] BY DEF TypeOK, Types
  <2> HIDE DEF l
  <2>4. local' = [local EXCEPT ![t] = l] BY DEF l
  <2> HIDE DEF R
  <2>5. local' \in [Thread -> R] BY <2>2, <2>3, <2>4
  <2>6. pc' \in [Thread -> Place] BY DEF TypeOK, Types, Place
  <2>7. overlapped' \subseteq Clients BY <2>1 DEF TypeOK, Types
  <2> QED BY <2>5, <2>6, <2>7 DEF TypeOK, Types, R
<1>2. TypeOK' BY <1>1 DEF TypeOK, Types, AtRest, ListedClients, ListedSessions, Open, Id
<1>3. ObjectsMade' BY DEF ObjectsMade, TypeOK, Types, Open
<1>4. TokensNoted' BY DEF TokensNoted, TypeOK, Types
<1>5. HandlersHold' BY DEF HandlersHold, TypeOK, Types, ListedClients, AtRest, Id
<1>6. MembersSubscribed' BY DEF MembersSubscribed, TypeOK, Types, Open
<1>7. OverlapsNoted' BY DEF OverlapsNoted, TypeOK, Types, AtRest
<1>8. TestStillHolds' BY DEF TestStillHolds, TypeOK, Types, AtRest
<1>9. SubscribersKnow' BY DEF SubscribersKnow, TypeOK, Types, Joining, Id
<1>10. GoneWithTheirSession' BY DEF GoneWithTheirSession, TypeOK, Types, Id
<1>11. NobodyInEndedSession' BY DEF NobodyInEndedSession, TypeOK, Types, Listed, Open, Id
<1>12. NoSessionWithoutSender' BY DEF NoSessionWithoutSender, TypeOK, Types, ListedSessions
<1> QED BY <1>1, <1>2, <1>3, <1>4, <1>5, <1>6, <1>7, <1>8, <1>9, <1>10, <1>11, <1>12

\* The session is found: the handler keeps it from being destroyed.
LEMMA JoinGetKeeps ==
    ASSUME IInv, NEW t \in Thread, JoinGet(t)
    PROVE  IInv'
<1> USE NobodyApart DEF IInv, JoinGet, Finish,
        registries, clientObjects, sessionObjects, calls, history
<1> DEFINE s == sessions[local[t].name]
<1>n. local[t].name \in Token
  BY DEF TypeOK, Types, HandlersHold
<1>g. \/ pc' = [pc EXCEPT ![t] = "idle"] /\ local' = [local EXCEPT ![t] = AtRest]
      \/ /\ pc' = [pc EXCEPT ![t] = "joinTest"] /\ local' = [local EXCEPT ![t].at = s]
         /\ s \in Sessions \ ended /\ local[t].name \in ListedSessions
  BY <1>n DEF TypeOK, Types, ListedSessions, Open
<1>1. Types' BY <1>g, SMTT(20) DEF Types, TypeOK, Place, AtRest
<1>2. TypeOK'
  <2>1. UNCHANGED <<registries, clientObjects, sessionObjects, calls, history>>
    OBVIOUS
  <2>2. local'[t].me \in {local[t].me, Nobody} /\ local'[t].at \in {s, Nobody}
       /\ Nobody \notin dead \cup ended
    BY <1>1, <1>g DEF TypeOK, Types, AtRest
  <2>3. \A u \in Thread : u # t => local'[u] = local[u]
    BY <1>1, <1>g DEF TypeOK, Types
  <2> HIDE DEF JoinGet
  <2> QED BY <1>1, <1>g, <2>1, <2>2, <2>3 DEF TypeOK, Types, AtRest, ListedClients,
         ListedSessions, Open, Id
<1>3. ObjectsMade' BY DEF ObjectsMade, TypeOK, Types, Open
<1>4. TokensNoted' BY DEF TokensNoted, TypeOK, Types
<1>5. HandlersHold' BY SMTT(20) DEF HandlersHold, TypeOK, Types, ListedSessions, Open, AtRest, Id
<1>6. MembersSubscribed' BY DEF MembersSubscribed, TypeOK, Types, Open
<1>7. OverlapsNoted' BY DEF OverlapsNoted, TypeOK, Types, AtRest
<1>8. TestStillHolds' BY DEF TestStillHolds, TypeOK, Types, AtRest
<1>9. SubscribersKnow' BY DEF SubscribersKnow, TypeOK, Types, Joining, Id
<1>10. GoneWithTheirSession' BY DEF GoneWithTheirSession, TypeOK, Types, Id
<1>11. NobodyInEndedSession' BY DEF NobodyInEndedSession, TypeOK, Types, Listed, Open, Id
<1>12. NoSessionWithoutSender' BY DEF NoSessionWithoutSender, TypeOK, Types, ListedSessions
<1> QED BY <1>1, <1>2, <1>3, <1>4, <1>5, <1>6, <1>7, <1>8, <1>9, <1>10, <1>11, <1>12

\* The client is found in no session.
LEMMA JoinTestJoinedKeeps ==
    ASSUME IInv, NEW t \in Thread, JoinTestJoined(t)
    PROVE  IInv'
<1> USE NobodyApart DEF IInv, JoinTestJoined, GoIf, Go, Finish,
        registries, clientObjects, sessionObjects, calls, history
<1>c. \/ pc' = [pc EXCEPT ![t] = "joinAdd"] /\ local' = local
      \/ pc' = [pc EXCEPT ![t] = "idle"] /\ local' = [local EXCEPT ![t] = AtRest]
  OBVIOUS
<1>1. Types' BY <1>c DEF Types, TypeOK, Place, AtRest
<1>2. TypeOK' BY <1>1 DEF TypeOK, Types, AtRest, ListedClients, ListedSessions, Open, Id
<1>3. ObjectsMade' BY DEF ObjectsMade, TypeOK, Types, Open
<1>4. TokensNoted' BY DEF TokensNoted, TypeOK, Types
<1>5. HandlersHold' BY <1>c DEF HandlersHold, TypeOK, Types, AtRest, Id
<1>6. MembersSubscribed' BY DEF MembersSubscribed, TypeOK, Types, Open
<1>7. OverlapsNoted' BY DEF OverlapsNoted, TypeOK, Types, AtRest
<1>8. TestStillHolds' BY DEF TestStillHolds, TypeOK, Types, AtRest
<1>9. SubscribersKnow' BY DEF SubscribersKnow, TypeOK, Types, Joining, Id
<1>10. GoneWithTheirSession' BY DEF GoneWithTheirSession, TypeOK, Types, Id
<1>11. NobodyInEndedSession' BY DEF NobodyInEndedSession, TypeOK, Types, Listed, Open, Id
<1>12. NoSessionWithoutSender' BY DEF NoSessionWithoutSender, TypeOK, Types, ListedSessions
<1> QED BY <1>1, <1>2, <1>3, <1>4, <1>5, <1>6, <1>7, <1>8, <1>9, <1>10, <1>11, <1>12

\* The session takes nobody: nothing has changed.
LEMMA JoinRefusedKeeps ==
    ASSUME IInv, NEW t \in Thread, JoinRefused(t)
    PROVE  IInv'
<1> USE NobodyApart DEF IInv, JoinRefused, Finish,
        registries, clientObjects, sessionObjects, calls, history
<1>1. Types' BY DEF Types, TypeOK, Place, AtRest
<1>2. TypeOK' BY <1>1 DEF TypeOK, Types, AtRest, ListedClients, ListedSessions, Open, Id
<1>3. ObjectsMade' BY DEF ObjectsMade, TypeOK, Types, Open
<1>4. TokensNoted' BY DEF TokensNoted, TypeOK, Types
<1>5. HandlersHold' BY DEF HandlersHold, TypeOK, Types, AtRest, Id
<1>6. MembersSubscribed' BY DEF MembersSubscribed, TypeOK, Types, Open
<1>7. OverlapsNoted' BY DEF OverlapsNoted, TypeOK, Types, AtRest
<1>8. TestStillHolds' BY DEF TestStillHolds, TypeOK, Types, AtRest
<1>9. SubscribersKnow' BY DEF SubscribersKnow, TypeOK, Types, Joining, Id
<1>10. GoneWithTheirSession' BY DEF GoneWithTheirSession, TypeOK, Types, Id
<1>11. NobodyInEndedSession' BY DEF NobodyInEndedSession, TypeOK, Types, Listed, Open, Id
<1>12. NoSessionWithoutSender' BY DEF NoSessionWithoutSender, TypeOK, Types, ListedSessions
<1> QED BY <1>1, <1>2, <1>3, <1>4, <1>5, <1>6, <1>7, <1>8, <1>9, <1>10, <1>11, <1>12

\* The client becomes a receiver, and subscribed, before it knows.
LEMMA JoinAddKeeps ==
    ASSUME IInv, NEW t \in Thread, JoinAdd(t)
    PROVE  IInv'
<1> USE NobodyApart DEF IInv, JoinAdd, Go, Finish,
        registries, clientObjects, sessionObjects, calls, history
<1>1. Types' BY SMTT(20) DEF Types, TypeOK, Place, AtRest, HandlersHold
<1>2. TypeOK' BY <1>1 DEF TypeOK, Types, AtRest, ListedClients, ListedSessions, Open, Id
<1>3. ObjectsMade' BY DEF ObjectsMade, TypeOK, Types, Open, HandlersHold
<1>4. TokensNoted' BY DEF TokensNoted, TypeOK, Types
<1>5. HandlersHold' BY DEF HandlersHold, TypeOK, Types, AtRest, Id
<1>6. MembersSubscribed' BY DEF MembersSubscribed, TypeOK, Types, Open
<1>7. OverlapsNoted' BY DEF OverlapsNoted, TypeOK, Types, AtRest
<1>8. TestStillHolds' BY DEF TestStillHolds, TypeOK, Types, AtRest
<1>9. SubscribersKnow' BY DEF SubscribersKnow, TypeOK, Types, Joining, Id
<1>10. GoneWithTheirSession' BY DEF GoneWithTheirSession, TypeOK, Types, Id
<1>11. NobodyInEndedSession' BY SMTT(20) DEF NobodyInEndedSession, TypeOK, Types, Listed, Open, Id
<1>12. NoSessionWithoutSender' BY DEF NoSessionWithoutSender, TypeOK, Types, ListedSessions
<1> QED BY <1>1, <1>2, <1>3, <1>4, <1>5, <1>6, <1>7, <1>8, <1>9, <1>10, <1>11, <1>12

\* The client is told which session it is in.
LEMMA JoinJoinKeeps ==
    ASSUME IInv, NEW t \in Thread, JoinJoin(t)
    PROVE  IInv'
<1> USE NobodyApart DEF IInv, JoinJoin, Finish,
        registries, clientObjects, sessionObjects, calls, history
<1>1. Types' BY DEF Types, TypeOK, Place, AtRest
<1>2. TypeOK' BY <1>1 DEF TypeOK, Types, AtRest, ListedClients, ListedSessions, Open, Id
<1>3. ObjectsMade' BY DEF ObjectsMade, TypeOK, Types, Open, HandlersHold
<1>4. TokensNoted' BY DEF TokensNoted, TypeOK, Types
<1>5. HandlersHold' BY DEF HandlersHold, TypeOK, Types, AtRest, Id
<1>6. MembersSubscribed' BY DEF MembersSubscribed, TypeOK, Types, Open
<1>7. OverlapsNoted' BY DEF OverlapsNoted, TypeOK, Types, AtRest
<1>8. TestStillHolds'
  BY DEF TestStillHolds, TypeOK, Types, AtRest, OverlapsNoted, HandlersHold
<1>9. SubscribersKnow'
  <2> SUFFICES ASSUME NEW s \in Sessions, NEW o \in subscribed[s] \ (dead \cup overlapped)
               PROVE  joined'[o] = Id(s) \/ Joining(o, s)'
    BY DEF SubscribersKnow, Id
  <2>1. o \in Clients /\ Id(s) # None
    BY DEF TypeOK, Types, ObjectsMade, Open, Id
  <2>2. CASE joined[o] = Id(s)
    BY <2>1, <2>2 DEF TypeOK, Types
  <2>3. CASE \E u \in Thread \ {t} : /\ pc[u] \in {"createJoin", "joinJoin"}
                                   /\ local[u].me = o /\ local[u].at = s
    BY <2>3 DEF Joining, TypeOK, Types
  <2>4. CASE local[t].me = o /\ local[t].at = s
    BY <2>1, <2>4 DEF TestStillHolds, HandlersHold, TypeOK, Types, Id
  <2> QED BY <2>2, <2>3, <2>4 DEF SubscribersKnow, Joining
<1>10. GoneWithTheirSession' BY DEF GoneWithTheirSession, TypeOK, Types, Id, ObjectsMade
<1>11. NobodyInEndedSession'
  BY DEF NobodyInEndedSession, TypeOK, Types, Listed, Open, Id, HandlersHold,
       MembersSubscribed, ObjectsMade
<1>12. NoSessionWithoutSender' BY DEF NoSessionWithoutSender, TypeOK, Types, ListedSessions
<1> QED BY <1>1, <1>2, <1>3, <1>4, <1>5, <1>6, <1>7, <1>8, <1>9, <1>10, <1>11, <1>12

\* The upload ends.
LEMMA EndUploadKeeps ==
    ASSUME IInv, NEW s \in Sessions, Open(s), EndUpload(s)
    PROVE  IInv'
<1> USE NobodyApart DEF IInv, EndUpload, Incident, threads,
        registries, clientObjects, sessionObjects, calls, history
<1>1. Types' BY DEF Types, TypeOK, Place, AtRest
<1>2. TypeOK' BY <1>1 DEF TypeOK, Types, AtRest, ListedClients, ListedSessions, Open, Id
<1>3. ObjectsMade' BY DEF ObjectsMade, TypeOK, Types, Open
<1>4. TokensNoted' BY DEF TokensNoted, TypeOK, Types
<1>5. HandlersHold' BY DEF HandlersHold, TypeOK, Types, AtRest, Id
<1>6. MembersSubscribed' BY DEF MembersSubscribed, TypeOK, Types, Open
<1>7. OverlapsNoted' BY DEF OverlapsNoted, TypeOK, Types, AtRest
<1>8. TestStillHolds' BY DEF TestStillHolds, TypeOK, Types, AtRest
<1>9. SubscribersKnow' BY DEF SubscribersKnow, TypeOK, Types, Joining, Id
<1>10. GoneWithTheirSession' BY DEF GoneWithTheirSession, TypeOK, Types, Id
<1>11. NobodyInEndedSession' BY DEF NobodyInEndedSession, TypeOK, Types, Listed, Open, Id
<1>12. NoSessionWithoutSender' BY DEF NoSessionWithoutSender, TypeOK, Types, ListedSessions
<1> QED BY <1>1, <1>2, <1>3, <1>4, <1>5, <1>6, <1>7, <1>8, <1>9, <1>10, <1>11, <1>12

\* The session is about to be removed.
LEMMA EndSessionKeeps ==
    ASSUME IInv, NEW s \in Sessions, Open(s), EndSession(s)
    PROVE  IInv'
<1> USE NobodyApart DEF IInv, EndSession, Incident, threads,
        registries, clientObjects, sessionObjects, calls, history
<1>1. Types' BY DEF Types, TypeOK, Place, AtRest
<1>2. TypeOK' BY <1>1 DEF TypeOK, Types, AtRest, ListedClients, ListedSessions, Open, Id
<1>3. ObjectsMade' BY DEF ObjectsMade, TypeOK, Types, Open
<1>4. TokensNoted' BY DEF TokensNoted, TypeOK, Types
<1>5. HandlersHold' BY DEF HandlersHold, TypeOK, Types, AtRest, Id
<1>6. MembersSubscribed' BY DEF MembersSubscribed, TypeOK, Types, Open
<1>7. OverlapsNoted' BY DEF OverlapsNoted, TypeOK, Types, AtRest
<1>8. TestStillHolds' BY DEF TestStillHolds, TypeOK, Types, AtRest
<1>9. SubscribersKnow' BY DEF SubscribersKnow, TypeOK, Types, Joining, Id
<1>10. GoneWithTheirSession' BY DEF GoneWithTheirSession, TypeOK, Types, Id
<1>11. NobodyInEndedSession' BY DEF NobodyInEndedSession, TypeOK, Types, Listed, Open, Id
<1>12. NoSessionWithoutSender' BY DEF NoSessionWithoutSender, TypeOK, Types, ListedSessions
<1> QED BY <1>1, <1>2, <1>3, <1>4, <1>5, <1>6, <1>7, <1>8, <1>9, <1>10, <1>11, <1>12

\* What is registered under the name of a session is removed.
LEMMA CloseSessionKeeps ==
    ASSUME IInv, NEW s \in closing, CloseSession(s)
    PROVE  IInv'
<1> USE NobodyApart DEF IInv, CloseSession, RemoveSession, threads,
        registries, clientObjects, sessionObjects, calls, history
<1>1. Types' BY DEF Types, TypeOK, Place, AtRest
<1>2. TypeOK' BY <1>1 DEF TypeOK, Types, AtRest, ListedClients, ListedSessions, Open, Id
<1>3. ObjectsMade' BY DEF ObjectsMade, TypeOK, Types, Open
<1>4. TokensNoted' BY DEF TokensNoted, TypeOK, Types
<1>5. HandlersHold' BY DEF HandlersHold, TypeOK, Types, AtRest, Id
<1>6. MembersSubscribed' BY DEF MembersSubscribed, TypeOK, Types, Open
<1>7. OverlapsNoted' BY DEF OverlapsNoted, TypeOK, Types, AtRest
<1>8. TestStillHolds' BY DEF TestStillHolds, TypeOK, Types, AtRest
<1>9. SubscribersKnow' BY DEF SubscribersKnow, TypeOK, Types, Joining, Id
<1>10. GoneWithTheirSession' BY DEF GoneWithTheirSession, TypeOK, Types, Id
<1>11. NobodyInEndedSession' BY DEF NobodyInEndedSession, TypeOK, Types, Listed, Open, Id
<1>12. NoSessionWithoutSender' BY DEF NoSessionWithoutSender, TypeOK, Types, ListedSessions
<1> QED BY <1>1, <1>2, <1>3, <1>4, <1>5, <1>6, <1>7, <1>8, <1>9, <1>10, <1>11, <1>12

\* A receiver is removed from a session and will go.
LEMMA KickKeeps ==
    ASSUME IInv, NEW s \in Sessions, NEW o \in Clients, Open(s), Kick(s, o)
    PROVE  IInv'
<1> USE NobodyApart DEF IInv, Kick, Incident, threads,
        registries, clientObjects, sessionObjects, calls, history
<1>1. Types' BY DEF Types, TypeOK, Place, AtRest
<1>2. TypeOK' BY <1>1 DEF TypeOK, Types, AtRest, ListedClients, ListedSessions, Open, Id
<1>3. ObjectsMade' BY DEF ObjectsMade, TypeOK, Types, Open, MembersSubscribed
<1>4. TokensNoted' BY DEF TokensNoted, TypeOK, Types
<1>5. HandlersHold' BY DEF HandlersHold, TypeOK, Types, AtRest, Id
<1>6. MembersSubscribed' BY DEF MembersSubscribed, TypeOK, Types, Open
<1>7. OverlapsNoted' BY DEF OverlapsNoted, TypeOK, Types, AtRest
<1>8. TestStillHolds' BY DEF TestStillHolds, TypeOK, Types, AtRest
<1>9. SubscribersKnow' BY DEF SubscribersKnow, TypeOK, Types, Joining, Id
<1>10. GoneWithTheirSession' BY DEF GoneWithTheirSession, TypeOK, Types, Id
<1>11. NobodyInEndedSession' BY DEF NobodyInEndedSession, TypeOK, Types, Listed, Open, Id
<1>12. NoSessionWithoutSender' BY DEF NoSessionWithoutSender, TypeOK, Types, ListedSessions
<1> QED BY <1>1, <1>2, <1>3, <1>4, <1>5, <1>6, <1>7, <1>8, <1>9, <1>10, <1>11, <1>12

\* A client will go because it was away.
LEMMA TimeOutKeeps ==
    ASSUME IInv, NEW o \in Clients, TimeOut(o)
    PROVE  IInv'
<1> USE NobodyApart DEF IInv, TimeOut, Incident, threads,
        registries, clientObjects, sessionObjects, calls, history
<1>1. Types' BY DEF Types, TypeOK, Place, AtRest
<1>2. TypeOK' BY <1>1 DEF TypeOK, Types, AtRest, ListedClients, ListedSessions, Open, Id
<1>3. ObjectsMade' BY DEF ObjectsMade, TypeOK, Types, Open, Listed
<1>4. TokensNoted' BY DEF TokensNoted, TypeOK, Types
<1>5. HandlersHold' BY DEF HandlersHold, TypeOK, Types, AtRest, Id
<1>6. MembersSubscribed' BY DEF MembersSubscribed, TypeOK, Types, Open
<1>7. OverlapsNoted' BY DEF OverlapsNoted, TypeOK, Types, AtRest
<1>8. TestStillHolds' BY DEF TestStillHolds, TypeOK, Types, AtRest
<1>9. SubscribersKnow' BY DEF SubscribersKnow, TypeOK, Types, Joining, Id
<1>10. GoneWithTheirSession' BY DEF GoneWithTheirSession, TypeOK, Types, Id
<1>11. NobodyInEndedSession' BY DEF NobodyInEndedSession, TypeOK, Types, Listed, Open, Id
<1>12. NoSessionWithoutSender' BY DEF NoSessionWithoutSender, TypeOK, Types, ListedSessions
<1> QED BY <1>1, <1>2, <1>3, <1>4, <1>5, <1>6, <1>7, <1>8, <1>9, <1>10, <1>11, <1>12

\* What is registered under the name of a client is removed.
LEMMA RemoveClientKeeps ==
    ASSUME IInv, NEW call \in leaving, RemoveClient(call[1], call[2])
    PROVE  IInv'
<1> USE NobodyApart DEF IInv, RemoveClient, threads,
        registries, clientObjects, sessionObjects, calls, history
<1>1. Types' BY DEF Types, TypeOK, Place, AtRest
<1>2. TypeOK' BY <1>1 DEF TypeOK, Types, AtRest, ListedClients, ListedSessions, Open, Id
<1>3. ObjectsMade' BY DEF ObjectsMade, TypeOK, Types, Open
<1>4. TokensNoted' BY DEF TokensNoted, TypeOK, Types
<1>5. HandlersHold' BY DEF HandlersHold, TypeOK, Types, AtRest, Id
<1>6. MembersSubscribed' BY DEF MembersSubscribed, TypeOK, Types, Open
<1>7. OverlapsNoted' BY DEF OverlapsNoted, TypeOK, Types, AtRest
<1>8. TestStillHolds' BY DEF TestStillHolds, TypeOK, Types, AtRest
<1>9. SubscribersKnow' BY DEF SubscribersKnow, TypeOK, Types, Joining, Id
<1>10. GoneWithTheirSession' BY DEF GoneWithTheirSession, TypeOK, Types, Id
<1>11. NobodyInEndedSession' BY DEF NobodyInEndedSession, TypeOK, Types, Listed, Open, Id
<1>12. NoSessionWithoutSender' BY DEF NoSessionWithoutSender, TypeOK, Types, ListedSessions
<1> QED BY <1>1, <1>2, <1>3, <1>4, <1>5, <1>6, <1>7, <1>8, <1>9, <1>10, <1>11, <1>12

\* The last pointer to a client is gone: its sessions are told.
LEMMA DestroyClientKeeps ==
    ASSUME IInv, NEW o \in Clients, DestroyClient(o)
    PROVE  IInv'
<1> USE NobodyApart DEF IInv, DestroyClient, Told, SenderGone, threads,
        registries, clientObjects, sessionObjects, calls, history
<1>1. Types' BY DEF Types, TypeOK, Place, AtRest
<1>2. TypeOK' BY <1>1 DEF TypeOK, Types, Listed, ListedClients, ListedSessions, Open, Id
<1>3. ObjectsMade' BY DEF ObjectsMade, TypeOK, Types, Open
<1>4. TokensNoted' BY DEF TokensNoted, TypeOK, Types
<1>5. HandlersHold' BY DEF HandlersHold, TypeOK, Types, AtRest, Id
<1>6. MembersSubscribed' BY DEF MembersSubscribed, TypeOK, Types, Open
<1>7. OverlapsNoted' BY DEF OverlapsNoted, TypeOK, Types, AtRest
<1>8. TestStillHolds' BY DEF TestStillHolds, TypeOK, Types, AtRest
<1>9. SubscribersKnow' BY DEF SubscribersKnow, TypeOK, Types, Joining, Id
<1>10. GoneWithTheirSession' BY DEF GoneWithTheirSession, TypeOK, Types, Id
<1>11. NobodyInEndedSession' BY DEF NobodyInEndedSession, TypeOK, Types, Listed, Open, Id
<1>12. NoSessionWithoutSender'
  BY DEF NoSessionWithoutSender, TypeOK, Types, ListedSessions, MembersSubscribed, Open
<1> QED BY <1>1, <1>2, <1>3, <1>4, <1>5, <1>6, <1>7, <1>8, <1>9, <1>10, <1>11, <1>12

\* The last pointer to a session is gone: no handler is joining it, so whoever is
\* subscribed is in it, and goes.
LEMMA DestroySessionKeeps ==
    ASSUME IInv, NEW s \in Sessions, DestroySession(s)
    PROVE  IInv'
<1> USE NobodyApart DEF IInv, DestroySession, threads,
        registries, clientObjects, sessionObjects, calls, history
<1>1. Types' BY DEF Types, TypeOK, Place, AtRest
<1>2. TypeOK' BY <1>1 DEF TypeOK, Types, AtRest, ListedClients, ListedSessions, Open, Id
<1>3. ObjectsMade' BY DEF ObjectsMade, TypeOK, Types, Open
<1>4. TokensNoted' BY DEF TokensNoted, TypeOK, Types
<1>5. HandlersHold' BY DEF HandlersHold, TypeOK, Types, AtRest, Id
<1>6. MembersSubscribed' BY DEF MembersSubscribed, TypeOK, Types, Open
<1>7. OverlapsNoted' BY DEF OverlapsNoted, TypeOK, Types, AtRest
<1>8. TestStillHolds' BY DEF TestStillHolds, TypeOK, Types, AtRest
<1>9. SubscribersKnow' BY DEF SubscribersKnow, TypeOK, Types, Joining, Id
<1>10. GoneWithTheirSession'
  BY DEF GoneWithTheirSession, TypeOK, Types, Id, SubscribersKnow, Joining, Open
<1>11. NobodyInEndedSession'
  <2> SUFFICES ASSUME NEW o \in Clients, Listed(o), joined[o] # None,
                      \A call \in leaving' : call[1] # o
               PROVE  \E r \in Sessions : Open(r)' /\ Id(r) = joined[o] /\ o \in subscribed'[r]
    BY DEF NobodyInEndedSession, Listed, Open, Id
  <2>1. PICK r \in Sessions : Open(r) /\ Id(r) = joined[o] /\ o \in subscribed[r]
    BY DEF NobodyInEndedSession
  <2>2. o \notin dead
    BY DEF TypeOK, Types, Listed, ListedClients
  <2>3. r # s
    <3>1. r = s => <<o, s>> \in leaving' /\ <<o, s>>[1] = o
      BY <2>1, <2>2
    <3> QED BY <3>1
  <2> QED BY <2>1, <2>3 DEF Open, TypeOK, Types
<1>12. NoSessionWithoutSender' BY DEF NoSessionWithoutSender, TypeOK, Types, ListedSessions
<1> QED BY <1>1, <1>2, <1>3, <1>4, <1>5, <1>6, <1>7, <1>8, <1>9, <1>10, <1>11, <1>12

\* A step in which nothing happens keeps it.
LEMMA StutterKeeps == ASSUME IInv, UNCHANGED vars PROVE IInv'
<1> USE DEF IInv, vars, registries, clientObjects, sessionObjects, threads, calls, history
<1>1. TypeOK' BY DEF TypeOK, Types, ListedClients, ListedSessions, Open, Id
<1>2. ObjectsMade' /\ TokensNoted' BY DEF ObjectsMade, TokensNoted, Open
<1>3. HandlersHold' /\ MembersSubscribed' BY DEF HandlersHold, MembersSubscribed, Open, Id
<1>4. OverlapsNoted' /\ TestStillHolds' BY DEF OverlapsNoted, TestStillHolds
<1>5. SubscribersKnow' /\ GoneWithTheirSession'
  BY DEF SubscribersKnow, Joining, GoneWithTheirSession, Id
<1>6. NobodyInEndedSession' /\ NoSessionWithoutSender'
  BY DEF NobodyInEndedSession, NoSessionWithoutSender, Listed, ListedSessions, Open, Id
<1> QED BY <1>1, <1>2, <1>3, <1>4, <1>5, <1>6

\* So does every step.
LEMMA NextKeeps == IInv /\ [Next]_vars => IInv'
<1> SUFFICES ASSUME IInv, [Next]_vars PROVE IInv'
  OBVIOUS
<1>1. CASE \E t \in Thread : Start(t)
  BY <1>1, StartRegisterKeeps, StartLeaveKeeps, StartCreateKeeps, StartJoinKeeps DEF Start
<1>2. CASE \E t \in Thread : Step(t)
  BY <1>2, ClientInsertKeeps, LeaveKeeps, CreateTestJoinedKeeps, CreateTestCountKeeps,
     CreateInsertKeeps, CreateJoinKeeps, JoinGetKeeps, JoinTestJoinedKeeps,
     JoinRefusedKeeps, JoinAddKeeps, JoinJoinKeeps DEF Step
<1>3. CASE \E s \in Sessions : SessionStep(s)
  BY <1>3, EndUploadKeeps, EndSessionKeeps, KickKeeps, DestroySessionKeeps DEF SessionStep
<1>4. CASE \E s \in closing : CloseSession(s)
  BY <1>4, CloseSessionKeeps
<1>5. CASE \E o \in Clients : ClientStep(o)
  BY <1>5, TimeOutKeeps, DestroyClientKeeps DEF ClientStep
<1>6. CASE \E call \in leaving : RemoveClient(call[1], call[2])
  BY <1>6, RemoveClientKeeps
<1>7. CASE UNCHANGED vars
  BY <1>7, StutterKeeps
<1> QED BY <1>1, <1>2, <1>3, <1>4, <1>5, <1>6, <1>7 DEF Next

-----------------------------------------------------------------------------
(* Membership *)

\* The inductive invariant holds, whatever the requests of whichever clients overlap.
THEOREM Invariance == Spec => []IInv
  BY InitIInv, NextKeeps, PTL DEF Spec

\* The registries hold living objects under their own names, and no handler ever works
\* with an object that was destroyed (clientlist.cpp, transfersessionlist.cpp).
THEOREM NothingDangles == Spec => []TypeOK
  BY Invariance, PTL DEF IInv

\* sessionCreate and sessionJoin: a receiver knows its session, unless requests of
\* its own overlapped.
THEOREM MembershipAgrees == Spec => []ReceiversKnowTheirSession
<1>1. IInv => ReceiversKnowTheirSession
  BY DEF IInv, TypeOK, Types, MembersSubscribed, SubscribersKnow, Joining,
         ReceiversKnowTheirSession, AtPeace, Open
<1> QED BY <1>1, Invariance, PTL

\* ~TransferSession: however a join and the end of its session interleave, nobody is
\* left behind in a session that has ended.
THEOREM NobodyLeftBehind == Spec => []NobodyInEndedSession
  BY Invariance, PTL DEF IInv

\* ~Client: a session whose sender has gone before the end of its upload is going.
THEOREM SendersHoldSessions == Spec => []NoSessionWithoutSender
  BY Invariance, PTL DEF IInv

\* ClientList::remove: a client is removed for a reason of its own, unless its requests
\* overlapped or its token came back.
THEOREM RemovalsHaveReasons == Spec => RemovedForOwnReason
<1>1. ASSUME IInv, [Next]_vars, NEW o \in Clients, Listed(o), clients'[token[o]] # o
      PROVE  \/ \E t \in Thread : pc[t] = "leave" /\ token[local[t].me] = token[o]
             \/ \E call \in leaving : token[call[1]] = token[o]
  <2> USE DEF registries, clientObjects, sessionObjects, threads, calls, history
  <2>1. /\ clients[token[o]] = o /\ o # Nobody /\ token[o] \in Token
        /\ clients' # clients
    BY <1>1, NobodyApart DEF Listed, IInv, TypeOK, Types
  <2>2. CASE \E t \in Thread : Start(t)
    BY <2>1, <2>2 DEF Start, StartRegister, StartLeave, StartCreate, StartJoin
  <2>3. ASSUME NEW t \in Thread, Step(t)
        PROVE  pc[t] = "leave" /\ token[local[t].me] = token[o]
    <3>1. CASE ClientInsert(t)
      BY <1>1, <2>1, <3>1 DEF ClientInsert, IInv, TypeOK, Types
    <3>2. CASE Leave(t)
      BY <1>1, <2>1, <3>2 DEF Leave, IInv, TypeOK, Types
    <3>3. CASE CreateTestJoined(t) \/ CreateTestCount(t) \/ CreateInsert(t) \/ CreateJoin(t)
      BY <2>1, <3>3 DEF CreateTestJoined, CreateTestCount, CreateInsert, CreateJoin
    <3>4. CASE JoinGet(t) \/ JoinTestJoined(t) \/ JoinRefused(t) \/ JoinAdd(t) \/ JoinJoin(t)
      BY <2>1, <3>4 DEF JoinGet, JoinTestJoined, JoinRefused, JoinAdd, JoinJoin
    <3> QED BY <2>3, <3>1, <3>2, <3>3, <3>4 DEF Step
  <2>4. CASE \E s \in Sessions : SessionStep(s)
    BY <2>1, <2>4 DEF SessionStep, EndUpload, EndSession, Kick, DestroySession
  <2>5. CASE \E s \in closing : CloseSession(s)
    BY <2>1, <2>5 DEF CloseSession
  <2>6. CASE \E p \in Clients : ClientStep(p)
    BY <2>1, <2>6 DEF ClientStep, TimeOut, DestroyClient
  <2>7. ASSUME NEW call \in leaving, RemoveClient(call[1], call[2])
        PROVE  token[call[1]] = token[o]
    BY <1>1, <2>1, <2>7 DEF RemoveClient, IInv, TypeOK, Types
  <2>8. CASE UNCHANGED vars
    BY <2>1, <2>8 DEF vars
  <2> QED BY <1>1, <2>2, <2>3, <2>4, <2>5, <2>6, <2>7, <2>8 DEF Next
<1>2. ASSUME IInv, [Next]_vars, NEW o \in Clients, Listed(o), clients'[token[o]] # o,
             joined[o] # None
      PROVE  OwnReason(o) \/ o \in overlapped \/ token[o] \in reused
  <2>1. token[o] # None /\ o \notin dead
    BY <1>2, NobodyApart DEF Listed, IInv, TypeOK, Types, ListedClients
  <2>2. ASSUME NEW p \in Clients, token[p] = token[o]
        PROVE  p = o \/ token[o] \in reused
    BY <1>2, <2>1, <2>2 DEF IInv, TokensNoted
  <2>3. ASSUME NEW t \in Thread, pc[t] = "leave", token[local[t].me] = token[o]
        PROVE  OwnReason(o) \/ token[o] \in reused
    <3>1. local[t].me \in Clients
      BY <1>2, <2>3 DEF IInv, TypeOK, Types, HandlersHold
    <3> QED BY <2>2, <2>3, <3>1 DEF OwnReason
  <2>4. ASSUME NEW call \in leaving, token[call[1]] = token[o]
        PROVE  OwnReason(o) \/ o \in overlapped \/ token[o] \in reused
    <3>1. call[1] \in Clients
      BY <1>2 DEF IInv, TypeOK, Types
    <3> QED BY <1>2, <2>1, <2>2, <2>4, <3>1 DEF OwnReason, IInv, GoneWithTheirSession
  <2> QED BY <1>1, <1>2, <2>3, <2>4
<1>3. IInv /\ [Next]_vars =>
        \A o \in Clients :
          Listed(o) /\ clients'[token[o]] # o /\ joined[o] # None
              => OwnReason(o) \/ o \in overlapped \/ token[o] \in reused
  BY <1>2
<1>4. IInv /\ [Next]_vars =>
        [\A o \in Clients :
          Listed(o) /\ clients'[token[o]] # o /\ joined[o] # None
              => OwnReason(o) \/ o \in overlapped \/ token[o] \in reused]_vars
  BY <1>3
<1> QED BY <1>4, Invariance, PTL DEF Spec, RemovedForOwnReason

-----------------------------------------------------------------------------
(* Limits *)

\* One member more, one less, and a part of a set.
LEMMA Counting ==
    ASSUME NEW S, IsFiniteSet(S)
    PROVE  /\ Cardinality(S) \in Nat
           /\ \A x : /\ Cardinality(S \cup {x}) \in Nat
                     /\ Cardinality(S \cup {x}) <= Cardinality(S) + 1
           /\ \A x \in S : Cardinality(S \ {x}) = Cardinality(S) - 1
           /\ \A T \in SUBSET S : IsFiniteSet(T) /\ Cardinality(T) \in Nat
                                    /\ Cardinality(T) <= Cardinality(S)
<1>1. Cardinality(S) \in Nat
  BY FS_CardinalityType
<1>2. ASSUME NEW x
      PROVE  Cardinality(S \cup {x}) \in Nat /\ Cardinality(S \cup {x}) <= Cardinality(S) + 1
  <2>1. Cardinality(S \cup {x}) = IF x \in S THEN Cardinality(S) ELSE Cardinality(S) + 1
    BY FS_AddElement
  <2> QED BY <1>1, <2>1
<1>3. ASSUME NEW x \in S PROVE Cardinality(S \ {x}) = Cardinality(S) - 1
  <2>1. Cardinality(S \ {x}) = IF x \in S THEN Cardinality(S) - 1 ELSE Cardinality(S)
    BY FS_RemoveElement
  <2> QED BY <1>1, <2>1
<1>4. ASSUME NEW T \in SUBSET S
      PROVE  IsFiniteSet(T) /\ Cardinality(T) \in Nat /\ Cardinality(T) <= Cardinality(S)
  <2>1. IsFiniteSet(T) /\ Cardinality(T) <= Cardinality(S)
    BY FS_Subset
  <2> QED BY <2>1, FS_CardinalityType
<1> QED BY <1>1, <1>2, <1>3, <1>4

\* There are finitely many threads.
LEMMA ThreadsCounted ==
    /\ Cardinality(Thread) \in Nat \ {0}
    /\ \A step : IsFiniteSet(Inserting(step))
<1>1. Thread # {} /\ IsFiniteSet(Thread)
  BY RegistryAssumption
<1>2. Cardinality(Thread) \in Nat /\ Cardinality(Thread) # 0
  BY <1>1, FS_CardinalityType, FS_EmptySet
<1> QED BY <1>1, <1>2, FS_Subset DEF Inserting

\* What a step makes of the entries L and of the threads I that are about to add one:
\* a thread that tests the limit joins these threads, one that adds an entry leaves them.
Counted(L, M, I, J, limit) ==
    \/ M \subseteq L /\ J \subseteq I
    \/ /\ Cardinality(L) < limit /\ M = L
       /\ \E t \in Thread : t \notin I /\ J = I \cup {t}
    \/ \E t \in I, k \in Token : M = L \cup {k} /\ J = I \ {t}

\* So the sum of both grows only when the limit was not reached yet.
LEMMA BoundKept ==
    ASSUME NEW limit \in Nat \ {0}, NEW L, NEW M, NEW I, NEW J,
           IsFiniteSet(L), I \in SUBSET Thread, J \in SUBSET Thread,
           Cardinality(L) + Cardinality(I) <= limit + Cardinality(Thread) - 1,
           Counted(L, M, I, J, limit)
    PROVE  Cardinality(M) + Cardinality(J) <= limit + Cardinality(Thread) - 1
<1>1. /\ IsFiniteSet(Thread) /\ IsFiniteSet(I) /\ IsFiniteSet(J)
      /\ Cardinality(Thread) \in Nat /\ Cardinality(I) \in Nat /\ Cardinality(J) \in Nat
      /\ Cardinality(L) \in Nat /\ Cardinality(J) <= Cardinality(Thread)
  BY RegistryAssumption, Counting
<1>2. CASE M \subseteq L /\ J \subseteq I
  <2>1. /\ Cardinality(M) \in Nat /\ Cardinality(M) <= Cardinality(L)
        /\ Cardinality(J) <= Cardinality(I)
    BY <1>1, <1>2, Counting
  <2> QED BY <1>1, <2>1
<1>3. CASE Cardinality(L) < limit /\ M = L
  BY <1>1, <1>3
<1>4. ASSUME NEW t \in I, NEW k \in Token, M = L \cup {k}, J = I \ {t}
      PROVE  Cardinality(M) + Cardinality(J) <= limit + Cardinality(Thread) - 1
  <2>1. Cardinality(M) \in Nat /\ Cardinality(M) <= Cardinality(L) + 1
    BY <1>4, Counting
  <2>2. Cardinality(J) = Cardinality(I) - 1
    BY <1>1, <1>4, Counting
  <2> QED BY <1>1, <2>1, <2>2
<1> QED BY <1>2, <1>3, <1>4 DEF Counted

\* How the sessions listed, and the threads about to list one, change in a step.
LEMMA SessionCountSteps ==
    ASSUME IInv, [Next]_vars
    PROVE  Counted(ListedSessions, ListedSessions', Inserting("createInsert"),
                   Inserting("createInsert")', SessionLimit)
<1> DEFINE L == ListedSessions
           I == Inserting("createInsert")
           Same == L' \subseteq L /\ I' \subseteq I
           Test(t) == /\ Cardinality(L) < SessionLimit /\ L' = L
                      /\ t \notin I /\ I' = I \cup {t}
           Add(t) == t \in I /\ \E k \in Token : L' = L \cup {k} /\ I' = I \ {t}
<1> USE DEF ListedSessions, Inserting, IInv, TypeOK, Types, registries, clientObjects,
            sessionObjects, threads, calls, history
<1>1. ASSUME NEW t \in Thread, Start(t) PROVE Same
  <2>1. ASSUME NEW k \in Token, StartRegister(t, k) PROVE Same
    BY <2>1 DEF StartRegister, Begin
  <2>2. ASSUME NEW k \in Token, StartLeave(t, k) \/ StartCreate(t, k) PROVE Same
    BY <2>2 DEF StartLeave, StartCreate, Begin
  <2>3. ASSUME NEW k \in Token, NEW id \in Token, StartJoin(t, k, id) PROVE Same
    BY <2>3 DEF StartJoin, Begin
  <2> QED BY <1>1, <2>1, <2>2, <2>3 DEF Start
<1>2. ASSUME NEW t \in Thread, CreateTestCount(t) PROVE Same \/ Test(t)
  BY <1>2 DEF CreateTestCount, GoIf, Go, Finish
<1>3. ASSUME NEW t \in Thread, CreateInsert(t) PROVE Same \/ Add(t)
  <2> DEFINE k == token[local[t].me]
  <2>1. k \in Token /\ t \in I
    BY <1>3 DEF CreateInsert, HandlersHold
  <2>2. CASE sessions[k] # Nobody
    BY <1>3, <2>2 DEF CreateInsert, Finish
  <2>3. CASE sessions[k] = Nobody
    <3>1. PICK s \in Sessions : /\ sessions' = [sessions EXCEPT ![k] = s]
                                /\ pc' = [pc EXCEPT ![t] = "createJoin"]
      BY <1>3, <2>3 DEF CreateInsert
    <3> HIDE DEF k
    <3>2. L' = L \cup {k}
      BY <2>1, <3>1, NobodyApart
    <3>3. I' = I \ {t}
      BY <3>1
    <3> QED BY <2>1, <3>2, <3>3
  <2> QED BY <2>2, <2>3
<1>4. ASSUME NEW t \in Thread, CreateJoin(t) PROVE Same
  BY <1>4 DEF CreateJoin, RemoveSession, Finish
<1>5. ASSUME NEW t \in Thread, ClientInsert(t) \/ Leave(t) \/ CreateTestJoined(t) PROVE Same
  BY <1>5 DEF ClientInsert, Leave, CreateTestJoined, GoIf, Go, Finish
<1>6. ASSUME NEW t \in Thread,
             JoinGet(t) \/ JoinTestJoined(t) \/ JoinRefused(t) \/ JoinAdd(t) \/ JoinJoin(t)
      PROVE  Same
  BY <1>6 DEF JoinGet, JoinTestJoined, JoinRefused, JoinAdd, JoinJoin, GoIf, Go, Finish
<1>7. CASE \E s \in Sessions : SessionStep(s)
  <2>1. Same
    BY <1>7 DEF SessionStep, EndUpload, EndSession, Kick, DestroySession
  <2> QED BY <2>1 DEF Counted
<1>8. CASE \E s \in closing : CloseSession(s)
  <2>1. Same
    BY <1>8 DEF CloseSession, RemoveSession
  <2> QED BY <2>1 DEF Counted
<1>9. CASE \E o \in Clients : ClientStep(o)
  <2>1. Same
    BY <1>9 DEF ClientStep, TimeOut, DestroyClient
  <2> QED BY <2>1 DEF Counted
<1>10. CASE \E call \in leaving : RemoveClient(call[1], call[2])
  <2>1. Same
    BY <1>10 DEF RemoveClient
  <2> QED BY <2>1 DEF Counted
<1>11. CASE UNCHANGED vars
  <2>1. Same
    BY <1>11 DEF vars
  <2> QED BY <2>1 DEF Counted
<1>12. ASSUME NEW t \in Thread, Start(t) \/ Step(t) PROVE Same \/ Test(t) \/ Add(t)
  <2> HIDE DEF Same, Test, Add
  <2> QED BY <1>1, <1>2, <1>3, <1>4, <1>5, <1>6, <1>12 DEF Step
<1>13. CASE \E t \in Thread : Start(t) \/ Step(t)
  BY <1>12, <1>13 DEF Counted
<1> QED BY <1>7, <1>8, <1>9, <1>10, <1>11, <1>13 DEF Next

\* How the clients listed, and the threads about to list one, change in a step.
LEMMA ClientCountSteps ==
    ASSUME IInv, [Next]_vars
    PROVE  Counted(ListedClients, ListedClients', Inserting("clientInsert"),
                   Inserting("clientInsert")', ClientLimit)
<1> DEFINE L == ListedClients
           I == Inserting("clientInsert")
           Same == L' \subseteq L /\ I' \subseteq I
           Test(t) == /\ Cardinality(L) < ClientLimit /\ L' = L
                      /\ t \notin I /\ I' = I \cup {t}
           Add(t) == t \in I /\ \E k \in Token : L' = L \cup {k} /\ I' = I \ {t}
<1> USE DEF ListedClients, Inserting, IInv, TypeOK, Types, registries, clientObjects,
            sessionObjects, threads, calls, history
<1>1. ASSUME NEW t \in Thread, Start(t) PROVE Same \/ Test(t)
  <2>1. ASSUME NEW k \in Token, StartRegister(t, k) PROVE Test(t)
    BY <2>1 DEF StartRegister, Begin
  <2>2. ASSUME NEW k \in Token, StartLeave(t, k) \/ StartCreate(t, k) PROVE Same
    BY <2>2 DEF StartLeave, StartCreate, Begin
  <2>3. ASSUME NEW k \in Token, NEW id \in Token, StartJoin(t, k, id) PROVE Same
    BY <2>3 DEF StartJoin, Begin
  <2> QED BY <1>1, <2>1, <2>2, <2>3 DEF Start
<1>2. ASSUME NEW t \in Thread, ClientInsert(t) PROVE Same \/ Add(t)
  <2> DEFINE k == local[t].name
  <2>1. k \in Token /\ t \in I
    BY <1>2 DEF ClientInsert, HandlersHold
  <2>2. CASE clients[k] # Nobody
    BY <1>2, <2>2 DEF ClientInsert, Finish
  <2>3. CASE clients[k] = Nobody
    <3>1. PICK o \in Clients : clients' = [clients EXCEPT ![k] = o]
      BY <1>2, <2>3 DEF ClientInsert
    <3>2. pc' = [pc EXCEPT ![t] = "idle"]
      BY <1>2 DEF ClientInsert, Finish
    <3> HIDE DEF k
    <3>3. L' = L \cup {k}
      BY <2>1, <3>1, NobodyApart
    <3>4. I' = I \ {t}
      BY <3>2
    <3> QED BY <2>1, <3>3, <3>4
  <2> QED BY <2>2, <2>3
<1>3. ASSUME NEW t \in Thread, Leave(t) PROVE Same
  BY <1>3 DEF Leave, Finish
<1>4. ASSUME NEW t \in Thread, CreateInsert(t) \/ CreateJoin(t) PROVE Same
  BY <1>4 DEF CreateInsert, CreateJoin, Finish
<1>5. ASSUME NEW t \in Thread, CreateTestJoined(t) \/ CreateTestCount(t) PROVE Same
  BY <1>5 DEF CreateTestJoined, CreateTestCount, GoIf, Go, Finish
<1>6. ASSUME NEW t \in Thread,
             JoinGet(t) \/ JoinTestJoined(t) \/ JoinRefused(t) \/ JoinAdd(t) \/ JoinJoin(t)
      PROVE  Same
  BY <1>6 DEF JoinGet, JoinTestJoined, JoinRefused, JoinAdd, JoinJoin, GoIf, Go, Finish
<1>7. CASE \E s \in Sessions : SessionStep(s)
  <2>1. Same
    BY <1>7 DEF SessionStep, EndUpload, EndSession, Kick, DestroySession
  <2> QED BY <2>1 DEF Counted
<1>8. CASE \E s \in closing : CloseSession(s)
  <2>1. Same
    BY <1>8 DEF CloseSession, RemoveSession
  <2> QED BY <2>1 DEF Counted
<1>9. CASE \E o \in Clients : ClientStep(o)
  <2>1. Same
    BY <1>9 DEF ClientStep, TimeOut, DestroyClient
  <2> QED BY <2>1 DEF Counted
<1>10. CASE \E call \in leaving : RemoveClient(call[1], call[2])
  <2>1. Same
    BY <1>10 DEF RemoveClient
  <2> QED BY <2>1 DEF Counted
<1>11. CASE UNCHANGED vars
  <2>1. Same
    BY <1>11 DEF vars
  <2> QED BY <2>1 DEF Counted
<1>12. ASSUME NEW t \in Thread, Start(t) \/ Step(t) PROVE Same \/ Test(t) \/ Add(t)
  <2> HIDE DEF Same, Test, Add
  <2> QED BY <1>1, <1>2, <1>3, <1>4, <1>5, <1>6, <1>12 DEF Step
<1>13. CASE \E t \in Thread : Start(t) \/ Step(t)
  BY <1>12, <1>13 DEF Counted
<1> QED BY <1>7, <1>8, <1>9, <1>10, <1>11, <1>13 DEF Next

\* possibleToCreateNew and create (transfersessionlist.cpp:101, 30): the limit on sessions is
\* overrun by fewer sessions than there are threads.
THEOREM SessionLimitNearlyKept == Spec => []SessionsBounded
<1>1. Init => SessionsBounded
  <2>1. Init => ListedSessions = {} /\ Inserting("createInsert") = {}
    BY DEF Init, ListedSessions, Inserting
  <2> QED BY <2>1, FS_EmptySet, ThreadsCounted, RegistryAssumption DEF SessionsBounded
<1>2. IInv /\ SessionsBounded /\ [Next]_vars => SessionsBounded'
  <2> SUFFICES ASSUME IInv, SessionsBounded, [Next]_vars PROVE SessionsBounded'
    OBVIOUS
  <2>1. IsFiniteSet(ListedSessions)
    BY RegistryAssumption, FS_Subset DEF ListedSessions
  <2>2. /\ Inserting("createInsert") \in SUBSET Thread
        /\ Inserting("createInsert")' \in SUBSET Thread
    BY DEF Inserting
  <2> QED BY <2>1, <2>2, SessionCountSteps, BoundKept, RegistryAssumption DEF
         SessionsBounded
<1> QED BY <1>1, <1>2, Invariance, PTL DEF Spec

\* identityRequest, identityValidation and create (webapi.cpp:214, clientlist.cpp:51): so is the
\* limit on clients.
THEOREM ClientLimitNearlyKept == Spec => []ClientsBounded
<1>1. Init => ClientsBounded
  <2>1. Init => ListedClients = {} /\ Inserting("clientInsert") = {}
    BY DEF Init, ListedClients, Inserting
  <2> QED BY <2>1, FS_EmptySet, ThreadsCounted, RegistryAssumption DEF ClientsBounded
<1>2. IInv /\ ClientsBounded /\ [Next]_vars => ClientsBounded'
  <2> SUFFICES ASSUME IInv, ClientsBounded, [Next]_vars PROVE ClientsBounded'
    OBVIOUS
  <2>1. IsFiniteSet(ListedClients)
    BY RegistryAssumption, FS_Subset DEF ListedClients
  <2>2. /\ Inserting("clientInsert") \in SUBSET Thread
        /\ Inserting("clientInsert")' \in SUBSET Thread
    BY DEF Inserting
  <2> QED BY <2>1, <2>2, ClientCountSteps, BoundKept, RegistryAssumption DEF ClientsBounded
<1> QED BY <1>1, <1>2, Invariance, PTL DEF Spec
=============================================================================
