-------------------------- MODULE CentralServerProofs --------------------------
(* What CentralServer promises about the pointers of the client server,     *)
(* proved for any number of connections, users and requests.                *)
EXTENDS CentralServer, TLAPS

USE DEF Thread

\* Compaction of a table of users gives a shorter table of users, in which
\* the users before the gap have not moved.
LEMMA CompactFacts ==
    ASSUME NEW S, NEW s \in Seq(S), NEW i \in 1 .. Len(s)
    PROVE  /\ Compact(s, i) \in Seq(S) /\ Len(Compact(s, i)) = Len(s) - 1
           /\ \A k \in 1 .. Len(s) : k < i => Compact(s, i)[k] = s[k]
<1>. DEFINE r == [k \in 1 .. Len(s) - 1 |-> IF k < i THEN s[k] ELSE s[k + 1]]
<1>1. Len(s) \in Nat /\ Len(s) - 1 \in Nat
  OBVIOUS
<1>2. r \in [1 .. Len(s) - 1 -> S]
  BY <1>1
<1>3. r \in Seq(S)
  BY <1>1, <1>2
<1>4. Len(r) = Len(s) - 1
  BY <1>1, <1>2
<1>5. \A k \in 1 .. Len(s) : k < i => r[k] = s[k]
  BY <1>1
<1>. QED
  BY <1>3, <1>4, <1>5 DEF Compact

\* Initially the types are right.
LEMMA TypeInit == Init => TypeOK
<1>. SUFFICES ASSUME Init PROVE TypeOK
  OBVIOUS
<1>1. userTable \in Seq(UserId) /\ Len(userTable) \in 1 .. MAX_USERS
  BY UsersAssumption DEF Init
<1>2. InitUsers[1] \in UserId /\ everUsers \subseteq UserId
  BY UsersAssumption DEF Init
<1>3. 1 \in 0 .. MAX_USERS /\ 0 \in 0 .. MAX_USERS /\ 0 \in 0 .. MaxCalls /\ 0 \in 0 .. MaxDirect
  BY <1>1, BoundsAssumption, UsersAssumption
<1>. QED
  BY <1>1, <1>2, <1>3 DEF Init, TypeOK, Pcs, Routes, RouteRec

\* Every step keeps the types.
LEMMA TypeStep == TypeOK /\ [Next]_vars => TypeOK'
<1>. SUFFICES ASSUME TypeOK, [Next]_vars PROVE TypeOK'
  OBVIOUS
<1>. USE BoundsAssumption
<1>. USE DEF TypeOK, Goto, Pcs, userVars
<1>1. ASSUME NEW c \in Conn, Accept(c) PROVE TypeOK'
  <2>1. PICK r \in RouteRec : route' = [route EXCEPT ![c] = r]
    BY <1>1 DEF Accept, RouteRec, Routes
  <2>2. everUsers' \subseteq UserId
    BY <1>1 DEF Accept
  <2>. QED
    BY <1>1, <2>1, <2>2 DEF Accept
<1>2. ASSUME NEW c \in Conn, dispatch(c) PROVE TypeOK'
  BY <1>2 DEF dispatch
<1>3. ASSUME NEW c \in Conn, NativeRoute(c) PROVE TypeOK'
  BY <1>3 DEF NativeRoute, Answer
<1>4. ASSUME NEW c \in Conn, handle_create_user(c) PROVE TypeOK'
  <2>1. route[c].user \in UserId
    BY <1>4 DEF handle_create_user, RouteRec
  <2>2. Append(userTable, route[c].user) \in Seq(UserId)
        /\ Len(Append(userTable, route[c].user)) = Len(userTable) + 1
    BY <2>1
  <2>. QED
    BY <1>4, <2>2 DEF handle_create_user, Answer
<1>5. ASSUME NEW c \in Conn, handle_select_user(c) PROVE TypeOK'
  BY <1>5 DEF handle_select_user, stop_server
<1>6. ASSUME NEW c \in Conn, pthread_join(c) PROVE TypeOK'
  BY <1>6 DEF pthread_join
<1>7. ASSUME NEW c \in Conn, start_server(c) PROVE TypeOK'
  <2>1. route[c].user \in UserId
    BY <1>7 DEF start_server, RouteRec
  <2>2. \A i \in Slots(route[c].user) : i \in 0 .. MAX_USERS /\ IdAt(i) \in UserId
    BY DEF Slots, IdAt
  <2>. QED
    BY <1>7, <2>1, <2>2 DEF start_server
<1>8. ASSUME NEW c \in Conn, NEW i \in 1 .. Len(userTable), RemoveUser(c, i)
      PROVE  userTable' \in Seq(UserId) /\ Len(userTable') <= MAX_USERS
             /\ pc' \in [Thread -> Pcs] /\ central' = Nobody
  BY <1>8, CompactFacts DEF RemoveUser, Answer
<1>9. ASSUME NEW c \in Conn, handle_delete_user(c) PROVE TypeOK'
  <2>1. PICK i \in 1 .. Len(userTable) :
           \/ stop_server(c) /\ UNCHANGED <<userTable, central>>
           \/ RemoveUser(c, i) /\ UNCHANGED active
    BY <1>9 DEF handle_delete_user, Slots
  <2>2. CASE stop_server(c) /\ UNCHANGED <<userTable, central>>
    BY <1>9, <2>2 DEF handle_delete_user, stop_server
  <2>3. CASE RemoveUser(c, i) /\ UNCHANGED active
    BY <1>9, <2>3, <1>8 DEF handle_delete_user
  <2>. QED
    BY <2>1, <2>2, <2>3
<1>10. ASSUME NEW c \in Conn, DeleteAfterStop(c) PROVE TypeOK'
  BY <1>10, <1>8 DEF DeleteAfterStop, Slots
<1>11. IdAt(active) \in UserId \cup {NoUser}
  BY DEF IdAt
<1>12. ASSUME NEW c \in Conn, dispatch_to_active_client(c) PROVE TypeOK'
  <2>1. PICK u \in UserId \cup {NoUser} : u = IdAt(active)
    BY <1>11
  <2>2. \/ ptr' = [ptr EXCEPT ![c] = active] /\ owner' = [owner EXCEPT ![c] = u]
        \/ UNCHANGED <<ptr, owner>>
    BY <1>12, <2>1 DEF dispatch_to_active_client
  <2>3. ptr' \in [Thread -> 0 .. MAX_USERS]
    BY <2>2
  <2>4. owner' \in [Thread -> UserId \cup {NoUser}]
    BY <2>2, Zenon
  <2>. QED
    BY <1>12, <2>3, <2>4 DEF dispatch_to_active_client
<1>13. ASSUME NEW c \in Conn, EndForwarded(c) PROVE TypeOK'
  BY <1>13 DEF EndForwarded
<1>14. ASSUME NEW t \in Thread, central_connect(t) PROVE TypeOK'
  BY <1>14 DEF central_connect
<1>15. ASSUME NEW t \in Thread, ServeCall(t) PROVE TypeOK'
  BY <1>15 DEF ServeCall
<1>16. ASSUME NEW t \in Thread, central_recv_body(t) PROVE TypeOK'
  BY <1>16 DEF central_recv_body
<1>17. ASSUME handle_client PROVE TypeOK'
  BY <1>17 DEF handle_client
<1>18. ASSUME EndDirect \/ server_thread_exits PROVE TypeOK'
  BY <1>18 DEF EndDirect, server_thread_exits
<1>19. ASSUME stop_central_server \/ UNCHANGED vars PROVE TypeOK'
  BY <1>19 DEF stop_central_server, vars
<1>. QED
  BY <1>1, <1>2, <1>3, <1>4, <1>5, <1>6, <1>7, <1>9, <1>10, <1>12, <1>13, <1>14, <1>15, <1>16,
     <1>17, <1>18, <1>19 DEF Next, Serve, Call, Listen

\* The inductive invariant without the types.
Rest == CentralHeld /\ ListenerIsActive /\ StoppedIsJoined
        /\ ActiveUserIsSelected /\ ListenerKeepsItsUser

\* A step that leaves the pointers of the client server, the table and the
\* lock alone, and moves one thread outside the central routes.
LEMMA Frame ==
    ASSUME TypeOK, Rest, NEW t \in Thread, NEW where \in Pcs, Goto(t, where),
           UNCHANGED <<userTable, active, selected, central>>,
           ptr'[Listener] = ptr[Listener], owner'[Listener] = owner[Listener],
           pc[t] \notin {"joining", "off"}, where \notin {"native", "joining", "joined", "served"},
           where = "off" => t = Listener /\ active = 0
    PROVE  Rest'
<1>. USE DEF TypeOK, Rest, Goto
<1>1. CentralHeld'
  BY NamesAssumption DEF CentralHeld
<1>2. ListenerIsActive'
  BY DEF ListenerIsActive
<1>3. StoppedIsJoined'
  BY DEF StoppedIsJoined
<1>4. ActiveUserIsSelected' /\ ListenerKeepsItsUser'
  BY DEF ActiveUserIsSelected, ListenerKeepsItsUser, IdAt
<1>. QED
  BY <1>1, <1>2, <1>3, <1>4

\* The invariant holds initially.
LEMMA RestInit == Init => Rest
<1>. SUFFICES ASSUME Init PROVE Rest
  OBVIOUS
<1>1. /\ \A t \in Thread : pc[t] = "idle"
      /\ active = 1 /\ ptr[Listener] = 1 /\ owner[Listener] = selected
      /\ IdAt(1) = selected /\ selected \in UserId
  BY UsersAssumption DEF Init, IdAt
<1>. QED
  BY <1>1 DEF Rest, CentralHeld, ListenerIsActive, StoppedIsJoined, ActiveUserIsSelected,
              ListenerKeepsItsUser

\* A new user is behind the others and moves nobody.
LEMMA CreateStep ==
    ASSUME TypeOK, Rest, NEW c \in Conn, handle_create_user(c)
    PROVE  Rest'
<1>. USE DEF TypeOK, Rest
<1>1. pc[c] = "native" /\ pc' = [pc EXCEPT ![c] = "done"] /\ central' = Nobody
      /\ UNCHANGED <<active, ptr, owner, selected>>
  BY DEF handle_create_user, Answer, Goto
<1>2. central = c /\ c # Listener
  BY <1>1, NamesAssumption DEF CentralHeld
<1>3. CentralHeld' /\ ListenerIsActive'
  BY <1>1, <1>2, NamesAssumption DEF CentralHeld, ListenerIsActive
<1>4. StoppedIsJoined'
  BY <1>1, <1>2 DEF StoppedIsJoined
<1>5. route[c].user \in UserId
  BY DEF handle_create_user, RouteRec
<1>6. \A i \in 1 .. Len(userTable) : i \in 1 .. Len(userTable') /\ userTable'[i] = userTable[i]
  BY <1>5 DEF handle_create_user
<1>7. ASSUME NEW i, IdAt(i) \in UserId PROVE IdAt(i)' = IdAt(i)
  BY <1>6, <1>7, NamesAssumption DEF IdAt
<1>8. ActiveUserIsSelected'
  BY <1>1, <1>7 DEF ActiveUserIsSelected
<1>9. ListenerKeepsItsUser'
  BY <1>1, <1>2, <1>7 DEF ListenerKeepsItsUser, ListenerIsActive
<1>. QED
  BY <1>3, <1>4, <1>8, <1>9

\* stop_server takes the active user away; the listener, if there still is
\* one, is joined by the thread that stopped it.
LEMMA StopStep ==
    ASSUME TypeOK, Rest, NEW c \in Conn, pc[c] = "native", stop_server(c),
           UNCHANGED <<userTable, selected, central, ptr, owner>>
    PROVE  Rest'
<1>. USE DEF TypeOK, Rest, stop_server, Goto
<1>1. central = c /\ c # Listener
  BY NamesAssumption DEF CentralHeld
<1>2. \A d \in Conn : pc[d] # "joining"
  BY <1>1 DEF CentralHeld
<1>3. active = 0 => pc[Listener] = "off"
  BY <1>2 DEF StoppedIsJoined
<1>4. CentralHeld'
  BY <1>1 DEF CentralHeld
<1>5. ListenerIsActive' /\ StoppedIsJoined'
  BY <1>1, <1>3 DEF ListenerIsActive, StoppedIsJoined
<1>6. ActiveUserIsSelected' /\ ListenerKeepsItsUser'
  BY <1>1 DEF ActiveUserIsSelected, ListenerKeepsItsUser, IdAt
<1>. QED
  BY <1>4, <1>5, <1>6

\* start_server begins with neither an active user nor a listener.
LEMMA StartStep ==
    ASSUME TypeOK, Rest, NEW c \in Conn, start_server(c)
    PROVE  Rest'
<1>. USE DEF TypeOK, Rest
<1>1. pc[c] = "joined" /\ central = c /\ c # Listener /\ central' = Nobody
  BY NamesAssumption DEF start_server, CentralHeld
<1>2. PICK i \in Slots(route[c].user) :
         /\ active' = i /\ ptr' = [ptr EXCEPT ![Listener] = i]
         /\ owner' = [owner EXCEPT ![Listener] = IdAt(i)]
  BY DEF start_server
<1>3. i \in 1 .. Len(userTable) /\ IdAt(i) = route[c].user /\ IdAt(i) \in UserId
  BY DEF Slots, IdAt
<1>4. /\ ptr'[Listener] = i /\ owner'[Listener] = IdAt(i) /\ selected' = IdAt(i)
      /\ active' # 0 /\ userTable' = userTable
      /\ pc' = [pc EXCEPT ![Listener] = "idle", ![c] = "done"]
  BY <1>2, <1>3 DEF start_server, userVars
<1>5. pc'[Listener] = "idle" /\ \A d \in Conn : pc'[d] = IF d = c THEN "done" ELSE pc[d]
  BY <1>4, NamesAssumption
<1>6. CentralHeld'
  BY <1>1, <1>5 DEF CentralHeld
<1>7. ListenerIsActive' /\ StoppedIsJoined'
  BY <1>1, <1>2, <1>3, <1>4, <1>5 DEF ListenerIsActive, StoppedIsJoined, CentralHeld
<1>8. ActiveUserIsSelected' /\ ListenerKeepsItsUser'
  BY <1>2, <1>3, <1>4 DEF ActiveUserIsSelected, ListenerKeepsItsUser, IdAt
<1>. QED
  BY <1>6, <1>7, <1>8

\* The compaction moves nobody the client server points at: that is in front
\* of the gap, or there is no listener any more.
LEMMA RemoveStep ==
    ASSUME TypeOK, Rest, NEW c \in Conn, NEW i \in 1 .. Len(userTable), RemoveUser(c, i),
           central = c, pc[c] \in {"native", "joined"},
           UNCHANGED <<active, selected, ptr, owner>>,
           \/ active # 0 /\ active < i
           \/ active = 0 /\ pc[Listener] = "off"
    PROVE  Rest'
<1>. USE DEF TypeOK, Rest
<1>1. central' = Nobody /\ pc' = [pc EXCEPT ![c] = "done"] /\ c # Listener
      /\ userTable' = Compact(userTable, i)
  BY NamesAssumption DEF RemoveUser, Answer, Goto
<1>2. pc'[Listener] = pc[Listener] /\ \A d \in Conn : pc'[d] = IF d = c THEN "done" ELSE pc[d]
  BY <1>1
<1>3. CentralHeld'
  BY <1>1, <1>2 DEF CentralHeld
<1>4. ListenerIsActive' /\ StoppedIsJoined'
  BY <1>1, <1>2 DEF ListenerIsActive, StoppedIsJoined
<1>5. CASE active # 0 /\ active < i
  <2>1. active \in 1 .. Len(userTable')  /\ userTable'[active] = userTable[active]
    <3>1. active \in 1 .. Len(userTable) /\ Len(Compact(userTable, i)) = Len(userTable) - 1
      BY <1>5, CompactFacts
    <3>2. Compact(userTable, i)[active] = userTable[active]
      BY <1>5, <3>1, CompactFacts
    <3>. QED
      BY <1>1, <1>5, <3>1, <3>2
  <2>2. IdAt(active)' = IdAt(active)
    BY <1>5, <2>1 DEF IdAt
  <2>3. ptr[Listener] = active
    BY <1>5 DEF ListenerIsActive
  <2>. QED
    BY <1>2, <1>3, <1>4, <2>2, <2>3 DEF ActiveUserIsSelected, ListenerKeepsItsUser
<1>6. CASE active = 0 /\ pc[Listener] = "off"
  BY <1>2, <1>3, <1>4, <1>6 DEF ActiveUserIsSelected, ListenerKeepsItsUser
<1>. QED
  BY <1>5, <1>6

\* Every step keeps the invariant.
LEMMA RestStep == TypeOK /\ Rest /\ [Next]_vars => Rest'
<1>. SUFFICES ASSUME TypeOK, Rest, [Next]_vars PROVE Rest'
  OBVIOUS
<1>. USE NamesAssumption
<1>. USE DEF userVars
<1>1. ASSUME NEW c \in Conn, Accept(c) PROVE Rest'
  BY <1>1, Frame DEF Accept, Pcs
<1>2. ASSUME NEW c \in Conn, dispatch(c) PROVE Rest'
  <2>1. CASE route[c].kind = "client"
    BY <1>2, <2>1, Frame DEF dispatch, Pcs
  <2>2. CASE route[c].kind # "client"
    <3>1. /\ pc[c] = "queued" /\ central = Nobody /\ central' = c
          /\ pc' = [pc EXCEPT ![c] = "native"] /\ c # Listener
          /\ UNCHANGED <<userTable, active, selected, ptr, owner>>
      BY <1>2, <2>2 DEF dispatch, Goto
    <3>2. \A t \in Thread : pc'[t] = IF t = c THEN "native" ELSE pc[t]
      BY <3>1 DEF TypeOK
    <3>3. CentralHeld'
      BY <3>1, <3>2 DEF Rest, CentralHeld, TypeOK
    <3>4. ListenerIsActive' /\ StoppedIsJoined'
      BY <3>1, <3>2 DEF Rest, ListenerIsActive, StoppedIsJoined
    <3>. QED
      BY <3>1, <3>2, <3>3, <3>4 DEF Rest, ActiveUserIsSelected, ListenerKeepsItsUser, IdAt
  <2>. QED
    BY <2>1, <2>2
<1>3. ASSUME NEW c \in Conn, NativeRoute(c) PROVE Rest'
  <2>1. /\ pc[c] = "native" /\ central = c /\ central' = Nobody
        /\ pc' = [pc EXCEPT ![c] = "done"] /\ c # Listener
        /\ UNCHANGED <<userTable, active, selected, ptr, owner>>
    BY <1>3 DEF NativeRoute, Answer, Goto, Rest, CentralHeld
  <2>2. \A t \in Thread : pc'[t] = IF t = c THEN "done" ELSE pc[t]
    BY <2>1 DEF TypeOK
  <2>3. CentralHeld'
    BY <2>1, <2>2 DEF Rest, CentralHeld
  <2>4. ListenerIsActive' /\ StoppedIsJoined'
    BY <2>1, <2>2 DEF Rest, ListenerIsActive, StoppedIsJoined
  <2>. QED
    BY <2>1, <2>2, <2>3, <2>4 DEF Rest, ActiveUserIsSelected, ListenerKeepsItsUser, IdAt
<1>4. ASSUME NEW c \in Conn, handle_create_user(c) PROVE Rest'
  BY <1>4, CreateStep
<1>5. ASSUME NEW c \in Conn, handle_select_user(c) PROVE Rest'
  BY <1>5, StopStep DEF handle_select_user
<1>6. ASSUME NEW c \in Conn, pthread_join(c) PROVE Rest'
  <2>1. /\ pc[c] = "joining" /\ pc[Listener] = "off" /\ central = c /\ c # Listener
        /\ pc' = [pc EXCEPT ![c] = "joined"] /\ active = 0
        /\ UNCHANGED <<userTable, active, selected, ptr, owner, central>>
    BY <1>6 DEF pthread_join, Goto, Rest, CentralHeld, ListenerIsActive
  <2>2. \A t \in Thread : pc'[t] = IF t = c THEN "joined" ELSE pc[t]
    BY <2>1 DEF TypeOK
  <2>3. CentralHeld'
    BY <2>1, <2>2 DEF Rest, CentralHeld
  <2>4. ListenerIsActive' /\ StoppedIsJoined'
    BY <2>1, <2>2 DEF Rest, ListenerIsActive, StoppedIsJoined
  <2>. QED
    BY <2>1, <2>2, <2>3, <2>4 DEF Rest, ActiveUserIsSelected, ListenerKeepsItsUser, IdAt
<1>7. ASSUME NEW c \in Conn, start_server(c) PROVE Rest'
  BY <1>7, StartStep
<1>8. ASSUME NEW c \in Conn, handle_delete_user(c) PROVE Rest'
  <2>1. pc[c] = "native" /\ UNCHANGED <<selected, ptr, owner>>
    BY <1>8 DEF handle_delete_user
  <2>2. PICK i \in 1 .. Len(userTable) :
           \/ stop_server(c) /\ UNCHANGED <<userTable, central>>
           \/ /\ ~(active # 0 /\ active >= i)
              /\ RemoveUser(c, i) /\ UNCHANGED active
    BY <1>8 DEF handle_delete_user, StopsListener, Slots
  <2>3. CASE stop_server(c) /\ UNCHANGED <<userTable, central>>
    BY <2>1, <2>3, StopStep
  <2>4. CASE ~(active # 0 /\ active >= i) /\ RemoveUser(c, i) /\ UNCHANGED active
    <3>1. central = c
      BY <2>1 DEF Rest, CentralHeld
    <3>2. active = 0 => pc[Listener] = "off"
      BY <2>1, <3>1 DEF Rest, CentralHeld, StoppedIsJoined
    <3>3. active # 0 => active < i
      BY <2>4 DEF TypeOK
    <3>. QED
      BY <2>1, <2>4, <3>1, <3>2, <3>3, RemoveStep
  <2>. QED
    BY <2>2, <2>3, <2>4
<1>9. ASSUME NEW c \in Conn, DeleteAfterStop(c) PROVE Rest'
  <2>1. pc[c] = "joined" /\ central = c /\ active = 0 /\ pc[Listener] = "off"
    BY <1>9 DEF DeleteAfterStop, Rest, CentralHeld, ListenerIsActive
  <2>. QED
    BY <1>9, <2>1, RemoveStep DEF DeleteAfterStop, Slots
<1>10. ASSUME NEW c \in Conn, dispatch_to_active_client(c) PROVE Rest'
  <2>1. /\ c # Listener /\ pc[c] = "forwarded"
        /\ ptr'[Listener] = ptr[Listener] /\ owner'[Listener] = owner[Listener]
    BY <1>10 DEF dispatch_to_active_client, TypeOK
  <2>2. Goto(c, "handling") \/ Goto(c, "done")
    BY <1>10 DEF dispatch_to_active_client
  <2>. QED
    BY <1>10, <2>1, <2>2, Frame DEF dispatch_to_active_client, Pcs
<1>11. ASSUME NEW c \in Conn, EndForwarded(c) PROVE Rest'
  BY <1>11, Frame DEF EndForwarded, Pcs
<1>12. ASSUME NEW t \in Thread, central_connect(t) PROVE Rest'
  <2>1. CASE Goto(t, "calling")
    BY <1>12, <2>1, Frame DEF central_connect, Pcs
  <2>2. CASE UNCHANGED pc
    BY <1>12, <2>2 DEF central_connect, Rest, CentralHeld, ListenerIsActive, StoppedIsJoined,
                       ActiveUserIsSelected, ListenerKeepsItsUser, IdAt
  <2>. QED
    BY <1>12, <2>1, <2>2 DEF central_connect
<1>13. ASSUME NEW t \in Thread, ServeCall(t) PROVE Rest'
  <2>1. /\ pc[t] = "calling" /\ central = Nobody /\ central' = t
        /\ pc' = [pc EXCEPT ![t] = "served"]
        /\ UNCHANGED <<userTable, active, selected, ptr, owner>>
    BY <1>13 DEF ServeCall, Goto
  <2>2. \A u \in Thread : pc'[u] = IF u = t THEN "served" ELSE pc[u]
    BY <2>1 DEF TypeOK
  <2>3. CentralHeld'
    BY <2>1, <2>2 DEF Rest, CentralHeld, TypeOK
  <2>4. ListenerIsActive' /\ StoppedIsJoined'
    BY <2>1, <2>2 DEF Rest, ListenerIsActive, StoppedIsJoined
  <2>. QED
    BY <2>1, <2>2, <2>3, <2>4 DEF Rest, ActiveUserIsSelected, ListenerKeepsItsUser, IdAt
<1>14. ASSUME NEW t \in Thread, central_recv_body(t) PROVE Rest'
  <2>1. /\ pc[t] = "served" /\ central = t /\ central' = Nobody
        /\ pc' = [pc EXCEPT ![t] = "handling"]
        /\ UNCHANGED <<userTable, active, selected, ptr, owner>>
    BY <1>14 DEF central_recv_body, Goto, Rest, CentralHeld
  <2>2. \A u \in Thread : pc'[u] = IF u = t THEN "handling" ELSE pc[u]
    BY <2>1 DEF TypeOK
  <2>3. CentralHeld'
    BY <2>1, <2>2 DEF Rest, CentralHeld, TypeOK
  <2>4. ListenerIsActive' /\ StoppedIsJoined'
    BY <2>1, <2>2 DEF Rest, ListenerIsActive, StoppedIsJoined
  <2>. QED
    BY <2>1, <2>2, <2>3, <2>4 DEF Rest, ActiveUserIsSelected, ListenerKeepsItsUser, IdAt
<1>15. ASSUME handle_client PROVE Rest'
  BY <1>15, Frame DEF handle_client, Pcs
<1>16. ASSUME EndDirect \/ server_thread_exits PROVE Rest'
  BY <1>16, Frame DEF EndDirect, server_thread_exits, Pcs
<1>17. ASSUME stop_central_server \/ UNCHANGED vars PROVE Rest'
  BY <1>17 DEF stop_central_server, vars, Rest, CentralHeld, ListenerIsActive, StoppedIsJoined,
               ActiveUserIsSelected, ListenerKeepsItsUser, IdAt
<1>. QED
  BY <1>1, <1>2, <1>3, <1>4, <1>5, <1>6, <1>7, <1>8, <1>9, <1>10, <1>11, <1>12, <1>13, <1>14,
     <1>15, <1>16, <1>17 DEF Next, Serve, Call, Listen

\* The inductive invariant of the two servers, in every behaviour.
THEOREM ServersSafe == Spec => []IInv
<1>1. Init => TypeOK /\ Rest
  BY TypeInit, RestInit
<1>2. TypeOK /\ Rest /\ [Next]_vars => TypeOK' /\ Rest'
  BY TypeStep, RestStep
<1>3. TypeOK /\ Rest => IInv
  BY DEF Rest, IInv
<1>. QED
  BY <1>1, <1>2, <1>3, PTL DEF Spec

\* Forwarded requests always find the user the client server was started for
\* behind client_user, whichever users were deleted in between.
THEOREM ActiveIsSelected == Spec => []ActiveUserIsSelected
<1>1. IInv => ActiveUserIsSelected
  BY DEF IInv
<1>. QED
  BY <1>1, ServersSafe, PTL

\* A request that the client server itself handles never sees its user move.
THEOREM ListenerUserStays == Spec => []ListenerKeepsItsUser
<1>1. IInv => ListenerKeepsItsUser
  BY DEF IInv
<1>. QED
  BY <1>1, ServersSafe, PTL

=============================================================================
