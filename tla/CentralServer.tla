----------------------------- MODULE CentralServer -----------------------------
(****************************************************************************)
(* The threads of the two HTTP servers of the process and the locks between *)
(* them (srv/central-server/central-server.c, srv/http-server/server.c, and *)
(* the handlers of central-users.c that start, stop and move what the       *)
(* client server works on).                                                 *)
(*                                                                          *)
(* The central server reads every connection in a thread of its own. Its    *)
(* own routes run under central_handler_lock; every other route is          *)
(* forwarded to the client handlers, under client_handler_lock, with the    *)
(* user the client server was started for. The client server has one        *)
(* thread (Listener), which accepts a connection and runs the handler       *)
(* itself, under no lock. A client handler may call the central server over *)
(* a socket and wait for the answer: the connection thread that serves the  *)
(* call is named after its caller.                                          *)
(*                                                                          *)
(* A User * is a slot of USER_TABLE. server_lock is held for single         *)
(* assignments only and is not modelled. The model begins when              *)
(* start_central_server has returned.                                       *)
(****************************************************************************)
EXTENDS Naturals, Sequences

CONSTANTS
    Conn,          \* connections of the central server, one thread each
    Listener,      \* the thread of the client server
    Nobody,        \* no thread
    UserId,        \* ids of all the users there will ever be
    NoUser,        \* the id in a slot past USER_COUNT
    MAX_USERS,     \* slots of USER_TABLE
    InitUsers,     \* the users the server starts with
    ListenerCalls, \* the routes called on the client server need the central server
    MaxCalls,      \* bound of the model: calls a handler makes
    MaxDirect      \* bound of the model: requests to the client server

Thread == Conn \cup {Listener}

ASSUME NamesAssumption ==
    Listener \notin Conn /\ Nobody \notin Thread /\ NoUser \notin UserId
ASSUME BoundsAssumption ==
    /\ MAX_USERS \in Nat /\ MaxCalls \in Nat /\ MaxDirect \in Nat
    /\ ListenerCalls \in BOOLEAN
ASSUME UsersAssumption ==
    /\ InitUsers \in Seq(UserId) /\ Len(InitUsers) \in 1 .. MAX_USERS
    /\ \A i, j \in 1 .. Len(InitUsers) : InitUsers[i] = InitUsers[j] => i = j

VARIABLES
    accepting,  \* central_started
    userTable,  \* USER_TABLE[0 .. USER_COUNT - 1], the ids
    everUsers,  \* ids given to users so far
    active,     \* slot of client_user while "started" is set, else 0
    selected,   \* history: the user the client server was last started for
    central,    \* holder of central_handler_lock
    client,     \* holder of client_handler_lock
    pc,         \* where each thread is
    route,      \* the route a connection asks for, and the user it names
    ptr,        \* the User * a handler was given
    owner,      \* history: the id that was in this slot then
    calls,      \* calls to the central server the handler has made
    direct      \* requests the client server has accepted

vars == <<accepting, userTable, everUsers, active, selected, central, client, pc, route,
          ptr, owner, calls, direct>>
userVars == <<userTable, everUsers>>

Routes == {"none", "central", "create", "select", "delete", "client"}
RouteRec == {r \in [kind : Routes, user : UserId \cup {NoUser}] :
                 r.kind \in {"create", "select", "delete"} => r.user \in UserId}
\* idle, waiting for central_handler_lock, in a central route, joining the
\* listener, past the join, waiting for client_handler_lock, in a client
\* handler, in its call (waiting, served), answered; "off" is no thread.
Pcs == {"idle", "queued", "native", "joining", "joined", "forwarded", "handling", "calling",
        "served", "done", "off"}

TypeOK ==
    /\ accepting \in BOOLEAN
    /\ userTable \in Seq(UserId) /\ Len(userTable) <= MAX_USERS
    /\ everUsers \subseteq UserId
    /\ active \in 0 .. MAX_USERS /\ selected \in UserId
    /\ central \in Thread \cup {Nobody} /\ client \in Conn \cup {Nobody}
    /\ pc \in [Thread -> Pcs]
    /\ route \in [Conn -> RouteRec]
    /\ ptr \in [Thread -> 0 .. MAX_USERS] /\ owner \in [Thread -> UserId \cup {NoUser}]
    /\ calls \in [Thread -> 0 .. MaxCalls] /\ direct \in 0 .. MaxDirect

----------------------------------------------------------------------------

IdAt(i) == IF i \in 1 .. Len(userTable) THEN userTable[i] ELSE NoUser
Slots(u) == {i \in 1 .. Len(userTable) : userTable[i] = u}
Goto(t, where) == pc' = [pc EXCEPT ![t] = where]

\* A connection is accepted and its request is read. A new user gets its id.
Accept(c) ==
    /\ accepting /\ pc[c] = "idle"
    /\ \/ /\ \E k \in {"central", "client"} :
                route' = [route EXCEPT ![c] = [kind |-> k, user |-> NoUser]]
          /\ UNCHANGED everUsers
       \/ /\ \E k \in {"select", "delete"}, u \in everUsers :
                route' = [route EXCEPT ![c] = [kind |-> k, user |-> u]]
          /\ UNCHANGED everUsers
       \/ \E u \in UserId \ everUsers :
             /\ route' = [route EXCEPT ![c] = [kind |-> "create", user |-> u]]
             /\ everUsers' = everUsers \cup {u}
    /\ Goto(c, "queued")
    /\ UNCHANGED <<accepting, userTable, active, selected, central, client, ptr, owner,
                   calls, direct>>

\* The path is matched under central_handler_lock; a client route gives the
\* lock back at once.
dispatch(c) ==
    /\ pc[c] = "queued" /\ central = Nobody
    /\ IF route[c].kind = "client"
       THEN Goto(c, "forwarded") /\ UNCHANGED central
       ELSE Goto(c, "native") /\ central' = c
    /\ UNCHANGED <<accepting, userVars, active, selected, client, route, ptr, owner, calls,
                   direct>>

Answer(c) == Goto(c, "done") /\ central' = Nobody

----------------------------------------------------------------------------
\* Routes of the central server

\* A route that neither moves a user nor touches the client server, or one
\* that names a user who is gone.
NativeRoute(c) ==
    /\ pc[c] = "native"
    /\ \/ route[c].kind = "central"
       \/ route[c].kind \in {"select", "delete"} /\ Slots(route[c].user) = {}
    /\ Answer(c)
    /\ UNCHANGED <<accepting, userVars, active, selected, client, route, ptr, owner, calls,
                   direct>>

handle_create_user(c) ==
    /\ pc[c] = "native" /\ route[c].kind = "create"
    /\ Len(userTable) < MAX_USERS
    /\ userTable' = Append(userTable, route[c].user)
    /\ Answer(c)
    /\ UNCHANGED <<accepting, everUsers, active, selected, client, route, ptr, owner, calls,
                   direct>>

\* stop_server up to pthread_join: nothing to do when it is not started.
stop_server(c) ==
    /\ active' = 0
    /\ Goto(c, IF active = 0 THEN "joined" ELSE "joining")

\* (fault: the listener is not waited for)
pthread_join_Detached(c) ==
    /\ pc[c] = "joining"
    /\ Goto(c, "joined")
    /\ UNCHANGED <<accepting, userVars, active, selected, central, client, route, ptr, owner,
                   calls, direct>>

pthread_join(c) ==
    /\ pc[c] = "joining" /\ pc[Listener] = "off"
    /\ Goto(c, "joined")
    /\ UNCHANGED <<accepting, userVars, active, selected, central, client, route, ptr, owner,
                   calls, direct>>

handle_select_user(c) ==
    /\ pc[c] = "native" /\ route[c].kind = "select" /\ Slots(route[c].user) # {}
    /\ stop_server(c)
    /\ UNCHANGED <<accepting, userVars, selected, central, client, route, ptr, owner, calls,
                   direct>>

start_server(c) ==
    /\ pc[c] = "joined" /\ route[c].kind = "select"
    /\ \E i \in Slots(route[c].user) :
          /\ active' = i
          /\ ptr' = [ptr EXCEPT ![Listener] = i]
          /\ owner' = [owner EXCEPT ![Listener] = IdAt(i)]
    /\ selected' = route[c].user
    /\ pc' = [pc EXCEPT ![Listener] = "idle", ![c] = "done"] /\ central' = Nobody
    /\ UNCHANGED <<accepting, userVars, client, route, calls, direct>>

\* The client server is stopped when it works for the user who goes, or for
\* one the compaction will move.
\* (fault: only when it works for the user who goes)
StopsListener_OnlyOwn(d) == active = d
StopsListener(d) == active >= d

Compact(t, i) == [k \in 1 .. Len(t) - 1 |-> IF k < i THEN t[k] ELSE t[k + 1]]
RemoveUser(c, i) == userTable' = Compact(userTable, i) /\ Answer(c)

handle_delete_user(c) ==
    /\ pc[c] = "native" /\ route[c].kind = "delete"
    /\ \E i \in Slots(route[c].user) :
          \/ /\ active # 0 /\ StopsListener(i)
             /\ stop_server(c) /\ UNCHANGED <<userTable, central>>
          \/ /\ ~(active # 0 /\ StopsListener(i))
             /\ RemoveUser(c, i) /\ UNCHANGED active
    /\ UNCHANGED <<accepting, everUsers, selected, client, route, ptr, owner, calls, direct>>

DeleteAfterStop(c) ==
    /\ pc[c] = "joined" /\ route[c].kind = "delete"
    /\ \E i \in Slots(route[c].user) : RemoveUser(c, i)
    /\ UNCHANGED <<accepting, everUsers, active, selected, client, route, ptr, owner, calls,
                   direct>>

----------------------------------------------------------------------------
\* Client routes

\* Forwarded: the handler gets the user of the client server, if there is one.
dispatch_to_active_client(c) ==
    /\ pc[c] = "forwarded" /\ client = Nobody
    /\ \/ /\ active # 0
          /\ client' = c
          /\ ptr' = [ptr EXCEPT ![c] = active] /\ owner' = [owner EXCEPT ![c] = IdAt(active)]
          /\ Goto(c, "handling")
       \/ /\ active = 0
          /\ Goto(c, "done") /\ UNCHANGED <<client, ptr, owner>>
    /\ UNCHANGED <<accepting, userVars, active, selected, central, route, calls, direct>>

\* Direct: the listener accepts a connection and runs the handler.
handle_client ==
    /\ pc[Listener] = "idle" /\ active # 0
    /\ direct < MaxDirect /\ direct' = direct + 1
    /\ calls' = [calls EXCEPT ![Listener] = 0]
    /\ Goto(Listener, "handling")
    /\ UNCHANGED <<accepting, userVars, active, selected, central, client, route, ptr, owner>>

\* A handler calls the central server. When that no longer accepts, the call
\* fails and the handler goes on.
central_connect(t) ==
    /\ pc[t] = "handling" /\ (t = Listener => ListenerCalls)
    /\ calls[t] < MaxCalls /\ calls' = [calls EXCEPT ![t] = @ + 1]
    /\ IF accepting THEN Goto(t, "calling") ELSE UNCHANGED pc
    /\ UNCHANGED <<accepting, userVars, active, selected, central, client, route, ptr, owner,
                   direct>>

\* The connection thread of the call takes and gives back the lock.
\* (fault: it needs the lock of its caller as well)
ServeCall_OneLock(t) ==
    /\ pc[t] = "calling" /\ central = Nobody /\ client = Nobody
    /\ central' = t /\ Goto(t, "served")
    /\ UNCHANGED <<accepting, userVars, active, selected, client, route, ptr, owner, calls,
                   direct>>

ServeCall(t) ==
    /\ pc[t] = "calling" /\ central = Nobody
    /\ central' = t /\ Goto(t, "served")
    /\ UNCHANGED <<accepting, userVars, active, selected, client, route, ptr, owner, calls,
                   direct>>

central_recv_body(t) ==
    /\ pc[t] = "served"
    /\ central' = Nobody /\ Goto(t, "handling")
    /\ UNCHANGED <<accepting, userVars, active, selected, client, route, ptr, owner, calls,
                   direct>>

\* The handler ends, its lock is released.
EndForwarded(c) ==
    /\ pc[c] = "handling"
    /\ client' = Nobody /\ Goto(c, "done")
    /\ UNCHANGED <<accepting, userVars, active, selected, central, route, ptr, owner, calls,
                   direct>>

EndDirect ==
    /\ pc[Listener] = "handling"
    /\ Goto(Listener, "idle")
    /\ UNCHANGED <<accepting, userVars, active, selected, central, client, route, ptr, owner,
                   calls, direct>>

\* The accept loop of the listener ends after stop_server has closed its socket.
server_thread_exits ==
    /\ pc[Listener] = "idle" /\ active = 0
    /\ Goto(Listener, "off")
    /\ UNCHANGED <<accepting, userVars, active, selected, central, client, route, ptr, owner,
                   calls, direct>>

----------------------------------------------------------------------------

\* Connections that were accepted go on.
stop_central_server ==
    /\ accepting /\ accepting' = FALSE
    /\ UNCHANGED <<userVars, active, selected, central, client, pc, route, ptr, owner, calls,
                   direct>>

Init ==
    /\ accepting = TRUE
    /\ userTable = InitUsers /\ everUsers = {InitUsers[i] : i \in 1 .. Len(InitUsers)}
    /\ active = 1 /\ selected = InitUsers[1]
    /\ central = Nobody /\ client = Nobody
    /\ pc = [t \in Thread |-> "idle"]
    /\ route = [c \in Conn |-> [kind |-> "none", user |-> NoUser]]
    /\ ptr = [t \in Thread |-> IF t = Listener THEN 1 ELSE 0]
    /\ owner = [t \in Thread |-> IF t = Listener THEN InitUsers[1] ELSE NoUser]
    /\ calls = [t \in Thread |-> 0] /\ direct = 0

\* The steps of a connection's thread once its request is read, and of a
\* handler's call.
Serve(c) ==
    \/ dispatch(c) \/ NativeRoute(c) \/ handle_create_user(c)
    \/ handle_select_user(c) \/ pthread_join(c) \/ start_server(c)
    \/ handle_delete_user(c) \/ DeleteAfterStop(c)
    \/ dispatch_to_active_client(c) \/ EndForwarded(c)
Call(t) == central_connect(t) \/ ServeCall(t) \/ central_recv_body(t)
Listen == EndDirect \/ server_thread_exits

Next ==
    \/ \E c \in Conn : Accept(c) \/ Serve(c)
    \/ \E t \in Thread : Call(t)
    \/ handle_client \/ Listen
    \/ stop_central_server

Spec == Init /\ [][Next]_vars

\* Threads are scheduled. Mutexes need not be fair: the requests of a behaviour
\* are finitely many, so nobody is overtaken for ever.
FairSpec == /\ Spec
            /\ \A c \in Conn : WF_vars(Serve(c))
            /\ \A t \in Thread : WF_vars(ServeCall(t)) /\ WF_vars(central_recv_body(t))
            /\ WF_vars(Listen)

----------------------------------------------------------------------------
\* Properties

\* "this nested request takes central_handler_lock, never this one, so there is
\* no self-deadlock" (central-server.c:173): whatever is forwarded, called,
\* selected and deleted at the same time, every request is answered.
EveryRequestAnswered == \A c \in Conn : (pc[c] = "queued") ~> (pc[c] = "done")

\* "stop it first so it doesn't keep a stale User pointer into the table"
\* (central-users.c:176): while the client server runs, the pointer it is
\* forwarded with names the user it was started for, however the table moved.
ActiveUserIsSelected == active # 0 => IdAt(active) = selected

\* The same for the thread of the client server: as long as it exists, also
\* while it finishes a request after stop_server, its pointer names its user.
ListenerKeepsItsUser == pc[Listener] # "off" => IdAt(ptr[Listener]) = owner[Listener]

----------------------------------------------------------------------------
\* The inductive invariant the last two follow from.

\* Whoever is inside a central route, or serves a call, holds the lock.
CentralHeld ==
    /\ \A c \in Conn : pc[c] \in {"native", "joining", "joined"} => central = c
    /\ \A t \in Thread : pc[t] = "served" => central = t
    /\ pc[Listener] \notin {"native", "joining", "joined"}

\* While the client server is active its thread exists and has the same
\* pointer; after the join there is neither.
ListenerIsActive ==
    /\ pc[Listener] # "off" => owner[Listener] \in UserId
    /\ active # 0 => pc[Listener] # "off" /\ ptr[Listener] = active
    /\ \A c \in Conn : pc[c] = "joining" => active = 0
    /\ \A c \in Conn : pc[c] = "joined" => active = 0 /\ pc[Listener] = "off"

\* A listener that was stopped and has not ended is being waited for by the
\* thread that stopped it, which holds central_handler_lock.
StoppedIsJoined ==
    active = 0 /\ pc[Listener] # "off" => \E c \in Conn : pc[c] = "joining"

IInv == TypeOK /\ CentralHeld /\ ListenerIsActive /\ StoppedIsJoined
        /\ ActiveUserIsSelected /\ ListenerKeepsItsUser

=============================================================================
