------------------------------ MODULE Connections ------------------------------
(****************************************************************************)
(* The match system of the central server: USER_TABLE as the matcher sees   *)
(* it, the connection and message tables, their files, and the handlers     *)
(* that change them (srv/match-system/connections.c and disk-storage.c,     *)
(* reached through srv/central-server/central-conn.c).                      *)
(*                                                                          *)
(* A handler is split where another thread or a crash can come between its  *)
(* steps: at each file write (dump_to_file truncates the file, then fills   *)
(* it), at the AI call, and where conn_lock is released before the handler  *)
(* ends. Handlers of the central server run one at a time under             *)
(* central_handler_lock (thread Central); the matcher is also run by client *)
(* handlers, which hold another lock.                                       *)
(*                                                                          *)
(* A connection or a message is named by its random id. A User * is an      *)
(* index into USER_TABLE; user files are written whole.                     *)
(****************************************************************************)
EXTENDS Naturals, Sequences, FiniteSets

CONSTANTS
    UserId,           \* ids of all the users there will ever be
    NoUser,           \* the empty id, read from a zeroed slot of USER_TABLE
    ConnId,           \* ids random_id may give to connections
    MsgId,            \* names for messages
    NoId,             \* the name no connection and no message has
    Central,          \* the thread that holds central_handler_lock
    Clients,          \* threads of client handlers that can run the matcher
    MAX_USERS,        \* slots of USER_TABLE
    MAX_CONNECTIONS,  \* slots of ConnectionTable
    MAX_MESSAGES,     \* slots of MessageTable
    FINAL_MATCHES,    \* CONNECTION_FINAL_MATCH_LIMIT
    InitUsers,        \* the users on disk when the server first starts
    MaxDeletes,       \* bound of the model: users deleted
    MayCrash          \* bound of the model: the process can crash

Thread == {Central} \cup Clients
MaybeUser == UserId \cup {NoUser}
MaybeConn == ConnId \cup {NoId}
MaybeMsg  == MsgId \cup {NoId}

ASSUME NamesAssumption ==
    /\ NoUser \notin UserId
    /\ NoId \notin ConnId /\ NoId \notin MsgId
    /\ Central \notin Clients /\ NoId \notin Clients \cup {Central}
ASSUME LimitsAssumption ==
    /\ MAX_USERS \in Nat /\ MAX_CONNECTIONS \in Nat /\ MAX_MESSAGES \in Nat
    /\ FINAL_MATCHES \in Nat \ {0}
    /\ MaxDeletes \in Nat /\ MayCrash \in BOOLEAN
ASSUME UsersAssumption ==
    /\ InitUsers \in Seq(UserId)
    /\ Len(InitUsers) <= MAX_USERS
    /\ \A i, j \in 1 .. Len(InitUsers) : InitUsers[i] = InitUsers[j] => i = j

VARIABLES
    up,            \* the process is running
    userTable,     \* USER_TABLE[0 .. USER_COUNT - 1], the ids
    discoverable,  \* users with the discoverable flag set
    described,     \* users with a non-empty description
    everUsers,     \* ids given to users so far (random ids never return)
    conn,          \* ConnectionTable
    connFile,      \* the .conn files
    msg,           \* MessageTable
    msgFile,       \* the lines of the .msgs files
    lock,          \* holder of conn_lock across a file write
    pc,            \* where each thread is
    job,           \* what its handler has computed
    deletes        \* users deleted so far

vars == <<up, userTable, discoverable, described, everUsers, conn, connFile, msg, msgFile,
          lock, pc, job, deletes>>
userVars == <<userTable, discoverable, described, everUsers, deletes>>

States == {"none", "torn", "proposed", "confirmed", "declined"}
ConnRec == [a : MaybeUser, b : MaybeUser, aOk : BOOLEAN, bOk : BOOLEAN, state : States]
NoConn == [a |-> NoUser, b |-> NoUser, aOk |-> FALSE, bOk |-> FALSE, state |-> "none"]
Proposal(x, y) == [a |-> x, b |-> y, aOk |-> FALSE, bOk |-> FALSE, state |-> "proposed"]
Torn   == [a |-> NoUser, b |-> NoUser, aOk |-> FALSE, bOk |-> FALSE, state |-> "torn"]
MsgRec == [conn : MaybeConn, sender : MaybeUser]
NoMsg  == [conn |-> NoId, sender |-> NoUser]

Pcs == {"idle", "ranking", "inserting", "persisting", "ensuring", "appending"}
JobRec == [a : 0 .. MAX_USERS, todo : SUBSET (1 .. MAX_USERS), conn : MaybeConn,
           confirmed : BOOLEAN, msg : MaybeMsg]
NoJob == [a |-> 0, todo |-> {}, conn |-> NoId, confirmed |-> FALSE, msg |-> NoId]

TypeOK ==
    /\ up \in BOOLEAN
    /\ userTable \in Seq(UserId) /\ Len(userTable) <= MAX_USERS
    /\ discoverable \subseteq UserId /\ described \subseteq UserId /\ everUsers \subseteq UserId
    /\ conn \in [ConnId -> ConnRec] /\ connFile \in [ConnId -> ConnRec]
    /\ msg \in [MsgId -> MsgRec] /\ msgFile \in [MsgId -> MsgRec]
    /\ lock \in Thread \cup {NoId}
    /\ pc \in [Thread -> Pcs] /\ job \in [Thread -> JobRec]
    /\ deletes \in 0 .. MaxDeletes

----------------------------------------------------------------------------
\* Lookups

Live(c)    == conn[c].state \in {"proposed", "confirmed", "declined"}
OnDisk(c)  == connFile[c].state \in {"proposed", "confirmed", "declined"}
LiveConns  == {c \in ConnId : Live(c)}
LiveMsgs   == {m \in MsgId : msg[m] # NoMsg}
SamePair(r, s) == (r.a = s.a /\ r.b = s.b) \/ (r.a = s.b /\ r.b = s.a)

BeingWritten(c) == \E t \in Thread : pc[t] = "persisting" /\ job[t].conn = c

\* the id stored behind a User *: a slot past USER_COUNT has been zeroed
IdAt(i) == IF i \in 1 .. Len(userTable) THEN userTable[i] ELSE NoUser

find_pair(a, b) == {c \in LiveConns : SamePair(conn[c], [a |-> a, b |-> b])}

\* (fault: the other end sees proposals at once)
ListConnsForUser_AllEnds(u) == {c \in LiveConns : u \in {conn[c].a, conn[c].b}}

\* The initiator sees its proposals at once, the other end after the
\* initiator has approved.
ListConnsForUser(u) ==
    {c \in LiveConns : conn[c].a = u \/ (conn[c].b = u /\ conn[c].aOk)}

Participant(c, u) == u \in {conn[c].a, conn[c].b}

Idle(t)  == up /\ pc[t] = "idle"
Goto(t, where, what) == pc' = [pc EXCEPT ![t] = where] /\ job' = [job EXCEPT ![t] = what]

----------------------------------------------------------------------------
\* Writing a file: dump_to_file opens it with "wb", which empties it, and
\* then writes the record. conn_lock is held from before the first step.

BeginPersist(t, c, r, what) ==
    /\ lock = NoId
    /\ lock' = t
    /\ conn' = [conn EXCEPT ![c] = r]
    /\ connFile' = [connFile EXCEPT ![c] = Torn]
    /\ Goto(t, "persisting", [what EXCEPT !.conn = c])

\* The write ends, conn_lock is released and the handler goes on: an approval
\* that confirmed the connection goes on to the shared journey, the matcher
\* to its next pick.
EndPersist(t) ==
    /\ up /\ pc[t] = "persisting" /\ lock = t
    /\ connFile' = [connFile EXCEPT ![job[t].conn] = conn[job[t].conn]]
    /\ lock' = NoId
    /\ \/ job[t].confirmed /\ Goto(t, "ensuring", job[t])
       \/ ~job[t].confirmed /\ job[t].todo # {} /\ Goto(t, "inserting", job[t])
       \/ ~job[t].confirmed /\ job[t].todo = {} /\ Goto(t, "idle", NoJob)
    /\ UNCHANGED <<up, userVars, conn, msg, msgFile>>

----------------------------------------------------------------------------
\* Opting in and out, and matching

Matchable == discoverable \cap described

\* The scan before the AI call: everybody else who can be matched and has no
\* connection with the user yet, none when the table is full.
\* (fault: private people are candidates)
Candidates_Private(i, people) ==
    {j \in 1 .. Len(userTable) :
        userTable[j] # userTable[i] /\ find_pair(userTable[i], userTable[j]) = {}}

Candidates(i, people) ==
    {j \in 1 .. Len(userTable) :
        /\ userTable[j] # userTable[i]
        /\ userTable[j] \in people
        /\ Cardinality(LiveConns) < MAX_CONNECTIONS
        /\ find_pair(userTable[i], userTable[j]) = {}}

\* FindMatchForUser up to its AI call, when "people" can be matched: it
\* returns at once if the user is not one of them or has no candidates. The
\* candidates are pointers into USER_TABLE.
FindMatchForUser(t, i, people) ==
    /\ lock = NoId
    /\ IF userTable[i] \in people /\ Candidates(i, people) # {}
       THEN Goto(t, "ranking", [NoJob EXCEPT !.a = i, !.todo = Candidates(i, people)])
       ELSE UNCHANGED <<pc, job>>

\* Set the flag; a description is supplied, kept, or generated: d is false
\* when none exists and the generator returned nothing.
SetUserDiscoverable(i, d) ==
    /\ userTable[i] \in described => d
    /\ discoverable' = discoverable \cup {userTable[i]}
    /\ described' = IF d THEN described \cup {userTable[i]} ELSE described

\* The route of the central server sets the flag and matches in one handler.
handle_conn_discoverable(i, d) ==
    /\ Idle(Central)
    /\ SetUserDiscoverable(i, d)
    /\ FindMatchForUser(Central, i, discoverable' \cap described')
    /\ UNCHANGED <<up, userTable, everUsers, conn, connFile, msg, msgFile, lock,
                   deletes>>

\* A client handler does one or the other: the profile page and a chat action
\* set the flag, another chat action runs the matcher.
ClientSetsDiscoverable(t, i, d) ==
    /\ t \in Clients /\ Idle(t)
    /\ SetUserDiscoverable(i, d)
    /\ UNCHANGED <<up, userTable, everUsers, conn, connFile, msg, msgFile, lock,
                   pc, job, deletes>>

ClientFindsMatch(t, i) ==
    /\ t \in Clients /\ Idle(t)
    /\ FindMatchForUser(t, i, Matchable)
    /\ UNCHANGED <<up, userVars, conn, connFile, msg, msgFile, lock>>

SetUserPrivate(t, i) ==
    /\ Idle(t)
    /\ discoverable' = discoverable \ {userTable[i]}
    /\ UNCHANGED <<up, userTable, described, everUsers, conn, connFile, msg, msgFile,
                   lock, pc, job, deletes>>

UpdateUserDescription(t, i, d) ==
    /\ Idle(t)
    /\ described' = IF d THEN described \cup {userTable[i]} ELSE described \ {userTable[i]}
    /\ UNCHANGED <<up, userTable, discoverable, everUsers, conn, connFile, msg, msgFile,
                   lock, pc, job, deletes>>

\* The AI call returns: whatever it ranked, backfilling leaves exactly
\* FINAL_MATCHES picks, or all the candidates when there are fewer.
AiRanks(t) ==
    /\ up /\ pc[t] = "ranking"
    /\ \E picks \in SUBSET job[t].todo :
          /\ \/ Cardinality(picks) = FINAL_MATCHES
             \/ picks = job[t].todo /\ Cardinality(picks) < FINAL_MATCHES
          /\ Goto(t, "inserting", [job[t] EXCEPT !.todo = picks])
    /\ UNCHANGED <<up, userVars, conn, connFile, msg, msgFile, lock>>

\* What is looked up again under conn_lock before a pick is inserted.
\* (faults: only room, or only the pair, is looked up)
Insertable_OnlyRoom(a, b) == Cardinality(LiveConns) < MAX_CONNECTIONS
Insertable_OnlyPair(a, b) == find_pair(a, b) = {}
Insertable(a, b) == find_pair(a, b) = {} /\ Cardinality(LiveConns) < MAX_CONNECTIONS

\* One pick: look again for the pair and for room, under conn_lock, and insert.
InsertProposal(t) ==
    /\ up /\ pc[t] = "inserting" /\ lock = NoId
    /\ \E j \in job[t].todo :
          LET a    == IdAt(job[t].a)
              b    == IdAt(j)
              rest == [job[t] EXCEPT !.todo = @ \ {j}]
          IN  \/ /\ Insertable(a, b)
                 /\ \E c \in ConnId :
                      /\ conn[c].state = "none" /\ connFile[c].state = "none"
                      /\ BeginPersist(t, c, Proposal(a, b), rest)
              \/ /\ ~Insertable(a, b)
                 /\ IF rest.todo = {} THEN Goto(t, "idle", NoJob)
                                      ELSE Goto(t, "inserting", rest)
                 /\ UNCHANGED <<conn, connFile, lock>>
    /\ UNCHANGED <<up, userVars, msg, msgFile>>

----------------------------------------------------------------------------
\* Decisions. Next calls them with a connection a listing has shown: that is
\* how a client knows its random id.

recompute_state(r) ==
    IF r.state = "declined" THEN r
    ELSE [r EXCEPT !.state = IF r.aOk /\ r.bOk THEN "confirmed" ELSE "proposed"]

\* (fault: every approval of a confirmed pair, and no other, counts)
JustConfirmed_Late(before, after) == before.state = "confirmed" /\ after.state = "confirmed"
JustConfirmed(before, after) == before.state # "confirmed" /\ after.state = "confirmed"

ApproveConn(c, u) ==
    /\ Idle(Central)
    /\ Live(c) /\ conn[c].state # "declined" /\ Participant(c, u)
    /\ LET r == recompute_state(IF u = conn[c].a THEN [conn[c] EXCEPT !.aOk = TRUE]
                                                 ELSE [conn[c] EXCEPT !.bOk = TRUE])
       IN  BeginPersist(Central, c, r,
               [NoJob EXCEPT !.confirmed = JustConfirmed(conn[c], r)])
    /\ UNCHANGED <<up, userVars, msg, msgFile>>

\* After conn_lock is released a just confirmed pair gets its shared journey;
\* module MatchSystem says what EnsureSharedJourneyForPair does.
LeaveEnsure ==
    /\ up /\ pc[Central] = "ensuring"
    /\ Goto(Central, "idle", NoJob)
    /\ UNCHANGED <<up, userVars, conn, connFile, msg, msgFile, lock>>

\* (fault: the decision is not saved)
DeclineConn_Unsaved(c, u) ==
    /\ Idle(Central)
    /\ Live(c) /\ Participant(c, u)
    /\ lock = NoId
    /\ conn' = [conn EXCEPT ![c].state = "declined"]
    /\ UNCHANGED <<up, userVars, connFile, msg, msgFile, lock, pc, job>>

DeclineConn(c, u) ==
    /\ Idle(Central)
    /\ Live(c) /\ Participant(c, u)
    /\ BeginPersist(Central, c, [conn[c] EXCEPT !.state = "declined"], NoJob)
    /\ UNCHANGED <<up, userVars, msg, msgFile>>

----------------------------------------------------------------------------
\* Chat

\* (fault: every open connection can be used)
MayChat_Proposed(c, u) == Live(c) /\ conn[c].state # "declined" /\ Participant(c, u)
MayChat(c, u) == Live(c) /\ conn[c].state = "confirmed" /\ Participant(c, u)

\* The message enters the table under conn_lock; its line is appended to the
\* .msgs file after the lock is released.
SendUserConnMessage(c, u) ==
    /\ Idle(Central) /\ lock = NoId
    /\ MayChat(c, u)
    /\ Cardinality(LiveMsgs) < MAX_MESSAGES
    /\ \E m \in MsgId :
          /\ msg[m] = NoMsg /\ msgFile[m] = NoMsg
          /\ msg' = [msg EXCEPT ![m] = [conn |-> c, sender |-> u]]
          /\ Goto(Central, "appending", [NoJob EXCEPT !.msg = m])
    /\ UNCHANGED <<up, userVars, conn, connFile, msgFile, lock>>

append_message_to_file ==
    /\ up /\ pc[Central] = "appending"
    /\ msgFile' = [msgFile EXCEPT ![job[Central].msg] = msg[job[Central].msg]]
    /\ Goto(Central, "idle", NoJob)
    /\ UNCHANGED <<up, userVars, conn, connFile, msg, lock>>

----------------------------------------------------------------------------
\* The user table

NewUser(u) ==
    /\ Idle(Central)
    /\ u \notin everUsers
    /\ Len(userTable) < MAX_USERS
    /\ userTable' = Append(userTable, u)
    /\ everUsers' = everUsers \cup {u}
    /\ UNCHANGED <<up, discoverable, described, conn, connFile, msg, msgFile, lock, pc,
                   job, deletes>>

\* Compaction: the users behind slot i move down by one.
Compact(t, i) == [k \in 1 .. Len(t) - 1 |-> IF k < i THEN t[k] ELSE t[k + 1]]

\* handle_delete_user waits for the client server thread, but not for client
\* handlers the central server forwarded; connections are left as they are.
handle_delete_user(i) ==
    /\ Idle(Central)
    /\ deletes < MaxDeletes /\ deletes' = deletes + 1
    /\ discoverable' = discoverable \ {userTable[i]}
    /\ described' = described \ {userTable[i]}
    /\ userTable' = Compact(userTable, i)
    /\ UNCHANGED <<up, everUsers, conn, connFile, msg, msgFile, lock, pc, job>>

----------------------------------------------------------------------------
\* Crash and restart

\* The process ends, by a crash or by a failed change_assert: what is in
\* memory is gone, an unfinished file stays empty.
Stop ==
    /\ up' = FALSE
    /\ conn' = [c \in ConnId |-> NoConn]
    /\ msg' = [m \in MsgId |-> NoMsg]
    /\ lock' = NoId
    /\ pc' = [t \in Thread |-> "idle"]
    /\ job' = [t \in Thread |-> NoJob]
    /\ UNCHANGED <<userVars, connFile, msgFile>>

Crash == MayCrash /\ up /\ Stop

\* A file that does not parse is skipped.
\* (fault: the state is not read but computed from the approvals)
load_connection_from_file_Recomputed(c) ==
    IF OnDisk(c) THEN recompute_state([connFile[c] EXCEPT !.state = "proposed"]) ELSE NoConn
load_connection_from_file(c) == IF OnDisk(c) THEN connFile[c] ELSE NoConn

\* InitConnectionSystem: every file that parses becomes a connection, and the
\* messages of the loaded connections are read until the table is full. The
\* assertion on room (disk-storage.c:74) comes before each file is read, so a
\* torn file behind a full table's worth of others also makes the process exit
\* again: that is the case in which this step is not taken.
InitConnectionSystem ==
    /\ ~up /\ up' = TRUE
    /\ Cardinality({c \in ConnId : OnDisk(c)}) <= MAX_CONNECTIONS
    /\ conn' = [c \in ConnId |-> load_connection_from_file(c)]
    /\ LET wanted == {m \in MsgId : msgFile[m] # NoMsg /\ OnDisk(msgFile[m].conn)}
       IN  \E loaded \in SUBSET wanted :
              /\ \/ loaded = wanted /\ Cardinality(loaded) <= MAX_MESSAGES
                 \/ Cardinality(loaded) = MAX_MESSAGES
              /\ msg' = [m \in MsgId |-> IF m \in loaded THEN msgFile[m] ELSE NoMsg]
    /\ UNCHANGED <<userVars, connFile, msgFile, lock, pc, job>>

----------------------------------------------------------------------------

Init ==
    /\ up = TRUE
    /\ userTable = InitUsers /\ discoverable = {} /\ described = {}
    /\ everUsers = {InitUsers[i] : i \in 1 .. Len(InitUsers)}
    /\ conn = [c \in ConnId |-> NoConn] /\ connFile = [c \in ConnId |-> NoConn]
    /\ msg = [m \in MsgId |-> NoMsg] /\ msgFile = [m \in MsgId |-> NoMsg]
    /\ lock = NoId
    /\ pc = [t \in Thread |-> "idle"] /\ job = [t \in Thread |-> NoJob]
    /\ deletes = 0

Match(t) ==
    \/ \E i \in 1 .. Len(userTable) :
          \/ \E d \in BOOLEAN : ClientSetsDiscoverable(t, i, d) \/ UpdateUserDescription(t, i, d)
          \/ ClientFindsMatch(t, i)
          \/ SetUserPrivate(t, i)
    \/ AiRanks(t)
    \/ InsertProposal(t)
    \/ EndPersist(t)

Decide ==
    \/ \E i \in 1 .. Len(userTable), d \in BOOLEAN : handle_conn_discoverable(i, d)
    \/ \E u \in UserId : \E c \in ListConnsForUser(u) :
          ApproveConn(c, u) \/ DeclineConn(c, u) \/ SendUserConnMessage(c, u)
    \/ append_message_to_file

Manage ==
    \/ \E u \in UserId : NewUser(u)
    \/ \E i \in 1 .. Len(userTable) : handle_delete_user(i)
    \/ Crash
    \/ InitConnectionSystem

Next == (\E t \in Thread : Match(t)) \/ Decide \/ LeaveEnsure \/ Manage

Spec == Init /\ [][Next]_vars

----------------------------------------------------------------------------
\* Properties

\* Two matchers may rank the same two people at the same time, and a restart
\* may lose a torn file: still there is at most one connection between them.
OneConnectionPerPair ==
    \A c, d \in LiveConns : SamePair(conn[c], conn[d]) => c = d

\* Chat is only allowed once both have approved, and what was said stays on a
\* connection both have approved, also across restarts.
ChatOnlyBetweenApproved ==
    \A m \in LiveMsgs : Live(msg[m].conn) /\ conn[msg[m].conn].aOk /\ conn[msg[m].conn].bOk

\* The initiator decides first: the other end never approves (and so learns of)
\* a proposal its initiator has not approved.
InitiatorApprovesFirst == \A c \in LiveConns : conn[c].bOk => conn[c].aOk

\* Whenever nobody is writing a connection's file, a restart would bring back
\* exactly what is in memory.
DiskMatchesMemory == up => \A c \in LiveConns : BeingWritten(c) \/ connFile[c] = conn[c]

\* A decision to decline is never taken back, by a later approval or by a
\* restart. A crash in the middle of the write loses the connection for good.
Declined(c) == "declined" \in {conn[c].state, connFile[c].state}
Lost(c)     == conn[c].state = "none" /\ connFile[c].state = "torn"
DeclinedIsFinal ==
    [][\A c \in ConnId : Declined(c) \/ Lost(c) => Declined(c)' \/ Lost(c)']_vars

\* The table is never overrun, though room is looked up once before the AI
\* call and the picks of several matchers arrive together.
TableNotOverrun == Cardinality(LiveConns) <= MAX_CONNECTIONS

\* No two entries name a user twice or the empty id: every connection is
\* between two people.
ConnectionsNamePeople ==
    \A c \in LiveConns : conn[c].a \in UserId /\ conn[c].b \in UserId /\ conn[c].a # conn[c].b

\* A person is proposed only while discoverable: "propose matches for a single
\* user against all discoverable others" (connections.c:190).
ProposedOnlyWhileDiscoverable ==
    [][\A c \in ConnId : (up /\ up' /\ conn[c].state = "none" /\ conn'[c].state = "proposed")
          => conn'[c].b \in Matchable]_vars

----------------------------------------------------------------------------
\* The inductive invariant that OneConnectionPerPair, ChatOnlyBetweenApproved,
\* InitiatorApprovesFirst, DiskMatchesMemory and DeclinedIsFinal follow from.

\* What recompute_state and the listing keep true of a record.
Sound(r) == (r.state = "confirmed" => r.aOk /\ r.bOk) /\ (r.bOk => r.aOk)
RecordsSound == \A c \in ConnId : Sound(conn[c]) /\ Sound(connFile[c])

\* A process that is down has nothing in memory.
DownIsEmpty ==
    ~up => /\ \A c \in ConnId : conn[c].state = "none"
           /\ \A m \in MsgId : msg[m] = NoMsg
           /\ \A t \in Thread : pc[t] = "idle"
           /\ lock = NoId

\* conn_lock has one holder, which writes the file of a connection in the table.
WriterHoldsLock ==
    \A t \in Thread : pc[t] = "persisting" =>
        lock = t /\ job[t].conn \in ConnId /\ Live(job[t].conn)

\* A file is being written, or agrees with the table, or is a torn leftover.
FilesFollowTable ==
    up => \A c \in ConnId :
             /\ BeingWritten(c) => connFile[c] = Torn
             /\ Live(c) /\ ~BeingWritten(c) => connFile[c] = conn[c]
             /\ ~Live(c) => conn[c].state = "none" /\ ~OnDisk(c)

\* The files name a pair once, too: a restart reads them back.
OneFilePerPair ==
    \A c, d \in ConnId : OnDisk(c) /\ OnDisk(d) /\ SamePair(connFile[c], connFile[d]) => c = d

\* A line of a .msgs file belongs to a connection that was written, and whose
\* two ends have approved if it is still there.
ChatFilesSound ==
    \A m \in MsgId : msgFile[m] # NoMsg =>
        LET c == msgFile[m].conn
        IN  /\ c \in ConnId /\ connFile[c].state # "none"
            /\ Live(c) => conn[c].aOk /\ conn[c].bOk
            /\ OnDisk(c) => connFile[c].aOk /\ connFile[c].bOk

ChatSound ==
    \A m \in MsgId : msg[m] # NoMsg =>
        LET c == msg[m].conn
        IN  c \in ConnId /\ Live(c) /\ conn[c].aOk /\ conn[c].bOk

IInv ==
    /\ TypeOK /\ RecordsSound /\ DownIsEmpty /\ WriterHoldsLock /\ FilesFollowTable
    /\ OneConnectionPerPair /\ OneFilePerPair /\ ChatSound /\ ChatFilesSound

\* What TableSound and ProposedOnlyWhileDiscoverable follow from. The files
\* that parse fit into the table, too: no restart runs out of room for them.
FileConns == {c \in ConnId : OnDisk(c)}
Room ==
    /\ IsFiniteSet(LiveConns) /\ Cardinality(LiveConns) <= MAX_CONNECTIONS
    /\ IsFiniteSet(FileConns) /\ Cardinality(FileConns) <= MAX_CONNECTIONS

\* The User * of a handler that matches still point at the people they were
\* taken for, who can still be matched.
PicksStand ==
    \A t \in Thread : pc[t] \in {"ranking", "inserting", "persisting"} =>
        \A j \in job[t].todo :
            /\ {job[t].a, j} \subseteq 1 .. Len(userTable)
            /\ userTable[j] # userTable[job[t].a]
            /\ userTable[j] \in Matchable

NamesPeople(r) == r.a \in UserId /\ r.b \in UserId /\ r.a # r.b
NamesStand ==
    \A c \in ConnId : (Live(c) => NamesPeople(conn[c])) /\ (OnDisk(c) => NamesPeople(connFile[c]))

\* The table holds no more connections than it has places, though several
\* matchers look for room before their AI calls, and each is between two people
\* (connections.c:272).
TableSound == TableNotOverrun /\ ConnectionsNamePeople

=============================================================================
