-------------------------- MODULE MatchSystemProofs --------------------------
(* What the match system promises, proved for every value of its constants. *)
(* First the connections on their own: the types, then one inductive        *)
(* invariant from which their safety properties follow. Then the composed   *)
(* system: the connections keep that invariant inside it, what becomes of a *)
(* proposal was agreed on, and a deletion leaves nothing dangling.          *)
EXTENDS MatchSystem, FiniteSetTheorems, TLAPS

USE DEF Thread, MaybeUser, MaybeConn, MaybeMsg

\* Compaction of a table of users gives a shorter table of users.
LEMMA CompactType ==
    ASSUME NEW S, NEW s \in Seq(S), NEW i \in 1 .. Len(s)
    PROVE  Compact(s, i) \in Seq(S) /\ Len(Compact(s, i)) = Len(s) - 1
<1>. DEFINE r == [k \in 1 .. Len(s) - 1 |-> IF k < i THEN s[k] ELSE s[k + 1]]
<1>1. Len(s) \in Nat /\ Len(s) - 1 \in Nat
  OBVIOUS
<1>2. r \in [1 .. Len(s) - 1 -> S]
  BY <1>1
<1>3. r \in Seq(S)
  BY <1>1, <1>2
<1>4. Len(r) = Len(s) - 1
  BY <1>1, <1>2
<1>. QED
  BY <1>3, <1>4 DEF Compact

\* Moving a thread keeps the types of pc and job.
LEMMA GotoType ==
    ASSUME TypeOK, NEW t \in Thread, NEW where \in Pcs, NEW what \in JobRec,
           Goto(t, where, what)
    PROVE  pc' \in [Thread -> Pcs] /\ job' \in [Thread -> JobRec]
  BY DEF Goto, TypeOK

\* The values that stand for nothing have the types of the real ones.
LEMMA JobTypes == NoJob \in JobRec /\ NoConn \in ConnRec /\ Torn \in ConnRec /\ NoMsg \in MsgRec
<1>1. NoJob \in JobRec
  BY LimitsAssumption DEF NoJob, JobRec
<1>2. NoConn \in ConnRec /\ Torn \in ConnRec
  BY DEF NoConn, Torn, ConnRec, States
<1>3. NoMsg \in MsgRec
  BY DEF NoMsg, MsgRec
<1>. QED
  BY <1>1, <1>2, <1>3

\* A field of a job or of a connection may be given any value of its type.
LEMMA JobFields ==
    ASSUME NEW r \in JobRec, NEW S \in SUBSET (1 .. MAX_USERS), NEW c \in MaybeConn
    PROVE  [r EXCEPT !.todo = S] \in JobRec /\ [r EXCEPT !.conn = c] \in JobRec
  BY DEF JobRec

\* So does a connection whose state or approvals change.
LEMMA ConnFields ==
    ASSUME NEW r \in ConnRec, NEW s \in States, NEW x \in BOOLEAN
    PROVE  /\ [r EXCEPT !.state = s] \in ConnRec
           /\ [r EXCEPT !.aOk = x] \in ConnRec
           /\ [r EXCEPT !.bOk = x] \in ConnRec
  BY DEF ConnRec

\* The matcher only ever holds indices of the table.
LEMMA FindMatchType ==
    ASSUME TypeOK, NEW t \in Thread, NEW i \in 1 .. Len(userTable), NEW people,
           FindMatchForUser(t, i, people)
    PROVE  pc' \in [Thread -> Pcs] /\ job' \in [Thread -> JobRec]
<1>1. i \in 0 .. MAX_USERS /\ Candidates(i, people) \in SUBSET (1 .. MAX_USERS)
  BY LimitsAssumption DEF TypeOK, Candidates
<1>2. [NoJob EXCEPT !.a = i, !.todo = Candidates(i, people)] \in JobRec
  BY <1>1, JobTypes DEF NoJob, JobRec
<1>3. CASE userTable[i] \in people /\ Candidates(i, people) # {}
  BY <1>2, <1>3, GotoType DEF FindMatchForUser, Pcs
<1>4. CASE ~(userTable[i] \in people /\ Candidates(i, people) # {})
  BY <1>4 DEF FindMatchForUser, TypeOK
<1>. QED BY <1>3, <1>4

\* Starting a file write keeps the types.
LEMMA BeginPersistType ==
    ASSUME TypeOK, NEW t \in Thread, NEW c \in ConnId, NEW r \in ConnRec, NEW what \in JobRec,
           BeginPersist(t, c, r, what)
    PROVE  /\ conn' \in [ConnId -> ConnRec] /\ connFile' \in [ConnId -> ConnRec]
           /\ lock' \in Thread \cup {NoId}
           /\ pc' \in [Thread -> Pcs] /\ job' \in [Thread -> JobRec]
<1>1. [what EXCEPT !.conn = c] \in JobRec
  BY DEF JobRec
<1>2. pc' \in [Thread -> Pcs] /\ job' \in [Thread -> JobRec]
  BY <1>1, GotoType DEF BeginPersist, Pcs
<1>. QED
  BY <1>2, JobTypes DEF BeginPersist, TypeOK

\* A listing shows connections of the table.
LEMMA ListedConns == \A u : ListConnsForUser(u) \subseteq ConnId
  BY DEF ListConnsForUser, LiveConns

\* The record an approval leaves is a connection record.
LEMMA RecomputeType ==
    ASSUME NEW r \in ConnRec PROVE recompute_state(r) \in ConnRec
  BY DEF recompute_state, ConnRec, States

\* Every step of the match system keeps the types.
LEMMA TypeStep == TypeOK /\ [Next]_vars => TypeOK'
<1>. SUFFICES ASSUME TypeOK, [Next]_vars PROVE TypeOK'
  OBVIOUS
<1>. USE LimitsAssumption, NamesAssumption
<1>1. ASSUME NEW i \in 1 .. Len(userTable), NEW d \in BOOLEAN, handle_conn_discoverable(i, d)
      PROVE  TypeOK'
  <2>1. pc' \in [Thread -> Pcs] /\ job' \in [Thread -> JobRec]
    BY <1>1, FindMatchType DEF handle_conn_discoverable
  <2>. QED
    BY <1>1, <2>1 DEF handle_conn_discoverable, SetUserDiscoverable, TypeOK
<1>2. ASSUME NEW t \in Thread, NEW i \in 1 .. Len(userTable), NEW d \in BOOLEAN,
             ClientSetsDiscoverable(t, i, d)
      PROVE  TypeOK'
  BY <1>2 DEF ClientSetsDiscoverable, SetUserDiscoverable, TypeOK
<1>3. ASSUME NEW t \in Thread, NEW i \in 1 .. Len(userTable), ClientFindsMatch(t, i)
      PROVE  TypeOK'
  <2>1. pc' \in [Thread -> Pcs] /\ job' \in [Thread -> JobRec]
    BY <1>3, FindMatchType DEF ClientFindsMatch
  <2>. QED
    BY <1>3, <2>1 DEF ClientFindsMatch, userVars, TypeOK
<1>4. ASSUME NEW t \in Thread, NEW i \in 1 .. Len(userTable), NEW d \in BOOLEAN,
             SetUserPrivate(t, i) \/ UpdateUserDescription(t, i, d)
      PROVE  TypeOK'
  BY <1>4 DEF SetUserPrivate, UpdateUserDescription, TypeOK
<1>5. ASSUME NEW t \in Thread, AiRanks(t) PROVE TypeOK'
  <2>1. PICK picks \in SUBSET job[t].todo :
                Goto(t, "inserting", [job[t] EXCEPT !.todo = picks])
    BY <1>5 DEF AiRanks
  <2>0. job[t] \in JobRec /\ job[t].todo \in SUBSET (1 .. MAX_USERS)
    BY DEF TypeOK, JobRec
  <2>2. [job[t] EXCEPT !.todo = picks] \in JobRec
    BY <2>0, JobFields
  <2>3. pc' \in [Thread -> Pcs] /\ job' \in [Thread -> JobRec]
    BY <2>1, <2>2, GotoType DEF Pcs
  <2>. QED
    BY <1>5, <2>3 DEF AiRanks, userVars, TypeOK
<1>6. ASSUME NEW t \in Thread, InsertProposal(t) PROVE TypeOK'
  <2>0. PICK j \in job[t].todo :
          LET a    == IdAt(job[t].a)
              b    == IdAt(j)
              rest == [job[t] EXCEPT !.todo = @ \ {j}]
          IN  \/ /\ Insertable(a, b)
                 /\ \E c \in ConnId :
                      /\ conn[c].state = "none" /\ connFile[c].state = "none"
                      /\ BeginPersist(t, c, Proposal(a, b), rest)
              \/ /\ ~Insertable(a, b)
                 /\ IF rest.todo = {} THEN Goto(t, "idle", NoJob)
                                      ELSE Goto(t, "inserting", rest)
                 /\ UNCHANGED <<conn, connFile, lock>>
    BY <1>6 DEF InsertProposal
  <2>. DEFINE rest == [job[t] EXCEPT !.todo = @ \ {j}]
              r == Proposal(IdAt(job[t].a), IdAt(j))
  <2>7. job[t] \in JobRec /\ job[t].todo \in SUBSET (1 .. MAX_USERS)
    BY DEF TypeOK, JobRec
  <2>1. rest \in JobRec
    BY <2>7, JobFields
  <2>2. \A k : IdAt(k) \in UserId \cup {NoUser}
    BY DEF IdAt, TypeOK
  <2>3. r \in ConnRec
    BY <2>2 DEF ConnRec, Proposal, States
  <2>. HIDE DEF rest, r
  <2>4. CASE \E c \in ConnId : BeginPersist(t, c, r, rest)
    <3>1. PICK c \in ConnId : BeginPersist(t, c, r, rest)
      BY <2>4
    <3>. QED
      BY <1>6, <2>1, <2>3, <3>1, BeginPersistType DEF InsertProposal, userVars, TypeOK
  <2>5. CASE /\ Goto(t, "idle", NoJob) \/ Goto(t, "inserting", rest)
             /\ UNCHANGED <<conn, connFile, lock>>
    <3>1. pc' \in [Thread -> Pcs] /\ job' \in [Thread -> JobRec]
      BY <2>1, <2>5, JobTypes, GotoType DEF Pcs
    <3>. QED
      BY <1>6, <2>5, <3>1 DEF InsertProposal, userVars, TypeOK
  <2>. QED
    BY <2>0, <2>4, <2>5 DEF rest, r
<1>7. ASSUME NEW t \in Thread, EndPersist(t) PROVE TypeOK'
  <2>1. job[t] \in JobRec
    BY DEF TypeOK
  <2>2. pc' \in [Thread -> Pcs] /\ job' \in [Thread -> JobRec]
    BY <1>7, <2>1, JobTypes, GotoType DEF EndPersist, Pcs
  <2>3. connFile' \in [ConnId -> ConnRec]
    <3>1. CASE job[t].conn \in ConnId
      BY <1>7, <3>1 DEF EndPersist, TypeOK
    <3>2. CASE job[t].conn \notin ConnId
      BY <1>7, <3>2 DEF EndPersist, TypeOK
    <3>. QED BY <3>1, <3>2
  <2>. QED
    BY <1>7, <2>2, <2>3 DEF EndPersist, userVars, TypeOK
<1>8. ASSUME NEW c \in ConnId, NEW u \in UserId, ApproveConn(c, u) PROVE TypeOK'
  <2>. DEFINE s == IF u = conn[c].a THEN [conn[c] EXCEPT !.aOk = TRUE]
                                    ELSE [conn[c] EXCEPT !.bOk = TRUE]
              w == [NoJob EXCEPT !.confirmed = JustConfirmed(conn[c], recompute_state(s))]
  <2>1. s \in ConnRec
    <3>1. conn[c] \in ConnRec
      BY DEF TypeOK
    <3>2. TRUE \in BOOLEAN /\ "proposed" \in States
      BY DEF States
    <3>3. [conn[c] EXCEPT !.aOk = TRUE] \in ConnRec /\ [conn[c] EXCEPT !.bOk = TRUE] \in ConnRec
      BY <3>1, <3>2, ConnFields
    <3>. QED BY <3>3
  <2>2. w \in JobRec
    BY JobTypes DEF JobRec, NoJob, JustConfirmed
  <2>3. BeginPersist(Central, c, recompute_state(s), w)
    BY <1>8 DEF ApproveConn
  <2>. HIDE DEF s, w
  <2>. QED
    BY <1>8, <2>1, <2>2, <2>3, RecomputeType, BeginPersistType DEF ApproveConn, userVars, TypeOK
<1>9. ASSUME NEW c \in ConnId, NEW u \in UserId, DeclineConn(c, u) PROVE TypeOK'
  <2>1. [conn[c] EXCEPT !.state = "declined"] \in ConnRec
    <3>1. conn[c] \in ConnRec
      BY DEF TypeOK
    <3>. QED BY <3>1, ConnFields DEF States
  <2>2. BeginPersist(Central, c, [conn[c] EXCEPT !.state = "declined"], NoJob)
    BY <1>9 DEF DeclineConn
  <2>. QED
    BY <1>9, <2>1, <2>2, JobTypes, BeginPersistType DEF DeclineConn, userVars, TypeOK
<1>10. ASSUME NEW c \in ConnId, NEW u \in UserId, SendUserConnMessage(c, u) PROVE TypeOK'
  <2>1. PICK m \in MsgId : /\ msg' = [msg EXCEPT ![m] = [conn |-> c, sender |-> u]]
                           /\ Goto(Central, "appending", [NoJob EXCEPT !.msg = m])
    BY <1>10 DEF SendUserConnMessage
  <2>2. [NoJob EXCEPT !.msg = m] \in JobRec
    BY JobTypes DEF JobRec, NoJob
  <2>3. pc' \in [Thread -> Pcs] /\ job' \in [Thread -> JobRec]
    BY <2>1, <2>2, GotoType DEF Pcs
  <2>. QED
    BY <1>10, <2>1, <2>3 DEF SendUserConnMessage, userVars, TypeOK, MsgRec
<1>11. CASE append_message_to_file
  <2>1. pc' \in [Thread -> Pcs] /\ job' \in [Thread -> JobRec]
    BY <1>11, JobTypes, GotoType DEF append_message_to_file, Pcs
  <2>2. msgFile' \in [MsgId -> MsgRec]
    <3>1. CASE job[Central].msg \in MsgId
      BY <1>11, <3>1 DEF append_message_to_file, TypeOK
    <3>2. CASE job[Central].msg \notin MsgId
      BY <1>11, <3>2 DEF append_message_to_file, TypeOK
    <3>. QED BY <3>1, <3>2
  <2>. QED
    BY <1>11, <2>1, <2>2 DEF append_message_to_file, userVars, TypeOK
<1>12. CASE LeaveEnsure
  <2>1. pc' \in [Thread -> Pcs] /\ job' \in [Thread -> JobRec]
    BY <1>12, JobTypes, GotoType DEF LeaveEnsure, Pcs
  <2>. QED
    BY <1>12, <2>1 DEF LeaveEnsure, userVars, TypeOK
<1>13. ASSUME NEW u \in UserId, NewUser(u) PROVE TypeOK'
  BY <1>13 DEF NewUser, TypeOK
<1>14. ASSUME NEW i \in 1 .. Len(userTable), handle_delete_user(i) PROVE TypeOK'
  <2>1. userTable' \in Seq(UserId) /\ Len(userTable') <= MAX_USERS
    BY <1>14, CompactType DEF handle_delete_user, TypeOK
  <2>. QED
    BY <1>14, <2>1 DEF handle_delete_user, TypeOK
<1>15. CASE Crash
  BY <1>15, JobTypes DEF Crash, Stop, userVars, TypeOK, Pcs
<1>16. CASE InitConnectionSystem
  <2>1. PICK loaded \in SUBSET MsgId :
                msg' = [m \in MsgId |-> IF m \in loaded THEN msgFile[m] ELSE NoMsg]
    BY <1>16 DEF InitConnectionSystem, load_connection_from_file
  <2>2. msg' \in [MsgId -> MsgRec]
    BY <2>1, JobTypes DEF TypeOK
  <2>3. conn' \in [ConnId -> ConnRec]
    BY <1>16, JobTypes DEF InitConnectionSystem, load_connection_from_file, TypeOK
  <2>. QED
    BY <1>16, <2>2, <2>3 DEF InitConnectionSystem, load_connection_from_file, userVars, TypeOK
<1>17. CASE UNCHANGED vars
  BY <1>17 DEF vars, TypeOK
<1>. QED
  BY ListedConns, <1>1, <1>2, <1>3, <1>4, <1>5, <1>6, <1>7, <1>8, <1>9, <1>10, <1>11, <1>12, <1>13,
     <1>14, <1>15, <1>16, <1>17
     DEF Next, Match, Decide, Manage

\* Type correctness of the match system.
THEOREM TypeCorrect == Spec => []TypeOK
<1>1. Init => TypeOK
  <2>. SUFFICES ASSUME Init PROVE TypeOK
    OBVIOUS
  <2>1. userTable \in Seq(UserId) /\ Len(userTable) <= MAX_USERS /\ everUsers \subseteq UserId
    BY UsersAssumption DEF Init
  <2>. QED
    BY <2>1, JobTypes, LimitsAssumption DEF Init, TypeOK, Pcs
<1>. QED
  BY <1>1, TypeStep, PTL DEF Spec

----------------------------------------------------------------------------
\* The parts of the inductive invariant besides the types.
Rest == /\ RecordsSound /\ DownIsEmpty /\ WriterHoldsLock /\ FilesFollowTable
        /\ OneConnectionPerPair /\ OneFilePerPair /\ ChatSound /\ ChatFilesSound

\* A step that leaves the tables, the files and the writers alone.
LEMMA Frame ==
    ASSUME Rest, up, UNCHANGED <<up, conn, connFile, msg, msgFile, lock>>,
           \A t \in Thread : /\ pc'[t] = "persisting" <=> pc[t] = "persisting"
                             /\ pc[t] = "persisting" => job'[t].conn = job[t].conn
    PROVE  Rest'
<1>1. \A c : (Live(c)' <=> Live(c)) /\ (OnDisk(c)' <=> OnDisk(c))
  BY DEF Live, OnDisk
<1>2. \A c : BeingWritten(c)' <=> BeingWritten(c)
  BY DEF BeingWritten
<1>3. LiveConns' = LiveConns
  BY <1>1 DEF LiveConns
<1>4. RecordsSound' /\ DownIsEmpty' /\ OneFilePerPair' /\ ChatSound' /\ ChatFilesSound'
  BY <1>1 DEF Rest, RecordsSound, DownIsEmpty, OneFilePerPair, ChatSound, ChatFilesSound
<1>5. WriterHoldsLock'
  BY <1>1 DEF Rest, WriterHoldsLock
<1>6. FilesFollowTable'
  BY <1>1, <1>2 DEF Rest, FilesFollowTable
<1>7. OneConnectionPerPair'
  BY <1>3 DEF Rest, OneConnectionPerPair
<1>. QED
  BY <1>4, <1>5, <1>6, <1>7 DEF Rest

\* A thread that was not writing and does not start to, moves.
LEMMA MoveFrame ==
    ASSUME TypeOK, Rest, up, UNCHANGED <<up, conn, connFile, msg, msgFile, lock>>,
           NEW t \in Thread, NEW where, NEW what, Goto(t, where, what),
           pc[t] # "persisting", where # "persisting"
    PROVE  Rest'
<1>1. \A s \in Thread : /\ pc'[s] = "persisting" <=> pc[s] = "persisting"
                        /\ pc[s] = "persisting" => job'[s].conn = job[s].conn
  BY DEF Goto, TypeOK
<1>. QED
  BY <1>1, Frame

\* Nobody writes while conn_lock is free.
LEMMA FreeLock ==
    ASSUME Rest, lock = NoId PROVE \A t \in Thread : pc[t] # "persisting"
  BY NamesAssumption DEF Rest, WriterHoldsLock

\* A file write starts: with a new connection between two people who have none,
\* or with a new state of a connection whose approvals stay.
LEMMA BeginFrame ==
    ASSUME TypeOK, Rest, up, NEW t \in Thread, NEW c \in ConnId, NEW r \in ConnRec, NEW what \in JobRec,
           BeginPersist(t, c, r, what), UNCHANGED <<up, msg, msgFile>>,
           r.state \in {"proposed", "confirmed", "declined"}, Sound(r),
           \A d \in LiveConns : SamePair(r, conn[d]) => d = c,
           \/ conn[c].state = "none" /\ connFile[c].state = "none"
           \/ Live(c) /\ (conn[c].aOk => r.aOk) /\ (conn[c].bOk => r.bOk)
    PROVE  Rest'
<1>. USE DEF BeginPersist
<1>1. conn' = [conn EXCEPT ![c] = r] /\ connFile' = [connFile EXCEPT ![c] = Torn]
  OBVIOUS
<1>2. /\ conn'[c] = r /\ \A d \in ConnId \ {c} : conn'[d] = conn[d]
      /\ connFile'[c] = Torn /\ \A d \in ConnId \ {c} : connFile'[d] = connFile[d]
  BY <1>1 DEF TypeOK
<1>3. /\ Live(c)' /\ ~OnDisk(c)'
      /\ \A d \in ConnId \ {c} : (Live(d)' <=> Live(d)) /\ (OnDisk(d)' <=> OnDisk(d))
  BY <1>2 DEF Live, OnDisk, Torn
<1>4. lock' = t /\ pc'[t] = "persisting" /\ \A s \in Thread \ {t} : pc'[s] # "persisting"
  BY FreeLock DEF Goto, TypeOK
<1>5. job'[t].conn = c
  BY DEF Goto, TypeOK, JobRec
<1>6. \A d : BeingWritten(d)' <=> d = c
  BY <1>4, <1>5 DEF BeingWritten
<1>7. \A d : ~BeingWritten(d)
  BY FreeLock DEF BeingWritten
<1>8. RecordsSound'
  <2>1. Sound(Torn)
    BY DEF Sound, Torn
  <2>. QED
    BY <1>2, <2>1 DEF Rest, RecordsSound, Sound
<1>9. DownIsEmpty'
  BY DEF DownIsEmpty
<1>10. WriterHoldsLock'
  BY <1>3, <1>4, <1>5 DEF WriterHoldsLock
<1>11. FilesFollowTable'
  BY <1>2, <1>3, <1>6, <1>7 DEF Rest, FilesFollowTable
<1>12. OneConnectionPerPair'
  <2>. SUFFICES ASSUME NEW d \in ConnId, NEW e \in ConnId, Live(d)', Live(e)',
                       SamePair(conn'[d], conn'[e])
                PROVE  d = e
    BY DEF OneConnectionPerPair, LiveConns
  <2>1. CASE d # c /\ e # c
    BY <1>2, <1>3, <2>1 DEF Rest, OneConnectionPerPair, LiveConns
  <2>2. CASE d = c /\ e # c
    BY <1>2, <1>3, <2>2 DEF LiveConns
  <2>3. CASE d # c /\ e = c
    BY <1>2, <1>3, <2>3 DEF LiveConns, SamePair
  <2>. QED
    BY <2>1, <2>2, <2>3
<1>13. OneFilePerPair'
  BY <1>2, <1>3 DEF Rest, OneFilePerPair
<1>14. ChatSound'
  BY <1>2, <1>3 DEF Rest, ChatSound, Live
<1>15. ChatFilesSound'
  <2>1. connFile'[c].state = "torn"
    BY <1>2 DEF Torn
  <2>. QED
    BY <1>2, <1>3, <2>1 DEF Rest, ChatFilesSound
<1>. QED
  BY <1>8, <1>9, <1>10, <1>11, <1>12, <1>13, <1>14, <1>15 DEF Rest

\* A file write ends: the file agrees with the table again.
LEMMA EndFrame ==
    ASSUME TypeOK, Rest, NEW t \in Thread, EndPersist(t)
    PROVE  Rest'
<1>0. PICK c \in ConnId : c = job[t].conn
  BY DEF EndPersist, Rest, WriterHoldsLock
<1>1. /\ up /\ up' /\ lock = t /\ pc[t] = "persisting" /\ Live(c)
      /\ connFile' = [connFile EXCEPT ![c] = conn[c]]
      /\ conn' = conn /\ msg' = msg /\ msgFile' = msgFile
  BY <1>0 DEF EndPersist, Rest, WriterHoldsLock
<1>2. \A s \in Thread : pc'[s] # "persisting"
  BY <1>1 DEF EndPersist, Goto, Rest, WriterHoldsLock, TypeOK
<1>3. \A d : (BeingWritten(d) <=> d = c) /\ ~BeingWritten(d)'
  BY <1>0, <1>1, <1>2 DEF BeingWritten, Rest, WriterHoldsLock
<1>4. connFile'[c] = conn[c] /\ \A d \in ConnId \ {c} : connFile'[d] = connFile[d]
  BY <1>1 DEF TypeOK
<1>5. /\ \A d : Live(d)' <=> Live(d)
      /\ OnDisk(c)' /\ \A d \in ConnId \ {c} : OnDisk(d)' <=> OnDisk(d)
  <2>1. \A d : Live(d)' <=> Live(d)
    BY <1>1 DEF Live
  <2>2. OnDisk(c)'
    BY <1>1, <1>4 DEF Live, OnDisk
  <2>3. \A d \in ConnId \ {c} : OnDisk(d)' <=> OnDisk(d)
    BY <1>4 DEF OnDisk
  <2>. QED
    BY <2>1, <2>2, <2>3
<1>6. RecordsSound'
  BY <1>1, <1>4 DEF Rest, RecordsSound
<1>7. DownIsEmpty'
  BY <1>1 DEF DownIsEmpty
<1>8. WriterHoldsLock'
  BY <1>2 DEF WriterHoldsLock
<1>9. FilesFollowTable'
  BY <1>1, <1>3, <1>4, <1>5 DEF Rest, FilesFollowTable
<1>10. OneConnectionPerPair'
  BY <1>1, <1>5 DEF Rest, OneConnectionPerPair, LiveConns
<1>11. OneFilePerPair'
  <2>1. \A d \in ConnId : OnDisk(d)' => Live(d) /\ connFile'[d] = conn[d]
    BY <1>1, <1>3, <1>4, <1>5 DEF Rest, FilesFollowTable
  <2>. QED
    BY <2>1 DEF Rest, OneConnectionPerPair, OneFilePerPair, LiveConns
<1>12. ChatSound'
  BY <1>1, <1>5 DEF Rest, ChatSound
<1>13. ChatFilesSound'
  <2>. SUFFICES ASSUME NEW m \in MsgId, msgFile[m] # NoMsg, NEW d, d = msgFile[m].conn
                PROVE  /\ d \in ConnId /\ connFile'[d].state # "none"
                       /\ Live(d)' => conn'[d].aOk /\ conn'[d].bOk
                       /\ OnDisk(d)' => connFile'[d].aOk /\ connFile'[d].bOk
    BY <1>1 DEF ChatFilesSound
  <2>1. /\ d \in ConnId /\ connFile[d].state # "none"
        /\ Live(d) => conn[d].aOk /\ conn[d].bOk
        /\ OnDisk(d) => connFile[d].aOk /\ connFile[d].bOk
    BY DEF Rest, ChatFilesSound
  <2>2. CASE d = c
    BY <1>1, <1>4, <1>5, <2>1, <2>2 DEF Live
  <2>3. CASE d # c
    BY <1>1, <1>4, <1>5, <2>1, <2>3
  <2>. QED
    BY <2>2, <2>3
<1>. QED
  BY <1>6, <1>7, <1>8, <1>9, <1>10, <1>11, <1>12, <1>13 DEF Rest

\* The message table or the .msgs files gain a message of a connection both
\* ends have approved.
LEMMA SendFrame ==
    ASSUME TypeOK, Rest, NEW c \in ConnId, NEW u \in UserId, SendUserConnMessage(c, u)
    PROVE  Rest'
<1>1. PICK m \in MsgId : /\ msg' = [msg EXCEPT ![m] = [conn |-> c, sender |-> u]]
                         /\ Goto(Central, "appending", [NoJob EXCEPT !.msg = m])
  BY DEF SendUserConnMessage
<1>2. /\ up /\ Live(c) /\ conn[c].aOk /\ conn[c].bOk
      /\ UNCHANGED <<up, conn, connFile, msgFile, lock>>
  BY DEF SendUserConnMessage, MayChat, Idle, Rest, RecordsSound, Sound
<1>3. pc[Central] # "persisting" /\ Goto(Central, "appending", [NoJob EXCEPT !.msg = m])
  BY <1>1 DEF SendUserConnMessage, Idle
<1>4. \A t \in Thread : /\ pc'[t] = "persisting" <=> pc[t] = "persisting"
                        /\ pc[t] = "persisting" => job'[t].conn = job[t].conn
  BY <1>3 DEF Goto, TypeOK
<1>5. /\ \A d : (Live(d)' <=> Live(d)) /\ (OnDisk(d)' <=> OnDisk(d))
      /\ \A d : BeingWritten(d)' <=> BeingWritten(d)
  BY <1>2, <1>4 DEF Live, OnDisk, BeingWritten
<1>6. RecordsSound' /\ DownIsEmpty' /\ OneFilePerPair' /\ ChatFilesSound'
  BY <1>2, <1>5 DEF Rest, RecordsSound, DownIsEmpty, OneFilePerPair, ChatFilesSound
<1>7. WriterHoldsLock'
  BY <1>2, <1>4, <1>5 DEF Rest, WriterHoldsLock
<1>8. FilesFollowTable'
  BY <1>2, <1>5 DEF Rest, FilesFollowTable
<1>9. OneConnectionPerPair'
  BY <1>2, <1>5 DEF Rest, OneConnectionPerPair, LiveConns
<1>10. ChatSound'
  <2>1. \A n \in MsgId : msg'[n] = IF n = m THEN [conn |-> c, sender |-> u] ELSE msg[n]
    BY <1>1 DEF TypeOK
  <2>. QED
    BY <1>2, <1>5, <2>1 DEF Rest, ChatSound
<1>. QED
  BY <1>6, <1>7, <1>8, <1>9, <1>10 DEF Rest

\* The line of a message reaching its file leaves table, files and lock as the
\* invariant wants them.
LEMMA AppendFrame ==
    ASSUME TypeOK, Rest, append_message_to_file
    PROVE  Rest'
<1>1. /\ up /\ UNCHANGED <<up, conn, connFile, msg, lock>>
      /\ msgFile' = [msgFile EXCEPT ![job[Central].msg] = msg[job[Central].msg]]
      /\ pc[Central] # "persisting" /\ Goto(Central, "idle", NoJob)
  BY DEF append_message_to_file
<1>2. \A t \in Thread : /\ pc'[t] = "persisting" <=> pc[t] = "persisting"
                        /\ pc[t] = "persisting" => job'[t].conn = job[t].conn
  BY <1>1 DEF Goto, TypeOK
<1>3. /\ \A d : (Live(d)' <=> Live(d)) /\ (OnDisk(d)' <=> OnDisk(d))
      /\ \A d : BeingWritten(d)' <=> BeingWritten(d)
  BY <1>1, <1>2 DEF Live, OnDisk, BeingWritten
<1>4. RecordsSound' /\ DownIsEmpty' /\ OneFilePerPair' /\ ChatSound'
  BY <1>1, <1>3 DEF Rest, RecordsSound, DownIsEmpty, OneFilePerPair, ChatSound
<1>5. WriterHoldsLock'
  BY <1>1, <1>2, <1>3 DEF Rest, WriterHoldsLock
<1>6. FilesFollowTable'
  BY <1>1, <1>3 DEF Rest, FilesFollowTable
<1>7. OneConnectionPerPair'
  BY <1>1, <1>3 DEF Rest, OneConnectionPerPair, LiveConns
<1>8. ChatFilesSound'
  <2>1. \A n \in MsgId : msgFile'[n] = msgFile[n] \/ msgFile'[n] = msg[n]
    BY <1>1 DEF TypeOK
  <2>2. \A d \in ConnId : Live(d) => /\ connFile[d].state # "none"
                                     /\ OnDisk(d) => connFile[d] = conn[d]
    BY <1>1 DEF Rest, FilesFollowTable, Torn, Live, OnDisk
  <2>. SUFFICES ASSUME NEW n \in MsgId, msgFile'[n] # NoMsg, NEW d, d = msgFile'[n].conn
                PROVE  /\ d \in ConnId /\ connFile[d].state # "none"
                       /\ Live(d) => conn[d].aOk /\ conn[d].bOk
                       /\ OnDisk(d) => connFile[d].aOk /\ connFile[d].bOk
    BY <1>1, <1>3 DEF ChatFilesSound
  <2>3. CASE msgFile'[n] = msgFile[n]
    BY <2>3 DEF Rest, ChatFilesSound
  <2>4. CASE msgFile'[n] = msg[n]
    BY <2>2, <2>4 DEF Rest, ChatSound
  <2>. QED
    BY <2>1, <2>3, <2>4
<1>. QED
  BY <1>4, <1>5, <1>6, <1>7, <1>8 DEF Rest

\* A crash empties the memory and touches no file.
LEMMA CrashFrame ==
    ASSUME Rest, Stop PROVE Rest'
<1>1. /\ ~up' /\ connFile' = connFile /\ msgFile' = msgFile /\ lock' = NoId
      /\ \A c \in ConnId : conn'[c] = NoConn
      /\ \A m \in MsgId : msg'[m] = NoMsg
      /\ \A t \in Thread : pc'[t] = "idle"
  BY DEF Stop
<1>2. (\A c \in ConnId : ~Live(c)' /\ conn'[c].state = "none") /\ \A c : OnDisk(c)' <=> OnDisk(c)
  BY <1>1 DEF Live, OnDisk, NoConn
<1>3. RecordsSound'
  <2>1. Sound(NoConn)
    BY DEF Sound, NoConn
  <2>. QED
    BY <1>1, <2>1 DEF Rest, RecordsSound
<1>4. DownIsEmpty' /\ WriterHoldsLock' /\ FilesFollowTable' /\ ChatSound'
  BY <1>1, <1>2 DEF DownIsEmpty, WriterHoldsLock, FilesFollowTable, ChatSound
<1>5. OneConnectionPerPair' /\ OneFilePerPair' /\ ChatFilesSound'
  BY <1>1, <1>2 DEF Rest, OneConnectionPerPair, LiveConns, OneFilePerPair, ChatFilesSound
<1>. QED
  BY <1>3, <1>4, <1>5 DEF Rest

\* A restart reads the files back.
LEMMA RestartFrame ==
    ASSUME Rest, InitConnectionSystem PROVE Rest'
<1>1. /\ ~up /\ up' /\ connFile' = connFile /\ msgFile' = msgFile /\ lock' = lock /\ pc' = pc
      /\ job' = job
      /\ \A c \in ConnId : conn'[c] = IF OnDisk(c) THEN connFile[c] ELSE NoConn
  BY DEF InitConnectionSystem, load_connection_from_file
<1>2. /\ \A c : OnDisk(c)' <=> OnDisk(c)
      /\ \A c \in ConnId : /\ Live(c)' <=> OnDisk(c)
                           /\ ~OnDisk(c) => conn'[c].state = "none"
  BY <1>1 DEF Live, OnDisk, NoConn
<1>3. \A t \in Thread : pc'[t] # "persisting"
  BY <1>1 DEF Rest, DownIsEmpty
<1>4. RecordsSound'
  <2>1. Sound(NoConn)
    BY DEF Sound, NoConn
  <2>. QED
    BY <1>1, <2>1 DEF Rest, RecordsSound
<1>5. DownIsEmpty' /\ WriterHoldsLock' /\ OneFilePerPair'
  BY <1>1, <1>2, <1>3 DEF DownIsEmpty, WriterHoldsLock, Rest, OneFilePerPair
<1>6. FilesFollowTable'
  BY <1>1, <1>2, <1>3 DEF FilesFollowTable, BeingWritten
<1>7. OneConnectionPerPair'
  BY <1>1, <1>2 DEF Rest, OneFilePerPair, OneConnectionPerPair, LiveConns
<1>8. ChatFilesSound'
  BY <1>1, <1>2 DEF Rest, ChatFilesSound
<1>9. ChatSound'
  <2>1. PICK loaded \in SUBSET {m \in MsgId : msgFile[m] # NoMsg /\ OnDisk(msgFile[m].conn)} :
                msg' = [m \in MsgId |-> IF m \in loaded THEN msgFile[m] ELSE NoMsg]
    BY DEF InitConnectionSystem, load_connection_from_file
  <2>2. \A m \in MsgId : msg'[m] # NoMsg =>
            msg'[m] = msgFile[m] /\ msgFile[m] # NoMsg /\ OnDisk(msgFile[m].conn)
    BY <2>1
  <2>. QED
    BY <1>1, <1>2, <2>2 DEF Rest, ChatFilesSound, ChatSound
<1>. QED
  BY <1>4, <1>5, <1>6, <1>7, <1>8, <1>9 DEF Rest

\* One pick of the matcher: either the pair is new and its file write starts,
\* or the pick is skipped.
LEMMA InsertFrame ==
    ASSUME TypeOK, Rest, NEW t \in Thread, InsertProposal(t)
    PROVE  Rest'
<1>0. up /\ pc[t] # "persisting" /\ UNCHANGED <<up, msg, msgFile>>
  BY DEF InsertProposal
<1>1. PICK j \in job[t].todo :
        LET a    == IdAt(job[t].a)
            b    == IdAt(j)
            rest == [job[t] EXCEPT !.todo = @ \ {j}]
        IN  \/ /\ Insertable(a, b)
               /\ \E c \in ConnId :
                    /\ conn[c].state = "none" /\ connFile[c].state = "none"
                    /\ BeginPersist(t, c, Proposal(a, b), rest)
            \/ /\ ~Insertable(a, b)
               /\ IF rest.todo = {} THEN Goto(t, "idle", NoJob)
                                    ELSE Goto(t, "inserting", rest)
               /\ UNCHANGED <<conn, connFile, lock>>
  BY DEF InsertProposal
<1>. DEFINE a == IdAt(job[t].a)
            b == IdAt(j)
            rest == [job[t] EXCEPT !.todo = @ \ {j}]
            r == Proposal(a, b)
<1>2. rest \in JobRec
  <2>1. job[t] \in JobRec /\ job[t].todo \in SUBSET (1 .. MAX_USERS)
    BY DEF TypeOK, JobRec
  <2>. QED
    BY <2>1, JobFields
<1>3. a \in MaybeUser /\ b \in MaybeUser
  BY DEF IdAt, TypeOK
<1>4. r = [a |-> a, b |-> b, aOk |-> FALSE, bOk |-> FALSE, state |-> "proposed"]
  BY DEF Proposal
<1>5. r \in ConnRec /\ Sound(r) /\ r.state = "proposed" /\ r.a = a /\ r.b = b
  BY <1>3, <1>4 DEF ConnRec, States, Sound
<1>6. find_pair(a, b) = {} => \A d \in LiveConns : ~SamePair(r, conn[d])
  BY <1>5 DEF find_pair, SamePair
<1>7. \/ /\ find_pair(a, b) = {}
         /\ \E c \in ConnId : /\ conn[c].state = "none" /\ connFile[c].state = "none"
                              /\ BeginPersist(t, c, r, rest)
      \/ /\ Goto(t, "idle", NoJob) \/ Goto(t, "inserting", rest)
         /\ UNCHANGED <<conn, connFile, lock>>
  BY <1>1 DEF Insertable
<1>. HIDE DEF a, b, rest, r
<1>8. CASE find_pair(a, b) = {} /\ \E c \in ConnId :
               conn[c].state = "none" /\ connFile[c].state = "none" /\ BeginPersist(t, c, r, rest)
  <2>1. PICK c \in ConnId :
               conn[c].state = "none" /\ connFile[c].state = "none" /\ BeginPersist(t, c, r, rest)
    BY <1>8
  <2>2. \A d \in LiveConns : SamePair(r, conn[d]) => d = c
    BY <1>6, <1>8
  <2>. QED
    BY <1>0, <1>2, <1>5, <2>1, <2>2, BeginFrame
<1>9. CASE (Goto(t, "idle", NoJob) \/ Goto(t, "inserting", rest)) /\ UNCHANGED <<conn, connFile, lock>>
  BY <1>0, <1>9, MoveFrame
<1>. QED
  BY <1>7, <1>8, <1>9

\* A decision rewrites a connection: its pair stays, an approval is never taken
\* back, and the other end approves only what the initiator has approved.
LEMMA DecideFrame ==
    ASSUME TypeOK, Rest, NEW u \in UserId, NEW c \in ListConnsForUser(u),
           ApproveConn(c, u) \/ DeclineConn(c, u)
    PROVE  Rest'
<1>1. /\ up /\ UNCHANGED <<up, msg, msgFile>> /\ c \in ConnId /\ Live(c) /\ Central \in Thread
      /\ conn[c].a = u \/ (conn[c].b = u /\ conn[c].aOk)
  BY DEF ApproveConn, DeclineConn, ListConnsForUser, Idle, LiveConns
<1>2. conn[c] \in ConnRec /\ Sound(conn[c])
  BY <1>1 DEF TypeOK, Rest, RecordsSound
<1>3. ASSUME NEW r \in ConnRec, r.a = conn[c].a, r.b = conn[c].b
      PROVE  \A d \in LiveConns : SamePair(r, conn[d]) => d = c
  BY <1>1, <1>3 DEF Rest, OneConnectionPerPair, LiveConns, SamePair
<1>4. CASE ApproveConn(c, u)
  <2>. DEFINE s == IF u = conn[c].a THEN [conn[c] EXCEPT !.aOk = TRUE]
                                    ELSE [conn[c] EXCEPT !.bOk = TRUE]
              r == recompute_state(s)
              w == [NoJob EXCEPT !.confirmed = JustConfirmed(conn[c], r)]
  <2>1. BeginPersist(Central, c, r, w)
    BY <1>4 DEF ApproveConn
  <2>2. w \in JobRec
    BY JobTypes DEF JobRec, NoJob, JustConfirmed
  <2>3. s \in ConnRec
    <3>1. TRUE \in BOOLEAN /\ "proposed" \in States
      BY DEF States
    <3>2. [conn[c] EXCEPT !.aOk = TRUE] \in ConnRec /\ [conn[c] EXCEPT !.bOk = TRUE] \in ConnRec
      BY <1>2, <3>1, ConnFields
    <3>. QED BY <3>2
  <2>4. /\ s.a = conn[c].a /\ s.b = conn[c].b /\ s.state = conn[c].state
        /\ (conn[c].aOk => s.aOk) /\ (conn[c].bOk => s.bOk) /\ (s.bOk => s.aOk)
    BY <1>1, <1>2 DEF Sound, ConnRec
  <2>. HIDE DEF s, w
  <2>5. conn[c].state \in {"proposed", "confirmed"}
    BY <1>1, <1>4 DEF ApproveConn, Live
  <2>6. /\ r \in ConnRec /\ r.a = s.a /\ r.b = s.b /\ r.aOk = s.aOk /\ r.bOk = s.bOk
        /\ r.state \in {"proposed", "confirmed"} /\ (r.state = "confirmed" => r.aOk /\ r.bOk)
    BY <2>3, <2>4, <2>5 DEF recompute_state, ConnRec, States
  <2>. HIDE DEF r
  <2>7. Sound(r) /\ r.state \in {"proposed", "confirmed", "declined"}
    BY <2>4, <2>6 DEF Sound
  <2>8. \A d \in LiveConns : SamePair(r, conn[d]) => d = c
    BY <1>3, <2>4, <2>6
  <2>9. (conn[c].aOk => r.aOk) /\ (conn[c].bOk => r.bOk)
    BY <2>4, <2>6
  <2>. QED
    BY <1>1, <2>1, <2>2, <2>6, <2>7, <2>8, <2>9, BeginFrame
<1>5. CASE DeclineConn(c, u)
  <2>. DEFINE r == [conn[c] EXCEPT !.state = "declined"]
  <2>1. BeginPersist(Central, c, r, NoJob)
    BY <1>5 DEF DeclineConn
  <2>2. "declined" \in States /\ TRUE \in BOOLEAN
    BY DEF States
  <2>3. r \in ConnRec
    BY <1>2, <2>2, ConnFields
  <2>4. /\ r.a = conn[c].a /\ r.b = conn[c].b /\ r.aOk = conn[c].aOk /\ r.bOk = conn[c].bOk
        /\ r.state = "declined"
    BY <1>2 DEF ConnRec
  <2>. HIDE DEF r
  <2>5. Sound(r)
    BY <1>2, <2>4 DEF Sound
  <2>6. \A d \in LiveConns : SamePair(r, conn[d]) => d = c
    BY <1>3, <2>3, <2>4
  <2>. QED
    BY <1>1, <2>1, <2>3, <2>4, <2>5, <2>6, JobTypes, BeginFrame
<1>. QED
  BY <1>4, <1>5

\* The matcher starts, or does not, without writing.
LEMMA FindFrame ==
    ASSUME TypeOK, Rest, up, NEW t \in Thread, pc[t] = "idle", NEW i, NEW people,
           FindMatchForUser(t, i, people), UNCHANGED <<up, conn, connFile, msg, msgFile, lock>>
    PROVE  Rest'
<1>1. CASE userTable[i] \in people /\ Candidates(i, people) # {}
  <2>1. Goto(t, "ranking", [NoJob EXCEPT !.a = i, !.todo = Candidates(i, people)])
    BY <1>1 DEF FindMatchForUser
  <2>. QED
    BY <2>1, MoveFrame
<1>2. CASE ~(userTable[i] \in people /\ Candidates(i, people) # {})
  <2>1. pc' = pc /\ job' = job
    BY <1>2 DEF FindMatchForUser
  <2>. QED
    BY <2>1, Frame
<1>. QED BY <1>1, <1>2

\* Every step of the match system keeps the rest of the invariant.
LEMMA RestStep == TypeOK /\ Rest /\ [Next]_vars => Rest'
<1>. SUFFICES ASSUME TypeOK, Rest, [Next]_vars PROVE Rest'
  OBVIOUS
<1>1. ASSUME NEW i \in 1 .. Len(userTable), NEW d \in BOOLEAN, handle_conn_discoverable(i, d)
      PROVE  Rest'
  BY <1>1, FindFrame DEF handle_conn_discoverable, Idle
<1>2. ASSUME NEW t \in Thread, NEW i \in 1 .. Len(userTable), NEW d \in BOOLEAN,
             \/ ClientSetsDiscoverable(t, i, d) \/ UpdateUserDescription(t, i, d)
             \/ SetUserPrivate(t, i)
      PROVE  Rest'
  BY <1>2, Frame DEF ClientSetsDiscoverable, UpdateUserDescription, SetUserPrivate, Idle
<1>3. ASSUME NEW t \in Thread, NEW i \in 1 .. Len(userTable), ClientFindsMatch(t, i)
      PROVE  Rest'
  BY <1>3, FindFrame DEF ClientFindsMatch, Idle
<1>4. ASSUME NEW t \in Thread, AiRanks(t) PROVE Rest'
  <2>1. PICK picks \in SUBSET job[t].todo :
                Goto(t, "inserting", [job[t] EXCEPT !.todo = picks])
    BY <1>4 DEF AiRanks
  <2>. QED
    BY <1>4, <2>1, MoveFrame DEF AiRanks
<1>5. CASE LeaveEnsure
  BY <1>5, MoveFrame DEF LeaveEnsure
<1>6. ASSUME NEW u \in UserId, NewUser(u) PROVE Rest'
  BY <1>6, Frame DEF NewUser, Idle
<1>7. ASSUME NEW i \in 1 .. Len(userTable), handle_delete_user(i) PROVE Rest'
  BY <1>7, Frame DEF handle_delete_user, Idle
<1>8. CASE Crash
  BY <1>8, CrashFrame DEF Crash
<1>9. CASE UNCHANGED vars
  <2>1. CASE up
    BY <1>9, <2>1, Frame DEF vars
  <2>2. CASE ~up
    BY <1>9 DEF vars, Rest, RecordsSound, Sound, DownIsEmpty, WriterHoldsLock, FilesFollowTable,
       OneConnectionPerPair, LiveConns, OneFilePerPair, ChatSound, ChatFilesSound, Live, OnDisk,
       BeingWritten
  <2>. QED BY <2>1, <2>2
<1>. QED
  BY ListedConns, <1>1, <1>2, <1>3, <1>4, <1>5, <1>6, <1>7, <1>8, <1>9, InsertFrame, EndFrame, DecideFrame,
     SendFrame, AppendFrame, RestartFrame
     DEF Next, Match, Decide, Manage

\* The process ends with the types kept.
LEMMA StopType == ASSUME TypeOK, Stop PROVE TypeOK'
  BY JobTypes, NamesAssumption DEF Stop, userVars, TypeOK, Pcs

\* Every step of the match system, and an exit, keep the inductive invariant.
LEMMA StepInv == ASSUME IInv, [Next]_vars \/ Stop PROVE IInv'
<1>1. TypeOK /\ Rest
  BY DEF IInv, Rest
<1>2. TypeOK' /\ Rest'
  BY <1>1, TypeStep, RestStep, StopType, CrashFrame
<1>. QED
  BY <1>2 DEF IInv, Rest

\* The inductive invariant holds at first.
LEMMA InitInv == Init => IInv
<1>. SUFFICES ASSUME Init PROVE IInv
  OBVIOUS
<1>1. userTable \in Seq(UserId) /\ Len(userTable) <= MAX_USERS /\ everUsers \subseteq UserId
  BY UsersAssumption DEF Init
<1>2. TypeOK
  BY <1>1, JobTypes, LimitsAssumption DEF Init, TypeOK, Pcs
<1>3. /\ \A c \in ConnId : conn[c] = NoConn /\ connFile[c] = NoConn
      /\ \A m \in MsgId : msg[m] = NoMsg /\ msgFile[m] = NoMsg
      /\ up /\ \A t \in Thread : pc[t] = "idle"
  BY DEF Init
<1>4. Sound(NoConn)
  BY DEF Sound, NoConn
<1>5. \A c \in ConnId : ~Live(c) /\ ~OnDisk(c) /\ ~BeingWritten(c)
  BY <1>3 DEF Live, OnDisk, NoConn, BeingWritten
<1>. QED
  BY <1>2, <1>3, <1>4, <1>5 DEF IInv, RecordsSound, DownIsEmpty, WriterHoldsLock, FilesFollowTable,
     OneConnectionPerPair, LiveConns, OneFilePerPair, ChatSound, ChatFilesSound, NoConn

\* The inductive invariant of the match system.
THEOREM Safety == Spec => []IInv
<1>1. IInv /\ [Next]_vars => IInv'
  BY StepInv
<1>. QED
  BY <1>1, InitInv, PTL DEF Spec

\* At most one connection between two people, whatever matchers race.
THEOREM PairsStayUnique == Spec => []OneConnectionPerPair
<1>1. IInv => OneConnectionPerPair
  BY DEF IInv
<1>. QED
  BY <1>1, Safety, PTL

\* Nobody is heard on a connection both ends have not approved.
THEOREM ChatNeedsBoth == Spec => []ChatOnlyBetweenApproved
<1>1. IInv => ChatOnlyBetweenApproved
  BY DEF IInv, ChatSound, ChatOnlyBetweenApproved, LiveMsgs
<1>. QED
  BY <1>1, Safety, PTL

\* The other end of a proposal approves only after its initiator.
THEOREM InitiatorFirst == Spec => []InitiatorApprovesFirst
<1>1. IInv => InitiatorApprovesFirst
  BY DEF IInv, RecordsSound, Sound, InitiatorApprovesFirst, LiveConns
<1>. QED
  BY <1>1, Safety, PTL

\* A restart brings back what was in memory.
THEOREM RestartIsFaithful == Spec => []DiskMatchesMemory
<1>1. IInv => DiskMatchesMemory
  BY DEF IInv, FilesFollowTable, DiskMatchesMemory, LiveConns
<1>. QED
  BY <1>1, Safety, PTL

\* A write of connection d keeps c declined or lost, unless it is a write of c
\* with another state.
LEMMA BeginKeepsDeclined ==
    ASSUME IInv, NEW c \in ConnId, Declined(c) \/ Lost(c), NEW t, NEW d \in ConnId, NEW r, NEW what,
           BeginPersist(t, d, r, what), d = c => r.state = "declined"
    PROVE  Declined(c)' \/ Lost(c)'
<1>1. /\ conn'[c] = IF d = c THEN r ELSE conn[c]
      /\ connFile'[c] = IF d = c THEN Torn ELSE connFile[c]
  BY DEF BeginPersist, IInv, TypeOK
<1>. QED
  BY <1>1 DEF Declined, Lost

\* What was declined, or lost in a crash, never becomes a proposal again.
THEOREM DeclinedForGood == Spec => DeclinedIsFinal
<1>1. IInv /\ [Next]_vars => \A c \in ConnId : Declined(c) \/ Lost(c) => Declined(c)' \/ Lost(c)'
  <2>. SUFFICES ASSUME IInv, [Next]_vars, NEW c \in ConnId, Declined(c) \/ Lost(c)
                PROVE  Declined(c)' \/ Lost(c)'
    OBVIOUS
  <2>1. CASE UNCHANGED <<conn, connFile>>
    BY <2>1 DEF Declined, Lost
  <2>2. ASSUME NEW t \in Thread, InsertProposal(t) PROVE Declined(c)' \/ Lost(c)'
    <3>1. \/ UNCHANGED <<conn, connFile>>
          \/ \E j \in job[t].todo, d \in ConnId :
                /\ conn[d].state = "none" /\ connFile[d].state = "none"
                /\ BeginPersist(t, d, Proposal(IdAt(job[t].a), IdAt(j)),
                                [job[t] EXCEPT !.todo = @ \ {j}])
      BY <2>2, Zenon DEF InsertProposal
    <3>. QED
      BY <2>1, <3>1, BeginKeepsDeclined DEF Declined, Lost
  <2>3. ASSUME NEW d \in ConnId, NEW u \in UserId, ApproveConn(d, u) PROVE Declined(c)' \/ Lost(c)'
    <3>1. up /\ Live(d) /\ conn[d].state # "declined"
      BY <2>3 DEF ApproveConn, Idle
    <3>2. d # c
      BY <3>1 DEF IInv, FilesFollowTable, Declined, Lost, Live, Torn
    <3>. QED
      BY <2>3, <3>2, BeginKeepsDeclined DEF ApproveConn
  <2>4. ASSUME NEW d \in ConnId, NEW u \in UserId, DeclineConn(d, u) PROVE Declined(c)' \/ Lost(c)'
    <3>1. conn[d] \in ConnRec
      BY DEF IInv, TypeOK
    <3>2. [conn[d] EXCEPT !.state = "declined"].state = "declined"
      BY <3>1 DEF ConnRec
    <3>. QED
      BY <2>4, <3>2, BeginKeepsDeclined DEF DeclineConn
  <2>5. ASSUME NEW t \in Thread, EndPersist(t) PROVE Declined(c)' \/ Lost(c)'
    <3>1. PICK d \in ConnId : d = job[t].conn /\ Live(d)
      BY <2>5 DEF EndPersist, IInv, WriterHoldsLock
    <3>2. /\ up /\ connFile[d] = Torn /\ conn' = conn
          /\ connFile' = [connFile EXCEPT ![d] = conn[d]]
      BY <2>5, <3>1 DEF EndPersist, IInv, FilesFollowTable, BeingWritten
    <3>3. CASE d = c
      BY <3>1, <3>2, <3>3 DEF Declined, Lost, Live, Torn
    <3>4. CASE d # c
      BY <3>2, <3>4 DEF IInv, TypeOK, Declined, Lost
    <3>. QED
      BY <3>3, <3>4
  <2>6. CASE Crash
    <3>1. up /\ connFile' = connFile /\ conn'[c].state = "none"
      BY <2>6 DEF Crash, Stop, NoConn
    <3>2. CASE connFile[c].state \in {"declined", "torn"}
      BY <3>1, <3>2 DEF Declined, Lost
    <3>3. CASE connFile[c].state \notin {"declined", "torn"}
      <4>1. conn[c].state = "declined"
        BY <3>3 DEF Declined, Lost
      <4>. QED
        BY <3>1, <3>3, <4>1 DEF IInv, FilesFollowTable, Live, Torn
    <3>. QED BY <3>2, <3>3
  <2>7. CASE InitConnectionSystem
    <3>1. /\ ~up /\ connFile' = connFile /\ conn[c].state = "none"
          /\ conn'[c] = IF OnDisk(c) THEN connFile[c] ELSE NoConn
      BY <2>7 DEF InitConnectionSystem, load_connection_from_file, IInv, DownIsEmpty
    <3>. QED
      BY <3>1 DEF Declined, Lost, OnDisk, NoConn
  <2>. QED
    BY ListedConns, <2>1, <2>2, <2>3, <2>4, <2>5, <2>6, <2>7
       DEF Next, Match, Decide, Manage, vars, userVars, handle_conn_discoverable,
           ClientSetsDiscoverable, ClientFindsMatch, UpdateUserDescription, SetUserPrivate,
           AiRanks, LeaveEnsure, SendUserConnMessage, append_message_to_file, NewUser,
           handle_delete_user
<1>. QED
  BY <1>1, Safety, PTL DEF Spec, DeclinedIsFinal


----------------------------------------------------------------------------
\* The table has room, and what the matchers picked still stands.

\* What a step may do to the table: leave it, write a record that is there,
\* insert one when there is room, lose all of it, or read the files back.
LEMMA TableMoves ==
    ASSUME IInv, [Next]_vars \/ Stop
    PROVE  \/ conn' = conn /\ up' = up
           \/ /\ up /\ up'
              /\ \E c \in ConnId, r \in ConnRec :
                    /\ conn' = [conn EXCEPT ![c] = r]
                    /\ r.state \in {"proposed", "confirmed", "declined"}
                    /\ \/ Live(c) /\ r.a = conn[c].a /\ r.b = conn[c].b
                       \/ /\ Cardinality(LiveConns) < MAX_CONNECTIONS
                          /\ conn[c].state = "none"
                          /\ \E t \in Thread : /\ pc[t] = "inserting"
                                               /\ \E j \in job[t].todo : r = Proposal(IdAt(job[t].a), IdAt(j))
           \/ Stop
           \/ InitConnectionSystem
<1>1. ASSUME NEW t \in Thread, InsertProposal(t)
      PROVE  \/ conn' = conn /\ up' = up
             \/ /\ up /\ up'
                /\ \E c \in ConnId, r \in ConnRec :
                      /\ conn' = [conn EXCEPT ![c] = r]
                      /\ r.state \in {"proposed", "confirmed", "declined"}
                      /\ Cardinality(LiveConns) < MAX_CONNECTIONS
                      /\ conn[c].state = "none"
                      /\ pc[t] = "inserting"
                      /\ \E j \in job[t].todo : r = Proposal(IdAt(job[t].a), IdAt(j))
  <2>1. up /\ up' /\ pc[t] = "inserting"
    BY <1>1 DEF InsertProposal
  <2>2. PICK j \in job[t].todo :
          \/ /\ Insertable(IdAt(job[t].a), IdAt(j))
             /\ \E c \in ConnId :
                  /\ conn[c].state = "none"
                  /\ BeginPersist(t, c, Proposal(IdAt(job[t].a), IdAt(j)), [job[t] EXCEPT !.todo = @ \ {j}])
          \/ UNCHANGED <<conn, connFile, lock>>
    BY <1>1, Zenon DEF InsertProposal
  <2>3. \A k : IdAt(k) \in MaybeUser
    BY DEF IdAt, IInv, TypeOK, MaybeUser
  <2>4. Proposal(IdAt(job[t].a), IdAt(j)) \in ConnRec
    BY <2>3 DEF ConnRec, Proposal, States
  <2>5. Proposal(IdAt(job[t].a), IdAt(j)).state = "proposed"
    BY DEF Proposal
  <2>6. CASE UNCHANGED <<conn, connFile, lock>>
    BY <2>1, <2>6
  <2>7. CASE /\ Insertable(IdAt(job[t].a), IdAt(j))
             /\ \E c \in ConnId :
                  /\ conn[c].state = "none"
                  /\ BeginPersist(t, c, Proposal(IdAt(job[t].a), IdAt(j)), [job[t] EXCEPT !.todo = @ \ {j}])
    <3>1. Cardinality(LiveConns) < MAX_CONNECTIONS
      BY <2>7 DEF Insertable
    <3>2. PICK c \in ConnId :
                  /\ conn[c].state = "none"
                  /\ conn' = [conn EXCEPT ![c] = Proposal(IdAt(job[t].a), IdAt(j))]
      BY <2>7 DEF BeginPersist
    <3>. QED
      BY <2>1, <2>4, <2>5, <3>1, <3>2
  <2>. QED
    BY <2>2, <2>6, <2>7
<1>2. ASSUME NEW c \in ConnId, NEW u \in UserId, ApproveConn(c, u) \/ DeclineConn(c, u)
      PROVE  /\ up /\ up'
             /\ \E r \in ConnRec :
                   /\ conn' = [conn EXCEPT ![c] = r]
                   /\ r.state \in {"proposed", "confirmed", "declined"}
                   /\ Live(c) /\ r.a = conn[c].a /\ r.b = conn[c].b
  <2>1. conn[c] \in ConnRec /\ up /\ up' /\ Live(c)
    BY <1>2 DEF IInv, TypeOK, ApproveConn, DeclineConn, Idle
  <2>2. CASE ApproveConn(c, u)
    <3>. DEFINE s == IF u = conn[c].a THEN [conn[c] EXCEPT !.aOk = TRUE]
                                      ELSE [conn[c] EXCEPT !.bOk = TRUE]
    <3>1. s \in ConnRec /\ s.a = conn[c].a /\ s.b = conn[c].b /\ s.state = conn[c].state
      BY <2>1 DEF ConnRec
    <3>2. conn' = [conn EXCEPT ![c] = recompute_state(s)] /\ conn[c].state # "declined"
      BY <2>2 DEF ApproveConn, BeginPersist
    <3>. HIDE DEF s
    <3>3. /\ recompute_state(s) \in ConnRec
          /\ recompute_state(s).a = s.a /\ recompute_state(s).b = s.b
          /\ recompute_state(s).state \in {"proposed", "confirmed", "declined"}
      BY <3>1, <3>2, RecomputeType DEF recompute_state, ConnRec
    <3>. QED
      BY <2>1, <3>1, <3>2, <3>3
  <2>3. CASE DeclineConn(c, u)
    <3>1. conn' = [conn EXCEPT ![c] = [conn[c] EXCEPT !.state = "declined"]]
      BY <2>3, <2>1 DEF DeclineConn, BeginPersist
    <3>2. /\ [conn[c] EXCEPT !.state = "declined"] \in ConnRec
          /\ [conn[c] EXCEPT !.state = "declined"].state = "declined"
          /\ [conn[c] EXCEPT !.state = "declined"].a = conn[c].a
          /\ [conn[c] EXCEPT !.state = "declined"].b = conn[c].b
      BY <2>1 DEF ConnRec, States
    <3>. QED
      BY <2>1, <3>1, <3>2
  <2>. QED
    BY <1>2, <2>2, <2>3
<1>3. ASSUME [Next]_vars, ~(\E t \in Thread : InsertProposal(t)), ~Crash, ~InitConnectionSystem,
             ~(\E c \in ConnId, u \in UserId : ApproveConn(c, u) \/ DeclineConn(c, u))
      PROVE  conn' = conn /\ up' = up
  BY <1>3, ListedConns DEF Next, Match, Decide, Manage, vars, userVars, handle_conn_discoverable,
     ClientSetsDiscoverable, ClientFindsMatch, UpdateUserDescription, SetUserPrivate, EndPersist,
     AiRanks, LeaveEnsure, SendUserConnMessage, append_message_to_file, NewUser, handle_delete_user
<1>. QED
  BY <1>1, <1>2, <1>3 DEF Crash

\* The table is never overrun, by matchers whose AI calls overlap or by a
\* restart: no step but an insertion under conn_lock adds a connection, and the
\* files that parse are always those of connections that fitted.
LEMMA RoomStep == ASSUME IInv, IInv', Room, [Next]_vars \/ Stop PROVE Room'
<1>. USE LimitsAssumption
<1>1. /\ up' => FileConns' \subseteq LiveConns'
      /\ IsFiniteSet(LiveConns)' /\ Cardinality(LiveConns)' <= MAX_CONNECTIONS => Cardinality(LiveConns)' \in Nat
  <2>1. up' => FileConns' \subseteq LiveConns'
    BY DEF IInv, FilesFollowTable, FileConns, LiveConns
  <2>2. IsFiniteSet(LiveConns)' => Cardinality(LiveConns)' \in Nat
    BY FS_CardinalityType
  <2>. QED BY <2>1, <2>2
<1>2. ASSUME up', IsFiniteSet(LiveConns)', Cardinality(LiveConns)' <= MAX_CONNECTIONS
      PROVE  Room'
  <2>1. IsFiniteSet(FileConns') /\ Cardinality(FileConns') <= Cardinality(LiveConns')
    BY <1>1, <1>2, FS_Subset
  <2>2. Cardinality(FileConns') \in Nat /\ Cardinality(LiveConns') \in Nat
    BY <1>2, <2>1, FS_CardinalityType
  <2>. QED
    BY <1>2, <2>1, <2>2 DEF Room
<1>3. CASE conn' = conn /\ up' = up
  <2>1. LiveConns' = LiveConns
    BY <1>3 DEF LiveConns, Live
  <2>2. CASE up'
    BY <1>2, <2>1, <2>2 DEF Room
  <2>3. CASE ~up'
    <3>1. connFile' = connFile
      BY <1>3, <2>3, ListedConns DEF Next, Match, Decide, Manage, vars, userVars,
         handle_conn_discoverable, ClientSetsDiscoverable, ClientFindsMatch, UpdateUserDescription,
         SetUserPrivate, EndPersist, AiRanks, LeaveEnsure, SendUserConnMessage, NewUser, Idle,
         append_message_to_file, handle_delete_user, InsertProposal, ApproveConn, DeclineConn,
         Crash, Stop, InitConnectionSystem
    <3>2. FileConns' = FileConns
      BY <3>1 DEF FileConns, OnDisk
    <3>. QED
      BY <2>1, <3>2 DEF Room
  <2>. QED BY <2>2, <2>3
<1>4. ASSUME up, up', NEW c \in ConnId, NEW r \in ConnRec, conn' = [conn EXCEPT ![c] = r],
             r.state \in {"proposed", "confirmed", "declined"},
             Live(c) \/ Cardinality(LiveConns) < MAX_CONNECTIONS
      PROVE  Room'
  <2>1. LiveConns' = LiveConns \cup {c}
    BY <1>4 DEF LiveConns, Live, IInv, TypeOK
  <2>2. CASE Live(c)
    <3>1. LiveConns' = LiveConns
      BY <2>1, <2>2 DEF LiveConns
    <3>. QED
      BY <1>2, <1>4, <3>1 DEF Room
  <2>3. CASE Cardinality(LiveConns) < MAX_CONNECTIONS /\ ~Live(c)
    <3>1. /\ IsFiniteSet(LiveConns') /\ Cardinality(LiveConns') = Cardinality(LiveConns) + 1
          /\ Cardinality(LiveConns) \in Nat
      <4>1. c \notin LiveConns
        BY <2>3 DEF LiveConns
      <4>2. IsFiniteSet(LiveConns)
        BY DEF Room
      <4>. QED
        BY <2>1, <4>1, <4>2, FS_AddElement, FS_CardinalityType
    <3>. QED
      BY <1>2, <1>4, <2>3, <3>1
  <2>. QED
    BY <1>4, <2>2, <2>3
<1>5. CASE Stop
  <2>1. LiveConns' = {} /\ FileConns' = FileConns
    BY <1>5 DEF Stop, LiveConns, Live, FileConns, OnDisk, NoConn
  <2>. QED
    BY <2>1, FS_EmptySet DEF Room
<1>6. CASE InitConnectionSystem
  <2>1. LiveConns' = FileConns /\ FileConns' = FileConns
    BY <1>6 DEF InitConnectionSystem, load_connection_from_file, LiveConns, Live, FileConns, OnDisk, NoConn
  <2>. QED
    BY <2>1 DEF Room
<1>. QED
  BY TableMoves, <1>3, <1>4, <1>5, <1>6

\* It starts empty.
LEMMA InitRoom == Init => Room
<1>. SUFFICES ASSUME Init PROVE Room
  OBVIOUS
<1>1. LiveConns = {} /\ FileConns = {}
  BY DEF Init, LiveConns, Live, FileConns, OnDisk, NoConn
<1>. QED
  BY <1>1, FS_EmptySet, LimitsAssumption DEF Room

\* The table holds no more connections than it has places, and the files that
\* parse fit into it at every restart.
THEOREM TableHasRoom == Spec => []Room
<1>1. IInv /\ IInv' /\ Room /\ [Next]_vars => Room'
  BY RoomStep
<1>. QED
  BY <1>1, InitRoom, Safety, PTL DEF Spec

\* No insertion of a matcher and no start overruns ConnectionTable, however many
\* threads match (connections.c, disk-storage.c).
THEOREM TableHolds == Spec => []TableNotOverrun
<1>1. Room => TableNotOverrun
  BY DEF Room, TableNotOverrun
<1>. QED
  BY <1>1, TableHasRoom, PTL

----------------------------------------------------------------------------
\* With every matcher under central_handler_lock (no client handler runs one),
\* the User * of a handler stay those of the people they were taken for.

\* Nothing is picked, or fewer of those that were.
LEMMA PicksFewer ==
    ASSUME Clients = {}, PicksStand,
           \/ pc'[Central] \notin {"ranking", "inserting", "persisting"}
           \/ job'[Central].todo = {}
           \/ /\ pc[Central] \in {"ranking", "inserting", "persisting"}
              /\ job'[Central].a = job[Central].a /\ job'[Central].todo \subseteq job[Central].todo
              /\ UNCHANGED <<userTable, discoverable, described>>
    PROVE  PicksStand'
  BY DEF PicksStand, Matchable

LEMMA PicksStep == ASSUME Clients = {}, IInv, PicksStand, [Next]_vars \/ Stop PROVE PicksStand'
<1>0. Central \in Thread /\ Thread = {Central} /\ pc \in [Thread -> Pcs] /\ job \in [Thread -> JobRec]
  BY DEF IInv, TypeOK
<1>1. ASSUME NEW i \in 1 .. Len(userTable), NEW d \in BOOLEAN, handle_conn_discoverable(i, d)
      PROVE  PicksStand'
  <2>. DEFINE people == discoverable' \cap described'
  <2>1. /\ FindMatchForUser(Central, i, people) /\ pc[Central] = "idle" /\ userTable' = userTable
    BY <1>1 DEF handle_conn_discoverable, Idle
  <2>2. CASE UNCHANGED <<pc, job>>
    BY <2>1, <2>2, PicksFewer
  <2>3. CASE Goto(Central, "ranking", [NoJob EXCEPT !.a = i, !.todo = Candidates(i, people)])
    <3>1. job'[Central].a = i /\ job'[Central].todo = Candidates(i, people)
      BY <1>0, <2>3 DEF Goto, NoJob
    <3>2. people = Matchable'
      BY DEF Matchable
    <3>3. \A j \in Candidates(i, people) : /\ j \in 1 .. Len(userTable) /\ userTable[j] # userTable[i]
                                           /\ userTable[j] \in people
      BY DEF Candidates
    <3>. HIDE DEF people
    <3>4. ASSUME NEW j \in job'[Central].todo
          PROVE  /\ {job'[Central].a, j} \subseteq 1 .. Len(userTable')
                 /\ userTable'[j] # userTable'[job'[Central].a]
                 /\ userTable'[j] \in Matchable'
      BY <2>1, <3>1, <3>2, <3>3
    <3>. QED
      BY <1>0, <3>4 DEF PicksStand
  <2>. QED
    BY <2>1, <2>2, <2>3 DEF FindMatchForUser
<1>3. ASSUME NEW u \in UserId, NewUser(u) PROVE PicksStand'
  <2>1. pc'[Central] = "idle"
    BY <1>3 DEF NewUser, Idle
  <2>. QED BY <2>1, PicksFewer
<1>4. ASSUME NEW i \in 1 .. Len(userTable), NEW t \in Thread,
             ClientFindsMatch(t, i) \/ \E d \in BOOLEAN : ClientSetsDiscoverable(t, i, d)
      PROVE  PicksStand'
  BY <1>4, NamesAssumption, <1>0 DEF ClientFindsMatch, ClientSetsDiscoverable
<1>5. CASE AiRanks(Central)
  <2>1. PICK picks \in SUBSET job[Central].todo :
                Goto(Central, "inserting", [job[Central] EXCEPT !.todo = picks])
    BY <1>5 DEF AiRanks
  <2>2. job'[Central].a = job[Central].a /\ job'[Central].todo = picks
    BY <1>0, <2>1 DEF Goto, JobRec
  <2>. QED
    BY <1>5, <2>2, PicksFewer DEF AiRanks, userVars
<1>6. CASE InsertProposal(Central)
  <2>1. PICK j \in job[Central].todo :
          \/ Goto(Central, "idle", NoJob)
          \/ Goto(Central, "inserting", [job[Central] EXCEPT !.todo = @ \ {j}])
          \/ \E c \in ConnId : Goto(Central, "persisting", [[job[Central] EXCEPT !.todo = @ \ {j}] EXCEPT !.conn = c])
    BY <1>6, Zenon DEF InsertProposal, BeginPersist
  <2>2. job[Central] \in JobRec
    BY <1>0
  <2>. DEFINE s == [job[Central] EXCEPT !.todo = @ \ {j}]
  <2>4. /\ s.a = job[Central].a /\ s.todo = job[Central].todo \ {j}
        /\ \A c : [s EXCEPT !.conn = c].a = s.a /\ [s EXCEPT !.conn = c].todo = s.todo
    BY <2>2 DEF JobRec
  <2>5. \/ Goto(Central, "idle", NoJob)
        \/ Goto(Central, "inserting", s)
        \/ \E c \in ConnId : Goto(Central, "persisting", [s EXCEPT !.conn = c])
    BY <2>1
  <2>. HIDE DEF s
  <2>3. \/ pc'[Central] = "idle"
        \/ job'[Central].a = job[Central].a /\ job'[Central].todo = job[Central].todo \ {j}
    <3>1. CASE Goto(Central, "idle", NoJob)
      BY <3>1, <1>0 DEF Goto
    <3>2. CASE Goto(Central, "inserting", s)
      BY <3>2, <1>0, <2>4 DEF Goto
    <3>3. CASE \E c \in ConnId : Goto(Central, "persisting", [s EXCEPT !.conn = c])
      <4>1. PICK c \in ConnId : Goto(Central, "persisting", [s EXCEPT !.conn = c])
        BY <3>3
      <4>2. job'[Central] = [s EXCEPT !.conn = c]
        BY <4>1, <1>0 DEF Goto
      <4>. QED
        BY <4>2, <2>4
    <3>. QED
      BY <2>5, <3>1, <3>2, <3>3
  <2>. QED
    BY <1>6, <2>3, PicksFewer DEF InsertProposal, userVars
<1>7. CASE EndPersist(Central)
  <2>1. pc'[Central] = "idle" \/ job'[Central] = job[Central]
    BY <1>0, <1>7 DEF EndPersist, Goto
  <2>. QED
    BY <1>7, <2>1, PicksFewer DEF EndPersist, userVars
<1>8. ASSUME NEW c \in ConnId, NEW u \in UserId, ApproveConn(c, u) \/ DeclineConn(c, u)
      PROVE  PicksStand'
  <2>1. PICK b \in BOOLEAN : Goto(Central, "persisting", [[NoJob EXCEPT !.confirmed = b] EXCEPT !.conn = c])
                             \/ Goto(Central, "persisting", [NoJob EXCEPT !.conn = c])
    BY <1>8 DEF ApproveConn, DeclineConn, BeginPersist, JustConfirmed
  <2>2. job'[Central].todo = {}
    BY <1>0, <2>1 DEF Goto, NoJob
  <2>. QED BY <2>2, PicksFewer
<1>9. ASSUME NEW c \in ConnId, NEW u \in UserId,
             SendUserConnMessage(c, u) \/ append_message_to_file \/ LeaveEnsure \/ Stop
      PROVE  PicksStand'
  <2>1. pc'[Central] \in {"idle", "appending"}
    BY <1>0, <1>9 DEF SendUserConnMessage, append_message_to_file, LeaveEnsure, Stop, Goto
  <2>. QED BY <2>1, PicksFewer
<1>10. CASE append_message_to_file \/ LeaveEnsure \/ Stop \/ Crash \/ InitConnectionSystem
  <2>1. pc'[Central] = "idle"
    BY <1>0, <1>10 DEF append_message_to_file, LeaveEnsure, Crash, Stop, Goto, InitConnectionSystem, IInv, DownIsEmpty
  <2>. QED BY <2>1, PicksFewer
<1>11. CASE UNCHANGED vars
  BY <1>11 DEF vars, PicksStand, Matchable
<1>12. ASSUME NEW i \in 1 .. Len(userTable), handle_delete_user(i) PROVE PicksStand'
  <2>1. pc'[Central] = "idle"
    BY <1>12 DEF handle_delete_user, Idle
  <2>. QED BY <2>1, PicksFewer
<1>13. ASSUME NEW i \in 1 .. Len(userTable), NEW d \in BOOLEAN,
              UpdateUserDescription(Central, i, d) \/ SetUserPrivate(Central, i)
       PROVE  PicksStand'
  <2>1. pc'[Central] = "idle"
    BY <1>13 DEF UpdateUserDescription, SetUserPrivate, Idle
  <2>. QED BY <2>1, PicksFewer
<1>. QED
  BY <1>0, ListedConns, <1>1, <1>3, <1>4, <1>5, <1>6, <1>7, <1>8, <1>9, <1>10, <1>11, <1>12, <1>13
     DEF Next, Match, Decide, Manage

LEMMA NamesStep ==
    ASSUME Clients = {}, IInv, IInv', PicksStand, NamesStand, [Next]_vars \/ Stop
    PROVE  NamesStand'
<1>1. ASSUME \A c \in ConnId : Live(c)' => NamesPeople(conn[c])', up'
      PROVE  NamesStand'
  <2>1. \A c \in ConnId : OnDisk(c)' => Live(c)' /\ (connFile[c] = conn[c])'
    BY <1>1 DEF IInv, FilesFollowTable, OnDisk, Torn
  <2>2. \A c \in ConnId : OnDisk(c)' => NamesPeople(connFile[c])'
    BY <1>1, <2>1 DEF NamesPeople
  <2>. QED
    BY <1>1, <2>2 DEF NamesStand
<1>2. CASE conn' = conn /\ up' = up
  <2>1. CASE up'
    <3>1. \A c \in ConnId : Live(c)' => NamesPeople(conn[c])'
      BY <1>2 DEF NamesStand, Live, NamesPeople
    <3>. QED BY <1>1, <2>1, <3>1
  <2>2. CASE ~up'
    <3>1. connFile' = connFile
      BY <1>2, <2>2, ListedConns DEF Next, Match, Decide, Manage, vars, userVars,
         handle_conn_discoverable, ClientSetsDiscoverable, ClientFindsMatch, UpdateUserDescription,
         SetUserPrivate, EndPersist, AiRanks, LeaveEnsure, SendUserConnMessage, NewUser, Idle,
         append_message_to_file, handle_delete_user, InsertProposal, ApproveConn, DeclineConn,
         Crash, Stop, InitConnectionSystem
    <3>. QED
      BY <1>2, <3>1 DEF NamesStand, Live, OnDisk, NamesPeople
  <2>. QED BY <2>1, <2>2
<1>3. ASSUME up, up', NEW c \in ConnId, NEW r \in ConnRec, conn' = [conn EXCEPT ![c] = r],
             NamesPeople(r)
      PROVE  NamesStand'
  <2>1. \A d \in ConnId : conn'[d] = IF d = c THEN r ELSE conn[d]
    BY <1>3 DEF IInv, TypeOK
  <2>2. \A d \in ConnId : Live(d)' => NamesPeople(conn[d])'
    BY <1>3, <2>1 DEF NamesStand, Live, NamesPeople
  <2>. QED BY <1>1, <1>3, <2>2
<1>4. ASSUME NEW t \in Thread, pc[t] = "inserting", NEW j \in job[t].todo
      PROVE  NamesPeople(Proposal(IdAt(job[t].a), IdAt(j)))
  <2>1. /\ job[t].a \in 1 .. Len(userTable) /\ j \in 1 .. Len(userTable)
        /\ userTable[j] # userTable[job[t].a]
    BY <1>4 DEF PicksStand
  <2>2. IdAt(job[t].a) = userTable[job[t].a] /\ IdAt(j) = userTable[j]
    BY <2>1 DEF IdAt
  <2>3. userTable[j] \in UserId /\ userTable[job[t].a] \in UserId
    BY <2>1 DEF IInv, TypeOK
  <2>. QED
    BY <2>1, <2>2, <2>3 DEF NamesPeople, Proposal
<1>5. CASE Stop
  BY <1>5 DEF Stop, NamesStand, Live, OnDisk, NamesPeople, NoConn
<1>6. CASE InitConnectionSystem
  BY <1>6 DEF InitConnectionSystem, load_connection_from_file, NamesStand, Live, OnDisk, NamesPeople, NoConn
<1>7. ASSUME NEW c \in ConnId, Live(c), NEW r \in ConnRec, r.a = conn[c].a, r.b = conn[c].b
      PROVE  NamesPeople(r)
  BY <1>7 DEF NamesStand, NamesPeople
<1>. QED
  BY TableMoves, <1>2, <1>3, <1>4, <1>5, <1>6, <1>7

LEMMA InitNames == Init => PicksStand /\ NamesStand
  BY DEF Init, PicksStand, NamesStand, Live, OnDisk, NoConn

\* A person is proposed only while discoverable, where no matcher of a client
\* handler lets the person opt out, or the table move, during its AI call.
LEMMA ProposedStep ==
    ASSUME IInv, PicksStand, [Next]_vars, NEW c \in ConnId,
           up, up', conn[c].state = "none", conn'[c].state = "proposed"
    PROVE  conn'[c].b \in Matchable
<1>1. PICK t \in Thread : \E j \in job[t].todo :
            pc[t] = "inserting" /\ conn'[c] = Proposal(IdAt(job[t].a), IdAt(j))
  BY TableMoves DEF IInv, TypeOK, Live, Stop, InitConnectionSystem
<1>2. PICK j \in job[t].todo : conn'[c] = Proposal(IdAt(job[t].a), IdAt(j))
  BY <1>1
<1>3. j \in 1 .. Len(userTable) /\ userTable[j] \in Matchable
  BY <1>1 DEF PicksStand
<1>. QED
  BY <1>2, <1>3 DEF IdAt, Proposal

\* The table never holds more connections than it has places, and each is
\* between two people there have been.
THEOREM TableStaysSound == ASSUME Clients = {} PROVE Spec => []TableSound
<1>1. Init => PicksStand /\ NamesStand
  BY InitNames
<1>2. IInv /\ IInv' /\ (PicksStand /\ NamesStand) /\ [Next]_vars => (PicksStand /\ NamesStand)'
  BY PicksStep, NamesStep
<1>3. Room /\ PicksStand /\ NamesStand => TableSound
  BY DEF Room, NamesStand, NamesPeople, TableSound, TableNotOverrun, ConnectionsNamePeople, LiveConns
<1>. QED
  BY <1>1, <1>2, <1>3, Safety, TableHasRoom, PTL DEF Spec

\* Nobody is proposed who has opted out before the record is written.
THEOREM OnlyDiscoverable == ASSUME Clients = {} PROVE Spec => ProposedOnlyWhileDiscoverable
<1>1. Init => PicksStand
  BY InitNames
<1>2. IInv /\ PicksStand /\ [Next]_vars => PicksStand'
  BY PicksStep
<1>3. IInv /\ PicksStand /\ [Next]_vars =>
        \A c \in ConnId : (up /\ up' /\ conn[c].state = "none" /\ conn'[c].state = "proposed")
            => conn'[c].b \in Matchable
  BY ProposedStep
<1>. QED
  BY <1>1, <1>2, <1>3, Safety, PTL DEF Spec, ProposedOnlyWhileDiscoverable

----------------------------------------------------------------------------
\* The connections inside the match system

\* Every step is a step of the connections, leaves them alone, or is an exit.
LEMMA SystemStep == ASSUME IInv, NextAll PROVE [Next]_vars \/ (up /\ Stop)
<1>1. ASSUME NEW p \in PropId, NEW j \in JourneyId, NEW u \in UserId, handle_propose_root_goal(p, j, u)
      PROVE  [Next]_vars
  <2>1. UNCHANGED vars \/ \E c \in ConnId : SendUserConnMessage(c, u)
    BY <1>1, Zenon DEF handle_propose_root_goal
  <2>2. ASSUME NEW c \in ConnId, SendUserConnMessage(c, u) PROVE Next
    <3>1. c \in ListConnsForUser(u)
      BY <2>2 DEF SendUserConnMessage, MayChat, Participant, ListConnsForUser, LiveConns, IInv,
         RecordsSound, Sound
    <3>. QED
      BY <2>2, <3>1 DEF Next, Decide
  <2>. QED
    BY <2>1, <2>2
<1>2. CASE ConnectionStep
  BY <1>2 DEF ConnectionStep, Next, Manage
<1>3. CASE JourneyStep
  <2>1. CASE EnsureSharedJourneyForPair
    BY <2>1 DEF EnsureSharedJourneyForPair, Exit, Next
  <2>2. ASSUME NEW us \in Groups, handle_create_shared_journey(us)
        PROVE  UNCHANGED vars \/ (up /\ Stop)
    BY <2>2 DEF handle_create_shared_journey, Exit, Idle
  <2>3. ASSUME NEW i \in 1 .. Len(userTable), DeleteUser(i) PROVE Next
    BY <2>3 DEF DeleteUser, Next, Manage
  <2>. QED
    BY <1>3, <2>1, <2>2, <2>3 DEF JourneyStep, handle_list_shared_journeys,
       handle_delete_shared_journey, ForgetDismissed
<1>4. CASE ProposalStep
  BY <1>1, <1>4 DEF ProposalStep, handle_approve_root_goal, handle_decline_root_goal, PushRoot,
     handle_finalize_root_goal
<1>5. CASE CrashAll \/ Restart
  BY <1>5 DEF CrashAll, Restart, Next, Manage
<1>. QED
  BY <1>2, <1>3, <1>4, <1>5 DEF NextAll

LEMMA SystemStepOrStutter == ASSUME IInv, [NextAll]_allVars PROVE [Next]_vars \/ (up /\ Stop)
  BY SystemStep DEF allVars

\* Whatever journeys, proposals, deletions and failed assertions do in between,
\* the invariant of the connections holds.
THEOREM ConnectionsStaySound == SpecAll => []IInv
<1>1. IInv /\ [NextAll]_allVars => IInv'
  BY SystemStepOrStutter, StepInv
<1>. QED
  BY <1>1, InitInv, PTL DEF SpecAll, InitAll

\* Where the process may crash at all, the match system implements Connections:
\* an assertion that fails is a crash.
THEOREM ImplementsConnections == ASSUME MayCrash PROVE SpecAll => Spec
<1>1. IInv /\ [NextAll]_allVars => [Next]_vars
  BY SystemStepOrStutter DEF Next, Manage, Crash
<1>. QED
  BY <1>1, ConnectionsStaySound, PTL DEF SpecAll, InitAll, Spec

\* Chat in the composed system, where a proposal is announced in the pair's
\* chat: nothing is said, by people or by the system, between two people who
\* have not both approved.
THEOREM ChatStaysBetweenApproved == SpecAll => []ChatOnlyBetweenApproved
<1>1. IInv => ChatOnlyBetweenApproved
  BY DEF IInv, ChatSound, ChatOnlyBetweenApproved, LiveMsgs
<1>. QED
  BY <1>1, ConnectionsStaySound, PTL

\* The table has room in the composed system, and with all matchers under
\* central_handler_lock each entry is between two people.
THEOREM SystemTableSound == ASSUME Clients = {} PROVE SpecAll => []TableSound
<1>1. InitAll => Room /\ PicksStand /\ NamesStand
  BY InitNames, InitRoom DEF InitAll
<1>2. IInv /\ IInv' /\ (Room /\ PicksStand /\ NamesStand) /\ [NextAll]_allVars
      => (Room /\ PicksStand /\ NamesStand)'
  BY SystemStepOrStutter, RoomStep, PicksStep, NamesStep
<1>3. Room /\ PicksStand /\ NamesStand => TableSound
  BY DEF Room, NamesStand, NamesPeople, TableSound, TableNotOverrun, ConnectionsNamePeople, LiveConns
<1>. QED
  BY <1>1, <1>2, <1>3, ConnectionsStaySound, PTL DEF SpecAll
\* In the composed system, too, nobody is proposed who has opted out before the
\* record is written (central-users.c deletes and creates in between).
THEOREM SystemProposesOnlyDiscoverable == ASSUME Clients = {} PROVE SpecAll => ProposedOnlyWhileDiscoverable
<1>1. InitAll => PicksStand
  BY InitNames DEF InitAll
<1>2. IInv /\ PicksStand /\ [NextAll]_allVars => PicksStand'
  BY SystemStepOrStutter, PicksStep
<1>3. IInv /\ PicksStand /\ [NextAll]_allVars =>
        \A c \in ConnId : (up /\ up' /\ conn[c].state = "none" /\ conn'[c].state = "proposed")
            => conn'[c].b \in Matchable
  BY SystemStepOrStutter, ProposedStep DEF Stop
<1>. QED
  BY <1>1, <1>2, <1>3, ConnectionsStaySound, PTL DEF SpecAll, ProposedOnlyWhileDiscoverable

----------------------------------------------------------------------------
\* Journeys and proposals

LEMMA PropTypes == NoProp \in PropRec /\ BothApproved(NoProp) = FALSE /\ NoProp.finalized = FALSE
  BY DEF NoProp, PropRec, BothApproved

\* The sets JInv bounds follow the tables.
LEMMA SameSets ==
    /\ UNCHANGED journey => Journeys' = Journeys
    /\ UNCHANGED prop => Proposals' = Proposals
    /\ UNCHANGED propFile => OpenFiles' = OpenFiles
  BY DEF Journeys, Proposals, OpenFiles

\* A step that leaves the proposals alone keeps what is said of them, whatever
\* it does to the journeys within their bound.
LEMMA ProposalsRest ==
    ASSUME JInv, UNCHANGED <<prop, propFile, roots, voted>>,
           \/ UNCHANGED <<up, creator>>
           \/ up' = up /\ \A p \in PropId, u \in UserId : creator'[p][u] # "none" => creator[p][u] # "none",
           creator' \in [PropId -> [UserId -> {"none", "creating", "pushed"}]],
           journey' \in [JourneyId -> Seq(UserId)], registered' \in [UserId -> SUBSET JourneyId],
           IsFiniteSet(Journeys'), Cardinality(Journeys') <= MAX_JOURNEYS
    PROVE  JInv'
<1>1. Proposals' = Proposals /\ OpenFiles' = OpenFiles
  BY SameSets
<1>2. JourneyTypeOK'
  BY <1>1 DEF JInv, JourneyTypeOK
<1>3. MemoryFollowsFiles' /\ Bounded'
  BY <1>1 DEF JInv, MemoryFollowsFiles, Bounded
<1>4. FinalizedWasAgreed' /\ RootsWereAgreed'
  BY DEF JInv, FinalizedWasAgreed, RootsWereAgreed
<1>5. CreatorsSawBoth'
  BY DEF JInv, CreatorsSawBoth, BothApproved
<1>. QED
  BY <1>2, <1>3, <1>4, <1>5 DEF JInv


LEMMA AddOne ==
    ASSUME NEW S, IsFiniteSet(S), NEW x
    PROVE  /\ IsFiniteSet(S \cup {x}) /\ Cardinality(S \cup {x}) <= Cardinality(S) + 1
           /\ Cardinality(S) \in Nat /\ Cardinality(S \cup {x}) \in Nat
<1>1. /\ IsFiniteSet(S \cup {x})
      /\ Cardinality(S \cup {x}) = IF x \in S THEN Cardinality(S) ELSE Cardinality(S) + 1
  BY FS_AddElement
<1>2. Cardinality(S) \in Nat /\ Cardinality(S \cup {x}) \in Nat
  BY <1>1, FS_CardinalityType
<1>. QED
  BY <1>1, <1>2

\* One more journey, where there is room, or fewer.
LEMMA OneMoreJourney ==
    ASSUME JInv, RoomForJourney, NEW j \in JourneyId, NEW us \in Seq(UserId) \ {<<>>},
           journey' = [journey EXCEPT ![j] = us]
    PROVE  /\ journey' \in [JourneyId -> Seq(UserId)]
           /\ IsFiniteSet(Journeys') /\ Cardinality(Journeys') <= MAX_JOURNEYS
<1>1. journey \in [JourneyId -> Seq(UserId)] /\ IsFiniteSet(Journeys)
  BY DEF JInv, JourneyTypeOK, Bounded
<1>2. Journeys' = Journeys \cup {j}
  BY <1>1 DEF Journeys, NoJourney
<1>3. IsFiniteSet(Journeys') /\ Cardinality(Journeys') <= Cardinality(Journeys) + 1
      /\ Cardinality(Journeys) \in Nat /\ Cardinality(Journeys') \in Nat
  BY <1>1, <1>2, AddOne
<1>. QED
  BY <1>1, <1>3, JourneyAssumption DEF RoomForJourney

LEMMA FewerJourneys ==
    ASSUME JInv, journey' \in [JourneyId -> Seq(UserId)], Journeys' \subseteq Journeys
    PROVE  IsFiniteSet(Journeys') /\ Cardinality(Journeys') <= MAX_JOURNEYS
<1>1. IsFiniteSet(Journeys) /\ Cardinality(Journeys) <= MAX_JOURNEYS
  BY DEF JInv, JourneyTypeOK, Bounded
<1>2. IsFiniteSet(Journeys') /\ Cardinality(Journeys') <= Cardinality(Journeys)
  BY <1>1, FS_Subset
<1>3. Cardinality(Journeys') \in Nat /\ Cardinality(Journeys) \in Nat
  BY <1>1, <1>2, FS_CardinalityType
<1>. QED
  BY <1>1, <1>2, <1>3, JourneyAssumption

\* The process ends: the proposals in memory are gone, their files stay.
LEMMA ExitRest ==
    ASSUME JInv, up' = FALSE, prop' = [p \in PropId |-> NoProp],
           creator' = [p \in PropId |-> [u \in UserId |-> "none"]],
           UNCHANGED <<journey, propFile, roots, voted>>, registered' \in [UserId -> SUBSET JourneyId]
    PROVE  JInv'
<1>1. Proposals' = {} /\ OpenFiles' = OpenFiles /\ Journeys' = Journeys
  BY SameSets DEF Proposals
<1>2. IsFiniteSet({}) /\ Cardinality({}) = 0
  BY FS_EmptySet
<1>3. JourneyTypeOK'
  BY <1>1, <1>2, PropTypes, JourneyAssumption DEF JInv, JourneyTypeOK
<1>4. MemoryFollowsFiles' /\ Bounded'
  BY <1>1, <1>2 DEF JInv, MemoryFollowsFiles, Bounded
<1>5. FinalizedWasAgreed' /\ RootsWereAgreed' /\ CreatorsSawBoth'
  BY PropTypes DEF JInv, FinalizedWasAgreed, RootsWereAgreed, CreatorsSawBoth
<1>. QED
  BY <1>3, <1>4, <1>5 DEF JInv

\* A record of a proposal is written, in memory and to its file.
LEMMA WriteRest ==
    ASSUME JInv, up, UNCHANGED <<up, journey, registered, roots>>,
           NEW p \in PropId, NEW r \in PropRec, SetProp(p, r), r # NoProp,
           r.finalized => BothApproved(r) /\ ~r.declined,
           BothApproved(propFile[p]) => BothApproved(r),
           p \in Proposals \/ Cardinality(Proposals) < MAX_PROPOSALS,
           creator' \in [PropId -> [UserId -> {"none", "creating", "pushed"}]],
           \A q \in PropId, u \in UserId :
              creator'[q][u] # "none" => creator[q][u] # "none" \/ (q = p /\ BothApproved(r)),
           voted' \in [PropId -> SUBSET UserId]
    PROVE  JInv'
<1>1. /\ prop \in [PropId -> PropRec] /\ propFile \in [PropId -> PropRec]
      /\ IsFiniteSet(Proposals) /\ Cardinality(Proposals) <= MAX_PROPOSALS
  BY DEF JInv, JourneyTypeOK, Bounded
<1>2. \A q \in PropId : /\ prop'[q] = IF q = p THEN r ELSE prop[q]
                        /\ propFile'[q] = IF q = p THEN r ELSE propFile[q]
  BY <1>1 DEF SetProp
<1>3. Proposals' = Proposals \cup {p} /\ OpenFiles' \subseteq Proposals'
  BY <1>2 DEF Proposals, OpenFiles, JInv, MemoryFollowsFiles
<1>4. /\ IsFiniteSet(Proposals') /\ Cardinality(Proposals') <= MAX_PROPOSALS
      /\ Cardinality(Proposals') \in Nat
  <2>1. CASE p \in Proposals
    <3>1. Proposals' = Proposals
      BY <1>3, <2>1
    <3>. QED BY <1>1, <3>1, FS_CardinalityType
  <2>2. CASE Cardinality(Proposals) < MAX_PROPOSALS
    <3>1. /\ IsFiniteSet(Proposals') /\ Cardinality(Proposals') <= Cardinality(Proposals) + 1
          /\ Cardinality(Proposals) \in Nat /\ Cardinality(Proposals') \in Nat
      BY <1>1, <1>3, AddOne
    <3>. QED
      BY <2>2, <3>1, JourneyAssumption
  <2>. QED BY <2>1, <2>2
<1>5. IsFiniteSet(OpenFiles') /\ Cardinality(OpenFiles') <= MAX_PROPOSALS
  <2>1. IsFiniteSet(OpenFiles') /\ Cardinality(OpenFiles') <= Cardinality(Proposals')
    BY <1>3, <1>4, FS_Subset
  <2>2. Cardinality(OpenFiles') \in Nat
    BY <2>1, FS_CardinalityType
  <2>. QED
    BY <1>4, <2>1, <2>2, JourneyAssumption
<1>6. Journeys' = Journeys
  BY SameSets
<1>7. JourneyTypeOK'
  BY <1>1, <1>4, <1>6 DEF SetProp, JInv, JourneyTypeOK
<1>8. MemoryFollowsFiles' /\ Bounded'
  <2>1. \A q \in Proposals : prop[q] = propFile[q]
    BY DEF JInv, MemoryFollowsFiles
  <2>2. \A q \in Proposals' : prop'[q] = propFile'[q]
    BY <1>2, <1>3, <2>1 DEF Proposals
  <2>3. MemoryFollowsFiles'
    BY <1>3, <2>2 DEF MemoryFollowsFiles
  <2>4. IsFiniteSet(Journeys)
    BY DEF JInv, Bounded
  <2>. QED
    BY <1>4, <1>5, <1>6, <2>3, <2>4 DEF Bounded
<1>9. FinalizedWasAgreed'
  BY <1>2 DEF JInv, FinalizedWasAgreed, BothApproved
<1>10. \A q \in PropId : BothApproved(propFile[q]) => BothApproved(propFile'[q])
  BY <1>2
<1>11. RootsWereAgreed'
  BY <1>1, <1>10 DEF JInv, JourneyTypeOK, RootsWereAgreed, BothApproved
<1>12. CreatorsSawBoth'
  <2>1. SUFFICES ASSUME NEW q \in PropId, NEW u \in UserId, creator'[q][u] # "none"
                 PROVE  BothApproved(propFile'[q])
    BY DEF CreatorsSawBoth, BothApproved
  <2>2. CASE creator[q][u] # "none"
    BY <1>10, <2>2 DEF JInv, CreatorsSawBoth
  <2>3. CASE q = p /\ BothApproved(r)
    BY <1>2, <2>3
  <2>. QED
    BY <2>1, <2>2, <2>3
<1>. QED
  BY <1>7, <1>8, <1>9, <1>11, <1>12 DEF JInv

\* What waits for votes is read back whole.
LEMMA RestartRest == ASSUME JInv, Restart PROVE JInv'
<1>1. PICK loaded \in SUBSET OpenFiles :
          /\ \/ loaded = OpenFiles /\ Cardinality(loaded) <= MAX_PROPOSALS
             \/ Cardinality(loaded) = MAX_PROPOSALS
          /\ prop' = [p \in PropId |-> IF p \in loaded THEN propFile[p] ELSE NoProp]
  BY DEF Restart
<1>2. /\ UNCHANGED <<journey, propFile, creator, roots, voted>>
      /\ registered' \in [UserId -> SUBSET JourneyId] /\ up'
  BY DEF Restart, InitConnectionSystem
<1>3. Journeys' = Journeys /\ OpenFiles' = OpenFiles
  BY <1>2, SameSets
<1>4. /\ IsFiniteSet(OpenFiles) /\ Cardinality(OpenFiles) <= MAX_PROPOSALS
      /\ Cardinality(OpenFiles) \in Nat
  BY FS_CardinalityType DEF JInv, Bounded
<1>5. loaded = OpenFiles
  <2>1. SUFFICES ASSUME Cardinality(loaded) = MAX_PROPOSALS PROVE loaded = OpenFiles
    BY <1>1
  <2>2. Cardinality(loaded) = Cardinality(OpenFiles)
    <3>1. Cardinality(loaded) <= Cardinality(OpenFiles)
      BY <1>4, FS_Subset
    <3>. QED BY <1>4, <2>1, <3>1, JourneyAssumption
  <2>. QED
    BY <1>4, <2>2, FS_Subset
<1>6. Proposals' = OpenFiles
  BY <1>1, <1>5 DEF Proposals, OpenFiles
<1>7. JourneyTypeOK'
  <2>1. prop' \in [PropId -> PropRec]
    BY <1>1, PropTypes DEF JInv, JourneyTypeOK
  <2>. QED
    BY <1>2, <1>3, <1>4, <1>6, <2>1 DEF JInv, JourneyTypeOK
<1>8. MemoryFollowsFiles' /\ Bounded'
  <2>1. \A p \in OpenFiles : prop'[p] = propFile'[p]
    BY <1>1, <1>2, <1>5 DEF OpenFiles
  <2>2. MemoryFollowsFiles'
    BY <1>3, <1>6, <2>1 DEF MemoryFollowsFiles
  <2>3. IsFiniteSet(Journeys)
    BY DEF JInv, Bounded
  <2>. QED
    BY <1>3, <1>4, <1>6, <2>2, <2>3 DEF Bounded
<1>9. FinalizedWasAgreed' /\ RootsWereAgreed' /\ CreatorsSawBoth'
  BY <1>1, <1>2, PropTypes DEF JInv, FinalizedWasAgreed, RootsWereAgreed, CreatorsSawBoth
<1>. QED
  BY <1>7, <1>8, <1>9 DEF JInv

\* The participants a journey is created with are a list of people.
LEMMA ListsOfPeople ==
    ASSUME TypeOK
    PROVE  /\ \A us \in Groups : us \in Seq(UserId) \ {<<>>}
           /\ \A a \in Known, b \in Known : <<a, b>> \in Seq(UserId) \ {<<>>}
<1>1. Known \subseteq UserId
  BY DEF TypeOK, Known
<1>2. \A a \in UserId, b \in UserId : <<a, b>> \in Seq(UserId) \ {<<>>}
  OBVIOUS
<1>. QED
  BY <1>1, <1>2, JourneyAssumption

\* What an exit and each step of the journeys do to the types the proposals
\* do not depend on.
LEMMA JourneySteps ==
    ASSUME TypeOK, JInv, JourneyStep
    PROVE  JInv'
<1>0. /\ journey \in [JourneyId -> Seq(UserId)] /\ registered \in [UserId -> SUBSET JourneyId]
      /\ creator \in [PropId -> [UserId -> {"none", "creating", "pushed"}]]
      /\ IsFiniteSet(Journeys) /\ Cardinality(Journeys) <= MAX_JOURNEYS
      /\ NoJourney \in Seq(UserId)
  BY DEF JInv, JourneyTypeOK, Bounded, NoJourney
<1>1. CASE EnsureSharedJourneyForPair
  <2>. DEFINE c == conn[job[Central].conn]
  <2>1. CASE LeaveEnsure /\ UNCHANGED journeyVars
    BY <1>0, <2>1, SameSets, ProposalsRest DEF LeaveEnsure, journeyVars
  <2>2. CASE /\ RoomForJourney /\ {c.a, c.b} \subseteq Known /\ LeaveEnsure
             /\ \E j \in JourneyId : journey' = [journey EXCEPT ![j] = <<c.a, c.b>>]
             /\ UNCHANGED <<registered, prop, propFile, creator, roots, voted>>
    <3>1. PICK j \in JourneyId, us \in Seq(UserId) \ {<<>>} : journey' = [journey EXCEPT ![j] = us]
      BY <2>2, ListsOfPeople
    <3>. QED
      BY <1>0, <2>2, <3>1, OneMoreJourney, ProposalsRest DEF LeaveEnsure
  <2>3. CASE Exit /\ UNCHANGED <<journey, registered, propFile, roots, voted>>
    BY <1>0, <2>3, ExitRest DEF Exit, Stop
  <2>. QED
    BY <1>1, <2>1, <2>2, <2>3 DEF EnsureSharedJourneyForPair
<1>2. ASSUME NEW us \in Groups, handle_create_shared_journey(us) PROVE JInv'
  <2>. DEFINE done == {us[k] : k \in {i \in 1 .. Len(us) :
                                         \A k \in {n \in 1 .. Len(us) : us[n] \notin Known} : i < k}}
  <2>1. PICK j \in JourneyId :
              /\ registered' = [u \in UserId |-> IF u \in done THEN registered[u] \cup {j}
                                                              ELSE registered[u]]
              /\ \/ journey' = [journey EXCEPT ![j] = us] /\ UNCHANGED <<vars, prop, creator>>
                 \/ UNCHANGED journey /\ Exit
    BY <1>2, Zenon DEF handle_create_shared_journey
  <2>2. RoomForJourney /\ UNCHANGED <<propFile, roots, voted>>
    BY <1>2 DEF handle_create_shared_journey
  <2>. HIDE DEF done
  <2>3. registered' \in [UserId -> SUBSET JourneyId]
    BY <1>0, <2>1
  <2>4. CASE journey' = [journey EXCEPT ![j] = us] /\ UNCHANGED <<vars, prop, creator>>
    BY <1>0, <2>2, <2>3, <2>4, ListsOfPeople, OneMoreJourney, ProposalsRest DEF vars
  <2>5. CASE UNCHANGED journey /\ Exit
    BY <2>2, <2>3, <2>5, ExitRest DEF Exit, Stop
  <2>. QED
    BY <2>1, <2>4, <2>5
<1>3. ASSUME NEW u \in UserId, handle_list_shared_journeys(u) PROVE JInv'
  <2>1. {j \in Journeys : u \in Users(j)} \subseteq JourneyId
    BY DEF Journeys
  <2>. QED
    BY <1>0, <1>3, <2>1, SameSets, ProposalsRest DEF handle_list_shared_journeys, vars
<1>4. ASSUME NEW j \in JourneyId, handle_delete_shared_journey(j) PROVE JInv'
  <2>1. journey' \in [JourneyId -> Seq(UserId)] /\ Journeys' \subseteq Journeys
    BY <1>0, <1>4 DEF handle_delete_shared_journey, Journeys
  <2>. QED
    BY <1>0, <1>4, <2>1, FewerJourneys, ProposalsRest DEF handle_delete_shared_journey, vars
<1>5. ASSUME NEW u \in UserId, NEW j \in JourneyId, ForgetDismissed(u, j) PROVE JInv'
  BY <1>0, <1>5, SameSets, ProposalsRest DEF ForgetDismissed, vars
<1>6. ASSUME NEW i \in 1 .. Len(userTable), DeleteUser(i) PROVE JInv'
  <2>1. journey' \in [JourneyId -> Seq(UserId)] /\ Journeys' \subseteq Journeys
    BY <1>0, <1>6 DEF DeleteUser, Journeys
  <2>2. registered' \in [UserId -> SUBSET JourneyId]
    BY <1>0, <1>6 DEF DeleteUser
  <2>. QED
    BY <1>0, <1>6, <2>1, <2>2, FewerJourneys, ProposalsRest DEF DeleteUser, handle_delete_user
<1>. QED
  BY <1>1, <1>2, <1>3, <1>4, <1>5, <1>6, Zenon DEF JourneyStep

\* What one user's client does about one proposal changes.
LEMMA CreatorMoves ==
    ASSUME creator \in [PropId -> [UserId -> {"none", "creating", "pushed"}]],
           NEW p \in PropId, NEW u \in UserId, NEW s \in {"none", "creating", "pushed"},
           creator' = [creator EXCEPT ![p][u] = s]
    PROVE  /\ creator' \in [PropId -> [UserId -> {"none", "creating", "pushed"}]]
           /\ \A q \in PropId, v \in UserId :
                 creator'[q][v] = IF q = p /\ v = u THEN s ELSE creator[q][v]
<1>1. creator[p] \in [UserId -> {"none", "creating", "pushed"}]
  OBVIOUS
<1>2. [creator[p] EXCEPT ![u] = s] \in [UserId -> {"none", "creating", "pushed"}]
  BY <1>1
<1>. QED
  BY <1>1, <1>2

\* Every step on a proposal.
LEMMA ProposalSteps ==
    ASSUME TypeOK, JInv, ProposalStep
    PROVE  JInv'
<1>. PICK p \in PropId, u \in UserId :
        \/ \E j \in JourneyId : handle_propose_root_goal(p, j, u)
        \/ handle_approve_root_goal(p, u) \/ handle_decline_root_goal(p, u)
        \/ PushRoot(p, u) \/ handle_finalize_root_goal(p, u)
  BY DEF ProposalStep
<1>0. /\ prop \in [PropId -> PropRec] /\ voted \in [PropId -> SUBSET UserId]
      /\ creator \in [PropId -> [UserId -> {"none", "creating", "pushed"}]]
      /\ journey \in [JourneyId -> Seq(UserId)] /\ registered \in [UserId -> SUBSET JourneyId]
      /\ IsFiniteSet(Journeys) /\ Cardinality(Journeys) <= MAX_JOURNEYS
      /\ prop[p] \in PropRec
  BY DEF JInv, JourneyTypeOK, Bounded
<1>f. p \in Proposals => prop[p] = propFile[p] /\ (prop[p].finalized => BothApproved(prop[p]) /\ ~prop[p].declined)
  BY DEF JInv, MemoryFollowsFiles, FinalizedWasAgreed, BothApproved
<1>n. /\ (p \in Proposals <=> prop[p] # NoProp) /\ NoProp.journey = NoId /\ NoId \notin JourneyId
      /\ (prop[p].journey \in Journeys => p \in Proposals)
  BY JourneyAssumption DEF Proposals, NoProp, Journeys
<1>1. ASSUME NEW j \in JourneyId, handle_propose_root_goal(p, j, u) PROVE JInv'
  <2>. DEFINE n == [NoProp EXCEPT !.journey = j]
              r == Vote(n, j, u)
  <2>1. /\ up /\ up' /\ SetProp(p, r) /\ propFile[p] = NoProp
        /\ Cardinality(Proposals) < MAX_PROPOSALS
        /\ voted' = [voted EXCEPT ![p] = {u}] /\ UNCHANGED <<journey, registered, creator, roots>>
    BY <1>1 DEF handle_propose_root_goal, Idle, SendUserConnMessage, vars
  <2>2. n \in PropRec /\ n.journey = j /\ ~n.finalized /\ ~n.declined
    BY DEF NoProp, PropRec
  <2>. HIDE DEF n
  <2>3. r \in PropRec /\ r.journey = j /\ ~r.finalized
    BY <2>2 DEF Vote, PropRec
  <2>. HIDE DEF r
  <2>4. r # NoProp
    BY <1>n, <2>3
  <2>5. voted' \in [PropId -> SUBSET UserId]
    BY <1>0, <2>1
  <2>6. UNCHANGED up
    BY <1>1 DEF handle_propose_root_goal, SendUserConnMessage, vars
  <2>. QED
    BY <1>0, <2>1, <2>3, <2>4, <2>5, <2>6, PropTypes, WriteRest
<1>2. CASE handle_approve_root_goal(p, u)
  <2>. DEFINE r == Vote(prop[p], prop[p].journey, u)
  <2>1. /\ up /\ p \in Proposals /\ ~prop[p].finalized /\ prop[p].journey \in Journeys /\ SetProp(p, r)
        /\ voted' = [voted EXCEPT ![p] = @ \cup {u}]
        /\ creator' = IF BothApproved(r) THEN [creator EXCEPT ![p][u] = "creating"] ELSE creator
        /\ UNCHANGED <<up, journey, registered, roots>>
    BY <1>2 DEF handle_approve_root_goal, Idle, vars
  <2>2. /\ r \in PropRec /\ r.journey = prop[p].journey /\ ~r.finalized
        /\ BothApproved(prop[p]) => BothApproved(r)
    BY <1>0, <2>1 DEF Vote, PropRec, BothApproved
  <2>. HIDE DEF r
  <2>3. r # NoProp
    BY <1>n, <2>1, <2>2 DEF Journeys
  <2>4. voted' \in [PropId -> SUBSET UserId]
    BY <1>0, <2>1
  <2>5. /\ creator' \in [PropId -> [UserId -> {"none", "creating", "pushed"}]]
        /\ \A q \in PropId, v \in UserId :
              creator'[q][v] # "none" => creator[q][v] # "none" \/ (q = p /\ BothApproved(r))
    BY <1>0, <2>1, CreatorMoves
  <2>. QED
    BY <1>f, <2>1, <2>2, <2>3, <2>4, <2>5, WriteRest
<1>3. CASE handle_decline_root_goal(p, u)
  <2>. DEFINE r == [prop[p] EXCEPT !.declined = TRUE]
  <2>1. /\ up /\ p \in Proposals /\ ~prop[p].finalized /\ prop[p].journey \in Journeys /\ SetProp(p, r)
        /\ UNCHANGED <<up, journey, registered, creator, roots, voted>>
    BY <1>3 DEF handle_decline_root_goal, Idle, vars
  <2>2. /\ r \in PropRec /\ r.journey = prop[p].journey /\ ~r.finalized
        /\ BothApproved(prop[p]) => BothApproved(r)
    BY <1>0, <2>1 DEF BothApproved, PropRec
  <2>. HIDE DEF r
  <2>3. r # NoProp
    BY <1>n, <2>1, <2>2 DEF Journeys
  <2>. QED
    BY <1>0, <1>f, <2>1, <2>2, <2>3, WriteRest
<1>4. CASE PushRoot(p, u)
  <2>1. /\ creator[p][u] = "creating" /\ UNCHANGED <<up, journey, registered, prop, propFile, voted>>
        /\ roots' \subseteq roots \cup {p}
        /\ \/ creator' = [creator EXCEPT ![p][u] = "pushed"]
           \/ creator' = [creator EXCEPT ![p][u] = "none"]
    BY <1>4 DEF PushRoot, vars
  <2>9. PICK s \in {"none", "creating", "pushed"} :
              s # "creating" /\ creator' = [creator EXCEPT ![p][u] = s]
    BY <2>1
  <2>2. BothApproved(propFile[p])
    BY <2>1 DEF JInv, CreatorsSawBoth
  <2>3. /\ creator' \in [PropId -> [UserId -> {"none", "creating", "pushed"}]]
        /\ \A q \in PropId, v \in UserId : creator'[q][v] # "none" => creator[q][v] # "none"
    BY <1>0, <2>1, <2>9, CreatorMoves
  <2>4. RootsWereAgreed' /\ roots' \subseteq PropId
    BY <2>1, <2>2 DEF JInv, JourneyTypeOK, RootsWereAgreed, BothApproved
  <2>5. Proposals' = Proposals /\ OpenFiles' = OpenFiles /\ Journeys' = Journeys
    BY <2>1, SameSets
  <2>6. JourneyTypeOK'
    BY <2>1, <2>3, <2>4, <2>5 DEF JInv, JourneyTypeOK
  <2>7. MemoryFollowsFiles' /\ Bounded' /\ FinalizedWasAgreed'
    BY <2>1, <2>5 DEF JInv, MemoryFollowsFiles, Bounded, FinalizedWasAgreed
  <2>8. CreatorsSawBoth'
    BY <2>1, <2>3 DEF JInv, CreatorsSawBoth, BothApproved
  <2>. QED
    BY <2>4, <2>6, <2>7, <2>8 DEF JInv
<1>5. CASE handle_finalize_root_goal(p, u)
  <2>. DEFINE r == [prop[p] EXCEPT !.finalized = TRUE]
  <2>1. /\ up /\ creator' = [creator EXCEPT ![p][u] = "none"]
        /\ UNCHANGED <<up, journey, registered, roots, voted>>
    BY <1>5 DEF handle_finalize_root_goal, Idle, vars
  <2>2. /\ creator' \in [PropId -> [UserId -> {"none", "creating", "pushed"}]]
        /\ \A q \in PropId, v \in UserId : creator'[q][v] # "none" => creator[q][v] # "none"
    BY <1>0, <2>1, CreatorMoves
  <2>3. CASE UNCHANGED <<prop, propFile>>
    BY <1>0, <2>1, <2>2, <2>3, SameSets, ProposalsRest
  <2>4. CASE /\ prop[p].journey \in Journeys /\ ~prop[p].declined /\ BothApproved(prop[p]) /\ SetProp(p, r)
    <3>1. /\ r \in PropRec /\ r.journey = prop[p].journey /\ BothApproved(r) /\ ~r.declined
      BY <1>0, <2>4 DEF BothApproved, PropRec
    <3>. HIDE DEF r
    <3>2. r # NoProp /\ p \in Proposals
      BY <1>n, <2>4, <3>1 DEF Journeys
    <3>. QED
      BY <1>0, <2>1, <2>2, <2>4, <3>1, <3>2, WriteRest
  <2>. QED
    BY <1>5, <2>3, <2>4 DEF handle_finalize_root_goal
<1>. QED
  BY <1>1, <1>2, <1>3, <1>4, <1>5

\* The inductive invariant of journeys and proposals.
LEMMA JourneyStepInv == ASSUME IInv, JInv, [NextAll]_allVars PROVE JInv'
<1>0. TypeOK
  BY DEF IInv
<1>1. CASE ConnectionStep
  <2>1. up' = up
    BY <1>1, ListedConns DEF ConnectionStep, Match, Decide, NewUser, handle_conn_discoverable,
       ClientSetsDiscoverable, ClientFindsMatch, UpdateUserDescription, SetUserPrivate, AiRanks,
       InsertProposal, EndPersist, ApproveConn, DeclineConn, SendUserConnMessage, append_message_to_file
  <2>. QED
    BY <1>1, <2>1, SameSets, ProposalsRest DEF ConnectionStep, journeyVars, JInv, JourneyTypeOK, Bounded
<1>2. CASE JourneyStep
  BY <1>0, <1>2, JourneySteps
<1>3. CASE ProposalStep
  BY <1>0, <1>3, ProposalSteps
<1>4. CASE CrashAll
  BY <1>4, ExitRest DEF CrashAll, Crash, Stop, JInv, JourneyTypeOK
<1>5. CASE Restart
  BY <1>5, RestartRest
<1>6. CASE UNCHANGED allVars
  BY <1>6, SameSets, ProposalsRest DEF allVars, journeyVars, vars, JInv, JourneyTypeOK, Bounded
<1>. QED
  BY <1>1, <1>2, <1>3, <1>4, <1>5, <1>6 DEF NextAll

LEMMA InitJourneys == InitAll => JInv
<1>. SUFFICES ASSUME InitAll PROVE JInv
  OBVIOUS
<1>1. Journeys = {} /\ Proposals = {} /\ OpenFiles = {}
  BY DEF InitAll, Journeys, Proposals, OpenFiles
<1>2. IsFiniteSet({}) /\ Cardinality({}) = 0
  BY FS_EmptySet
<1>3. JourneyTypeOK
  BY <1>1, <1>2, PropTypes, JourneyAssumption DEF InitAll, JourneyTypeOK, NoJourney
<1>. QED
  BY <1>1, <1>2, <1>3, PropTypes, JourneyAssumption DEF InitAll, JInv, MemoryFollowsFiles, Bounded,
     FinalizedWasAgreed, RootsWereAgreed, CreatorsSawBoth

\* The tables stay within their bounds, the proposals in memory are those of
\* the files, and whatever restarts, declines and deletions come in between, no
\* goal is pushed and no proposal finalized without both approvals.
THEOREM ProposalsStaySound == SpecAll => []JInv
<1>1. IInv /\ JInv /\ [NextAll]_allVars => JInv'
  BY JourneyStepInv
<1>. QED
  BY <1>1, InitJourneys, ConnectionsStaySound, PTL DEF SpecAll

\* A proposal is final, and a root goal in a journey, only with both approvals
\* (handle_finalize_root_goal, shared-journey.c).
THEOREM FinalMeansAgreed == SpecAll => [](FinalizedWasAgreed /\ RootsWereAgreed)
<1>1. JInv => FinalizedWasAgreed /\ RootsWereAgreed
  BY DEF JInv
<1>. QED
  BY <1>1, ProposalsStaySound, PTL

----------------------------------------------------------------------------
\* Votes. An approval is counted as the first participant's or, whoever else
\* gave it, as the second's: in a journey of two it is the voter's own.
ShortJourneys == \A j \in JourneyId : Len(journey[j]) <= 2

\* The proposals and votes stay, and no journey they name is replaced.
LEMMA VotesRest ==
    ASSUME FileVotes, UNCHANGED <<propFile, voted>>,
           \A p \in PropId : propFile[p].journey \in Journeys' =>
              propFile[p].journey \in Journeys /\ journey'[propFile[p].journey] = journey[propFile[p].journey]
    PROVE  FileVotes'
  BY DEF FileVotes

\* A record of a proposal is written that counts no approval but the voter's.
LEMMA VotesWrite ==
    ASSUME JInv, FileVotes, ShortJourneys, UNCHANGED journey,
           NEW p \in PropId, NEW r \in PropRec, SetProp(p, r), NEW j \in Journeys, r.journey = j,
           NEW V \in SUBSET UserId, voted' = [voted EXCEPT ![p] = V],
           r.aOk => journey[j][1] \in V,
           r.bOk => Len(journey[j]) >= 2 /\ journey[j][2] \in V
    PROVE  FileVotes'
<1>1. /\ propFile \in [PropId -> PropRec] /\ voted \in [PropId -> SUBSET UserId]
  BY DEF JInv, JourneyTypeOK
<1>2. \A q \in PropId : /\ propFile'[q] = IF q = p THEN r ELSE propFile[q]
                        /\ voted'[q] = IF q = p THEN V ELSE voted[q]
  BY <1>1 DEF SetProp
<1>3. Journeys' = Journeys
  BY SameSets
<1>. QED
  BY <1>2, <1>3 DEF FileVotes

\* Who votes in a journey of two is its first or its second participant.
LEMMA VoteIsOwn ==
    ASSUME JInv, ShortJourneys, NEW j \in Journeys, NEW u \in Users(j), NEW r \in PropRec
    PROVE  /\ Vote(r, j, u) \in PropRec /\ Vote(r, j, u).journey = r.journey
           /\ Vote(r, j, u).aOk => r.aOk \/ journey[j][1] = u
           /\ Vote(r, j, u).bOk => r.bOk \/ (Len(journey[j]) >= 2 /\ journey[j][2] = u)
<1>1. /\ j \in JourneyId /\ journey[j] \in Seq(UserId) /\ Len(journey[j]) \in Nat /\ Len(journey[j]) <= 2
  BY DEF JInv, JourneyTypeOK, Journeys, ShortJourneys
<1>2. PICK k \in 1 .. Len(journey[j]) : u = journey[j][k]
  BY DEF Users
<1>3. k = 1 \/ (k = 2 /\ Len(journey[j]) >= 2)
  BY <1>1, <1>2
<1>. QED
  BY <1>2, <1>3 DEF Vote, PropRec

LEMMA VotesStep ==
    ASSUME \A us \in Groups : Len(us) <= 2,
           IInv, JInv, ShortJourneys, FileVotes, [NextAll]_allVars
    PROVE  ShortJourneys' /\ FileVotes'
<1>0. /\ journey \in [JourneyId -> Seq(UserId)] /\ voted \in [PropId -> SUBSET UserId]
      /\ prop \in [PropId -> PropRec] /\ propFile \in [PropId -> PropRec]
      /\ Len(NoJourney) = 0
  BY DEF JInv, JourneyTypeOK, NoJourney
<1>1. CASE UNCHANGED <<journey, propFile, voted>>
  BY <1>1, SameSets, VotesRest DEF ShortJourneys
<1>2. ASSUME NEW j \in JourneyId, FreshJourney(j), NEW us, Len(us) <= 2,
             journey' = [journey EXCEPT ![j] = us], UNCHANGED <<propFile, voted>>
      PROVE  ShortJourneys' /\ FileVotes'
  <2>1. ShortJourneys'
    BY <1>0, <1>2 DEF ShortJourneys
  <2>2. \A p \in PropId : propFile[p].journey \in Journeys' =>
            propFile[p].journey \in Journeys /\ journey'[propFile[p].journey] = journey[propFile[p].journey]
    BY <1>0, <1>2 DEF FreshJourney, Journeys
  <2>. QED
    BY <1>2, <2>1, <2>2, VotesRest
<1>3. ASSUME UNCHANGED <<propFile, voted>>,
             \A j \in JourneyId : journey'[j] \in {NoJourney, journey[j]}
      PROVE  ShortJourneys' /\ FileVotes'
  <2>1. ShortJourneys'
    BY <1>0, <1>3 DEF ShortJourneys
  <2>2. \A p \in PropId : propFile[p].journey \in Journeys' =>
            propFile[p].journey \in Journeys /\ journey'[propFile[p].journey] = journey[propFile[p].journey]
    BY <1>3 DEF Journeys
  <2>. QED
    BY <1>3, <2>1, <2>2, VotesRest
<1>4. CASE EnsureSharedJourneyForPair
  <2>1. \A a, b : Len(<<a, b>>) <= 2
    OBVIOUS
  <2>. QED
    BY <1>1, <1>2, <1>4, <2>1 DEF EnsureSharedJourneyForPair, journeyVars, Exit
<1>5. ASSUME NEW us \in Groups, handle_create_shared_journey(us)
      PROVE  ShortJourneys' /\ FileVotes'
  <2>1. \E j \in JourneyId : /\ FreshJourney(j)
                             /\ journey' = [journey EXCEPT ![j] = us] \/ UNCHANGED journey
    BY <1>5, Zenon DEF handle_create_shared_journey
  <2>2. UNCHANGED <<propFile, voted>> /\ Len(us) <= 2
    BY <1>5 DEF handle_create_shared_journey
  <2>. QED
    BY <1>1, <1>2, <2>1, <2>2
<1>6. ASSUME NEW j \in JourneyId, handle_delete_shared_journey(j)
      PROVE  ShortJourneys' /\ FileVotes'
  BY <1>0, <1>3, <1>6 DEF handle_delete_shared_journey
<1>7. ASSUME NEW i \in 1 .. Len(userTable), DeleteUser(i)
      PROVE  ShortJourneys' /\ FileVotes'
  BY <1>0, <1>3, <1>7 DEF DeleteUser
<1>8. ASSUME NEW p \in PropId, NEW u \in UserId, NEW j \in JourneyId, handle_propose_root_goal(p, j, u)
      PROVE  ShortJourneys' /\ FileVotes'
  <2>. DEFINE n == [NoProp EXCEPT !.journey = j]
  <2>1. /\ j \in Journeys /\ u \in Users(j) /\ SetProp(p, Vote(n, j, u))
        /\ voted' = [voted EXCEPT ![p] = {u}] /\ UNCHANGED journey
    BY <1>8 DEF handle_propose_root_goal
  <2>2. n \in PropRec /\ n.journey = j /\ ~n.aOk /\ ~n.bOk
    BY DEF NoProp, PropRec
  <2>. HIDE DEF n
  <2>3. /\ Vote(n, j, u) \in PropRec /\ Vote(n, j, u).journey = j
        /\ Vote(n, j, u).aOk => journey[j][1] \in {u}
        /\ Vote(n, j, u).bOk => Len(journey[j]) >= 2 /\ journey[j][2] \in {u}
    BY <2>1, <2>2, VoteIsOwn
  <2>4. FileVotes'
    BY <2>1, <2>3, VotesWrite
  <2>. QED
    BY <2>1, <2>4 DEF ShortJourneys
<1>9. ASSUME NEW p \in PropId, NEW u \in UserId,
             handle_approve_root_goal(p, u) \/ handle_decline_root_goal(p, u) \/ handle_finalize_root_goal(p, u)
      PROVE  ShortJourneys' /\ FileVotes'
  <2>. DEFINE j == prop[p].journey
  <2>1. UNCHANGED journey
    BY <1>9 DEF handle_approve_root_goal, handle_decline_root_goal, handle_finalize_root_goal
  <2>2. CASE UNCHANGED <<propFile, voted>>
    BY <1>1, <2>1, <2>2
  <2>3. CASE ~UNCHANGED <<propFile, voted>>
    <3>1. j \in Journeys /\ p \in Proposals
      BY <1>9, <2>3, JourneyAssumption DEF handle_approve_root_goal, handle_decline_root_goal,
         handle_finalize_root_goal, Proposals, NoProp, Journeys
    <3>2. prop[p] = propFile[p] /\ prop[p] \in PropRec /\ voted[p] \in SUBSET UserId
      BY <1>0, <3>1 DEF JInv, MemoryFollowsFiles
    <3>3. /\ prop[p].aOk => journey[j][1] \in voted[p]
          /\ prop[p].bOk => Len(journey[j]) >= 2 /\ journey[j][2] \in voted[p]
      BY <3>1, <3>2 DEF FileVotes
    <3>4. CASE handle_approve_root_goal(p, u)
      <4>1. /\ SetProp(p, Vote(prop[p], j, u)) /\ u \in Users(j)
            /\ voted' = [voted EXCEPT ![p] = voted[p] \cup {u}]
        BY <1>0, <3>4 DEF handle_approve_root_goal
      <4>2. /\ Vote(prop[p], j, u) \in PropRec /\ Vote(prop[p], j, u).journey = j
            /\ Vote(prop[p], j, u).aOk => journey[j][1] \in voted[p] \cup {u}
            /\ Vote(prop[p], j, u).bOk => Len(journey[j]) >= 2 /\ journey[j][2] \in voted[p] \cup {u}
        BY <3>1, <3>2, <3>3, <4>1, VoteIsOwn
      <4>3. voted[p] \cup {u} \in SUBSET UserId
        BY <3>2
      <4>. HIDE DEF j
      <4>4. FileVotes'
        BY <2>1, <3>1, <4>1, <4>2, <4>3, VotesWrite
      <4>. QED
        BY <2>1, <4>4 DEF ShortJourneys
    <3>5. CASE handle_decline_root_goal(p, u) \/ handle_finalize_root_goal(p, u)
      <4>1. PICK r \in PropRec : /\ SetProp(p, r) /\ r.journey = j
                                 /\ r.aOk = prop[p].aOk /\ r.bOk = prop[p].bOk
        <5>1. \/ SetProp(p, [prop[p] EXCEPT !.declined = TRUE])
              \/ SetProp(p, [prop[p] EXCEPT !.finalized = TRUE])
          BY <2>3, <3>5 DEF handle_decline_root_goal, handle_finalize_root_goal
        <5>2. \A r \in {[prop[p] EXCEPT !.declined = TRUE], [prop[p] EXCEPT !.finalized = TRUE]} :
                 r \in PropRec /\ r.journey = j /\ r.aOk = prop[p].aOk /\ r.bOk = prop[p].bOk
          BY <3>2 DEF PropRec
        <5>. QED BY <5>1, <5>2
      <4>2. voted' = [voted EXCEPT ![p] = voted[p]]
        BY <1>0, <3>5 DEF handle_decline_root_goal, handle_finalize_root_goal
      <4>. HIDE DEF j
      <4>3. FileVotes'
        BY <2>1, <3>1, <3>2, <3>3, <4>1, <4>2, VotesWrite
      <4>. QED
        BY <2>1, <4>3 DEF ShortJourneys
    <3>. QED
      BY <1>9, <2>2, <2>3, <3>4, <3>5
  <2>. QED
    BY <2>2, <2>3
<1>10. CASE ConnectionStep \/ CrashAll \/ Restart \/ UNCHANGED allVars
  BY <1>1, <1>10 DEF ConnectionStep, CrashAll, Restart, allVars, journeyVars
<1>11. CASE JourneyStep
  BY <1>1, <1>4, <1>5, <1>6, <1>7, <1>11, Zenon DEF JourneyStep, handle_list_shared_journeys, ForgetDismissed
<1>12. CASE ProposalStep
  BY <1>1, <1>8, <1>9, <1>12, Zenon DEF ProposalStep, PushRoot
<1>. QED
  BY <1>10, <1>11, <1>12 DEF NextAll

\* In journeys of two, as those of a matched pair are, what becomes of a
\* proposal is what both participants agreed on by their own votes.
THEOREM GoalsStayAgreed == ASSUME \A us \in Groups : Len(us) <= 2 PROVE SpecAll => []GoalsWereAgreed
<1>1. InitAll => ShortJourneys /\ FileVotes
  BY JourneyAssumption DEF InitAll, ShortJourneys, FileVotes, NoJourney, NoProp, Journeys
<1>2. IInv /\ JInv /\ (ShortJourneys /\ FileVotes) /\ [NextAll]_allVars => (ShortJourneys /\ FileVotes)'
  BY VotesStep
<1>3. JInv /\ FileVotes => GoalsWereAgreed
  <2>. SUFFICES ASSUME JInv, FileVotes PROVE ApprovalsAreOwnVotes
    BY DEF JInv, GoalsWereAgreed
  <2>1. \A p \in Proposals : p \in PropId /\ prop[p] = propFile[p]
    BY DEF JInv, MemoryFollowsFiles, Proposals
  <2>. QED
    BY <2>1 DEF FileVotes, ApprovalsAreOwnVotes
<1>. QED
  BY <1>1, <1>2, <1>3, ConnectionsStaySound, ProposalsStaySound, PTL DEF SpecAll

----------------------------------------------------------------------------
\* The deletion of a user is the only step that shortens the table, and no
\* list keeps the id of a journey it drops.
THEOREM NothingDangles == SpecAll => DeletionLeavesNothingDangling
<1>1. IInv /\ JInv /\ [NextAll]_allVars =>
        (Len(userTable') < Len(userTable) =>
          \A j \in Journeys : journey'[j] = NoJourney => \A u \in UserId : j \notin registered'[u])
  <2>. SUFFICES ASSUME IInv, JInv, [NextAll]_allVars, Len(userTable') < Len(userTable),
                       NEW j \in Journeys, journey'[j] = NoJourney, NEW u \in UserId
                PROVE  j \notin registered'[u]
    OBVIOUS
  <2>0. /\ userTable \in Seq(UserId) /\ journey \in [JourneyId -> Seq(UserId)]
        /\ registered \in [UserId -> SUBSET JourneyId] /\ j \in JourneyId /\ journey[j] # NoJourney
        /\ Len(userTable) \in Nat
    BY DEF IInv, TypeOK, JInv, JourneyTypeOK, Journeys
  <2>1. PICK i \in 1 .. Len(userTable) : DeleteUser(i)
    <3>1. userTable' # userTable /\ \A v : Len(Append(userTable, v)) > Len(userTable)
      BY <2>0
    <3>2. ~(\E v \in UserId : NewUser(v))
      BY <3>1, <2>0 DEF NewUser
    <3>3. ~ConnectionStep
      BY <3>1, <3>2, ListedConns DEF ConnectionStep, userVars, Match, Decide, handle_conn_discoverable,
         ClientSetsDiscoverable, ClientFindsMatch, UpdateUserDescription, SetUserPrivate, AiRanks,
         InsertProposal, EndPersist, ApproveConn, DeclineConn, SendUserConnMessage, append_message_to_file
    <3>4. ~ProposalStep
      <4>1. ASSUME NEW p \in PropId, NEW v \in UserId, NEW k \in JourneyId, handle_propose_root_goal(p, k, v)
            PROVE  FALSE
        <5>1. UNCHANGED vars \/ \E c \in ConnId : SendUserConnMessage(c, v)
          BY <4>1, Zenon DEF handle_propose_root_goal
        <5>. QED
          BY <3>1, <5>1 DEF vars, SendUserConnMessage, userVars
      <4>. QED
        BY <3>1, <4>1, ZenonT(30) DEF vars, ProposalStep, handle_approve_root_goal,
           handle_decline_root_goal, PushRoot, handle_finalize_root_goal
    <3>5. ~(CrashAll \/ Restart \/ UNCHANGED allVars)
      BY <3>1 DEF CrashAll, Crash, Stop, Restart, InitConnectionSystem, userVars, allVars, vars
    <3>6. JourneyStep
      BY <3>3, <3>4, <3>5 DEF NextAll
    <3>. QED
      BY <3>1, <3>6, Zenon DEF JourneyStep, EnsureSharedJourneyForPair, LeaveEnsure, Exit, Stop,
         handle_create_shared_journey, handle_list_shared_journeys, handle_delete_shared_journey,
         ForgetDismissed, vars, userVars
  <2>2. j \in registered[userTable[i]]
    BY <2>0, <2>1 DEF DeleteUser
  <2>. QED
    BY <2>0, <2>1, <2>2 DEF DeleteUser
<1>. QED
  BY <1>1, ConnectionsStaySound, ProposalsStaySound, PTL DEF SpecAll, DeletionLeavesNothingDangling

----------------------------------------------------------------------------
\* Participants. A journey that was asked for is in the lists of all its users, so a
\* deletion drops it with any of them. A journey made for a confirmed pair is in
\* no list before somebody asks for the listing, hence NobodyMatched; a restart
\* reads no more of a list than there is place for, hence FewJourneys.
NobodyMatched == ConnId = {}
FewJourneys == IsFiniteSet(JourneyId) /\ Cardinality(JourneyId) < USER_MAX_JOURNEYS

NobodyConfirms == \A t \in Thread : pc[t] \notin {"persisting", "ensuring"}
AllListed == \A j \in Journeys : \A u \in Users(j) : u \in Known /\ j \in registered[u]

\* Without connections none is written, and none confirmed.
LEMMA ConfirmsStep ==
    ASSUME NobodyMatched, TypeOK, NobodyConfirms, [Next]_vars \/ Stop PROVE NobodyConfirms'
<1>1. pc \in [Thread -> Pcs]
  BY DEF TypeOK
<1>2. ASSUME NEW t, NEW s, s \notin {"persisting", "ensuring"}, NEW w, Goto(t, s, w) PROVE NobodyConfirms'
  BY <1>1, <1>2 DEF NobodyConfirms, Goto
<1>3. CASE pc' = pc
  BY <1>3 DEF NobodyConfirms
<1>4. ASSUME NEW t, NEW i, NEW people, FindMatchForUser(t, i, people) PROVE NobodyConfirms'
  BY <1>2, <1>3, <1>4 DEF FindMatchForUser
<1>5. CASE Stop
  BY <1>5 DEF Stop, NobodyConfirms
<1>6. \A u : ListConnsForUser(u) = {}
  BY ListedConns DEF NobodyMatched
<1>7. ASSUME NEW t \in Thread, Match(t) PROVE NobodyConfirms'
  <2>1. ASSUME InsertProposal(t) PROVE NobodyConfirms'
    <3>1. \/ \E w : Goto(t, "idle", w)
          \/ \E w : Goto(t, "inserting", w)
      BY <2>1, Zenon DEF InsertProposal, NobodyMatched
    <3>. QED
      BY <1>2, <3>1
  <2>2. ~ EndPersist(t)
    BY DEF EndPersist, NobodyConfirms
  <2>. QED
    BY <1>2, <1>3, <1>4, <1>7, <2>1, <2>2 DEF Match, ClientSetsDiscoverable, UpdateUserDescription,
       ClientFindsMatch, SetUserPrivate, AiRanks
<1>8. CASE Decide
  BY <1>2, <1>4, <1>6, <1>8, Zenon DEF Decide, handle_conn_discoverable, append_message_to_file
<1>9. CASE LeaveEnsure
  BY <1>2, <1>9 DEF LeaveEnsure
<1>10. CASE Manage
  BY <1>3, <1>5, <1>10 DEF Manage, NewUser, handle_delete_user, Crash, InitConnectionSystem
<1>. QED
  BY <1>3, <1>5, <1>7, <1>8, <1>9, <1>10 DEF Next, vars

\* A deletion leaves everybody else in the table.
LEMMA CompactKeeps ==
    ASSUME NEW S, NEW t \in Seq(S), NEW i \in 1 .. Len(t), NEW k \in 1 .. Len(t), t[k] # t[i]
    PROVE  \E m \in 1 .. Len(Compact(t, i)) : Compact(t, i)[m] = t[k]
<1>1. Len(t) \in Nat /\ Len(Compact(t, i)) = Len(t) - 1
  BY CompactType
<1>2. CASE k < i
  BY <1>1, <1>2 DEF Compact
<1>3. CASE k > i
  <2>1. k - 1 \in 1 .. Len(t) - 1 /\ ~(k - 1 < i) /\ (k - 1) + 1 = k
    BY <1>1, <1>3
  <2>. QED
    BY <1>1, <2>1 DEF Compact
<1>. QED
  BY <1>1, <1>2, <1>3

\* Every journey there is was there, with the same users, who stay in the table
\* and keep it in their lists.
LEMMA ListedStay ==
    ASSUME AllListed,
           \A j \in Journeys' : j \in Journeys /\ journey'[j] = journey[j],
           \A j \in Journeys' : \A u \in Users(j) : u \in Known => u \in Known',
           \A j \in Journeys' : \A u \in Users(j) : j \in registered[u] => j \in registered'[u]
    PROVE  AllListed'
<1>1. \A j \in Journeys' : Users(j)' = Users(j)
  BY DEF Users
<1>. QED
  BY <1>1 DEF AllListed

LEMMA ListedStep ==
    ASSUME NobodyMatched, FewJourneys, IInv, JInv, NobodyConfirms, AllListed, [NextAll]_allVars
    PROVE  AllListed'
<1>0. /\ journey \in [JourneyId -> Seq(UserId)] /\ registered \in [UserId -> SUBSET JourneyId]
      /\ userTable \in Seq(UserId) /\ Len(userTable) \in Nat
      /\ \A j \in Journeys : Users(j) \subseteq UserId
  <2>1. /\ journey \in [JourneyId -> Seq(UserId)] /\ registered \in [UserId -> SUBSET JourneyId]
        /\ userTable \in Seq(UserId) /\ Len(userTable) \in Nat
    BY DEF IInv, TypeOK, JInv, JourneyTypeOK
  <2>. QED
    BY <2>1 DEF Users, Journeys
<1>1. CASE UNCHANGED <<journey, registered, userTable>>
  BY <1>1, ListedStay DEF Journeys, Known
<1>2. ASSUME UNCHANGED <<journey, userTable>>, \A u \in UserId : registered[u] \cap Journeys \subseteq registered'[u]
      PROVE  AllListed'
  BY <1>0, <1>2, ListedStay DEF Journeys, Known
<1>3. ASSUME NEW u \in UserId, NewUser(u), UNCHANGED journeyVars PROVE AllListed'
  <2>1. Known \subseteq Known'
    <3>1. userTable' = Append(userTable, u)
      BY <1>3 DEF NewUser
    <3>2. Len(userTable') = Len(userTable) + 1 /\ \A i \in 1 .. Len(userTable) : userTable'[i] = userTable[i]
      BY <1>0, <3>1
    <3>. QED
      BY <1>0, <3>2 DEF Known
  <2>. QED
    BY <1>3, <2>1, ListedStay DEF journeyVars, Journeys
<1>4. ASSUME NEW us \in Groups, handle_create_shared_journey(us) PROVE AllListed'
  <2>. DEFINE unknown == {k \in 1 .. Len(us) : us[k] \notin Known}
              done    == {us[k] : k \in {i \in 1 .. Len(us) : \A k \in unknown : i < k}}
  <2>1. PICK j \in JourneyId :
           /\ registered' = [u \in UserId |-> IF u \in done THEN registered[u] \cup {j} ELSE registered[u]]
           /\ \/ unknown = {} /\ journey' = [journey EXCEPT ![j] = us] /\ UNCHANGED vars
              \/ UNCHANGED journey /\ Exit
    BY <1>4, Zenon DEF handle_create_shared_journey
  <2>2. \A u \in UserId : registered[u] \subseteq registered'[u]
    BY <2>1
  <2>3. CASE UNCHANGED journey /\ Exit
    BY <1>2, <2>2, <2>3 DEF Exit, Stop, userVars
  <2>4. CASE unknown = {} /\ journey' = [journey EXCEPT ![j] = us] /\ UNCHANGED vars
    <3>1. us \in Seq(UserId) /\ Known' = Known
      BY <2>4, JourneyAssumption DEF vars, Known
    <3>2. ASSUME NEW k \in Journeys', NEW u \in Users(k)' PROVE u \in Known' /\ k \in registered'[u]
      <4>1. CASE k # j
        <5>1. k \in Journeys /\ u \in Users(k)
          BY <1>0, <2>4, <3>2, <4>1 DEF Journeys, Users
        <5>. QED
          BY <1>0, <2>2, <3>1, <5>1 DEF AllListed
      <4>2. CASE k = j
        <5>1. PICK i \in 1 .. Len(us) : u = us[i]
          BY <1>0, <2>4, <3>2, <4>2 DEF Users
        <5>2. u \in Known /\ u \in done /\ u \in UserId
          BY <2>4, <3>1, <5>1
        <5>. QED
          BY <2>1, <3>1, <4>2, <5>2
      <4>. QED
        BY <4>1, <4>2
    <3>. QED
      BY <3>2 DEF AllListed
  <2>. QED
    BY <2>1, <2>3, <2>4
<1>5. ASSUME NEW j \in JourneyId, handle_delete_shared_journey(j) PROVE AllListed'
  <2>1. journey' = [journey EXCEPT ![j] = NoJourney] /\ UNCHANGED <<registered, userTable>>
    BY <1>5 DEF handle_delete_shared_journey, vars
  <2>2. \A k \in Journeys' : k \in Journeys /\ journey'[k] = journey[k]
    BY <1>0, <2>1 DEF Journeys
  <2>. QED
    BY <2>1, <2>2, ListedStay DEF Known
<1>6. ASSUME NEW i \in 1 .. Len(userTable), DeleteUser(i) PROVE AllListed'
  <2>. DEFINE u == userTable[i]
  <2>1. /\ journey' = [j \in JourneyId |-> IF j \in registered[u] THEN NoJourney ELSE journey[j]]
        /\ registered' = [v \in UserId |-> IF v = u THEN {} ELSE registered[v] \ registered[u]]
        /\ userTable' = Compact(userTable, i)
    BY <1>6 DEF DeleteUser, handle_delete_user
  <2>2. \A j \in Journeys' : j \in Journeys /\ journey'[j] = journey[j] /\ j \notin registered[u]
    BY <1>0, <2>1 DEF Journeys
  <2>3. \A j \in Journeys' : \A v \in Users(j) : v # u /\ v \in UserId
    BY <1>0, <2>2 DEF AllListed
  <2>. HIDE DEF u
  <2>4. \A v \in Known : v # u => v \in Known'
    <3>. SUFFICES ASSUME NEW v \in Known, v # u PROVE v \in Known'
      OBVIOUS
    <3>1. PICK k \in 1 .. Len(userTable) : v = userTable[k]
      BY DEF Known
    <3>2. \E m \in 1 .. Len(Compact(userTable, i)) : Compact(userTable, i)[m] = userTable[k]
      BY <1>0, <3>1, CompactKeeps DEF u
    <3>. QED
      BY <2>1, <3>1, <3>2 DEF Known
  <2>5. \A j \in Journeys' : \A v \in Users(j) : j \in registered[v] => j \in registered'[v]
    BY <2>1, <2>2, <2>3
  <2>. QED
    BY <2>2, <2>3, <2>4, <2>5, ListedStay
<1>7. CASE Restart
  <2>1. PICK kept \in [UserId -> SUBSET JourneyId] :
          /\ \A u \in UserId :
                /\ kept[u] \subseteq registered[u]
                /\ \/ kept[u] = registered[u] /\ Cardinality(kept[u]) < USER_MAX_JOURNEYS
                   \/ Cardinality(kept[u]) = USER_MAX_JOURNEYS - 1
          /\ registered' = kept
    BY <1>7, Zenon DEF Restart
  <2>2. UNCHANGED <<journey, userTable>>
    BY <1>7 DEF Restart, InitConnectionSystem, userVars
  <2>3. ASSUME NEW u \in UserId, Cardinality(kept[u]) = USER_MAX_JOURNEYS - 1 PROVE kept[u] = registered[u]
    <3>1. kept[u] \subseteq JourneyId /\ kept[u] \subseteq registered[u] /\ registered[u] \subseteq JourneyId
      BY <1>0, <2>1
    <3>2. CASE kept[u] = JourneyId
      BY <3>1, <3>2
    <3>3. CASE kept[u] # JourneyId
      <4>1. Cardinality(kept[u]) < Cardinality(JourneyId) /\ Cardinality(JourneyId) \in Nat
            /\ Cardinality(kept[u]) \in Nat
        BY <3>1, <3>3, FS_Subset, FS_CardinalityType DEF FewJourneys
      <4>. QED
        BY <2>3, <4>1, JourneyAssumption DEF FewJourneys
    <3>. QED
      BY <3>2, <3>3
  <2>4. \A u \in UserId : registered[u] \cap Journeys \subseteq registered'[u]
    BY <2>1, <2>3
  <2>. QED
    BY <1>2, <2>2, <2>4
<1>8. ASSUME NEW u \in UserId, NEW j \in JourneyId, ForgetDismissed(u, j) PROVE AllListed'
  <2>1. /\ j \notin Journeys /\ registered' = [registered EXCEPT ![u] = @ \ {j}]
        /\ UNCHANGED <<journey, userTable>>
    BY <1>8 DEF ForgetDismissed, vars
  <2>. QED
    BY <1>0, <1>2, <2>1
<1>9. ASSUME NEW u \in UserId, handle_list_shared_journeys(u) PROVE AllListed'
  <2>1. /\ registered' = [registered EXCEPT ![u] = @ \cup {j \in Journeys : u \in Users(j)}]
        /\ UNCHANGED <<journey, userTable>>
    BY <1>9 DEF handle_list_shared_journeys, vars
  <2>. QED
    BY <1>0, <1>2, <2>1
<1>10. CASE EnsureSharedJourneyForPair
  BY <1>10 DEF EnsureSharedJourneyForPair, NobodyConfirms
<1>11. CASE ConnectionStep
  <2>1. CASE UNCHANGED userTable
    BY <1>1, <1>11, <2>1 DEF ConnectionStep, journeyVars
  <2>2. UNCHANGED userTable \/ \E u \in UserId : NewUser(u)
    BY <1>11, ListedConns DEF ConnectionStep, userVars, Match, Decide, handle_conn_discoverable,
       ClientSetsDiscoverable, ClientFindsMatch, UpdateUserDescription, SetUserPrivate, AiRanks,
       InsertProposal, EndPersist, ApproveConn, DeclineConn, SendUserConnMessage, append_message_to_file
  <2>. QED
    BY <1>3, <1>11, <2>1, <2>2 DEF ConnectionStep
<1>12. CASE ProposalStep
  <2>1. ASSUME NEW p \in PropId, NEW v \in UserId, NEW k \in JourneyId, handle_propose_root_goal(p, k, v)
        PROVE  UNCHANGED <<journey, registered, userTable>>
    <3>1. UNCHANGED vars \/ \E c \in ConnId : SendUserConnMessage(c, v)
      BY <2>1, Zenon DEF handle_propose_root_goal
    <3>. QED
      BY <2>1, <3>1 DEF vars, SendUserConnMessage, userVars, handle_propose_root_goal
  <2>2. UNCHANGED <<journey, registered, userTable>>
    BY <1>12, <2>1, ZenonT(30) DEF vars, ProposalStep, handle_approve_root_goal, handle_decline_root_goal,
       PushRoot, handle_finalize_root_goal
  <2>. QED
    BY <1>1, <2>2
<1>13. CASE CrashAll \/ UNCHANGED allVars
  BY <1>1, <1>13 DEF CrashAll, Crash, Stop, userVars, allVars, vars, journeyVars
<1>14. CASE JourneyStep
  BY <1>4, <1>5, <1>6, <1>8, <1>9, <1>10, <1>14 DEF JourneyStep
<1>. QED
  BY <1>7, <1>11, <1>12, <1>13, <1>14 DEF NextAll

\* As long as nobody is matched, and the lists of users have room for all journeys
\* there may be, the table of journeys names only people there are: creation
\* registers a journey with each participant, or ends the process without it
\* (shared-journey.c), a dismissal drops it before anybody forgets it, and the
\* deletion of a user drops all in the user's list (central-users.c:195).
THEOREM JourneysStaySound == ASSUME NobodyMatched, FewJourneys PROVE SpecAll => []JourneysSound
<1>1. InitAll => NobodyConfirms /\ AllListed
  BY DEF InitAll, Init, NobodyConfirms, AllListed, Journeys
<1>2. IInv /\ JInv /\ (NobodyConfirms /\ AllListed) /\ [NextAll]_allVars => (NobodyConfirms /\ AllListed)'
  <2>. SUFFICES ASSUME IInv, JInv, NobodyConfirms, AllListed, [NextAll]_allVars
                PROVE  NobodyConfirms' /\ AllListed'
    OBVIOUS
  <2>1. TypeOK /\ ([Next]_vars \/ Stop)
    BY SystemStepOrStutter DEF IInv
  <2>. QED
    BY <2>1, ConfirmsStep, ListedStep
<1>3. JInv /\ AllListed => JourneysSound
  BY DEF JInv, AllListed, JourneysSound, ParticipantsExist
<1>. QED
  BY <1>1, <1>2, <1>3, ConnectionsStaySound, ProposalsStaySound, PTL DEF SpecAll

=============================================================================
