------------------------------ MODULE MatchSystem ------------------------------
(****************************************************************************)
(* Connections together with what they lead to: the shared journeys of the  *)
(* central server, the local journey list of every user, and the root-goal  *)
(* proposals two participants vote on before a goal is created              *)
(* (srv/match-system/shared-journey.c, srv/central-server/central-users.c   *)
(* and the proposal buttons of the React client).                           *)
(*                                                                          *)
(* Every handler here runs under central_handler_lock, as the thread        *)
(* Central of module Connections; the files of journeys, users and          *)
(* proposals are written whole, in the step of the handler that changes     *)
(* them. The default journey every user has is not in the model: it takes   *)
(* one of the USER_MAX_JOURNEYS places.                                     *)
(****************************************************************************)
EXTENDS Connections

CONSTANTS
    JourneyId, PropId,   \* ids of shared journeys and of proposals
    MAX_JOURNEYS,        \* slots of SharedJourneyTable
    USER_MAX_JOURNEYS,   \* places in User.journeys
    MAX_PROPOSALS,       \* MAX_PENDING_ROOT_PROPOSALS
    Groups,              \* participant lists /journey/create is called with
    MayDismiss           \* bound of the model: journeys are dismissed at all

NoJourney == <<>>

ASSUME JourneyAssumption ==
    /\ NoId \notin JourneyId
    /\ MAX_JOURNEYS \in Nat /\ USER_MAX_JOURNEYS \in Nat \ {0} /\ MAX_PROPOSALS \in Nat
    /\ Groups \subseteq Seq(UserId) \ {<<>>}
    /\ MayDismiss \in BOOLEAN

VARIABLES
    journey,      \* SharedJourneyTable and its files: the users of each journey
    registered,   \* User.journeys, without the default journey
    prop,         \* RootProposalTable
    propFile,     \* the files of the proposals
    creator,      \* what each user's client does about an approved proposal
    roots,        \* proposals whose root goal has been pushed to the journey
    voted         \* history: users who proposed or approved

journeyVars == <<journey, registered, prop, propFile, creator, roots, voted>>
allVars == <<vars, journeyVars>>

PropRec == [journey : JourneyId \cup {NoId}, aOk : BOOLEAN, bOk : BOOLEAN,
            declined : BOOLEAN, finalized : BOOLEAN]
NoProp == [journey |-> NoId, aOk |-> FALSE, bOk |-> FALSE,
           declined |-> FALSE, finalized |-> FALSE]

Journeys == {j \in JourneyId : journey[j] # NoJourney}
Proposals == {p \in PropId : prop[p] # NoProp}

JourneyTypeOK ==
    /\ journey \in [JourneyId -> Seq(UserId)]
    /\ registered \in [UserId -> SUBSET JourneyId]
    /\ prop \in [PropId -> PropRec] /\ propFile \in [PropId -> PropRec]
    /\ creator \in [PropId -> [UserId -> {"none", "creating", "pushed"}]]
    /\ roots \subseteq PropId
    /\ voted \in [PropId -> SUBSET UserId]
    /\ Cardinality(Journeys) <= MAX_JOURNEYS /\ Cardinality(Proposals) <= MAX_PROPOSALS

Known == {userTable[i] : i \in 1 .. Len(userTable)}
Users(j) == {journey[j][k] : k \in 1 .. Len(journey[j])}
find_shared_journey_by_pair(a, b) == {j \in Journeys : {a, b} \subseteq Users(j)}
FreshJourney(j) ==
    /\ journey[j] = NoJourney
    /\ \A u \in UserId : j \notin registered[u]
    /\ \A p \in PropId : prop[p].journey # j /\ propFile[p].journey # j

RoomForJourney == Cardinality(Journeys) < MAX_JOURNEYS

\* change_assert fails: the message is printed and the process exits.
Exit == Stop /\ creator' = [p \in PropId |-> [u \in UserId |-> "none"]]
             /\ prop' = [p \in PropId |-> NoProp]

----------------------------------------------------------------------------
\* Shared journeys

\* The title is generated by an AI call with a fallback, so it is never empty.
EnsureSharedJourneyForPair ==
    /\ up /\ pc[Central] = "ensuring"
    /\ LET c == conn[job[Central].conn]
       IN  \/ /\ find_shared_journey_by_pair(c.a, c.b) # {}
              /\ LeaveEnsure /\ UNCHANGED journeyVars
           \/ /\ find_shared_journey_by_pair(c.a, c.b) = {}
              /\ RoomForJourney /\ {c.a, c.b} \subseteq Known
              /\ \E j \in JourneyId :
                    FreshJourney(j) /\ journey' = [journey EXCEPT ![j] = <<c.a, c.b>>]
              /\ LeaveEnsure
              /\ UNCHANGED <<registered, prop, propFile, creator, roots, voted>>
           \/ /\ find_shared_journey_by_pair(c.a, c.b) = {}
              /\ ~RoomForJourney \/ ~({c.a, c.b} \subseteq Known)
              /\ Exit /\ UNCHANGED <<journey, registered, propFile, roots, voted>>

\* Each participant is looked up, added and registered in turn; an unknown
\* one ends the process with the earlier ones already saved.
handle_create_shared_journey(us) ==
    LET unknown == {k \in 1 .. Len(us) : us[k] \notin Known}
        done    == {us[k] : k \in {i \in 1 .. Len(us) : \A k \in unknown : i < k}}
    IN  /\ Idle(Central)
        /\ RoomForJourney
        /\ \E j \in JourneyId :
              /\ FreshJourney(j)
              /\ registered' = [u \in UserId |-> IF u \in done THEN registered[u] \cup {j}
                                                              ELSE registered[u]]
              /\ \/ /\ unknown = {}
                    /\ journey' = [journey EXCEPT ![j] = us]
                    /\ UNCHANGED <<vars, prop, creator>>
                 \/ /\ unknown # {}
                    /\ UNCHANGED journey
                    /\ Exit
        /\ UNCHANGED <<propFile, roots, voted>>

\* Listing heals the user's own journey list.
handle_list_shared_journeys(u) ==
    /\ Idle(Central) /\ u \in Known
    /\ registered' = [registered EXCEPT ![u] = @ \cup {j \in Journeys : u \in Users(j)}]
    /\ UNCHANGED <<vars, journey, prop, propFile, creator, roots, voted>>

\* The journey goes away for everybody; who else has it registered keeps the id.
handle_delete_shared_journey(j) ==
    /\ MayDismiss /\ Idle(Central) /\ j \in Journeys
    /\ journey' = [journey EXCEPT ![j] = NoJourney]
    /\ UNCHANGED <<vars, registered, prop, propFile, creator, roots, voted>>

\* handle_post_journey_dismiss, after central has answered: the client prunes
\* the id from its own user's list.
ForgetDismissed(u, j) ==
    /\ MayDismiss /\ up /\ j \in registered[u] \ Journeys
    /\ registered' = [registered EXCEPT ![u] = @ \ {j}]
    /\ UNCHANGED <<vars, journey, prop, propFile, creator, roots, voted>>

\* Deleting a user drops every journey in its local list and prunes it from
\* everybody's list.
\* (faults: the journeys stay; the ids stay in the other users' lists)
DeleteUser_KeepsJourneys(i) ==
    /\ handle_delete_user(i)
    /\ registered' = [v \in UserId |-> registered[v] \ registered[userTable[i]]]
    /\ UNCHANGED <<journey, prop, propFile, creator, roots, voted>>
DeleteUser_OwnListOnly(i) ==
    LET u == userTable[i]
    IN  /\ handle_delete_user(i)
        /\ journey' = [j \in JourneyId |-> IF j \in registered[u] THEN NoJourney ELSE journey[j]]
        /\ registered' = [registered EXCEPT ![u] = {}]
        /\ UNCHANGED <<prop, propFile, creator, roots, voted>>

DeleteUser(i) ==
    LET u == userTable[i]
    IN  /\ handle_delete_user(i)
        /\ journey' = [j \in JourneyId |-> IF j \in registered[u] THEN NoJourney ELSE journey[j]]
        /\ registered' = [v \in UserId |-> IF v = u THEN {} ELSE registered[v] \ registered[u]]
        /\ UNCHANGED <<prop, propFile, creator, roots, voted>>

----------------------------------------------------------------------------
\* Root-goal proposals. a and b are the first participant and any other one.

Vote(r, j, u) == IF journey[j][1] = u THEN [r EXCEPT !.aOk = TRUE]
                                      ELSE [r EXCEPT !.bOk = TRUE]
SetProp(p, r) == prop' = [prop EXCEPT ![p] = r] /\ propFile' = [propFile EXCEPT ![p] = r]

\* The chat message that shows the proposal to the partner, when the first
\* two participants have a confirmed connection the proposer belongs to.
handle_propose_root_goal(p, j, u) ==
    /\ Idle(Central) /\ lock = NoId
    /\ j \in Journeys /\ u \in Users(j)
    /\ Cardinality(Proposals) < MAX_PROPOSALS
    /\ prop[p] = NoProp /\ propFile[p] = NoProp
    /\ SetProp(p, Vote([NoProp EXCEPT !.journey = j], j, u))
    /\ voted' = [voted EXCEPT ![p] = {u}]
    /\ LET chats == {c \in ConnId : /\ Len(journey[j]) >= 2
                                    /\ c \in find_pair(journey[j][1], journey[j][2])
                                    /\ conn[c].state = "confirmed" /\ Participant(c, u)}
       IN  IF chats # {} /\ Cardinality(LiveMsgs) < MAX_MESSAGES
           THEN \E c \in chats : SendUserConnMessage(c, u)
           ELSE UNCHANGED vars
    /\ UNCHANGED <<journey, registered, creator, roots>>

BothApproved(r) == r.aOk /\ r.bOk

\* The partner's client answers both_approved by starting to create the goal.
handle_approve_root_goal(p, u) ==
    LET r == Vote(prop[p], prop[p].journey, u)
    IN  /\ Idle(Central)
        /\ p \in Proposals /\ prop[p].journey \in Journeys /\ u \in Users(prop[p].journey)
        /\ ~prop[p].declined /\ ~prop[p].finalized
        /\ creator[p][u] = "none"
        /\ SetProp(p, r)
        /\ voted' = [voted EXCEPT ![p] = @ \cup {u}]
        /\ creator' = IF BothApproved(r) THEN [creator EXCEPT ![p][u] = "creating"] ELSE creator
        /\ UNCHANGED <<vars, journey, registered, roots>>

\* (fault: a finalized proposal can be declined)
handle_decline_root_goal_Late(p, u) ==
    /\ Idle(Central)
    /\ p \in Proposals /\ prop[p].journey \in Journeys /\ u \in Users(prop[p].journey)
    /\ SetProp(p, [prop[p] EXCEPT !.declined = TRUE])
    /\ UNCHANGED <<vars, journey, registered, creator, roots, voted>>

handle_decline_root_goal(p, u) ==
    /\ Idle(Central)
    /\ p \in Proposals /\ prop[p].journey \in Journeys /\ u \in Users(prop[p].journey)
    /\ ~prop[p].finalized
    /\ SetProp(p, [prop[p] EXCEPT !.declined = TRUE])
    /\ UNCHANGED <<vars, journey, registered, creator, roots, voted>>

\* handle_post_goal_create_shared_root in the client of u: fetch the journey,
\* create and decompose the goal (a failed AI call ends it), push the journey.
PushRoot(p, u) ==
    /\ up /\ creator[p][u] = "creating"
    /\ \/ /\ creator' = [creator EXCEPT ![p][u] = "pushed"]
          /\ roots' = IF prop[p].journey \in Journeys THEN roots \cup {p} ELSE roots
       \/ creator' = [creator EXCEPT ![p][u] = "none"] /\ UNCHANGED roots
    /\ UNCHANGED <<vars, journey, registered, prop, propFile, voted>>

\* Its last call: central marks the proposal, or answers that it is gone. The
\* handler asserts both approvals; RootsWereAgreed says that it never fails.
handle_finalize_root_goal(p, u) ==
    /\ Idle(Central) /\ creator[p][u] = "pushed"
    /\ LET open == prop[p].journey \in Journeys /\ ~prop[p].declined /\ ~prop[p].finalized
       IN  \/ /\ open /\ BothApproved(prop[p])
              /\ SetProp(p, [prop[p] EXCEPT !.finalized = TRUE])
           \/ ~open /\ UNCHANGED <<prop, propFile>>
    /\ creator' = [creator EXCEPT ![p][u] = "none"]
    /\ UNCHANGED <<vars, journey, registered, roots, voted>>

----------------------------------------------------------------------------
\* Crash and restart

CrashAll == /\ Crash
            /\ prop' = [p \in PropId |-> NoProp]
            /\ creator' = [p \in PropId |-> [u \in UserId |-> "none"]]
            /\ UNCHANGED <<journey, registered, propFile, roots, voted>>

OpenFiles == {p \in PropId : propFile[p] # NoProp /\ ~propFile[p].declined /\ ~propFile[p].finalized}

\* init_proposals skips what was declined or finalized; load_user_journeys
\* reads no more ids than there is place for.
Restart ==
    /\ InitConnectionSystem
    /\ \E loaded \in SUBSET OpenFiles :
          /\ \/ loaded = OpenFiles /\ Cardinality(loaded) <= MAX_PROPOSALS
             \/ Cardinality(loaded) = MAX_PROPOSALS
          /\ prop' = [p \in PropId |-> IF p \in loaded THEN propFile[p] ELSE NoProp]
    /\ \E kept \in [UserId -> SUBSET JourneyId] :
          /\ \A u \in UserId :
                /\ kept[u] \subseteq registered[u]
                /\ \/ kept[u] = registered[u] /\ Cardinality(kept[u]) < USER_MAX_JOURNEYS
                   \/ Cardinality(kept[u]) = USER_MAX_JOURNEYS - 1
          /\ registered' = kept
    /\ UNCHANGED <<journey, propFile, creator, roots, voted>>

----------------------------------------------------------------------------

InitAll ==
    /\ Init
    /\ journey = [j \in JourneyId |-> NoJourney]
    /\ registered = [u \in UserId |-> {}]
    /\ prop = [p \in PropId |-> NoProp] /\ propFile = [p \in PropId |-> NoProp]
    /\ creator = [p \in PropId |-> [u \in UserId |-> "none"]]
    /\ roots = {} /\ voted = [p \in PropId |-> {}]

ConnectionStep ==
    /\ \/ \E t \in Thread : Match(t)
       \/ Decide
       \/ \E u \in UserId : NewUser(u)
    /\ UNCHANGED journeyVars

JourneyStep ==
    \/ EnsureSharedJourneyForPair
    \/ \E us \in Groups : handle_create_shared_journey(us)
    \/ \E u \in UserId : handle_list_shared_journeys(u)
    \/ \E j \in JourneyId : handle_delete_shared_journey(j)
    \/ \E u \in UserId, j \in JourneyId : ForgetDismissed(u, j)
    \/ \E i \in 1 .. Len(userTable) : DeleteUser(i)

ProposalStep ==
    \E p \in PropId, u \in UserId :
        \/ \E j \in JourneyId : handle_propose_root_goal(p, j, u)
        \/ handle_approve_root_goal(p, u) \/ handle_decline_root_goal(p, u)
        \/ PushRoot(p, u) \/ handle_finalize_root_goal(p, u)

NextAll == ConnectionStep \/ JourneyStep \/ ProposalStep \/ CrashAll \/ Restart

SpecAll == InitAll /\ [][NextAll]_allVars

\* The thread inside a handler of the central server goes on until the handler
\* ends: pthreads are scheduled, and the AI answers or refuses (the
\* code sets no time limit), and a fallback follows.
CentralGoesOn ==
    /\ EndPersist(Central) \/ append_message_to_file \/ AiRanks(Central) \/ InsertProposal(Central)
    /\ UNCHANGED journeyVars
FairSpec == SpecAll /\ WF_allVars(CentralGoesOn) /\ WF_allVars(EnsureSharedJourneyForPair)
                    /\ \A t \in Clients : WF_allVars(EndPersist(t) /\ UNCHANGED journeyVars)

----------------------------------------------------------------------------
\* Properties

\* A proposal is finalized only with both approvals and never after a decline,
\* in memory and in its file, whatever restarts come in between.
FinalizedWasAgreed ==
    \A p \in PropId : \A r \in {prop[p], propFile[p]} :
        r.finalized => r.aOk /\ r.bOk /\ ~r.declined

\* "Only when both have approved does any client finalize the proposal by
\* running the goal-creation pipeline" (shared-journey.c:36): a root goal
\* exists only for a proposal both sides approved.
RootsWereAgreed == \A p \in roots : propFile[p].aOk /\ propFile[p].bOk

\* "a/b indices refer to the journey's users[0]/users[1]"
\* (shared-journey.c:50): an approval counted for a participant is one that
\* participant gave.
ApprovalsAreOwnVotes ==
    \A p \in Proposals :
        prop[p].journey \in Journeys =>
            LET us == journey[prop[p].journey]
            IN  /\ prop[p].aOk => us[1] \in voted[p]
                /\ prop[p].bOk => Len(us) >= 2 /\ us[2] \in voted[p]

\* "On the transition into CONFIRMED we materialize the shared journey"
\* (connections.c:87), and it takes no further request: the handler of the second
\* approval gets there, or the confirmation is declined.
ConfirmationLeadsToJourney ==
    \A c \in ConnId :
        (conn[c].state = "confirmed")
            ~> (conn[c].state = "declined" \/ find_shared_journey_by_pair(conn[c].a, conn[c].b) # {})

\* "Deletes the user and every journey they take part in"
\* (central-users.c:151): no shared journey has a participant who is gone.
ParticipantsExist == up => \A j \in Journeys : Users(j) \subseteq Known

\* "... so nothing dangles" (central-users.c:154): the deletion of a user
\* leaves no list with the id of a journey it dropped.
DeletionLeavesNothingDangling ==
    [][Len(userTable') < Len(userTable) =>
          \A j \in Journeys : journey'[j] = NoJourney =>
              \A u \in UserId : j \notin registered'[u]]_allVars

\* What two people agreed on, by their own votes, is what becomes of a proposal:
\* over declines, restarts and deletions no goal is created and no proposal is
\* finalized without both (shared-journey.c:700-800).
GoalsWereAgreed == FinalizedWasAgreed /\ RootsWereAgreed /\ ApprovalsAreOwnVotes

\* The table of journeys is within its bounds and names only people there are,
\* whoever is deleted and whatever a restart reads back (central-users.c:195).
JourneysSound == JourneyTypeOK /\ ParticipantsExist

----------------------------------------------------------------------------
\* The inductive invariant GoalsWereAgreed and JourneyTypeOK follow from.

\* A proposal in memory is what its file says, and none that waits for votes is
\* left out: a restart has room for all of them.
MemoryFollowsFiles ==
    /\ \A p \in Proposals : prop[p] = propFile[p]
    /\ up => OpenFiles \subseteq Proposals
Bounded ==
    /\ IsFiniteSet(Journeys) /\ IsFiniteSet(Proposals)
    /\ IsFiniteSet(OpenFiles) /\ Cardinality(OpenFiles) <= MAX_PROPOSALS

\* Who starts to create a goal has seen both approvals.
CreatorsSawBoth ==
    \A p \in PropId : (\E u \in UserId : creator[p][u] # "none") => BothApproved(propFile[p])

\* ApprovalsAreOwnVotes, of the files.
FileVotes ==
    \A p \in PropId : propFile[p].journey \in Journeys =>
        LET us == journey[propFile[p].journey]
        IN  /\ propFile[p].aOk => us[1] \in voted[p]
            /\ propFile[p].bOk => Len(us) >= 2 /\ us[2] \in voted[p]

JInv == /\ JourneyTypeOK /\ MemoryFollowsFiles /\ Bounded
        /\ FinalizedWasAgreed /\ RootsWereAgreed /\ CreatorsSawBoth

=============================================================================
