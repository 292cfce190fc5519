----------------------------- MODULE JourneySync -----------------------------
(****************************************************************************)
(* How a shared journey is kept the same on the central server and in the   *)
(* process of its participants (srv/user/journey.c, the shared half of      *)
(* srv/http-server/goal-handlers.c, match-system/shared-journey.c), and     *)
(* the schedules made from it (ne/goal/schedule-system.c).                  *)
(*                                                                          *)
(* A handler fetches the journey, changes it and pushes the whole of it. A  *)
(* push is sent and not waited for: a thread of the central server of its   *)
(* own carries it out, some time and in any order.  The handlers come in by *)
(* one port, one after the other; nothing but pushes is carried out while   *)
(* one is at work, so each is one step.                                     *)
(*                                                                          *)
(* One journey with one root: its leaves are its content.  Slots of the     *)
(* local table with the journey's id are kept in their order in the table.  *)
(****************************************************************************)
EXTENDS Naturals, Sequences, FiniteSets, SequencesExt, FiniteSetsExt

CONSTANTS
    Participants,   \* the people in it, in the order of its table of users
    Sizes,          \* how many leaves the AI may decompose the root into
    Owners,         \* to whom it may give them
    Gone,           \* a journey that was dismissed
    NoFile,         \* no file in a directory
    NoOne,          \* whom a leaf is given that the AI assigns to nobody
    MAX_JOURNEYS,   \* places in the local table
    Elsewhere,      \* places other journeys take
    MaxFlight,      \* bound of the model: pushes on their way
    MaxPasses,      \* bound of the model: steps passed on
    MaxTroubled,    \* bound of the model: requests after the first trouble
    MaxFaults       \* bound of the model: failed connections, restarts and crashes

Person == ToSet(Participants)

\* The leaves of the root, in their order; no root yet is no leaf.
LeafRec == [status : {"open", "running", "done"}, who : Person]
Version == UNION {[1 .. n -> LeafRec] : n \in Sizes \cup {0}}
SlotRec == [goals : Version, shared : BOOLEAN]

ASSUME JourneySyncAssumption ==
    /\ Participants \in Seq(Person) /\ Len(Participants) > 1 /\ NoOne \notin Person
    /\ Sizes \subseteq Nat \ {0, 1}
    /\ \A o \in Owners : o \in Seq(Person \cup {NoOne}) /\ Len(o) \in Sizes
    /\ Gone \notin Version /\ NoFile \notin SlotRec
    /\ {MAX_JOURNEYS, Elsewhere, MaxFlight, MaxPasses, MaxTroubled, MaxFaults} \subseteq Nat
    /\ Elsewhere <= MAX_JOURNEYS /\ MaxTroubled > 0

VARIABLES
    central,    \* the journey in SharedJourneyTable, and its file
    flight,     \* the pushes that are on their way
    copies,     \* the slots of JourneyTable with the journey's id
    blanks,     \* the slots that have no id
    listed,     \* who has the journey in User.journeys
    file,       \* the journey in each person's directory
    schedule,   \* each person's schedule
    proposed,   \* whether the approved root is still to be created
    ended,      \* what ended the process
    trouble,    \* requests since the first that met pushes on their way, a failed
                \* connection or a crash
    told,       \* until there is trouble: what the participants were told
    passes, fails, restarts, crashes

local == <<copies, blanks, listed, file, schedule>>
vars == <<central, flight, local, proposed, ended, told, trouble, passes, fails, restarts,
          crashes>>

Leaf(who) == [status |-> "open", who |-> who]
Slot(goals, shared) == [goals |-> goals, shared |-> shared]

Endings == {"no", "journey table", "unknown journey", "broken tree", "schedule", "torn file"}

TypeOK ==
    /\ central \in Version \cup {Gone} /\ told \in Version
    /\ flight \in Seq(Version) /\ copies \in Seq(SlotRec) /\ blanks \in Nat
    /\ Elsewhere + Len(copies) + blanks <= MAX_JOURNEYS
    /\ listed \subseteq Person
    /\ file \in [Person -> SlotRec \cup {NoFile}]
    /\ schedule \in [Person -> [leaves : SUBSET Nat, needs_refresh : BOOLEAN]]
    /\ proposed \in BOOLEAN /\ ended \in Endings /\ trouble \in 0 .. MaxTroubled
    /\ {passes, fails, restarts, crashes} \subseteq Nat

Faults == fails + restarts + crashes
Up == ended = "no"
End(why) ==
    /\ ended' = why
    /\ UNCHANGED <<central, flight, local, proposed, told, trouble, passes, fails, restarts, crashes>>

\* The version that all pushes carried out in their order would lead to.
Latest == IF central = Gone \/ flight = <<>> THEN central ELSE Last(flight)

----------------------------------------------------------------------------
\* The central server

\* A push is carried out: the version replaces the one there is; of a journey
\* that is gone nothing is kept.
\* (fault: what is gone is made anew)
handle_update_shared_journey_Revive(v) == v
handle_update_shared_journey(v) == IF central = Gone THEN Gone ELSE v

Deliver(k) ==
    /\ Up
    /\ central' = handle_update_shared_journey(flight[k])
    /\ flight' = RemoveAt(flight, k)
    /\ UNCHANGED <<local, proposed, ended, told, trouble, passes, fails, restarts, crashes>>

----------------------------------------------------------------------------
\* The local table

\* The goals of a slot give way to those in the body; the answer that there
\* is no such journey has none, and leaves them.
LoadJourneyFromBuffer(s) == Slot(IF central = Gone THEN s.goals ELSE central, TRUE)

\* The slots after a fetch: the first with the id is loaded, or a new one.
FetchSharedJourney ==
    IF copies # <<>> THEN [copies EXCEPT ![1] = LoadJourneyFromBuffer(@)]
    ELSE IF central # Gone THEN <<LoadJourneyFromBuffer(Slot(<<>>, FALSE))>>
    ELSE <<>>

\* A new slot that got no id: it stays in the table and is never found.
BlankSlot == copies = <<>> /\ central = Gone
TableFull == Elsewhere + Len(copies) + blanks >= MAX_JOURNEYS

\* The slot a leaf is found in: goals are sorted by their place, those of
\* earlier slots first.
FindGoal(slots, i) == {k \in DOMAIN slots : i \in DOMAIN slots[k].goals}

\* Who saves writes the first slot into a file of their own.
SaveUser(p, slots) ==
    file' = IF p \in listed /\ slots # <<>> THEN [file EXCEPT ![p] = slots[1]] ELSE file

\* f of the connections a handler makes fail.
Connect(f) == Faults + f <= MaxFaults /\ fails' = fails + f

\* n pushes of the version are sent, or none for want of a connection; f
\* connections of the same handler have failed before.
\* (fault: no push)
PushJourneyToCentral_Not(v, n, f) == Connect(f) /\ UNCHANGED flight
PushJourneyToCentral(v, n, f) ==
    /\ Len(flight) + n <= MaxFlight
    /\ \/ Connect(f) /\ flight' = flight \o [k \in 1 .. n |-> v]
       \/ Connect(f + 1) /\ UNCHANGED flight

Troubled == trouble > 0

\* A request that meets pushes on their way, or that cannot connect, is trouble;
\* otherwise the participants are told so much.
Tell(v) ==
    IF Troubled \/ flight # <<>> \/ fails' # fails
    THEN trouble < MaxTroubled /\ trouble' = trouble + 1 /\ told' = <<>>
    ELSE trouble' = 0 /\ told' = v

\* Answered with an error: all that changed is what was fetched.
Refused(slots) ==
    /\ copies' = slots
    /\ UNCHANGED <<central, flight, blanks, listed, file, schedule, proposed, ended, passes,
                   restarts, crashes>>

----------------------------------------------------------------------------
\* Working on a step

\* A leaf is started when those before it are done.
can_start_leaf(v, i) == v[i].status = "open" /\ \A k \in 1 .. i - 1 : v[k].status = "done"

\* What an operation may make of a leaf; nothing if the handler refuses it.
Outcomes(v, i, op) ==
    CASE op = "start"    -> {l \in {[v[i] EXCEPT !.status = "running"]} : can_start_leaf(v, i)}
      [] op = "end"      -> {l \in {[v[i] EXCEPT !.status = "done"]} : v[i].status = "running"}
      [] op = "reassign" -> {l \in {Leaf(q) : q \in Person} : v[i].status = "open"}

\* An end is pushed when the goal ends and once more by the handler; it alone
\* marks the schedule, and that of the person who ends only.
Pushes(op) == IF op = "end" THEN 2 ELSE 1
Mark(p) == schedule' = [schedule EXCEPT ![p].needs_refresh = TRUE]

\* The change is made where the leaf was found; the tree is followed, and the
\* version pushed, in the first slot.
ChangeLeaf(p, slots, i, op, f) ==
    LET found == FindGoal(slots, i)
        at == Min(found)
    IN  \/ /\ found # {} => Outcomes(slots[at].goals, i, op) = {}
           /\ Connect(f) /\ Refused(slots) /\ Tell(told)
        \/ /\ found # {} /\ at > 1 /\ op # "reassign"
           /\ End("broken tree")
        \/ /\ found # {} /\ (at > 1 => op = "reassign")
           /\ \E leaf \in Outcomes(slots[at].goals, i, op) :
                 LET changed == [slots EXCEPT ![at].goals[i] = leaf]
                 IN  /\ copies' = changed
                     /\ PushJourneyToCentral(changed[1].goals, Pushes(op), f)
                     /\ SaveUser(p, changed)
                     /\ Tell(IF i \in DOMAIN told THEN [told EXCEPT ![i] = leaf] ELSE told)
           /\ IF op = "end" THEN Mark(p) ELSE UNCHANGED schedule
           /\ IF op = "reassign" THEN passes < MaxPasses /\ passes' = passes + 1 ELSE UNCHANGED passes
           /\ UNCHANGED <<central, blanks, listed, proposed, ended, restarts, crashes>>

\* Answered that the journey cannot be fetched.
NoConnection == Connect(1) /\ Refused(copies) /\ Tell(told)
\* A fetch takes a slot, if there is none.
NoRoom == copies = <<>> /\ TableFull

\* The person names the journey and the leaf.
\* (fault: a journey that has a slot is not fetched)
handle_post_goal_shared_action_NoFetch(p, i, op) ==
    \/ NoConnection
    \/ NoRoom /\ End("journey table")
    \/ /\ BlankSlot /\ ~NoRoom
       /\ blanks' = blanks + 1
       /\ Connect(0) /\ Tell(told)
       /\ UNCHANGED <<central, flight, copies, listed, file, schedule, proposed, ended,
                      passes, restarts, crashes>>
    \/ ~BlankSlot /\ ~NoRoom
       /\ ChangeLeaf(p, IF copies = <<>> THEN FetchSharedJourney ELSE copies, i, op, 0)
handle_post_goal_shared_action(p, i, op) ==
    \/ NoConnection
    \/ NoRoom /\ End("journey table")
    \/ /\ BlankSlot /\ ~NoRoom
       /\ blanks' = blanks + 1
       /\ Connect(0) /\ Tell(told)
       /\ UNCHANGED <<central, flight, copies, listed, file, schedule, proposed, ended,
                      passes, restarts, crashes>>
    \/ ~BlankSlot /\ ~NoRoom /\ ChangeLeaf(p, FetchSharedJourney, i, op, 0)

\* The person names the leaf alone: it is looked for in the journeys on their
\* list that have a slot; the slot serves as it is when the fetch fails.
find_goal_any_journey(p) ==
    IF p \notin listed \/ copies = <<>> THEN {}
    ELSE IF copies[1].shared THEN {<<FetchSharedJourney, 0>>, <<copies, 1>>}
    ELSE {<<copies, 0>>}
handle_post_goal_status_action(p, i) ==
    \E found \in find_goal_any_journey(p) : ChangeLeaf(p, found[1], i, "end", found[2])
handle_post_goal_start(p, i) ==
    \E found \in find_goal_any_journey(p) : ChangeLeaf(p, found[1], i, "start", found[2])

----------------------------------------------------------------------------
\* The journey as a whole

\* The leaves the AI gave to nobody go to the participants in turn.
RoundRobin(owners) ==
    [i \in DOMAIN owners |->
        Leaf(IF owners[i] = NoOne THEN Participants[((i - 1) % Len(Participants)) + 1]
             ELSE owners[i])]

\* The approved root is created and decomposed in the local slot, and pushed.
handle_post_goal_create_shared_root(p) ==
    /\ proposed
    /\ \/ NoConnection
       \/ NoRoom /\ End("journey table")
       \/ BlankSlot /\ ~NoRoom /\ End("unknown journey")
       \/ /\ ~BlankSlot /\ ~NoRoom
          /\ \E owners \in Owners :
                LET v == RoundRobin(owners)
                    changed == [FetchSharedJourney EXCEPT ![1].goals = v]
                IN  /\ copies' = changed
                    /\ PushJourneyToCentral(v, 1, 0)
                    /\ SaveUser(p, changed)
                    /\ Tell(v)
          /\ proposed' = FALSE
          /\ Mark(p)
          /\ UNCHANGED <<central, blanks, listed, ended, passes, restarts, crashes>>

\* One who leaves dismisses the journey for all; the first slot goes, and the
\* journey from the list and the directory of who leaves.
\* (fault: the journey stays on the central server)
handle_post_journey_dismiss_LocalOnly(p) ==
    /\ copies # <<>>
    /\ Connect(0) /\ UNCHANGED central
    /\ copies' = Tail(copies)
    /\ listed' = listed \ {p}
    /\ file' = [file EXCEPT ![p] = NoFile]
    /\ Tell(told)
    /\ UNCHANGED <<flight, blanks, schedule, proposed, ended, passes, restarts, crashes>>
handle_post_journey_dismiss(p) ==
    /\ copies # <<>>
    /\ \/ copies[1].shared /\ Connect(0) /\ central' = Gone
       \/ copies[1].shared /\ Connect(1) /\ UNCHANGED central
       \/ ~copies[1].shared /\ Connect(0) /\ UNCHANGED central
    /\ copies' = Tail(copies)
    /\ listed' = listed \ {p}
    /\ file' = [file EXCEPT ![p] = NoFile]
    /\ Tell(told)
    /\ UNCHANGED <<flight, blanks, schedule, proposed, ended, passes, restarts, crashes>>

\* Polling the list of shared journeys puts one that is missing on one's own.
handle_list_shared_journeys(p) ==
    /\ central # Gone /\ p \notin listed
    /\ listed' = listed \cup {p}
    /\ file' = IF copies # <<>> THEN [file EXCEPT ![p] = copies[1]] ELSE file
    /\ UNCHANGED <<central, flight, copies, blanks, schedule, proposed, ended, told, trouble,
                   passes, fails, restarts, crashes>>

----------------------------------------------------------------------------
\* Schedules

\* A person's open leaves, once one of theirs has been started.
RefreshSchedule(p, slots) ==
    LET v == IF p \in listed /\ slots # <<>> THEN slots[1].goals ELSE <<>>
        mine == {i \in DOMAIN v : slots[1].shared => v[i].who = p}
        open == {i \in mine : v[i].status = "open"}
    IN  schedule' = [schedule EXCEPT ![p] =
                        [leaves |-> IF mine = open THEN {} ELSE open, needs_refresh |-> FALSE]]

handle_get_schedule(p) ==
    /\ \E f \in {0, 1} :
          LET fetched == p \in listed /\ copies # <<>> /\ copies[1].shared
              slots == IF fetched /\ f = 0 THEN FetchSharedJourney ELSE copies
          IN  /\ f = 1 => fetched
              /\ Connect(f)
              /\ copies' = slots /\ RefreshSchedule(p, slots)
    /\ Tell(told)
    /\ UNCHANGED <<central, flight, blanks, listed, file, proposed, ended, passes, restarts, crashes>>

\* A chat message, or a command of a deep search, puts the schedule into its
\* prompt.  It is made anew when it is marked or half a minute old; otherwise
\* every entry whose time has not come must have its goal.
SerializeScheduleData(p) ==
    \/ /\ RefreshSchedule(p, copies)
       /\ UNCHANGED <<central, flight, copies, blanks, listed, file, proposed, ended, told,
                      trouble, passes, fails, restarts, crashes>>
    \/ LET leaves == schedule[p].leaves
           kept == IF copies = <<>> THEN {} ELSE DOMAIN copies[1].goals
           first == {i \in leaves : \A k \in leaves : i <= k}
       IN  /\ ~schedule[p].needs_refresh
           /\ \E passed \in {{}, first} : ~(leaves \ passed \subseteq kept)
           /\ End("schedule")

----------------------------------------------------------------------------
\* Stopping, crashing and starting again

\* Everybody's journeys are loaded, each into a slot of its own.
load_user_journeys(order) ==
    [k \in DOMAIN order |-> IF file[order[k]] = NoFile THEN Slot(<<>>, FALSE) ELSE file[order[k]]]

\* Pushes that are on their way end with the process.
InitUserSystem ==
    /\ flight' = <<>>
    /\ \/ /\ Elsewhere + Cardinality(listed) <= MAX_JOURNEYS
          /\ \E order \in SetToSeqs(listed) : copies' = load_user_journeys(order)
          /\ UNCHANGED ended
       \/ /\ Elsewhere + Cardinality(listed) > MAX_JOURNEYS
          /\ ended' = "journey table"
          /\ UNCHANGED copies
    /\ blanks' = 0
    /\ schedule' = [p \in Person |-> [leaves |-> {}, needs_refresh |-> TRUE]]
    /\ UNCHANGED <<central, listed, file, proposed, passes, fails>>

Restart ==
    /\ Faults < MaxFaults /\ restarts' = restarts + 1
    /\ InitUserSystem
    /\ IF flight # <<>> THEN trouble' = Max({trouble, 1}) /\ told' = <<>>
       ELSE UNCHANGED <<trouble, told>>
    /\ UNCHANGED crashes

\* A crash may leave a file torn that was being written: a participant's, or
\* the one of the central server.  A torn file ends the next start.
Crash ==
    /\ Faults < MaxFaults /\ crashes' = crashes + 1
    /\ trouble' = Max({trouble, 1}) /\ told' = <<>>
    /\ \/ InitUserSystem
       \/ /\ flight # <<>> \/ (listed # {} /\ copies # <<>>)
          /\ ended' = "torn file"
          /\ UNCHANGED <<central, flight, local, proposed, passes, fails>>
    /\ UNCHANGED restarts

----------------------------------------------------------------------------
Init ==
    /\ central = <<>> /\ flight = <<>> /\ copies = <<>> /\ blanks = 0
    /\ listed = {} /\ file = [p \in Person |-> NoFile]
    /\ schedule = [p \in Person |-> [leaves |-> {}, needs_refresh |-> TRUE]]
    /\ proposed = TRUE /\ ended = "no" /\ told = <<>> /\ trouble = 0
    /\ passes = 0 /\ fails = 0 /\ restarts = 0 /\ crashes = 0

Leaves == 1 .. Max(Sizes)

Request(p) ==
    \/ handle_post_goal_create_shared_root(p)
    \/ \E i \in Leaves, op \in {"start", "end", "reassign"} : handle_post_goal_shared_action(p, i, op)
    \/ \E i \in Leaves : handle_post_goal_start(p, i) \/ handle_post_goal_status_action(p, i)
    \/ handle_post_journey_dismiss(p)
    \/ handle_list_shared_journeys(p)
    \/ handle_get_schedule(p)
    \/ SerializeScheduleData(p)

Deliveries == \E k \in DOMAIN flight : Deliver(k)

Next ==
    /\ Up
    /\ \/ \E p \in Person : Request(p)
       \/ Deliveries
       \/ Restart
       \/ Crash

Spec == Init /\ [][Next]_vars
\* The threads of the central server run.
FairSpec == Spec /\ WF_vars(Deliveries)

----------------------------------------------------------------------------
\* Properties

Ordered ==
    {v \in Version : \A i \in DOMAIN v :
        v[i].status # "open" => \A k \in 1 .. i - 1 : v[k].status = "done"}
Versions == {central} \cup ToSet(flight) \cup {copies[k].goals : k \in DOMAIN copies}
            \cup {file[p].goals : p \in {q \in Person : file[q] # NoFile}}

\* Whatever replaces what, on either server or in a file, every version is one
\* that the order of the steps allows: nobody finds a step started whose
\* predecessor is not done (goal.c:1998, journey.c:260).
InOrder ==
    \A v \in Versions \ {Gone} : v \in Ordered

\* What the participants were told is what the journey is, or will be when the
\* pushes on their way arrive, unless a request met pushes on their way, a
\* connection failed or the process crashed (journey.c:515).  Restarts with
\* everybody's older files do not spoil it.
NothingLost == ~Troubled /\ central # Gone => Latest = told

\* No assertion ends the process unless requests met pushes on their way, a
\* connection failed, the process crashed, or the journey was dismissed
\* (schedule-system.c:339, goal-util.c:132, journey.c:30) - or after a restart,
\* when the slot that is looked up is not the one the leaf is in.
EndsOnlyAfterTrouble ==
    ~Up => Troubled \/ central = Gone \/ (ended = "broken tree" /\ restarts > 0)

\* What participants were told arrives at the central server (journey.c:497).
ToldArrives == told # central ~> (told = central \/ Troubled \/ central = Gone)

\* Every version that can be read keeps the order of the steps, and as long as
\* there was no trouble the last one is what the participants were told
\* (goal.c:1998, journey.c:515).
VersionsSound == TypeOK /\ InOrder /\ NothingLost

Object == INSTANCE SharedJourney WITH current <- Latest, trouble <- Troubled

\* The journey behaves as the one object SharedJourney describes: changed by one
\* action of one person at a time as long as there was no trouble, and when it is
\* dismissed gone for good, whatever pushes arrive late (shared-journey.c:591).
OneObject == Object!Spec

----------------------------------------------------------------------------
\* The inductive invariant VersionsSound, EndsOnlyAfterTrouble and the steps of
\* OneObject follow from.

\* A slot that was never fetched has no goals: it is what a restart makes of a
\* person without a file.
GoodSlots == {s \in [goals : Ordered, shared : BOOLEAN] : s.shared \/ s.goals = <<>>}
VersionsGood ==
    /\ central \in Ordered \cup {Gone} /\ flight \in Seq(Ordered)
    /\ copies \in Seq(GoodSlots) /\ file \in [Person -> GoodSlots \cup {NoFile}]

\* Without trouble whatever is on its way is what was told, and when nothing is,
\* the central server has it.
InStep ==
    ~Troubled /\ central # Gone => flight \in Seq({told}) /\ (flight = <<>> => central = told)
NothingToldYet == proposed => told = <<>>

IInv == TypeOK /\ VersionsGood /\ InStep /\ NothingToldYet

\* As long as there was no trouble, and the journey was not dismissed, slots and
\* files hold no leaf that the participants were not told of, and the schedules
\* name leaves that are in the slot they are looked up in.
Calm == ~Troubled /\ central # Gone
Stands(slots) ==
    /\ \A k \in DOMAIN slots : DOMAIN slots[k].goals \subseteq DOMAIN told
    /\ \A p \in Person :
          schedule[p].leaves # {} =>
              slots # <<>> /\ schedule[p].leaves \subseteq DOMAIN slots[1].goals
LeavesThere ==
    Calm => /\ Stands(copies)
            /\ \A p \in Person : file[p] # NoFile => DOMAIN file[p].goals \subseteq DOMAIN told
SlotsUsed ==
    /\ central # Gone => blanks = 0
    /\ ~Troubled /\ restarts = 0 => Len(copies) <= 1
EInv == LeavesThere /\ SlotsUsed /\ EndsOnlyAfterTrouble

=============================================================================
