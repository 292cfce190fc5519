# change: verification of the servers

TLA+ models of *change*, a personal-goals program: one C process with an HTTP
server per active user and a central server shared by all of them, and a React
client. The models are translated from the C sources under `src/c`; what the
React client sends, and when, gives the inputs.

Paths below are relative to `src/c` unless they say otherwise.

## 1. Inventory

| part | state | operations | talks to |
|---|---|---|---|
| **Match system** (`srv/match-system/connections.c`, `disk-storage.c`, `srv/central-server/central-conn.c`) | `ConnectionTable`, `MessageTable`, one `.conn` and one `.msgs` file per connection, the discoverable flag and description of users | opt in/out, rank and propose, approve, decline, chat, list, load | AI matching; shared journeys (a confirmed pair gets one); users, by pointer |
| **Shared journeys and proposals** (`srv/match-system/shared-journey.c`) | `SharedJourneyTable`, `RootProposalTable`, their files, `User.journeys` | create, list, fetch, replace, delete, propose / approve / decline / finalize a root goal | users' journey lists, chat (a proposal is a message) |
| **Users** (`srv/user/user-management.c`, `user-io.c`, `srv/central-server/central-users.c`) | `USER_TABLE` (an array that deletion compacts), one directory per user | create, select, delete, reset, load, save | everything that keeps a `User *` |
| **Central and client server** (`srv/central-server/central-server.c`, `srv/http-server/server.c`, `routes.c`, `srv/http-util.c`) | sockets, `client_user`, the listener thread, three mutexes | accept, dispatch, forward, start, stop | all handlers; handlers call the central server back over a socket |
| **Reviews** (`srv/match-system/reviews.c`, `central-reviews.c`, `review-handlers.c`) | submissions, review files, a daily counter per reviewer | submit, add file, list pending, review | central routes only |
| **Journeys** (`srv/user/journey.c`) | `JourneyTable`: a local copy of each shared journey | fetch, push, load, serialize | the central server, from inside client handlers |
| **Server-sent events** (`srv/http-server/sse.c`) | table of subscribers | add, emit, prune, clean up | every handler that reports progress |
| **Goals** (`ne/goal/goal*.c`, `srv/http-server/goal-handlers.c`) | a tree of goals per journey with a timeline over its leaves | create, decompose, start, end, extend, reshape, cancel, drop, repair | AI, journal (journal leaves), journeys, schedule |
| **Schedule** (`ne/goal/schedule-system.c`) | a cached table of goal indexes with times | refresh, read | goals, reminders |
| **Middleware chat** (`middleware/`, `srv/http-server/middleware-handlers.c`) | sessions and their files, pending permissions | run one message with retries, resolve a permission, export, list | goals, profile, reminders, search, matcher |
| **Deep search** (`ne/search/`) | memory of one session | rounds of thinking and judging | AI, graph |
| **Journal and reminders** (`journal/`) | a directory per entry, one reminders file | create, edit, embed, attach, delete; save, delete | goals (a journal leaf needs an entry) |
| **Profile** (`ne/profile`) | one file per user | note an input, a goal event, a key; clear | goals, chat, matcher |
| **Identity graph, input** (`ne/graph`, `ne/node.c`, `ne/input`) | the nodes of a user and their links, one file | add what the AI names, link, save, load | AI, deep search |
| **Libraries, CLI, clock** (`lib/`, `cli/`, `globals.c`) | none that matters here | JSON, model client, assertions, menu | - |
| **Clients** (`src/react`, `src/js`) | what the last answers showed | the requests above | both ports |

### What makes it hard

* **Two locks, one process.** The central server has one thread per connection.
  Its own routes run under `central_handler_lock`; all others are forwarded to
  the client handlers under `client_handler_lock`. The client server's own port
  is served by one more thread under neither. A client handler may call the
  central server back and wait for the answer.
* **Pointers into a table that is compacted.** `User *` is a slot of
  `USER_TABLE`; deleting a user moves everybody behind it.
* **AI calls in the middle of handlers.** What was looked up before the call is
  used after it. The matcher, decomposition, repair and the chat all do so.
* **Files are the only memory.** `dump_to_file` truncates and then writes; a
  crash leaves an empty file. `change_assert` ends the whole process, so what a
  handler had saved by then stays.
* **Copies of shared journeys** in each client, pushed whole.

### What makes each part correct

* Match system: at most one connection per pair; chat needs both approvals; the
  initiator decides first; a decline is final over restarts; the file of a
  connection agrees with the table; a confirmed pair gets its journey.
* Proposals: a goal is created, and a proposal finalized, only with the votes of
  the participants themselves, never after a decline.
* Users: deleting one leaves nobody with a journey that was dropped.
* Servers: the user a handler works for is the user who was selected, and every
  request is answered.
* Reviews: the daily limit and one review per reviewer and submission.
* Journeys: a change acknowledged to one participant is not lost to another.
* Chat: a reminder is made once, a session loses nothing, nothing personal is kept
  without consent, what the chat says was done is saved, every message is answered.
* Events: a browser gets every event of its session, in order, and no other's.
* Files: what was answered OK is what is read back, over crashes in between.
* Graph and search: one node per name, links at both ends, a restart that brings
  back what was saved; a search that forgets nothing and ends.
* Goals: leaves are worked in order, parents finish exactly with their
  children, there is always something to do next, no request reaches an assertion.
* Schedule: it names only goals that exist.

Every hazard, with its line, is in `PROJECT.json`; those without a property, or
whose property holds under a condition only, say so in their note.

## 2. Plan

1. `Connections`, `MatchSystem` with `MatchSystemProofs`
2. `CentralServer` with `CentralServerProofs`
3. `GoalTimeline`: the tree of goals, its leaves and the session routes, with
   `GoalTimelineProofs`
4. `Reviews`: submissions, reviews and the daily window
5. `SharedJourney`, the abstract journey, and `JourneySync`, the copies with
   fetch and push that implement it until something goes wrong
6. `UserProfile`, `Reminders` and `Journal`, the operators of three kinds of
   files, and `UserFiles`, the handlers of two ports over them
7. `Chat`: turns, sessions, permissions and event streams
8. `IdentityGraph`, `Search` (pure) and `DeepSearch`, which composes them
9. `ReviewsProofs`, `JourneySyncProofs`, `ChatProofs`,
   `DeepSearchProofs` and, over the invariants of `UserFilesInvariants`, `UserFilesProofs`

All of these are written. What is left:

* proofs: the parts of `CommandsRight` about sorting and walking, which are recursions over
  data (section 5, only model-checked);
* `/goal/decompose` and the repair of a branch in `GoalTimeline`;
* strengths, touches and decay of the identity graph.

The project keeps twelve runs, so a question whose answer is a short trace has no
run of its own: it is an instance of a run's constants, named in the note of its
hazard and in section 6.

Composition: `MatchSystem` EXTENDS `Connections` and replaces its two coarse
steps (`LeaveEnsure`, `handle_delete_user`, `Crash`) by the whole ones.
`CentralServer` abstracts from what the handlers do. The other modules take from it
the threads they have: `UserFiles` two client handlers side by side, one of each
port; `GoalTimeline` one handler for each port of `Port`; `JourneySync` the handlers
of one port and the central server's threads for the pushes; `Chat` and
`DeepSearch` one thread, since two on their unlocked tables are undefined
behaviour. `UserFiles` EXTENDS the three operator modules, `DeepSearch` EXTENDS
`IdentityGraph` and `Search`.

## 3. Modules and the code

### Connections

`srv/match-system/connections.c` and `disk-storage.c`.

| model | code |
|---|---|
| `userTable`, `discoverable`, `described` | ids of `USER_TABLE[0..USER_COUNT-1]`; the two matching fields of a user |
| `conn`, `msg` | `ConnectionTable`, `MessageTable`, by random id |
| `connFile`, `msgFile` | the `.conn` files and the lines of the `.msgs` files; `Torn` is a file emptied and not yet written |
| `lock` | `conn_lock`, where it is held over a file write |
| `pc`, `job` | where each thread is in its handler, and its locals: the slot of the user, the picks still to insert, the connection being written |

A thread is `Central`, which stands for all handlers under
`central_handler_lock`, or one of `Clients`, a client handler that runs the
matcher as the chat's actions do. A handler is one step until another thread or
a crash could come between: at the AI call (`FindMatchForUser`, `AiRanks`,
`InsertProposal`), at each file (`BeginPersist`, `EndPersist`) and where
`conn_lock` is released before the handler has ended (`append_message_to_file`,
`LeaveEnsure`). `AiRanks` chooses any set of picks the ranking with its backfill can give.
`InitConnectionSystem` is the load at start, with its limits.

`IdAt` of a slot past the end is `NoUser`, since deletion zeroes the vacated
slot. Definitions marked "(fault: ...)" are changed versions of the definition
below them, kept to show that each property depends on the code it names.
No specification uses them.

### MatchSystem

`srv/match-system/shared-journey.c` and the deletion of `central-users.c`, over
`Connections`. `journey` is `SharedJourneyTable` with its files (they are written
in the same step of the handler and no other thread touches them), `registered`
each user's `User.journeys` without the default journey, `prop` and `propFile` the
proposals, `creator` what the client of a participant who got `both_approved` is
doing: `PushRoot` is `handle_post_goal_create_shared_root` of the client, and
`handle_finalize_root_goal` its last call. `roots` and `voted` are history.
`Exit` is a failed `change_assert`: the process stops and restarts from its files, and
a
start reads the proposals that are neither declined nor finalized (`OpenFiles`), as many as fit.

### CentralServer

`srv/central-server/central-server.c`, `srv/http-server/server.c`, and the
handlers of `central-users.c` that start, stop and move what the client server
works on. A connection of `Conn` goes through `Accept`, `dispatch` and then a
route of its own or `dispatch_to_active_client`; `Listener` is the thread of the
client server. `active` is the slot of `client_user` (0: not started),
`ptr[t]` the `User *` the handler in thread `t` was given, `owner[t]` (history)
who was in that slot. `central_connect`, `ServeCall` and `central_recv_body` are
a handler's call to the central server, served by a connection thread of its own.

### GoalTimeline

The personal journey of one user: `ne/goal/goal.c` and the goal routes of
`srv/http-server/goal-handlers.c`. The tree is walked by recursive functions, each as
the loop of the code that it stands for.

| model | code |
|---|---|
| `goal` | `Journey.goals`, by `localIndex`; `status` stands for `start_date` and `end_date`, `attached` for a non-empty `attach_id`, `dropped` is history |
| `sent` | the request a device waits for, between its screen and the server |
| `work` | the handler each port is in: below which goals it still searches (`todo`), what it decomposes or reshapes (`at`), whether its AI call is out (`thinking`), and the hard cap it computed before (`cap`) |
| `Follow` | where a loop `while (g->next) g = g->next` ends: `last_leaf`, `CalcGoalRoot`, the way up of `previous_timeline_leaf` |
| `previous_timeline_leaf`, `Earlier` | the leaves `can_start_leaf` and `EndGoalFromGoal` go back through |
| `FirstOpen` | the first open leaf below a goal, as the tree is before any more of it is decomposed |
| `first_unstarted_leaf`, `DecomposeGoal`, `StartGoalDeepFromGoal` | the one loop of the code, cut at its AI calls |
| `Offered` | what the screens of the React client let a user send (`App.tsx`, `focus-session.tsx`, `journal-focus-session.tsx`) |

`up` becomes FALSE where an assertion of `EndGoalFromGoal` fails. AI calls answer with
one of `Splits`, `RootMinutes` or `LeafMinutes`; that they can fail, and then end
the process, is not modelled, nor are saving and restarts.

### Reviews

`srv/match-system/reviews.c`, `central-reviews.c` and `review-handlers.c`. `table`
is `SubmissionTable`, `disk` the directory of each submission with its metadata
(`Torn` when emptied), attachments and reviews, `daily` the file of each reviewer's
count with the start of its window, `shown` the list a reviewer's screen holds.
`writing` is the port that holds `submissions_lock`, `review` the central server
between the three files of a review. Submission ids are drawn from a finite set (they are
hexadecimal strings of one length), and the clock runs for a day at least.

### JourneySync and SharedJourney

`SharedJourney` is what the code wants to be true: one journey, changed by one
action at a time. `JourneySync` is what it does (`srv/user/journey.c`, the shared
half of `goal-handlers.c`, `handle_update_shared_journey`, `schedule-system.c`).

| model | code |
|---|---|
| `central` | the journey in `SharedJourneyTable`, or `Gone`; a `Version` is its leaves in order, none before the root is created, each with its status and owner (`LeafRec`) |
| `flight` | pushes sent and not yet carried out: `PushJourneyToCentral` closes its socket without reading the answer |
| `copies`, `blanks` | slots of `JourneyTable` that hold the journey, and those a fetch of a dismissed journey left without an id |
| `listed`, `file`, `schedule` | `User.journeys`, the journey in each user's directory, each user's cached schedule |
| `ended` | the assertion that ended the process |
| `trouble` | whether a request met pushes on their way, a connection failed or the process crashed, and how many requests came since |

The refinement maps `current` to `Latest`, the journey as it will be when the pushes
on their way have arrived, and `trouble` to `Troubled`: up to the first
trouble every step of the code is one action of one person on the one object or a
stutter; after it a version may replace another, but only one in which the order of
the steps is kept, and a dismissed journey never comes back.

### UserFiles, UserProfile, Reminders, Journal

`ne/profile/user-profile.c`, `journal/`, `srv/user/user-io.c`. `disk` gives what is
at each path of a user's directory: a content, `Missing`, `Torn` (opened for writing)
or `Directory`. A handler of `work` is the list of file operations it has still
to do, so that two of them interleave at every `fopen`, `fwrite`, `unlink`, `mkdir`
and `rmdir`; what a file contains, and what an operation makes of it, are the operators
of the three small modules. `told` is history: what the answers said is so.
`overlapped` and `torn` name the areas in which two handlers met or a crash hit.

### Chat

`middleware/middleware.c`, `srv/http-server/middleware-handlers.c`, `sse.c`.

| model | code |
|---|---|
| `slots`, `file` | `chat_histories` and the file of each session |
| `pending`, `asked` | `pending_permissions`, `pending_reminders`, the counter of their ids |
| `answered` | history: the ids that were answered, and how the first time |
| `run` | the handler: which attempt, which action, the events still to be written |
| `memory`, `saved` | the version of each goal, of the graph and of the record, in the process and on disk |
| `streams`, `tabs` | `sse_clients`, and what each browser received: which place in the session's `log` (history: all its events) |

`Answers` are what the model may return: valid actions, some that fail, or
`Garbage`: a `MiddlewareAction` with any of the `Names` as its key, of which `Keys` are the
ones `is_allowed_profile_key` lets through, and with or without the value and the goal
`validate_action` asks for. `Retry` starts again from the first action, as
`RunClientMiddleware` does; `LastFailed` is its assertion.

### IdentityGraph, Search and DeepSearch

`IdentityGraph`: `ne/node.c`, `ne/input/json-to-graph.c`, `ne/graph/graph-export.c` and
`graph-handlers.c`. A label is a word with what was done to it, since `lowerAll`
(`lib/util/util.c:244`) moves every character below `a`, a digit twice, and
`AddNodeEx` keeps 30 characters. `Search`: the quickselect and the family of
`ne/search/search.c` as functions, the recursive ones over their finite domains. `DeepSearch`: `start_ds_session` with its rounds, the
judge, and what a command selects; a response is the pair of its round and depth.

## 4. Runs

| run | question | result |
|---|---|---|
| `conn_race` | two matchers, decisions, chat, one deletion, crashes at every step | four properties hold: pairs stay unique, the initiator decides first, the files follow the table, a decline is final |
| `match_pair` | does a second approval always end in a shared journey? | `ConfirmationLeadsToJourney` holds, as liveness, without crash or deletion |
| `match_votes` | votes, dismissals, deletions, crashes | `GoalsWereAgreed`, `JourneysSound` and `DeletionLeavesNothingDangling` hold |
| `match_chat` | three people compete for the last place in the table; proposals as chat messages; deletion before the confirmation; one matcher | `ChatOnlyBetweenApproved`, `TableSound` and `ProposedOnlyWhileDiscoverable` hold |
| `central_routes` | three connections and the listener select, create, delete, forward and call back | two safety properties and `EveryRequestAnswered` hold |
| `central_deadlock` | one connection selects while the listener's handler calls the central server | finding: neither goes on |
| `goal_app` | one device works through a goal that is decomposed as it goes | `PlanHolds`, `WorkedInOrder`, `AlwaysSomethingNext`, `JournalDoneHasEntry` and `FinishedStaysFinished` hold, unless a finished journal step is opened again |
| `reviews` | submissions, attachments, reviews over two days, a crash at any write, a restart | `DiskSound`, `BadgeFollowsReviews`, `OneReviewEach` and `NoMoreThanADay` hold |
| `journey_sync` | two people, two steps, pushes on their way, a failed connection, a restart or a crash | `VersionsSound`, `EndsOnlyAfterTrouble`, the liveness property `ToldArrives` and the refinement `OneObject` hold |
| `user_files` | requests on two ports about one area of the files, a crash at any file operation | `FilesKeep` (for requests that did not meet), `EntriesWhole` and `PrivateStaysPrivate` hold |
| `chat` | two sessions in a table of one, two attempts, permissions, streams, a crash | `SessionsWhole`, `StreamsFollow`, `Consent`, `SaidIsSaved` and the liveness property `MessageAnswered` hold |
| `deep_search` | input, links, save, load and start of a graph; searches over it | `GraphSound`, `RestartKeepsGraph`, `CommandsRight`, `SearchHonest` and the liveness property `SearchEnds` hold |

A property that names several things is a conjunction of named parts, each with its
own comment in the module: `GoalsWereAgreed`, `JourneysSound`, `TableSound`, `PlanHolds`,
`WorkedInOrder`, `VersionsSound`, `DiskSound`, `BadgeFollowsReviews`, `FilesKeep` (whose
`KeepsWhatItSaid` is one part for each kind of file: `ProfileAsTold`, `RemindersAsTold`,
`PictureAsTold`, `EntriesAsTold`), `EntriesWhole`, `SessionsWhole`, `GraphSound`,
`CommandsRight`, `SearchHonest`. The type invariant of a module is a part of the first of its invariants.

### Bounds, and why they are enough

* Two users suffice for a pair, a third identity in `UserId` for one who comes
  after a deletion; `match_chat` has three users and one place for a connection, so
  that the compaction moves somebody and pairs compete.
* `ConnRace` has two places in the table and three ids, so that a torn file can
  use one up and the same pair be proposed again after it.
* One central and one client thread give every pairing of matcher and handler;
  more clients repeat the same steps (the proofs have any number).
* `MaxDeletes = 1`: the second deletion meets the state the first one can leave.
* `MatchVotes` has one proposal and two journey ids, one place for journeys: a
  journey can be dismissed and another made while the proposal names the first.
* `CentralRoutes` has three connections: one that joins, one that waits for the
  lock, one that is forwarded. `MaxCalls = 1` and `MaxDirect = 2` bound the
  calls of one handler and the requests to the listener.
* The goal runs have one tree of at most five goals: a root and two levels
  of two children, so that a leaf has its predecessor beside it, in another
  branch, and below a sibling that was decomposed late. `MCSplits` has a child and a
  journal leaf of 32 minutes or more (decomposed when next), and one of 28 that passes the
  limit by one extension (`MaxRetry = 1`) and a reshape. Splits that pass the hard cap
  are left out, since the code scales them.
* `Reviews` has two places for three submissions (the table is full and one is turned
  away) and a limit of one review a day over two days of two ticks, so that a window
  starts inside another day. Who reviews is independent of others but for the
  submission; one reviewer with submissions of both outcomes gives every order.
* `JourneySync` has two leaves, one for each person or one for nobody, two pushes on
  their way (they can overtake each other), one fault, and one request after the
  first trouble: it is the request that acts on what the trouble left.
* `UserFiles` asks for one area of the files at a time (`Areas`): no handler touches the
  files of two. Three requests give an overlap and a look back, four where a list has two
  places; the crash is at any file operation of either handler.
* `Chat` asks about one topic at a time (`Topics`): goals, profile and permissions, the
  reminder, the streams. The answers of a topic put every action at the first and the
  second place of a turn. The table of sessions has one place for two, so that each
  turn of the other evicts; the tables of permissions and streams have one for two.
* `DeepSearch`: five nodes are two contexts and three names, of which one has a digit and
  31 characters and so comes back as new nodes; four links double at a save. Three
  judged rounds are a first, a middle and a last one; the depth limit of three is
  reached after a depth asked for and passed. `TopIsTop` and `FamilyIsNear` take every
  assignment of two strengths to the nodes of every graph reached.
* Connection, message and submission ids and the two ports of `UserFiles` are
  symmetric; users are not, since the table is ordered. No run that checks liveness uses symmetry.

Deadlock is not checked where the models may stop: all bounds used up, or every
connection answered.

### Fairness

`MatchSystem!FairSpec` is weakly fair for the steps inside a handler of the central
server and for the end of a file write: threads are scheduled and the AI calls
answer or are refused, which has a fallback. `CentralServer!FairSpec` is weakly
fair for the thread of a connection whose request was read, for the server's side of
a call, and for the listener's way out. Nothing is assumed of clients: no
`Accept`, no request, no decision. `EndDirect` is fair because a handler ends; that the
listener's connection sends its request is an assumption, since `http-util.c` sets no
timeout there (a hazard in `PROJECT.json`). `JourneySync!FairSpec` is weakly fair for the
delivery of pushes: each has a thread of the central server that ends. `Chat!Spec` is weakly
fair for the steps of a handler that has begun and `DeepSearch!FairSpec` for those of a
search. All of them wait for the model, and `openai.c` bounds its retries but sets no time limit
on a request, so this assumes that the service answers or refuses. Nothing is assumed of
messages, searches, tabs, restarts or crashes. A mutex may be unfair: weak fairness is enough
because each behaviour has finitely many requests.

## 5. Proofs

For any sets of users, ids, sessions and threads, any limits and any number of
crashes, restarts and messages that satisfy the assumptions each module names; the
runs evaluate those. Where a theorem has a hypothesis of its own, it is named below with
what happens without it. In each module one invariant is inductive; a lemma per
action says that the action keeps it, one step per conjunct the action can disturb, and
the properties follow by implication. The invariants were checked by TLC before they were
proved.

**`MatchSystemProofs`**, first of the connections: `PairsStayUnique`, `ChatNeedsBoth`, `InitiatorFirst`,
`RestartIsFaithful`, `DeclinedForGood`, `TableHolds`, `TableStaysSound`, `OnlyDiscoverable`.

* `IInv` adds to the properties: who writes a file holds `conn_lock` and writes a
  connection that is in the table (`WriterHoldsLock`); a file nobody writes agrees with the
  table, and a connection that is not in the table has no readable file
  (`FilesFollowTable`), without which a restart could bring a pair back twice
  (`OneFilePerPair`); lines of a chat file belong to a connection whose file, if readable,
  has both approvals (`ChatFilesSound`), without which a restart could break `ChatSound`.
* `Room`: not only the table but also the files that parse are at most `MAX_CONNECTIONS`.
  An insertion looks at the table alone, so a bound on the table is not inductive: a
  restart might find more files than there are places. It holds for any number of matchers.
* `PicksStand` and `NamesStand`: the `User *` of a matcher between its AI calls point at the
  people they were taken for. That is so when every matcher runs under
  `central_handler_lock`, hence `ASSUME Clients = {}` in the last two theorems: a deletion is then
  never between the calls. With a client handler that matches, they are false (finding 2).

Then of the composed system over them.

* `ImplementsConnections`: `MatchSystem` implements `Connections`. Every step of journeys,
  proposals and votes is a step or a stutter of it, and `Exit`, a failed assertion, is its
  crash; hence `ASSUME MayCrash`. Without that hypothesis the invariant still carries over
  (`ConnectionsStaySound`), and with it `ChatStaysBetweenApproved`, `SystemTableSound` and
  `SystemProposesOnlyDiscoverable`.
* `JInv` for the proposals: those in memory are those of the files
  (`MemoryFollowsFiles`), what a start has to read fits into the table (`Bounded`), and who
  creates the goal saw both approvals (`CreatorsSawBoth`), which later votes, declines and
  dismissals do not take back. `FinalMeansAgreed` is for participant lists of any length. `GoalsStayAgreed`, that the approvals are the votes of the participants
  themselves, has `ASSUME \A us \in Groups : Len(us) <= 2`, as journeys of a matched pair are;
  with three it is false (finding 5).
* `NothingDangles`, an action property: a deletion leaves no list with the id of a
  journey it dropped.
* `JourneysStaySound`: the participants of a journey are users there are. What carries it is
  that each has the journey in the list the deletion walks (`AllListed`). It has two hypotheses. `NobodyMatched`: a journey made for a confirmed pair is in nobody's list, so it
  outlives its participants (section 6). `FewJourneys`: a start reads one id less of a list than
  `USER_MAX_JOURNEYS`, so with more the last journey of a user is forgotten.

**`ReviewsProofs`**: `ReviewedOnce`, `DiskStaysSound`, `BadgeStaysTrue`, `DailyLimitHolds`.

* `IInv` says what the ports and the central server know between two of their writes: the
  metadata being written is of a submission in the table or of one that is new, and the review
  under way was not given before (`WriterKnows`, `ReviewerKnows`); every readable metadata
  has its entry (`NothingLeftOut`), so that a start cannot overrun the table.
* The last two properties count. `BadgesLost` has a review under way apart, whose badge is
  coming; `Counted` says for every reviewer which reviews of the last day are missing in the
  daily file, at most a day's worth for each crash, and that the window began with a review no
  older than those it counts. `SubId` is finite: ids are strings of one length.

**`JourneySyncProofs`**: `VersionsStaySound`, `IsOneObject`, `EndsAfterTrouble`.

* `IInv`: every version there is, in a slot, in a file, on the server or on its way, keeps
  the order of the steps (`VersionsGood`), and without trouble all that is on its way is what
  was told (`InStep`). The refinement `IsOneObject` has one step lemma for each action of the
  code: a request without trouble is one action of `SharedJourney`, a delivery a stutter.
* `EInv` for the assertions: without trouble no slot or schedule names a step the
  participants were not told of (`LeavesThere`), and a process that did not restart has one
  slot (`SlotsUsed`). `EndsAfterTrouble` assumes that `MAX_JOURNEYS` is enough for everybody's
  copy of the journey beside the others (`Elsewhere`); with less, restarts fill the table.

**`ChatProofs`**: `SessionsStayWhole`, `StreamsStayWhole`, `ConsentHolds`, `SaidStaysSaved`.

* `NothingForgotten`: the place of a session in the table holds its whole log, and so does its
  file but while it is written. Neither alone is inductive, since a session moves between
  them. `MarksKept` follows the mark of the reminder from the answer that makes it
  to the table, to the log and, through eviction and restart, back: a candidate has its session unmarked
  in the table from the prompt to the close, through all attempts.
* `QuestionsPut`: what is pending was put to the user, or its event is still to be written,
  with the words an answer would make true, and its id has no answer yet; with `OneIdEach`
  this is why a place taken over by another question does not take the old answer.
* `SaidIsTrue`: what was said, or is about to be, is in memory, and memory is on disk when no
  handler has begun. `StreamsThere`: a tab that stays is in the table of streams, and has
  received exactly what came after it.

**`DeepSearchProofs`**, first of a search: `SearchStaysHonest`, for any limits, graph, commands and
verdicts.

* `IInv`: the two memories together are what was asked (`Searched`); the reasons are one for
  each failed round, in order, and each still has a response in the lasting memory
  (`ReasonsKept`); what is judged is the last response, and nothing later was asked
  (`Judged`, `NoneLater`). It rests on the bounds of rounds and depths (`Counted`), without
  which a round could be told the reason of another.

Then of the graph: `GraphStaysSound`, `RestartKeeps`, `ShownAreFound`, for any contexts, words and
answers of the AI.

* `GraphInv` says of a graph that its nodes are in their contexts under the label `lowerAll` and the
  cut leave of a word for good (`Placed`), that the dictionary of a node has its children and no others
  (`Listed`), and that links are counted alike at both ends (`Linked`). `GraphSound` alone is not
  inductive: without `Listed` a name would not be found and get a second node. The file is such
  a graph too (`Saved`) unless it was left torn; a torn one loads as a graph of contexts.
* What a message, a save and a load do are folds over names, pairs and lines. `FoldSolved`
  gives the turns of a fold their numbers, by well-founded recursion over the sets of places
  that the library's fold is defined by, and the induction on turns is `LeastNatural` applied to the
  set of turns where the claim fails. Each fold then has a lemma with what a turn keeps; the
  load, which first makes the nodes and then the links, has one for each half.
* `Restarted` compares the file with what is loaded from it: labels are lowered once more and stay
  as they were, and a link is in one exactly if it is in the other, though not as often (finding 14).

**`UserFilesProofs`**: `EntriesStayWhole`, `PrivateStays`, `PlainFilesAsTold`, `EachReminderOnce`,
`OnboardedStays`, `FilesTypeOK` and `FilesAreKept`, which has all of `FilesKeep`, for any number of
handlers that run side by side. Three invariants, each over the first, are defined in
`UserFilesInvariants`, with what a step makes of its handler and of the files of an entry:

* `IInv` says of each handler which files the steps it has left are about (`Proper`) and what
  holds when it gets to one. One that creates an entry has nobody beside it and goes from the
  directory to the text to the metadata (`CreatingBy`); one that deletes it has the metadata
  among what it unlinks unless it has already gone (`DeletingBy`); metadata written again are
  those of an entry that had some (`RewritingBy`). None of these is a property of a file:
  without them `ListedHasText` is not inductive, since the step that breaks it comes after
  the one that made it possible. `DeletedStaysDeleted` needs `Tree`: nothing is in a
  directory that is not there, so a late write of another handler is lost. For the record,
  `Saver`: a handler that is alone with it has saved what is in memory before it sees to the
  snapshot.
* `PlainInv` is about the files that are read, changed and written whole. As long as no two
  handlers met and none was cut short (`Whole`), the file agrees with what was told when nobody is
  at it, and of the one that is at it `Stage` says how far it is: what it has to read agrees, or what
  it has to write agrees with what will be told. The goal in focus follows from the whole history
  of events, so `FocusAfter` gets a lemma on what one more event makes of it. Not all of
  it needs `Whole`: every profile and every list, on disk or about to be written, is a sound one
  whoever else is at the file (`FileOk`, `TodoOk`), which gives `EachReminderOnce` and
  `FilesTypeOK`; and over any crash a profile, on disk or about to be, says that the user is
  through the introduction once that was told (`SureKept`).
* `EntryInv` is about an entry, whose handlers write several files. `Changing` says of the one
  that is at it, file by file, that what it will write there, or what is there if it has no step
  left for it, shows what will be told; `Orderly`, that no file has two steps left and that
  directories come first; `Emptying`, that a deletion has read of all that is still there.
  An image is embedded only when it was attached (`ImageThere`), which an answer to another
  request must not undo. `FilesAreKept` has one hypothesis, `FewEmbeds`: no entry has more
  embeds than are read of its list when one is removed; with more the rest is lost (finding 16).

`DistinctAssumption` says that an absent, an emptied and a refused file are not contents, that `None`
is neither a text nor a value, and that the id of an entry is not the name of another file: ids begin with the
time. What two handlers lose that met is outside of `FilesKeep`, and is finding 11.

**`CentralServerProofs`**: `ActiveIsSelected`, `ListenerUserStays`. `IInv` says who holds
`central_handler_lock`, that an active client server has its thread with the same
pointer (`ListenerIsActive`), and that a stopped listener is waited for by a thread that
holds the lock (`StoppedIsJoined`), so that nobody compacts the table under it.

**`GoalTimelineProofs`**: `JournalEntriesThere`, `TreeSound`, `EveryGoalInItsPlace`, `PlansHold`,
`TimelineInOrder`, `FinishedForGood`, `NeverStuck`, for journeys of any size, any answers of
the model and any number of trees. Three invariants, each over the one before:

* `GInv`, for any devices and ports: children come after their goal and are chained in their
  order (`KidsLater`, `ParentsEarlier`), and requests and handlers are about goals there are.
* `PInv`, for one port: a handler that waits for an answer about a leaf finds it a leaf
  (`HandlersKnow`), so no set of children replaces another. With two ports it is false (finding 4).
* `DInv`, for `SingleDevice`: one port, one device, and finished journal steps left closed. What
  is looked back on is local, the leaf before each one (`LocallyInOrder`); that all earlier leaves are
  ended follows along the walk. What a screen showed is still so when its request is served
  (`ScreensTrue`), and a handler meets its leaf as it left it (`LeavesKept`). With
  `MayReopen` (finding 3), or a second device whose cancel comes late, it is false.

The loops of the code are functions by recursion over the tree. Their values are known by
induction on where a goal is in the journey: `LeastNatural`, that every set of naturals has a least
element, gives `MeasureInduction` for a set, which stands in for an operator parameter; from
it `RecursionSolved` says that such a function satisfies its equation, and `FollowTurns`,
`EarlierWalk`, `FirstOpenTurns` and `Refreshed` what one turn of each loop does. `LineClimbs`
and `SearchFinds` then go up and down the tree: an end finishes exactly the goals above whose
children all are ended, and the search that finds nothing below a goal shows it finished or
being worked on.

### Only model-checked

* All liveness properties: fairness and ENABLED are outside the prover's reach.
* `Answered`, `TopIsTop` and `FamilyIsNear`, parts of `CommandsRight`: what the quickselect, the
  recursive walk over a family and a conclusion's answers return for every graph. Its other
  part is `ShownAreFound`.

## 6. Findings

With a run of its own:

1. Selecting or deleting a user deadlocks with a handler of the listener that
   waits for the central server (`central_deadlock`).

Reached by an instance of a run's constants:

2. `FindMatchForUser` keeps `User *` over its AI calls while a deletion compacts the
   table (`connections.c:269`): `MatchChat.cfg` with `Clients = {Client}`.
   `central-users.c:176-178` stops the client server for that reason, but the
   handler of a forwarded request goes on.
3. `/goal/cancel` does not look whether the goal is in progress
   (`goal-handlers.c:755`), and the app sends it when a finished journal step is
   opened and left: the step is open again, its parents are not, and ending the
   running leaf after it fails an assertion (`goal.c:2120`): `GoalApp.cfg` with
   `MayReopen = TRUE`.
4. Handlers of the two ports can decompose one goal at the same time
   (`goal.c:1881`): the second set of children replaces the first, which stays in
   the journey without a place. `GoalApp.cfg` with two devices, both ports and `TwoPorts`.
5. A vote of a third participant counts as the second one's
   (`shared-journey.c:721`): `MatchVotes.cfg` with `Groups <- MCTrio` and three users.

What the models show of shared journeys (`JourneySync` takes these steps; the
properties exclude them by name):

6. A push is not waited for: a request that comes before it has arrived fetches the old
   journey, and the later push undoes the earlier change.
7. After a restart each participant's file fills a slot of `JourneyTable`, and one who
   joined by listing has an empty one; if that comes first, a step found in the
   second slot is looked up in the first, and `goal.c:1962` or `:1970` ends the process.
   Schedules then hold the entries of both slots, and a dismissed journey can come
   back locally from the other's file.
8. A chat message within half a minute of a dismissal finds a goal in the schedule that
   is gone: `schedule-system.c:339` ends the process. So does creating the approved root
   of a dismissed journey (`CreateGoal`).
9. A fetch of a dismissed journey leaves a slot without an id that is never freed, up to the
   assertion on `MAX_JOURNEYS`. A journey file torn by a crash ends the next start.
10. The app's "Exit journey" sends the id of a personal goal, which dismisses `journeys[0]`.

Of the files, the chat and the graph:

11. Two handlers on one of a user's files lose a change, and one that reads a file
    between another's `fopen` and `fwrite` writes back an empty one (`user-profile.c:423`,
    `reminders.c:157`). A snapshot others can see stays when a crash comes between the
    record that withdraws it and its removal (`user-io.c:273`).
12. A reviewer's daily window starts again with every review (`reviews.c:488`), so one
    review a day is refused on the fourth day; a crash between a review and its badge
    cannot be made good, since the review cannot be given again.
13. A full table of sessions always gives up its first place, not the least recently used
    one (`middleware.c:277`). After a restart the listing of sessions leaves out those not
    used since (`middleware.c:1610`, which `:1600` says are all). A retry repeats the actions
    that had succeeded. `clear_profile` asks for no permission; an approved reminder that
    finds the list full is dropped.
14. A name with a digit or of 31 characters, both of which the prompt allows
    (`config.h:501`), gets a new node at every mention. Every save and load doubles the
    links. `/graph/load` leaves all contexts at the first node. `input-processor.c:136`
    says that the check after it does nothing; it ends the process.
15. A deep search judges seven rounds, not the eight of its limit; its depth starts at two;
    one with `minRounds` over a hundred can only end by the assertion. A command for no
    per cent, or a conclusion without text, is followed by a question with nothing new.
16. Removing an embed reads sixty-four of the list and writes back no more than those
    (`journal.c:501`): what an entry embeds beyond is lost. `UserFiles.cfg` with
    `EMBEDS_READ = 1` and `Areas = {"journal"}` finds `FilesKeep` violated.

Others are in the notes of the hazards: a journey made automatically for a confirmed
pair outlives its deleted participant; listing ends the process for a user with more
shared journeys than `USER_MAX_JOURNEYS` (`user-management.c:230`); so does approving
a pair whose other end was deleted; a journal leaf of more than 32 minutes is decomposed
(`goal.c:1981`) though `goal-handlers.c:244` calls it terminal; `stop_central_server` frees
tables that connection threads may still use (`central-server.c:323`).

## 7. Not modelled

Of the goals: `/goal/decompose` (sent by the viewer of `src/js`), repair, failed AI calls,
saving and restart; of shared journeys more than one root and more than one level, and
handlers of two ports at once (a fetch frees the goals another handler holds). Of the chat:
the titles of sessions, the plain-text history, the result of a deep search (handed over in
fields of its own), the first event of a stream, and two threads on its tables. Of the
graph: strengths, touches, decay, layout, and the size of the buffer a graph is written to.

Prompts, the parsing of model answers, JSON, HTTP parsing, rendering and the bytes of
pictures and attachments are data or I/O. The React client appears as the requests it can
send. The default journey of a user is left out of `MatchSystem`; journeys of three
participants are possible there (`MCTrio`) but not in a run. The clock offset for development,
the vendored libraries, the command line, the graph viewer and the iOS shell keep no state
that matters here; status and reason of each part are in `PROJECT.json`.
