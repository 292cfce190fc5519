-------------------------------- MODULE Chat --------------------------------
(****************************************************************************)
(* The chat of a user (middleware/middleware.c, middleware-handlers.c) and  *)
(* the event streams the browser follows it by (http-server/sse.c). A       *)
(* message is a turn: the AI is asked, its actions are carried out one by   *)
(* one, and when one fails it is asked again, MAX_RETRIES times at most.    *)
(* Every event goes to the streams, into the table of sessions, and to the  *)
(* session's file, which opening empties before the text is written.        *)
(*                                                                          *)
(* One thread runs the handlers, one after the other (the listener of the   *)
(* client server). The process may end between any two steps; the sessions, *)
(* the permissions asked for, the streams and what was not saved are gone   *)
(* then. The goals, the identity graph and the user's record are things,    *)
(* and what a handler does to one makes a new version of it.                *)
(****************************************************************************)
EXTENDS Naturals, Sequences, FiniteSets

CONSTANTS
    Sessions,      \* the chats of the user
    Chats,         \* bound of the model: those used, by topic
    Names, Keys,   \* the words the AI may use as keys, is_allowed_profile_key
    Sensitive,     \* profile_key_requires_permission
    Values,        \* what a key may be set to, what a reminder may say
    Goals, Graph, Record, \* the things
    Begun,         \* the goals there are at the start
    Said,          \* messages of the user, by topic
    Tabs,          \* event streams that browsers open
    None, Free,    \* no value, an empty place in a table
    Garbage,       \* an answer of the AI that cannot be parsed
    MAX_RETRIES, HISTORY_CAP, MAX_PENDING, MAX_SSE_CLIENTS, REMINDERS_MAX,
    Topics,        \* bound of the model: what the conversation is about
    Answers,       \* what the AI may answer, by topic
    MaxTurns, MaxReplies, MaxTabs, MaxCrashes  \* bounds of the model

Things == Goals \cup {Graph, Record}

\* A message, as far as the handler looks into it, and a MiddlewareAction.
Messages == [talk : BOOLEAN, dismiss : BOOLEAN, title : BOOLEAN]
Actions == [type : STRING, key : Names \cup {None}, value : Values \cup {None},
            thing : Goals \cup {None}, ask : BOOLEAN]

ASSUME ChatAssumption ==
    /\ Sensitive \subseteq Keys /\ Keys \subseteq Names
    /\ {MAX_RETRIES, HISTORY_CAP, MAX_PENDING, MAX_SSE_CLIENTS} \subseteq Nat \ {0}
    /\ Begun \subseteq Goals
    /\ \A about \in Topics :
           /\ Chats[about] \subseteq Sessions /\ Said[about] \subseteq Messages
           /\ Answers[about] \subseteq Seq(Actions) \cup {Garbage}
    /\ None \notin Names \cup Values \cup Sessions \cup Goals /\ Free \notin Tabs

VARIABLES
    topic,
    slots,      \* chat_histories
    file,       \* data/chat-sessions: the events in the file of each session
    pending,    \* pending_permissions and pending_reminders
    asked,      \* counter of make_permission_id
    profile,    \* the derived fields on disk
    reminders,  \* the reminders on disk
    memory, saved, \* version of each thing, in the process and on disk
    stalled,    \* a goal was begun two days ago and not ended
    run,        \* the handler
    streams,    \* sse_clients
    \* what the properties speak of: every event of a session, what each tab
    \* received and when it came, the answers to permissions, turns that
    \* reminded, files a crash emptied, things a crash took back
    log, tabs, answered, reminded, torn, lost,
    turns, replies, crashes

vars == <<topic, slots, file, pending, asked, profile, reminders, memory, saved, stalled, run,
          streams, log, tabs, answered, reminded, torn, lost, turns, replies, crashes>>
tables == <<slots, file, log, streams, tabs, torn>>
stores == <<pending, asked, profile, reminders, memory, saved>>
notes == <<answered, reminded, lost>>
bounds == <<turns, replies, crashes>>

Event(type, key, value, n) == [type |-> type, key |-> key, value |-> value, n |-> n]
Plain(type) == Event(type, None, None, 0)
About(type, thing, n) == Event(type, thing, None, n)
Has(events, type) == \E i \in DOMAIN events : events[i].type = type

\* record_session_event alone tells the streams nothing.
Silent == {"stalled_goal_reminder_shown", "stalled_goal_reminder_dismissed"}

----------------------------------------------------------------------------
(* The table of sessions *)

\* A session that is not in the table comes from its file; what was said, as
\* the AI is told it, is not in the file.
\* (fault: the marks of the reminder do not come back)
load_session_from_disk_NoMarks(s) ==
    [session |-> s, titled |-> FALSE, events |-> file[s], shown |-> FALSE, dismissed |-> FALSE]
load_session_from_disk(s) ==
    [session |-> s, titled |-> FALSE, events |-> file[s],
     shown |-> Has(file[s], "stalled_goal_reminder_shown"),
     dismissed |-> Has(file[s], "stalled_goal_reminder_dismissed")]

Held(s) == {i \in DOMAIN slots : slots[i] # Free /\ slots[i].session = s}
get_session_history(s) ==
    IF Held(s) # {} THEN slots[CHOOSE i \in Held(s) : TRUE] ELSE load_session_from_disk(s)

\* The first free slot, and the first of all when none is.
Place(s) ==
    LET free == {i \in DOMAIN slots : slots[i] = Free}
    IN  IF Held(s) # {} THEN CHOOSE i \in Held(s) : TRUE
        ELSE IF free # {} THEN CHOOSE i \in free : \A j \in free : i <= j
        ELSE 1
Keep(s, h) == slots' = [slots EXCEPT ![Place(s)] = h]

record_session_event(s, e) ==
    Keep(s, [get_session_history(s) EXCEPT !.events = Append(@, e)])

\* append_session_message: the title of the stalled goal may be in it.
append_session_message(h, titled) == [h EXCEPT !.titled = @ \/ titled]

----------------------------------------------------------------------------
(* The streams *)

\* A write to a stream whose browser has gone fails, or not yet.
Broken == {i \in DOMAIN streams : streams[i] # Free /\ ~tabs[streams[i]].open}
Dropped(failed) == [i \in DOMAIN streams |-> IF i \in failed THEN Free ELSE streams[i]]

\* (fault: the events of every session go to every stream)
Follows_All(i, s) == streams[i] # Free
Follows(i, s) == streams[i] # Free /\ tabs[streams[i]].session = s

\* What a tab receives is the event by its place in the session.
Sent(s) == [session |-> s, at |-> Len(log[s]) + 1]

\* server_emit_event, of an event of session s
server_emit_event(s, e) ==
    /\ \E failed \in SUBSET {i \in Broken : Follows(i, s)} : streams' = Dropped(failed)
    /\ tabs' = [t \in Tabs |->
                   IF e.type \notin Silent /\ tabs[t].open
                      /\ \E i \in DOMAIN streams : streams[i] = t /\ Follows(i, s)
                   THEN [tabs[t] EXCEPT !.heard = Append(@, Sent(s))] ELSE tabs[t]]

\* prune_dead_sse_clients, after every request the listener has handled
prune_dead_sse_clients == \E failed \in SUBSET Broken : streams' = Dropped(failed)

----------------------------------------------------------------------------
(* What a handler has still to emit, and how it ends *)

Idle == [at |-> "idle", session |-> None, msg |-> None, attempt |-> 0, candidate |-> FALSE,
         todo |-> <<>>, outbox |-> <<>>, writing |-> FALSE]
Down == [Idle EXCEPT !.at = "down"]

At(stage) == run.at = stage /\ run.outbox = <<>> /\ ~run.writing
To(stage, events) == [run EXCEPT !.at = stage, !.outbox = events]

\* Everything in memory is gone.
Fall ==
    /\ run' = Down
    /\ slots' = [i \in DOMAIN slots |-> Free]
    /\ pending' = [kind \in DOMAIN pending |-> [i \in 1 .. MAX_PENDING |-> Free]]
    /\ memory' = saved
    /\ lost' = lost \cup {x \in Things : memory[x] # saved[x]}
    /\ streams' = [i \in DOMAIN streams |-> Free]
    /\ tabs' = [t \in Tabs |-> [tabs[t] EXCEPT !.open = FALSE]]
    /\ torn' = IF run.writing THEN torn \cup {run.session} ELSE torn
    /\ UNCHANGED <<topic, file, asked, profile, reminders, saved, stalled, log, answered, reminded>>

\* emit_text: the streams first, then the table, and
\* persist_session opens the file, which empties it.
Say ==
    /\ run.outbox # <<>> /\ ~run.writing
    /\ LET s == run.session
           e == Head(run.outbox)
       IN  /\ server_emit_event(s, e)
           /\ record_session_event(s, e)
           /\ file' = [file EXCEPT ![s] = <<>>]
           /\ log' = [log EXCEPT ![s] = Append(@, e)]
    /\ run' = [run EXCEPT !.writing = TRUE]
    /\ UNCHANGED <<topic, torn, stores, stalled, notes, bounds>>

persist_session(h) == h.events

Write ==
    /\ run.writing
    /\ file' = [file EXCEPT ![run.session] = persist_session(get_session_history(run.session))]
    /\ run' = [run EXCEPT !.writing = FALSE, !.outbox = Tail(@)]
    /\ UNCHANGED <<topic, slots, log, streams, tabs, torn, stores, stalled, notes, bounds>>

----------------------------------------------------------------------------
(* A turn *)

\* handle_post_middleware_message and RunClientMiddleware up to the first
\* event.
Message(s, m) ==
    /\ run = Idle /\ turns < MaxTurns[topic]
    /\ turns' = turns + 1
    /\ Keep(s, append_session_message(get_session_history(s), m.title))
    /\ run' = [Idle EXCEPT !.at = "received", !.session = s, !.msg = m,
                           !.outbox = <<Plain("message_received")>>]
    /\ UNCHANGED <<topic, file, log, streams, tabs, torn, stores, stalled, notes, replies, crashes>>

Dismiss ==
    /\ At("received")
    /\ LET h == get_session_history(run.session)
           dismissing == h.shown /\ run.msg.dismiss /\ ~h.dismissed
       IN  /\ Keep(run.session, [h EXCEPT !.dismissed = @ \/ dismissing])
           /\ run' = To("asking", IF dismissing THEN <<Plain("stalled_goal_reminder_dismissed")>>
                                               ELSE <<>>)
    /\ UNCHANGED <<topic, file, log, streams, tabs, torn, stores, stalled, notes, bounds>>

\* The AI may be told of a stalled goal, once in a session and when nobody
\* speaks of goals.
fill_stalled_goal_reminder_candidate(h, m) ==
    stalled /\ ~h.shown /\ ~h.dismissed /\ ~m.talk /\ ~h.titled

\* The prompt is built, the AI answers, the answer is parsed.
Ask(answer) ==
    /\ At("asking")
    /\ LET h == get_session_history(run.session)
       IN  /\ Keep(run.session, h)
           /\ run' = [run EXCEPT
                         !.candidate = fill_stalled_goal_reminder_candidate(h, run.msg),
                         !.at = IF answer = Garbage THEN "failed" ELSE "acting",
                         !.todo = IF answer = Garbage THEN <<>> ELSE answer]
    /\ UNCHANGED <<topic, file, log, streams, tabs, torn, stores, stalled, notes, bounds>>

\* What validate_action lets through. An id that is well formed may still be
\* of no goal.
validate_action(a) ==
    \/ a.type \in {"reply", "create_goal", "call_deep_search", "update_graph", "set_private",
                   "find_match"}
    \/ a.type \in {"set_goal_priority", "delay_goal", "drop_goal", "repair_branch"}
       /\ a.thing # None
    \/ a.type \in {"set_profile", "ask_permission"} /\ a.key \in Keys /\ a.value # None
    \/ a.type \in {"set_discoverable", "update_match_description", "set_reminder"}
       /\ a.value # None
    \/ a.type = "clear_profile" /\ a.key \in Keys

act == Head(run.todo)
Doing(type) == At("acting") /\ run.todo # <<>> /\ act.type = type /\ validate_action(act)
Did(events) == run' = [run EXCEPT !.todo = Tail(@), !.outbox = events]
Failed(events) == run' = [run EXCEPT !.at = "failed", !.todo = <<>>, !.outbox = events]
ExceptFor(changed) == UNCHANGED <<topic, tables, stalled, notes, bounds, changed>>

Reply == Doing("reply") /\ Did(<<>>) /\ ExceptFor(stores)

\* Its result goes into the next prompt.
CallDeepSearch ==
    /\ Doing("call_deep_search")
    /\ Failed(<<Plain("deep_search_started"), Plain("deep_search_done")>>)
    /\ ExceptFor(stores)

NotValid ==
    /\ At("acting") /\ run.todo # <<>> /\ ~validate_action(act)
    /\ Failed(<<>>) /\ ExceptFor(stores)

\* store_pending_permission, store_pending_reminder: the first place that is
\* not active, and the first of all when none is.
Asking(kind, key, value) ==
    LET free == {i \in 1 .. MAX_PENDING : pending[kind][i] = Free}
        i == IF free = {} THEN 1 ELSE CHOOSE j \in free : \A k \in free : j <= k
    IN  /\ asked' = asked + 1
        /\ pending' = [pending EXCEPT ![kind][i] =
               [id |-> asked + 1, session |-> run.session, key |-> key, value |-> value]]

requires_permission(a) == a.ask \/ a.key \in Sensitive \/ a.type = "ask_permission"

SetProfile ==
    /\ Doing("set_profile") \/ Doing("ask_permission")
    /\ IF requires_permission(act)
       THEN /\ Asking("profile", act.key, act.value)
            /\ Did(<<Event("permission_required", act.key, act.value, asked + 1)>>)
            /\ UNCHANGED profile
       ELSE /\ profile' = [profile EXCEPT ![act.key] = act.value]
            /\ Did(<<Event("profile_updated", act.key, act.value, 0)>>)
            /\ UNCHANGED <<pending, asked>>
    /\ ExceptFor(<<reminders, memory, saved>>)

ClearProfile ==
    /\ Doing("clear_profile")
    /\ profile' = [profile EXCEPT ![act.key] = None]
    /\ Did(<<Event("profile_updated", act.key, None, 0)>>)
    /\ ExceptFor(<<pending, asked, reminders, memory, saved>>)

SetReminder ==
    /\ Doing("set_reminder")
    /\ Asking("reminder", None, act.value)
    /\ Did(<<Event("reminder_permission_required", None, act.value, asked + 1)>>)
    /\ ExceptFor(<<profile, reminders, memory, saved>>)

\* A new version of a thing, in memory; the event says which.
Change(x, events, type) ==
    /\ memory' = [memory EXCEPT ![x] = @ + 1]
    /\ Did(events \o <<About(type, x, memory[x] + 1)>>)

CreateGoal ==
    /\ Doing("create_goal")
    /\ \E g \in Goals : memory[g] = 0 /\ Change(g, <<Plain("goal_create_started")>>, "goal_created")
    /\ ExceptFor(<<pending, asked, profile, reminders, saved>>)

\* The decomposition of the input may give nothing.
UpdateGraph ==
    /\ Doing("update_graph")
    /\ \/ Change(Graph, <<Plain("graph_update_started")>>, "graph_updated")
       \/ Did(<<Plain("graph_update_started"), Plain("graph_update_noop")>>) /\ UNCHANGED memory
    /\ ExceptFor(<<pending, asked, profile, reminders, saved>>)

Found == memory[act.thing] # 0

UnknownGoal ==
    /\ \E type \in {"delay_goal", "set_goal_priority", "drop_goal", "repair_branch"} : Doing(type)
    /\ ~Found
    /\ Failed(<<>>) /\ ExceptFor(stores)

DelayGoal ==
    /\ Doing("delay_goal") /\ Found
    /\ Change(act.thing, <<>>, "goal_delayed")
    /\ ExceptFor(<<pending, asked, profile, reminders, saved>>)

SetGoalPriority ==
    /\ Doing("set_goal_priority") /\ Found
    /\ Change(act.thing, <<>>, "goal_priority_changed")
    /\ ExceptFor(<<pending, asked, profile, reminders, saved>>)

\* Dropping waits for the user, who calls another route.
DropGoal ==
    /\ Doing("drop_goal") /\ Found
    /\ Did(<<Plain("goal_drop_requested")>>)
    /\ ExceptFor(stores)

\* The user is saved after the event is out.
RepairBranch ==
    /\ Doing("repair_branch") /\ Found
    /\ memory' = [memory EXCEPT ![act.thing] = @ + 1]
    /\ run' = [run EXCEPT !.at = "repaired",
                          !.outbox = <<About("goal_repaired", act.thing, memory[act.thing] + 1)>>]
    /\ ExceptFor(<<pending, asked, profile, reminders, saved>>)

SaveRepaired ==
    /\ At("repaired")
    /\ saved' = memory
    /\ run' = [run EXCEPT !.at = "acting", !.todo = Tail(@)]
    /\ ExceptFor(<<pending, asked, profile, reminders, memory>>)

\* SetUserDiscoverable, SetUserPrivate and UpdateUserDescription save.
SetRecord ==
    /\ \E type \in {"set_discoverable", "set_private", "update_match_description"} : Doing(type)
    /\ Change(Record, <<>>, act.type)
    /\ saved' = memory'
    /\ ExceptFor(<<pending, asked, profile, reminders>>)

\* The connections it proposes are of the match system.
FindMatch == Doing("find_match") /\ Did(<<Plain("match_search_done")>>) /\ ExceptFor(stores)

apply_actions ==
    \/ Reply \/ CallDeepSearch \/ NotValid \/ SetProfile \/ ClearProfile \/ SetReminder
    \/ CreateGoal \/ UpdateGraph \/ UnknownGoal \/ DelayGoal \/ SetGoalPriority \/ DropGoal
    \/ RepairBranch \/ SaveRepaired \/ SetRecord \/ FindMatch

\* Creating and repairing end the process when the AI gives nothing of use,
\* creating also when the user has no journey.
GiveUp ==
    /\ Doing("create_goal") \/ (Doing("repair_branch") /\ Found)
    /\ Fall
    /\ UNCHANGED bounds

\* The attempt failed, or the deep search wants another. What it did stays
\* done.
Fail ==
    /\ At("failed")
    /\ run' = To("retrying", <<Plain("middleware_retry")>>)
    /\ ExceptFor(stores)

\* (fault: after the last attempt the loop ends and the handler goes on)
Retry_Leave ==
    /\ At("retrying")
    /\ run' = IF run.attempt + 1 < MAX_RETRIES
              THEN [run EXCEPT !.at = "asking", !.attempt = @ + 1, !.candidate = FALSE]
              ELSE [run EXCEPT !.at = "saving"]
    /\ ExceptFor(stores)
Retry ==
    /\ At("retrying")
    /\ run.attempt + 1 < MAX_RETRIES
    /\ run' = [run EXCEPT !.at = "asking", !.attempt = @ + 1, !.candidate = FALSE]
    /\ ExceptFor(stores)

\* change_assert: the AI failed MAX_RETRIES times.
LastFailed ==
    /\ At("retrying") /\ ~(run.attempt + 1 < MAX_RETRIES)
    /\ Fall
    /\ UNCHANGED bounds

\* Every action is done: the reminder counts as shown before the answer is out.
Remind ==
    /\ At("acting") /\ run.todo = <<>>
    /\ LET h == get_session_history(run.session)
           marking == run.candidate /\ ~h.shown
       IN  /\ Keep(run.session, [h EXCEPT !.shown = @ \/ run.candidate])
           /\ run' = To("closing", IF marking THEN <<Plain("stalled_goal_reminder_shown")>>
                                              ELSE <<>>)
    /\ UNCHANGED <<topic, file, log, streams, tabs, torn, stores, stalled, notes, bounds>>

Close ==
    /\ At("closing")
    /\ \E titled \in {FALSE, run.candidate} :
           Keep(run.session, append_session_message(get_session_history(run.session), titled))
    /\ reminded' = [reminded EXCEPT ![run.session] = IF run.candidate THEN @ + 1 ELSE @]
    /\ \E more \in {<<>>, <<Plain("suggested_replies")>>} :
           run' = To("saving", <<Plain("assistant_message")>> \o more)
    /\ UNCHANGED <<topic, file, log, streams, tabs, torn, stores, stalled, answered, lost, bounds>>

\* SaveUser, then the answer, and the listener looks after the streams.
\* (fault: the handler answers and does not save)
Save_Skip ==
    /\ At("saving")
    /\ saved' = saved /\ run' = Idle
    /\ prune_dead_sse_clients
    /\ UNCHANGED <<topic, slots, file, log, tabs, torn, pending, asked, profile, reminders, memory,
                   stalled, notes, bounds>>
Save ==
    /\ At("saving")
    /\ saved' = memory /\ run' = Idle
    /\ prune_dead_sse_clients
    /\ UNCHANGED <<topic, slots, file, log, tabs, torn, pending, asked, profile, reminders, memory,
                   stalled, notes, bounds>>

----------------------------------------------------------------------------
(* The other requests *)

\* ResolveMiddlewarePermission. A reminder that finds the list full is not
\* saved, and the answer is OK all the same.
\* (fault: one that was refused stays active)
Resolved_Refused(kind, i, approved) ==
    [pending EXCEPT ![kind][i] = IF approved THEN Free ELSE @]
Resolved(kind, i, approved) == [pending EXCEPT ![kind][i] = Free]

\* Of two answers to one question the first counts.
FirstAnswer(id, approved) ==
    [x \in DOMAIN answered \cup {id} |-> IF x \in DOMAIN answered THEN answered[x] ELSE approved]

Permission(kind, i, approved) ==
    /\ run = Idle /\ replies < MaxReplies[topic] /\ pending[kind][i] # Free
    /\ LET p == pending[kind][i]
       IN  /\ profile' = IF kind = "profile" /\ approved
                         THEN [profile EXCEPT ![p.key] = p.value] ELSE profile
           /\ reminders' = IF kind = "reminder" /\ approved
                              /\ Cardinality(reminders) < REMINDERS_MAX
                           THEN reminders \cup {p.value} ELSE reminders
           /\ run' = [Idle EXCEPT !.at = "resolved", !.session = p.session,
                                  !.outbox = <<Event("permission_resolved", p.key, p.value, p.id)>>]
           /\ answered' = FirstAnswer(p.id, approved)
    /\ pending' = Resolved(kind, i, approved)
    /\ replies' = replies + 1
    /\ UNCHANGED <<topic, tables, asked, memory, saved, stalled, reminded, lost, turns, crashes>>

Answer ==
    /\ At("resolved")
    /\ run' = Idle
    /\ prune_dead_sse_clients
    /\ UNCHANGED <<topic, slots, file, log, tabs, torn, stores, stalled, notes, bounds>>

\* ExportMiddlewareSessionJSON: the session takes a place in the table.
ExportSession(s) ==
    /\ run = Idle
    /\ Keep(s, get_session_history(s))
    /\ prune_dead_sse_clients
    /\ UNCHANGED <<topic, file, log, tabs, torn, stores, stalled, run, notes, bounds>>

\* handle_get_middleware_events and add_sse_client: the first place that is
\* not taken; without one the connection is closed.
add_sse_client(t) ==
    LET free == {i \in DOMAIN streams : streams[i] = Free}
    IN  {i \in free : \A j \in free : i <= j}

Open(t, s) ==
    /\ run = Idle /\ tabs[t].opened < MaxTabs[topic] /\ ~tabs[t].open
    /\ \A i \in DOMAIN streams : streams[i] # t
    /\ IF add_sse_client(t) = {}
       THEN /\ prune_dead_sse_clients
            /\ tabs' = [tabs EXCEPT ![t].opened = @ + 1]
       ELSE /\ \E i \in add_sse_client(t) : streams' = [streams EXCEPT ![i] = t]
            /\ tabs' = [tabs EXCEPT ![t] = [session |-> s, open |-> TRUE, heard |-> <<>>,
                                            from |-> Len(log[s]), opened |-> @.opened + 1]]
    /\ UNCHANGED <<topic, slots, file, log, torn, stores, stalled, run, notes, bounds>>

\* The browser goes; nobody tells the server.
CloseTab(t) ==
    /\ tabs[t].open
    /\ tabs' = [tabs EXCEPT ![t].open = FALSE]
    /\ UNCHANGED <<topic, slots, file, log, streams, torn, stores, stalled, run, notes, bounds>>


----------------------------------------------------------------------------
(* Time, crashes *)

Stall ==
    /\ topic = "reminding" /\ ~stalled
    /\ stalled' = TRUE
    /\ UNCHANGED <<topic, tables, stores, run, notes, bounds>>

Crash ==
    /\ run.at # "down" /\ crashes < MaxCrashes
    /\ crashes' = crashes + 1
    /\ Fall
    /\ UNCHANGED <<turns, replies>>

Restart ==
    /\ run = Down
    /\ run' = Idle
    /\ UNCHANGED <<topic, tables, stores, stalled, notes, bounds>>

NoTab == [session |-> None, open |-> FALSE, heard |-> <<>>, from |-> 0, opened |-> 0]

Init ==
    /\ topic \in Topics
    /\ slots = [i \in 1 .. HISTORY_CAP |-> Free]
    /\ file = [s \in Sessions |-> <<>>] /\ log = file
    /\ pending = [kind \in {"profile", "reminder"} |-> [i \in 1 .. MAX_PENDING |-> Free]]
    /\ asked = 0
    /\ profile = [k \in Keys |-> None] /\ reminders = {}
    /\ saved = [x \in Things |-> IF x \in Begun \cup {Record, Graph} THEN 1 ELSE 0]
    /\ memory = saved
    /\ stalled = FALSE
    /\ run = Idle
    /\ streams = [i \in 1 .. MAX_SSE_CLIENTS |-> Free]
    /\ tabs = [t \in Tabs |-> NoTab]
    /\ answered = <<>>
    /\ reminded = [s \in Sessions |-> 0]
    /\ torn = {} /\ lost = {}
    /\ turns = 0 /\ replies = 0 /\ crashes = 0

\* The steps of a handler that has begun.
Handler ==
    \/ Say \/ Write \/ Dismiss
    \/ \E answer \in Answers[topic] : Ask(answer)
    \/ apply_actions \/ GiveUp \/ Fail \/ Retry \/ LastFailed
    \/ Remind \/ Close \/ Save \/ Answer

Requests ==
    \/ \E s \in Chats[topic], m \in Said[topic] : Message(s, m)
    \/ \E kind \in DOMAIN pending, i \in 1 .. MAX_PENDING, approved \in BOOLEAN :
           Permission(kind, i, approved)
    \/ \E s \in Chats[topic] : ExportSession(s) \/ \E t \in Tabs : Open(t, s)

Next == Handler \/ Requests \/ (\E t \in Tabs : CloseTab(t)) \/ Stall \/ Crash \/ Restart

\* A handler that has begun goes on: the AI answers or the process ends.
Spec == Init /\ [][Next]_vars /\ WF_vars(Handler)

----------------------------------------------------------------------------
(* Properties *)

Types == {"message_received", "assistant_message", "suggested_replies", "middleware_retry",
          "stalled_goal_reminder_shown", "stalled_goal_reminder_dismissed",
          "deep_search_started", "deep_search_done", "permission_required",
          "reminder_permission_required", "permission_resolved", "profile_updated",
          "goal_create_started", "goal_created", "graph_update_started", "graph_updated",
          "graph_update_noop", "goal_delayed", "goal_priority_changed", "goal_drop_requested",
          "goal_repaired", "set_discoverable", "set_private", "update_match_description",
          "match_search_done"}
Events == [type : Types, key : Keys \cup Things \cup {None}, value : Values \cup {None}, n : Nat]
Histories == [session : Sessions, titled : BOOLEAN, events : Seq(Events), shown : BOOLEAN,
              dismissed : BOOLEAN]
Permissions == [id : Nat, session : Sessions, key : Keys \cup {None}, value : Values]
Stages == {"idle", "down", "received", "asking", "acting", "repaired", "failed", "retrying",
           "closing", "saving", "resolved"}
Runs == [at : Stages, session : Sessions \cup {None}, msg : Messages \cup {None},
         attempt : 0 .. MAX_RETRIES - 1, candidate : BOOLEAN, todo : Seq(Actions),
         outbox : Seq(Events), writing : BOOLEAN]
Views == [session : Sessions \cup {None}, open : BOOLEAN,
          heard : Seq([session : Sessions, at : Nat]), from : Nat, opened : Nat]

\* What the tables, the files and the handler may hold.
TypeOK ==
    /\ topic \in Topics
    /\ slots \in [1 .. HISTORY_CAP -> Histories \cup {Free}]
    /\ file \in [Sessions -> Seq(Events)] /\ log \in [Sessions -> Seq(Events)]
    /\ pending \in [{"profile", "reminder"} -> [1 .. MAX_PENDING -> Permissions \cup {Free}]]
    /\ asked \in Nat
    /\ profile \in [Keys -> Values \cup {None}] /\ reminders \subseteq Values
    /\ memory \in [Things -> Nat] /\ saved \in [Things -> Nat] /\ stalled \in BOOLEAN
    /\ run \in Runs
    /\ streams \in [1 .. MAX_SSE_CLIENTS -> Tabs \cup {Free}] /\ tabs \in [Tabs -> Views]
    /\ DOMAIN answered \subseteq 1 .. asked /\ \A id \in DOMAIN answered : answered[id] \in BOOLEAN
    /\ reminded \in [Sessions -> Nat]
    /\ torn \subseteq Sessions /\ lost \subseteq Things

\* A stalled goal is brought up in one answer of a session at most, however
\* often the session leaves the table or the process ends
\* (stalled_goal_reminder_shown): the AI is not told of it in a second turn.
\* Only an emptied file forgets that it was.
RemindedOnce == \A s \in Sessions \ torn : reminded[s] <= 1

\* Between two requests the session that a client reads is all that happened
\* in it, whether it comes from the table or from its file: a place taken by
\* another session, or a start, loses nothing (get_session_history,
\* record_session_event).
HistoryWhole ==
    run.at \in {"idle", "down"} =>
        \A s \in Sessions \ torn : get_session_history(s).events = log[s]

\* A browser that stays receives every event of its session that comes after
\* it, in order and no other session's (server_emit_event, add_sse_client);
\* the marks of the reminder alone are not sent.
Due(t) == {i \in DOMAIN log[tabs[t].session] :
              i > tabs[t].from /\ log[tabs[t].session][i].type \notin Silent}
StreamsFollow ==
    \A t \in Tabs : tabs[t].open =>
        /\ \A i \in DOMAIN tabs[t].heard :
               tabs[t].heard[i].session = tabs[t].session /\ tabs[t].heard[i].at \in Due(t)
        /\ \A at \in Due(t) : \E i \in DOMAIN tabs[t].heard : tabs[t].heard[i].at = at
        /\ \A i, j \in DOMAIN tabs[t].heard : i < j => tabs[t].heard[i].at < tabs[t].heard[j].at

\* The user was asked, with these words, and said yes.
Approved(type, key, value) ==
    \E s \in Sessions : \E i \in DOMAIN log[s] :
        /\ log[s][i].type = type /\ log[s][i].key = key /\ log[s][i].value = value
        /\ log[s][i].n \in DOMAIN answered /\ answered[log[s][i].n]

\* An age, a name, a place or a profession is in the profile, and a reminder
\* in the list, only if the user was shown that value and approved it, and did
\* not refuse it first: a place in the table of permissions that is taken over
\* by another question does not take the answer to the old one
\* (store_pending_permission, ResolveMiddlewarePermission).
Consent ==
    /\ \A k \in Sensitive : profile[k] # None =>
           Approved("permission_required", k, profile[k])
    /\ \A r \in reminders : Approved("reminder_permission_required", None, r)

Versioned == {"goal_created", "goal_delayed", "goal_priority_changed", "goal_repaired",
              "graph_updated", "set_discoverable", "set_private", "update_match_description"}

\* What the chat says was done to a goal, to the graph or to the user's record
\* is on disk when no request is being handled. A turn that ends with the
\* process is the exception: its events are in the file of the session and
\* what they tell of is not saved.
SaidIsSaved ==
    run.at \in {"idle", "down"} =>
        \A s \in Sessions : \A i \in DOMAIN log[s] :
            log[s][i].type \in Versioned /\ log[s][i].key \notin lost =>
                saved[log[s][i].key] >= log[s][i].n

\* A message is answered, after MAX_RETRIES attempts at most, or the process
\* ends (RunClientMiddleware).
AnswerSaid ==
    /\ run.at = "saving"
    /\ \E i \in DOMAIN run.outbox : run.outbox[i].type = "assistant_message"
MessageAnswered == (run.at = "received") ~> (AnswerSaid \/ run.at = "down")

\* A session that leaves the table for another, or the process for a start, comes
\* back whole, with the mark that its reminder was shown (middleware.c:300, :354).
SessionsWhole == TypeOK /\ RemindedOnce /\ HistoryWhole

----------------------------------------------------------------------------
(* The inductive invariant *)

ASSUME FreeAssumption == Free \notin Histories \cup Permissions

Of(i, s) == slots[i] # Free /\ slots[i].session = s
Mark == "stalled_goal_reminder_shown"

\* Between two requests nothing of a handler is left; every other stage is of
\* a session. The event that is written is in the log and its session in the
\* table.
HandlerSound ==
    /\ run.at = "idle" => run = Idle
    /\ run.at = "down" => run = Down
    /\ run.at \notin {"idle", "down"} => run.session \in Sessions
    /\ run.at = "repaired" => run.todo # <<>>
    /\ run.writing =>
           /\ run.outbox # <<>> /\ \E i \in DOMAIN slots : Of(i, run.session)
           /\ \E i \in DOMAIN log[run.session] : log[run.session][i] = Head(run.outbox)

OnePlaceEach ==
    \A i, j \in DOMAIN slots :
        slots[i] # Free /\ slots[j] # Free /\ slots[i].session = slots[j].session => i = j

\* A place in the table holds all that happened in its session, and so does
\* the file, but while it is written.
NothingForgotten ==
    /\ \A i \in DOMAIN slots : slots[i] # Free /\ slots[i].session \notin torn =>
           slots[i].events = log[slots[i].session]
    /\ \A s \in Sessions \ torn : file[s] = log[s] \/ (run.writing /\ run.session = s)

\* A session that was reminded has the mark, in the log and in its place; one
\* that may be reminded has it not.
RemindedIsMarked == \A s \in Sessions \ torn : reminded[s] = 1 => Has(log[s], Mark)
PlaceIsMarked ==
    \A i \in DOMAIN slots : slots[i] # Free /\ slots[i].session \notin torn =>
        (Has(log[slots[i].session], Mark) => slots[i].shown)
MarkComing ==
    Has(run.outbox, Mark) => \E i \in DOMAIN slots : Of(i, run.session) /\ slots[i].shown
MayRemind ==
    run.candidate /\ run.at \in {"acting", "repaired", "failed", "retrying"} =>
        \E i \in DOMAIN slots : Of(i, run.session) /\ ~slots[i].shown
Reminding ==
    run.candidate /\ run.at = "closing" /\ run.session \notin torn =>
        reminded[run.session] = 0 /\ (Has(log[run.session], Mark) \/ Has(run.outbox, Mark))
MarksKept ==
    RemindedOnce /\ RemindedIsMarked /\ PlaceIsMarked /\ MarkComing /\ MayRemind /\ Reminding

\* What is pending was put to the user with the words that an answer would
\* make true, and has no answer yet; no two questions have one id.
Question == [profile |-> "permission_required", reminder |-> "reminder_permission_required"]
Puts(e, kind, p) == /\ e.type = Question[kind] /\ e.key = p.key /\ e.value = p.value
                    /\ e.n = p.id
QuestionsPut ==
    \A kind \in DOMAIN pending : \A i \in 1 .. MAX_PENDING : pending[kind][i] # Free =>
        LET p == pending[kind][i]
        IN  /\ p.id \in 1 .. asked /\ p.id \notin DOMAIN answered
            /\ kind = "reminder" => p.key = None
            /\ \/ \E s \in Sessions : \E j \in DOMAIN log[s] : Puts(log[s][j], kind, p)
               \/ \E j \in DOMAIN run.outbox : Puts(run.outbox[j], kind, p)
OneIdEach ==
    \A k1, k2 \in DOMAIN pending : \A i, j \in 1 .. MAX_PENDING :
        pending[k1][i] # Free /\ pending[k2][j] # Free /\ pending[k1][i].id = pending[k2][j].id
            => k1 = k2 /\ i = j

\* What was said, or is about to be, is in memory, and is on disk when nothing
\* is under way.
SaysTrue(e) == e.type \in Versioned => e.key \in Things /\ (e.key \notin lost => e.n <= memory[e.key])
SaidIsTrue ==
    /\ \A x \in Things : saved[x] <= memory[x]
    /\ run.at \in {"idle", "down", "resolved"} => saved = memory
    /\ \A s \in Sessions : \A i \in DOMAIN log[s] : SaysTrue(log[s][i])
    /\ \A i \in DOMAIN run.outbox : SaysTrue(run.outbox[i])

\* A stream whose browser is there is in the table.
StreamsThere ==
    /\ StreamsFollow
    /\ \A t \in Tabs : tabs[t].open =>
           /\ tabs[t].session \in Sessions /\ tabs[t].from <= Len(log[tabs[t].session])
           /\ \E i \in DOMAIN streams : streams[i] = t

IInv ==
    /\ TypeOK /\ HandlerSound /\ OnePlaceEach /\ NothingForgotten /\ MarksKept
    /\ QuestionsPut /\ OneIdEach /\ Consent /\ SaidIsTrue /\ StreamsThere

=============================================================================
