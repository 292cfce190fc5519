----------------------------- MODULE UserFiles -----------------------------
(****************************************************************************)
(* The files in the directory of a user and the handlers that change them:  *)
(* the profile (ne/profile/user-profile.c), the reminders and the journal   *)
(* (journal/), the user's record with the snapshot others may see of it,    *)
(* and the picture (srv/user/user-io.c, user-management.c).                 *)
(*                                                                          *)
(* Requests come by the user's own port and forwarded by the central        *)
(* server; handlers on the two run side by side and no lock guards a file.  *)
(* Opening a file for writing empties it; the text comes after.  The        *)
(* process may end between any two steps and starts with what is on disk.   *)
(****************************************************************************)
EXTENDS Naturals, Sequences, FiniteSets, UserProfile, Reminders, Journal

CONSTANTS
    Ports,        \* the threads that run handlers
    Texts,        \* what the user types: inputs, journal texts, titles
    GoalEvents, GoalIds,
    Keys, Values, \* keys of the profile that a request sets, and their values
    ReminderIds,
    Looks,        \* name, colour and goals of the user, as others see them
    Pictures,     \* types of picture
    EntryIds,     \* ids journal_gen_id may draw
    LINES,        \* lines of history the AI is given
    Areas,        \* bound of the model: files of one area only are asked for
    MaxRequests,  \* bound of the model: requests, by area
    MaxCrashes    \* bound of the model: crashes

ASSUME UserFilesAssumption ==
    /\ Areas \subseteq {"profile", "reminders", "journal", "user"}
    /\ "onboarded" \in Keys /\ {"0", "1"} \subseteq Values /\ SystemKeys \cap Keys = {}
    /\ {REMINDERS_MAX, EMBEDS_READ, LINES} \subseteq Nat \ {0}
    /\ MaxRequests \in [Areas -> Nat] /\ MaxCrashes \in Nat

\* The user of USER_TABLE and of the record.
Users == [share : BOOLEAN, look : Looks \cup {None}]

\* What files hold: texts, types of picture, an image and its time, records, the
\* metadata and the embeds of an entry, reminders and profiles.
Embeds == [type : {"goal", "image"}, ref : Texts]
Profiles == ProfilesOf(Texts, GoalEvents, GoalIds, Keys, Values)
Contents ==
    Texts \cup Pictures \cup {"bytes", "time"} \cup Users \cup [title : Texts \cup {""}]
    \cup Seq(Embeds) \cup Seq([id : ReminderIds, says : Texts]) \cup Profiles

\* A file that is absent or empty, a directory and an answer are not what files
\* hold, an empty value is none of those there are, and the id of an entry is not
\* the name of another file.
ASSUME DistinctAssumption ==
    /\ \A x \in {Missing, Torn, NotSaved} : x \notin Contents
    /\ Missing \notin {Torn, Directory} /\ None \notin Texts \cup Values
    /\ EntryIds \cap {"profile", "reminders", "user", "snapshot", "picture", "ext", "none",
                      "inputs", "events", "keys"} = {}

VARIABLES
    area,      \* what the requests are about
    disk,      \* what is at each path
    mem,       \* the user in USER_TABLE: do others see the profile, and what
    work,      \* the handler each port is running
    told,      \* what the clients were told is so, by the requests answered OK
    overlapped,\* what two handlers were busy with at once
    torn,      \* what a handler was busy with when the process ended
    requests, crashes

vars == <<area, disk, mem, work, told, overlapped, torn, requests, crashes>>

\* A path is the thing it belongs to and a name.
Single == {"profile", "reminders", "user", "snapshot", "picture", "ext"}
Path == {<<s, "file">> : s \in Single} \cup EntryIds \X Names
File(s) == <<s, "file">>
FilesOf(e) == [n \in Names |-> disk[<<e, n>>]]

Idle == [req |-> [op |-> "none"], thing |-> "none", todo |-> <<>>, alone |-> FALSE, begun |-> FALSE]
IsBusy(p) == work[p].thing # "none"
Busy(thing) == \E p \in Ports : IsBusy(p) /\ work[p].thing = thing

\* What the clients are told of.
Said == {"inputs", "events", "keys", "reminders", "picture"} \cup EntryIds

\* How a journal entry stands with the clients.
Unborn == [is |-> "unborn"]
Gone == [is |-> "gone"]

TypeOK ==
    /\ disk[File("profile")] \in {Missing, Torn} \cup Profiles
    /\ disk[File("reminders")] \in {Missing, Torn} \/
       /\ Len(disk[File("reminders")]) <= REMINDERS_MAX
       /\ \A i \in DOMAIN disk[File("reminders")] :
             disk[File("reminders")][i] \in [id : ReminderIds, says : Texts]
    /\ disk[File("user")] = Torn \/ disk[File("user")] \in Users
    /\ disk[File("snapshot")] \in Looks \cup {None, Missing, Torn}
    /\ mem \in Users
    /\ \A e \in EntryIds : \A n \in {"entry", "files"} :
          disk[<<e, n>>] \in {Missing, Directory}
    /\ \A e \in EntryIds : \A n \in Names : disk[<<e, n>>] # Missing =>
          n = "entry" \/ disk[<<e, ParentOf[n]>>] = Directory
    /\ overlapped \cup torn \subseteq {"profile", "reminders", "user", "picture"} \cup EntryIds

----------------------------------------------------------------------------
\* What a handler does to files, one step after the other

Modify(path) == [do |-> "modify", path |-> path]
Write(path, data) == [do |-> "open", path |-> path, data |-> data]
Initialise == [do |-> "init"]
Mkdir(path) == [do |-> "mkdir", path |-> path]
Scan(e, n) == [do |-> "scan", path |-> <<e, n>>]
Snapshot == [do |-> "snapshot"]

\* A request comes in.  If another handler is busy with the same thing neither
\* is alone with it.
Begin(p, req, thing, todo) ==
    LET with == {q \in Ports : IsBusy(q) /\ work[q].thing = thing}
    IN  /\ ~IsBusy(p) /\ requests < MaxRequests[area]
        /\ requests' = requests + 1
        /\ work' = [q \in Ports |->
                      IF q = p THEN [req |-> req, thing |-> thing, todo |-> todo,
                                     alone |-> with = {}, begun |-> FALSE]
                      ELSE IF q \in with THEN [work[q] EXCEPT !.alone = FALSE] ELSE work[q]]
        /\ overlapped' = IF with # {} THEN overlapped \cup {thing} ELSE overlapped
        /\ UNCHANGED <<area, disk, told, torn, crashes>>

Now(p) == Head(work[p].todo)
Doing(p, do) == IsBusy(p) /\ work[p].todo # <<>> /\ Now(p).do = do
\* The step is followed by others in its place.
Instead(p, steps) == work' = [work EXCEPT ![p].todo = steps \o Tail(@)]
Done(p) == work' = [work EXCEPT ![p].todo = Tail(@), ![p].begun = TRUE]
\* The handler answers with an error.
Refuse(p) == work' = [work EXCEPT ![p] = Idle]

HasParent(path) ==
    path[1] \in EntryIds /\ path[2] # "entry" => disk[<<path[1], ParentOf[path[2]]>>] = Directory

\* What is read from a file and what is to be written instead, by request.
read_profile_sections(file) == IF file \in {Missing, Torn} THEN NewProfile ELSE file
RemindersList(file) == IF file \in {Missing, Torn} THEN NoReminders ELSE file
write_user_meta == mem
Modified(req, file) ==
    CASE req.op = "input"   -> UserProfileRecordInput(read_profile_sections(file), req.text)
      [] req.op = "event"   -> UserProfileRecordGoalEvent(read_profile_sections(file), req.event, req.goal)
      [] req.op = "set"     -> UserProfileSetDerivedField(read_profile_sections(file), req.key, req.value)
      [] req.op = "clear"   -> UserProfileClearDerivedField(read_profile_sections(file), req.key)
      [] req.op = "remind"  -> RemindersSave(RemindersList(file), req.reminder)
      [] req.op = "forget"  -> RemindersDelete(RemindersList(file), req.id)
      [] req.op = "user"    -> write_user_meta
      [] req.op = "update"  -> IF file = Missing THEN NotSaved
                               ELSE IF req.title = "" THEN MetaOf(file) ELSE Meta(req.title)
      [] req.op = "embed"   -> JournalAddEmbed(file, req.embed)
      [] req.op = "unembed" -> IF EmbedThere(file, req.index)
                               THEN JournalRemoveEmbed(file, req.index) ELSE NotSaved

ReadAndChange(p) ==
    /\ Doing(p, "modify")
    /\ LET new == Modified(work[p].req, disk[Now(p).path])
       IN  IF new = NotSaved THEN Refuse(p) ELSE Instead(p, <<Write(Now(p).path, new)>>)
    /\ UNCHANGED <<area, disk, mem, told, overlapped, torn, requests, crashes>>

\* A profile that is missing is first written as a new one.
init_profile_file_if_missing(p) ==
    /\ Doing(p, "init")
    /\ Instead(p, IF disk[File("profile")] = Missing
                  THEN <<Write(File("profile"), NewProfile)>> ELSE <<>>)
    /\ UNCHANGED <<area, disk, mem, told, overlapped, torn, requests, crashes>>

\* Opening the file empties it, or makes it; without its directory nothing is
\* written, and only an attachment is refused for it.
OpenForWriting(p) ==
    /\ Doing(p, "open")
    /\ IF HasParent(Now(p).path) THEN
           /\ disk' = [disk EXCEPT ![Now(p).path] = Torn]
           /\ work' = [work EXCEPT ![p].todo = <<[Now(p) EXCEPT !.do = "fill"]>> \o Tail(@),
                                   ![p].begun = TRUE]
       ELSE /\ UNCHANGED disk
            /\ IF Now(p).path[2] = "image" THEN Refuse(p) ELSE Done(p)
    /\ UNCHANGED <<area, mem, told, overlapped, torn, requests, crashes>>

\* What is written into a file that was deleted is lost.
write_file(p) ==
    /\ Doing(p, "fill")
    /\ disk' = IF disk[Now(p).path] = Missing THEN disk
               ELSE [disk EXCEPT ![Now(p).path] = Now(p).data]
    /\ Done(p)
    /\ UNCHANGED <<area, mem, told, overlapped, torn, requests, crashes>>

MakeDirectory(p) ==
    /\ Doing(p, "mkdir")
    /\ disk' = IF HasParent(Now(p).path) THEN [disk EXCEPT ![Now(p).path] = Directory] ELSE disk
    /\ Done(p)
    /\ UNCHANGED <<area, mem, told, overlapped, torn, requests, crashes>>

\* The snapshot is made of what the user shows, or removed.
\* (fault: a snapshot is only ever written)
WriteUserProfileSnapshot_Only(p) ==
    /\ Doing(p, "snapshot")
    /\ Instead(p, IF mem.share THEN <<Write(File("snapshot"), mem.look)>> ELSE <<>>)
    /\ UNCHANGED <<area, disk, mem, told, overlapped, torn, requests, crashes>>
WriteUserProfileSnapshot(p) ==
    /\ Doing(p, "snapshot")
    /\ IF mem.share THEN /\ Instead(p, <<Write(File("snapshot"), mem.look)>>)
                         /\ UNCHANGED disk
                    ELSE /\ disk' = [disk EXCEPT ![File("snapshot")] = Missing]
                         /\ Done(p)
    /\ UNCHANGED <<area, mem, told, overlapped, torn, requests, crashes>>

\* A directory is read, what was in it then is deleted in any order, a directory
\* in it the same way, and last the directory itself, which fails if something
\* has been put into it meanwhile.  Only for the entry is that an error.
rmdir_r(p) ==
    /\ Doing(p, "scan")
    /\ LET e == Now(p).path[1]
           n == Now(p).path[2]
           there == {c \in Inside(n) : disk[<<e, c>>] # Missing}
       IN  IF disk[<<e, n>>] = Directory
           THEN Instead(p, <<[do |-> "unlink", path |-> <<e, n>>, names |-> there]>>)
           ELSE IF n = "entry" THEN Refuse(p) ELSE Instead(p, <<>>)
    /\ UNCHANGED <<area, disk, mem, told, overlapped, torn, requests, crashes>>

Unlink(p) ==
    /\ Doing(p, "unlink") /\ Now(p).names # {}
    /\ \E c \in Now(p).names :
          LET rest == [Now(p) EXCEPT !.names = @ \ {c}]
              path == <<Now(p).path[1], c>>
          IN  IF c = "files"
              THEN Instead(p, <<Scan(path[1], c), rest>>) /\ UNCHANGED disk
              ELSE /\ disk' = [disk EXCEPT ![path] = Missing]
                   /\ work' = [work EXCEPT ![p].todo = <<rest>> \o Tail(@), ![p].begun = TRUE]
    /\ UNCHANGED <<area, mem, told, overlapped, torn, requests, crashes>>

\* (fault: it is not asked whether the directory could be removed)
RemoveDirectory_Unasked(p) ==
    /\ Doing(p, "unlink") /\ Now(p).names = {}
    /\ LET e == Now(p).path[1]
           n == Now(p).path[2]
           empty == disk[<<e, n>>] = Directory /\ \A c \in Inside(n) : disk[<<e, c>>] = Missing
       IN  /\ disk' = IF empty THEN [disk EXCEPT ![<<e, n>>] = Missing] ELSE disk
           /\ Done(p)
    /\ UNCHANGED <<area, mem, told, overlapped, torn, requests, crashes>>
RemoveDirectory(p) ==
    /\ Doing(p, "unlink") /\ Now(p).names = {}
    /\ LET e == Now(p).path[1]
           n == Now(p).path[2]
           empty == disk[<<e, n>>] = Directory /\ \A c \in Inside(n) : disk[<<e, c>>] = Missing
       IN  /\ disk' = IF empty THEN [disk EXCEPT ![<<e, n>>] = Missing] ELSE disk
           /\ IF empty \/ n = "files" THEN Done(p) ELSE Refuse(p)
    /\ UNCHANGED <<area, mem, told, overlapped, torn, requests, crashes>>

----------------------------------------------------------------------------
\* The profile

Profiled(p, req) ==
    /\ area = "profile"
    /\ Begin(p, req, "profile", <<Initialise, Modify(File("profile"))>>)
    /\ UNCHANGED mem
RecordInput(p, text) == Profiled(p, [op |-> "input", text |-> text])
RecordGoalEvent(p, event, goal) == Profiled(p, [op |-> "event", event |-> event, goal |-> goal])
\* The app says "0" when it signs a user up, before anything else of the key, and
\* later "1".
handle_post_profile_update(p, key, value) ==
    /\ key = "onboarded" /\ value # "1" => told.keys[key] = None /\ ~Busy("profile")
    /\ Profiled(p, [op |-> "set", key |-> key, value |-> value])
ClearDerivedField(p, key) == Profiled(p, [op |-> "clear", key |-> key])
handle_get_profile(p) ==
    /\ area = "profile"
    /\ Begin(p, [op |-> "read"], "profile", <<Initialise>>)
    /\ UNCHANGED mem

\* A missing line counts as onboarded, whatever else but two values as not.
Onboarded(file) ==
    UserProfileGetDerivedField(read_profile_sections(file), "onboarded") \in {None, "1", "true"}

----------------------------------------------------------------------------
\* Reminders

handle_post_reminders_save(p, id, says) ==
    /\ area = "reminders"
    /\ Begin(p, [op |-> "remind", reminder |-> Reminder(id, says)], "reminders",
             <<Modify(File("reminders"))>>)
    /\ UNCHANGED mem
handle_post_reminders_delete(p, id) ==
    /\ area = "reminders"
    /\ Begin(p, [op |-> "forget", id |-> id], "reminders", <<Modify(File("reminders"))>>)
    /\ UNCHANGED mem

----------------------------------------------------------------------------
\* The journal

Entry(p, req, e, todo) ==
    /\ area = "journal"
    /\ Begin(p, req, e, todo)
    /\ UNCHANGED mem
Known(e) == told[e] # Unborn

JournalCreate(e, title, text) ==
    <<Mkdir(<<e, "entry">>), Write(<<e, "text">>, text), Write(<<e, "meta">>, Meta(title))>>

\* The directory must be new: the id is one that nobody has drawn.
handle_post_journal_create(p, e, title, text) ==
    /\ told[e] = Unborn /\ ~Busy(e) /\ disk[<<e, "entry">>] = Missing
    /\ Entry(p, [op |-> "create", id |-> e, title |-> title, text |-> text], e, JournalCreate(e, title, text))

\* An empty title or text leaves what there is.
handle_post_journal_update(p, e, title, text) ==
    /\ Known(e)
    /\ Entry(p, [op |-> "update", id |-> e, title |-> title, text |-> text], e,
             <<Modify(<<e, "meta">>)>> \o
             (IF text = "" THEN <<>> ELSE <<Write(<<e, "text">>, text)>>))

handle_post_journal_delete(p, e) ==
    Known(e) /\ Entry(p, [op |-> "delete", id |-> e], e, <<Scan(e, "entry")>>)

handle_post_journal_attach(p, e) ==
    Known(e) /\ Entry(p, [op |-> "attach", id |-> e], e,
                     <<Mkdir(<<e, "files">>), Write(<<e, "image">>, "bytes"),
                       Write(<<e, "stamp">>, "time")>>)

\* An image that is embedded was attached before.
handle_post_journal_embed(p, e, embed) ==
    /\ Known(e) /\ (embed.type = "image" /\ told[e] # Gone => told[e].image)
    /\ Entry(p, [op |-> "embed", id |-> e, embed |-> embed], e, <<Modify(<<e, "embeds">>)>>)
handle_post_journal_embed_delete(p, e, index) ==
    Known(e) /\ Entry(p, [op |-> "unembed", id |-> e, index |-> index], e, <<Modify(<<e, "embeds">>)>>)

----------------------------------------------------------------------------
\* The user's record and picture

SaveUser == <<Modify(File("user")), Snapshot>>

\* The name, the colour or a goal changes, or whether others may see them.
Saving(p, req, new) ==
    /\ area = "user"
    /\ Begin(p, req, "user", SaveUser)
    /\ mem' = new
UpdateLook(p, look) == Saving(p, [op |-> "user"], [mem EXCEPT !.look = look])
UpdateShareProfile(p, share) == Saving(p, [op |-> "user"], [mem EXCEPT !.share = share])

handle_post_profile_avatar(p, type) ==
    /\ area = "user"
    /\ Begin(p, [op |-> "picture", type |-> type], "picture",
             <<Write(File("picture"), type), Write(File("ext"), type)>>)
    /\ UNCHANGED mem

\* What the central server answers to others, and to oneself: nothing when the file
\* is missing or empty.
handle_get_user_profile(snapshot) == IF snapshot \in {Missing, Torn} THEN Missing ELSE snapshot
ReadUserAvatar(picture, ext) ==
    IF picture \in {Missing, Torn} THEN Missing ELSE <<picture, ext>>

----------------------------------------------------------------------------
\* What the clients know, and the end of a request

\* The goal in focus: the one of the last event that gives the focus, unless it
\* has ended since.
FocusAfter(events) ==
    LET focusing == {i \in DOMAIN events : events[i][1] \in Focusing}
        last == Max(focusing)
    IN  IF focusing = {} THEN None
        ELSE IF \E j \in last .. Len(events) : events[j] = <<"goal_ended", events[last][2]>>
        THEN None ELSE events[last][2]

\* An entry that is there, after a request about it was answered OK.
Changed(was, r) ==
    CASE r.op = "update"  -> [was EXCEPT !.title = IF r.title = "" THEN @ ELSE r.title,
                                         !.text = IF r.text = "" THEN @ ELSE r.text]
      [] r.op = "attach"  -> [was EXCEPT !.image = TRUE]
      [] r.op = "embed"   -> [was EXCEPT !.embeds = Append(@, r.embed)]
      [] r.op = "unembed" -> IF r.index + 1 \in DOMAIN was.embeds
                             THEN [was EXCEPT !.embeds = RemoveAt(@, r.index + 1)] ELSE was

\* What a request that was answered OK makes of what is so.
Tell(r) ==
    CASE r.op = "input"   -> [told EXCEPT !.inputs = Append(@, r.text)]
      [] r.op = "event"   -> [told EXCEPT !.events = Append(@, <<r.event, r.goal>>)]
      [] r.op = "set"     -> [told EXCEPT !.keys = [@ EXCEPT ![r.key] = r.value]]
      [] r.op = "clear"   -> [told EXCEPT !.keys = [@ EXCEPT ![r.key] = None]]
      [] r.op = "remind"  -> [told EXCEPT !.reminders =
                                {x \in @ : x.id # r.reminder.id} \cup {r.reminder}]
      [] r.op = "forget"  -> [told EXCEPT !.reminders = {x \in @ : x.id # r.id}]
      [] r.op = "create"  -> [told EXCEPT ![r.id] =
                                [is |-> "there", title |-> r.title, text |-> r.text,
                                 embeds |-> <<>>, image |-> FALSE]]
      [] r.op = "delete"  -> [told EXCEPT ![r.id] = Gone]
      [] r.op = "picture" -> [told EXCEPT !.picture = <<r.type, r.type>>]
      [] r.op \in {"read", "user"} -> told
      [] OTHER -> IF told[r.id] = Gone THEN told
                  ELSE [told EXCEPT ![r.id] = Changed(@, r)]

\* The record and the picture are written whole: after one who was alone with
\* them nothing is left of an earlier accident.
Answer(p) ==
    /\ IsBusy(p) /\ work[p].todo = <<>>
    /\ told' = Tell(work[p].req)
    /\ LET mended == {x \in {work[p].thing} : work[p].alone /\ x \in {"user", "picture"}}
       IN  overlapped' = overlapped \ mended /\ torn' = torn \ mended
    /\ work' = [work EXCEPT ![p] = Idle]
    /\ UNCHANGED <<area, disk, mem, requests, crashes>>

\* The record is taken from the disk, and of an empty one that nothing is shared.
load_user_from_dir(file) == IF file = Torn THEN [share |-> FALSE, look |-> None] ELSE file

\* The process ends and starts again.
Crash ==
    /\ crashes < MaxCrashes
    /\ crashes' = crashes + 1
    /\ torn' = torn \cup {work[p].thing : p \in {q \in Ports : IsBusy(q) /\ work[q].begun}}
    /\ mem' = load_user_from_dir(disk[File("user")])
    /\ work' = [p \in Ports |-> Idle]
    /\ UNCHANGED <<area, disk, told, overlapped, requests>>

Init ==
    /\ area \in Areas
    /\ \E look \in Looks :
          /\ mem = [share |-> TRUE, look |-> look]
          /\ disk = [path \in Path |-> IF path = File("user") THEN mem ELSE Missing]
    /\ work = [p \in Ports |-> Idle]
    /\ told = [x \in Said |-> CASE x \in {"inputs", "events"} -> <<>>
                               [] x = "keys" -> [k \in Keys |-> None]
                               [] x = "reminders" -> {}
                               [] x = "picture" -> Missing
                               [] OTHER -> Unborn]
    /\ overlapped = {} /\ torn = {} /\ requests = 0 /\ crashes = 0

Request(p) ==
    \/ \E text \in Texts : RecordInput(p, text)
    \/ \E event \in GoalEvents, goal \in GoalIds : RecordGoalEvent(p, event, goal)
    \/ \E key \in Keys : \/ \E value \in Values : handle_post_profile_update(p, key, value)
                         \/ ClearDerivedField(p, key)
    \/ handle_get_profile(p)
    \/ \E id \in ReminderIds : \/ \E says \in Texts : handle_post_reminders_save(p, id, says)
                               \/ handle_post_reminders_delete(p, id)
    \/ \E e \in EntryIds :
          \/ \E title \in Texts, text \in Texts : handle_post_journal_create(p, e, title, text)
          \/ \E title \in Texts \cup {""}, text \in Texts \cup {""} :
                handle_post_journal_update(p, e, title, text)
          \/ handle_post_journal_delete(p, e)
          \/ handle_post_journal_attach(p, e)
          \/ \E type \in {"goal", "image"}, text \in Texts :
                handle_post_journal_embed(p, e, Embed(type, text))
          \/ \E index \in 0 .. MaxRequests[area] : handle_post_journal_embed_delete(p, e, index)
    \/ \E look \in Looks : UpdateLook(p, look)
    \/ \E share \in BOOLEAN : UpdateShareProfile(p, share)
    \/ \E type \in Pictures : handle_post_profile_avatar(p, type)

Step(p) ==
    \/ init_profile_file_if_missing(p) \/ ReadAndChange(p)
    \/ OpenForWriting(p) \/ write_file(p) \/ MakeDirectory(p)
    \/ WriteUserProfileSnapshot(p)
    \/ rmdir_r(p) \/ Unlink(p) \/ RemoveDirectory(p)
    \/ Answer(p)

Next == Crash \/ \E p \in Ports : Request(p) \/ Step(p)

Spec == Init /\ [][Next]_vars

----------------------------------------------------------------------------
\* What the files promise

Settled(thing) == ~Busy(thing) /\ thing \notin overlapped \cup torn

\* The profile has every input and goal event it was told of, in their order, the
\* keys as last set, and the goal in focus that follows from the events.
ProfileAsTold ==
    Settled("profile") =>
        LET p == read_profile_sections(disk[File("profile")])
        IN  /\ SerializeUserProfileHistorySection(p, "inputs", LINES) =
                  append_last_lines(told.inputs, LINES)
            /\ p.goals = told.events
            /\ \A k \in Keys : UserProfileGetDerivedField(p, k) = told.keys[k]
            /\ UserProfileGetDerivedField(p, "current_focus_goal_id") = FocusAfter(told.events)
            /\ told.inputs # <<>> =>
                  <<"latest_input", told.inputs[Len(told.inputs)]>> \in SerializeUserProfileDerivedSummary(p)
RemindersAsTold ==
    Settled("reminders") => ToSet(RemindersList(disk[File("reminders")])) = told.reminders
PictureAsTold ==
    Settled("picture") => ReadUserAvatar(disk[File("picture")], disk[File("ext")]) = told.picture
EntriesAsTold ==
    \A e \in EntryIds : Settled(e) =>
        /\ Listed(FilesOf(e)) <=> told[e] \notin {Unborn, Gone}
        /\ Listed(FilesOf(e)) =>
              /\ JournalReadEntry(FilesOf(e)) =
                    [title |-> told[e].title, text |-> told[e].text,
                     embeds |-> told[e].embeds, image |-> told[e].image]
              /\ JournalBuildImageMemoriesJson(FilesOf(e)) # {} => told[e].image

\* What was answered OK is what the files give back; nothing of it is lost by
\* another request, by a refused one or by a crash between requests.  Two handlers
\* at once on the same thing, and a crash in the midst of one, are left out: those
\* do lose changes.
KeepsWhatItSaid == ProfileAsTold /\ RemindersAsTold /\ PictureAsTold /\ EntriesAsTold

\* An entry that is on the list has its text, whatever runs at the same time and
\* whenever the process ends, unless it is being deleted or a deletion of it did
\* not come to its end.
ListedHasText ==
    \A e \in EntryIds :
        Listed(FilesOf(e)) /\ e \notin overlapped \cup torn
            /\ (\A p \in Ports : IsBusy(p) /\ work[p].thing = e => work[p].req.op # "delete")
        => disk[<<e, "text">>] # Missing

\* An entry whose deletion was answered OK leaves nothing on disk and does not
\* come back, whatever else was being written into it at the time.
DeletedStaysDeleted ==
    \A e \in EntryIds : told[e] = Gone => \A n \in Names : disk[<<e, n>>] = Missing

\* No two reminders of the list have the same id, whatever is saved at once.
RemindersDistinct ==
    LET list == RemindersList(disk[File("reminders")])
    IN  Cardinality({list[i].id : i \in DOMAIN list}) = Len(list)

\* Who has been through the introduction, and was told so, is never sent through
\* it again: not while the profile is being written nor by a crash that empties
\* it; only a handler that writes back what it had read before does that.
OnboardedForGood ==
    told.keys["onboarded"] = "1" /\ "profile" \notin overlapped
        => Onboarded(disk[File("profile")])

\* Who does not share their profile is not seen by others, once the handler that
\* was told so is done; unless two saved at once, or the process ended between
\* the record and the snapshot: a snapshot then stays until the next save.
PrivateStaysPrivate ==
    Settled("user") /\ ~mem.share => handle_get_user_profile(disk[File("snapshot")]) = Missing

\* What the files hold is what the user was told, each reminder once, and nobody
\* is sent through the introduction again (user-profile.c:423, reminders.c:157).
FilesKeep == TypeOK /\ KeepsWhatItSaid /\ RemindersDistinct /\ OnboardedForGood

\* A journal entry is there with its text or is gone for good, with a handler of
\* the other port at work on it and the process ending at any step (journal.c:231,
\* :347).
EntriesWhole == ListedHasText /\ DeletedStaysDeleted

=============================================================================
