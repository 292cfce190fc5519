------------------------- MODULE UserFilesInvariants -------------------------
(****************************************************************************)
(* What is always so of the files of a user and of the handlers at work on  *)
(* them.  IInv says which files the steps that a handler has left are about *)
(* and who is alone with them; PlainInv and EntryInv say, of the plain      *)
(* files and of entries, what a handler has read, what it will write and    *)
(* when a file is as was told.  UserFilesProofs shows that each is kept.    *)
(****************************************************************************)
EXTENDS UserFiles

----------------------------------------------------------------------------
\* The handlers and the steps they have left

Things == {"profile", "reminders", "user", "picture"} \cup EntryIds
EntryOps == {"create", "update", "delete", "attach", "embed", "unembed"}
PlainOps == {"input", "event", "set", "clear", "read", "remind", "forget", "user", "picture"}

IsList(t) == t \in Seq({t[k] : k \in DOMAIN t})

PathsOf(thing) ==
    IF thing \in EntryIds THEN {thing} \X Names
    ELSE IF thing = "user" THEN {File("user"), File("snapshot")}
    ELSE {File(s) : s \in {"profile", "reminders", "picture", "ext"}}

\* A step is about the files of its handler's thing, and what it writes fits.
Proper(thing, op, s) ==
    /\ s.do \in {"init", "snapshot", "modify", "open", "fill", "mkdir", "scan", "unlink"}
    /\ s.do = "init" => thing = "profile"
    /\ s.do = "snapshot" => thing = "user"
    /\ s.do \in {"mkdir", "scan", "unlink"} => thing \in EntryIds
    /\ s.do \notin {"init", "snapshot"} => s.path \in PathsOf(thing)
    /\ s.do \in {"modify", "open", "fill"} => s.path[2] \notin {"entry", "files"}
    /\ s.do = "modify" => /\ s.path[2] # "text"
                          /\ s.path = File("user") => op = "user"
                          /\ s.path[2] = "meta" => op = "update"
    /\ s.do \in {"open", "fill"} => /\ s = [do |-> s.do, path |-> s.path, data |-> s.data]
                                    /\ s.path[2] = "text" => s.data \in Texts
                                    /\ s.path = File("user") => s.data \in Users
                                    /\ s.path[2] = "meta" => op \in {"create", "update"}
    /\ s.do = "mkdir" => s.path[2] \in {"entry", "files"} /\ (s.path[2] = "entry" => op = "create")
    /\ s.do \in {"scan", "unlink"} => op = "delete"
    /\ s.do = "unlink" => s = [do |-> s.do, path |-> s.path, names |-> s.names]

Form(w) ==
    w = [req |-> w.req, thing |-> w.thing, todo |-> w.todo, alone |-> w.alone, begun |-> w.begun]

IsHandler(w) ==
    /\ Form(w)
    /\ w.thing \in Things \cup {"none"} /\ w.alone \in BOOLEAN /\ w.begun \in BOOLEAN
    /\ w.thing \in EntryIds => w.req.op \in EntryOps /\ w.req.id = w.thing
    /\ w.thing \notin EntryIds => w.req.op \notin EntryOps
    /\ w.thing \in Things \ EntryIds => w.req.op \in PlainOps
    /\ w.thing = "user" <=> w.req.op = "user"
    /\ IsList(w.todo) /\ (w.thing = "none" => w.todo = <<>>)
    /\ \A k \in 1 .. Len(w.todo) : Proper(w.thing, w.req.op, w.todo[k])

Handlers == DOMAIN work = Ports /\ \A p \in Ports : IsHandler(work[p])

\* Who is said to be alone with a thing is, and of the others it is noted.
Alone ==
    \A p \in Ports : IsBusy(p) =>
        /\ work[p].alone => \A q \in Ports \ {p} : work[q].thing # work[p].thing
        /\ ~work[p].alone => work[p].thing \in overlapped

----------------------------------------------------------------------------
\* The journal

IsThere(x) ==
    x = [is |-> "there", title |-> x.title, text |-> x.text, embeds |-> x.embeds, image |-> x.image]

Standing ==
    /\ DOMAIN told = Said
    /\ \A e \in EntryIds : told[e] = Unborn \/ told[e] = Gone \/ IsThere(told[e])

TreeOf(e) ==
    /\ \A n \in {"entry", "files"} : disk[<<e, n>>] \in {Missing, Directory}
    /\ \A n \in Names \ {"entry"} :
          disk[<<e, n>>] # Missing => disk[<<e, ParentOf[n]>>] = Directory
Tree == DOMAIN disk = Path /\ \A e \in EntryIds : TreeOf(e)

Writes(s, path) == s.do \in {"open", "fill"} /\ s.path = path
Opens(s, path) == s.do = "open" /\ s.path = path

\* Who creates an entry is alone with it: first the directory, then the text,
\* then the metadata.
CreateList(t, e) ==
    \/ t = <<>>
    \/ Len(t) = 1 /\ Writes(t[1], <<e, "meta">>)
    \/ Len(t) = 2 /\ Writes(t[1], <<e, "text">>) /\ Opens(t[2], <<e, "meta">>)
    \/ /\ Len(t) = 3 /\ t[1].do = "mkdir" /\ t[1].path = <<e, "entry">>
       /\ Opens(t[2], <<e, "text">>) /\ Opens(t[3], <<e, "meta">>)
CreatingBy(p) ==
    work[p].req.op = "create" =>
        LET e == work[p].thing
            t == work[p].todo
        IN  /\ told[e] = Unborn /\ \A q \in Ports \ {p} : work[q].thing # e
            /\ CreateList(t, e)
            /\ Len(t) # 3 => disk[<<e, "entry">>] = Directory
            /\ Len(t) \notin {2, 3} \/ (Len(t) = 2 /\ t[1].do = "fill") => disk[<<e, "text">>] # Missing

Creating == \A p \in Ports : CreatingBy(p)

KnownOnes ==
    \A p \in Ports : work[p].req.op \in EntryOps \ {"create"} => told[work[p].thing] # Unborn

AllMissing(e) == \A n \in Names : disk[<<e, n>>] = Missing

\* Who deletes one empties the directory of attachments, then the entry's.
Clears(s, e, n) ==
    /\ s.do \in {"scan", "unlink"} /\ s.path = <<e, n>>
    /\ s.do = "unlink" => s.names \subseteq Inside(n)
DeleteList(t, e) ==
    \/ t = <<>>
    \/ Len(t) = 1 /\ Clears(t[1], e, "entry")
    \/ Len(t) = 2 /\ Clears(t[1], e, "files") /\ Clears(t[2], e, "entry") /\ t[2].do = "unlink"
DeletingBy(p) ==
    work[p].req.op = "delete" =>
        LET e == work[p].thing
            t == work[p].todo
        IN  /\ DeleteList(t, e)
            /\ t = <<>> => AllMissing(e)
            /\ e \notin overlapped /\ disk[<<e, "meta">>] # Missing =>
                  \A k \in 1 .. Len(t) :
                      t[k].do = "unlink" /\ t[k].path = <<e, "entry">> => "meta" \in t[k].names
Deleting == \A p \in Ports : DeletingBy(p)

\* Metadata that is written again is that of an entry with its text.
RewritingBy(p) ==
    work[p].req.op = "update" =>
        LET e == work[p].thing
            t == work[p].todo
        IN  /\ \A k \in 2 .. Len(t) : t[k].path # <<e, "meta">>
            /\ t # <<>> /\ t[1].do = "open" /\ t[1].path = <<e, "meta">> /\ e \notin overlapped =>
                  disk[<<e, "meta">>] # Missing
Rewriting == \A p \in Ports : RewritingBy(p)

\* Nothing has yet been deleted of an entry.
Intact(e) == \A p \in Ports : work[p].thing = e /\ work[p].req.op = "delete" => ~work[p].begun

ListingOf(e) ==
    disk[<<e, "entry">>] = Directory /\ disk[<<e, "meta">>] # Missing
        /\ e \notin overlapped \cup torn /\ Intact(e)
    => disk[<<e, "text">>] # Missing
Listing == \A e \in EntryIds : ListingOf(e)

JournalInv ==
    Standing /\ Tree /\ Creating /\ KnownOnes /\ Deleting /\ Rewriting /\ Listing /\ DeletedStaysDeleted

----------------------------------------------------------------------------
\* The record of the user and its snapshot

Hidden == disk[File("snapshot")] \in {Missing, Torn}
Private(user) == ~load_user_from_dir(user).share => Hidden

\* A handler that is alone first saves the record, then sees to the snapshot.
SaveList(t) ==
    \/ t = <<>>
    \/ Len(t) = 1 /\ (t[1].do = "snapshot" \/ Writes(t[1], File("snapshot")))
    \/ /\ Len(t) = 2 /\ t[2].do = "snapshot"
       /\ Writes(t[1], File("user")) \/ (t[1].do = "modify" /\ t[1].path = File("user"))
Saver ==
    \A p \in Ports : work[p].thing = "user" =>
        LET t == work[p].todo
        IN  /\ SaveList(t)
            /\ work[p].alone =>
                  /\ Len(t) = 2 /\ t[1].do # "modify" => t[1].data = mem
                  /\ Len(t) # 2 => disk[File("user")] = mem
                  /\ Len(t) = 1 /\ t[1].do # "snapshot" => mem.share
                  /\ t = <<>> => Private(mem)

SettledUser ==
    "user" \notin overlapped \cup torn =>
        /\ (\A p \in Ports : work[p].thing # "user") => Private(mem)
        /\ (\A p \in Ports : work[p].thing = "user" => ~work[p].begun) => Private(disk[File("user")])

UserInv ==
    /\ mem \in Users /\ disk[File("user")] \in Users \cup {Torn}
    /\ Saver /\ SettledUser

IInv == Handlers /\ Alone /\ JournalInv /\ UserInv

----------------------------------------------------------------------------
\* The profile and the reminders: one file each, which is read and written whole

Sole == {"profile", "reminders"}
ProfileOps == {"input", "event", "set", "clear", "read"}
ReminderOps == {"remind", "forget"}
Notes == [id : ReminderIds, says : Texts]

\* A request has what its operation takes.
Fitting(r) ==
    /\ r.op = "input" => r.text \in Texts
    /\ r.op = "event" => r.event \in GoalEvents /\ r.goal \in GoalIds
    /\ r.op \in {"set", "clear"} => r.key \in Keys
    /\ r.op = "set" => r.value \in Values
    /\ r.op = "remind" => r.reminder \in Notes
    /\ r.op = "picture" => r.type \in Pictures
Asked ==
    \A p \in Ports :
        /\ Fitting(work[p].req)
        /\ work[p].thing = "profile" <=> work[p].req.op \in ProfileOps
        /\ work[p].thing = "reminders" <=> work[p].req.op \in ReminderOps
        /\ work[p].thing = "picture" <=> work[p].req.op = "picture"

\* What the clients were told of the two, and what a request makes of that.
Heard(tl) ==
    [inputs |-> tl["inputs"], events |-> tl["events"], keys |-> tl["keys"], reminders |-> tl["reminders"]]
Heeded(h, r) ==
    CASE r.op = "input"  -> [h EXCEPT !.inputs = Append(@, r.text)]
      [] r.op = "event"  -> [h EXCEPT !.events = Append(@, <<r.event, r.goal>>)]
      [] r.op = "set"    -> [h EXCEPT !.keys = [@ EXCEPT ![r.key] = r.value]]
      [] r.op = "clear"  -> [h EXCEPT !.keys = [@ EXCEPT ![r.key] = None]]
      [] r.op = "remind" -> [h EXCEPT !.reminders = {x \in @ : x.id # r.reminder.id} \cup {r.reminder}]
      [] r.op = "forget" -> [h EXCEPT !.reminders = {x \in @ : x.id # r.id}]
      [] OTHER           -> h
Hearing ==
    [inputs : Seq(Texts), events : Seq(GoalEvents \X GoalIds), keys : [Keys -> Values \cup {None}],
     reminders : SUBSET Notes]

DistinctIds(v) == \A i, j \in 1 .. Len(v) : v[i].id = v[j].id => i = j
Fits(T, v) ==
    IF T = "profile" THEN v \in Profiles
    ELSE v \in Seq(Notes) /\ Len(v) <= REMINDERS_MAX /\ DistinctIds(v)
Empty(v) == v \in {Missing, Torn}

\* What is so according to the file is what was told.
Lookup(f, k) == UserProfileGetDerivedField(f, k)
ProfileAgrees(f, h) ==
    /\ f.inputs = h.inputs /\ f.goals = h.events
    /\ \A k \in Keys : Lookup(f, k) = h.keys[k]
    /\ Lookup(f, "current_focus_goal_id") = FocusAfter(h.events)
    /\ h.inputs # <<>> => Lookup(f, "latest_input") = h.inputs[Len(h.inputs)]
Agrees(T, v, h) ==
    IF T = "profile" THEN ProfileAgrees(read_profile_sections(v), h)
    ELSE ToSet(RemindersList(v)) = h.reminders

\* The steps of a handler of one file.
Modifies(s, T) == s.do = "modify" /\ s.path = File(T)
Renews(s) == s.do = "init" \/ (Writes(s, File("profile")) /\ s.data = NewProfile)
SoleList(T, op, t) ==
    \/ t = <<>>
    \/ Len(t) = 1 /\ op # "read" /\ Modifies(t[1], T)
    \/ Len(t) = 1 /\ op # "read" /\ Writes(t[1], File(T))
    \/ Len(t) = 1 /\ op = "read" /\ T = "profile" /\ Renews(t[1])
    \/ Len(t) = 2 /\ op # "read" /\ T = "profile" /\ Renews(t[1]) /\ Modifies(t[2], T)
SoleTodo(T, v, op, t) ==
    /\ SoleList(T, op, t)
    /\ t # <<>> /\ t[1].do \in {"open", "fill"} => Fits(T, t[1].data)
    /\ t # <<>> /\ t[1].do = "fill" => v # Missing

\* Before a handler has read the file it is as was told, and what it then writes
\* is what its answer will say.
Stage(T, v, h, r, t, begun) ==
    /\ ~begun \/ Len(t) = 2 \/ (Len(t) = 1 /\ t[1].do \in {"init", "modify"}) => Agrees(T, v, h)
    /\ Len(t) = 2 /\ t[1].do # "init" => Empty(v)
    /\ Len(t) = 1 /\ t[1].do \in {"open", "fill"} => Agrees(T, t[1].data, Heeded(h, r))
    /\ t = <<>> => Agrees(T, v, Heeded(h, r))

\* The introduction: what the file says of it, whatever has been torn.
Sure(v, h) == h.keys["onboarded"] = "1" => Onboarded(v)
SureStage(v, h, r, t) ==
    /\ r.op = "set" /\ r.key = "onboarded" /\ r.value # "1" => h.keys["onboarded"] = None
    /\ t # <<>> /\ t[1].do \in {"open", "fill"} => Sure(t[1].data, h)
    /\ Len(t) = 1 /\ t[1].do \in {"open", "fill"} => Sure(t[1].data, Heeded(h, r))
    /\ t = <<>> => Sure(v, Heeded(h, r))

Whole(T) == T \notin overlapped \cup torn
FileOk(T) == Empty(disk[File(T)]) \/ Fits(T, disk[File(T)])
TodoOk(T, p) == work[p].thing = T => SoleTodo(T, disk[File(T)], work[p].req.op, work[p].todo)
Kept(T) ==
    Whole(T) =>
        /\ (\A p \in Ports : work[p].thing # T) => Agrees(T, disk[File(T)], Heard(told))
        /\ \A p \in Ports : work[p].thing = T =>
              Stage(T, disk[File(T)], Heard(told), work[p].req, work[p].todo, work[p].begun)
SoleAt(T) == FileOk(T) /\ (\A p \in Ports : TodoOk(T, p)) /\ Kept(T)
SureKept ==
    "profile" \notin overlapped =>
        /\ Sure(disk[File("profile")], Heard(told))
        /\ \A p \in Ports : work[p].thing = "profile" =>
              SureStage(disk[File("profile")], Heard(told), work[p].req, work[p].todo)

SoleInv == Asked /\ Heard(told) \in Hearing /\ (\A T \in Sole : SoleAt(T)) /\ SureKept

----------------------------------------------------------------------------
\* The picture, in two files, and what others may see

PictureAgrees == ReadUserAvatar(disk[File("picture")], disk[File("ext")]) = told["picture"]
PictureList(t) ==
    \/ t = <<>>
    \/ Len(t) = 1 /\ Writes(t[1], File("ext"))
    \/ Len(t) = 2 /\ Writes(t[1], File("picture")) /\ Opens(t[2], File("ext"))

\* Both get the type of the request; who is alone with them finds what it wrote.
PictureTodo(picture, ext, type, t, alone) ==
    /\ PictureList(t) /\ (t # <<>> => t[1].data = type) /\ (Len(t) = 2 => t[2].data = type)
    /\ Len(t) = 1 /\ t[1].do = "fill" => ext # Missing
    /\ Len(t) = 2 /\ t[1].do = "fill" => picture # Missing
    /\ alone => (Len(t) = 2 \/ picture = type) /\ (t = <<>> => ext = type)
PictureAt(p) ==
    work[p].thing = "picture" =>
        PictureTodo(disk[File("picture")], disk[File("ext")], work[p].req.type, work[p].todo, work[p].alone)
PictureKept ==
    Whole("picture") /\ (\A p \in Ports : work[p].thing = "picture" => ~work[p].begun) => PictureAgrees
PictureInv == (\A p \in Ports : PictureAt(p)) /\ PictureKept

\* The snapshot has a look of the user, or none.
Seen == Looks \cup {None}
SnapshotAt(p) ==
    work[p].thing = "user" =>
        (work[p].todo # <<>> /\ Writes(work[p].todo[1], File("snapshot")) => work[p].todo[1].data \in Seen)
SnapshotInv ==
    disk[File("snapshot")] \in Seen \cup {Missing, Torn} /\ \A p \in Ports : SnapshotAt(p)

\* What is noted of overlaps and crashes is about things there are.
Noted == overlapped \cup torn \subseteq Things

PlainInv == SoleInv /\ PictureInv /\ SnapshotInv /\ Noted

----------------------------------------------------------------------------
\* An entry and what is told of it
\*
\* f are the files of the entry, x is what is told of it, r the request of a
\* handler of it, t the steps that handler has left, b whether it has begun.

Fields == {"meta", "text", "embeds", "image"}
Shows(n, v, x) ==
    /\ n = "meta" => v = Meta(x.title)
    /\ n = "text" => v = x.text
    /\ n = "embeds" => v = x.embeds \/ (v = Missing /\ x.embeds = <<>>)
    /\ n = "image" /\ v = Missing => x.image = FALSE
    /\ n = "image" /\ v # Missing => x.image = TRUE
EntryLike(f, x) ==
    IF x \in {Unborn, Gone} THEN \A n \in Names : f[n] = Missing
    ELSE f["entry"] = Directory /\ \A n \in Fields : Shows(n, f[n], x)

ToldOk(x) ==
    /\ IsThere(x)
    /\ x.title \in Texts \cup {""} /\ x.text \in Texts /\ x.embeds \in Seq(Embeds) /\ x.image \in BOOLEAN
    /\ \A i \in 1 .. Len(x.embeds) : x.embeds[i].type = "image" => x.image = TRUE

EntryFitting(r) ==
    /\ r.op = "create" => r.title \in Texts /\ r.text \in Texts
    /\ r.op = "update" => r.title \in Texts \cup {""} /\ r.text \in Texts \cup {""}
    /\ r.op = "embed" => r.embed \in Embeds

\* What is told after the answer.
Born(r) == [is |-> "there", title |-> r.title, text |-> r.text, embeds |-> <<>>, image |-> FALSE]
After(x, r) == IF r.op = "create" THEN Born(r) ELSE Changed(x, r)

\* A handler that writes: for each file it has at most one step left, and what it
\* will write, as what is there where it has none, is what the answer says.
At(t, k) == t[k].path[2]
Orderly(t, r, f, b) ==
    /\ \A j, k \in 1 .. Len(t) : At(t, j) = At(t, k) => j = k
    /\ \A k \in 1 .. Len(t) : At(t, k) \in Names
    /\ \A k \in 2 .. Len(t) : t[k].do = "open"
    /\ t # <<>> => t[1].do \in {"modify", "open", "fill", "mkdir"}
    /\ t # <<>> /\ t[1].do = "modify" =>
          /\ b = FALSE
          /\ (At(t, 1) = "meta" /\ r.op = "update") \/ (At(t, 1) = "embeds" /\ r.op \in {"embed", "unembed"})
    /\ t # <<>> /\ t[1].do = "fill" => f[At(t, 1)] # Missing
    /\ t # <<>> /\ t[1].do = "mkdir" => At(t, 1) \in {"entry", "files"}
    /\ \A k \in 1 .. Len(t) : t[k].do \in {"open", "fill"} => At(t, k) \notin {"entry", "files"}
    /\ f["entry"] = Directory \/ (t # <<>> /\ t[1].do = "mkdir" /\ At(t, 1) = "entry")
    /\ \A k \in 1 .. Len(t) : At(t, k) = "image" =>
          f["files"] = Directory \/ (t[1].do = "mkdir" /\ At(t, 1) = "files" /\ f["entry"] = Directory)
Pending(t, n) == \E k \in 1 .. Len(t) : At(t, k) = n
Changing(f, x, r, t) ==
    /\ t # <<>> /\ t[1].do = "modify" => Shows(At(t, 1), f[At(t, 1)], x)
    /\ \A k \in 1 .. Len(t) : t[k].do \in {"open", "fill"} => Shows(At(t, k), t[k].data, After(x, r))
    /\ \A n \in Fields : ~Pending(t, n) => Shows(n, f[n], After(x, r))

\* A handler that deletes: it has read of all that is still there.
Emptying(f, t, b) ==
    /\ \A k \in 1 .. Len(t) : t[k].do = "unlink" =>
          /\ f[At(t, k)] = Directory
          /\ \A c \in Inside(At(t, k)) : f[c] = Missing \/ c \in t[k].names \/ (k = 2 /\ c = "files")
    /\ t # <<>> /\ t[1].do = "scan" /\ At(t, 1) = "entry" => b = FALSE

EntryStage(f, x, r, t, b) ==
    /\ b = FALSE => EntryLike(f, x)
    /\ x # Gone /\ r.op = "delete" => Emptying(f, t, b)
    /\ x # Gone /\ r.op # "delete" => Orderly(t, r, f, b) /\ Changing(f, x, r, t)

EntryKept(e) ==
    Whole(e) =>
        /\ (\A p \in Ports : work[p].thing # e) => EntryLike(FilesOf(e), told[e])
        /\ \A p \in Ports : work[p].thing = e =>
              EntryStage(FilesOf(e), told[e], work[p].req, work[p].todo, work[p].begun)

ImageThere(r, x) == r.op = "embed" /\ r.embed.type = "image" => x = Gone \/ x.image = TRUE
EntryAsked ==
    \A p \in Ports :
        /\ EntryFitting(work[p].req)
        /\ work[p].thing \in EntryIds => ImageThere(work[p].req, told[work[p].thing])

EntryInv ==
    /\ EntryAsked /\ \A e \in EntryIds : told[e] \in {Unborn, Gone} \/ ToldOk(told[e])
    /\ \A e \in EntryIds : EntryKept(e)

\* No entry has more embeds than are read of the list (journal.c:501).
FewEmbeds ==
    \A e \in EntryIds : told[e] \notin {Unborn, Gone} => Len(told[e].embeds) <= EMBEDS_READ

----------------------------------------------------------------------------
\* What a step makes of its handler

\* The handler of p goes on with other steps, or has been refused.
Goes(p, todo, begun) ==
    /\ DOMAIN work' = Ports /\ \A q \in Ports \ {p} : work'[q] = work[q]
    /\ work'[p] = [req |-> work[p].req, thing |-> work[p].thing, todo |-> todo,
                   alone |-> work[p].alone, begun |-> begun]
Refused(p) ==
    /\ DOMAIN work' = Ports /\ \A q \in Ports \ {p} : work'[q] = work[q]
    /\ work'[p] = Idle

\* A request comes in: its handler has its steps before it, and who is busy with
\* the same thing is no longer alone.
Joined(p, req, thing, todo) ==
    /\ overlapped \subseteq overlapped' /\ overlapped' \subseteq overlapped \cup {thing}
    /\ work[p].thing = "none" /\ work'[p].req = req /\ work'[p].thing = thing /\ work'[p].todo = todo
    /\ work'[p].begun = FALSE
    /\ \A q \in Ports \ {p} :
          /\ work'[q].req = work[q].req /\ work'[q].thing = work[q].thing
          /\ work'[q].todo = work[q].todo /\ work'[q].begun = work[q].begun
          /\ work'[q].alone => work[q].alone /\ work[q].thing # thing

FirstStep(p) == work[p].todo[1]

\* The list of p goes on after its first step, or with another in its place.
Rest(p, u) ==
    /\ IsList(u) /\ Len(u) = Len(work[p].todo) - 1
    /\ \A k \in 1 .. Len(work[p].todo) - 1 : u[k] = work[p].todo[k + 1]
Instead1(p, u, x) ==
    /\ IsList(u) /\ u # <<>> /\ Len(u) = Len(work[p].todo) /\ u[1] = x
    /\ \A k \in 2 .. Len(work[p].todo) : u[k] = work[p].todo[k]
Instead2(p, u, x, y) ==
    /\ IsList(u) /\ Len(u) = Len(work[p].todo) + 1 /\ u[1] = x /\ u[2] = y
    /\ \A k \in 3 .. Len(work[p].todo) + 1 : u[k] = work[p].todo[k - 1]

\* One file changes.
Puts(path, v) == disk' = [disk EXCEPT ![path] = v]

----------------------------------------------------------------------------
\* What a step of a handler makes of the files of its entry

\* A list of steps with another first one, and without the first.
Put(t, u, s) == Len(u) = Len(t) /\ u[1] = s /\ (\A k \in 2 .. Len(t) : u[k] = t[k]) /\ u # <<>>
Cut(t, u) ==
    Len(u) = Len(t) - 1 /\ (\A k \in 1 .. Len(t) - 1 : u[k] = t[k + 1]) /\ (u = <<>> <=> Len(t) = 1)

Listlike(t) == Len(t) \in Nat /\ Len(t) >= 1 /\ t # <<>>

\* What is so of a handler of an entry, and of its files, when it takes a step.
EntryHandler(f, x, r, t, b) ==
    /\ Listlike(t) /\ x # Gone /\ EntryStage(f, x, r, t, b) /\ EntryFitting(r)
    /\ f["entry"] \in {Missing, Directory} /\ f["files"] \in {Missing, Directory}
    /\ r.op # "create" => ToldOk(x) /\ Len(x.embeds) <= EMBEDS_READ

Alike(f, f2) == \A m \in Names : f2[m] = f[m]
Filed(f, f2, n, v) == f2[n] = v /\ \A m \in Names \ {n} : f2[m] = f[m]

\* The steps of one that writes.
EntryModifies(f, r, t, b, f2, u, b2) ==
    /\ t[1].do = "modify" /\ Alike(f, f2) /\ b2 = b /\ Modified(r, f[At(t, 1)]) # NotSaved
    /\ \E s : s.do = "open" /\ s.path = t[1].path /\ s.data = Modified(r, f[At(t, 1)]) /\ Put(t, u, s)
EntryOpened(f, t, f2, u, b2) ==
    /\ t[1].do = "open" /\ b2 = TRUE
    /\ \/ /\ f[ParentOf[At(t, 1)]] # Directory /\ At(t, 1) # "image" /\ Alike(f, f2) /\ Cut(t, u)
       \/ /\ Filed(f, f2, At(t, 1), Torn)
          /\ \E s : s.do = "fill" /\ s.path = t[1].path /\ s.data = t[1].data /\ Put(t, u, s)
EntryFilled(f, t, f2, u, b2) ==
    /\ t[1].do = "fill" /\ b2 = TRUE /\ Cut(t, u)
    /\ f[At(t, 1)] # Missing => Filed(f, f2, At(t, 1), t[1].data)
EntryMade(f, t, f2, u, b2) ==
    /\ t[1].do = "mkdir" /\ b2 = TRUE /\ Cut(t, u)
    /\ At(t, 1) = "entry" \/ f["entry"] = Directory => Filed(f, f2, At(t, 1), Directory)

\* The steps of one that deletes.
Deletes1(t) ==
    /\ t[1].do \in {"scan", "unlink"}
    /\ \/ Len(t) = 1 /\ At(t, 1) = "entry"
       \/ Len(t) = 2 /\ At(t, 1) = "files" /\ At(t, 2) = "entry" /\ t[2].do = "unlink"
    /\ t[1].do = "unlink" => t[1].names \subseteq Inside(At(t, 1))
PutTwo(t, u, s1, s2) ==
    Len(u) = Len(t) + 1 /\ u[1] = s1 /\ u[2] = s2 /\ \A k \in 3 .. Len(t) + 1 : u[k] = t[k - 1]
EntryScanned(f, t, b, f2, u, b2) ==
    /\ t[1].do = "scan" /\ Alike(f, f2) /\ b2 = b
    /\ \/ /\ f[At(t, 1)] = Directory
          /\ \E s : /\ s.do = "unlink" /\ s.path = t[1].path /\ Put(t, u, s)
                    /\ s.names = {c \in Inside(At(t, 1)) : f[c] # Missing}
       \/ f[At(t, 1)] # Directory /\ At(t, 1) = "files" /\ Cut(t, u)
EntryUnlinked(f, t, b, f2, u, b2) ==
    /\ t[1].do = "unlink"
    /\ \E c \in t[1].names : \E s :
          /\ s.do = "unlink" /\ s.path = t[1].path /\ s.names = t[1].names \ {c}
          /\ \/ /\ c = "files" /\ Alike(f, f2) /\ b2 = b
                /\ \E s1 : s1.do = "scan" /\ s1.path[2] = "files" /\ PutTwo(t, u, s1, s)
             \/ c # "files" /\ Filed(f, f2, c, Missing) /\ b2 = TRUE /\ Put(t, u, s)
EntryRemoved(f, t, f2, u, b2) ==
    /\ t[1].do = "unlink" /\ t[1].names = {} /\ Cut(t, u) /\ b2 = TRUE
    /\ Filed(f, f2, At(t, 1), Missing)

\* What is so of an entry and of a handler that is alone with it.
EntryReady(p, e) ==
    /\ work[p].thing = e /\ told[e] # Gone
    /\ EntryStage(FilesOf(e), told[e], work[p].req, work[p].todo, work[p].begun)
    /\ EntryFitting(work[p].req)
    /\ work[p].req.op # "create" => ToldOk(told[e]) /\ Len(told[e].embeds) <= EMBEDS_READ

\* It is still so, or the handler has been refused before it began.
EntryMoved(p, e) ==
    \/ Refused(p) /\ work[p].begun = FALSE /\ Alike(FilesOf(e), FilesOf(e)')
    \/ \E u : \E b : Goes(p, u, b) /\ EntryStage(FilesOf(e)', told[e], work[p].req, u, b)

============================================================================
