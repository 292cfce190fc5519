--------------------------- MODULE UserFilesProofs ---------------------------
(****************************************************************************)
(* What UserFiles promises of the files of a user and of what others may    *)
(* see holds for any number of ports, entries, requests and crashes.  One   *)
(* inductive invariant says of each handler which files the steps it has    *)
(* left are about; a second and a third, of the plain files and of entries, *)
(* what it has read, what it will write and when a file is as was told.     *)
(****************************************************************************)
EXTENDS UserFilesInvariants, FiniteSetTheorems, WellFoundedInduction, TLAPS

\* What files hold is told apart from a file that is missing or empty.
LEMMA Distinct ==
    /\ {Missing, Torn, NotSaved} \cap (Texts \cup Users) = {} /\ Missing \notin {Torn, Directory}
    /\ EntryIds \cap {"profile", "reminders", "user", "snapshot", "picture", "ext", "none",
                      "inputs", "events", "keys"} = {}
<1>1. Texts \subseteq Contents /\ Users \subseteq Contents
  BY DEF Contents
<1>. QED BY <1>1, DistinctAssumption

----------------------------------------------------------------------------
\* Lists of steps

LEMMA ListIn == ASSUME NEW S, NEW t \in Seq(S) PROVE IsList(t)
<1>1. \A k \in 1 .. Len(t) : t[k] \in {t[i] : i \in DOMAIN t}
  OBVIOUS
<1>. DEFINE R == {t[i] : i \in DOMAIN t}
<1>. HIDE DEF R
<1>2. Len(t) \in Nat /\ t = [k \in 1 .. Len(t) |-> t[k]] /\ \A k \in 1 .. Len(t) : t[k] \in R
  BY <1>1 DEF R
<1>3. [k \in 1 .. Len(t) |-> t[k]] \in Seq(R)
  BY <1>2
<1>. QED BY <1>2, <1>3 DEF IsList, R

LEMMA ListTail ==
    ASSUME NEW t, IsList(t), t # <<>>
    PROVE  /\ IsList(Tail(t)) /\ Len(t) \in Nat /\ Len(t) >= 1 /\ Len(Tail(t)) = Len(t) - 1
           /\ \A k \in 1 .. Len(t) - 1 : Tail(t)[k] = t[k + 1]
           /\ Head(t) = t[1]
<1>1. PICK S : t \in Seq(S)
  BY DEF IsList
<1>2. IsList(Tail(t))
  <2>1. Tail(t) \in Seq(S)
    BY <1>1
  <2>. QED BY <2>1, ListIn
<1>3. /\ Len(t) \in Nat /\ Len(t) >= 1 /\ Len(Tail(t)) = Len(t) - 1
      /\ \A k \in 1 .. Len(t) - 1 : Tail(t)[k] = t[k + 1]
      /\ Head(t) = t[1]
  BY <1>1
<1>. QED BY <1>2, <1>3

LEMMA ListPush ==
    ASSUME NEW t, IsList(t), t # <<>>, NEW x
    PROVE  /\ IsList(<<x>> \o Tail(t)) /\ Len(<<x>> \o Tail(t)) = Len(t)
           /\ (<<x>> \o Tail(t))[1] = x
           /\ \A k \in 2 .. Len(t) : (<<x>> \o Tail(t))[k] = t[k]
           /\ <<x>> \o Tail(t) # <<>>
<1>1. PICK S : t \in Seq(S)
  BY DEF IsList
<1>2. <<x>> \o Tail(t) \in Seq(S \cup {x})
  BY <1>1
<1>3. /\ Len(<<x>> \o Tail(t)) = Len(t) /\ (<<x>> \o Tail(t))[1] = x
      /\ \A k \in 2 .. Len(t) : (<<x>> \o Tail(t))[k] = t[k]
      /\ <<x>> \o Tail(t) # <<>>
  BY <1>1
<1>. QED BY <1>2, <1>3, ListIn

LEMMA ListPushTwo ==
    ASSUME NEW t, IsList(t), t # <<>>, NEW x, NEW y
    PROVE  /\ IsList(<<x, y>> \o Tail(t)) /\ Len(<<x, y>> \o Tail(t)) = Len(t) + 1
           /\ (<<x, y>> \o Tail(t))[1] = x /\ (<<x, y>> \o Tail(t))[2] = y
           /\ \A k \in 3 .. Len(t) + 1 : (<<x, y>> \o Tail(t))[k] = t[k - 1]
<1>1. PICK S : t \in Seq(S)
  BY DEF IsList
<1>2. <<x, y>> \o Tail(t) \in Seq(S \cup {x, y})
  BY <1>1
<1>3. /\ Len(<<x, y>> \o Tail(t)) = Len(t) + 1
      /\ (<<x, y>> \o Tail(t))[1] = x /\ (<<x, y>> \o Tail(t))[2] = y
      /\ \A k \in 3 .. Len(t) + 1 : (<<x, y>> \o Tail(t))[k] = t[k - 1]
  BY <1>1
<1>. QED BY <1>2, <1>3, ListIn

LEMMA ListNone == ASSUME NEW t, IsList(t), t # <<>> PROVE <<>> \o Tail(t) = Tail(t)
<1>1. PICK S : t \in Seq(S)
  BY DEF IsList
<1>2. Tail(t) \in Seq(S)
  BY <1>1
<1>. QED BY <1>2

LEMMA ListEmpty == ASSUME NEW t, IsList(t) PROVE Len(t) \in Nat /\ (t = <<>> <=> Len(t) = 0)
  BY DEF IsList

LEMMA NotEmpty == ASSUME NEW t, Len(t) = 1 \/ Len(t) = 2 PROVE t # <<>>
  OBVIOUS

LEMMA StepsOf ==
    ASSUME NEW a, NEW b, NEW c
    PROVE  /\ \A k \in 1 .. Len(<<a>>) : <<a>>[k] = a
           /\ \A k \in 1 .. Len(<<a, b>>) : <<a, b>>[k] \in {a, b}
           /\ \A k \in 1 .. Len(<<a, b, c>>) : <<a, b, c>>[k] \in {a, b, c}
  OBVIOUS

\* All the steps are proper ones of the handler.
AllProper(thing, op, t) == \A k \in 1 .. Len(t) : Proper(thing, op, t[k])

LEMMA ProperLists ==
    ASSUME NEW thing, NEW op, NEW a, Proper(thing, op, a)
    PROVE  /\ AllProper(thing, op, <<a>>)
           /\ \A b : Proper(thing, op, b) => AllProper(thing, op, <<a, b>>)
           /\ \A b, c : Proper(thing, op, b) /\ Proper(thing, op, c) => AllProper(thing, op, <<a, b, c>>)
<1>1. AllProper(thing, op, <<a>>)
  BY StepsOf DEF AllProper
<1>2. ASSUME NEW b, Proper(thing, op, b) PROVE AllProper(thing, op, <<a, b>>)
  BY <1>2, StepsOf DEF AllProper
<1>3. ASSUME NEW b, NEW c, Proper(thing, op, b), Proper(thing, op, c)
      PROVE  AllProper(thing, op, <<a, b, c>>)
  BY <1>3, StepsOf DEF AllProper
<1>. QED BY <1>1, <1>2, <1>3

LEMMA ShortLists ==
    ASSUME NEW a, NEW b, NEW c
    PROVE  /\ IsList(<<>>) /\ IsList(<<a>>) /\ IsList(<<a, b>>) /\ IsList(<<a, b, c>>)
           /\ Len(<<a>>) = 1 /\ Len(<<a, b>>) = 2 /\ Len(<<a, b, c>>) = 3
<1>1. /\ <<>> \in Seq({a, b, c}) /\ <<a>> \in Seq({a, b, c}) /\ <<a, b>> \in Seq({a, b, c})
      /\ <<a, b, c>> \in Seq({a, b, c})
  OBVIOUS
<1>. QED BY <1>1, ListIn

----------------------------------------------------------------------------
\* What a step makes of its handler

\* A handler that has just begun.
Fresh(req, thing, todo) ==
    [req |-> req, thing |-> thing, todo |-> todo, alone |-> TRUE, begun |-> FALSE]

LEMMA IdleForm ==
    /\ Form(Idle) /\ Idle.thing = "none" /\ Idle.req.op = "none" /\ Idle.todo = <<>>
    /\ Idle.alone = FALSE /\ Idle.begun = FALSE
  BY DEF Idle, Form

LEMMA NotThings == "none" \notin Things /\ "user" \notin EntryIds /\ "user" \in Things
  BY Distinct DEF Things

LEMMA InsteadGoes ==
    ASSUME Handlers, NEW p \in Ports, NEW steps, Instead(p, steps)
    PROVE  Goes(p, steps \o Tail(work[p].todo), work[p].begun)
<1>1. DOMAIN work = Ports /\ Form(work[p])
  BY DEF Handlers, IsHandler
<1>2. work' = [work EXCEPT ![p].todo = steps \o Tail(work[p].todo)]
  BY DEF Instead
<1>. DEFINE u == steps \o Tail(work[p].todo)
<1>. HIDE DEF u
<1>3. work' = [work EXCEPT ![p].todo = u]
  BY <1>2 DEF u
<1>4. Goes(p, u, work[p].begun)
  BY <1>1, <1>3 DEF Goes, Form
<1>. QED BY <1>4 DEF u

LEMMA BegunGoes ==
    ASSUME Handlers, NEW p \in Ports, NEW u,
           work' = [work EXCEPT ![p].todo = u, ![p].begun = TRUE]
    PROVE  Goes(p, u, TRUE)
<1>1. DOMAIN work = Ports /\ Form(work[p])
  BY DEF Handlers, IsHandler
<1>. QED BY <1>1 DEF Goes, Form

LEMMA DoneGoes ==
    ASSUME Handlers, NEW p \in Ports, Done(p)
    PROVE  Goes(p, Tail(work[p].todo), TRUE)
<1>1. work' = [work EXCEPT ![p].todo = Tail(work[p].todo), ![p].begun = TRUE]
  BY DEF Done
<1>. DEFINE u == Tail(work[p].todo)
<1>. HIDE DEF u
<1>2. work' = [work EXCEPT ![p].todo = u, ![p].begun = TRUE]
  BY <1>1 DEF u
<1>. QED BY <1>2, BegunGoes DEF u

LEMMA RefuseRefused ==
    ASSUME Handlers, NEW p \in Ports, Refuse(p)
    PROVE  Refused(p)
  BY DEF Refuse, Refused, Handlers

LEMMA GoesFields ==
    ASSUME NEW p \in Ports, NEW u, NEW b, Goes(p, u, b)
    PROVE  /\ work'[p].req = work[p].req /\ work'[p].thing = work[p].thing
           /\ work'[p].todo = u /\ work'[p].alone = work[p].alone /\ work'[p].begun = b
  BY DEF Goes

\* The steps that are left are proper if the new ones are.
LEMMA GoesHandlers ==
    ASSUME Handlers, NEW p \in Ports, IsBusy(p), NEW u, NEW b \in BOOLEAN, Goes(p, u, b), IsList(u),
           \A k \in 1 .. Len(u) : Proper(work[p].thing, work[p].req.op, u[k])
    PROVE  Handlers'
<1>1. work'[p] = [req |-> work[p].req, thing |-> work[p].thing, todo |-> u,
                  alone |-> work[p].alone, begun |-> b]
  BY DEF Goes
<1>2. /\ work'[p].req = work[p].req /\ work'[p].thing = work[p].thing
      /\ work'[p].todo = u /\ work'[p].alone = work[p].alone /\ work'[p].begun = b
  BY GoesFields
<1>. SUFFICES ASSUME NEW q \in Ports PROVE IsHandler(work'[q])
  BY DEF Handlers, Goes
<1>3. CASE q = p
  BY <1>1, <1>2, <1>3 DEF Handlers, IsHandler, IsBusy, Form
<1>4. CASE q # p
  <2>1. work'[q] = work[q]
    BY <1>4 DEF Goes
  <2>. QED BY <2>1 DEF Handlers
<1>. QED BY <1>3, <1>4

LEMMA RefusedHandlers ==
    ASSUME Handlers, NEW p \in Ports, Refused(p)
    PROVE  Handlers'
<1>0. IsHandler(Idle)
  <2>1. IsList(Idle.todo) /\ Len(Idle.todo) = 0
    BY IdleForm, ShortLists
  <2>2. \A k \in 1 .. Len(Idle.todo) : FALSE
    BY <2>1
  <2>3. "none" \notin EntryIds /\ Idle.req.op \notin EntryOps
    BY IdleForm, Distinct DEF EntryOps
  <2>. QED BY <2>1, <2>2, <2>3, IdleForm, NotThings DEF IsHandler
<1>. SUFFICES ASSUME NEW q \in Ports PROVE IsHandler(work'[q])
  BY DEF Handlers, Refused
<1>1. CASE q = p
  <2>1. work'[q] = Idle
    BY <1>1 DEF Refused
  <2>. QED BY <2>1, <1>0
<1>2. CASE q # p
  <2>1. work'[q] = work[q]
    BY <1>2 DEF Refused
  <2>. QED BY <2>1 DEF Handlers
<1>. QED BY <1>1, <1>2

LEMMA GoesAlone ==
    ASSUME Alone, NEW p \in Ports, NEW u, NEW b, Goes(p, u, b), UNCHANGED overlapped
    PROVE  Alone'
<1>1. \A q \in Ports : work'[q].thing = work[q].thing /\ work'[q].alone = work[q].alone
  BY GoesFields DEF Goes
<1>. QED BY <1>1 DEF Alone, IsBusy

LEMMA RefusedAlone ==
    ASSUME Alone, NEW p \in Ports, Refused(p), UNCHANGED overlapped
    PROVE  Alone'
<1>1. \A q \in Ports : q # p => work'[q].thing = work[q].thing /\ work'[q].alone = work[q].alone
  BY DEF Refused
<1>2. work'[p].thing = "none"
  BY IdleForm DEF Refused
<1>. QED BY <1>1, <1>2 DEF Alone, IsBusy

LEMMA BeginHandlers ==
    ASSUME Handlers, Alone, NEW p \in Ports, NEW req, NEW thing, NEW todo, Begin(p, req, thing, todo),
           IsHandler(Fresh(req, thing, todo)),
           thing # "none"
    PROVE  Handlers' /\ Alone' /\ Joined(p, req, thing, todo)
<1>. DEFINE with == {q \in Ports : IsBusy(q) /\ work[q].thing = thing}
<1>1. /\ work[p].thing = "none"
      /\ work' = [q \in Ports |->
                    IF q = p THEN [req |-> req, thing |-> thing, todo |-> todo,
                                   alone |-> with = {}, begun |-> FALSE]
                    ELSE IF q \in with THEN [work[q] EXCEPT !.alone = FALSE] ELSE work[q]]
      /\ overlapped' = IF with # {} THEN overlapped \cup {thing} ELSE overlapped
  BY DEF Begin, IsBusy
<1>2. p \notin with
  BY <1>1 DEF IsBusy
<1>. DEFINE none == with = {}
<1>3. none \in BOOLEAN
  OBVIOUS
<1>4. work'[p] = [req |-> req, thing |-> thing, todo |-> todo, alone |-> none, begun |-> FALSE]
  BY <1>1
<1>. HIDE DEF none
<1>5. /\ work'[p].req = req /\ work'[p].thing = thing /\ work'[p].todo = todo
      /\ work'[p].begun = FALSE /\ work'[p].alone = none /\ IsHandler(work'[p])
  BY <1>3, <1>4 DEF IsHandler, Form, Fresh
<1>6. ASSUME NEW q \in Ports \ {p}
      PROVE  /\ work'[q].req = work[q].req /\ work'[q].thing = work[q].thing
             /\ work'[q].todo = work[q].todo /\ work'[q].begun = work[q].begun
             /\ work'[q].alone = (IF q \in with THEN FALSE ELSE work[q].alone)
             /\ IsHandler(work'[q])
  <2>1. IsHandler(work[q])
    BY DEF Handlers
  <2>2. CASE q \in with
    <3>1. work'[q] = [work[q] EXCEPT !.alone = FALSE]
      BY <1>1, <2>2
    <3>2. work'[q] = [req |-> work[q].req, thing |-> work[q].thing, todo |-> work[q].todo,
                      alone |-> FALSE, begun |-> work[q].begun]
      BY <2>1, <3>1 DEF IsHandler, Form
    <3>. HIDE DEF with
    <3>. QED BY <2>1, <2>2, <3>2 DEF IsHandler, Form
  <2>3. CASE q \notin with
    BY <1>1, <2>1, <2>3
  <2>. QED BY <2>2, <2>3
<1>7. Handlers'
  <2>1. DOMAIN work' = Ports
    BY <1>1
  <2>. QED BY <2>1, <1>5, <1>6 DEF Handlers
<1>8. \A q \in Ports \ {p} : q \notin with => work[q].thing # thing
  BY DEF IsBusy
<1>9. Alone'
  <2>. SUFFICES ASSUME NEW r \in Ports, work'[r].thing # "none"
                PROVE  /\ work'[r].alone => \A q \in Ports \ {r} : work'[q].thing # work'[r].thing
                       /\ ~work'[r].alone => work'[r].thing \in overlapped'
    BY DEF Alone, IsBusy
  <2>1. CASE r = p
    BY <1>1, <1>5, <1>6, <1>8, <2>1 DEF none
  <2>2. CASE r # p
    <3>1. work[r].thing # "none" /\ work'[r].thing = work[r].thing
      BY <1>6, <2>2
    <3>2. CASE r \in with
      BY <3>1, <3>2, <1>1, <1>6, <2>2
    <3>3. CASE r \notin with
      <4>1. work'[r].alone = work[r].alone
        BY <1>6, <2>2, <3>3
      <4>2. \A q \in Ports \ {r} : work'[q].thing = IF q = p THEN thing ELSE work[q].thing
        BY <1>5, <1>6
      <4>3. work[r].thing # thing
        BY <1>8, <2>2, <3>3
      <4>4. overlapped \subseteq overlapped'
        BY <1>1
      <4>. QED BY <3>1, <4>1, <4>2, <4>3, <4>4 DEF Alone, IsBusy
    <3>. QED BY <3>2, <3>3
  <2>. QED BY <2>1, <2>2
<1>10. overlapped \subseteq overlapped' /\ overlapped' \subseteq overlapped \cup {thing}
  BY <1>1
<1>11. \A q \in Ports \ {p} : work'[q].alone => work[q].alone /\ work[q].thing # thing
  BY <1>6, <1>8
<1>. QED BY <1>1, <1>5, <1>6, <1>7, <1>9, <1>10, <1>11 DEF Joined

----------------------------------------------------------------------------
\* What a step leaves as it is of the journal

\* Nothing of an entry changes, nor do the handlers of entries.
LEMMA JournalElsewhere ==
    ASSUME JournalInv, Handlers, Handlers', DOMAIN disk' = Path,
           \A e \in EntryIds, n \in Names : disk'[<<e, n>>] = disk[<<e, n>>],
           DOMAIN told' = Said, \A e \in EntryIds : told'[e] = told[e],
           \A e \in EntryIds : (e \in overlapped => e \in overlapped') /\ (e \in torn => e \in torn'),
           \A q \in Ports : work[q].thing \in EntryIds \/ work'[q].thing \in EntryIds =>
               /\ work'[q].req = work[q].req /\ work'[q].thing = work[q].thing
               /\ work'[q].todo = work[q].todo /\ work'[q].begun = work[q].begun
    PROVE  JournalInv'
<1>1. \A q \in Ports : work'[q].req.op \in EntryOps =>
          /\ work'[q].thing \in EntryIds /\ work[q].req.op = work'[q].req.op
          /\ work'[q].thing = work[q].thing /\ work'[q].todo = work[q].todo
          /\ work'[q].begun = work[q].begun
  BY DEF Handlers, IsHandler
<1>2. Standing'
  BY DEF JournalInv, Standing
<1>3. Tree'
  <2>1. \A e \in EntryIds : TreeOf(e)'
    <3>. SUFFICES ASSUME NEW e \in EntryIds PROVE TreeOf(e)'
      OBVIOUS
    <3>1. \A n \in Names \ {"entry"} : ParentOf[n] \in Names
      BY DEF Names, ParentOf
    <3>2. "entry" \in Names /\ "files" \in Names
      BY DEF Names
    <3>. QED BY <3>1, <3>2 DEF JournalInv, Tree, TreeOf
  <2>. QED BY <2>1 DEF Tree
<1>4. "entry" \in Names /\ "text" \in Names /\ "meta" \in Names /\ {"create", "update", "delete"} \subseteq EntryOps
  BY DEF Names, EntryOps
<1>5. Creating'
  <2>. SUFFICES ASSUME NEW q \in Ports, work'[q].req.op = "create" PROVE CreatingBy(q)'
    BY DEF Creating, CreatingBy
  <2>1. /\ work'[q].thing \in EntryIds /\ work[q].req.op = work'[q].req.op
        /\ work'[q].thing = work[q].thing /\ work'[q].todo = work[q].todo
    BY <1>1, <1>4
  <2>2. CreatingBy(q)
    BY DEF JournalInv, Creating
  <2>3. \A r \in Ports \ {q} : work'[r].thing # work[q].thing
    BY <2>1, <2>2 DEF CreatingBy
  <2>. QED BY <2>1, <2>2, <2>3, <1>4 DEF CreatingBy
<1>6. KnownOnes'
  BY <1>1 DEF JournalInv, KnownOnes
<1>7. Deleting'
  <2>. SUFFICES ASSUME NEW q \in Ports, work'[q].req.op = "delete" PROVE DeletingBy(q)'
    BY DEF Deleting, DeletingBy
  <2>1. /\ work'[q].thing \in EntryIds /\ work[q].req.op = work'[q].req.op
        /\ work'[q].thing = work[q].thing /\ work'[q].todo = work[q].todo
    BY <1>1, <1>4
  <2>2. DeletingBy(q)
    BY DEF JournalInv, Deleting
  <2>3. AllMissing(work[q].thing) => AllMissing(work[q].thing)'
    BY <2>1 DEF AllMissing
  <2>. QED BY <2>1, <2>2, <2>3, <1>4 DEF DeletingBy, AllMissing
<1>8. Rewriting'
  <2>. SUFFICES ASSUME NEW q \in Ports, work'[q].req.op = "update" PROVE RewritingBy(q)'
    BY DEF Rewriting, RewritingBy
  <2>1. /\ work'[q].thing \in EntryIds /\ work[q].req.op = work'[q].req.op
        /\ work'[q].thing = work[q].thing /\ work'[q].todo = work[q].todo
    BY <1>1, <1>4
  <2>2. RewritingBy(q)
    BY DEF JournalInv, Rewriting
  <2>. QED BY <2>1, <2>2, <1>4 DEF RewritingBy
<1>9. Listing'
  <2>. SUFFICES ASSUME NEW e \in EntryIds PROVE ListingOf(e)'
    BY DEF Listing
  <2>1. Intact(e)' => Intact(e)
    BY DEF Intact
  <2>2. ListingOf(e)
    BY DEF JournalInv, Listing
  <2>. QED BY <2>1, <2>2, <1>4 DEF ListingOf
<1>10. DeletedStaysDeleted'
  BY DEF JournalInv, DeletedStaysDeleted
<1>. QED BY <1>2, <1>3, <1>5, <1>6, <1>7, <1>8, <1>9, <1>10 DEF JournalInv

\* One handler of an entry takes a step: the others about it are not alone, and
\* what is gone stays gone.
LEMMA JournalMoves ==
    ASSUME JournalInv, Handlers, Alone, NEW p \in Ports, NEW e \in EntryIds, work[p].thing = e,
           DOMAIN disk' = Path,
           \A f \in EntryIds \ {e}, n \in Names : disk'[<<f, n>>] = disk[<<f, n>>],
           UNCHANGED <<told, overlapped, torn>>,
           \A q \in Ports \ {p} : work'[q] = work[q],
           \/ work'[p].req = work[p].req /\ work'[p].thing = work[p].thing
           \/ work'[p].req.op = "none" /\ work'[p].thing = "none",
           told[e] # Unborn /\ AllMissing(e) => AllMissing(e)',
           TreeOf(e)', CreatingBy(p)', DeletingBy(p)', RewritingBy(p)', ListingOf(e)'
    PROVE  JournalInv'
<1>1. "none" \notin EntryIds /\ "none" \notin EntryOps
  BY Distinct DEF EntryOps
<1>2. \A q \in Ports \ {p} : work[q].thing = e => ~work[q].alone /\ e \in overlapped
  BY <1>1 DEF Alone, IsBusy
<1>3. \A q \in Ports : work[q].req.op \in EntryOps => work[q].thing \in EntryIds
  BY DEF Handlers, IsHandler
<1>4. "entry" \in Names /\ "text" \in Names /\ "meta" \in Names /\ {"create", "update", "delete"} \subseteq EntryOps
  BY DEF Names, EntryOps
<1>5. Standing'
  BY DEF JournalInv, Standing
<1>6. Tree'
  <2>1. ASSUME NEW f \in EntryIds PROVE TreeOf(f)'
    <3>1. CASE f = e
      BY <3>1
    <3>2. CASE f # e
      <4>1. \A n \in Names \ {"entry"} : ParentOf[n] \in Names
        BY DEF Names, ParentOf
      <4>2. "entry" \in Names /\ "files" \in Names
        BY DEF Names
      <4>. QED BY <3>2, <4>1, <4>2 DEF JournalInv, Tree, TreeOf
    <3>. QED BY <3>1, <3>2
  <2>. QED BY <2>1 DEF Tree
<1>7. KnownOnes'
  <2>. SUFFICES ASSUME NEW q \in Ports, work'[q].req.op \in EntryOps \ {"create"}
                PROVE  told'[work'[q].thing] # Unborn
    BY DEF KnownOnes
  <2>1. work'[q].req = work[q].req /\ work'[q].thing = work[q].thing
    BY <1>1
  <2>. QED BY <2>1 DEF JournalInv, KnownOnes
<1>8. Creating'
  <2>0. ASSUME NEW q \in Ports \ {p}, work[q].req.op # "create" PROVE CreatingBy(q)'
    BY <2>0 DEF CreatingBy
  <2>. SUFFICES ASSUME NEW q \in Ports \ {p}, work[q].req.op = "create" PROVE CreatingBy(q)'
    BY <2>0 DEF Creating
  <2>1. CreatingBy(q)
    BY DEF JournalInv, Creating
  <2>2. work[q].thing \in EntryIds /\ work[q].thing # e /\ work[q].thing # "none"
    BY <1>1, <1>3, <1>4, <2>1 DEF CreatingBy
  <2>3. work'[q] = work[q] /\ \A r \in Ports \ {q} : work'[r].thing # work[q].thing
    BY <2>1, <2>2 DEF CreatingBy
  <2>. QED BY <2>1, <2>2, <2>3, <1>4 DEF CreatingBy
<1>9. Deleting'
  <2>0. ASSUME NEW q \in Ports \ {p}, work[q].req.op # "delete" PROVE DeletingBy(q)'
    BY <2>0 DEF DeletingBy
  <2>. SUFFICES ASSUME NEW q \in Ports \ {p}, work[q].req.op = "delete" PROVE DeletingBy(q)'
    BY <2>0 DEF Deleting
  <2>1. DeletingBy(q) /\ work'[q] = work[q] /\ work[q].thing \in EntryIds
    BY <1>3, <1>4 DEF JournalInv, Deleting
  <2>2. CASE work[q].thing = e
    <3>1. e \in overlapped /\ told[e] # Unborn
      BY <1>2, <1>4, <2>2 DEF JournalInv, KnownOnes
    <3>. QED BY <2>1, <2>2, <3>1 DEF DeletingBy
  <2>3. CASE work[q].thing # e
    <3>1. AllMissing(work[q].thing) => AllMissing(work[q].thing)'
      BY <2>1, <2>3 DEF AllMissing
    <3>. QED BY <2>1, <2>3, <3>1, <1>4 DEF DeletingBy
  <2>. QED BY <2>2, <2>3
<1>10. Rewriting'
  <2>0. ASSUME NEW q \in Ports \ {p}, work[q].req.op # "update" PROVE RewritingBy(q)'
    BY <2>0 DEF RewritingBy
  <2>. SUFFICES ASSUME NEW q \in Ports \ {p}, work[q].req.op = "update" PROVE RewritingBy(q)'
    BY <2>0 DEF Rewriting
  <2>1. RewritingBy(q) /\ work'[q] = work[q] /\ work[q].thing \in EntryIds
    BY <1>3, <1>4 DEF JournalInv, Rewriting
  <2>. QED BY <2>1, <1>2, <1>4 DEF RewritingBy
<1>11. Listing'
  <2>. SUFFICES ASSUME NEW f \in EntryIds \ {e} PROVE ListingOf(f)'
    BY DEF Listing
  <2>1. Intact(f)' => Intact(f)
    <3>1. \A q \in Ports : work[q].thing = f => work'[q] = work[q]
      OBVIOUS
    <3>. QED BY <3>1 DEF Intact
  <2>2. ListingOf(f)
    BY DEF JournalInv, Listing
  <2>. QED BY <2>1, <2>2, <1>4 DEF ListingOf
<1>12. DeletedStaysDeleted'
  <2>. SUFFICES ASSUME NEW f \in EntryIds, told[f] = Gone PROVE AllMissing(f)'
    BY DEF DeletedStaysDeleted, AllMissing
  <2>1. AllMissing(f)
    BY DEF JournalInv, DeletedStaysDeleted, AllMissing
  <2>2. Gone # Unborn
    BY DEF Gone, Unborn
  <2>. QED BY <2>1, <2>2 DEF AllMissing
<1>. QED BY <1>5, <1>6, <1>7, <1>8, <1>9, <1>10, <1>11, <1>12 DEF JournalInv

----------------------------------------------------------------------------
\* The steps, by what they make of the list of those that are left

LEMMA DoingFirst ==
    ASSUME Handlers, NEW p \in Ports, NEW do, Doing(p, do)
    PROVE  /\ IsBusy(p) /\ work[p].todo # <<>> /\ IsList(work[p].todo) /\ Now(p) = FirstStep(p)
           /\ FirstStep(p).do = do /\ Len(work[p].todo) \in Nat /\ Len(work[p].todo) >= 1
           /\ work[p].thing \in Things /\ work[p].begun \in BOOLEAN
           /\ \A k \in 1 .. Len(work[p].todo) : Proper(work[p].thing, work[p].req.op, work[p].todo[k])
           /\ Proper(work[p].thing, work[p].req.op, FirstStep(p))
<1>1. IsHandler(work[p]) /\ work[p].todo # <<>> /\ IsBusy(p) /\ Now(p).do = do
  BY DEF Handlers, Doing
<1>2. IsList(work[p].todo)
  BY <1>1 DEF IsHandler
<1>3. Now(p) = work[p].todo[1] /\ Len(work[p].todo) \in Nat /\ Len(work[p].todo) >= 1
  BY <1>1, <1>2, ListTail DEF Now
<1>. QED BY <1>1, <1>2, <1>3 DEF IsHandler, IsBusy, FirstStep

\* The steps that are left are then as proper as before.
LEMMA RestHandlers ==
    ASSUME Handlers, Alone, NEW p \in Ports, NEW do, Doing(p, do), NEW u, NEW b \in BOOLEAN,
           Goes(p, u, b), UNCHANGED overlapped,
           \/ Rest(p, u)
           \/ \E x : Instead1(p, u, x) /\ Proper(work[p].thing, work[p].req.op, x)
           \/ \E x, y : /\ Instead2(p, u, x, y) /\ Proper(work[p].thing, work[p].req.op, x)
                        /\ Proper(work[p].thing, work[p].req.op, y)
    PROVE  Handlers' /\ Alone'
<1>. DEFINE t == work[p].todo
            P(s) == Proper(work[p].thing, work[p].req.op, s)
<1>1. IsBusy(p) /\ Len(t) \in Nat /\ Len(t) >= 1 /\ \A k \in 1 .. Len(t) : P(t[k])
  BY DoingFirst
<1>2. IsList(u) /\ \A k \in 1 .. Len(u) : P(u[k])
  <2>. HIDE DEF P
  <2>1. CASE Rest(p, u)
    BY <1>1, <2>1 DEF Rest
  <2>2. CASE \E x : Instead1(p, u, x) /\ P(x)
    BY <1>1, <2>2 DEF Instead1
  <2>3. CASE \E x, y : Instead2(p, u, x, y) /\ P(x) /\ P(y)
    <3>1. PICK x, y : Instead2(p, u, x, y) /\ P(x) /\ P(y)
      BY <2>3
    <3>2. \A k \in 1 .. Len(u) : k = 1 \/ k = 2 \/ (k \in 3 .. Len(t) + 1 /\ k - 1 \in 1 .. Len(t))
      BY <1>1, <3>1 DEF Instead2
    <3>. QED BY <1>1, <3>1, <3>2 DEF Instead2
  <2>. QED BY <2>1, <2>2, <2>3 DEF P
<1>. QED BY <1>1, <1>2, GoesHandlers, GoesAlone

LEMMA DoneRest ==
    ASSUME Handlers, NEW p \in Ports, NEW do, Doing(p, do), Done(p)
    PROVE  \E u : Goes(p, u, TRUE) /\ Rest(p, u)
<1>1. Goes(p, Tail(work[p].todo), TRUE)
  BY DoneGoes
<1>2. Rest(p, Tail(work[p].todo))
  BY DoingFirst, ListTail DEF Rest
<1>. QED BY <1>1, <1>2

LEMMA NoneRest ==
    ASSUME Handlers, NEW p \in Ports, NEW do, Doing(p, do), Instead(p, <<>>)
    PROVE  \E u : Goes(p, u, work[p].begun) /\ Rest(p, u)
<1>1. Goes(p, <<>> \o Tail(work[p].todo), work[p].begun)
  BY InsteadGoes
<1>2. <<>> \o Tail(work[p].todo) = Tail(work[p].todo)
  BY DoingFirst, ListNone
<1>3. Rest(p, Tail(work[p].todo))
  BY DoingFirst, ListTail DEF Rest
<1>. QED BY <1>1, <1>2, <1>3

LEMMA OneInstead ==
    ASSUME Handlers, NEW p \in Ports, NEW do, Doing(p, do), NEW x, Instead(p, <<x>>)
    PROVE  \E u : Goes(p, u, work[p].begun) /\ Instead1(p, u, x)
<1>1. Goes(p, <<x>> \o Tail(work[p].todo), work[p].begun)
  BY InsteadGoes
<1>2. Instead1(p, <<x>> \o Tail(work[p].todo), x)
  BY DoingFirst, ListPush DEF Instead1
<1>. QED BY <1>1, <1>2

LEMMA TwoInstead ==
    ASSUME Handlers, NEW p \in Ports, NEW do, Doing(p, do), NEW x, NEW y, Instead(p, <<x, y>>)
    PROVE  \E u : Goes(p, u, work[p].begun) /\ Instead2(p, u, x, y)
<1>1. Goes(p, <<x, y>> \o Tail(work[p].todo), work[p].begun)
  BY InsteadGoes
<1>2. Instead2(p, <<x, y>> \o Tail(work[p].todo), x, y)
  BY DoingFirst, ListPushTwo DEF Instead2
<1>. QED BY <1>1, <1>2

LEMMA BegunInstead ==
    ASSUME Handlers, NEW p \in Ports, NEW do, Doing(p, do), NEW x,
           work' = [work EXCEPT ![p].todo = <<x>> \o Tail(work[p].todo), ![p].begun = TRUE]
    PROVE  \E u : Goes(p, u, TRUE) /\ Instead1(p, u, x)
<1>1. PICK u : u = <<x>> \o Tail(work[p].todo)
  OBVIOUS
<1>2. Goes(p, u, TRUE)
  BY <1>1, BegunGoes
<1>3. Instead1(p, u, x)
  BY <1>1, DoingFirst, ListPush DEF Instead1
<1>. QED BY <1>2, <1>3

----------------------------------------------------------------------------
\* The steps of a handler of an entry

LEMMA EntryStep ==
    ASSUME Handlers, JournalInv, NEW p \in Ports, NEW do, Doing(p, do),
           NEW e \in EntryIds, work[p].thing = e
    PROVE  LET op == work[p].req.op
           IN  /\ op \in EntryOps /\ work[p].req.id = e /\ "none" \notin EntryOps /\ do \notin {"init", "snapshot"}
               /\ FirstStep(p).do = do /\ Len(work[p].todo) \in Nat /\ Len(work[p].todo) >= 1
               /\ Proper(e, op, FirstStep(p)) /\ Now(p) = FirstStep(p)
               /\ \E n \in Names : FirstStep(p).path = <<e, n>>
               /\ do \in {"scan", "unlink"} <=> op = "delete"
               /\ op = "create" => do \in {"mkdir", "open", "fill"}
               /\ op = "create" => Len(work[p].todo) # 3 \/ do = "mkdir"
               /\ CreatingBy(p) /\ DeletingBy(p) /\ RewritingBy(p)
               /\ TreeOf(e) /\ ListingOf(e)
               /\ op # "create" => told[e] # Unborn
<1>. DEFINE op == work[p].req.op
            t == work[p].todo
<1>1. /\ op \in EntryOps /\ work[p].req.id = e /\ Proper(e, op, FirstStep(p)) /\ FirstStep(p).do = do /\ FirstStep(p) = t[1]
      /\ Len(t) \in Nat /\ Len(t) >= 1 /\ Now(p) = FirstStep(p)
  BY DoingFirst DEF Handlers, IsHandler, FirstStep
<1>2. e \notin {"profile", "user"} /\ "none" \notin EntryOps
  BY Distinct DEF EntryOps
<1>3. do \notin {"init", "snapshot"}
  BY <1>1, <1>2 DEF Proper
<1>4. FirstStep(p).path \in {e} \X Names
  BY <1>1, <1>3 DEF Proper, PathsOf
<1>5. CreatingBy(p) /\ DeletingBy(p) /\ RewritingBy(p) /\ TreeOf(e) /\ ListingOf(e)
  BY DEF JournalInv, Creating, Deleting, Rewriting, Tree, Listing
<1>6. op = "delete" => do \in {"scan", "unlink"}
  <2>1. op = "delete" => DeleteList(t, e) /\ t # <<>>
    BY <1>1, <1>5, ListEmpty DEF DeletingBy, Handlers, IsHandler
  <2>. QED BY <1>1, <2>1 DEF DeleteList, Clears
<1>7. do \in {"scan", "unlink"} => op = "delete"
  BY <1>1 DEF Proper
<1>8. op = "create" => do \in {"mkdir", "open", "fill"} /\ (Len(t) # 3 \/ do = "mkdir")
  <2>1. op = "create" => CreateList(t, e) /\ t # <<>>
    BY <1>1, <1>5, ListEmpty DEF CreatingBy, Handlers, IsHandler
  <2>2. op = "create" => t[1].do \in {"mkdir", "open", "fill"}
    BY <2>1 DEF CreateList, Writes
  <2>3. op = "create" => Len(t) # 3 \/ t[1].do = "mkdir"
    <3>. DEFINE m == Len(t)
    <3>1. op = "create" => m = 1 \/ m = 2 \/ t[1].do = "mkdir"
      BY <2>1 DEF CreateList
    <3>. HIDE DEF m
    <3>2. m = 1 \/ m = 2 => m # 3
      OBVIOUS
    <3>. QED BY <3>1, <3>2 DEF m
  <2>4. t[1].do = do
    BY <1>1
  <2>. QED BY <2>2, <2>3, <2>4
<1>9. op # "create" => told[e] # Unborn
  BY <1>1 DEF JournalInv, KnownOnes
<1>. QED BY <1>1, <1>2, <1>3, <1>4, <1>5, <1>6, <1>7, <1>8, <1>9

LEMMA Refusing ==
    ASSUME NEW p \in Ports, Refused(p)
    PROVE  /\ work'[p].req.op = "none" /\ work'[p].thing = "none" /\ \A q \in Ports \ {p} : work'[q] = work[q]
           /\ CreatingBy(p)' /\ DeletingBy(p)' /\ RewritingBy(p)'
<1>1. work'[p].req.op = "none" /\ work'[p].thing = "none"
  BY IdleForm DEF Refused
<1>. QED BY <1>1 DEF Refused, CreatingBy, DeletingBy, RewritingBy

\* The files stay as they are, and so does whether a deletion has begun.
LEMMA StillListing ==
    ASSUME NEW p \in Ports, NEW e \in EntryIds, TreeOf(e), ListingOf(e), UNCHANGED <<disk, overlapped, torn>>,
           \A q \in Ports \ {p} : work'[q] = work[q],
           \/ work[p].req.op # "delete"
           \/ work'[p].req = work[p].req /\ work'[p].thing = work[p].thing /\ work'[p].begun = work[p].begun
           \/ disk[<<e, "entry">>] # Directory
           \/ work'[p].req = work[p].req /\ work'[p].thing = e /\ work[p].req.op = "delete" /\ work'[p].begun
    PROVE  TreeOf(e)' /\ ListingOf(e)' /\ (AllMissing(e) => AllMissing(e)')
<1>1. TreeOf(e)'
  BY DEF TreeOf
<1>2. AllMissing(e) => AllMissing(e)'
  BY DEF AllMissing
<1>3. ListingOf(e)'
  <2>1. CASE work[p].req.op # "delete"
    <3>1. Intact(e)' => Intact(e)
      BY <2>1 DEF Intact
    <3>. QED BY <3>1 DEF ListingOf
  <2>2. CASE work'[p].req = work[p].req /\ work'[p].thing = work[p].thing /\ work'[p].begun = work[p].begun
    <3>1. Intact(e)' => Intact(e)
      BY <2>2 DEF Intact
    <3>. QED BY <3>1 DEF ListingOf
  <2>3. CASE disk[<<e, "entry">>] # Directory
    BY <2>3 DEF ListingOf
  <2>4. CASE work'[p].req = work[p].req /\ work'[p].thing = e /\ work[p].req.op = "delete" /\ work'[p].begun
    BY <2>4 DEF ListingOf, Intact
  <2>. QED BY <2>1, <2>2, <2>3, <2>4
<1>. QED BY <1>1, <1>2, <1>3

LEMMA EntryReads ==
    ASSUME Handlers, Alone, JournalInv, NEW p \in Ports, ReadAndChange(p),
           NEW e \in EntryIds, work[p].thing = e
    PROVE  Handlers' /\ Alone' /\ JournalInv'
<1>. DEFINE op == work[p].req.op
            t == work[p].todo
            path == FirstStep(p).path
            new == Modified(work[p].req, disk[path])
<1>1. Doing(p, "modify") /\ UNCHANGED <<disk, told, overlapped, torn>>
  BY DEF ReadAndChange
<1>2. PICK n \in Names : path = <<e, n>>
  BY <1>1, EntryStep
<1>3. /\ op \in EntryOps /\ op \notin {"create", "delete"} /\ told[e] # Unborn
      /\ Proper(e, op, FirstStep(p)) /\ Now(p) = FirstStep(p) /\ FirstStep(p) = t[1] /\ t[1].do = "modify"
      /\ Len(t) \in Nat /\ Len(t) >= 1 /\ RewritingBy(p) /\ TreeOf(e) /\ ListingOf(e)
  BY <1>1, EntryStep DEF FirstStep
<1>4. n \notin {"entry", "files", "text"} /\ (n = "meta" => op = "update") /\ path # File("user")
  BY <1>2, <1>3, Distinct DEF Proper, File
<1>5. DOMAIN disk' = Path
  BY <1>1 DEF JournalInv, Tree
<1>6. IF new = NotSaved THEN Refuse(p) ELSE Instead(p, <<Write(path, new)>>)
  BY <1>3 DEF ReadAndChange
<1>7. CASE Refuse(p)
  <2>1. Refused(p)
    BY <1>7, RefuseRefused
  <2>2. Handlers' /\ Alone'
    BY <1>1, <2>1, RefusedHandlers, RefusedAlone
  <2>3. /\ work'[p].req.op = "none" /\ work'[p].thing = "none" /\ \A q \in Ports \ {p} : work'[q] = work[q]
        /\ CreatingBy(p)' /\ DeletingBy(p)' /\ RewritingBy(p)'
    BY <2>1, Refusing
  <2>4. TreeOf(e)' /\ ListingOf(e)' /\ (AllMissing(e) => AllMissing(e)')
    BY <1>1, <1>3, <2>3, StillListing
  <2>. QED BY <1>1, <1>5, <2>2, <2>3, <2>4, JournalMoves
<1>8. CASE new # NotSaved /\ Instead(p, <<Write(path, new)>>)
  <2>. DEFINE x == Write(path, new)
  <2>1. PICK u : Goes(p, u, work[p].begun) /\ Instead1(p, u, x)
    BY <1>1, <1>8, OneInstead
  <2>2. x.do = "open" /\ x.path = path /\ x = [do |-> x.do, path |-> x.path, data |-> x.data]
    BY DEF Write
  <2>. HIDE DEF x
  <2>3. Proper(e, op, x)
    BY <1>2, <1>3, <1>4, <2>2 DEF Proper
  <2>4. Handlers' /\ Alone'
    <3>1. work[p].begun \in BOOLEAN
      BY <1>1, DoingFirst
    <3>. QED BY <1>1, <2>1, <2>3, <3>1, RestHandlers
  <2>5. /\ work'[p].req = work[p].req /\ work'[p].thing = e /\ work'[p].todo = u
        /\ work'[p].begun = work[p].begun /\ \A q \in Ports \ {p} : work'[q] = work[q]
    BY <2>1, GoesFields DEF Goes
  <2>6. TreeOf(e)' /\ ListingOf(e)' /\ (AllMissing(e) => AllMissing(e)')
    BY <1>1, <1>3, <2>5, StillListing
  <2>7. CreatingBy(p)' /\ DeletingBy(p)'
    BY <1>3, <2>5 DEF CreatingBy, DeletingBy
  <2>8. RewritingBy(p)'
    <3>1. op = "update" => \A k \in 2 .. Len(u) : u[k].path # <<e, "meta">>
      BY <1>3, <2>1 DEF RewritingBy, Instead1
    <3>2. op = "update" /\ n = "meta" => disk[<<e, "meta">>] # Missing
      BY <1>2, <1>8 DEF Modified
    <3>. QED BY <1>1, <1>2, <1>4, <2>1, <2>2, <2>5, <3>1, <3>2 DEF RewritingBy, Instead1
  <2>. QED BY <1>1, <1>5, <2>4, <2>5, <2>6, <2>7, <2>8, JournalMoves
<1>. QED BY <1>6, <1>7, <1>8

\* What is left to rewrite is not the metadata.
LEMMA RestRewriting ==
    ASSUME NEW p \in Ports, NEW e \in EntryIds, NEW u, RewritingBy(p), Rest(p, u), IsList(u),
           Len(work[p].todo) \in Nat, work[p].thing = e,
           work'[p].req = work[p].req, work'[p].thing = e, work'[p].todo = u
    PROVE  RewritingBy(p)'
<1>. DEFINE t == work[p].todo
<1>. SUFFICES ASSUME work[p].req.op = "update" PROVE RewritingBy(p)'
  BY DEF RewritingBy
<1>1. \A k \in 2 .. Len(t) : t[k].path # <<e, "meta">>
  BY DEF RewritingBy
<1>2. \A k \in 1 .. Len(t) - 1 : u[k] = t[k + 1] /\ k + 1 \in 2 .. Len(t)
  BY DEF Rest
<1>3. \A k \in 1 .. Len(u) : u[k].path # <<e, "meta">>
  BY <1>1, <1>2 DEF Rest
<1>4. u # <<>> => 1 \in 1 .. Len(u)
  BY ListEmpty
<1>5. \A k \in 2 .. Len(u) : k \in 1 .. Len(u)
  BY ListEmpty
<1>. QED BY <1>3, <1>4, <1>5 DEF RewritingBy

LEMMA DiskAt ==
    ASSUME JournalInv, NEW e \in EntryIds, NEW n \in Names, NEW v, Puts(<<e, n>>, v)
    PROVE  /\ DOMAIN disk' = Path /\ disk'[<<e, n>>] = v
           /\ \A f \in EntryIds, m \in Names : f # e \/ m # n => disk'[<<f, m>>] = disk[<<f, m>>]
           /\ \A f \in EntryIds \ {e}, m \in Names : disk'[<<f, m>>] = disk[<<f, m>>]
           /\ \A m \in Names \ {n} : disk'[<<e, m>>] = disk[<<e, m>>]
           /\ disk'[File("user")] = disk[File("user")] /\ disk'[File("snapshot")] = disk[File("snapshot")]
<1>1. DOMAIN disk = Path /\ <<e, n>> \in Path
  BY DEF JournalInv, Tree, Path
<1>2. File("user") # <<e, n>> /\ File("snapshot") # <<e, n>>
  BY Distinct DEF File
<1>3. disk' = [disk EXCEPT ![<<e, n>>] = v]
  BY DEF Puts
<1>. QED BY <1>1, <1>2, <1>3

LEMMA TheNames ==
    /\ {"entry", "text", "meta", "files", "image", "stamp"} \subseteq Names /\ "none" \notin EntryOps
    /\ {"create", "update", "delete"} \subseteq EntryOps
    /\ ParentOf["text"] = "entry" /\ ParentOf["meta"] = "entry" /\ ParentOf["files"] = "entry"
    /\ \A n \in Names \ {"entry"} : ParentOf[n] \in {"entry", "files"}
    /\ \A n \in Names \ {"entry"} : ParentOf[n] = "files" <=> n \in {"image", "stamp"}
  BY DEF Names, ParentOf, EntryOps

LEMMA EntryOpens ==
    ASSUME Handlers, Alone, JournalInv, NEW p \in Ports, OpenForWriting(p),
           NEW e \in EntryIds, work[p].thing = e
    PROVE  Handlers' /\ Alone' /\ JournalInv'
<1>. DEFINE op == work[p].req.op
            t == work[p].todo
            path == FirstStep(p).path
<1>1. Doing(p, "open") /\ UNCHANGED <<told, overlapped, torn>>
  BY DEF OpenForWriting
<1>2. PICK n \in Names : path = <<e, n>>
  BY <1>1, EntryStep
<1>3. /\ op \in EntryOps /\ op # "delete" /\ (op = "create" => Len(t) # 3)
      /\ Proper(e, op, FirstStep(p)) /\ Now(p) = FirstStep(p) /\ FirstStep(p) = t[1] /\ t[1].do = "open"
      /\ Len(t) \in Nat /\ Len(t) >= 1 /\ CreatingBy(p) /\ RewritingBy(p) /\ TreeOf(e) /\ ListingOf(e)
      /\ op # "create" => told[e] # Unborn
  BY <1>1, EntryStep DEF FirstStep
<1>4. /\ n \notin {"entry", "files"} /\ (n = "meta" => op \in {"create", "update"})
      /\ FirstStep(p) = [do |-> "open", path |-> path, data |-> FirstStep(p).data]
      /\ n = "text" => FirstStep(p).data \in Texts
      /\ path # File("user")
  BY <1>2, <1>3, Distinct DEF Proper, File
<1>5. HasParent(path) <=> disk[<<e, ParentOf[n]>>] = Directory
  BY <1>2, <1>4 DEF HasParent
<1>6. op = "create" => /\ \/ Len(t) = 1 /\ Writes(t[1], <<e, "meta">>)
                          \/ Len(t) = 2 /\ Writes(t[1], <<e, "text">>) /\ Opens(t[2], <<e, "meta">>)
                       /\ disk[<<e, "entry">>] = Directory
                       /\ Len(t) = 1 => disk[<<e, "text">>] # Missing
  <2>1. op = "create" => CreateList(t, e) /\ t # <<>>
    BY <1>1, <1>3, ListEmpty DEF CreatingBy, Handlers, IsHandler
  <2>. QED BY <1>3, <2>1 DEF CreateList, CreatingBy
<1>7. \A k \in 2 .. Len(t) : op = "update" => t[k].path # <<e, "meta">>
  BY <1>3 DEF RewritingBy
<1>8. Missing \notin {Torn, Directory}
  BY Distinct
<1>9. CASE HasParent(path)
  <2>. DEFINE x == [FirstStep(p) EXCEPT !.do = "fill"]
  <2>0. Puts(<<e, n>>, Torn)
    BY <1>2, <1>3, <1>9 DEF OpenForWriting, Puts
  <2>1. work' = [work EXCEPT ![p].todo = <<x>> \o Tail(t), ![p].begun = TRUE]
    BY <1>2, <1>3, <1>9 DEF OpenForWriting
  <2>2. /\ x = [do |-> x.do, path |-> x.path, data |-> x.data]
        /\ x.do = "fill" /\ x.path = path /\ x.data = FirstStep(p).data
    <3>. DEFINE s == FirstStep(p)
                a == s.path
                b == s.data
    <3>1. s = [do |-> "open", path |-> a, data |-> b]
      BY <1>4
    <3>2. [s EXCEPT !.do = "fill"] = [do |-> "fill", path |-> a, data |-> b]
      <4>. HIDE DEF s, a, b
      <4>. QED BY <3>1
    <3>. QED BY <3>2
  <2>. HIDE DEF x
  <2>3. PICK u : Goes(p, u, TRUE) /\ Instead1(p, u, x)
    BY <1>1, <2>1, BegunInstead
  <2>4. Proper(e, op, x)
    BY <1>2, <1>3, <1>4, <2>2 DEF Proper
  <2>5. Handlers' /\ Alone'
    BY <1>1, <2>3, <2>4, RestHandlers
  <2>6. /\ work'[p].req = work[p].req /\ work'[p].thing = e /\ work'[p].todo = u
        /\ \A q \in Ports \ {p} : work'[q] = work[q]
    BY <2>3, GoesFields DEF Goes
  <2>7. /\ DOMAIN disk' = Path /\ disk'[<<e, n>>] = Torn
        /\ \A f \in EntryIds \ {e}, m \in Names : disk'[<<f, m>>] = disk[<<f, m>>]
        /\ \A m \in Names \ {n} : disk'[<<e, m>>] = disk[<<e, m>>]
    BY <2>0, DiskAt
  <2>8. AllMissing(e) => AllMissing(e)'
    BY <1>2, <1>4, <1>5, <1>8, <1>9, TheNames DEF AllMissing
  <2>9. TreeOf(e)'
    <3>1. \A m \in {"entry", "files"} : disk'[<<e, m>>] = disk[<<e, m>>]
      BY <1>4, <2>7, TheNames
    <3>. QED BY <1>2, <1>3, <1>4, <1>5, <1>9, <2>7, <3>1, TheNames DEF TreeOf
  <2>10. CreatingBy(p)'
    <3>. SUFFICES ASSUME op = "create" PROVE CreatingBy(p)'
      BY <2>6 DEF CreatingBy
    <3>1. told'[e] = Unborn /\ \A q \in Ports \ {p} : work'[q].thing # e
      BY <1>1, <1>3, <2>6 DEF CreatingBy
    <3>2. disk'[<<e, "entry">>] = Directory
      BY <1>4, <1>6, <2>7, TheNames
    <3>3. disk'[<<e, "text">>] # Missing
      <4>1. CASE n = "text"
        BY <1>8, <2>7, <4>1
      <4>2. CASE n # "text"
        <5>1. Len(t) = 1
          BY <1>2, <1>3, <1>6, <4>2 DEF Writes
        <5>. QED BY <1>6, <2>7, <4>2, <5>1, TheNames
      <4>. QED BY <4>1, <4>2
    <3>4. CreateList(u, e)
      <4>1. CASE Len(t) = 1 /\ Writes(t[1], <<e, "meta">>)
        BY <1>3, <2>2, <2>3, <4>1 DEF CreateList, Writes, Instead1
      <4>2. CASE Len(t) = 2 /\ Writes(t[1], <<e, "text">>) /\ Opens(t[2], <<e, "meta">>)
        <5>1. Len(u) = 2 /\ u[1] = x /\ u[2] = t[2]
          BY <2>3, <4>2 DEF Instead1
        <5>2. Writes(x, <<e, "text">>)
          BY <1>3, <2>2, <4>2 DEF Writes
        <5>. QED BY <4>2, <5>1, <5>2 DEF CreateList
      <4>. QED BY <1>6, <4>1, <4>2
    <3>. QED BY <2>6, <3>1, <3>2, <3>3, <3>4 DEF CreatingBy
  <2>11. DeletingBy(p)'
    BY <1>3, <2>6 DEF DeletingBy
  <2>12. RewritingBy(p)'
    <3>1. \A k \in 2 .. Len(u) : op = "update" => u[k].path # <<e, "meta">>
      BY <1>7, <2>3 DEF Instead1
    <3>2. u[1].do = "fill"
      BY <2>2, <2>3 DEF Instead1
    <3>. QED BY <2>6, <3>1, <3>2 DEF RewritingBy
  <2>13. ListingOf(e)'
    <3>1. Intact(e)' => Intact(e)
      BY <1>3, <2>6 DEF Intact
    <3>2. CASE n = "text"
      BY <1>8, <2>7, <3>2 DEF ListingOf
    <3>3. CASE n = "meta"
      <4>1. disk'[<<e, "entry">>] = disk[<<e, "entry">>] /\ disk'[<<e, "text">>] = disk[<<e, "text">>]
        BY <2>7, <3>3, TheNames
      <4>2. CASE op = "create"
        <5>1. Len(t) = 1
          BY <1>2, <1>3, <1>6, <3>3, <4>2 DEF Writes
        <5>. QED BY <1>6, <4>1, <4>2, <5>1 DEF ListingOf
      <4>3. CASE op = "update"
        <5>1. e \notin overlapped => disk[<<e, "meta">>] # Missing
          <6>1. t # <<>>
            BY <1>1 DEF Doing
          <6>. QED BY <1>2, <1>3, <3>3, <4>3, <6>1 DEF RewritingBy
        <5>. QED BY <1>1, <1>3, <3>1, <4>1, <5>1 DEF ListingOf
      <4>. QED BY <1>4, <3>3, <4>2, <4>3
    <3>4. CASE n \notin {"text", "meta"}
      <4>1. \A m \in {"entry", "text", "meta"} : disk'[<<e, m>>] = disk[<<e, m>>]
        BY <1>4, <2>7, <3>4, TheNames
      <4>. QED BY <1>1, <1>3, <3>1, <4>1 DEF ListingOf
    <3>. QED BY <3>2, <3>3, <3>4
  <2>. QED BY <1>1, <2>5, <2>6, <2>7, <2>8, <2>9, <2>10, <2>11, <2>12, <2>13, JournalMoves
<1>10. CASE ~HasParent(path)
  <2>1. UNCHANGED disk /\ IF n = "image" THEN Refuse(p) ELSE Done(p)
    BY <1>2, <1>3, <1>10 DEF OpenForWriting
  <2>2. DOMAIN disk' = Path /\ op # "create"
    <3>1. op = "create" => n \in {"text", "meta"}
      BY <1>2, <1>3, <1>6 DEF Writes
    <3>. QED BY <1>5, <1>6, <1>10, <2>1, <3>1, TheNames DEF JournalInv, Tree
  <2>3. CASE Refuse(p)
    <3>1. Refused(p)
      BY <2>3, RefuseRefused
    <3>2. Handlers' /\ Alone'
      BY <1>1, <3>1, RefusedHandlers, RefusedAlone
    <3>3. /\ work'[p].req.op = "none" /\ work'[p].thing = "none" /\ \A q \in Ports \ {p} : work'[q] = work[q]
          /\ CreatingBy(p)' /\ DeletingBy(p)' /\ RewritingBy(p)'
      BY <3>1, Refusing
    <3>4. TreeOf(e)' /\ ListingOf(e)' /\ (AllMissing(e) => AllMissing(e)')
      BY <1>1, <1>3, <2>1, <3>3, StillListing
    <3>. QED BY <1>1, <2>1, <2>2, <3>2, <3>3, <3>4, JournalMoves
  <2>4. CASE Done(p)
    <3>1. PICK u : Goes(p, u, TRUE) /\ Rest(p, u)
      BY <1>1, <2>4, DoneRest
    <3>2. Handlers' /\ Alone'
      BY <1>1, <3>1, RestHandlers
    <3>3. /\ work'[p].req = work[p].req /\ work'[p].thing = e /\ work'[p].todo = u
          /\ \A q \in Ports \ {p} : work'[q] = work[q]
      BY <3>1, GoesFields DEF Goes
    <3>4. TreeOf(e)' /\ ListingOf(e)' /\ (AllMissing(e) => AllMissing(e)')
      BY <1>1, <1>3, <2>1, <3>3, StillListing
    <3>5. CreatingBy(p)' /\ DeletingBy(p)'
      BY <1>3, <2>2, <3>3 DEF CreatingBy, DeletingBy
    <3>6. RewritingBy(p)'
      BY <1>3, <3>1, <3>3, RestRewriting DEF Rest
    <3>. QED BY <1>1, <2>1, <2>2, <3>2, <3>3, <3>4, <3>5, <3>6, JournalMoves
  <2>. QED BY <2>1, <2>3, <2>4
<1>. QED BY <1>9, <1>10

LEMMA EntryFills ==
    ASSUME Handlers, Alone, JournalInv, NEW p \in Ports, write_file(p),
           NEW e \in EntryIds, work[p].thing = e
    PROVE  Handlers' /\ Alone' /\ JournalInv'
<1>. DEFINE op == work[p].req.op
            t == work[p].todo
            path == FirstStep(p).path
            data == FirstStep(p).data
<1>1. Doing(p, "fill") /\ Done(p) /\ UNCHANGED <<told, overlapped, torn>>
  BY DEF write_file
<1>2. PICK n \in Names : path = <<e, n>>
  BY <1>1, EntryStep
<1>3. /\ op \in EntryOps /\ op # "delete" /\ (op = "create" => Len(t) # 3)
      /\ Proper(e, op, FirstStep(p)) /\ Now(p) = FirstStep(p) /\ FirstStep(p) = t[1] /\ t[1].do = "fill"
      /\ Len(t) \in Nat /\ Len(t) >= 1 /\ CreatingBy(p) /\ RewritingBy(p) /\ TreeOf(e) /\ ListingOf(e)
  BY <1>1, EntryStep DEF FirstStep
<1>4. n \notin {"entry", "files"} /\ (n = "text" => data \in Texts)
  BY <1>2, <1>3 DEF Proper
<1>5. Missing \notin {Torn, Directory} /\ Missing \notin Texts
  BY Distinct
<1>6. PICK u : Goes(p, u, TRUE) /\ Rest(p, u)
  BY <1>1, DoneRest
<1>7. Handlers' /\ Alone'
  BY <1>1, <1>6, RestHandlers
<1>8. /\ work'[p].req = work[p].req /\ work'[p].thing = e /\ work'[p].todo = u
      /\ \A q \in Ports \ {p} : work'[q] = work[q]
  BY <1>6, GoesFields DEF Goes
<1>9. IF disk[<<e, n>>] = Missing THEN disk' = disk ELSE Puts(<<e, n>>, data)
  BY <1>2, <1>3 DEF write_file, Puts
<1>10. DOMAIN disk = Path
  BY DEF JournalInv, Tree
<1>11. /\ DOMAIN disk' = Path
       /\ disk[<<e, n>>] = Missing => disk'[<<e, n>>] = Missing
       /\ disk[<<e, n>>] # Missing => disk'[<<e, n>>] = data
       /\ \A f \in EntryIds \ {e}, m \in Names : disk'[<<f, m>>] = disk[<<f, m>>]
       /\ \A m \in Names \ {n} : disk'[<<e, m>>] = disk[<<e, m>>]
  <2>1. CASE disk[<<e, n>>] = Missing
    BY <1>9, <1>10, <2>1
  <2>2. CASE disk[<<e, n>>] # Missing
    BY <1>9, <2>2, DiskAt
  <2>. QED BY <2>1, <2>2
<1>12. /\ \A m \in {"entry", "files"} : disk'[<<e, m>>] = disk[<<e, m>>]
       /\ \A m \in Names : disk[<<e, m>>] = Missing => disk'[<<e, m>>] = Missing
       /\ disk[<<e, "text">>] # Missing => disk'[<<e, "text">>] # Missing
  BY <1>4, <1>5, <1>11, TheNames
<1>13. AllMissing(e) => AllMissing(e)'
  BY <1>12 DEF AllMissing
<1>14. TreeOf(e)'
  BY <1>3, <1>12, TheNames DEF TreeOf
<1>15. CreatingBy(p)'
  <2>. SUFFICES ASSUME op = "create" PROVE CreatingBy(p)'
    BY <1>8 DEF CreatingBy
  <2>1. told'[e] = Unborn /\ \A q \in Ports \ {p} : work'[q].thing # e
    BY <1>1, <1>3, <1>8 DEF CreatingBy
  <2>2. CreateList(t, e) /\ Len(t) # 3 /\ t # <<>>
    BY <1>1, <1>3 DEF CreatingBy, Doing
  <2>3. Len(t) = 1 \/ (Len(t) = 2 /\ Opens(t[2], <<e, "meta">>))
    BY <2>2 DEF CreateList
  <2>4. disk[<<e, "entry">>] = Directory /\ disk[<<e, "text">>] # Missing
    <3>1. Len(t) \notin {2, 3} \/ (Len(t) = 2 /\ t[1].do = "fill")
      BY <1>3, <2>3
    <3>. QED BY <1>3, <2>2, <3>1 DEF CreatingBy
  <2>5. CreateList(u, e)
    <3>1. CASE Len(t) = 1
      BY <1>6, <3>1, ListEmpty DEF CreateList, Rest
    <3>2. CASE Len(t) = 2 /\ Opens(t[2], <<e, "meta">>)
      <4>1. Len(u) = 1 /\ u[1] = t[2]
        BY <1>6, <3>2 DEF Rest
      <4>. QED BY <3>2, <4>1 DEF CreateList, Opens, Writes
    <3>. QED BY <2>3, <3>1, <3>2
  <2>. QED BY <1>8, <1>12, <2>1, <2>4, <2>5 DEF CreatingBy
<1>16. DeletingBy(p)'
  BY <1>3, <1>8 DEF DeletingBy
<1>17. RewritingBy(p)'
  BY <1>3, <1>6, <1>8, RestRewriting DEF Rest
<1>18. ListingOf(e)'
  <2>1. Intact(e)' => Intact(e)
    BY <1>3, <1>8 DEF Intact
  <2>. QED BY <1>1, <1>3, <1>12, <2>1, TheNames DEF ListingOf
<1>. QED BY <1>1, <1>7, <1>8, <1>11, <1>13, <1>14, <1>15, <1>16, <1>17, <1>18, JournalMoves

LEMMA EntryMakes ==
    ASSUME Handlers, Alone, JournalInv, NEW p \in Ports, MakeDirectory(p),
           NEW e \in EntryIds, work[p].thing = e
    PROVE  Handlers' /\ Alone' /\ JournalInv'
<1>. DEFINE op == work[p].req.op
            t == work[p].todo
            path == FirstStep(p).path
<1>1. Doing(p, "mkdir") /\ Done(p) /\ UNCHANGED <<told, overlapped, torn>>
  BY DEF MakeDirectory
<1>2. PICK n \in Names : path = <<e, n>>
  BY <1>1, EntryStep
<1>3. /\ op \in EntryOps /\ op # "delete"
      /\ Proper(e, op, FirstStep(p)) /\ Now(p) = FirstStep(p) /\ FirstStep(p) = t[1] /\ t[1].do = "mkdir"
      /\ Len(t) \in Nat /\ Len(t) >= 1 /\ CreatingBy(p) /\ RewritingBy(p) /\ TreeOf(e) /\ ListingOf(e)
  BY <1>1, EntryStep DEF FirstStep
<1>4. n \in {"entry", "files"} /\ (n = "entry" => op = "create")
  BY <1>2, <1>3 DEF Proper
<1>5. op = "create" => /\ Len(t) = 3 /\ n = "entry" /\ told[e] = Unborn
                       /\ Opens(t[2], <<e, "text">>) /\ Opens(t[3], <<e, "meta">>)
  <2>1. op = "create" => CreateList(t, e) /\ t # <<>> /\ told[e] = Unborn
    BY <1>1, <1>3 DEF CreatingBy, Doing
  <2>2. t[1].do \notin {"open", "fill"} /\ t[1].path = <<e, n>>
    BY <1>2, <1>3
  <2>3. op = "create" => /\ Len(t) = 3 /\ t[1].path = <<e, "entry">>
                         /\ Opens(t[2], <<e, "text">>) /\ Opens(t[3], <<e, "meta">>)
    BY <2>1, <2>2 DEF CreateList, Writes
  <2>. QED BY <2>1, <2>2, <2>3
<1>6. PICK u : Goes(p, u, TRUE) /\ Rest(p, u)
  BY <1>1, DoneRest
<1>7. Handlers' /\ Alone'
  BY <1>1, <1>6, RestHandlers
<1>8. /\ work'[p].req = work[p].req /\ work'[p].thing = e /\ work'[p].todo = u
      /\ \A q \in Ports \ {p} : work'[q] = work[q]
  BY <1>6, GoesFields DEF Goes
<1>9. /\ n = "entry" \/ disk[<<e, "entry">>] = Directory => Puts(<<e, n>>, Directory)
      /\ ~(n = "entry" \/ disk[<<e, "entry">>] = Directory) => disk' = disk
  <2>1. HasParent(<<e, n>>) <=> n = "entry" \/ disk[<<e, "entry">>] = Directory
    <3>1. CASE n = "entry"
      BY <3>1 DEF HasParent
    <3>2. CASE n = "files"
      BY <3>2, TheNames DEF HasParent
    <3>. QED BY <1>4, <3>1, <3>2
  <2>2. disk' = IF HasParent(<<e, n>>) THEN [disk EXCEPT ![<<e, n>>] = Directory] ELSE disk
    BY <1>2, <1>3 DEF MakeDirectory
  <2>. QED BY <2>1, <2>2 DEF Puts
<1>10. DOMAIN disk = Path
  BY DEF JournalInv, Tree
<1>11. /\ DOMAIN disk' = Path
       /\ n = "entry" \/ disk[<<e, "entry">>] = Directory => disk'[<<e, n>>] = Directory
       /\ ~(n = "entry" \/ disk[<<e, "entry">>] = Directory) => disk'[<<e, n>>] = disk[<<e, n>>]
       /\ \A f \in EntryIds \ {e}, m \in Names : disk'[<<f, m>>] = disk[<<f, m>>]
       /\ \A m \in Names \ {n} : disk'[<<e, m>>] = disk[<<e, m>>]
  <2>1. CASE n = "entry" \/ disk[<<e, "entry">>] = Directory
    BY <1>9, <2>1, DiskAt
  <2>2. CASE ~(n = "entry" \/ disk[<<e, "entry">>] = Directory)
    BY <1>9, <1>10, <2>2
  <2>. QED BY <2>1, <2>2
<1>12. Missing # Directory
  BY Distinct
<1>13. told[e] # Unborn /\ AllMissing(e) => AllMissing(e)'
  <2>. SUFFICES ASSUME told[e] # Unborn, AllMissing(e) PROVE AllMissing(e)'
    OBVIOUS
  <2>1. n = "files" /\ disk[<<e, "entry">>] # Directory
    BY <1>4, <1>5, <1>12, TheNames DEF AllMissing
  <2>2. \A m \in Names : disk'[<<e, m>>] = disk[<<e, m>>]
    BY <1>11, <2>1
  <2>. QED BY <2>2 DEF AllMissing
<1>14. TreeOf(e)'
  <2>1. \A m \in {"entry", "files"} :
           /\ disk'[<<e, m>>] \in {Missing, Directory}
           /\ disk[<<e, m>>] = Directory => disk'[<<e, m>>] = Directory
    BY <1>3, <1>4, <1>11, TheNames DEF TreeOf
  <2>2. ASSUME NEW m \in Names \ {"entry"}, disk'[<<e, m>>] # Missing
        PROVE  disk'[<<e, ParentOf[m]>>] = Directory
    <3>1. CASE m = n
      <4>1. m = "files" /\ ParentOf[m] = "entry"
        BY <1>4, <2>2, <3>1, TheNames
      <4>2. disk[<<e, "entry">>] = Directory
        BY <1>3, <1>11, <2>2, <3>1, <4>1, TheNames DEF TreeOf
      <4>. QED BY <2>1, <4>1, <4>2
    <3>2. CASE m # n
      <4>1. disk[<<e, ParentOf[m]>>] = Directory
        BY <1>3, <1>11, <2>2, <3>2 DEF TreeOf
      <4>. QED BY <2>1, <2>2, <4>1, TheNames
    <3>. QED BY <3>1, <3>2
  <2>. QED BY <2>1, <2>2 DEF TreeOf
<1>15. CreatingBy(p)'
  <2>. SUFFICES ASSUME op = "create" PROVE CreatingBy(p)'
    BY <1>8 DEF CreatingBy
  <2>1. told'[e] = Unborn /\ \A q \in Ports \ {p} : work'[q].thing # e
    BY <1>1, <1>3, <1>8 DEF CreatingBy
  <2>2. Len(u) = 2 /\ u[1] = t[2] /\ u[2] = t[3]
    BY <1>5, <1>6 DEF Rest
  <2>3. CreateList(u, e) /\ u[1].do = "open"
    BY <1>5, <2>2 DEF CreateList, Writes, Opens
  <2>. QED BY <1>5, <1>8, <1>11, <2>1, <2>2, <2>3 DEF CreatingBy
<1>16. DeletingBy(p)'
  BY <1>3, <1>8 DEF DeletingBy
<1>17. RewritingBy(p)'
  BY <1>3, <1>6, <1>8, RestRewriting DEF Rest
<1>18. ListingOf(e)'
  <2>1. Intact(e)' => Intact(e)
    BY <1>3, <1>8 DEF Intact
  <2>2. disk'[<<e, "meta">>] = disk[<<e, "meta">>] /\ disk'[<<e, "text">>] = disk[<<e, "text">>]
    BY <1>4, <1>11, TheNames
  <2>3. disk[<<e, "meta">>] # Missing => disk[<<e, "entry">>] = Directory
    BY <1>3, TheNames DEF TreeOf
  <2>. QED BY <1>1, <1>3, <2>1, <2>2, <2>3 DEF ListingOf
<1>. QED BY <1>1, <1>7, <1>8, <1>11, <1>13, <1>14, <1>15, <1>16, <1>17, <1>18, JournalMoves

\* What is left of a deletion, when it has got to a step.
LEMMA Deletion ==
    ASSUME Handlers, JournalInv, NEW p \in Ports, NEW do \in {"scan", "unlink"}, Doing(p, do),
           NEW e \in EntryIds, work[p].thing = e
    PROVE  LET t == work[p].todo
               last == "meta" \in t[Len(t)].names \/ e \in overlapped \/ disk[<<e, "meta">>] = Missing
           IN  /\ work[p].req.op = "delete" /\ told[e] # Unborn /\ TreeOf(e) /\ ListingOf(e)
               /\ Now(p) = t[1] /\ t[1].do = do
               /\ \/ Len(t) = 1 /\ Clears(t[1], e, "entry") /\ (do = "unlink" => last)
                  \/ /\ Len(t) = 2 /\ Clears(t[1], e, "files")
                     /\ Clears(t[2], e, "entry") /\ t[2].do = "unlink" /\ last
               /\ do = "unlink" => t[1] = [do |-> "unlink", path |-> t[1].path, names |-> t[1].names]
<1>. DEFINE t == work[p].todo
<1>1. /\ work[p].req.op = "delete" /\ told[e] # Unborn /\ TreeOf(e) /\ ListingOf(e) /\ DeletingBy(p)
      /\ Now(p) = t[1] /\ t[1].do = do /\ Proper(e, work[p].req.op, t[1])
      /\ Len(t) \in Nat
  <2>1. work[p].req.op = "delete"
    BY EntryStep
  <2>. QED BY <2>1, EntryStep DEF FirstStep
<1>2. DeleteList(t, e) /\ t # <<>>
  BY <1>1 DEF DeletingBy, Doing
<1>3. e \notin overlapped /\ disk[<<e, "meta">>] # Missing =>
          \A k \in 1 .. Len(t) : t[k].do = "unlink" /\ t[k].path = <<e, "entry">> => "meta" \in t[k].names
  BY <1>1 DEF DeletingBy
<1>4. CASE Len(t) = 1 /\ Clears(t[1], e, "entry")
  BY <1>1, <1>3, <1>4 DEF Clears, Proper
<1>5. CASE Len(t) = 2 /\ Clears(t[1], e, "files") /\ Clears(t[2], e, "entry") /\ t[2].do = "unlink"
  BY <1>1, <1>3, <1>5 DEF Clears, Proper
<1>. QED BY <1>2, <1>4, <1>5 DEF DeleteList

LEMMA EntryScans ==
    ASSUME Handlers, Alone, JournalInv, NEW p \in Ports, rmdir_r(p),
           NEW e \in EntryIds, work[p].thing = e
    PROVE  Handlers' /\ Alone' /\ JournalInv'
<1>. DEFINE t == work[p].todo
            last == "meta" \in t[Len(t)].names \/ e \in overlapped \/ disk[<<e, "meta">>] = Missing
<1>1. Doing(p, "scan") /\ UNCHANGED <<disk, told, overlapped, torn>> /\ work[p].begun \in BOOLEAN
  BY DoingFirst DEF rmdir_r
<1>2. /\ work[p].req.op = "delete" /\ told[e] # Unborn /\ TreeOf(e) /\ ListingOf(e)
      /\ Now(p) = t[1] /\ t[1].do = "scan"
      /\ \/ Len(t) = 1 /\ Clears(t[1], e, "entry")
         \/ Len(t) = 2 /\ Clears(t[1], e, "files") /\ Clears(t[2], e, "entry") /\ t[2].do = "unlink" /\ last
  BY <1>1, Deletion
<1>3. PICK n \in {"entry", "files"} : Len(t) = (IF n = "entry" THEN 1 ELSE 2) /\ t[1].path = <<e, n>>
  BY <1>2 DEF Clears
<1>4. DOMAIN disk' = Path
  BY <1>1 DEF JournalInv, Tree
<1>. DEFINE there == {c \in Inside(n) : disk[<<e, c>>] # Missing}
            x == [do |-> "unlink", path |-> <<e, n>>, names |-> there]
<1>5. IF disk[<<e, n>>] = Directory THEN Instead(p, <<x>>)
      ELSE IF n = "entry" THEN Refuse(p) ELSE Instead(p, <<>>)
  BY <1>2, <1>3 DEF rmdir_r
<1>6. /\ x.do = "unlink" /\ x.path = <<e, n>> /\ x.names = there
      /\ x = [do |-> x.do, path |-> x.path, names |-> x.names]
  OBVIOUS
<1>7. n \in Names /\ "entry" \in Names
  BY <1>3, TheNames
<1>8. n = "entry" => "meta" \in there \/ disk[<<e, "meta">>] = Missing
  BY TheNames DEF Inside
<1>. HIDE DEF x
<1>9. CASE Instead(p, <<x>>)
  <2>1. PICK u : Goes(p, u, work[p].begun) /\ Instead1(p, u, x)
    BY <1>1, <1>9, OneInstead
  <2>2. Proper(e, "delete", x)
    <3>1. <<e, n>> \in PathsOf(e)
      BY <1>7 DEF PathsOf
    <3>. QED BY <1>6, <3>1 DEF Proper
  <2>3. Handlers' /\ Alone'
    BY <1>1, <1>2, <2>1, <2>2, RestHandlers
  <2>4. /\ work'[p].req = work[p].req /\ work'[p].thing = e /\ work'[p].todo = u
        /\ work'[p].begun = work[p].begun /\ \A q \in Ports \ {p} : work'[q] = work[q]
    BY <2>1, GoesFields DEF Goes
  <2>5. TreeOf(e)' /\ ListingOf(e)' /\ (AllMissing(e) => AllMissing(e)')
    BY <1>1, <1>2, <2>4, StillListing
  <2>6. CreatingBy(p)' /\ RewritingBy(p)'
    BY <1>2, <2>4 DEF CreatingBy, RewritingBy
  <2>7. Clears(x, e, n)
    BY <1>6 DEF Clears
  <2>8. /\ \/ Len(u) = 1 /\ u[1] = x /\ n = "entry"
           \/ Len(u) = 2 /\ u[1] = x /\ n = "files" /\ u[2] = t[2]
        /\ u # <<>>
    BY <1>3, <2>1 DEF Instead1
  <2>9. DeletingBy(p)'
    <3>1. DeleteList(u, e)
      BY <1>2, <1>3, <2>7, <2>8 DEF DeleteList
    <3>2. e \notin overlapped /\ disk[<<e, "meta">>] # Missing =>
              \A k \in 1 .. Len(u) :
                  u[k].do = "unlink" /\ u[k].path = <<e, "entry">> => "meta" \in u[k].names
      <4>1. CASE Len(u) = 1 /\ u[1] = x /\ n = "entry"
        BY <1>6, <1>8, <4>1
      <4>2. CASE Len(u) = 2 /\ u[1] = x /\ n = "files" /\ u[2] = t[2]
        <5>1. u[1].path # <<e, "entry">>
          BY <1>6, <4>2
        <5>2. Len(t) = 2 /\ last
          BY <1>2, <1>3, <4>2
        <5>. QED BY <4>2, <5>1, <5>2
      <4>. QED BY <2>8, <4>1, <4>2
    <3>. QED BY <1>1, <2>4, <2>8, <3>1, <3>2 DEF DeletingBy
  <2>. QED BY <1>1, <1>4, <2>3, <2>4, <2>5, <2>6, <2>9, JournalMoves
<1>10. CASE Refuse(p) /\ n = "entry" /\ disk[<<e, n>>] # Directory
  <2>1. Refused(p)
    BY <1>10, RefuseRefused
  <2>2. Handlers' /\ Alone'
    BY <1>1, <2>1, RefusedHandlers, RefusedAlone
  <2>3. /\ work'[p].req.op = "none" /\ work'[p].thing = "none" /\ \A q \in Ports \ {p} : work'[q] = work[q]
        /\ CreatingBy(p)' /\ DeletingBy(p)' /\ RewritingBy(p)'
    BY <2>1, Refusing
  <2>4. TreeOf(e)' /\ ListingOf(e)' /\ (AllMissing(e) => AllMissing(e)')
    BY <1>1, <1>2, <1>10, <2>3, StillListing
  <2>. QED BY <1>1, <1>4, <2>2, <2>3, <2>4, JournalMoves
<1>11. CASE Instead(p, <<>>) /\ n = "files"
  <2>1. PICK u : Goes(p, u, work[p].begun) /\ Rest(p, u)
    BY <1>1, <1>11, NoneRest
  <2>2. Handlers' /\ Alone'
    BY <1>1, <2>1, RestHandlers
  <2>3. /\ work'[p].req = work[p].req /\ work'[p].thing = e /\ work'[p].todo = u
        /\ work'[p].begun = work[p].begun /\ \A q \in Ports \ {p} : work'[q] = work[q]
    BY <2>1, GoesFields DEF Goes
  <2>4. TreeOf(e)' /\ ListingOf(e)' /\ (AllMissing(e) => AllMissing(e)')
    BY <1>1, <1>2, <2>3, StillListing
  <2>5. CreatingBy(p)' /\ RewritingBy(p)'
    BY <1>2, <2>3 DEF CreatingBy, RewritingBy
  <2>6. Len(t) = 2 /\ last
    BY <1>2, <1>3, <1>11
  <2>7. Len(u) = 1 /\ u[1] = t[2] /\ u # <<>>
    <3>. HIDE DEF last
    <3>1. Len(u) = 1 /\ u[1] = t[2] /\ IsList(u)
      BY <2>1, <2>6 DEF Rest
    <3>2. u # <<>>
      BY <3>1, NotEmpty
    <3>. QED BY <3>1, <3>2
  <2>8. Clears(t[2], e, "entry") /\ t[2].do = "unlink"
    BY <1>2, <2>6
  <2>9. DeletingBy(p)'
    <3>1. DeleteList(u, e)
      BY <2>7, <2>8 DEF DeleteList
    <3>2. e \notin overlapped /\ disk[<<e, "meta">>] # Missing =>
              \A k \in 1 .. Len(u) : "meta" \in u[k].names
      BY <2>6, <2>7
    <3>. QED BY <1>1, <2>3, <2>7, <3>1, <3>2 DEF DeletingBy
  <2>. QED BY <1>1, <1>2, <1>4, <2>2, <2>3, <2>4, <2>5, <2>9, JournalMoves
<1>. QED BY <1>3, <1>5, <1>9, <1>10, <1>11

LEMMA EntryUnlinks ==
    ASSUME Handlers, Alone, JournalInv, NEW p \in Ports, Unlink(p),
           NEW e \in EntryIds, work[p].thing = e
    PROVE  Handlers' /\ Alone' /\ JournalInv'
<1>. DEFINE t == work[p].todo
            last == "meta" \in t[Len(t)].names \/ e \in overlapped \/ disk[<<e, "meta">>] = Missing
<1>1. Doing(p, "unlink") /\ UNCHANGED <<told, overlapped, torn>> /\ work[p].begun \in BOOLEAN
  BY DoingFirst DEF Unlink
<1>2. /\ work[p].req.op = "delete" /\ told[e] # Unborn /\ TreeOf(e) /\ ListingOf(e)
      /\ Now(p) = t[1] /\ t[1].do = "unlink"
      /\ \/ Len(t) = 1 /\ Clears(t[1], e, "entry") /\ last
         \/ Len(t) = 2 /\ Clears(t[1], e, "files") /\ Clears(t[2], e, "entry") /\ t[2].do = "unlink" /\ last
      /\ t[1] = [do |-> "unlink", path |-> t[1].path, names |-> t[1].names]
  BY <1>1, Deletion
<1>3. PICK n \in {"entry", "files"} :
          Len(t) = (IF n = "entry" THEN 1 ELSE 2) /\ t[1].path = <<e, n>> /\ t[1].names \subseteq Inside(n)
  BY <1>2 DEF Clears
<1>4. n \in Names /\ "files" \notin Inside("files") /\ "entry" \notin Inside(n) /\ Inside(n) \subseteq Names
  BY <1>3, TheNames DEF Inside
<1>5. PICK c \in Now(p).names :
          LET rest == [Now(p) EXCEPT !.names = @ \ {c}]
              path == <<Now(p).path[1], c>>
          IN  IF c = "files" THEN Instead(p, <<Scan(path[1], c), rest>>) /\ UNCHANGED disk
              ELSE /\ disk' = [disk EXCEPT ![path] = Missing]
                   /\ work' = [work EXCEPT ![p].todo = <<rest>> \o Tail(@), ![p].begun = TRUE]
  BY DEF Unlink
<1>. DEFINE x == [Now(p) EXCEPT !.names = @ \ {c}]
            path == <<Now(p).path[1], c>>
            then == \/ c = "files" /\ Instead(p, <<Scan(path[1], c), x>>) /\ UNCHANGED disk
                    \/ /\ c # "files" /\ disk' = [disk EXCEPT ![path] = Missing]
                       /\ work' = [work EXCEPT ![p].todo = <<x>> \o Tail(@), ![p].begun = TRUE]
<1>6. then
  BY <1>5
<1>7. path = <<e, c>> /\ c \in t[1].names
  BY <1>2, <1>3
<1>. HIDE DEF path
<1>8. /\ x.do = "unlink" /\ x.path = <<e, n>> /\ x.names = t[1].names \ {c}
      /\ x = [do |-> x.do, path |-> x.path, names |-> x.names]
  <2>. DEFINE s == t[1]
              a == s.path
              b == s.names
  <2>1. s = [do |-> "unlink", path |-> a, names |-> b]
    BY <1>2
  <2>2. [s EXCEPT !.names = s.names \ {c}] = [do |-> "unlink", path |-> a, names |-> b \ {c}]
    <3>. HIDE DEF s, a
    <3>. QED BY <2>1
  <2>3. x = [s EXCEPT !.names = s.names \ {c}]
    BY <1>2
  <2>. QED BY <1>3, <2>2, <2>3
<1>. HIDE DEF x
<1>9. Clears(x, e, n) /\ Proper(e, "delete", x)
  <2>1. <<e, n>> \in PathsOf(e)
    BY <1>4 DEF PathsOf
  <2>. QED BY <1>3, <1>8, <2>1 DEF Clears, Proper
<1>10. CASE c = "files"
  <2>. DEFINE y == Scan(e, "files")
  <2>1. Instead(p, <<y, x>>) /\ disk' = disk /\ n = "entry"
    <3>1. Instead(p, <<Scan(path[1], c), x>>) /\ UNCHANGED disk
      BY <1>10, <1>6
    <3>2. path[1] = e
      BY <1>7
    <3>. QED BY <1>3, <1>4, <1>10, <1>7, <3>1, <3>2
  <2>2. y.do = "scan" /\ y.path = <<e, "files">>
    BY DEF Scan
  <2>. HIDE DEF y
  <2>3. Clears(y, e, "files") /\ Proper(e, "delete", y)
    <3>1. <<e, "files">> \in PathsOf(e)
      BY TheNames DEF PathsOf
    <3>. QED BY <2>2, <3>1 DEF Clears, Proper
  <2>4. PICK u : Goes(p, u, work[p].begun) /\ Instead2(p, u, y, x)
    BY <1>1, <2>1, TwoInstead
  <2>5. Handlers' /\ Alone'
    BY <1>1, <1>2, <1>9, <2>3, <2>4, RestHandlers
  <2>6. /\ work'[p].req = work[p].req /\ work'[p].thing = e /\ work'[p].todo = u
        /\ work'[p].begun = work[p].begun /\ \A q \in Ports \ {p} : work'[q] = work[q]
    BY <2>4, GoesFields DEF Goes
  <2>7. TreeOf(e)' /\ ListingOf(e)' /\ (AllMissing(e) => AllMissing(e)')
    BY <1>1, <1>2, <2>1, <2>6, StillListing
  <2>8. CreatingBy(p)' /\ RewritingBy(p)'
    BY <1>2, <2>6 DEF CreatingBy, RewritingBy
  <2>9. Len(t) = 1 /\ last
    BY <1>2, <1>3, <2>1
  <2>10. Len(u) = 2 /\ u[1] = y /\ u[2] = x /\ u # <<>>
    <3>. HIDE DEF last
    <3>1. Len(u) = 2 /\ u[1] = y /\ u[2] = x /\ IsList(u)
      BY <2>4, <2>9 DEF Instead2
    <3>2. u # <<>>
      BY <3>1, NotEmpty
    <3>. QED BY <3>1, <3>2
  <2>11. DeletingBy(p)'
    <3>1. DeleteList(u, e)
      BY <1>8, <1>9, <2>1, <2>3, <2>10 DEF DeleteList
    <3>2. e \notin overlapped /\ disk[<<e, "meta">>] # Missing => "meta" \in x.names
      BY <1>8, <1>10, <2>9
    <3>3. u[1].do # "unlink"
      BY <2>2, <2>10
    <3>4. e \notin overlapped /\ disk[<<e, "meta">>] # Missing =>
              \A k \in 1 .. Len(u) : u[k].do = "unlink" => "meta" \in u[k].names
      BY <2>10, <3>2, <3>3
    <3>. QED BY <1>1, <2>1, <2>6, <2>10, <3>1, <3>4 DEF DeletingBy
  <2>12. DOMAIN disk' = Path
    BY <2>1 DEF JournalInv, Tree
  <2>. QED BY <1>1, <2>1, <2>5, <2>6, <2>7, <2>8, <2>11, <2>12, JournalMoves
<1>11. CASE c # "files"
  <2>1. Puts(<<e, c>>, Missing)
    BY <1>11, <1>6, <1>7 DEF Puts
  <2>2. work' = [work EXCEPT ![p].todo = <<x>> \o Tail(t), ![p].begun = TRUE]
    BY <1>11, <1>6
  <2>3. c \in Names /\ c # "entry"
    BY <1>3, <1>4, <1>7
  <2>4. /\ DOMAIN disk' = Path /\ disk'[<<e, c>>] = Missing
        /\ \A f \in EntryIds \ {e}, m \in Names : disk'[<<f, m>>] = disk[<<f, m>>]
        /\ \A m \in Names \ {c} : disk'[<<e, m>>] = disk[<<e, m>>]
    BY <2>1, <2>3, DiskAt
  <2>5. PICK u : Goes(p, u, TRUE) /\ Instead1(p, u, x)
    BY <1>1, <2>2, BegunInstead
  <2>6. Handlers' /\ Alone'
    BY <1>1, <1>2, <1>9, <2>5, RestHandlers
  <2>7. /\ work'[p].req = work[p].req /\ work'[p].thing = e /\ work'[p].todo = u
        /\ work'[p].begun = TRUE /\ \A q \in Ports \ {p} : work'[q] = work[q]
    BY <2>5, GoesFields DEF Goes
  <2>8. \A m \in Names : disk'[<<e, m>>] # Missing => disk'[<<e, m>>] = disk[<<e, m>>]
    BY <2>4
  <2>9. AllMissing(e) => AllMissing(e)'
    BY <2>8 DEF AllMissing
  <2>10. TreeOf(e)'
    <3>1. \A m \in {"entry", "files"} : disk'[<<e, m>>] = disk[<<e, m>>]
      BY <1>11, <2>3, <2>4, TheNames
    <3>. QED BY <1>2, <2>8, <3>1, TheNames DEF TreeOf
  <2>11. ListingOf(e)'
    BY <1>2, <2>7 DEF ListingOf, Intact
  <2>12. CreatingBy(p)' /\ RewritingBy(p)'
    BY <1>2, <2>7 DEF CreatingBy, RewritingBy
  <2>13. /\ \/ Len(u) = 1 /\ u[1] = x /\ n = "entry"
            \/ Len(u) = 2 /\ u[1] = x /\ n = "files" /\ u[2] = t[2]
         /\ u # <<>>
    BY <1>3, <2>5 DEF Instead1
  <2>14. DeletingBy(p)'
    <3>1. DeleteList(u, e)
      BY <1>2, <1>3, <1>9, <2>13 DEF DeleteList
    <3>2. disk'[<<e, "meta">>] # Missing => c # "meta" /\ disk[<<e, "meta">>] # Missing
      BY <2>4, <2>8, TheNames
    <3>3. e \notin overlapped /\ disk'[<<e, "meta">>] # Missing =>
              \A k \in 1 .. Len(u) :
                  u[k].do = "unlink" /\ u[k].path = <<e, "entry">> => "meta" \in u[k].names
      <4>1. CASE Len(u) = 1 /\ u[1] = x /\ n = "entry"
        <5>1. Len(t) = 1 /\ last
          BY <1>2, <1>3, <4>1
        <5>. QED BY <1>8, <3>2, <4>1, <5>1
      <4>2. CASE Len(u) = 2 /\ u[1] = x /\ n = "files" /\ u[2] = t[2]
        <5>1. u[1].path # <<e, "entry">>
          BY <1>8, <4>2
        <5>2. Len(t) = 2 /\ last
          BY <1>2, <1>3, <4>2
        <5>. QED BY <3>2, <4>2, <5>1, <5>2
      <4>. QED BY <2>13, <4>1, <4>2
    <3>. QED BY <1>1, <2>7, <2>13, <3>1, <3>3 DEF DeletingBy
  <2>. QED BY <1>1, <2>4, <2>6, <2>7, <2>9, <2>10, <2>11, <2>12, <2>14, JournalMoves
<1>. QED BY <1>10, <1>11

LEMMA EntryRemoves ==
    ASSUME Handlers, Alone, JournalInv, NEW p \in Ports, RemoveDirectory(p),
           NEW e \in EntryIds, work[p].thing = e
    PROVE  Handlers' /\ Alone' /\ JournalInv'
<1>. DEFINE t == work[p].todo
            last == "meta" \in t[Len(t)].names \/ e \in overlapped \/ disk[<<e, "meta">>] = Missing
<1>1. Doing(p, "unlink") /\ UNCHANGED <<told, overlapped, torn>> /\ work[p].begun \in BOOLEAN
  BY DoingFirst DEF RemoveDirectory
<1>2. /\ work[p].req.op = "delete" /\ told[e] # Unborn /\ TreeOf(e) /\ ListingOf(e)
      /\ Now(p) = t[1] /\ t[1].names = {}
      /\ \/ Len(t) = 1 /\ Clears(t[1], e, "entry") /\ last
         \/ Len(t) = 2 /\ Clears(t[1], e, "files") /\ Clears(t[2], e, "entry") /\ t[2].do = "unlink" /\ last
  BY <1>1, Deletion DEF RemoveDirectory
<1>3. PICK n \in {"entry", "files"} :
          Len(t) = (IF n = "entry" THEN 1 ELSE 2) /\ t[1].path = <<e, n>>
  BY <1>2 DEF Clears
<1>4. last
  BY <1>2
<1>. HIDE DEF last
<1>. DEFINE empty == disk[<<e, n>>] = Directory /\ \A c \in Inside(n) : disk[<<e, c>>] = Missing
<1>5. /\ empty => Puts(<<e, n>>, Missing)
      /\ ~empty => disk' = disk
      /\ IF empty \/ n = "files" THEN Done(p) ELSE Refuse(p)
  BY <1>2, <1>3 DEF RemoveDirectory, Puts
<1>6. n \in Names /\ "entry" \in Names /\ "files" \in Names
  BY <1>3, TheNames
<1>7. /\ DOMAIN disk' = Path
      /\ \A f \in EntryIds \ {e}, m \in Names : disk'[<<f, m>>] = disk[<<f, m>>]
      /\ \A m \in Names \ {n} : disk'[<<e, m>>] = disk[<<e, m>>]
      /\ disk'[<<e, n>>] = IF empty THEN Missing ELSE disk[<<e, n>>]
  <2>. HIDE DEF empty
  <2>1. CASE empty
    BY <1>5, <1>6, <2>1, DiskAt
  <2>2. CASE ~empty
    BY <1>5, <2>2 DEF JournalInv, Tree
  <2>. QED BY <2>1, <2>2
<1>8. AllMissing(e) => AllMissing(e)'
  BY <1>7 DEF AllMissing
<1>9. Missing # Directory
  BY Distinct
<1>10. TreeOf(e)'
  <2>1. \A m \in {"entry", "files"} : disk'[<<e, m>>] \in {Missing, Directory}
    BY <1>2, <1>6, <1>7 DEF TreeOf
  <2>2. ASSUME NEW m \in Names \ {"entry"}, disk'[<<e, m>>] # Missing
        PROVE  disk'[<<e, ParentOf[m]>>] = Directory
    <3>1. disk'[<<e, m>>] = disk[<<e, m>>]
      BY <1>7, <2>2
    <3>2. disk[<<e, ParentOf[m]>>] = Directory /\ ParentOf[m] \in Names
      BY <1>2, <2>2, <3>1, TheNames DEF TreeOf
    <3>3. ~(empty /\ ParentOf[m] = n)
      BY <2>2, <3>1 DEF Inside
    <3>. QED BY <1>7, <3>2, <3>3
  <2>. QED BY <2>1, <2>2 DEF TreeOf
<1>11. CASE Done(p)
  <2>1. PICK u : Goes(p, u, TRUE) /\ Rest(p, u)
    BY <1>1, <1>11, DoneRest
  <2>2. Handlers' /\ Alone'
    BY <1>1, <2>1, RestHandlers
  <2>3. /\ work'[p].req = work[p].req /\ work'[p].thing = e /\ work'[p].todo = u
        /\ work'[p].begun = TRUE /\ \A q \in Ports \ {p} : work'[q] = work[q]
    BY <2>1, GoesFields DEF Goes
  <2>4. ListingOf(e)'
    BY <1>2, <2>3 DEF ListingOf, Intact
  <2>5. CreatingBy(p)' /\ RewritingBy(p)'
    BY <1>2, <2>3 DEF CreatingBy, RewritingBy
  <2>6. CASE n = "files"
    <3>1. Len(t) = 2 /\ Clears(t[2], e, "entry") /\ t[2].do = "unlink"
      BY <1>2, <1>3, <2>6
    <3>2. Len(u) = 1 /\ u[1] = t[2] /\ u # <<>>
      <4>1. Len(u) = 1 /\ u[1] = t[2]
        BY <2>1, <3>1 DEF Rest
      <4>2. u # <<>>
        BY <4>1, NotEmpty
      <4>. QED BY <4>1, <4>2
    <3>3. disk'[<<e, "meta">>] = disk[<<e, "meta">>]
      BY <1>7, <2>6, TheNames
    <3>4. e \notin overlapped /\ disk[<<e, "meta">>] # Missing => "meta" \in u[1].names
      BY <1>4, <3>1, <3>2 DEF last
    <3>5. e \notin overlapped /\ disk[<<e, "meta">>] # Missing =>
              \A k \in 1 .. Len(u) : "meta" \in u[k].names
      BY <3>2, <3>4
    <3>6. DeleteList(u, e)
      BY <3>1, <3>2 DEF DeleteList
    <3>. QED
      <4>1. DeletingBy(p)'
        BY <1>1, <2>3, <3>2, <3>3, <3>5, <3>6 DEF DeletingBy
      <4>. QED BY <1>1, <1>7, <1>8, <1>10, <2>2, <2>3, <2>4, <2>5, <4>1, JournalMoves
  <2>7. CASE n = "entry"
    <3>1. Len(t) = 1
      BY <1>3, <2>7
    <3>2. u = <<>>
      <4>1. Len(u) = 0 /\ IsList(u)
        BY <2>1, <3>1 DEF Rest
      <4>. QED BY <4>1, ListEmpty
    <3>3. empty
      <4>1. ~Refuse(p)
        <5>. SUFFICES ASSUME Refuse(p) PROVE FALSE
          OBVIOUS
        <5>1. work'[p].thing = "none"
          BY RefuseRefused, Refusing
        <5>. QED BY <2>3, <5>1, Distinct
      <4>. QED BY <1>5, <2>7, <4>1
    <3>4. AllMissing(e)'
      <4>1. disk[<<e, "files">>] = Missing
        BY <2>7, <3>3, TheNames DEF Inside
      <4>2. ASSUME NEW m \in Names \ {"entry"} PROVE disk[<<e, m>>] = Missing
        <5>1. CASE ParentOf[m] = "entry"
          BY <2>7, <3>3, <5>1 DEF Inside
        <5>2. CASE ParentOf[m] = "files"
          BY <1>2, <1>9, <4>1, <5>2 DEF TreeOf
        <5>. QED BY <5>1, <5>2, TheNames
      <4>. QED BY <1>7, <2>7, <3>3, <4>2 DEF AllMissing
    <3>5. DeletingBy(p)'
      <4>1. DeleteList(u, e) /\ Len(u) = 0
        BY <3>2 DEF DeleteList
      <4>2. \A k \in 1 .. Len(u) : FALSE
        BY <4>1
      <4>. QED BY <2>3, <3>4, <4>1, <4>2 DEF DeletingBy
    <3>. QED BY <1>1, <1>7, <1>8, <1>10, <2>2, <2>3, <2>4, <2>5, <3>5, JournalMoves
  <2>. QED BY <2>6, <2>7
<1>12. CASE Refuse(p) /\ n = "entry" /\ ~empty
  <2>1. Refused(p)
    BY <1>12, RefuseRefused
  <2>2. Handlers' /\ Alone'
    BY <1>1, <2>1, RefusedHandlers, RefusedAlone
  <2>3. /\ work'[p].req.op = "none" /\ work'[p].thing = "none" /\ \A q \in Ports \ {p} : work'[q] = work[q]
        /\ CreatingBy(p)' /\ DeletingBy(p)' /\ RewritingBy(p)'
    BY <2>1, Refusing
  <2>4. ListingOf(e)'
    <3>1. e \in overlapped \/ disk[<<e, "meta">>] = Missing
      BY <1>2, <1>3, <1>4, <1>12 DEF last
    <3>2. disk' = disk
      BY <1>5, <1>12
    <3>. QED BY <1>1, <3>1, <3>2 DEF ListingOf
  <2>. QED BY <1>1, <1>7, <1>8, <1>10, <2>2, <2>3, <2>4, JournalMoves
<1>. QED BY <1>3, <1>5, <1>11, <1>12

----------------------------------------------------------------------------
\* What a step reaches

Moving(p) ==
    \/ init_profile_file_if_missing(p) \/ ReadAndChange(p) \/ OpenForWriting(p) \/ write_file(p)
    \/ MakeDirectory(p) \/ WriteUserProfileSnapshot(p) \/ rmdir_r(p) \/ Unlink(p) \/ RemoveDirectory(p)

\* Nobody else's handler, and no other file than its own.
Reaches(p) ==
    /\ \A q \in Ports \ {p} : work'[q] = work[q]
    /\ \/ work'[p].req = work[p].req /\ work'[p].thing = work[p].thing /\ work'[p].alone = work[p].alone
       \/ work'[p] = Idle
    /\ \/ disk' = disk
       \/ \E path \in PathsOf(work[p].thing) : \E v : Puts(path, v)

LEMMA WorkReaches ==
    ASSUME Handlers, NEW p \in Ports,
           \/ Refuse(p) \/ Done(p) \/ \E steps : Instead(p, steps)
           \/ \E u : work' = [work EXCEPT ![p].todo = u, ![p].begun = TRUE]
    PROVE  /\ \A q \in Ports \ {p} : work'[q] = work[q]
           /\ \/ work'[p].req = work[p].req /\ work'[p].thing = work[p].thing /\ work'[p].alone = work[p].alone
              \/ work'[p] = Idle
<1>1. CASE Refuse(p)
  BY <1>1, RefuseRefused DEF Refused
<1>2. CASE Done(p)
  <2>1. Goes(p, Tail(work[p].todo), TRUE)
    BY <1>2, DoneGoes
  <2>. QED BY <2>1, GoesFields DEF Goes
<1>3. CASE \E steps : Instead(p, steps)
  <2>1. PICK steps : Instead(p, steps)
    BY <1>3
  <2>2. Goes(p, steps \o Tail(work[p].todo), work[p].begun)
    BY <2>1, InsteadGoes
  <2>. QED BY <2>2, GoesFields DEF Goes
<1>4. CASE \E u : work' = [work EXCEPT ![p].todo = u, ![p].begun = TRUE]
  <2>1. PICK u : work' = [work EXCEPT ![p].todo = u, ![p].begun = TRUE]
    BY <1>4
  <2>2. Goes(p, u, TRUE)
    BY <2>1, BegunGoes
  <2>. QED BY <2>2, GoesFields DEF Goes
<1>. QED BY <1>1, <1>2, <1>3, <1>4

LEMMA StepReaches ==
    ASSUME Handlers, JournalInv, NEW p \in Ports, Moving(p)
    PROVE  Reaches(p) /\ UNCHANGED <<mem, told, overlapped, torn>>
<1>. DEFINE own == PathsOf(work[p].thing)
            path == Now(p).path
            Work == \/ Refuse(p) \/ Done(p) \/ \E steps : Instead(p, steps)
                    \/ \E u : work' = [work EXCEPT ![p].todo = u, ![p].begun = TRUE]
            Disk == disk' = disk \/ \E x \in own : \E v : Puts(x, v)
<1>1. ASSUME NEW do, Doing(p, do)
      PROVE  /\ do = "snapshot" => work[p].thing = "user"
             /\ do \notin {"init", "snapshot"} => path \in own
             /\ do \in {"scan", "unlink", "mkdir"} => work[p].thing \in EntryIds
  BY <1>1, DoingFirst DEF Proper
<1>. HIDE DEF own
<1>11. ASSUME NEW x \in own, NEW v, disk' = [disk EXCEPT ![x] = v] PROVE Disk
  BY <1>11 DEF Puts
<1>2. CASE init_profile_file_if_missing(p)
  BY <1>2, WorkReaches DEF init_profile_file_if_missing, Reaches
<1>3. CASE ReadAndChange(p)
  <2>1. Work /\ disk' = disk /\ UNCHANGED <<mem, told, overlapped, torn>>
    BY <1>3 DEF ReadAndChange
  <2>. QED BY <2>1, WorkReaches DEF Reaches
<1>4. CASE OpenForWriting(p)
  <2>1. Work /\ UNCHANGED <<mem, told, overlapped, torn>>
    BY <1>4 DEF OpenForWriting
  <2>2. Disk
    <3>1. path \in own
      BY <1>1, <1>4 DEF OpenForWriting
    <3>2. disk' = disk \/ disk' = [disk EXCEPT ![path] = Torn]
      BY <1>4 DEF OpenForWriting
    <3>. HIDE DEF path, Disk
    <3>3. CASE disk' = disk
      BY <3>3 DEF Disk
    <3>. QED BY <1>11, <3>1, <3>2, <3>3
  <2>. QED BY <2>1, <2>2, WorkReaches DEF Reaches, own
<1>5. CASE write_file(p)
  <2>1. Work /\ UNCHANGED <<mem, told, overlapped, torn>>
    BY <1>5 DEF write_file
  <2>2. Disk
    <3>1. path \in own
      BY <1>1, <1>5 DEF write_file
    <3>2. disk' = disk \/ disk' = [disk EXCEPT ![path] = Now(p).data]
      BY <1>5 DEF write_file
    <3>. HIDE DEF path, Disk
    <3>3. CASE disk' = disk
      BY <3>3 DEF Disk
    <3>. QED BY <1>11, <3>1, <3>2, <3>3
  <2>. QED BY <2>1, <2>2, WorkReaches DEF Reaches, own
<1>6. CASE MakeDirectory(p)
  <2>1. Work /\ UNCHANGED <<mem, told, overlapped, torn>>
    BY <1>6 DEF MakeDirectory
  <2>2. Disk
    <3>1. path \in own
      BY <1>1, <1>6 DEF MakeDirectory
    <3>2. disk' = disk \/ disk' = [disk EXCEPT ![path] = Directory]
      BY <1>6 DEF MakeDirectory
    <3>. HIDE DEF path, Disk
    <3>3. CASE disk' = disk
      BY <3>3 DEF Disk
    <3>. QED BY <1>11, <3>1, <3>2, <3>3
  <2>. QED BY <2>1, <2>2, WorkReaches DEF Reaches, own
<1>7. CASE WriteUserProfileSnapshot(p)
  <2>1. Work /\ UNCHANGED <<mem, told, overlapped, torn>>
    BY <1>7 DEF WriteUserProfileSnapshot
  <2>2. Disk
    <3>1. File("snapshot") \in own
      BY <1>1, <1>7, NotThings DEF WriteUserProfileSnapshot, own, PathsOf
    <3>. QED BY <1>7, <3>1 DEF WriteUserProfileSnapshot, Puts
  <2>. QED BY <2>1, <2>2, WorkReaches DEF Reaches, own
<1>8. CASE rmdir_r(p)
  <2>1. Work /\ disk' = disk /\ UNCHANGED <<mem, told, overlapped, torn>>
    BY <1>8 DEF rmdir_r
  <2>. QED BY <2>1, WorkReaches DEF Reaches
<1>9. CASE Unlink(p)
  <2>1. Work /\ UNCHANGED <<mem, told, overlapped, torn>>
    BY <1>9 DEF Unlink
  <2>2. Disk
    <3>1. PICK c \in Now(p).names : \/ disk' = disk
                                    \/ disk' = [disk EXCEPT ![<<path[1], c>>] = Missing]
      BY <1>9 DEF Unlink
    <3>2. Doing(p, "unlink") /\ work[p].thing \in EntryIds
      BY <1>1, <1>9 DEF Unlink
    <3>3. \E n \in {"entry", "files"} : path = <<work[p].thing, n>> /\ Now(p).names \subseteq Inside(n)
      <4>. DEFINE s == work[p].todo[1]
      <4>1. /\ Now(p) = s /\ s.do = "unlink"
            /\ Clears(s, work[p].thing, "entry") \/ Clears(s, work[p].thing, "files")
        BY <3>2, Deletion
      <4>. HIDE DEF s
      <4>2. \E n \in {"entry", "files"} : s.path = <<work[p].thing, n>> /\ s.names \subseteq Inside(n)
        BY <4>1 DEF Clears
      <4>. QED BY <4>1, <4>2
    <3>4. <<path[1], c>> \in own
      BY <3>2, <3>3 DEF own, PathsOf, Inside
    <3>. HIDE DEF path, Disk
    <3>5. CASE disk' = disk
      BY <3>5 DEF Disk
    <3>. QED BY <1>11, <3>1, <3>4, <3>5
  <2>. QED BY <2>1, <2>2, WorkReaches DEF Reaches, own
<1>10. CASE RemoveDirectory(p)
  <2>1. Work /\ UNCHANGED <<mem, told, overlapped, torn>>
    BY <1>10 DEF RemoveDirectory
  <2>2. Disk
    <3>1. path \in own /\ work[p].thing \in EntryIds
      BY <1>1, <1>10 DEF RemoveDirectory
    <3>2. path = <<path[1], path[2]>>
      BY <3>1 DEF own, PathsOf
    <3>3. disk' = disk \/ disk' = [disk EXCEPT ![<<path[1], path[2]>>] = Missing]
      BY <1>10 DEF RemoveDirectory
    <3>. HIDE DEF path, Disk
    <3>4. CASE disk' = disk
      BY <3>4 DEF Disk
    <3>. QED BY <1>11, <3>1, <3>2, <3>3, <3>4
  <2>. QED BY <2>1, <2>2, WorkReaches DEF Reaches, own
<1>. QED BY <1>2, <1>3, <1>4, <1>5, <1>6, <1>7, <1>8, <1>9, <1>10 DEF Moving

\* Nothing of the user's record changes, nor do the handlers of it.
LEMMA UserElsewhere ==
    ASSUME UserInv, mem' \in Users, disk'[File("user")] = disk[File("user")],
           disk'[File("snapshot")] = disk[File("snapshot")],
           (\E q \in Ports : work[q].thing = "user") => mem' = mem,
           mem' = mem \/ Private(mem)', "user" \in overlapped => "user" \in overlapped',
           "user" \in torn => "user" \in torn',
           \A q \in Ports : work[q].thing = "user" \/ work'[q].thing = "user" =>
               /\ work'[q].thing = work[q].thing /\ work'[q].todo = work[q].todo
               /\ work'[q].begun = work[q].begun /\ (work'[q].alone => work[q].alone)
    PROVE  UserInv'
<1>1. Hidden' <=> Hidden
  BY DEF Hidden
<1>2. ASSUME NEW q \in Ports, work'[q].thing = "user"
      PROVE  SaveList(work'[q].todo) /\ work[q].thing = "user" /\ mem' = mem
  BY <1>2 DEF UserInv, Saver
<1>3. Saver'
  <2>. SUFFICES ASSUME NEW q \in Ports, work'[q].thing = "user", work'[q].alone
                PROVE  LET t == work'[q].todo
                       IN  /\ Len(t) = 2 /\ t[1].do # "modify" => t[1].data = mem'
                           /\ Len(t) # 2 => disk'[File("user")] = mem'
                           /\ Len(t) = 1 /\ t[1].do # "snapshot" => mem'.share
                           /\ t = <<>> => Private(mem)'
    BY <1>2 DEF Saver
  <2>1. /\ work[q].thing = "user" /\ work[q].alone /\ work'[q].todo = work[q].todo /\ mem' = mem
    BY <1>2
  <2>2. Private(mem) => Private(mem)'
    BY <1>1, <2>1 DEF Private, load_user_from_dir
  <2>. QED BY <2>1, <2>2 DEF UserInv, Saver
<1>4. SettledUser'
  <2>. SUFFICES ASSUME "user" \notin overlapped' \cup torn' PROVE SettledUser'
    BY DEF SettledUser
  <2>1. /\ (\A p \in Ports : work[p].thing # "user") => Private(mem)
        /\ (\A p \in Ports : work[p].thing = "user" => ~work[p].begun) => Private(disk[File("user")])
    BY DEF UserInv, SettledUser
  <2>2. (\A p \in Ports : work'[p].thing # "user") => Private(mem)'
    <3>1. CASE mem' = mem
      <4>1. Private(mem) => Private(mem)'
        BY <1>1, <3>1 DEF Private, load_user_from_dir
      <4>. QED BY <2>1, <4>1
    <3>2. CASE Private(mem)'
      BY <3>2
    <3>. QED BY <3>1, <3>2
  <2>3. (\A p \in Ports : work'[p].thing = "user" => ~work'[p].begun) => Private(disk[File("user")])'
    <3>1. Private(disk[File("user")]) => Private(disk[File("user")])'
      BY <1>1 DEF Private, load_user_from_dir
    <3>. QED BY <2>1, <3>1
  <2>. QED BY <2>2, <2>3 DEF SettledUser
<1>5. disk'[File("user")] \in Users \cup {Torn}
  BY DEF UserInv
<1>. QED BY <1>3, <1>4, <1>5 DEF UserInv

LEMMA ApartFiles ==
    ASSUME NEW p \in Ports, Handlers, JournalInv, Reaches(p), work[p].thing # "none"
    PROVE  /\ DOMAIN disk' = Path
           /\ work[p].thing \notin EntryIds =>
                 \A e \in EntryIds, n \in Names : disk'[<<e, n>>] = disk[<<e, n>>]
           /\ work[p].thing # "user" => /\ disk'[File("user")] = disk[File("user")]
                                        /\ disk'[File("snapshot")] = disk[File("snapshot")]
<1>1. DOMAIN disk = Path
  BY DEF JournalInv, Tree
<1>2. CASE disk' = disk
  BY <1>1, <1>2
<1>3. CASE \E path \in PathsOf(work[p].thing) : \E v : Puts(path, v)
  <2>0. PICK path \in PathsOf(work[p].thing) : \E v : Puts(path, v)
    BY <1>3
  <2>1. PICK v : Puts(path, v)
    BY <2>0
  <2>2. disk' = [disk EXCEPT ![path] = v]
    BY <2>1 DEF Puts
  <2>3. work[p].thing \notin EntryIds => \A e \in EntryIds, n \in Names : path # <<e, n>>
    BY <2>1, Distinct DEF PathsOf, File
  <2>4. work[p].thing # "user" => path # File("user") /\ path # File("snapshot")
    BY <2>1, Distinct DEF PathsOf, File
  <2>5. \A e \in EntryIds, n \in Names : <<e, n>> \in Path
    BY DEF Path
  <2>6. File("user") \in Path /\ File("snapshot") \in Path
    BY DEF Path, File, Single
  <2>7. DOMAIN disk' = Path /\ \A x \in Path : x # path => disk'[x] = disk[x]
    BY <1>1, <2>2
  <2>. QED BY <2>3, <2>4, <2>5, <2>6, <2>7
<1>. QED BY <1>2, <1>3 DEF Reaches

LEMMA ApartJournal ==
    ASSUME NEW p \in Ports, Handlers, Handlers', JournalInv, Reaches(p), work[p].thing \in Things \ EntryIds,
           UNCHANGED <<told, overlapped, torn>>
    PROVE  JournalInv'
<1>1. work'[p].thing \notin EntryIds
  BY IdleForm, NotThings DEF Reaches, Things
<1>2. \A q \in Ports : work[q].thing \in EntryIds \/ work'[q].thing \in EntryIds => work'[q] = work[q]
  BY <1>1 DEF Reaches
<1>3. /\ DOMAIN disk' = Path
      /\ \A e \in EntryIds, n \in Names : disk'[<<e, n>>] = disk[<<e, n>>]
  BY ApartFiles, NotThings
<1>4. DOMAIN told' = Said
  BY DEF JournalInv, Standing
<1>. QED BY <1>2, <1>3, <1>4, JournalElsewhere

LEMMA ApartUser ==
    ASSUME NEW p \in Ports, Handlers, JournalInv, UserInv, Reaches(p), work[p].thing \in Things \ {"user"},
           UNCHANGED <<mem, overlapped, torn>>
    PROVE  UserInv'
<1>1. work'[p].thing # "user"
  BY IdleForm DEF Reaches
<1>2. \A q \in Ports : work[q].thing = "user" \/ work'[q].thing = "user" => work'[q] = work[q]
  BY <1>1 DEF Reaches
<1>3. disk'[File("user")] = disk[File("user")] /\ disk'[File("snapshot")] = disk[File("snapshot")]
  BY ApartFiles, NotThings
<1>4. mem' \in Users
  BY DEF UserInv
<1>. QED BY <1>2, <1>3, <1>4, UserElsewhere

----------------------------------------------------------------------------
\* The steps of the other handlers

\* A handler of the user's record takes a step: others about it are not alone.
LEMMA UserMoves ==
    ASSUME UserInv, Alone, NEW p \in Ports, work[p].thing = "user", UNCHANGED <<mem, overlapped, torn>>,
           NEW u, NEW b, Goes(p, u, b), disk'[File("user")] \in Users \cup {Torn}, SaveList(u),
           work[p].alone => /\ Len(u) = 2 /\ u[1].do # "modify" => u[1].data = mem
                            /\ Len(u) # 2 => disk'[File("user")] = mem
                            /\ Len(u) = 1 /\ u[1].do # "snapshot" => mem.share
                            /\ u = <<>> => Private(mem)',
           \/ b = TRUE
           \/ b = work[p].begun /\ UNCHANGED disk
    PROVE  UserInv'
<1>1. /\ work'[p].thing = "user" /\ work'[p].todo = u /\ work'[p].alone = work[p].alone /\ work'[p].begun = b
      /\ \A q \in Ports \ {p} : work'[q] = work[q]
  BY GoesFields DEF Goes
<1>2. \A q \in Ports \ {p} : work[q].thing = "user" => ~work[q].alone
  BY DEF Alone, IsBusy
<1>3. Saver'
  <2>. SUFFICES ASSUME NEW q \in Ports, work'[q].thing = "user"
                PROVE  LET t == work'[q].todo
                       IN  /\ SaveList(t)
                           /\ work'[q].alone =>
                                 /\ Len(t) = 2 /\ t[1].do # "modify" => t[1].data = mem'
                                 /\ Len(t) # 2 => disk'[File("user")] = mem'
                                 /\ Len(t) = 1 /\ t[1].do # "snapshot" => mem'.share
                                 /\ t = <<>> => Private(mem)'
    BY DEF Saver
  <2>1. CASE q = p
    BY <1>1, <2>1
  <2>2. CASE q # p
    <3>1. work'[q] = work[q] /\ ~work[q].alone /\ work[q].thing = "user"
      BY <1>1, <1>2, <2>2
    <3>2. SaveList(work[q].todo)
      BY <3>1 DEF UserInv, Saver
    <3>. QED BY <3>1, <3>2
  <2>. QED BY <2>1, <2>2
<1>4. SettledUser'
  <2>1. ~(\A q \in Ports : work'[q].thing # "user")
    BY <1>1
  <2>2. CASE b = TRUE
    BY <1>1, <2>1, <2>2 DEF SettledUser
  <2>3. CASE b = work[p].begun /\ UNCHANGED disk
    <3>1. ASSUME "user" \notin overlapped \cup torn, \A q \in Ports : work'[q].thing = "user" => ~work'[q].begun
          PROVE  Private(disk[File("user")])'
      <4>1. \A q \in Ports : work[q].thing = "user" => ~work[q].begun
        BY <1>1, <2>3, <3>1
      <4>2. Private(disk[File("user")])
        BY <3>1, <4>1 DEF UserInv, SettledUser
      <4>. QED BY <2>3, <4>2 DEF Private, Hidden, load_user_from_dir
    <3>. QED BY <2>1, <3>1 DEF SettledUser
  <2>. QED BY <2>2, <2>3
<1>. QED BY <1>3, <1>4 DEF UserInv

\* Where the handler of the user's record is.
LEMMA SavingStep ==
    ASSUME Handlers, UserInv, NEW p \in Ports, NEW do, Doing(p, do), work[p].thing = "user"
    PROVE  LET t == work[p].todo
           IN  /\ t # <<>> /\ t[1].do = do /\ Now(p) = t[1] /\ work[p].req.op = "user"
               /\ \/ Len(t) = 2 /\ do \in {"open", "fill", "modify"} /\ t[1].path = File("user") /\ t[2].do = "snapshot"
                  \/ Len(t) = 1 /\ do \in {"open", "fill"} /\ t[1].path = File("snapshot")
                  \/ Len(t) = 1 /\ do = "snapshot"
               /\ work[p].alone =>
                     /\ Len(t) = 2 /\ do # "modify" => t[1].data = mem
                     /\ Len(t) = 1 => disk[File("user")] = mem
                     /\ Len(t) = 1 /\ do # "snapshot" => mem.share
<1>. DEFINE t == work[p].todo
<1>1. t # <<>> /\ t[1].do = do /\ Now(p) = t[1] /\ IsHandler(work[p])
  BY DoingFirst DEF FirstStep, Handlers
<1>2. work[p].req.op = "user"
  BY <1>1 DEF IsHandler
<1>3. SaveList(t)
  BY DEF UserInv, Saver
<1>4. \/ Len(t) = 2 /\ do \in {"open", "fill", "modify"} /\ t[1].path = File("user") /\ t[2].do = "snapshot"
      \/ Len(t) = 1 /\ do \in {"open", "fill"} /\ t[1].path = File("snapshot")
      \/ Len(t) = 1 /\ do = "snapshot"
  BY <1>1, <1>3 DEF SaveList, Writes
<1>5. work[p].alone =>
          /\ Len(t) = 2 /\ t[1].do # "modify" => t[1].data = mem
          /\ Len(t) # 2 => disk[File("user")] = mem
          /\ Len(t) = 1 /\ t[1].do # "snapshot" => mem.share
  BY DEF UserInv, Saver
<1>6. Len(t) = 1 => Len(t) # 2
  OBVIOUS
<1>. QED BY <1>1, <1>2, <1>4, <1>5, <1>6

LEMMA Initialises ==
    ASSUME Handlers, Alone, NEW p \in Ports, init_profile_file_if_missing(p)
    PROVE  Handlers' /\ Alone' /\ work[p].thing = "profile"
<1>1. Doing(p, "init") /\ UNCHANGED overlapped /\ work[p].begun \in BOOLEAN
  BY DoingFirst DEF init_profile_file_if_missing
<1>2. work[p].thing = "profile" /\ work[p].thing \notin EntryIds
  BY <1>1, DoingFirst, Distinct DEF Proper
<1>. DEFINE x == Write(File("profile"), NewProfile)
<1>3. Instead(p, <<x>>) \/ Instead(p, <<>>)
  BY DEF init_profile_file_if_missing
<1>4. Proper(work[p].thing, work[p].req.op, x)
  BY <1>2 DEF Proper, Write, File, PathsOf
<1>. HIDE DEF x
<1>5. CASE Instead(p, <<x>>)
  <2>1. PICK u : Goes(p, u, work[p].begun) /\ Instead1(p, u, x)
    BY <1>1, <1>5, OneInstead
  <2>. QED BY <1>1, <1>2, <1>4, <2>1, RestHandlers
<1>6. CASE Instead(p, <<>>)
  <2>1. PICK u : Goes(p, u, work[p].begun) /\ Rest(p, u)
    BY <1>1, <1>6, NoneRest
  <2>. QED BY <1>1, <1>2, <2>1, RestHandlers
<1>. QED BY <1>3, <1>5, <1>6

LEMMA PlainReads ==
    ASSUME Handlers, Alone, UserInv, NEW p \in Ports, ReadAndChange(p), work[p].thing \notin EntryIds
    PROVE  Handlers' /\ Alone' /\ (work[p].thing = "user" => UserInv')
<1>. DEFINE t == work[p].todo
            op == work[p].req.op
            path == FirstStep(p).path
            new == Modified(work[p].req, disk[path])
<1>1. Doing(p, "modify") /\ UNCHANGED <<disk, mem, overlapped, torn>> /\ work[p].begun \in BOOLEAN
  BY DoingFirst DEF ReadAndChange
<1>2. /\ Now(p) = FirstStep(p) /\ FirstStep(p) = t[1] /\ path \in PathsOf(work[p].thing)
      /\ path = File("user") => op = "user"
  <2>1. /\ Now(p) = FirstStep(p) /\ FirstStep(p).do = "modify"
        /\ Proper(work[p].thing, work[p].req.op, FirstStep(p))
    BY <1>1, DoingFirst
  <2>2. FirstStep(p) = t[1]
    BY DEF FirstStep
  <2>. QED BY <2>1, <2>2 DEF Proper
<1>3. path[2] = "file"
  BY <1>2 DEF PathsOf, File
<1>4. op = "user" => new = mem /\ new # NotSaved /\ mem \in Users
  BY Distinct DEF UserInv, Modified, write_user_meta
<1>5. IF new = NotSaved THEN Refuse(p) ELSE Instead(p, <<Write(path, new)>>)
  BY <1>2 DEF ReadAndChange
<1>6. work[p].thing = "user" => op = "user"
  BY <1>1, SavingStep
<1>. HIDE DEF new
<1>7. CASE Refuse(p) /\ op # "user"
  BY <1>1, <1>6, <1>7, RefuseRefused, RefusedHandlers, RefusedAlone
<1>8. CASE Instead(p, <<Write(path, new)>>)
  <2>. DEFINE x == Write(path, new)
  <2>1. PICK u : Goes(p, u, work[p].begun) /\ Instead1(p, u, x)
    BY <1>1, <1>8, OneInstead
  <2>2. /\ x.do = "open" /\ x.path = path /\ x.data = new
        /\ x = [do |-> x.do, path |-> x.path, data |-> x.data]
    BY DEF Write
  <2>. HIDE DEF x
  <2>3. Proper(work[p].thing, op, x)
    BY <1>2, <1>3, <1>4, <2>2 DEF Proper
  <2>4. Handlers' /\ Alone'
    BY <1>1, <2>1, <2>3, RestHandlers
  <2>5. ASSUME work[p].thing = "user" PROVE UserInv'
    <3>1. Len(t) = 2 /\ t[1].path = File("user") /\ t[2].do = "snapshot" /\ op = "user"
      BY <1>1, <2>5, SavingStep
    <3>2. Len(u) = 2 /\ u[1] = x /\ u[2] = t[2] /\ u # <<>>
      BY <2>1, <3>1 DEF Instead1
    <3>3. SaveList(u)
      BY <1>2, <2>2, <3>1, <3>2 DEF SaveList, Writes
    <3>4. u[1].data = mem
      BY <1>4, <2>2, <3>1, <3>2
    <3>5. disk'[File("user")] \in Users \cup {Torn}
      BY <1>1 DEF UserInv
    <3>6. /\ Len(u) = 2 /\ u[1].do # "modify" => u[1].data = mem
          /\ Len(u) # 2 => disk'[File("user")] = mem
          /\ Len(u) = 1 /\ u[1].do # "snapshot" => mem.share
          /\ u = <<>> => Private(mem)'
      BY <3>2, <3>4
    <3>. QED BY <1>1, <2>1, <2>5, <3>3, <3>5, <3>6, UserMoves
  <2>. QED BY <2>4, <2>5
<1>. QED BY <1>4, <1>5, <1>7, <1>8

LEMMA PlainOpens ==
    ASSUME Handlers, Alone, JournalInv, UserInv, NEW p \in Ports, OpenForWriting(p), work[p].thing \notin EntryIds
    PROVE  Handlers' /\ Alone' /\ (work[p].thing = "user" => UserInv')
<1>. DEFINE t == work[p].todo
            op == work[p].req.op
            path == FirstStep(p).path
            x == [FirstStep(p) EXCEPT !.do = "fill"]
<1>1. Doing(p, "open") /\ UNCHANGED <<mem, overlapped, torn>>
  BY DEF OpenForWriting
<1>2. /\ Now(p) = FirstStep(p) /\ FirstStep(p).do = "open"
      /\ Proper(work[p].thing, op, FirstStep(p))
  BY <1>1, DoingFirst
<1>3. FirstStep(p) = t[1]
  BY DEF FirstStep
<1>4. /\ path \in PathsOf(work[p].thing)
      /\ FirstStep(p) = [do |-> "open", path |-> path, data |-> FirstStep(p).data]
      /\ path = File("user") => FirstStep(p).data \in Users
  BY <1>2 DEF Proper
<1>5. path[2] = "file" /\ path[1] \notin EntryIds /\ path \in Path
  BY <1>4, Distinct DEF PathsOf, File, Path, Single
<1>6. HasParent(path)
  BY <1>5 DEF HasParent
<1>7. work' = [work EXCEPT ![p].todo = <<x>> \o Tail(t), ![p].begun = TRUE]
  BY <1>2, <1>6 DEF OpenForWriting
<1>8. disk' = [disk EXCEPT ![path] = Torn]
  BY <1>2, <1>6 DEF OpenForWriting
<1>9. /\ x = [do |-> x.do, path |-> x.path, data |-> x.data]
      /\ x.do = "fill" /\ x.path = path /\ x.data = FirstStep(p).data
  <2>. DEFINE s == FirstStep(p)
              a == s.path
              b == s.data
  <2>1. s = [do |-> "open", path |-> a, data |-> b]
    BY <1>4
  <2>2. [s EXCEPT !.do = "fill"] = [do |-> "fill", path |-> a, data |-> b]
    <3>. HIDE DEF s, a, b
    <3>. QED BY <2>1
  <2>. QED BY <2>2
<1>. HIDE DEF x
<1>10. PICK u : Goes(p, u, TRUE) /\ Instead1(p, u, x)
  BY <1>1, <1>7, BegunInstead
<1>11. Proper(work[p].thing, op, x)
  BY <1>2, <1>4, <1>5, <1>9 DEF Proper
<1>12. Handlers' /\ Alone'
  BY <1>1, <1>10, <1>11, RestHandlers
<1>13. ASSUME work[p].thing = "user" PROVE UserInv'
  <2>1. /\ \/ Len(t) = 2 /\ path = File("user") /\ t[2].do = "snapshot"
           \/ Len(t) = 1 /\ path = File("snapshot")
        /\ work[p].alone => /\ Len(t) = 2 => t[1].data = mem
                            /\ Len(t) = 1 => disk[File("user")] = mem /\ mem.share
    BY <1>1, <1>3, <1>13, SavingStep
  <2>2. DOMAIN disk = Path /\ File("user") \in Path /\ disk[File("user")] \in Users \cup {Torn}
    BY DEF JournalInv, Tree, Path, File, Single, UserInv
  <2>3. disk'[File("user")] = IF path = File("user") THEN Torn ELSE disk[File("user")]
    BY <1>5, <1>8, <2>2
  <2>4. File("user") # File("snapshot")
    BY DEF File
  <2>5. CASE Len(t) = 2 /\ path = File("user") /\ t[2].do = "snapshot"
    <3>1. Len(u) = 2 /\ u[1] = x /\ u[2] = t[2] /\ u # <<>>
      BY <1>10, <2>5 DEF Instead1
    <3>2. SaveList(u)
      BY <1>9, <2>5, <3>1 DEF SaveList, Writes
    <3>3. work[p].alone => u[1].data = mem
      BY <1>3, <1>9, <2>1, <2>5, <3>1
    <3>4. work[p].alone => /\ Len(u) = 2 /\ u[1].do # "modify" => u[1].data = mem
                           /\ Len(u) # 2 => disk'[File("user")] = mem
                           /\ Len(u) = 1 /\ u[1].do # "snapshot" => mem.share
                           /\ u = <<>> => Private(mem)'
      BY <3>1, <3>3
    <3>. QED BY <1>1, <1>10, <1>13, <2>2, <2>3, <3>2, <3>4, UserMoves
  <2>6. CASE Len(t) = 1 /\ path = File("snapshot")
    <3>1. Len(u) = 1 /\ u[1] = x /\ u # <<>>
      BY <1>10, <2>6 DEF Instead1
    <3>2. SaveList(u)
      BY <1>9, <2>6, <3>1 DEF SaveList, Writes
    <3>3. disk'[File("user")] = disk[File("user")]
      BY <2>3, <2>4, <2>6
    <3>4. work[p].alone => /\ Len(u) = 2 /\ u[1].do # "modify" => u[1].data = mem
                           /\ Len(u) # 2 => disk'[File("user")] = mem
                           /\ Len(u) = 1 /\ u[1].do # "snapshot" => mem.share
                           /\ u = <<>> => Private(mem)'
      BY <2>1, <2>6, <3>1, <3>3
    <3>. QED BY <1>1, <1>10, <1>13, <2>2, <3>2, <3>3, <3>4, UserMoves
  <2>. QED BY <2>1, <2>5, <2>6
<1>. QED BY <1>12, <1>13

LEMMA PlainFills ==
    ASSUME Handlers, Alone, JournalInv, UserInv, NEW p \in Ports, write_file(p), work[p].thing \notin EntryIds
    PROVE  Handlers' /\ Alone' /\ (work[p].thing = "user" => UserInv')
<1>. DEFINE t == work[p].todo
            op == work[p].req.op
            path == FirstStep(p).path
            data == FirstStep(p).data
<1>1. Doing(p, "fill") /\ Done(p) /\ UNCHANGED <<mem, overlapped, torn>>
  BY DEF write_file
<1>2. /\ Now(p) = FirstStep(p) /\ FirstStep(p).do = "fill"
      /\ Proper(work[p].thing, op, FirstStep(p))
  BY <1>1, DoingFirst
<1>3. FirstStep(p) = t[1]
  BY DEF FirstStep
<1>4. path = File("user") => data \in Users
  BY <1>2 DEF Proper
<1>5. PICK u : Goes(p, u, TRUE) /\ Rest(p, u)
  BY <1>1, DoneRest
<1>6. Handlers' /\ Alone'
  BY <1>1, <1>5, RestHandlers
<1>7. ASSUME work[p].thing = "user" PROVE UserInv'
  <2>1. /\ \/ Len(t) = 2 /\ path = File("user") /\ t[2].do = "snapshot"
           \/ Len(t) = 1 /\ path = File("snapshot")
        /\ work[p].alone => /\ Len(t) = 2 => t[1].data = mem
                            /\ Len(t) = 1 => disk[File("user")] = mem /\ mem.share
    BY <1>1, <1>3, <1>7, SavingStep
  <2>2. /\ DOMAIN disk = Path /\ File("user") \in Path /\ File("snapshot") \in Path
        /\ disk[File("user")] \in Users \cup {Torn} /\ disk[File("user")] # Missing
    BY Distinct DEF JournalInv, Tree, Path, File, Single, UserInv
  <2>3. disk' = IF disk[path] = Missing THEN disk ELSE [disk EXCEPT ![path] = data]
    BY <1>2 DEF write_file
  <2>4. File("user") # File("snapshot")
    BY DEF File
  <2>5. CASE Len(t) = 2 /\ path = File("user") /\ t[2].do = "snapshot"
    <3>1. Len(u) = 1 /\ u[1] = t[2]
      BY <1>5, <2>5 DEF Rest
    <3>2. u # <<>> /\ SaveList(u)
      BY <2>5, <3>1, NotEmpty DEF SaveList
    <3>3. disk'[File("user")] = data
      BY <2>2, <2>3, <2>5
    <3>4. work[p].alone => data = mem
      BY <1>3, <2>1, <2>5
    <3>5. work[p].alone => /\ Len(u) = 2 /\ u[1].do # "modify" => u[1].data = mem
                           /\ Len(u) # 2 => disk'[File("user")] = mem
                           /\ Len(u) = 1 /\ u[1].do # "snapshot" => mem.share
                           /\ u = <<>> => Private(mem)'
      BY <2>5, <3>1, <3>2, <3>3, <3>4
    <3>6. disk'[File("user")] \in Users \cup {Torn}
      BY <1>4, <2>5, <3>3
    <3>. QED BY <1>1, <1>5, <1>7, <3>2, <3>5, <3>6, UserMoves
  <2>6. CASE Len(t) = 1 /\ path = File("snapshot")
    <3>1. Len(u) = 0 /\ IsList(u)
      BY <1>5, <2>6 DEF Rest
    <3>2. u = <<>> /\ SaveList(u)
      BY <3>1, ListEmpty DEF SaveList
    <3>3. disk'[File("user")] = disk[File("user")]
      BY <2>2, <2>3, <2>4, <2>6
    <3>4. mem.share => Private(mem)'
      <4>1. mem # Torn /\ mem' = mem
        BY <1>1, Distinct DEF UserInv
      <4>. QED BY <4>1 DEF Private, load_user_from_dir
    <3>5. work[p].alone => /\ Len(u) = 2 /\ u[1].do # "modify" => u[1].data = mem
                           /\ Len(u) # 2 => disk'[File("user")] = mem
                           /\ Len(u) = 1 /\ u[1].do # "snapshot" => mem.share
                           /\ u = <<>> => Private(mem)'
      BY <2>1, <2>6, <3>1, <3>3, <3>4
    <3>. QED BY <1>1, <1>5, <1>7, <2>2, <3>2, <3>3, <3>5, UserMoves
  <2>. QED BY <2>1, <2>5, <2>6
<1>. QED BY <1>6, <1>7

LEMMA Snapshots ==
    ASSUME Handlers, Alone, JournalInv, UserInv, NEW p \in Ports, WriteUserProfileSnapshot(p)
    PROVE  Handlers' /\ Alone' /\ UserInv' /\ work[p].thing = "user"
<1>. DEFINE t == work[p].todo
<1>1. Doing(p, "snapshot") /\ UNCHANGED <<mem, overlapped, torn>> /\ work[p].begun \in BOOLEAN
  BY DoingFirst DEF WriteUserProfileSnapshot
<1>2. work[p].thing = "user"
  BY <1>1, DoingFirst DEF Proper
<1>3. Len(t) = 1 /\ (work[p].alone => disk[File("user")] = mem)
  BY <1>1, <1>2, SavingStep
<1>4. /\ DOMAIN disk = Path /\ File("user") \in Path /\ File("snapshot") \in Path
      /\ disk[File("user")] \in Users \cup {Torn} /\ File("user") # File("snapshot")
  BY DEF JournalInv, Tree, Path, File, Single, UserInv
<1>5. CASE mem.share
  <2>. DEFINE x == Write(File("snapshot"), mem.look)
  <2>1. Instead(p, <<x>>) /\ UNCHANGED disk
    BY <1>5 DEF WriteUserProfileSnapshot
  <2>2. /\ x.do = "open" /\ x.path = File("snapshot")
        /\ x = [do |-> x.do, path |-> x.path, data |-> x.data]
    BY DEF Write
  <2>. HIDE DEF x
  <2>3. Proper("user", work[p].req.op, x)
    BY <1>4, <2>2, NotThings DEF Proper, PathsOf, File
  <2>4. PICK u : Goes(p, u, work[p].begun) /\ Instead1(p, u, x)
    BY <1>1, <2>1, OneInstead
  <2>5. Handlers' /\ Alone'
    BY <1>1, <1>2, <2>3, <2>4, RestHandlers
  <2>6. Len(u) = 1 /\ u[1] = x /\ u # <<>>
    BY <1>3, <2>4 DEF Instead1
  <2>7. SaveList(u)
    BY <2>2, <2>6 DEF SaveList, Writes
  <2>8. work[p].alone => /\ Len(u) = 2 /\ u[1].do # "modify" => u[1].data = mem
                         /\ Len(u) # 2 => disk'[File("user")] = mem
                         /\ Len(u) = 1 /\ u[1].do # "snapshot" => mem.share
                         /\ u = <<>> => Private(mem)'
    BY <1>3, <1>5, <2>1, <2>6
  <2>9. UserInv'
    BY <1>1, <1>2, <1>4, <2>1, <2>4, <2>7, <2>8, UserMoves
  <2>. QED BY <1>2, <2>5, <2>9
<1>6. CASE ~mem.share
  <2>1. Done(p) /\ disk' = [disk EXCEPT ![File("snapshot")] = Missing]
    BY <1>6 DEF WriteUserProfileSnapshot
  <2>2. PICK u : Goes(p, u, TRUE) /\ Rest(p, u)
    BY <1>1, <2>1, DoneRest
  <2>3. Handlers' /\ Alone'
    BY <1>1, <2>2, RestHandlers
  <2>4. Len(u) = 0 /\ IsList(u)
    BY <1>3, <2>2 DEF Rest
  <2>5. u = <<>> /\ SaveList(u)
    BY <2>4, ListEmpty DEF SaveList
  <2>6. disk'[File("user")] = disk[File("user")] /\ disk'[File("snapshot")] = Missing
    BY <1>4, <2>1
  <2>7. Private(mem)'
    BY <2>6 DEF Private, Hidden
  <2>8. work[p].alone => /\ Len(u) = 2 /\ u[1].do # "modify" => u[1].data = mem
                         /\ Len(u) # 2 => disk'[File("user")] = mem
                         /\ Len(u) = 1 /\ u[1].do # "snapshot" => mem.share
                         /\ u = <<>> => Private(mem)'
    BY <1>3, <2>4, <2>6, <2>7
  <2>9. UserInv'
    BY <1>1, <1>2, <1>4, <2>2, <2>5, <2>6, <2>8, UserMoves
  <2>. QED BY <1>2, <2>3, <2>9
<1>. QED BY <1>5, <1>6

\* No step of a handler breaks the invariant.
LEMMA Steps ==
    ASSUME IInv, NEW p \in Ports, Moving(p)
    PROVE  IInv'
<1>1. Handlers /\ Alone /\ JournalInv /\ UserInv
  BY DEF IInv
<1>2. Reaches(p) /\ UNCHANGED <<mem, told, overlapped, torn>>
  BY <1>1, StepReaches
<1>3. ASSUME NEW do, Doing(p, do)
      PROVE  /\ work[p].thing \in Things
             /\ do \in {"mkdir", "scan", "unlink"} => work[p].thing \in EntryIds
             /\ do \in {"init", "snapshot"} => work[p].thing \notin EntryIds
  BY <1>1, <1>3, DoingFirst, Distinct DEF Proper
<1>4. work[p].thing \in Things
  <2>1. \E do : Doing(p, do)
    BY DEF Moving, init_profile_file_if_missing, ReadAndChange, OpenForWriting, write_file,
           MakeDirectory, WriteUserProfileSnapshot, rmdir_r, Unlink, RemoveDirectory
  <2>. QED BY <1>3, <2>1
<1>5. CASE work[p].thing \in EntryIds
  <2>1. ~init_profile_file_if_missing(p) /\ ~WriteUserProfileSnapshot(p)
    BY <1>3, <1>5 DEF init_profile_file_if_missing, WriteUserProfileSnapshot
  <2>2. Handlers' /\ Alone' /\ JournalInv'
    BY <1>1, <1>5, <2>1, EntryReads, EntryOpens, EntryFills, EntryMakes, EntryScans, EntryUnlinks,
       EntryRemoves DEF Moving
  <2>3. UserInv'
    BY <1>1, <1>2, <1>4, <1>5, NotThings, ApartUser
  <2>. QED BY <2>2, <2>3 DEF IInv
<1>6. CASE work[p].thing \notin EntryIds
  <2>1. ~MakeDirectory(p) /\ ~rmdir_r(p) /\ ~Unlink(p) /\ ~RemoveDirectory(p)
    BY <1>3, <1>6 DEF MakeDirectory, rmdir_r, Unlink, RemoveDirectory
  <2>2. Handlers' /\ Alone' /\ (work[p].thing = "user" => UserInv')
    BY <1>1, <1>6, <2>1, Initialises, PlainReads, PlainOpens, PlainFills, Snapshots DEF Moving
  <2>3. JournalInv'
    BY <1>1, <1>2, <1>4, <1>6, <2>2, ApartJournal
  <2>4. work[p].thing # "user" => UserInv'
    BY <1>1, <1>2, <1>4, ApartUser
  <2>. QED BY <2>2, <2>3, <2>4 DEF IInv
<1>. QED BY <1>5, <1>6

----------------------------------------------------------------------------
\* The answer

\* What an entry that is there becomes is there too.
LEMMA ChangedThere ==
    ASSUME NEW was, IsThere(was), NEW r, r.op \in {"update", "attach", "embed", "unembed"}
    PROVE  IsThere(Changed(was, r)) /\ Changed(was, r) # Gone
<1>1. PICK a, b, c, d : was = [is |-> "there", title |-> a, text |-> b, embeds |-> c, image |-> d]
  BY DEF IsThere
<1>2. \E a2, b2, c2, d2 :
          Changed(was, r) = [is |-> "there", title |-> a2, text |-> b2, embeds |-> c2, image |-> d2]
  <2>1. CASE r.op = "update"
    <3>1. PICK x, y : Changed(was, r) = [was EXCEPT !.title = x, !.text = y]
      BY <2>1 DEF Changed
    <3>2. Changed(was, r) = [is |-> "there", title |-> x, text |-> y, embeds |-> c, image |-> d]
      BY <1>1, <3>1
    <3>. QED BY <3>2
  <2>2. CASE r.op = "attach"
    <3>1. Changed(was, r) = [was EXCEPT !.image = TRUE]
      BY <2>2 DEF Changed
    <3>2. Changed(was, r) = [is |-> "there", title |-> a, text |-> b, embeds |-> c, image |-> TRUE]
      BY <1>1, <3>1
    <3>. QED BY <3>2
  <2>3. CASE r.op \in {"embed", "unembed"}
    <3>1. Changed(was, r) = was \/ \E x : Changed(was, r) = [was EXCEPT !.embeds = x]
      BY <2>3 DEF Changed
    <3>2. \E x : Changed(was, r) = [is |-> "there", title |-> a, text |-> b, embeds |-> x, image |-> d]
      BY <1>1, <3>1
    <3>. QED BY <3>2
  <2>. QED BY <2>1, <2>2, <2>3
<1>3. PICK a2, b2, c2, d2 :
          Changed(was, r) = [is |-> "there", title |-> a2, text |-> b2, embeds |-> c2, image |-> d2]
  BY <1>2
<1>4. Gone.is = "gone"
  BY DEF Gone
<1>. QED BY <1>3, <1>4 DEF IsThere

\* What else is told is apart from the entries.
TellsOther(f, g) ==
    \E v : \/ g = [f EXCEPT !.inputs = v] \/ g = [f EXCEPT !.events = v] \/ g = [f EXCEPT !.keys = v]
           \/ g = [f EXCEPT !.reminders = v] \/ g = [f EXCEPT !.picture = v]

LEMMA ToldApart ==
    ASSUME NEW f, NEW g, DOMAIN f = Said, TellsOther(f, g)
    PROVE  DOMAIN g = Said /\ \A e \in EntryIds : g[e] = f[e]
<1>1. \A e \in EntryIds : e \notin {"inputs", "events", "keys", "reminders", "picture"} /\ e \in Said
  BY Distinct DEF Said
<1>2. PICK v : \/ g = [f EXCEPT !.inputs = v] \/ g = [f EXCEPT !.events = v] \/ g = [f EXCEPT !.keys = v]
               \/ g = [f EXCEPT !.reminders = v] \/ g = [f EXCEPT !.picture = v]
  BY DEF TellsOther
<1>. QED BY <1>1, <1>2

\* Of journal entries only the handler's own one is told of, and none becomes unborn.
LEMMA Tells ==
    ASSUME Handlers, JournalInv, NEW p \in Ports, IsBusy(p), told' = Tell(work[p].req)
    PROVE  /\ DOMAIN told' = Said
           /\ \A e \in EntryIds : e # work[p].thing => told'[e] = told[e]
           /\ work[p].thing \in EntryIds =>
                 LET e == work[p].thing
                 IN  /\ told'[e] = Gone \/ IsThere(told'[e])
                     /\ told'[e] = Gone => told[e] = Gone \/ work[p].req.op = "delete"
<1>. DEFINE r == work[p].req
            e == work[p].thing
<1>1. IsHandler(work[p]) /\ work[p].thing # "none"
  BY DEF Handlers, IsBusy
<1>2. DOMAIN told = Said /\ \A f \in EntryIds : told[f] = Unborn \/ told[f] = Gone \/ IsThere(told[f])
  BY DEF JournalInv, Standing
<1>3. CASE e \notin EntryIds
  <2>1. r.op \in PlainOps
    BY <1>1, <1>3 DEF IsHandler
  <2>3. CASE r.op \notin {"read", "user"}
    <3>1. \E v : \/ told' = [told EXCEPT !.inputs = v] \/ told' = [told EXCEPT !.events = v]
                 \/ told' = [told EXCEPT !.keys = v] \/ told' = [told EXCEPT !.reminders = v]
                 \/ told' = [told EXCEPT !.picture = v]
      BY <2>1, <2>3 DEF Tell, PlainOps
    <3>2. TellsOther(told, told')
      BY <3>1 DEF TellsOther
    <3>3. DOMAIN told' = Said /\ \A f \in EntryIds : told'[f] = told[f]
      BY <1>2, <3>2, ToldApart
    <3>. QED BY <1>3, <3>3
  <2>4. CASE r.op \in {"read", "user"}
    <3>1. told' = told
      BY <2>4 DEF Tell
    <3>. QED BY <1>2, <1>3, <3>1
  <2>. QED BY <2>3, <2>4
<1>4. CASE e \in EntryIds
  <2>1. r.op \in EntryOps /\ r.id = e
    BY <1>1, <1>4 DEF IsHandler
  <2>2. e \in Said
    BY <1>4 DEF Said
  <2>3. CASE r.op = "create"
    <3>. DEFINE v == [is |-> "there", title |-> r.title, text |-> r.text, embeds |-> <<>>, image |-> FALSE]
    <3>1. told' = [told EXCEPT ![e] = v]
      BY <2>1, <2>3 DEF Tell
    <3>2. IsThere(v) /\ v # Gone
      BY DEF IsThere, Gone
    <3>. HIDE DEF v
    <3>. QED BY <1>2, <2>2, <3>1, <3>2
  <2>4. CASE r.op = "delete"
    <3>1. told' = [told EXCEPT ![e] = Gone]
      BY <2>1, <2>4 DEF Tell
    <3>. QED BY <1>2, <2>2, <2>4, <3>1
  <2>5. CASE r.op \in {"update", "attach", "embed", "unembed"}
    <3>. DEFINE v == Changed(told[e], r)
    <3>1. told' = IF told[e] = Gone THEN told ELSE [told EXCEPT ![e] = v]
      BY <2>1, <2>5 DEF Tell
    <3>2. told[e] # Unborn
      BY <1>4, <2>1, <2>5 DEF JournalInv, KnownOnes
    <3>3. told[e] # Gone => IsThere(told[e])
      BY <1>2, <1>4, <3>2
    <3>4. told[e] # Gone => IsThere(v) /\ v # Gone
      BY <2>5, <3>3, ChangedThere
    <3>. HIDE DEF v
    <3>5. CASE told[e] = Gone
      BY <1>2, <1>4, <3>1, <3>5
    <3>6. CASE told[e] # Gone
      BY <1>2, <2>2, <3>1, <3>4, <3>6
    <3>. QED BY <3>5, <3>6
  <2>. QED BY <2>1, <2>3, <2>4, <2>5 DEF EntryOps
<1>. QED BY <1>3, <1>4

LEMMA Answers ==
    ASSUME IInv, NEW p \in Ports, Answer(p)
    PROVE  IInv'
<1>. DEFINE e == work[p].thing
            op == work[p].req.op
            mended == {x \in {work[p].thing} : work[p].alone /\ x \in {"user", "picture"}}
<1>1. Handlers /\ Alone /\ JournalInv /\ UserInv
  BY DEF IInv
<1>2. /\ IsBusy(p) /\ work[p].todo = <<>> /\ told' = Tell(work[p].req) /\ UNCHANGED <<disk, mem>>
      /\ overlapped' = overlapped \ mended /\ torn' = torn \ mended
      /\ work' = [work EXCEPT ![p] = Idle]
  BY DEF Answer
<1>3. /\ Refused(p) /\ work'[p] = Idle /\ work'[p].thing = "none" /\ work'[p].req.op = "none"
      /\ \A q \in Ports \ {p} : work'[q] = work[q]
  BY <1>1, <1>2, IdleForm DEF Refused, Handlers
<1>4. Handlers'
  BY <1>1, <1>3, RefusedHandlers
<1>5. e \in Things /\ e # "none" /\ IsHandler(work[p])
  BY <1>1, <1>2 DEF Handlers, IsHandler, IsBusy
<1>6. \A q \in Ports \ {p} : work[q].thing = e => ~work[p].alone /\ mended = {}
  BY <1>1, <1>2 DEF Alone
<1>7. Alone'
  <2>. SUFFICES ASSUME NEW q \in Ports \ {p}, work[q].thing # "none"
                PROVE  /\ work[q].alone => \A s \in Ports \ {q} : work'[s].thing # work[q].thing
                       /\ ~work[q].alone => work[q].thing \in overlapped'
    BY <1>3 DEF Alone, IsBusy
  <2>1. /\ work[q].alone => \A s \in Ports \ {q} : work[s].thing # work[q].thing
        /\ ~work[q].alone => work[q].thing \in overlapped
    BY <1>1 DEF Alone, IsBusy
  <2>2. work[q].thing \notin mended
    BY <1>6
  <2>. QED BY <1>2, <1>3, <2>1, <2>2
<1>8. \A f \in EntryIds : (f \in overlapped <=> f \in overlapped') /\ (f \in torn <=> f \in torn')
  <2>1. \A f \in EntryIds : f \notin mended
    BY Distinct
  <2>. QED BY <1>2, <2>1
<1>9. /\ DOMAIN told' = Said
      /\ \A f \in EntryIds : f # e => told'[f] = told[f]
      /\ e \in EntryIds => /\ told'[e] = Gone \/ IsThere(told'[e])
                           /\ told'[e] = Gone => told[e] = Gone \/ op = "delete"
  BY <1>1, <1>2, Tells
<1>10. JournalInv'
  <2>1. CASE e \notin EntryIds
    <3>1. \A f \in EntryIds, n \in Names : disk'[<<f, n>>] = disk[<<f, n>>]
      BY <1>2
    <3>2. DOMAIN disk' = Path
      BY <1>1, <1>2 DEF JournalInv, Tree
    <3>3. \A q \in Ports : work[q].thing \in EntryIds \/ work'[q].thing \in EntryIds => work'[q] = work[q]
      BY <1>3, <2>1, Distinct
    <3>4. \A f \in EntryIds : told'[f] = told[f]
      BY <1>9, <2>1
    <3>. QED BY <1>1, <1>4, <1>8, <1>9, <3>1, <3>2, <3>3, <3>4, JournalElsewhere
  <2>2. CASE e \in EntryIds
    <3>1. told'[e] # Unborn
      BY <1>9, <2>2 DEF IsThere, Gone, Unborn
    <3>2. op = "delete" => AllMissing(e)
      <4>1. op = "delete" => DeletingBy(p)
        BY <1>1 DEF JournalInv, Deleting
      <4>. QED BY <1>2, <4>1 DEF DeletingBy
    <3>3. Standing'
      BY <1>1, <1>9, <2>2 DEF JournalInv, Standing
    <3>4. Tree'
      BY <1>1, <1>2 DEF JournalInv, Tree, TreeOf
    <3>5. \A q \in Ports : work'[q].req.op \in EntryOps => q # p /\ work'[q] = work[q] /\ work[q].thing \in EntryIds
      BY <1>1, <1>3, TheNames DEF Handlers, IsHandler
    <3>6. Creating'
      <4>. SUFFICES ASSUME NEW q \in Ports \ {p}, work[q].req.op = "create", work'[q] = work[q],
                           work[q].thing \in EntryIds
                    PROVE  CreatingBy(q)'
        BY <3>5, TheNames DEF Creating, CreatingBy
      <4>1. CreatingBy(q)
        BY <1>1 DEF JournalInv, Creating
      <4>2. work[q].thing # e /\ told'[work[q].thing] = told[work[q].thing]
        BY <1>9, <4>1 DEF CreatingBy
      <4>3. \A s \in Ports \ {q} : work'[s].thing # work[q].thing
        <5>1. work[q].thing # "none"
          BY Distinct
        <5>. QED BY <1>3, <4>1, <5>1 DEF CreatingBy
      <4>. QED BY <1>2, <4>1, <4>2, <4>3 DEF CreatingBy
    <3>7. KnownOnes'
      <4>. SUFFICES ASSUME NEW q \in Ports \ {p}, work[q].req.op \in EntryOps \ {"create"},
                           work[q].thing \in EntryIds
                    PROVE  told'[work[q].thing] # Unborn
        BY <3>5 DEF KnownOnes
      <4>1. told[work[q].thing] # Unborn
        BY <1>1 DEF JournalInv, KnownOnes
      <4>. QED BY <1>9, <3>1, <4>1
    <3>8. Deleting'
      <4>. SUFFICES ASSUME NEW q \in Ports \ {p}, work[q].req.op = "delete", work'[q] = work[q],
                           work[q].thing \in EntryIds
                    PROVE  DeletingBy(q)'
        BY <3>5, TheNames DEF Deleting, DeletingBy
      <4>1. DeletingBy(q)
        BY <1>1 DEF JournalInv, Deleting
      <4>2. AllMissing(work[q].thing) => AllMissing(work[q].thing)'
        BY <1>2 DEF AllMissing
      <4>. QED BY <1>2, <1>8, <4>1, <4>2 DEF DeletingBy
    <3>9. Rewriting'
      <4>. SUFFICES ASSUME NEW q \in Ports \ {p}, work[q].req.op = "update", work'[q] = work[q],
                           work[q].thing \in EntryIds
                    PROVE  RewritingBy(q)'
        BY <3>5, TheNames DEF Rewriting, RewritingBy
      <4>1. RewritingBy(q)
        BY <1>1 DEF JournalInv, Rewriting
      <4>. QED BY <1>2, <1>8, <4>1 DEF RewritingBy
    <3>10. Listing'
      <4>. SUFFICES ASSUME NEW f \in EntryIds PROVE ListingOf(f)'
        BY DEF Listing
      <4>1. CASE f = e /\ op = "delete"
        BY <1>2, <3>2, <4>1, TheNames DEF ListingOf, AllMissing
      <4>2. CASE f # e \/ op # "delete"
        <5>1. Intact(f)' => Intact(f)
          BY <1>3, <4>2 DEF Intact
        <5>2. ListingOf(f)
          BY <1>1 DEF JournalInv, Listing
        <5>. QED BY <1>2, <1>8, <5>1, <5>2 DEF ListingOf
      <4>. QED BY <4>1, <4>2
    <3>11. DeletedStaysDeleted'
      <4>. SUFFICES ASSUME NEW f \in EntryIds, told'[f] = Gone PROVE AllMissing(f)
        BY <1>2 DEF DeletedStaysDeleted, AllMissing
      <4>1. told[f] = Gone \/ (f = e /\ op = "delete")
        BY <1>9
      <4>2. told[f] = Gone => AllMissing(f)
        BY <1>1 DEF JournalInv, DeletedStaysDeleted, AllMissing
      <4>. QED BY <3>2, <4>1, <4>2
    <3>. QED BY <3>3, <3>4, <3>6, <3>7, <3>8, <3>9, <3>10, <3>11 DEF JournalInv
  <2>. QED BY <2>1, <2>2
<1>11. UserInv'
  <2>1. CASE e # "user"
    <3>1. "user" \notin mended
      BY <2>1
    <3>2. \A q \in Ports : work[q].thing = "user" \/ work'[q].thing = "user" => work'[q] = work[q]
      BY <1>3, <2>1
    <3>3. mem' \in Users
      BY <1>1, <1>2 DEF UserInv
    <3>. QED BY <1>1, <1>2, <3>1, <3>2, <3>3, UserElsewhere
  <2>2. CASE e = "user"
    <3>1. Saver'
      <4>1. \A q \in Ports : work'[q].thing = "user" => work'[q] = work[q]
        BY <1>3
      <4>2. Private(mem) => Private(mem)'
        BY <1>2 DEF Private, Hidden, load_user_from_dir
      <4>. QED BY <1>1, <1>2, <4>1, <4>2 DEF UserInv, Saver
    <3>2. SettledUser'
      <4>1. CASE work[p].alone
        <5>1. Private(mem) /\ disk[File("user")] = mem
          <6>1. Len(work[p].todo) = 0
            BY <1>2
          <6>. QED BY <1>1, <1>2, <2>2, <4>1, <6>1 DEF UserInv, Saver
        <5>2. Private(mem)' /\ Private(disk[File("user")])'
          BY <1>2, <5>1 DEF Private, Hidden, load_user_from_dir
        <5>. QED BY <5>2 DEF SettledUser
      <4>2. CASE ~work[p].alone
        <5>1. "user" \in overlapped /\ mended = {}
          BY <1>1, <1>2, <2>2, <4>2 DEF Alone
        <5>. QED BY <1>2, <5>1 DEF SettledUser
      <4>. QED BY <4>1, <4>2
    <3>. QED BY <1>1, <1>2, <3>1, <3>2 DEF UserInv
  <2>. QED BY <2>1, <2>2
<1>. QED BY <1>4, <1>7, <1>10, <1>11 DEF IInv

----------------------------------------------------------------------------
\* The start, and another after the process has ended

AllIdle == DOMAIN work = Ports /\ \A p \in Ports : work[p] = Idle
NobodyBusy == \A p \in Ports : work[p].thing = "none" /\ work[p].req.op = "none" /\ ~work[p].begun
Unconcerned == Handlers /\ Alone /\ Creating /\ KnownOnes /\ Deleting /\ Rewriting /\ Saver

LEMMA Idles == AllIdle => Unconcerned /\ NobodyBusy
<1>. SUFFICES ASSUME AllIdle PROVE Unconcerned /\ NobodyBusy
  OBVIOUS
<1>1. \A p \in Ports : work[p].thing = "none" /\ work[p].req.op = "none" /\ ~work[p].begun
  BY IdleForm DEF AllIdle
<1>2. IsHandler(Idle)
  <2>1. IsList(Idle.todo) /\ Len(Idle.todo) = 0
    BY IdleForm, ShortLists
  <2>2. \A k \in 1 .. Len(Idle.todo) : FALSE
    BY <2>1
  <2>3. "none" \notin EntryIds /\ Idle.req.op \notin EntryOps
    BY IdleForm, Distinct DEF EntryOps
  <2>. QED BY <2>1, <2>2, <2>3, IdleForm, NotThings DEF IsHandler
<1>3. Handlers
  BY <1>2 DEF Handlers, AllIdle
<1>4. Alone
  BY <1>1 DEF Alone, IsBusy
<1>5. Creating /\ KnownOnes /\ Deleting /\ Rewriting
  BY <1>1, TheNames DEF Creating, CreatingBy, KnownOnes, Deleting, DeletingBy, Rewriting, RewritingBy
<1>6. Saver
  BY <1>1 DEF Saver
<1>. QED BY <1>1, <1>3, <1>4, <1>5, <1>6 DEF Unconcerned, NobodyBusy

LEMMA Crashes ==
    ASSUME IInv, Crash
    PROVE  IInv'
<1>1. Handlers /\ Alone /\ JournalInv /\ UserInv
  BY DEF IInv
<1>2. /\ UNCHANGED <<disk, told, overlapped>> /\ mem' = load_user_from_dir(disk[File("user")])
      /\ torn' = torn \cup {work[p].thing : p \in {q \in Ports : IsBusy(q) /\ work[q].begun}}
      /\ DOMAIN work' = Ports /\ \A p \in Ports : work'[p] = Idle
  BY DEF Crash
<1>3. Unconcerned'
  <2>1. AllIdle'
    BY <1>2 DEF AllIdle
  <2>. QED BY <2>1, Idles, PTL
<1>4. ASSUME NEW x, x \notin torn', x # "none", NEW p \in Ports, work[p].thing = x
      PROVE  ~work[p].begun
  BY <1>2, <1>4 DEF IsBusy
<1>5. JournalInv'
  <2>1. Standing' /\ Tree' /\ DeletedStaysDeleted'
    BY <1>1, <1>2 DEF JournalInv, Standing, Tree, TreeOf, DeletedStaysDeleted
  <2>2. Listing'
    <3>. SUFFICES ASSUME NEW e \in EntryIds, e \notin torn' PROVE ListingOf(e)'
      BY DEF Listing, ListingOf
    <3>1. Intact(e) /\ e \notin torn
      BY <1>2, <1>4, Distinct DEF Intact
    <3>. QED BY <1>1, <1>2, <3>1 DEF JournalInv, Listing, ListingOf
  <2>. QED BY <1>3, <2>1, <2>2 DEF JournalInv, Unconcerned
<1>6. UserInv'
  <2>1. mem' \in Users /\ load_user_from_dir(mem') = mem' /\ disk'[File("user")] \in Users \cup {Torn}
    BY <1>1, <1>2, Distinct DEF UserInv, load_user_from_dir, Users
  <2>2. SettledUser'
    <3>. SUFFICES ASSUME "user" \notin overlapped \cup torn' PROVE SettledUser'
      BY <1>2 DEF SettledUser
    <3>1. Private(disk[File("user")])
      BY <1>1, <1>2, <1>4 DEF UserInv, SettledUser
    <3>2. Private(disk[File("user")])' /\ Private(mem)'
      BY <1>2, <2>1, <3>1 DEF Private, Hidden
    <3>. QED BY <3>2 DEF SettledUser
  <2>. QED BY <1>3, <2>1, <2>2 DEF UserInv, Unconcerned
<1>. QED BY <1>3, <1>5, <1>6 DEF IInv, Unconcerned

LEMMA Starts ==
    ASSUME Init
    PROVE  IInv
<1>1. AllIdle
  BY DEF Init, AllIdle
<1>2. Unconcerned /\ NobodyBusy
  BY <1>1, Idles
<1>3. PICK look \in Looks : /\ mem = [share |-> TRUE, look |-> look]
                            /\ disk = [path \in Path |-> IF path = File("user") THEN mem ELSE Missing]
  BY DEF Init
<1>4. \A e \in EntryIds, n \in Names : disk[<<e, n>>] = Missing
  <2>1. \A e \in EntryIds, n \in Names : <<e, n>> \in Path /\ <<e, n>> # File("user")
    BY Distinct DEF Path, File
  <2>. QED BY <1>3, <2>1
<1>5. disk[File("user")] = mem /\ mem \in Users /\ DOMAIN disk = Path
  <2>1. File("user") \in Path
    BY DEF Path, File, Single
  <2>2. mem \in Users
    BY <1>3 DEF Users
  <2>. QED BY <1>3, <2>1, <2>2
<1>6. DOMAIN told = Said /\ \A e \in EntryIds : told[e] = Unborn
  <2>1. \A e \in EntryIds : e \in Said /\ e \notin {"inputs", "events", "keys", "reminders", "picture"}
    BY Distinct DEF Said
  <2>2. told = [x \in Said |-> CASE x \in {"inputs", "events"} -> <<>>
                                 [] x = "keys" -> [k \in Keys |-> None]
                                 [] x = "reminders" -> {}
                                 [] x = "picture" -> Missing
                                 [] OTHER -> Unborn]
    BY DEF Init
  <2>. QED BY <2>1, <2>2
<1>7. JournalInv
  <2>1. Standing
    BY <1>6 DEF Standing
  <2>2. Tree
    BY <1>4, <1>5, TheNames DEF Tree, TreeOf
  <2>3. Listing
    BY <1>4, TheNames DEF Listing, ListingOf
  <2>4. DeletedStaysDeleted
    BY <1>6 DEF DeletedStaysDeleted, Gone, Unborn
  <2>. QED BY <1>2, <2>1, <2>2, <2>3, <2>4 DEF JournalInv, Unconcerned
<1>8. UserInv
  <2>1. mem.share /\ load_user_from_dir(mem) = mem
    BY <1>3, <1>5, Distinct DEF load_user_from_dir
  <2>2. SettledUser
    BY <1>5, <2>1 DEF SettledUser, Private
  <2>. QED BY <1>2, <1>5, <2>2 DEF UserInv, Unconcerned
<1>. QED BY <1>2, <1>7, <1>8 DEF IInv, Unconcerned

----------------------------------------------------------------------------
\* A request comes in

\* The handler of a new request as BeginHandlers wants it.
LEMMA FreshHandler ==
    ASSUME NEW req, NEW thing \in Things, NEW todo, IsList(todo),
           thing \in EntryIds => req.op \in EntryOps /\ req.id = thing,
           thing \notin EntryIds => req.op \in PlainOps,
           thing = "user" <=> req.op = "user",
           AllProper(thing, req.op, todo)
    PROVE  IsHandler(Fresh(req, thing, todo))
<1>. DEFINE w == [req |-> req, thing |-> thing, todo |-> todo, alone |-> TRUE, begun |-> FALSE]
<1>1. /\ Form(w) /\ w.req = req /\ w.thing = thing /\ w.todo = todo /\ w.alone \in BOOLEAN /\ w.begun \in BOOLEAN
  BY DEF Form
<1>2. PlainOps \cap EntryOps = {} /\ thing # "none"
  BY NotThings DEF PlainOps, EntryOps
<1>. HIDE DEF w
<1>3. IsHandler(w)
  BY <1>1, <1>2 DEF IsHandler, AllProper
<1>. QED BY <1>3 DEF w, Fresh

\* A request that is not about an entry changes nothing of the journal.
LEMMA PlainJournal ==
    ASSUME IInv, NEW p \in Ports, NEW req, NEW thing \in Things \ EntryIds, NEW todo, Begin(p, req, thing, todo),
           IsHandler(Fresh(req, thing, todo))
    PROVE  Handlers' /\ Alone' /\ JournalInv'
<1>1. Handlers /\ Alone /\ JournalInv /\ thing # "none"
  BY NotThings DEF IInv
<1>2. UNCHANGED <<disk, told, torn>>
  BY DEF Begin
<1>0. Handlers' /\ Alone' /\ Joined(p, req, thing, todo)
  BY <1>1, BeginHandlers
<1>3. /\ overlapped \subseteq overlapped' /\ work[p].thing = "none" /\ work'[p].thing = thing
      /\ \A q \in Ports \ {p} : /\ work'[q].req = work[q].req /\ work'[q].thing = work[q].thing
                                /\ work'[q].todo = work[q].todo /\ work'[q].begun = work[q].begun
  BY <1>0 DEF Joined
<1>4. \A q \in Ports : work[q].thing \in EntryIds \/ work'[q].thing \in EntryIds =>
          /\ work'[q].req = work[q].req /\ work'[q].thing = work[q].thing
          /\ work'[q].todo = work[q].todo /\ work'[q].begun = work[q].begun
  BY <1>3, Distinct
<1>5. DOMAIN disk' = Path /\ DOMAIN told' = Said
  BY <1>1, <1>2 DEF JournalInv, Tree, Standing
<1>6. \A e \in EntryIds, n \in Names : disk'[<<e, n>>] = disk[<<e, n>>]
  BY <1>2
<1>7. \A e \in EntryIds : told'[e] = told[e] /\ (e \in overlapped => e \in overlapped') /\ (e \in torn => e \in torn')
  BY <1>2, <1>3
<1>. QED BY <1>0, <1>1, <1>3, <1>4, <1>5, <1>6, <1>7, JournalElsewhere

\* Nor does one that is about something else change anything of the user's record.
LEMMA ApartBegins ==
    ASSUME IInv, NEW p \in Ports, NEW req, NEW thing \in Things \ {"user"}, NEW todo, Begin(p, req, thing, todo),
           IsHandler(Fresh(req, thing, todo)),
           UNCHANGED mem
    PROVE  UserInv'
<1>1. Handlers /\ Alone /\ UserInv /\ thing # "none"
  BY NotThings DEF IInv
<1>2. UNCHANGED <<disk, torn>>
  BY DEF Begin
<1>0. Joined(p, req, thing, todo)
  BY <1>1, BeginHandlers
<1>3. /\ overlapped \subseteq overlapped' /\ work[p].thing = "none" /\ work'[p].thing = thing
      /\ \A q \in Ports \ {p} : /\ work'[q].thing = work[q].thing /\ work'[q].todo = work[q].todo
                                /\ work'[q].begun = work[q].begun /\ (work'[q].alone => work[q].alone)
  BY <1>0 DEF Joined
<1>4. \A q \in Ports : work[q].thing = "user" \/ work'[q].thing = "user" =>
          /\ work'[q].thing = work[q].thing /\ work'[q].todo = work[q].todo
          /\ work'[q].begun = work[q].begun /\ (work'[q].alone => work[q].alone)
  BY <1>3
<1>5. mem' \in Users
  BY <1>1 DEF UserInv
<1>. QED BY <1>1, <1>2, <1>3, <1>4, <1>5, UserElsewhere

LEMMA PlainBegins ==
    ASSUME IInv, NEW p \in Ports, NEW req, NEW thing \in Things \ (EntryIds \cup {"user"}), NEW todo,
           Begin(p, req, thing, todo), UNCHANGED mem, IsList(todo), req.op \in PlainOps \ {"user"},
           AllProper(thing, req.op, todo)
    PROVE  IInv'
<1>1. IsHandler(Fresh(req, thing, todo))
  BY FreshHandler
<1>2. Handlers' /\ Alone' /\ JournalInv' /\ UserInv'
  BY <1>1, PlainJournal, ApartBegins
<1>. QED BY <1>2 DEF IInv

LEMMA ProfileRequests ==
    ASSUME IInv, NEW p \in Ports, NEW req, req.op \in PlainOps \ {"user"}, UNCHANGED mem,
           NEW todo, Begin(p, req, "profile", todo),
           todo = <<Initialise>> \/ todo = <<Initialise, Modify(File("profile"))>>
    PROVE  IInv'
<1>1. "profile" \in Things \ (EntryIds \cup {"user"})
  BY Distinct DEF Things
<1>. DEFINE a == Initialise
            b == Modify(File("profile"))
<1>2. Proper("profile", req.op, a) /\ Proper("profile", req.op, b)
  BY <1>1 DEF Proper, Initialise, Modify, File, PathsOf
<1>. HIDE DEF a, b
<1>3. /\ AllProper("profile", req.op, <<a>>) /\ AllProper("profile", req.op, <<a, b>>)
      /\ IsList(<<a>>) /\ IsList(<<a, b>>)
  BY <1>2, ShortLists, ProperLists
<1>4. AllProper("profile", req.op, todo) /\ IsList(todo)
  BY <1>3 DEF a, b
<1>. QED BY <1>1, <1>4, PlainBegins

LEMMA RemindersAndPicture ==
    ASSUME IInv, NEW p \in Ports,
           \/ \E id, says : handle_post_reminders_save(p, id, says)
           \/ \E id : handle_post_reminders_delete(p, id)
           \/ \E type : handle_post_profile_avatar(p, type)
    PROVE  IInv'
<1>1. "reminders" \in Things \ (EntryIds \cup {"user"}) /\ "picture" \in Things \ (EntryIds \cup {"user"})
  BY Distinct DEF Things
<1>. DEFINE b == Modify(File("reminders"))
<1>2. ASSUME NEW op PROVE Proper("reminders", op, b)
  BY <1>1 DEF Proper, Modify, File, PathsOf
<1>. HIDE DEF b
<1>3. ASSUME NEW req, req.op \in {"remind", "forget"}, Begin(p, req, "reminders", <<b>>), UNCHANGED mem
      PROVE  IInv'
  <2>1. IsList(<<b>>) /\ AllProper("reminders", req.op, <<b>>)
    BY <1>2, ShortLists, ProperLists
  <2>2. req.op \in PlainOps \ {"user"}
    BY <1>3 DEF PlainOps
  <2>. QED BY <1>1, <1>3, <2>1, <2>2, PlainBegins
<1>4. CASE \E id, says : handle_post_reminders_save(p, id, says)
  <2>1. PICK id, says : Begin(p, [op |-> "remind", reminder |-> Reminder(id, says)], "reminders", <<b>>)
                        /\ UNCHANGED mem
    BY <1>4 DEF handle_post_reminders_save, b
  <2>2. PICK req : req = [op |-> "remind", reminder |-> Reminder(id, says)]
    OBVIOUS
  <2>3. req.op = "remind"
    BY <2>2
  <2>4. Begin(p, req, "reminders", <<b>>)
    BY <2>1, <2>2
  <2>. QED BY <1>3, <2>1, <2>3, <2>4
<1>5. CASE \E id : handle_post_reminders_delete(p, id)
  <2>1. PICK id : Begin(p, [op |-> "forget", id |-> id], "reminders", <<b>>) /\ UNCHANGED mem
    BY <1>5 DEF handle_post_reminders_delete, b
  <2>2. PICK req : req = [op |-> "forget", id |-> id]
    OBVIOUS
  <2>3. req.op = "forget"
    BY <2>2
  <2>4. Begin(p, req, "reminders", <<b>>)
    BY <2>1, <2>2
  <2>. QED BY <1>3, <2>1, <2>3, <2>4
<1>6. CASE \E type : handle_post_profile_avatar(p, type)
  <2>1. PICK type : /\ Begin(p, [op |-> "picture", type |-> type], "picture",
                             <<Write(File("picture"), type), Write(File("ext"), type)>>)
                    /\ UNCHANGED mem
    BY <1>6 DEF handle_post_profile_avatar
  <2>. DEFINE c == Write(File("picture"), type)
              d == Write(File("ext"), type)
              req == [op |-> "picture", type |-> type]
  <2>2. Proper("picture", "picture", c) /\ Proper("picture", "picture", d)
    BY <1>1 DEF Proper, Write, File, PathsOf
  <2>3. Begin(p, req, "picture", <<c, d>>)
    BY <2>1
  <2>4. req.op = "picture" /\ req.op \in PlainOps \ {"user"}
    BY DEF PlainOps
  <2>. HIDE DEF c, d, req
  <2>5. IsList(<<c, d>>) /\ AllProper("picture", req.op, <<c, d>>)
    BY <2>2, <2>4, ShortLists, ProperLists
  <2>. QED BY <1>1, <2>1, <2>3, <2>4, <2>5, PlainBegins
<1>. QED BY <1>4, <1>5, <1>6

\* The record is to be saved: nobody is alone with it then but the new handler.
LEMMA Saves ==
    ASSUME IInv, NEW p \in Ports, NEW new \in Users, Saving(p, [op |-> "user"], new)
    PROVE  IInv'
<1>. DEFINE a == Modify(File("user"))
            b == Snapshot
            req == [op |-> "user"]
<1>1. Begin(p, req, "user", <<a, b>>) /\ mem' = new
  BY DEF Saving, SaveUser
<1>2. /\ Handlers /\ Alone /\ UserInv /\ "user" \in Things \ EntryIds /\ "user" # "none"
      /\ UNCHANGED <<disk, torn>>
  BY <1>1, NotThings DEF IInv, Begin
<1>3. Proper("user", "user", a) /\ Proper("user", "user", b)
  BY <1>2 DEF Proper, Modify, Snapshot, File, PathsOf
<1>4. a.do = "modify" /\ a.path = File("user") /\ b.do = "snapshot"
  BY DEF Modify, Snapshot
<1>5. req.op = "user" /\ req.op \in PlainOps
  BY DEF PlainOps
<1>. HIDE DEF a, b, req
<1>6. /\ IsList(<<a, b>>) /\ AllProper("user", req.op, <<a, b>>)
      /\ Len(<<a, b>>) = 2 /\ <<a, b>> # <<>>
  BY <1>3, <1>5, ShortLists, ProperLists
<1>7. IsHandler(Fresh(req, "user", <<a, b>>))
  BY <1>2, <1>5, <1>6, FreshHandler
<1>8. Handlers' /\ Alone' /\ JournalInv'
  BY <1>1, <1>2, <1>7, PlainJournal
<1>0. Joined(p, req, "user", <<a, b>>)
  BY <1>1, <1>2, <1>7, BeginHandlers
<1>9. /\ overlapped \subseteq overlapped' /\ work[p].thing = "none"
      /\ work'[p].thing = "user" /\ work'[p].todo = <<a, b>>
      /\ \A q \in Ports \ {p} : /\ work'[q].thing = work[q].thing /\ work'[q].todo = work[q].todo
                                /\ work'[q].begun = work[q].begun
                                /\ work'[q].alone => work[q].alone /\ work[q].thing # "user"
  BY <1>0 DEF Joined
<1>10. Saver'
  <2>. SUFFICES ASSUME NEW q \in Ports, work'[q].thing = "user"
                PROVE  LET t == work'[q].todo
                       IN  /\ SaveList(t)
                           /\ work'[q].alone =>
                                 /\ Len(t) = 2 /\ t[1].do # "modify" => t[1].data = mem'
                                 /\ Len(t) # 2 => disk'[File("user")] = mem'
                                 /\ Len(t) = 1 /\ t[1].do # "snapshot" => mem'.share
                                 /\ t = <<>> => Private(mem)'
    BY DEF Saver
  <2>1. CASE q = p
    <3>1. SaveList(<<a, b>>)
      BY <1>4, <1>6 DEF SaveList
    <3>2. work'[q].todo = <<a, b>> /\ <<a, b>>[1] = a
      BY <1>9, <2>1
    <3>3. \A t : t = <<a, b>> => SaveList(t) /\ Len(t) = 2 /\ t # <<>> /\ t[1].do = "modify"
      BY <1>4, <1>6, <3>1, <3>2
    <3>. QED BY <3>2, <3>3
  <2>2. CASE q # p
    <3>1. ~work'[q].alone /\ work[q].thing = "user" /\ work'[q].todo = work[q].todo
      BY <1>9, <2>2
    <3>2. SaveList(work[q].todo)
      BY <1>2, <3>1 DEF UserInv, Saver
    <3>. QED BY <3>1, <3>2
  <2>. QED BY <2>1, <2>2
<1>11. SettledUser'
  <2>. SUFFICES ASSUME "user" \notin overlapped' \cup torn' PROVE Private(disk[File("user")])'
    BY <1>9 DEF SettledUser
  <2>1. \A q \in Ports \ {p} : work[q].thing # "user"
    <3>. SUFFICES ASSUME NEW q \in Ports \ {p}, work[q].thing = "user" PROVE FALSE
      OBVIOUS
    <3>1. work'[q].thing = "user" /\ ~work'[q].alone
      BY <1>9
    <3>. QED BY <1>8, <3>1 DEF Alone, IsBusy
  <2>2. Private(disk[File("user")])
    BY <1>2, <1>9, <2>1 DEF UserInv, SettledUser
  <2>. QED BY <1>2, <2>2 DEF Private, Hidden
<1>. QED BY <1>1, <1>2, <1>8, <1>10, <1>11 DEF IInv, UserInv

\* A request about an entry: it is created by one who is alone with it, and
\* the others know of it.
LEMMA EntryBegins ==
    ASSUME IInv, NEW p \in Ports, NEW e \in EntryIds, NEW req, NEW todo, Begin(p, req, e, todo), UNCHANGED mem,
           req.op \in EntryOps, req.id = e, IsList(todo), AllProper(e, req.op, todo),
           req.op = "create" => told[e] = Unborn /\ ~Busy(e) /\ CreateList(todo, e) /\ Len(todo) = 3,
           req.op # "create" => told[e] # Unborn,
           req.op = "delete" => Len(todo) = 1 /\ todo[1].do = "scan" /\ todo[1].path = <<e, "entry">>,
           req.op = "update" => /\ todo[1].do = "modify"
                                /\ \A k \in 2 .. Len(todo) : todo[k].path # <<e, "meta">>
    PROVE  IInv'
<1>1. Handlers /\ Alone /\ JournalInv /\ UserInv
  BY DEF IInv
<1>2. e \in Things \ {"user"} /\ e # "none" /\ req.op # "user"
  BY NotThings, Distinct DEF Things, EntryOps
<1>3. IsHandler(Fresh(req, e, todo))
  BY <1>2, FreshHandler
<1>4. Handlers' /\ Alone' /\ Joined(p, req, e, todo)
  BY <1>1, <1>2, <1>3, BeginHandlers
<1>5. UserInv'
  BY <1>2, <1>3, ApartBegins
<1>6. UNCHANGED <<disk, told, torn>>
  BY DEF Begin
<1>7. /\ work[p].thing = "none" /\ work'[p].req = req /\ work'[p].thing = e /\ work'[p].todo = todo
      /\ overlapped \subseteq overlapped'
  BY <1>4 DEF Joined
<1>8. \A q \in Ports \ {p} : /\ work'[q].req = work[q].req /\ work'[q].thing = work[q].thing
                             /\ work'[q].todo = work[q].todo /\ work'[q].begun = work[q].begun
  BY <1>4 DEF Joined
<1>9. Standing' /\ Tree' /\ DeletedStaysDeleted'
  BY <1>1, <1>6 DEF JournalInv, Standing, Tree, TreeOf, DeletedStaysDeleted
<1>10. Creating'
  <2>. SUFFICES ASSUME NEW q \in Ports, work'[q].req.op = "create" PROVE CreatingBy(q)'
    BY DEF Creating, CreatingBy
  <2>1. CASE q = p
    <3>1. req.op = "create"
      BY <1>7, <2>1
    <3>2. told'[e] = Unborn /\ CreateList(todo, e)
      BY <1>6, <3>1
    <3>3. \A r \in Ports \ {p} : work'[r].thing # e
      BY <1>2, <1>8, <3>1 DEF Busy, IsBusy
    <3>4. Len(todo) = 3 /\ Len(todo) # 2
      BY <3>1
    <3>. QED BY <1>7, <2>1, <3>2, <3>3, <3>4 DEF CreatingBy
  <2>2. CASE q # p
    <3>1. /\ work[q].req.op = "create" /\ work'[q].thing = work[q].thing /\ work'[q].todo = work[q].todo
          /\ work'[q].req.op = "create"
      BY <1>8, <2>2
    <3>2. CreatingBy(q)
      BY <1>1 DEF JournalInv, Creating
    <3>3. told[work[q].thing] = Unborn /\ \A r \in Ports \ {q} : work[r].thing # work[q].thing
      BY <3>1, <3>2 DEF CreatingBy
    <3>4. IsHandler(work[q])
      BY <1>1 DEF Handlers
    <3>5. work[q].thing \in Things \cup {"none"} /\ (work[q].thing \notin EntryIds => work[q].req.op \notin EntryOps)
      BY <3>4 DEF IsHandler
    <3>6. work[q].thing # "none"
      BY <3>1, <3>5, Distinct DEF EntryOps
    <3>7. work[q].thing # e
      <4>. SUFFICES ASSUME work[q].thing = e PROVE FALSE
        OBVIOUS
      <4>1. req.op = "create"
        BY <3>3
      <4>. QED BY <3>6, <4>1 DEF Busy, IsBusy
    <3>8. \A r \in Ports \ {q} : work'[r].thing # work[q].thing
      BY <1>7, <1>8, <3>3, <3>7
    <3>. QED BY <1>6, <3>1, <3>2, <3>8 DEF CreatingBy
  <2>. QED BY <2>1, <2>2
<1>11. KnownOnes'
  <2>. SUFFICES ASSUME NEW q \in Ports, work'[q].req.op \in EntryOps \ {"create"}
                PROVE  told'[work'[q].thing] # Unborn
    BY DEF KnownOnes
  <2>. QED BY <1>1, <1>6, <1>7, <1>8 DEF JournalInv, KnownOnes
<1>12. Deleting'
  <2>. SUFFICES ASSUME NEW q \in Ports, work'[q].req.op = "delete" PROVE DeletingBy(q)'
    BY DEF Deleting, DeletingBy
  <2>1. CASE q = p
    <3>1. Len(todo) = 1 /\ todo[1].do = "scan" /\ todo[1].path = <<e, "entry">>
      BY <1>7, <2>1
    <3>2. Clears(todo[1], e, "entry")
      BY <3>1 DEF Clears
    <3>3. DeleteList(todo, e)
      BY <3>1, <3>2 DEF DeleteList
    <3>4. \A k \in 1 .. Len(todo) : k = 1
      BY <3>1
    <3>5. todo # <<>>
      BY <3>1, NotEmpty
    <3>6. \A k \in 1 .. Len(todo) : todo[k].do # "unlink"
      BY <3>1, <3>4
    <3>. QED BY <1>7, <2>1, <3>3, <3>5, <3>6 DEF DeletingBy
  <2>2. CASE q # p
    <3>1. work[q].req.op = "delete" /\ work'[q].thing = work[q].thing /\ work'[q].todo = work[q].todo
      BY <1>8, <2>2
    <3>2. DeletingBy(q)
      BY <1>1 DEF JournalInv, Deleting
    <3>. QED BY <1>6, <1>7, <3>1, <3>2 DEF DeletingBy, AllMissing
  <2>. QED BY <2>1, <2>2
<1>13. Rewriting'
  <2>. SUFFICES ASSUME NEW q \in Ports, work'[q].req.op = "update" PROVE RewritingBy(q)'
    BY DEF Rewriting, RewritingBy
  <2>1. CASE q = p
    <3>1. todo[1].do = "modify" /\ \A k \in 2 .. Len(todo) : todo[k].path # <<e, "meta">>
      BY <1>7, <2>1
    <3>2. todo[1].do # "open"
      BY <3>1
    <3>. QED BY <1>7, <2>1, <3>1, <3>2 DEF RewritingBy
  <2>2. CASE q # p
    <3>1. work[q].req.op = "update" /\ work'[q].thing = work[q].thing /\ work'[q].todo = work[q].todo
      BY <1>8, <2>2
    <3>2. RewritingBy(q)
      BY <1>1 DEF JournalInv, Rewriting
    <3>. QED BY <1>6, <1>7, <3>1, <3>2 DEF RewritingBy
  <2>. QED BY <2>1, <2>2
<1>14. Listing'
  <2>. SUFFICES ASSUME NEW f \in EntryIds PROVE ListingOf(f)'
    BY DEF Listing
  <2>1. f # "none"
    BY Distinct
  <2>2. Intact(f)' => Intact(f)
    BY <1>7, <1>8, <2>1 DEF Intact
  <2>3. ListingOf(f)
    BY <1>1 DEF JournalInv, Listing
  <2>. QED BY <1>6, <1>7, <2>2, <2>3 DEF ListingOf
<1>. QED BY <1>4, <1>5, <1>9, <1>10, <1>11, <1>12, <1>13, <1>14 DEF IInv, JournalInv

LEMMA EntrySteps ==
    ASSUME NEW e \in EntryIds, NEW op
    PROVE  /\ op = "create" => Proper(e, op, Mkdir(<<e, "entry">>))
           /\ Proper(e, op, Mkdir(<<e, "files">>))
           /\ \A text \in Texts : Proper(e, op, Write(<<e, "text">>, text))
           /\ \A v : op = "create" => Proper(e, op, Write(<<e, "meta">>, v))
           /\ \A v : Proper(e, op, Write(<<e, "image">>, v)) /\ Proper(e, op, Write(<<e, "stamp">>, v))
           /\ op = "update" => Proper(e, op, Modify(<<e, "meta">>))
           /\ Proper(e, op, Modify(<<e, "embeds">>))
           /\ op = "delete" => Proper(e, op, Scan(e, "entry"))
<1>1. \A n \in Names : <<e, n>> \in PathsOf(e) /\ <<e, n>>[2] = n /\ <<e, n>> # File("user")
  BY Distinct DEF PathsOf, File
<1>2. {"entry", "files", "text", "meta", "image", "stamp", "embeds"} \subseteq Names
  BY DEF Names
<1>3. ASSUME NEW n \in {"text", "meta", "image", "stamp"}, NEW v, n = "text" => v \in Texts,
             n = "meta" => op = "create"
      PROVE  Proper(e, op, Write(<<e, n>>, v))
  BY <1>1, <1>2, <1>3 DEF Proper, Write
<1>4. ASSUME NEW n \in {"meta", "embeds"}, n = "meta" => op = "update"
      PROVE  Proper(e, op, Modify(<<e, n>>))
  BY <1>1, <1>2, <1>4 DEF Proper, Modify
<1>5. ASSUME NEW n \in {"entry", "files"}, n = "entry" => op = "create"
      PROVE  Proper(e, op, Mkdir(<<e, n>>))
  BY <1>1, <1>2, <1>5 DEF Proper, Mkdir
<1>6. op = "delete" => Proper(e, op, Scan(e, "entry"))
  BY <1>1, <1>2 DEF Proper, Scan
<1>. QED BY <1>3, <1>4, <1>5, <1>6

LEMMA Creates ==
    ASSUME IInv, NEW p \in Ports, NEW e \in EntryIds, NEW title, NEW text \in Texts,
           handle_post_journal_create(p, e, title, text)
    PROVE  IInv'
<1>. DEFINE req == [op |-> "create", id |-> e, title |-> title, text |-> text]
            a == Mkdir(<<e, "entry">>)
            b == Write(<<e, "text">>, text)
            c == Write(<<e, "meta">>, Meta(title))
<1>1. told[e] = Unborn /\ ~Busy(e) /\ Begin(p, req, e, <<a, b, c>>) /\ UNCHANGED mem
  BY DEF handle_post_journal_create, Entry, JournalCreate
<1>2. req.op = "create" /\ req.id = e /\ req.op \in EntryOps /\ req.op # "delete" /\ req.op # "update"
  BY DEF EntryOps
<1>3. Proper(e, req.op, a) /\ Proper(e, req.op, b) /\ Proper(e, req.op, c)
  BY <1>2, EntrySteps
<1>4. a.do = "mkdir" /\ a.path = <<e, "entry">> /\ Opens(b, <<e, "text">>) /\ Opens(c, <<e, "meta">>)
  BY DEF Mkdir, Write, Opens
<1>. HIDE DEF req, a, b, c
<1>5. IsList(<<a, b, c>>) /\ AllProper(e, req.op, <<a, b, c>>) /\ Len(<<a, b, c>>) = 3
  BY <1>3, ShortLists, ProperLists
<1>6. CreateList(<<a, b, c>>, e)
  BY <1>4 DEF CreateList
<1>. QED BY <1>1, <1>2, <1>5, <1>6, EntryBegins

LEMMA Updating ==
    ASSUME IInv, NEW p \in Ports, NEW e \in EntryIds, NEW req, req.op = "update", req.id = e,
           told[e] # Unborn, UNCHANGED mem, NEW a, a = Modify(<<e, "meta">>), NEW todo, Begin(p, req, e, todo),
           todo = <<a>> \/ \E b : todo = <<a, b>> /\ Proper(e, "update", b) /\ b.path # <<e, "meta">>
    PROVE  IInv'
<1>1. req.op \in EntryOps /\ req.op # "delete" /\ req.op # "create"
  BY DEF EntryOps
<1>2. Proper(e, req.op, a)
  BY EntrySteps
<1>3. a.do = "modify"
  BY DEF Modify
<1>4. /\ IsList(todo) /\ AllProper(e, req.op, todo) /\ todo[1].do = "modify"
      /\ \A k \in 2 .. Len(todo) : todo[k].path # <<e, "meta">>
  <2>1. CASE todo = <<a>>
    <3>1. IsList(<<a>>) /\ AllProper(e, req.op, <<a>>) /\ Len(<<a>>) = 1 /\ <<a>>[1] = a
      BY <1>2, ShortLists, ProperLists
    <3>2. \A k : k \notin 2 .. Len(<<a>>)
      BY <3>1
    <3>. QED BY <1>3, <2>1, <3>1, <3>2
  <2>2. CASE \E b : todo = <<a, b>> /\ Proper(e, "update", b) /\ b.path # <<e, "meta">>
    <3>1. PICK b : todo = <<a, b>> /\ Proper(e, req.op, b) /\ b.path # <<e, "meta">>
      BY <2>2
    <3>2. /\ IsList(<<a, b>>) /\ AllProper(e, req.op, <<a, b>>) /\ Len(<<a, b>>) = 2
          /\ <<a, b>>[1] = a /\ <<a, b>>[2] = b
      BY <1>2, <3>1, ShortLists, ProperLists
    <3>3. \A k \in 2 .. Len(<<a, b>>) : k = 2
      BY <3>2
    <3>. QED BY <1>3, <3>1, <3>2, <3>3
  <2>. QED BY <2>1, <2>2
<1>. QED BY <1>1, <1>4, EntryBegins

LEMMA Joins == ASSUME NEW a, NEW b PROVE <<a>> \o <<>> = <<a>> /\ <<a>> \o <<b>> = <<a, b>>
<1>1. <<>> \in Seq({a, b}) /\ <<a>> \in Seq({a, b}) /\ <<b>> \in Seq({a, b})
  OBVIOUS
<1>2. <<a>> \o <<>> = <<a>>
  BY <1>1
<1>3. <<a>> \o <<b>> = <<a, b>>
  <2>. DEFINE s == <<a>> \o <<b>>
              t == <<a, b>>
  <2>1. s \in Seq({a, b}) /\ Len(s) = 2 /\ s[1] = a /\ s[2] = b
    BY <1>1
  <2>2. t \in Seq({a, b}) /\ Len(t) = 2 /\ t[1] = a /\ t[2] = b
    OBVIOUS
  <2>. HIDE DEF s, t
  <2>3. s = [k \in 1 .. 2 |-> s[k]] /\ t = [k \in 1 .. 2 |-> t[k]]
    BY <2>1, <2>2
  <2>4. \A k \in 1 .. 2 : s[k] = t[k]
    BY <2>1, <2>2
  <2>5. s = t
    BY <2>3, <2>4
  <2>. QED BY <2>5 DEF s, t
<1>. QED BY <1>2, <1>3

LEMMA Updates ==
    ASSUME IInv, NEW p \in Ports, NEW e \in EntryIds, NEW title, NEW text \in Texts \cup {""},
           handle_post_journal_update(p, e, title, text)
    PROVE  IInv'
<1>. DEFINE req == [op |-> "update", id |-> e, title |-> title, text |-> text]
            a == Modify(<<e, "meta">>)
            b == Write(<<e, "text">>, text)
<1>1. told[e] # Unborn /\ UNCHANGED mem
  BY DEF handle_post_journal_update, Entry, Known
<1>2. req.op = "update" /\ req.id = e
  OBVIOUS
<1>3. PICK todo : /\ Begin(p, req, e, todo)
                  /\ todo = <<a>> \/ (text # "" /\ todo = <<a, b>>)
  BY Joins DEF handle_post_journal_update, Entry
<1>4. text # "" => Proper(e, "update", b)
  BY EntrySteps
<1>5. b.path # <<e, "meta">>
  BY DEF Write
<1>. HIDE DEF req, b
<1>6. todo = <<a>> \/ \E x : todo = <<a, x>> /\ Proper(e, "update", x) /\ x.path # <<e, "meta">>
  BY <1>3, <1>4, <1>5
<1>. QED BY <1>1, <1>2, <1>3, <1>6, Updating

LEMMA Deletes ==
    ASSUME IInv, NEW p \in Ports, NEW e \in EntryIds, handle_post_journal_delete(p, e)
    PROVE  IInv'
<1>. DEFINE req == [op |-> "delete", id |-> e]
            a == Scan(e, "entry")
<1>1. told[e] # Unborn /\ UNCHANGED mem /\ Begin(p, req, e, <<a>>)
  BY DEF handle_post_journal_delete, Entry, Known
<1>2. req.op = "delete" /\ req.id = e /\ req.op \in EntryOps /\ req.op # "update" /\ req.op # "create"
  BY DEF EntryOps
<1>3. Proper(e, req.op, a) /\ a.do = "scan" /\ a.path = <<e, "entry">>
  BY <1>2, EntrySteps DEF Scan
<1>. HIDE DEF req, a
<1>4. IsList(<<a>>) /\ AllProper(e, req.op, <<a>>) /\ Len(<<a>>) = 1 /\ <<a>>[1] = a
  BY <1>3, ShortLists, ProperLists
<1>. QED BY <1>1, <1>2, <1>3, <1>4, EntryBegins

LEMMA AttachesAndEmbeds ==
    ASSUME IInv, NEW p \in Ports, NEW e \in EntryIds,
           \/ handle_post_journal_attach(p, e)
           \/ \E embed : handle_post_journal_embed(p, e, embed)
           \/ \E index : handle_post_journal_embed_delete(p, e, index)
    PROVE  IInv'
<1>1. told[e] # Unborn /\ UNCHANGED mem
  BY DEF handle_post_journal_attach, handle_post_journal_embed, handle_post_journal_embed_delete, Entry, Known
<1>2. CASE handle_post_journal_attach(p, e)
  <2>. DEFINE req == [op |-> "attach", id |-> e]
              a == Mkdir(<<e, "files">>)
              b == Write(<<e, "image">>, "bytes")
              c == Write(<<e, "stamp">>, "time")
  <2>1. Begin(p, req, e, <<a, b, c>>)
    BY <1>2 DEF handle_post_journal_attach, Entry
  <2>2. req.op \in EntryOps \ {"create", "delete", "update"} /\ req.id = e
    BY DEF EntryOps
  <2>3. Proper(e, req.op, a) /\ Proper(e, req.op, b) /\ Proper(e, req.op, c)
    BY EntrySteps
  <2>. HIDE DEF req, a, b, c
  <2>4. IsList(<<a, b, c>>) /\ AllProper(e, req.op, <<a, b, c>>)
    BY <2>3, ShortLists, ProperLists
  <2>. QED BY <1>1, <2>1, <2>2, <2>4, EntryBegins
<1>3. ASSUME NEW req, req.op \in {"embed", "unembed"}, req.id = e,
             Begin(p, req, e, <<Modify(<<e, "embeds">>)>>)
      PROVE  IInv'
  <2>. DEFINE a == Modify(<<e, "embeds">>)
  <2>1. Proper(e, req.op, a)
    BY EntrySteps
  <2>2. req.op \in EntryOps \ {"create", "delete", "update"}
    BY <1>3 DEF EntryOps
  <2>. HIDE DEF a
  <2>3. IsList(<<a>>) /\ AllProper(e, req.op, <<a>>)
    BY <2>1, ShortLists, ProperLists
  <2>4. Begin(p, req, e, <<a>>)
    BY <1>3 DEF a
  <2>. QED BY <1>1, <1>3, <2>2, <2>3, <2>4, EntryBegins
<1>4. CASE \E embed : handle_post_journal_embed(p, e, embed)
  <2>1. PICK embed : Begin(p, [op |-> "embed", id |-> e, embed |-> embed], e, <<Modify(<<e, "embeds">>)>>)
    BY <1>4 DEF handle_post_journal_embed, Entry
  <2>2. PICK req : req = [op |-> "embed", id |-> e, embed |-> embed]
    OBVIOUS
  <2>3. req.op = "embed" /\ req.id = e
    BY <2>2
  <2>4. Begin(p, req, e, <<Modify(<<e, "embeds">>)>>)
    BY <2>1, <2>2
  <2>. QED BY <1>3, <2>3, <2>4
<1>5. CASE \E index : handle_post_journal_embed_delete(p, e, index)
  <2>1. PICK index : Begin(p, [op |-> "unembed", id |-> e, index |-> index], e, <<Modify(<<e, "embeds">>)>>)
    BY <1>5 DEF handle_post_journal_embed_delete, Entry
  <2>2. PICK req : req = [op |-> "unembed", id |-> e, index |-> index]
    OBVIOUS
  <2>3. req.op = "unembed" /\ req.id = e
    BY <2>2
  <2>4. Begin(p, req, e, <<Modify(<<e, "embeds">>)>>)
    BY <2>1, <2>2
  <2>. QED BY <1>3, <2>3, <2>4
<1>. QED BY <1>2, <1>4, <1>5

----------------------------------------------------------------------------
\* The theorems

LEMMA Requests ==
    ASSUME IInv, NEW p \in Ports, Request(p)
    PROVE  IInv'
<1>1. CASE \/ \E text \in Texts : RecordInput(p, text)
           \/ \E event \in GoalEvents, goal \in GoalIds : RecordGoalEvent(p, event, goal)
           \/ \E key \in Keys : \/ \E value \in Values : handle_post_profile_update(p, key, value)
                                \/ ClearDerivedField(p, key)
  <2>1. ASSUME NEW req, req.op \in {"input", "event", "set", "clear"}, Profiled(p, req) PROVE IInv'
    <3>1. req.op \in PlainOps \ {"user"}
      BY <2>1 DEF PlainOps
    <3>2. Begin(p, req, "profile", <<Initialise, Modify(File("profile"))>>) /\ UNCHANGED mem
      BY <2>1 DEF Profiled
    <3>. QED BY <3>1, <3>2, ProfileRequests
  <2>2. \A text : RecordInput(p, text) => IInv'
    BY <2>1 DEF RecordInput
  <2>3. \A event, goal : RecordGoalEvent(p, event, goal) => IInv'
    BY <2>1 DEF RecordGoalEvent
  <2>4. \A key, value : handle_post_profile_update(p, key, value) => IInv'
    BY <2>1 DEF handle_post_profile_update
  <2>5. \A key : ClearDerivedField(p, key) => IInv'
    BY <2>1 DEF ClearDerivedField
  <2>. QED BY <1>1, <2>2, <2>3, <2>4, <2>5
<1>2. CASE handle_get_profile(p)
  <2>1. PICK req : req = [op |-> "read"]
    OBVIOUS
  <2>2. Begin(p, req, "profile", <<Initialise>>) /\ UNCHANGED mem
    BY <1>2, <2>1 DEF handle_get_profile
  <2>3. req.op \in PlainOps \ {"user"}
    BY <2>1 DEF PlainOps
  <2>. QED BY <2>2, <2>3, ProfileRequests
<1>3. CASE \E id \in ReminderIds : \/ \E says \in Texts : handle_post_reminders_save(p, id, says)
                                   \/ handle_post_reminders_delete(p, id)
  BY <1>3, RemindersAndPicture
<1>4. ASSUME NEW e \in EntryIds,
             \/ \E title \in Texts, text \in Texts : handle_post_journal_create(p, e, title, text)
             \/ \E title \in Texts \cup {""}, text \in Texts \cup {""} :
                   handle_post_journal_update(p, e, title, text)
             \/ handle_post_journal_delete(p, e)
             \/ handle_post_journal_attach(p, e)
             \/ \E type \in {"goal", "image"}, text \in Texts :
                   handle_post_journal_embed(p, e, Embed(type, text))
             \/ \E index \in 0 .. MaxRequests[area] : handle_post_journal_embed_delete(p, e, index)
      PROVE  IInv'
  BY <1>4, Creates, Updates, Deletes, AttachesAndEmbeds
<1>5. mem.look \in Looks \cup {None} /\ mem.share \in BOOLEAN /\ mem = [share |-> mem.share, look |-> mem.look]
  BY DEF IInv, UserInv, Users
<1>6. CASE \E look \in Looks : UpdateLook(p, look)
  <2>1. PICK look \in Looks : Saving(p, [op |-> "user"], [mem EXCEPT !.look = look])
    BY <1>6 DEF UpdateLook
  <2>2. [mem EXCEPT !.look = look] = [share |-> mem.share, look |-> look]
    BY <1>5
  <2>3. [mem EXCEPT !.look = look] \in Users
    BY <1>5, <2>2 DEF Users
  <2>. QED BY <2>1, <2>3, Saves
<1>7. CASE \E share \in BOOLEAN : UpdateShareProfile(p, share)
  <2>1. PICK share \in BOOLEAN : Saving(p, [op |-> "user"], [mem EXCEPT !.share = share])
    BY <1>7 DEF UpdateShareProfile
  <2>2. [mem EXCEPT !.share = share] = [share |-> share, look |-> mem.look]
    BY <1>5
  <2>3. [mem EXCEPT !.share = share] \in Users
    BY <1>5, <2>2 DEF Users
  <2>. QED BY <2>1, <2>3, Saves
<1>8. CASE \E type \in Pictures : handle_post_profile_avatar(p, type)
  BY <1>8, RemindersAndPicture
<1>. QED BY <1>1, <1>2, <1>3, <1>4, <1>6, <1>7, <1>8 DEF Request

LEMMA Stutters ==
    ASSUME IInv, UNCHANGED vars
    PROVE  IInv'
<1>1. UNCHANGED <<disk, mem, work, told, overlapped, torn>>
  BY DEF vars
<1>2. Handlers' /\ Alone'
  BY <1>1 DEF IInv, Handlers, Alone, IsBusy
<1>3. Standing' /\ Tree' /\ KnownOnes' /\ DeletedStaysDeleted'
  BY <1>1 DEF IInv, JournalInv, Standing, Tree, TreeOf, KnownOnes, DeletedStaysDeleted
<1>4. Creating' /\ Deleting' /\ Rewriting'
  BY <1>1 DEF IInv, JournalInv, Creating, CreatingBy, Deleting, DeletingBy, AllMissing, Rewriting, RewritingBy
<1>5. Listing'
  BY <1>1 DEF IInv, JournalInv, Listing, ListingOf, Intact
<1>6. UserInv'
  BY <1>1 DEF IInv, UserInv, Saver, SettledUser, Private, Hidden
<1>. QED BY <1>2, <1>3, <1>4, <1>5, <1>6 DEF IInv, JournalInv

\* The invariant is inductive: it holds of the files the process starts with, and
\* no request, no step of a handler, no answer and no crash breaks it
\* (journal.c:231, :347, user-io.c:273).
THEOREM Inductive == Spec => []IInv
<1>1. Init => IInv
  BY Starts
<1>2. IInv /\ [Next]_vars => IInv'
  <2>. SUFFICES ASSUME IInv, [Next]_vars PROVE IInv'
    OBVIOUS
  <2>1. CASE Crash
    BY <2>1, Crashes
  <2>2. ASSUME NEW p \in Ports, Request(p) PROVE IInv'
    BY <2>2, Requests
  <2>3. ASSUME NEW p \in Ports, Step(p) PROVE IInv'
    <3>1. Moving(p) \/ Answer(p)
      BY <2>3 DEF Step, Moving
    <3>. QED BY <3>1, Steps, Answers
  <2>4. CASE UNCHANGED vars
    BY <2>4, Stutters
  <2>. QED BY <2>1, <2>2, <2>3, <2>4 DEF Next
<1>. QED BY <1>1, <1>2, PTL DEF Spec

LEMMA WholeEntries ==
    ASSUME IInv
    PROVE  EntriesWhole
<1>1. Handlers /\ Listing /\ DeletedStaysDeleted
  BY DEF IInv, JournalInv
<1>2. ASSUME NEW e \in EntryIds, Listed(FilesOf(e)), e \notin overlapped \cup torn,
             \A p \in Ports : IsBusy(p) /\ work[p].thing = e => work[p].req.op # "delete"
      PROVE  disk[<<e, "text">>] # Missing
  <2>1. disk[<<e, "entry">>] = Directory /\ disk[<<e, "meta">>] # Missing
    BY <1>2 DEF Listed, FilesOf, Names
  <2>2. e # "none"
    BY Distinct
  <2>3. Intact(e)
    BY <1>2, <2>2 DEF Intact, IsBusy
  <2>. QED BY <1>1, <1>2, <2>1, <2>3 DEF Listing, ListingOf
<1>. QED BY <1>1, <1>2 DEF EntriesWhole, ListedHasText

\* An entry that is on the list has its text, and an entry whose deletion was
\* answered OK leaves nothing and does not come back, with any number of handlers
\* at work on entries and the process ending at any step (journal.c:231, :347).
THEOREM EntriesStayWhole == Spec => []EntriesWhole
<1>1. IInv => EntriesWhole
  BY WholeEntries
<1>. QED BY <1>1, Inductive, PTL

LEMMA PrivateOnes ==
    ASSUME IInv
    PROVE  PrivateStaysPrivate
<1>. SUFFICES ASSUME Settled("user"), ~mem.share
              PROVE  handle_get_user_profile(disk[File("snapshot")]) = Missing
  BY DEF PrivateStaysPrivate
<1>1. SettledUser /\ mem \in Users
  BY DEF IInv, UserInv
<1>2. "user" \notin overlapped \cup torn /\ \A p \in Ports : work[p].thing # "user"
  BY DEF Settled, Busy, IsBusy
<1>3. Private(mem)
  BY <1>1, <1>2 DEF SettledUser
<1>4. load_user_from_dir(mem) = mem
  BY <1>1, Distinct DEF load_user_from_dir
<1>5. Hidden
  BY <1>3, <1>4 DEF Private
<1>. QED BY <1>5 DEF Hidden, handle_get_user_profile

\* Once the handler that was told so is done, others see nothing of a user who
\* does not share the profile, whatever requests and crashes there were; two that
\* saved at once and a crash between the record and the snapshot are left out
\* (user-io.c:273, user-management.c:174-215).
THEOREM PrivateStays == Spec => []PrivateStaysPrivate
<1>1. IInv => PrivateStaysPrivate
  BY PrivateOnes
<1>. QED BY <1>1, Inductive, PTL

----------------------------------------------------------------------------
\* Induction

\* Every set of naturals that is not empty has a least element.
LEMMA LeastNatural ==
    ASSUME NEW T \in SUBSET Nat, T # {}
    PROVE  \E n \in T : \A m \in T : n <= m
<1>1. PICK n \in T : \A m \in T : ~ <<m, n>> \in OpToRel(<, Nat)
  BY NatLessThanWellFounded, WFMin
<1>2. ASSUME NEW m \in T PROVE n <= m
  <2>1. n \in Nat /\ m \in Nat
    OBVIOUS
  <2>2. ~ (m < n)
    BY <1>1, <2>1 DEF OpToRel
  <2>. QED BY <2>1, <2>2
<1>. QED BY <1>2

\* A set that has everything all of whose lower elements it has, has all.
Hereditary(S, m, T) ==
    /\ m \in [S -> Nat] /\ T \in SUBSET S
    /\ \A h \in S : (\A k \in S : m[k] < m[h] => k \in T) => h \in T

LEMMA MeasureInduction == ASSUME NEW S, NEW m, NEW T, Hereditary(S, m, T) PROVE T = S
<1>. SUFFICES ASSUME T # S PROVE FALSE
  OBVIOUS
<1>. DEFINE M == {m[h] : h \in S \ T}
<1>0. /\ m \in [S -> Nat] /\ T \in SUBSET S
      /\ \A h \in S : (\A k \in S : m[k] < m[h] => k \in T) => h \in T
  BY DEF Hereditary
<1>1. M \in SUBSET Nat /\ M # {}
  BY <1>0
<1>2. PICK n \in M : \A k \in M : n <= k
  BY <1>1, LeastNatural
<1>3. PICK h \in S \ T : n = m[h]
  OBVIOUS
<1>4. ASSUME NEW k \in S, m[k] < m[h] PROVE k \in T
  <2>. SUFFICES ASSUME k \notin T PROVE FALSE
    OBVIOUS
  <2>1. m[k] \in M /\ m[k] \in Nat /\ m[h] \in Nat
    BY <1>0
  <2>2. n <= m[k]
    BY <1>2, <2>1
  <2>. QED BY <1>3, <1>4, <2>1, <2>2
<1>. QED BY <1>0, <1>3, <1>4

\* A rule that looks only at lower arguments has a solution.
Recursion(S, V, m, b, rule) ==
    /\ V # {} /\ m \in [S -> Nat] /\ b \in Nat /\ \A h \in S : m[h] < b
    /\ rule \in [S -> [[S -> V] -> V]]
    /\ \A h \in S : \A f, g \in [S -> V] :
           (\A k \in S : m[k] < m[h] => f[k] = g[k]) => rule[h][f] = rule[h][g]

LEMMA RecursionSolved ==
    ASSUME NEW S, NEW V, NEW m, NEW b, NEW rule, Recursion(S, V, m, b, rule)
    PROVE  \E f \in [S -> V] : \A h \in S : f[h] = rule[h][f]
<1>. DEFINE Upto(n) == \E f \in [S -> V] : \A h \in S : m[h] < n => f[h] = rule[h][f]
            T == {n \in Nat : Upto(n)}
            id == [n \in Nat |-> n]
<1>0. /\ m \in [S -> Nat] /\ b \in Nat /\ \A h \in S : m[h] < b
      /\ rule \in [S -> [[S -> V] -> V]]
      /\ \A h \in S : \A f, g \in [S -> V] :
             (\A k \in S : m[k] < m[h] => f[k] = g[k]) => rule[h][f] = rule[h][g]
  BY DEF Recursion
<1>1. Upto(0)
  <2>0. PICK v \in V : TRUE
    BY DEF Recursion
  <2>1. [h \in S |-> v] \in [S -> V]
    OBVIOUS
  <2>2. \A h \in S : ~ (m[h] < 0)
    BY <1>0
  <2>. QED BY <1>0, <2>1, <2>2
<1>2. ASSUME NEW n \in Nat, Upto(n) PROVE Upto(n + 1)
  <2>1. PICK f \in [S -> V] : \A h \in S : m[h] < n => f[h] = rule[h][f]
    BY <1>2
  <2>. DEFINE g == [h \in S |-> rule[h][f]]
  <2>2. g \in [S -> V]
    BY <1>0
  <2>3. \A h \in S : m[h] < n => g[h] = f[h]
    BY <2>1
  <2>4. ASSUME NEW h \in S, m[h] < n + 1 PROVE g[h] = rule[h][g]
    <3>1. m[h] \in Nat /\ n \in Nat
      BY <1>0
    <3>2. \A k \in S : m[k] < m[h] => f[k] = g[k]
      BY <1>0, <2>3, <2>4, <3>1
    <3>3. rule[h][f] = rule[h][g]
      BY <1>0, <2>2, <3>2
    <3>. QED BY <3>3
  <2>. HIDE DEF g
  <2>. QED BY <2>2, <2>4
<1>. HIDE DEF Upto
<1>3. \A n \in Nat : (\A k \in Nat : id[k] < id[n] => k \in T) => n \in T
  <2>. SUFFICES ASSUME NEW n \in Nat, \A k \in Nat : id[k] < id[n] => k \in T
                PROVE  Upto(n)
    OBVIOUS
  <2>1. CASE n = 0
    BY <1>1, <2>1
  <2>2. CASE n # 0
    <3>1. n - 1 \in Nat /\ n - 1 < n /\ (n - 1) + 1 = n
      BY <2>2
    <3>2. Upto(n - 1)
      BY <3>1
    <3>. QED BY <1>2, <3>1, <3>2
  <2>. QED BY <2>1, <2>2
<1>4. T = Nat
  <2>1. id \in [Nat -> Nat] /\ T \in SUBSET Nat
    OBVIOUS
  <2>. HIDE DEF T, id
  <2>2. Hereditary(Nat, id, T)
    BY <1>3, <2>1 DEF Hereditary
  <2>. QED BY <2>2, MeasureInduction
<1>5. Upto(b)
  BY <1>0, <1>4
<1>. QED BY <1>0, <1>5 DEF Upto

\* Induction over the turns of a loop.
Upwards(n, T) == 0 \in T /\ \A i \in 1 .. n : i - 1 \in T => i \in T

LEMMA LoopInduction ==
    ASSUME NEW n \in Nat, NEW T, Upwards(n, T) PROVE \A i \in 0 .. n : i \in T
<1>. DEFINE S == 0 .. n
            m == [i \in S |-> i]
            R == S \cap T
<1>1. ASSUME NEW i \in S, \A k \in S : m[k] < m[i] => k \in R PROVE i \in R
  <2>1. CASE i = 0
    BY <2>1 DEF Upwards
  <2>2. CASE i # 0
    <3>1. i \in 1 .. n /\ i - 1 \in S /\ i - 1 < i
      BY <2>2
    <3>2. m[i - 1] < m[i]
      BY <3>1
    <3>. QED BY <1>1, <3>1, <3>2 DEF Upwards
  <2>. QED BY <2>1, <2>2
<1>2. m \in [S -> Nat] /\ R \in SUBSET S
  OBVIOUS
<1>3. R = S
  <2>. HIDE DEF R, S, m
  <2>1. Hereditary(S, m, R)
    BY <1>1, <1>2 DEF Hereditary
  <2>. QED BY <2>1, MeasureInduction
<1>. QED BY <1>3

----------------------------------------------------------------------------
\* Folds

LEMMA GreatestOf ==
    ASSUME NEW n \in Nat, NEW s \in SUBSET (1 .. n), s # {}
    PROVE  Max(s) \in s /\ \A x \in s : x <= Max(s)
<1>. DEFINE T == {n - x : x \in s}
<1>0. \A x \in s : n - x \in Nat
  OBVIOUS
<1>1. T \in SUBSET Nat /\ T # {}
  BY <1>0
<1>2. PICK d \in T : \A e \in T : d <= e
  BY <1>1, LeastNatural
<1>3. PICK x \in s : d = n - x
  OBVIOUS
<1>4. \A y \in s : x >= y
  <2>. SUFFICES ASSUME NEW y \in s PROVE x >= y
    OBVIOUS
  <2>1. n - x <= n - y
    BY <1>2, <1>3
  <2>. QED BY <2>1
<1>5. \E z \in s : \A y \in s : z >= y
  BY <1>4
<1>6. Max(s) \in s /\ \A y \in s : Max(s) >= y
  BY <1>5 DEF Max
<1>. QED BY <1>6

LEMMA LastOf ==
    ASSUME NEW n \in Nat, NEW i \in 1 .. n
    PROVE  /\ 1 .. i \in SUBSET (1 .. n) /\ 1 .. i # {} /\ Max(1 .. i) = i
           /\ (1 .. i) \ {i} = 1 .. (i - 1)
<1>1. 1 .. i \in SUBSET (1 .. n) /\ 1 .. i # {} /\ i \in 1 .. i
  OBVIOUS
<1>2. Max(1 .. i) \in 1 .. i /\ i <= Max(1 .. i)
  BY <1>1, GreatestOf
<1>3. (1 .. i) \ {i} = 1 .. (i - 1)
  OBVIOUS
<1>. QED BY <1>1, <1>2, <1>3

\* The function FoldLeft is defined by: what has been made of the values of
\* every set of places, the greatest last.
Turning(n, V, base, step) == n \in Nat /\ base \in V /\ step \in [1 .. n -> [V -> V]]

Turned(n, V, base, step, f) ==
    /\ f \in [SUBSET (1 .. n) -> V]
    /\ \A s \in SUBSET (1 .. n) : f[s] = IF s = {} THEN base ELSE step[Max(s)][f[s \ {Max(s)}]]

LEMMA FoldSolved ==
    ASSUME NEW n, NEW V, NEW base, NEW step, Turning(n, V, base, step)
    PROVE  \E f : Turned(n, V, base, step, f)
<1>. DEFINE S == SUBSET (1 .. n)
            m == [s \in S |-> IF s = {} THEN 0 ELSE Max(s)]
            rule == [s \in S |-> [f \in [S -> V] |->
                        IF s = {} THEN base ELSE step[Max(s)][f[s \ {Max(s)}]]]]
<1>. n \in Nat /\ base \in V /\ step \in [1 .. n -> [V -> V]]
  BY DEF Turning
<1>0. \A s \in S : s # {} => Max(s) \in 1 .. n /\ s \ {Max(s)} \in S
  BY GreatestOf
<1>1. m \in [S -> Nat] /\ n + 1 \in Nat /\ \A s \in S : m[s] < n + 1
  BY <1>0
<1>2. rule \in [S -> [[S -> V] -> V]]
  BY <1>0
<1>3. ASSUME NEW s \in S, s # {} PROVE m[s \ {Max(s)}] < m[s]
  <2>. DEFINE r == s \ {Max(s)}
  <2>1. r \in S /\ Max(s) \in 1 .. n /\ \A x \in s : x <= Max(s)
    BY <1>0, <1>3, GreatestOf
  <2>2. CASE r = {}
    BY <1>3, <2>1, <2>2
  <2>3. CASE r # {}
    <3>1. Max(r) \in r
      BY <2>1, <2>3, GreatestOf
    <3>2. Max(r) \in s /\ Max(r) # Max(s)
      BY <3>1
    <3>3. Max(r) <= Max(s) /\ Max(r) \in Nat
      BY <2>1, <3>2
    <3>. QED BY <1>3, <2>1, <2>3, <3>2, <3>3
  <2>. QED BY <2>2, <2>3
<1>4. ASSUME NEW s \in S, NEW f \in [S -> V], NEW g \in [S -> V],
             \A k \in S : m[k] < m[s] => f[k] = g[k]
      PROVE  rule[s][f] = rule[s][g]
  <2>1. CASE s = {}
    BY <2>1
  <2>2. CASE s # {}
    <3>1. f[s \ {Max(s)}] = g[s \ {Max(s)}]
      BY <1>0, <1>3, <1>4, <2>2
    <3>. QED BY <2>2, <3>1
  <2>. QED BY <2>1, <2>2
<1>5. V # {}
  OBVIOUS
<1>6. Recursion(S, V, m, n + 1, rule)
  <2>. HIDE DEF rule, S, m
  <2>. QED BY <1>1, <1>2, <1>4, <1>5 DEF Recursion
<1>7. \E f \in [S -> V] : \A s \in S : f[s] = rule[s][f]
  <2>. HIDE DEF rule, S, m
  <2>. QED BY <1>6, RecursionSolved
<1>8. PICK f \in [S -> V] : \A s \in S : f[s] = rule[s][f]
  BY <1>7
<1>9. Turned(n, V, base, step, f)
  BY <1>8 DEF Turned
<1>. QED BY <1>9

\* What the turns of such a function lead to.
LEMMA FoldTurns ==
    ASSUME NEW n \in Nat, NEW it, NEW good, it[{}] \in good[0],
           \A i \in 1 .. n : it[1 .. (i - 1)] \in good[i - 1] => it[1 .. i] \in good[i]
    PROVE  it[1 .. n] \in good[n]
<1>. DEFINE T == {i \in 0 .. n : it[1 .. i] \in good[i]}
<1>1. 0 \in T
  <2>1. 1 .. 0 = {}
    OBVIOUS
  <2>. QED BY <2>1
<1>2. ASSUME NEW i \in 1 .. n, i - 1 \in T PROVE i \in T
  BY <1>2
<1>3. n \in 0 .. n
  OBVIOUS
<1>4. n \in T
  <2>. HIDE DEF T
  <2>1. Upwards(n, T)
    BY <1>1, <1>2 DEF Upwards
  <2>. QED BY <1>3, <2>1, LoopInduction
<1>. QED BY <1>4

\* A list without those with an id, as the loop that makes it builds it.
LEMMA WithoutFold ==
    ASSUME NEW id, NEW R, NEW list \in Seq(R),
           NEW good, <<>> \in good[0],
           \A i \in 1 .. Len(list) : \A v \in Seq(R) : v \in good[i - 1] => (IF list[i].id = id THEN v ELSE Append(v, list[i])) \in good[i]
    PROVE  Without(list, id) \in good[Len(list)] \cap Seq(R)
<1>. DEFINE n == Len(list)
            step == [i \in 1 .. n |-> [v \in Seq(R) |-> (IF list[i].id = id THEN v ELSE Append(v, list[i]))]]
            both == [i \in 0 .. n |-> good[i] \cap Seq(R)]
            Solves(f) == f = [s \in SUBSET DOMAIN list |->
                                 IF s = {} THEN <<>> ELSE (IF list[Max(s)].id = id THEN f[s \ {Max(s)}] ELSE Append(f[s \ {Max(s)}], list[Max(s)]))]
            it == CHOOSE f : Solves(f)
<1>1. n \in Nat /\ DOMAIN list = 1 .. n /\ \A i \in 1 .. n : list[i] \in R
  OBVIOUS
<1>2. Without(list, id) = it[1 .. n]
  BY <1>1 DEF Without, FoldLeft, MapThenFoldSet
<1>a. \A i \in 1 .. n : \A v \in Seq(R) : v \in good[i - 1] => (IF list[i].id = id THEN v ELSE Append(v, list[i])) \in good[i]
  OBVIOUS
<1>. HIDE DEF n
<1>3. \A v \in Seq(R), i \in 1 .. n : (IF list[i].id = id THEN v ELSE Append(v, list[i])) \in Seq(R)
  BY <1>1
<1>4. Solves(it)
  <2>1. step \in [1 .. n -> [Seq(R) -> Seq(R)]]
    BY <1>3
  <2>. HIDE DEF step, both, it
  <2>2. Turning(n, Seq(R), <<>>, step)
    BY <1>1, <2>1 DEF Turning
  <2>. PICK f : Turned(n, Seq(R), <<>>, step, f)
    BY <2>2, FoldSolved
  <2>3. ASSUME NEW s \in SUBSET (1 .. n), s # {}
        PROVE  f[s] = (IF list[Max(s)].id = id THEN f[s \ {Max(s)}] ELSE Append(f[s \ {Max(s)}], list[Max(s)]))
    <3>1. Max(s) \in 1 .. n /\ f[s \ {Max(s)}] \in Seq(R)
      BY <1>1, <2>3, GreatestOf DEF Turned
    <3>. QED BY <2>3, <3>1 DEF step, Turned
  <2>4. Solves(f)
    BY <1>1, <2>3 DEF Turned
  <2>. QED BY <2>4 DEF it
<1>. HIDE DEF it
<1>5. it[{}] = <<>>
  BY <1>1, <1>4
<1>6. ASSUME NEW i \in 1 .. n
      PROVE  it[1 .. i] = (IF list[i].id = id THEN it[1 .. (i - 1)] ELSE Append(it[1 .. (i - 1)], list[i]))
  <2>1. 1 .. i \in SUBSET (1 .. n) /\ 1 .. i # {} /\ Max(1 .. i) = i /\ (1 .. i) \ {i} = 1 .. (i - 1)
    BY <1>1, LastOf
  <2>. QED BY <1>1, <1>4, <2>1
<1>7. it[{}] \in both[0]
  BY <1>1, <1>5
<1>8. ASSUME NEW i \in 1 .. n, it[1 .. (i - 1)] \in both[i - 1] PROVE it[1 .. i] \in both[i]
  <2>1. i - 1 \in 0 .. n /\ i \in 0 .. n
    BY <1>1
  <2>2. PICK v \in Seq(R) : v = it[1 .. (i - 1)] /\ v \in good[i - 1]
    BY <1>8, <2>1
  <2>3. (IF list[i].id = id THEN v ELSE Append(v, list[i])) \in good[i] \cap Seq(R)
    BY <1>3, <1>a, <2>2
  <2>. QED BY <1>6, <2>1, <2>2, <2>3
<1>9. it[1 .. n] \in both[n]
  <2>. HIDE DEF both
  <2>. QED BY <1>1, <1>7, <1>8, FoldTurns
<1>. QED BY <1>1, <1>2, <1>9 DEF n

----------------------------------------------------------------------------
\* The profile and the reminders: one file each, which is read and written whole

LEMMA AppendSet ==
    ASSUME NEW R, NEW v \in Seq(R), NEW x \in R
    PROVE  /\ ToSet(Append(v, x)) = ToSet(v) \cup {x} /\ Append(v, x) \in Seq(R)
           /\ Len(Append(v, x)) = Len(v) + 1 /\ Append(v, x)[Len(v) + 1] = x
           /\ \A i \in 1 .. Len(v) : Append(v, x)[i] = v[i] /\ v[i] \in ToSet(v)
<1>1. /\ Append(v, x) \in Seq(R) /\ Len(Append(v, x)) = Len(v) + 1 /\ Len(v) \in Nat
      /\ Append(v, x)[Len(v) + 1] = x /\ \A i \in 1 .. Len(v) : Append(v, x)[i] = v[i]
      /\ DOMAIN v = 1 .. Len(v) /\ DOMAIN Append(v, x) = 1 .. (Len(v) + 1)
  OBVIOUS
<1>2. ToSet(v) = {v[i] : i \in 1 .. Len(v)} /\ ToSet(Append(v, x)) = {Append(v, x)[i] : i \in 1 .. (Len(v) + 1)}
  BY <1>1 DEF ToSet
<1>3. 1 .. (Len(v) + 1) = 1 .. Len(v) \cup {Len(v) + 1}
  BY <1>1
<1>. QED BY <1>1, <1>2, <1>3

\* The reminders that are left are those with other ids, each still once.
LEMMA WithoutGives ==
    ASSUME NEW id, NEW list \in Seq(Notes), DistinctIds(list)
    PROVE  LET v == Without(list, id)
           IN  /\ v \in Seq(Notes) /\ Len(v) <= Len(list) /\ DistinctIds(v)
               /\ ToSet(v) = {x \in ToSet(list) : x.id # id}
<1>. DEFINE n == Len(list)
            among(k) == {list[i] : i \in {j \in 1 .. k : list[j].id # id}}
            Good(k, v) == Len(v) <= k /\ DistinctIds(v) /\ ToSet(v) = among(k)
            good == [k \in 0 .. n |-> {v \in Seq(Notes) : Good(k, v)}]
<1>1. n \in Nat /\ DOMAIN list = 1 .. n /\ \A i \in 1 .. n : list[i] \in Notes
  OBVIOUS
<1>2. <<>> \in good[0]
  <2>1. ToSet(<<>>) = {} /\ among(0) = {} /\ <<>> \in Seq(Notes) /\ Len(<<>>) = 0
    BY DEF ToSet
  <2>2. DistinctIds(<<>>)
    BY DEF DistinctIds
  <2>. QED BY <1>1, <2>1, <2>2
<1>3. ASSUME NEW i \in 1 .. n, NEW v \in Seq(Notes), v \in good[i - 1]
      PROVE  (IF list[i].id = id THEN v ELSE Append(v, list[i])) \in good[i]
  <2>1. i - 1 \in 0 .. n /\ i \in 0 .. n /\ list[i] \in Notes
    BY <1>1
  <2>2. Good(i - 1, v)
    BY <1>3, <2>1
  <2>3. Len(v) \in Nat /\ 1 .. i = 1 .. (i - 1) \cup {i}
    BY <1>1
  <2>4. CASE list[i].id = id
    <3>1. among(i) = among(i - 1)
      BY <2>3, <2>4
    <3>2. Len(v) <= i
      BY <1>1, <2>2, <2>3
    <3>3. Good(i, v)
      BY <2>2, <3>1, <3>2
    <3>. HIDE DEF Good
    <3>. QED BY <2>1, <2>4, <3>3
  <2>5. CASE list[i].id # id
    <3>. DEFINE w == Append(v, list[i])
    <3>1. among(i) = among(i - 1) \cup {list[i]}
      BY <2>3, <2>5
    <3>2. /\ ToSet(w) = ToSet(v) \cup {list[i]} /\ w \in Seq(Notes) /\ Len(w) = Len(v) + 1
          /\ w[Len(v) + 1] = list[i] /\ \A k \in 1 .. Len(v) : w[k] = v[k] /\ v[k] \in ToSet(v)
      BY <2>1, AppendSet
    <3>. HIDE DEF w
    <3>3. \A k \in 1 .. Len(v) : v[k].id # list[i].id
      <4>1. ASSUME NEW k \in 1 .. Len(v) PROVE v[k].id # list[i].id
        <5>1. v[k] \in among(i - 1)
          BY <2>2, <3>2
        <5>2. PICK j \in 1 .. (i - 1) : v[k] = list[j]
          BY <5>1
        <5>3. j \in 1 .. n /\ j # i
          BY <1>1, <5>2
        <5>. QED BY <1>1, <5>2, <5>3 DEF DistinctIds
      <4>. QED BY <4>1
    <3>4. DistinctIds(w)
      <4>. SUFFICES ASSUME NEW a \in 1 .. Len(w), NEW b \in 1 .. Len(w), w[a].id = w[b].id
                    PROVE  a = b
        BY DEF DistinctIds
      <4>1. a \in 1 .. Len(v) \/ a = Len(v) + 1
        BY <2>3, <3>2
      <4>2. b \in 1 .. Len(v) \/ b = Len(v) + 1
        BY <2>3, <3>2
      <4>3. \A x, y \in 1 .. Len(v) : v[x].id = v[y].id => x = y
        BY <2>2 DEF DistinctIds
      <4>. QED BY <3>2, <3>3, <4>1, <4>2, <4>3
    <3>5. Len(w) <= i
      BY <1>1, <2>2, <2>3, <3>2
    <3>6. Good(i, w)
      BY <2>2, <3>1, <3>2, <3>4, <3>5
    <3>. HIDE DEF Good
    <3>7. w \in good[i]
      BY <2>1, <3>2, <3>6
    <3>. QED BY <2>5, <3>7 DEF w
  <2>. QED BY <2>4, <2>5
<1>4. Without(list, id) \in good[n] \cap Seq(Notes)
  <2>. HIDE DEF good
  <2>1. \A i \in 1 .. n : \A v \in Seq(Notes) : v \in good[i - 1] =>
            (IF list[i].id = id THEN v ELSE Append(v, list[i])) \in good[i]
    BY <1>3
  <2>. QED BY <1>2, <2>1, WithoutFold
<1>5. n \in 0 .. n
  BY <1>1
<1>6. Good(n, Without(list, id))
  BY <1>4, <1>5
<1>7. among(n) = {x \in ToSet(list) : x.id # id}
  BY <1>1 DEF ToSet
<1>. QED BY <1>4, <1>6, <1>7

\* The list with a reminder in the place of the one with its id, or at the end.
LEMMA SavedGives ==
    ASSUME NEW list \in Seq(Notes), DistinctIds(list), Len(list) <= REMINDERS_MAX, NEW r \in Notes,
           NEW v, v = RemindersSave(list, r), v # NotSaved
    PROVE  /\ v \in Seq(Notes) /\ Len(v) <= REMINDERS_MAX /\ DistinctIds(v)
           /\ ToSet(v) = {x \in ToSet(list) : x.id # r.id} \cup {r}
<1>. DEFINE n == Len(list)
            places == Places(list, r.id)
<1>1. n \in Nat /\ DOMAIN list = 1 .. n /\ (\A i \in 1 .. n : list[i] \in Notes) /\ REMINDERS_MAX \in Nat
  BY UserFilesAssumption
<1>2. places = {i \in 1 .. n : list[i].id = r.id}
  BY <1>1 DEF Places
<1>a. ToSet(list) = {list[i] : i \in 1 .. n}
  BY <1>1 DEF ToSet
<1>3. CASE places # {}
  <2>1. PICK i \in 1 .. n : list[i].id = r.id
    BY <1>2, <1>3
  <2>2. places = {i}
    BY <1>2, <2>1 DEF DistinctIds
  <2>3. Min(places) = i
    <3>1. i \in {i} /\ \A j \in {i} : i <= j
      BY <1>1
    <3>2. Min({i}) \in {i}
      BY <3>1 DEF Min
    <3>. QED BY <2>2, <3>2
  <2>4. v = [list EXCEPT ![i] = r]
    BY <1>3, <2>3 DEF RemindersSave
  <2>5. /\ v \in Seq(Notes) /\ Len(v) = n /\ v[i] = r /\ DOMAIN v = 1 .. n
        /\ \A j \in 1 .. n : j # i => v[j] = list[j]
    BY <1>1, <2>4
  <2>6. \A j \in 1 .. n : v[j].id = list[j].id
    BY <2>1, <2>5
  <2>7. DistinctIds(v)
    BY <2>5, <2>6 DEF DistinctIds
  <2>8. ToSet(v) = {v[j] : j \in 1 .. n}
    BY <2>5 DEF ToSet
  <2>9. \A j \in 1 .. n : j # i => list[j].id # r.id
    BY <2>1 DEF DistinctIds
  <2>10. ASSUME NEW x PROVE x \in ToSet(v) <=> (x \in ToSet(list) /\ x.id # r.id) \/ x = r
    <3>1. ASSUME x \in ToSet(v) PROVE (x \in ToSet(list) /\ x.id # r.id) \/ x = r
      BY <1>a, <2>5, <2>8, <2>9, <3>1
    <3>2. ASSUME x \in ToSet(list), x.id # r.id PROVE x \in ToSet(v)
      BY <1>a, <2>1, <2>5, <2>8, <3>2
    <3>3. r \in ToSet(v)
      BY <2>5, <2>8
    <3>. QED BY <3>1, <3>2, <3>3
  <2>11. ToSet(v) = {x \in ToSet(list) : x.id # r.id} \cup {r}
    BY <2>10
  <2>. QED BY <2>5, <2>7, <2>11
<1>4. CASE places = {}
  <2>1. v = Append(list, r) /\ ~ (n >= REMINDERS_MAX)
    BY <1>4 DEF RemindersSave
  <2>2. \A j \in 1 .. n : list[j].id # r.id
    BY <1>2, <1>4
  <2>3. /\ ToSet(v) = ToSet(list) \cup {r} /\ v \in Seq(Notes) /\ Len(v) = n + 1
        /\ v[n + 1] = r /\ \A k \in 1 .. n : v[k] = list[k]
    BY <2>1, AppendSet
  <2>4. Len(v) <= REMINDERS_MAX
    BY <1>1, <2>1, <2>3
  <2>5. DistinctIds(v)
    <3>. SUFFICES ASSUME NEW a \in 1 .. Len(v), NEW b \in 1 .. Len(v), v[a].id = v[b].id
                  PROVE  a = b
      BY DEF DistinctIds
    <3>1. a \in 1 .. n \/ a = n + 1
      BY <1>1, <2>3
    <3>2. b \in 1 .. n \/ b = n + 1
      BY <1>1, <2>3
    <3>3. \A x, y \in 1 .. n : list[x].id = list[y].id => x = y
      BY DEF DistinctIds
    <3>. QED BY <2>2, <2>3, <3>1, <3>2, <3>3
  <2>6. \A x \in ToSet(list) : x.id # r.id
    BY <1>a, <2>2
  <2>7. ToSet(v) = {x \in ToSet(list) : x.id # r.id} \cup {r}
    BY <2>3, <2>6
  <2>. QED BY <2>3, <2>4, <2>5, <2>7
<1>. QED BY <1>3, <1>4

----------------------------------------------------------------------------
\* What the operations make of a profile

Inputs == Seq(Texts)
Events == Seq(GoalEvents \X GoalIds)
Anything == Texts \cup GoalEvents \cup GoalIds \cup Values \cup {None}
Lines == UNION {[lines -> Anything] : lines \in SUBSET (SystemKeys \cup Keys)}

States == [SystemKeys -> Anything]

LEMMA ProfileIs == Profiles = [inputs : Inputs, goals : Events, derived : Lines]
  BY DEF Profiles, ProfilesOf, Lines, Anything, Events, Inputs

LEMMA LinesAre ==
    ASSUME NEW d \in Lines
    PROVE  d = [k \in DOMAIN d |-> d[k]] /\ DOMAIN d \subseteq SystemKeys \cup Keys /\ \A k \in DOMAIN d : d[k] \in Anything
<1>1. PICK lines \in SUBSET (SystemKeys \cup Keys) : d \in [lines -> Anything]
  BY DEF Lines
<1>. QED BY <1>1

LEMMA LinesMade ==
    ASSUME NEW lines \in SUBSET (SystemKeys \cup Keys), NEW d, d \in [lines -> Anything]
    PROVE  d \in Lines
  BY DEF Lines

LEMMA ProfileMade ==
    ASSUME NEW i \in Inputs, NEW g \in Events, NEW d \in Lines, NEW new, new = Profile(i, g, d)
    PROVE  new \in Profiles /\ new.inputs = i /\ new.goals = g /\ new.derived = d
<1>1. new = [inputs |-> i, goals |-> g, derived |-> d]
  BY DEF Profile
<1>2. [inputs |-> i, goals |-> g, derived |-> d] \in [inputs : Inputs, goals : Events, derived : Lines]
  OBVIOUS
<1>. QED BY <1>1, <1>2, ProfileIs

LEMMA ProfileFields ==
    ASSUME NEW f \in Profiles
    PROVE  /\ f.inputs \in Inputs /\ f.goals \in Events /\ f.derived \in Lines
           /\ f = [inputs |-> f.inputs, goals |-> f.goals, derived |-> f.derived]
<1>1. f \in [inputs : Inputs, goals : Events, derived : Lines]
  BY ProfileIs
<1>. QED BY <1>1

LEMMA NewOne ==
    /\ NewProfile \in Profiles /\ NewProfile.inputs = <<>> /\ NewProfile.goals = <<>>
    /\ \A k : Lookup(NewProfile, k) = None
<1>1. <<>> \in Inputs /\ <<>> \in Events
  BY DEF Events, Inputs
<1>2. DOMAIN << >> = {}
  OBVIOUS
<1>3. << >> \in [{} -> Anything]
  OBVIOUS
<1>4. << >> \in Lines
  BY <1>3, LinesMade
<1>5. NewProfile = Profile(<<>>, <<>>, << >>)
  BY DEF NewProfile
<1>a. PICK none : none = <<>>
  OBVIOUS
<1>6. NewProfile \in Profiles /\ NewProfile.inputs = none /\ NewProfile.goals = none /\ NewProfile.derived = none
  BY <1>1, <1>4, <1>5, <1>a, ProfileMade
<1>7. \A k : Lookup(NewProfile, k) = None
  BY <1>2, <1>6, <1>a DEF Lookup, UserProfileGetDerivedField
<1>. QED BY <1>6, <1>7, <1>a

\* Profiles and lists of reminders are not files that are missing or empty.
LEMMA NotEmptyOnes ==
    /\ \A f \in Profiles : ~Empty(f)
    /\ \A v \in Seq(Notes) : ~Empty(v)
<1>1. Profiles \subseteq Contents /\ Seq(Notes) \subseteq Contents
  BY DEF Contents, Notes
<1>. QED BY <1>1, DistinctAssumption DEF Empty

LEMMA KeysApart ==
    /\ \A k \in Keys : k \notin SystemKeys
    /\ {"latest_input", "last_goal_event", "last_goal_id", "current_focus_goal_id"} = SystemKeys
    /\ "onboarded" \in Keys
  BY UserFilesAssumption DEF SystemKeys

\* What is looked up when the system's keys have been written.
LEMMA SystemWritten ==
    ASSUME NEW f \in Profiles, NEW state \in States, NEW i \in Inputs,
           NEW g \in Events, NEW new, new = Profile(i, g, write_derived_state(f.derived, state))
    PROVE  /\ new \in Profiles /\ new.inputs = i /\ new.goals = g
           /\ \A k \in Keys : Lookup(new, k) = Lookup(f, k)
           /\ \A k \in SystemKeys : Lookup(new, k) = state[k]
<1>. DEFINE d == write_derived_state(f.derived, state)
<1>1. f.derived \in Lines
  BY ProfileFields
<1>2. DOMAIN f.derived \subseteq SystemKeys \cup Keys /\ \A k \in DOMAIN f.derived : f.derived[k] \in Anything
  BY <1>1, LinesAre
<1>3. d = [k \in DOMAIN f.derived \cup SystemKeys |-> IF k \in SystemKeys THEN state[k] ELSE f.derived[k]]
  BY DEF write_derived_state
<1>4. d \in [DOMAIN f.derived \cup SystemKeys -> Anything]
  BY <1>2, <1>3 DEF States
<1>5. DOMAIN f.derived \cup SystemKeys \in SUBSET (SystemKeys \cup Keys)
  BY <1>2
<1>6. d \in Lines
  BY <1>4, <1>5, LinesMade
<1>7. new \in Profiles /\ new.inputs = i /\ new.goals = g /\ new.derived = d
  BY <1>6, ProfileMade
<1>8. ASSUME NEW k \in Keys PROVE Lookup(new, k) = Lookup(f, k)
  <2>1. k \notin SystemKeys
    BY KeysApart
  <2>. QED BY <1>3, <1>7, <2>1 DEF Lookup, UserProfileGetDerivedField
<1>9. ASSUME NEW k \in SystemKeys PROVE Lookup(new, k) = state[k]
  BY <1>3, <1>7 DEF Lookup, UserProfileGetDerivedField
<1>. QED BY <1>7, <1>8, <1>9

LEMMA StateRead ==
    ASSUME NEW f \in Profiles
    PROVE  /\ parse_derived_state(f.derived) \in [SystemKeys -> Anything]
           /\ \A k \in SystemKeys : parse_derived_state(f.derived)[k] = Lookup(f, k)
<1>1. f.derived \in Lines
  BY ProfileFields
<1>2. \A k \in DOMAIN f.derived : f.derived[k] \in Anything
  BY <1>1, LinesAre
<1>3. None \in Anything
  BY DEF Anything
<1>. QED BY <1>2, <1>3 DEF parse_derived_state, Lookup, UserProfileGetDerivedField

\* An input is the latest, and the focus stays.
LEMMA InputMade ==
    ASSUME NEW f \in Profiles, NEW text \in Texts, NEW new, new = UserProfileRecordInput(f, text)
    PROVE  /\ new \in Profiles /\ new.inputs = Append(f.inputs, text) /\ new.goals = f.goals
           /\ \A k \in Keys : Lookup(new, k) = Lookup(f, k)
           /\ Lookup(new, "current_focus_goal_id") = Lookup(f, "current_focus_goal_id")
           /\ Lookup(new, "latest_input") = text
<1>1. f.inputs \in Inputs /\ f.goals \in Events
  BY ProfileFields
<1>2. Append(f.inputs, text) \in Inputs
  BY <1>1 DEF Inputs
<1>3. PICK old : old = parse_derived_state(f.derived)
  OBVIOUS
<1>4. old \in [SystemKeys -> Anything] /\ \A k \in SystemKeys : old[k] = Lookup(f, k)
  BY <1>3, StateRead
<1>5. PICK state : state = [old EXCEPT !["latest_input"] = text]
  OBVIOUS
<1>6. text \in Anything
  BY DEF Anything
<1>7. /\ state \in [SystemKeys -> Anything] /\ state["latest_input"] = text
      /\ state["current_focus_goal_id"] = old["current_focus_goal_id"]
  BY <1>4, <1>5, <1>6, KeysApart
<1>8. new = Profile(Append(f.inputs, text), f.goals, write_derived_state(f.derived, state))
  BY <1>3, <1>5 DEF UserProfileRecordInput, append_input_record
<1>e. state \in States
  BY <1>7 DEF States
<1>d. PICK inputs : inputs = Append(f.inputs, text)
  OBVIOUS
<1>f. new = Profile(inputs, f.goals, write_derived_state(f.derived, state)) /\ inputs \in Inputs
  BY <1>2, <1>8, <1>d
<1>9. /\ new \in Profiles /\ new.inputs = inputs /\ new.goals = f.goals
      /\ \A k \in Keys : Lookup(new, k) = Lookup(f, k)
      /\ \A k \in SystemKeys : Lookup(new, k) = state[k]
  BY <1>1, <1>e, <1>f, SystemWritten
<1>. QED BY <1>4, <1>7, <1>9, <1>d, KeysApart

LEMMA GoalMade ==
    ASSUME NEW f \in Profiles, NEW event \in GoalEvents, NEW goal \in GoalIds,
           NEW new, new = UserProfileRecordGoalEvent(f, event, goal)
    PROVE  /\ new \in Profiles /\ new.inputs = f.inputs /\ new.goals = Append(f.goals, <<event, goal>>)
           /\ \A k \in Keys : Lookup(new, k) = Lookup(f, k)
           /\ Lookup(new, "current_focus_goal_id") = Focus(Lookup(f, "current_focus_goal_id"), event, goal)
           /\ Lookup(new, "latest_input") = Lookup(f, "latest_input")
<1>1. f.inputs \in Inputs /\ f.goals \in Events
  BY ProfileFields
<1>2. Append(f.goals, <<event, goal>>) \in Events
  BY <1>1 DEF Events
<1>3. PICK old : old = parse_derived_state(f.derived)
  OBVIOUS
<1>4. old \in [SystemKeys -> Anything] /\ \A k \in SystemKeys : old[k] = Lookup(f, k)
  BY <1>3, StateRead
<1>a. PICK focus : focus = Focus(old["current_focus_goal_id"], event, goal)
  OBVIOUS
<1>5. PICK state : state = [old EXCEPT !["last_goal_event"] = event, !["last_goal_id"] = goal,
                                       !["current_focus_goal_id"] = focus]
  OBVIOUS
<1>6. goal \in Anything /\ event \in Anything /\ None \in Anything /\ old["current_focus_goal_id"] \in Anything
  BY <1>4, KeysApart DEF Anything
<1>b. focus \in Anything
  BY <1>a, <1>6 DEF Focus
<1>7. /\ state \in [SystemKeys -> Anything] /\ state["latest_input"] = old["latest_input"]
      /\ state["current_focus_goal_id"] = focus
  BY <1>4, <1>5, <1>6, <1>b, KeysApart
<1>c. state = [old EXCEPT !["last_goal_event"] = event, !["last_goal_id"] = goal,
                          !["current_focus_goal_id"] = Focus(@, event, goal)]
  BY <1>4, <1>5, <1>a, KeysApart
<1>8. new = Profile(f.inputs, Append(f.goals, <<event, goal>>), write_derived_state(f.derived, state))
  BY <1>3, <1>c DEF UserProfileRecordGoalEvent, append_goal_record
<1>e. state \in States
  BY <1>7 DEF States
<1>d. PICK goals : goals = Append(f.goals, <<event, goal>>)
  OBVIOUS
<1>f. new = Profile(f.inputs, goals, write_derived_state(f.derived, state)) /\ goals \in Events
  BY <1>2, <1>8, <1>d
<1>9. /\ new \in Profiles /\ new.inputs = f.inputs /\ new.goals = goals
      /\ \A k \in Keys : Lookup(new, k) = Lookup(f, k)
      /\ \A k \in SystemKeys : Lookup(new, k) = state[k]
  BY <1>1, <1>e, <1>f, SystemWritten
<1>10. focus = Focus(Lookup(f, "current_focus_goal_id"), event, goal)
  BY <1>4, <1>a, KeysApart
<1>. QED BY <1>4, <1>7, <1>9, <1>10, <1>d, KeysApart

\* One key is set, or cleared: the others are as they were.
LEMMA KeyMade ==
    ASSUME NEW f \in Profiles, NEW key \in Keys, NEW value \in Values \cup {None}, NEW new,
           \/ new = UserProfileSetDerivedField(f, key, value)
           \/ new = UserProfileClearDerivedField(f, key) /\ value = None
    PROVE  /\ new \in Profiles /\ new.inputs = f.inputs /\ new.goals = f.goals
           /\ Lookup(new, key) = value
           /\ \A k : k # key => Lookup(new, k) = Lookup(f, k)
<1>1. /\ f.inputs \in Inputs /\ f.goals \in Events /\ f.derived \in Lines
      /\ f = [inputs |-> f.inputs, goals |-> f.goals, derived |-> f.derived]
  BY ProfileFields
<1>2. DOMAIN f.derived \subseteq SystemKeys \cup Keys /\ \A k \in DOMAIN f.derived : f.derived[k] \in Anything
  BY <1>1, LinesAre
<1>3. CASE new = UserProfileSetDerivedField(f, key, value)
  <2>1. PICK d : d = Set(f.derived, key, value)
    OBVIOUS
  <2>2. d = [x \in DOMAIN f.derived \cup {key} |-> IF x = key THEN value ELSE f.derived[x]]
    BY <2>1 DEF Set
  <2>3. value \in Anything
    BY DEF Anything
  <2>4. d \in [DOMAIN f.derived \cup {key} -> Anything]
    BY <1>2, <2>2, <2>3
  <2>5. DOMAIN f.derived \cup {key} \in SUBSET (SystemKeys \cup Keys)
    BY <1>2
  <2>6. d \in Lines
    BY <2>4, <2>5, LinesMade
  <2>7. new = [inputs |-> f.inputs, goals |-> f.goals, derived |-> d]
    BY <1>1, <1>3, <2>1 DEF UserProfileSetDerivedField
  <2>8. new = Profile(f.inputs, f.goals, d)
    BY <2>7 DEF Profile
  <2>9. new \in Profiles /\ new.inputs = f.inputs /\ new.goals = f.goals /\ new.derived = d
    BY <1>1, <2>6, <2>8, ProfileMade
  <2>. QED BY <2>2, <2>9 DEF Lookup, UserProfileGetDerivedField
<1>4. CASE new = UserProfileClearDerivedField(f, key) /\ value = None
  <2>1. PICK d : d = Drop(f.derived, {key})
    OBVIOUS
  <2>2. d = [x \in DOMAIN f.derived \ {key} |-> f.derived[x]]
    BY <2>1 DEF Drop, Restrict
  <2>4. d \in [DOMAIN f.derived \ {key} -> Anything]
    BY <1>2, <2>2
  <2>5. DOMAIN f.derived \ {key} \in SUBSET (SystemKeys \cup Keys)
    BY <1>2
  <2>6. d \in Lines
    BY <2>4, <2>5, LinesMade
  <2>7. new = [inputs |-> f.inputs, goals |-> f.goals, derived |-> d]
    BY <1>1, <1>4, <2>1 DEF UserProfileClearDerivedField
  <2>8. new = Profile(f.inputs, f.goals, d)
    BY <2>7 DEF Profile
  <2>9. new \in Profiles /\ new.inputs = f.inputs /\ new.goals = f.goals /\ new.derived = d
    BY <1>1, <2>6, <2>8, ProfileMade
  <2>. QED BY <1>4, <2>2, <2>9 DEF Lookup, UserProfileGetDerivedField
<1>. QED BY <1>3, <1>4

----------------------------------------------------------------------------
\* The goal in focus

FocusingIn(events) == {i \in 1 .. Len(events) : events[i][1] \in Focusing}

\* It is that of the last event that gives the focus.
LEMMA FocusOf ==
    ASSUME NEW events \in Seq(GoalEvents \X GoalIds), NEW last \in FocusingIn(events),
           \A j \in FocusingIn(events) : j <= last
    PROVE  FocusAfter(events) =
               IF \E j \in last .. Len(events) : events[j] = <<"goal_ended", events[last][2]>>
               THEN None ELSE events[last][2]
<1>1. DOMAIN events = 1 .. Len(events) /\ Len(events) \in Nat
  OBVIOUS
<1>2. {i \in DOMAIN events : events[i][1] \in Focusing} = FocusingIn(events)
  BY <1>1 DEF FocusingIn
<1>3. FocusingIn(events) # {} /\ FocusingIn(events) \in SUBSET (1 .. Len(events))
  BY DEF FocusingIn
<1>4. Max(FocusingIn(events)) \in FocusingIn(events) /\ \A j \in FocusingIn(events) : j <= Max(FocusingIn(events))
  BY <1>1, <1>3, GreatestOf
<1>5. Max(FocusingIn(events)) = last
  <2>1. Max(FocusingIn(events)) \in 1 .. Len(events) /\ last \in 1 .. Len(events)
    BY <1>3, <1>4
  <2>2. Max(FocusingIn(events)) <= last /\ last <= Max(FocusingIn(events))
    BY <1>4
  <2>. QED BY <2>1, <2>2
<1>. QED BY <1>2, <1>3, <1>5 DEF FocusAfter

LEMMA NoFocus ==
    ASSUME NEW events \in Seq(GoalEvents \X GoalIds), FocusingIn(events) = {}
    PROVE  FocusAfter(events) = None
<1>1. DOMAIN events = 1 .. Len(events)
  OBVIOUS
<1>2. {i \in DOMAIN events : events[i][1] \in Focusing} = FocusingIn(events)
  BY <1>1 DEF FocusingIn
<1>. QED BY <1>2 DEF FocusAfter

LEMMA UpTo ==
    ASSUME NEW a \in Nat, NEW n \in Nat, 1 <= a, a <= n
    PROVE  a .. (n + 1) = a .. n \cup {n + 1} /\ \A j \in a .. n : j \in 1 .. n
  OBVIOUS

\* What one more event makes of the focus.
LEMMA FocusTurns ==
    ASSUME NEW events \in Seq(GoalEvents \X GoalIds), NEW event \in GoalEvents, NEW goal \in GoalIds
    PROVE  FocusAfter(Append(events, <<event, goal>>)) = Focus(FocusAfter(events), event, goal)
<1>. DEFINE n == Len(events)
            more == Append(events, <<event, goal>>)
<1>1. /\ n \in Nat /\ more \in Seq(GoalEvents \X GoalIds) /\ Len(more) = n + 1
      /\ more[n + 1] = <<event, goal>> /\ \A i \in 1 .. n : more[i] = events[i]
  OBVIOUS
<1>. HIDE DEF more
<1>2. "goal_ended" \notin Focusing
  BY DEF Focusing
<1>3. CASE event \in Focusing
  <2>1. n + 1 \in FocusingIn(more) /\ \A j \in FocusingIn(more) : j <= n + 1
    BY <1>1, <1>3 DEF FocusingIn
  <2>2. ASSUME NEW j \in (n + 1) .. (n + 1) PROVE more[j] # <<"goal_ended", goal>>
    <3>1. j = n + 1
      BY <1>1
    <3>. QED BY <1>1, <1>2, <1>3, <3>1
  <2>3. FocusAfter(more) = goal
    BY <1>1, <2>1, <2>2, FocusOf
  <2>. QED BY <1>3, <2>3 DEF Focus, more
<1>4. CASE event \notin Focusing
  <2>1. FocusingIn(more) = FocusingIn(events)
    <3>1. 1 .. (n + 1) = 1 .. n \cup {n + 1} /\ n + 1 \notin 1 .. n
      BY <1>1
    <3>2. more[n + 1][1] \notin Focusing
      BY <1>1, <1>4
    <3>3. \A i \in 1 .. n : more[i][1] = events[i][1]
      BY <1>1
    <3>. QED BY <1>1, <3>1, <3>2, <3>3 DEF FocusingIn
  <2>2. CASE FocusingIn(events) = {}
    <3>1. FocusAfter(more) = None /\ FocusAfter(events) = None
      BY <1>1, <2>1, <2>2, NoFocus
    <3>. QED BY <1>4, <3>1 DEF Focus, more
  <2>3. CASE FocusingIn(events) # {}
    <3>1. FocusingIn(events) \in SUBSET (1 .. n)
      BY DEF FocusingIn
    <3>2. PICK last \in FocusingIn(events) : \A j \in FocusingIn(events) : j <= last
      BY <1>1, <2>3, <3>1, GreatestOf
    <3>3. last \in 1 .. n
      BY <3>1
    <3>. DEFINE now == events[last][2]
                Over(e) == \E j \in last .. Len(e) : e[j] = <<"goal_ended", now>>
    <3>4. FocusAfter(events) = IF Over(events) THEN None ELSE now
      BY <3>2, FocusOf
    <3>5. FocusAfter(more) = IF Over(more) THEN None ELSE now
      <4>1. more[last] = events[last]
        BY <1>1, <3>3
      <4>2. FocusAfter(more) = IF \E j \in last .. Len(more) : more[j] = <<"goal_ended", more[last][2]>>
                               THEN None ELSE more[last][2]
        BY <1>1, <2>1, <3>2, FocusOf
      <4>. QED BY <4>1, <4>2
    <3>6. Over(more) <=> Over(events) \/ (event = "goal_ended" /\ goal = now)
      <4>0. last \in Nat /\ 1 <= last /\ last <= n
        BY <3>3
      <4>1. last .. (n + 1) = last .. n \cup {n + 1} /\ \A j \in last .. n : j \in 1 .. n
        BY <1>1, <4>0, UpTo
      <4>2. \A j \in last .. n : more[j] = events[j]
        BY <1>1, <4>1
      <4>3. more[n + 1] = <<"goal_ended", now>> <=> event = "goal_ended" /\ goal = now
        BY <1>1
      <4>. HIDE DEF now
      <4>. QED BY <1>1, <4>1, <4>2, <4>3
    <3>. HIDE DEF Over, now
    <3>7. CASE event = "goal_ended"
      <4>1. Focus(FocusAfter(events), event, goal) =
               IF FocusAfter(events) = goal THEN None ELSE FocusAfter(events)
        BY <1>2, <3>7 DEF Focus
      <4>. QED BY <3>4, <3>5, <3>6, <3>7, <4>1 DEF more
    <3>8. CASE event # "goal_ended"
      <4>1. Focus(FocusAfter(events), event, goal) = FocusAfter(events)
        BY <1>4, <3>8 DEF Focus
      <4>. QED BY <3>4, <3>5, <3>6, <3>8, <4>1 DEF more
    <3>. QED BY <3>7, <3>8
  <2>. QED BY <2>2, <2>3
<1>. QED BY <1>3, <1>4

----------------------------------------------------------------------------
\* What a handler of one of the two files makes of it

LEMMA HearingFields ==
    ASSUME NEW h \in Hearing
    PROVE  /\ h.inputs \in Seq(Texts) /\ h.events \in Seq(GoalEvents \X GoalIds)
           /\ h.keys \in [Keys -> Values \cup {None}] /\ h.reminders \in SUBSET Notes
           /\ h = [inputs |-> h.inputs, events |-> h.events, keys |-> h.keys, reminders |-> h.reminders]
  BY DEF Hearing

\* Field by field.
Heeds(g, h, r) ==
    /\ r.op # "input" => g.inputs = h.inputs
    /\ r.op = "input" => g.inputs = Append(h.inputs, r.text)
    /\ r.op # "event" => g.events = h.events
    /\ r.op = "event" => g.events = Append(h.events, <<r.event, r.goal>>)
    /\ r.op \notin {"set", "clear"} => g.keys = h.keys
    /\ r.op = "set" => g.keys = [h.keys EXCEPT ![r.key] = r.value]
    /\ r.op = "clear" => g.keys = [h.keys EXCEPT ![r.key] = None]
    /\ r.op \notin ReminderOps => g.reminders = h.reminders
    /\ r.op = "remind" => g.reminders = {x \in h.reminders : x.id # r.reminder.id} \cup {r.reminder}
    /\ r.op = "forget" => g.reminders = {x \in h.reminders : x.id # r.id}
    /\ g = [inputs |-> g.inputs, events |-> g.events, keys |-> g.keys, reminders |-> g.reminders]

LEMMA HeededFields ==
    ASSUME NEW h \in Hearing, NEW r
    PROVE  Heeds(Heeded(h, r), h, r)
<1>1. h = [inputs |-> h.inputs, events |-> h.events, keys |-> h.keys, reminders |-> h.reminders]
  BY HearingFields
<1>. QED BY <1>1 DEF Heeded, ReminderOps, Heeds

LEMMA HeededHearing ==
    ASSUME NEW h \in Hearing, NEW r, Fitting(r)
    PROVE  Heeded(h, r) \in Hearing
<1>1. PICK g : g = Heeded(h, r)
  OBVIOUS
<1>2. /\ h.inputs \in Seq(Texts) /\ h.events \in Seq(GoalEvents \X GoalIds)
      /\ h.keys \in [Keys -> Values \cup {None}] /\ h.reminders \in SUBSET Notes
  BY HearingFields
<1>a. Heeds(g, h, r)
  BY <1>1, HeededFields
<1>b. /\ r.op = "input" => r.text \in Texts
      /\ r.op = "event" => r.event \in GoalEvents /\ r.goal \in GoalIds
      /\ r.op = "set" => r.value \in Values
      /\ r.op = "remind" => r.reminder \in Notes
  BY DEF Fitting
<1>3. g.inputs \in Seq(Texts)
  <2>1. CASE r.op = "input"
    <3>1. g.inputs = Append(h.inputs, r.text) /\ r.text \in Texts
      BY <1>a, <1>b, <2>1 DEF Heeds
    <3>. QED BY <1>2, <3>1
  <2>2. CASE r.op # "input"
    BY <1>2, <1>a, <2>2 DEF Heeds
  <2>. QED BY <2>1, <2>2
<1>4. g.events \in Seq(GoalEvents \X GoalIds)
  <2>1. CASE r.op = "event"
    <3>1. g.events = Append(h.events, <<r.event, r.goal>>) /\ <<r.event, r.goal>> \in GoalEvents \X GoalIds
      BY <1>a, <1>b, <2>1 DEF Heeds
    <3>. QED BY <1>2, <3>1
  <2>2. CASE r.op # "event"
    BY <1>2, <1>a, <2>2 DEF Heeds
  <2>. QED BY <2>1, <2>2
<1>5. g.keys \in [Keys -> Values \cup {None}]
  BY <1>a, <1>b, <1>2 DEF Heeds
<1>6. g.reminders \in SUBSET Notes
  BY <1>a, <1>b, <1>2 DEF ReminderOps, Heeds
<1>7. g = [inputs |-> g.inputs, events |-> g.events, keys |-> g.keys, reminders |-> g.reminders]
  BY <1>a DEF Heeds
<1>. QED BY <1>1, <1>3, <1>4, <1>5, <1>6, <1>7 DEF Hearing

\* Two requests about the profile and about the reminders do not touch what the
\* other is told.
LEMMA HeededApart ==
    ASSUME NEW h \in Hearing, NEW r, NEW v
    PROVE  /\ r.op \notin ProfileOps => (Agrees("profile", v, Heeded(h, r)) <=> Agrees("profile", v, h))
           /\ r.op = "read" => (Agrees("profile", v, Heeded(h, r)) <=> Agrees("profile", v, h))
           /\ r.op \notin {"set", "clear"} => Heeded(h, r).keys = h.keys
           /\ r.op \notin ReminderOps => (Agrees("reminders", v, Heeded(h, r)) <=> Agrees("reminders", v, h))
<1>1. PICK g : g = Heeded(h, r)
  OBVIOUS
<1>h. Heeds(g, h, r)
  BY <1>1, HeededFields
<1>2. /\ r.op # "input" => g.inputs = h.inputs
      /\ r.op # "event" => g.events = h.events
      /\ r.op \notin {"set", "clear"} => g.keys = h.keys
      /\ r.op \notin ReminderOps => g.reminders = h.reminders
  BY <1>h DEF Heeds
<1>3. ASSUME r.op \notin ProfileOps \/ r.op = "read"
      PROVE  Agrees("profile", v, g) <=> Agrees("profile", v, h)
  <2>1. g.inputs = h.inputs /\ g.events = h.events /\ g.keys = h.keys
    BY <1>2, <1>3 DEF ProfileOps
  <2>. QED BY <2>1 DEF Agrees, ProfileAgrees
<1>4. ASSUME r.op \notin ReminderOps
      PROVE  Agrees("reminders", v, g) <=> Agrees("reminders", v, h)
  BY <1>2, <1>4 DEF Agrees
<1>. QED BY <1>1, <1>2, <1>3, <1>4

LEMMA ModifiedCases ==
    ASSUME NEW r, NEW v
    PROVE  LET f == read_profile_sections(v)
               list == RemindersList(v)
           IN  /\ r.op = "input" => Modified(r, v) = UserProfileRecordInput(f, r.text)
               /\ r.op = "event" => Modified(r, v) = UserProfileRecordGoalEvent(f, r.event, r.goal)
               /\ r.op = "set" => Modified(r, v) = UserProfileSetDerivedField(f, r.key, r.value)
               /\ r.op = "clear" => Modified(r, v) = UserProfileClearDerivedField(f, r.key)
               /\ r.op = "remind" => Modified(r, v) = RemindersSave(list, r.reminder)
               /\ r.op = "forget" => Modified(r, v) = RemindersDelete(list, r.id)
  BY DEF Modified

LEMMA ReadSections ==
    ASSUME NEW v, Empty(v) \/ v \in Profiles
    PROVE  read_profile_sections(v) \in Profiles /\ (v \in Profiles => read_profile_sections(v) = v)
  BY NewOne, NotEmptyOnes DEF read_profile_sections, Empty

\* An operation on the profile makes of a file that agrees one that agrees with
\* what its answer says.
LEMMA ProfileModified ==
    ASSUME NEW r, Fitting(r), r.op \in ProfileOps \ {"read"}, NEW v, Empty(v) \/ v \in Profiles,
           NEW new, new = Modified(r, v), NEW h \in Hearing
    PROVE  /\ new \in Profiles
           /\ Agrees("profile", v, h) => Agrees("profile", new, Heeded(h, r))
           /\ Sure(v, h) /\ (r.op = "set" /\ r.key = "onboarded" /\ r.value # "1" => h.keys["onboarded"] = None)
              => Sure(new, h) /\ Sure(new, Heeded(h, r))
<1>1. PICK f : f = read_profile_sections(v)
  OBVIOUS
<1>2. f \in Profiles
  BY <1>1, ReadSections
<1>3. PICK g : g = Heeded(h, r)
  OBVIOUS
<1>h. Heeds(g, h, r)
  BY <1>3, HeededFields
<1>4. /\ h.inputs \in Seq(Texts) /\ h.events \in Seq(GoalEvents \X GoalIds)
      /\ h.keys \in [Keys -> Values \cup {None}]
  BY HearingFields
<1>5. "onboarded" \in Keys /\ None \notin Values /\ "1" \in Values
  BY UserFilesAssumption, DistinctAssumption
<1>a. "latest_input" \notin Keys /\ "current_focus_goal_id" \notin Keys
  BY KeysApart
<1>6. SUFFICES /\ new \in Profiles
               /\ ProfileAgrees(f, h) => ProfileAgrees(new, g)
               /\ \/ Lookup(new, "onboarded") = Lookup(f, "onboarded") /\ g.keys["onboarded"] = h.keys["onboarded"]
                  \/ Lookup(new, "onboarded") = None
                  \/ /\ r.op = "set" /\ r.key = "onboarded"
                     /\ Lookup(new, "onboarded") = r.value /\ g.keys["onboarded"] = r.value
  <2>1. read_profile_sections(new) = new
    BY <1>6, ReadSections
  <2>2. Agrees("profile", v, h) <=> ProfileAgrees(f, h)
    BY <1>1 DEF Agrees
  <2>3. Agrees("profile", new, g) <=> ProfileAgrees(new, g)
    BY <2>1 DEF Agrees
  <2>4. Onboarded(v) <=> Lookup(f, "onboarded") \in {None, "1", "true"}
    BY <1>1 DEF Onboarded, Lookup
  <2>5. Onboarded(new) <=> Lookup(new, "onboarded") \in {None, "1", "true"}
    BY <2>1 DEF Onboarded, Lookup
  <2>. QED BY <1>3, <1>5, <1>6, <2>2, <2>3, <2>4, <2>5 DEF Sure
<1>7. CASE r.op = "input"
  <2>1. new = UserProfileRecordInput(f, r.text) /\ r.text \in Texts
    BY <1>1, <1>7, ModifiedCases DEF Fitting
  <2>2. /\ new \in Profiles /\ new.inputs = Append(f.inputs, r.text) /\ new.goals = f.goals
        /\ \A k \in Keys : Lookup(new, k) = Lookup(f, k)
        /\ Lookup(new, "current_focus_goal_id") = Lookup(f, "current_focus_goal_id")
        /\ Lookup(new, "latest_input") = r.text
    BY <1>2, <2>1, InputMade
  <2>3. g.inputs = Append(h.inputs, r.text) /\ g.events = h.events /\ g.keys = h.keys
    BY <1>h, <1>7 DEF Heeds
  <2>4. g.inputs[Len(g.inputs)] = r.text
    BY <1>4, <2>1, <2>3
  <2>. QED BY <1>5, <2>2, <2>3, <2>4 DEF ProfileAgrees
<1>8. CASE r.op = "event"
  <2>1. new = UserProfileRecordGoalEvent(f, r.event, r.goal) /\ r.event \in GoalEvents /\ r.goal \in GoalIds
    BY <1>1, <1>8, ModifiedCases DEF Fitting
  <2>2. /\ new \in Profiles /\ new.inputs = f.inputs /\ new.goals = Append(f.goals, <<r.event, r.goal>>)
        /\ \A k \in Keys : Lookup(new, k) = Lookup(f, k)
        /\ Lookup(new, "current_focus_goal_id") = Focus(Lookup(f, "current_focus_goal_id"), r.event, r.goal)
        /\ Lookup(new, "latest_input") = Lookup(f, "latest_input")
    BY <1>2, <2>1, GoalMade
  <2>3. g.inputs = h.inputs /\ g.events = Append(h.events, <<r.event, r.goal>>) /\ g.keys = h.keys
    BY <1>h, <1>8 DEF Heeds
  <2>4. FocusAfter(g.events) = Focus(FocusAfter(h.events), r.event, r.goal)
    BY <1>4, <2>1, <2>3, FocusTurns
  <2>. QED BY <1>5, <2>2, <2>3, <2>4 DEF ProfileAgrees
<1>9. CASE r.op \in {"set", "clear"}
  <2>1. PICK value \in Values \cup {None} :
            /\ \/ new = UserProfileSetDerivedField(f, r.key, value) /\ value = r.value /\ r.op = "set"
               \/ new = UserProfileClearDerivedField(f, r.key) /\ value = None
            /\ g.keys = [h.keys EXCEPT ![r.key] = value]
    <3>1. CASE r.op = "set"
      <4>1. new = UserProfileSetDerivedField(f, r.key, r.value) /\ r.value \in Values
        BY <1>1, <3>1, ModifiedCases DEF Fitting
      <4>2. g.keys = [h.keys EXCEPT ![r.key] = r.value]
        BY <1>h, <3>1 DEF Heeds
      <4>. QED BY <3>1, <4>1, <4>2
    <3>2. CASE r.op = "clear"
      <4>1. new = UserProfileClearDerivedField(f, r.key)
        BY <1>1, <3>2, ModifiedCases
      <4>2. g.keys = [h.keys EXCEPT ![r.key] = None]
        BY <1>h, <3>2 DEF Heeds
      <4>. QED BY <4>1, <4>2
    <3>. QED BY <1>9, <3>1, <3>2
  <2>2. r.key \in Keys
    BY <1>9 DEF Fitting
  <2>3. /\ new \in Profiles /\ new.inputs = f.inputs /\ new.goals = f.goals
        /\ Lookup(new, r.key) = value
        /\ \A k : k # r.key => Lookup(new, k) = Lookup(f, k)
    BY <1>2, <2>1, <2>2, KeyMade
  <2>4. g.inputs = h.inputs /\ g.events = h.events
    BY <1>h, <1>9 DEF Heeds
  <2>5. \A k \in Keys : g.keys[k] = IF k = r.key THEN value ELSE h.keys[k]
    BY <1>4, <2>1
  <2>6. r.key # "current_focus_goal_id" /\ r.key # "latest_input"
    BY <1>a, <2>2
  <2>7. ProfileAgrees(f, h) => ProfileAgrees(new, g)
    BY <2>3, <2>4, <2>5, <2>6 DEF ProfileAgrees
  <2>8. \/ Lookup(new, "onboarded") = Lookup(f, "onboarded") /\ g.keys["onboarded"] = h.keys["onboarded"]
        \/ Lookup(new, "onboarded") = None
        \/ /\ r.op = "set" /\ r.key = "onboarded"
           /\ Lookup(new, "onboarded") = r.value /\ g.keys["onboarded"] = r.value
    <3>1. CASE r.key # "onboarded"
      BY <1>5, <2>3, <2>5, <3>1
    <3>2. CASE r.key = "onboarded"
      BY <1>5, <2>1, <2>3, <2>5, <3>2
    <3>. QED BY <3>1, <3>2
  <2>. QED BY <2>3, <2>7, <2>8
<1>. QED BY <1>7, <1>8, <1>9 DEF ProfileOps

LEMMA RemindersModified ==
    ASSUME NEW r, Fitting(r), r.op \in ReminderOps, NEW v, Empty(v) \/ Fits("reminders", v),
           NEW new, new = Modified(r, v), new # NotSaved, NEW h \in Hearing
    PROVE  /\ Fits("reminders", new)
           /\ Agrees("reminders", v, h) => Agrees("reminders", new, Heeded(h, r))
<1>1. PICK list : list = RemindersList(v)
  OBVIOUS
<1>2. list \in Seq(Notes) /\ Len(list) <= REMINDERS_MAX /\ DistinctIds(list)
  <2>1. CASE Empty(v)
    <3>1. list = <<>>
      BY <1>1, <2>1 DEF RemindersList, NoReminders, Empty
    <3>2. 0 <= REMINDERS_MAX
      BY UserFilesAssumption
    <3>. QED BY <3>1, <3>2 DEF DistinctIds
  <2>2. CASE ~Empty(v)
    <3>1. list = v
      BY <1>1, <2>2 DEF RemindersList, Empty
    <3>. QED BY <2>2, <3>1 DEF Fits
  <2>. QED BY <2>1, <2>2
<1>3. PICK g : g = Heeded(h, r)
  OBVIOUS
<1>h. Heeds(g, h, r)
  BY <1>3, HeededFields
<1>4. /\ new \in Seq(Notes) /\ Len(new) <= REMINDERS_MAX /\ DistinctIds(new)
      /\ ToSet(list) = h.reminders => ToSet(new) = g.reminders
  <2>1. CASE r.op = "remind"
    <3>1. new = RemindersSave(list, r.reminder) /\ r.reminder \in Notes
      BY <1>1, <2>1, ModifiedCases DEF Fitting
    <3>2. /\ new \in Seq(Notes) /\ Len(new) <= REMINDERS_MAX /\ DistinctIds(new)
          /\ ToSet(new) = {x \in ToSet(list) : x.id # r.reminder.id} \cup {r.reminder}
      BY <1>2, <3>1, SavedGives
    <3>3. g.reminders = {x \in h.reminders : x.id # r.reminder.id} \cup {r.reminder}
      BY <1>h, <2>1 DEF Heeds
    <3>. QED BY <3>2, <3>3
  <2>2. CASE r.op = "forget"
    <3>1. new = Without(list, r.id)
      BY <1>1, <2>2, ModifiedCases DEF RemindersDelete
    <3>2. /\ new \in Seq(Notes) /\ Len(new) <= Len(list) /\ DistinctIds(new)
          /\ ToSet(new) = {x \in ToSet(list) : x.id # r.id}
      BY <1>2, <3>1, WithoutGives
    <3>3. g.reminders = {x \in h.reminders : x.id # r.id}
      BY <1>h, <2>2 DEF Heeds
    <3>4. Len(new) \in Nat /\ Len(list) \in Nat /\ REMINDERS_MAX \in Nat
      BY <1>2, <3>2, UserFilesAssumption
    <3>5. Len(new) <= REMINDERS_MAX
      BY <1>2, <3>2, <3>4
    <3>. QED BY <3>2, <3>3, <3>5
  <2>. QED BY <2>1, <2>2 DEF ReminderOps
<1>5. RemindersList(new) = new
  BY <1>4, NotEmptyOnes DEF RemindersList, Empty
<1>. QED BY <1>1, <1>3, <1>4, <1>5 DEF Agrees, Fits

----------------------------------------------------------------------------
\* The steps of a handler of one of the two files

SoleInits(T, v, t, b, v2, u, b2) ==
    /\ t[1].do = "init" /\ v2 = v /\ b2 = b
    /\ \/ v = Missing /\ \E s : s.do = "open" /\ s.path = File("profile") /\ s.data = NewProfile /\ Put(t, u, s)
       \/ Cut(t, u)
SoleModifies(T, v, r, t, b, v2, u, b2) ==
    /\ t[1].do = "modify" /\ v2 = v /\ b2 = b /\ Modified(r, v) # NotSaved
    /\ \E s : s.do = "open" /\ s.path = File(T) /\ s.data = Modified(r, v) /\ Put(t, u, s)
SoleOpens(T, v, t, b, v2, u, b2) ==
    /\ t[1].do = "open" /\ v2 = Torn /\ b2 = TRUE
    /\ \E s : s.do = "fill" /\ s.path = t[1].path /\ s.data = t[1].data /\ Put(t, u, s)
SoleFills(T, v, t, b, v2, u, b2) ==
    t[1].do = "fill" /\ v2 = t[1].data /\ b2 = TRUE /\ Cut(t, u)

SoleGoes(T, v, r, t, b, v2, u, b2) ==
    \/ SoleInits(T, v, t, b, v2, u, b2) \/ SoleModifies(T, v, r, t, b, v2, u, b2)
    \/ SoleOpens(T, v, t, b, v2, u, b2) \/ SoleFills(T, v, t, b, v2, u, b2)

\* A handler of T as it is known to be.
SoleHandler(T, v, r, t) ==
    /\ T \in Sole /\ Fitting(r) /\ (T = "profile" <=> r.op \in ProfileOps) /\ (T = "reminders" <=> r.op \in ReminderOps)
    /\ Empty(v) \/ Fits(T, v)
    /\ SoleTodo(T, v, r.op, t) /\ t # <<>> /\ Len(t) \in Nat

\* What it is after the step.
SoleGone(T, v, h, r, t, b, v2, u, b2) ==
    /\ Empty(v2) \/ Fits(T, v2)
    /\ SoleTodo(T, v2, r.op, u) /\ (v # Missing => v2 # Missing)
    /\ Stage(T, v, h, r, t, b) => Stage(T, v2, h, r, u, b2)
    /\ T = "profile" /\ Sure(v, h) /\ SureStage(v, h, r, t) => Sure(v2, h) /\ SureStage(v2, h, r, u)

LEMMA EmptyOnes ==
    ASSUME NEW h, NEW v, Empty(v)
    PROVE  /\ Sure(v, h) /\ Sure(NewProfile, h)
           /\ Agrees("profile", v, h) <=> Agrees("profile", NewProfile, h)
           /\ \A w : Empty(w) => (Agrees("profile", v, h) <=> Agrees("profile", w, h))
           /\ \A w : Empty(w) => (Agrees("reminders", v, h) <=> Agrees("reminders", w, h))
<1>1. read_profile_sections(v) = NewProfile /\ RemindersList(v) = NoReminders
  BY DEF Empty, read_profile_sections, RemindersList
<1>2. read_profile_sections(NewProfile) = NewProfile
  BY NewOne, ReadSections
<1>3. \A w : Empty(w) => read_profile_sections(w) = NewProfile /\ RemindersList(w) = NoReminders
  BY DEF Empty, read_profile_sections, RemindersList
<1>4. UserProfileGetDerivedField(NewProfile, "onboarded") = None
  BY NewOne DEF Lookup
<1>. QED BY <1>1, <1>2, <1>3, <1>4 DEF Agrees, Sure, Onboarded

LEMMA SoleInit ==
    ASSUME NEW T, NEW v, NEW h \in Hearing, NEW r, NEW t, NEW b \in BOOLEAN, NEW v2, NEW u, NEW b2,
           SoleHandler(T, v, r, t), SoleInits(T, v, t, b, v2, u, b2)
    PROVE  SoleGone(T, v, h, r, t, b, v2, u, b2)
<1>1. /\ T = "profile" /\ ((Len(t) = 1 /\ r.op = "read") \/ (Len(t) = 2 /\ r.op # "read" /\ Modifies(t[2], T)))
      /\ v2 = v /\ b2 = b /\ t[1].do = "init"
  BY DEF SoleHandler, SoleTodo, SoleList, SoleInits, Modifies, Writes
<1>a. SoleInits(T, v, t, b, v2, u, b2) /\ SoleHandler(T, v, r, t)
  OBVIOUS
<1>2. NewProfile \in Profiles /\ ~Empty(NewProfile)
  BY NewOne, NotEmptyOnes
<1>3. r.op = "read" => /\ \A w : Agrees(T, w, Heeded(h, r)) <=> Agrees(T, w, h)
                       /\ Heeded(h, r).keys = h.keys
  BY <1>1, HeededApart
<1>4. CASE v = Missing /\ \E s : s.do = "open" /\ s.path = File("profile") /\ s.data = NewProfile /\ Put(t, u, s)
  <2>1. PICK s : s.do = "open" /\ s.path = File("profile") /\ s.data = NewProfile /\ Put(t, u, s)
    BY <1>4
  <2>2. Len(u) = Len(t) /\ u[1] = s /\ (Len(t) = 2 => u[2] = t[2]) /\ u # <<>>
    BY <2>1 DEF Put
  <2>3. SoleTodo(T, v2, r.op, u)
    BY <1>1, <1>2, <2>1, <2>2 DEF SoleTodo, SoleList, Renews, Writes, Fits
  <2>4. Empty(v)
    BY <1>4 DEF Empty
  <2>5. /\ Sure(v, h) /\ Sure(NewProfile, h) /\ Sure(NewProfile, Heeded(h, r))
        /\ Agrees(T, v, h) <=> Agrees(T, NewProfile, h)
    BY <1>1, <2>4, EmptyOnes
  <2>6. ASSUME Stage(T, v, h, r, t, b) PROVE Stage(T, v2, h, r, u, b2)
    <3>1. Agrees(T, v, h)
      BY <1>1, <2>6 DEF Stage
    <3>. QED BY <1>1, <1>3, <2>1, <2>2, <2>4, <2>5, <3>1 DEF Stage
  <2>7. ASSUME SureStage(v, h, r, t) PROVE SureStage(v2, h, r, u)
    BY <1>1, <2>1, <2>2, <2>5, <2>7 DEF SureStage
  <2>. QED BY <1>1, <2>3, <2>4, <2>5, <2>6, <2>7 DEF SoleGone
<1>5. CASE Cut(t, u)
  <2>1. (Len(t) = 1 => u = <<>>) /\ (Len(t) = 2 => Len(u) = 1 /\ u[1] = t[2])
    BY <1>5 DEF Cut
  <2>2. SoleTodo(T, v2, r.op, u)
    BY <1>1, <2>1 DEF SoleTodo, SoleList, Modifies
  <2>3. ASSUME Stage(T, v, h, r, t, b) PROVE Stage(T, v2, h, r, u, b2)
    <3>1. Agrees(T, v, h)
      BY <1>1, <2>3 DEF Stage
    <3>2. u = <<>> => Agrees(T, v, Heeded(h, r))
      BY <1>1, <1>3, <2>1, <3>1
    <3>3. Len(<<>>) = 0
      OBVIOUS
    <3>. QED BY <1>1, <2>1, <3>1, <3>2, <3>3 DEF Stage, Modifies
  <2>4. ASSUME Sure(v, h), SureStage(v, h, r, t) PROVE SureStage(v2, h, r, u)
    <3>1. u = <<>> => Sure(v, Heeded(h, r))
      BY <1>1, <1>3, <2>1, <2>4 DEF Sure
    <3>2. u # <<>> => u[1].do = "modify" /\ Len(u) = 1
      BY <1>1, <2>1 DEF Modifies
    <3>3. r.op = "set" /\ r.key = "onboarded" /\ r.value # "1" => h.keys["onboarded"] = None
      BY <2>4 DEF SureStage
    <3>4. Len(<<>>) = 0
      OBVIOUS
    <3>. QED BY <1>1, <3>1, <3>2, <3>3, <3>4 DEF SureStage
  <2>. QED BY <1>1, <1>a, <2>2, <2>3, <2>4 DEF SoleGone, SoleHandler
<1>. QED BY <1>4, <1>5, <1>a DEF SoleInits

LEMMA SoleModify ==
    ASSUME NEW T, NEW v, NEW h \in Hearing, NEW r, NEW t, NEW b \in BOOLEAN, NEW v2, NEW u, NEW b2,
           SoleHandler(T, v, r, t), SoleModifies(T, v, r, t, b, v2, u, b2)
    PROVE  SoleGone(T, v, h, r, t, b, v2, u, b2)
<1>1. Len(t) = 1 /\ r.op # "read" /\ v2 = v /\ b2 = b /\ t[1].do = "modify" /\ Modified(r, v) # NotSaved
  BY DEF SoleHandler, SoleTodo, SoleList, SoleModifies, Renews, Writes
<1>2. /\ T \in Sole /\ Fitting(r) /\ (T = "profile" <=> r.op \in ProfileOps)
      /\ (T = "reminders" <=> r.op \in ReminderOps) /\ (Empty(v) \/ Fits(T, v))
  BY DEF SoleHandler
<1>3. PICK new : new = Modified(r, v)
  OBVIOUS
<1>4. PICK s : s.do = "open" /\ s.path = File(T) /\ s.data = new /\ Put(t, u, s)
  BY <1>3 DEF SoleModifies
<1>5. Len(u) = 1 /\ u[1] = s /\ u # <<>>
  BY <1>1, <1>4 DEF Put
<1>6. Fits(T, new) /\ (Agrees(T, v, h) => Agrees(T, new, Heeded(h, r)))
  <2>1. CASE T = "profile"
    <3>1. new \in Profiles /\ (Agrees(T, v, h) => Agrees(T, new, Heeded(h, r)))
      BY <1>1, <1>2, <1>3, <2>1, ProfileModified DEF Fits
    <3>. QED BY <2>1, <3>1 DEF Fits
  <2>2. CASE T = "reminders"
    BY <1>1, <1>2, <1>3, <2>2, RemindersModified
  <2>. QED BY <1>2, <2>1, <2>2 DEF Sole
<1>7. SoleTodo(T, v2, r.op, u)
  BY <1>1, <1>4, <1>5, <1>6 DEF SoleTodo, SoleList, Writes
<1>8. ASSUME Stage(T, v, h, r, t, b) PROVE Stage(T, v2, h, r, u, b2)
  <2>1. Agrees(T, v, h)
    BY <1>1, <1>8 DEF Stage
  <2>. QED BY <1>1, <1>4, <1>5, <1>6, <2>1 DEF Stage
<1>9. ASSUME T = "profile", Sure(v, h), SureStage(v, h, r, t) PROVE SureStage(v2, h, r, u)
  <2>1. r.op = "set" /\ r.key = "onboarded" /\ r.value # "1" => h.keys["onboarded"] = None
    BY <1>9 DEF SureStage
  <2>2. Sure(new, h) /\ Sure(new, Heeded(h, r))
    BY <1>1, <1>2, <1>3, <1>9, <2>1, ProfileModified DEF Fits
  <2>. QED BY <1>1, <1>4, <1>5, <2>1, <2>2 DEF SureStage
<1>. QED BY <1>1, <1>2, <1>7, <1>8, <1>9 DEF SoleGone

LEMMA SoleOpen ==
    ASSUME NEW T, NEW v, NEW h \in Hearing, NEW r, NEW t, NEW b \in BOOLEAN, NEW v2, NEW u, NEW b2,
           SoleHandler(T, v, r, t), SoleOpens(T, v, t, b, v2, u, b2)
    PROVE  SoleGone(T, v, h, r, t, b, v2, u, b2)
<1>1. v2 = Torn /\ b2 = TRUE /\ t[1].do = "open" /\ Empty(v2) /\ v2 # Missing /\ T \in Sole
  BY DistinctAssumption DEF SoleOpens, Empty, SoleHandler
<1>2. PICK s : s.do = "fill" /\ s.path = t[1].path /\ s.data = t[1].data /\ Put(t, u, s)
  BY DEF SoleOpens
<1>3. Len(u) = Len(t) /\ u[1] = s /\ (Len(t) = 2 => u[2] = t[2]) /\ u # <<>>
  BY <1>2 DEF Put
<1>4. SoleTodo(T, v, r.op, t) /\ (Len(t) = 1 \/ Len(t) = 2) /\ (Len(t) = 2 => T = "profile")
  <2>1. SoleTodo(T, v, r.op, t) /\ t # <<>>
    BY DEF SoleHandler
  <2>2. SoleList(T, r.op, t)
    BY <2>1 DEF SoleTodo
  <2>. HIDE DEF SoleTodo
  <2>. QED BY <2>1, <2>2 DEF SoleList
<1>5. SoleTodo(T, v2, r.op, u)
  <2>1. SoleList(T, r.op, u)
    <3>1. SoleList(T, r.op, t) /\ t # <<>>
      BY <1>4 DEF SoleTodo, SoleHandler
    <3>2. Len(<<>>) = 0
      OBVIOUS
    <3>. QED BY <1>1, <1>2, <1>3, <3>1 DEF SoleList, Renews, Writes, Modifies
  <2>. QED BY <1>1, <1>2, <1>3, <1>4, <2>1 DEF SoleTodo, SoleHandler
<1>6. ASSUME Stage(T, v, h, r, t, b) PROVE Stage(T, v2, h, r, u, b2)
  <2>1. CASE Len(t) = 1
    BY <1>1, <1>2, <1>3, <1>6, <2>1 DEF Stage
  <2>2. CASE Len(t) = 2
    <3>1. Agrees(T, v, h) /\ Empty(v)
      BY <1>1, <1>6, <2>2 DEF Stage
    <3>2. Agrees(T, v2, h)
      BY <1>1, <1>4, <2>2, <3>1, EmptyOnes
    <3>. QED BY <1>1, <1>2, <1>3, <2>2, <3>2 DEF Stage
  <2>. QED BY <1>4, <2>1, <2>2
<1>7. ASSUME SureStage(v, h, r, t) PROVE SureStage(v2, h, r, u)
  <2>1. t # <<>>
    BY DEF SoleHandler
  <2>. QED BY <1>1, <1>2, <1>3, <1>7, <2>1 DEF SureStage
<1>8. Sure(v2, h)
  BY <1>1, EmptyOnes
<1>. QED BY <1>1, <1>5, <1>6, <1>7, <1>8 DEF SoleGone

LEMMA SoleFill ==
    ASSUME NEW T, NEW v, NEW h \in Hearing, NEW r, NEW t, NEW b \in BOOLEAN, NEW v2, NEW u, NEW b2,
           SoleHandler(T, v, r, t), SoleFills(T, v, t, b, v2, u, b2)
    PROVE  SoleGone(T, v, h, r, t, b, v2, u, b2)
<1>1. v2 = t[1].data /\ b2 = TRUE /\ t[1].do = "fill" /\ Cut(t, u) /\ T \in Sole /\ t # <<>>
  BY DEF SoleFills, SoleHandler
<1>2. SoleTodo(T, v, r.op, t) /\ Fits(T, v2)
  BY <1>1 DEF SoleHandler, SoleTodo
<1>3. ~Empty(v2)
  BY <1>1, <1>2, NotEmptyOnes DEF Fits, Sole
<1>4. \/ Len(t) = 1
      \/ Len(t) = 2 /\ T = "profile" /\ v2 = NewProfile /\ Modifies(t[2], T) /\ r.op # "read"
  BY <1>1, <1>2 DEF SoleTodo, SoleList, Renews, Writes
<1>5. (Len(t) = 1 => u = <<>>) /\ (Len(t) = 2 => Len(u) = 1 /\ u[1] = t[2])
  BY <1>1 DEF Cut
<1>6. Len(<<>>) = 0
  OBVIOUS
<1>7. SoleTodo(T, v2, r.op, u)
  BY <1>4, <1>5 DEF SoleTodo, SoleList, Modifies
<1>8. ASSUME Stage(T, v, h, r, t, b) PROVE Stage(T, v2, h, r, u, b2)
  <2>1. CASE Len(t) = 1
    <3>1. Agrees(T, v2, Heeded(h, r))
      BY <1>1, <1>8, <2>1 DEF Stage
    <3>. QED BY <1>1, <1>5, <1>6, <2>1, <3>1 DEF Stage
  <2>2. CASE Len(t) = 2
    <3>1. Agrees(T, v, h) /\ Empty(v)
      BY <1>1, <1>8, <2>2 DEF Stage
    <3>2. Agrees(T, v2, h)
      BY <1>4, <2>2, <3>1, EmptyOnes
    <3>3. u[1].do = "modify" /\ Len(u) = 1 /\ u # <<>>
      BY <1>4, <1>5, <1>6, <2>2 DEF Modifies
    <3>. QED BY <1>1, <2>2, <3>2, <3>3 DEF Stage
  <2>. QED BY <1>4, <2>1, <2>2
<1>9. ASSUME SureStage(v, h, r, t) PROVE Sure(v2, h) /\ SureStage(v2, h, r, u)
  <2>1. Sure(v2, h) /\ (Len(t) = 1 => Sure(v2, Heeded(h, r)))
    BY <1>1, <1>9 DEF SureStage
  <2>2. u # <<>> => u[1].do = "modify"
    BY <1>4, <1>5 DEF Modifies
  <2>3. u = <<>> => Len(t) = 1
    BY <1>1 DEF Cut
  <2>4. r.op = "set" /\ r.key = "onboarded" /\ r.value # "1" => h.keys["onboarded"] = None
    BY <1>9 DEF SureStage
  <2>. QED BY <1>6, <2>1, <2>2, <2>3, <2>4 DEF SureStage
<1>. QED BY <1>2, <1>3, <1>7, <1>8, <1>9 DEF SoleGone, Empty

LEMMA SoleStep ==
    ASSUME NEW T, NEW v, NEW h \in Hearing, NEW r, NEW t, NEW b \in BOOLEAN, NEW v2, NEW u, NEW b2,
           SoleHandler(T, v, r, t), SoleGoes(T, v, r, t, b, v2, u, b2)
    PROVE  SoleGone(T, v, h, r, t, b, v2, u, b2)
  BY SoleInit, SoleModify, SoleOpen, SoleFill DEF SoleGoes

----------------------------------------------------------------------------
\* The steps of a handler of one of the two files, in the state

LEMMA SoleThings ==
    /\ Sole \subseteq Things \ (EntryIds \cup {"user"}) /\ "none" \notin Sole /\ "picture" \notin Sole
    /\ \A T \in Sole : File(T) \in Path /\ File(T)[2] = "file" /\ HasParent(File(T))
  BY Distinct DEF Sole, Things, Path, File, Single, HasParent

LEMMA PutInstead ==
    ASSUME NEW p, NEW u, NEW x, Instead1(p, u, x) PROVE Put(work[p].todo, u, x)
  BY DEF Instead1, Put

LEMMA CutRest ==
    ASSUME NEW p, NEW u, Rest(p, u), Len(work[p].todo) \in Nat PROVE Cut(work[p].todo, u)
<1>1. IsList(u) /\ Len(u) = Len(work[p].todo) - 1
  BY DEF Rest
<1>2. Len(u) \in Nat /\ (u = <<>> <=> Len(u) = 0)
  BY <1>1, ListEmpty
<1>3. \A m, n \in Nat : m = n - 1 => (m = 0 <=> n = 1)
  OBVIOUS
<1>4. u = <<>> <=> Len(work[p].todo) = 1
  BY <1>1, <1>2, <1>3
<1>. QED BY <1>4 DEF Rest, Cut

LEMMA SoleKnown ==
    ASSUME Handlers, Asked, NEW T \in Sole, SoleAt(T), NEW p \in Ports, work[p].thing = T
    PROVE  /\ SoleTodo(T, disk[File(T)], work[p].req.op, work[p].todo)
           /\ work[p].begun \in BOOLEAN /\ IsList(work[p].todo) /\ Len(work[p].todo) \in Nat
           /\ work[p].todo # <<>> => SoleHandler(T, disk[File(T)], work[p].req, work[p].todo)
<1>1. SoleTodo(T, disk[File(T)], work[p].req.op, work[p].todo)
  BY DEF SoleAt, TodoOk
<1>2. work[p].begun \in BOOLEAN /\ IsList(work[p].todo)
  BY DEF Handlers, IsHandler
<1>3. Len(work[p].todo) \in Nat
  BY <1>2, ListEmpty
<1>4. Fitting(work[p].req) /\ (T = "profile" <=> work[p].req.op \in ProfileOps)
      /\ (T = "reminders" <=> work[p].req.op \in ReminderOps)
  BY DEF Asked
<1>5. Empty(disk[File(T)]) \/ Fits(T, disk[File(T)])
  BY DEF SoleAt, FileOk
<1>. QED BY <1>1, <1>2, <1>3, <1>4, <1>5 DEF SoleHandler

\* Where the handler is when it takes a step.
SoleNow(T, p, do) ==
    LET t == work[p].todo
    IN  /\ t[1].do = do /\ Now(p) = t[1] /\ do \in {"init", "modify", "open", "fill"}
        /\ do = "init" => T = "profile"
        /\ do = "modify" => Len(t) = 1
        /\ do # "init" => t[1].path = File(T)
        /\ do \in {"open", "fill"} => t[1] = [do |-> do, path |-> File(T), data |-> t[1].data]
        /\ do = "fill" => disk[File(T)] # Missing

LEMMA SoleDoing ==
    ASSUME Handlers, Asked, NEW T \in Sole, SoleAt(T), NEW p \in Ports, work[p].thing = T, NEW do, Doing(p, do)
    PROVE  SoleNow(T, p, do)
<1>. DEFINE t == work[p].todo
<1>1. t # <<>> /\ t[1].do = do /\ Now(p) = t[1] /\ Proper(T, work[p].req.op, t[1])
  BY DoingFirst DEF FirstStep
<1>2. SoleTodo(T, disk[File(T)], work[p].req.op, t)
  BY SoleKnown
<1>3. SoleList(T, work[p].req.op, t) /\ (t[1].do = "fill" => disk[File(T)] # Missing)
  BY <1>1, <1>2 DEF SoleTodo
<1>4. /\ t[1].do \in {"init", "modify", "open", "fill"} /\ (t[1].do = "init" => T = "profile")
      /\ t[1].do # "init" => t[1].path = File(T)
      /\ t[1].do = "modify" => Len(t) = 1
  BY <1>1, <1>3 DEF SoleList, Modifies, Writes, Renews
<1>5. t[1].do \in {"open", "fill"} => t[1] = [do |-> t[1].do, path |-> t[1].path, data |-> t[1].data]
  BY <1>1 DEF Proper
<1>. QED BY <1>1, <1>3, <1>4, <1>5 DEF SoleNow

\* What is at the other places stays.
Elsewhere(path) == DOMAIN disk' = Path /\ \A x \in Path : x # path => disk'[x] = disk[x]

SoleMoved(T, p) ==
    /\ Elsewhere(File(T)) /\ work[p].todo # <<>>
    /\ \/ /\ Refused(p) /\ disk'[File(T)] = disk[File(T)] /\ Len(work[p].todo) = 1
          /\ work[p].todo[1].do = "modify"
       \/ \E u, b : /\ Goes(p, u, b)
                    /\ SoleGoes(T, disk[File(T)], work[p].req, work[p].todo, work[p].begun, disk'[File(T)], u, b)

LEMMA SoleMoves ==
    ASSUME Handlers, JournalInv, Asked, NEW T \in Sole, SoleAt(T), NEW p \in Ports, work[p].thing = T, Moving(p)
    PROVE  SoleMoved(T, p)
<1>. DEFINE t == work[p].todo
            v == disk[File(T)]
            now == t[1]
<1>1. DOMAIN disk = Path /\ File(T) \in Path /\ HasParent(File(T)) /\ File(T)[2] # "image"
  BY SoleThings DEF JournalInv, Tree
<1>2. IsList(t) /\ Len(t) \in Nat
  BY SoleKnown
<1>n. t # <<>>
  BY DEF Moving, init_profile_file_if_missing, ReadAndChange, OpenForWriting, write_file,
         MakeDirectory, WriteUserProfileSnapshot, rmdir_r, Unlink, RemoveDirectory, Doing
<1>. HIDE DEF v
<1>3. CASE init_profile_file_if_missing(p)
  <2>1. Doing(p, "init") /\ disk' = disk
    BY <1>3 DEF init_profile_file_if_missing
  <2>0. SoleNow(T, p, "init")
    BY <2>1, SoleDoing
  <2>2. T = "profile" /\ now.do = "init"
    BY <2>0 DEF SoleNow
  <2>. DEFINE x == Write(File("profile"), NewProfile)
  <2>3. x.do = "open" /\ x.path = File("profile") /\ x.data = NewProfile
    BY DEF Write
  <2>4. (v = Missing /\ Instead(p, <<x>>)) \/ Instead(p, <<>>)
    BY <1>3, <2>2 DEF init_profile_file_if_missing, v
  <2>. HIDE DEF x
  <2>5. CASE v = Missing /\ Instead(p, <<x>>)
    <3>1. PICK u : Goes(p, u, work[p].begun) /\ Instead1(p, u, x)
      BY <2>1, <2>5, OneInstead
    <3>2. Put(t, u, x)
      BY <3>1, PutInstead
    <3>3. SoleInits(T, v, t, work[p].begun, v, u, work[p].begun)
      BY <2>2, <2>3, <2>5, <3>2 DEF SoleInits
    <3>. QED BY <1>1, <2>1, <3>1, <3>3, <1>n DEF SoleMoved, SoleGoes, Elsewhere, v
  <2>6. CASE Instead(p, <<>>)
    <3>1. PICK u : Goes(p, u, work[p].begun) /\ Rest(p, u)
      BY <2>1, <2>6, NoneRest
    <3>2. Cut(t, u)
      BY <1>2, <3>1, CutRest
    <3>3. SoleInits(T, v, t, work[p].begun, v, u, work[p].begun)
      BY <2>2, <3>2 DEF SoleInits
    <3>. QED BY <1>1, <2>1, <3>1, <3>3, <1>n DEF SoleMoved, SoleGoes, Elsewhere, v
  <2>. QED BY <2>4, <2>5, <2>6
<1>4. CASE ReadAndChange(p)
  <2>1. Doing(p, "modify") /\ disk' = disk
    BY <1>4 DEF ReadAndChange
  <2>0. SoleNow(T, p, "modify")
    BY <2>1, SoleDoing
  <2>2. Now(p) = now /\ now.do = "modify" /\ now.path = File(T)
    BY <2>0 DEF SoleNow
  <2>a. Len(t) = 1
    BY <2>0 DEF SoleNow
  <2>. DEFINE new == Modified(work[p].req, v)
  <2>3. IF new = NotSaved THEN Refuse(p) ELSE Instead(p, <<Write(File(T), new)>>)
    BY <1>4, <2>2 DEF ReadAndChange, v
  <2>. HIDE DEF new
  <2>4. CASE new = NotSaved
    <3>1. Refused(p)
      BY <2>3, <2>4, RefuseRefused
    <3>. QED BY <1>1, <2>1, <2>2, <2>a, <3>1, <1>n DEF SoleMoved, Elsewhere
  <2>5. CASE new # NotSaved
    <3>. DEFINE x == Write(File(T), new)
    <3>1. x.do = "open" /\ x.path = File(T) /\ x.data = new /\ Instead(p, <<x>>)
      BY <2>3, <2>5 DEF Write
    <3>. HIDE DEF x
    <3>2. PICK u : Goes(p, u, work[p].begun) /\ Instead1(p, u, x)
      BY <2>1, <3>1, OneInstead
    <3>3. Put(t, u, x)
      BY <3>2, PutInstead
    <3>4. SoleModifies(T, v, work[p].req, t, work[p].begun, v, u, work[p].begun)
      BY <2>2, <2>5, <3>1, <3>3 DEF SoleModifies, new
    <3>. QED BY <1>1, <2>1, <3>2, <3>4, <1>n DEF SoleMoved, SoleGoes, Elsewhere, v
  <2>. QED BY <2>4, <2>5
<1>5. CASE OpenForWriting(p)
  <2>1. Doing(p, "open")
    BY <1>5 DEF OpenForWriting
  <2>0. SoleNow(T, p, "open")
    BY <2>1, SoleDoing
  <2>2. /\ Now(p) = now /\ now.do = "open" /\ now.path = File(T)
        /\ now = [do |-> "open", path |-> File(T), data |-> now.data]
    BY <2>0 DEF SoleNow
  <2>. DEFINE x == [now EXCEPT !.do = "fill"]
  <2>3. /\ disk' = [disk EXCEPT ![File(T)] = Torn]
        /\ work' = [work EXCEPT ![p].todo = <<x>> \o Tail(t), ![p].begun = TRUE]
    BY <1>1, <1>5, <2>2 DEF OpenForWriting
  <2>4. x.do = "fill" /\ x.path = now.path /\ x.data = now.data
    <3>1. PICK a, b : now = [do |-> "open", path |-> a, data |-> b]
      BY <2>2
    <3>. HIDE DEF now
    <3>. QED BY <3>1
  <2>. HIDE DEF x
  <2>5. PICK u : Goes(p, u, TRUE) /\ Instead1(p, u, x)
    BY <2>1, <2>3, BegunInstead
  <2>6. Put(t, u, x)
    BY <2>5, PutInstead
  <2>7. disk'[File(T)] = Torn /\ Elsewhere(File(T))
    BY <1>1, <2>3 DEF Elsewhere
  <2>8. SoleOpens(T, v, t, work[p].begun, disk'[File(T)], u, TRUE)
    BY <2>2, <2>4, <2>6, <2>7 DEF SoleOpens
  <2>. QED BY <2>5, <2>7, <2>8, <1>n DEF SoleMoved, SoleGoes, v
<1>6. CASE write_file(p)
  <2>1. Doing(p, "fill") /\ Done(p)
    BY <1>6 DEF write_file
  <2>0. SoleNow(T, p, "fill")
    BY <2>1, SoleDoing
  <2>2. Now(p) = now /\ now.do = "fill" /\ now.path = File(T)
    BY <2>0 DEF SoleNow
  <2>a. disk[File(T)] # Missing
    BY <2>0 DEF SoleNow
  <2>3. disk' = [disk EXCEPT ![File(T)] = now.data]
    BY <1>6, <2>2, <2>a DEF write_file
  <2>4. disk'[File(T)] = now.data /\ Elsewhere(File(T))
    BY <1>1, <2>3 DEF Elsewhere
  <2>5. PICK u : Goes(p, u, TRUE) /\ Rest(p, u)
    BY <2>1, DoneRest
  <2>6. Cut(t, u)
    BY <1>2, <2>5, CutRest
  <2>7. SoleFills(T, v, t, work[p].begun, disk'[File(T)], u, TRUE)
    BY <2>2, <2>4, <2>6 DEF SoleFills
  <2>. QED BY <2>4, <2>5, <2>7, <1>n DEF SoleMoved, SoleGoes, v
<1>7. CASE MakeDirectory(p) \/ WriteUserProfileSnapshot(p) \/ rmdir_r(p) \/ Unlink(p) \/ RemoveDirectory(p)
  <2>1. \E do \in {"mkdir", "snapshot", "scan", "unlink"} : Doing(p, do)
    BY <1>7 DEF MakeDirectory, WriteUserProfileSnapshot, rmdir_r, Unlink, RemoveDirectory
  <2>. QED BY <2>1, SoleDoing DEF SoleNow
<1>. QED BY <1>3, <1>4, <1>5, <1>6, <1>7 DEF Moving

----------------------------------------------------------------------------
\* What is told of one of the two files does not touch the other

SameFor(T, h, g) ==
    IF T = "profile" THEN g.inputs = h.inputs /\ g.events = h.events /\ g.keys = h.keys
    ELSE g.reminders = h.reminders

LEMMA SameAgrees ==
    ASSUME NEW T \in Sole, NEW h, NEW g, SameFor(T, h, g), NEW v
    PROVE  /\ Agrees(T, v, h) <=> Agrees(T, v, g)
           /\ T = "profile" => (Sure(v, h) <=> Sure(v, g))
  BY DEF SameFor, Agrees, ProfileAgrees, Sure

LEMMA SameHeeded ==
    ASSUME NEW T \in Sole, NEW h \in Hearing, NEW g \in Hearing, SameFor(T, h, g), NEW r
    PROVE  SameFor(T, Heeded(h, r), Heeded(g, r))
<1>1. PICK a : a = Heeded(h, r)
  OBVIOUS
<1>2. PICK b : b = Heeded(g, r)
  OBVIOUS
<1>3. Heeds(a, h, r) /\ Heeds(b, g, r)
  BY <1>1, <1>2, HeededFields
<1>4. CASE T = "profile"
  <2>1. g.inputs = h.inputs /\ g.events = h.events /\ g.keys = h.keys
    BY <1>4 DEF SameFor
  <2>2. a.inputs = b.inputs
    BY <1>3, <2>1 DEF Heeds
  <2>3. a.events = b.events
    BY <1>3, <2>1 DEF Heeds
  <2>4. a.keys = b.keys
    BY <1>3, <2>1 DEF Heeds
  <2>. QED BY <1>1, <1>2, <1>4, <2>2, <2>3, <2>4 DEF SameFor
<1>5. CASE T # "profile"
  <2>1. g.reminders = h.reminders
    BY <1>5 DEF SameFor
  <2>2. a.reminders = b.reminders
    BY <1>3, <2>1 DEF Heeds, ReminderOps
  <2>. QED BY <1>1, <1>2, <1>5, <2>2 DEF SameFor
<1>. QED BY <1>4, <1>5

LEMMA SameStage ==
    ASSUME NEW T \in Sole, NEW h \in Hearing, NEW g \in Hearing, SameFor(T, h, g),
           NEW v, NEW r, NEW t, NEW b
    PROVE  /\ Stage(T, v, h, r, t, b) => Stage(T, v, g, r, t, b)
           /\ T = "profile" /\ SureStage(v, h, r, t) => SureStage(v, g, r, t)
<1>1. SameFor(T, Heeded(h, r), Heeded(g, r))
  BY SameHeeded
<1>2. \A w : /\ Agrees(T, w, h) <=> Agrees(T, w, g)
             /\ Agrees(T, w, Heeded(h, r)) <=> Agrees(T, w, Heeded(g, r))
  BY <1>1, SameAgrees
<1>3. T = "profile" => \A w : /\ Sure(w, h) <=> Sure(w, g)
                              /\ Sure(w, Heeded(h, r)) <=> Sure(w, Heeded(g, r))
  BY <1>1, SameAgrees
<1>4. Stage(T, v, h, r, t, b) => Stage(T, v, g, r, t, b)
  BY <1>2 DEF Stage
<1>5. T = "profile" => g.keys = h.keys
  BY DEF SameFor
<1>6. T = "profile" /\ SureStage(v, h, r, t) => SureStage(v, g, r, t)
  BY <1>3, <1>5 DEF SureStage
<1>. QED BY <1>4, <1>6

----------------------------------------------------------------------------
\* The invariant of the two files is kept by what is done elsewhere

SameHandlers(T) ==
    \A q \in Ports : work[q].thing = T \/ work'[q].thing = T =>
        /\ work'[q].thing = work[q].thing /\ work'[q].req = work[q].req
        /\ work'[q].todo = work[q].todo /\ work'[q].begun = work[q].begun

LEMMA SoleApart ==
    ASSUME NEW T \in Sole, SoleAt(T), Heard(told) \in Hearing, Heard(told') \in Hearing,
           SameFor(T, Heard(told), Heard(told')), disk'[File(T)] = disk[File(T)],
           Whole(T)' => Whole(T), SameHandlers(T)
    PROVE  SoleAt(T)'
<1>. DEFINE v == disk[File(T)]
            h == Heard(told)
            g == Heard(told')
<1>1. FileOk(T)'
  BY DEF SoleAt, FileOk
<1>2. ASSUME NEW q \in Ports PROVE TodoOk(T, q)'
  BY DEF SoleAt, TodoOk, SameHandlers
<1>3. Kept(T)'
  <2>. SUFFICES ASSUME Whole(T)'
                PROVE  /\ (\A p \in Ports : work'[p].thing # T) => Agrees(T, v, g)
                       /\ \A p \in Ports : work'[p].thing = T =>
                             Stage(T, v, g, work'[p].req, work'[p].todo, work'[p].begun)
    BY DEF Kept
  <2>1. /\ (\A p \in Ports : work[p].thing # T) => Agrees(T, v, h)
        /\ \A p \in Ports : work[p].thing = T => Stage(T, v, h, work[p].req, work[p].todo, work[p].begun)
    BY DEF SoleAt, Kept
  <2>2. (\A p \in Ports : work'[p].thing # T) => (\A p \in Ports : work[p].thing # T)
    BY DEF SameHandlers
  <2>3. Agrees(T, v, h) => Agrees(T, v, g)
    BY SameAgrees
  <2>4. ASSUME NEW p \in Ports, work'[p].thing = T
        PROVE  Stage(T, v, g, work'[p].req, work'[p].todo, work'[p].begun)
    <3>1. /\ work[p].thing = T /\ work'[p].req = work[p].req /\ work'[p].todo = work[p].todo
          /\ work'[p].begun = work[p].begun
      BY <2>4 DEF SameHandlers
    <3>2. Stage(T, v, h, work[p].req, work[p].todo, work[p].begun)
      BY <2>1, <3>1
    <3>3. Stage(T, v, g, work[p].req, work[p].todo, work[p].begun)
      BY <3>2, SameStage
    <3>. QED BY <3>1, <3>3
  <2>. QED BY <2>1, <2>2, <2>3, <2>4
<1>. QED BY <1>1, <1>2, <1>3 DEF SoleAt

LEMMA SureApart ==
    ASSUME SureKept, Heard(told) \in Hearing, Heard(told') \in Hearing,
           SameFor("profile", Heard(told), Heard(told')), disk'[File("profile")] = disk[File("profile")],
           "profile" \in overlapped => "profile" \in overlapped', SameHandlers("profile")
    PROVE  SureKept'
<1>. DEFINE v == disk[File("profile")]
            h == Heard(told)
            g == Heard(told')
<1>0. "profile" \in Sole
  BY DEF Sole
<1>. SUFFICES ASSUME "profile" \notin overlapped'
              PROVE  /\ Sure(v, g)
                     /\ \A p \in Ports : work'[p].thing = "profile" => SureStage(v, g, work'[p].req, work'[p].todo)
  BY DEF SureKept
<1>1. /\ Sure(v, h)
      /\ \A p \in Ports : work[p].thing = "profile" => SureStage(v, h, work[p].req, work[p].todo)
  BY DEF SureKept
<1>2. Sure(v, g)
  BY <1>0, <1>1, SameAgrees
<1>3. ASSUME NEW p \in Ports, work'[p].thing = "profile"
      PROVE  SureStage(v, g, work'[p].req, work'[p].todo)
  <2>1. work[p].thing = "profile" /\ work'[p].req = work[p].req /\ work'[p].todo = work[p].todo
    BY <1>3 DEF SameHandlers
  <2>2. SureStage(v, h, work[p].req, work[p].todo)
    BY <1>1, <2>1
  <2>3. SureStage(v, g, work[p].req, work[p].todo)
    BY <1>0, <2>2, SameStage
  <2>. QED BY <2>1, <2>3
<1>. QED BY <1>2, <1>3

\* Two handlers of one thing are noted.
LEMMA OnlyOne ==
    ASSUME Alone, NEW T, T # "none", T \notin overlapped, NEW p \in Ports, work[p].thing = T,
           NEW q \in Ports, work[q].thing = T
    PROVE  q = p
  BY DEF Alone, IsBusy

\* And by the steps of a handler of it.
LEMMA SoleActs ==
    ASSUME Handlers, Alone, Asked, Heard(told) \in Hearing, NEW T \in Sole, SoleAt(T),
           NEW p \in Ports, work[p].thing = T, SoleMoved(T, p), UNCHANGED <<told, overlapped, torn>>
    PROVE  SoleAt(T)' /\ (T = "profile" /\ SureKept => SureKept')
<1>. DEFINE v == disk[File(T)]
            w == disk'[File(T)]
            h == Heard(told)
<1>0. T # "none" /\ Heard(told') = h /\ (Whole(T)' <=> Whole(T))
  BY SoleThings DEF Whole
<1>1. SoleTodo(T, v, work[p].req.op, work[p].todo) /\ work[p].begun \in BOOLEAN
  BY SoleKnown
<1>2. FileOk(T) /\ Kept(T) /\ \A q \in Ports : TodoOk(T, q)
  BY DEF SoleAt
<1>3. CASE /\ Refused(p) /\ disk'[File(T)] = disk[File(T)] /\ Len(work[p].todo) = 1
           /\ work[p].todo[1].do = "modify"
  <2>1. work'[p].thing = "none" /\ \A q \in Ports \ {p} : work'[q] = work[q]
    BY <1>3, IdleForm DEF Refused
  <2>2. FileOk(T)' /\ \A q \in Ports : TodoOk(T, q)'
    BY <1>0, <1>2, <1>3, <2>1 DEF FileOk, TodoOk
  <2>3. Kept(T)'
    <3>. SUFFICES ASSUME Whole(T)
                  PROVE  /\ Agrees(T, v, h)
                         /\ \A q \in Ports : work'[q].thing # T
      BY <1>0, <1>3 DEF Kept
    <3>1. \A q \in Ports \ {p} : work[q].thing # T
      BY <1>0, OnlyOne DEF Whole
    <3>2. Stage(T, v, h, work[p].req, work[p].todo, work[p].begun)
      BY <1>2 DEF Kept
    <3>3. Agrees(T, v, h)
      BY <1>3, <3>2 DEF Stage
    <3>. QED BY <1>0, <2>1, <3>1, <3>3
  <2>4. T = "profile" /\ SureKept => SureKept'
    BY <1>0, <1>3, <2>1 DEF SureKept
  <2>. QED BY <2>2, <2>3, <2>4 DEF SoleAt
<1>4. CASE \E u, b : /\ Goes(p, u, b)
                     /\ SoleGoes(T, disk[File(T)], work[p].req, work[p].todo, work[p].begun, disk'[File(T)], u, b)
  <2>1. PICK u, b : Goes(p, u, b) /\ SoleGoes(T, v, work[p].req, work[p].todo, work[p].begun, w, u, b)
    BY <1>4
  <2>2. /\ work'[p].req = work[p].req /\ work'[p].thing = T /\ work'[p].todo = u /\ work'[p].begun = b
        /\ \A q \in Ports \ {p} : work'[q] = work[q]
    BY <2>1, GoesFields DEF Goes
  <2>3. work[p].todo # <<>> /\ IsList(work[p].todo)
    BY DEF SoleMoved, Handlers, IsHandler
  <2>4. SoleHandler(T, v, work[p].req, work[p].todo)
    BY <2>3, SoleKnown
  <2>5. SoleGone(T, v, h, work[p].req, work[p].todo, work[p].begun, w, u, b)
    BY <1>1, <2>1, <2>4, SoleStep
  <2>6. FileOk(T)'
    BY <2>5 DEF FileOk, SoleGone
  <2>7. ASSUME NEW q \in Ports PROVE TodoOk(T, q)'
    <3>1. CASE q = p
      BY <2>2, <2>5, <3>1 DEF TodoOk, SoleGone
    <3>2. CASE q # p
      <4>1. SUFFICES ASSUME work[q].thing = T PROVE SoleTodo(T, w, work[q].req.op, work[q].todo)
        BY <2>2, <3>2 DEF TodoOk
      <4>2. SoleTodo(T, v, work[q].req.op, work[q].todo) /\ (v # Missing => w # Missing)
        BY <1>2, <2>5, <4>1 DEF TodoOk, SoleGone
      <4>. QED BY <4>2 DEF SoleTodo
    <3>. QED BY <3>1, <3>2
  <2>8. Kept(T)'
    <3>. SUFFICES ASSUME Whole(T)
                  PROVE  \A q \in Ports : work'[q].thing = T =>
                            Stage(T, w, h, work'[q].req, work'[q].todo, work'[q].begun)
      BY <1>0, <2>2 DEF Kept
    <3>. SUFFICES ASSUME NEW q \in Ports, work'[q].thing = T
                  PROVE  Stage(T, w, h, work'[q].req, work'[q].todo, work'[q].begun)
      OBVIOUS
    <3>1. work[q].thing = T
      BY <2>2
    <3>2. q = p
      BY <1>0, <3>1, OnlyOne DEF Whole
    <3>3. Stage(T, v, h, work[p].req, work[p].todo, work[p].begun)
      BY <1>2 DEF Kept
    <3>. QED BY <2>2, <2>5, <3>2, <3>3 DEF SoleGone
  <2>9. ASSUME T = "profile", SureKept PROVE SureKept'
    <3>. SUFFICES ASSUME "profile" \notin overlapped
                  PROVE  /\ Sure(w, h)
                         /\ \A q \in Ports : work'[q].thing = T => SureStage(w, h, work'[q].req, work'[q].todo)
      BY <1>0, <2>9 DEF SureKept
    <3>1. Sure(v, h) /\ SureStage(v, h, work[p].req, work[p].todo)
      BY <2>9 DEF SureKept
    <3>2. Sure(w, h) /\ SureStage(w, h, work[p].req, u)
      BY <2>5, <2>9, <3>1 DEF SoleGone
    <3>3. ASSUME NEW q \in Ports, work'[q].thing = T PROVE q = p
      <4>1. work[q].thing = T
        BY <2>2, <3>3
      <4>. QED BY <1>0, <2>9, <4>1, OnlyOne
    <3>. QED BY <2>2, <3>2, <3>3
  <2>. QED BY <2>6, <2>7, <2>8, <2>9 DEF SoleAt
<1>. QED BY <1>3, <1>4 DEF SoleMoved

----------------------------------------------------------------------------
\* The picture, in two files, and what others may see

\* A handler of one of the files opens or writes it.
WriteMoved(p) ==
    LET t == work[p].todo
    IN  /\ t # <<>> /\ t[1].path \in Path
        /\ \E u : /\ Goes(p, u, TRUE)
                  /\ \/ /\ t[1].do = "open" /\ disk' = [disk EXCEPT ![t[1].path] = Torn]
                        /\ \E x : x.do = "fill" /\ x.path = t[1].path /\ x.data = t[1].data /\ Put(t, u, x)
                     \/ /\ t[1].do = "fill"
                        /\ disk' = IF disk[t[1].path] = Missing THEN disk
                                   ELSE [disk EXCEPT ![t[1].path] = t[1].data]
                        /\ Cut(t, u)

LEMMA WriteMoves ==
    ASSUME Handlers, NEW p \in Ports, work[p].thing \notin EntryIds, OpenForWriting(p) \/ write_file(p)
    PROVE  WriteMoved(p)
<1>. DEFINE t == work[p].todo
            now == t[1]
<1>1. PICK do \in {"open", "fill"} : Doing(p, do)
  BY DEF OpenForWriting, write_file
<1>2. /\ t # <<>> /\ Now(p) = now /\ now.do = do /\ Len(t) \in Nat
      /\ Proper(work[p].thing, work[p].req.op, now)
  BY <1>1, DoingFirst DEF FirstStep
<1>3. now = [do |-> now.do, path |-> now.path, data |-> now.data] /\ now.path \in PathsOf(work[p].thing)
  BY <1>1, <1>2 DEF Proper
<1>4. now.path[2] = "file" /\ now.path \in Path
  BY <1>3 DEF PathsOf, File, Path, Single
<1>5. now.path[1] \notin EntryIds
  BY <1>3, Distinct DEF PathsOf, File
<1>6. HasParent(now.path)
  BY <1>5 DEF HasParent
<1>7. CASE OpenForWriting(p)
  <2>1. Doing(p, "open") /\ now.do = "open"
    BY <1>2, <1>7 DEF OpenForWriting, Doing
  <2>. DEFINE x == [now EXCEPT !.do = "fill"]
  <2>3. /\ disk' = [disk EXCEPT ![now.path] = Torn]
        /\ work' = [work EXCEPT ![p].todo = <<x>> \o Tail(t), ![p].begun = TRUE]
    BY <1>2, <1>4, <1>6, <1>7 DEF OpenForWriting
  <2>4. x.do = "fill" /\ x.path = now.path /\ x.data = now.data
    <3>1. PICK a, b : now = [do |-> "open", path |-> a, data |-> b]
      BY <1>3, <2>1
    <3>. HIDE DEF now
    <3>. QED BY <3>1
  <2>. HIDE DEF x
  <2>5. PICK u : Goes(p, u, TRUE) /\ Instead1(p, u, x)
    BY <2>1, <2>3, BegunInstead
  <2>6. Put(t, u, x)
    BY <2>5, PutInstead
  <2>. QED BY <1>2, <1>4, <2>1, <2>3, <2>4, <2>5, <2>6 DEF WriteMoved
<1>8. CASE write_file(p)
  <2>1. Doing(p, "fill") /\ Done(p) /\ now.do = "fill"
    BY <1>2, <1>8 DEF write_file, Doing
  <2>3. disk' = IF disk[now.path] = Missing THEN disk ELSE [disk EXCEPT ![now.path] = now.data]
    BY <1>2, <1>8 DEF write_file
  <2>5. PICK u : Goes(p, u, TRUE) /\ Rest(p, u)
    BY <2>1, DoneRest
  <2>6. Cut(t, u)
    BY <1>2, <2>5, CutRest
  <2>. QED BY <1>2, <1>4, <2>1, <2>3, <2>5, <2>6 DEF WriteMoved
<1>. QED BY <1>7, <1>8

LEMMA TheSingles ==
    /\ \A s \in Single : File(s) \in Path
    /\ \A s, r \in Single : File(s) = File(r) => s = r
    /\ {"profile", "reminders", "user", "snapshot", "picture", "ext"} = Single
    /\ Single \cap EntryIds = {}
  BY Distinct DEF File, Path, Single

\* A handler of the picture takes a step.
LEMMA PictureMoves ==
    ASSUME Handlers, Alone, JournalInv, Asked, PictureInv, NEW p \in Ports, work[p].thing = "picture", Moving(p),
           UNCHANGED <<told, overlapped, torn>>
    PROVE  /\ PictureInv'
           /\ \A s \in Single \ {"picture", "ext"} : disk'[File(s)] = disk[File(s)]
<1>. DEFINE t == work[p].todo
            now == t[1]
            type == work[p].req.type
            pic == disk[File("picture")]
            ext == disk[File("ext")]
<1>1. PictureTodo(pic, ext, type, t, work[p].alone) /\ PictureList(t)
  BY DEF PictureInv, PictureAt, PictureTodo
<1>2. OpenForWriting(p) \/ write_file(p)
  <2>1. ASSUME NEW do, Doing(p, do) PROVE do \in {"open", "fill"}
    <3>1. t # <<>> /\ now.do = do
      BY <2>1, DoingFirst DEF FirstStep
    <3>. QED BY <1>1, <3>1 DEF PictureList, Writes
  <2>. QED BY <2>1 DEF Moving, init_profile_file_if_missing, ReadAndChange, MakeDirectory,
         WriteUserProfileSnapshot, rmdir_r, Unlink, RemoveDirectory
<1>3. "picture" \notin EntryIds /\ DOMAIN disk = Path
  BY TheSingles DEF Single, JournalInv, Tree
<1>4. WriteMoved(p)
  BY <1>2, <1>3, WriteMoves
<1>5. type \in Pictures /\ type \notin {Missing, Torn}
  <2>1. type \in Pictures
    BY DEF Asked, Fitting
  <2>. QED BY <2>1, DistinctAssumption DEF Contents
<1>6. PICK u : /\ Goes(p, u, TRUE) /\ t # <<>>
               /\ \/ /\ now.do = "open" /\ disk' = [disk EXCEPT ![now.path] = Torn]
                     /\ \E x : x.do = "fill" /\ x.path = now.path /\ x.data = now.data /\ Put(t, u, x)
                  \/ /\ now.do = "fill"
                     /\ disk' = IF disk[now.path] = Missing THEN disk ELSE [disk EXCEPT ![now.path] = now.data]
                     /\ Cut(t, u)
  BY <1>4 DEF WriteMoved
<1>7. /\ work'[p].req = work[p].req /\ work'[p].thing = "picture" /\ work'[p].todo = u
      /\ work'[p].alone = work[p].alone /\ work'[p].begun = TRUE /\ \A q \in Ports \ {p} : work'[q] = work[q]
  BY <1>6, GoesFields DEF Goes
<1>8. now.data = type /\ File("picture") # File("ext")
  BY <1>1, <1>6 DEF PictureTodo, File
<1>9. \/ Len(t) = 1 /\ now.path = File("ext")
      \/ Len(t) = 2 /\ now.path = File("picture") /\ t[2].do = "open" /\ t[2].path = File("ext") /\ t[2].data = type
  BY <1>1, <1>6 DEF PictureTodo, PictureList, Writes, Opens
<1>10. now.path \in {File("picture"), File("ext")} /\ File("picture") \in Path /\ File("ext") \in Path
  BY <1>9, TheSingles DEF Single
<1>11. \A x \in Path : x \notin {now.path} => disk'[x] = disk[x]
  BY <1>3, <1>6
<1>12. /\ pic # Missing => disk'[File("picture")] # Missing
       /\ ext # Missing => disk'[File("ext")] # Missing
  BY <1>3, <1>5, <1>6, <1>8, <1>10, DistinctAssumption
<1>13. PictureTodo(disk'[File("picture")], disk'[File("ext")], type, u, work[p].alone)
  <2>1. CASE now.do = "open"
    <3>1. PICK x : x.do = "fill" /\ x.path = now.path /\ x.data = now.data /\ Put(t, u, x)
      BY <1>6, <2>1
    <3>2. Len(u) = Len(t) /\ u[1] = x /\ (Len(t) = 2 => u[2] = t[2]) /\ u # <<>>
      BY <3>1 DEF Put
    <3>3. disk'[now.path] = Torn /\ Torn # Missing
      BY <1>3, <1>6, <1>10, <2>1, DistinctAssumption
    <3>4. CASE Len(t) = 1
      <4>1. now.path = File("ext") /\ disk'[File("picture")] = pic
        BY <1>8, <1>9, <1>10, <1>11, <3>4
      <4>2. work[p].alone => pic = type
        BY <1>1, <3>4 DEF PictureTodo
      <4>. QED BY <1>8, <3>1, <3>2, <3>3, <3>4, <4>1, <4>2 DEF PictureTodo, PictureList, Writes
    <3>5. CASE Len(t) = 2
      BY <1>8, <1>9, <3>1, <3>2, <3>3, <3>5 DEF PictureTodo, PictureList, Writes, Opens
    <3>. QED BY <1>9, <3>4, <3>5
  <2>2. CASE now.do = "fill"
    <3>1. Cut(t, u)
      BY <1>6, <2>2
    <3>2. (Len(t) = 1 => u = <<>>) /\ (Len(t) = 2 => Len(u) = 1 /\ u[1] = t[2])
      BY <3>1 DEF Cut
    <3>3. disk[now.path] # Missing
      BY <1>1, <1>9, <2>2 DEF PictureTodo
    <3>4. disk'[now.path] = type
      BY <1>3, <1>6, <1>8, <1>10, <2>2, <3>3
    <3>5. CASE Len(t) = 1
      <4>1. now.path = File("ext") /\ disk'[File("picture")] = pic
        BY <1>8, <1>9, <1>10, <1>11, <3>5
      <4>2. work[p].alone => pic = type
        BY <1>1, <3>5 DEF PictureTodo
      <4>3. Len(<<>>) = 0
        OBVIOUS
      <4>. QED BY <3>2, <3>4, <3>5, <4>1, <4>2, <4>3 DEF PictureTodo, PictureList
    <3>6. CASE Len(t) = 2
      <4>1. u # <<>>
        <5>1. Len(<<>>) = 0
          OBVIOUS
        <5>. QED BY <3>2, <3>6, <5>1
      <4>. QED BY <1>9, <3>2, <3>4, <3>6, <4>1 DEF PictureTodo, PictureList, Writes
    <3>. QED BY <1>9, <3>5, <3>6
  <2>. QED BY <1>6, <2>1, <2>2
<1>14. ASSUME NEW q \in Ports PROVE PictureAt(q)'
  <2>1. CASE q = p
    BY <1>7, <1>13, <2>1 DEF PictureAt
  <2>2. CASE q # p
    <3>. SUFFICES ASSUME work[q].thing = "picture"
                  PROVE  PictureTodo(disk'[File("picture")], disk'[File("ext")], work[q].req.type, work[q].todo, work[q].alone)
      BY <1>7, <2>2 DEF PictureAt
    <3>1. PictureTodo(pic, ext, work[q].req.type, work[q].todo, work[q].alone)
      BY DEF PictureInv, PictureAt
    <3>2. ~work[q].alone
      BY <2>2 DEF Alone, IsBusy
    <3>. QED BY <1>12, <3>1, <3>2 DEF PictureTodo
  <2>. QED BY <2>1, <2>2
<1>15. PictureKept'
  BY <1>7 DEF PictureKept
<1>16. \A s \in Single \ {"picture", "ext"} : disk'[File(s)] = disk[File(s)]
  BY <1>10, <1>11, TheSingles
<1>. QED BY <1>14, <1>15, <1>16 DEF PictureInv

LEMMA OwnFiles ==
    ASSUME NEW p \in Ports, JournalInv, Reaches(p), work[p].thing \in EntryIds \cup {"user"}
    PROVE  \A s \in Single \ {"user", "snapshot"} : disk'[File(s)] = disk[File(s)]
<1>1. CASE disk' = disk
  BY <1>1
<1>2. CASE \E path \in PathsOf(work[p].thing) : \E v : Puts(path, v)
  <2>0. PICK path \in PathsOf(work[p].thing) : \E v : Puts(path, v)
    BY <1>2
  <2>1. PICK v : Puts(path, v)
    BY <2>0
  <2>2. disk' = [disk EXCEPT ![path] = v] /\ DOMAIN disk = Path
    BY <2>1 DEF Puts, JournalInv, Tree
  <2>3. CASE work[p].thing \in EntryIds
    <3>1. path[1] \in EntryIds
      BY <2>3 DEF PathsOf
    <3>2. \A s \in Single : File(s)[1] = s
      BY DEF File
    <3>3. \A s \in Single : path # File(s) /\ File(s) \in Path
      BY <3>1, <3>2, TheSingles
    <3>. QED BY <2>2, <3>3
  <2>4. CASE work[p].thing = "user"
    <3>1. path \in {File("user"), File("snapshot")}
      BY <2>1, <2>4, NotThings DEF PathsOf
    <3>2. \A s \in Single \ {"user", "snapshot"} : path # File(s) /\ File(s) \in Path
      BY <3>1, TheSingles
    <3>. QED BY <2>2, <3>2
  <2>. QED BY <2>3, <2>4
<1>. QED BY <1>1, <1>2 DEF Reaches

\* A handler of the user's record takes a step.
LEMMA SnapshotMoves ==
    ASSUME Handlers, JournalInv, UserInv, SnapshotInv, NEW p \in Ports, work[p].thing = "user", Moving(p)
    PROVE  SnapshotInv'
<1>. DEFINE t == work[p].todo
            now == t[1]
            Ok(u) == u # <<>> /\ Writes(u[1], File("snapshot")) => u[1].data \in Seen
<1>1. /\ disk[File("snapshot")] \in Seen \cup {Missing, Torn} /\ Ok(t)
      /\ \A q \in Ports : SnapshotAt(q)
      /\ mem.look \in Seen /\ File("user") # File("snapshot") /\ File("snapshot") \in Path /\ File("user") \in Path
      /\ DOMAIN disk = Path
  BY TheSingles DEF SnapshotInv, SnapshotAt, UserInv, Users, Seen, File, Single, JournalInv, Tree
<1>2. ASSUME NEW u, Ok(u), disk'[File("snapshot")] \in Seen \cup {Missing, Torn}, NEW b, Goes(p, u, b)
      PROVE  SnapshotInv'
  <2>1. work'[p].todo = u /\ \A q \in Ports \ {p} : work'[q] = work[q]
    BY <1>2, GoesFields DEF Goes
  <2>2. \A q \in Ports : SnapshotAt(q)'
    BY <1>1, <1>2, <2>1 DEF SnapshotAt
  <2>. QED BY <1>2, <2>2 DEF SnapshotInv
<1>3. CASE init_profile_file_if_missing(p)
  BY <1>3, DoingFirst DEF init_profile_file_if_missing, Proper
<1>4. CASE MakeDirectory(p) \/ rmdir_r(p) \/ Unlink(p) \/ RemoveDirectory(p)
  <2>1. \E do \in {"mkdir", "scan", "unlink"} : Doing(p, do)
    BY <1>4 DEF MakeDirectory, rmdir_r, Unlink, RemoveDirectory
  <2>. QED BY <2>1, DoingFirst, NotThings DEF Proper
<1>5. CASE ReadAndChange(p)
  <2>1. Doing(p, "modify") /\ disk' = disk
    BY <1>5 DEF ReadAndChange
  <2>2. Now(p) = now /\ now.path = File("user")
    BY <2>1, SavingStep
  <2>. DEFINE new == Modified(work[p].req, disk[File("user")])
              x == Write(File("user"), new)
  <2>3. IF new = NotSaved THEN Refuse(p) ELSE Instead(p, <<x>>)
    BY <1>5, <2>2 DEF ReadAndChange
  <2>4. x.path = File("user")
    BY DEF Write
  <2>. HIDE DEF new, x
  <2>5. CASE new = NotSaved
    <3>1. Refused(p)
      BY <2>3, <2>5, RefuseRefused
    <3>2. \A q \in Ports : SnapshotAt(q)'
      BY <1>1, <3>1, IdleForm DEF Refused, SnapshotAt
    <3>. QED BY <1>1, <2>1, <3>2 DEF SnapshotInv
  <2>6. CASE new # NotSaved
    <3>1. PICK u : Goes(p, u, work[p].begun) /\ Instead1(p, u, x)
      BY <2>1, <2>3, <2>6, OneInstead
    <3>2. Ok(u)
      BY <1>1, <2>4, <3>1 DEF Instead1, Writes
    <3>. QED BY <1>1, <1>2, <2>1, <3>1, <3>2
  <2>. QED BY <2>5, <2>6
<1>6. CASE OpenForWriting(p) \/ write_file(p)
  <2>0. work[p].thing \notin EntryIds
    BY NotThings
  <2>1. WriteMoved(p)
    BY <1>6, <2>0, WriteMoves
  <2>2. PICK u : /\ Goes(p, u, TRUE) /\ t # <<>> /\ now.path \in Path
                 /\ \/ /\ now.do = "open" /\ disk' = [disk EXCEPT ![now.path] = Torn]
                       /\ \E x : x.do = "fill" /\ x.path = now.path /\ x.data = now.data /\ Put(t, u, x)
                    \/ /\ now.do = "fill"
                       /\ disk' = IF disk[now.path] = Missing THEN disk ELSE [disk EXCEPT ![now.path] = now.data]
                       /\ Cut(t, u)
    BY <2>1 DEF WriteMoved
  <2>3. now.path = File("snapshot") => now.data \in Seen
    BY <1>1, <2>2 DEF Writes
  <2>4. disk'[File("snapshot")] \in Seen \cup {Missing, Torn}
    BY <1>1, <2>2, <2>3
  <2>5. CASE now.do = "open"
    <3>1. PICK x : x.do = "fill" /\ x.path = now.path /\ x.data = now.data /\ Put(t, u, x)
      BY <2>2, <2>5
    <3>2. Ok(u)
      BY <2>3, <3>1 DEF Put, Writes
    <3>. QED BY <1>2, <2>2, <2>4, <3>2
  <2>6. CASE now.do = "fill"
    <3>1. Cut(t, u) /\ (u = <<>> \/ Len(t) # 1)
      BY <2>2, <2>6 DEF Cut
    <3>2. u # <<>> => Len(t) = 2 /\ t[2].do = "snapshot"
      <4>1. Doing(p, "fill")
        BY <1>6, <2>2, <2>6, DoingFirst DEF OpenForWriting, write_file, FirstStep
      <4>2. (Len(t) = 2 /\ t[2].do = "snapshot") \/ Len(t) = 1
        BY <4>1, SavingStep
      <4>. QED BY <3>1, <4>2
    <3>3. Ok(u)
      BY <3>1, <3>2 DEF Cut, Writes
    <3>. QED BY <1>2, <2>2, <2>4, <3>3
  <2>. QED BY <2>2, <2>5, <2>6
<1>7. CASE WriteUserProfileSnapshot(p)
  <2>. DEFINE x == Write(File("snapshot"), mem.look)
  <2>1. Doing(p, "snapshot") /\ x.data = mem.look
    BY <1>7 DEF WriteUserProfileSnapshot, Write
  <2>2. \/ (Instead(p, <<x>>) /\ disk' = disk)
        \/ (disk' = [disk EXCEPT ![File("snapshot")] = Missing] /\ Done(p))
    BY <1>7 DEF WriteUserProfileSnapshot
  <2>. HIDE DEF x
  <2>3. CASE Instead(p, <<x>>) /\ disk' = disk
    <3>1. PICK u : Goes(p, u, work[p].begun) /\ Instead1(p, u, x)
      BY <2>1, <2>3, OneInstead
    <3>2. Ok(u)
      BY <1>1, <2>1, <3>1 DEF Instead1, Writes
    <3>. QED BY <1>1, <1>2, <2>3, <3>1, <3>2
  <2>4. CASE disk' = [disk EXCEPT ![File("snapshot")] = Missing] /\ Done(p)
    <3>1. PICK u : Goes(p, u, TRUE) /\ Rest(p, u)
      BY <2>1, <2>4, DoneRest
    <3>2. Len(t) = 1 /\ Len(t) \in Nat
      BY <2>1, SavingStep
    <3>3. u = <<>>
      BY <3>1, <3>2, CutRest DEF Cut
    <3>. QED BY <1>1, <1>2, <2>4, <3>1, <3>3
  <2>. QED BY <2>2, <2>3, <2>4
<1>. QED BY <1>3, <1>4, <1>5, <1>6, <1>7 DEF Moving

----------------------------------------------------------------------------
\* What is done elsewhere

LEMMA SnapshotApart ==
    ASSUME SnapshotInv, disk'[File("snapshot")] = disk[File("snapshot")], SameHandlers("user")
    PROVE  SnapshotInv'
<1>1. ASSUME NEW q \in Ports PROVE SnapshotAt(q)'
  BY DEF SnapshotInv, SnapshotAt, SameHandlers
<1>. QED BY <1>1 DEF SnapshotInv

LEMMA PictureApart ==
    ASSUME PictureInv, disk'[File("picture")] = disk[File("picture")], disk'[File("ext")] = disk[File("ext")],
           told'["picture"] = told["picture"], SameHandlers("picture"), Whole("picture")' => Whole("picture"),
           \A q \in Ports : work'[q].thing = "picture" /\ work'[q].alone => work[q].alone
    PROVE  PictureInv'
<1>1. ASSUME NEW q \in Ports PROVE PictureAt(q)'
  <2>. SUFFICES ASSUME work'[q].thing = "picture"
                PROVE  PictureTodo(disk[File("picture")], disk[File("ext")], work'[q].req.type, work'[q].todo,
                                   work'[q].alone)
    BY DEF PictureAt
  <2>1. /\ work[q].thing = "picture" /\ work'[q].req = work[q].req /\ work'[q].todo = work[q].todo
        /\ work'[q].alone => work[q].alone
    BY DEF SameHandlers
  <2>2. PictureTodo(disk[File("picture")], disk[File("ext")], work[q].req.type, work[q].todo, work[q].alone)
    BY <2>1 DEF PictureInv, PictureAt
  <2>. QED BY <2>1, <2>2 DEF PictureTodo
<1>2. PictureKept'
  <2>1. (\A q \in Ports : work'[q].thing = "picture" => ~work'[q].begun) =>
            \A q \in Ports : work[q].thing = "picture" => ~work[q].begun
    BY DEF SameHandlers
  <2>2. PictureAgrees => PictureAgrees'
    BY DEF PictureAgrees
  <2>. QED BY <2>1, <2>2 DEF PictureInv, PictureKept
<1>. QED BY <1>1, <1>2 DEF PictureInv

LEMMA AskedKept ==
    ASSUME Asked,
           \A q \in Ports : \/ work'[q].req = work[q].req /\ work'[q].thing = work[q].thing
                            \/ work'[q] = Idle
    PROVE  Asked'
<1>1. Idle.req.op \notin ProfileOps \cup ReminderOps \cup {"picture"} /\ Idle.thing \notin Sole \cup {"picture"}
  BY IdleForm DEF ProfileOps, ReminderOps, Sole
<1>2. Fitting(Idle.req)
  BY IdleForm DEF Fitting
<1>. SUFFICES ASSUME NEW q \in Ports
              PROVE  /\ Fitting(work'[q].req)
                     /\ work'[q].thing = "profile" <=> work'[q].req.op \in ProfileOps
                     /\ work'[q].thing = "reminders" <=> work'[q].req.op \in ReminderOps
                     /\ work'[q].thing = "picture" <=> work'[q].req.op = "picture"
  BY DEF Asked
<1>3. CASE work'[q] = Idle
  BY <1>1, <1>2, <1>3 DEF Sole
<1>4. CASE work'[q].req = work[q].req /\ work'[q].thing = work[q].thing
  BY <1>4 DEF Asked
<1>. QED BY <1>3, <1>4

----------------------------------------------------------------------------
\* The files that are not of the journal: the steps of all handlers

LEMMA PlainSteps ==
    ASSUME IInv, PlainInv, NEW p \in Ports, Moving(p)
    PROVE  PlainInv'
<1>1. /\ Handlers /\ Alone /\ JournalInv /\ UserInv /\ Asked /\ Heard(told) \in Hearing
      /\ (\A T \in Sole : SoleAt(T)) /\ SureKept /\ PictureInv /\ SnapshotInv /\ Noted
  BY DEF IInv, PlainInv, SoleInv
<1>2. Reaches(p) /\ UNCHANGED <<told, overlapped, torn>>
  BY <1>1, StepReaches
<1>3. work[p].thing \in Things
  <2>1. \E do : Doing(p, do)
    BY DEF Moving, init_profile_file_if_missing, ReadAndChange, OpenForWriting, write_file,
           MakeDirectory, WriteUserProfileSnapshot, rmdir_r, Unlink, RemoveDirectory
  <2>. QED BY <1>1, <2>1, DoingFirst
<1>4. /\ \A q \in Ports \ {p} : work'[q] = work[q]
      /\ \/ work'[p].req = work[p].req /\ work'[p].thing = work[p].thing /\ work'[p].alone = work[p].alone
         \/ work'[p] = Idle
  BY <1>2 DEF Reaches
<1>5. Asked'
  BY <1>1, <1>4, AskedKept
<1>6. Noted'
  BY <1>1, <1>2 DEF Noted
<1>7. Heard(told') = Heard(told) /\ \A T \in Things : Whole(T)' <=> Whole(T)
  BY <1>2 DEF Whole
<1>8. ASSUME NEW T \in Things, work[p].thing # T PROVE SameHandlers(T)
  <2>1. work'[p].thing # T
    BY <1>4, <1>8, IdleForm, NotThings
  <2>. QED BY <1>4, <1>8, <2>1 DEF SameHandlers
<1>9. \A T \in Sole : SameFor(T, Heard(told), Heard(told'))
  BY <1>7 DEF SameFor
<1>10. "picture" \in Things /\ "user" \in Things /\ Sole \subseteq Things /\ Sole \subseteq Single
       /\ {"picture", "ext"} \subseteq Single
  BY NotThings, TheSingles DEF Things, Sole, Single
<1>11. \A s \in Single :
           /\ work[p].thing \in Sole /\ s # work[p].thing => disk'[File(s)] = disk[File(s)]
           /\ work[p].thing = "picture" /\ s \notin {"picture", "ext"} => disk'[File(s)] = disk[File(s)]
           /\ work[p].thing \in EntryIds \cup {"user"} /\ s \notin {"user", "snapshot"} =>
                 disk'[File(s)] = disk[File(s)]
  <2>1. CASE work[p].thing \in Sole
    <3>1. Elsewhere(File(work[p].thing))
      BY <1>1, <2>1, SoleMoves DEF SoleMoved
    <3>. QED BY <2>1, <3>1, TheSingles, SoleThings DEF Elsewhere, Sole
  <2>2. CASE work[p].thing = "picture"
    BY <1>1, <1>2, <2>2, PictureMoves, TheSingles, SoleThings
  <2>3. CASE work[p].thing \in EntryIds \cup {"user"}
    BY <1>1, <1>2, <2>3, OwnFiles, TheSingles, SoleThings, Distinct
  <2>. QED BY <2>1, <2>2, <2>3
<1>12. work[p].thing \in Sole \cup {"picture", "user"} \cup EntryIds
  BY <1>3 DEF Things, Sole
<1>13. ASSUME NEW T \in Sole PROVE SoleAt(T)'
  <2>1. CASE work[p].thing = T
    BY <1>1, <1>2, <2>1, SoleMoves, SoleActs
  <2>2. CASE work[p].thing # T
    <3>1. disk'[File(T)] = disk[File(T)]
      <4>1. T \in Single /\ T \notin {"picture", "ext", "user", "snapshot"}
        BY <1>10 DEF Sole
      <4>. QED BY <1>11, <1>12, <2>2, <4>1
    <3>. QED BY <1>1, <1>7, <1>8, <1>9, <1>10, <2>2, <3>1, SoleApart
  <2>. QED BY <2>1, <2>2
<1>14. SureKept'
  <2>0. "profile" \in Sole
    BY DEF Sole
  <2>1. CASE work[p].thing = "profile"
    <3>1. SoleMoved("profile", p)
      BY <1>1, <2>0, <2>1, SoleMoves
    <3>. QED BY <1>1, <1>2, <2>0, <2>1, <3>1, SoleActs
  <2>2. CASE work[p].thing # "profile"
    <3>1. disk'[File("profile")] = disk[File("profile")]
      BY <1>10, <1>11, <1>12, <2>0, <2>2
    <3>2. "profile" \in overlapped => "profile" \in overlapped'
      BY <1>2
    <3>. QED BY <1>1, <1>7, <1>8, <1>9, <1>10, <2>0, <2>2, <3>1, <3>2, SureApart
  <2>. QED BY <2>1, <2>2
<1>15. PictureInv'
  <2>1. CASE work[p].thing = "picture"
    BY <1>1, <1>2, <2>1, PictureMoves
  <2>2. CASE work[p].thing # "picture"
    <3>1. disk'[File("picture")] = disk[File("picture")] /\ disk'[File("ext")] = disk[File("ext")]
      <4>1. "picture" \notin Sole /\ "ext" \notin Sole
        BY DEF Sole
      <4>. QED BY <1>10, <1>11, <1>12, <2>2, <4>1
    <3>2. \A q \in Ports : work'[q].thing = "picture" /\ work'[q].alone => work[q].alone
      BY <1>4, IdleForm
    <3>. QED BY <1>1, <1>2, <1>7, <1>8, <1>10, <2>2, <3>1, <3>2, PictureApart
  <2>. QED BY <2>1, <2>2
<1>16. SnapshotInv'
  <2>1. CASE work[p].thing = "user"
    BY <1>1, <2>1, SnapshotMoves
  <2>2. CASE work[p].thing # "user"
    <3>1. disk'[File("snapshot")] = disk[File("snapshot")]
      BY <1>1, <1>2, <1>3, <2>2, ApartFiles, NotThings
    <3>. QED BY <1>1, <1>8, <1>10, <2>2, <3>1, SnapshotApart
  <2>. QED BY <2>1, <2>2
<1>17. SoleInv'
  BY <1>1, <1>5, <1>7, <1>13, <1>14 DEF SoleInv
<1>. QED BY <1>6, <1>15, <1>16, <1>17 DEF PlainInv

----------------------------------------------------------------------------
\* The answer, the crash, and the start

\* What is told by an answer, name by name.
TellsOf(g, f, r) ==
    /\ g["inputs"] = IF r.op = "input" THEN Append(f["inputs"], r.text) ELSE f["inputs"]
    /\ g["events"] = IF r.op = "event" THEN Append(f["events"], <<r.event, r.goal>>) ELSE f["events"]
    /\ g["keys"] = IF r.op = "set" THEN [f["keys"] EXCEPT ![r.key] = r.value]
                   ELSE IF r.op = "clear" THEN [f["keys"] EXCEPT ![r.key] = None] ELSE f["keys"]
    /\ g["reminders"] = IF r.op = "remind" THEN {x \in f["reminders"] : x.id # r.reminder.id} \cup {r.reminder}
                        ELSE IF r.op = "forget" THEN {x \in f["reminders"] : x.id # r.id} ELSE f["reminders"]
    /\ g["picture"] = IF r.op = "picture" THEN <<r.type, r.type>> ELSE f["picture"]

LEMMA ToldBy ==
    ASSUME Handlers, JournalInv, NEW p \in Ports, IsBusy(p), told' = Tell(work[p].req)
    PROVE  TellsOf(told', told, work[p].req)
<1>. DEFINE r == work[p].req
<1>1. DOMAIN told = Said /\ {"inputs", "events", "keys", "reminders", "picture"} \subseteq Said
  BY DEF JournalInv, Standing, Said
<1>2. (r.op \in EntryOps /\ r.id \in EntryIds) \/ r.op \in PlainOps
  BY DEF Handlers, IsHandler, IsBusy
<1>3. CASE r.op \in EntryOps /\ r.id \in EntryIds
  <2>1. told' = told \/ \E v : told' = [told EXCEPT ![r.id] = v]
    BY <1>3 DEF Tell, EntryOps
  <2>2. r.id \notin {"inputs", "events", "keys", "reminders", "picture"}
    BY <1>3, Distinct
  <2>3. \A x \in {"inputs", "events", "keys", "reminders", "picture"} : told'[x] = told[x]
    BY <1>1, <2>1, <2>2
  <2>4. r.op \notin {"input", "event", "set", "clear", "remind", "forget", "picture"}
    BY <1>3 DEF EntryOps
  <2>. QED BY <2>3, <2>4 DEF TellsOf
<1>4. ASSUME NEW x \in {"inputs", "events", "keys", "reminders", "picture"}, NEW v, told' = [told EXCEPT ![x] = v]
      PROVE  told'[x] = v /\ \A y \in {"inputs", "events", "keys", "reminders", "picture"} \ {x} : told'[y] = told[y]
  BY <1>1, <1>4
<1>5. CASE r.op = "input"
  <2>1. PICK v : v = Append(told["inputs"], r.text)
    OBVIOUS
  <2>2. told' = [told EXCEPT !["inputs"] = v]
    BY <1>5, <2>1 DEF Tell
  <2>. QED BY <1>4, <1>5, <2>1, <2>2 DEF TellsOf
<1>6. CASE r.op = "event"
  <2>1. PICK v : v = Append(told["events"], <<r.event, r.goal>>)
    OBVIOUS
  <2>2. told' = [told EXCEPT !["events"] = v]
    BY <1>6, <2>1 DEF Tell
  <2>. QED BY <1>4, <1>6, <2>1, <2>2 DEF TellsOf
<1>7. CASE r.op = "set"
  <2>1. PICK v : v = [told["keys"] EXCEPT ![r.key] = r.value]
    OBVIOUS
  <2>2. told' = [told EXCEPT !["keys"] = v]
    BY <1>7, <2>1 DEF Tell
  <2>. QED BY <1>4, <1>7, <2>1, <2>2 DEF TellsOf
<1>8. CASE r.op = "clear"
  <2>1. PICK v : v = [told["keys"] EXCEPT ![r.key] = None]
    OBVIOUS
  <2>2. told' = [told EXCEPT !["keys"] = v]
    BY <1>8, <2>1 DEF Tell
  <2>. QED BY <1>4, <1>8, <2>1, <2>2 DEF TellsOf
<1>9. CASE r.op = "remind"
  <2>1. PICK v : v = {x \in told["reminders"] : x.id # r.reminder.id} \cup {r.reminder}
    OBVIOUS
  <2>2. told' = [told EXCEPT !["reminders"] = v]
    BY <1>9, <2>1 DEF Tell
  <2>. QED BY <1>4, <1>9, <2>1, <2>2 DEF TellsOf
<1>10. CASE r.op = "forget"
  <2>1. PICK v : v = {x \in told["reminders"] : x.id # r.id}
    OBVIOUS
  <2>2. told' = [told EXCEPT !["reminders"] = v]
    BY <1>10, <2>1 DEF Tell
  <2>. QED BY <1>4, <1>10, <2>1, <2>2 DEF TellsOf
<1>11. CASE r.op = "picture"
  <2>1. PICK v : v = <<r.type, r.type>>
    OBVIOUS
  <2>2. told' = [told EXCEPT !["picture"] = v]
    BY <1>11, <2>1 DEF Tell
  <2>. QED BY <1>4, <1>11, <2>1, <2>2 DEF TellsOf
<1>12. CASE r.op \in {"read", "user"}
  <2>1. told' = told
    BY <1>12 DEF Tell
  <2>. QED BY <1>12, <2>1 DEF TellsOf
<1>. QED BY <1>2, <1>3, <1>5, <1>6, <1>7, <1>8, <1>9, <1>10, <1>11, <1>12 DEF PlainOps

LEMMA HeardTold ==
    ASSUME NEW f, NEW g, NEW r, TellsOf(g, f, r), Heard(f) \in Hearing
    PROVE  Heard(g) = Heeded(Heard(f), r)
<1>1. PICK h : h = Heard(f)
  OBVIOUS
<1>2. PICK k : k = Heeded(h, r)
  OBVIOUS
<1>3. Heeds(k, h, r)
  BY <1>1, <1>2, HeededFields
<1>4. /\ h.inputs = f["inputs"] /\ h.events = f["events"] /\ h.keys = f["keys"] /\ h.reminders = f["reminders"]
  BY <1>1 DEF Heard
<1>5. k.inputs = g["inputs"]
  BY <1>3, <1>4 DEF TellsOf, Heeds
<1>6. k.events = g["events"]
  BY <1>3, <1>4 DEF TellsOf, Heeds
<1>7. k.keys = g["keys"]
  BY <1>3, <1>4 DEF TellsOf, Heeds
<1>8. k.reminders = g["reminders"]
  BY <1>3, <1>4 DEF TellsOf, Heeds, ReminderOps
<1>9. k = [inputs |-> k.inputs, events |-> k.events, keys |-> k.keys, reminders |-> k.reminders]
  BY <1>3 DEF Heeds
<1>. QED BY <1>1, <1>2, <1>5, <1>6, <1>7, <1>8, <1>9 DEF Heard

LEMMA HeardSame ==
    ASSUME NEW h \in Hearing, NEW r, NEW T \in Sole,
           T = "profile" => r.op \notin ProfileOps, T = "reminders" => r.op \notin ReminderOps
    PROVE  SameFor(T, h, Heeded(h, r))
<1>1. PICK g : g = Heeded(h, r)
  OBVIOUS
<1>2. Heeds(g, h, r)
  BY <1>1, HeededFields
<1>3. CASE T = "profile"
  <2>1. g.inputs = h.inputs
    BY <1>2, <1>3 DEF Heeds, ProfileOps
  <2>2. g.events = h.events
    BY <1>2, <1>3 DEF Heeds, ProfileOps
  <2>3. g.keys = h.keys
    BY <1>2, <1>3 DEF Heeds, ProfileOps
  <2>. QED BY <1>1, <1>3, <2>1, <2>2, <2>3 DEF SameFor
<1>4. CASE T = "reminders"
  <2>1. g.reminders = h.reminders
    BY <1>2, <1>4 DEF Heeds, ReminderOps
  <2>. QED BY <1>1, <1>4, <2>1 DEF SameFor
<1>. QED BY <1>3, <1>4 DEF Sole

LEMMA PlainAnswers ==
    ASSUME IInv, PlainInv, NEW p \in Ports, Answer(p)
    PROVE  PlainInv'
<1>. DEFINE r == work[p].req
            h == Heard(told)
            thing == work[p].thing
<1>1. /\ Handlers /\ Alone /\ JournalInv /\ UserInv /\ Asked /\ h \in Hearing
      /\ (\A T \in Sole : SoleAt(T)) /\ SureKept /\ PictureInv /\ SnapshotInv /\ Noted
  BY DEF IInv, PlainInv, SoleInv
<1>2. /\ IsBusy(p) /\ work[p].todo = <<>> /\ told' = Tell(r) /\ disk' = disk
      /\ work'[p] = Idle /\ \A q \in Ports \ {p} : work'[q] = work[q]
  BY <1>1 DEF Answer, Handlers
<1>3. \E m : /\ m = {x \in {thing} : work[p].alone /\ x \in {"user", "picture"}}
             /\ overlapped' = overlapped \ m /\ torn' = torn \ m
  BY DEF Answer
<1>4. /\ \A T \in Things : T \notin {"user", "picture"} => (T \in overlapped' <=> T \in overlapped) /\ (Whole(T)' <=> Whole(T))
      /\ thing # "picture" => (Whole("picture")' <=> Whole("picture"))
      /\ ~work[p].alone => (Whole("picture")' <=> Whole("picture"))
      /\ overlapped' \subseteq overlapped /\ torn' \subseteq torn
  BY <1>3 DEF Whole
<1>5. TellsOf(told', told, r)
  BY <1>1, <1>2, ToldBy
<1>6. Heard(told') = Heeded(h, r)
  BY <1>1, <1>5, HeardTold
<1>7. Fitting(r)
  BY <1>1 DEF Asked
<1>8. Heard(told') \in Hearing
  BY <1>1, <1>6, <1>7, HeededHearing
<1>9. Asked'
  BY <1>1, <1>2, AskedKept
<1>10. Noted'
  BY <1>1, <1>4 DEF Noted
<1>11. thing \in Things
  BY <1>1, <1>2 DEF Handlers, IsHandler, IsBusy
<1>12. ASSUME NEW T \in Things, thing # T PROVE SameHandlers(T)
  BY <1>2, <1>12, IdleForm, NotThings DEF SameHandlers
<1>13. Sole \subseteq Things /\ "user" \in Things /\ "picture" \in Things /\ Sole \cap {"user", "picture"} = {}
       /\ "profile" \in Sole
  BY NotThings DEF Things, Sole
<1>14. ASSUME NEW T \in Sole, thing # T PROVE SameFor(T, h, Heard(told'))
  <2>1. /\ T = "profile" => r.op \notin ProfileOps
        /\ T = "reminders" => r.op \notin ReminderOps
    BY <1>1, <1>14 DEF Asked
  <2>. QED BY <1>1, <1>6, <2>1, HeardSame
<1>15. ASSUME NEW T \in Sole PROVE SoleAt(T)'
  <2>1. CASE thing # T
    BY <1>1, <1>2, <1>4, <1>8, <1>12, <1>13, <1>14, <2>1, SoleApart
  <2>2. CASE thing = T
    <3>1. FileOk(T)' /\ \A q \in Ports : TodoOk(T, q)'
      BY <1>1, <1>2, <2>2, IdleForm, NotThings, <1>13 DEF SoleAt, FileOk, TodoOk
    <3>2. Kept(T)'
      <4>. SUFFICES ASSUME Whole(T)
                    PROVE  /\ Agrees(T, disk[File(T)], Heeded(h, r))
                           /\ \A q \in Ports : work'[q].thing # T
        BY <1>2, <1>4, <1>6, <1>13 DEF Kept
      <4>1. Stage(T, disk[File(T)], h, r, work[p].todo, work[p].begun)
        BY <1>1, <2>2 DEF SoleAt, Kept
      <4>2. Agrees(T, disk[File(T)], Heeded(h, r))
        BY <1>2, <4>1 DEF Stage
      <4>3. \A q \in Ports \ {p} : work[q].thing # T
        BY <1>1, <2>2, <1>13, NotThings, OnlyOne DEF Whole
      <4>4. work'[p].thing # T
        BY <1>2, <1>13, IdleForm, NotThings
      <4>. QED BY <1>2, <4>2, <4>3, <4>4
    <3>. QED BY <3>1, <3>2 DEF SoleAt
  <2>. QED BY <2>1, <2>2
<1>16. SureKept'
  <2>1. CASE thing # "profile"
    BY <1>1, <1>2, <1>4, <1>8, <1>12, <1>13, <1>14, <2>1, SureApart
  <2>2. CASE thing = "profile"
    <3>. SUFFICES ASSUME "profile" \notin overlapped
                  PROVE  /\ Sure(disk[File("profile")], Heeded(h, r))
                         /\ \A q \in Ports : work'[q].thing # "profile"
      BY <1>2, <1>4, <1>6, <1>13 DEF SureKept
    <3>1. SureStage(disk[File("profile")], h, r, work[p].todo)
      BY <1>1, <2>2 DEF SureKept
    <3>2. Sure(disk[File("profile")], Heeded(h, r))
      BY <1>2, <3>1 DEF SureStage
    <3>3. \A q \in Ports \ {p} : work[q].thing # "profile"
      BY <1>1, <2>2, OnlyOne
    <3>. QED BY <1>2, <3>2, <3>3, IdleForm
  <2>. QED BY <2>1, <2>2
<1>17. PictureInv'
  <2>1. CASE thing # "picture"
    <3>1. told'["picture"] = told["picture"]
      <4>1. r.op # "picture"
        BY <1>1, <2>1 DEF Asked
      <4>. QED BY <1>5, <4>1 DEF TellsOf
    <3>2. \A q \in Ports : work'[q].thing = "picture" /\ work'[q].alone => work[q].alone
      BY <1>2, IdleForm
    <3>. QED BY <1>1, <1>2, <1>4, <1>12, <1>13, <2>1, <3>1, <3>2, PictureApart
  <2>2. CASE thing = "picture"
    <3>1. r.op = "picture" /\ r.type \in Pictures
      BY <1>1, <1>7, <2>2 DEF Asked, Fitting
    <3>2. told'["picture"] = <<r.type, r.type>>
      BY <1>5, <3>1 DEF TellsOf
    <3>3. r.type \notin {Missing, Torn}
      BY <3>1, DistinctAssumption DEF Contents
    <3>4. PictureTodo(disk[File("picture")], disk[File("ext")], r.type, <<>>, work[p].alone)
      BY <1>1, <1>2, <2>2 DEF PictureInv, PictureAt
    <3>5. \A q \in Ports : PictureAt(q)'
      BY <1>1, <1>2, IdleForm DEF PictureInv, PictureAt
    <3>6. CASE work[p].alone
      <4>1. disk[File("picture")] = r.type /\ disk[File("ext")] = r.type
        <5>1. Len(<<>>) # 2
          OBVIOUS
        <5>. QED BY <3>4, <3>6, <5>1 DEF PictureTodo
      <4>2. PictureAgrees'
        BY <1>2, <3>2, <3>3, <4>1 DEF PictureAgrees, ReadUserAvatar
      <4>. QED BY <3>5, <4>2 DEF PictureInv, PictureKept
    <3>7. CASE ~work[p].alone
      <4>1. "picture" \in overlapped
        BY <1>1, <1>2, <2>2, <3>7 DEF Alone
      <4>2. ~Whole("picture")'
        BY <1>4, <3>7, <4>1 DEF Whole
      <4>. QED BY <3>5, <4>2 DEF PictureInv, PictureKept
    <3>. QED BY <3>6, <3>7
  <2>. QED BY <2>1, <2>2
<1>18. SnapshotInv'
  BY <1>1, <1>2, IdleForm DEF SnapshotInv, SnapshotAt
<1>19. SoleInv'
  BY <1>8, <1>9, <1>15, <1>16 DEF SoleInv
<1>. QED BY <1>10, <1>17, <1>18, <1>19 DEF PlainInv

LEMMA PlainCrashes ==
    ASSUME IInv, PlainInv, Crash
    PROVE  PlainInv'
<1>1. /\ Handlers /\ Alone /\ Asked /\ Heard(told) \in Hearing
      /\ (\A T \in Sole : SoleAt(T)) /\ SureKept /\ PictureInv /\ SnapshotInv /\ Noted
  BY DEF IInv, PlainInv, SoleInv
<1>2. /\ UNCHANGED <<disk, told, overlapped>>
      /\ torn' = torn \cup {work[p].thing : p \in {q \in Ports : IsBusy(q) /\ work[q].begun}}
      /\ \A p \in Ports : work'[p] = Idle
  BY DEF Crash
<1>3. /\ \A p \in Ports : work'[p].thing = "none"
      /\ Sole \subseteq Things /\ "none" \notin Sole \cup {"picture", "user"} /\ "profile" \in Sole
  BY <1>2, IdleForm, NotThings, SoleThings DEF Things, Sole
<1>4. ASSUME NEW T, T # "none", Whole(T)'
      PROVE  Whole(T) /\ \A p \in Ports : work[p].thing = T => ~work[p].begun
  BY <1>2, <1>4 DEF Whole, IsBusy
<1>5. Asked'
  BY <1>1, <1>2, AskedKept
<1>6. Heard(told') \in Hearing
  BY <1>1, <1>2
<1>7. ASSUME NEW T \in Sole PROVE SoleAt(T)'
  <2>1. FileOk(T)' /\ \A q \in Ports : TodoOk(T, q)'
    BY <1>1, <1>2, <1>3 DEF SoleAt, FileOk, TodoOk
  <2>2. Kept(T)'
    <3>. SUFFICES ASSUME Whole(T)' PROVE Agrees(T, disk[File(T)], Heard(told))
      BY <1>2, <1>3 DEF Kept
    <3>1. Whole(T) /\ \A p \in Ports : work[p].thing = T => ~work[p].begun
      BY <1>3, <1>4
    <3>2. CASE \A p \in Ports : work[p].thing # T
      BY <1>1, <3>1, <3>2 DEF SoleAt, Kept
    <3>3. CASE \E p \in Ports : work[p].thing = T
      <4>1. PICK p \in Ports : work[p].thing = T
        BY <3>3
      <4>2. Stage(T, disk[File(T)], Heard(told), work[p].req, work[p].todo, work[p].begun) /\ ~work[p].begun
        BY <1>1, <3>1, <4>1 DEF SoleAt, Kept
      <4>. QED BY <4>2 DEF Stage
    <3>. QED BY <3>2, <3>3
  <2>. QED BY <2>1, <2>2 DEF SoleAt
<1>8. SureKept'
  BY <1>1, <1>2, <1>3 DEF SureKept
<1>9. PictureInv'
  <2>1. \A q \in Ports : PictureAt(q)'
    BY <1>3 DEF PictureAt
  <2>2. Whole("picture")' => PictureAgrees
    BY <1>1, <1>4 DEF PictureInv, PictureKept
  <2>3. PictureKept'
    BY <1>2, <2>2 DEF PictureKept, PictureAgrees
  <2>. QED BY <2>1, <2>3 DEF PictureInv
<1>10. SnapshotInv'
  BY <1>1, <1>2, <1>3 DEF SnapshotInv, SnapshotAt
<1>11. Noted'
  <2>1. \A p \in Ports : IsBusy(p) => work[p].thing \in Things
    BY <1>1 DEF Handlers, IsHandler, IsBusy
  <2>. QED BY <1>1, <1>2, <2>1 DEF Noted
<1>12. SoleInv'
  BY <1>5, <1>6, <1>7, <1>8 DEF SoleInv
<1>. QED BY <1>9, <1>10, <1>11, <1>12 DEF PlainInv

LEMMA BeginJoined ==
    ASSUME Handlers, NEW p \in Ports, NEW req, NEW thing, NEW todo, Begin(p, req, thing, todo), thing # "none"
    PROVE  Joined(p, req, thing, todo) /\ UNCHANGED <<area, disk, told, torn>>
<1>. DEFINE with == {q \in Ports : IsBusy(q) /\ work[q].thing = thing}
            none == with = {}
<1>1. /\ work[p].thing = "none"
      /\ work' = [q \in Ports |->
                    IF q = p THEN [req |-> req, thing |-> thing, todo |-> todo,
                                   alone |-> with = {}, begun |-> FALSE]
                    ELSE IF q \in with THEN [work[q] EXCEPT !.alone = FALSE] ELSE work[q]]
      /\ overlapped' = IF with # {} THEN overlapped \cup {thing} ELSE overlapped
      /\ UNCHANGED <<area, disk, told, torn>>
  BY DEF Begin, IsBusy
<1>2. work'[p] = [req |-> req, thing |-> thing, todo |-> todo, alone |-> none, begun |-> FALSE]
  BY <1>1
<1>3. ASSUME NEW q \in Ports \ {p}
      PROVE  /\ work'[q].req = work[q].req /\ work'[q].thing = work[q].thing
             /\ work'[q].todo = work[q].todo /\ work'[q].begun = work[q].begun
             /\ work'[q].alone = (IF q \in with THEN FALSE ELSE work[q].alone)
  <2>1. Form(work[q])
    BY DEF Handlers, IsHandler
  <2>2. CASE q \in with
    <3>1. work'[q] = [work[q] EXCEPT !.alone = FALSE]
      BY <1>1, <2>2
    <3>2. work'[q] = [req |-> work[q].req, thing |-> work[q].thing, todo |-> work[q].todo,
                      alone |-> FALSE, begun |-> work[q].begun]
      BY <2>1, <3>1 DEF Form
    <3>. HIDE DEF with
    <3>. QED BY <2>2, <3>2
  <2>3. CASE q \notin with
    BY <1>1, <2>3
  <2>. QED BY <2>2, <2>3
<1>. HIDE DEF none
<1>4. /\ work'[p].req = req /\ work'[p].thing = thing /\ work'[p].todo = todo /\ work'[p].begun = FALSE
  BY <1>2
<1>5. ASSUME NEW q \in Ports \ {p}, work'[q].alone PROVE work[q].alone /\ work[q].thing # thing
  BY <1>3, <1>5 DEF IsBusy
<1>. QED BY <1>1, <1>3, <1>4, <1>5 DEF Joined

\* A request as it comes in.
Matching(req, thing) ==
    /\ Fitting(req)
    /\ thing = "profile" <=> req.op \in ProfileOps
    /\ thing = "reminders" <=> req.op \in ReminderOps
    /\ thing = "picture" <=> req.op = "picture"
Asking(req, e, todo) ==
    /\ req.op \in EntryOps
    /\ IF req.op = "create" THEN told[e] = Unborn ELSE Known(e)
    /\ req.op = "create" => req.title \in Texts /\ req.text \in Texts /\ todo = JournalCreate(e, req.title, req.text)
    /\ req.op = "update" =>
          /\ req.title \in Texts \cup {""} /\ req.text \in Texts \cup {""}
          /\ req.text = "" => todo = <<Modify(<<e, "meta">>)>>
          /\ req.text # "" => todo = <<Modify(<<e, "meta">>), Write(<<e, "text">>, req.text)>>
    /\ req.op = "delete" => todo = <<Scan(e, "entry")>>
    /\ req.op = "attach" => todo = <<Mkdir(<<e, "files">>), Write(<<e, "image">>, "bytes"),
                                    Write(<<e, "stamp">>, "time")>>
    /\ req.op \in {"embed", "unembed"} => todo = <<Modify(<<e, "embeds">>)>>
    /\ req.op = "embed" => /\ req.embed \in Embeds
                           /\ req.embed.type = "image" /\ told[e] # Gone => told[e].image
Formed(req, thing, todo) == IF thing \in EntryIds THEN Asking(req, thing, todo) ELSE req.op \in PlainOps
Ready(req, thing, todo) ==
    /\ thing \in Things /\ Matching(req, thing) /\ Formed(req, thing, todo) /\ todo # <<>>
    /\ thing \in Sole => /\ SoleList(thing, req.op, todo) /\ todo[1].do \notin {"open", "fill"}
                         /\ Len(todo) = 2 => todo[1].do = "init"
    /\ req.op = "set" /\ req.key = "onboarded" /\ req.value # "1" => told["keys"]["onboarded"] = None
    /\ thing = "picture" => /\ PictureList(todo) /\ Len(todo) = 2 /\ todo[1].do = "open"
                            /\ todo[1].data = req.type /\ todo[2].data = req.type
    /\ thing = "user" => ~Writes(todo[1], File("snapshot"))

LEMMA PlainJoins ==
    ASSUME IInv, PlainInv, Alone', NEW p \in Ports, NEW req, NEW thing, NEW todo, Joined(p, req, thing, todo),
           UNCHANGED <<disk, told, torn>>, Ready(req, thing, todo)
    PROVE  PlainInv'
<1>. DEFINE h == Heard(told)
<1>1. /\ Handlers /\ Alone /\ Asked /\ h \in Hearing
      /\ (\A T \in Sole : SoleAt(T)) /\ SureKept /\ PictureInv /\ SnapshotInv /\ Noted
  BY DEF IInv, PlainInv, SoleInv
<1>2. /\ overlapped \subseteq overlapped' /\ overlapped' \subseteq overlapped \cup {thing}
      /\ work[p].thing = "none" /\ work'[p].req = req /\ work'[p].thing = thing /\ work'[p].todo = todo
      /\ work'[p].begun = FALSE
      /\ \A q \in Ports \ {p} : /\ work'[q].req = work[q].req /\ work'[q].thing = work[q].thing
                                /\ work'[q].todo = work[q].todo /\ work'[q].begun = work[q].begun
                                /\ work'[q].alone => work[q].alone
  BY DEF Joined
<1>3. thing \in Things /\ thing # "none" /\ Sole \subseteq Things /\ "picture" \in Things /\ "user" \in Things
      /\ Sole \cap {"none", "picture", "user"} = {} /\ "profile" \in Sole
  BY NotThings, SoleThings DEF Ready, Things, Sole
<1>4. \A T : Whole(T)' => Whole(T)
  BY <1>2 DEF Whole
<1>5. ASSUME NEW T \in Things, T # thing PROVE SameHandlers(T)
  BY <1>2, <1>5, NotThings DEF SameHandlers
<1>6. ASSUME thing \notin overlapped' PROVE \A q \in Ports : work[q].thing # thing /\ (q # p => work'[q].thing # thing)
  <2>1. IsBusy(p)'
    BY <1>2, <1>3 DEF IsBusy
  <2>2. work'[p].alone
    BY <1>2, <1>6, <2>1 DEF Alone
  <2>3. \A q \in Ports \ {p} : work'[q].thing # thing
    BY <1>2, <2>1, <2>2 DEF Alone
  <2>. QED BY <1>2, <1>3, <2>3
<1>7. Asked'
  <2>1. Matching(req, thing)
    BY DEF Ready
  <2>. SUFFICES ASSUME NEW q \in Ports PROVE Matching(work'[q].req, work'[q].thing)
    BY DEF Asked, Matching
  <2>2. CASE q = p
    BY <1>2, <2>1, <2>2
  <2>3. CASE q # p
    <3>1. Matching(work[q].req, work[q].thing)
      BY <1>1 DEF Asked, Matching
    <3>. QED BY <1>2, <2>3, <3>1
  <2>. QED BY <2>2, <2>3
<1>8. Heard(told') = h /\ \A T \in Sole : SameFor(T, h, Heard(told'))
  BY DEF SameFor
<1>9. ASSUME NEW T \in Sole PROVE SoleAt(T)'
  <2>1. CASE thing # T
    BY <1>1, <1>3, <1>4, <1>5, <1>8, <2>1, SoleApart
  <2>2. CASE thing = T
    <3>1. FileOk(T)'
      BY <1>1 DEF SoleAt, FileOk
    <3>2. /\ SoleList(T, req.op, todo) /\ todo[1].do \notin {"open", "fill"} /\ todo # <<>>
          /\ Len(todo) = 2 => todo[1].do = "init"
      BY <2>2 DEF Ready
    <3>3. SoleTodo(T, disk[File(T)], req.op, todo)
      BY <3>2 DEF SoleTodo
    <3>4. ASSUME NEW q \in Ports PROVE TodoOk(T, q)'
      <4>1. CASE q = p
        BY <1>2, <3>3, <4>1 DEF TodoOk
      <4>2. CASE q # p
        BY <1>1, <1>2, <4>2 DEF SoleAt, TodoOk
      <4>. QED BY <4>1, <4>2
    <3>5. Kept(T)'
      <4>. SUFFICES ASSUME Whole(T)'
                    PROVE  \A q \in Ports : work'[q].thing = T =>
                              Stage(T, disk[File(T)], h, work'[q].req, work'[q].todo, work'[q].begun)
        BY <1>2, <1>8, <2>2 DEF Kept
      <4>1. \A q \in Ports : work[q].thing # T /\ (q # p => work'[q].thing # T)
        BY <1>6, <2>2 DEF Whole
      <4>2. Agrees(T, disk[File(T)], h)
        BY <1>1, <1>4, <4>1 DEF SoleAt, Kept
      <4>3. Stage(T, disk[File(T)], h, req, todo, FALSE)
        BY <3>2, <4>2 DEF Stage
      <4>. QED BY <1>2, <4>1, <4>3
    <3>. QED BY <3>1, <3>4, <3>5 DEF SoleAt
  <2>. QED BY <2>1, <2>2
<1>10. SureKept'
  <2>1. CASE thing # "profile"
    <3>1. SameHandlers("profile") /\ SameFor("profile", h, Heard(told')) /\ Heard(told') \in Hearing
      BY <1>1, <1>3, <1>5, <1>8, <2>1
    <3>2. "profile" \in overlapped => "profile" \in overlapped'
      BY <1>2
    <3>. QED BY <1>1, <3>1, <3>2, SureApart
  <2>2. CASE thing = "profile"
    <3>. SUFFICES ASSUME "profile" \notin overlapped'
                  PROVE  /\ Sure(disk[File("profile")], h)
                         /\ \A q \in Ports : work'[q].thing = "profile" =>
                               SureStage(disk[File("profile")], h, work'[q].req, work'[q].todo)
      BY <1>8 DEF SureKept
    <3>1. Sure(disk[File("profile")], h)
      BY <1>1, <1>2 DEF SureKept
    <3>2. \A q \in Ports : q # p => work'[q].thing # "profile"
      BY <1>6, <2>2
    <3>3. /\ todo[1].do \notin {"open", "fill"} /\ todo # <<>>
          /\ req.op = "set" /\ req.key = "onboarded" /\ req.value # "1" => told["keys"]["onboarded"] = None
      BY <1>3, <2>2 DEF Ready
    <3>4. h.keys = told["keys"]
      BY DEF Heard
    <3>5. SureStage(disk[File("profile")], h, req, todo)
      BY <3>3, <3>4 DEF SureStage
    <3>. QED BY <1>2, <3>1, <3>2, <3>5
  <2>. QED BY <2>1, <2>2
<1>11. PictureInv'
  <2>1. CASE thing # "picture"
    <3>1. \A q \in Ports : work'[q].thing = "picture" /\ work'[q].alone => work[q].alone
      BY <1>2, <2>1
    <3>. QED BY <1>1, <1>3, <1>4, <1>5, <2>1, <3>1, PictureApart
  <2>2. CASE thing = "picture"
    <3>1. /\ PictureList(todo) /\ Len(todo) = 2 /\ todo[1].do = "open" /\ todo # <<>>
          /\ todo[1].data = req.type /\ todo[2].data = req.type
      BY <2>2 DEF Ready
    <3>2. ASSUME NEW q \in Ports PROVE PictureAt(q)'
      <4>1. CASE q = p
        BY <1>2, <3>1, <4>1 DEF PictureAt, PictureTodo
      <4>2. CASE q # p
        <5>. SUFFICES ASSUME work[q].thing = "picture"
                      PROVE  PictureTodo(disk[File("picture")], disk[File("ext")], work[q].req.type, work[q].todo, work'[q].alone)
          BY <1>2, <4>2 DEF PictureAt
        <5>1. PictureTodo(disk[File("picture")], disk[File("ext")], work[q].req.type, work[q].todo, work[q].alone)
          BY <1>1 DEF PictureInv, PictureAt
        <5>2. work'[q].alone => work[q].alone
          BY <1>2, <4>2
        <5>. QED BY <5>1, <5>2 DEF PictureTodo
      <4>. QED BY <4>1, <4>2
    <3>3. ASSUME Whole("picture")' PROVE PictureAgrees
      <4>1. \A q \in Ports : work[q].thing # "picture"
        BY <1>6, <2>2, <3>3 DEF Whole
      <4>. QED BY <1>1, <1>4, <3>3, <4>1 DEF PictureInv, PictureKept
    <3>4. PictureAgrees => PictureAgrees'
      BY DEF PictureAgrees
    <3>. QED BY <3>2, <3>3, <3>4 DEF PictureInv, PictureKept
  <2>. QED BY <2>1, <2>2
<1>12. SnapshotInv'
  <2>1. CASE thing # "user"
    BY <1>1, <1>3, <1>5, <2>1, SnapshotApart
  <2>2. CASE thing = "user"
    <3>1. todo # <<>> /\ ~Writes(todo[1], File("snapshot"))
      BY <2>2 DEF Ready
    <3>2. ASSUME NEW q \in Ports PROVE SnapshotAt(q)'
      <4>1. CASE q = p
        BY <1>2, <3>1, <4>1 DEF SnapshotAt
      <4>2. CASE q # p
        BY <1>1, <1>2, <4>2 DEF SnapshotInv, SnapshotAt
      <4>. QED BY <4>1, <4>2
    <3>. QED BY <1>1, <3>2 DEF SnapshotInv
  <2>. QED BY <2>1, <2>2
<1>13. Noted'
  BY <1>1, <1>2, <1>3 DEF Noted
<1>14. SoleInv'
  BY <1>1, <1>7, <1>8, <1>9, <1>10 DEF SoleInv
<1>. QED BY <1>11, <1>12, <1>13, <1>14 DEF PlainInv

\* What each request begins with.
Coming(p) ==
    \E req : \E thing : \E todo :
        thing # "none" /\ Begin(p, req, thing, todo) /\ Ready(req, thing, todo)

LEMMA PlainFormed ==
    ASSUME NEW req, req.op \in PlainOps, NEW thing \in {"profile", "reminders", "user", "picture"}, NEW todo
    PROVE  Formed(req, thing, todo)
<1>1. thing \notin EntryIds
  BY Distinct
<1>. QED BY <1>1 DEF Formed

LEMMA ReadyElsewhere ==
    ASSUME NEW req, NEW thing \in EntryIds, NEW todo, todo # <<>>, Asking(req, thing, todo)
    PROVE  Ready(req, thing, todo)
<1>0. req.op \in EntryOps /\ Formed(req, thing, todo)
  BY DEF Asking, Formed
<1>1. thing \in Things /\ thing \notin Sole \cup {"picture", "user"}
  BY Distinct DEF Things, Sole
<1>2. /\ req.op \notin ProfileOps \cup ReminderOps \cup {"picture"}
      /\ req.op \notin {"input", "event", "set", "clear", "remind", "picture"}
  BY <1>0 DEF EntryOps, ProfileOps, ReminderOps
<1>3. Matching(req, thing)
  BY <1>1, <1>2 DEF Matching, Fitting, Sole
<1>. QED BY <1>0, <1>1, <1>2, <1>3 DEF Ready

LEMMA ReadyProfile ==
    ASSUME NEW req, req.op \in ProfileOps, Fitting(req), NEW todo,
           \/ req.op = "read" /\ todo = <<Initialise>>
           \/ req.op # "read" /\ todo = <<Initialise, Modify(File("profile"))>>,
           req.op = "set" /\ req.key = "onboarded" /\ req.value # "1" => told["keys"]["onboarded"] = None
    PROVE  Ready(req, "profile", todo)
<1>1. PICK a : a = Initialise
  OBVIOUS
<1>2. PICK b : b = Modify(File("profile"))
  OBVIOUS
<1>3. a.do = "init" /\ b.do = "modify" /\ b.path = File("profile")
  BY <1>1, <1>2 DEF Initialise, Modify
<1>4. Len(<<a>>) = 1 /\ Len(<<a, b>>) = 2 /\ <<a>>[1] = a /\ <<a, b>>[1] = a /\ <<a, b>>[2] = b
      /\ <<a>> # <<>> /\ <<a, b>> # <<>>
  BY ShortLists
<1>5. /\ todo # <<>> /\ todo[1] = a
      /\ req.op = "read" => Len(todo) = 1
      /\ req.op # "read" => Len(todo) = 2 /\ todo[2] = b
  BY <1>1, <1>2, <1>4
<1>6. SoleList("profile", req.op, todo)
  BY <1>3, <1>5 DEF SoleList, Renews, Modifies
<1>7. req.op \notin ReminderOps /\ req.op # "picture"
  BY DEF ProfileOps, ReminderOps
<1>8. Matching(req, "profile") /\ "profile" \in Things
  BY <1>7 DEF Matching, Things
<1>9. Formed(req, "profile", todo)
  BY PlainFormed DEF ProfileOps, PlainOps
<1>. QED BY <1>3, <1>5, <1>6, <1>8, <1>9 DEF Ready

LEMMA ReadyReminders ==
    ASSUME NEW req, req.op \in ReminderOps, Fitting(req)
    PROVE  Ready(req, "reminders", <<Modify(File("reminders"))>>)
<1>1. PICK b : b = Modify(File("reminders"))
  OBVIOUS
<1>2. b.do = "modify" /\ b.path = File("reminders")
  BY <1>1 DEF Modify
<1>3. Len(<<b>>) = 1 /\ <<b>>[1] = b /\ <<b>> # <<>>
  BY ShortLists
<1>4. SoleList("reminders", req.op, <<b>>)
  BY <1>2, <1>3 DEF SoleList, Modifies, ReminderOps
<1>5. req.op \notin ProfileOps /\ req.op # "picture" /\ req.op # "set"
  BY DEF ProfileOps, ReminderOps
<1>6. Matching(req, "reminders") /\ "reminders" \in Things
  BY <1>5 DEF Matching, Things
<1>7. Len(<<b>>) # 2
  BY <1>3
<1>9. Formed(req, "reminders", <<b>>)
  BY PlainFormed DEF ReminderOps, PlainOps
<1>8. Ready(req, "reminders", <<b>>)
  BY <1>9, <1>2, <1>3, <1>4, <1>5, <1>6, <1>7 DEF Ready
<1>. QED BY <1>1, <1>8

LEMMA ReadyPicture ==
    ASSUME NEW req, req.op = "picture", Fitting(req), NEW type, req.type = type
    PROVE  Ready(req, "picture", <<Write(File("picture"), type), Write(File("ext"), type)>>)
<1>1. PICK a : a = Write(File("picture"), type)
  OBVIOUS
<1>2. PICK b : b = Write(File("ext"), type)
  OBVIOUS
<1>3. /\ a.do = "open" /\ a.path = File("picture") /\ a.data = type
      /\ b.do = "open" /\ b.path = File("ext") /\ b.data = type
  BY <1>1, <1>2 DEF Write
<1>4. Len(<<a, b>>) = 2 /\ <<a, b>>[1] = a /\ <<a, b>>[2] = b /\ <<a, b>> # <<>>
  BY ShortLists
<1>5. PictureList(<<a, b>>)
  BY <1>3, <1>4 DEF PictureList, Writes, Opens
<1>6. req.op \notin ProfileOps /\ req.op \notin ReminderOps /\ req.op # "set" /\ "picture" \notin Sole
  BY DEF ProfileOps, ReminderOps, Sole
<1>7. Matching(req, "picture") /\ "picture" \in Things
  BY <1>6 DEF Matching, Things
<1>9. Formed(req, "picture", <<a, b>>)
  BY PlainFormed DEF PlainOps
<1>8. Ready(req, "picture", <<a, b>>)
  BY <1>9, <1>3, <1>4, <1>5, <1>6, <1>7 DEF Ready
<1>. QED BY <1>1, <1>2, <1>8

LEMMA ReadyUser ==
    ASSUME NEW req, req.op = "user"
    PROVE  Ready(req, "user", SaveUser)
<1>1. PICK a : a = Modify(File("user"))
  OBVIOUS
<1>2. PICK b : b = Snapshot
  OBVIOUS
<1>3. a.do = "modify" /\ <<a, b>>[1] = a /\ <<a, b>> # <<>> /\ SaveUser = <<a, b>>
  BY <1>1, <1>2 DEF Modify, SaveUser
<1>4. /\ req.op \notin ProfileOps \cup ReminderOps \cup {"picture"} /\ "user" \notin Sole
      /\ req.op \notin {"input", "event", "set", "clear", "remind", "picture"}
  BY DEF ProfileOps, ReminderOps, Sole
<1>5. Matching(req, "user") /\ "user" \in Things
  BY <1>4 DEF Matching, Fitting, Things
<1>6. Formed(req, "user", SaveUser)
  BY PlainFormed DEF PlainOps
<1>. QED BY <1>3, <1>4, <1>5, <1>6 DEF Ready, Writes

LEMMA ProfileComing ==
    ASSUME NEW p \in Ports,
           \/ \E text \in Texts : RecordInput(p, text)
           \/ \E event \in GoalEvents, goal \in GoalIds : RecordGoalEvent(p, event, goal)
           \/ \E key \in Keys : \/ \E value \in Values : handle_post_profile_update(p, key, value)
                                \/ ClearDerivedField(p, key)
           \/ handle_get_profile(p)
    PROVE  Coming(p)
<1>. DEFINE todo == <<Initialise, Modify(File("profile"))>>
<1>1. ASSUME NEW req, req.op \in ProfileOps \ {"read"}, Fitting(req), Profiled(p, req),
             req.op = "set" /\ req.key = "onboarded" /\ req.value # "1" => told["keys"]["onboarded"] = None
      PROVE  Coming(p)
  <2>1. Begin(p, req, "profile", todo)
    BY <1>1 DEF Profiled
  <2>2. Ready(req, "profile", todo)
    BY <1>1, ReadyProfile
  <2>. QED BY <2>1, <2>2 DEF Coming
<1>2. CASE \E text \in Texts : RecordInput(p, text)
  <2>1. PICK text \in Texts : RecordInput(p, text)
    BY <1>2
  <2>2. PICK req : req = [op |-> "input", text |-> text]
    OBVIOUS
  <2>3. req.op = "input" /\ req.text = text /\ Profiled(p, req)
    BY <2>1, <2>2 DEF RecordInput
  <2>4. Fitting(req) /\ req.op \in ProfileOps \ {"read"}
    BY <2>3 DEF Fitting, ProfileOps
  <2>. QED BY <1>1, <2>3, <2>4
<1>3. CASE \E event \in GoalEvents, goal \in GoalIds : RecordGoalEvent(p, event, goal)
  <2>1. PICK event \in GoalEvents, goal \in GoalIds : RecordGoalEvent(p, event, goal)
    BY <1>3
  <2>2. PICK req : req = [op |-> "event", event |-> event, goal |-> goal]
    OBVIOUS
  <2>3. req.op = "event" /\ req.event = event /\ req.goal = goal /\ Profiled(p, req)
    BY <2>1, <2>2 DEF RecordGoalEvent
  <2>4. Fitting(req) /\ req.op \in ProfileOps \ {"read"}
    BY <2>3 DEF Fitting, ProfileOps
  <2>. QED BY <1>1, <2>3, <2>4
<1>4. CASE \E key \in Keys : \E value \in Values : handle_post_profile_update(p, key, value)
  <2>1. PICK key \in Keys : \E value \in Values : handle_post_profile_update(p, key, value)
    BY <1>4
  <2>0. PICK value \in Values : handle_post_profile_update(p, key, value)
    BY <2>1
  <2>2. PICK req : req = [op |-> "set", key |-> key, value |-> value]
    OBVIOUS
  <2>3. /\ req.op = "set" /\ req.key = key /\ req.value = value /\ Profiled(p, req)
        /\ key = "onboarded" /\ value # "1" => told.keys[key] = None
    BY <2>0, <2>2 DEF handle_post_profile_update
  <2>4. Fitting(req) /\ req.op \in ProfileOps \ {"read"}
    BY <2>3 DEF Fitting, ProfileOps
  <2>. QED BY <1>1, <2>3, <2>4
<1>5. CASE \E key \in Keys : ClearDerivedField(p, key)
  <2>1. PICK key \in Keys : ClearDerivedField(p, key)
    BY <1>5
  <2>2. PICK req : req = [op |-> "clear", key |-> key]
    OBVIOUS
  <2>3. req.op = "clear" /\ req.key = key /\ Profiled(p, req)
    BY <2>1, <2>2 DEF ClearDerivedField
  <2>4. Fitting(req) /\ req.op \in ProfileOps \ {"read"}
    BY <2>3 DEF Fitting, ProfileOps
  <2>. QED BY <1>1, <2>3, <2>4
<1>6. CASE handle_get_profile(p)
  <2>1. PICK req : req = [op |-> "read"]
    OBVIOUS
  <2>2. req.op = "read" /\ Begin(p, req, "profile", <<Initialise>>)
    BY <1>6, <2>1 DEF handle_get_profile
  <2>3. Fitting(req) /\ req.op \in ProfileOps
    BY <2>2 DEF Fitting, ProfileOps
  <2>4. Ready(req, "profile", <<Initialise>>)
    BY <2>2, <2>3, ReadyProfile
  <2>. QED BY <2>2, <2>4 DEF Coming
<1>. QED BY <1>2, <1>3, <1>4, <1>5, <1>6

LEMMA OthersComing ==
    ASSUME NEW p \in Ports,
           \/ \E id \in ReminderIds : \/ \E says \in Texts : handle_post_reminders_save(p, id, says)
                                      \/ handle_post_reminders_delete(p, id)
           \/ \E look \in Looks : UpdateLook(p, look)
           \/ \E share \in BOOLEAN : UpdateShareProfile(p, share)
           \/ \E type \in Pictures : handle_post_profile_avatar(p, type)
    PROVE  Coming(p)
<1>1. CASE \E id \in ReminderIds : \E says \in Texts : handle_post_reminders_save(p, id, says)
  <2>0. PICK id \in ReminderIds : \E says \in Texts : handle_post_reminders_save(p, id, says)
    BY <1>1
  <2>1. PICK says \in Texts : handle_post_reminders_save(p, id, says)
    BY <2>0
  <2>2. PICK note : note = Reminder(id, says)
    OBVIOUS
  <2>3. note \in Notes
    BY <2>2 DEF Reminder, Notes
  <2>4. PICK req : req = [op |-> "remind", reminder |-> note]
    OBVIOUS
  <2>5. req.op = "remind" /\ req.reminder = note
    BY <2>4
  <2>6. Begin(p, req, "reminders", <<Modify(File("reminders"))>>)
    BY <2>1, <2>2, <2>4 DEF handle_post_reminders_save
  <2>7. Fitting(req) /\ req.op \in ReminderOps
    BY <2>3, <2>5 DEF Fitting, ReminderOps
  <2>8. Ready(req, "reminders", <<Modify(File("reminders"))>>)
    BY <2>7, ReadyReminders
  <2>. QED BY <2>6, <2>8 DEF Coming
<1>2. CASE \E id \in ReminderIds : handle_post_reminders_delete(p, id)
  <2>1. PICK id \in ReminderIds : handle_post_reminders_delete(p, id)
    BY <1>2
  <2>4. PICK req : req = [op |-> "forget", id |-> id]
    OBVIOUS
  <2>5. req.op = "forget"
    BY <2>4
  <2>6. Begin(p, req, "reminders", <<Modify(File("reminders"))>>)
    BY <2>1, <2>4 DEF handle_post_reminders_delete
  <2>7. Fitting(req) /\ req.op \in ReminderOps
    BY <2>5 DEF Fitting, ReminderOps
  <2>8. Ready(req, "reminders", <<Modify(File("reminders"))>>)
    BY <2>7, ReadyReminders
  <2>. QED BY <2>6, <2>8 DEF Coming
<1>3. CASE (\E look \in Looks : UpdateLook(p, look)) \/ (\E share \in BOOLEAN : UpdateShareProfile(p, share))
  <2>1. PICK req : req = [op |-> "user"]
    OBVIOUS
  <2>2. Begin(p, req, "user", SaveUser)
    BY <1>3, <2>1 DEF UpdateLook, UpdateShareProfile, Saving
  <2>3. Ready(req, "user", SaveUser)
    BY <2>1, ReadyUser
  <2>. QED BY <2>2, <2>3 DEF Coming
<1>4. CASE \E type \in Pictures : handle_post_profile_avatar(p, type)
  <2>1. PICK type \in Pictures : handle_post_profile_avatar(p, type)
    BY <1>4
  <2>2. PICK req : req = [op |-> "picture", type |-> type]
    OBVIOUS
  <2>3. req.op = "picture" /\ req.type = type
    BY <2>2
  <2>4. Begin(p, req, "picture", <<Write(File("picture"), type), Write(File("ext"), type)>>)
    BY <2>1, <2>2 DEF handle_post_profile_avatar
  <2>5. Fitting(req)
    BY <2>3 DEF Fitting
  <2>6. Ready(req, "picture", <<Write(File("picture"), type), Write(File("ext"), type)>>)
    BY <2>3, <2>5, ReadyPicture
  <2>. QED BY <2>4, <2>6 DEF Coming
<1>. QED BY <1>1, <1>2, <1>3, <1>4

LEMMA EntryComing ==
    ASSUME NEW p \in Ports, NEW e \in EntryIds,
           \/ \E title \in Texts, text \in Texts : handle_post_journal_create(p, e, title, text)
           \/ \E title \in Texts \cup {""}, text \in Texts \cup {""} :
                 handle_post_journal_update(p, e, title, text)
           \/ handle_post_journal_delete(p, e)
           \/ handle_post_journal_attach(p, e)
           \/ \E type \in {"goal", "image"}, text \in Texts :
                 handle_post_journal_embed(p, e, Embed(type, text))
           \/ \E index \in 0 .. MaxRequests[area] : handle_post_journal_embed_delete(p, e, index)
    PROVE  Coming(p)
<1>1. ASSUME NEW req, NEW todo, todo # <<>>, Asking(req, e, todo), Entry(p, req, e, todo) PROVE Coming(p)
  <2>1. Begin(p, req, e, todo) /\ e # "none"
    BY <1>1, Distinct DEF Entry
  <2>2. Ready(req, e, todo)
    BY <1>1, ReadyElsewhere
  <2>. QED BY <2>1, <2>2 DEF Coming
<1>2. CASE \E title \in Texts, text \in Texts : handle_post_journal_create(p, e, title, text)
  <2>1. PICK title \in Texts, text \in Texts : handle_post_journal_create(p, e, title, text)
    BY <1>2
  <2>2. PICK req : req = [op |-> "create", id |-> e, title |-> title, text |-> text]
    OBVIOUS
  <2>3. req.op = "create" /\ req.title = title /\ req.text = text
    BY <2>2
  <2>4. PICK todo : todo = JournalCreate(e, title, text)
    OBVIOUS
  <2>5. Entry(p, req, e, todo) /\ told[e] = Unborn
    BY <2>1, <2>2, <2>4 DEF handle_post_journal_create
  <2>6. todo # <<>>
    BY <2>4 DEF JournalCreate
  <2>7. Asking(req, e, todo)
    BY <2>3, <2>4, <2>5 DEF Asking, EntryOps
  <2>. QED BY <1>1, <2>5, <2>6, <2>7
<1>3. CASE \E title \in Texts \cup {""}, text \in Texts \cup {""} : handle_post_journal_update(p, e, title, text)
  <2>1. PICK title \in Texts \cup {""}, text \in Texts \cup {""} : handle_post_journal_update(p, e, title, text)
    BY <1>3
  <2>2. PICK req : req = [op |-> "update", id |-> e, title |-> title, text |-> text]
    OBVIOUS
  <2>3. req.op = "update" /\ req.title = title /\ req.text = text
    BY <2>2
  <2>4. PICK a : a = Modify(<<e, "meta">>)
    OBVIOUS
  <2>5. PICK b : b = Write(<<e, "text">>, req.text)
    OBVIOUS
  <2>6. PICK todo : todo = <<a>> \o (IF text = "" THEN <<>> ELSE <<b>>)
    OBVIOUS
  <2>7. Entry(p, req, e, todo) /\ Known(e)
    BY <2>1, <2>2, <2>3, <2>4, <2>5, <2>6 DEF handle_post_journal_update
  <2>8. <<a>> \o <<>> = <<a>> /\ <<a>> \o <<b>> = <<a, b>>
    BY Joins
  <2>9. /\ text = "" => todo = <<a>>
        /\ text # "" => todo = <<a, b>>
    BY <2>6, <2>8
  <2>10. Asking(req, e, todo)
    BY <2>3, <2>4, <2>5, <2>7, <2>9 DEF Asking, EntryOps
  <2>11. <<a>> # <<>> /\ <<a, b>> # <<>>
    OBVIOUS
  <2>. QED BY <1>1, <2>7, <2>9, <2>10, <2>11
<1>4. CASE handle_post_journal_delete(p, e)
  <2>1. PICK req : req = [op |-> "delete", id |-> e]
    OBVIOUS
  <2>2. PICK todo : todo = <<Scan(e, "entry")>>
    OBVIOUS
  <2>3. req.op = "delete" /\ Entry(p, req, e, todo) /\ todo # <<>> /\ Known(e)
    BY <1>4, <2>1, <2>2 DEF handle_post_journal_delete
  <2>4. Asking(req, e, todo)
    BY <2>2, <2>3 DEF Asking, EntryOps
  <2>. QED BY <1>1, <2>3, <2>4
<1>5. CASE handle_post_journal_attach(p, e)
  <2>1. PICK req : req = [op |-> "attach", id |-> e]
    OBVIOUS
  <2>2. PICK todo : todo = <<Mkdir(<<e, "files">>), Write(<<e, "image">>, "bytes"), Write(<<e, "stamp">>, "time")>>
    OBVIOUS
  <2>3. req.op = "attach" /\ Entry(p, req, e, todo) /\ todo # <<>> /\ Known(e)
    BY <1>5, <2>1, <2>2 DEF handle_post_journal_attach
  <2>4. Asking(req, e, todo)
    BY <2>2, <2>3 DEF Asking, EntryOps
  <2>. QED BY <1>1, <2>3, <2>4
<1>6. CASE \E type \in {"goal", "image"}, text \in Texts : handle_post_journal_embed(p, e, Embed(type, text))
  <2>1. PICK type \in {"goal", "image"}, text \in Texts : handle_post_journal_embed(p, e, Embed(type, text))
    BY <1>6
  <2>2. PICK embed : embed = Embed(type, text)
    OBVIOUS
  <2>3. PICK req : req = [op |-> "embed", id |-> e, embed |-> embed]
    OBVIOUS
  <2>4. req.op = "embed" /\ req.embed = embed /\ embed \in Embeds
    BY <2>2, <2>3 DEF Embed, Embeds
  <2>5. PICK todo : todo = <<Modify(<<e, "embeds">>)>>
    OBVIOUS
  <2>6. Entry(p, req, e, todo) /\ todo # <<>> /\ Known(e)
    BY <2>1, <2>2, <2>3, <2>5 DEF handle_post_journal_embed
  <2>7. embed.type = "image" /\ told[e] # Gone => told[e].image
    BY <2>1, <2>2 DEF handle_post_journal_embed
  <2>8. Asking(req, e, todo)
    BY <2>4, <2>5, <2>6, <2>7 DEF Asking, EntryOps
  <2>. QED BY <1>1, <2>6, <2>8
<1>7. CASE \E index \in 0 .. MaxRequests[area] : handle_post_journal_embed_delete(p, e, index)
  <2>1. PICK index : handle_post_journal_embed_delete(p, e, index)
    BY <1>7
  <2>2. PICK req : req = [op |-> "unembed", id |-> e, index |-> index]
    OBVIOUS
  <2>3. PICK todo : todo = <<Modify(<<e, "embeds">>)>>
    OBVIOUS
  <2>4. req.op = "unembed" /\ Entry(p, req, e, todo) /\ todo # <<>> /\ Known(e)
    BY <2>1, <2>2, <2>3 DEF handle_post_journal_embed_delete
  <2>5. Asking(req, e, todo)
    BY <2>3, <2>4 DEF Asking, EntryOps
  <2>. QED BY <1>1, <2>4, <2>5
<1>. QED BY <1>2, <1>3, <1>4, <1>5, <1>6, <1>7

LEMMA RequestComing ==
    ASSUME NEW p \in Ports, Request(p)
    PROVE  Coming(p)
BY ProfileComing, OthersComing, EntryComing DEF Request

LEMMA PlainRequests ==
    ASSUME IInv, IInv', PlainInv, NEW p \in Ports, Request(p)
    PROVE  PlainInv'
<1>1. Coming(p)
  BY RequestComing
<1>2. PICK req : \E thing : \E todo : thing # "none" /\ Begin(p, req, thing, todo) /\ Ready(req, thing, todo)
  BY <1>1 DEF Coming
<1>3. PICK thing : \E todo : thing # "none" /\ Begin(p, req, thing, todo) /\ Ready(req, thing, todo)
  BY <1>2
<1>4. PICK todo : thing # "none" /\ Begin(p, req, thing, todo) /\ Ready(req, thing, todo)
  BY <1>3
<1>5. Handlers /\ Alone'
  BY DEF IInv
<1>6. Joined(p, req, thing, todo) /\ UNCHANGED <<disk, told, torn>>
  BY <1>4, <1>5, BeginJoined
<1>. QED BY <1>4, <1>5, <1>6, PlainJoins

LEMMA PlainStarts ==
    ASSUME Init
    PROVE  PlainInv
<1>1. AllIdle
  BY DEF Init, AllIdle
<1>2. \A p \in Ports : work[p].thing = "none" /\ work[p].req.op = "none"
  BY <1>1, IdleForm DEF AllIdle
<1>3. PICK look \in Looks : /\ mem = [share |-> TRUE, look |-> look]
                            /\ disk = [path \in Path |-> IF path = File("user") THEN mem ELSE Missing]
  BY DEF Init
<1>4. \A s \in Single \ {"user"} : disk[File(s)] = Missing
  BY <1>3, TheSingles
<1>5. told = [x \in Said |-> CASE x \in {"inputs", "events"} -> <<>>
                               [] x = "keys" -> [k \in Keys |-> None]
                               [] x = "reminders" -> {}
                               [] x = "picture" -> Missing
                               [] OTHER -> Unborn]
  BY DEF Init
<1>6. {"inputs", "events", "keys", "reminders", "picture"} \subseteq Said
  BY DEF Said
<1>7. /\ told["inputs"] = <<>> /\ told["events"] = <<>> /\ told["keys"] = [k \in Keys |-> None]
      /\ told["reminders"] = {} /\ told["picture"] = Missing
  BY <1>5, <1>6
<1>8. Asked
  <2>1. "none" \notin ProfileOps \cup ReminderOps \cup {"picture"} /\ "none" \notin Sole \cup {"picture"}
    BY DEF ProfileOps, ReminderOps, Sole
  <2>2. \A p \in Ports : Fitting(work[p].req)
    BY <1>2 DEF Fitting
  <2>. QED BY <1>2, <2>1, <2>2 DEF Asked, Sole
<1>9. PICK h : h = Heard(told)
  OBVIOUS
<1>10. h.inputs = <<>> /\ h.events = <<>> /\ h.keys = [k \in Keys |-> None] /\ h.reminders = {}
       /\ h = [inputs |-> h.inputs, events |-> h.events, keys |-> h.keys, reminders |-> h.reminders]
  BY <1>7, <1>9 DEF Heard
<1>11. h \in Hearing
  <2>1. h.inputs \in Seq(Texts) /\ h.events \in Seq(GoalEvents \X GoalIds)
    BY <1>10
  <2>2. h.keys \in [Keys -> Values \cup {None}] /\ h.reminders \in SUBSET Notes
    BY <1>10
  <2>. QED BY <1>10, <2>1, <2>2 DEF Hearing
<1>12. ASSUME NEW T \in Sole PROVE SoleAt(T)
  <2>1. disk[File(T)] = Missing
    BY <1>4, TheSingles DEF Sole
  <2>2. T # "none"
    BY SoleThings
  <2>3. FileOk(T) /\ \A p \in Ports : TodoOk(T, p)
    BY <1>2, <2>1, <2>2 DEF FileOk, Empty, TodoOk
  <2>4. Agrees(T, Missing, h)
    <3>1. CASE T = "profile"
      <4>1. PICK f : f = NewProfile
        OBVIOUS
      <4>2. f.inputs = <<>> /\ f.goals = <<>> /\ \A k : Lookup(f, k) = None
        BY <4>1, NewOne
      <4>3. FocusAfter(h.events) = None
        <5>1. Len(h.events) = 0
          BY <1>10
        <5>2. FocusingIn(h.events) = {}
          BY <5>1 DEF FocusingIn
        <5>. QED BY <1>11, <5>2, NoFocus DEF Hearing
      <4>4. \A k \in Keys : h.keys[k] = None
        BY <1>10
      <4>5. ProfileAgrees(f, h)
        BY <1>10, <4>2, <4>3, <4>4 DEF ProfileAgrees
      <4>. QED BY <3>1, <4>1, <4>5 DEF Agrees, read_profile_sections
    <3>2. CASE T = "reminders"
      <4>1. RemindersList(Missing) = <<>>
        BY DEF RemindersList, NoReminders
      <4>2. ToSet(<<>>) = {}
        BY DEF ToSet
      <4>. QED BY <1>10, <3>2, <4>1, <4>2 DEF Agrees
    <3>. QED BY <3>1, <3>2 DEF Sole
  <2>5. Kept(T)
    BY <1>2, <1>9, <2>1, <2>2, <2>4 DEF Kept
  <2>. QED BY <2>3, <2>5 DEF SoleAt
<1>13. SureKept
  <2>1. disk[File("profile")] = Missing
    BY <1>4, TheSingles DEF Single
  <2>2. Sure(Missing, h)
    BY EmptyOnes DEF Empty
  <2>. QED BY <1>2, <1>9, <2>1, <2>2 DEF SureKept
<1>14. PictureInv
  <2>1. disk[File("picture")] = Missing /\ disk[File("ext")] = Missing
    BY <1>4, TheSingles
  <2>2. PictureAgrees
    BY <1>7, <2>1 DEF PictureAgrees, ReadUserAvatar
  <2>. QED BY <1>2, <2>2 DEF PictureInv, PictureAt, PictureKept
<1>15. SnapshotInv
  <2>1. disk[File("snapshot")] = Missing
    BY <1>4, TheSingles
  <2>. QED BY <1>2, <2>1 DEF SnapshotInv, SnapshotAt
<1>16. Noted
  BY DEF Init, Noted
<1>17. SoleInv
  BY <1>8, <1>9, <1>11, <1>12, <1>13 DEF SoleInv
<1>. QED BY <1>14, <1>15, <1>16, <1>17 DEF PlainInv

LEMMA PlainStutters ==
    ASSUME PlainInv, UNCHANGED vars
    PROVE  PlainInv'
<1>1. UNCHANGED <<disk, work, told, overlapped, torn>>
  BY DEF vars
<1>2. \A T : (Whole(T)' <=> Whole(T)) /\ (FileOk(T)' <=> FileOk(T)) /\ (Kept(T)' <=> Kept(T))
  BY <1>1 DEF Whole, FileOk, Kept
<1>3. \A T, p : TodoOk(T, p)' <=> TodoOk(T, p)
  BY <1>1 DEF TodoOk
<1>4. SoleInv'
  BY <1>1, <1>2, <1>3 DEF PlainInv, SoleInv, SoleAt, SureKept, Asked
<1>5. PictureInv' /\ SnapshotInv' /\ Noted'
  BY <1>1, <1>2 DEF PlainInv, PictureInv, PictureAt, PictureKept, PictureAgrees, SnapshotInv, SnapshotAt, Noted
<1>. QED BY <1>4, <1>5 DEF PlainInv

\* Handlers of the profile, the reminders, the picture and the record go on as their
\* functions are written (user-profile.c:423, reminders.c:157, user-management.c:176),
\* and whenever nobody is at a file it says what was told.
THEOREM PlainInductive == Spec => [](IInv /\ PlainInv)
<1>1. Init => PlainInv
  BY PlainStarts
<1>2. IInv /\ IInv' /\ PlainInv /\ [Next]_vars => PlainInv'
  <2>. SUFFICES ASSUME IInv, IInv', PlainInv, [Next]_vars PROVE PlainInv'
    OBVIOUS
  <2>1. CASE Crash
    BY <2>1, PlainCrashes
  <2>2. CASE \E p \in Ports : Request(p)
    BY <2>2, PlainRequests
  <2>3. CASE \E p \in Ports : Moving(p)
    BY <2>3, PlainSteps
  <2>4. CASE \E p \in Ports : Answer(p)
    BY <2>4, PlainAnswers
  <2>5. CASE UNCHANGED vars
    BY <2>5, PlainStutters
  <2>6. \A p \in Ports : Step(p) => Moving(p) \/ Answer(p)
    BY DEF Step, Moving
  <2>. QED BY <2>1, <2>2, <2>3, <2>4, <2>5, <2>6 DEF Next
<1>. QED BY <1>1, <1>2, Inductive, PTL DEF Spec

----------------------------------------------------------------------------
\* What the files give back

LEMMA SettledOnes ==
    ASSUME NEW T \in Things, Settled(T), Handlers
    PROVE  Whole(T) /\ \A p \in Ports : work[p].thing # T
<1>1. T # "none"
  BY Distinct DEF Things
<1>. QED BY <1>1 DEF Settled, Busy, IsBusy, Whole

LEMMA ProfileTold ==
    ASSUME IInv, PlainInv
    PROVE  ProfileAsTold
<1>. SUFFICES ASSUME Settled("profile") PROVE ProfileAsTold
  BY DEF ProfileAsTold
<1>1. PICK f : f = read_profile_sections(disk[File("profile")])
  OBVIOUS
<1>2. PICK h : h = Heard(told)
  OBVIOUS
<1>3. /\ h \in Hearing /\ h.inputs = told["inputs"] /\ h.events = told["events"] /\ h.keys = told["keys"]
  <2>1. h \in Hearing
    BY <1>2 DEF PlainInv, SoleInv
  <2>. QED BY <1>2, <2>1 DEF Heard
<1>4. Whole("profile") /\ \A p \in Ports : work[p].thing # "profile"
  BY SettledOnes DEF Things, IInv
<1>5. ProfileAgrees(f, h)
  <2>1. SoleAt("profile")
    BY DEF PlainInv, SoleInv, Sole
  <2>. QED BY <1>1, <1>2, <1>4, <2>1 DEF SoleAt, Kept, Agrees
<1>6. /\ f.inputs = told["inputs"] /\ f.goals = told["events"]
      /\ \A k \in Keys : Lookup(f, k) = told["keys"][k]
      /\ Lookup(f, "current_focus_goal_id") = FocusAfter(told["events"])
      /\ told["inputs"] # <<>> => Lookup(f, "latest_input") = told["inputs"][Len(told["inputs"])]
  BY <1>3, <1>5 DEF ProfileAgrees
<1>8. \A k \in Keys : UserProfileGetDerivedField(f, k) = told["keys"][k]
  BY <1>6 DEF Lookup
<1>9. ASSUME told.inputs # <<>>
      PROVE  <<"latest_input", told.inputs[Len(told.inputs)]>> \in SerializeUserProfileDerivedSummary(f)
  <2>1. PICK last : last = told["inputs"][Len(told["inputs"])]
    OBVIOUS
  <2>2. last \in Texts
    <3>1. told["inputs"] \in Seq(Texts)
      BY <1>3 DEF Hearing
    <3>2. Len(told["inputs"]) \in 1 .. Len(told["inputs"])
      BY <1>9, <3>1
    <3>. QED BY <2>1, <3>1, <3>2
  <2>3. last # None
    BY <2>2, DistinctAssumption
  <2>4. UserProfileGetDerivedField(f, "latest_input") = last
    BY <1>6, <1>9, <2>1 DEF Lookup
  <2>5. "latest_input" \in DOMAIN f.derived /\ f.derived["latest_input"] = last
    BY <2>3, <2>4 DEF UserProfileGetDerivedField
  <2>. QED BY <2>1, <2>3, <2>5 DEF SerializeUserProfileDerivedSummary
<1>10. SerializeUserProfileHistorySection(f, "inputs", LINES) = append_last_lines(told.inputs, LINES)
  BY <1>6 DEF SerializeUserProfileHistorySection
<1>. QED BY <1>1, <1>6, <1>8, <1>9, <1>10 DEF ProfileAsTold, Lookup

LEMMA OthersTold ==
    ASSUME IInv, PlainInv
    PROVE  RemindersAsTold /\ PictureAsTold
<1>1. ASSUME Settled("reminders") PROVE ToSet(RemindersList(disk[File("reminders")])) = told.reminders
  <2>1. Whole("reminders") /\ \A p \in Ports : work[p].thing # "reminders"
    BY <1>1, SettledOnes DEF Things, IInv
  <2>2. SoleAt("reminders")
    BY DEF PlainInv, SoleInv, Sole
  <2>3. Agrees("reminders", disk[File("reminders")], Heard(told))
    BY <2>1, <2>2 DEF SoleAt, Kept
  <2>. QED BY <2>3 DEF Agrees, Heard
<1>2. ASSUME Settled("picture")
      PROVE  ReadUserAvatar(disk[File("picture")], disk[File("ext")]) = told.picture
  <2>1. Whole("picture") /\ \A p \in Ports : work[p].thing # "picture"
    BY <1>2, SettledOnes DEF Things, IInv
  <2>. QED BY <2>1 DEF PlainInv, PictureInv, PictureKept, PictureAgrees
<1>. QED BY <1>1, <1>2 DEF RemindersAsTold, PictureAsTold

\* What was answered OK about the profile, the reminders and the picture is what
\* their files give back (user-profile.c:423, reminders.c:157, user-io.c:188).
THEOREM PlainFilesAsTold == Spec => [](ProfileAsTold /\ RemindersAsTold /\ PictureAsTold)
<1>1. IInv /\ PlainInv => ProfileAsTold /\ RemindersAsTold /\ PictureAsTold
  BY ProfileTold, OthersTold
<1>. QED BY <1>1, PlainInductive, PTL

\* As many ids as places, if no two are the same.
LEMMA ManyIds ==
    ASSUME NEW v \in Seq(Notes), DistinctIds(v)
    PROVE  Cardinality({v[i].id : i \in DOMAIN v}) = Len(v)
<1>. DEFINE ids == {v[i].id : i \in DOMAIN v}
            f == [i \in 1 .. Len(v) |-> v[i].id]
<1>1. DOMAIN v = 1 .. Len(v) /\ Len(v) \in Nat
  OBVIOUS
<1>2. f \in [1 .. Len(v) -> ids]
  BY <1>1
<1>3. \A x \in ids : \E i \in 1 .. Len(v) : f[i] = x
  BY <1>1
<1>4. \A i, j \in 1 .. Len(v) : f[i] = f[j] => i = j
  BY DEF DistinctIds
<1>5. IsFiniteSet(1 .. Len(v)) /\ Cardinality(1 .. Len(v)) = Len(v)
  BY <1>1, FS_Interval
<1>6. f \in Surjection(1 .. Len(v), ids) /\ f \in Injection(1 .. Len(v), ids)
  BY <1>2, <1>3, <1>4 DEF Surjection, Injection, IsInjective
<1>7. Cardinality(ids) = Cardinality(1 .. Len(v))
  BY <1>5, <1>6, FS_Surjection
<1>. QED BY <1>5, <1>7

LEMMA NoIds == Cardinality({<<>>[i].id : i \in DOMAIN <<>>}) = Len(<<>>)
<1>1. <<>> \in Seq(Notes) /\ Len(<<>>) = 0
  OBVIOUS
<1>2. DistinctIds(<<>>)
  BY <1>1 DEF DistinctIds
<1>. QED BY <1>1, <1>2, ManyIds

\* Each reminder is in the file once (reminders.c:157, :182).
THEOREM EachReminderOnce == Spec => []RemindersDistinct
<1>1. IInv /\ PlainInv => RemindersDistinct
  <2>. SUFFICES ASSUME PlainInv PROVE RemindersDistinct
    OBVIOUS
  <2>1. PICK v : v = disk[File("reminders")]
    OBVIOUS
  <2>2. FileOk("reminders")
    BY DEF PlainInv, SoleInv, Sole, SoleAt
  <2>3. CASE Empty(v)
    <3>1. RemindersList(v) = <<>>
      BY <2>3 DEF Empty, RemindersList, NoReminders
    <3>. QED BY <2>1, <3>1, NoIds DEF RemindersDistinct
  <2>4. CASE ~Empty(v)
    <3>1. RemindersList(v) = v
      BY <2>4 DEF Empty, RemindersList
    <3>2. v \in Seq(Notes) /\ DistinctIds(v)
      BY <2>1, <2>2, <2>4 DEF FileOk, Fits
    <3>3. Cardinality({v[i].id : i \in DOMAIN v}) = Len(v)
      BY <3>2, ManyIds
    <3>. QED BY <2>1, <3>1, <3>3 DEF RemindersDistinct
  <2>. QED BY <2>3, <2>4
<1>. QED BY <1>1, PlainInductive, PTL

\* Who was told to be through the introduction is through it, also while the
\* profile is written and after any crash (profile-handlers.c:39).
THEOREM OnboardedStays == Spec => []OnboardedForGood
<1>1. IInv /\ PlainInv => OnboardedForGood
  BY DEF PlainInv, SoleInv, SureKept, Sure, Heard, OnboardedForGood
<1>. QED BY <1>1, PlainInductive, PTL

\* The files hold what belongs in them, the parts of an entry are in its
\* directory (journal.c:231), and the list of reminders is within its limit
\* (reminders.c:168).
THEOREM FilesTypeOK == Spec => []TypeOK
<1>1. IInv /\ PlainInv => TypeOK
  <2>. SUFFICES ASSUME IInv, PlainInv PROVE TypeOK
    OBVIOUS
  <2>1. disk[File("profile")] \in {Missing, Torn} \cup Profiles
    BY DEF PlainInv, SoleInv, Sole, SoleAt, FileOk, Fits, Empty
  <2>2. disk[File("reminders")] \in {Missing, Torn} \/
           /\ Len(disk[File("reminders")]) <= REMINDERS_MAX
           /\ \A i \in DOMAIN disk[File("reminders")] :
                 disk[File("reminders")][i] \in [id : ReminderIds, says : Texts]
    <3>1. PICK v : v = disk[File("reminders")]
      OBVIOUS
    <3>2. FileOk("reminders")
      BY DEF PlainInv, SoleInv, Sole, SoleAt
    <3>3. CASE Empty(v)
      BY <3>1, <3>3 DEF Empty
    <3>4. CASE ~Empty(v)
      <4>1. v \in Seq(Notes) /\ Len(v) <= REMINDERS_MAX
        BY <3>1, <3>2, <3>4 DEF FileOk, Fits
      <4>2. \A i \in DOMAIN v : v[i] \in Notes
        BY <4>1
      <4>. QED BY <3>1, <4>1, <4>2 DEF Notes
    <3>. QED BY <3>3, <3>4
  <2>3. mem \in Users /\ (disk[File("user")] = Torn \/ disk[File("user")] \in Users)
    BY DEF IInv, UserInv
  <2>4. disk[File("snapshot")] \in Looks \cup {None, Missing, Torn}
    BY DEF PlainInv, SnapshotInv, Seen
  <2>5. Tree
    BY DEF IInv, JournalInv
  <2>6. overlapped \cup torn \subseteq {"profile", "reminders", "user", "picture"} \cup EntryIds
    BY DEF PlainInv, Noted, Things
  <2>7. \A e \in EntryIds : \A n \in {"entry", "files"} : disk[<<e, n>>] \in {Missing, Directory}
    BY <2>5 DEF Tree, TreeOf
  <2>8. \A e \in EntryIds : \A n \in Names : disk[<<e, n>>] # Missing =>
            n = "entry" \/ disk[<<e, ParentOf[n]>>] = Directory
    BY <2>5 DEF Tree, TreeOf
  <2>. QED BY <2>1, <2>2, <2>3, <2>4, <2>6, <2>7, <2>8 DEF TypeOK
<1>. QED BY <1>1, PlainInductive, PTL

----------------------------------------------------------------------------
\* An entry and what is told of it
\*
\* f are the files of the entry, x is what is told of it, r the request of a
\* handler of it, t the steps that handler has left, b whether it has begun.

\* What is in the files of an entry is not taken for a file that is missing or empty.
LEMMA EntryContents ==
    /\ \A a \in Texts \cup {""} : Meta(a) \notin {Missing, Torn} /\ Meta(a).title = a
    /\ \A a \in Texts : a \notin {Missing, Torn}
    /\ \A s \in Seq(Embeds) : s \notin {Missing, Torn}
    /\ "bytes" # Missing /\ Torn # Missing /\ Directory # Missing
<1>1. \A a \in Texts \cup {""} : Meta(a) \in Contents /\ Meta(a).title = a
  BY DEF Meta, Contents
<1>2. \A a \in Texts : a \in Contents
  BY DEF Contents
<1>3. Seq(Embeds) \subseteq Contents /\ "bytes" \in Contents
  BY DEF Contents
<1>. QED BY <1>1, <1>2, <1>3, DistinctAssumption

LEMMA RemovedIn ==
    ASSUME NEW S, NEW s \in Seq(S), NEW i \in 1 .. Len(s)
    PROVE  RemoveAt(s, i) \in Seq(S)
<1>1. SubSeq(s, 1, i - 1) \in Seq(S) /\ SubSeq(s, i + 1, Len(s)) \in Seq(S)
  OBVIOUS
<1>. QED BY <1>1 DEF RemoveAt

\* What a request makes of what is told, part by part.
Changes(y, x, r) ==
    /\ IsThere(y)
    /\ y.title = IF r.op = "update" /\ r.title # "" THEN r.title ELSE x.title
    /\ y.text = IF r.op = "update" /\ r.text # "" THEN r.text ELSE x.text
    /\ r.op = "embed" => y.embeds = Append(x.embeds, r.embed)
    /\ r.op = "unembed" => y.embeds = IF r.index + 1 \in DOMAIN x.embeds THEN RemoveAt(x.embeds, r.index + 1) ELSE x.embeds
    /\ r.op \notin {"embed", "unembed"} => y.embeds = x.embeds
    /\ y.image = IF r.op = "attach" THEN TRUE ELSE x.image

LEMMA ChangedFields ==
    ASSUME NEW x, IsThere(x), NEW r, r.op \in {"update", "attach", "embed", "unembed"}
    PROVE  Changes(Changed(x, r), x, r)
<1>1. PICK a, b, c, d : x = [is |-> "there", title |-> a, text |-> b, embeds |-> c, image |-> d]
  BY DEF IsThere
<1>2. x.title = a /\ x.text = b /\ x.embeds = c /\ x.image = d
  BY <1>1
<1>3. CASE r.op = "update"
  <2>1. PICK a2 : a2 = IF r.title = "" THEN a ELSE r.title
    OBVIOUS
  <2>2. PICK b2 : b2 = IF r.text = "" THEN b ELSE r.text
    OBVIOUS
  <2>3. Changed(x, r) = [x EXCEPT !.title = a2, !.text = b2]
    BY <1>2, <1>3, <2>1, <2>2 DEF Changed
  <2>4. Changed(x, r) = [is |-> "there", title |-> a2, text |-> b2, embeds |-> c, image |-> d]
    BY <1>1, <2>3
  <2>5. PICK y : y = Changed(x, r)
    OBVIOUS
  <2>6. IsThere(y) /\ y.title = a2 /\ y.text = b2 /\ y.embeds = c /\ y.image = d
    BY <2>4, <2>5 DEF IsThere
  <2>. QED BY <1>2, <1>3, <2>1, <2>2, <2>5, <2>6 DEF Changes
<1>4. CASE r.op = "attach"
  <2>1. Changed(x, r) = [x EXCEPT !.image = TRUE]
    BY <1>4 DEF Changed
  <2>2. Changed(x, r) = [is |-> "there", title |-> a, text |-> b, embeds |-> c, image |-> TRUE]
    BY <1>1, <2>1
  <2>3. PICK y : y = Changed(x, r)
    OBVIOUS
  <2>4. IsThere(y) /\ y.title = a /\ y.text = b /\ y.embeds = c /\ y.image = TRUE
    BY <2>2, <2>3 DEF IsThere
  <2>. QED BY <1>2, <1>4, <2>3, <2>4 DEF Changes
<1>5. CASE r.op = "embed"
  <2>0. PICK c2 : c2 = Append(c, r.embed)
    OBVIOUS
  <2>1. Changed(x, r) = [x EXCEPT !.embeds = c2]
    BY <1>2, <1>5, <2>0 DEF Changed
  <2>2. Changed(x, r) = [is |-> "there", title |-> a, text |-> b, embeds |-> c2, image |-> d]
    BY <1>1, <2>1
  <2>3. PICK y : y = Changed(x, r)
    OBVIOUS
  <2>4. IsThere(y) /\ y.title = a /\ y.text = b /\ y.embeds = c2 /\ y.image = d
    BY <2>2, <2>3 DEF IsThere
  <2>. QED BY <1>2, <1>5, <2>0, <2>3, <2>4 DEF Changes
<1>6. CASE r.op = "unembed"
  <2>. DEFINE i == r.index + 1
  <2>0. PICK c2 : c2 = IF i \in DOMAIN c THEN RemoveAt(c, i) ELSE c
    OBVIOUS
  <2>1. Changed(x, r) = IF i \in DOMAIN c THEN [x EXCEPT !.embeds = RemoveAt(c, i)] ELSE x
    BY <1>2, <1>6 DEF Changed
  <2>. HIDE DEF i
  <2>2. Changed(x, r) = [is |-> "there", title |-> a, text |-> b, embeds |-> c2, image |-> d]
    <3>1. CASE i \in DOMAIN c
      <4>1. Changed(x, r) = [x EXCEPT !.embeds = c2]
        BY <2>0, <2>1, <3>1
      <4>. QED BY <1>1, <4>1
    <3>2. CASE i \notin DOMAIN c
      BY <1>1, <2>0, <2>1, <3>2
    <3>. QED BY <3>1, <3>2
  <2>3. PICK y : y = Changed(x, r)
    OBVIOUS
  <2>4. IsThere(y) /\ y.title = a /\ y.text = b /\ y.embeds = c2 /\ y.image = d
    BY <2>2, <2>3 DEF IsThere
  <2>5. c2 = IF r.index + 1 \in DOMAIN c THEN RemoveAt(c, r.index + 1) ELSE c
    BY <2>0 DEF i
  <2>. QED BY <1>2, <1>6, <2>3, <2>4, <2>5 DEF Changes
<1>. QED BY <1>3, <1>4, <1>5, <1>6

\* What is told stays as it should be.
LEMMA ToldChanged ==
    ASSUME NEW x, ToldOk(x), NEW r, r.op \in {"update", "attach", "embed", "unembed"}, EntryFitting(r),
           ImageThere(r, x), x # Gone
    PROVE  ToldOk(Changed(x, r))
<1>1. PICK y : y = Changed(x, r)
  OBVIOUS
<1>0. IsThere(x)
  BY DEF ToldOk
<1>2. Changes(y, x, r)
  BY <1>0, <1>1, ChangedFields
<1>3. IsThere(y)
  BY <1>2 DEF Changes
<1>4. y.title \in Texts \cup {""} /\ y.text \in Texts
  BY <1>2 DEF Changes, ToldOk, EntryFitting
<1>5. y.image \in BOOLEAN /\ (x.image = TRUE => y.image = TRUE)
  BY <1>2 DEF Changes, ToldOk
<1>6. /\ x.embeds \in Seq(Embeds) /\ Len(x.embeds) \in Nat /\ DOMAIN x.embeds = 1 .. Len(x.embeds)
      /\ \A i \in 1 .. Len(x.embeds) : x.embeds[i].type = "image" => x.image = TRUE
  <2>1. x.embeds \in Seq(Embeds)
    BY DEF ToldOk
  <2>2. \A s \in Seq(Embeds) : Len(s) \in Nat /\ DOMAIN s = 1 .. Len(s)
    OBVIOUS
  <2>3. \A i \in 1 .. Len(x.embeds) : x.embeds[i].type = "image" => x.image = TRUE
    BY DEF ToldOk
  <2>. QED BY <2>1, <2>2, <2>3
<1>. DEFINE S == {a \in Embeds : a.type = "image" => y.image = TRUE}
<1>7. x.embeds \in Seq(S)
  <2>1. \A i \in 1 .. Len(x.embeds) : x.embeds[i] \in S
    BY <1>5, <1>6
  <2>. HIDE DEF S
  <2>. QED BY <1>6, <2>1
<1>8. y.embeds \in Seq(S)
  <2>1. CASE r.op = "embed"
    <3>1. r.embed \in S
      BY <1>5, <2>1 DEF EntryFitting, ImageThere
    <3>. HIDE DEF S
    <3>2. y.embeds = Append(x.embeds, r.embed)
      BY <1>2, <2>1 DEF Changes
    <3>. QED BY <1>7, <3>1, <3>2
  <2>. HIDE DEF S
  <2>2. CASE r.op = "unembed"
    <3>1. y.embeds = IF r.index + 1 \in DOMAIN x.embeds THEN RemoveAt(x.embeds, r.index + 1) ELSE x.embeds
      BY <1>2, <2>2 DEF Changes
    <3>2. r.index + 1 \in DOMAIN x.embeds => RemoveAt(x.embeds, r.index + 1) \in Seq(S)
      BY <1>6, <1>7, RemovedIn
    <3>. QED BY <1>7, <3>1, <3>2
  <2>3. CASE r.op \notin {"embed", "unembed"}
    BY <1>2, <1>7, <2>3 DEF Changes
  <2>. QED BY <2>1, <2>2, <2>3
<1>9. y.embeds \in Seq(Embeds) /\ \A i \in 1 .. Len(y.embeds) : y.embeds[i].type = "image" => y.image = TRUE
  <2>1. \A i \in 1 .. Len(y.embeds) : y.embeds[i] \in S
    BY <1>8
  <2>2. S \subseteq Embeds
    OBVIOUS
  <2>3. y.embeds \in Seq(Embeds)
    <3>. HIDE DEF S
    <3>. QED BY <1>8, <2>2
  <2>. QED BY <2>1, <2>3
<1>. QED BY <1>1, <1>3, <1>4, <1>5, <1>9 DEF ToldOk

LEMMA ToldBorn ==
    ASSUME NEW r, r.op = "create", EntryFitting(r)
    PROVE  /\ ToldOk(Born(r)) /\ Born(r).title = r.title /\ Born(r).text = r.text /\ Born(r).embeds = <<>>
           /\ Born(r).image = FALSE
<1>1. Born(r).title = r.title /\ Born(r).text = r.text /\ Born(r).embeds = <<>> /\ Born(r).image = FALSE /\ IsThere(Born(r))
  BY DEF Born, IsThere
<1>2. <<>> \in Seq(Embeds) /\ \A i \in 1 .. Len(<<>>) : FALSE
  OBVIOUS
<1>. QED BY <1>1, <1>2 DEF ToldOk, EntryFitting

----------------------------------------------------------------------------
\* What a step of a handler makes of the files of its entry

\* What is to be written is what the answer says, and so is what is there.
LEMMA ModifyShows ==
    ASSUME NEW x, ToldOk(x), Len(x.embeds) <= EMBEDS_READ,
           NEW r, EntryFitting(r), r.op \in {"update", "embed", "unembed"},
           NEW n, n = IF r.op = "update" THEN "meta" ELSE "embeds",
           NEW v, Shows(n, v, x), NEW new, new = Modified(r, v), new # NotSaved
    PROVE  Shows(n, new, Changed(x, r))
<1>0. IsThere(x)
  BY DEF ToldOk
<1>1. PICK y : y = Changed(x, r)
  OBVIOUS
<1>2. Changes(y, x, r)
  BY <1>0, <1>1, ChangedFields
<1>3. CASE r.op = "update"
  <2>1. v = Meta(x.title)
    BY <1>3 DEF Shows
  <2>2. v # Missing /\ v # Torn
    BY <2>1, EntryContents DEF ToldOk
  <2>3. new = IF r.title = "" THEN v ELSE Meta(r.title)
    BY <1>3, <2>2 DEF Modified, MetaOf
  <2>4. new = Meta(y.title)
    BY <1>2, <1>3, <2>1, <2>3 DEF Changes
  <2>. QED BY <1>1, <1>3, <2>4 DEF Shows
<1>4. ASSUME r.op \in {"embed", "unembed"} PROVE v = x.embeds \/ (v = Missing /\ x.embeds = <<>>)
  BY <1>4 DEF Shows
<1>5. x.embeds \in Seq(Embeds)
  BY DEF ToldOk
<1>6. x.embeds \notin {Missing, Torn}
  BY <1>5, EntryContents
<1>7. CASE r.op = "embed"
  <2>1. ListOf(v) = x.embeds
    BY <1>4, <1>6, <1>7 DEF ListOf
  <2>2. new = Append(x.embeds, r.embed)
    BY <1>7, <2>1 DEF Modified, JournalAddEmbed
  <2>3. new = y.embeds
    BY <1>2, <1>7, <2>2 DEF Changes
  <2>. QED BY <1>1, <1>7, <2>3 DEF Shows
<1>8. CASE r.op = "unembed"
  <2>1. EmbedThere(v, r.index) /\ new = JournalRemoveEmbed(v, r.index)
    BY <1>8 DEF Modified
  <2>2. v = x.embeds /\ ListOf(v) = x.embeds /\ r.index + 1 \in DOMAIN x.embeds
    BY <1>4, <1>6, <1>8, <2>1 DEF EmbedThere, ListOf
  <2>3. Len(x.embeds) \in Nat /\ EMBEDS_READ \in Nat
    BY <1>5, UserFilesAssumption
  <2>4. FirstEmbeds(v) = v
    BY <2>2, <2>3 DEF FirstEmbeds
  <2>5. new = RemoveAt(x.embeds, r.index + 1)
    BY <2>1, <2>2, <2>4 DEF JournalRemoveEmbed
  <2>6. new = y.embeds
    BY <1>2, <1>8, <2>2, <2>5 DEF Changes
  <2>. QED BY <1>1, <1>8, <2>6 DEF Shows
<1>. QED BY <1>3, <1>7, <1>8

\* Its first step gives way to another about the same file.
LEMMA PutAt ==
    ASSUME NEW t, Listlike(t), NEW u, NEW s, Put(t, u, s), s.path = t[1].path
    PROVE  /\ Listlike(u) /\ Len(u) = Len(t) /\ u[1] = s
           /\ \A k \in 1 .. Len(t) : At(u, k) = At(t, k)
           /\ \A k \in 2 .. Len(t) : u[k] = t[k]
           /\ \A n : Pending(u, n) <=> Pending(t, n)
<1>1. Listlike(u) /\ Len(u) = Len(t) /\ u[1] = s /\ \A k \in 2 .. Len(t) : u[k] = t[k]
  BY DEF Listlike, Put
<1>2. \A k \in 1 .. Len(t) : k = 1 \/ k \in 2 .. Len(t)
  BY DEF Listlike
<1>3. \A k \in 1 .. Len(t) : At(u, k) = At(t, k)
  BY <1>1, <1>2 DEF At
<1>. QED BY <1>1, <1>3 DEF Pending

LEMMA CutAt ==
    ASSUME NEW t, Listlike(t), NEW u, Cut(t, u)
    PROVE  /\ Len(u) \in Nat /\ Len(u) = Len(t) - 1 /\ (u # <<>> => Len(u) >= 1)
           /\ \A k \in 1 .. Len(u) : At(u, k) = At(t, k + 1) /\ u[k] = t[k + 1] /\ k + 1 \in 2 .. Len(t)
           /\ \A n : Pending(t, n) => n = At(t, 1) \/ Pending(u, n)
<1>1. Len(u) = Len(t) - 1 /\ (\A k \in 1 .. Len(t) - 1 : u[k] = t[k + 1]) /\ (u = <<>> <=> Len(t) = 1)
  BY DEF Cut
<1>2. Len(u) \in Nat /\ (u # <<>> => Len(u) >= 1)
  BY <1>1 DEF Listlike
<1>3. \A k \in 1 .. Len(u) : u[k] = t[k + 1] /\ k + 1 \in 2 .. Len(t)
  BY <1>1 DEF Listlike
<1>4. \A k \in 1 .. Len(u) : At(u, k) = At(t, k + 1)
  BY <1>3 DEF At
<1>5. \A k \in 1 .. Len(t) : k = 1 \/ (k - 1 \in 1 .. Len(u) /\ (k - 1) + 1 = k)
  BY <1>1 DEF Listlike
<1>6. ASSUME NEW n, Pending(t, n) PROVE n = At(t, 1) \/ Pending(u, n)
  <2>1. PICK k \in 1 .. Len(t) : At(t, k) = n
    BY <1>6 DEF Pending
  <2>2. CASE k = 1
    BY <2>1, <2>2
  <2>3. CASE k # 1
    <3>1. PICK j \in 1 .. Len(u) : j + 1 = k
      BY <1>5, <2>3
    <3>2. At(u, j) = n
      BY <1>4, <2>1, <3>1
    <3>. QED BY <3>2 DEF Pending
  <2>. QED BY <2>2, <2>3
<1>. QED BY <1>1, <1>2, <1>3, <1>4, <1>6

LEMMA OrderlyPut ==
    ASSUME NEW t, Listlike(t), NEW r, NEW f, NEW b, Orderly(t, r, f, b), NEW u, NEW s, Put(t, u, s),
           s.path = t[1].path, s.do \in {"open", "fill"}, t[1].do \in {"modify", "open"},
           NEW f2, f2["entry"] = f["entry"], f2["files"] = f["files"],
           s.do = "fill" => f2[At(t, 1)] # Missing, NEW b2
    PROVE  Orderly(u, r, f2, b2)
<1>1. /\ Listlike(u) /\ Len(u) = Len(t) /\ u[1] = s /\ \A k \in 1 .. Len(t) : At(u, k) = At(t, k)
      /\ \A k \in 2 .. Len(t) : u[k] = t[k]
  BY PutAt
<1>2. 1 \in 1 .. Len(t) /\ (\A k \in 1 .. Len(t) : k = 1 \/ k \in 2 .. Len(t)) /\ t # <<>>
  BY DEF Listlike
<1>3. At(t, 1) \notin {"entry", "files"}
  BY <1>2 DEF Orderly
<1>4. /\ \A j, k \in 1 .. Len(u) : At(u, j) = At(u, k) => j = k
      /\ \A k \in 1 .. Len(u) : At(u, k) \in Names
      /\ \A k \in 2 .. Len(u) : u[k].do = "open"
  BY <1>1 DEF Orderly
<1>5. u[1].do \in {"open", "fill"} /\ At(u, 1) = At(t, 1)
  BY <1>1, <1>2
<1>6. \A k \in 1 .. Len(u) : u[k].do \in {"open", "fill"} => At(u, k) \notin {"entry", "files"}
  <2>1. \A k \in 2 .. Len(u) : u[k].do \in {"open", "fill"} => At(u, k) \notin {"entry", "files"}
    BY <1>1, <1>2 DEF Orderly
  <2>. QED BY <1>1, <1>2, <1>3, <1>5, <2>1
<1>7. f2["entry"] = Directory
  BY <1>2 DEF Orderly
<1>8. \A k \in 1 .. Len(u) : At(u, k) = "image" => f2["files"] = Directory
  BY <1>1, <1>2 DEF Orderly
<1>. QED BY <1>1, <1>4, <1>5, <1>6, <1>7, <1>8 DEF Orderly

LEMMA OrderlyCut ==
    ASSUME NEW t, Listlike(t), NEW r, NEW f, NEW b, Orderly(t, r, f, b), NEW u, Cut(t, u),
           t[1].do \in {"open", "fill", "mkdir"},
           NEW f2, f2["entry"] = Directory, f["files"] = Directory => f2["files"] = Directory,
           t[1].do = "mkdir" /\ At(t, 1) = "files" => f2["files"] = Directory, NEW b2
    PROVE  Orderly(u, r, f2, b2)
<1>1. /\ Len(u) \in Nat /\ Len(u) = Len(t) - 1 /\ (u # <<>> => Len(u) >= 1)
      /\ \A k \in 1 .. Len(u) : At(u, k) = At(t, k + 1) /\ u[k] = t[k + 1] /\ k + 1 \in 2 .. Len(t)
  BY CutAt
<1>2. \A k \in 2 .. Len(t) : k \in 1 .. Len(t) /\ t[k].do = "open"
  BY DEF Orderly, Listlike
<1>3. \A k \in 1 .. Len(u) : u[k].do = "open" /\ At(u, k) \in Names /\ At(u, k) \notin {"entry", "files"}
  BY <1>1, <1>2 DEF Orderly
<1>4. ASSUME NEW j \in 1 .. Len(u), NEW k \in 1 .. Len(u), At(u, j) = At(u, k) PROVE j = k
  <2>1. At(t, j + 1) = At(t, k + 1) /\ j + 1 \in 1 .. Len(t) /\ k + 1 \in 1 .. Len(t)
    BY <1>1, <1>2, <1>4
  <2>2. j + 1 = k + 1
    BY <2>1 DEF Orderly
  <2>. QED BY <1>1, <2>2
<1>5. u # <<>> => u[1].do = "open"
  BY <1>1, <1>3
<1>6. \A k \in 1 .. Len(u) : At(u, k) = "image" => f2["files"] = Directory
  BY <1>1, <1>2 DEF Orderly
<1>7. \A k \in 2 .. Len(u) : u[k].do = "open"
  BY <1>1, <1>3
<1>. QED BY <1>3, <1>4, <1>5, <1>6, <1>7 DEF Orderly

LEMMA ChangingPut ==
    ASSUME NEW t, Listlike(t), NEW r, NEW f, NEW x, Changing(f, x, r, t), NEW u, NEW s, Put(t, u, s),
           s.path = t[1].path, s.do \in {"open", "fill"}, Shows(At(t, 1), s.data, After(x, r)),
           NEW f2, \A n \in Fields : n # At(t, 1) => f2[n] = f[n]
    PROVE  Changing(f2, x, r, u)
<1>1. /\ Listlike(u) /\ Len(u) = Len(t) /\ u[1] = s /\ \A k \in 1 .. Len(t) : At(u, k) = At(t, k)
      /\ \A k \in 2 .. Len(t) : u[k] = t[k]
      /\ \A n : Pending(u, n) <=> Pending(t, n)
  BY PutAt
<1>2. 1 \in 1 .. Len(t) /\ (\A k \in 1 .. Len(t) : k = 1 \/ k \in 2 .. Len(t)) /\ t # <<>>
  BY DEF Listlike
<1>3. u[1].do # "modify"
  BY <1>1
<1>4. \A k \in 1 .. Len(u) : u[k].do \in {"open", "fill"} => Shows(At(u, k), u[k].data, After(x, r))
  <2>1. Shows(At(u, 1), u[1].data, After(x, r))
    BY <1>1, <1>2
  <2>2. \A k \in 2 .. Len(t) : u[k].do \in {"open", "fill"} => Shows(At(u, k), u[k].data, After(x, r))
    BY <1>1, <1>2 DEF Changing
  <2>. QED BY <1>1, <1>2, <2>1, <2>2
<1>5. \A n \in Fields : ~Pending(u, n) => Shows(n, f2[n], After(x, r))
  <2>1. Pending(t, At(t, 1))
    BY <1>2 DEF Pending
  <2>. QED BY <1>1, <2>1 DEF Changing
<1>. QED BY <1>3, <1>4, <1>5 DEF Changing

LEMMA ChangingCut ==
    ASSUME NEW t, Listlike(t), NEW r, NEW f, NEW b, NEW x, Changing(f, x, r, t), Orderly(t, r, f, b),
           NEW u, Cut(t, u), t[1].do \in {"open", "fill", "mkdir"},
           NEW f2, \A n \in Fields : n # At(t, 1) => f2[n] = f[n],
           At(t, 1) \in Fields => Shows(At(t, 1), f2[At(t, 1)], After(x, r))
    PROVE  Changing(f2, x, r, u)
<1>1. /\ Len(u) \in Nat /\ Len(u) = Len(t) - 1 /\ (u # <<>> => Len(u) >= 1)
      /\ \A k \in 1 .. Len(u) : At(u, k) = At(t, k + 1) /\ u[k] = t[k + 1] /\ k + 1 \in 2 .. Len(t)
      /\ \A n : Pending(t, n) => n = At(t, 1) \/ Pending(u, n)
  BY CutAt
<1>2. \A k \in 2 .. Len(t) : k \in 1 .. Len(t) /\ t[k].do = "open"
  BY DEF Orderly, Listlike
<1>3. u # <<>> => u[1].do # "modify"
  BY <1>1, <1>2
<1>4. \A k \in 1 .. Len(u) : u[k].do \in {"open", "fill"} => Shows(At(u, k), u[k].data, After(x, r))
  BY <1>1, <1>2 DEF Changing
<1>5. \A n \in Fields : ~Pending(u, n) => Shows(n, f2[n], After(x, r))
  BY <1>1 DEF Changing
<1>. QED BY <1>3, <1>4, <1>5 DEF Changing

LEMMA LikeAlike ==
    ASSUME NEW f, NEW f2, Alike(f, f2), NEW x, EntryLike(f, x)
    PROVE  EntryLike(f2, x)
<1>1. Fields \subseteq Names /\ "entry" \in Names
  BY DEF Fields, Names
<1>. QED BY <1>1 DEF EntryLike, Alike

LEMMA WhatNames ==
    /\ Fields \subseteq Names /\ {"entry", "files", "stamp"} \subseteq Names
    /\ Inside("entry") = {"text", "meta", "embeds", "files"} /\ Inside("files") = {"image", "stamp"}
    /\ \A n \in Names \ {"entry", "image", "stamp"} : ParentOf[n] = "entry"
    /\ ParentOf["image"] = "files" /\ ParentOf["stamp"] = "files"
    /\ \A n \in Names \ {"entry", "files", "stamp"} : n \in Fields
    /\ "entry" \notin Fields /\ "files" \notin Fields /\ "stamp" \notin Fields
<1>1. Names = {"entry", "text", "meta", "embeds", "files", "image", "stamp"}
  BY DEF Names
<1>2. \A n \in Names \ {"entry", "image", "stamp"} : ParentOf[n] = "entry"
  BY DEF ParentOf
<1>3. ParentOf["image"] = "files" /\ ParentOf["stamp"] = "files"
  BY <1>1 DEF ParentOf
<1>4. Inside("entry") = {"text", "meta", "embeds", "files"}
  BY <1>1, <1>2, <1>3 DEF Inside
<1>5. Inside("files") = {"image", "stamp"}
  BY <1>1, <1>2, <1>3 DEF Inside
<1>. QED BY <1>1, <1>2, <1>3, <1>4, <1>5 DEF Fields

LEMMA EntryModify ==
    ASSUME NEW f, NEW x, NEW r, r.op # "delete", NEW t, NEW b, EntryHandler(f, x, r, t, b),
           NEW f2, NEW u, NEW b2, EntryModifies(f, r, t, b, f2, u, b2)
    PROVE  EntryStage(f2, x, r, u, b2)
<1>. DEFINE n == At(t, 1)
<1>1. /\ Listlike(t) /\ Orderly(t, r, f, b) /\ Changing(f, x, r, t) /\ t # <<>> /\ t[1].do = "modify"
      /\ 1 \in 1 .. Len(t) /\ EntryFitting(r) /\ x # Gone /\ (b = FALSE => EntryLike(f, x))
  BY DEF EntryHandler, EntryStage, EntryModifies, Listlike
<1>2. r.op \in {"update", "embed", "unembed"} /\ n = IF r.op = "update" THEN "meta" ELSE "embeds"
  BY <1>1 DEF Orderly
<1>3. Shows(n, f[n], x)
  BY <1>1 DEF Changing
<1>4. PICK s : s.do = "open" /\ s.path = t[1].path /\ s.data = Modified(r, f[n]) /\ Put(t, u, s)
  BY DEF EntryModifies
<1>5. ToldOk(x) /\ Len(x.embeds) <= EMBEDS_READ
  BY <1>2 DEF EntryHandler
<1>. HIDE DEF n
<1>6. s.data # NotSaved
  BY <1>4 DEF EntryModifies, n
<1>7. Shows(n, s.data, After(x, r))
  <2>1. Shows(n, s.data, Changed(x, r))
    BY <1>1, <1>2, <1>3, <1>4, <1>5, <1>6, ModifyShows
  <2>. QED BY <1>2, <2>1 DEF After
<1>8. Alike(f, f2) /\ b2 = b
  BY DEF EntryModifies
<1>9. f2["entry"] = f["entry"] /\ f2["files"] = f["files"] /\ \A m \in Fields : f2[m] = f[m]
  BY <1>8, WhatNames DEF Alike
<1>10. Orderly(u, r, f2, b2)
  BY <1>1, <1>4, <1>9, OrderlyPut
<1>11. Changing(f2, x, r, u)
  BY <1>1, <1>4, <1>7, <1>9, ChangingPut DEF n
<1>12. b2 = FALSE => EntryLike(f2, x)
  BY <1>1, <1>8, LikeAlike
<1>. QED BY <1>10, <1>11, <1>12 DEF EntryStage

LEMMA EntryOpen ==
    ASSUME NEW f, NEW x, NEW r, r.op # "delete", NEW t, NEW b, EntryHandler(f, x, r, t, b),
           NEW f2, NEW u, NEW b2, EntryOpened(f, t, f2, u, b2)
    PROVE  EntryStage(f2, x, r, u, b2)
<1>. DEFINE n == At(t, 1)
<1>1. /\ Listlike(t) /\ Orderly(t, r, f, b) /\ Changing(f, x, r, t) /\ t # <<>> /\ t[1].do = "open"
      /\ 1 \in 1 .. Len(t) /\ b2 = TRUE
  BY DEF EntryHandler, EntryStage, EntryOpened, Listlike
<1>2. n \in Names \ {"entry", "files"} /\ f["entry"] = Directory
  BY <1>1 DEF Orderly
<1>3. n = "image" => f["files"] = Directory
  BY <1>1 DEF Orderly
<1>4. Shows(n, t[1].data, After(x, r))
  BY <1>1 DEF Changing
<1>. HIDE DEF n
<1>5. CASE f[ParentOf[n]] # Directory /\ n # "image" /\ Alike(f, f2) /\ Cut(t, u)
  <2>1. n = "stamp"
    BY <1>2, <1>5, WhatNames
  <2>2. f2["entry"] = f["entry"] /\ f2["files"] = f["files"] /\ \A m \in Fields : f2[m] = f[m]
    BY <1>5, WhatNames DEF Alike
  <2>3. n \notin Fields
    BY <2>1, WhatNames
  <2>4. Orderly(u, r, f2, b2)
    BY <1>1, <1>2, <1>5, <2>2, OrderlyCut
  <2>5. Changing(f2, x, r, u)
    BY <1>1, <1>5, <2>2, <2>3, ChangingCut DEF n
  <2>. QED BY <1>1, <2>4, <2>5 DEF EntryStage
<1>6. CASE /\ Filed(f, f2, n, Torn)
           /\ \E s : s.do = "fill" /\ s.path = t[1].path /\ s.data = t[1].data /\ Put(t, u, s)
  <2>1. PICK s : s.do = "fill" /\ s.path = t[1].path /\ s.data = t[1].data /\ Put(t, u, s)
    BY <1>6
  <2>2. f2["entry"] = f["entry"] /\ f2["files"] = f["files"] /\ \A m \in Fields : m # n => f2[m] = f[m]
    BY <1>2, <1>6, WhatNames DEF Filed
  <2>3. f2[n] # Missing
    BY <1>6, EntryContents DEF Filed
  <2>4. Orderly(u, r, f2, b2)
    BY <1>1, <2>1, <2>2, <2>3, OrderlyPut DEF n
  <2>5. Changing(f2, x, r, u)
    BY <1>1, <1>4, <2>1, <2>2, ChangingPut DEF n
  <2>. QED BY <1>1, <2>4, <2>5 DEF EntryStage
<1>. QED BY <1>5, <1>6 DEF EntryOpened, n

LEMMA EntryFill ==
    ASSUME NEW f, NEW x, NEW r, r.op # "delete", NEW t, NEW b, EntryHandler(f, x, r, t, b),
           NEW f2, NEW u, NEW b2, EntryFilled(f, t, f2, u, b2)
    PROVE  EntryStage(f2, x, r, u, b2)
<1>. DEFINE n == At(t, 1)
<1>1. /\ Listlike(t) /\ Orderly(t, r, f, b) /\ Changing(f, x, r, t) /\ t # <<>> /\ t[1].do = "fill"
      /\ 1 \in 1 .. Len(t) /\ b2 = TRUE /\ Cut(t, u)
  BY DEF EntryHandler, EntryStage, EntryFilled, Listlike
<1>2. n \in Names \ {"entry", "files"} /\ f["entry"] = Directory
  BY <1>1 DEF Orderly
<1>3. Filed(f, f2, n, t[1].data)
  BY <1>1 DEF Orderly, EntryFilled
<1>4. Shows(n, t[1].data, After(x, r))
  BY <1>1 DEF Changing
<1>. HIDE DEF n
<1>5. f2["entry"] = f["entry"] /\ f2["files"] = f["files"] /\ f2[n] = t[1].data /\ \A m \in Fields : m # n => f2[m] = f[m]
  BY <1>2, <1>3, WhatNames DEF Filed
<1>6. Orderly(u, r, f2, b2)
  BY <1>1, <1>2, <1>5, OrderlyCut
<1>7. Changing(f2, x, r, u)
  BY <1>1, <1>4, <1>5, ChangingCut DEF n
<1>. QED BY <1>1, <1>6, <1>7 DEF EntryStage

LEMMA EntryMake ==
    ASSUME NEW f, NEW x, NEW r, r.op # "delete", NEW t, NEW b, EntryHandler(f, x, r, t, b),
           NEW f2, NEW u, NEW b2, EntryMade(f, t, f2, u, b2)
    PROVE  EntryStage(f2, x, r, u, b2)
<1>. DEFINE n == At(t, 1)
<1>1. /\ Listlike(t) /\ Orderly(t, r, f, b) /\ Changing(f, x, r, t) /\ t # <<>> /\ t[1].do = "mkdir"
      /\ 1 \in 1 .. Len(t) /\ b2 = TRUE /\ Cut(t, u)
  BY DEF EntryHandler, EntryStage, EntryMade, Listlike
<1>2. n \in {"entry", "files"} /\ (n = "entry" \/ f["entry"] = Directory)
  BY <1>1 DEF Orderly
<1>3. Filed(f, f2, n, Directory)
  BY <1>2 DEF EntryMade
<1>. HIDE DEF n
<1>4. f2["entry"] = Directory /\ (f["files"] = Directory \/ n = "files" => f2["files"] = Directory)
  BY <1>2, <1>3, WhatNames DEF Filed
<1>5. n \notin Fields /\ \A m \in Fields : m # n => f2[m] = f[m]
  BY <1>2, <1>3, WhatNames DEF Filed
<1>6. Orderly(u, r, f2, b2)
  BY <1>1, <1>4, OrderlyCut DEF n
<1>7. Changing(f2, x, r, u)
  BY <1>1, <1>5, ChangingCut DEF n
<1>. QED BY <1>1, <1>6, <1>7 DEF EntryStage

LEMMA DeletesPlaces ==
    ASSUME NEW t, Listlike(t), Deletes1(t)
    PROVE  /\ 1 \in 1 .. Len(t) /\ At(t, 1) \in {"entry", "files"}
           /\ Len(t) = 2 => 2 \in 1 .. Len(t)
           /\ \A k \in 1 .. Len(t) : k = 1 \/ (k = 2 /\ Len(t) = 2 /\ At(t, 1) = "files")
<1>1. Len(t) \in {1, 2} /\ (Len(t) = 2 => At(t, 1) = "files") /\ At(t, 1) \in {"entry", "files"}
  BY DEF Deletes1
<1>2. \A k \in 1 .. 1 : k = 1
  OBVIOUS
<1>3. \A k \in 1 .. 2 : k = 1 \/ k = 2
  OBVIOUS
<1>. QED BY <1>1, <1>2, <1>3

\* A step about the same directory takes the place of the first.
LEMMA EmptyingPut ==
    ASSUME NEW t, Listlike(t), Deletes1(t), NEW f, NEW b, Emptying(f, t, b), NEW u, NEW s, Put(t, u, s),
           s.do = "unlink", s.path = t[1].path, NEW f2, NEW b2,
           f2["entry"] = f["entry"], f2["files"] = f["files"], \A c \in Names : f[c] = Missing => f2[c] = Missing,
           f2[At(t, 1)] = Directory,
           \A c \in Inside(At(t, 1)) : f2[c] = Missing \/ c \in s.names
    PROVE  Emptying(f2, u, b2)
<1>1. /\ Listlike(u) /\ Len(u) = Len(t) /\ u[1] = s /\ \A k \in 1 .. Len(t) : At(u, k) = At(t, k)
      /\ \A k \in 2 .. Len(t) : u[k] = t[k]
  BY PutAt
<1>2. /\ 1 \in 1 .. Len(t) /\ \A k \in 1 .. Len(t) : k = 1 \/ (k = 2 /\ Len(t) = 2 /\ At(t, 1) = "files")
  BY DeletesPlaces
<1>3. ASSUME NEW k \in 1 .. Len(u), u[k].do = "unlink"
      PROVE  /\ f2[At(u, k)] = Directory
             /\ \A c \in Inside(At(u, k)) : f2[c] = Missing \/ c \in u[k].names \/ (k = 2 /\ c = "files")
  <2>1. CASE k = 1
    BY <1>1, <1>2, <2>1
  <2>2. CASE k = 2 /\ Len(t) = 2 /\ At(t, 1) = "files"
    <3>1. 2 \in 1 .. Len(t) /\ 2 \in 2 .. Len(t)
      BY <2>2
    <3>2. u[2] = t[2] /\ At(u, 2) = At(t, 2) /\ t[2].do = "unlink" /\ At(t, 2) = "entry"
      BY <1>1, <2>2, <3>1 DEF Deletes1
    <3>3. /\ f[At(t, 2)] = Directory
          /\ \A c \in Inside(At(t, 2)) : f[c] = Missing \/ c \in t[2].names \/ c = "files"
      BY <3>1, <3>2 DEF Emptying
    <3>4. \A c \in Inside(At(t, 2)) : c \in Names
      BY DEF Inside
    <3>. QED BY <2>2, <3>2, <3>3, <3>4
  <2>. QED BY <1>1, <1>2, <2>1, <2>2
<1>. QED BY <1>1, <1>3 DEF Emptying

\* The first is done: what is left is what was to be done with the entry, and the
\* directory of attachments is no longer there.
LEMMA EmptyingCut ==
    ASSUME NEW t, Listlike(t), Deletes1(t), NEW f, NEW b, Emptying(f, t, b), NEW u, Cut(t, u),
           NEW f2, NEW b2, Len(t) = 2 => f2["entry"] = f["entry"] /\ f2["files"] = Missing,
           Len(t) = 2 => \A c \in Names : f[c] = Missing => f2[c] = Missing
    PROVE  Emptying(f2, u, b2)
<1>1. /\ Len(u) \in Nat /\ Len(u) = Len(t) - 1 /\ (u # <<>> => Len(u) >= 1)
      /\ \A k \in 1 .. Len(u) : At(u, k) = At(t, k + 1) /\ u[k] = t[k + 1] /\ k + 1 \in 2 .. Len(t)
  BY CutAt
<1>2. CASE Len(t) = 1
  <2>1. Len(u) = 0 /\ u = <<>>
    BY <1>1, <1>2
  <2>. QED BY <2>1 DEF Emptying
<1>3. CASE Len(t) = 2
  <2>1. Len(u) = 1 /\ 2 \in 1 .. Len(t) /\ At(t, 2) = "entry" /\ t[2].do = "unlink"
    BY <1>1, <1>3 DEF Deletes1
  <2>2. u[1] = t[2] /\ At(u, 1) = "entry"
    BY <1>1, <2>1
  <2>3. /\ f["entry"] = Directory
        /\ \A c \in Inside("entry") : f[c] = Missing \/ c \in t[2].names \/ c = "files"
    BY <2>1 DEF Emptying
  <2>4. \A c \in Inside("entry") : c \in Names
    BY DEF Inside
  <2>5. \A k \in 1 .. Len(u) : k = 1
    BY <2>1
  <2>. QED BY <1>3, <2>1, <2>2, <2>3, <2>4, <2>5 DEF Emptying
<1>. QED BY <1>2, <1>3 DEF Deletes1

LEMMA EntryScan ==
    ASSUME NEW f, NEW x, NEW r, r.op = "delete", NEW t, NEW b, EntryHandler(f, x, r, t, b), Deletes1(t),
           NEW f2, NEW u, NEW b2, EntryScanned(f, t, b, f2, u, b2)
    PROVE  EntryStage(f2, x, r, u, b2)
<1>1. /\ Listlike(t) /\ Emptying(f, t, b) /\ (b = FALSE => EntryLike(f, x)) /\ Alike(f, f2) /\ b2 = b
      /\ f["files"] \in {Missing, Directory} /\ At(t, 1) \in {"entry", "files"}
  BY DeletesPlaces DEF EntryHandler, EntryStage, EntryScanned
<1>2. {"entry", "files"} \subseteq Names
  BY WhatNames
<1>3. f2["entry"] = f["entry"] /\ f2["files"] = f["files"] /\ \A c \in Names : f2[c] = f[c]
  BY <1>1, <1>2 DEF Alike
<1>4. Emptying(f2, u, b2)
  <2>1. CASE f[At(t, 1)] = Directory
    <3>1. PICK s : /\ s.do = "unlink" /\ s.path = t[1].path /\ Put(t, u, s)
                   /\ s.names = {c \in Inside(At(t, 1)) : f[c] # Missing}
      BY <2>1 DEF EntryScanned
    <3>2. f2[At(t, 1)] = Directory
      BY <1>1, <1>3, <2>1
    <3>3. \A c \in Inside(At(t, 1)) : f2[c] = Missing \/ c \in s.names
      BY <1>3, <3>1 DEF Inside
    <3>. QED BY <1>1, <1>3, <3>1, <3>2, <3>3, EmptyingPut
  <2>2. CASE f[At(t, 1)] # Directory
    <3>1. At(t, 1) = "files" /\ Cut(t, u) /\ f2["files"] = Missing
      BY <1>1, <1>3, <2>2 DEF EntryScanned
    <3>. QED BY <1>1, <1>3, <3>1, EmptyingCut
  <2>. QED BY <2>1, <2>2
<1>5. b2 = FALSE => EntryLike(f2, x)
  BY <1>1, LikeAlike
<1>. QED BY <1>4, <1>5 DEF EntryStage

LEMMA EntryRemove ==
    ASSUME NEW f, NEW x, NEW r, r.op = "delete", NEW t, NEW b, EntryHandler(f, x, r, t, b), Deletes1(t),
           NEW f2, NEW u, NEW b2, EntryRemoved(f, t, f2, u, b2)
    PROVE  EntryStage(f2, x, r, u, b2)
<1>1. /\ Listlike(t) /\ Emptying(f, t, b) /\ b2 = TRUE /\ Cut(t, u) /\ Filed(f, f2, At(t, 1), Missing)
  BY DEF EntryHandler, EntryStage, EntryRemoved
<1>2. {"entry", "files"} \subseteq Names
  BY WhatNames
<1>3. Len(t) = 2 => f2["entry"] = f["entry"] /\ f2["files"] = Missing
  BY <1>1, <1>2 DEF Filed, Deletes1
<1>4. \A c \in Names : f[c] = Missing => f2[c] = Missing
  BY <1>1 DEF Filed
<1>5. Emptying(f2, u, b2)
  BY <1>1, <1>3, <1>4, EmptyingCut
<1>. QED BY <1>1, <1>5 DEF EntryStage

LEMMA EntryUnlink ==
    ASSUME NEW f, NEW x, NEW r, r.op = "delete", NEW t, NEW b, EntryHandler(f, x, r, t, b), Deletes1(t),
           NEW f2, NEW u, NEW b2, EntryUnlinked(f, t, b, f2, u, b2)
    PROVE  EntryStage(f2, x, r, u, b2)
<1>1. /\ Listlike(t) /\ Emptying(f, t, b) /\ (b = FALSE => EntryLike(f, x)) /\ t[1].do = "unlink"
      /\ 1 \in 1 .. Len(t) /\ At(t, 1) \in {"entry", "files"}
  BY DeletesPlaces DEF EntryHandler, EntryStage, EntryUnlinked
<1>2. PICK c \in t[1].names : \E s : 
          /\ s.do = "unlink" /\ s.path = t[1].path /\ s.names = t[1].names \ {c}
          /\ \/ /\ c = "files" /\ Alike(f, f2) /\ b2 = b
                /\ \E s1 : s1.do = "scan" /\ s1.path[2] = "files" /\ PutTwo(t, u, s1, s)
             \/ c # "files" /\ Filed(f, f2, c, Missing) /\ b2 = TRUE /\ Put(t, u, s)
  BY DEF EntryUnlinked
<1>3. PICK s : 
          /\ s.do = "unlink" /\ s.path = t[1].path /\ s.names = t[1].names \ {c}
          /\ \/ /\ c = "files" /\ Alike(f, f2) /\ b2 = b
                /\ \E s1 : s1.do = "scan" /\ s1.path[2] = "files" /\ PutTwo(t, u, s1, s)
             \/ c # "files" /\ Filed(f, f2, c, Missing) /\ b2 = TRUE /\ Put(t, u, s)
  BY <1>2
<1>4. c \in Inside(At(t, 1)) /\ c \in Names /\ c # "entry"
  BY <1>1 DEF Deletes1, Inside
<1>5. /\ f[At(t, 1)] = Directory
      /\ \A d \in Inside(At(t, 1)) : f[d] = Missing \/ d \in t[1].names
  BY <1>1 DEF Emptying
<1>6. {"entry", "files"} \subseteq Names
  BY WhatNames
<1>7. CASE c # "files"
  <2>1. Filed(f, f2, c, Missing) /\ b2 = TRUE /\ Put(t, u, s)
    BY <1>3, <1>7
  <2>2. f2["entry"] = f["entry"] /\ f2["files"] = f["files"] /\ \A d \in Names : f[d] = Missing => f2[d] = Missing
    BY <1>4, <1>6, <1>7, <2>1 DEF Filed
  <2>3. f2[At(t, 1)] = Directory
    BY <1>1, <1>5, <2>2
  <2>4. \A d \in Inside(At(t, 1)) : f2[d] = Missing \/ d \in s.names
    <3>1. \A d \in Inside(At(t, 1)) : d \in Names
      BY DEF Inside
    <3>. QED BY <1>3, <1>5, <2>1, <2>2, <3>1 DEF Filed
  <2>5. Emptying(f2, u, b2)
    BY <1>1, <1>3, <2>1, <2>2, <2>3, <2>4, EmptyingPut
  <2>. QED BY <2>1, <2>5 DEF EntryStage
<1>8. CASE c = "files"
  <2>1. Alike(f, f2) /\ b2 = b
    BY <1>3, <1>8
  <2>2. PICK s1 : s1.do = "scan" /\ s1.path[2] = "files" /\ PutTwo(t, u, s1, s)
    BY <1>3, <1>8
  <2>3. At(t, 1) = "entry" /\ Len(t) = 1
    BY <1>1, <1>4, <1>8, WhatNames DEF Deletes1
  <2>4. Len(u) = 2 /\ u[1] = s1 /\ u[2] = s /\ At(u, 1) = "files" /\ At(u, 2) = "entry"
    BY <1>3, <2>2, <2>3 DEF PutTwo, At
  <2>5. f2["entry"] = Directory /\ \A d \in Inside("entry") : f2[d] = Missing \/ d \in s.names \/ d = "files"
    <3>1. \A d \in Inside("entry") : d \in Names
      BY DEF Inside
    <3>. QED BY <1>3, <1>5, <1>6, <1>8, <2>1, <2>3, <3>1 DEF Alike
  <2>6. \A k \in 1 .. Len(u) : k = 1 \/ k = 2
    BY <2>4
  <2>7. Emptying(f2, u, b2)
    BY <2>2, <2>4, <2>5, <2>6 DEF Emptying
  <2>8. b2 = FALSE => EntryLike(f2, x)
    BY <1>1, <2>1, LikeAlike
  <2>. QED BY <2>7, <2>8 DEF EntryStage
<1>. QED BY <1>7, <1>8

\* The steps of a handler of an entry, in the state

LEMMA FilesAre ==
    ASSUME NEW e \in EntryIds
    PROVE  \A n \in Names : FilesOf(e)[n] = disk[<<e, n>>] /\ FilesOf(e)'[n] = disk'[<<e, n>>]
BY DEF FilesOf

LEMMA FiledBy ==
    ASSUME JournalInv, NEW e \in EntryIds, NEW n \in Names, NEW v, Puts(<<e, n>>, v)
    PROVE  Filed(FilesOf(e), FilesOf(e)', n, v)
<1>1. disk'[<<e, n>>] = v /\ \A m \in Names \ {n} : disk'[<<e, m>>] = disk[<<e, m>>]
  BY DiskAt
<1>. QED BY <1>1, FilesAre DEF Filed

LEMMA AlikeBy ==
    ASSUME UNCHANGED disk, NEW e \in EntryIds
    PROVE  Alike(FilesOf(e), FilesOf(e)')
BY FilesAre DEF Alike

LEMMA EntryDoing ==
    ASSUME Handlers, JournalInv, NEW p \in Ports, NEW e \in EntryIds, EntryReady(p, e), NEW do, Doing(p, do)
    PROVE  /\ EntryHandler(FilesOf(e), told[e], work[p].req, work[p].todo, work[p].begun)
           /\ Listlike(work[p].todo) /\ work[p].todo[1].do = do /\ Now(p) = work[p].todo[1]
           /\ At(work[p].todo, 1) \in Names /\ work[p].todo[1].path = <<e, At(work[p].todo, 1)>>
           /\ do \in {"scan", "unlink"} <=> work[p].req.op = "delete"
           /\ Proper(e, work[p].req.op, work[p].todo[1])
<1>1. /\ FirstStep(p).do = do /\ Len(work[p].todo) \in Nat /\ Len(work[p].todo) >= 1 /\ Now(p) = FirstStep(p)
      /\ \E n \in Names : FirstStep(p).path = <<e, n>>
      /\ do \in {"scan", "unlink"} <=> work[p].req.op = "delete"
      /\ TreeOf(e) /\ Proper(e, work[p].req.op, FirstStep(p))
  BY EntryStep DEF EntryReady
<1>2. work[p].todo # <<>>
  BY DEF Doing
<1>3. Listlike(work[p].todo)
  BY <1>1, <1>2 DEF Listlike
<1>4. At(work[p].todo, 1) \in Names /\ work[p].todo[1].path = <<e, At(work[p].todo, 1)>>
  BY <1>1 DEF At, FirstStep
<1>5. FilesOf(e)["entry"] \in {Missing, Directory} /\ FilesOf(e)["files"] \in {Missing, Directory}
  <2>1. {"entry", "files"} \subseteq Names
    BY WhatNames
  <2>. QED BY <1>1, <2>1, FilesAre DEF TreeOf
<1>. QED BY <1>1, <1>3, <1>4, <1>5 DEF EntryReady, EntryHandler, FirstStep

LEMMA MovedBy ==
    ASSUME NEW p \in Ports, NEW e \in EntryIds, NEW u, NEW b, Goes(p, u, b),
           EntryStage(FilesOf(e)', told[e], work[p].req, u, b)
    PROVE  EntryMoved(p, e)
BY DEF EntryMoved

LEMMA ReadMoves ==
    ASSUME Handlers, JournalInv, NEW p \in Ports, NEW e \in EntryIds, EntryReady(p, e), ReadAndChange(p)
    PROVE  EntryMoved(p, e)
<1>. DEFINE t == work[p].todo
            n == At(t, 1)
            new == Modified(work[p].req, FilesOf(e)[n])
<1>1. Doing(p, "modify") /\ UNCHANGED disk
  BY DEF ReadAndChange
<1>2. /\ EntryHandler(FilesOf(e), told[e], work[p].req, t, work[p].begun)
      /\ Listlike(t) /\ t[1].do = "modify" /\ Now(p) = t[1] /\ n \in Names /\ t[1].path = <<e, n>>
      /\ work[p].req.op # "delete"
  BY <1>1, EntryDoing
<1>3. disk[<<e, n>>] = FilesOf(e)[n]
  BY <1>2, FilesAre
<1>4. IF new = NotSaved THEN Refuse(p) ELSE Instead(p, <<Write(<<e, n>>, new)>>)
  BY <1>2, <1>3 DEF ReadAndChange
<1>5. Alike(FilesOf(e), FilesOf(e)')
  BY <1>1, AlikeBy
<1>6. CASE new = NotSaved
  <2>1. Refused(p)
    BY <1>4, <1>6, RefuseRefused
  <2>2. work[p].begun = FALSE
    BY <1>2 DEF EntryHandler, EntryStage, Orderly, Listlike
  <2>. QED BY <1>5, <2>1, <2>2 DEF EntryMoved
<1>7. CASE new # NotSaved
  <2>. DEFINE s == Write(<<e, n>>, new)
  <2>1. PICK u : Goes(p, u, work[p].begun) /\ Instead1(p, u, s)
    BY <1>1, <1>4, <1>7, OneInstead
  <2>2. s.do = "open" /\ s.path = t[1].path /\ s.data = new
    BY <1>2 DEF Write
  <2>. HIDE DEF s
  <2>3. Put(t, u, s)
    BY <2>1, PutInstead
  <2>4. EntryModifies(FilesOf(e), work[p].req, t, work[p].begun, FilesOf(e)', u, work[p].begun)
    BY <1>2, <1>5, <1>7, <2>2, <2>3 DEF EntryModifies
  <2>5. EntryStage(FilesOf(e)', told[e], work[p].req, u, work[p].begun)
    BY <1>2, <2>4, EntryModify
  <2>. QED BY <2>1, <2>5, MovedBy
<1>. QED BY <1>6, <1>7

LEMMA OpenMoves ==
    ASSUME Handlers, JournalInv, NEW p \in Ports, NEW e \in EntryIds, EntryReady(p, e), OpenForWriting(p)
    PROVE  EntryMoved(p, e)
<1>. DEFINE t == work[p].todo
            n == At(t, 1)
<1>1. Doing(p, "open")
  BY DEF OpenForWriting
<1>2. /\ EntryHandler(FilesOf(e), told[e], work[p].req, t, work[p].begun)
      /\ Listlike(t) /\ t[1].do = "open" /\ Now(p) = t[1] /\ n \in Names /\ t[1].path = <<e, n>>
      /\ work[p].req.op # "delete" /\ Proper(e, work[p].req.op, t[1])
  BY <1>1, EntryDoing
<1>3. n \notin {"entry", "files"} /\ t[1] = [do |-> "open", path |-> t[1].path, data |-> t[1].data]
  BY <1>2 DEF Proper
<1>4. ParentOf[n] \in Names /\ (HasParent(<<e, n>>) <=> FilesOf(e)[ParentOf[n]] = Directory)
  <2>1. ParentOf[n] \in {"entry", "files"} /\ {"entry", "files"} \subseteq Names
    BY <1>2, <1>3, TheNames
  <2>. QED BY <1>3, <2>1, FilesAre DEF HasParent
<1>5. CASE HasParent(<<e, n>>)
  <2>. DEFINE s == [t[1] EXCEPT !.do = "fill"]
  <2>1. Puts(<<e, n>>, Torn) /\ work' = [work EXCEPT ![p].todo = <<s>> \o Tail(t), ![p].begun = TRUE]
    BY <1>2, <1>5 DEF OpenForWriting, Puts
  <2>2. s.do = "fill" /\ s.path = t[1].path /\ s.data = t[1].data
    <3>1. PICK a, d : t[1] = [do |-> "open", path |-> a, data |-> d]
      BY <1>3
    <3>2. s = [do |-> "fill", path |-> a, data |-> d]
      BY <3>1
    <3>. QED BY <3>1, <3>2
  <2>. HIDE DEF s
  <2>3. PICK u : Goes(p, u, TRUE) /\ Instead1(p, u, s)
    BY <1>1, <2>1, BegunInstead
  <2>4. Put(t, u, s)
    BY <2>3, PutInstead
  <2>5. Filed(FilesOf(e), FilesOf(e)', n, Torn)
    BY <1>2, <2>1, FiledBy
  <2>6. EntryOpened(FilesOf(e), t, FilesOf(e)', u, TRUE)
    BY <1>2, <2>2, <2>4, <2>5 DEF EntryOpened
  <2>7. EntryStage(FilesOf(e)', told[e], work[p].req, u, TRUE)
    BY <1>2, <2>6, EntryOpen
  <2>. QED BY <2>3, <2>7, MovedBy
<1>6. CASE ~HasParent(<<e, n>>)
  <2>1. UNCHANGED disk /\ (IF n = "image" THEN Refuse(p) ELSE Done(p))
    BY <1>2, <1>6 DEF OpenForWriting
  <2>2. n # "image"
    <3>1. n = "image" => FilesOf(e)["files"] = Directory
      BY <1>2 DEF EntryHandler, EntryStage, Orderly, Listlike
    <3>. QED BY <1>4, <1>6, <3>1, WhatNames
  <2>3. PICK u : Goes(p, u, TRUE) /\ Rest(p, u)
    BY <1>1, <2>1, <2>2, DoneRest
  <2>4. Cut(t, u)
    BY <1>2, <2>3, CutRest DEF Listlike
  <2>5. EntryOpened(FilesOf(e), t, FilesOf(e)', u, TRUE)
    BY <1>2, <1>4, <1>6, <2>1, <2>2, <2>4, AlikeBy DEF EntryOpened
  <2>6. EntryStage(FilesOf(e)', told[e], work[p].req, u, TRUE)
    BY <1>2, <2>5, EntryOpen
  <2>. QED BY <2>3, <2>6, MovedBy
<1>. QED BY <1>5, <1>6

LEMMA FillMoves ==
    ASSUME Handlers, JournalInv, NEW p \in Ports, NEW e \in EntryIds, EntryReady(p, e), write_file(p)
    PROVE  EntryMoved(p, e)
<1>. DEFINE t == work[p].todo
            n == At(t, 1)
<1>1. Doing(p, "fill")
  BY DEF write_file
<1>2. /\ EntryHandler(FilesOf(e), told[e], work[p].req, t, work[p].begun)
      /\ Listlike(t) /\ t[1].do = "fill" /\ Now(p) = t[1] /\ n \in Names /\ t[1].path = <<e, n>>
      /\ work[p].req.op # "delete"
  BY <1>1, EntryDoing
<1>3. FilesOf(e)[n] # Missing => Filed(FilesOf(e), FilesOf(e)', n, t[1].data)
  <2>1. FilesOf(e)[n] # Missing => Puts(<<e, n>>, t[1].data)
    BY <1>2, FilesAre DEF write_file, Puts
  <2>. QED BY <1>2, <2>1, FiledBy
<1>4. PICK u : Goes(p, u, TRUE) /\ Rest(p, u)
  BY <1>1, DoneRest DEF write_file
<1>5. Cut(t, u)
  BY <1>2, <1>4, CutRest DEF Listlike
<1>6. EntryFilled(FilesOf(e), t, FilesOf(e)', u, TRUE)
  BY <1>2, <1>3, <1>5 DEF EntryFilled
<1>7. EntryStage(FilesOf(e)', told[e], work[p].req, u, TRUE)
  BY <1>2, <1>6, EntryFill
<1>. QED BY <1>4, <1>7, MovedBy

LEMMA MakeMoves ==
    ASSUME Handlers, JournalInv, NEW p \in Ports, NEW e \in EntryIds, EntryReady(p, e), MakeDirectory(p)
    PROVE  EntryMoved(p, e)
<1>. DEFINE t == work[p].todo
            n == At(t, 1)
<1>1. Doing(p, "mkdir")
  BY DEF MakeDirectory
<1>2. /\ EntryHandler(FilesOf(e), told[e], work[p].req, t, work[p].begun)
      /\ Listlike(t) /\ t[1].do = "mkdir" /\ Now(p) = t[1] /\ n \in Names /\ t[1].path = <<e, n>>
      /\ work[p].req.op # "delete" /\ Proper(e, work[p].req.op, t[1])
  BY <1>1, EntryDoing
<1>3. n \in {"entry", "files"}
  BY <1>2 DEF Proper
<1>4. n = "entry" \/ FilesOf(e)["entry"] = Directory => Filed(FilesOf(e), FilesOf(e)', n, Directory)
  <2>1. "entry" \in Names /\ (n = "files" => ParentOf[n] = "entry")
    BY TheNames
  <2>2. n = "entry" \/ FilesOf(e)["entry"] = Directory => HasParent(<<e, n>>)
    BY <1>3, <2>1, FilesAre DEF HasParent
  <2>3. HasParent(<<e, n>>) => Puts(<<e, n>>, Directory)
    BY <1>2 DEF MakeDirectory, Puts
  <2>. QED BY <1>2, <2>2, <2>3, FiledBy
<1>5. PICK u : Goes(p, u, TRUE) /\ Rest(p, u)
  BY <1>1, DoneRest DEF MakeDirectory
<1>6. Cut(t, u)
  BY <1>2, <1>5, CutRest DEF Listlike
<1>7. EntryMade(FilesOf(e), t, FilesOf(e)', u, TRUE)
  BY <1>2, <1>4, <1>6 DEF EntryMade
<1>8. EntryStage(FilesOf(e)', told[e], work[p].req, u, TRUE)
  BY <1>2, <1>7, EntryMake
<1>. QED BY <1>5, <1>8, MovedBy

\* What is left of a deletion.
LEMMA DeletesNow ==
    ASSUME Handlers, JournalInv, NEW p \in Ports, NEW e \in EntryIds, EntryReady(p, e),
           NEW do \in {"scan", "unlink"}, Doing(p, do)
    PROVE  Deletes1(work[p].todo) /\ At(work[p].todo, 1) \in {"entry", "files"}
<1>. DEFINE t == work[p].todo
<1>1. /\ t[1].do = do
      /\ \/ Len(t) = 1 /\ Clears(t[1], e, "entry")
         \/ Len(t) = 2 /\ Clears(t[1], e, "files") /\ Clears(t[2], e, "entry") /\ t[2].do = "unlink"
  BY Deletion DEF EntryReady
<1>2. CASE Len(t) = 1 /\ Clears(t[1], e, "entry")
  BY <1>1, <1>2 DEF Deletes1, Clears, At
<1>3. CASE Len(t) = 2 /\ Clears(t[1], e, "files") /\ Clears(t[2], e, "entry") /\ t[2].do = "unlink"
  BY <1>1, <1>3 DEF Deletes1, Clears, At
<1>. QED BY <1>1, <1>2, <1>3

LEMMA ScanMoves ==
    ASSUME Handlers, JournalInv, NEW p \in Ports, NEW e \in EntryIds, EntryReady(p, e), rmdir_r(p)
    PROVE  EntryMoved(p, e)
<1>. DEFINE t == work[p].todo
            n == At(t, 1)
<1>1. Doing(p, "scan") /\ UNCHANGED disk
  BY DEF rmdir_r
<1>2. /\ EntryHandler(FilesOf(e), told[e], work[p].req, t, work[p].begun)
      /\ Listlike(t) /\ t[1].do = "scan" /\ Now(p) = t[1] /\ n \in Names /\ t[1].path = <<e, n>>
      /\ work[p].req.op = "delete"
  BY <1>1, EntryDoing
<1>3. Deletes1(t) /\ n \in {"entry", "files"}
  BY <1>1, DeletesNow
<1>4. Alike(FilesOf(e), FilesOf(e)')
  BY <1>1, AlikeBy
<1>. DEFINE there == {c \in Inside(n) : disk[<<e, c>>] # Missing}
            s == [do |-> "unlink", path |-> <<e, n>>, names |-> there]
<1>5. IF FilesOf(e)[n] = Directory THEN Instead(p, <<s>>)
      ELSE IF n = "entry" THEN Refuse(p) ELSE Instead(p, <<>>)
  BY <1>2, FilesAre DEF rmdir_r
<1>6. s.do = "unlink" /\ s.path = t[1].path /\ s.names = {c \in Inside(n) : FilesOf(e)[c] # Missing}
  <2>1. Inside(n) \subseteq Names
    BY DEF Inside
  <2>2. there = {c \in Inside(n) : FilesOf(e)[c] # Missing}
    BY <2>1, FilesAre
  <2>. QED BY <1>2, <2>2
<1>. HIDE DEF s, there
<1>7. CASE FilesOf(e)[n] = Directory
  <2>1. PICK u : Goes(p, u, work[p].begun) /\ Instead1(p, u, s)
    BY <1>1, <1>5, <1>7, OneInstead
  <2>2. Put(t, u, s)
    BY <2>1, PutInstead
  <2>3. EntryScanned(FilesOf(e), t, work[p].begun, FilesOf(e)', u, work[p].begun)
    BY <1>2, <1>4, <1>6, <1>7, <2>2 DEF EntryScanned
  <2>4. EntryStage(FilesOf(e)', told[e], work[p].req, u, work[p].begun)
    BY <1>2, <1>3, <2>3, EntryScan
  <2>. QED BY <2>1, <2>4, MovedBy
<1>8. CASE FilesOf(e)[n] # Directory /\ n = "entry"
  <2>1. Refused(p)
    BY <1>5, <1>8, RefuseRefused
  <2>2. work[p].begun = FALSE
    BY <1>2, <1>8 DEF EntryHandler, EntryStage, Emptying, Listlike
  <2>. QED BY <1>4, <2>1, <2>2 DEF EntryMoved
<1>9. CASE FilesOf(e)[n] # Directory /\ n = "files"
  <2>1. PICK u : Goes(p, u, work[p].begun) /\ Rest(p, u)
    BY <1>1, <1>5, <1>9, NoneRest
  <2>2. Cut(t, u)
    BY <1>2, <2>1, CutRest DEF Listlike
  <2>3. EntryScanned(FilesOf(e), t, work[p].begun, FilesOf(e)', u, work[p].begun)
    BY <1>2, <1>4, <1>9, <2>2 DEF EntryScanned
  <2>4. EntryStage(FilesOf(e)', told[e], work[p].req, u, work[p].begun)
    BY <1>2, <1>3, <2>3, EntryScan
  <2>. QED BY <2>1, <2>4, MovedBy
<1>. QED BY <1>3, <1>7, <1>8, <1>9

LEMMA RemoveMoves ==
    ASSUME Handlers, JournalInv, NEW p \in Ports, NEW e \in EntryIds, EntryReady(p, e), RemoveDirectory(p)
    PROVE  EntryMoved(p, e)
<1>. DEFINE t == work[p].todo
            n == At(t, 1)
<1>1. Doing(p, "unlink")
  BY DEF RemoveDirectory
<1>2. /\ EntryHandler(FilesOf(e), told[e], work[p].req, t, work[p].begun)
      /\ Listlike(t) /\ t[1].do = "unlink" /\ Now(p) = t[1] /\ n \in Names /\ t[1].path = <<e, n>>
      /\ work[p].req.op = "delete"
  BY <1>1, EntryDoing
<1>3. Deletes1(t) /\ n \in {"entry", "files"} /\ t[1].names = {}
  BY <1>1, <1>2, DeletesNow DEF RemoveDirectory
<1>. DEFINE empty == disk[<<e, n>>] = Directory /\ \A c \in Inside(n) : disk[<<e, c>>] = Missing
<1>4. empty
  <2>1. /\ FilesOf(e)[n] = Directory
        /\ \A c \in Inside(n) : FilesOf(e)[c] = Missing
    BY <1>2, <1>3 DEF EntryHandler, EntryStage, Emptying, Listlike
  <2>2. Inside(n) \subseteq Names
    BY DEF Inside
  <2>. QED BY <1>2, <2>1, <2>2, FilesAre
<1>5. Puts(<<e, n>>, Missing) /\ Done(p)
  BY <1>2, <1>4 DEF RemoveDirectory, Puts
<1>6. PICK u : Goes(p, u, TRUE) /\ Rest(p, u)
  BY <1>1, <1>5, DoneRest
<1>7. Cut(t, u)
  BY <1>2, <1>6, CutRest DEF Listlike
<1>8. EntryRemoved(FilesOf(e), t, FilesOf(e)', u, TRUE)
  BY <1>2, <1>3, <1>5, <1>7, FiledBy DEF EntryRemoved
<1>9. EntryStage(FilesOf(e)', told[e], work[p].req, u, TRUE)
  BY <1>2, <1>3, <1>8, EntryRemove
<1>. QED BY <1>6, <1>9, MovedBy

LEMMA UnlinkMoves ==
    ASSUME Handlers, JournalInv, NEW p \in Ports, NEW e \in EntryIds, EntryReady(p, e), Unlink(p)
    PROVE  EntryMoved(p, e)
<1>. DEFINE t == work[p].todo
            n == At(t, 1)
<1>1. Doing(p, "unlink")
  BY DEF Unlink
<1>2. /\ EntryHandler(FilesOf(e), told[e], work[p].req, t, work[p].begun)
      /\ Listlike(t) /\ t[1].do = "unlink" /\ Now(p) = t[1] /\ n \in Names /\ t[1].path = <<e, n>>
      /\ work[p].req.op = "delete" /\ Proper(e, work[p].req.op, t[1])
  BY <1>1, EntryDoing
<1>3. Deletes1(t) /\ n \in {"entry", "files"}
  BY <1>1, DeletesNow
<1>4. PICK c \in Now(p).names :
          LET rest == [Now(p) EXCEPT !.names = @ \ {c}]
              path == <<Now(p).path[1], c>>
          IN  IF c = "files" THEN Instead(p, <<Scan(path[1], c), rest>>) /\ UNCHANGED disk
              ELSE /\ disk' = [disk EXCEPT ![path] = Missing]
                   /\ work' = [work EXCEPT ![p].todo = <<rest>> \o Tail(@), ![p].begun = TRUE]
  BY DEF Unlink
<1>. DEFINE s == [Now(p) EXCEPT !.names = @ \ {c}]
            path == <<Now(p).path[1], c>>
            then == \/ c = "files" /\ Instead(p, <<Scan(path[1], c), s>>) /\ UNCHANGED disk
                    \/ /\ c # "files" /\ disk' = [disk EXCEPT ![path] = Missing]
                       /\ work' = [work EXCEPT ![p].todo = <<s>> \o Tail(@), ![p].begun = TRUE]
<1>. HIDE DEF t
<1>10. then
  BY <1>4
<1>11. path = <<e, c>> /\ path[1] = e
  BY <1>2
<1>. HIDE DEF path, s
<1>. USE DEF t
<1>5. \/ c = "files" /\ Instead(p, <<Scan(e, "files"), s>>) /\ UNCHANGED disk
      \/ /\ c # "files" /\ disk' = [disk EXCEPT ![<<e, c>>] = Missing]
         /\ work' = [work EXCEPT ![p].todo = <<s>> \o Tail(t), ![p].begun = TRUE]
  BY <1>10, <1>11
<1>6. c \in t[1].names /\ c \in Names
  <2>1. Inside(n) \subseteq Names
    BY DEF Inside
  <2>. QED BY <1>2, <1>3, <1>4, <2>1 DEF Deletes1
<1>7. s.do = "unlink" /\ s.path = t[1].path /\ s.names = t[1].names \ {c}
  <2>1. t[1] = [do |-> t[1].do, path |-> t[1].path, names |-> t[1].names]
    BY <1>2 DEF Proper
  <2>2. PICK a, d : t[1] = [do |-> "unlink", path |-> a, names |-> d]
    BY <1>2, <2>1
  <2>3. s = [do |-> "unlink", path |-> a, names |-> d \ {c}]
    BY <1>2, <2>2 DEF s
  <2>. QED BY <2>2, <2>3
<1>. HIDE DEF s
<1>8. CASE c = "files"
  <2>1. Instead(p, <<Scan(e, "files"), s>>) /\ UNCHANGED disk
    BY <1>5, <1>8
  <2>2. PICK u : Goes(p, u, work[p].begun) /\ Instead2(p, u, Scan(e, "files"), s)
    BY <1>1, <2>1, TwoInstead
  <2>3. PutTwo(t, u, Scan(e, "files"), s)
    BY <2>2 DEF Instead2, PutTwo
  <2>4. Scan(e, "files").do = "scan" /\ Scan(e, "files").path[2] = "files"
    BY DEF Scan
  <2>5. EntryUnlinked(FilesOf(e), t, work[p].begun, FilesOf(e)', u, work[p].begun)
    BY <1>2, <1>6, <1>7, <1>8, <2>1, <2>3, <2>4, AlikeBy DEF EntryUnlinked
  <2>6. EntryStage(FilesOf(e)', told[e], work[p].req, u, work[p].begun)
    BY <1>2, <1>3, <2>5, EntryUnlink
  <2>. QED BY <2>2, <2>6, MovedBy
<1>9. CASE c # "files"
  <2>1. Puts(<<e, c>>, Missing) /\ work' = [work EXCEPT ![p].todo = <<s>> \o Tail(t), ![p].begun = TRUE]
    BY <1>5, <1>9 DEF Puts
  <2>2. PICK u : Goes(p, u, TRUE) /\ Instead1(p, u, s)
    BY <1>1, <2>1, BegunInstead
  <2>3. Put(t, u, s)
    BY <2>2, PutInstead
  <2>4. Filed(FilesOf(e), FilesOf(e)', c, Missing)
    BY <1>6, <2>1, FiledBy
  <2>5. EntryUnlinked(FilesOf(e), t, work[p].begun, FilesOf(e)', u, TRUE)
    BY <1>2, <1>6, <1>7, <1>9, <2>3, <2>4 DEF EntryUnlinked
  <2>6. EntryStage(FilesOf(e)', told[e], work[p].req, u, TRUE)
    BY <1>2, <1>3, <2>5, EntryUnlink
  <2>. QED BY <2>2, <2>6, MovedBy
<1>. QED BY <1>8, <1>9

\* Whatever step it is.
LEMMA EntryMoves ==
    ASSUME Handlers, JournalInv, NEW p \in Ports, NEW e \in EntryIds, EntryReady(p, e), Moving(p)
    PROVE  EntryMoved(p, e)
<1>1. ASSUME init_profile_file_if_missing(p) \/ WriteUserProfileSnapshot(p) PROVE FALSE
  <2>1. PICK do \in {"init", "snapshot"} : Doing(p, do)
    BY <1>1 DEF init_profile_file_if_missing, WriteUserProfileSnapshot
  <2>2. Proper(e, work[p].req.op, work[p].todo[1]) /\ work[p].todo[1].do = do
    BY <2>1, EntryDoing
  <2>. QED BY <2>2, Distinct, NotThings DEF Proper
<1>. QED BY <1>1, ReadMoves, OpenMoves, FillMoves, MakeMoves, ScanMoves, UnlinkMoves, RemoveMoves DEF Moving

\* What becomes of an entry: steps, answers and crashes

\* One that is gone has no files.
LEMMA GoneKept == DeletedStaysDeleted => \A e \in EntryIds : told[e] = Gone => EntryKept(e)
<1>. SUFFICES ASSUME DeletedStaysDeleted, NEW e \in EntryIds, told[e] = Gone PROVE EntryKept(e)
  OBVIOUS
<1>1. \A n \in Names : FilesOf(e)[n] = Missing
  BY FilesAre DEF DeletedStaysDeleted
<1>2. EntryLike(FilesOf(e), told[e])
  BY <1>1 DEF EntryLike
<1>. QED BY <1>2 DEF EntryKept, EntryStage

LEMMA GoneStays == (DeletedStaysDeleted)' => (\A e \in EntryIds : told[e] = Gone => EntryKept(e))'
BY GoneKept, PTL

LEMMA GoneThen ==
    ASSUME IInv', NEW e \in EntryIds, told'[e] = Gone
    PROVE  EntryKept(e)'
<1>1. DeletedStaysDeleted'
  BY DEF IInv, JournalInv
<1>2. (\A f \in EntryIds : told[f] = Gone => EntryKept(f))'
  BY <1>1, GoneStays
<1>. QED BY <1>2

\* One that nobody is at is as it was.
LEMMA EntryApart ==
    ASSUME NEW e \in EntryIds, EntryKept(e), FilesOf(e)' = FilesOf(e), told'[e] = told[e],
           Whole(e)' => Whole(e), SameHandlers(e)
    PROVE  EntryKept(e)'
<1>. SUFFICES ASSUME Whole(e)
              PROVE  /\ (\A p \in Ports : work'[p].thing # e) => EntryLike(FilesOf(e), told[e])
                     /\ \A p \in Ports : work'[p].thing = e =>
                           EntryStage(FilesOf(e), told[e], work'[p].req, work'[p].todo, work'[p].begun)
  BY DEF EntryKept
<1>. QED BY DEF EntryKept, SameHandlers

\* One that a handler takes a step with.
LEMMA EntryActs ==
    ASSUME Alone, NEW p \in Ports, NEW e \in EntryIds, work[p].thing = e, Whole(e),
           EntryStage(FilesOf(e), told[e], work[p].req, work[p].todo, work[p].begun),
           EntryMoved(p, e), UNCHANGED <<told, overlapped, torn>>
    PROVE  EntryKept(e)'
<1>1. e # "none"
  BY NotThings DEF Things
<1>2. \A q \in Ports : work[q].thing = e => q = p
  BY <1>1, OnlyOne DEF Whole
<1>3. CASE Refused(p) /\ work[p].begun = FALSE /\ Alike(FilesOf(e), FilesOf(e)')
  <2>1. EntryLike(FilesOf(e), told[e])
    BY <1>3 DEF EntryStage
  <2>2. EntryLike(FilesOf(e)', told[e])
    BY <1>3, <2>1, LikeAlike
  <2>3. \A q \in Ports : work'[q].thing # e
    BY <1>1, <1>2, <1>3, IdleForm DEF Refused
  <2>. QED BY <2>2, <2>3 DEF EntryKept
<1>4. CASE \E u : \E b : Goes(p, u, b) /\ EntryStage(FilesOf(e)', told[e], work[p].req, u, b)
  <2>1. PICK u, b : Goes(p, u, b) /\ EntryStage(FilesOf(e)', told[e], work[p].req, u, b)
    BY <1>4
  <2>2. work'[p].req = work[p].req /\ work'[p].thing = e /\ work'[p].todo = u /\ work'[p].begun = b
    BY <2>1, GoesFields
  <2>3. \A q \in Ports : work'[q].thing = e => q = p
    BY <1>2, <2>1 DEF Goes
  <2>. QED BY <2>1, <2>2, <2>3 DEF EntryKept
<1>. QED BY <1>3, <1>4 DEF EntryMoved

LEMMA EntryAskedKept ==
    ASSUME EntryAsked, UNCHANGED told,
           \A q \in Ports : \/ work'[q].req = work[q].req /\ work'[q].thing = work[q].thing
                            \/ work'[q] = Idle
    PROVE  EntryAsked'
<1>. SUFFICES ASSUME NEW q \in Ports
              PROVE  /\ EntryFitting(work'[q].req)
                     /\ work'[q].thing \in EntryIds => ImageThere(work'[q].req, told[work'[q].thing])
  BY DEF EntryAsked
<1>1. CASE work'[q].req = work[q].req /\ work'[q].thing = work[q].thing
  BY <1>1 DEF EntryAsked
<1>2. CASE work'[q] = Idle
  BY <1>2, IdleForm DEF EntryFitting, ImageThere
<1>. QED BY <1>1, <1>2

\* What a handler of another entry does, or of something else.
LEMMA OthersFiles ==
    ASSUME Handlers, JournalInv, NEW p \in Ports, Reaches(p), work[p].thing # "none",
           NEW e \in EntryIds, work[p].thing # e
    PROVE  FilesOf(e)' = FilesOf(e)
<1>1. \A n \in Names : disk'[<<e, n>>] = disk[<<e, n>>]
  <2>1. CASE work[p].thing \notin EntryIds
    BY <2>1, ApartFiles
  <2>2. CASE work[p].thing \in EntryIds
    <3>1. CASE disk' = disk
      BY <3>1
    <3>2. CASE \E path \in PathsOf(work[p].thing) : \E v : Puts(path, v)
      <4>1. PICK path \in PathsOf(work[p].thing) : \E v : Puts(path, v)
        BY <3>2
      <4>2. PICK v : Puts(path, v)
        BY <4>1
      <4>3. PICK n \in Names : path = <<work[p].thing, n>>
        BY <2>2, <4>1 DEF PathsOf
      <4>. QED BY <2>2, <4>2, <4>3, DiskAt
    <3>. QED BY <3>1, <3>2 DEF Reaches
  <2>. QED BY <2>1, <2>2
<1>. QED BY <1>1 DEF FilesOf

\* No step of a handler breaks what is so of the entries.
LEMMA EntrySteps2 ==
    ASSUME IInv, IInv', EntryInv, FewEmbeds, NEW p \in Ports, Moving(p)
    PROVE  EntryInv'
<1>1. Handlers /\ Alone /\ JournalInv /\ Reaches(p) /\ UNCHANGED <<told, overlapped, torn>>
  BY StepReaches DEF IInv
<1>2. work[p].thing # "none"
  BY DEF Moving, init_profile_file_if_missing, ReadAndChange, OpenForWriting, write_file, MakeDirectory,
     WriteUserProfileSnapshot, rmdir_r, Unlink, RemoveDirectory, Doing, IsBusy
<1>3. EntryAsked'
  <2>1. \A q \in Ports : \/ work'[q].req = work[q].req /\ work'[q].thing = work[q].thing
                         \/ work'[q] = Idle
    BY <1>1 DEF Reaches
  <2>. QED BY <1>1, <2>1, EntryAskedKept DEF EntryInv
<1>4. (\A e \in EntryIds : told[e] \in {Unborn, Gone} \/ ToldOk(told[e]))'
  BY <1>1 DEF EntryInv
<1>5. ASSUME NEW e \in EntryIds PROVE EntryKept(e)'
  <2>1. e # "none"
    BY NotThings DEF Things
  <2>2. CASE work[p].thing # e
    <3>1. FilesOf(e)' = FilesOf(e)
      BY <1>1, <1>2, <2>2, OthersFiles
    <3>2. SameHandlers(e)
      BY <1>1, <2>1, <2>2, IdleForm DEF SameHandlers, Reaches
    <3>. QED BY <1>1, <3>1, <3>2, EntryApart DEF EntryInv, Whole
  <2>3. CASE told[e] = Gone
    BY <1>1, <2>3, GoneThen
  <2>4. CASE work[p].thing = e /\ told[e] # Gone /\ Whole(e)
    <3>1. EntryStage(FilesOf(e), told[e], work[p].req, work[p].todo, work[p].begun) /\ EntryFitting(work[p].req)
      BY <2>4 DEF EntryInv, EntryKept, EntryAsked
    <3>2. work[p].req.op # "create" => ToldOk(told[e]) /\ Len(told[e].embeds) <= EMBEDS_READ
      <4>1. work[p].req.op \in EntryOps
        BY <1>1, <2>4 DEF Handlers, IsHandler
      <4>2. work[p].req.op # "create" => told[e] # Unborn
        BY <1>1, <2>4, <4>1 DEF JournalInv, KnownOnes
      <4>. QED BY <2>4, <4>2 DEF EntryInv, FewEmbeds
    <3>3. EntryReady(p, e)
      BY <2>4, <3>1, <3>2 DEF EntryReady
    <3>4. EntryMoved(p, e)
      BY <1>1, <3>3, EntryMoves
    <3>. QED BY <1>1, <2>4, <3>1, <3>4, EntryActs
  <2>5. CASE ~Whole(e)
    BY <1>1, <2>5 DEF EntryKept, Whole
  <2>. QED BY <2>2, <2>3, <2>4, <2>5
<1>. QED BY <1>3, <1>4, <1>5 DEF EntryInv

\* What is told of an entry by an answer.
LEMMA EntryTold ==
    ASSUME Handlers, JournalInv, NEW p \in Ports, IsBusy(p), told' = Tell(work[p].req),
           NEW e \in EntryIds, work[p].thing = e
    PROVE  /\ work[p].req.op \in EntryOps
           /\ work[p].req.op = "delete" => told'[e] = Gone
           /\ work[p].req.op # "delete" /\ told[e] = Gone => told'[e] = Gone
           /\ work[p].req.op # "delete" /\ told[e] # Gone => told'[e] = After(told[e], work[p].req)
           /\ work[p].req.op = "create" <=> told[e] = Unborn
<1>. DEFINE r == work[p].req
<1>1. r.op \in EntryOps /\ r.id = e
  BY DEF Handlers, IsHandler
<1>2. DOMAIN told = Said /\ e \in Said
  BY DEF JournalInv, Standing, Said
<1>3. r.op = "create" => told[e] = Unborn
  BY DEF JournalInv, Creating, CreatingBy
<1>4. r.op # "create" => told[e] # Unborn
  BY <1>1 DEF JournalInv, KnownOnes
<1>5. Unborn # Gone
  BY DEF Unborn, Gone
<1>6. CASE r.op = "create"
  <2>1. told' = [told EXCEPT ![e] = Born(r)]
    BY <1>1, <1>6 DEF Tell, Born
  <2>2. told'[e] = Born(r)
    BY <1>2, <2>1
  <2>. QED BY <1>1, <1>3, <1>5, <1>6, <2>2 DEF After
<1>7. CASE r.op = "delete"
  <2>1. told' = [told EXCEPT ![e] = Gone]
    BY <1>1, <1>7 DEF Tell
  <2>. QED BY <1>1, <1>2, <1>4, <1>7, <2>1
<1>8. CASE r.op \in {"update", "attach", "embed", "unembed"}
  <2>1. told' = IF told[e] = Gone THEN told ELSE [told EXCEPT ![e] = Changed(told[e], r)]
    BY <1>1, <1>8 DEF Tell
  <2>2. told[e] # Gone => told'[e] = Changed(told[e], r)
    BY <1>2, <2>1
  <2>. QED BY <1>1, <1>4, <1>8, <2>1, <2>2 DEF After
<1>. QED BY <1>1, <1>6, <1>7, <1>8 DEF EntryOps

LEMMA EntryAnswers ==
    ASSUME IInv, IInv', EntryInv, NEW p \in Ports, Answer(p)
    PROVE  EntryInv'
<1>1. Handlers /\ Alone /\ JournalInv /\ EntryAsked
  BY DEF IInv, EntryInv
<1>2. /\ IsBusy(p) /\ work[p].todo = <<>> /\ told' = Tell(work[p].req) /\ disk' = disk
      /\ work'[p] = Idle /\ \A q \in Ports \ {p} : work'[q] = work[q]
  BY <1>1 DEF Answer, Handlers
<1>3. \A e \in EntryIds : Whole(e)' => Whole(e)
  <2>1. \E m : /\ m = {x \in {work[p].thing} : work[p].alone /\ x \in {"user", "picture"}}
               /\ overlapped' = overlapped \ m /\ torn' = torn \ m
    BY DEF Answer
  <2>2. \A e \in EntryIds : e \notin {"user", "picture"}
    BY Distinct
  <2>. QED BY <2>1, <2>2 DEF Whole
<1>4. \A e \in EntryIds : e # work[p].thing => told'[e] = told[e]
  BY <1>1, <1>2, Tells
<1>5. \A e \in EntryIds : e # "none"
  BY NotThings DEF Things
<1>6. ASSUME NEW e \in EntryIds, work[p].thing = e
      PROVE  /\ told'[e] \in {Unborn, Gone} \/ ToldOk(told'[e])
             /\ ToldOk(told'[e]) /\ ToldOk(told[e]) => (told[e].image = TRUE => told'[e].image = TRUE)
             /\ told'[e] # Unborn
  <2>. DEFINE r == work[p].req
  <2>1. /\ r.op \in EntryOps /\ (r.op = "delete" \/ told[e] = Gone => told'[e] = Gone)
        /\ r.op # "delete" /\ told[e] # Gone => told'[e] = After(told[e], r)
        /\ r.op = "create" <=> told[e] = Unborn
    BY <1>1, <1>2, <1>6, EntryTold
  <2>2. EntryFitting(r) /\ ImageThere(r, told[e])
    BY <1>1, <1>6 DEF EntryAsked
  <2>3. Unborn # Gone /\ \A x : ToldOk(x) => x # Unborn /\ x # Gone
    <3>1. ASSUME NEW x, ToldOk(x) PROVE x.is = "there"
      <4>1. PICK a, b, c, d : x = [is |-> "there", title |-> a, text |-> b, embeds |-> c, image |-> d]
        BY <3>1 DEF ToldOk, IsThere
      <4>. QED BY <4>1
    <3>2. Unborn.is = "unborn" /\ Gone.is = "gone"
      BY DEF Unborn, Gone
    <3>. QED BY <3>1, <3>2
  <2>. HIDE DEF r
  <2>4. CASE told'[e] = Gone
    BY <2>3, <2>4
  <2>5. CASE r.op = "create" /\ told'[e] # Gone
    <3>1. told'[e] = Born(r)
      BY <2>1, <2>5 DEF After
    <3>2. ToldOk(Born(r))
      BY <2>2, <2>5, ToldBorn
    <3>. QED BY <2>1, <2>3, <2>5, <3>1, <3>2
  <2>6. CASE r.op \notin {"create", "delete"} /\ told'[e] # Gone
    <3>1. told'[e] = Changed(told[e], r) /\ told[e] # Gone /\ ToldOk(told[e])
      BY <2>1, <2>6 DEF After, EntryInv
    <3>2. r.op \in {"update", "attach", "embed", "unembed"}
      BY <2>1, <2>6 DEF EntryOps
    <3>4. ToldOk(Changed(told[e], r))
      BY <2>2, <3>1, <3>2, ToldChanged
    <3>5. IsThere(told[e])
      BY <3>1 DEF ToldOk
    <3>6. Changes(Changed(told[e], r), told[e], r)
      BY <3>2, <3>5, ChangedFields
    <3>7. told[e].image = TRUE => Changed(told[e], r).image = TRUE
      BY <3>6 DEF Changes
    <3>. QED BY <2>3, <3>1, <3>4, <3>7
  <2>. QED BY <2>1, <2>4, <2>5, <2>6
<1>7. (\A e \in EntryIds : told[e] \in {Unborn, Gone} \/ ToldOk(told[e]))'
  BY <1>4, <1>6 DEF EntryInv
<1>8. EntryAsked'
  <2>. SUFFICES ASSUME NEW q \in Ports
                PROVE  /\ EntryFitting(work'[q].req)
                       /\ work'[q].thing \in EntryIds => ImageThere(work'[q].req, told'[work'[q].thing])
    BY DEF EntryAsked
  <2>1. CASE q = p
    BY <1>2, <2>1, IdleForm, <1>5 DEF EntryFitting, ImageThere
  <2>2. CASE q # p
    <3>1. work'[q] = work[q] /\ EntryFitting(work[q].req)
      BY <1>1, <1>2, <2>2 DEF EntryAsked
    <3>2. ASSUME NEW e \in EntryIds, work[q].thing = e PROVE ImageThere(work[q].req, told'[e])
      <4>1. ImageThere(work[q].req, told[e])
        BY <1>1, <3>2 DEF EntryAsked
      <4>2. CASE work[p].thing # e
        BY <1>4, <4>1, <4>2
      <4>3. CASE work[p].thing = e
        <5>. SUFFICES ASSUME work[q].req.op = "embed", work[q].req.embed.type = "image", told'[e] # Gone
                      PROVE  told'[e].image = TRUE
          BY DEF ImageThere
        <5>1. ToldOk(told'[e])
          BY <1>6, <4>3
        <5>2. told[e] # Gone
          BY <1>1, <1>2, <4>3, EntryTold
        <5>3. told[e] # Unborn
          BY <1>1, <3>2 DEF JournalInv, KnownOnes, EntryOps
        <5>4. ToldOk(told[e])
          BY <5>2, <5>3 DEF EntryInv
        <5>5. told[e].image = TRUE
          BY <4>1, <5>2 DEF ImageThere
        <5>. QED BY <1>6, <4>3, <5>1, <5>4, <5>5
      <4>. QED BY <4>2, <4>3
    <3>. QED BY <3>1, <3>2
  <2>. QED BY <2>1, <2>2
<1>9. ASSUME NEW e \in EntryIds PROVE EntryKept(e)'
  <2>1. FilesOf(e)' = FilesOf(e)
    BY <1>2 DEF FilesOf
  <2>2. CASE work[p].thing # e
    <3>1. SameHandlers(e)
      BY <1>2, <1>5, <2>2, IdleForm DEF SameHandlers
    <3>. QED BY <1>3, <1>4, <2>1, <2>2, <3>1, EntryApart DEF EntryInv
  <2>3. CASE told'[e] = Gone
    BY <2>3, GoneThen
  <2>4. CASE work[p].thing = e /\ told'[e] # Gone /\ Whole(e)
    <3>1. \A q \in Ports : work[q].thing = e => q = p
      BY <1>1, <1>5, <2>4, OnlyOne DEF Whole
    <3>2. \A q \in Ports : work'[q].thing # e
      BY <1>2, <1>5, <3>1, IdleForm
    <3>3. EntryStage(FilesOf(e), told[e], work[p].req, work[p].todo, work[p].begun)
      BY <2>4 DEF EntryInv, EntryKept
    <3>4. work[p].req.op # "delete" /\ told[e] # Gone /\ told'[e] = After(told[e], work[p].req)
      BY <1>1, <1>2, <2>4, EntryTold
    <3>5. /\ Orderly(<<>>, work[p].req, FilesOf(e), work[p].begun)
          /\ Changing(FilesOf(e), told[e], work[p].req, <<>>)
      BY <1>2, <3>3, <3>4 DEF EntryStage
    <3>6. FilesOf(e)["entry"] = Directory
      BY <3>5 DEF Orderly
    <3>7. \A n \in Fields : Shows(n, FilesOf(e)[n], After(told[e], work[p].req))
      <4>1. \A n : ~Pending(<<>>, n)
        <5>1. Len(<<>>) = 0
          OBVIOUS
        <5>. QED BY <5>1 DEF Pending
      <4>. QED BY <3>5, <4>1 DEF Changing
    <3>8. told'[e] \notin {Unborn, Gone}
      BY <1>6, <2>4
    <3>9. EntryLike(FilesOf(e)', told'[e])
      BY <2>1, <3>4, <3>6, <3>7, <3>8 DEF EntryLike
    <3>. QED BY <3>2, <3>9 DEF EntryKept
  <2>5. CASE ~Whole(e)
    BY <1>3, <2>5 DEF EntryKept
  <2>. QED BY <2>2, <2>3, <2>4, <2>5
<1>. QED BY <1>7, <1>8, <1>9 DEF EntryInv

LEMMA EntryCrashes ==
    ASSUME IInv, EntryInv, Crash
    PROVE  EntryInv'
<1>1. /\ UNCHANGED <<disk, told, overlapped>> /\ \A p \in Ports : work'[p] = Idle
      /\ torn' = torn \cup {work[p].thing : p \in {q \in Ports : IsBusy(q) /\ work[q].begun}}
  BY DEF Crash
<1>2. EntryAsked'
  BY <1>1, EntryAskedKept DEF EntryInv
<1>3. (\A e \in EntryIds : told[e] \in {Unborn, Gone} \/ ToldOk(told[e]))'
  BY <1>1 DEF EntryInv
<1>4. ASSUME NEW e \in EntryIds PROVE EntryKept(e)'
  <2>1. e # "none"
    BY NotThings DEF Things
  <2>2. FilesOf(e)' = FilesOf(e) /\ \A p \in Ports : work'[p].thing # e
    BY <1>1, <2>1, IdleForm DEF FilesOf
  <2>. SUFFICES ASSUME Whole(e)' PROVE EntryLike(FilesOf(e), told[e])
    BY <1>1, <2>2 DEF EntryKept
  <2>3. Whole(e) /\ \A p \in Ports : work[p].thing = e => ~work[p].begun
    BY <1>1, <2>1 DEF Whole, IsBusy
  <2>4. CASE \A p \in Ports : work[p].thing # e
    BY <2>3, <2>4 DEF EntryInv, EntryKept
  <2>5. CASE \E p \in Ports : work[p].thing = e
    <3>1. PICK p \in Ports : work[p].thing = e
      BY <2>5
    <3>2. EntryStage(FilesOf(e), told[e], work[p].req, work[p].todo, work[p].begun) /\ ~work[p].begun
      BY <2>3, <3>1 DEF EntryInv, EntryKept
    <3>3. work[p].begun \in BOOLEAN
      BY DEF IInv, Handlers, IsHandler
    <3>. QED BY <3>2, <3>3 DEF EntryStage
  <2>. QED BY <2>4, <2>5
<1>. QED BY <1>2, <1>3, <1>4 DEF EntryInv

----------------------------------------------------------------------------
\* What each request about an entry begins with

Entering(f, x, r, t) == x # Gone /\ EntryLike(f, x) => EntryStage(f, x, r, t, FALSE)

LEMMA StageCreate ==
    ASSUME NEW f, NEW r, r.op = "create", EntryFitting(r), NEW e, EntryLike(f, Unborn)
    PROVE  EntryStage(f, Unborn, r, JournalCreate(e, r.title, r.text), FALSE)
<1>1. PICK a : a = Mkdir(<<e, "entry">>)
  OBVIOUS
<1>2. PICK b : b = Write(<<e, "text">>, r.text)
  OBVIOUS
<1>3. PICK c : c = Write(<<e, "meta">>, Meta(r.title))
  OBVIOUS
<1>4. /\ a.do = "mkdir" /\ a.path[2] = "entry" /\ b.do = "open" /\ b.path[2] = "text" /\ b.data = r.text
      /\ c.do = "open" /\ c.path[2] = "meta" /\ c.data = Meta(r.title)
  BY <1>1, <1>2, <1>3 DEF Mkdir, Write
<1>5. PICK t : t = <<a, b, c>>
  OBVIOUS
<1>6. Len(t) = 3 /\ t[1] = a /\ t[2] = b /\ t[3] = c /\ t # <<>>
  BY <1>5
<1>7. \A n \in Names : f[n] = Missing
  BY DEF EntryLike
<1>8. Orderly(t, r, f, FALSE)
  BY <1>4, <1>6 DEF Orderly, At, Names
<1>9. PICK y : y = After(Unborn, r)
  OBVIOUS
<1>10. y.title = r.title /\ y.text = r.text /\ y.embeds = <<>> /\ y.image = FALSE
  BY <1>9, ToldBorn DEF After
<1>11. \A k \in 1 .. Len(t) : t[k].do \in {"open", "fill"} => Shows(At(t, k), t[k].data, y)
  BY <1>4, <1>6, <1>10 DEF At, Shows
<1>12. \A n \in Fields : ~Pending(t, n) => Shows(n, f[n], y)
  <2>1. Pending(t, "meta") /\ Pending(t, "text")
    BY <1>4, <1>6 DEF Pending, At
  <2>2. f["embeds"] = Missing /\ f["image"] = Missing
    BY <1>7 DEF Names
  <2>. QED BY <1>10, <2>1, <2>2 DEF Fields, Shows
<1>13. Changing(f, Unborn, r, t)
  BY <1>4, <1>6, <1>9, <1>11, <1>12 DEF Changing
<1>14. JournalCreate(e, r.title, r.text) = t
  BY <1>1, <1>2, <1>3, <1>5 DEF JournalCreate
<1>. QED BY <1>8, <1>13, <1>14 DEF EntryStage

\* What a request leaves as it is.
Still(f, y, r) ==
    /\ r.op # "update" => Shows("meta", f["meta"], y) /\ Shows("text", f["text"], y)
    /\ r.op = "update" /\ r.text = "" => Shows("text", f["text"], y)
    /\ r.op \notin {"embed", "unembed"} => Shows("embeds", f["embeds"], y)
    /\ r.op # "attach" => Shows("image", f["image"], y)

LEMMA StillShown ==
    ASSUME NEW f, NEW x, x \notin {Unborn, Gone}, IsThere(x), EntryLike(f, x),
           NEW r, r.op \in {"update", "attach", "embed", "unembed"}
    PROVE  /\ f["entry"] = Directory /\ Shows("meta", f["meta"], x) /\ Shows("embeds", f["embeds"], x)
           /\ Still(f, Changed(x, r), r)
<1>1. PICK y : y = Changed(x, r)
  OBVIOUS
<1>2. Changes(y, x, r)
  BY <1>1, ChangedFields
<1>3. f["entry"] = Directory /\ \A n \in Fields : Shows(n, f[n], x)
  BY DEF EntryLike
<1>4. /\ Shows("meta", f["meta"], x) /\ Shows("text", f["text"], x) /\ Shows("embeds", f["embeds"], x)
      /\ Shows("image", f["image"], x)
  BY <1>3 DEF Fields
<1>5. r.op # "update" => y.title = x.title /\ y.text = x.text
  BY <1>2 DEF Changes
<1>6. r.op = "update" /\ r.text = "" => y.text = x.text
  BY <1>2 DEF Changes
<1>7. r.op \notin {"embed", "unembed"} => y.embeds = x.embeds
  BY <1>2 DEF Changes
<1>8. r.op # "attach" => y.image = x.image
  BY <1>2 DEF Changes
<1>. QED BY <1>1, <1>3, <1>4, <1>5, <1>6, <1>7, <1>8 DEF Shows, Still

LEMMA StageUpdate ==
    ASSUME NEW f, NEW x, x \notin {Unborn, Gone}, IsThere(x), EntryLike(f, x), NEW e,
           NEW r, r.op = "update"
    PROVE  /\ r.text = "" => EntryStage(f, x, r, <<Modify(<<e, "meta">>)>>, FALSE)
           /\ r.text # "" =>
                 EntryStage(f, x, r, <<Modify(<<e, "meta">>), Write(<<e, "text">>, r.text)>>, FALSE)
<1>1. PICK a : a = Modify(<<e, "meta">>)
  OBVIOUS
<1>2. PICK b : b = Write(<<e, "text">>, r.text)
  OBVIOUS
<1>3. /\ a.do = "modify" /\ a.path[2] = "meta" /\ b.do = "open" /\ b.path[2] = "text" /\ b.data = r.text
  BY <1>1, <1>2 DEF Modify, Write
<1>4. PICK y : y = Changed(x, r)
  OBVIOUS
<1>5. After(x, r) = y
  BY <1>4 DEF After
<1>6. /\ f["entry"] = Directory /\ Shows("meta", f["meta"], x)
      /\ r.text = "" => Shows("text", f["text"], y)
      /\ Shows("embeds", f["embeds"], y) /\ Shows("image", f["image"], y)
  <2>1. f["entry"] = Directory /\ Shows("meta", f["meta"], x) /\ Still(f, y, r)
    BY <1>4, StillShown
  <2>. QED BY <2>1 DEF Still
<1>11. f["entry"] = Directory /\ Shows("meta", f["meta"], x)
  BY <1>6
<1>7. Changes(y, x, r)
  BY <1>4, ChangedFields
<1>8. r.text # "" => Shows("text", r.text, y)
  BY <1>7 DEF Changes, Shows
<1>9. ASSUME r.text = "" PROVE EntryStage(f, x, r, <<a>>, FALSE)
  <2>1. PICK t : t = <<a>>
    OBVIOUS
  <2>2. Len(t) = 1 /\ t[1] = a /\ t # <<>>
    BY <2>1
  <2>3. Orderly(t, r, f, FALSE)
    BY <1>3, <1>11, <2>2 DEF Orderly, At, Names
  <2>4. Pending(t, "meta")
    BY <1>3, <2>2 DEF Pending, At
  <2>5. \A n \in Fields : ~Pending(t, n) => Shows(n, f[n], y)
    BY <1>6, <1>9, <2>4 DEF Fields
  <2>6. Changing(f, x, r, t)
    BY <1>3, <1>5, <1>11, <2>2, <2>5 DEF Changing, At
  <2>. QED BY <2>1, <2>3, <2>6 DEF EntryStage
<1>10. ASSUME r.text # "" PROVE EntryStage(f, x, r, <<a, b>>, FALSE)
  <2>1. PICK t : t = <<a, b>>
    OBVIOUS
  <2>2. Len(t) = 2 /\ t[1] = a /\ t[2] = b /\ t # <<>>
    BY <2>1
  <2>3. Orderly(t, r, f, FALSE)
    BY <1>3, <1>11, <2>2 DEF Orderly, At, Names
  <2>4. Pending(t, "meta") /\ Pending(t, "text")
    BY <1>3, <2>2 DEF Pending, At
  <2>5. \A n \in Fields : ~Pending(t, n) => Shows(n, f[n], y)
    BY <1>6, <2>4 DEF Fields
  <2>7. Shows("text", r.text, y)
    BY <1>8, <1>10
  <2>6. Changing(f, x, r, t)
    BY <1>3, <1>5, <1>11, <2>2, <2>5, <2>7 DEF Changing, At
  <2>. QED BY <2>1, <2>3, <2>6 DEF EntryStage
<1>. QED BY <1>1, <1>2, <1>9, <1>10

LEMMA StageEmbeds ==
    ASSUME NEW f, NEW x, x \notin {Unborn, Gone}, IsThere(x), EntryLike(f, x), NEW e,
           NEW r, r.op = "embed" \/ r.op = "unembed"
    PROVE  EntryStage(f, x, r, <<Modify(<<e, "embeds">>)>>, FALSE)
<1>1. PICK a : a = Modify(<<e, "embeds">>)
  OBVIOUS
<1>2. a.do = "modify" /\ a.path[2] = "embeds"
  BY <1>1 DEF Modify
<1>3. PICK t : t = <<a>>
  OBVIOUS
<1>4. Len(t) = 1 /\ t[1] = a /\ t # <<>>
  BY <1>3
<1>5. PICK y : y = Changed(x, r)
  OBVIOUS
<1>6. After(x, r) = y
  BY <1>5 DEF After
<1>7. /\ f["entry"] = Directory /\ Shows("embeds", f["embeds"], x)
      /\ Shows("meta", f["meta"], y) /\ Shows("text", f["text"], y) /\ Shows("image", f["image"], y)
  <2>1. f["entry"] = Directory /\ Shows("embeds", f["embeds"], x) /\ Still(f, y, r)
    BY <1>5, StillShown
  <2>. QED BY <2>1 DEF Still
<1>8. Orderly(t, r, f, FALSE)
  BY <1>2, <1>4, <1>7 DEF Orderly, At, Names
<1>9. Pending(t, "embeds")
  BY <1>2, <1>4 DEF Pending, At
<1>10. \A n \in Fields : ~Pending(t, n) => Shows(n, f[n], y)
  BY <1>7, <1>9 DEF Fields
<1>11. Changing(f, x, r, t)
  BY <1>2, <1>4, <1>6, <1>7, <1>10 DEF Changing, At
<1>. QED BY <1>1, <1>3, <1>8, <1>11 DEF EntryStage

LEMMA StageAttach ==
    ASSUME NEW f, NEW x, x \notin {Unborn, Gone}, IsThere(x), EntryLike(f, x), NEW e,
           NEW r, r.op = "attach"
    PROVE  EntryStage(f, x, r, <<Mkdir(<<e, "files">>), Write(<<e, "image">>, "bytes"),
                                 Write(<<e, "stamp">>, "time")>>, FALSE)
<1>1. PICK a : a = Mkdir(<<e, "files">>)
  OBVIOUS
<1>2. PICK b : b = Write(<<e, "image">>, "bytes")
  OBVIOUS
<1>3. PICK c : c = Write(<<e, "stamp">>, "time")
  OBVIOUS
<1>4. /\ a.do = "mkdir" /\ a.path[2] = "files" /\ b.do = "open" /\ b.path[2] = "image" /\ b.data = "bytes"
      /\ c.do = "open" /\ c.path[2] = "stamp"
  BY <1>1, <1>2, <1>3 DEF Mkdir, Write
<1>5. PICK t : t = <<a, b, c>>
  OBVIOUS
<1>6. Len(t) = 3 /\ t[1] = a /\ t[2] = b /\ t[3] = c /\ t # <<>>
  BY <1>5
<1>7. PICK y : y = Changed(x, r)
  OBVIOUS
<1>8. After(x, r) = y
  BY <1>7 DEF After
<1>9. /\ f["entry"] = Directory /\ Shows("embeds", f["embeds"], y)
      /\ Shows("meta", f["meta"], y) /\ Shows("text", f["text"], y)
  <2>1. f["entry"] = Directory /\ Still(f, y, r)
    BY <1>7, StillShown
  <2>. QED BY <2>1 DEF Still
<1>10. Changes(y, x, r)
  BY <1>7, ChangedFields
<1>11. y.image = TRUE
  BY <1>10 DEF Changes
<1>12. Orderly(t, r, f, FALSE)
  BY <1>4, <1>6, <1>9 DEF Orderly, At, Names
<1>13. Pending(t, "image")
  BY <1>4, <1>6 DEF Pending, At
<1>14. \A n \in Fields : ~Pending(t, n) => Shows(n, f[n], y)
  BY <1>9, <1>13 DEF Fields
<1>15. "bytes" # Missing
  BY EntryContents
<1>16. \A k \in 1 .. Len(t) : t[k].do \in {"open", "fill"} => Shows(At(t, k), t[k].data, y)
  BY <1>4, <1>6, <1>11, <1>15 DEF At, Shows
<1>17. Changing(f, x, r, t)
  BY <1>4, <1>6, <1>8, <1>14, <1>16 DEF Changing
<1>. QED BY <1>1, <1>2, <1>3, <1>5, <1>12, <1>17 DEF EntryStage

LEMMA StageDelete ==
    ASSUME NEW f, NEW x, EntryLike(f, x), NEW e, NEW r, r.op = "delete"
    PROVE  EntryStage(f, x, r, <<Scan(e, "entry")>>, FALSE)
<1>1. PICK a : a = Scan(e, "entry")
  OBVIOUS
<1>2. a.do = "scan"
  BY <1>1 DEF Scan
<1>3. PICK t : t = <<a>>
  OBVIOUS
<1>4. Len(t) = 1 /\ t[1] = a
  BY <1>3
<1>5. Emptying(f, t, FALSE)
  BY <1>2, <1>4 DEF Emptying
<1>. QED BY <1>1, <1>3, <1>5 DEF EntryStage

----------------------------------------------------------------------------
\* A request comes in

EntryEnters(req, thing, todo) ==
    /\ EntryFitting(req)
    /\ thing \in EntryIds => /\ ImageThere(req, told[thing])
                             /\ Entering(FilesOf(thing), told[thing], req, todo)

LEMMA EntryJoins ==
    ASSUME IInv, IInv', EntryInv, NEW p \in Ports, NEW req, NEW thing, thing # "none", NEW todo,
           Joined(p, req, thing, todo), UNCHANGED <<disk, told, torn>>, EntryEnters(req, thing, todo)
    PROVE  EntryInv'
<1>1. /\ overlapped \subseteq overlapped' /\ work[p].thing = "none" /\ work'[p].req = req
      /\ work'[p].thing = thing /\ work'[p].todo = todo /\ work'[p].begun = FALSE
      /\ \A q \in Ports \ {p} :
            /\ work'[q].req = work[q].req /\ work'[q].thing = work[q].thing
            /\ work'[q].todo = work[q].todo /\ work'[q].begun = work[q].begun
  BY DEF Joined
<1>2. \A e \in EntryIds : Whole(e)' => Whole(e)
  BY <1>1 DEF Whole
<1>3. \A e \in EntryIds : FilesOf(e)' = FilesOf(e)
  BY DEF FilesOf
<1>4. \A e \in EntryIds : e # "none"
  BY NotThings DEF Things
<1>5. EntryAsked'
  <2>. SUFFICES ASSUME NEW q \in Ports
                PROVE  /\ EntryFitting(work'[q].req)
                       /\ work'[q].thing \in EntryIds => ImageThere(work'[q].req, told[work'[q].thing])
    BY DEF EntryAsked
  <2>1. CASE q = p
    BY <1>1, <2>1 DEF EntryEnters
  <2>2. CASE q # p
    <3>1. work'[q].req = work[q].req /\ work'[q].thing = work[q].thing
      BY <1>1, <2>2
    <3>. QED BY <3>1 DEF EntryInv, EntryAsked
  <2>. QED BY <2>1, <2>2
<1>6. (\A e \in EntryIds : told[e] \in {Unborn, Gone} \/ ToldOk(told[e]))'
  BY DEF EntryInv
<1>7. ASSUME NEW e \in EntryIds PROVE EntryKept(e)'
  <2>1. CASE thing # e
    <3>1. SameHandlers(e)
      BY <1>1, <1>4, <2>1 DEF SameHandlers
    <3>. QED BY <1>2, <1>3, <2>1, <3>1, EntryApart DEF EntryInv
  <2>2. CASE told[e] = Gone
    BY <2>2, GoneThen
  <2>3. CASE thing = e /\ told[e] # Gone
    <3>. SUFFICES ASSUME Whole(e)' PROVE EntryKept(e)'
      BY DEF EntryKept
    <3>1. \A q \in Ports \ {p} : work'[q].thing # e
      <4>1. Alone' /\ e \notin overlapped'
        BY DEF IInv, Whole
      <4>2. work'[p].thing = e
        BY <1>1, <2>3
      <4>3. work'[p].alone
        BY <1>4, <4>1, <4>2 DEF Alone, IsBusy
      <4>. QED BY <1>4, <4>1, <4>2, <4>3 DEF Alone, IsBusy
    <3>2. \A q \in Ports : work[q].thing # e
      BY <1>1, <1>4, <3>1
    <3>3. EntryLike(FilesOf(e), told[e])
      BY <1>2, <3>2 DEF EntryInv, EntryKept
    <3>4. EntryStage(FilesOf(e), told[e], req, todo, FALSE)
      BY <2>3, <3>3 DEF EntryEnters, Entering
    <3>5. ASSUME NEW q \in Ports, work'[q].thing = e
          PROVE  EntryStage(FilesOf(e)', told'[e], work'[q].req, work'[q].todo, work'[q].begun)
      <4>1. q = p
        BY <3>1, <3>5
      <4>. QED BY <1>1, <1>3, <3>4, <4>1
    <3>6. work'[p].thing = e
      BY <1>1, <2>3
    <3>. QED BY <3>5, <3>6 DEF EntryKept
  <2>. QED BY <2>1, <2>2, <2>3
<1>. QED BY <1>5, <1>6, <1>7 DEF EntryInv

LEMMA EntryStarts ==
    ASSUME Init
    PROVE  EntryInv
<1>1. \A p \in Ports : work[p] = Idle
  BY DEF Init
<1>2. \A e \in EntryIds : told[e] = Unborn
  <2>1. told = [x \in Said |-> CASE x \in {"inputs", "events"} -> <<>>
                               [] x = "keys" -> [k \in Keys |-> None]
                               [] x = "reminders" -> {}
                               [] x = "picture" -> Missing
                               [] OTHER -> Unborn]
    BY DEF Init
  <2>. QED BY <2>1, Distinct DEF Said
<1>3. \A e \in EntryIds, n \in Names : FilesOf(e)[n] = Missing
  <2>1. PICK look \in Looks : /\ mem = [share |-> TRUE, look |-> look]
                              /\ disk = [path \in Path |-> IF path = File("user") THEN mem ELSE Missing]
    BY DEF Init
  <2>2. ASSUME NEW e \in EntryIds, NEW n \in Names PROVE <<e, n>> \in Path /\ <<e, n>> # File("user")
    BY Distinct DEF Path, File
  <2>. QED BY <2>1, <2>2 DEF FilesOf
<1>4. EntryAsked
  <2>1. \A e \in EntryIds : e # "none"
    BY NotThings DEF Things
  <2>. QED BY <1>1, <2>1, IdleForm DEF EntryAsked, EntryFitting
<1>5. ASSUME NEW e \in EntryIds PROVE EntryKept(e)
  <2>1. e # "none"
    BY NotThings DEF Things
  <2>2. \A p \in Ports : work[p].thing # e
    BY <1>1, <2>1, IdleForm
  <2>3. EntryLike(FilesOf(e), told[e])
    BY <1>2, <1>3 DEF EntryLike
  <2>. QED BY <2>2, <2>3 DEF EntryKept
<1>. QED BY <1>2, <1>4, <1>5 DEF EntryInv

LEMMA EntryStutters ==
    ASSUME EntryInv, UNCHANGED vars
    PROVE  EntryInv'
<1>1. UNCHANGED <<disk, work, told, overlapped, torn>>
  BY DEF vars
<1>2. EntryAsked'
  BY <1>1 DEF EntryInv, EntryAsked
<1>3. \A e \in EntryIds : EntryKept(e)'
  BY <1>1 DEF EntryInv, EntryKept, Whole, FilesOf
<1>. QED BY <1>1, <1>2, <1>3 DEF EntryInv

LEMMA EntryAsking ==
    ASSUME EntryInv, NEW req, NEW e \in EntryIds, NEW todo, Asking(req, e, todo)
    PROVE  EntryEnters(req, e, todo)
<1>1. PICK f : f = FilesOf(e)
  OBVIOUS
<1>2. PICK x : x = told[e]
  OBVIOUS
<1>3. req.op # "create" /\ x # Gone => ToldOk(x) /\ IsThere(x) /\ x \notin {Unborn, Gone}
  BY <1>2 DEF Asking, Known, EntryInv, ToldOk
<1>4. EntryFitting(req)
  BY DEF Asking, EntryFitting
<1>5. ImageThere(req, x)
  BY <1>2, <1>3 DEF Asking, ImageThere, ToldOk
<1>6. Entering(f, x, req, todo)
  <2>. SUFFICES ASSUME x # Gone, EntryLike(f, x) PROVE EntryStage(f, x, req, todo, FALSE)
    BY DEF Entering
  <2>1. CASE req.op = "create"
    <3>1. x = Unborn /\ todo = JournalCreate(e, req.title, req.text)
      BY <1>2, <2>1 DEF Asking
    <3>. QED BY <1>4, <2>1, <3>1, StageCreate
  <2>2. CASE req.op = "update"
    <3>1. /\ req.text = "" => todo = <<Modify(<<e, "meta">>)>>
          /\ req.text # "" => todo = <<Modify(<<e, "meta">>), Write(<<e, "text">>, req.text)>>
      BY <2>2 DEF Asking
    <3>2. x \notin {Unborn, Gone} /\ IsThere(x)
      BY <1>3, <2>2
    <3>3. CASE req.text = ""
      BY <2>2, <3>1, <3>2, <3>3, StageUpdate
    <3>4. CASE req.text # ""
      BY <2>2, <3>1, <3>2, <3>4, StageUpdate
    <3>. QED BY <3>3, <3>4
  <2>3. CASE req.op = "delete"
    <3>1. todo = <<Scan(e, "entry")>>
      BY <2>3 DEF Asking
    <3>. QED BY <2>3, <3>1, StageDelete
  <2>4. CASE req.op = "attach"
    <3>1. todo = <<Mkdir(<<e, "files">>), Write(<<e, "image">>, "bytes"), Write(<<e, "stamp">>, "time")>>
      BY <2>4 DEF Asking
    <3>2. x \notin {Unborn, Gone} /\ IsThere(x)
      BY <1>3, <2>4
    <3>. QED BY <2>4, <3>1, <3>2, StageAttach
  <2>5. CASE req.op = "embed" \/ req.op = "unembed"
    <3>1. todo = <<Modify(<<e, "embeds">>)>>
      BY <2>5 DEF Asking
    <3>2. x \notin {Unborn, Gone} /\ IsThere(x)
      BY <1>3, <2>5
    <3>. QED BY <2>5, <3>1, <3>2, StageEmbeds
  <2>6. req.op \in EntryOps
    BY DEF Asking
  <2>. QED BY <2>1, <2>2, <2>3, <2>4, <2>5, <2>6 DEF EntryOps
<1>. QED BY <1>1, <1>2, <1>4, <1>5, <1>6 DEF EntryEnters

LEMMA EntryRequests ==
    ASSUME IInv, IInv', EntryInv, NEW p \in Ports, Request(p)
    PROVE  EntryInv'
<1>1. Coming(p)
  BY RequestComing
<1>2. PICK req : \E thing : \E todo : thing # "none" /\ Begin(p, req, thing, todo) /\ Ready(req, thing, todo)
  BY <1>1 DEF Coming
<1>3. PICK thing : \E todo : thing # "none" /\ Begin(p, req, thing, todo) /\ Ready(req, thing, todo)
  BY <1>2
<1>4. PICK todo : thing # "none" /\ Begin(p, req, thing, todo) /\ Ready(req, thing, todo)
  BY <1>3
<1>5. Formed(req, thing, todo) /\ Handlers
  BY <1>4 DEF IInv, Ready
<1>6. EntryEnters(req, thing, todo)
  <2>1. CASE thing \in EntryIds
    BY <1>5, <2>1, EntryAsking DEF Formed
  <2>2. CASE thing \notin EntryIds
    BY <1>5, <2>2 DEF Formed, EntryEnters, EntryFitting, PlainOps
  <2>. QED BY <2>1, <2>2
<1>7. Joined(p, req, thing, todo) /\ UNCHANGED <<disk, told, torn>>
  BY <1>4, <1>5, BeginJoined
<1>. QED BY <1>4, <1>6, <1>7, EntryJoins

----------------------------------------------------------------------------
\* What is read of an entry is what was told of it

LEMMA EntryRead ==
    ASSUME NEW f, NEW x, ToldOk(x), x \notin {Unborn, Gone}, EntryLike(f, x),
           f["image"] # Missing => f["files"] = Directory
    PROVE  /\ Listed(f)
           /\ JournalReadEntry(f) = [title |-> x.title, text |-> x.text, embeds |-> x.embeds, image |-> x.image]
           /\ JournalBuildImageMemoriesJson(f) # {} => x.image
<1>1. f["entry"] = Directory /\ \A n \in Fields : Shows(n, f[n], x)
  BY DEF EntryLike
<1>2. /\ Shows("meta", f["meta"], x) /\ Shows("text", f["text"], x) /\ Shows("embeds", f["embeds"], x)
      /\ Shows("image", f["image"], x)
  BY <1>1 DEF Fields
<1>3. f["meta"] = Meta(x.title) /\ f["text"] = x.text
  BY <1>2 DEF Shows
<1>4. f["embeds"] = x.embeds \/ (f["embeds"] = Missing /\ x.embeds = <<>>)
  BY <1>2 DEF Shows
<1>5. (f["image"] = Missing /\ x.image = FALSE) \/ (f["image"] # Missing /\ x.image = TRUE)
  BY <1>2 DEF Shows
<1>6. /\ x.title \in Texts \cup {""} /\ x.text \in Texts /\ x.embeds \in Seq(Embeds)
      /\ \A i \in 1 .. Len(x.embeds) : x.embeds[i].type = "image" => x.image = TRUE
  BY DEF ToldOk
<1>7. /\ f["meta"] \notin {Missing, Torn} /\ MetaOf(f["meta"]).title = x.title
      /\ f["text"] \notin {Missing, Torn} /\ x.embeds \notin {Missing, Torn}
  BY <1>3, <1>6, EntryContents DEF MetaOf
<1>8. Listed(f)
  BY <1>1, <1>7 DEF Listed
<1>9. (JournalReadFile(f) # Missing) = x.image
  <2>1. CASE f["image"] = Missing
    BY <1>5, <2>1 DEF JournalReadFile
  <2>2. CASE f["image"] # Missing
    <3>1. JournalReadFile(f) = f["image"] /\ x.image = TRUE
      BY <1>5, <2>2 DEF JournalReadFile
    <3>. QED BY <2>2, <3>1
  <2>. QED BY <2>1, <2>2
<1>10. (IF f["embeds"] = Missing THEN <<>> ELSE f["embeds"]) = x.embeds
  BY <1>4, <1>7
<1>11. JournalReadEntry(f) = [title |-> x.title, text |-> x.text, embeds |-> x.embeds, image |-> x.image]
  <2>1. PICK i : i = (JournalReadFile(f) # Missing)
    OBVIOUS
  <2>2. JournalReadEntry(f) =
            [title |-> MetaOf(f["meta"]).title, text |-> IF f["text"] \in {Missing, Torn} THEN "" ELSE f["text"],
             embeds |-> IF f["embeds"] = Missing THEN <<>> ELSE f["embeds"], image |-> i]
    BY <2>1 DEF JournalReadEntry
  <2>3. i = x.image
    BY <1>9, <2>1
  <2>. QED BY <1>3, <1>7, <1>10, <2>2, <2>3
<1>12. ASSUME JournalBuildImageMemoriesJson(f) # {} PROVE x.image = TRUE
  <2>1. JournalBuildImageMemoriesJson(f) = {m \in ToSet(ListOf(f["embeds"])) : m.type = "image"}
    BY <1>1 DEF JournalBuildImageMemoriesJson
  <2>2. ListOf(f["embeds"]) = x.embeds
    BY <1>4, <1>7 DEF ListOf
  <2>3. PICK m \in ToSet(x.embeds) : m.type = "image"
    BY <1>12, <2>1, <2>2
  <2>4. \A s \in Seq(Embeds) : DOMAIN s = 1 .. Len(s)
    OBVIOUS
  <2>5. PICK i \in 1 .. Len(x.embeds) : m = x.embeds[i]
    BY <1>6, <2>3, <2>4 DEF ToSet
  <2>. QED BY <1>6, <2>3, <2>5
<1>. QED BY <1>8, <1>11, <1>12

LEMMA EntriesTold ==
    ASSUME IInv, EntryInv
    PROVE  EntriesAsTold
<1>. SUFFICES ASSUME NEW e \in EntryIds, Settled(e)
              PROVE  /\ Listed(FilesOf(e)) <=> told[e] \notin {Unborn, Gone}
                     /\ Listed(FilesOf(e)) =>
                           /\ JournalReadEntry(FilesOf(e)) =
                                 [title |-> told[e].title, text |-> told[e].text,
                                  embeds |-> told[e].embeds, image |-> told[e].image]
                           /\ JournalBuildImageMemoriesJson(FilesOf(e)) # {} => told[e].image
  BY DEF EntriesAsTold
<1>1. Whole(e) /\ \A p \in Ports : work[p].thing # e
  BY SettledOnes DEF Things, IInv
<1>2. EntryLike(FilesOf(e), told[e])
  BY <1>1 DEF EntryInv, EntryKept
<1>3. CASE told[e] \in {Unborn, Gone}
  <2>1. FilesOf(e)["entry"] = Missing /\ Missing # Directory
    BY <1>2, <1>3, EntryContents DEF EntryLike, Names
  <2>2. ~Listed(FilesOf(e))
    BY <2>1, DistinctAssumption DEF Listed
  <2>. QED BY <1>3, <2>2
<1>4. CASE told[e] \notin {Unborn, Gone}
  <2>1. ToldOk(told[e])
    BY <1>4 DEF EntryInv
  <2>2. FilesOf(e)["image"] # Missing => FilesOf(e)["files"] = Directory
    BY FilesAre DEF IInv, JournalInv, Tree, TreeOf, FilesOf, ParentOf, Names
  <2>3. PICK f : f = FilesOf(e)
    OBVIOUS
  <2>4. PICK x : x = told[e]
    OBVIOUS
  <2>5. /\ Listed(f)
        /\ JournalReadEntry(f) = [title |-> x.title, text |-> x.text, embeds |-> x.embeds, image |-> x.image]
        /\ JournalBuildImageMemoriesJson(f) # {} => x.image
    <3>1. ToldOk(x) /\ x \notin {Unborn, Gone} /\ EntryLike(f, x) /\ (f["image"] # Missing => f["files"] = Directory)
      BY <1>2, <1>4, <2>1, <2>2, <2>3, <2>4
    <3>. QED BY <3>1, EntryRead
  <2>. QED BY <1>4, <2>3, <2>4, <2>5
<1>. QED BY <1>3, <1>4

\* With every list of embeds within what is read of one (journal.c:501), each
\* handler of an entry is as far as its files say (journal.c:209, :306, :351, :359,
\* :431, :488).
THEOREM EntryInductive == Spec /\ []FewEmbeds => [](IInv /\ EntryInv)
<1>1. Init => EntryInv
  BY EntryStarts
<1>2. IInv /\ IInv' /\ EntryInv /\ FewEmbeds /\ [Next]_vars => EntryInv'
  <2>. SUFFICES ASSUME IInv, IInv', EntryInv, FewEmbeds, [Next]_vars PROVE EntryInv'
    OBVIOUS
  <2>1. CASE Crash
    BY <2>1, EntryCrashes
  <2>2. CASE \E p \in Ports : Request(p)
    BY <2>2, EntryRequests
  <2>3. CASE \E p \in Ports : Moving(p)
    BY <2>3, EntrySteps2
  <2>4. CASE \E p \in Ports : Answer(p)
    BY <2>4, EntryAnswers
  <2>5. CASE UNCHANGED vars
    BY <2>5, EntryStutters
  <2>6. \A p \in Ports : Step(p) => Moving(p) \/ Answer(p)
    BY DEF Step, Moving
  <2>. QED BY <2>1, <2>2, <2>3, <2>4, <2>5, <2>6 DEF Next
<1>. QED BY <1>1, <1>2, Inductive, PTL DEF Spec

\* What the files hold is what the user was told: the profile, the reminders, the
\* picture and the entries of the journal (user-profile.c:423, reminders.c:157,
\* user-io.c:188, journal.c:288), as long as no entry has more embeds than are
\* read of its list when one is removed (journal.c:501).
THEOREM FilesAreKept == Spec /\ []FewEmbeds => []FilesKeep
<1>1. IInv /\ EntryInv => EntriesAsTold
  BY EntriesTold
<1>2. Spec /\ []FewEmbeds => []EntriesAsTold
  BY <1>1, EntryInductive, PTL
<1>3. TypeOK /\ ProfileAsTold /\ RemindersAsTold /\ PictureAsTold /\ EntriesAsTold /\ RemindersDistinct
        /\ OnboardedForGood => FilesKeep
  BY DEF FilesKeep, KeepsWhatItSaid
<1>. QED BY <1>2, <1>3, FilesTypeOK, PlainFilesAsTold, EachReminderOnce, OnboardedStays, PTL

=============================================================================
