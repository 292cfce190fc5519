----------------------------- MODULE ChatProofs -----------------------------
(* What the chat promises, proved for any number of sessions, turns,        *)
(* questions and crashes: the inductive invariant of Chat and what follows  *)
(* from it.                                                                 *)
EXTENDS Chat, SequenceTheorems, FiniteSetTheorems, WellFoundedInduction, TLAPS

----------------------------------------------------------------------------
\* Events, and lists of them

LEMMA EventIn ==
    ASSUME NEW type \in Types, NEW key \in Keys \cup Things \cup {None},
           NEW value \in Values \cup {None}, NEW n \in Nat
    PROVE  /\ Event(type, key, value, n) \in Events
           /\ Event(type, key, value, n).type = type /\ Event(type, key, value, n).key = key
           /\ Event(type, key, value, n).value = value /\ Event(type, key, value, n).n = n
BY DEF Event, Events

LEMMA PlainIn ==
    ASSUME NEW type \in Types
    PROVE  Plain(type) \in Events /\ Plain(type).type = type
BY DEF Plain, Event, Events

LEMMA AboutIn ==
    ASSUME NEW type \in Types, NEW x \in Things, NEW n \in Nat
    PROVE  /\ About(type, x, n) \in Events /\ About(type, x, n).type = type
           /\ About(type, x, n).key = x /\ About(type, x, n).n = n
BY DEF About, Event, Events

\* Events that tell of no version of a thing, and are not the mark.
Harmless(q) == \A j \in DOMAIN q : q[j].type \notin Versioned /\ q[j].type # Mark

LEMMA None1 == <<>> \in Seq(Events) /\ Harmless(<<>>) /\ ~Has(<<>>, Mark)
BY DEF Harmless, Has

LEMMA One1 ==
    ASSUME NEW e \in Events
    PROVE  /\ <<e>> \in Seq(Events) /\ DOMAIN <<e>> = {1} /\ <<e>>[1] = e
           /\ Tail(<<e>>) = <<>> /\ Head(<<e>>) = e
OBVIOUS

LEMMA HarmlessPlain ==
    ASSUME NEW type \in Types, type \notin Versioned, type # Mark
    PROVE  <<Plain(type)>> \in Seq(Events) /\ Harmless(<<Plain(type)>>)
<1>1. Plain(type) \in Events /\ Plain(type).type = type
  BY PlainIn
<1>. QED
  BY <1>1, One1 DEF Harmless

LEMMA HarmlessTwo ==
    ASSUME NEW q \in Seq(Events), NEW r \in Seq(Events), Harmless(q), Harmless(r)
    PROVE  q \o r \in Seq(Events) /\ Harmless(q \o r)
<1>1. /\ q \o r \in Seq(Events) /\ Len(q \o r) = Len(q) + Len(r)
      /\ \A i \in 1 .. Len(q) + Len(r) :
             (q \o r)[i] = IF i <= Len(q) THEN q[i] ELSE r[i - Len(q)]
  BY ConcatProperties
<1>2. \A i \in DOMAIN (q \o r) :
          \/ i \in DOMAIN q /\ (q \o r)[i] = q[i]
          \/ i - Len(q) \in DOMAIN r /\ (q \o r)[i] = r[i - Len(q)]
  BY <1>1
<1>. QED
  BY <1>1, <1>2 DEF Harmless

LEMMA AppendFacts ==
    ASSUME NEW S, NEW q \in Seq(S), NEW e \in S
    PROVE  /\ Append(q, e) \in Seq(S) /\ Len(Append(q, e)) = Len(q) + 1
           /\ DOMAIN Append(q, e) = DOMAIN q \cup {Len(q) + 1} /\ Len(q) + 1 \notin DOMAIN q
           /\ Append(q, e)[Len(q) + 1] = e
           /\ \A i \in DOMAIN q : Append(q, e)[i] = q[i]
BY AppendProperties

LEMMA TailFacts ==
    ASSUME NEW S, NEW q \in Seq(S), q # <<>>
    PROVE  /\ Head(q) \in S /\ Tail(q) \in Seq(S) /\ 1 \in DOMAIN q /\ Head(q) = q[1]
           /\ \A i \in DOMAIN Tail(q) : i + 1 \in DOMAIN q /\ Tail(q)[i] = q[i + 1]
           /\ \A i \in DOMAIN q : i = 1 \/ (i - 1 \in DOMAIN Tail(q) /\ Tail(q)[i - 1] = q[i])
<1>1. /\ Head(q) \in S /\ Tail(q) \in Seq(S) /\ Len(Tail(q)) = Len(q) - 1
      /\ \A i \in 1 .. Len(Tail(q)) : Tail(q)[i] = q[i + 1]
  BY HeadTailProperties
<1>2. Len(q) \in Nat \ {0} /\ DOMAIN q = 1 .. Len(q) /\ Head(q) = q[1]
  OBVIOUS
<1>3. DOMAIN Tail(q) = 1 .. Len(q) - 1
  BY <1>1
<1>. QED
  BY <1>1, <1>2, <1>3

----------------------------------------------------------------------------
\* The table of sessions

LEMMA First ==
    ASSUME NEW F \in SUBSET Nat, F # {}
    PROVE  \E m \in F : \A x \in F : m <= x
<1>. DEFINE T == {1 .. x : x \in F}
<1>1. \A x \in Nat : 1 .. x \in FiniteSubsetsOf(Nat)
  BY FS_Interval DEF FiniteSubsetsOf
<1>2. T \subseteq FiniteSubsetsOf(Nat) /\ T # {}
  BY <1>1
<1>3. IsWellFoundedOn(StrictSubsetOrdering(Nat), FiniteSubsetsOf(Nat))
  BY FS_StrictSubsetOrderingWellFounded
<1>4. PICK t \in T : \A u \in T : ~(<<u, t>> \in StrictSubsetOrdering(Nat))
  <2>. HIDE DEF T
  <2>. QED
    BY <1>2, <1>3, WFMin
<1>5. PICK m \in F : t = 1 .. m
  BY <1>4
<1>6. ASSUME NEW y \in F, ~(m <= y)
      PROVE  FALSE
  <2>1. 1 .. y \subseteq 1 .. m /\ m \in 1 .. m /\ m \notin 1 .. y
    BY <1>6
  <2>2. <<1 .. y, 1 .. m>> \in (SUBSET Nat) \X (SUBSET Nat)
    OBVIOUS
  <2>3. <<1 .. y, 1 .. m>> \in StrictSubsetOrdering(Nat)
    <3>. DEFINE a == 1 .. y
                b == 1 .. m
    <3>1. a \subseteq b /\ a # b /\ a \in SUBSET Nat /\ b \in SUBSET Nat
      BY <2>1
    <3>. DEFINE p == <<a, b>>
    <3>. HIDE DEF a, b
    <3>2. p \in (SUBSET Nat) \X (SUBSET Nat) /\ p[1] = a /\ p[2] = b
      BY <3>1
    <3>. HIDE DEF p
    <3>3. p \in StrictSubsetOrdering(Nat)
      BY <3>1, <3>2, Zenon DEF StrictSubsetOrdering
    <3>. QED
      BY <3>3 DEF a, b, p
  <2>. QED
    BY <1>4, <1>5, <2>3
<1>. QED
  BY <1>6

LEMMA HistoryOf ==
    ASSUME TypeOK, NEW s \in Sessions
    PROVE  /\ get_session_history(s) \in Histories /\ get_session_history(s).session = s
           /\ \/ \E i \in DOMAIN slots : Of(i, s) /\ get_session_history(s) = slots[i]
              \/ /\ \A i \in DOMAIN slots : ~Of(i, s)
                 /\ get_session_history(s) = load_session_from_disk(s)
<1>1. CASE Held(s) # {}
  <2>1. PICK i \in Held(s) : get_session_history(s) = slots[i]
    BY <1>1 DEF get_session_history
  <2>. QED
    BY <2>1 DEF Held, Of, TypeOK
<1>2. CASE Held(s) = {}
  <2>1. get_session_history(s) = load_session_from_disk(s)
    BY <1>2 DEF get_session_history
  <2>2. load_session_from_disk(s) \in Histories /\ load_session_from_disk(s).session = s
    BY DEF load_session_from_disk, Histories, TypeOK, Has
  <2>. QED
    BY <1>2, <2>1, <2>2 DEF Held, Of
<1>. QED
  BY <1>1, <1>2

LEMMA PlaceIn ==
    ASSUME TypeOK, OnePlaceEach, NEW s \in Sessions
    PROVE  /\ Place(s) \in DOMAIN slots
           /\ \A i \in DOMAIN slots : Of(i, s) => i = Place(s)
<1>. DEFINE free == {i \in DOMAIN slots : slots[i] = Free}
<1>0. DOMAIN slots = 1 .. HISTORY_CAP /\ HISTORY_CAP \in Nat \ {0}
  BY ChatAssumption DEF TypeOK
<1>1. CASE Held(s) # {}
  <2>1. Place(s) \in Held(s)
    BY <1>1 DEF Place
  <2>. QED
    BY <2>1 DEF Held, Of, OnePlaceEach
<1>2. CASE Held(s) = {} /\ free = {}
  <2>1. Place(s) = 1
    BY <1>2 DEF Place
  <2>. QED
    BY <1>0, <1>2, <2>1 DEF Held, Of
<1>3. CASE Held(s) = {} /\ free # {}
  <2>1. Place(s) = CHOOSE i \in free : \A j \in free : i <= j
    BY <1>3 DEF Place
  <2>2. \E i \in free : \A j \in free : i <= j
    BY <1>0, <1>3, First, free \subseteq Nat
  <2>. QED
    BY <1>3, <2>1, <2>2 DEF Held, Of
<1>. QED
  BY <1>1, <1>2, <1>3

\* What keeping a session does: it has its place, and no other place is of it.
Kept(s, h) ==
    \E p \in DOMAIN slots :
        /\ slots' = [slots EXCEPT ![p] = h]
        /\ \A i \in DOMAIN slots : Of(i, s) => i = p

LEMMA KeepIs ==
    ASSUME TypeOK, OnePlaceEach, NEW s \in Sessions, NEW h, Keep(s, h)
    PROVE  Kept(s, h)
BY PlaceIn DEF Keep, Kept

LEMMA KeptTable ==
    ASSUME TypeOK, OnePlaceEach, NEW s \in Sessions, NEW h \in Histories, h.session = s, Kept(s, h)
    PROVE  /\ slots' \in [1 .. HISTORY_CAP -> Histories \cup {Free}]
           /\ OnePlaceEach'
           /\ \A i \in DOMAIN slots' : slots'[i] = h \/ (slots'[i] = slots[i] /\ ~Of(i, s))
           /\ \E i \in DOMAIN slots' : slots'[i] = h /\ slots'[i] # Free
<1>1. PICK p \in DOMAIN slots : /\ slots' = [slots EXCEPT ![p] = h]
                                /\ \A i \in DOMAIN slots : Of(i, s) => i = p
  BY DEF Kept
<1>2. h # Free
  BY FreeAssumption
<1>3. /\ slots' \in [1 .. HISTORY_CAP -> Histories \cup {Free}] /\ DOMAIN slots' = DOMAIN slots
      /\ slots'[p] = h /\ \A i \in DOMAIN slots : i # p => slots'[i] = slots[i] /\ ~Of(i, s)
  BY <1>1 DEF TypeOK
<1>4. OnePlaceEach'
  BY <1>2, <1>3 DEF OnePlaceEach, Of
<1>5. \E i \in DOMAIN slots' : slots'[i] = h /\ slots'[i] # Free
  BY <1>2, <1>3
<1>6. \A i \in DOMAIN slots' : slots'[i] = h \/ (slots'[i] = slots[i] /\ ~Of(i, s))
  BY <1>3
<1>. QED
  BY <1>3, <1>4, <1>5, <1>6

\* What was said in a session is in its place and, as told, in its file when
\* the place is made from it.
LEMMA KeptHistory ==
    ASSUME TypeOK, OnePlaceEach, NothingForgotten, PlaceIsMarked, ~run.writing,
           NEW s \in Sessions, s \notin torn
    PROVE  /\ get_session_history(s).events = log[s]
           /\ Has(log[s], Mark) => get_session_history(s).shown
<1>1. CASE \E i \in DOMAIN slots : Of(i, s) /\ get_session_history(s) = slots[i]
  BY <1>1 DEF Of, NothingForgotten, PlaceIsMarked
<1>2. CASE get_session_history(s) = load_session_from_disk(s)
  <2>1. file[s] = log[s]
    BY DEF NothingForgotten
  <2>. QED
    BY <1>2, <2>1 DEF load_session_from_disk, Mark
<1>. QED
  BY <1>1, <1>2, HistoryOf

LEMMA KeepStands ==
    ASSUME TypeOK, OnePlaceEach, NothingForgotten, PlaceIsMarked, ~run.writing,
           NEW s \in Sessions, NEW h \in Histories, h.session = s, Keep(s, h),
           h.events = get_session_history(s).events, get_session_history(s).shown => h.shown,
           UNCHANGED <<file, log, torn>>
    PROVE  /\ slots' \in [1 .. HISTORY_CAP -> Histories \cup {Free}]
           /\ OnePlaceEach' /\ NothingForgotten' /\ PlaceIsMarked'
           /\ \E i \in DOMAIN slots' : slots'[i] = h /\ slots'[i] # Free
<1>1. /\ slots' \in [1 .. HISTORY_CAP -> Histories \cup {Free}] /\ OnePlaceEach'
      /\ \A i \in DOMAIN slots' : slots'[i] = h \/ (slots'[i] = slots[i] /\ ~Of(i, s))
      /\ \E i \in DOMAIN slots' : slots'[i] = h /\ slots'[i] # Free
  BY KeepIs, KeptTable
<1>2. s \notin torn => h.events = log[s] /\ (Has(log[s], Mark) => h.shown)
  BY KeptHistory
<1>3. DOMAIN slots' = DOMAIN slots
  BY <1>1 DEF TypeOK
<1>4. \A t \in Sessions \ torn' : file'[t] = log'[t]
  BY DEF NothingForgotten
<1>5. ASSUME NEW i \in DOMAIN slots', slots'[i] # Free, slots'[i].session \notin torn'
      PROVE  /\ slots'[i].events = log'[slots'[i].session]
             /\ Has(log'[slots'[i].session], Mark) => slots'[i].shown
  <2>1. CASE slots'[i] = h
    BY <1>2, <1>5, <2>1
  <2>2. CASE slots'[i] = slots[i]
    <3>1. slots[i].events = log[slots[i].session]
      BY <1>3, <1>5, <2>2 DEF NothingForgotten
    <3>2. Has(log[slots[i].session], Mark) => slots[i].shown
      BY <1>3, <1>5, <2>2 DEF PlaceIsMarked
    <3>. QED
      BY <2>2, <3>1, <3>2
  <2>. QED
    BY <1>1, <2>1, <2>2
<1>6. NothingForgotten' /\ PlaceIsMarked'
  BY <1>4, <1>5 DEF NothingForgotten, PlaceIsMarked
<1>. QED
  BY <1>1, <1>6

\* A session that may be reminded was not.
LEMMA NotYetReminded ==
    ASSUME TypeOK, RemindedOnce, RemindedIsMarked, NEW s \in Sessions, s \notin torn,
           ~Has(log[s], Mark)
    PROVE  reminded[s] = 0
BY DEF TypeOK, RemindedOnce, RemindedIsMarked

LEMMA OnceStands ==
    ASSUME RemindedOnce, RemindedIsMarked, UNCHANGED <<log, torn, reminded>>
    PROVE  RemindedOnce' /\ RemindedIsMarked'
BY DEF RemindedOnce, RemindedIsMarked

TableInv == HandlerSound /\ OnePlaceEach /\ NothingForgotten /\ MarksKept

----------------------------------------------------------------------------
\* The steps that keep a session

LEMMA IdleIn == Idle \in Runs /\ Down \in Runs /\ Idle # Down
<1>1. <<>> \in Seq(Actions) /\ <<>> \in Seq(Events) /\ 0 \in 0 .. MAX_RETRIES - 1
  BY ChatAssumption
<1>. QED
  BY <1>1 DEF Idle, Down, Runs, Stages

LEMMA MessageTable ==
    ASSUME TypeOK, TableInv, NEW s \in Chats[topic], NEW m \in Said[topic], Message(s, m)
    PROVE  TypeOK' /\ TableInv'
<1>. DEFINE g == get_session_history(s)
            h == append_session_message(g, m.title)
<1>1. s \in Sessions /\ m \in Messages
  BY ChatAssumption DEF TypeOK
<1>2. g \in Histories /\ g.session = s
  BY <1>1, HistoryOf
<1>3. h \in Histories /\ h.session = s /\ h.events = g.events /\ h.shown = g.shown
  BY <1>1, <1>2 DEF append_session_message, Histories, Messages
<1>4. /\ Keep(s, h) /\ run = Idle /\ ~run.writing
      /\ UNCHANGED <<topic, file, log, streams, tabs, torn, stores, stalled, notes>>
      /\ run' = [Idle EXCEPT !.at = "received", !.session = s, !.msg = m,
                             !.outbox = <<Plain("message_received")>>]
  BY DEF Message, Idle
<1>5. /\ slots' \in [1 .. HISTORY_CAP -> Histories \cup {Free}]
      /\ OnePlaceEach' /\ NothingForgotten' /\ PlaceIsMarked'
  BY <1>1, <1>3, <1>4, KeepStands DEF TableInv, MarksKept
<1>6. /\ <<Plain("message_received")>> \in Seq(Events)
      /\ Harmless(<<Plain("message_received")>>)
  BY HarmlessPlain DEF Types, Versioned, Mark
<1>7. /\ run' \in Runs /\ run'.session = s /\ ~run'.candidate /\ run'.at = "received"
      /\ ~run'.writing /\ ~Has(run'.outbox, Mark)
  BY <1>1, <1>4, <1>6, IdleIn DEF Idle, Runs, Stages, Harmless, Has
<1>8. TypeOK'
  BY <1>4, <1>5, <1>7 DEF TypeOK, stores, notes
<1>9. HandlerSound' /\ MarkComing' /\ MayRemind' /\ Reminding'
  BY <1>1, <1>7 DEF HandlerSound, MarkComing, MayRemind, Reminding
<1>. QED
  BY <1>4, <1>5, <1>8, <1>9, OnceStands DEF TableInv, MarksKept, notes

LEMMA ExportTable ==
    ASSUME TypeOK, TableInv, NEW s \in Chats[topic], ExportSession(s)
    PROVE  TypeOK' /\ TableInv'
<1>. DEFINE g == get_session_history(s)
<1>1. s \in Sessions
  BY ChatAssumption DEF TypeOK
<1>2. g \in Histories /\ g.session = s
  BY <1>1, HistoryOf
<1>4. /\ Keep(s, g) /\ run = Idle /\ prune_dead_sse_clients
      /\ UNCHANGED <<topic, file, log, tabs, torn, stores, stalled, run, notes>>
  BY DEF ExportSession
<1>5. /\ slots' \in [1 .. HISTORY_CAP -> Histories \cup {Free}]
      /\ OnePlaceEach' /\ NothingForgotten' /\ PlaceIsMarked'
  BY <1>1, <1>2, <1>4, KeepStands DEF TableInv, MarksKept, Idle
<1>6. streams' \in [1 .. MAX_SSE_CLIENTS -> Tabs \cup {Free}]
  BY <1>4 DEF TypeOK, prune_dead_sse_clients, Dropped
<1>8. TypeOK'
  BY <1>4, <1>5, <1>6 DEF TypeOK, stores, notes
<1>9. HandlerSound' /\ MarkComing' /\ MayRemind' /\ Reminding'
  BY <1>4 DEF HandlerSound, MarkComing, MayRemind, Reminding, Has, Idle
<1>. QED
  BY <1>4, <1>5, <1>8, <1>9, OnceStands DEF TableInv, MarksKept, notes

LEMMA DismissTable ==
    ASSUME TypeOK, TableInv, Dismiss
    PROVE  TypeOK' /\ TableInv'
<1>. DEFINE s == run.session
            g == get_session_history(s)
            dismissing == g.shown /\ run.msg.dismiss /\ ~g.dismissed
            h == [g EXCEPT !.dismissed = @ \/ dismissing]
            out == IF dismissing THEN <<Plain("stalled_goal_reminder_dismissed")>> ELSE <<>>
<1>1. s \in Sessions /\ ~run.writing /\ run.at = "received"
  BY DEF Dismiss, At, TableInv, HandlerSound
<1>2. g \in Histories /\ g.session = s
  BY <1>1, HistoryOf
<1>3. h \in Histories /\ h.session = s /\ h.events = g.events /\ h.shown = g.shown
  BY <1>1, <1>2 DEF Histories
<1>4. /\ Keep(s, h) /\ run' = To("asking", out)
      /\ UNCHANGED <<topic, file, log, streams, tabs, torn, stores, stalled, notes>>
  BY DEF Dismiss
<1>5. /\ slots' \in [1 .. HISTORY_CAP -> Histories \cup {Free}]
      /\ OnePlaceEach' /\ NothingForgotten' /\ PlaceIsMarked'
  BY <1>1, <1>3, <1>4, KeepStands DEF TableInv, MarksKept
<1>6. out \in Seq(Events) /\ Harmless(out)
  BY HarmlessPlain, None1 DEF Types, Versioned, Mark
<1>7. /\ run' \in Runs /\ run'.session = s /\ run'.at = "asking"
      /\ ~run'.writing /\ ~Has(run'.outbox, Mark)
  <2>. HIDE DEF out
  <2>. QED
    BY <1>1, <1>4, <1>6 DEF To, TypeOK, Runs, Stages, Harmless, Has
<1>8. TypeOK'
  BY <1>4, <1>5, <1>7 DEF TypeOK, stores, notes
<1>9. HandlerSound' /\ MarkComing' /\ MayRemind' /\ Reminding'
  BY <1>1, <1>7 DEF HandlerSound, MarkComing, MayRemind, Reminding
<1>. QED
  BY <1>4, <1>5, <1>8, <1>9, OnceStands DEF TableInv, MarksKept, notes

LEMMA AskTable ==
    ASSUME TypeOK, TableInv, NEW answer \in Answers[topic], Ask(answer)
    PROVE  TypeOK' /\ TableInv'
<1>. DEFINE s == run.session
            g == get_session_history(s)
            may == fill_stalled_goal_reminder_candidate(g, run.msg)
            todo == IF answer = Garbage THEN <<>> ELSE answer
            stage == IF answer = Garbage THEN "failed" ELSE "acting"
<1>1. s \in Sessions /\ ~run.writing /\ run.outbox = <<>> /\ run.at = "asking"
  BY DEF Ask, At, TableInv, HandlerSound
<1>2. g \in Histories /\ g.session = s
  BY <1>1, HistoryOf
<1>4. /\ Keep(s, g)
      /\ run' = [run EXCEPT !.candidate = may, !.at = stage, !.todo = todo]
      /\ UNCHANGED <<topic, file, log, streams, tabs, torn, stores, stalled, notes>>
  BY DEF Ask
<1>5. /\ slots' \in [1 .. HISTORY_CAP -> Histories \cup {Free}]
      /\ OnePlaceEach' /\ NothingForgotten' /\ PlaceIsMarked'
      /\ \E i \in DOMAIN slots' : slots'[i] = g /\ slots'[i] # Free
  BY <1>1, <1>2, <1>4, KeepStands DEF TableInv, MarksKept
<1>6. todo \in Seq(Actions) /\ stage \in {"failed", "acting"}
  <2>1. Answers[topic] \subseteq Seq(Actions) \cup {Garbage}
    BY ChatAssumption DEF TypeOK
  <2>. QED
    BY <2>1
<1>7. may \in BOOLEAN /\ (may => ~g.shown)
  BY DEF fill_stalled_goal_reminder_candidate
<1>8. /\ run' \in Runs /\ run'.session = s /\ run'.at = stage /\ run'.candidate = may
      /\ ~run'.writing /\ run'.outbox = <<>>
  <2>. HIDE DEF may, todo, stage
  <2>. QED
    BY <1>1, <1>4, <1>6, <1>7 DEF TypeOK, Runs, Stages
<1>9. TypeOK'
  BY <1>4, <1>5, <1>8 DEF TypeOK, stores, notes
<1>10. HandlerSound' /\ MarkComing' /\ Reminding'
  BY <1>1, <1>6, <1>8 DEF HandlerSound, MarkComing, Reminding, Has
<1>11. MayRemind'
  BY <1>2, <1>5, <1>7, <1>8 DEF MayRemind, Of
<1>. QED
  BY <1>4, <1>5, <1>9, <1>10, <1>11, OnceStands DEF TableInv, MarksKept, notes

LEMMA RemindTable ==
    ASSUME TypeOK, TableInv, Remind
    PROVE  TypeOK' /\ TableInv'
<1>. DEFINE s == run.session
            g == get_session_history(s)
            h == [g EXCEPT !.shown = @ \/ run.candidate]
            out == IF run.candidate /\ ~g.shown THEN <<Plain(Mark)>> ELSE <<>>
<1>1. s \in Sessions /\ ~run.writing /\ run.outbox = <<>> /\ run.at = "acting"
  BY DEF Remind, At, TableInv, HandlerSound
<1>2. g \in Histories /\ g.session = s
  BY <1>1, HistoryOf
<1>3. /\ h \in Histories /\ h.session = s /\ h.events = g.events
      /\ (g.shown => h.shown) /\ (run.candidate => h.shown)
  BY <1>1, <1>2 DEF Histories, TypeOK, Runs
<1>4. /\ Keep(s, h) /\ run' = To("closing", out)
      /\ UNCHANGED <<topic, file, log, streams, tabs, torn, stores, stalled, notes>>
  BY DEF Remind, Mark
<1>5. /\ slots' \in [1 .. HISTORY_CAP -> Histories \cup {Free}]
      /\ OnePlaceEach' /\ NothingForgotten' /\ PlaceIsMarked'
      /\ \E i \in DOMAIN slots' : slots'[i] = h /\ slots'[i] # Free
  BY <1>1, <1>3, <1>4, KeepStands DEF TableInv, MarksKept
<1>6. out \in Seq(Events) /\ (Has(out, Mark) <=> run.candidate /\ ~g.shown)
  <2>1. /\ <<Plain(Mark)>> \in Seq(Events) /\ DOMAIN <<Plain(Mark)>> = {1}
        /\ <<Plain(Mark)>>[1].type = Mark
    BY PlainIn, One1 DEF Types, Mark
  <2>. QED
    BY <2>1 DEF Has
<1>7. run.candidate => ~g.shown
  <2>. SUFFICES ASSUME run.candidate
                PROVE  ~g.shown
    OBVIOUS
  <2>1. PICK i \in DOMAIN slots : Of(i, s) /\ ~slots[i].shown
    BY <1>1 DEF TableInv, MarksKept, MayRemind
  <2>2. PICK j \in DOMAIN slots : Of(j, s) /\ g = slots[j]
    BY <1>1, <2>1, HistoryOf
  <2>3. i = j
    BY <2>1, <2>2 DEF TableInv, OnePlaceEach, Of
  <2>. QED
    BY <2>1, <2>2, <2>3
<1>8. /\ run' \in Runs /\ run'.session = s /\ run'.at = "closing" /\ run'.outbox = out
      /\ ~run'.writing /\ run'.candidate = run.candidate
  <2>. HIDE DEF out
  <2>. QED
    BY <1>1, <1>4, <1>6 DEF To, TypeOK, Runs, Stages
<1>9. TypeOK'
  BY <1>4, <1>5, <1>8 DEF TypeOK, stores, notes
<1>10. HandlerSound' /\ MayRemind'
  BY <1>1, <1>8 DEF HandlerSound, MayRemind
<1>11. MarkComing'
  <2>. HIDE DEF out, h
  <2>. QED
    BY <1>3, <1>5, <1>6, <1>8 DEF MarkComing, Of
<1>12. Reminding'
  <2>. SUFFICES ASSUME run.candidate, s \notin torn
                PROVE  reminded[s] = 0 /\ Has(out, Mark)
    BY <1>4, <1>8 DEF Reminding, notes
  <2>1. ~Has(log[s], Mark)
    BY <1>1, <1>7, KeptHistory DEF TableInv, MarksKept
  <2>. QED
    BY <1>1, <1>6, <1>7, <2>1, NotYetReminded DEF TableInv, MarksKept
<1>. QED
  BY <1>4, <1>5, <1>9, <1>10, <1>11, <1>12, OnceStands DEF TableInv, MarksKept, notes

LEMMA CloseTable ==
    ASSUME TypeOK, TableInv, Close
    PROVE  TypeOK' /\ TableInv'
<1>. DEFINE s == run.session
            g == get_session_history(s)
<1>1. /\ s \in Sessions /\ ~run.writing /\ run.outbox = <<>> /\ run.at = "closing"
      /\ run \in Runs
  BY DEF Close, At, TableInv, HandlerSound, TypeOK
<1>2. g \in Histories /\ g.session = s
  BY <1>1, HistoryOf
<1>3. PICK titled \in {FALSE, run.candidate} : Keep(s, append_session_message(g, titled))
  BY DEF Close
<1>. DEFINE h == append_session_message(g, titled)
<1>4. h \in Histories /\ h.session = s /\ h.events = g.events /\ h.shown = g.shown
  BY <1>1, <1>2, <1>3 DEF Histories, append_session_message, Runs
<1>5. PICK more \in {<<>>, <<Plain("suggested_replies")>>} :
          run' = To("saving", <<Plain("assistant_message")>> \o more)
  BY DEF Close
<1>. DEFINE out == <<Plain("assistant_message")>> \o more
<1>6. /\ reminded' = [reminded EXCEPT ![s] = IF run.candidate THEN @ + 1 ELSE @]
      /\ UNCHANGED <<topic, file, log, streams, tabs, torn, stores, stalled, answered, lost>>
  BY DEF Close
<1>7. /\ slots' \in [1 .. HISTORY_CAP -> Histories \cup {Free}]
      /\ OnePlaceEach' /\ NothingForgotten' /\ PlaceIsMarked'
  BY <1>1, <1>3, <1>4, <1>6, KeepStands DEF TableInv, MarksKept
<1>8. out \in Seq(Events) /\ Harmless(out)
  <2>1. /\ <<Plain("assistant_message")>> \in Seq(Events) /\ Harmless(<<Plain("assistant_message")>>)
        /\ <<Plain("suggested_replies")>> \in Seq(Events) /\ Harmless(<<Plain("suggested_replies")>>)
    BY HarmlessPlain DEF Types, Versioned, Mark
  <2>. QED
    BY <2>1, None1, HarmlessTwo
<1>9. /\ run' \in Runs /\ run'.session = s /\ run'.at = "saving" /\ run'.outbox = out
      /\ ~run'.writing
  <2>. HIDE DEF out
  <2>. QED
    BY <1>1, <1>5, <1>8 DEF To, TypeOK, Runs, Stages, out
<1>10. TypeOK'
  <2>1. reminded' \in [Sessions -> Nat]
    BY <1>1, <1>6 DEF TypeOK
  <2>. QED
    BY <1>6, <1>7, <1>9, <2>1 DEF TypeOK, stores
<1>11. HandlerSound' /\ MayRemind' /\ MarkComing' /\ Reminding'
  BY <1>1, <1>8, <1>9 DEF HandlerSound, MayRemind, MarkComing, Reminding, Has, Harmless
<1>12. RemindedOnce' /\ RemindedIsMarked'
  <2>1. run.candidate /\ s \notin torn => reminded[s] = 0 /\ Has(log[s], Mark)
    BY <1>1 DEF TableInv, MarksKept, Reminding, Has
  <2>2. \A t \in Sessions : reminded'[t] = IF t = s /\ run.candidate THEN reminded[t] + 1 ELSE reminded[t]
    BY <1>6 DEF TypeOK
  <2>. QED
    BY <1>6, <2>1, <2>2 DEF TableInv, MarksKept, RemindedOnce, RemindedIsMarked
<1>. QED
  BY <1>7, <1>10, <1>11, <1>12 DEF TableInv, MarksKept

----------------------------------------------------------------------------
\* An event goes out

LEMMA HasAppend ==
    ASSUME NEW q \in Seq(Events), NEW e \in Events, NEW type
    PROVE  Has(Append(q, e), type) <=> Has(q, type) \/ e.type = type
BY AppendFacts DEF Has

\* The place that a session has is the one it is read from.
LEMMA PlaceRead ==
    ASSUME TypeOK, OnePlaceEach, NEW s \in Sessions, NEW i \in DOMAIN slots, Of(i, s)
    PROVE  get_session_history(s) = slots[i]
<1>1. PICK j \in DOMAIN slots : Of(j, s) /\ get_session_history(s) = slots[j]
  BY HistoryOf
<1>2. i = j
  BY <1>1 DEF OnePlaceEach, Of
<1>. QED
  BY <1>1, <1>2

LEMMA EmitTypes ==
    ASSUME TypeOK, NEW s \in Sessions, NEW e, server_emit_event(s, e)
    PROVE  /\ streams' \in [1 .. MAX_SSE_CLIENTS -> Tabs \cup {Free}]
           /\ tabs' \in [Tabs -> Views]
<1>1. streams' \in [1 .. MAX_SSE_CLIENTS -> Tabs \cup {Free}]
  BY DEF server_emit_event, Dropped, TypeOK
<1>2. Sent(s) \in [session : Sessions, at : Nat]
  BY DEF Sent, TypeOK
<1>3. \A t \in Tabs : tabs[t] \in Views /\ [tabs[t] EXCEPT !.heard = Append(@, Sent(s))] \in Views
  <2>. TAKE t \in Tabs
  <2>1. tabs[t] \in Views
    BY DEF TypeOK
  <2>2. Append(tabs[t].heard, Sent(s)) \in Seq([session : Sessions, at : Nat])
    BY <1>2, <2>1, AppendFacts DEF Views
  <2>. QED
    BY <2>1, <2>2 DEF Views
<1>. QED
  BY <1>1, <1>3 DEF server_emit_event

LEMMA SayIs ==
    ASSUME TypeOK, TableInv, Say
    PROVE  /\ run.session \in Sessions /\ Head(run.outbox) \in Events /\ ~run.writing
           /\ run.outbox # <<>> /\ 1 \in DOMAIN run.outbox /\ Head(run.outbox) = run.outbox[1]
           /\ server_emit_event(run.session, Head(run.outbox))
           /\ Keep(run.session, [get_session_history(run.session) EXCEPT
                                    !.events = Append(@, Head(run.outbox))])
           /\ file' = [file EXCEPT ![run.session] = <<>>]
           /\ log' = [log EXCEPT ![run.session] = Append(@, Head(run.outbox))]
           /\ run' = [run EXCEPT !.writing = TRUE]
           /\ UNCHANGED <<topic, torn, stores, stalled, notes, bounds>>
<1>1. run.outbox # <<>> /\ ~run.writing
  BY DEF Say
<1>2. run.outbox \in Seq(Events)
  BY DEF TypeOK, Runs
<1>3. run.session \in Sessions
  BY <1>1 DEF TableInv, HandlerSound, Idle, Down
<1>. QED
  BY <1>1, <1>2, <1>3, TailFacts DEF Say, record_session_event

LEMMA SayTable ==
    ASSUME TypeOK, TableInv, Say
    PROVE  TypeOK' /\ TableInv'
<1>0. PICK s \in Sessions, e \in Events : s = run.session /\ e = Head(run.outbox)
  BY SayIs
<1>1. PICK g \in Histories : g = get_session_history(s) /\ g.session = s
  BY HistoryOf
<1>2. PICK h \in Histories : /\ h = [g EXCEPT !.events = Append(@, e)]
                             /\ h.session = s /\ h.events = Append(g.events, e) /\ h.shown = g.shown
  <2>1. g.events \in Seq(Events)
    BY <1>1 DEF Histories
  <2>2. PICK q \in Seq(Events) : q = Append(g.events, e)
    BY <2>1, AppendFacts
  <2>3. [g EXCEPT !.events = Append(@, e)] = [g EXCEPT !.events = q]
    BY <2>2
  <2>4. [g EXCEPT !.events = q] \in Histories
    BY DEF Histories
  <2>. QED
    BY <1>1, <2>2, <2>3, <2>4 DEF Histories
<1>3. /\ ~run.writing /\ run.outbox # <<>> /\ 1 \in DOMAIN run.outbox /\ run.outbox[1] = e
      /\ server_emit_event(s, e) /\ Keep(s, h)
      /\ file' = [file EXCEPT ![s] = <<>>] /\ log' = [log EXCEPT ![s] = Append(@, e)]
      /\ run' = [run EXCEPT !.writing = TRUE]
      /\ UNCHANGED <<topic, torn, stores, stalled, notes>>
  BY <1>0, <1>1, <1>2, SayIs
<1>4. /\ slots' \in [1 .. HISTORY_CAP -> Histories \cup {Free}] /\ OnePlaceEach'
      /\ \A i \in DOMAIN slots' : slots'[i] = h \/ (slots'[i] = slots[i] /\ ~Of(i, s))
      /\ \E i \in DOMAIN slots' : slots'[i] = h /\ slots'[i] # Free
  <2>1. OnePlaceEach /\ Keep(s, h) /\ h.session = s
    BY <1>2, <1>3 DEF TableInv
  <2>. QED
    BY <2>1, KeepIs, KeptTable
<1>5. /\ run' \in Runs /\ run'.writing /\ run'.session = s /\ run'.at = run.at
      /\ run'.outbox = run.outbox /\ run'.candidate = run.candidate /\ run'.todo = run.todo
  BY <1>0, <1>3 DEF TypeOK, Runs
<1>6. /\ file' \in [Sessions -> Seq(Events)] /\ log' \in [Sessions -> Seq(Events)]
      /\ \A t \in Sessions : t # s => file'[t] = file[t] /\ log'[t] = log[t]
      /\ log[s] \in Seq(Events) /\ log'[s] = Append(log[s], e)
  <2>1. log[s] \in Seq(Events) /\ Append(log[s], e) \in Seq(Events) /\ <<>> \in Seq(Events)
    BY AppendFacts DEF TypeOK
  <2>. QED
    BY <1>3, <2>1 DEF TypeOK
<1>7. TypeOK'
  <2>1. tabs' \in [Tabs -> Views] /\ streams' \in [1 .. MAX_SSE_CLIENTS -> Tabs \cup {Free}]
    BY <1>3, EmitTypes
  <2>. QED
    BY <1>3, <1>4, <1>5, <1>6, <2>1 DEF TypeOK, stores, notes
<1>8. HandlerSound'
  <2>1. run.at \notin {"idle", "down"} /\ (run.at = "repaired" => run.todo # <<>>)
    BY <1>3 DEF TableInv, HandlerSound, Idle, Down
  <2>2. Len(log[s]) + 1 \in DOMAIN log'[s] /\ log'[s][Len(log[s]) + 1] = Head(run.outbox)
    BY <1>0, <1>6, AppendFacts
  <2>3. run'.at \notin {"idle", "down"} /\ run'.session \in Sessions
        /\ (run'.at = "repaired" => run'.todo # <<>>)
    BY <1>5, <2>1
  <2>4. \E i \in DOMAIN slots' : slots'[i] # Free /\ slots'[i].session = run'.session
    BY <1>2, <1>4, <1>5
  <2>5. \E i \in DOMAIN log'[run'.session] : log'[run'.session][i] = Head(run'.outbox)
    BY <1>5, <2>2
  <2>6. run'.outbox # <<>>
    BY <1>3, <1>5
  <2>. QED
    BY <2>3, <2>4, <2>5, <2>6, Zenon DEF HandlerSound, Of
<1>9. /\ s \notin torn => g.events = log[s] /\ (Has(log[s], Mark) => g.shown)
  BY <1>1, <1>3, KeptHistory DEF TableInv, MarksKept
<1>10. DOMAIN slots' = DOMAIN slots
  BY <1>4 DEF TypeOK
<1>11. NothingForgotten'
  <2>1. ASSUME NEW i \in DOMAIN slots', slots'[i] # Free, slots'[i].session \notin torn'
        PROVE  slots'[i].events = log'[slots'[i].session]
    <3>1. CASE slots'[i] = h
      BY <1>2, <1>3, <1>6, <1>9, <2>1, <3>1
    <3>2. CASE slots'[i] = slots[i] /\ ~Of(i, s)
      <4>1. slots[i] \in Histories /\ slots[i].session \in Sessions \ {s}
        BY <1>4, <1>10, <2>1, <3>2 DEF TypeOK, Of, Histories
      <4>2. slots[i].events = log[slots[i].session]
        BY <1>3, <1>10, <2>1, <3>2 DEF TableInv, NothingForgotten
      <4>. QED
        BY <1>6, <3>2, <4>1, <4>2
    <3>. QED
      BY <1>4, <3>1, <3>2
  <2>2. \A t \in Sessions \ torn' : t # s => file'[t] = log'[t]
    BY <1>3, <1>6 DEF TableInv, NothingForgotten
  <2>. QED
    BY <1>5, <2>1, <2>2 DEF NothingForgotten
<1>12. e.type = Mark => g.shown
  <2>. SUFFICES ASSUME e.type = Mark
                PROVE  g.shown
    OBVIOUS
  <2>1. Has(run.outbox, Mark)
    BY <1>3 DEF Has
  <2>2. PICK i \in DOMAIN slots : Of(i, s) /\ slots[i].shown
    BY <1>0, <2>1 DEF TableInv, MarksKept, MarkComing
  <2>. QED
    BY <1>1, <2>2, PlaceRead DEF TableInv
<1>13. PlaceIsMarked'
  <2>1. ASSUME NEW i \in DOMAIN slots', slots'[i] # Free, slots'[i].session \notin torn',
               Has(log'[slots'[i].session], Mark)
        PROVE  slots'[i].shown
    <3>1. CASE slots'[i] = h
      <4>1. Has(log[s], Mark) \/ e.type = Mark
        <5>1. Has(Append(log[s], e), Mark)
          BY <1>2, <1>6, <2>1, <3>1
        <5>. QED
          BY <1>6, <5>1, HasAppend
      <4>. QED
        BY <1>2, <1>3, <1>9, <1>12, <2>1, <3>1, <4>1
    <3>2. CASE slots'[i] = slots[i] /\ ~Of(i, s)
      <4>1. slots[i] \in Histories /\ slots[i].session \in Sessions \ {s}
        BY <1>4, <1>10, <2>1, <3>2 DEF TypeOK, Of, Histories
      <4>2. Has(log[slots[i].session], Mark)
        BY <1>6, <2>1, <3>2, <4>1
      <4>. QED
        BY <1>3, <1>10, <2>1, <3>2, <4>2 DEF TableInv, MarksKept, PlaceIsMarked
    <3>. QED
      BY <1>4, <3>1, <3>2
  <2>. QED
    BY <2>1 DEF PlaceIsMarked
<1>14. MarkComing'
  <2>. SUFFICES ASSUME Has(run'.outbox, Mark)
                PROVE  h.shown
    BY <1>2, <1>4, <1>5 DEF MarkComing, Of
  <2>2. PICK i \in DOMAIN slots : Of(i, s) /\ slots[i].shown
    BY <1>0, <1>5 DEF TableInv, MarksKept, MarkComing
  <2>. QED
    BY <1>1, <1>2, <2>2, PlaceRead DEF TableInv
<1>15. MayRemind'
  <2>. SUFFICES ASSUME run.candidate, run.at \in {"acting", "repaired", "failed", "retrying"}
                PROVE  ~h.shown
    BY <1>2, <1>4, <1>5 DEF MayRemind, Of
  <2>2. PICK i \in DOMAIN slots : Of(i, s) /\ ~slots[i].shown
    BY <1>0 DEF TableInv, MarksKept, MayRemind
  <2>. QED
    BY <1>1, <1>2, <2>2, PlaceRead DEF TableInv
<1>16. \A t \in Sessions : Has(log[t], Mark) => Has(log'[t], Mark)
  <2>1. Has(log[s], Mark) => Has(log'[s], Mark)
    BY <1>6, HasAppend
  <2>. QED
    BY <1>6, <2>1
<1>17. Reminding'
  BY <1>0, <1>3, <1>5, <1>16 DEF Reminding, TableInv, MarksKept, notes
<1>18. RemindedOnce' /\ RemindedIsMarked'
  BY <1>3, <1>16 DEF RemindedOnce, RemindedIsMarked, TableInv, MarksKept, notes
<1>. QED
  BY <1>4, <1>7, <1>8, <1>11, <1>13, <1>14, <1>15, <1>17, <1>18 DEF TableInv, MarksKept

LEMMA WriteTable ==
    ASSUME TypeOK, TableInv, Write
    PROVE  TypeOK' /\ TableInv'
<1>0. /\ run.writing /\ run.outbox # <<>> /\ run.at \notin {"idle", "down"} /\ run.session \in Sessions
      /\ \E i \in DOMAIN slots : Of(i, run.session)
  BY DEF Write, TableInv, HandlerSound, Idle, Down
<1>1. PICK s \in Sessions : s = run.session
  BY <1>0
<1>2. PICK i \in DOMAIN slots : Of(i, s)
  BY <1>0, <1>1
<1>3. PICK q \in Seq(Events) : q = slots[i].events
  BY <1>2 DEF TypeOK, Of, Histories
<1>4. /\ file' = [file EXCEPT ![s] = q]
      /\ run' = [run EXCEPT !.writing = FALSE, !.outbox = Tail(@)]
      /\ UNCHANGED <<topic, slots, log, streams, tabs, torn, stores, stalled, notes>>
  <2>1. get_session_history(s) = slots[i]
    BY <1>2, PlaceRead DEF TableInv
  <2>. QED
    BY <1>1, <1>3, <2>1 DEF Write, persist_session
<1>5. /\ Tail(run.outbox) \in Seq(Events)
      /\ Has(Tail(run.outbox), Mark) => Has(run.outbox, Mark)
  <2>1. run.outbox \in Seq(Events)
    BY DEF TypeOK, Runs
  <2>2. /\ Tail(run.outbox) \in Seq(Events)
        /\ \A j \in DOMAIN Tail(run.outbox) : j + 1 \in DOMAIN run.outbox
                                             /\ Tail(run.outbox)[j] = run.outbox[j + 1]
    BY <1>0, <2>1, TailFacts
  <2>. QED
    BY <2>2 DEF Has
<1>6. /\ run' \in Runs /\ ~run'.writing /\ run'.session = s /\ run'.at = run.at
      /\ run'.outbox = Tail(run.outbox) /\ run'.candidate = run.candidate
      /\ run'.todo = run.todo
  BY <1>1, <1>4, <1>5 DEF TypeOK, Runs
<1>7. file' \in [Sessions -> Seq(Events)] /\ \A t \in Sessions : file'[t] = IF t = s THEN q ELSE file[t]
  BY <1>4 DEF TypeOK
<1>8. TypeOK'
  BY <1>4, <1>6, <1>7 DEF TypeOK, stores, notes
<1>9. HandlerSound' /\ OnePlaceEach'
  BY <1>0, <1>1, <1>4, <1>6 DEF HandlerSound, OnePlaceEach, TableInv
<1>10. NothingForgotten'
  <2>1. s \notin torn => q = log[s]
    BY <1>2, <1>3 DEF TableInv, NothingForgotten, Of
  <2>2. \A t \in Sessions \ torn : t # s => file[t] = log[t]
    BY <1>1 DEF TableInv, NothingForgotten
  <2>. QED
    BY <1>4, <1>7, <2>1, <2>2 DEF TableInv, NothingForgotten
<1>11. PlaceIsMarked' /\ MayRemind'
  BY <1>1, <1>4, <1>6 DEF TableInv, MarksKept, PlaceIsMarked, MayRemind, Of
<1>12. MarkComing'
  BY <1>1, <1>4, <1>5, <1>6 DEF TableInv, MarksKept, MarkComing, Of
<1>14. ASSUME run.candidate, run.at = "closing", s \notin torn
       PROVE  reminded[s] = 0 /\ (Has(log[s], Mark) \/ Has(Tail(run.outbox), Mark))
  <2>1. reminded[s] = 0 /\ (Has(log[s], Mark) \/ Has(run.outbox, Mark))
    BY <1>1, <1>14 DEF TableInv, MarksKept, Reminding
  <2>2. CASE Has(run.outbox, Mark) /\ ~Has(Tail(run.outbox), Mark)
    <3>1. Head(run.outbox).type = Mark
      <4>1. run.outbox \in Seq(Events)
        BY DEF TypeOK, Runs
      <4>2. \A j \in DOMAIN run.outbox :
                j = 1 \/ (j - 1 \in DOMAIN Tail(run.outbox) /\ Tail(run.outbox)[j - 1] = run.outbox[j])
        BY <1>0, <4>1, TailFacts
      <4>3. Head(run.outbox) = run.outbox[1]
        BY <1>0, <4>1, TailFacts
      <4>. QED
        BY <2>2, <4>2, <4>3 DEF Has
    <3>2. PICK j \in DOMAIN log[s] : log[s][j] = Head(run.outbox)
      BY <1>0, <1>1 DEF TableInv, HandlerSound
    <3>. QED
      BY <2>1, <3>1, <3>2 DEF Has
  <2>. QED
    BY <2>1, <2>2
<1>15. Reminding'
  BY <1>1, <1>4, <1>6, <1>14 DEF Reminding, notes
<1>. QED
  BY <1>4, <1>8, <1>9, <1>10, <1>11, <1>12, <1>15, OnceStands DEF TableInv, MarksKept, notes

----------------------------------------------------------------------------
\* The process ends

\* A tab that is closed, or was refused.
LEMMA ViewIn ==
    ASSUME NEW v \in Views
    PROVE  /\ [v EXCEPT !.open = FALSE] \in Views
           /\ [v EXCEPT !.opened = v.opened + 1] \in Views
<1>. DEFINE n == v.opened + 1
<1>1. n \in Nat
  <2>1. v.opened \in Nat
    BY DEF Views
  <2>. QED
    BY <2>1
<1>. HIDE DEF n
<1>2. [v EXCEPT !.open = FALSE] \in Views
  BY DEF Views
<1>3. [v EXCEPT !.opened = n] \in Views
  BY <1>1 DEF Views
<1>. QED
  BY <1>2, <1>3 DEF n

LEMMA FallTable ==
    ASSUME TypeOK, TableInv, Fall
    PROVE  TypeOK' /\ TableInv'
<1>1. /\ run' = Down /\ slots' = [i \in DOMAIN slots |-> Free]
      /\ torn' = IF run.writing THEN torn \cup {run.session} ELSE torn
      /\ UNCHANGED <<topic, file, asked, profile, reminders, saved, stalled, log, answered, reminded>>
  BY DEF Fall
<1>2. Down.at = "down" /\ ~Down.writing /\ Down.outbox = <<>> /\ ~Down.candidate /\ Down \in Runs
  BY IdleIn DEF Down, Idle
<1>3. run.writing => run.session \in Sessions
  BY DEF TableInv, HandlerSound, Idle, Down
<1>4. slots' \in [1 .. HISTORY_CAP -> Histories \cup {Free}] /\ \A i \in DOMAIN slots' : slots'[i] = Free
  BY <1>1 DEF TypeOK
<1>5. pending' \in [{"profile", "reminder"} -> [1 .. MAX_PENDING -> Permissions \cup {Free}]]
  BY DEF Fall, TypeOK
<1>6. tabs' \in [Tabs -> Views] /\ streams' \in [1 .. MAX_SSE_CLIENTS -> Tabs \cup {Free}]
  <2>1. \A t \in Tabs : [tabs[t] EXCEPT !.open = FALSE] \in Views
    BY ViewIn DEF TypeOK
  <2>. QED
    BY <2>1 DEF Fall, TypeOK
<1>7. torn' \subseteq Sessions /\ torn \subseteq torn' /\ lost' \subseteq Things /\ memory' = saved
  BY <1>1, <1>3 DEF Fall, TypeOK
<1>8. TypeOK'
  BY <1>1, <1>2, <1>4, <1>5, <1>6, <1>7 DEF TypeOK
<1>9. HandlerSound' /\ OnePlaceEach' /\ MarkComing' /\ MayRemind' /\ Reminding'
  BY <1>1, <1>2, <1>4 DEF HandlerSound, OnePlaceEach, MarkComing, MayRemind, Reminding, Has, Idle, Down
<1>10. NothingForgotten'
  BY <1>1, <1>2, <1>4, <1>7 DEF TableInv, NothingForgotten
<1>11. PlaceIsMarked' /\ RemindedOnce' /\ RemindedIsMarked'
  BY <1>1, <1>4, <1>7 DEF TableInv, MarksKept, PlaceIsMarked, RemindedOnce, RemindedIsMarked
<1>. QED
  BY <1>8, <1>9, <1>10, <1>11 DEF TableInv, MarksKept

----------------------------------------------------------------------------
\* The steps of a turn that keep no session

Working == {"acting", "repaired", "failed", "retrying"}

\* The handler goes on with its turn and has the events q to emit.
GoesOn(q) ==
    /\ run.outbox = <<>> /\ ~run.writing /\ run.at \in Working
    /\ run' \in Runs /\ run'.session = run.session /\ ~run'.writing /\ run'.outbox = q
    /\ \/ run'.at \in Working /\ run'.candidate = run.candidate
       \/ run'.at = "asking" /\ ~run'.candidate
    /\ run'.at = "repaired" => run'.todo # <<>>

StoresTyped ==
    /\ pending' \in [{"profile", "reminder"} -> [1 .. MAX_PENDING -> Permissions \cup {Free}]]
    /\ asked' \in Nat /\ asked <= asked'
    /\ profile' \in [Keys -> Values \cup {None}] /\ reminders' \subseteq Values
    /\ memory' \in [Things -> Nat] /\ saved' \in [Things -> Nat]

LEMMA GoesOnTable ==
    ASSUME TypeOK, TableInv, NEW q, GoesOn(q), ~Has(q, Mark), StoresTyped,
           UNCHANGED <<topic, tables, stalled, notes>>
    PROVE  TypeOK' /\ TableInv'
<1>1. run.session \in Sessions
  BY DEF GoesOn, Working, TableInv, HandlerSound
<1>2. DOMAIN answered \subseteq 1 .. asked'
  BY DEF TypeOK, StoresTyped
<1>3. TypeOK'
  BY <1>2 DEF TypeOK, StoresTyped, GoesOn, tables, notes
<1>4. HandlerSound'
  BY <1>1 DEF HandlerSound, GoesOn, Working
<1>5. OnePlaceEach' /\ NothingForgotten' /\ PlaceIsMarked' /\ RemindedOnce' /\ RemindedIsMarked'
  BY DEF TableInv, MarksKept, OnePlaceEach, NothingForgotten, PlaceIsMarked, RemindedOnce,
         RemindedIsMarked, tables, notes, GoesOn
<1>6. MarkComing' /\ Reminding'
  BY DEF MarkComing, Reminding, GoesOn, Working
<1>7. MayRemind'
  BY DEF TableInv, MarksKept, MayRemind, GoesOn, Working, tables, Of
<1>. QED
  BY <1>3, <1>4, <1>5, <1>6, <1>7 DEF TableInv, MarksKept

LEMMA NothingDone == TypeOK /\ UNCHANGED stores => StoresTyped
BY DEF TypeOK, stores, StoresTyped

LEMMA DidGoesOn ==
    ASSUME TypeOK, At("acting"), run.todo # <<>>, NEW q \in Seq(Events), Did(q) \/ Failed(q)
    PROVE  GoesOn(q) /\ act \in Actions
<1>1. run \in Runs /\ run.at = "acting" /\ run.outbox = <<>> /\ ~run.writing
  BY DEF TypeOK, At
<1>2. run.todo \in Seq(Actions)
  BY <1>1 DEF Runs
<1>3. Tail(run.todo) \in Seq(Actions) /\ <<>> \in Seq(Actions) /\ act \in Actions
  BY <1>2, TailFacts DEF act
<1>4. CASE Did(q)
  BY <1>1, <1>3, <1>4 DEF GoesOn, Working, Did, Runs, Stages
<1>5. CASE Failed(q)
  BY <1>1, <1>3, <1>5 DEF GoesOn, Working, Failed, Runs, Stages
<1>. QED
  BY <1>3, <1>4, <1>5

----------------------------------------------------------------------------
\* Questions, consent, and what is said of things

LEMMA QuestionsStand ==
    ASSUME TypeOK, QuestionsPut, OneIdEach, run.outbox = <<>>, asked' \in Nat, asked <= asked',
           UNCHANGED <<pending, log, answered>>
    PROVE  QuestionsPut' /\ OneIdEach'
<1>1. OneIdEach'
  BY DEF OneIdEach
<1>2. \A id \in 1 .. asked : id \in 1 .. asked'
  BY DEF TypeOK
<1>3. ASSUME NEW kind \in DOMAIN pending', NEW i \in 1 .. MAX_PENDING, pending'[kind][i] # Free
      PROVE  /\ pending'[kind][i].id \in 1 .. asked' /\ pending'[kind][i].id \notin DOMAIN answered'
             /\ kind = "reminder" => pending'[kind][i].key = None
             /\ \E s \in Sessions : \E j \in DOMAIN log'[s] : Puts(log'[s][j], kind, pending'[kind][i])
  BY <1>2, <1>3 DEF QuestionsPut
<1>4. QuestionsPut'
  BY <1>3 DEF QuestionsPut, Puts
<1>. QED
  BY <1>1, <1>4

LEMMA ApprovedStands ==
    ASSUME UNCHANGED <<log, answered>>, NEW type, NEW key, NEW value, Approved(type, key, value)
    PROVE  Approved(type, key, value)'
BY DEF Approved

LEMMA ConsentStands ==
    ASSUME TypeOK, Consent, UNCHANGED <<log, answered, reminders>>,
           \A k \in Sensitive : profile'[k] \in {profile[k], None}
    PROVE  Consent'
BY DEF Consent, Approved

LEMMA SaidStands ==
    ASSUME TypeOK, SaidIsTrue, NEW q, run'.outbox = q, Harmless(q),
           saved' \in {saved, memory}, UNCHANGED <<memory, log, lost>>,
           run'.at \in {"idle", "down", "resolved"} => saved' = memory
    PROVE  SaidIsTrue'
<1>1. \A x \in Things : memory[x] \in Nat /\ saved'[x] <= memory'[x]
  BY DEF SaidIsTrue, TypeOK
<1>2. \A j \in DOMAIN q : q[j].type \notin Versioned
  BY DEF Harmless
<1>. QED
  BY <1>1, <1>2 DEF SaidIsTrue, SaysTrue

\* Another version of a thing, and the event that tells of it.
LEMMA SaidMore ==
    ASSUME TypeOK, SaidIsTrue, NEW x \in Things, NEW type \in Versioned \cap Types,
           NEW events \in Seq(Events), Harmless(events),
           memory' = [memory EXCEPT ![x] = @ + 1],
           run'.outbox = events \o <<About(type, x, memory[x] + 1)>>,
           run'.at \notin {"idle", "down", "resolved"}, saved' \in {saved, memory'},
           UNCHANGED <<log, lost>>
    PROVE  /\ SaidIsTrue'
           /\ run'.outbox \in Seq(Events) /\ ~Has(run'.outbox, Mark)
           /\ memory' \in [Things -> Nat] /\ saved' \in [Things -> Nat]
<1>0. /\ memory \in [Things -> Nat] /\ saved \in [Things -> Nat] /\ memory[x] \in Nat
      /\ log \in [Sessions -> Seq(Events)]
  BY DEF TypeOK
<1>1. PICK e \in Events : /\ e = About(type, x, memory[x] + 1) /\ e.type = type /\ e.key = x
                          /\ e.n = memory[x] + 1
  BY <1>0, AboutIn
<1>2. /\ memory' \in [Things -> Nat] /\ saved' \in [Things -> Nat] /\ memory'[x] = memory[x] + 1
      /\ \A y \in Things : memory[y] \in Nat /\ memory[y] <= memory'[y]
  BY <1>0, SMTT(30) DEF TypeOK
<1>3. \A y \in Things : saved'[y] <= memory'[y]
  <2>1. \A y \in Things : saved[y] <= memory[y] /\ saved[y] \in Nat /\ memory'[y] \in Nat
    BY <1>0, <1>2 DEF SaidIsTrue
  <2>2. CASE saved' = saved
    BY <1>2, <2>1, <2>2
  <2>3. CASE saved' = memory'
    BY <2>1, <2>3
  <2>. QED
    BY <2>2, <2>3
<1>4. \A s \in Sessions : \A i \in DOMAIN log[s] : SaysTrue(log[s][i])'
  <2>. SUFFICES ASSUME NEW s \in Sessions, NEW i \in DOMAIN log[s], log[s][i].type \in Versioned
                PROVE  /\ log[s][i].key \in Things
                       /\ log[s][i].key \notin lost => log[s][i].n <= memory'[log[s][i].key]
    BY DEF SaysTrue
  <2>1. /\ log[s][i].key \in Things
        /\ log[s][i].key \notin lost => log[s][i].n <= memory[log[s][i].key]
    BY DEF SaidIsTrue, SaysTrue
  <2>2. log[s][i] \in Events
    BY <1>0, ElementOfSeq
  <2>3. log[s][i].n \in Nat
    BY <2>2 DEF Events
  <2>. QED
    BY <1>2, <2>1, <2>3
<1>5. PICK q \in Seq(Events) :
          /\ run'.outbox = q
          /\ \A j \in DOMAIN q : q[j] = e \/ \E k \in DOMAIN events : q[j] = events[k]
  <2>1. <<e>> \in Seq(Events) /\ Len(<<e>>) = 1 /\ <<e>>[1] = e
    BY One1
  <2>2. /\ events \o <<e>> \in Seq(Events) /\ Len(events \o <<e>>) = Len(events) + 1
        /\ \A i \in 1 .. Len(events) + 1 :
               (events \o <<e>>)[i] = IF i <= Len(events) THEN events[i] ELSE <<e>>[i - Len(events)]
    BY <2>1, ConcatProperties
  <2>3. Len(events) \in Nat /\ DOMAIN events = 1 .. Len(events)
    OBVIOUS
  <2>. DEFINE n == Len(events)
  <2>4. \A i \in 1 .. n + 1 : i <= n \/ i - n = 1
    <3>. HIDE DEF n
    <3>1. n \in Nat
      BY <2>3 DEF n
    <3>. QED
      BY <3>1
  <2>5. \A j \in DOMAIN (events \o <<e>>) :
            (events \o <<e>>)[j] = e \/ \E k \in DOMAIN events : (events \o <<e>>)[j] = events[k]
    <3>. SUFFICES ASSUME NEW j \in 1 .. n + 1
                  PROVE  \/ (events \o <<e>>)[j] = e
                         \/ \E k \in DOMAIN events : (events \o <<e>>)[j] = events[k]
      BY <2>2, <2>3
    <3>1. CASE j <= n
      BY <2>2, <2>3, <3>1
    <3>2. CASE ~(j <= n)
      BY <2>1, <2>2, <2>4, <3>2
    <3>. QED
      BY <3>1, <3>2
  <2>6. run'.outbox = events \o <<e>>
    BY <1>1
  <2>. QED
    BY <2>2, <2>5, <2>6
<1>6. \A j \in DOMAIN q : SaysTrue(q[j])'
  <2>1. SaysTrue(e)'
    BY <1>1, <1>2 DEF SaysTrue
  <2>2. \A k \in DOMAIN events : events[k].type \notin Versioned
    BY DEF Harmless
  <2>. QED
    BY <1>5, <2>1, <2>2 DEF SaysTrue
<1>7. ~Has(run'.outbox, Mark)
  <2>1. e.type # Mark
    BY <1>1 DEF Versioned, Mark
  <2>. QED
    BY <1>5, <2>1 DEF Has, Harmless
<1>. QED
  <2>1. \A s \in Sessions : \A i \in DOMAIN log'[s] : SaysTrue(log[s][i])'
    BY <1>4
  <2>2. \A i \in DOMAIN run'.outbox : SaysTrue(run.outbox[i])'
    BY <1>5, <1>6
  <2>3. SaidIsTrue'
    BY <1>3, <2>1, <2>2 DEF SaidIsTrue
  <2>. QED
    BY <1>2, <1>5, <1>7, <2>3

\* A question to the user, with an id that no other has.
LEMMA AskingStands ==
    ASSUME TypeOK, QuestionsPut, OneIdEach, run.outbox = <<>>, run.session \in Sessions,
           NEW kind \in {"profile", "reminder"}, NEW key \in Keys \cup {None}, NEW value \in Values,
           kind = "reminder" => key = None, Asking(kind, key, value),
           run'.outbox = <<Event(Question[kind], key, value, asked + 1)>>,
           UNCHANGED <<log, answered>>
    PROVE  /\ pending' \in [{"profile", "reminder"} -> [1 .. MAX_PENDING -> Permissions \cup {Free}]]
           /\ asked' = asked + 1 /\ asked' \in Nat
           /\ QuestionsPut' /\ OneIdEach'
           /\ run'.outbox \in Seq(Events) /\ Harmless(run'.outbox)
<1>. DEFINE free == {i \in 1 .. MAX_PENDING : pending[kind][i] = Free}
            place == IF free = {} THEN 1 ELSE CHOOSE j \in free : \A k \in free : j <= k
            new == [id |-> asked + 1, session |-> run.session, key |-> key, value |-> value]
<1>1. place \in 1 .. MAX_PENDING
  <2>1. CASE free = {}
    BY <2>1, ChatAssumption
  <2>2. CASE free # {}
    <3>1. free \in SUBSET Nat
      OBVIOUS
    <3>2. \E j \in free : \A k \in free : j <= k
      <4>. HIDE DEF free
      <4>. QED
        BY <2>2, <3>1, First
    <3>. QED
      BY <2>2, <3>2
  <2>. QED
    BY <2>1, <2>2
<1>2. PICK i \in 1 .. MAX_PENDING, p \in Permissions :
          /\ p = new /\ p.id = asked + 1 /\ p.key = key /\ p.value = value
          /\ pending' = [pending EXCEPT ![kind][i] = p]
  <2>1. new \in Permissions
    BY DEF Permissions, TypeOK
  <2>2. pending' = [pending EXCEPT ![kind][place] = new]
    BY DEF Asking
  <2>. HIDE DEF place
  <2>. QED
    BY <1>1, <2>1, <2>2
<1>3. /\ asked' = asked + 1 /\ asked \in Nat /\ asked' \in Nat
  BY DEF Asking, TypeOK
<1>4. /\ pending' \in [{"profile", "reminder"} -> [1 .. MAX_PENDING -> Permissions \cup {Free}]]
      /\ DOMAIN pending = {"profile", "reminder"} /\ DOMAIN pending' = {"profile", "reminder"}
      /\ pending'[kind][i] = p
      /\ \A k \in {"profile", "reminder"} : \A j \in 1 .. MAX_PENDING :
             k # kind \/ j # i => pending'[k][j] = pending[k][j]
  BY <1>2 DEF TypeOK
<1>5. PICK e \in Events : /\ e = Event(Question[kind], key, value, asked + 1)
                          /\ e.type = Question[kind] /\ e.key = key /\ e.value = value
                          /\ e.n = asked + 1
  <2>1. Question[kind] \in Types
    BY DEF Question, Types
  <2>2. PICK type \in Types, n \in Nat : type = Question[kind] /\ n = asked + 1
    BY <1>3, <2>1
  <2>3. value \in Values \cup {None}
    OBVIOUS
  <2>4. key \in Keys \cup Things \cup {None}
    OBVIOUS
  <2>5. /\ Event(type, key, value, n) \in Events /\ Event(type, key, value, n).type = type
        /\ Event(type, key, value, n).key = key /\ Event(type, key, value, n).value = value
        /\ Event(type, key, value, n).n = n
    BY <2>3, <2>4, EventIn
  <2>. QED
    BY <2>2, <2>5
<1>6. /\ run'.outbox = <<e>> /\ run'.outbox \in Seq(Events)
      /\ DOMAIN run'.outbox = {1} /\ run'.outbox[1] = e
  BY <1>5, One1
<1>7. Harmless(run'.outbox)
  <2>1. Question[kind] \notin Versioned /\ Question[kind] # Mark
    BY DEF Question, Versioned, Mark
  <2>. QED
    BY <1>5, <1>6, <2>1 DEF Harmless
<1>8. ASSUME NEW k \in {"profile", "reminder"}, NEW j \in 1 .. MAX_PENDING, pending'[k][j] # Free,
             k # kind \/ j # i
      PROVE  /\ pending'[k][j].id \in 1 .. asked /\ pending'[k][j].id \notin DOMAIN answered'
             /\ k = "reminder" => pending'[k][j].key = None
             /\ \E s \in Sessions : \E l \in DOMAIN log'[s] : Puts(log'[s][l], k, pending'[k][j])
  <2>1. pending'[k][j] = pending[k][j] /\ pending[k][j] # Free
    BY <1>4, <1>8
  <2>. QED
    BY <1>4, <2>1 DEF QuestionsPut
<1>9. QuestionsPut'
  <2>1. p.id \in 1 .. asked' /\ p.id \notin DOMAIN answered' /\ (kind = "reminder" => p.key = None)
    BY <1>2, <1>3 DEF TypeOK
  <2>2. \E l \in DOMAIN run'.outbox : Puts(run'.outbox[l], kind, p)
    BY <1>2, <1>5, <1>6 DEF Puts
  <2>3. \A id \in 1 .. asked : id \in 1 .. asked'
    BY <1>3
  <2>4. ASSUME NEW k \in DOMAIN pending', NEW j \in 1 .. MAX_PENDING, pending'[k][j] # Free
        PROVE  /\ pending'[k][j].id \in 1 .. asked' /\ pending'[k][j].id \notin DOMAIN answered'
               /\ k = "reminder" => pending'[k][j].key = None
               /\ \/ \E s \in Sessions : \E l \in DOMAIN log'[s] :
                         Puts(log'[s][l], k, pending'[k][j])
                  \/ \E l \in DOMAIN run'.outbox : Puts(run'.outbox[l], k, pending'[k][j])
    <3>1. CASE k = kind /\ j = i
      BY <1>4, <2>1, <2>2, <3>1
    <3>2. CASE k # kind \/ j # i
      BY <1>4, <1>8, <2>3, <2>4, <3>2
    <3>. QED
      BY <3>1, <3>2
  <2>. QED
    BY <2>4 DEF QuestionsPut, Puts
<1>10. OneIdEach'
  <2>. SUFFICES ASSUME NEW k1 \in {"profile", "reminder"}, NEW k2 \in {"profile", "reminder"},
                       NEW j1 \in 1 .. MAX_PENDING, NEW j2 \in 1 .. MAX_PENDING,
                       pending'[k1][j1] # Free, pending'[k2][j2] # Free,
                       pending'[k1][j1].id = pending'[k2][j2].id
                PROVE  k1 = k2 /\ j1 = j2
    BY <1>4 DEF OneIdEach
  <2>1. \A n \in 1 .. asked : n # asked + 1
    BY <1>3
  <2>2. CASE (k1 = kind /\ j1 = i) /\ (k2 = kind /\ j2 = i)
    BY <2>2
  <2>3. CASE (k1 = kind /\ j1 = i) /\ ~(k2 = kind /\ j2 = i)
    <3>1. pending'[k1][j1] = p /\ p.id = asked + 1
      BY <1>2, <1>4, <2>3
    <3>2. pending'[k2][j2].id \in 1 .. asked
      BY <1>8, <2>3
    <3>. QED
      BY <2>1, <3>1, <3>2
  <2>4. CASE ~(k1 = kind /\ j1 = i) /\ (k2 = kind /\ j2 = i)
    <3>1. pending'[k2][j2] = p /\ p.id = asked + 1
      BY <1>2, <1>4, <2>4
    <3>2. pending'[k1][j1].id \in 1 .. asked
      BY <1>8, <2>4
    <3>. QED
      BY <2>1, <3>1, <3>2
  <2>5. CASE ~(k1 = kind /\ j1 = i) /\ ~(k2 = kind /\ j2 = i)
    <3>1. pending'[k1][j1] = pending[k1][j1] /\ pending'[k2][j2] = pending[k2][j2]
      BY <1>4, <2>5
    <3>. QED
      BY <1>4, <3>1 DEF OneIdEach
  <2>. QED
    BY <2>2, <2>3, <2>4, <2>5
<1>. QED
  BY <1>3, <1>4, <1>6, <1>7, <1>9, <1>10

TalkInv == QuestionsPut /\ OneIdEach /\ Consent /\ SaidIsTrue

----------------------------------------------------------------------------
\* The actions of the AI, one by one

LEMMA HarmlessHasNoMark == ASSUME NEW q, Harmless(q) PROVE ~Has(q, Mark)
BY DEF Harmless, Has

\* A step that asks nothing and makes no version of a thing.
LEMMA QuietStep ==
    ASSUME TypeOK, TableInv, TalkInv, NEW q \in Seq(Events), Harmless(q), GoesOn(q),
           UNCHANGED <<topic, tables, stalled, notes>>,
           UNCHANGED <<pending, asked, reminders, memory>>,
           profile' \in [Keys -> Values \cup {None}],
           \A k \in Sensitive : profile'[k] \in {profile[k], None},
           saved' \in {saved, memory}
    PROVE  TypeOK' /\ TableInv' /\ TalkInv'
<1>1. StoresTyped
  BY DEF StoresTyped, TypeOK
<1>2. TypeOK' /\ TableInv'
  BY <1>1, GoesOnTable, HarmlessHasNoMark
<1>3. /\ UNCHANGED <<log, answered, lost>> /\ run.outbox = <<>> /\ run'.outbox = q
      /\ run'.at \notin {"idle", "down", "resolved"}
  BY DEF tables, notes, GoesOn, Working
<1>4. QuestionsPut' /\ OneIdEach'
  <2>1. asked' \in Nat /\ asked <= asked'
    BY <1>1 DEF StoresTyped
  <2>. QED
    BY <1>3, <2>1, QuestionsStand DEF TalkInv
<1>5. Consent'
  BY <1>3, ConsentStands DEF TalkInv
<1>6. SaidIsTrue'
  BY <1>3, SaidStands DEF TalkInv
<1>. QED
  BY <1>2, <1>4, <1>5, <1>6 DEF TalkInv

\* A step that does nothing to the stores.
LEMMA StillStep ==
    ASSUME TypeOK, TableInv, TalkInv, NEW q \in Seq(Events), Harmless(q), GoesOn(q),
           ExceptFor(stores)
    PROVE  TypeOK' /\ TableInv' /\ TalkInv'
<1>1. /\ UNCHANGED <<topic, tables, stalled, notes>>
      /\ UNCHANGED <<pending, asked, reminders, memory>> /\ profile' = profile /\ saved' = saved
  BY DEF ExceptFor, stores
<1>2. profile' \in [Keys -> Values \cup {None}]
  BY <1>1 DEF TypeOK
<1>. QED
  BY <1>1, <1>2, QuietStep

\* A step that makes a new version of a thing.
LEMMA NewVersion ==
    ASSUME TypeOK, TableInv, TalkInv, NEW x \in Things, NEW type \in Versioned,
           NEW events \in Seq(Events), Harmless(events),
           memory' = [memory EXCEPT ![x] = @ + 1],
           GoesOn(events \o <<About(type, x, memory[x] + 1)>>) \/
               /\ run.outbox = <<>> /\ ~run.writing /\ run.at \in Working /\ run.todo # <<>>
               /\ run' = [run EXCEPT !.at = "repaired",
                                     !.outbox = events \o <<About(type, x, memory[x] + 1)>>],
           saved' \in {saved, memory'},
           UNCHANGED <<topic, tables, stalled, notes>>,
           UNCHANGED <<pending, asked, profile, reminders>>
    PROVE  TypeOK' /\ TableInv' /\ TalkInv'
<1>. DEFINE q == events \o <<About(type, x, memory[x] + 1)>>
<1>1. type \in Versioned \cap Types
  BY DEF Versioned, Types
<1>2. UNCHANGED <<log, answered, lost>>
  BY DEF tables, notes
<1>3. run'.outbox = q /\ run'.at \notin {"idle", "down", "resolved"} /\ run.outbox = <<>>
  BY DEF GoesOn, Working, TypeOK, Runs
<1>4. /\ SaidIsTrue' /\ run'.outbox \in Seq(Events) /\ ~Has(run'.outbox, Mark)
      /\ memory' \in [Things -> Nat] /\ saved' \in [Things -> Nat]
  BY <1>1, <1>2, <1>3, SaidMore DEF TalkInv
<1>5. GoesOn(q)
  <2>. HIDE DEF q
  <2>1. q \in Seq(Events)
    BY <1>3, <1>4
  <2>2. CASE /\ run.outbox = <<>> /\ ~run.writing /\ run.at \in Working /\ run.todo # <<>>
             /\ run' = [run EXCEPT !.at = "repaired", !.outbox = q]
    BY <2>1, <2>2 DEF GoesOn, TypeOK, Runs, Stages, Working
  <2>. QED
    BY <2>2 DEF q
<1>6. StoresTyped
  BY <1>4 DEF StoresTyped, TypeOK
<1>7. TypeOK' /\ TableInv'
  <2>. HIDE DEF q
  <2>1. ~Has(q, Mark)
    BY <1>3, <1>4
  <2>. QED
    BY <1>5, <1>6, <2>1, GoesOnTable
<1>8. QuestionsPut' /\ OneIdEach'
  <2>1. asked' \in Nat /\ asked <= asked'
    BY <1>6 DEF StoresTyped
  <2>. QED
    BY <1>2, <1>3, <2>1, QuestionsStand DEF TalkInv
<1>9. Consent'
  <2>1. \A k \in Sensitive : profile'[k] \in {profile[k], None}
    OBVIOUS
  <2>. QED
    BY <1>2, <2>1, ConsentStands DEF TalkInv
<1>. QED
  BY <1>4, <1>7, <1>8, <1>9 DEF TalkInv

\* A goal that the AI names and that there is.
LEMMA ThingIn ==
    ASSUME TypeOK, At("acting"), run.todo # <<>>, validate_action(act),
           act.type \in {"set_goal_priority", "delay_goal", "drop_goal", "repair_branch"}
    PROVE  act.thing \in Things
<1>1. run.todo \in Seq(Actions)
  BY DEF TypeOK, Runs
<1>2. act \in Actions
  BY <1>1, TailFacts DEF act
<1>. QED
  BY <1>2 DEF validate_action, Actions, Things

LEMMA ChangeStep ==
    ASSUME TypeOK, TableInv, TalkInv, At("acting"), run.todo # <<>>,
           NEW x \in Things, NEW type \in Versioned, NEW events \in Seq(Events), Harmless(events),
           Change(x, events, type), saved' \in {saved, memory'},
           UNCHANGED <<topic, tables, stalled, notes>>,
           UNCHANGED <<pending, asked, profile, reminders>>
    PROVE  TypeOK' /\ TableInv' /\ TalkInv'
<1>. DEFINE q == events \o <<About(type, x, memory[x] + 1)>>
<1>1. About(type, x, memory[x] + 1) \in Events
  BY AboutIn DEF TypeOK, Types, Versioned
<1>2. q \in Seq(Events)
  BY <1>1, ConcatProperties
<1>3. Did(q) /\ memory' = [memory EXCEPT ![x] = @ + 1]
  BY DEF Change
<1>4. GoesOn(q)
  <2>. HIDE DEF q
  <2>. QED
    BY <1>2, <1>3, DidGoesOn
<1>. QED
  BY <1>3, <1>4, NewVersion

LEMMA ActionsStand ==
    ASSUME TypeOK, TableInv, TalkInv, apply_actions
    PROVE  TypeOK' /\ TableInv' /\ TalkInv'
<1>1. CASE Reply
  <2>1. GoesOn(<<>>)
    BY <1>1, DidGoesOn, None1 DEF Reply, Doing
  <2>. QED
    BY <1>1, <2>1, StillStep, None1 DEF Reply
<1>2. CASE CallDeepSearch
  <2>. DEFINE q == <<Plain("deep_search_started"), Plain("deep_search_done")>>
  <2>1. q \in Seq(Events) /\ Harmless(q)
    <3>1. /\ Plain("deep_search_started") \in Events
          /\ Plain("deep_search_started").type = "deep_search_started"
          /\ Plain("deep_search_done") \in Events
          /\ Plain("deep_search_done").type = "deep_search_done"
      BY PlainIn DEF Types
    <3>. QED
      BY <3>1 DEF Harmless, Versioned, Mark
  <2>. HIDE DEF q
  <2>2. Failed(q)
    BY <1>2 DEF CallDeepSearch, q
  <2>3. GoesOn(q)
    BY <1>2, <2>1, <2>2, DidGoesOn DEF CallDeepSearch, Doing
  <2>. QED
    BY <1>2, <2>1, <2>3, StillStep DEF CallDeepSearch
<1>3. CASE NotValid
  <2>1. GoesOn(<<>>)
    BY <1>3, DidGoesOn, None1 DEF NotValid
  <2>. QED
    BY <1>3, <2>1, StillStep, None1 DEF NotValid
<1>4. CASE UnknownGoal
  <2>1. GoesOn(<<>>)
    BY <1>4, DidGoesOn, None1 DEF UnknownGoal, Doing
  <2>. QED
    BY <1>4, <2>1, StillStep, None1 DEF UnknownGoal
<1>5. CASE DropGoal
  <2>1. /\ <<Plain("goal_drop_requested")>> \in Seq(Events)
        /\ Harmless(<<Plain("goal_drop_requested")>>)
    BY HarmlessPlain DEF Types, Versioned, Mark
  <2>2. GoesOn(<<Plain("goal_drop_requested")>>)
    BY <1>5, <2>1, DidGoesOn DEF DropGoal, Doing
  <2>. QED
    BY <1>5, <2>1, <2>2, StillStep DEF DropGoal
<1>6. CASE FindMatch
  <2>1. /\ <<Plain("match_search_done")>> \in Seq(Events)
        /\ Harmless(<<Plain("match_search_done")>>)
    BY HarmlessPlain DEF Types, Versioned, Mark
  <2>2. GoesOn(<<Plain("match_search_done")>>)
    BY <1>6, <2>1, DidGoesOn DEF FindMatch, Doing
  <2>. QED
    BY <1>6, <2>1, <2>2, StillStep DEF FindMatch
<1>7. CASE ClearProfile
  <2>. DEFINE e == Event("profile_updated", act.key, None, 0)
  <2>1. PICK k \in Keys : k = act.key
    BY <1>7 DEF ClearProfile, Doing, validate_action
  <2>2. e \in Events /\ e.type = "profile_updated"
    <3>1. Event("profile_updated", k, None, 0) \in Events
      BY DEF Event, Events, Types
    <3>. QED
      BY <2>1, <3>1 DEF Event
  <2>3. <<e>> \in Seq(Events) /\ Harmless(<<e>>)
    <3>. HIDE DEF e
    <3>. QED
      BY <2>2, One1 DEF Harmless, Versioned, Mark
  <2>4. GoesOn(<<e>>)
    BY <1>7, <2>3, DidGoesOn DEF ClearProfile, Doing
  <2>5. /\ profile' = [profile EXCEPT ![k] = None]
        /\ UNCHANGED <<topic, tables, stalled, notes>>
        /\ UNCHANGED <<pending, asked, reminders, memory, saved>>
    BY <1>7, <2>1 DEF ClearProfile, ExceptFor
  <2>6. /\ profile' \in [Keys -> Values \cup {None}]
        /\ \A l \in Sensitive : profile'[l] \in {profile[l], None}
    BY <2>5, ChatAssumption DEF TypeOK
  <2>. HIDE DEF e
  <2>. QED
    BY <2>3, <2>4, <2>5, <2>6, QuietStep
<1>8. CASE SaveRepaired
  <2>1. run \in Runs /\ run.outbox = <<>> /\ ~run.writing /\ run.at = "repaired"
    BY <1>8 DEF SaveRepaired, At, TypeOK
  <2>2. Tail(run.todo) \in Seq(Actions)
    <3>1. run.todo \in Seq(Actions) /\ run.todo # <<>>
      BY <2>1 DEF Runs, TableInv, HandlerSound
    <3>. QED
      BY <3>1, TailFacts
  <2>3. GoesOn(<<>>)
    BY <1>8, <2>1, <2>2 DEF SaveRepaired, GoesOn, Runs, Stages, Working
  <2>4. profile' \in [Keys -> Values \cup {None}] /\ \A k \in Sensitive : profile'[k] \in {profile[k], None}
    BY <1>8 DEF SaveRepaired, ExceptFor, TypeOK
  <2>. QED
    BY <1>8, <2>3, <2>4, QuietStep, None1 DEF SaveRepaired, ExceptFor
<1>9. CASE SetProfile
  <2>. DEFINE kept == ~requires_permission(act)
              e == Event("profile_updated", act.key, act.value, 0)
              f == Event("permission_required", act.key, act.value, asked + 1)
  <2>0. At("acting") /\ run.todo # <<>> /\ validate_action(act)
        /\ act.type \in {"set_profile", "ask_permission"}
    BY <1>9 DEF SetProfile, Doing
  <2>1. act \in Actions
    <3>1. run.todo \in Seq(Actions)
      BY DEF TypeOK, Runs
    <3>. QED
      BY <2>0, <3>1, TailFacts DEF act
  <2>2. PICK k \in Keys, v \in Values : k = act.key /\ v = act.value
    BY <2>0, <2>1 DEF validate_action, Actions
  <2>3. UNCHANGED <<topic, tables, stalled, notes>> /\ UNCHANGED <<reminders, memory, saved>>
    BY <1>9 DEF SetProfile, ExceptFor
  <2>4. CASE kept
    <3>1. /\ profile' = [profile EXCEPT ![k] = v] /\ Did(<<e>>)
          /\ UNCHANGED <<pending, asked>>
      BY <1>9, <2>2, <2>4 DEF SetProfile
    <3>2. k \notin Sensitive
      BY <2>2, <2>4 DEF requires_permission
    <3>3. /\ profile' \in [Keys -> Values \cup {None}]
          /\ \A l \in Sensitive : profile'[l] \in {profile[l], None}
      BY <3>1, <3>2, ChatAssumption DEF TypeOK
    <3>4. e \in Events /\ e.type = "profile_updated"
      BY <2>2, EventIn DEF Types
    <3>. HIDE DEF e, kept
    <3>5. <<e>> \in Seq(Events) /\ Harmless(<<e>>)
      BY <3>4, One1 DEF Harmless, Versioned, Mark
    <3>6. GoesOn(<<e>>)
      BY <2>0, <3>1, <3>5, DidGoesOn
    <3>. QED
      BY <2>3, <3>1, <3>3, <3>5, <3>6, QuietStep
  <2>5. CASE ~kept
    <3>1. Asking("profile", k, v) /\ Did(<<f>>) /\ UNCHANGED profile
      BY <1>9, <2>2, <2>5 DEF SetProfile
    <3>2. run.outbox = <<>> /\ run.session \in Sessions /\ run'.outbox = <<f>>
      BY <2>0, <3>1 DEF At, TableInv, HandlerSound, Did, TypeOK, Runs
    <3>3. f = Event(Question["profile"], k, v, asked + 1)
      BY <2>2 DEF Question
    <3>4. UNCHANGED <<log, answered>>
      BY <2>3 DEF tables, notes
    <3>. HIDE DEF f, kept
    <3>5. /\ pending' \in [{"profile", "reminder"} -> [1 .. MAX_PENDING -> Permissions \cup {Free}]]
          /\ asked' = asked + 1 /\ asked' \in Nat /\ QuestionsPut' /\ OneIdEach'
          /\ <<f>> \in Seq(Events) /\ Harmless(<<f>>)
      BY <3>1, <3>2, <3>3, <3>4, AskingStands DEF TalkInv
    <3>6. GoesOn(<<f>>)
      BY <2>0, <3>1, <3>5, DidGoesOn
    <3>7. StoresTyped
      BY <2>3, <3>1, <3>5 DEF StoresTyped, TypeOK
    <3>8. TypeOK' /\ TableInv'
      BY <2>3, <3>5, <3>6, <3>7, GoesOnTable, HarmlessHasNoMark
    <3>9. Consent'
      <4>1. \A l \in Sensitive : profile'[l] \in {profile[l], None}
        BY <3>1
      <4>. QED
        BY <2>3, <3>4, <4>1, ConsentStands DEF TalkInv
    <3>10. SaidIsTrue'
      <4>1. run'.at \notin {"idle", "down", "resolved"}
        BY <3>6 DEF GoesOn, Working
      <4>2. UNCHANGED <<memory, log, lost>> /\ saved' \in {saved, memory}
        BY <2>3 DEF tables, notes
      <4>. QED
        BY <3>2, <3>5, <4>1, <4>2, SaidStands DEF TalkInv
    <3>. QED
      BY <3>5, <3>8, <3>9, <3>10 DEF TalkInv
  <2>. QED
    BY <2>4, <2>5
<1>10. CASE SetReminder
  <2>. DEFINE f == Event("reminder_permission_required", None, act.value, asked + 1)
  <2>0. At("acting") /\ run.todo # <<>> /\ validate_action(act) /\ act.type = "set_reminder"
    BY <1>10 DEF SetReminder, Doing
  <2>1. act \in Actions
    <3>1. run.todo \in Seq(Actions)
      BY DEF TypeOK, Runs
    <3>. QED
      BY <2>0, <3>1, TailFacts DEF act
  <2>2. PICK v \in Values : v = act.value
    BY <2>0, <2>1 DEF validate_action, Actions
  <2>3. /\ UNCHANGED <<topic, tables, stalled, notes>>
        /\ UNCHANGED <<profile, reminders, memory, saved>>
        /\ Asking("reminder", None, v) /\ Did(<<f>>)
    BY <1>10, <2>2 DEF SetReminder, ExceptFor
  <2>4. run.outbox = <<>> /\ run.session \in Sessions /\ run'.outbox = <<f>>
    BY <2>0, <2>3 DEF At, TableInv, HandlerSound, Did, TypeOK, Runs
  <2>5. f = Event(Question["reminder"], None, v, asked + 1)
    BY <2>2 DEF Question
  <2>6. UNCHANGED <<log, answered>>
    BY <2>3 DEF tables, notes
  <2>. HIDE DEF f
  <2>7. /\ pending' \in [{"profile", "reminder"} -> [1 .. MAX_PENDING -> Permissions \cup {Free}]]
        /\ asked' = asked + 1 /\ asked' \in Nat /\ QuestionsPut' /\ OneIdEach'
        /\ <<f>> \in Seq(Events) /\ Harmless(<<f>>)
    BY <2>3, <2>4, <2>5, <2>6, AskingStands DEF TalkInv
  <2>8. GoesOn(<<f>>)
    BY <2>0, <2>3, <2>7, DidGoesOn
  <2>9. StoresTyped
    BY <2>3, <2>7 DEF StoresTyped, TypeOK
  <2>10. TypeOK' /\ TableInv'
    BY <2>3, <2>7, <2>8, <2>9, GoesOnTable, HarmlessHasNoMark
  <2>11. Consent'
    <3>1. \A l \in Sensitive : profile'[l] \in {profile[l], None}
      BY <2>3
    <3>. QED
      BY <2>3, <2>6, <3>1, ConsentStands DEF TalkInv
  <2>12. SaidIsTrue'
    <3>1. run'.at \notin {"idle", "down", "resolved"}
      BY <2>8 DEF GoesOn, Working
    <3>2. UNCHANGED <<memory, log, lost>> /\ saved' \in {saved, memory}
      BY <2>3 DEF tables, notes
    <3>. QED
      BY <2>4, <2>7, <3>1, <3>2, SaidStands DEF TalkInv
  <2>. QED
    BY <2>7, <2>10, <2>11, <2>12 DEF TalkInv
<1>11. CASE CreateGoal
  <2>. DEFINE started == <<Plain("goal_create_started")>>
  <2>1. PICK x \in Goals : Change(x, started, "goal_created")
    BY <1>11 DEF CreateGoal
  <2>2. started \in Seq(Events) /\ Harmless(started)
    BY HarmlessPlain DEF Types, Versioned, Mark
  <2>. HIDE DEF started
  <2>. QED
    BY <1>11, <2>1, <2>2, ChangeStep DEF CreateGoal, Doing, ExceptFor, Things, Versioned
<1>12. CASE UpdateGraph
  <2>. DEFINE started == <<Plain("graph_update_started")>>
              noop == <<Plain("graph_update_started"), Plain("graph_update_noop")>>
  <2>1. started \in Seq(Events) /\ Harmless(started)
    BY HarmlessPlain DEF Types, Versioned, Mark
  <2>2. noop \in Seq(Events) /\ Harmless(noop)
    <3>1. /\ Plain("graph_update_started") \in Events
          /\ Plain("graph_update_started").type = "graph_update_started"
          /\ Plain("graph_update_noop") \in Events
          /\ Plain("graph_update_noop").type = "graph_update_noop"
      BY PlainIn DEF Types
    <3>. QED
      BY <3>1 DEF Harmless, Versioned, Mark
  <2>3. CASE Change(Graph, started, "graph_updated")
    <3>. HIDE DEF started, noop
    <3>. QED
      BY <1>12, <2>1, <2>3, ChangeStep DEF UpdateGraph, Doing, ExceptFor, Things, Versioned
  <2>4. CASE Did(noop) /\ UNCHANGED memory
    <3>1. GoesOn(noop)
      BY <1>12, <2>2, <2>4, DidGoesOn DEF UpdateGraph, Doing
    <3>2. ExceptFor(stores)
      BY <1>12, <2>4 DEF UpdateGraph, ExceptFor, stores
    <3>. HIDE DEF noop
    <3>. QED
      BY <2>2, <3>1, <3>2, StillStep
  <2>. QED
    BY <1>12, <2>3, <2>4 DEF UpdateGraph
<1>13. CASE DelayGoal
  <2>1. PICK x \in Things : x = act.thing /\ Change(x, <<>>, "goal_delayed")
    BY <1>13, ThingIn DEF DelayGoal, Doing, validate_action
  <2>. QED
    BY <1>13, <2>1, ChangeStep, None1 DEF DelayGoal, Doing, ExceptFor, Versioned
<1>14. CASE SetGoalPriority
  <2>1. PICK x \in Things : x = act.thing /\ Change(x, <<>>, "goal_priority_changed")
    BY <1>14, ThingIn DEF SetGoalPriority, Doing, validate_action
  <2>. QED
    BY <1>14, <2>1, ChangeStep, None1 DEF SetGoalPriority, Doing, ExceptFor, Versioned
<1>15. CASE SetRecord
  <2>1. PICK type \in {"set_discoverable", "set_private", "update_match_description"} :
            type = act.type /\ At("acting") /\ run.todo # <<>>
    BY <1>15 DEF SetRecord, Doing
  <2>2. Change(Record, <<>>, type)
    BY <1>15, <2>1 DEF SetRecord
  <2>. QED
    BY <1>15, <2>1, <2>2, ChangeStep, None1 DEF SetRecord, ExceptFor, Things, Versioned
<1>16. CASE RepairBranch
  <2>1. PICK x \in Things : x = act.thing /\ At("acting") /\ run.todo # <<>>
    BY <1>16, ThingIn DEF RepairBranch, Doing, validate_action
  <2>. DEFINE told == <<About("goal_repaired", x, memory[x] + 1)>>
  <2>2. /\ memory' = [memory EXCEPT ![x] = @ + 1]
        /\ run' = [run EXCEPT !.at = "repaired", !.outbox = told]
        /\ UNCHANGED <<topic, tables, stalled, notes>>
        /\ UNCHANGED <<pending, asked, profile, reminders, saved>>
    BY <1>16, <2>1 DEF RepairBranch, ExceptFor
  <2>3. told = <<>> \o told
    <3>1. About("goal_repaired", x, memory[x] + 1) \in Events
      BY AboutIn DEF TypeOK, Types
    <3>2. told \in Seq(Events)
      BY <3>1
    <3>. HIDE DEF told
    <3>. QED
      BY <3>2, ConcatEmptySeq
  <2>4. run.outbox = <<>> /\ ~run.writing /\ run.at \in Working
    BY <2>1 DEF At, Working
  <2>. QED
    BY <2>1, <2>2, <2>3, <2>4, NewVersion, None1 DEF Versioned
<1>. QED
  BY <1>1, <1>2, <1>3, <1>4, <1>5, <1>6, <1>7, <1>8, <1>9, <1>10, <1>11, <1>12, <1>13, <1>14,
     <1>15, <1>16 DEF apply_actions

----------------------------------------------------------------------------
\* The other steps

\* A step that asks nothing, answers nothing and makes no version of a thing.
LEMMA TalkStands ==
    ASSUME TypeOK, TalkInv, run.outbox = <<>>, \A j \in DOMAIN run'.outbox : run'.outbox[j].type \notin Versioned,
           UNCHANGED <<pending, asked, profile, reminders, memory>>, UNCHANGED <<log, answered, lost>>,
           saved' \in {saved, memory}, run'.at \in {"idle", "down", "resolved"} => saved' = memory
    PROVE  TalkInv'
<1>1. QuestionsPut' /\ OneIdEach'
  <2>1. asked' \in Nat /\ asked <= asked'
    BY DEF TypeOK
  <2>. QED
    BY <2>1, QuestionsStand DEF TalkInv
<1>2. Consent'
  <2>1. \A l \in Sensitive : profile'[l] \in {profile[l], None}
    OBVIOUS
  <2>. QED
    BY <2>1, ConsentStands DEF TalkInv
<1>3. SaidIsTrue'
  <2>1. \A x \in Things : memory[x] \in Nat /\ saved'[x] <= memory'[x]
    BY DEF TalkInv, SaidIsTrue, TypeOK
  <2>2. \A s \in Sessions : \A i \in DOMAIN log'[s] : SaysTrue(log[s][i])'
    BY DEF TalkInv, SaidIsTrue, SaysTrue
  <2>3. \A i \in DOMAIN run'.outbox : SaysTrue(run.outbox[i])'
    BY DEF SaysTrue
  <2>. QED
    BY <2>1, <2>2, <2>3 DEF SaidIsTrue
<1>. QED
  BY <1>1, <1>2, <1>3 DEF TalkInv

\* What is said in the stages of a turn that keep a session.
LEMMA TurnTalk ==
    ASSUME TypeOK, TableInv, TalkInv,
           \/ \E s \in Chats[topic], m \in Said[topic] : Message(s, m)
           \/ \E s \in Chats[topic] : ExportSession(s)
           \/ Dismiss \/ Remind \/ Close \/ (\E answer \in Answers[topic] : Ask(answer))
    PROVE  TalkInv'
<1>0. /\ run.outbox = <<>>
      /\ UNCHANGED <<log, answered, lost>> /\ UNCHANGED stores
      /\ \/ \E type \in Types \ Versioned : run'.outbox = <<Plain(type)>>
         \/ run'.outbox = <<>>
         \/ run'.outbox = <<Plain("assistant_message")>> \o <<>>
         \/ run'.outbox = <<Plain("assistant_message")>> \o <<Plain("suggested_replies")>>
      /\ run'.at \notin {"idle", "down", "resolved"} \/ (run'.at = run.at /\ run.at = "idle")
  <2>1. CASE \E s \in Chats[topic], m \in Said[topic] : Message(s, m)
    <3>1. "message_received" \in Types \ Versioned
      BY DEF Types, Versioned
    <3>2. PICK s \in Chats[topic], m \in Said[topic] : Message(s, m)
      BY <2>1
    <3>3. run'.outbox = <<Plain("message_received")>> /\ run'.at = "received" /\ run.outbox = <<>>
      BY <3>2 DEF Message, Idle
    <3>4. UNCHANGED <<log, answered, lost>> /\ UNCHANGED stores
      BY <3>2 DEF Message, notes
    <3>. QED
      BY <3>1, <3>3, <3>4
  <2>2. CASE \E s \in Chats[topic] : ExportSession(s)
    BY <2>2 DEF ExportSession, Idle, notes
  <2>3. CASE Dismiss
    <3>1. "stalled_goal_reminder_dismissed" \in Types \ Versioned
      BY DEF Types, Versioned
    <3>. QED
      BY <2>3, <3>1 DEF Dismiss, At, To, TypeOK, Runs, notes
  <2>4. CASE Remind
    <3>1. "stalled_goal_reminder_shown" \in Types \ Versioned
      BY DEF Types, Versioned
    <3>. QED
      BY <2>4, <3>1 DEF Remind, At, To, TypeOK, Runs, notes
  <2>5. CASE Close
    <3>1. run \in Runs /\ run.outbox = <<>>
      BY <2>5 DEF Close, At, TypeOK
    <3>2. PICK more \in {<<>>, <<Plain("suggested_replies")>>} :
              run' = To("saving", <<Plain("assistant_message")>> \o more)
      BY <2>5 DEF Close
    <3>3. run'.outbox = <<Plain("assistant_message")>> \o more /\ run'.at = "saving"
      BY <3>1, <3>2 DEF To, Runs
    <3>4. UNCHANGED <<log, answered, lost>> /\ UNCHANGED stores
      BY <2>5 DEF Close
    <3>. QED
      BY <3>1, <3>2, <3>3, <3>4
  <2>6. CASE \E answer \in Answers[topic] : Ask(answer)
    BY <2>6 DEF Ask, At, TypeOK, Runs, notes
  <2>. QED
    BY <2>1, <2>2, <2>3, <2>4, <2>5, <2>6
<1>1. \A j \in DOMAIN run'.outbox : run'.outbox[j].type \notin Versioned
  <2>1. CASE \E type \in Types \ Versioned : run'.outbox = <<Plain(type)>>
    <3>1. PICK type \in Types \ Versioned : run'.outbox = <<Plain(type)>>
      BY <2>1
    <3>2. Plain(type) \in Events /\ Plain(type).type = type
      BY PlainIn
    <3>. QED
      BY <3>1, <3>2, One1
  <2>2. /\ <<Plain("assistant_message")>> \in Seq(Events) /\ Harmless(<<Plain("assistant_message")>>)
        /\ <<Plain("suggested_replies")>> \in Seq(Events) /\ Harmless(<<Plain("suggested_replies")>>)
    BY HarmlessPlain DEF Types, Versioned, Mark
  <2>3. CASE run'.outbox = <<Plain("assistant_message")>> \o <<>>
    BY <2>2, <2>3, None1, HarmlessTwo DEF Harmless
  <2>4. CASE run'.outbox = <<Plain("assistant_message")>> \o <<Plain("suggested_replies")>>
    BY <2>2, <2>4, HarmlessTwo DEF Harmless
  <2>. QED
    BY <1>0, <2>1, <2>3, <2>4
<1>2. run'.at \in {"idle", "down", "resolved"} => saved' = memory
  BY <1>0 DEF TalkInv, SaidIsTrue, stores
<1>. QED
  BY <1>0, <1>1, <1>2, TalkStands DEF stores

LEMMA FallTalk ==
    ASSUME TypeOK, TalkInv, Fall
    PROVE  TalkInv'
<1>1. /\ run' = Down /\ run'.outbox = <<>>
      /\ \A kind \in DOMAIN pending' : \A i \in 1 .. MAX_PENDING : pending'[kind][i] = Free
      /\ memory' = saved /\ lost' = lost \cup {x \in Things : memory[x] # saved[x]}
      /\ UNCHANGED <<asked, profile, reminders, saved, log, answered>>
  BY DEF Fall, Down, Idle, TypeOK
<1>2. QuestionsPut' /\ OneIdEach'
  BY <1>1 DEF QuestionsPut, OneIdEach
<1>3. Consent'
  <2>1. \A l \in Sensitive : profile'[l] \in {profile[l], None}
    BY <1>1
  <2>. QED
    BY <1>1, <2>1, ConsentStands DEF TalkInv
<1>4. SaidIsTrue'
  <2>1. \A x \in Things : saved[x] \in Nat /\ saved'[x] <= memory'[x]
    BY <1>1 DEF TypeOK
  <2>2. \A s \in Sessions : \A i \in DOMAIN log'[s] : SaysTrue(log[s][i])'
    BY <1>1 DEF TalkInv, SaidIsTrue, SaysTrue
  <2>. QED
    BY <1>1, <2>1, <2>2 DEF SaidIsTrue
<1>. QED
  BY <1>2, <1>3, <1>4 DEF TalkInv

LEMMA ApprovedMore ==
    ASSUME TypeOK, NEW s \in Sessions, NEW e \in Events, log' = [log EXCEPT ![s] = Append(@, e)],
           UNCHANGED answered, NEW type, NEW key, NEW value, Approved(type, key, value)
    PROVE  Approved(type, key, value)'
<1>1. PICK t \in Sessions : \E i \in DOMAIN log[t] :
          /\ log[t][i].type = type /\ log[t][i].key = key /\ log[t][i].value = value
          /\ log[t][i].n \in DOMAIN answered /\ answered[log[t][i].n]
  BY DEF Approved
<1>2. PICK i \in DOMAIN log[t] :
          /\ log[t][i].type = type /\ log[t][i].key = key /\ log[t][i].value = value
          /\ log[t][i].n \in DOMAIN answered /\ answered[log[t][i].n]
  BY <1>1
<1>3. i \in DOMAIN log'[t] /\ log'[t][i] = log[t][i]
  <2>1. log[t] \in Seq(Events)
    BY DEF TypeOK
  <2>2. log'[t] = IF t = s THEN Append(log[s], e) ELSE log[t]
    BY DEF TypeOK
  <2>. QED
    BY <2>1, <2>2, AppendFacts
<1>. QED
  BY <1>2, <1>3 DEF Approved

LEMMA SayTalk ==
    ASSUME TypeOK, TableInv, TalkInv, Say
    PROVE  TalkInv'
<1>1. PICK s \in Sessions, e \in Events :
          /\ log' = [log EXCEPT ![s] = Append(@, e)] /\ 1 \in DOMAIN run.outbox /\ run.outbox[1] = e
          /\ run' = [run EXCEPT !.writing = TRUE] /\ UNCHANGED stores /\ UNCHANGED notes
  BY SayIs
<1>2. /\ run'.outbox = run.outbox /\ run'.at = run.at
      /\ UNCHANGED <<pending, asked, profile, reminders, memory, saved, answered, lost>>
  BY <1>1 DEF TypeOK, Runs, stores, notes
<1>3. /\ \A t \in Sessions : \A i \in DOMAIN log[t] : i \in DOMAIN log'[t] /\ log'[t][i] = log[t][i]
      /\ \A t \in Sessions : \A i \in DOMAIN log'[t] : log'[t][i] = e \/ i \in DOMAIN log[t]
  <2>. SUFFICES ASSUME NEW t \in Sessions
                PROVE  /\ \A i \in DOMAIN log[t] : i \in DOMAIN log'[t] /\ log'[t][i] = log[t][i]
                       /\ \A i \in DOMAIN log'[t] : log'[t][i] = e \/ i \in DOMAIN log[t]
    OBVIOUS
  <2>1. log[t] \in Seq(Events)
    BY DEF TypeOK
  <2>2. log'[t] = IF t = s THEN Append(log[s], e) ELSE log[t]
    BY <1>1 DEF TypeOK
  <2>. QED
    BY <2>1, <2>2, AppendFacts
<1>4. QuestionsPut'
  BY <1>2, <1>3 DEF TalkInv, QuestionsPut, Puts
<1>5. OneIdEach'
  BY <1>2 DEF TalkInv, OneIdEach
<1>6. Consent'
  <2>1. \A type, key, value : Approved(type, key, value) => Approved(type, key, value)'
    BY <1>1, <1>2, ApprovedMore
  <2>. QED
    BY <1>2, <2>1 DEF TalkInv, Consent
<1>7. SaidIsTrue'
  <2>1. SaysTrue(e)
    BY <1>1 DEF TalkInv, SaidIsTrue
  <2>2. \A t \in Sessions : \A i \in DOMAIN log'[t] : SaysTrue(log'[t][i])
    BY <1>3, <2>1 DEF TalkInv, SaidIsTrue
  <2>3. \A t \in Sessions : \A i \in DOMAIN log'[t] : SaysTrue(log[t][i])'
    BY <1>2, <2>2 DEF SaysTrue
  <2>4. \A i \in DOMAIN run'.outbox : SaysTrue(run.outbox[i])'
    BY <1>2 DEF TalkInv, SaidIsTrue, SaysTrue
  <2>. QED
    BY <1>2, <2>3, <2>4 DEF TalkInv, SaidIsTrue
<1>. QED
  BY <1>4, <1>5, <1>6, <1>7 DEF TalkInv

LEMMA WriteTalk ==
    ASSUME TypeOK, TableInv, TalkInv, Write
    PROVE  TalkInv'
<1>1. PICK q \in Seq(Events) : q = run.outbox
  BY DEF TypeOK, Runs
<1>2. /\ q # <<>> /\ run.session \in Sessions
      /\ \E i \in DOMAIN log[run.session] : log[run.session][i] = Head(q)
  BY <1>1 DEF Write, TableInv, HandlerSound, Idle, Down
<1>3. /\ run'.outbox = Tail(q) /\ run'.at = run.at
      /\ UNCHANGED <<log, pending, asked, profile, reminders, memory, saved, answered, lost>>
  BY <1>1 DEF Write, TypeOK, Runs, stores, notes
<1>4. /\ \A i \in DOMAIN Tail(q) : i + 1 \in DOMAIN q /\ Tail(q)[i] = q[i + 1]
      /\ \A i \in DOMAIN q : i = 1 \/ (i - 1 \in DOMAIN Tail(q) /\ Tail(q)[i - 1] = q[i])
      /\ Head(q) = q[1]
  BY <1>2, TailFacts
<1>5. \A i \in DOMAIN q : \/ \E j \in DOMAIN log[run.session] : log[run.session][j] = q[i]
                          \/ \E j \in DOMAIN Tail(q) : Tail(q)[j] = q[i]
  BY <1>2, <1>4
<1>6. QuestionsPut'
  <2>1. ASSUME NEW kind \in DOMAIN pending, NEW i \in 1 .. MAX_PENDING, pending[kind][i] # Free
        PROVE  /\ pending[kind][i].id \in 1 .. asked /\ pending[kind][i].id \notin DOMAIN answered
               /\ kind = "reminder" => pending[kind][i].key = None
               /\ \/ \E s \in Sessions : \E j \in DOMAIN log[s] : Puts(log[s][j], kind, pending[kind][i])
                  \/ \E j \in DOMAIN Tail(q) : Puts(Tail(q)[j], kind, pending[kind][i])
    <3>1. /\ pending[kind][i].id \in 1 .. asked /\ pending[kind][i].id \notin DOMAIN answered
          /\ kind = "reminder" => pending[kind][i].key = None
          /\ \/ \E s \in Sessions : \E j \in DOMAIN log[s] : Puts(log[s][j], kind, pending[kind][i])
             \/ \E j \in DOMAIN q : Puts(q[j], kind, pending[kind][i])
      BY <1>1, <2>1 DEF TalkInv, QuestionsPut
    <3>. QED
      BY <1>2, <1>5, <3>1
  <2>. QED
    BY <1>3, <2>1 DEF QuestionsPut, Puts
<1>7. OneIdEach'
  BY <1>3 DEF TalkInv, OneIdEach
<1>8. Consent'
  <2>1. \A l \in Sensitive : profile'[l] \in {profile[l], None}
    BY <1>3
  <2>. QED
    BY <1>3, <2>1, ConsentStands DEF TalkInv
<1>9. SaidIsTrue'
  <2>1. \A i \in DOMAIN run'.outbox : SaysTrue(run.outbox[i])'
    BY <1>1, <1>3, <1>4 DEF TalkInv, SaidIsTrue, SaysTrue
  <2>2. \A t \in Sessions : \A i \in DOMAIN log'[t] : SaysTrue(log[t][i])'
    BY <1>3 DEF TalkInv, SaidIsTrue, SaysTrue
  <2>. QED
    BY <1>3, <2>1, <2>2 DEF TalkInv, SaidIsTrue
<1>. QED
  BY <1>6, <1>7, <1>8, <1>9 DEF TalkInv

LEMMA RetryStep ==
    ASSUME TypeOK, TableInv, TalkInv, Fail \/ Retry
    PROVE  TypeOK' /\ TableInv' /\ TalkInv'
<1>1. CASE Fail
  <2>. DEFINE q == <<Plain("middleware_retry")>>
  <2>1. q \in Seq(Events) /\ Harmless(q)
    BY HarmlessPlain DEF Types, Versioned, Mark
  <2>2. run' = To("retrying", q) /\ run \in Runs /\ At("failed") /\ ExceptFor(stores)
    BY <1>1 DEF Fail, TypeOK
  <2>. HIDE DEF q
  <2>3. GoesOn(q)
    BY <2>1, <2>2 DEF To, At, GoesOn, Runs, Stages, Working
  <2>. QED
    BY <2>1, <2>2, <2>3, StillStep
<1>2. CASE Retry
  <2>1. run \in Runs /\ At("retrying") /\ run.attempt + 1 < MAX_RETRIES /\ ExceptFor(stores)
        /\ run' = [run EXCEPT !.at = "asking", !.attempt = @ + 1, !.candidate = FALSE]
    BY <1>2 DEF Retry, TypeOK
  <2>2. run.attempt + 1 \in 0 .. MAX_RETRIES - 1
    BY <2>1, ChatAssumption DEF Runs
  <2>3. GoesOn(<<>>)
    BY <2>1, <2>2 DEF At, GoesOn, Runs, Stages, Working
  <2>. QED
    BY <2>1, <2>3, StillStep, None1
<1>. QED
  BY <1>1, <1>2

LEMMA PruneTypes ==
    ASSUME TypeOK, prune_dead_sse_clients
    PROVE  streams' \in [1 .. MAX_SSE_CLIENTS -> Tabs \cup {Free}]
BY DEF TypeOK, prune_dead_sse_clients, Dropped

\* The handler is done, or the process starts.
LEMMA RestStep ==
    ASSUME TypeOK, TableInv, TalkInv, Save \/ Answer \/ Restart
    PROVE  TypeOK' /\ TableInv' /\ TalkInv'
<1>1. /\ run' = Idle /\ run.outbox = <<>> /\ ~run.writing
      /\ UNCHANGED <<topic, slots, file, log, tabs, torn, pending, asked, profile, reminders, memory>>
      /\ UNCHANGED <<stalled, notes>>
      /\ streams' \in [1 .. MAX_SSE_CLIENTS -> Tabs \cup {Free}]
      /\ saved' = memory
  <2>1. CASE Save
    BY <2>1, PruneTypes DEF Save, At
  <2>2. CASE Answer
    BY <2>2, PruneTypes DEF Answer, At, TalkInv, SaidIsTrue, stores
  <2>3. CASE Restart
    BY <2>3 DEF Restart, TalkInv, SaidIsTrue, stores, tables, Down, Idle, TypeOK
  <2>. QED
    BY <2>1, <2>2, <2>3
<1>2. TypeOK'
  BY <1>1, IdleIn DEF TypeOK, notes
<1>3. Idle.at = "idle" /\ Idle.outbox = <<>> /\ ~Idle.writing /\ ~Idle.candidate
  BY DEF Idle
<1>4. HandlerSound' /\ MarkComing' /\ MayRemind' /\ Reminding'
  BY <1>1, <1>3 DEF HandlerSound, MarkComing, MayRemind, Reminding, Has
<1>5. OnePlaceEach' /\ NothingForgotten' /\ PlaceIsMarked' /\ RemindedOnce' /\ RemindedIsMarked'
  BY <1>1, <1>3 DEF TableInv, MarksKept, OnePlaceEach, NothingForgotten, PlaceIsMarked, RemindedOnce,
         RemindedIsMarked, notes
<1>6. TalkInv'
  <2>1. run'.outbox = <<>>
    BY <1>1, <1>3
  <2>2. \A j \in DOMAIN run'.outbox : run'.outbox[j].type \notin Versioned
    BY <2>1
  <2>3. /\ UNCHANGED <<pending, asked, profile, reminders, memory>> /\ UNCHANGED <<log, answered, lost>>
        /\ saved' = memory
    BY <1>1 DEF notes
  <2>. QED
    BY <1>1, <2>2, <2>3, TalkStands
<1>. QED
  BY <1>2, <1>4, <1>5, <1>6 DEF TableInv, MarksKept

\* What a browser or the clock does touches neither the table of sessions nor
\* the stores.
LEMMA OutsideStep ==
    ASSUME TypeOK, TableInv, TalkInv,
           \/ \E t \in Tabs, s \in Chats[topic] : Open(t, s)
           \/ \E t \in Tabs : CloseTab(t)
           \/ Stall
    PROVE  TypeOK' /\ TableInv' /\ TalkInv'
<1>1. /\ UNCHANGED <<topic, slots, file, log, torn, stores, run, notes>> /\ stalled' \in BOOLEAN
      /\ streams' \in [1 .. MAX_SSE_CLIENTS -> Tabs \cup {Free}] /\ tabs' \in [Tabs -> Views]
  <2>1. CASE \E t \in Tabs, s \in Chats[topic] : Open(t, s)
    <3>1. PICK t \in Tabs, s \in Chats[topic] : Open(t, s)
      BY <2>1
    <3>2. s \in Sessions /\ tabs[t] \in Views /\ Len(log[s]) \in Nat
      BY ChatAssumption DEF TypeOK
    <3>3. UNCHANGED <<topic, slots, file, log, torn, stores, stalled, run, notes>>
      BY <3>1 DEF Open
    <3>4. CASE add_sse_client(t) = {}
      <4>. DEFINE view == [tabs[t] EXCEPT !.opened = tabs[t].opened + 1]
      <4>1. view \in Views
        BY <3>2, ViewIn
      <4>2. prune_dead_sse_clients /\ tabs' = [tabs EXCEPT ![t] = view]
        BY <3>1, <3>4 DEF Open
      <4>. HIDE DEF view
      <4>. QED
        BY <3>3, <4>1, <4>2, PruneTypes DEF TypeOK
    <3>5. CASE add_sse_client(t) # {}
      <4>. DEFINE view == [session |-> s, open |-> TRUE, heard |-> <<>>, from |-> Len(log[s]),
                           opened |-> tabs[t].opened + 1]
      <4>0. tabs[t].opened + 1 \in Nat
        BY <3>2, ViewIn DEF Views
      <4>1. view \in Views
        BY <3>2, <4>0 DEF Views
      <4>2. /\ \E i \in add_sse_client(t) : streams' = [streams EXCEPT ![i] = t]
            /\ tabs' = [tabs EXCEPT ![t] = view]
        BY <3>1, <3>5 DEF Open
      <4>. HIDE DEF view
      <4>. QED
        BY <3>3, <4>1, <4>2 DEF TypeOK, add_sse_client
    <3>. QED
      BY <3>4, <3>5
  <2>2. CASE \E t \in Tabs : CloseTab(t)
    <3>1. PICK t \in Tabs : CloseTab(t)
      BY <2>2
    <3>2. [tabs[t] EXCEPT !.open = FALSE] \in Views
      BY ViewIn DEF TypeOK
    <3>3. tabs' = [tabs EXCEPT ![t] = [tabs[t] EXCEPT !.open = FALSE]]
      BY <3>1 DEF CloseTab
    <3>. QED
      BY <3>1, <3>2, <3>3 DEF CloseTab, TypeOK
  <2>3. CASE Stall
    BY <2>3 DEF Stall, tables, TypeOK
  <2>. QED
    BY <2>1, <2>2, <2>3
<1>2. TypeOK'
  BY <1>1 DEF TypeOK, stores, notes
<1>3. TableInv'
  BY <1>1 DEF TableInv, HandlerSound, OnePlaceEach, NothingForgotten, MarksKept, RemindedOnce, RemindedIsMarked,
              PlaceIsMarked, MarkComing, MayRemind, Reminding, Of, Has, notes
<1>4. TalkInv'
  BY <1>1 DEF TalkInv, QuestionsPut, OneIdEach, Consent, Approved, SaidIsTrue, SaysTrue, Puts, stores, notes
<1>. QED
  BY <1>2, <1>3, <1>4

\* An answer to a question: what it permits was put to the user in these words.
LEMMA PermissionStep ==
    ASSUME TypeOK, TableInv, TalkInv,
           NEW kind \in DOMAIN pending, NEW i \in 1 .. MAX_PENDING, NEW approved \in BOOLEAN,
           Permission(kind, i, approved)
    PROVE  TypeOK' /\ TableInv' /\ TalkInv'
<1>0. kind \in {"profile", "reminder"} /\ DOMAIN pending = {"profile", "reminder"}
  BY DEF TypeOK
<1>1. PICK p \in Permissions : p = pending[kind][i] /\ pending[kind][i] # Free
  <2>1. pending[kind] \in [1 .. MAX_PENDING -> Permissions \cup {Free}]
    BY <1>0 DEF TypeOK
  <2>2. pending[kind][i] # Free
    BY DEF Permission
  <2>. QED
    BY <2>1, <2>2
<1>2. p.id \in Nat /\ p.session \in Sessions /\ p.key \in Keys \cup {None} /\ p.value \in Values
  BY <1>1 DEF Permissions
<1>. DEFINE e == Event("permission_resolved", p.key, p.value, p.id)
<1>3. /\ run = Idle /\ asked' = asked
      /\ profile' = IF kind = "profile" /\ approved THEN [profile EXCEPT ![p.key] = p.value] ELSE profile
      /\ reminders' \in {reminders, reminders \cup {p.value}}
      /\ reminders' # reminders => kind = "reminder" /\ approved
      /\ run' = [Idle EXCEPT !.at = "resolved", !.session = p.session, !.outbox = <<e>>]
      /\ answered' = FirstAnswer(p.id, approved)
      /\ pending' = [pending EXCEPT ![kind][i] = Free]
      /\ UNCHANGED <<topic, tables, memory, saved, stalled, reminded, lost>>
  BY <1>1 DEF Permission, Resolved
<1>4. /\ e \in Events /\ e.type = "permission_resolved"
  BY <1>2 DEF Event, Events, Types
<1>5. <<e>> \in Seq(Events) /\ Harmless(<<e>>)
  <2>. HIDE DEF e
  <2>. QED
    BY <1>4, One1 DEF Harmless, Versioned, Mark
<1>6. /\ run' \in Runs /\ run'.session = p.session /\ run'.at = "resolved" /\ run'.outbox = <<e>>
      /\ ~run'.writing /\ ~run'.candidate /\ run.outbox = <<>> /\ ~run.writing
  <2>. HIDE DEF e
  <2>. QED
    BY <1>2, <1>3, <1>5, IdleIn DEF Idle, Runs, Stages
<1>7. /\ p.id \in 1 .. asked /\ p.id \notin DOMAIN answered /\ (kind = "reminder" => p.key = None)
      /\ \E s \in Sessions : \E j \in DOMAIN log[s] : Puts(log[s][j], kind, p)
  BY <1>1, <1>6 DEF TalkInv, QuestionsPut
<1>8. /\ DOMAIN answered' = DOMAIN answered \cup {p.id} /\ answered'[p.id] = approved
      /\ \A id \in DOMAIN answered : answered'[id] = answered[id]
  BY <1>3, <1>7 DEF FirstAnswer
<1>9. /\ pending' \in [{"profile", "reminder"} -> [1 .. MAX_PENDING -> Permissions \cup {Free}]]
      /\ \A k \in {"profile", "reminder"} : \A j \in 1 .. MAX_PENDING :
             pending'[k][j] = IF k = kind /\ j = i THEN Free ELSE pending[k][j]
  BY <1>0, <1>3 DEF TypeOK
<1>10. profile' \in [Keys -> Values \cup {None}] /\ reminders' \subseteq Values
  <2>1. profile \in [Keys -> Values \cup {None}] /\ reminders \subseteq Values
    BY DEF TypeOK
  <2>. QED
    BY <1>2, <1>3, <2>1
<1>11. TypeOK'
  BY <1>3, <1>6, <1>7, <1>8, <1>9, <1>10 DEF TypeOK, tables
<1>12. HandlerSound' /\ MarkComing' /\ MayRemind' /\ Reminding'
  BY <1>2, <1>5, <1>6, HarmlessHasNoMark DEF HandlerSound, MarkComing, MayRemind, Reminding
<1>13. OnePlaceEach' /\ NothingForgotten' /\ PlaceIsMarked' /\ RemindedOnce' /\ RemindedIsMarked'
  BY <1>3, <1>6 DEF TableInv, MarksKept, OnePlaceEach, NothingForgotten, PlaceIsMarked, RemindedOnce,
         RemindedIsMarked, tables
<1>14. OneIdEach'
  BY <1>0, <1>9 DEF TalkInv, OneIdEach, TypeOK
<1>15. QuestionsPut'
  <2>1. ASSUME NEW k \in {"profile", "reminder"}, NEW j \in 1 .. MAX_PENDING, pending'[k][j] # Free
        PROVE  /\ pending'[k][j].id \in 1 .. asked' /\ pending'[k][j].id \notin DOMAIN answered'
               /\ k = "reminder" => pending'[k][j].key = None
               /\ \E s \in Sessions : \E l \in DOMAIN log'[s] : Puts(log'[s][l], k, pending'[k][j])
    <3>1. pending'[k][j] = pending[k][j] /\ pending[k][j] # Free /\ ~(k = kind /\ j = i)
      BY <1>9, <2>1
    <3>2. pending[k][j].id # p.id
      BY <1>0, <1>1, <3>1 DEF TalkInv, OneIdEach
    <3>3. /\ pending[k][j].id \in 1 .. asked /\ pending[k][j].id \notin DOMAIN answered
          /\ k = "reminder" => pending[k][j].key = None
          /\ \E s \in Sessions : \E l \in DOMAIN log[s] : Puts(log[s][l], k, pending[k][j])
      BY <1>0, <1>6, <3>1 DEF TalkInv, QuestionsPut
    <3>4. log' = log /\ asked' = asked
      BY <1>3 DEF tables
    <3>. QED
      BY <1>8, <3>1, <3>2, <3>3, <3>4
  <2>. QED
    BY <1>9, <2>1 DEF QuestionsPut, Puts
<1>16. Consent'
  <2>1. \A type, key, value : Approved(type, key, value) => Approved(type, key, value)'
    BY <1>3, <1>8 DEF Approved, tables
  <2>2. approved => Approved(Question[kind], p.key, p.value)'
    BY <1>3, <1>7, <1>8 DEF Approved, Puts, tables
  <2>3. ASSUME NEW k \in Sensitive, profile'[k] # None
        PROVE  Approved("permission_required", k, profile[k])'
    <3>1. CASE kind = "profile" /\ approved /\ k = p.key
      <4>1. profile'[k] = p.value
        BY <1>3, <3>1, ChatAssumption DEF TypeOK
      <4>2. Question[kind] = "permission_required"
        BY <3>1 DEF Question
      <4>. QED
        BY <2>2, <3>1, <4>1, <4>2 DEF Approved
    <3>2. CASE ~(kind = "profile" /\ approved /\ k = p.key)
      <4>1. profile'[k] = profile[k]
        BY <1>3, <3>2, ChatAssumption DEF TypeOK
      <4>2. Approved("permission_required", k, profile[k])
        BY <2>3, <4>1 DEF TalkInv, Consent
      <4>. QED
        BY <1>3, <1>8, <4>1, <4>2 DEF Approved, tables
    <3>. QED
      BY <3>1, <3>2
  <2>4. ASSUME NEW r \in reminders'
        PROVE  Approved("reminder_permission_required", None, r)'
    <3>1. CASE r \in reminders
      BY <2>1, <3>1 DEF TalkInv, Consent
    <3>2. CASE r \notin reminders
      <4>1. r = p.value /\ kind = "reminder" /\ approved
        BY <1>3, <2>4, <3>2
      <4>2. Question[kind] = "reminder_permission_required" /\ p.key = None
        BY <1>7, <4>1 DEF Question
      <4>. QED
        BY <2>2, <4>1, <4>2
    <3>. QED
      BY <3>1, <3>2
  <2>. QED
    BY <2>3, <2>4 DEF Consent
<1>17. SaidIsTrue'
  <2>1. \A j \in DOMAIN <<e>> : <<e>>[j].type \notin Versioned
    BY <1>5 DEF Harmless
  <2>2. UNCHANGED <<memory, log, lost>> /\ saved' = saved /\ saved = memory
    BY <1>3 DEF tables, TalkInv, SaidIsTrue, Idle
  <2>. QED
    BY <1>5, <1>6, <2>2, SaidStands DEF TalkInv
<1>. QED
  BY <1>11, <1>12, <1>13, <1>14, <1>15, <1>16, <1>17 DEF TableInv, MarksKept, TalkInv

----------------------------------------------------------------------------
\* The streams

\* What a tab that stays has received is all that is due to it, in order.
FollowsWell(t) ==
    /\ \A i \in DOMAIN tabs[t].heard :
           tabs[t].heard[i].session = tabs[t].session /\ tabs[t].heard[i].at \in Due(t)
    /\ \A at \in Due(t) : \E i \in DOMAIN tabs[t].heard : tabs[t].heard[i].at = at
    /\ \A i, j \in DOMAIN tabs[t].heard : i < j => tabs[t].heard[i].at < tabs[t].heard[j].at
    /\ tabs[t].session \in Sessions /\ tabs[t].from <= Len(log[tabs[t].session])
    /\ \E i \in DOMAIN streams : streams[i] = t

LEMMA StreamsAre == StreamsThere <=> \A t \in Tabs : tabs[t].open => FollowsWell(t)
BY DEF StreamsThere, StreamsFollow, FollowsWell

LEMMA StreamsAreNext ==
    ASSUME \A t \in Tabs : tabs'[t].open => FollowsWell(t)'
    PROVE  StreamsThere'
BY DEF StreamsThere, StreamsFollow, FollowsWell

LEMMA FollowsOn ==
    ASSUME NEW t, FollowsWell(t), tabs'[t] = tabs[t], log' = log,
           \E i \in DOMAIN streams' : streams'[i] = t
    PROVE  FollowsWell(t)'
<1>1. Due(t)' = Due(t)
  BY DEF Due
<1>. QED
  BY <1>1 DEF FollowsWell

\* A write that fails frees the places of browsers that have gone alone.
LEMMA DroppedKeeps ==
    ASSUME TypeOK, NEW failed \in SUBSET Broken, NEW t \in Tabs, tabs[t].open,
           NEW i \in DOMAIN streams, streams[i] = t
    PROVE  i \in DOMAIN Dropped(failed) /\ Dropped(failed)[i] = t
BY DEF Broken, Dropped

LEMMA StreamsStill ==
    ASSUME TypeOK, StreamsThere, UNCHANGED <<log, tabs>>, streams' = streams \/ prune_dead_sse_clients
    PROVE  StreamsThere'
<1>1. ASSUME NEW t \in Tabs, tabs'[t].open
      PROVE  FollowsWell(t)'
  <2>1. FollowsWell(t) /\ tabs[t].open
    BY <1>1, StreamsAre
  <2>2. \E i \in DOMAIN streams' : streams'[i] = t
    BY <2>1, DroppedKeeps DEF FollowsWell, prune_dead_sse_clients
  <2>. QED
    BY <2>1, <2>2, FollowsOn
<1>2. \A t \in Tabs : tabs'[t].open => FollowsWell(t)'
  BY <1>1
<1>. QED
  BY <1>2, StreamsAreNext

LEMMA StreamsSay ==
    ASSUME TypeOK, TableInv, StreamsThere, Say
    PROVE  StreamsThere'
<1>1. PICK s \in Sessions, e \in Events :
          /\ server_emit_event(s, e) /\ log' = [log EXCEPT ![s] = Append(@, e)]
  BY SayIs
<1>2. /\ \A t \in Sessions \ {s} : log'[t] = log[t]
      /\ log[s] \in Seq(Events) /\ log'[s] = Append(log[s], e)
  BY <1>1 DEF TypeOK
<1>. DEFINE n == Len(log[s]) + 1
<1>3. /\ n \in Nat /\ Len(log'[s]) = n /\ DOMAIN log'[s] = DOMAIN log[s] \cup {n} /\ n \notin DOMAIN log[s]
      /\ log'[s][n] = e /\ \A i \in DOMAIN log[s] : log'[s][i] = log[s][i] /\ i \in Nat /\ i < n
  BY <1>2, AppendFacts
<1>4. ASSUME NEW t \in Tabs, tabs'[t].open
      PROVE  FollowsWell(t)'
  <2>1. PICK v \in Views : v = tabs[t]
    BY DEF TypeOK
  <2>2. PICK failed \in SUBSET Broken : streams' = Dropped(failed)
    BY <1>1 DEF server_emit_event
  <2>. DEFINE told == e.type \notin Silent /\ v.open
                      /\ \E i \in DOMAIN streams : streams[i] = t /\ Follows(i, s)
              more == Append(v.heard, Sent(s))
  <2>3. tabs'[t] = IF told THEN [v EXCEPT !.heard = more] ELSE v
    BY <1>1, <2>1 DEF server_emit_event
  <2>4. Sent(s) = [session |-> s, at |-> n] /\ Sent(s) \in [session : Sessions, at : Nat]
    BY <1>3 DEF Sent
  <2>5. /\ v.heard \in Seq([session : Sessions, at : Nat])
        /\ more \in Seq([session : Sessions, at : Nat]) /\ Len(more) = Len(v.heard) + 1
        /\ DOMAIN more = DOMAIN v.heard \cup {Len(v.heard) + 1} /\ Len(v.heard) + 1 \notin DOMAIN v.heard
        /\ more[Len(v.heard) + 1] = Sent(s)
        /\ \A i \in DOMAIN v.heard : more[i] = v.heard[i] /\ i \in Nat /\ i < Len(v.heard) + 1
    <3>1. v.heard \in Seq([session : Sessions, at : Nat])
      BY DEF Views
    <3>. QED
      BY <2>4, <3>1, AppendFacts
  <2>6. /\ tabs'[t].session = v.session /\ tabs'[t].from = v.from /\ v.open
        /\ tabs'[t].heard = IF told THEN more ELSE v.heard
    <3>. HIDE DEF told, more
    <3>. QED
      BY <1>4, <2>3, <2>5 DEF Views
  <2>7. FollowsWell(t)
    BY <2>1, <2>6, StreamsAre
  <2>8. PICK i \in DOMAIN streams : streams[i] = t
    BY <2>7 DEF FollowsWell
  <2>9. \E j \in DOMAIN streams' : streams'[j] = t
    BY <2>1, <2>2, <2>6, <2>8, DroppedKeeps
  <2>10. told <=> e.type \notin Silent /\ v.session = s
    <3>1. t # Free
      BY ChatAssumption
    <3>2. \A j \in DOMAIN streams : streams[j] = t => (Follows(j, s) <=> v.session = s)
      BY <2>1, <3>1 DEF Follows
    <3>. QED
      BY <2>6, <2>8, <3>2
  <2>11. CASE told
    <3>1. v.session = s /\ e.type \notin Silent
      BY <2>10, <2>11
    <3>2. Due(t)' = Due(t) \cup {n}
      <4>1. v.from \in Nat /\ v.from < n
        BY <1>3, <2>1, <2>7, <3>1 DEF FollowsWell, Views
      <4>2. Due(t)' = {j \in DOMAIN log'[s] : j > v.from /\ log'[s][j].type \notin Silent}
        BY <2>6, <3>1 DEF Due
      <4>3. Due(t) = {j \in DOMAIN log[s] : j > v.from /\ log[s][j].type \notin Silent}
        BY <2>1, <3>1 DEF Due
      <4>4. log'[s][n].type \notin Silent
        BY <1>3, <3>1
      <4>. HIDE DEF n, told, more
      <4>. QED
        BY <1>3, <4>1, <4>2, <4>3, <4>4
    <3>3. \A i2 \in Due(t) : i2 \in Nat /\ i2 < n
      <4>1. Due(t) \subseteq DOMAIN log[s]
        BY <2>1, <3>1 DEF Due
      <4>. HIDE DEF n
      <4>. QED
        BY <1>3, <4>1
    <3>. HIDE DEF told, more, n
    <3>4. \A j \in DOMAIN tabs'[t].heard :
              \/ j = Len(v.heard) + 1 /\ tabs'[t].heard[j] = Sent(s)
              \/ j \in DOMAIN v.heard /\ tabs'[t].heard[j] = v.heard[j]
      BY <2>5, <2>6, <2>11
    <3>5. \A j \in DOMAIN tabs'[t].heard :
              /\ tabs'[t].heard[j].session = tabs'[t].session
              /\ tabs'[t].heard[j].at \in Due(t)'
      <4>. SUFFICES ASSUME NEW j \in DOMAIN tabs'[t].heard
                    PROVE  /\ tabs'[t].heard[j].session = s
                           /\ tabs'[t].heard[j].at \in Due(t)'
        BY <2>6, <3>1
      <4>1. CASE j = Len(v.heard) + 1 /\ tabs'[t].heard[j] = Sent(s)
        BY <2>4, <3>2, <4>1
      <4>2. CASE j \in DOMAIN v.heard /\ tabs'[t].heard[j] = v.heard[j]
        <5>1. v.heard[j].session = s /\ v.heard[j].at \in Due(t)
          BY <2>1, <2>7, <3>1, <4>2 DEF FollowsWell
        <5>. QED
          BY <3>2, <4>2, <5>1
      <4>. QED
        BY <3>4, <4>1, <4>2
    <3>6. \A at \in Due(t)' : \E j \in DOMAIN tabs'[t].heard : tabs'[t].heard[j].at = at
      <4>. SUFFICES ASSUME NEW at \in Due(t) \cup {n}
                    PROVE  \E j \in DOMAIN more : more[j].at = at
        BY <2>6, <2>11, <3>2
      <4>1. CASE at = n
        BY <2>4, <2>5, <4>1
      <4>2. CASE at \in Due(t)
        <5>1. PICK j \in DOMAIN v.heard : v.heard[j].at = at
          BY <2>1, <2>7, <4>2 DEF FollowsWell
        <5>2. j \in DOMAIN more /\ more[j] = v.heard[j]
          BY <2>5
        <5>. QED
          BY <5>1, <5>2
      <4>. QED
        BY <4>1, <4>2
    <3>7. \A j, k \in DOMAIN tabs'[t].heard : j < k => tabs'[t].heard[j].at < tabs'[t].heard[k].at
      <4>. SUFFICES ASSUME NEW j \in DOMAIN more, NEW k \in DOMAIN more, j < k
                    PROVE  more[j].at < more[k].at
        BY <2>6, <2>11
      <4>0. Len(v.heard) \in Nat
        BY <2>5
      <4>1. j \in DOMAIN v.heard /\ more[j] = v.heard[j]
        <5>1. \A i2 \in DOMAIN more : i2 \in DOMAIN v.heard \/ i2 = Len(v.heard) + 1
          BY <2>5
        <5>2. \A i2 \in DOMAIN v.heard : i2 \in Nat /\ i2 < Len(v.heard) + 1
          BY <2>5
        <5>3. j # Len(v.heard) + 1
          BY <4>0, <5>1, <5>2
        <5>. QED
          BY <2>5, <5>1, <5>3
      <4>2. CASE k \in DOMAIN v.heard
        BY <2>1, <2>5, <2>7, <4>1, <4>2 DEF FollowsWell
      <4>3. CASE k = Len(v.heard) + 1
        BY <2>1, <2>4, <2>5, <2>7, <3>3, <4>1, <4>3 DEF FollowsWell
      <4>. QED
        BY <2>5, <4>2, <4>3
    <3>8. tabs'[t].session \in Sessions /\ tabs'[t].from <= Len(log'[tabs'[t].session])
      <4>1. v.from \in Nat /\ v.from <= Len(log[s]) /\ n = Len(log[s]) + 1 /\ Len(log[s]) \in Nat
        BY <1>2, <2>1, <2>7, <3>1 DEF FollowsWell, Views, n
      <4>. QED
        BY <1>3, <2>6, <3>1, <4>1
    <3>. QED
      BY <2>9, <3>5, <3>6, <3>7, <3>8 DEF FollowsWell
  <2>12. CASE ~told
    <3>1. v.session # s \/ e.type \in Silent
      BY <2>10, <2>12
    <3>. DEFINE u == v.session
    <3>2. u \in Sessions /\ v.from \in Nat /\ v.from <= Len(log[u])
      BY <2>1, <2>7 DEF FollowsWell, Views
    <3>3. Due(t)' = Due(t)
      <4>1. CASE u # s
        <5>1. log'[u] = log[u]
          BY <1>2, <3>2, <4>1
        <5>. QED
          BY <2>1, <2>6, <5>1 DEF Due
      <4>2. CASE u = s /\ e.type \in Silent
        BY <1>3, <2>1, <2>6, <4>2 DEF Due
      <4>. QED
        BY <3>1, <4>1, <4>2
    <3>4. v.from <= Len(log'[u])
      <4>1. CASE u # s
        BY <1>2, <3>2, <4>1
      <4>2. CASE u = s
        <5>1. Len(log[s]) \in Nat
          BY <1>2
        <5>. QED
          BY <1>3, <3>2, <4>2, <5>1
      <4>. QED
        BY <4>1, <4>2
    <3>. HIDE DEF told, more, n
    <3>. QED
      BY <2>1, <2>6, <2>7, <2>9, <2>12, <3>2, <3>3, <3>4 DEF FollowsWell
  <2>. QED
    BY <2>11, <2>12
<1>5. \A t \in Tabs : tabs'[t].open => FollowsWell(t)'
  BY <1>4
<1>. QED
  BY <1>5, StreamsAreNext

LEMMA StreamsOpen ==
    ASSUME TypeOK, StreamsThere, NEW t \in Tabs, NEW s \in Chats[topic], Open(t, s)
    PROVE  StreamsThere'
<1>0. s \in Sessions /\ log' = log /\ ~tabs[t].open
  BY ChatAssumption DEF Open, TypeOK
<1>1. CASE add_sse_client(t) = {}
  <2>1. prune_dead_sse_clients /\ tabs' = [tabs EXCEPT ![t] = [tabs[t] EXCEPT !.opened = tabs[t].opened + 1]]
    BY <1>1 DEF Open
  <2>2. /\ \A u \in Tabs \ {t} : tabs'[u] = tabs[u]
        /\ ~tabs'[t].open
    BY <1>0, <2>1 DEF TypeOK, Views
  <2>3. ASSUME NEW u \in Tabs, tabs'[u].open
        PROVE  FollowsWell(u)'
    <3>1. tabs'[u] = tabs[u] /\ tabs[u].open
      BY <2>2, <2>3
    <3>2. FollowsWell(u)
      BY <3>1, StreamsAre
    <3>3. \E i \in DOMAIN streams' : streams'[i] = u
      BY <2>1, <3>1, <3>2, DroppedKeeps DEF FollowsWell, prune_dead_sse_clients
    <3>. QED
      BY <1>0, <3>1, <3>2, <3>3, FollowsOn
  <2>4. \A u \in Tabs : tabs'[u].open => FollowsWell(u)'
    BY <2>3
  <2>. QED
    BY <2>4, StreamsAreNext
<1>2. CASE add_sse_client(t) # {}
  <2>. DEFINE view == [session |-> s, open |-> TRUE, heard |-> <<>>, from |-> Len(log[s]),
                       opened |-> tabs[t].opened + 1]
  <2>1. PICK i \in DOMAIN streams : streams[i] = Free /\ streams' = [streams EXCEPT ![i] = t]
    BY <1>2 DEF Open, add_sse_client
  <2>2. tabs' = [tabs EXCEPT ![t] = view]
    BY <1>2 DEF Open
  <2>3. tabs'[t] = view /\ \A u \in Tabs \ {t} : tabs'[u] = tabs[u]
    <3>. HIDE DEF view
    <3>. QED
      BY <2>2 DEF TypeOK
  <2>4. /\ DOMAIN streams' = DOMAIN streams /\ streams'[i] = t
        /\ \A j \in DOMAIN streams \ {i} : streams'[j] = streams[j]
    BY <2>1 DEF TypeOK
  <2>5. ASSUME NEW u \in Tabs, tabs'[u].open
        PROVE  FollowsWell(u)'
    <3>1. CASE u = t
      <4>1. /\ tabs'[u].session = s /\ tabs'[u].heard = <<>> /\ tabs'[u].from = Len(log[s])
        BY <2>3, <3>1
      <4>2. log[s] \in Seq(Events) /\ Len(log[s]) \in Nat /\ DOMAIN log[s] = 1 .. Len(log[s])
        BY <1>0 DEF TypeOK
      <4>3. Due(u)' = {}
        BY <1>0, <4>1, <4>2 DEF Due
      <4>4. Len(log[s]) <= Len(log[s])
        BY <4>2
      <4>. HIDE DEF view
      <4>. QED
        BY <1>0, <2>4, <3>1, <4>1, <4>3, <4>4 DEF FollowsWell
    <3>2. CASE u # t
      <4>1. tabs'[u] = tabs[u] /\ FollowsWell(u)
        BY <2>3, <2>5, <3>2, StreamsAre
      <4>2. PICK j \in DOMAIN streams : streams[j] = u
        BY <4>1 DEF FollowsWell
      <4>3. j # i
        BY <2>1, <4>2, ChatAssumption
      <4>. QED
        BY <1>0, <2>4, <4>1, <4>2, <4>3, FollowsOn
    <3>. QED
      BY <3>1, <3>2
  <2>6. \A u \in Tabs : tabs'[u].open => FollowsWell(u)'
    BY <2>5
  <2>. QED
    BY <2>6, StreamsAreNext
<1>. QED
  BY <1>1, <1>2

LEMMA StreamsClose ==
    ASSUME TypeOK, StreamsThere, NEW t \in Tabs, CloseTab(t)
    PROVE  StreamsThere'
<1>1. /\ \A u \in Tabs \ {t} : tabs'[u] = tabs[u]
      /\ ~tabs'[t].open /\ UNCHANGED <<streams, log>>
  BY DEF CloseTab, TypeOK, Views
<1>2. ASSUME NEW u \in Tabs, tabs'[u].open
      PROVE  FollowsWell(u)'
  <2>1. tabs'[u] = tabs[u] /\ FollowsWell(u)
    BY <1>1, <1>2, StreamsAre
  <2>. QED
    <3>1. \E i \in DOMAIN streams' : streams'[i] = u
      BY <1>1, <2>1 DEF FollowsWell
    <3>. QED
      BY <1>1, <2>1, <3>1, FollowsOn
<1>3. \A u \in Tabs : tabs'[u].open => FollowsWell(u)'
  BY <1>2
<1>. QED
  BY <1>3, StreamsAreNext

LEMMA StreamsFall ==
    ASSUME TypeOK, Fall
    PROVE  StreamsThere'
<1>1. \A t \in Tabs : ~tabs'[t].open
  BY DEF Fall, TypeOK, Views
<1>. QED
  BY <1>1 DEF StreamsThere, StreamsFollow

LEMMA StreamsQuiet ==
    ASSUME TypeOK, StreamsThere,
           \/ Write \/ Dismiss \/ (\E answer \in Answers[topic] : Ask(answer)) \/ apply_actions
           \/ Fail \/ Retry \/ Remind \/ Close \/ Save \/ Answer \/ Stall \/ Restart
           \/ (\E s \in Chats[topic], m \in Said[topic] : Message(s, m))
           \/ (\E s \in Chats[topic] : ExportSession(s))
           \/ \E kind \in DOMAIN pending, i \in 1 .. MAX_PENDING, approved \in BOOLEAN :
                  Permission(kind, i, approved)
    PROVE  StreamsThere'
<1>1. CASE apply_actions
  <2>1. UNCHANGED <<log, tabs, streams>>
    BY <1>1, Zenon DEF apply_actions, Reply, CallDeepSearch, NotValid, SetProfile, ClearProfile,
       SetReminder, CreateGoal, UpdateGraph, UnknownGoal, DelayGoal, SetGoalPriority, DropGoal,
       RepairBranch, SaveRepaired, SetRecord, FindMatch, ExceptFor, tables
  <2>. QED
    BY <2>1, StreamsStill
<1>2. CASE ~apply_actions
  <2>1. UNCHANGED <<log, tabs>> /\ (streams' = streams \/ prune_dead_sse_clients)
    BY <1>2, ZenonT(60) DEF Write, Dismiss, Ask, Fail, Retry, Remind, Close, Save, Answer, Stall, Restart,
       Message, ExportSession, Permission, ExceptFor, tables
  <2>. QED
    BY <2>1, StreamsStill
<1>. QED
  BY <1>1, <1>2

----------------------------------------------------------------------------
\* The invariant

LEMMA Begins == Init => IInv
<1>. SUFFICES ASSUME Init PROVE IInv
  OBVIOUS
<1>1. <<>> \in Seq(Events) /\ DOMAIN <<>> = {} /\ Len(<<>>) = 0
  OBVIOUS
<1>2. TypeOK
  <2>1. slots \in [1 .. HISTORY_CAP -> Histories \cup {Free}] /\ streams \in [1 .. MAX_SSE_CLIENTS -> Tabs \cup {Free}]
    BY DEF Init
  <2>2. /\ file \in [Sessions -> Seq(Events)] /\ log \in [Sessions -> Seq(Events)]
        /\ pending \in [{"profile", "reminder"} -> [1 .. MAX_PENDING -> Permissions \cup {Free}]]
    BY DEF Init
  <2>3. memory \in [Things -> Nat] /\ saved \in [Things -> Nat] /\ stalled \in BOOLEAN
    BY DEF Init
  <2>4. NoTab \in Views
    BY DEF NoTab, Views
  <2>5. tabs \in [Tabs -> Views]
    BY <2>4 DEF Init
  <2>6. run \in Runs
    BY IdleIn DEF Init
  <2>7. DOMAIN answered = {}
    BY <1>1 DEF Init
  <2>8. topic \in Topics /\ asked \in Nat /\ profile \in [Keys -> Values \cup {None}] /\ reminders \subseteq Values
    BY DEF Init
  <2>9. reminded \in [Sessions -> Nat] /\ torn \subseteq Sessions /\ lost \subseteq Things
    BY DEF Init
  <2>. QED
    BY <2>1, <2>2, <2>3, <2>5, <2>6, <2>7, <2>8, <2>9 DEF TypeOK
<1>3. /\ run = Idle /\ Idle.at = "idle" /\ Idle.outbox = <<>> /\ ~Idle.writing /\ ~Idle.candidate
      /\ \A i \in DOMAIN slots : slots[i] = Free
      /\ \A s \in Sessions : file[s] = <<>> /\ log[s] = <<>> /\ reminded[s] = 0
      /\ \A kind \in DOMAIN pending : \A i \in 1 .. MAX_PENDING : pending[kind][i] = Free
      /\ \A t \in Tabs : ~tabs[t].open
      /\ memory = saved /\ reminders = {} /\ \A k \in Keys : profile[k] = None
  BY DEF Init, Idle, NoTab
<1>4. HandlerSound /\ OnePlaceEach /\ NothingForgotten
  BY <1>3 DEF HandlerSound, OnePlaceEach, NothingForgotten
<1>5. ~Has(<<>>, Mark)
  BY None1
<1>6. MarksKept
  <2>1. RemindedOnce /\ RemindedIsMarked /\ PlaceIsMarked /\ MarkComing
    BY <1>3, <1>5 DEF RemindedOnce, RemindedIsMarked, PlaceIsMarked, MarkComing
  <2>2. MayRemind /\ Reminding
    BY <1>3 DEF MayRemind, Reminding
  <2>. QED
    BY <2>1, <2>2 DEF MarksKept
<1>7. QuestionsPut /\ OneIdEach
  BY <1>3 DEF QuestionsPut, OneIdEach
<1>8. Consent
  BY <1>3, ChatAssumption DEF Consent
<1>9. SaidIsTrue
  BY <1>1, <1>2, <1>3 DEF SaidIsTrue, TypeOK
<1>10. StreamsThere
  BY <1>3 DEF StreamsThere, StreamsFollow
<1>. QED
  BY <1>2, <1>4, <1>6, <1>7, <1>8, <1>9, <1>10 DEF IInv

LEMMA HandlerSteps ==
    ASSUME TypeOK, TableInv, TalkInv, StreamsThere, Handler
    PROVE  TypeOK' /\ TableInv' /\ TalkInv' /\ StreamsThere'
<1>1. CASE Say
  BY <1>1, SayTable, SayTalk, StreamsSay
<1>2. CASE Write
  BY <1>2, WriteTable, WriteTalk, StreamsQuiet
<1>3. CASE Dismiss
  BY <1>3, DismissTable, TurnTalk, StreamsQuiet
<1>4. ASSUME NEW answer \in Answers[topic], Ask(answer)
      PROVE  TypeOK' /\ TableInv' /\ TalkInv' /\ StreamsThere'
  BY <1>4, AskTable, TurnTalk, StreamsQuiet
<1>5. CASE apply_actions
  BY <1>5, ActionsStand, StreamsQuiet
<1>6. CASE GiveUp \/ LastFailed
  <2>1. Fall
    BY <1>6 DEF GiveUp, LastFailed
  <2>. QED
    BY <2>1, FallTable, FallTalk, StreamsFall
<1>7. CASE Fail \/ Retry
  BY <1>7, RetryStep, StreamsQuiet
<1>8. CASE Remind
  BY <1>8, RemindTable, TurnTalk, StreamsQuiet
<1>9. CASE Close
  BY <1>9, CloseTable, TurnTalk, StreamsQuiet
<1>10. CASE Save \/ Answer
  BY <1>10, RestStep, StreamsQuiet
<1>. QED
  BY <1>1, <1>2, <1>3, <1>4, <1>5, <1>6, <1>7, <1>8, <1>9, <1>10, Zenon DEF Handler

LEMMA RequestSteps ==
    ASSUME TypeOK, TableInv, TalkInv, StreamsThere, Requests
    PROVE  TypeOK' /\ TableInv' /\ TalkInv' /\ StreamsThere'
<1>1. ASSUME NEW s \in Chats[topic], NEW m \in Said[topic], Message(s, m)
      PROVE  TypeOK' /\ TableInv' /\ TalkInv' /\ StreamsThere'
  BY <1>1, MessageTable, TurnTalk, StreamsQuiet
<1>2. ASSUME NEW kind \in DOMAIN pending, NEW i \in 1 .. MAX_PENDING, NEW approved \in BOOLEAN,
             Permission(kind, i, approved)
      PROVE  TypeOK' /\ TableInv' /\ TalkInv' /\ StreamsThere'
  BY <1>2, PermissionStep, StreamsQuiet
<1>3. ASSUME NEW s \in Chats[topic], ExportSession(s)
      PROVE  TypeOK' /\ TableInv' /\ TalkInv' /\ StreamsThere'
  BY <1>3, ExportTable, TurnTalk, StreamsQuiet
<1>4. ASSUME NEW s \in Chats[topic], NEW t \in Tabs, Open(t, s)
      PROVE  TypeOK' /\ TableInv' /\ TalkInv' /\ StreamsThere'
  BY <1>4, OutsideStep, StreamsOpen
<1>. QED
  BY <1>1, <1>2, <1>3, <1>4, Zenon DEF Requests

LEMMA Goes == IInv /\ [Next]_vars => IInv'
<1>. SUFFICES ASSUME TypeOK, TableInv, TalkInv, StreamsThere, [Next]_vars
              PROVE  TypeOK' /\ TableInv' /\ TalkInv' /\ StreamsThere'
  BY DEF IInv, TableInv, TalkInv
<1>1. CASE Handler
  BY <1>1, HandlerSteps
<1>2. CASE Requests
  BY <1>2, RequestSteps
<1>3. ASSUME NEW t \in Tabs, CloseTab(t)
      PROVE  TypeOK' /\ TableInv' /\ TalkInv' /\ StreamsThere'
  BY <1>3, OutsideStep, StreamsClose
<1>4. CASE Stall
  BY <1>4, OutsideStep, StreamsQuiet
<1>5. CASE Crash
  <2>1. Fall
    BY <1>5 DEF Crash
  <2>. QED
    BY <2>1, FallTable, FallTalk, StreamsFall
<1>6. CASE Restart
  BY <1>6, RestStep, StreamsQuiet
<1>7. CASE UNCHANGED vars
  <2>1. TypeOK'
    BY <1>7 DEF vars, TypeOK
  <2>2. TableInv'
    BY <1>7 DEF vars, TableInv, HandlerSound, OnePlaceEach, NothingForgotten, MarksKept,
       RemindedOnce, RemindedIsMarked, PlaceIsMarked, MarkComing, MayRemind, Reminding, Of
  <2>3. TalkInv'
    BY <1>7 DEF vars, TalkInv, QuestionsPut, OneIdEach, Consent, Approved, SaidIsTrue, SaysTrue
  <2>4. StreamsThere'
    BY <1>7, StreamsStill DEF vars
  <2>. QED
    BY <2>1, <2>2, <2>3, <2>4
<1>. QED
  BY <1>1, <1>2, <1>3, <1>4, <1>5, <1>6, <1>7, Zenon DEF Next

\* The invariant of the chat holds of every run, however many turns, questions,
\* streams and crashes there are (middleware.c:2043-2240, sse.c).
THEOREM Inductive == Spec => []IInv
BY Begins, Goes, PTL DEF Spec

\* A session that leaves the table for another, or the process for a start, comes
\* back whole, and its stalled goal is brought up once
\* (get_session_history and load_session_from_disk, middleware.c:300-402).
THEOREM SessionsStayWhole == Spec => []SessionsWhole
<1>1. IInv => SessionsWhole
  <2>. SUFFICES ASSUME IInv PROVE HistoryWhole
    BY DEF IInv, MarksKept, SessionsWhole
  <2>1. TypeOK /\ HandlerSound /\ NothingForgotten
    BY DEF IInv
  <2>. SUFFICES ASSUME run.at \in {"idle", "down"}, NEW s \in Sessions \ torn
                PROVE  get_session_history(s).events = log[s]
    BY DEF HistoryWhole
  <2>2. ~run.writing
    BY <2>1 DEF HandlerSound, Idle, Down
  <2>3. CASE \E i \in DOMAIN slots : Of(i, s) /\ get_session_history(s) = slots[i]
    BY <2>1, <2>3 DEF NothingForgotten, Of
  <2>4. CASE get_session_history(s) = load_session_from_disk(s)
    BY <2>1, <2>2, <2>4 DEF NothingForgotten, load_session_from_disk
  <2>. QED
    BY <2>1, <2>3, <2>4, HistoryOf
<1>. QED
  BY <1>1, Inductive, PTL

\* A browser that stays receives every event of its session, in order and no
\* other session's, whatever the others do and however often the listener
\* clears the table (server_emit_event, prune_dead_sse_clients, sse.c).
THEOREM StreamsStayWhole == Spec => []StreamsFollow
<1>1. IInv => StreamsFollow
  BY DEF IInv, StreamsThere
<1>. QED
  BY <1>1, Inductive, PTL

\* What is personal is in the profile, and a reminder in the list, only with
\* the words the user was asked with and approved
\* (store_pending_permission, ResolveMiddlewarePermission).
THEOREM ConsentHolds == Spec => []Consent
<1>1. IInv => Consent
  BY DEF IInv
<1>. QED
  BY <1>1, Inductive, PTL

\* What the chat says was done to a goal, to the graph or to the user's record
\* is on disk between two requests, but for what a crash took back
\* (apply_actions, SaveUser at the end of the handler).
THEOREM SaidStaysSaved == Spec => []SaidIsSaved
<1>1. IInv => SaidIsSaved
  <2>. SUFFICES ASSUME TypeOK, SaidIsTrue, run.at \in {"idle", "down"},
                       NEW s \in Sessions, NEW i \in DOMAIN log[s],
                       log[s][i].type \in Versioned, log[s][i].key \notin lost
                PROVE  saved[log[s][i].key] >= log[s][i].n
    BY DEF IInv, SaidIsSaved
  <2>1. PICK e \in Events : e = log[s][i]
    BY DEF TypeOK
  <2>2. saved = memory /\ e.key \in Things /\ e.n <= memory[e.key]
    BY <2>1 DEF SaidIsTrue, SaysTrue
  <2>3. e.n \in Nat /\ memory[e.key] \in Nat
    BY <2>1, <2>2 DEF TypeOK, Events
  <2>. QED
    BY <2>1, <2>2, <2>3
<1>. QED
  BY <1>1, Inductive, PTL
=============================================================================
