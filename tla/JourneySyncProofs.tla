-------------------------- MODULE JourneySyncProofs --------------------------
(* That a shared journey is one object, proved for any number of people,    *)
(* steps and pushes: the inductive invariant of JourneySync, what follows   *)
(* from it, and that every step of JourneySync is a step of SharedJourney   *)
(* or none.                                                                 *)
EXTENDS JourneySync, FiniteSetTheorems, SequenceTheorems, WellFoundedInduction, TLAPS

----------------------------------------------------------------------------
\* Versions

LEMMA VersionShape ==
    ASSUME NEW v \in Version
    PROVE  /\ Len(v) \in Sizes \cup {0} /\ Len(v) \in Nat /\ DOMAIN v = 1 .. Len(v)
           /\ \A i \in DOMAIN v : i \in Nat /\ v[i] \in LeafRec
           /\ v = <<>> <=> DOMAIN v = {}
<1>1. PICK n \in Sizes \cup {0} : v \in [1 .. n -> LeafRec]
  BY DEF Version
<1>2. n \in Nat
  BY JourneySyncAssumption
<1>3. v \in Seq(LeafRec) /\ Len(v) = n
  BY <1>1, <1>2
<1>. QED
  BY <1>1, <1>2, <1>3

LEMMA Empty == <<>> \in Version /\ <<>> \in Ordered /\ Slot(<<>>, FALSE) \in GoodSlots
<1>1. <<>> \in [1 .. 0 -> LeafRec]
  OBVIOUS
<1>2. <<>> \in Version
  BY <1>1 DEF Version
<1>. QED
  BY <1>2 DEF Ordered, GoodSlots, Slot

\* A version with another leaf in place of one is a version.
LEMMA VersionChange ==
    ASSUME NEW v \in Version, NEW i \in DOMAIN v, NEW l \in LeafRec
    PROVE  /\ [v EXCEPT ![i] = l] \in Version /\ DOMAIN [v EXCEPT ![i] = l] = DOMAIN v
           /\ \A k \in DOMAIN v : [v EXCEPT ![i] = l][k] = IF k = i THEN l ELSE v[k]
<1>1. PICK n \in Sizes \cup {0} : v \in [1 .. n -> LeafRec]
  BY DEF Version
<1>2. [v EXCEPT ![i] = l] \in [1 .. n -> LeafRec]
  BY <1>1
<1>. QED
  BY <1>1, <1>2 DEF Version

\* The versions of the abstract journey are these.
LEMMA SameVersions == /\ Object!Version = Version
                      /\ \A v : Object!WorkedInOrder(v) <=>
                            \A i \in DOMAIN v :
                               v[i].status # "open" => \A k \in 1 .. i - 1 : v[k].status = "done"
                      /\ Ordered = {v \in Version : Object!WorkedInOrder(v)}
<1>1. Object!Person = Person
  BY DEF Object!Person, Person, ToSet
<1>2. Object!Version = Version
  BY <1>1 DEF Object!Version, Object!LeafRec, Version, LeafRec
<1>. QED
  BY <1>2 DEF Object!WorkedInOrder, Ordered

----------------------------------------------------------------------------
\* Sequences and numbers

LEMMA RemoveStays ==
    ASSUME NEW S, NEW s \in Seq(S), NEW k \in DOMAIN s
    PROVE  RemoveAt(s, k) \in Seq(S)
<1>1. k \in 1 .. Len(s) /\ Len(s) \in Nat
  OBVIOUS
<1>2. SubSeq(s, 1, k - 1) \in Seq(S) /\ SubSeq(s, k + 1, Len(s)) \in Seq(S)
  BY <1>1
<1>. QED
  BY <1>2 DEF RemoveAt

LEMMA LastOf ==
    ASSUME NEW S, NEW s \in Seq(S), s # <<>>
    PROVE  Last(s) \in S
  BY DEF Last

\* The first of some slots.
LEMMA First ==
    ASSUME NEW F \in SUBSET Nat, F # {}
    PROVE  Min(F) \in F /\ \A x \in F : Min(F) <= x
<1>. DEFINE T == {1 .. x : x \in F}
<1>1. \A x \in Nat : 1 .. x \in FiniteSubsetsOf(Nat)
  BY FS_Interval DEF FiniteSubsetsOf
<1>2. T \subseteq FiniteSubsetsOf(Nat) /\ T # {}
  BY <1>1
<1>3. IsWellFoundedOn(StrictSubsetOrdering(Nat), FiniteSubsetsOf(Nat))
  BY FS_StrictSubsetOrderingWellFounded
<1>4. PICK t \in T : \A u \in T : ~(<<u, t>> \in StrictSubsetOrdering(Nat))
  <2>. HIDE DEF T
  <2>. QED
    BY <1>2, <1>3, WFMin
<1>5. PICK m \in F : t = 1 .. m
  BY <1>4
<1>6. ASSUME NEW y \in F, ~(m <= y)
      PROVE  FALSE
  <2>1. 1 .. y \subseteq 1 .. m /\ m \in 1 .. m /\ m \notin 1 .. y
    BY <1>6
  <2>2. <<1 .. y, 1 .. m>> \in (SUBSET Nat) \X (SUBSET Nat)
    OBVIOUS
  <2>3. <<1 .. y, 1 .. m>> \in StrictSubsetOrdering(Nat)
    <3>. DEFINE a == 1 .. y
                b == 1 .. m
    <3>1. a \subseteq b /\ a # b /\ a \in SUBSET Nat /\ b \in SUBSET Nat
      BY <2>1
    <3>. DEFINE p == <<a, b>>
    <3>. HIDE DEF a, b
    <3>2. p \in (SUBSET Nat) \X (SUBSET Nat) /\ p[1] = a /\ p[2] = b
      BY <3>1
    <3>. HIDE DEF p
    <3>3. p \in StrictSubsetOrdering(Nat)
      BY <3>1, <3>2, Zenon DEF StrictSubsetOrdering
    <3>. QED
      BY <3>3 DEF a, b, p
  <2>. QED
    BY <1>4, <1>5, <2>3
<1>. QED
  BY <1>6 DEF Min

LEMMA AtLeastOne ==
    ASSUME NEW t \in 0 .. MaxTroubled
    PROVE  Max({t, 1}) \in 1 .. MaxTroubled
<1>1. \E x \in {t, 1} : \A y \in {t, 1} : x >= y
  BY JourneySyncAssumption
<1>2. Max({t, 1}) \in {t, 1} /\ \A y \in {t, 1} : Max({t, 1}) >= y
  BY <1>1 DEF Max
<1>. QED
  BY <1>2, JourneySyncAssumption

----------------------------------------------------------------------------
\* The invariant in two parts: what goes between the participants and the
\* central server, and what the process keeps.

Wire ==
    /\ central \in Ordered \cup {Gone} /\ flight \in Seq(Ordered)
    /\ told \in Version /\ trouble \in 0 .. MaxTroubled /\ fails \in Nat
    /\ InStep
Kept ==
    /\ copies \in Seq(GoodSlots) /\ file \in [Person -> GoodSlots \cup {NoFile}]
    /\ blanks \in Nat /\ Elsewhere + Len(copies) + blanks <= MAX_JOURNEYS
    /\ listed \subseteq Person
    /\ schedule \in [Person -> [leaves : SUBSET Nat, needs_refresh : BOOLEAN]]
    /\ proposed \in BOOLEAN /\ ended \in Endings
    /\ passes \in Nat /\ restarts \in Nat /\ crashes \in Nat

LEMMA Subsets == Ordered \subseteq Version /\ GoodSlots \subseteq SlotRec /\ Gone \notin Ordered
<1>1. Ordered \subseteq Version
  BY DEF Ordered
<1>2. Gone \notin Version
  BY JourneySyncAssumption
<1>. QED
  BY <1>1, <1>2 DEF GoodSlots, SlotRec

LEMMA Parts == IInv => Wire /\ Kept /\ NothingToldYet
  BY DEF IInv, TypeOK, VersionsGood, Wire, Kept

LEMMA Joined == Wire' /\ Kept' /\ NothingToldYet' => IInv'
<1>. SUFFICES ASSUME Wire', Kept', NothingToldYet'
              PROVE  IInv'
  OBVIOUS
<1>1. VersionsGood'
  BY DEF Wire, Kept, VersionsGood
<1>2. central' \in Version \cup {Gone} /\ flight' \in Seq(Version) /\ copies' \in Seq(SlotRec)
      /\ file' \in [Person -> SlotRec \cup {NoFile}]
  BY <1>1, Subsets DEF VersionsGood
<1>. QED
  BY <1>1, <1>2 DEF IInv, TypeOK, Wire, Kept

----------------------------------------------------------------------------
\* Steps of the abstract journey

ObjectNext == Object!Act \/ Object!Replace \/ Object!Trouble \/ Object!Dismiss
ObjectStep == [ObjectNext]_<<Latest, Troubled>>

\* What the last version is.
LEMMA LatestIs ==
    ASSUME Wire
    PROVE  /\ Latest \in Ordered \cup {Gone} /\ (Latest = Gone <=> central = Gone)
           /\ ~Troubled /\ central # Gone => Latest = told
<1>1. CASE central = Gone \/ flight = <<>>
  BY <1>1 DEF Wire, Latest, InStep
<1>2. CASE central # Gone /\ flight # <<>>
  <2>1. Latest = Last(flight) /\ Last(flight) \in Ordered
    BY <1>2, LastOf DEF Wire, Latest
  <2>2. ~Troubled => Last(flight) \in {told}
    BY <1>2, LastOf, Zenon DEF Wire, InStep
  <2>. QED
    BY <1>2, <2>1, <2>2, Subsets
<1>. QED
  BY <1>1, <1>2

LEMMA LatestIsNext ==
    ASSUME Wire'
    PROVE  /\ Latest' \in Ordered \cup {Gone} /\ (Latest' = Gone <=> central' = Gone)
           /\ ~Troubled' /\ central' # Gone => Latest' = told'
<1>1. CASE central' = Gone \/ flight' = <<>>
  BY <1>1 DEF Wire, Latest, InStep
<1>2. CASE central' # Gone /\ flight' # <<>>
  <2>1. Latest' = Last(flight') /\ Last(flight') \in Ordered
    BY <1>2, LastOf DEF Wire, Latest
  <2>2. ~Troubled' => Last(flight') \in {told'}
    BY <1>2, LastOf, Zenon DEF Wire, InStep
  <2>. QED
    BY <1>2, <2>1, <2>2, Subsets
<1>. QED
  BY <1>1, <1>2

\* A step of JourneySync is one of the abstract journey when trouble stays and
\* the last version stays, is gone, is one of those people may get to after
\* trouble, or is where one action leads.
LEMMA ObjectMoves ==
    ASSUME Troubled => Troubled',
           \/ Latest' = Latest
           \/ Latest' = Gone
           \/ Troubled' /\ Latest # Gone /\ Latest' \in Ordered
           \/ ~Troubled' /\ Latest # Gone /\ Latest' \in Object!Steps(Latest)
    PROVE  ObjectStep
<1>. Troubled \in BOOLEAN /\ Troubled' \in BOOLEAN
  BY DEF Troubled
<1>1. CASE Latest' = Latest
  BY <1>1 DEF ObjectStep, ObjectNext, Object!Trouble
<1>2. CASE Latest' = Gone
  BY <1>2 DEF ObjectStep, ObjectNext, Object!Dismiss
<1>3. CASE Troubled' /\ Latest # Gone /\ Latest' \in Ordered
  BY <1>3, SameVersions DEF ObjectStep, ObjectNext, Object!Replace
<1>4. CASE ~Troubled' /\ Latest # Gone /\ Latest' \in Object!Steps(Latest)
  BY <1>4 DEF ObjectStep, ObjectNext, Object!Act
<1>. QED
  BY <1>1, <1>2, <1>3, <1>4

----------------------------------------------------------------------------
\* What goes over the wire

LEMMA TroubleTold ==
    ASSUME Wire, NEW u \in Version, Tell(u)
    PROVE  /\ told' \in {u, <<>>} /\ told' \in Version /\ trouble' \in 0 .. MaxTroubled
           /\ Troubled => Troubled'
           /\ ~Troubled' => ~Troubled /\ flight = <<>> /\ fails' = fails /\ told' = u
<1>1. CASE Troubled \/ flight # <<>> \/ fails' # fails
  BY <1>1, Empty, JourneySyncAssumption DEF Tell, Troubled, Wire
<1>2. CASE ~(Troubled \/ flight # <<>> \/ fails' # fails)
  BY <1>2, JourneySyncAssumption DEF Tell, Troubled, Wire
<1>. QED
  BY <1>1, <1>2

LEMMA Still ==
    ASSUME Wire, UNCHANGED <<central, flight, told, trouble, fails>>
    PROVE  Wire' /\ ObjectStep
<1>1. Wire'
  BY DEF Wire, InStep, Troubled
<1>. QED
  BY <1>1, ObjectMoves DEF Troubled, Latest

LEMMA Quiet ==
    ASSUME Wire, UNCHANGED <<central, flight>>, NEW f \in {0, 1, 2}, Connect(f), Tell(told)
    PROVE  Wire' /\ ObjectStep /\ told' \in {told, <<>>}
<1>1. told \in Version
  BY DEF Wire
<1>2. /\ told' \in {told, <<>>} /\ told' \in Version /\ trouble' \in 0 .. MaxTroubled
      /\ Troubled => Troubled'
      /\ ~Troubled' => ~Troubled /\ flight = <<>> /\ told' = told
  BY <1>1, TroubleTold
<1>3. fails' \in Nat
  BY DEF Wire, Connect
<1>4. InStep'
  BY <1>2 DEF InStep, Wire
<1>. QED
  BY <1>2, <1>3, <1>4, ObjectMoves DEF Wire, Latest

\* A push of the version: when nothing has gone wrong it is the one the
\* participants are told of, and one action leads to it.
LEMMA Pushed ==
    ASSUME Wire, UNCHANGED central, NEW v \in Ordered, NEW u \in Version,
           NEW n \in {1, 2}, NEW f \in {0, 1},
           PushJourneyToCentral(v, n, f), Tell(u),
           f = 0 /\ told = central /\ central # Gone =>
               u = v /\ (v = central \/ v \in Object!Steps(central))
    PROVE  Wire' /\ ObjectStep /\ told' \in {u, <<>>}
<1>1. /\ told' \in {u, <<>>} /\ told' \in Version /\ trouble' \in 0 .. MaxTroubled
      /\ Troubled => Troubled'
      /\ ~Troubled' => ~Troubled /\ flight = <<>> /\ fails' = fails /\ told' = u
  BY TroubleTold
<1>. DEFINE pushes == [k \in 1 .. n |-> v]
<1>2. pushes \in Seq({v}) /\ pushes \in Seq(Ordered) /\ pushes # <<>>
  OBVIOUS
<1>3. fails \in Nat /\ flight \in Seq(Ordered)
  BY DEF Wire
<1>4. /\ flight' = flight \o pushes \/ flight' = flight
      /\ fails' = fails => flight' = flight \o pushes /\ f = 0
      /\ fails' \in Nat
  <2>1. \/ fails' = fails + f /\ flight' = flight \o pushes
        \/ fails' = fails + (f + 1) /\ flight' = flight
    BY DEF PushJourneyToCentral, Connect
  <2>. HIDE DEF pushes
  <2>. QED
    BY <2>1, <1>3
<1>. HIDE DEF pushes
<1>5. flight' \in Seq(Ordered)
  <2>1. pushes \in Seq(Ordered)
    BY <1>2
  <2>2. flight \o pushes \in Seq(Ordered)
    BY <2>1, <1>3
  <2>. QED
    BY <2>2, <1>3, <1>4
<1>6. ~Troubled' => flight' = pushes
  BY <1>1, <1>2, <1>4
<1>7. ~Troubled' /\ central # Gone =>
         u = v /\ told = central /\ (v = central \/ v \in Object!Steps(central))
  BY <1>1, <1>4 DEF Wire, InStep
<1>8. Wire'
  BY <1>1, <1>2, <1>4, <1>5, <1>6, <1>7 DEF Wire, InStep
<1>9. ObjectStep
  <2>1. CASE central = Gone
    BY <2>1, <1>1, ObjectMoves DEF Latest
  <2>2. CASE central # Gone /\ Troubled'
    BY <2>2, <1>1, <1>8, LatestIs, LatestIsNext, ObjectMoves
  <2>3. CASE central # Gone /\ ~Troubled'
    <3>1. Latest = central /\ Latest' = v
      BY <2>3, <1>1, <1>7, <1>8, LatestIs, LatestIsNext
    <3>. QED
      BY <3>1, <2>3, <1>1, <1>7, ObjectMoves
  <2>. QED
    BY <2>1, <2>2, <2>3
<1>. QED
  BY <1>1, <1>8, <1>9

LEMMA Delivered ==
    ASSUME Wire, NEW k \in DOMAIN flight, Deliver(k)
    PROVE  Wire' /\ ObjectStep
<1>1. flight \in Seq(Ordered) /\ flight[k] \in Ordered /\ flight # <<>>
  BY DEF Wire
<1>2. flight' \in Seq(Ordered)
  BY <1>1, RemoveStays DEF Deliver
<1>3. central' = IF central = Gone THEN Gone ELSE flight[k]
  BY DEF Deliver, handle_update_shared_journey
<1>4. ~Troubled /\ central # Gone => flight[k] = told /\ flight' \in Seq({told})
  <2>. SUFFICES ASSUME ~Troubled, central # Gone
                PROVE  flight[k] = told /\ flight' \in Seq({told})
    OBVIOUS
  <2>1. flight \in Seq({told})
    BY DEF Wire, InStep
  <2>. QED
    BY <2>1, RemoveStays DEF Deliver
<1>5. UNCHANGED <<told, trouble, fails>> /\ (Troubled' <=> Troubled)
  BY DEF Deliver, Troubled
<1>6. Wire'
  BY <1>1, <1>2, <1>3, <1>4, <1>5 DEF Wire, InStep
<1>7. CASE central = Gone
  BY <1>7, <1>3, <1>5, <1>6, ObjectMoves DEF Latest
<1>8. CASE central # Gone /\ Troubled
  <2>1. Latest' \in Ordered /\ Latest # Gone
    BY <1>8, <1>1, <1>3, <1>6, LatestIs, LatestIsNext, Subsets
  <2>. QED
    BY <2>1, <1>5, <1>6, <1>8, ObjectMoves
<1>9. CASE central # Gone /\ ~Troubled
  <2>1. central' # Gone
    BY <1>9, <1>1, <1>3, Subsets
  <2>2. Latest = told /\ Latest' = told'
    BY <2>1, <1>5, <1>6, <1>9, LatestIs, LatestIsNext
  <2>. QED
    BY <2>2, <1>5, <1>6, ObjectMoves
<1>. QED
  BY <1>6, <1>7, <1>8, <1>9

LEMMA Dismissed ==
    ASSUME Wire, central' = Gone, UNCHANGED flight, Connect(0), Tell(told)
    PROVE  Wire' /\ ObjectStep /\ told' \in {told, <<>>}
<1>1. told \in Version /\ fails' \in Nat
  BY DEF Wire, Connect
<1>2. /\ told' \in {told, <<>>} /\ told' \in Version /\ trouble' \in 0 .. MaxTroubled
      /\ Troubled => Troubled'
  BY <1>1, TroubleTold
<1>3. Wire'
  BY <1>1, <1>2 DEF Wire, InStep
<1>. QED
  BY <1>2, <1>3, ObjectMoves DEF Latest

\* The process is started again, or ends; what was on its way may be lost.
LEMMA Stopped ==
    ASSUME Wire, UNCHANGED <<central, fails>>, flight' = <<>> \/ flight' = flight,
           \/ UNCHANGED <<trouble, told>> /\ flight' = flight
           \/ trouble' = Max({trouble, 1}) /\ told' = <<>>
    PROVE  Wire' /\ ObjectStep
<1>1. CASE UNCHANGED <<trouble, told>> /\ flight' = flight
  BY <1>1, Still
<1>2. CASE trouble' = Max({trouble, 1}) /\ told' = <<>>
  <2>1. trouble' \in 1 .. MaxTroubled
    BY <1>2, AtLeastOne DEF Wire
  <2>2. Troubled'
    BY <2>1 DEF Troubled
  <2>3. Wire'
    <3>1. flight' \in Seq(Ordered)
      <4>1. <<>> \in Seq(Ordered)
        OBVIOUS
      <4>. QED
        BY <4>1, Zenon DEF Wire
    <3>2. InStep'
      BY <2>2 DEF InStep
    <3>3. trouble' \in 0 .. MaxTroubled
      <4>1. MaxTroubled \in Nat
        BY JourneySyncAssumption
      <4>. QED
        BY <2>1, <4>1
    <3>4. told' \in Version
      BY <1>2, Empty, Zenon
    <3>. QED
      BY <3>1, <3>2, <3>3, <3>4 DEF Wire
  <2>4. Latest' = Gone \/ (Latest # Gone /\ Latest' \in Ordered)
    BY <2>3, LatestIs, LatestIsNext
  <2>. QED
    BY <2>2, <2>3, <2>4, ObjectMoves
<1>. QED
  BY <1>1, <1>2

----------------------------------------------------------------------------
\* What the process keeps

LEMMA GoodSlot ==
    ASSUME NEW s \in GoodSlots
    PROVE  /\ s.goals \in Ordered /\ s.goals \in Version /\ s.shared \in BOOLEAN
           /\ s.shared \/ s.goals = <<>>
  BY Subsets DEF GoodSlots

LEMMA SharedSlot ==
    ASSUME NEW v \in Ordered
    PROVE  Slot(v, TRUE) \in GoodSlots /\ Slot(v, TRUE).goals = v /\ Slot(v, TRUE).shared
  BY DEF Slot, GoodSlots

\* The slots after a fetch that finds a slot or a journey: the first has the
\* version of the central server, if there is one.
LEMMA Fetched ==
    ASSUME Wire, Kept
    PROVE  /\ FetchSharedJourney \in Seq(GoodSlots)
           /\ copies # <<>> => Len(FetchSharedJourney) = Len(copies)
           /\ copies = <<>> => Len(FetchSharedJourney) \in {0, 1}
           /\ ~BlankSlot => /\ Len(FetchSharedJourney) > 0 /\ FetchSharedJourney[1].shared
                            /\ central # Gone => FetchSharedJourney[1].goals = central
           /\ BlankSlot => FetchSharedJourney = <<>>
<1>1. central \in Ordered \cup {Gone} /\ copies \in Seq(GoodSlots) /\ Slot(<<>>, FALSE) \in GoodSlots
  BY Empty DEF Wire, Kept
<1>2. \A s \in GoodSlots : /\ LoadJourneyFromBuffer(s) \in GoodSlots
                           /\ LoadJourneyFromBuffer(s).shared
                           /\ central # Gone => LoadJourneyFromBuffer(s).goals = central
  BY <1>1, GoodSlot, SharedSlot DEF LoadJourneyFromBuffer
<1>3. CASE copies # <<>>
  <2>1. 1 \in DOMAIN copies /\ copies[1] \in GoodSlots
    BY <1>1, <1>3
  <2>. DEFINE l == LoadJourneyFromBuffer(copies[1])
  <2>2. FetchSharedJourney = [copies EXCEPT ![1] = l]
    BY <1>3 DEF FetchSharedJourney
  <2>3. l \in GoodSlots /\ l.shared /\ (central # Gone => l.goals = central)
    BY <1>2, <2>1
  <2>. HIDE DEF l
  <2>4. FetchSharedJourney[1] = l /\ Len(FetchSharedJourney) = Len(copies) /\ Len(copies) > 0
    BY <1>1, <2>1, <2>2
  <2>5. FetchSharedJourney \in Seq(GoodSlots)
    BY <1>1, <2>1, <2>2, <2>3, ExceptSeq
  <2>. QED
    BY <1>3, <2>3, <2>4, <2>5 DEF BlankSlot
<1>4. CASE copies = <<>>
  <2>. DEFINE l == LoadJourneyFromBuffer(Slot(<<>>, FALSE))
  <2>1. FetchSharedJourney = IF central # Gone THEN <<l>> ELSE <<>>
    BY <1>4 DEF FetchSharedJourney
  <2>2. l \in GoodSlots /\ l.shared /\ (central # Gone => l.goals = central)
    BY <1>1, <1>2
  <2>. HIDE DEF l
  <2>. QED
    BY <1>4, <2>1, <2>2 DEF BlankSlot
<1>. QED
  BY <1>3, <1>4

LEMMA Saved ==
    ASSUME file \in [Person -> GoodSlots \cup {NoFile}], NEW p \in Person,
           NEW slots \in Seq(GoodSlots), SaveUser(p, slots)
    PROVE  file' \in [Person -> GoodSlots \cup {NoFile}]
<1>1. CASE p \in listed /\ slots # <<>>
  <2>1. slots[1] \in GoodSlots
    BY <1>1
  <2>. QED
    BY <1>1, <2>1 DEF SaveUser
<1>2. CASE ~(p \in listed /\ slots # <<>>)
  BY <1>2 DEF SaveUser
<1>. QED
  BY <1>1, <1>2

LEMMA Marked ==
    ASSUME schedule \in [Person -> [leaves : SUBSET Nat, needs_refresh : BOOLEAN]],
           NEW p \in Person, Mark(p)
    PROVE  /\ schedule' \in [Person -> [leaves : SUBSET Nat, needs_refresh : BOOLEAN]]
           /\ \A q \in Person : schedule'[q].leaves = schedule[q].leaves
  BY DEF Mark

LEMMA Refreshed ==
    ASSUME schedule \in [Person -> [leaves : SUBSET Nat, needs_refresh : BOOLEAN]],
           NEW p \in Person, NEW slots \in Seq(GoodSlots), RefreshSchedule(p, slots)
    PROVE  /\ schedule' \in [Person -> [leaves : SUBSET Nat, needs_refresh : BOOLEAN]]
           /\ \A q \in Person \ {p} : schedule'[q] = schedule[q]
           /\ schedule'[p].leaves # {} => /\ p \in listed /\ slots # <<>>
                                          /\ schedule'[p].leaves \subseteq DOMAIN slots[1].goals
<1>. DEFINE v == IF p \in listed /\ slots # <<>> THEN slots[1].goals ELSE <<>>
            mine == {i \in DOMAIN v : slots[1].shared => v[i].who = p}
            open == {i \in mine : v[i].status = "open"}
            leaves == IF mine = open THEN {} ELSE open
<1>1. v \in Version
  <2>1. slots # <<>> => slots[1] \in GoodSlots
    OBVIOUS
  <2>. QED
    BY <2>1, GoodSlot, Empty
<1>2. leaves \subseteq DOMAIN v
  OBVIOUS
<1>3. DOMAIN v \subseteq Nat
  BY <1>1, VersionShape
<1>4. schedule' = [schedule EXCEPT ![p] = [leaves |-> leaves, needs_refresh |-> FALSE]]
  BY DEF RefreshSchedule
<1>5. leaves # {} => p \in listed /\ slots # <<>> /\ v = slots[1].goals
  <2>1. ASSUME v = <<>>
        PROVE  leaves = {}
    BY <2>1
  <2>. QED
    BY <2>1
<1>. HIDE DEF leaves, v
<1>6. leaves \in SUBSET Nat
  BY <1>2, <1>3
<1>7. schedule'[p].leaves = leaves /\ \A q \in Person \ {p} : schedule'[q] = schedule[q]
  BY <1>4
<1>8. schedule' \in [Person -> [leaves : SUBSET Nat, needs_refresh : BOOLEAN]]
  BY <1>4, <1>6
<1>. QED
  BY <1>2, <1>5, <1>7, <1>8

LEMMA PeopleFinite == IsFiniteSet(Person)
<1>1. Participants \in Seq(Person)
  BY JourneySyncAssumption
<1>2. Person = {Participants[k] : k \in 1 .. Len(Participants)}
  BY <1>1 DEF Person, ToSet
<1>3. Participants \in Surjection(1 .. Len(Participants), Person)
  BY <1>1, <1>2 DEF Surjection
<1>4. IsFiniteSet(1 .. Len(Participants))
  BY <1>1, FS_Interval
<1>. QED
  BY <1>3, <1>4, FS_Surjection

----------------------------------------------------------------------------
\* Working on a step

Ops == {"start", "end", "reassign"}

LEMMA OutcomeLeaf ==
    ASSUME NEW v \in Version, NEW i \in DOMAIN v, NEW op \in Ops, NEW l \in Outcomes(v, i, op)
    PROVE  /\ l \in LeafRec
           /\ \/ op = "start" /\ v[i].status = "open" /\ l.status = "running" /\ l.who = v[i].who
                 /\ \A k \in 1 .. i - 1 : v[k].status = "done"
              \/ op = "end" /\ v[i].status = "running" /\ l.status = "done" /\ l.who = v[i].who
              \/ op = "reassign" /\ v[i].status = "open" /\ l.status = "open"
<1>1. v[i] \in LeafRec
  BY VersionShape
<1>2. CASE op = "start"
  <2>1. l = [v[i] EXCEPT !.status = "running"] /\ can_start_leaf(v, i)
    BY <1>2 DEF Outcomes
  <2>. QED
    BY <1>1, <1>2, <2>1 DEF can_start_leaf, LeafRec
<1>3. CASE op = "end"
  <2>1. l = [v[i] EXCEPT !.status = "done"] /\ v[i].status = "running"
    BY <1>3 DEF Outcomes
  <2>. QED
    BY <1>1, <1>3, <2>1 DEF LeafRec
<1>4. CASE op = "reassign"
  <2>1. v[i].status = "open" /\ \E q \in Person : l = Leaf(q)
    BY <1>4 DEF Outcomes
  <2>. QED
    BY <1>4, <2>1 DEF Leaf, LeafRec
<1>. QED
  BY <1>2, <1>3, <1>4 DEF Ops

\* An operation keeps the order of the steps, and is an action of the abstract
\* journey.
LEMMA OutcomeOrdered ==
    ASSUME NEW v \in Ordered, NEW i \in DOMAIN v, NEW op \in Ops, NEW l \in Outcomes(v, i, op)
    PROVE  /\ [v EXCEPT ![i] = l] \in Ordered
           /\ [v EXCEPT ![i] = l] \in Object!Steps(v)
<1>. DEFINE w == [v EXCEPT ![i] = l]
<1>1. v \in Version /\ \A j \in DOMAIN v :
                          v[j].status # "open" => \A k \in 1 .. j - 1 : v[k].status = "done"
  BY DEF Ordered
<1>2. /\ l \in LeafRec
      /\ \/ v[i].status = "open" /\ l.status = "running" /\ l.who = v[i].who
            /\ \A k \in 1 .. i - 1 : v[k].status = "done"
         \/ v[i].status = "running" /\ l.status = "done" /\ l.who = v[i].who
         \/ v[i].status = "open" /\ l.status = "open"
  BY <1>1, OutcomeLeaf
<1>3. /\ w \in Version /\ DOMAIN w = DOMAIN v
      /\ \A k \in DOMAIN v : w[k] = IF k = i THEN l ELSE v[k]
  BY <1>1, <1>2, VersionChange
<1>4. DOMAIN v = 1 .. Len(v) /\ Len(v) \in Nat /\ v # <<>>
  BY <1>1, VersionShape
<1>. HIDE DEF w
<1>5. ASSUME NEW j \in DOMAIN w, w[j].status # "open", NEW k \in 1 .. j - 1
      PROVE  w[k].status = "done"
  <2>1. j \in DOMAIN v /\ k \in DOMAIN v /\ j \in Nat /\ k \in Nat /\ i \in Nat /\ k < j
    BY <1>3, <1>4, <1>5
  <2>2. CASE j = i
    <3>1. k # i /\ w[k] = v[k] /\ w[j] = l
      BY <1>3, <2>1, <2>2
    <3>2. CASE v[i].status = "open" /\ l.status = "running" /\ \A m \in 1 .. i - 1 : v[m].status = "done"
      BY <3>1, <3>2, <2>2
    <3>3. CASE v[i].status = "running"
      BY <1>1, <3>1, <3>3, <2>2
    <3>. QED
      BY <1>2, <1>5, <3>1, <3>2, <3>3
  <2>3. CASE j # i
    <3>1. w[j] = v[j] /\ \A m \in 1 .. j - 1 : v[m].status = "done"
      BY <1>1, <1>3, <1>5, <2>1, <2>3
    <3>2. k # i
      <4>1. ASSUME k = i
            PROVE  v[i].status = "done"
        BY <3>1, <4>1
      <4>. QED
        BY <1>2, <4>1
    <3>. QED
      BY <1>3, <2>1, <3>1, <3>2
  <2>. QED
    BY <2>2, <2>3
<1>6. w \in Ordered
  BY <1>3, <1>5 DEF Ordered
<1>7. w \in Object!Changed(v)
  <2>1. Object!Person = Person
    BY DEF Object!Person, Person, ToSet
  <2>2. l \in Object!LeafRec
    BY <1>2, <2>1 DEF LeafRec, Object!LeafRec
  <2>3. w \in {[v EXCEPT ![i] = m] : m \in Object!LeafRec}
    BY <2>2, Zenon DEF w
  <2>4. Object!Changed(v) = UNION {{[v EXCEPT ![k] = m] : m \in Object!LeafRec} : k \in DOMAIN v}
    BY Zenon DEF Object!Changed
  <2>. DEFINE Put(k) == {[v EXCEPT ![k] = m] : m \in Object!LeafRec}
  <2>5. Put(i) \in {Put(k) : k \in DOMAIN v}
    OBVIOUS
  <2>6. w \in Put(i) /\ Object!Changed(v) = UNION {Put(k) : k \in DOMAIN v}
    BY <2>3, <2>4, Zenon
  <2>. HIDE DEF Put
  <2>. QED
    BY <2>5, <2>6
<1>8. Object!WorkedInOrder(w)
  BY <1>5 DEF Object!WorkedInOrder
<1>9. \A j \in DOMAIN v :
         \/ w[j] = v[j]
         \/ v[j].status = "open" /\ w[j].status = "running" /\ w[j].who = v[j].who
         \/ v[j].status = "running" /\ w[j].status = "done" /\ w[j].who = v[j].who
         \/ v[j].status = "open" /\ w[j].status = "open"
  BY <1>2, <1>3
<1>10. w \in Object!Steps(v)
  BY <1>4, <1>7, <1>8, <1>9 DEF Object!Steps
<1>. QED
  BY <1>6, <1>10 DEF w

\* What the AI makes of the root is a journey on which nobody has begun.
LEMMA RootCreated ==
    ASSUME NEW owners \in Owners
    PROVE  RoundRobin(owners) \in Ordered /\ RoundRobin(owners) \in Object!Steps(<<>>)
<1>. DEFINE v == RoundRobin(owners)
<1>1. /\ Participants \in Seq(Person) /\ Len(Participants) > 1
      /\ owners \in Seq(Person \cup {NoOne}) /\ Len(owners) \in Sizes
      /\ Sizes \subseteq Nat \ {0, 1}
  BY JourneySyncAssumption
<1>2. ASSUME NEW i \in DOMAIN owners
      PROVE  v[i] \in LeafRec /\ v[i].status = "open"
  <2>. DEFINE k == ((i - 1) % Len(Participants)) + 1
              who == IF owners[i] = NoOne THEN Participants[k] ELSE owners[i]
  <2>1. i \in Nat /\ i > 0 /\ owners[i] \in Person \cup {NoOne}
    BY <1>1, <1>2
  <2>2. k \in 1 .. Len(Participants)
    BY <1>1, <2>1
  <2>. HIDE DEF k
  <2>3. Participants[k] \in Person
    BY <1>1, <2>2
  <2>4. v[i] = Leaf(who)
    BY <1>2 DEF RoundRobin, k
  <2>5. who \in Person
    BY <2>1, <2>3
  <2>. HIDE DEF who
  <2>. QED
    BY <2>4, <2>5 DEF Leaf, LeafRec
<1>3. DOMAIN v = 1 .. Len(owners) /\ Len(owners) \in Nat \ {0, 1}
  <2>1. DOMAIN v = DOMAIN owners
    BY DEF RoundRobin
  <2>. HIDE DEF v
  <2>2. DOMAIN owners = 1 .. Len(owners)
    BY <1>1
  <2>3. Len(owners) \in Nat \ {0, 1}
    BY <1>1
  <2>. QED
    BY <2>1, <2>2, <2>3
<1>4. v \in [1 .. Len(owners) -> LeafRec]
  BY <1>1, <1>2 DEF RoundRobin
<1>. HIDE DEF v
<1>5. v \in Version
  BY <1>1, <1>4 DEF Version
<1>6. DOMAIN v = DOMAIN owners
  BY <1>1, <1>3
<1>7. v \in Ordered
  BY <1>2, <1>5, <1>6 DEF Ordered
<1>8. v # <<>>
  BY <1>3
<1>9. v \in Object!Created
  BY <1>2, <1>5, <1>6, <1>8, SameVersions DEF Object!Created
<1>. QED
  BY <1>7, <1>9 DEF v, Object!Steps

\* The slots with one leaf changed.
WithLeaf(slots, at, i, leaf) == [slots EXCEPT ![at].goals[i] = leaf]

LEMMA SlotChanged ==
    ASSUME NEW slots \in Seq(GoodSlots), NEW at \in DOMAIN slots, NEW op \in Ops,
           NEW i \in DOMAIN slots[at].goals, NEW leaf \in Outcomes(slots[at].goals, i, op),
           NEW changed, changed = WithLeaf(slots, at, i, leaf)
    PROVE  /\ changed \in Seq(GoodSlots) /\ Len(changed) = Len(slots)
           /\ changed[at].goals = [slots[at].goals EXCEPT ![i] = leaf]
           /\ \A k \in DOMAIN slots :
                 /\ k # at => changed[k] = slots[k]
                 /\ DOMAIN changed[k].goals = DOMAIN slots[k].goals
<1>1. slots[at] \in GoodSlots
  OBVIOUS
<1>2. slots[at].goals \in Ordered /\ slots[at].goals \in Version /\ slots[at].shared
  <2>1. slots[at].goals # <<>>
    OBVIOUS
  <2>. QED
    BY <1>1, <2>1, GoodSlot
<1>. DEFINE s == [slots[at] EXCEPT !.goals = [slots[at].goals EXCEPT ![i] = leaf]]
<1>3. changed = [slots EXCEPT ![at] = s]
  BY DEF WithLeaf
<1>4. s.goals = [slots[at].goals EXCEPT ![i] = leaf] /\ s.shared = slots[at].shared
      /\ s \in [goals : {s.goals}, shared : BOOLEAN]
  BY <1>1, <1>2 DEF GoodSlots
<1>5. s.goals \in Ordered
  BY <1>2, <1>4, OutcomeOrdered
<1>6. DOMAIN s.goals = DOMAIN slots[at].goals
  BY <1>4
<1>. HIDE DEF s
<1>7. s \in GoodSlots
  BY <1>2, <1>4, <1>5 DEF GoodSlots
<1>8. at \in 1 .. Len(slots) /\ DOMAIN slots = 1 .. Len(slots)
  OBVIOUS
<1>9. /\ changed \in Seq(GoodSlots) /\ Len(changed) = Len(slots)
      /\ \A k \in 1 .. Len(slots) : changed[k] = IF k = at THEN s ELSE slots[k]
  BY <1>3, <1>7, <1>8, ExceptSeq
<1>. QED
  BY <1>4, <1>6, <1>8, <1>9

LEMMA FoundIn ==
    ASSUME NEW slots \in Seq(GoodSlots), NEW i, FindGoal(slots, i) # {}
    PROVE  /\ Min(FindGoal(slots, i)) \in DOMAIN slots
           /\ i \in DOMAIN slots[Min(FindGoal(slots, i))].goals
           /\ Min(FindGoal(slots, i)) > 1 => Len(slots) > 1 /\ i \notin DOMAIN slots[1].goals
           /\ Min(FindGoal(slots, i)) \in Nat \ {0} /\ Len(slots) > 0
<1>. DEFINE F == FindGoal(slots, i)
<1>1. F \in SUBSET Nat /\ DOMAIN slots = 1 .. Len(slots) /\ F \subseteq DOMAIN slots
  BY DEF FindGoal
<1>2. Min(F) \in F /\ \A x \in F : Min(F) <= x
  <2>. HIDE DEF F
  <2>. QED
    BY <1>1, First DEF F
<1>3. Min(F) \in DOMAIN slots /\ i \in DOMAIN slots[Min(F)].goals
  BY <1>2 DEF FindGoal
<1>4. 1 \in DOMAIN slots /\ i \in DOMAIN slots[1].goals => Min(F) <= 1
  BY <1>2 DEF FindGoal
<1>. HIDE DEF F
<1>. QED
  BY <1>1, <1>3, <1>4 DEF F

\* What one who works on a step does.
LEMMA LeafChanged ==
    ASSUME Wire, Kept, NothingToldYet,
           NEW p \in Person, NEW slots \in Seq(GoodSlots), NEW i, NEW op \in Ops, NEW f \in {0, 1},
           Elsewhere + Len(slots) + blanks <= MAX_JOURNEYS,
           f = 0 /\ central # Gone /\ slots # <<>> =>
               slots[1].goals = central \/ (op # "reassign" /\ slots[1].goals = <<>>),
           ChangeLeaf(p, slots, i, op, f)
    PROVE  Wire' /\ Kept' /\ NothingToldYet' /\ ObjectStep
<1>. DEFINE at == Min(FindGoal(slots, i))
<1>1. CASE Connect(f) /\ Refused(slots) /\ Tell(told)
  <2>1. Wire' /\ ObjectStep /\ told' \in {told, <<>>}
    BY <1>1, Quiet DEF Refused
  <2>2. Kept'
    BY <1>1 DEF Refused, Kept
  <2>3. NothingToldYet'
    BY <1>1, <2>1 DEF Refused, NothingToldYet
  <2>. QED
    BY <2>1, <2>2, <2>3
<1>2. CASE End("broken tree")
  <2>1. UNCHANGED <<central, flight, local, proposed, told, trouble, passes, fails, restarts, crashes>>
        /\ ended' = "broken tree"
    BY <1>2 DEF End
  <2>2. Wire' /\ ObjectStep
    BY <2>1, Still
  <2>. QED
    BY <2>1, <2>2 DEF Kept, NothingToldYet, local, Endings
<1>3. ASSUME FindGoal(slots, i) # {}, at > 1 => op = "reassign",
             NEW leaf \in Outcomes(slots[at].goals, i, op), NEW changed,
             changed = WithLeaf(slots, at, i, leaf),
             copies' = changed,
             PushJourneyToCentral(changed[1].goals, Pushes(op), f),
             SaveUser(p, changed),
             Tell(IF i \in DOMAIN told THEN [told EXCEPT ![i] = leaf] ELSE told),
             IF op = "end" THEN Mark(p) ELSE UNCHANGED schedule,
             IF op = "reassign" THEN passes < MaxPasses /\ passes' = passes + 1 ELSE UNCHANGED passes,
             UNCHANGED <<central, blanks, listed, proposed, ended, restarts, crashes>>
      PROVE  Wire' /\ Kept' /\ NothingToldYet' /\ ObjectStep
  <2>. DEFINE u == IF i \in DOMAIN told THEN [told EXCEPT ![i] = leaf] ELSE told
  <2>1. /\ at \in DOMAIN slots /\ i \in DOMAIN slots[at].goals
        /\ at > 1 => i \notin DOMAIN slots[1].goals
        /\ at \in Nat \ {0} /\ Len(slots) > 0 /\ 1 \in DOMAIN slots
    BY <1>3, FoundIn
  <2>. HIDE DEF at
  <2>2. /\ changed \in Seq(GoodSlots) /\ Len(changed) = Len(slots)
        /\ changed[at].goals = [slots[at].goals EXCEPT ![i] = leaf]
        /\ \A k \in DOMAIN slots : k # at => changed[k] = slots[k]
    BY <1>3, <2>1, SlotChanged
  <2>3. changed[1] \in GoodSlots /\ slots[at] \in GoodSlots
    BY <2>1, <2>2
  <2>4. changed[1].goals \in Ordered /\ slots[at].goals \in Ordered /\ slots[at].goals \in Version
    BY <2>3, GoodSlot
  <2>5. leaf \in LeafRec
    BY <1>3, <2>1, <2>4, OutcomeLeaf
  <2>6. u \in Version /\ told \in Version /\ (told = <<>> => u = <<>>)
    BY <2>5, VersionChange DEF Wire
  <2>7. f = 0 /\ told = central /\ central # Gone =>
            /\ u = changed[1].goals
            /\ changed[1].goals = central \/ changed[1].goals \in Object!Steps(central)
    <3>. SUFFICES ASSUME f = 0, told = central, central # Gone
                  PROVE  /\ u = changed[1].goals
                         /\ changed[1].goals = central \/ changed[1].goals \in Object!Steps(central)
      OBVIOUS
    <3>1. slots[1].goals = central \/ (op # "reassign" /\ slots[1].goals = <<>>)
      BY <2>1
    <3>2. CASE at = 1
      <4>1. slots[1].goals = central
        BY <2>1, <3>1, <3>2
      <4>2. changed[1].goals = [central EXCEPT ![i] = leaf] /\ i \in DOMAIN central
        BY <2>1, <2>2, <3>2, <4>1
      <4>3. [central EXCEPT ![i] = leaf] \in Object!Steps(central)
        BY <1>3, <2>4, <3>2, <4>1, <4>2, OutcomeOrdered
      <4>. QED
        BY <4>2, <4>3
    <3>3. CASE at # 1
      <4>1. at > 1 /\ op = "reassign"
        BY <1>3, <2>1, <3>3
      <4>2. slots[1].goals = central /\ i \notin DOMAIN central
        BY <2>1, <3>1, <4>1
      <4>. QED
        BY <2>1, <2>2, <3>3, <4>2
    <3>. QED
      BY <3>2, <3>3
  <2>8. Tell(u) /\ Pushes(op) \in {1, 2}
    BY <1>3 DEF Pushes
  <2>. HIDE DEF u
  <2>9. Wire' /\ ObjectStep /\ told' \in {u, <<>>}
    BY <1>3, <2>4, <2>6, <2>7, <2>8, Pushed
  <2>10. NothingToldYet'
    BY <1>3, <2>6, <2>9 DEF NothingToldYet
  <2>11. file' \in [Person -> GoodSlots \cup {NoFile}]
    BY <1>3, <2>2, Saved DEF Kept
  <2>12. schedule' \in [Person -> [leaves : SUBSET Nat, needs_refresh : BOOLEAN]]
    BY <1>3, Marked DEF Kept
  <2>13. passes' \in Nat
    BY <1>3 DEF Kept
  <2>14. Kept'
    BY <1>3, <2>2, <2>11, <2>12, <2>13 DEF Kept
  <2>. QED
    BY <2>9, <2>10, <2>14
<1>. QED
  BY <1>1, <1>2, <1>3, Zenon DEF ChangeLeaf, WithLeaf

----------------------------------------------------------------------------
\* The steps, one by one

Before == Wire /\ Kept /\ NothingToldYet
After == Wire' /\ Kept' /\ NothingToldYet' /\ ObjectStep

LEMMA EndGood ==
    ASSUME Before, NEW why \in Endings, End(why)
    PROVE  After
<1>1. UNCHANGED <<central, flight, local, proposed, told, trouble, passes, fails, restarts, crashes>>
      /\ ended' = why
  BY DEF End
<1>2. Wire' /\ ObjectStep
  BY <1>1, Still DEF Before
<1>3. Kept' /\ NothingToldYet'
  BY <1>1 DEF Before, Kept, NothingToldYet, local
<1>. QED
  BY <1>2, <1>3 DEF After

LEMMA RefusedGood ==
    ASSUME Before, NEW slots \in Seq(GoodSlots), Elsewhere + Len(slots) + blanks <= MAX_JOURNEYS,
           NEW f \in {0, 1, 2}, Connect(f), Refused(slots), Tell(told)
    PROVE  After
<1>1. Wire' /\ ObjectStep /\ told' \in {told, <<>>}
  BY Quiet DEF Refused, Before
<1>2. Kept'
  BY DEF Refused, Before, Kept
<1>3. NothingToldYet'
  BY <1>1 DEF Refused, Before, NothingToldYet
<1>. QED
  BY <1>1, <1>2, <1>3 DEF After

LEMMA NoConnectionGood ==
    ASSUME Before, NoConnection
    PROVE  After
<1>1. copies \in Seq(GoodSlots) /\ Elsewhere + Len(copies) + blanks <= MAX_JOURNEYS
  BY DEF Before, Kept
<1>. QED
  BY <1>1, RefusedGood DEF NoConnection

\* There is a place for what is fetched.
LEMMA FetchFits ==
    ASSUME Before, ~NoRoom
    PROVE  /\ FetchSharedJourney \in Seq(GoodSlots)
           /\ Elsewhere + Len(FetchSharedJourney) + blanks <= MAX_JOURNEYS
           /\ ~BlankSlot => /\ Len(FetchSharedJourney) > 0 /\ FetchSharedJourney[1].shared
                            /\ central # Gone => FetchSharedJourney[1].goals = central
<1>1. /\ FetchSharedJourney \in Seq(GoodSlots)
      /\ copies # <<>> => Len(FetchSharedJourney) = Len(copies)
      /\ copies = <<>> => Len(FetchSharedJourney) \in {0, 1}
      /\ ~BlankSlot => /\ Len(FetchSharedJourney) > 0 /\ FetchSharedJourney[1].shared
                       /\ central # Gone => FetchSharedJourney[1].goals = central
  BY Fetched DEF Before
<1>2. /\ Elsewhere + Len(copies) + blanks <= MAX_JOURNEYS
      /\ blanks \in Nat /\ Elsewhere \in Nat /\ MAX_JOURNEYS \in Nat /\ copies \in Seq(GoodSlots)
  BY JourneySyncAssumption DEF Before, Kept
<1>3. copies = <<>> => Elsewhere + blanks < MAX_JOURNEYS
  BY <1>2 DEF NoRoom, TableFull
<1>4. Elsewhere + Len(FetchSharedJourney) + blanks <= MAX_JOURNEYS
  <2>1. CASE copies # <<>>
    BY <1>1, <1>2, <2>1
  <2>2. CASE copies = <<>>
    <3>. DEFINE n == Len(FetchSharedJourney)
    <3>1. n \in {0, 1} /\ Elsewhere + blanks < MAX_JOURNEYS
      BY <1>1, <1>3, <2>2
    <3>. HIDE DEF n
    <3>2. Elsewhere + n + blanks <= MAX_JOURNEYS
      BY <3>1, <1>2
    <3>. QED
      BY <3>2 DEF n
  <2>. QED
    BY <2>1, <2>2
<1>. QED
  BY <1>1, <1>4

LEMMA SharedActionGood ==
    ASSUME Before, NEW p \in Person, NEW i, NEW op \in Ops, handle_post_goal_shared_action(p, i, op)
    PROVE  After
<1>1. CASE NoConnection
  BY <1>1, NoConnectionGood
<1>2. CASE NoRoom /\ End("journey table")
  BY <1>2, EndGood DEF Endings
<1>3. CASE /\ BlankSlot /\ ~NoRoom
           /\ blanks' = blanks + 1
           /\ Connect(0) /\ Tell(told)
           /\ UNCHANGED <<central, flight, copies, listed, file, schedule, proposed, ended,
                          passes, restarts, crashes>>
  <2>1. Wire' /\ ObjectStep /\ told' \in {told, <<>>}
    BY <1>3, Quiet DEF Before
  <2>2. Elsewhere + Len(copies') + blanks' <= MAX_JOURNEYS /\ blanks' \in Nat
    <3>1. copies = <<>> /\ ~(Elsewhere + Len(copies) + blanks >= MAX_JOURNEYS)
      BY <1>3 DEF BlankSlot, NoRoom, TableFull
    <3>2. Len(copies) \in Nat /\ blanks \in Nat /\ Elsewhere \in Nat /\ MAX_JOURNEYS \in Nat
      BY <3>1, JourneySyncAssumption DEF Before, Kept
    <3>. QED
      BY <1>3, <3>1, <3>2
  <2>3. Kept'
    BY <1>3, <2>2 DEF Before, Kept
  <2>4. NothingToldYet'
    BY <1>3, <2>1 DEF Before, NothingToldYet
  <2>. QED
    BY <2>1, <2>3, <2>4 DEF After
<1>4. CASE ~BlankSlot /\ ~NoRoom /\ ChangeLeaf(p, FetchSharedJourney, i, op, 0)
  <2>1. PICK slots \in Seq(GoodSlots) :
            /\ slots = FetchSharedJourney /\ Elsewhere + Len(slots) + blanks <= MAX_JOURNEYS
            /\ central # Gone => slots[1].goals = central
    BY <1>4, FetchFits
  <2>2. ChangeLeaf(p, slots, i, op, 0)
    BY <1>4, <2>1
  <2>. QED
    BY <2>1, <2>2, LeafChanged DEF Before, After
<1>. QED
  BY <1>1, <1>2, <1>3, <1>4, Zenon DEF handle_post_goal_shared_action

LEMMA FoundAnywhereGood ==
    ASSUME Before, NEW p \in Person, NEW i, NEW op \in {"start", "end"},
           NEW found \in find_goal_any_journey(p), ChangeLeaf(p, found[1], i, op, found[2])
    PROVE  After
<1>1. p \in listed /\ copies # <<>> /\ copies \in Seq(GoodSlots)
      /\ Elsewhere + Len(copies) + blanks <= MAX_JOURNEYS
  BY DEF find_goal_any_journey, Before, Kept
<1>2. op \in Ops
  BY DEF Ops
<1>3. CASE found = <<FetchSharedJourney, 0>>
  <2>1. ~NoRoom /\ ~BlankSlot
    BY <1>1 DEF NoRoom, BlankSlot
  <2>2. PICK slots \in Seq(GoodSlots) :
            /\ slots = FetchSharedJourney /\ Elsewhere + Len(slots) + blanks <= MAX_JOURNEYS
            /\ central # Gone => slots[1].goals = central
    BY <2>1, FetchFits
  <2>3. ChangeLeaf(p, slots, i, op, 0)
    BY <1>3, <2>2
  <2>. QED
    BY <1>2, <2>2, <2>3, LeafChanged DEF Before, After
<1>4. CASE found = <<copies, 1>>
  <2>1. PICK slots \in Seq(GoodSlots) : slots = copies
    BY <1>1
  <2>2. ChangeLeaf(p, slots, i, op, 1)
    BY <1>4, <2>1
  <2>. QED
    BY <1>1, <1>2, <2>1, <2>2, LeafChanged DEF Before, After
<1>5. CASE found = <<copies, 0>> /\ ~copies[1].shared
  <2>1. PICK slots \in Seq(GoodSlots) : slots = copies
    BY <1>1
  <2>2. copies[1] \in GoodSlots
    BY <1>1
  <2>3. slots[1].goals = <<>>
    BY <1>5, <2>1, <2>2, GoodSlot
  <2>4. ChangeLeaf(p, slots, i, op, 0)
    BY <1>5, <2>1
  <2>. QED
    BY <1>1, <1>2, <2>1, <2>3, <2>4, LeafChanged DEF Before, After
<1>. QED
  BY <1>1, <1>3, <1>4, <1>5 DEF find_goal_any_journey

LEMMA StartGood ==
    ASSUME Before, NEW p \in Person, NEW i,
           handle_post_goal_start(p, i) \/ handle_post_goal_status_action(p, i)
    PROVE  After
  BY FoundAnywhereGood, Zenon DEF handle_post_goal_start, handle_post_goal_status_action

LEMMA RootGood ==
    ASSUME Before, NEW p \in Person, handle_post_goal_create_shared_root(p)
    PROVE  After
<1>1. CASE NoConnection
  BY <1>1, NoConnectionGood
<1>2. CASE NoRoom /\ End("journey table")
  BY <1>2, EndGood DEF Endings
<1>3. CASE BlankSlot /\ ~NoRoom /\ End("unknown journey")
  BY <1>3, EndGood DEF Endings
<1>4. ASSUME ~BlankSlot, ~NoRoom, proposed, NEW owners \in Owners, NEW v, v = RoundRobin(owners),
             NEW changed, changed = [FetchSharedJourney EXCEPT ![1].goals = v],
             copies' = changed, PushJourneyToCentral(v, 1, 0), SaveUser(p, changed), Tell(v),
             proposed' = FALSE, Mark(p),
             UNCHANGED <<central, blanks, listed, ended, passes, restarts, crashes>>
      PROVE  After
  <2>1. v \in Ordered /\ v \in Version /\ v \in Object!Steps(<<>>)
    BY <1>4, RootCreated, Subsets
  <2>2. PICK slots \in Seq(GoodSlots) :
            /\ slots = FetchSharedJourney /\ Elsewhere + Len(slots) + blanks <= MAX_JOURNEYS
            /\ Len(slots) > 0 /\ slots[1].shared
    BY <1>4, FetchFits
  <2>3. slots[1] \in GoodSlots /\ 1 \in 1 .. Len(slots)
    BY <2>2
  <2>. DEFINE s == [slots[1] EXCEPT !.goals = v]
  <2>4. s \in GoodSlots
    BY <2>1, <2>2, <2>3 DEF GoodSlots
  <2>5. changed = [slots EXCEPT ![1] = s]
    BY <1>4, <2>2
  <2>. HIDE DEF s
  <2>6. changed \in Seq(GoodSlots) /\ Len(changed) = Len(slots)
    BY <2>3, <2>4, <2>5, ExceptSeq
  <2>7. told = <<>>
    BY <1>4 DEF Before, NothingToldYet
  <2>8. Wire' /\ ObjectStep
    BY <1>4, <2>1, <2>7, Pushed DEF Before
  <2>9. file' \in [Person -> GoodSlots \cup {NoFile}]
    BY <1>4, <2>6, Saved DEF Before, Kept
  <2>10. schedule' \in [Person -> [leaves : SUBSET Nat, needs_refresh : BOOLEAN]]
    BY <1>4, Marked DEF Before, Kept
  <2>11. Kept'
    BY <1>4, <2>2, <2>6, <2>9, <2>10 DEF Before, Kept
  <2>. QED
    BY <1>4, <2>8, <2>11 DEF After, NothingToldYet
<1>. QED
  BY <1>1, <1>2, <1>3, <1>4, Zenon DEF handle_post_goal_create_shared_root

LEMMA DismissGood ==
    ASSUME Before, NEW p \in Person, handle_post_journey_dismiss(p)
    PROVE  After
<1>1. /\ copies # <<>> /\ copies' = Tail(copies)
      /\ listed' = listed \ {p} /\ file' = [file EXCEPT ![p] = NoFile]
      /\ Tell(told)
      /\ UNCHANGED <<flight, blanks, schedule, proposed, ended, passes, restarts, crashes>>
  BY DEF handle_post_journey_dismiss
<1>2. Wire' /\ ObjectStep /\ told' \in {told, <<>>}
  <2>1. CASE Connect(0) /\ central' = Gone
    BY <1>1, <2>1, Dismissed DEF Before
  <2>2. CASE (Connect(0) \/ Connect(1)) /\ UNCHANGED central
    BY <1>1, <2>2, Quiet DEF Before
  <2>. QED
    BY <2>1, <2>2 DEF handle_post_journey_dismiss
<1>3. Kept'
  <2>1. /\ copies \in Seq(GoodSlots) /\ Elsewhere + Len(copies) + blanks <= MAX_JOURNEYS
        /\ blanks \in Nat /\ Elsewhere \in Nat /\ MAX_JOURNEYS \in Nat
    BY JourneySyncAssumption DEF Before, Kept
  <2>2. copies' \in Seq(GoodSlots) /\ Len(copies') = Len(copies) - 1
    BY <1>1, <2>1
  <2>3. Elsewhere + Len(copies') + blanks' <= MAX_JOURNEYS
    BY <1>1, <2>1, <2>2
  <2>4. listed' \subseteq Person /\ file' \in [Person -> GoodSlots \cup {NoFile}]
    BY <1>1 DEF Before, Kept
  <2>. QED
    BY <1>1, <2>2, <2>3, <2>4 DEF Before, Kept
<1>4. NothingToldYet'
  BY <1>1, <1>2 DEF Before, NothingToldYet
<1>. QED
  BY <1>2, <1>3, <1>4 DEF After

LEMMA ListGood ==
    ASSUME Before, NEW p \in Person, handle_list_shared_journeys(p)
    PROVE  After
<1>1. Wire' /\ ObjectStep
  BY Still DEF Before, handle_list_shared_journeys
<1>2. file' \in [Person -> GoodSlots \cup {NoFile}]
  <2>1. copies # <<>> => copies[1] \in GoodSlots
    BY DEF Before, Kept
  <2>. QED
    BY <2>1 DEF Before, Kept, handle_list_shared_journeys
<1>3. Kept' /\ NothingToldYet'
  BY <1>2 DEF Before, Kept, NothingToldYet, handle_list_shared_journeys
<1>. QED
  BY <1>1, <1>3 DEF After

\* The slots a schedule is made from.
LEMMA ScheduleSlots ==
    ASSUME Before, NEW p \in Person, handle_get_schedule(p)
    PROVE  \E slots \in Seq(GoodSlots), f \in {0, 1} :
              /\ Elsewhere + Len(slots) + blanks <= MAX_JOURNEYS
              /\ Connect(f) /\ copies' = slots /\ RefreshSchedule(p, slots)
              /\ slots = copies \/ slots = FetchSharedJourney
<1>1. PICK f \in {0, 1} :
          LET fetched == p \in listed /\ copies # <<>> /\ copies[1].shared
              slots == IF fetched /\ f = 0 THEN FetchSharedJourney ELSE copies
          IN  /\ f = 1 => fetched
              /\ Connect(f)
              /\ copies' = slots /\ RefreshSchedule(p, slots)
  BY Zenon DEF handle_get_schedule
<1>2. copies \in Seq(GoodSlots) /\ Elsewhere + Len(copies) + blanks <= MAX_JOURNEYS
  BY DEF Before, Kept
<1>3. copies # <<>> =>
          /\ FetchSharedJourney \in Seq(GoodSlots)
          /\ Elsewhere + Len(FetchSharedJourney) + blanks <= MAX_JOURNEYS
          /\ central # Gone => FetchSharedJourney[1].goals = central
  BY FetchFits DEF NoRoom, BlankSlot
<1>4. CASE p \in listed /\ copies # <<>> /\ copies[1].shared /\ f = 0
  BY <1>1, <1>3, <1>4
<1>5. CASE ~(p \in listed /\ copies # <<>> /\ copies[1].shared /\ f = 0)
  BY <1>1, <1>2, <1>5
<1>. QED
  BY <1>4, <1>5

LEMMA GetScheduleGood ==
    ASSUME Before, NEW p \in Person, handle_get_schedule(p)
    PROVE  After
<1>1. PICK slots \in Seq(GoodSlots), f \in {0, 1} :
          /\ Elsewhere + Len(slots) + blanks <= MAX_JOURNEYS
          /\ Connect(f) /\ copies' = slots /\ RefreshSchedule(p, slots)
  BY ScheduleSlots
<1>2. /\ Tell(told)
      /\ UNCHANGED <<central, flight, blanks, listed, file, proposed, ended, passes, restarts, crashes>>
  BY DEF handle_get_schedule
<1>3. Wire' /\ ObjectStep /\ told' \in {told, <<>>}
  BY <1>1, <1>2, Quiet DEF Before
<1>4. schedule' \in [Person -> [leaves : SUBSET Nat, needs_refresh : BOOLEAN]]
  BY <1>1, Refreshed DEF Before, Kept
<1>5. Kept'
  BY <1>1, <1>2, <1>4 DEF Before, Kept
<1>6. NothingToldYet'
  BY <1>2, <1>3 DEF Before, NothingToldYet
<1>. QED
  BY <1>3, <1>5, <1>6 DEF After

LEMMA SerializeGood ==
    ASSUME Before, NEW p \in Person, SerializeScheduleData(p)
    PROVE  After
<1>1. CASE End("schedule")
  BY <1>1, EndGood DEF Endings
<1>2. CASE /\ RefreshSchedule(p, copies)
           /\ UNCHANGED <<central, flight, copies, blanks, listed, file, proposed, ended, told,
                          trouble, passes, fails, restarts, crashes>>
  <2>1. Wire' /\ ObjectStep
    BY <1>2, Still DEF Before
  <2>2. PICK slots \in Seq(GoodSlots) : slots = copies
    BY DEF Before, Kept
  <2>3. schedule' \in [Person -> [leaves : SUBSET Nat, needs_refresh : BOOLEAN]]
    BY <1>2, <2>2, Refreshed DEF Before, Kept
  <2>4. Kept' /\ NothingToldYet'
    BY <1>2, <2>3 DEF Before, Kept, NothingToldYet
  <2>. QED
    BY <2>1, <2>4 DEF After
<1>. QED
  BY <1>1, <1>2, Zenon DEF SerializeScheduleData

LEMMA DeliverGood ==
    ASSUME Before, NEW k \in DOMAIN flight, Deliver(k)
    PROVE  After
<1>1. Wire' /\ ObjectStep
  BY Delivered DEF Before
<1>2. Kept' /\ NothingToldYet'
  BY DEF Before, Kept, NothingToldYet, Deliver, local
<1>. QED
  BY <1>1, <1>2 DEF After

\* The journeys a start loads are those of the files.
LEMMA Loaded ==
    ASSUME Before, InitUserSystem, restarts' \in Nat, crashes' \in Nat
    PROVE  Kept'
<1>1. file \in [Person -> GoodSlots \cup {NoFile}] /\ listed \subseteq Person /\ copies \in Seq(GoodSlots)
  BY DEF Before, Kept
<1>2. IsFiniteSet(listed) /\ Cardinality(listed) \in Nat
  BY <1>1, PeopleFinite, FS_Subset, FS_CardinalityType
<1>3. ASSUME NEW order \in SetToSeqs(listed)
      PROVE  /\ load_user_journeys(order) \in Seq(GoodSlots)
             /\ Len(load_user_journeys(order)) = Cardinality(listed)
  <2>1. order \in [1 .. Cardinality(listed) -> listed]
    BY <1>3 DEF SetToSeqs
  <2>2. \A k \in 1 .. Cardinality(listed) :
            (IF file[order[k]] = NoFile THEN Slot(<<>>, FALSE) ELSE file[order[k]]) \in GoodSlots
    BY <1>1, <2>1, Empty
  <2>3. load_user_journeys(order) \in [1 .. Cardinality(listed) -> GoodSlots]
    BY <2>1, <2>2 DEF load_user_journeys
  <2>. QED
    BY <1>2, <2>3
<1>4. schedule' \in [Person -> [leaves : SUBSET Nat, needs_refresh : BOOLEAN]]
  BY DEF InitUserSystem
<1>5. CASE /\ Elsewhere + Cardinality(listed) <= MAX_JOURNEYS
           /\ \E order \in SetToSeqs(listed) : copies' = load_user_journeys(order)
           /\ UNCHANGED ended
  <2>1. copies' \in Seq(GoodSlots) /\ Len(copies') = Cardinality(listed)
    BY <1>3, <1>5
  <2>2. Elsewhere + Len(copies') + 0 <= MAX_JOURNEYS
    BY <1>2, <1>5, <2>1, JourneySyncAssumption
  <2>. QED
    BY <1>4, <1>5, <2>1, <2>2 DEF InitUserSystem, Before, Kept
<1>6. CASE /\ ended' = "journey table"
           /\ UNCHANGED copies
  <2>1. Elsewhere + Len(copies) + 0 <= MAX_JOURNEYS
    BY <1>1, JourneySyncAssumption DEF Before, Kept
  <2>. QED
    BY <1>4, <1>6, <2>1 DEF InitUserSystem, Before, Kept, Endings
<1>. QED
  BY <1>5, <1>6 DEF InitUserSystem

LEMMA RestartGood ==
    ASSUME Before, Restart
    PROVE  After
<1>1. /\ restarts' = restarts + 1 /\ UNCHANGED crashes /\ InitUserSystem
      /\ \/ trouble' = Max({trouble, 1}) /\ told' = <<>>
         \/ UNCHANGED <<trouble, told>> /\ flight' = flight
  BY DEF Restart, InitUserSystem
<1>2. UNCHANGED <<central, fails, proposed>> /\ flight' = <<>>
  BY <1>1 DEF InitUserSystem
<1>3. Wire' /\ ObjectStep
  BY <1>1, <1>2, Stopped DEF Before
<1>4. Kept'
  <2>1. restarts' \in Nat /\ crashes' \in Nat
    BY <1>1 DEF Before, Kept
  <2>. QED
    BY <1>1, <2>1, Loaded
<1>5. NothingToldYet'
  BY <1>1, <1>2 DEF Before, NothingToldYet
<1>. QED
  BY <1>3, <1>4, <1>5 DEF After

LEMMA CrashGood ==
    ASSUME Before, Crash
    PROVE  After
<1>1. /\ crashes' = crashes + 1 /\ UNCHANGED restarts
      /\ trouble' = Max({trouble, 1}) /\ told' = <<>>
  BY DEF Crash
<1>2. restarts' \in Nat /\ crashes' \in Nat
  BY <1>1 DEF Before, Kept
<1>3. NothingToldYet'
  BY <1>1 DEF NothingToldYet
<1>4. CASE InitUserSystem
  <2>1. UNCHANGED <<central, fails>> /\ flight' = <<>>
    BY <1>4 DEF InitUserSystem
  <2>2. Wire' /\ ObjectStep
    BY <1>1, <2>1, Stopped DEF Before
  <2>. QED
    BY <1>2, <1>3, <1>4, <2>2, Loaded DEF After
<1>5. CASE ended' = "torn file" /\ UNCHANGED <<central, flight, local, proposed, passes, fails>>
  <2>1. Wire' /\ ObjectStep
    BY <1>1, <1>5, Stopped DEF Before
  <2>2. Kept'
    BY <1>2, <1>5 DEF Before, Kept, local, Endings
  <2>. QED
    BY <1>3, <2>1, <2>2 DEF After
<1>. QED
  BY <1>4, <1>5 DEF Crash

----------------------------------------------------------------------------
\* The invariant, and the abstract journey

LEMMA StepGood ==
    ASSUME IInv, [Next]_vars
    PROVE  IInv' /\ ObjectStep
<1>1. Before
  BY Parts DEF Before
<1>2. CASE \E p \in Person : Request(p)
  <2>1. PICK p \in Person : Request(p)
    BY <1>2
  <2>2. ASSUME NEW i \in Leaves, NEW op \in {"start", "end", "reassign"},
               handle_post_goal_shared_action(p, i, op)
        PROVE  After
    BY <1>1, <2>2, SharedActionGood DEF Ops
  <2>3. ASSUME NEW i \in Leaves, handle_post_goal_start(p, i) \/ handle_post_goal_status_action(p, i)
        PROVE  After
    BY <1>1, <2>3, StartGood
  <2>4. After
    BY <1>1, <2>1, <2>2, <2>3, RootGood, DismissGood, ListGood, GetScheduleGood, SerializeGood,
       Zenon DEF Request
  <2>. QED
    BY <2>4, Joined DEF After
<1>3. CASE Deliveries
  BY <1>1, <1>3, DeliverGood, Joined DEF Deliveries, After
<1>4. CASE Restart
  BY <1>1, <1>4, RestartGood, Joined DEF After
<1>5. CASE Crash
  BY <1>1, <1>5, CrashGood, Joined DEF After
<1>6. CASE UNCHANGED vars
  <2>1. Wire' /\ ObjectStep
    BY <1>1, <1>6, Still DEF Before, vars
  <2>2. Kept' /\ NothingToldYet'
    BY <1>1, <1>6 DEF Before, Kept, NothingToldYet, vars, local
  <2>. QED
    BY <2>1, <2>2, Joined
<1>. QED
  BY <1>2, <1>3, <1>4, <1>5, <1>6 DEF Next

LEMMA InitGood == Init => IInv /\ Object!Init
<1>. SUFFICES ASSUME Init
              PROVE  IInv /\ Object!Init
  OBVIOUS
<1>1. /\ central = <<>> /\ flight = <<>> /\ copies = <<>> /\ blanks = 0
      /\ listed = {} /\ file = [p \in Person |-> NoFile]
      /\ schedule = [p \in Person |-> [leaves |-> {}, needs_refresh |-> TRUE]]
      /\ proposed = TRUE /\ ended = "no" /\ told = <<>> /\ trouble = 0
      /\ passes = 0 /\ fails = 0 /\ restarts = 0 /\ crashes = 0
  BY DEF Init
<1>2. <<>> \in Version /\ <<>> \in Ordered
  BY Empty
<1>3. VersionsGood
  BY <1>1, <1>2 DEF VersionsGood
<1>4. TypeOK
  BY <1>1, <1>2, JourneySyncAssumption DEF TypeOK, Endings
<1>5. InStep /\ NothingToldYet
  BY <1>1 DEF InStep, NothingToldYet
<1>6. Object!Init
  BY <1>1 DEF Object!Init, Latest, Troubled
<1>. QED
  BY <1>3, <1>4, <1>5, <1>6 DEF IInv

\* Every version that can be read is one the order of the steps allows; without
\* trouble all that is on its way is what the participants were told (the pushes of
\* journey.c:497, carried out by the threads of shared-journey.c:591 in any order).
THEOREM Inductive == Spec => []IInv
<1>1. Init => IInv
  BY InitGood
<1>2. IInv /\ [Next]_vars => IInv'
  BY StepGood
<1>. QED
  BY <1>1, <1>2, PTL DEF Spec

LEMMA Sound == IInv => VersionsSound
<1>. SUFFICES ASSUME IInv
              PROVE  VersionsSound
  OBVIOUS
<1>1. TypeOK /\ Wire /\ Kept
  BY Parts DEF IInv
<1>2. ASSUME NEW v \in Versions \ {Gone}
      PROVE  v \in Ordered
  <2>1. central \in Ordered \cup {Gone}
    BY <1>1 DEF Wire
  <2>2. ASSUME NEW k \in DOMAIN flight
        PROVE  flight[k] \in Ordered
    BY <1>1 DEF Wire
  <2>3. ASSUME NEW k \in DOMAIN copies
        PROVE  copies[k].goals \in Ordered
    <3>1. copies[k] \in GoodSlots
      BY <1>1 DEF Kept
    <3>. QED
      BY <3>1, GoodSlot
  <2>4. ASSUME NEW p \in Person, file[p] # NoFile
        PROVE  file[p].goals \in Ordered
    <3>1. file[p] \in GoodSlots
      BY <1>1, <2>4 DEF Kept
    <3>. QED
      BY <3>1, GoodSlot
  <2>. QED
    BY <2>1, <2>2, <2>3, <2>4 DEF Versions, ToSet
<1>3. NothingLost
  BY <1>1, LatestIs DEF NothingLost
<1>. QED
  BY <1>1, <1>2, <1>3 DEF VersionsSound, InOrder

\* Whatever replaces what, on either server or in a file, nobody finds a step
\* started whose predecessor is not done (goal.c:1998, journey.c:260), and what the
\* participants were told is the journey or on its way to it, unless there was
\* trouble (journey.c:515).
THEOREM VersionsStaySound == Spec => []VersionsSound
<1>1. IInv => VersionsSound
  BY Sound
<1>. QED
  BY <1>1, Inductive, PTL

\* The journey on the central server and the pushes on their way implement the one
\* object of SharedJourney: it is changed by one action of one person at a time as
\* long as there is no trouble, and stays gone when it is dismissed, whatever
\* pushes arrive late (shared-journey.c:591).
THEOREM IsOneObject == Spec => OneObject
<1>1. Init => Object!Init
  BY InitGood
<1>2. IInv /\ [Next]_vars =>
          [Object!Act \/ Object!Replace \/ Object!Trouble \/ Object!Dismiss]_<<Latest, Troubled>>
  BY StepGood DEF ObjectStep, ObjectNext
<1>. QED
  BY <1>1, <1>2, Inductive, PTL DEF Spec, OneObject, Object!Spec

----------------------------------------------------------------------------
\* What ends the process

\* The local table has a place for everybody's copy of the journey.
Room == Elsewhere + Cardinality(Person) <= MAX_JOURNEYS
Going == Before /\ EInv /\ Up /\ Room

\* Without trouble now there was none before.
LEMMA CalmBefore ==
    ASSUME Before, Tell(told), Calm', central' # Gone => central # Gone
    PROVE  Calm /\ told = central /\ fails' = fails /\ told' = told
<1>1. told \in Version
  BY DEF Before, Wire
<1>2. ~Troubled' => ~Troubled /\ flight = <<>> /\ fails' = fails /\ told' = told
  BY <1>1, TroubleTold DEF Before
<1>. QED
  BY <1>2 DEF Calm, Before, Wire, InStep

LEMMA EndStands ==
    ASSUME Going, NEW why, End(why), why = "broken tree" => Troubled \/ central = Gone \/ restarts > 0,
           why # "broken tree" => Troubled \/ central = Gone
    PROVE  EInv'
<1>1. UNCHANGED <<central, copies, blanks, file, schedule, told, trouble, restarts>> /\ ended' = why
  BY DEF End, local
<1>. QED
  BY <1>1 DEF Going, EInv, LeavesThere, Calm, Stands, SlotsUsed, EndsOnlyAfterTrouble, Troubled

\* What is fetched when there is no trouble is what the participants were told.
LEMMA FetchStands ==
    ASSUME Before, EInv
    PROVE  /\ Calm /\ told = central => Stands(FetchSharedJourney)
           /\ ~Troubled /\ restarts = 0 => Len(FetchSharedJourney) <= 1
<1>1. /\ FetchSharedJourney \in Seq(GoodSlots)
      /\ copies # <<>> => Len(FetchSharedJourney) = Len(copies)
      /\ copies = <<>> => Len(FetchSharedJourney) \in {0, 1}
      /\ ~BlankSlot => /\ Len(FetchSharedJourney) > 0
                       /\ central # Gone => FetchSharedJourney[1].goals = central
  BY Fetched DEF Before
<1>2. copies \in Seq(GoodSlots) /\ Len(copies) \in Nat /\ (copies # <<>> => Len(copies) > 0)
  BY DEF Before, Kept
<1>3. \A k \in DOMAIN copies : k # 1 => FetchSharedJourney[k] = copies[k]
  BY <1>2 DEF FetchSharedJourney
<1>4. ASSUME Calm, told = central
      PROVE  Stands(FetchSharedJourney)
  <2>1. Stands(copies) /\ ~BlankSlot
    BY <1>4 DEF EInv, LeavesThere, Calm, BlankSlot
  <2>2. FetchSharedJourney[1].goals = told /\ Len(FetchSharedJourney) > 0
    BY <1>1, <1>4, <2>1 DEF Calm
  <2>3. ASSUME NEW k \in DOMAIN FetchSharedJourney
        PROVE  DOMAIN FetchSharedJourney[k].goals \subseteq DOMAIN told
    <3>1. CASE k = 1
      BY <2>2, <3>1
    <3>2. CASE k # 1
      <4>1. k \in DOMAIN copies
        BY <1>1, <1>2, <2>3, <3>2
      <4>. QED
        BY <1>3, <2>1, <3>2, <4>1 DEF Stands
    <3>. QED
      BY <3>1, <3>2
  <2>4. ASSUME NEW p \in Person, schedule[p].leaves # {}
        PROVE  schedule[p].leaves \subseteq DOMAIN FetchSharedJourney[1].goals
    <3>1. copies # <<>> /\ schedule[p].leaves \subseteq DOMAIN copies[1].goals
      BY <2>1, <2>4 DEF Stands
    <3>2. 1 \in DOMAIN copies
      BY <1>2, <3>1
    <3>3. DOMAIN copies[1].goals \subseteq DOMAIN told
      BY <2>1, <3>2 DEF Stands
    <3>. QED
      BY <2>2, <3>1, <3>3
  <2>5. FetchSharedJourney # <<>>
    BY <2>2
  <2>. QED
    BY <2>3, <2>4, <2>5 DEF Stands
<1>5. ASSUME ~Troubled, restarts = 0
      PROVE  Len(FetchSharedJourney) <= 1
  <2>1. Len(copies) <= 1
    BY <1>5 DEF EInv, SlotsUsed
  <2>2. CASE copies # <<>>
    BY <1>1, <2>1, <2>2
  <2>3. CASE copies = <<>>
    <3>. DEFINE n == Len(FetchSharedJourney)
    <3>1. n \in {0, 1}
      BY <1>1, <2>3
    <3>. HIDE DEF n
    <3>2. n <= 1
      BY <3>1
    <3>. QED
      BY <3>2 DEF n
  <2>. QED
    BY <2>2, <2>3
<1>. QED
  BY <1>4, <1>5

LEMMA SavedStands ==
    ASSUME NEW p \in Person, NEW slots, SaveUser(p, slots),
           file \in [Person -> GoodSlots \cup {NoFile}],
           \A q \in Person : file[q] # NoFile => DOMAIN file[q].goals \subseteq DOMAIN told,
           slots # <<>> => DOMAIN slots[1].goals \subseteq DOMAIN told
    PROVE  \A q \in Person : file'[q] # NoFile => DOMAIN file'[q].goals \subseteq DOMAIN told
<1>1. CASE p \in listed /\ slots # <<>>
  <2>1. file' = [file EXCEPT ![p] = slots[1]]
    BY <1>1 DEF SaveUser
  <2>2. \A q \in Person : file'[q] = slots[1] \/ file'[q] = file[q]
    BY <2>1
  <2>. QED
    BY <1>1, <2>2, Zenon
<1>2. CASE ~(p \in listed /\ slots # <<>>)
  BY <1>2 DEF SaveUser
<1>. QED
  BY <1>1, <1>2

LEMMA RefusedStands ==
    ASSUME Going, NEW slots, NEW f \in {0, 1, 2},
           f = 0 /\ Calm /\ told = central => Stands(slots),
           ~Troubled /\ restarts = 0 => Len(slots) <= 1,
           Connect(f), Refused(slots), Tell(told)
    PROVE  EInv'
<1>1. told \in Version /\ fails \in Nat
  BY DEF Going, Before, Wire
<1>2. UNCHANGED <<central, blanks, file, schedule, ended, restarts>> /\ copies' = slots
  BY DEF Refused
<1>3. Calm' => Calm /\ told = central /\ fails' = fails /\ told' = told
  BY <1>2, CalmBefore DEF Going
<1>4. LeavesThere'
  <2>. SUFFICES ASSUME Calm'
                PROVE  /\ Stands(copies)'
                       /\ \A q \in Person : file'[q] # NoFile => DOMAIN file'[q].goals \subseteq DOMAIN told'
    BY DEF LeavesThere
  <2>1. f = 0 /\ Calm /\ told = central /\ told' = told
    BY <1>1, <1>3 DEF Connect
  <2>2. Stands(slots)
    BY <2>1
  <2>. QED
    BY <1>2, <2>1, <2>2 DEF Stands, Going, EInv, LeavesThere
<1>5. ~Troubled' => ~Troubled
  BY <1>1, TroubleTold DEF Going, Before
<1>6. SlotsUsed'
  BY <1>2, <1>5 DEF Going, EInv, SlotsUsed
<1>7. EndsOnlyAfterTrouble'
  BY <1>2 DEF Going, Up, EndsOnlyAfterTrouble
<1>. QED
  BY <1>4, <1>6, <1>7 DEF EInv

\* A leaf that is changed is changed where it was, in slots that stand.
LEMMA LeafStands ==
    ASSUME Going,
           NEW p \in Person, NEW slots \in Seq(GoodSlots), NEW i, NEW op \in Ops, NEW f \in {0, 1},
           f = 0 /\ Calm /\ told = central => Stands(slots),
           ~Troubled /\ restarts = 0 => Len(slots) <= 1,
           ChangeLeaf(p, slots, i, op, f)
    PROVE  EInv'
<1>. DEFINE at == Min(FindGoal(slots, i))
<1>0. /\ told \in Version /\ central \in Ordered \cup {Gone} /\ fails \in Nat
      /\ file \in [Person -> GoodSlots \cup {NoFile}]
      /\ restarts \in Nat
  BY DEF Going, Before, Wire, Kept
<1>1. CASE Connect(f) /\ Refused(slots) /\ Tell(told)
  BY <1>1, RefusedStands
<1>2. CASE FindGoal(slots, i) # {} /\ at > 1 /\ End("broken tree")
  <2>1. Len(slots) > 1
    BY <1>2, FoundIn
  <2>2. Troubled \/ restarts > 0
    BY <1>0, <2>1
  <2>. QED
    BY <1>2, <2>2, EndStands
<1>3. ASSUME FindGoal(slots, i) # {},
             NEW leaf \in Outcomes(slots[at].goals, i, op), NEW changed,
             changed = WithLeaf(slots, at, i, leaf),
             copies' = changed,
             PushJourneyToCentral(changed[1].goals, Pushes(op), f),
             SaveUser(p, changed),
             Tell(IF i \in DOMAIN told THEN [told EXCEPT ![i] = leaf] ELSE told),
             IF op = "end" THEN Mark(p) ELSE UNCHANGED schedule,
             UNCHANGED <<central, blanks, listed, proposed, ended, restarts, crashes>>
      PROVE  EInv'
  <2>. DEFINE u == IF i \in DOMAIN told THEN [told EXCEPT ![i] = leaf] ELSE told
  <2>1. at \in DOMAIN slots /\ i \in DOMAIN slots[at].goals /\ Len(slots) > 0 /\ 1 \in DOMAIN slots
    BY <1>3, FoundIn
  <2>. HIDE DEF at
  <2>2. /\ changed \in Seq(GoodSlots) /\ Len(changed) = Len(slots) /\ DOMAIN changed = DOMAIN slots
        /\ \A k \in DOMAIN slots : DOMAIN changed[k].goals = DOMAIN slots[k].goals
    <3>1. /\ changed \in Seq(GoodSlots) /\ Len(changed) = Len(slots)
          /\ changed[at].goals = [slots[at].goals EXCEPT ![i] = leaf]
          /\ \A k \in DOMAIN slots :
                /\ k # at => changed[k] = slots[k]
                /\ DOMAIN changed[k].goals = DOMAIN slots[k].goals
      BY <1>3, <2>1, SlotChanged
    <3>2. DOMAIN changed = 1 .. Len(changed) /\ DOMAIN slots = 1 .. Len(slots)
      BY <3>1
    <3>. QED
      BY <3>1, <3>2, Zenon
  <2>3. slots[at].goals \in Version
    BY <2>1, GoodSlot
  <2>4. leaf \in LeafRec
    BY <1>3, <2>1, <2>3, OutcomeLeaf
  <2>5. u \in Version /\ DOMAIN u = DOMAIN told
    BY <1>0, <2>4, VersionChange
  <2>6. Tell(u)
    BY <1>3
  <2>. HIDE DEF u
  <2>7. ~Troubled' => ~Troubled /\ flight = <<>> /\ fails' = fails /\ told' = u
    BY <2>5, <2>6, TroubleTold DEF Going, Before
  <2>8. schedule \in [Person -> [leaves : SUBSET Nat, needs_refresh : BOOLEAN]]
    BY DEF Going, Before, Kept
  <2>9. \A q \in Person : schedule'[q].leaves = schedule[q].leaves
    BY <1>3, <2>8, Marked
  <2>10. LeavesThere'
    <3>. SUFFICES ASSUME Calm'
                  PROVE  /\ Stands(copies)'
                         /\ \A q \in Person : file'[q] # NoFile => DOMAIN file'[q].goals \subseteq DOMAIN told'
      BY DEF LeavesThere
    <3>1. Calm /\ told = central /\ fails' = fails /\ told' = u
      BY <1>3, <2>7 DEF Calm, Going, Before, Wire, InStep
    <3>2. f = 0
      BY <1>0, <1>3, <3>1 DEF PushJourneyToCentral, Connect
    <3>3. Stands(slots)
      BY <3>1, <3>2
    <3>4. DOMAIN told' = DOMAIN told
      BY <2>5, <3>1
    <3>5. changed # <<>> /\ DOMAIN changed[1].goals \subseteq DOMAIN told
      BY <2>1, <2>2, <3>3 DEF Stands
    <3>6. \A q \in Person : file[q] # NoFile => DOMAIN file[q].goals \subseteq DOMAIN told
      BY <3>1 DEF Going, EInv, LeavesThere
    <3>7. \A q \in Person : file'[q] # NoFile => DOMAIN file'[q].goals \subseteq DOMAIN told
      BY <1>0, <1>3, <3>5, <3>6, SavedStands
    <3>8. Stands(copies)'
      <4>1. \A k \in DOMAIN changed : DOMAIN changed[k].goals \subseteq DOMAIN told'
        BY <2>2, <3>3, <3>4 DEF Stands
      <4>2. \A q \in Person : schedule'[q].leaves # {} =>
               changed # <<>> /\ schedule'[q].leaves \subseteq DOMAIN changed[1].goals
        BY <2>1, <2>2, <2>9, <3>3, <3>5 DEF Stands
      <4>. QED
        BY <1>3, <4>1, <4>2 DEF Stands
    <3>. QED
      BY <3>4, <3>7, <3>8
  <2>11. SlotsUsed'
    <3>1. central # Gone => blanks = 0
      BY DEF Going, EInv, SlotsUsed
    <3>2. ~Troubled' /\ restarts' = 0 => Len(copies') <= 1
      BY <1>3, <2>2, <2>7
    <3>. QED
      BY <1>3, <3>1, <3>2 DEF SlotsUsed
  <2>12. EndsOnlyAfterTrouble'
    BY <1>3 DEF Going, Up, EndsOnlyAfterTrouble
  <2>. QED
    BY <2>10, <2>11, <2>12 DEF EInv
<1>. QED
  BY <1>1, <1>2, <1>3, Zenon DEF ChangeLeaf, WithLeaf

LEMMA SomebodyThere == Cardinality(Person) \in Nat /\ Cardinality(Person) >= 1
<1>1. IsFiniteSet(Person)
  BY PeopleFinite
<1>2. Participants[1] \in Person
  BY JourneySyncAssumption
<1>. QED
  BY <1>1, <1>2, FS_CardinalityType, FS_EmptySet

LEMMA NoConnectionStands ==
    ASSUME Going, NoConnection
    PROVE  EInv'
  BY RefusedStands DEF NoConnection, Going, EInv, SlotsUsed

LEMMA NoRoomGone ==
    ASSUME Going, NoRoom
    PROVE  central = Gone
<1>1. Elsewhere + 0 + blanks >= MAX_JOURNEYS
  <2>1. copies = <<>> /\ Elsewhere + Len(copies) + blanks >= MAX_JOURNEYS
    BY DEF NoRoom, TableFull
  <2>2. Len(<<>>) = 0
    OBVIOUS
  <2>. QED
    BY <2>1, <2>2
<1>2. Elsewhere \in Nat /\ MAX_JOURNEYS \in Nat /\ Elsewhere + Cardinality(Person) <= MAX_JOURNEYS
  BY JourneySyncAssumption DEF Going, Room
<1>3. blanks # 0
  BY <1>1, <1>2, SomebodyThere
<1>. QED
  BY <1>3 DEF Going, EInv, SlotsUsed

LEMMA SharedActionStands ==
    ASSUME Going, NEW p \in Person, NEW i, NEW op \in Ops, handle_post_goal_shared_action(p, i, op)
    PROVE  EInv'
<1>1. CASE NoConnection
  BY <1>1, NoConnectionStands
<1>2. CASE NoRoom /\ End("journey table")
  BY <1>2, NoRoomGone, EndStands, Zenon
<1>3. CASE /\ BlankSlot /\ ~NoRoom
           /\ blanks' = blanks + 1
           /\ Connect(0) /\ Tell(told)
           /\ UNCHANGED <<central, flight, copies, listed, file, schedule, proposed, ended,
                          passes, restarts, crashes>>
  <2>1. central' = Gone /\ UNCHANGED <<copies, ended, restarts>>
    BY <1>3 DEF BlankSlot
  <2>2. ~Troubled' => ~Troubled
    BY <1>3, TroubleTold DEF Going, Before, Wire
  <2>. QED
    BY <2>1, <2>2 DEF Going, EInv, LeavesThere, Calm, SlotsUsed, EndsOnlyAfterTrouble
<1>4. CASE ~BlankSlot /\ ~NoRoom /\ ChangeLeaf(p, FetchSharedJourney, i, op, 0)
  <2>1. PICK slots \in Seq(GoodSlots) :
            /\ slots = FetchSharedJourney
            /\ Calm /\ told = central => Stands(slots)
            /\ ~Troubled /\ restarts = 0 => Len(slots) <= 1
    BY <1>4, FetchFits, FetchStands DEF Going
  <2>2. ChangeLeaf(p, slots, i, op, 0)
    BY <1>4, <2>1
  <2>. QED
    BY <2>1, <2>2, LeafStands
<1>. QED
  BY <1>1, <1>2, <1>3, <1>4, Zenon DEF handle_post_goal_shared_action

LEMMA FoundAnywhereStands ==
    ASSUME Going, NEW p \in Person, NEW i, NEW op \in {"start", "end"},
           NEW found \in find_goal_any_journey(p), ChangeLeaf(p, found[1], i, op, found[2])
    PROVE  EInv'
<1>1. copies # <<>> /\ copies \in Seq(GoodSlots) /\ op \in Ops
  BY DEF find_goal_any_journey, Going, Before, Kept, Ops
<1>2. PICK f \in {0, 1} : found = <<FetchSharedJourney, f>> \/ found = <<copies, f>>
  BY DEF find_goal_any_journey
<1>3. CASE found = <<FetchSharedJourney, f>>
  <2>1. PICK slots \in Seq(GoodSlots) :
            /\ slots = FetchSharedJourney
            /\ Calm /\ told = central => Stands(slots)
            /\ ~Troubled /\ restarts = 0 => Len(slots) <= 1
    BY Fetched, FetchStands DEF Going, Before
  <2>2. ChangeLeaf(p, slots, i, op, f)
    BY <1>3, <2>1
  <2>. QED
    BY <1>1, <2>1, <2>2, LeafStands
<1>4. CASE found = <<copies, f>>
  <2>1. PICK slots \in Seq(GoodSlots) :
            /\ slots = copies
            /\ Calm /\ told = central => Stands(slots)
            /\ ~Troubled /\ restarts = 0 => Len(slots) <= 1
    BY <1>1 DEF Going, EInv, LeavesThere, SlotsUsed
  <2>2. ChangeLeaf(p, slots, i, op, f)
    BY <1>4, <2>1
  <2>. QED
    BY <1>1, <2>1, <2>2, LeafStands
<1>. QED
  BY <1>2, <1>3, <1>4

LEMMA StartStands ==
    ASSUME Going, NEW p \in Person, NEW i,
           handle_post_goal_start(p, i) \/ handle_post_goal_status_action(p, i)
    PROVE  EInv'
  BY FoundAnywhereStands, Zenon DEF handle_post_goal_start, handle_post_goal_status_action

LEMMA RootStands ==
    ASSUME Going, NEW p \in Person, handle_post_goal_create_shared_root(p)
    PROVE  EInv'
<1>1. CASE NoConnection
  BY <1>1, NoConnectionStands
<1>2. CASE NoRoom /\ End("journey table")
  BY <1>2, NoRoomGone, EndStands, Zenon
<1>3. CASE BlankSlot /\ ~NoRoom /\ End("unknown journey")
  BY <1>3, EndStands DEF BlankSlot
<1>4. ASSUME ~BlankSlot, ~NoRoom, proposed, NEW owners \in Owners, NEW v, v = RoundRobin(owners),
             NEW changed, changed = [FetchSharedJourney EXCEPT ![1].goals = v],
             copies' = changed, SaveUser(p, changed), Tell(v), Mark(p),
             UNCHANGED <<central, blanks, listed, ended, passes, restarts, crashes>>
      PROVE  EInv'
  <2>1. v \in Version
    BY <1>4, RootCreated, Subsets
  <2>2. PICK slots \in Seq(GoodSlots) :
            /\ slots = FetchSharedJourney /\ Len(slots) > 0
            /\ Calm /\ told = central => Stands(slots)
            /\ ~Troubled /\ restarts = 0 => Len(slots) <= 1
    BY <1>4, FetchFits, FetchStands DEF Going
  <2>. DEFINE s == [slots[1] EXCEPT !.goals = v]
  <2>3. changed = [slots EXCEPT ![1] = s]
    BY <1>4, <2>2
  <2>4. s.goals = v
    <3>1. slots[1] \in GoodSlots
      BY <2>2
    <3>. QED
      BY <3>1 DEF GoodSlots
  <2>. HIDE DEF s
  <2>5. /\ changed # <<>> /\ Len(changed) = Len(slots) /\ DOMAIN changed = DOMAIN slots
        /\ changed[1].goals = v /\ \A k \in DOMAIN slots : k # 1 => changed[k] = slots[k]
    BY <2>2, <2>3, <2>4
  <2>6. told = <<>>
    BY <1>4 DEF Going, Before, NothingToldYet
  <2>7. ~Troubled' => ~Troubled /\ flight = <<>> /\ told' = v
    BY <1>4, <2>1, TroubleTold DEF Going, Before
  <2>8. LeavesThere'
    <3>. SUFFICES ASSUME Calm'
                  PROVE  /\ Stands(copies)'
                         /\ \A q \in Person : file'[q] # NoFile => DOMAIN file'[q].goals \subseteq DOMAIN told'
      BY DEF LeavesThere
    <3>1. Calm /\ told = central /\ told' = v
      BY <1>4, <2>7 DEF Calm, Going, Before, Wire, InStep
    <3>2. Stands(slots) /\ DOMAIN told = {}
      BY <2>2, <2>6, <3>1
    <3>3. \A k \in DOMAIN changed : DOMAIN changed[k].goals \subseteq DOMAIN v
      BY <2>5, <3>2 DEF Stands
    <3>4. \A q \in Person : schedule[q].leaves = {}
      <4>1. 1 \in DOMAIN slots
        BY <2>2
      <4>. QED
        BY <3>2, <4>1 DEF Stands
    <3>5. \A q \in Person : schedule'[q].leaves = {}
      BY <1>4, <3>4, Marked DEF Going, Before, Kept
    <3>6. \A q \in Person : file[q] # NoFile => DOMAIN file[q].goals \subseteq DOMAIN v
      BY <3>1, <3>2 DEF Going, EInv, LeavesThere
    <3>7. \A q \in Person : file'[q] = file[q] \/ (file'[q] = changed[1])
      BY <1>4 DEF SaveUser, Going, Before, Kept
    <3>8. \A q \in Person : file'[q] # NoFile => DOMAIN file'[q].goals \subseteq DOMAIN v
      BY <2>5, <3>6, <3>7, Zenon
    <3>. QED
      BY <1>4, <3>1, <3>3, <3>5, <3>8 DEF Stands
  <2>9. SlotsUsed'
    <3>1. central # Gone => blanks = 0
      BY DEF Going, EInv, SlotsUsed
    <3>2. ~Troubled' /\ restarts' = 0 => Len(copies') <= 1
      BY <1>4, <2>2, <2>5, <2>7
    <3>. QED
      BY <1>4, <3>1, <3>2 DEF SlotsUsed
  <2>10. EndsOnlyAfterTrouble'
    BY <1>4 DEF Going, Up, EndsOnlyAfterTrouble
  <2>. QED
    BY <2>8, <2>9, <2>10 DEF EInv
<1>. QED
  BY <1>1, <1>2, <1>3, <1>4, Zenon DEF handle_post_goal_create_shared_root

LEMMA DismissStands ==
    ASSUME Going, NEW p \in Person, handle_post_journey_dismiss(p)
    PROVE  EInv'
<1>1. /\ copies # <<>> /\ copies' = Tail(copies)
      /\ file' = [file EXCEPT ![p] = NoFile] /\ Tell(told)
      /\ central' # Gone => UNCHANGED central /\ (fails' = fails => ~copies[1].shared)
      /\ UNCHANGED <<blanks, schedule, ended, restarts>>
  <2>1. fails \in Nat
    BY DEF Going, Before, Wire
  <2>. QED
    BY <2>1 DEF handle_post_journey_dismiss, Connect
<1>2. Calm' => Calm /\ told = central /\ fails' = fails /\ told' = told
  BY <1>1, CalmBefore DEF Going
<1>3. copies \in Seq(GoodSlots) /\ file \in [Person -> GoodSlots \cup {NoFile}]
  BY DEF Going, Before, Kept
<1>4. /\ Len(Tail(copies)) = Len(copies) - 1 /\ Len(copies) \in Nat
      /\ \A k \in DOMAIN Tail(copies) : k + 1 \in DOMAIN copies /\ Tail(copies)[k] = copies[k + 1]
  BY <1>1, <1>3
<1>5. LeavesThere'
  <2>. SUFFICES ASSUME Calm'
                PROVE  /\ Stands(copies)'
                       /\ \A q \in Person : file'[q] # NoFile => DOMAIN file'[q].goals \subseteq DOMAIN told'
    BY DEF LeavesThere
  <2>1. /\ ~copies[1].shared /\ told' = told /\ Stands(copies)
        /\ \A q \in Person : file[q] # NoFile => DOMAIN file[q].goals \subseteq DOMAIN told
    BY <1>1, <1>2 DEF Calm, Going, EInv, LeavesThere
  <2>2. copies[1].goals = <<>>
    <3>1. copies[1] \in GoodSlots
      BY <1>1, <1>3
    <3>. QED
      BY <2>1, <3>1, GoodSlot
  <2>3. \A q \in Person : schedule'[q].leaves = {}
    BY <1>1, <2>1, <2>2 DEF Stands
  <2>4. \A k \in DOMAIN copies' : DOMAIN copies'[k].goals \subseteq DOMAIN told'
    BY <1>1, <1>4, <2>1 DEF Stands
  <2>5. \A q \in Person : file'[q] # NoFile => DOMAIN file'[q].goals \subseteq DOMAIN told'
    <3>1. \A q \in Person : file'[q] = NoFile \/ file'[q] = file[q]
      BY <1>1, <1>3
    <3>. QED
      BY <2>1, <3>1
  <2>. QED
    BY <2>3, <2>4, <2>5 DEF Stands
<1>6. ~Troubled' => ~Troubled
  BY <1>1, TroubleTold DEF Going, Before, Wire
<1>7. SlotsUsed'
  <2>1. central' # Gone => blanks' = 0
    BY <1>1 DEF Going, EInv, SlotsUsed
  <2>2. ~Troubled' /\ restarts' = 0 => Len(copies') <= 1
    BY <1>1, <1>4, <1>6 DEF Going, EInv, SlotsUsed
  <2>. QED
    BY <2>1, <2>2 DEF SlotsUsed
<1>8. EndsOnlyAfterTrouble'
  BY <1>1 DEF Going, Up, EndsOnlyAfterTrouble
<1>. QED
  BY <1>5, <1>7, <1>8 DEF EInv

LEMMA ListStands ==
    ASSUME Going, NEW p \in Person, handle_list_shared_journeys(p)
    PROVE  EInv'
<1>1. /\ file' = IF copies # <<>> THEN [file EXCEPT ![p] = copies[1]] ELSE file
      /\ UNCHANGED <<central, copies, blanks, schedule, ended, told, trouble, restarts>>
  BY DEF handle_list_shared_journeys
<1>2. (Troubled' <=> Troubled) /\ (Calm' <=> Calm)
  BY <1>1 DEF Troubled, Calm
<1>3. LeavesThere'
  <2>. SUFFICES ASSUME Calm'
                PROVE  /\ Stands(copies)'
                       /\ \A q \in Person : file'[q] # NoFile => DOMAIN file'[q].goals \subseteq DOMAIN told'
    BY DEF LeavesThere
  <2>1. /\ Stands(copies)
        /\ \A q \in Person : file[q] # NoFile => DOMAIN file[q].goals \subseteq DOMAIN told
    BY <1>2 DEF Going, EInv, LeavesThere
  <2>2. copies # <<>> => DOMAIN copies[1].goals \subseteq DOMAIN told
    <3>1. copies # <<>> => 1 \in DOMAIN copies
      BY DEF Going, Before, Kept
    <3>. QED
      BY <2>1, <3>1 DEF Stands
  <2>3. \A q \in Person : file'[q] = file[q] \/ (copies # <<>> /\ file'[q] = copies[1])
    BY <1>1 DEF Going, Before, Kept
  <2>4. \A q \in Person : file'[q] # NoFile => DOMAIN file'[q].goals \subseteq DOMAIN told
    BY <2>1, <2>2, <2>3, Zenon
  <2>. QED
    BY <1>1, <2>1, <2>4 DEF Stands
<1>4. SlotsUsed' /\ EndsOnlyAfterTrouble'
  BY <1>1, <1>2 DEF Going, EInv, Up, SlotsUsed, EndsOnlyAfterTrouble
<1>. QED
  BY <1>3, <1>4 DEF EInv

\* A schedule that is made anew names leaves of the slot it is made from.
LEMMA RefreshedStands ==
    ASSUME schedule \in [Person -> [leaves : SUBSET Nat, needs_refresh : BOOLEAN]],
           NEW p \in Person, NEW slots \in Seq(GoodSlots), RefreshSchedule(p, slots),
           Stands(slots), copies' = slots, told' = told
    PROVE  Stands(copies)'
<1>1. \A q \in Person :
          schedule'[q].leaves # {} =>
              slots # <<>> /\ schedule'[q].leaves \subseteq DOMAIN slots[1].goals
  <2>1. /\ \A q \in Person \ {p} : schedule'[q] = schedule[q]
        /\ schedule'[p].leaves # {} => /\ p \in listed /\ slots # <<>>
                                       /\ schedule'[p].leaves \subseteq DOMAIN slots[1].goals
    BY Refreshed
  <2>. QED
    BY <2>1 DEF Stands
<1>. QED
  BY <1>1 DEF Stands

LEMMA GetScheduleStands ==
    ASSUME Going, NEW p \in Person, handle_get_schedule(p)
    PROVE  EInv'
<1>1. PICK slots \in Seq(GoodSlots), f \in {0, 1} :
          /\ Connect(f) /\ copies' = slots /\ RefreshSchedule(p, slots)
          /\ slots = copies \/ slots = FetchSharedJourney
  BY ScheduleSlots DEF Going
<1>2. /\ Tell(told)
      /\ UNCHANGED <<central, blanks, file, ended, restarts>>
  BY DEF handle_get_schedule
<1>3. Calm' => Calm /\ told = central /\ fails' = fails /\ told' = told
  BY <1>2, CalmBefore DEF Going
<1>4. /\ Calm /\ told = central => Stands(slots)
      /\ ~Troubled /\ restarts = 0 => Len(slots) <= 1
  BY <1>1, FetchStands DEF Going, EInv, LeavesThere, SlotsUsed
<1>5. LeavesThere'
  <2>. SUFFICES ASSUME Calm'
                PROVE  Stands(copies)'
    BY <1>2, <1>3 DEF LeavesThere, Going, EInv
  <2>. QED
    BY <1>1, <1>3, <1>4, RefreshedStands DEF Going, Before, Kept
<1>6. ~Troubled' => ~Troubled
  BY <1>2, TroubleTold DEF Going, Before, Wire
<1>7. SlotsUsed'
  BY <1>1, <1>2, <1>4, <1>6 DEF Going, EInv, SlotsUsed
<1>8. EndsOnlyAfterTrouble'
  BY <1>2 DEF Going, Up, EndsOnlyAfterTrouble
<1>. QED
  BY <1>5, <1>7, <1>8 DEF EInv

LEMMA SerializeStands ==
    ASSUME Going, NEW p \in Person, SerializeScheduleData(p)
    PROVE  EInv'
<1>1. CASE /\ RefreshSchedule(p, copies)
           /\ UNCHANGED <<central, flight, copies, blanks, listed, file, proposed, ended, told,
                          trouble, passes, fails, restarts, crashes>>
  <2>1. (Troubled' <=> Troubled) /\ (Calm' <=> Calm)
    BY <1>1 DEF Troubled, Calm
  <2>2. PICK slots \in Seq(GoodSlots) : slots = copies
    BY DEF Going, Before, Kept
  <2>3. Calm => Stands(copies)'
    <3>1. Calm => Stands(slots)
      BY <2>2 DEF Going, EInv, LeavesThere
    <3>. QED
      BY <1>1, <2>2, <3>1, RefreshedStands DEF Going, Before, Kept
  <2>4. LeavesThere'
    BY <1>1, <2>1, <2>3 DEF LeavesThere, Going, EInv
  <2>5. SlotsUsed' /\ EndsOnlyAfterTrouble'
    BY <1>1, <2>1 DEF Going, EInv, Up, SlotsUsed, EndsOnlyAfterTrouble
  <2>. QED
    BY <2>4, <2>5 DEF EInv
<1>2. ASSUME End("schedule"), NEW passed,
             ~(schedule[p].leaves \ passed \subseteq IF copies = <<>> THEN {} ELSE DOMAIN copies[1].goals)
      PROVE  EInv'
  <2>1. ~Calm
    BY <1>2 DEF Going, EInv, LeavesThere, Stands
  <2>. QED
    BY <1>2, <2>1, EndStands DEF Calm
<1>. QED
  BY <1>1, <1>2, Zenon DEF SerializeScheduleData

LEMMA DeliverStands ==
    ASSUME Going, NEW k \in DOMAIN flight, Deliver(k)
    PROVE  EInv'
<1>1. /\ central' # Gone => central # Gone
      /\ UNCHANGED <<copies, blanks, file, schedule, ended, told, trouble, restarts>>
  BY DEF Deliver, local, handle_update_shared_journey
<1>2. (Troubled' <=> Troubled) /\ (Calm' => Calm)
  BY <1>1 DEF Troubled, Calm
<1>. QED
  BY <1>1, <1>2 DEF Going, Up, EInv, LeavesThere, Stands, SlotsUsed, EndsOnlyAfterTrouble

LEMMA RestartStands ==
    ASSUME Going, Restart
    PROVE  EInv'
<1>1. /\ restarts' = restarts + 1 /\ InitUserSystem
      /\ ~Troubled' => ~Troubled /\ told' = told
  <2>1. trouble \in 0 .. MaxTroubled
    BY DEF Going, Before, Wire
  <2>2. Max({trouble, 1}) > 0
    BY <2>1, AtLeastOne, JourneySyncAssumption
  <2>. QED
    BY <2>2 DEF Restart, Troubled
<1>2. listed \subseteq Person /\ file \in [Person -> GoodSlots \cup {NoFile}] /\ restarts \in Nat
  BY DEF Going, Before, Kept
<1>3. Elsewhere + Cardinality(listed) <= MAX_JOURNEYS
  <2>1. Cardinality(listed) \in Nat /\ Cardinality(listed) <= Cardinality(Person)
    BY <1>2, PeopleFinite, FS_Subset, FS_CardinalityType
  <2>. QED
    BY <2>1, SomebodyThere, JourneySyncAssumption DEF Going, Room
<1>4. PICK order \in SetToSeqs(listed) : copies' = load_user_journeys(order) /\ UNCHANGED ended
  <2>1. ~(Elsewhere + Cardinality(listed) > MAX_JOURNEYS)
    <3>1. Cardinality(listed) \in Nat
      BY <1>2, PeopleFinite, FS_Subset, FS_CardinalityType
    <3>. QED
      BY <1>3, <3>1, JourneySyncAssumption
  <2>. QED
    BY <1>1, <2>1 DEF InitUserSystem
<1>5. /\ UNCHANGED <<central, file>> /\ blanks' = 0
      /\ \A q \in Person : schedule'[q].leaves = {}
  BY <1>1 DEF InitUserSystem
<1>6. LeavesThere'
  <2>. SUFFICES ASSUME Calm'
                PROVE  /\ Stands(copies)'
                       /\ \A q \in Person : file'[q] # NoFile => DOMAIN file'[q].goals \subseteq DOMAIN told'
    BY DEF LeavesThere
  <2>1. /\ told' = told
        /\ \A q \in Person : file[q] # NoFile => DOMAIN file[q].goals \subseteq DOMAIN told
    BY <1>1, <1>5 DEF Calm, Going, EInv, LeavesThere
  <2>2. \A k \in DOMAIN copies' : DOMAIN copies'[k].goals \subseteq DOMAIN told
    <3>1. order \in [1 .. Cardinality(listed) -> listed]
      BY <1>4 DEF SetToSeqs
    <3>2. ASSUME NEW k \in DOMAIN order
          PROVE  DOMAIN load_user_journeys(order)[k].goals \subseteq DOMAIN told
      <4>1. order[k] \in Person
        BY <1>2, <3>1, <3>2
      <4>2. load_user_journeys(order)[k] =
              IF file[order[k]] = NoFile THEN Slot(<<>>, FALSE) ELSE file[order[k]]
        BY <3>2 DEF load_user_journeys
      <4>3. Slot(<<>>, FALSE).goals = <<>>
        BY DEF Slot
      <4>4. CASE file[order[k]] = NoFile
        <5>1. load_user_journeys(order)[k].goals = <<>>
          BY <4>2, <4>3, <4>4
        <5>2. DOMAIN <<>> = {}
          OBVIOUS
        <5>. QED
          BY <5>1, <5>2
      <4>5. CASE file[order[k]] # NoFile
        BY <2>1, <4>1, <4>2, <4>5
      <4>. QED
        BY <4>4, <4>5
    <3>3. DOMAIN load_user_journeys(order) = DOMAIN order
      BY DEF load_user_journeys
    <3>. QED
      BY <1>4, <3>2, <3>3
  <2>. QED
    BY <1>5, <2>1, <2>2 DEF Stands
<1>7. SlotsUsed' /\ EndsOnlyAfterTrouble'
  BY <1>1, <1>2, <1>4, <1>5 DEF Going, EInv, Up, SlotsUsed, EndsOnlyAfterTrouble
<1>. QED
  BY <1>6, <1>7 DEF EInv

LEMMA CrashStands ==
    ASSUME Going, Crash
    PROVE  EInv'
<1>1. Troubled'
  <2>1. trouble' \in 1 .. MaxTroubled
    BY AtLeastOne DEF Crash, Going, Before, Wire
  <2>. QED
    BY <2>1, JourneySyncAssumption DEF Troubled
<1>2. central' # Gone => blanks' = 0
  BY DEF Crash, InitUserSystem, local, Going, EInv, SlotsUsed
<1>. QED
  BY <1>1, <1>2 DEF EInv, LeavesThere, Calm, SlotsUsed, EndsOnlyAfterTrouble

LEMMA StepStands ==
    ASSUME IInv, EInv, Room, [Next]_vars
    PROVE  EInv'
<1>1. Before
  BY Parts DEF Before
<1>2. CASE Next
  <2>. Going
    BY <1>1, <1>2 DEF Going, Next
  <2>1. CASE \E p \in Person : Request(p)
    <3>1. PICK p \in Person : Request(p)
      BY <2>1
    <3>2. ASSUME NEW i \in Leaves, NEW op \in {"start", "end", "reassign"},
                 handle_post_goal_shared_action(p, i, op)
          PROVE  EInv'
      BY <3>2, SharedActionStands DEF Ops
    <3>3. ASSUME NEW i \in Leaves, handle_post_goal_start(p, i) \/ handle_post_goal_status_action(p, i)
          PROVE  EInv'
      BY <3>3, StartStands
    <3>. QED
      BY <3>1, <3>2, <3>3, RootStands, DismissStands, ListStands, GetScheduleStands,
         SerializeStands, Zenon DEF Request
  <2>2. CASE Deliveries
    BY <2>2, DeliverStands DEF Deliveries
  <2>. QED
    BY <1>2, <2>1, <2>2, RestartStands, CrashStands, Zenon DEF Next
<1>3. CASE UNCHANGED vars
  BY <1>3 DEF vars, local, EInv, LeavesThere, Calm, Stands, SlotsUsed, EndsOnlyAfterTrouble, Troubled, Up
<1>. QED
  BY <1>2, <1>3

\* No assertion ends the process unless requests met pushes on their way, a
\* connection failed, the process crashed or the journey was dismissed, or a start
\* put another slot first (schedule-system.c:339, goal-util.c:132) - provided the
\* local table has a place for everybody's copy of the journey (journey.c:30).
THEOREM EndsAfterTrouble ==
    ASSUME Elsewhere + Cardinality(Person) <= MAX_JOURNEYS
    PROVE  Spec => []EndsOnlyAfterTrouble
<1>1. Init => EInv
  BY DEF Init, EInv, LeavesThere, Calm, Stands, SlotsUsed, EndsOnlyAfterTrouble, Up
<1>2. IInv /\ EInv /\ [Next]_vars => EInv'
  BY StepStands DEF Room
<1>3. EInv => EndsOnlyAfterTrouble
  BY DEF EInv
<1>. QED
  BY <1>1, <1>2, <1>3, Inductive, PTL DEF Spec
=============================================================================
