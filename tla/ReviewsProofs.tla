----------------------------- MODULE ReviewsProofs -----------------------------
(* What Reviews promises, proved for every value of its constants: one      *)
(* inductive invariant, and the properties of the runs as its consequences. *)
EXTENDS Reviews, FiniteSetTheorems, SequenceTheorems, TLAPS

\* The values the variables range over.
Sub == [id : SubId, label : AnyLabel, files : Seq(File), authentic : BOOLEAN]
Rev == [by : Reviewer, score : Score, when : Nat]
Folder == [meta : Sub \cup {Torn, Absent}, attached : SUBSET File, reviews : SUBSET Rev]
Count == [count : 0 .. MAX_DAILY_REVIEWS, reset_at : Nat]
Pen == {Unlocked} \cup [op : {"create", "list", "approve"}, sub : Sub]
                  \cup [op : {"attach"}, sub : Sub, file : File]
Desk == {NoReview} \cup [at : {"store", "mark", "count"}, by : Reviewer, sub : SubId,
                         score : Score, today : 0 .. MAX_DAILY_REVIEWS - 1]

Types ==
    /\ now \in DAY .. MaxTime
    /\ table \in Seq(Sub) /\ Len(table) <= MAX_SUBMISSIONS
    /\ disk \in [SubId -> Folder]
    /\ daily \in [Reviewer -> Count]
    /\ writing \in Pen /\ review \in Desk
    /\ shown \in [Reviewer -> SUBSET SubId]
    /\ crashes \in Nat /\ restarts \in Nat

\* An id has one place in the table, and its own metadata.
IdsOnce == \A i, j \in DOMAIN table : table[i].id = table[j].id => i = j
OwnMeta == \A id \in SubId : IsSubmission(disk[id].meta) => disk[id].meta.id = id

\* The metadata of what is in the table says the same, unless it is being
\* written; whatever metadata can be read is in the table.
Listed == \A i \in DOMAIN table : \/ disk[table[i].id].meta = table[i]
                                  \/ writing.op \in {"list", "approve"} /\ writing.sub = table[i]
NothingLeftOut == \A id \in SubId : IsSubmission(disk[id].meta) => id \in InTable

\* What the holder of submissions_lock writes.
WriterKnows ==
    /\ writing.op = "create" => /\ writing.sub.id \notin InTable /\ Len(table) < MAX_SUBMISSIONS
                                /\ writing.sub.files = <<>> /\ ~writing.sub.authentic
    /\ writing.op \in {"attach", "list", "approve"} =>
          \E i \in DOMAIN table : table[i] = writing.sub
    /\ writing.op \in {"create", "list", "approve"} => disk[writing.sub.id].meta = Torn
    /\ writing.op = "attach" => writing.file \in disk[writing.sub.id].attached
    /\ writing.op = "approve" => /\ review.at = "mark" /\ writing.sub.id = review.sub
                                 /\ writing.sub.authentic

\* What the review under way rests on.
Good(id) == \E v \in disk[id].reviews : v.score >= 4
ReviewerKnows ==
    /\ review.at # "idle" => /\ review.sub \in InTable
                             /\ review.today = GetReviewsTodayCount(review.by)
    /\ review.at = "store" => ~HasReviewerReviewed(review.sub, review.by)
    /\ review.at = "mark" => Good(review.sub)

\* Reviews come from the past, and the daily count from the time of one.
Past ==
    /\ \A id \in SubId : \A v \in disk[id].reviews : v.when <= now
    /\ \A r \in Reviewer : daily[r].reset_at <= now

AuthenticHasReview ==
    /\ \A i \in DOMAIN table : table[i].authentic => Good(table[i].id)
    /\ \A id \in SubId : IsSubmission(disk[id].meta) /\ disk[id].meta.authentic => Good(id)
FilesAreThere ==
    /\ \A i \in DOMAIN table : \A k \in DOMAIN table[i].files :
           table[i].files[k] \in disk[table[i].id].attached
    /\ \A id \in SubId : IsSubmission(disk[id].meta) =>
           \A k \in DOMAIN disk[id].meta.files : disk[id].meta.files[k] \in disk[id].attached

\* The well reviewed without a badge, but for the one whose badge comes next.
Approved(id) == \E i \in DOMAIN table : table[i].id = id /\ table[i].authentic
Unbadged == {id \in SubId : Good(id) /\ ~Approved(id)}
BadgeComing == IF review.at = "mark" THEN {review.sub} ELSE {}
BadgesLost == Cardinality(Unbadged \ BadgeComing) <= 2 * crashes

\* What a reviewer reviewed today is in the count, but for the review under way
\* and at most a day's worth of reviews for each crash.
Recent(r) == {id \in SubId : \E v \in disk[id].reviews : v.by = r /\ now - v.when < DAY}
UnderWay(r) == IF review.at \in {"mark", "count"} /\ review.by = r THEN {review.sub} ELSE {}
CountedBut(r, missed) ==
    /\ Cardinality(missed) <= MAX_DAILY_REVIEWS * crashes
    /\ Cardinality(Recent(r) \ (missed \cup UnderWay(r))) <= GetReviewsTodayCount(r)
    /\ \A id \in Recent(r) \ (missed \cup UnderWay(r)) : \A v \in disk[id].reviews :
           v.by = r /\ now - v.when < DAY => v.when <= daily[r].reset_at
Counted == \A r \in Reviewer : \E missed \in SUBSET SubId : CountedBut(r, missed)

IInv == /\ Types /\ IdsOnce /\ OwnMeta /\ Listed /\ NothingLeftOut
        /\ WriterKnows /\ ReviewerKnows /\ Past
        /\ AuthenticHasReview /\ FilesAreThere /\ OneReviewEach /\ BadgesLost /\ Counted

----------------------------------------------------------------------------
\* Lemmas about the model's operators

\* Metadata is a submission exactly when it has the type of one.
LEMMA Metadata ==
    /\ \A s \in Sub : IsSubmission(s)
    /\ ~IsSubmission(Torn) /\ ~IsSubmission(Absent) /\ Torn # Absent
    /\ \A m \in Sub \cup {Torn, Absent} : IsSubmission(m) => m \in Sub
<1>1. \A s \in Sub : s # Torn /\ s # Absent
  <2>. SUFFICES ASSUME NEW s \in Sub PROVE s # Torn /\ s # Absent
    OBVIOUS
  <2>1. DOMAIN s = {"id", "label", "files", "authentic"} /\ DOMAIN Torn = {"id"} /\ DOMAIN Absent = {"id"}
    BY DEF Sub, Torn, Absent
  <2>. QED
    BY <2>1
<1>2. Torn # Absent
  BY DEF Torn, Absent
<1>. QED
  BY <1>1, <1>2 DEF IsSubmission

\* The fields of a submission may take any value of their type.
LEMMA SubFields ==
    ASSUME NEW s \in Sub, NEW f \in File
    PROVE  /\ [s EXCEPT !.files = Append(@, f)] \in Sub
           /\ [s EXCEPT !.authentic = TRUE] \in Sub
<1>1. s.files \in Seq(File)
  BY DEF Sub
<1>2. Append(s.files, f) \in Seq(File)
  BY <1>1
<1>. QED
  BY <1>2 DEF Sub

\* An id of the table has its place there, and only one.
LEMMA Place ==
    ASSUME table \in Seq(Sub), NEW id \in InTable
    PROVE  /\ PlaceOf(id) \in DOMAIN table /\ DOMAIN table = 1 .. Len(table)
           /\ FindSubmission(id) = table[PlaceOf(id)] /\ FindSubmission(id) \in Sub
           /\ FindSubmission(id).id = id
           /\ IdsOnce => \A i \in DOMAIN table : table[i].id = id => i = PlaceOf(id)
<1>1. PICK i \in DOMAIN table : table[i].id = id
  BY DEF InTable
<1>2. PlaceOf(id) \in DOMAIN table /\ table[PlaceOf(id)].id = id
  BY <1>1 DEF PlaceOf
<1>3. DOMAIN table = 1 .. Len(table)
  OBVIOUS
<1>. QED
  BY <1>2, <1>3 DEF FindSubmission, IdsOnce

\* The owner's app is told of the badge exactly when the table has it.
LEMMA Status ==
    ASSUME table \in Seq(Sub), IdsOnce, NEW id
    PROVE  handle_get_submission_status(id) <=> Approved(id)
  BY Place DEF handle_get_submission_status, Approved, InTable, FindSubmission

\* There are finitely many ids, so sets of ids compare by size.
LEMMA Sizes ==
    ASSUME NEW S \in SUBSET SubId, NEW T \in SUBSET S
    PROVE  /\ IsFiniteSet(S) /\ IsFiniteSet(T)
           /\ Cardinality(S) \in Nat /\ Cardinality(T) \in Nat
           /\ Cardinality(T) <= Cardinality(S)
  BY ReviewsAssumption, FS_Subset, FS_CardinalityType

\* One more id makes a set at most one larger.
LEMMA OneMore ==
    ASSUME NEW S, IsFiniteSet(S), NEW x
    PROVE  /\ IsFiniteSet(S \cup {x}) /\ Cardinality(S \cup {x}) \in Nat
           /\ Cardinality(S \cup {x}) <= Cardinality(S) + 1
<1>1. Cardinality(S) \in Nat /\ IsFiniteSet(S \cup {x})
  BY FS_CardinalityType, FS_AddElement
<1>2. Cardinality(S \cup {x}) = IF x \in S THEN Cardinality(S) ELSE Cardinality(S) + 1
  BY FS_AddElement
<1>. QED
  BY <1>1, <1>2

\* Emptying the metadata of a submission.
LEMMA Emptied ==
    ASSUME disk \in [SubId -> Folder], NEW id \in SubId, Empty(id)
    PROVE  /\ disk' \in [SubId -> Folder]
           /\ disk'[id].meta = Torn
           /\ \A i \in SubId : /\ disk'[i].attached = disk[i].attached
                               /\ disk'[i].reviews = disk[i].reviews
                               /\ i # id => disk'[i].meta = disk[i].meta
  BY DEF Empty, Folder

\* The metadata a start can read.
Found == {disk[id].meta : id \in {i \in SubId : IsSubmission(disk[i].meta)}}

\* Whatever it reads is in the table when the process stops.
LEMMA FoundInTable ==
    ASSUME Types, OwnMeta, Listed, NothingLeftOut, WriterKnows,
           NEW id \in SubId, IsSubmission(disk[id].meta)
    PROVE  \E i \in DOMAIN table : disk[id].meta = table[i]
<1>1. PICK i \in DOMAIN table : table[i].id = id
  BY DEF NothingLeftOut, InTable
<1>2. CASE disk[id].meta = table[i]
  BY <1>2
<1>3. CASE writing.op \in {"list", "approve"} /\ writing.sub = table[i]
  BY <1>1, <1>3, Metadata DEF WriterKnows
<1>. QED
  BY <1>1, <1>2, <1>3 DEF Listed

\* So there is a place for all of it.
LEMMA FoundFits ==
    ASSUME Types, OwnMeta, Listed, NothingLeftOut, WriterKnows
    PROVE  IsFiniteSet(Found) /\ Cardinality(Found) \in Nat /\ Cardinality(Found) <= MAX_SUBMISSIONS
<1>. DEFINE D == 1 .. Len(table)
            R == {table[i] : i \in D}
<1>1. Len(table) \in Nat /\ DOMAIN table = D /\ table \in [D -> R]
  BY DEF Types
<1>2. IsFiniteSet(D) /\ Cardinality(D) = Len(table)
  BY <1>1, FS_Interval
<1>3. table \in Surjection(D, R)
  BY <1>1 DEF Surjection
<1>4. IsFiniteSet(R) /\ Cardinality(R) <= Len(table)
  <2>1. PICK d : d = D
    OBVIOUS
  <2>2. PICK r : r = R
    OBVIOUS
  <2>3. IsFiniteSet(d) /\ Cardinality(d) = Len(table) /\ table \in Surjection(d, r)
    BY <1>2, <1>3, <2>1, <2>2
  <2>4. IsFiniteSet(r) /\ Cardinality(r) <= Cardinality(d)
    BY <2>3, FS_Surjection, Zenon
  <2>. QED
    BY <2>2, <2>3, <2>4
<1>5. Found \in SUBSET R
  BY FoundInTable, <1>1 DEF Found
<1>6. IsFiniteSet(Found) /\ Cardinality(Found) <= Cardinality(R) /\ Cardinality(R) \in Nat /\ Cardinality(Found) \in Nat
  BY <1>4, <1>5, FS_Subset, FS_CardinalityType
<1>. QED
  BY <1>1, <1>4, <1>6, ReviewsAssumption DEF Types

\* A start puts in the table just what it can read, each once.
LEMMA Reload ==
    ASSUME Types, OwnMeta, Listed, NothingLeftOut, WriterKnows, InitReviewSystem
    PROVE  /\ table' \in Seq(Sub) /\ Len(table') <= MAX_SUBMISSIONS
           /\ \A i, j \in DOMAIN table' : table'[i].id = table'[j].id => i = j
           /\ \A i \in DOMAIN table' : /\ table'[i].id \in SubId
                                       /\ disk[table'[i].id].meta = table'[i]
           /\ \A id \in SubId : IsSubmission(disk[id].meta) =>
                  \E i \in DOMAIN table' : table'[i] = disk[id].meta
<1>. DEFINE n == Cardinality(Found)
<1>0. IsFiniteSet(Found) /\ n \in Nat /\ n <= MAX_SUBMISSIONS
  BY FoundFits
<1>1. PICK some \in kSubset(n, Found) : table' \in SetToSeqs(some)
  <2>1. MAX_SUBMISSIONS \in Nat
    BY ReviewsAssumption
  <2>2. \E some \in kSubset(IF n < MAX_SUBMISSIONS THEN n ELSE MAX_SUBMISSIONS, Found) :
            table' \in SetToSeqs(some)
    BY Zenon DEF InitReviewSystem, Found
  <2>3. n = IF n < MAX_SUBMISSIONS THEN n ELSE MAX_SUBMISSIONS
    BY <1>0, <2>1
  <2>. QED
    BY <2>2, <2>3, Zenon
<1>2. some = Found
  BY <1>0, <1>1, FS_Subset DEF kSubset
<1>3. /\ table' \in [1 .. n -> Found]
      /\ \A i, j \in 1 .. n : i # j => table'[i] # table'[j]
  BY <1>1, <1>2 DEF SetToSeqs
<1>4. IsFiniteSet(1 .. n) /\ Cardinality(1 .. n) = n
  BY <1>0, FS_Interval
<1>5. table' \in Injection(1 .. n, Found)
  BY <1>3 DEF Injection, IsInjective
<1>6. table' \in Surjection(1 .. n, Found)
  BY <1>0, <1>4, <1>5, FS_Injection
<1>7. \A m \in Found : m \in Sub /\ m.id \in SubId /\ disk[m.id].meta = m
  <2>. SUFFICES ASSUME NEW id \in SubId, IsSubmission(disk[id].meta)
                PROVE  LET m == disk[id].meta IN m \in Sub /\ m.id \in SubId /\ disk[m.id].meta = m
    BY DEF Found
  <2>1. disk[id].meta \in Sub \cup {Torn, Absent}
    BY DEF Types, Folder
  <2>. QED
    BY <2>1, Metadata DEF OwnMeta
<1>8. table' \in Seq(Sub) /\ Len(table') = n /\ DOMAIN table' = 1 .. n
  <2>1. table' \in [1 .. n -> Sub]
    BY <1>3, <1>7
  <2>. QED
    BY <1>0, <2>1
<1>9. \A m \in Found : \E i \in 1 .. n : table'[i] = m
  BY <1>6 DEF Surjection
<1>10. \A i, j \in DOMAIN table' : table'[i].id = table'[j].id => i = j
  BY <1>3, <1>7, <1>8
<1>. QED
  <2>1. ASSUME NEW i \in DOMAIN table'
        PROVE  table'[i].id \in SubId /\ disk[table'[i].id].meta = table'[i]
    BY <1>3, <1>7, <1>8
  <2>2. ASSUME NEW id \in SubId, IsSubmission(disk[id].meta)
        PROVE  \E i \in DOMAIN table' : table'[i] = disk[id].meta
    BY <1>8, <1>9, <2>2 DEF Found
  <2>. QED
    BY <1>0, <1>8, <1>10, <2>1, <2>2

----------------------------------------------------------------------------
\* What a step that stores no review leaves alone

SameReviews == \A id \in SubId : disk'[id].reviews = disk[id].reviews

LEMMA ReviewsKept ==
    ASSUME SameReviews
    PROVE  /\ \A id \in SubId : Good(id)' <=> Good(id)
           /\ OneReviewEach => OneReviewEach'
           /\ now' = now => \A r : Recent(r)' = Recent(r)
           /\ \A id \in SubId, r \in Reviewer : HasReviewerReviewed(id, r)' <=> HasReviewerReviewed(id, r)
  BY DEF SameReviews, Good, OneReviewEach, Recent, HasReviewerReviewed

\* The counts of the day stay right while no count, clock or review changes.
LEMMA CountedKept ==
    ASSUME Counted, SameReviews, UNCHANGED <<now, daily, crashes>>,
           \A r \in Reviewer : UnderWay(r)' = UnderWay(r)
    PROVE  Counted'
<1>. SUFFICES ASSUME NEW r \in Reviewer PROVE \E missed \in SUBSET SubId : CountedBut(r, missed)'
  BY DEF Counted
<1>1. PICK missed \in SUBSET SubId : CountedBut(r, missed)
  BY DEF Counted
<1>2. Recent(r)' = Recent(r) /\ UnderWay(r)' = UnderWay(r) /\ GetReviewsTodayCount(r)' = GetReviewsTodayCount(r)
  BY ReviewsKept DEF GetReviewsTodayCount
<1>3. \A id \in Recent(r) : id \in SubId /\ disk'[id].reviews = disk[id].reviews
  BY DEF Recent, SameReviews
<1>4. Recent(r)' \ (missed \cup UnderWay(r)') = Recent(r) \ (missed \cup UnderWay(r))
  BY <1>2
<1>5. CountedBut(r, missed)'
  BY <1>1, <1>2, <1>3, <1>4 DEF CountedBut
<1>. QED
  BY <1>5

\* Nobody loses a badge while those without one grow no more.
LEMMA BadgesKept ==
    ASSUME BadgesLost, crashes \in Nat, crashes' = crashes, Unbadged' \ BadgeComing' \subseteq Unbadged \ BadgeComing
    PROVE  BadgesLost'
<1>1. Unbadged \ BadgeComing \in SUBSET SubId
  BY DEF Unbadged
<1>2. /\ Cardinality(Unbadged' \ BadgeComing') <= Cardinality(Unbadged \ BadgeComing)
      /\ Cardinality(Unbadged' \ BadgeComing') \in Nat /\ Cardinality(Unbadged \ BadgeComing) \in Nat
  BY <1>1, Sizes
<1>. QED
  BY <1>2 DEF BadgesLost

----------------------------------------------------------------------------
\* One lemma per action

LEMMA CreateStep ==
    ASSUME IInv, NEW id \in SubId, NEW label \in AnyLabel, CreateSubmission(id, label)
    PROVE  IInv'
<1>. DEFINE s == Submission(id, label)
<1>. USE DEF CreateSubmission
<1>1. disk \in [SubId -> Folder] /\ table \in Seq(Sub) /\ writing = Unlocked /\ disk[id] = NoDirectory
  BY DEF IInv, Types
<1>2. s \in Sub /\ s.id = id /\ s.files = <<>> /\ ~s.authentic
  BY DEF Submission, Sub
<1>3. writing' = [op |-> "create", sub |-> s] /\ writing'.op = "create" /\ writing'.sub = s
  BY DEF Lock
<1>4. id \notin InTable
  <2>. SUFFICES ASSUME NEW i \in DOMAIN table, table[i].id = id PROVE FALSE
    BY DEF InTable
  <2>1. disk[id].meta = table[i]
    BY <1>1 DEF IInv, Listed, Unlocked
  <2>2. disk[id].meta = Absent /\ table[i] \in Sub
    BY <1>1 DEF NoDirectory
  <2>. QED
    BY <2>1, <2>2, Metadata DEF IsSubmission
<1>5. /\ disk' \in [SubId -> Folder] /\ disk'[id].meta = Torn /\ SameReviews
      /\ \A i \in SubId : /\ disk'[i].attached = disk[i].attached
                          /\ i # id => disk'[i].meta = disk[i].meta
  BY <1>1, Emptied DEF SameReviews
<1>6. Types'
  BY <1>2, <1>3, <1>5 DEF IInv, Types, Pen
<1>7. \A i \in DOMAIN table : table[i].id \in SubId /\ table[i].id # id
  <2>1. \A i \in DOMAIN table : table[i] \in Sub
    BY <1>1
  <2>. QED
    BY <2>1, <1>4 DEF InTable, Sub
<1>8. IdsOnce' /\ Listed' /\ OwnMeta' /\ NothingLeftOut'
  BY <1>1, <1>3, <1>5, <1>7, Metadata DEF IInv, IdsOnce, Listed, OwnMeta, NothingLeftOut, InTable, Unlocked
<1>9. WriterKnows'
  BY <1>2, <1>3, <1>4, <1>5 DEF WriterKnows, InTable
<1>10. ReviewerKnows'
  BY <1>5, ReviewsKept DEF IInv, Types, Desk, NoReview, ReviewerKnows, InTable, GetReviewsTodayCount
<1>11. Past' /\ OneReviewEach'
  BY <1>5, ReviewsKept DEF IInv, Past, SameReviews
<1>12. AuthenticHasReview' /\ FilesAreThere'
  BY <1>5, <1>7, ReviewsKept, Metadata DEF IInv, AuthenticHasReview, FilesAreThere
<1>13. BadgesLost'
  <2>1. Unbadged' \ BadgeComing' \subseteq Unbadged \ BadgeComing
    BY <1>5, ReviewsKept DEF Unbadged, BadgeComing, Approved
  <2>. QED
    BY <2>1, BadgesKept DEF IInv, Types
<1>14. Counted'
  BY <1>5, CountedKept DEF IInv, UnderWay
<1>. QED
  BY <1>6, <1>8, <1>9, <1>10, <1>11, <1>12, <1>13, <1>14 DEF IInv

LEMMA AttachStep ==
    ASSUME IInv, NEW id \in InTable, NEW f \in File, AddSubmissionFile(id, f)
    PROVE  IInv'
<1>. DEFINE s == FindSubmission(id)
<1>. USE DEF AddSubmissionFile
<1>1. disk \in [SubId -> Folder] /\ table \in Seq(Sub) /\ writing = Unlocked
  BY DEF IInv, Types
<1>2. s \in Sub /\ s.id = id /\ id \in SubId /\ \E i \in DOMAIN table : table[i] = s
  <2>1. s \in Sub /\ s.id = id /\ \E i \in DOMAIN table : table[i] = s
    BY <1>1, Place
  <2>. QED
    BY <2>1 DEF Sub
<1>3. writing' = [op |-> "attach", sub |-> s, file |-> f] /\ writing'.op = "attach"
      /\ writing'.sub = s /\ writing'.file = f
  OBVIOUS
<1>4. /\ disk' \in [SubId -> Folder] /\ SameReviews
      /\ \A i \in SubId : disk'[i].meta = disk[i].meta /\ disk[i].attached \subseteq disk'[i].attached
      /\ f \in disk'[id].attached
  BY <1>1, <1>2 DEF Folder, SameReviews
<1>5. Types'
  BY <1>2, <1>3, <1>4 DEF IInv, Types, Pen
<1>6. \A i \in DOMAIN table : table[i].id \in SubId
  <2>1. \A i \in DOMAIN table : table[i] \in Sub
    BY <1>1
  <2>. QED
    BY <2>1 DEF Sub
<1>7. IdsOnce' /\ Listed' /\ OwnMeta' /\ NothingLeftOut'
  BY <1>1, <1>3, <1>4, <1>6 DEF IInv, IdsOnce, Listed, OwnMeta, NothingLeftOut, InTable, Unlocked
<1>8. WriterKnows'
  BY <1>2, <1>3, <1>4 DEF WriterKnows
<1>9. ReviewerKnows'
  BY <1>4, ReviewsKept DEF IInv, Types, Desk, NoReview, ReviewerKnows, InTable, GetReviewsTodayCount
<1>10. Past' /\ OneReviewEach'
  BY <1>4, ReviewsKept DEF IInv, Past, SameReviews
<1>11. AuthenticHasReview' /\ FilesAreThere'
  BY <1>4, <1>6, ReviewsKept DEF IInv, AuthenticHasReview, FilesAreThere
<1>12. BadgesLost'
  <2>1. Unbadged' \ BadgeComing' \subseteq Unbadged \ BadgeComing
    BY <1>4, ReviewsKept DEF Unbadged, BadgeComing, Approved
  <2>. QED
    BY <2>1, BadgesKept DEF IInv, Types
<1>13. Counted'
  BY <1>4, CountedKept DEF IInv, UnderWay
<1>. QED
  BY <1>5, <1>7, <1>8, <1>9, <1>10, <1>11, <1>12, <1>13 DEF IInv

\* Both writers of an old submission replace it in the table and empty its file.
LEMMA ReplaceStep ==
    ASSUME IInv, NEW j \in DOMAIN table, NEW s \in Sub, s.id = table[j].id,
           table[j].authentic => s.authentic,
           s.authentic => Good(s.id),
           \A k \in DOMAIN s.files : s.files[k] \in disk[s.id].attached,
           table' = [table EXCEPT ![PlaceOf(s.id)] = s], Empty(s.id),
           writing.op \in {"none", "attach"},
           writing'.sub = s,
           \/ writing' \in [op : {"list"}, sub : Sub]
           \/ /\ writing' \in [op : {"approve"}, sub : Sub]
              /\ review.at = "mark" /\ s.id = review.sub /\ s.authentic,
           UNCHANGED <<now, daily, review, shown, crashes, restarts>>
    PROVE  IInv'
<1>1. disk \in [SubId -> Folder] /\ table \in Seq(Sub) /\ table[j] \in Sub
  BY DEF IInv, Types
<1>2. s.id \in SubId /\ DOMAIN table = 1 .. Len(table) /\ s.id \in InTable
  <2>1. s.id \in SubId
    BY DEF Sub
  <2>2. DOMAIN table = 1 .. Len(table)
    BY <1>1
  <2>3. s.id \in InTable
    BY DEF InTable
  <2>. QED
    BY <2>1, <2>2, <2>3
<1>3. PlaceOf(s.id) = j
  BY <1>1, <1>2, Place DEF IInv
<1>4. /\ table' \in Seq(Sub) /\ Len(table') = Len(table) /\ DOMAIN table' = DOMAIN table
      /\ table'[j] = s /\ \A i \in DOMAIN table : i # j => table'[i] = table[i]
  BY <1>1, <1>2, <1>3
<1>5. /\ disk' \in [SubId -> Folder] /\ disk'[s.id].meta = Torn /\ SameReviews
      /\ \A i \in SubId : /\ disk'[i].attached = disk[i].attached
                          /\ i # s.id => disk'[i].meta = disk[i].meta
  BY <1>1, <1>2, Emptied DEF SameReviews
<1>6. \A i \in DOMAIN table : /\ table[i].id \in SubId /\ table'[i].id = table[i].id
                              /\ i # j => table[i].id # s.id
  <2>1. \A i \in DOMAIN table : table[i] \in Sub
    BY <1>1
  <2>. QED
    BY <2>1, <1>4 DEF Sub, IInv, IdsOnce
<1>7. InTable' = InTable
  BY <1>4, <1>6 DEF InTable
<1>8. Types'
  BY <1>4, <1>5 DEF IInv, Types, Pen
<1>9. IdsOnce' /\ OwnMeta' /\ NothingLeftOut'
  BY <1>4, <1>5, <1>6, <1>7, Metadata DEF IInv, IdsOnce, OwnMeta, NothingLeftOut
<1>10. Listed'
  BY <1>4, <1>5, <1>6 DEF IInv, Listed
<1>11. WriterKnows'
  BY <1>4, <1>5 DEF WriterKnows
<1>12. ReviewerKnows'
  BY <1>5, <1>7, ReviewsKept DEF IInv, Types, Desk, NoReview, ReviewerKnows, GetReviewsTodayCount
<1>13. Past' /\ OneReviewEach'
  BY <1>5, ReviewsKept DEF IInv, Past, SameReviews
<1>14. AuthenticHasReview'
  BY <1>2, <1>4, <1>5, <1>6, ReviewsKept, Metadata DEF IInv, AuthenticHasReview
<1>15. FilesAreThere'
  BY <1>2, <1>4, <1>5, <1>6, Metadata DEF IInv, FilesAreThere
<1>16. BadgesLost'
  <2>1. \A id : Approved(id) => Approved(id)'
    BY <1>4, <1>6 DEF Approved
  <2>2. Unbadged' \ BadgeComing' \subseteq Unbadged \ BadgeComing
    BY <2>1, <1>5, ReviewsKept DEF Unbadged, BadgeComing
  <2>. QED
    BY <2>2, BadgesKept DEF IInv, Types
<1>17. Counted'
  BY <1>5, CountedKept DEF IInv, UnderWay
<1>. QED
  BY <1>8, <1>9, <1>10, <1>11, <1>12, <1>13, <1>14, <1>15, <1>16, <1>17 DEF IInv

LEMMA ListFileStep == ASSUME IInv, ListFile PROVE IInv'
<1>1. PICK j \in DOMAIN table : table[j] = writing.sub
  BY DEF ListFile, IInv, WriterKnows
<1>2. writing.sub \in Sub /\ writing.file \in File
  BY DEF ListFile, IInv, Types, Pen, Unlocked
<1>3. PICK s \in Sub : s = [writing.sub EXCEPT !.files = Append(@, writing.file)]
  BY <1>2, SubFields
<1>4. s.id = table[j].id /\ s.authentic = table[j].authentic /\ s.files = Append(table[j].files, writing.file)
  BY <1>1, <1>2, <1>3 DEF Sub
<1>5. s.authentic => Good(s.id)
  BY <1>4 DEF IInv, AuthenticHasReview
<1>6. \A k \in DOMAIN s.files : s.files[k] \in disk[s.id].attached
  <2>1. table[j].files \in Seq(File)
    BY <1>1, <1>2 DEF Sub
  <2>2. \A k \in DOMAIN s.files :
            \/ k \in DOMAIN table[j].files /\ s.files[k] = table[j].files[k]
            \/ s.files[k] = writing.file
    BY <1>2, <1>4, <2>1
  <2>3. writing.file \in disk[s.id].attached
    BY <1>1, <1>4 DEF ListFile, IInv, WriterKnows
  <2>. QED
    BY <1>4, <2>2, <2>3 DEF IInv, FilesAreThere
<1>7. writing' = [op |-> "list", sub |-> s]
  BY <1>3 DEF ListFile, Lock
<1>8. table' = [table EXCEPT ![PlaceOf(s.id)] = s] /\ Empty(s.id)
  BY <1>3 DEF ListFile
<1>. QED
  BY <1>4, <1>5, <1>6, <1>7, <1>8, ReplaceStep DEF ListFile

LEMMA MarkStep == ASSUME IInv, MarkAuthentic PROVE IInv'
<1>. DEFINE f == FindSubmission(review.sub)
            s == [f EXCEPT !.authentic = TRUE]
<1>1. review.sub \in InTable /\ Good(review.sub)
  BY DEF MarkAuthentic, IInv, ReviewerKnows
<1>2. PICK j \in DOMAIN table : table[j] = f /\ f \in Sub /\ f.id = review.sub
  BY <1>1, Place DEF IInv, Types
<1>3. s \in Sub /\ s.id = f.id /\ s.authentic /\ s.files = f.files
  BY <1>2 DEF Sub
<1>4. \A k \in DOMAIN s.files : s.files[k] \in disk[s.id].attached
  BY <1>2, <1>3 DEF IInv, FilesAreThere
<1>5. writing' = [op |-> "approve", sub |-> s]
  BY DEF MarkAuthentic, Lock
<1>. QED
  BY <1>1, <1>2, <1>3, <1>4, <1>5, ReplaceStep DEF MarkAuthentic, Unlocked

LEMMA PersistStep == ASSUME IInv, persist_metadata PROVE IInv'
<1>. DEFINE s == writing.sub
<1>. USE DEF persist_metadata
<1>1. disk \in [SubId -> Folder] /\ table \in Seq(Sub) /\ writing.op \in {"create", "list", "approve"}
  BY DEF IInv, Types
<1>2. s \in Sub /\ s.id \in SubId /\ disk[s.id].meta = Torn
  <2>1. s \in Sub
    BY <1>1 DEF IInv, Types, Pen, Unlocked
  <2>. QED
    BY <2>1, <1>1 DEF Sub, IInv, WriterKnows
<1>3. /\ disk' \in [SubId -> Folder] /\ SameReviews /\ disk'[s.id].meta = s
      /\ \A i \in SubId : /\ disk'[i].attached = disk[i].attached
                          /\ i # s.id => disk'[i].meta = disk[i].meta
  BY <1>1, <1>2 DEF Folder, SameReviews
<1>4. writing' = Unlocked /\ writing'.op = "none"
  BY DEF Unlocked
<1>5. \A i \in DOMAIN table : table[i] \in Sub /\ table[i].id \in SubId
  <2>1. \A i \in DOMAIN table : table[i] \in Sub
    BY <1>1
  <2>. QED
    BY <2>1 DEF Sub
<1>6. /\ writing.op = "create" => /\ s.id \notin InTable /\ Len(table) < MAX_SUBMISSIONS
                                  /\ s.files = <<>> /\ ~s.authentic
      /\ writing.op # "create" => \E i \in DOMAIN table : table[i] = s
  BY <1>1 DEF IInv, WriterKnows
<1>7. /\ table' \in Seq(Sub) /\ Len(table') <= MAX_SUBMISSIONS
      /\ DOMAIN table \subseteq DOMAIN table' /\ \A i \in DOMAIN table : table'[i] = table[i]
      /\ \A i \in DOMAIN table' : i \in DOMAIN table \/ (writing.op = "create" /\ i = Len(table) + 1)
      /\ writing.op = "create" => Len(table) + 1 \in DOMAIN table' /\ table'[Len(table) + 1] = s
  <2>1. CASE writing.op = "create"
    <3>1. table' = Append(table, s) /\ Len(table) < MAX_SUBMISSIONS
      BY <2>1, <1>6
    <3>. QED
      BY <2>1, <3>1, <1>1, <1>2, ReviewsAssumption
  <2>2. CASE writing.op # "create"
    BY <2>2, <1>1 DEF IInv, Types
  <2>. QED
    BY <2>1, <2>2
<1>8. \E i \in DOMAIN table' : table'[i] = s
  BY <1>6, <1>7
<1>9. \A i \in DOMAIN table' : table'[i] = s \/ (i \in DOMAIN table /\ table'[i] = table[i])
  BY <1>7
<1>10. UNCHANGED <<now, daily, shown, crashes, restarts>>
  OBVIOUS
<1>11. /\ review' \in Desk
       /\ \/ review' = review
          \/ /\ review.at = "mark" /\ review'.at = "count" /\ review'.sub = review.sub
             /\ review'.today = review.today /\ review'.by = review.by
  <2>1. CASE writing.op = "approve"
    <3>1. review.at = "mark"
      BY <2>1 DEF IInv, WriterKnows
    <3>2. review' = [review EXCEPT !.at = "count"]
      BY <2>1
    <3>3. review \in [at : {"store", "mark", "count"}, by : Reviewer, sub : SubId,
                      score : Score, today : 0 .. MAX_DAILY_REVIEWS - 1]
      BY <3>1 DEF IInv, Types, Desk, NoReview
    <3>. QED
      BY <3>1, <3>2, <3>3 DEF Desk
  <2>. QED
    BY <2>1 DEF IInv, Types
<1>12. Types'
  BY <1>3, <1>4, <1>7, <1>10, <1>11 DEF IInv, Types, Pen
<1>13. IdsOnce'
  <2>1. CASE writing.op = "create"
    <3>1. \A i \in DOMAIN table : table[i].id # s.id
      BY <2>1, <1>6 DEF InTable
    <3>. QED
      BY <2>1, <3>1, <1>7 DEF IInv, IdsOnce
  <2>2. CASE writing.op # "create"
    BY <2>2, <1>7 DEF IInv, IdsOnce
  <2>. QED
    BY <2>1, <2>2
<1>14. \A i \in DOMAIN table' : table'[i].id = s.id => table'[i] = s
  BY <1>8, <1>13 DEF IdsOnce
<1>15. OwnMeta' /\ NothingLeftOut'
  <2>1. \A id \in InTable : id \in InTable'
    BY <1>7 DEF InTable
  <2>2. s.id \in InTable'
    BY <1>8 DEF InTable
  <2>. QED
    BY <2>1, <2>2, <1>3 DEF IInv, OwnMeta, NothingLeftOut
<1>16. Listed'
  <2>. SUFFICES ASSUME NEW i \in DOMAIN table' PROVE disk'[table'[i].id].meta = table'[i]
    BY DEF Listed
  <2>1. CASE table'[i].id = s.id
    BY <2>1, <1>3, <1>14
  <2>2. CASE table'[i].id # s.id
    <3>1. i \in DOMAIN table /\ table'[i] = table[i] /\ table[i] # s
      BY <2>2, <1>9
    <3>. QED
      BY <2>2, <3>1, <1>3, <1>5 DEF IInv, Listed
  <2>. QED
    BY <2>1, <2>2
<1>17. WriterKnows'
  BY <1>4 DEF WriterKnows
<1>18. ReviewerKnows'
  <2>1. \A id \in InTable : id \in InTable'
    BY <1>7 DEF InTable
  <2>2. review.at # "idle" => review.sub \in SubId /\ review.by \in Reviewer
    BY DEF IInv, Types, Desk, NoReview
  <2>3. (review.at # "idle" => review.sub \in InTable /\ review.today = GetReviewsTodayCount(review.by))'
    BY <2>1, <1>10, <1>11 DEF IInv, ReviewerKnows, GetReviewsTodayCount
  <2>4. (review.at = "store" => ~HasReviewerReviewed(review.sub, review.by))'
    BY <2>2, <1>3, <1>11 DEF IInv, ReviewerKnows, HasReviewerReviewed, SameReviews
  <2>5. (review.at = "mark" => Good(review.sub))'
    BY <2>2, <1>3, <1>11 DEF IInv, ReviewerKnows, Good, SameReviews
  <2>. QED
    BY <2>3, <2>4, <2>5 DEF ReviewerKnows
<1>19. Past' /\ OneReviewEach'
  BY <1>3, <1>10, ReviewsKept DEF IInv, Past, SameReviews
<1>20. s.authentic => Good(s.id)
  BY <1>6 DEF IInv, AuthenticHasReview
<1>21. \A k \in DOMAIN s.files : s.files[k] \in disk[s.id].attached
  BY <1>6 DEF IInv, FilesAreThere
<1>22. AuthenticHasReview'
  BY <1>2, <1>3, <1>5, <1>9, <1>20, ReviewsKept DEF IInv, AuthenticHasReview
<1>23. FilesAreThere'
  <2>1. ASSUME NEW i \in DOMAIN table', NEW k \in DOMAIN table'[i].files
        PROVE  table'[i].files[k] \in disk'[table'[i].id].attached
    BY <1>2, <1>3, <1>5, <1>9, <1>21, <2>1 DEF IInv, FilesAreThere
  <2>2. ASSUME NEW id \in SubId, IsSubmission(disk'[id].meta), NEW k \in DOMAIN disk'[id].meta.files
        PROVE  disk'[id].meta.files[k] \in disk'[id].attached
    BY <1>2, <1>3, <1>5, <1>21, <2>2 DEF IInv, FilesAreThere
  <2>. QED
    BY <2>1, <2>2 DEF FilesAreThere
<1>24. BadgesLost'
  <2>1. \A id : Approved(id) => Approved(id)'
    BY <1>7 DEF Approved
  <2>2. BadgeComing' = BadgeComing \/ (writing.op = "approve" /\ BadgeComing = {s.id})
    BY <1>1 DEF BadgeComing, IInv, WriterKnows
  <2>3. writing.op = "approve" => Approved(s.id)
    BY <1>6 DEF IInv, WriterKnows, Approved
  <2>4. Unbadged' \ BadgeComing' \subseteq Unbadged \ BadgeComing
    BY <2>1, <2>2, <2>3, <1>3, ReviewsKept DEF Unbadged
  <2>. QED
    BY <2>4, <1>10, BadgesKept DEF IInv, Types
<1>25. Counted'
  <2>1. \A r \in Reviewer : UnderWay(r)' = UnderWay(r)
    BY <1>11 DEF UnderWay
  <2>. QED
    BY <2>1, <1>3, <1>10, CountedKept DEF IInv
<1>. QED
  BY <1>12, <1>13, <1>15, <1>16, <1>17, <1>18, <1>19, <1>22, <1>23, <1>24, <1>25 DEF IInv

\* The clock, the table and the disk are left alone by most of a review.
LEMMA DiskKept ==
    ASSUME IInv, UNCHANGED <<table, disk, writing, crashes>>
    PROVE  /\ SameReviews /\ IdsOnce' /\ OwnMeta' /\ Listed' /\ NothingLeftOut'
           /\ AuthenticHasReview' /\ FilesAreThere' /\ OneReviewEach'
           /\ InTable' = InTable /\ Unbadged' = Unbadged
           /\ (review'.at = "mark" /\ review'.sub = review.sub) \/ writing.op # "approve" => WriterKnows'
  BY DEF IInv, SameReviews, IdsOnce, OwnMeta, Listed, NothingLeftOut, AuthenticHasReview,
         FilesAreThere, OneReviewEach, InTable, Unbadged, Approved, Good, WriterKnows

LEMMA PendingStep ==
    ASSUME IInv, NEW r \in Reviewer, handle_get_submissions_pending(r) PROVE IInv'
<1>. USE DEF handle_get_submissions_pending
<1>1. ListPendingForReviewer(r) \subseteq SubId
  <2>1. \A i \in DOMAIN table : table[i] \in Sub
    BY DEF IInv, Types
  <2>. QED
    BY <2>1 DEF ListPendingForReviewer, Sub
<1>2. Types'
  BY <1>1 DEF IInv, Types
<1>3. WriterKnows' /\ ReviewerKnows' /\ Past'
  BY DEF IInv, WriterKnows, ReviewerKnows, Past, InTable, HasReviewerReviewed, Good, GetReviewsTodayCount
<1>4. BadgesLost'
  BY DiskKept, BadgesKept DEF IInv, Types, BadgeComing
<1>5. Counted'
  BY DiskKept, CountedKept DEF IInv, UnderWay
<1>. QED
  BY <1>2, <1>3, <1>4, <1>5, DiskKept DEF IInv

LEMMA SubmitStep ==
    ASSUME IInv, NEW r \in Reviewer, NEW id \in SubId, NEW score \in Score,
           SubmitReview(r, id, score)
    PROVE  IInv'
<1>. USE DEF SubmitReview
<1>1. review.at = "idle" /\ daily \in [Reviewer -> Count] /\ MAX_DAILY_REVIEWS \in Nat \ {0}
  BY ReviewsAssumption DEF IInv, Types
<1>2. GetReviewsTodayCount(r) \in 0 .. MAX_DAILY_REVIEWS - 1
  BY <1>1 DEF GetReviewsTodayCount, Count
<1>3. /\ review'.at = "store" /\ review'.by = r /\ review'.sub = id
      /\ review'.today = GetReviewsTodayCount(r)
  OBVIOUS
<1>4. Types'
  BY <1>2, <1>3 DEF IInv, Types, Desk
<1>5. WriterKnows'
  BY <1>1, DiskKept DEF IInv, WriterKnows
<1>6. ReviewerKnows'
  BY <1>3 DEF ReviewerKnows, GetReviewsTodayCount, HasReviewerReviewed, InTable
<1>7. Past'
  BY DEF IInv, Past
<1>8. BadgesLost'
  <2>1. BadgeComing' = BadgeComing
    BY <1>1, <1>3 DEF BadgeComing
  <2>. QED
    BY <2>1, DiskKept, BadgesKept DEF IInv, Types
<1>9. Counted'
  <2>1. \A q \in Reviewer : UnderWay(q)' = UnderWay(q)
    BY <1>1, <1>3 DEF UnderWay
  <2>. QED
    BY <2>1, DiskKept, CountedKept DEF IInv
<1>. QED
  BY <1>4, <1>5, <1>6, <1>7, <1>8, <1>9, DiskKept DEF IInv

LEMMA StoreStep == ASSUME IInv, StoreReview PROVE IInv'
<1>. DEFINE v == [by |-> review.by, score |-> review.score, when |-> now]
<1>. USE DEF StoreReview
<1>1. /\ review.by \in Reviewer /\ review.sub \in SubId /\ review.score \in Score
      /\ review.today \in 0 .. MAX_DAILY_REVIEWS - 1 /\ now \in Nat
      /\ review \in [at : {"store", "mark", "count"}, by : Reviewer, sub : SubId,
                     score : Score, today : 0 .. MAX_DAILY_REVIEWS - 1]
  <2>1. now \in Nat
    BY ReviewsAssumption DEF IInv, Types
  <2>. QED
    BY <2>1 DEF IInv, Types, Desk, NoReview
<1>2. v \in Rev /\ v.by = review.by /\ v.score = review.score /\ v.when = now
  BY <1>1 DEF Rev
<1>3. /\ disk' \in [SubId -> Folder]
      /\ disk'[review.sub].reviews = disk[review.sub].reviews \cup {v}
      /\ \A i \in SubId : /\ disk'[i].meta = disk[i].meta /\ disk'[i].attached = disk[i].attached
                          /\ i # review.sub => disk'[i].reviews = disk[i].reviews
  BY <1>1, <1>2 DEF IInv, Types, Folder
<1>4. /\ review' \in Desk /\ review'.by = review.by /\ review'.sub = review.sub
      /\ review'.today = review.today
      /\ review'.at = IF review.score >= 4 THEN "mark" ELSE "count"
  BY <1>1 DEF Desk
<1>5. Types'
  BY <1>3, <1>4 DEF IInv, Types
<1>6. IdsOnce' /\ OwnMeta' /\ NothingLeftOut' /\ InTable' = InTable
  BY <1>3 DEF IInv, IdsOnce, OwnMeta, NothingLeftOut, InTable
<1>7. \A i \in DOMAIN table : table[i].id \in SubId
  <2>1. \A i \in DOMAIN table : table[i] \in Sub
    BY DEF IInv, Types
  <2>. QED
    BY <2>1 DEF Sub
<1>8. Listed' /\ FilesAreThere'
  BY <1>3, <1>7 DEF IInv, Listed, FilesAreThere
<1>9. \A id \in SubId : Good(id) => Good(id)'
  BY <1>3 DEF Good
<1>10. AuthenticHasReview'
  BY <1>3, <1>7, <1>9 DEF IInv, AuthenticHasReview
<1>11. WriterKnows'
  <2>1. writing.op # "none" => writing.sub.id \in SubId
    BY DEF IInv, Types, Pen, Unlocked, Sub
  <2>. QED
    BY <1>3, <1>6, <2>1 DEF IInv, WriterKnows
<1>12. ReviewerKnows'
  <2>1. (review.at # "idle" => review.sub \in InTable /\ review.today = GetReviewsTodayCount(review.by))'
    BY <1>4, <1>6 DEF IInv, ReviewerKnows, GetReviewsTodayCount
  <2>2. (review.at = "mark" => Good(review.sub))'
    BY <1>1, <1>2, <1>3, <1>4 DEF Good
  <2>. QED
    BY <2>1, <2>2, <1>4 DEF ReviewerKnows
<1>13. Past'
  <2>1. \A id \in SubId : \A w \in disk'[id].reviews : w.when <= now
    BY <1>1, <1>2, <1>3 DEF IInv, Past
  <2>. QED
    BY <2>1 DEF IInv, Past
<1>14. OneReviewEach'
  <2>1. \A w \in disk[review.sub].reviews : w.by # v.by
    BY <1>2 DEF IInv, ReviewerKnows, HasReviewerReviewed
  <2>. QED
    BY <2>1, <1>3 DEF IInv, OneReviewEach
<1>15. BadgesLost'
  <2>1. \A id : Approved(id)' <=> Approved(id)
    BY DEF Approved
  <2>2. \A id \in SubId : Good(id)' => Good(id) \/ (id = review.sub /\ review.score >= 4)
    BY <1>1, <1>2, <1>3 DEF Good
  <2>3. Unbadged' \ BadgeComing' \subseteq Unbadged \ BadgeComing
    BY <2>1, <2>2, <1>4 DEF Unbadged, BadgeComing
  <2>. QED
    BY <2>3, BadgesKept DEF IInv, Types
<1>16. Counted'
  <2>. SUFFICES ASSUME NEW r \in Reviewer PROVE \E missed \in SUBSET SubId : CountedBut(r, missed)'
    BY DEF Counted
  <2>1. PICK missed \in SUBSET SubId : CountedBut(r, missed)
    BY DEF IInv, Counted
  <2>2. GetReviewsTodayCount(r)' = GetReviewsTodayCount(r)
    BY DEF GetReviewsTodayCount
  <2>3. UnderWay(r) = {} /\ UnderWay(r)' = IF r = review.by THEN {review.sub} ELSE {}
    BY <1>4 DEF UnderWay
  <2>4. \A id \in Recent(r)' \ UnderWay(r)' : /\ id \in Recent(r)
           /\ \A w \in disk'[id].reviews : w.by = r => w \in disk[id].reviews
    BY <2>3, <1>2, <1>3 DEF Recent
  <2>5. Recent(r)' \ (missed \cup UnderWay(r)') \in SUBSET (Recent(r) \ (missed \cup UnderWay(r)))
    BY <2>3, <2>4
  <2>6. Cardinality(Recent(r)' \ (missed \cup UnderWay(r)')) <= GetReviewsTodayCount(r)
    <3>1. Recent(r) \ (missed \cup UnderWay(r)) \in SUBSET SubId
      BY DEF Recent
    <3>2. GetReviewsTodayCount(r) \in Nat
      BY <1>1, ReviewsAssumption DEF GetReviewsTodayCount, IInv, Types, Count
    <3>. QED
      BY <2>1, <2>5, <3>1, <3>2, Sizes DEF CountedBut
  <2>7. CountedBut(r, missed)'
    BY <2>1, <2>2, <2>3, <2>4, <2>5, <2>6 DEF CountedBut
  <2>. QED
    BY <2>7
<1>. QED
  BY <1>5, <1>6, <1>8, <1>10, <1>11, <1>12, <1>13, <1>14, <1>15, <1>16 DEF IInv

\* The count of a reviewer is a number of reviews.
LEMMA CountType ==
    ASSUME Types, NEW r \in Reviewer
    PROVE  /\ GetReviewsTodayCount(r) \in Nat /\ GetReviewsTodayCount(r) <= MAX_DAILY_REVIEWS
           /\ daily[r].reset_at \in Nat /\ now \in Nat /\ DAY \in Nat /\ DAY > 0
           /\ crashes \in Nat /\ MAX_DAILY_REVIEWS \in Nat /\ MAX_DAILY_REVIEWS > 0
<1>1. now \in Nat /\ MAX_DAILY_REVIEWS \in Nat \ {0} /\ DAY \in Nat \ {0}
  BY ReviewsAssumption DEF Types
<1>. QED
  BY <1>1 DEF Types, Count, GetReviewsTodayCount

LEMMA CountStep == ASSUME IInv, update_daily_count PROVE IInv'
<1>. DEFINE by == review.by
<1>. USE DEF update_daily_count
<1>1. /\ by \in Reviewer /\ review.sub \in SubId /\ review.at = "count"
      /\ review.today \in 0 .. MAX_DAILY_REVIEWS - 1
      /\ now \in Nat /\ MAX_DAILY_REVIEWS \in Nat \ {0} /\ DAY \in Nat \ {0}
  BY ReviewsAssumption DEF IInv, Types, Desk, NoReview
<1>2. /\ daily' \in [Reviewer -> Count]
      /\ daily'[by] = [count |-> review.today + 1, reset_at |-> now]
      /\ \A r \in Reviewer : r # by => daily'[r] = daily[r]
  BY <1>1 DEF IInv, Types, Count
<1>3. review' = NoReview /\ review'.at = "idle"
  BY DEF NoReview
<1>4. shown' \in [Reviewer -> SUBSET SubId]
  BY DEF IInv, Types
<1>5. Types'
  BY <1>2, <1>3, <1>4 DEF IInv, Types, Desk
<1>6. WriterKnows'
  BY <1>1, DiskKept DEF IInv, WriterKnows
<1>7. ReviewerKnows'
  BY <1>3 DEF ReviewerKnows
<1>8. Past'
  BY <1>1, <1>2 DEF IInv, Past
<1>9. BadgesLost'
  <2>1. BadgeComing' = BadgeComing
    BY <1>1, <1>3 DEF BadgeComing
  <2>. QED
    BY <2>1, DiskKept, BadgesKept DEF IInv, Types
<1>10. Counted'
  <2>. SUFFICES ASSUME NEW r \in Reviewer PROVE \E missed \in SUBSET SubId : CountedBut(r, missed)'
    BY DEF Counted
  <2>1. PICK missed \in SUBSET SubId : CountedBut(r, missed)
    BY DEF IInv, Counted
  <2>. DEFINE was == Recent(r) \ (missed \cup UnderWay(r))
              is == Recent(r) \ missed
  <2>2. Recent(r)' = Recent(r) /\ UnderWay(r)' = {} /\ Recent(r)' \ (missed \cup UnderWay(r)') = is
    BY <1>3 DEF Recent, UnderWay
  <2>3. was \in SUBSET SubId /\ is \in SUBSET SubId
    BY DEF Recent
  <2>4. CASE r = by
    <3>1. GetReviewsTodayCount(r)' = review.today + 1 /\ daily'[r].reset_at = now
      BY <1>1, <1>2, <2>4 DEF GetReviewsTodayCount
    <3>2. GetReviewsTodayCount(r) = review.today
      BY <1>1, <2>4 DEF IInv, ReviewerKnows
    <3>3. is \in SUBSET (was \cup {review.sub})
      BY <1>1, <2>4 DEF UnderWay
    <3>4. IsFiniteSet(was) /\ Cardinality(was) \in Nat /\ was \cup {review.sub} \in SUBSET SubId
      BY <1>1, <2>3, Sizes
    <3>5. Cardinality(was \cup {review.sub}) <= Cardinality(was) + 1
      BY <3>4, OneMore
    <3>6. /\ Cardinality(is) <= Cardinality(was \cup {review.sub})
          /\ Cardinality(is) \in Nat /\ Cardinality(was \cup {review.sub}) \in Nat
      BY <3>3, <3>4, Sizes
    <3>7. Cardinality(is) <= review.today + 1
      BY <3>2, <3>4, <3>5, <3>6, <2>1, <1>1 DEF CountedBut
    <3>8. CountedBut(r, missed)'
      BY <2>1, <2>2, <3>1, <3>7 DEF CountedBut, IInv, Past, Recent
    <3>. QED
      BY <3>8
  <2>5. CASE r # by
    <3>1. UnderWay(r) = {} /\ daily'[r] = daily[r] /\ GetReviewsTodayCount(r)' = GetReviewsTodayCount(r)
      BY <2>5, <1>2 DEF UnderWay, GetReviewsTodayCount
    <3>2. CountedBut(r, missed)'
      BY <2>1, <2>2, <3>1 DEF CountedBut
    <3>. QED
      BY <3>2
  <2>. QED
    BY <2>4, <2>5
<1>. QED
  BY <1>5, <1>6, <1>7, <1>8, <1>9, <1>10, DiskKept DEF IInv

LEMMA TickStep == ASSUME IInv, Tick PROVE IInv'
<1>. USE DEF Tick
<1>1. now \in Nat /\ now' = now + 1 /\ DAY \in Nat \ {0} /\ review.at = "idle" /\ MaxTime \in Nat
  BY ReviewsAssumption DEF IInv, Types
<1>2. Types'
  BY <1>1, ReviewsAssumption DEF IInv, Types
<1>3. WriterKnows' /\ ReviewerKnows'
  BY <1>1, DiskKept DEF IInv, Unlocked, WriterKnows, ReviewerKnows
<1>4. Past'
  <2>1. \A id \in SubId : \A v \in disk[id].reviews : v.when \in Nat
    BY DEF IInv, Types, Folder, Rev
  <2>2. \A r \in Reviewer : daily[r].reset_at \in Nat
    BY DEF IInv, Types, Count
  <2>. QED
    BY <2>1, <2>2, <1>1 DEF IInv, Past
<1>5. BadgesLost'
  BY DiskKept, BadgesKept DEF IInv, Types, BadgeComing
<1>6. Counted'
  <2>. SUFFICES ASSUME NEW r \in Reviewer PROVE \E missed \in SUBSET SubId : CountedBut(r, missed)'
    BY DEF Counted
  <2>1. PICK missed \in SUBSET SubId : CountedBut(r, missed)
    BY DEF IInv, Counted
  <2>2. UnderWay(r) = {} /\ UnderWay(r)' = {}
    BY <1>1 DEF UnderWay
  <2>3. \A id \in SubId : \A v \in disk[id].reviews :
            v.when \in Nat /\ (now' - v.when < DAY => now - v.when < DAY)
    <3>1. \A id \in SubId : \A v \in disk[id].reviews : v.when \in Nat
      BY DEF IInv, Types, Folder, Rev
    <3>. QED
      BY <3>1, <1>1
  <2>4. Recent(r)' \subseteq Recent(r)
    BY <2>3 DEF Recent
  <2>5. CASE now' - daily[r].reset_at >= DAY
    <3>0. daily[r].reset_at \in Nat
      BY CountType DEF IInv
    <3>1. \A id \in Recent(r)' \ missed : \A v \in disk[id].reviews :
              ~(v.by = r /\ now' - v.when < DAY)
      <4>. SUFFICES ASSUME NEW id \in Recent(r)' \ missed, NEW v \in disk[id].reviews,
                           v.by = r, now' - v.when < DAY
                    PROVE  FALSE
        OBVIOUS
      <4>1. id \in SubId /\ v.when \in Nat /\ now - v.when < DAY /\ id \in Recent(r)
        BY <2>3, <2>4 DEF Recent
      <4>2. v.when <= daily[r].reset_at
        BY <4>1, <2>1, <2>2 DEF CountedBut
      <4>. QED
        BY <4>1, <4>2, <2>5, <3>0, <1>1
    <3>2. Recent(r)' \ missed = {}
      BY <3>1 DEF Recent
    <3>3. Cardinality(Recent(r)' \ (missed \cup UnderWay(r)')) = 0
      BY <3>2, <2>2, FS_EmptySet
    <3>4. GetReviewsTodayCount(r)' = 0
      BY <2>5 DEF GetReviewsTodayCount
    <3>5. CountedBut(r, missed)'
      BY <2>1, <2>2, <3>2, <3>3, <3>4 DEF CountedBut
    <3>. QED
      BY <3>5
  <2>6. CASE ~(now' - daily[r].reset_at >= DAY)
    <3>0. daily[r].reset_at \in Nat /\ now \in Nat
      BY CountType DEF IInv
    <3>1. GetReviewsTodayCount(r)' = GetReviewsTodayCount(r)
      BY <2>6, <3>0, <1>1 DEF GetReviewsTodayCount
    <3>2. Recent(r)' \ missed \in SUBSET (Recent(r) \ missed) /\ Recent(r) \ missed \in SUBSET SubId
      BY <2>4 DEF Recent
    <3>3. Cardinality(Recent(r)' \ missed) <= GetReviewsTodayCount(r)
      <4>1. Cardinality(Recent(r)' \ missed) <= Cardinality(Recent(r) \ missed)
            /\ Cardinality(Recent(r)' \ missed) \in Nat /\ Cardinality(Recent(r) \ missed) \in Nat
        BY <3>2, Sizes
      <4>2. Cardinality(Recent(r) \ missed) <= GetReviewsTodayCount(r)
        BY <2>1, <2>2 DEF CountedBut
      <4>. QED
        BY <4>1, <4>2, CountType DEF IInv
    <3>4. \A id \in Recent(r)' \ missed : \A v \in disk[id].reviews :
              v.by = r /\ now' - v.when < DAY => v.when <= daily[r].reset_at
      BY <2>1, <2>2, <2>3, <2>4 DEF CountedBut, Recent
    <3>5. CountedBut(r, missed)'
      BY <2>1, <2>2, <3>1, <3>3, <3>4 DEF CountedBut
    <3>. QED
      BY <3>5
  <2>. QED
    BY <2>5, <2>6
<1>. QED
  BY <1>2, <1>3, <1>4, <1>5, <1>6, DiskKept DEF IInv

\* A stop and a start with the same directories.
LEMMA ReloadStep ==
    ASSUME IInv, InitReviewSystem, disk' = disk, writing' = Unlocked
    PROVE  /\ table' \in Seq(Sub) /\ Len(table') <= MAX_SUBMISSIONS
           /\ SameReviews /\ IdsOnce' /\ OwnMeta' /\ Listed' /\ NothingLeftOut'
           /\ WriterKnows' /\ AuthenticHasReview' /\ FilesAreThere' /\ OneReviewEach'
           /\ \A id : Approved(id) => \/ Approved(id)'
                                      \/ writing.op \in {"list", "approve"} /\ writing.sub.id = id
<1>1. /\ table' \in Seq(Sub) /\ Len(table') <= MAX_SUBMISSIONS
      /\ \A i, j \in DOMAIN table' : table'[i].id = table'[j].id => i = j
      /\ \A i \in DOMAIN table' : table'[i].id \in SubId /\ disk[table'[i].id].meta = table'[i]
      /\ \A id \in SubId : IsSubmission(disk[id].meta) =>
             \E i \in DOMAIN table' : table'[i] = disk[id].meta
  BY Reload DEF IInv
<1>2. \A i \in DOMAIN table' : table'[i] \in Sub /\ IsSubmission(table'[i])
  BY <1>1, Metadata
<1>3. SameReviews /\ OwnMeta' /\ OneReviewEach' /\ IdsOnce' /\ Listed'
  BY <1>1 DEF IInv, SameReviews, OwnMeta, OneReviewEach, IdsOnce, Listed
<1>4. NothingLeftOut'
  <2>. SUFFICES ASSUME NEW id \in SubId, IsSubmission(disk[id].meta)
                PROVE  \E i \in DOMAIN table' : table'[i].id = id
    BY DEF NothingLeftOut, InTable
  <2>. QED
    BY <1>1 DEF IInv, OwnMeta
<1>5. WriterKnows'
  BY DEF WriterKnows, Unlocked
<1>6. AuthenticHasReview' /\ FilesAreThere'
  BY <1>1, <1>2 DEF IInv, AuthenticHasReview, FilesAreThere, Good
<1>7. ASSUME NEW id, Approved(id), ~(writing.op \in {"list", "approve"} /\ writing.sub.id = id)
      PROVE  Approved(id)'
  <2>1. PICK i \in DOMAIN table : table[i].id = id /\ table[i].authentic
    BY <1>7 DEF Approved
  <2>2. table[i] \in Sub /\ id \in SubId
    <3>1. table[i] \in Sub
      BY DEF IInv, Types
    <3>. QED
      BY <2>1, <3>1 DEF Sub
  <2>3. disk[id].meta = table[i]
    BY <1>7, <2>1 DEF IInv, Listed
  <2>4. PICK j \in DOMAIN table' : table'[j] = table[i]
    BY <1>1, <2>2, <2>3, Metadata
  <2>. QED
    BY <2>1, <2>4 DEF Approved
<1>. QED
  BY <1>1, <1>3, <1>4, <1>5, <1>6, <1>7

LEMMA RestartStep == ASSUME IInv, FreeReviewSystem PROVE IInv'
<1>. USE DEF FreeReviewSystem
<1>0. writing' = Unlocked /\ writing.op = "none"
  BY DEF Unlocked
<1>1. Types'
  BY <1>0, ReloadStep DEF IInv, Types
<1>2. ReviewerKnows' /\ Past'
  BY DEF IInv, ReviewerKnows, Past
<1>3. BadgesLost'
  <2>1. Unbadged' \ BadgeComing' \subseteq Unbadged \ BadgeComing
    BY <1>0, ReloadStep DEF Unbadged, BadgeComing, Good
  <2>. QED
    BY <2>1, BadgesKept DEF IInv, Types
<1>4. Counted'
  BY <1>0, ReloadStep, CountedKept DEF IInv, UnderWay
<1>. QED
  BY <1>0, <1>1, <1>2, <1>3, <1>4, ReloadStep DEF IInv

\* One more crash allows one more day's worth of reviews.
LEMMA Budget == \A m, c \in Nat : m * c \in Nat /\ m * (c + 1) = m * c + m
  OBVIOUS

LEMMA CrashStep == ASSUME IInv, Crash PROVE IInv'
<1>. USE DEF Crash
<1>1. writing' = Unlocked /\ review' = NoReview /\ review'.at = "idle" /\ disk' = disk /\ now' = now
  BY DEF NoReview
<1>2. review.at = "idle" \/ (review.by \in Reviewer /\ review.sub \in SubId
                              /\ review.today \in 0 .. MAX_DAILY_REVIEWS - 1)
  BY DEF IInv, Types, Desk, NoReview
<1>3. /\ daily' \in [Reviewer -> Count]
      /\ \A r \in Reviewer : \/ daily'[r] = daily[r]
                             \/ review.at = "count" /\ review.by = r /\ daily'[r] = NoCount
  <2>1. CASE daily' = daily
    BY <2>1 DEF IInv, Types
  <2>2. CASE review.at = "count" /\ daily' = [daily EXCEPT ![review.by] = NoCount]
    <3>1. NoCount \in Count
      BY ReviewsAssumption DEF NoCount, Count
    <3>. QED
      BY <3>1, <2>2, <1>2 DEF IInv, Types
  <2>. QED
    BY <2>1, <2>2
<1>4. Types'
  BY <1>1, <1>3, ReloadStep DEF IInv, Types, Pen, Desk
<1>5. ReviewerKnows'
  BY <1>1 DEF ReviewerKnows
<1>6. Past'
  <2>1. \A r \in Reviewer : daily'[r].reset_at <= now
    BY <1>3, CountType DEF IInv, Past, NoCount
  <2>. QED
    BY <2>1, <1>1 DEF IInv, Past
<1>7. BadgesLost'
  <2>. DEFINE lost == Unbadged \ BadgeComing
              L == lost \cup {review.sub}
  <2>1. Unbadged' \ BadgeComing' \in SUBSET (L \cup {writing.sub.id})
    BY <1>1, ReloadStep DEF Unbadged, BadgeComing, Good
  <2>2. IsFiniteSet(lost) /\ Cardinality(lost) \in Nat
    <3>1. lost \in SUBSET SubId
      BY DEF Unbadged
    <3>. QED
      BY <3>1, Sizes
  <2>3. IsFiniteSet(L) /\ Cardinality(L) \in Nat /\ Cardinality(L) <= Cardinality(lost) + 1
    <3>. HIDE DEF lost
    <3>. QED
      BY <2>2, OneMore DEF L
  <2>4. /\ IsFiniteSet(L \cup {writing.sub.id}) /\ Cardinality(L \cup {writing.sub.id}) \in Nat
        /\ Cardinality(L \cup {writing.sub.id}) <= Cardinality(L) + 1
    <3>. HIDE DEF L
    <3>. QED
      BY <2>3, OneMore
  <2>5. /\ Cardinality(Unbadged' \ BadgeComing') \in Nat
        /\ Cardinality(Unbadged' \ BadgeComing') <= Cardinality(L \cup {writing.sub.id})
    BY <2>1, <2>4, FS_Subset, FS_CardinalityType
  <2>6. Cardinality(lost) <= 2 * crashes /\ crashes \in Nat /\ crashes' = crashes + 1
    BY DEF IInv, BadgesLost, Types
  <2>7. Cardinality(Unbadged' \ BadgeComing') <= 2 * crashes'
    <3>. HIDE DEF lost, L
    <3>. QED
      BY <2>2, <2>3, <2>4, <2>5, <2>6
  <2>. QED
    BY <2>7 DEF BadgesLost
<1>8. Counted'
  <2>. SUFFICES ASSUME NEW r \in Reviewer PROVE \E missed \in SUBSET SubId : CountedBut(r, missed)'
    BY DEF Counted
  <2>1. PICK missed \in SUBSET SubId : CountedBut(r, missed)
    BY DEF IInv, Counted
  <2>. DEFINE was == Recent(r) \ (missed \cup UnderWay(r))
              M == MAX_DAILY_REVIEWS
  <2>2. Recent(r)' = Recent(r) /\ UnderWay(r)' = {} /\ crashes' = crashes + 1
    BY <1>1 DEF Recent, UnderWay
  <2>3. /\ crashes \in Nat /\ M \in Nat /\ M > 0 /\ M * crashes \in Nat
        /\ M * crashes' = M * crashes + M
    BY <2>2, CountType, Budget DEF IInv
  <2>4. was \in SUBSET SubId /\ UnderWay(r) \in SUBSET SubId
    BY <1>2 DEF Recent, UnderWay
  <2>5. /\ IsFiniteSet(missed) /\ Cardinality(missed) \in Nat /\ Cardinality(missed) <= M * crashes
        /\ IsFiniteSet(was) /\ Cardinality(was) \in Nat /\ Cardinality(was) <= GetReviewsTodayCount(r)
    BY <2>1, <2>4, Sizes DEF CountedBut
  <2>6. CASE daily'[r] = daily[r]
    <3>0. PICK all \in SUBSET SubId : all = missed \cup UnderWay(r)
      BY <2>4
    <3>1. Cardinality(all) \in Nat /\ Cardinality(all) <= Cardinality(missed) + 1
      <4>1. CASE UnderWay(r) = {}
        <5>1. all = missed
          BY <4>1, <3>0
        <5>. QED
          BY <5>1, <2>5
      <4>2. CASE UnderWay(r) = {review.sub}
        <5>1. all = missed \cup {review.sub}
          BY <4>2, <3>0
        <5>. QED
          BY <5>1, <2>5, OneMore
      <4>. QED
        BY <4>1, <4>2 DEF UnderWay
    <3>2. Cardinality(all) <= M * crashes'
      BY <3>1, <2>3, <2>5
    <3>3. GetReviewsTodayCount(r)' = GetReviewsTodayCount(r)
      BY <2>6, <1>1 DEF GetReviewsTodayCount
    <3>4. Recent(r)' \ (all \cup UnderWay(r)') = was
      BY <2>2, <3>0
    <3>5. CountedBut(r, all)'
      BY <2>1, <2>2, <2>6, <1>1, <3>2, <3>3, <3>4 DEF CountedBut
    <3>. QED
      BY <3>5
  <2>7. CASE review.at = "count" /\ review.by = r /\ daily'[r] = NoCount
    <3>. DEFINE most == missed \cup was
    <3>0. PICK all \in SUBSET SubId : all = most \cup {review.sub}
      BY <2>4, <2>7, <1>2
    <3>1. IsFiniteSet(most) /\ Cardinality(most) \in Nat /\ Cardinality(most) <= Cardinality(missed) + Cardinality(was)
      <4>1. IsFiniteSet(most) /\ IsFiniteSet(missed \cap was)
        BY <2>5, FS_Union, FS_Intersection
      <4>2. Cardinality(most) = Cardinality(missed) + Cardinality(was) - Cardinality(missed \cap was)
        BY <2>5, FS_Union
      <4>3. Cardinality(most) \in Nat /\ Cardinality(missed \cap was) \in Nat
        BY <4>1, FS_CardinalityType
      <4>. QED
        BY <4>1, <4>2, <4>3, <2>5
    <3>2. Cardinality(all) \in Nat /\ Cardinality(all) <= Cardinality(most) + 1
      BY <3>0, <3>1, OneMore
    <3>3. GetReviewsTodayCount(r) = review.today /\ review.today \in 0 .. M - 1
      BY <2>7, <1>2 DEF IInv, ReviewerKnows
    <3>4. Cardinality(all) <= M * crashes'
      <4>. HIDE DEF most, was
      <4>. QED
        BY <3>1, <3>2, <3>3, <2>3, <2>5
    <3>5. Recent(r)' \ (all \cup UnderWay(r)') = {}
      BY <2>2, <2>7, <3>0 DEF UnderWay
    <3>6. GetReviewsTodayCount(r)' = 0
      BY <2>7 DEF GetReviewsTodayCount, NoCount
    <3>7. Cardinality(Recent(r)' \ (all \cup UnderWay(r)')) = 0
      BY <3>5, FS_EmptySet
    <3>8. CountedBut(r, all)'
      BY <3>4, <3>5, <3>6, <3>7 DEF CountedBut
    <3>. QED
      BY <3>8
  <2>. QED
    BY <2>6, <2>7, <1>3
<1>. QED
  BY <1>1, <1>4, <1>5, <1>6, <1>7, <1>8, ReloadStep DEF IInv

----------------------------------------------------------------------------
\* The theorems

LEMMA InitHolds == Init => IInv
<1>. SUFFICES ASSUME Init PROVE IInv
  OBVIOUS
<1>. USE DEF Init
<1>1. /\ \A id \in SubId : /\ disk[id] = NoDirectory /\ disk[id].meta = Absent
                           /\ disk[id].reviews = {} /\ disk[id].attached = {}
      /\ writing.op = "none" /\ review.at = "idle" /\ DOMAIN table = {}
  BY DEF NoDirectory, Unlocked, NoReview
<1>2. Types
  <2>1. NoDirectory \in Folder
    BY DEF NoDirectory, Folder
  <2>2. NoCount \in Count
    BY ReviewsAssumption DEF NoCount, Count
  <2>3. now \in DAY .. MaxTime /\ MAX_SUBMISSIONS \in Nat
    BY ReviewsAssumption
  <2>4. table \in Seq(Sub) /\ Len(table) = 0
    OBVIOUS
  <2>. QED
    BY <2>1, <2>2, <2>3, <2>4 DEF Types, Pen, Desk
<1>3. IdsOnce /\ OwnMeta /\ Listed /\ NothingLeftOut /\ WriterKnows /\ ReviewerKnows
  BY <1>1, Metadata DEF IdsOnce, OwnMeta, Listed, NothingLeftOut, WriterKnows, ReviewerKnows
<1>4. Past /\ AuthenticHasReview /\ FilesAreThere /\ OneReviewEach
  BY <1>1, <1>2, Metadata, CountType DEF Past, NoCount, AuthenticHasReview, FilesAreThere, OneReviewEach
<1>5. BadgesLost
  <2>1. Unbadged \ BadgeComing = {}
    BY <1>1 DEF Unbadged, Good
  <2>2. Cardinality(Unbadged \ BadgeComing) = 0 /\ 2 * crashes = 0
    BY <2>1, FS_EmptySet
  <2>. QED
    BY <2>2 DEF BadgesLost
<1>6. Counted
  <2>. SUFFICES ASSUME NEW r \in Reviewer PROVE CountedBut(r, {})
    BY DEF Counted
  <2>1. Recent(r) = {} /\ Recent(r) \ ({} \cup UnderWay(r)) = {}
    BY <1>1 DEF Recent
  <2>2. Cardinality({}) = 0 /\ MAX_DAILY_REVIEWS * crashes = 0 /\ GetReviewsTodayCount(r) \in Nat
    BY <1>2, FS_EmptySet, CountType DEF Types
  <2>. QED
    BY <2>1, <2>2 DEF CountedBut
<1>. QED
  BY <1>2, <1>3, <1>4, <1>5, <1>6 DEF IInv

LEMMA StutterHolds == ASSUME IInv, UNCHANGED vars PROVE IInv'
<1>. USE DEF vars
<1>1. Types' /\ WriterKnows' /\ ReviewerKnows' /\ Past'
  BY DEF IInv, Types, WriterKnows, ReviewerKnows, Past, InTable, Good, HasReviewerReviewed, GetReviewsTodayCount
<1>2. BadgesLost' /\ Counted'
  BY DiskKept, BadgesKept, CountedKept DEF IInv, Types, BadgeComing, UnderWay
<1>. QED
  BY <1>1, <1>2, DiskKept DEF IInv

\* The invariant holds in every state of every behaviour.
THEOREM Inductive == Spec => []IInv
<1>1. IInv /\ [Next]_vars => IInv'
  <2>. SUFFICES ASSUME IInv, [Next]_vars PROVE IInv'
    OBVIOUS
  <2>1. CASE handle_post_submission_create
    BY <2>1, CreateStep DEF handle_post_submission_create
  <2>2. CASE handle_post_submission_file
    BY <2>2, AttachStep DEF handle_post_submission_file
  <2>3. CASE ListFile
    BY <2>3, ListFileStep
  <2>4. CASE persist_metadata
    BY <2>4, PersistStep
  <2>5. CASE \E r \in Reviewer : handle_get_submissions_pending(r)
    BY <2>5, PendingStep
  <2>6. CASE \E r \in Reviewer : handle_post_submission_review(r)
    BY <2>6, SubmitStep DEF handle_post_submission_review
  <2>7. CASE StoreReview
    BY <2>7, StoreStep
  <2>8. CASE MarkAuthentic
    BY <2>8, MarkStep
  <2>9. CASE update_daily_count
    BY <2>9, CountStep
  <2>10. CASE Tick
    BY <2>10, TickStep
  <2>11. CASE FreeReviewSystem
    BY <2>11, RestartStep
  <2>12. CASE Crash
    BY <2>12, CrashStep
  <2>13. CASE UNCHANGED vars
    BY <2>13, StutterHolds
  <2>. QED
    BY <2>1, <2>2, <2>3, <2>4, <2>5, <2>6, <2>7, <2>8, <2>9, <2>10, <2>11, <2>12, <2>13 DEF Next
<1>. QED
  BY <1>1, InitHolds, PTL DEF Spec

\* Nobody reviews a submission twice, whatever list the screen still shows and
\* whatever count a crash lost (reviews.c:519).
THEOREM ReviewedOnce == Spec => []OneReviewEach
<1>1. IInv => OneReviewEach
  BY DEF IInv
<1>. QED
  BY <1>1, Inductive, PTL

\* Between two writes the table, the metadata and the attachments of a submission
\* tell the same, crashed or not (reviews.c:311-320, :543).
THEOREM DiskStaysSound == Spec => []DiskSound
<1>1. IInv => DiskSound
  <2>. SUFFICES ASSUME IInv PROVE DiskSound
    OBVIOUS
  <2>1. /\ DOMAIN table = 1 .. Len(table) /\ Len(table) \in Nat
        /\ \A i \in DOMAIN table : table[i] \in Sub
    BY DEF IInv, Types
  <2>2. Cardinality(InTable) = Len(table)
    <3>. DEFINE f == [i \in 1 .. Len(table) |-> table[i].id]
    <3>1. f \in Bijection(1 .. Len(table), InTable)
      BY <2>1 DEF Bijection, Injection, Surjection, IsInjective, InTable, IInv, IdsOnce
    <3>. QED
      BY <3>1, <2>1, FS_CountingElements DEF ExistsBijection
  <2>3. TypeOK
    <3>1. \A i \in DOMAIN table : /\ table[i].id \in SubId /\ table[i].label \in AnyLabel
                                  /\ table[i].files \in Seq(File) /\ table[i].authentic \in BOOLEAN
      BY <2>1 DEF Sub
    <3>2. \A id \in SubId : /\ IsSubmission(disk[id].meta) => disk[id].meta.id = id
                            /\ disk[id].attached \subseteq File
                            /\ \A r \in disk[id].reviews : r.by \in Reviewer /\ r.score \in Score
      BY DEF IInv, Types, OwnMeta, Folder, Rev
    <3>3. \A r \in Reviewer : daily[r].count \in 0 .. MAX_DAILY_REVIEWS /\ shown[r] \subseteq SubId
      BY DEF IInv, Types, Count
    <3>4. writing.op \in {"none", "create", "attach", "list", "approve"}
      BY DEF IInv, Types, Pen, Unlocked
    <3>5. review.at \in {"idle", "store", "mark", "count"}
      BY DEF IInv, Types, Desk, NoReview
    <3>6. now \in 0 .. MaxTime /\ Len(table) <= MAX_SUBMISSIONS
      BY ReviewsAssumption DEF IInv, Types
    <3>. QED
      BY <3>1, <3>2, <3>3, <3>4, <3>5, <3>6, <2>2 DEF TypeOK
  <2>4. ListedFilesAreThere
    BY DEF IInv, OwnMeta, FilesAreThere, ListedFilesAreThere, ReadSubmissionFile, Range
  <2>5. TableMatchesDisk
    BY DEF IInv, Listed, NothingLeftOut, TableMatchesDisk, Range
  <2>. QED
    BY <2>3, <2>4, <2>5 DEF DiskSound
<1>. QED
  BY <1>1, Inductive, PTL

\* Nothing is authentic without a good review, and between two reviews nothing well
\* reviewed lacks its badge but for a crash (reviews.c:543-552).
THEOREM BadgeStaysTrue == Spec => []BadgeFollowsReviews
<1>1. IInv => BadgeFollowsReviews
  <2>. SUFFICES ASSUME IInv PROVE BadgeFollowsReviews
    OBVIOUS
  <2>1. AuthenticWasReviewed
    BY DEF IInv, OwnMeta, AuthenticHasReview, AuthenticWasReviewed, Range, Good
  <2>2. ApprovalsLostOnlyByCrashes
    <3>. SUFFICES ASSUME review.at = "idle"
                  PROVE  Cardinality({id \in SubId : Good(id) /\ ~handle_get_submission_status(id)}) <= 2 * crashes
      BY DEF ApprovalsLostOnlyByCrashes, Good
    <3>1. {id \in SubId : Good(id) /\ ~handle_get_submission_status(id)} = Unbadged \ BadgeComing
      BY Status DEF IInv, Types, Unbadged, BadgeComing
    <3>. QED
      BY <3>1 DEF IInv, BadgesLost
  <2>. QED
    BY <2>1, <2>2 DEF BadgeFollowsReviews
<1>. QED
  BY <1>1, Inductive, PTL

\* In any 24 hours nobody gives more reviews than the daily limit, times the
\* crashes that lost the count in between (reviews.c:496-508).
THEOREM DailyLimitHolds == Spec => []NoMoreThanADay
<1>1. IInv => NoMoreThanADay
  <2>. SUFFICES ASSUME IInv, NEW r \in Reviewer
                PROVE  Cardinality(Recent(r)) <= MAX_DAILY_REVIEWS * (crashes + 1)
    BY DEF NoMoreThanADay, Recent
  <2>1. PICK missed \in SUBSET SubId : CountedBut(r, missed)
    BY DEF IInv, Counted
  <2>. DEFINE M == MAX_DAILY_REVIEWS
  <2>2. /\ crashes \in Nat /\ M \in Nat /\ M > 0 /\ M * crashes \in Nat
        /\ M * (crashes + 1) = M * crashes + M
        /\ GetReviewsTodayCount(r) \in Nat /\ GetReviewsTodayCount(r) <= M
    BY CountType, Budget DEF IInv
  <2>3. PICK was \in SUBSET SubId : was = Recent(r) \ (missed \cup UnderWay(r))
    BY DEF Recent
  <2>4. /\ IsFiniteSet(missed) /\ Cardinality(missed) \in Nat /\ Cardinality(missed) <= M * crashes
        /\ IsFiniteSet(was) /\ Cardinality(was) \in Nat /\ Cardinality(was) <= GetReviewsTodayCount(r)
    BY <2>1, <2>3, Sizes DEF CountedBut
  <2>5. PICK most \in SUBSET SubId : most = missed \cup was
    OBVIOUS
  <2>6. IsFiniteSet(most) /\ Cardinality(most) \in Nat /\ Cardinality(most) <= Cardinality(missed) + Cardinality(was)
    <3>1. IsFiniteSet(most) /\ IsFiniteSet(missed \cap was)
      BY <2>4, <2>5, FS_Union, FS_Intersection
    <3>2. Cardinality(most) = Cardinality(missed) + Cardinality(was) - Cardinality(missed \cap was)
      BY <2>4, <2>5, FS_Union
    <3>3. Cardinality(most) \in Nat /\ Cardinality(missed \cap was) \in Nat
      BY <3>1, FS_CardinalityType
    <3>. QED
      BY <3>1, <3>2, <3>3, <2>4
  <2>7. CASE UnderWay(r) = {}
    <3>1. Recent(r) \in SUBSET most
      BY <2>3, <2>5, <2>7
    <3>2. Cardinality(Recent(r)) \in Nat /\ Cardinality(Recent(r)) <= Cardinality(most)
      BY <3>1, Sizes
    <3>. QED
      BY <3>2, <2>2, <2>4, <2>6
  <2>8. CASE UnderWay(r) = {review.sub} /\ review.by = r /\ review.at # "idle"
    <3>1. review.sub \in SubId /\ review.today \in 0 .. M - 1 /\ GetReviewsTodayCount(r) = review.today
      BY <2>8 DEF IInv, Types, Desk, NoReview, ReviewerKnows
    <3>2. most \cup {review.sub} \in SUBSET SubId /\ Recent(r) \in SUBSET (most \cup {review.sub})
      BY <2>3, <2>5, <2>8, <3>1
    <3>3. /\ Cardinality(Recent(r)) \in Nat /\ Cardinality(most \cup {review.sub}) \in Nat
          /\ Cardinality(Recent(r)) <= Cardinality(most \cup {review.sub})
      BY <3>2, Sizes
    <3>4. Cardinality(most \cup {review.sub}) <= Cardinality(most) + 1
      BY <2>6, OneMore
    <3>. QED
      BY <3>1, <3>3, <3>4, <2>2, <2>4, <2>6
  <2>. QED
    BY <2>7, <2>8 DEF UnderWay
<1>. QED
  BY <1>1, Inductive, PTL
=============================================================================
