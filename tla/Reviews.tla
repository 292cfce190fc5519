------------------------------ MODULE Reviews ------------------------------
(****************************************************************************)
(* Finished root goals handed in for review by other people                 *)
(* (srv/match-system/reviews.c, central-server/central-reviews.c,           *)
(* http-server/review-handlers.c).                                          *)
(*                                                                          *)
(* A submission is a record in the table and a directory on disk: its       *)
(* metadata, its attachments and the reviews it got.  The metadata is       *)
(* emptied before it is written again, so a crash can leave it torn; a torn *)
(* review or daily file is read as if it was not there.  Handing in runs on *)
(* the client's port and reviewing under the central server's lock;         *)
(* submissions_lock is held by whoever is writing metadata.                 *)
(*                                                                          *)
(* Labels and descriptions come from AI calls; of a label it counts whether *)
(* it matches the reviewer's.  Time is in ticks, DAY of them make 24 hours. *)
(****************************************************************************)
EXTENDS Naturals, Sequences, FiniteSets, SequencesExt, FiniteSetsExt

CONSTANTS
    Reviewer,            \* people who review
    SubId,               \* ids a new submission may draw
    File,                \* names of attachments
    Label,               \* labels the AI may give; NoLabel for a shared journey
    NoLabel,
    LabelOf,             \* the label a reviewer asks for
    Score,               \* the stars a reviewer may give
    MAX_SUBMISSIONS,     \* places in the table
    SUBMISSION_MAX_FILES,\* attachments of one submission
    MAX_DAILY_REVIEWS,   \* reviews a day
    PAGE,                \* submissions in one list
    DAY,                 \* ticks in 24 hours
    MaxTime,             \* bound of the model: ticks
    MaxCrashes,          \* bound of the model: crashes
    MaxRestarts          \* bound of the model: orderly restarts

ASSUME ReviewsAssumption ==
    /\ NoLabel \notin Label /\ LabelOf \in [Reviewer -> Label \cup {NoLabel}]
    /\ Score \subseteq 1 .. 5
    /\ {MAX_SUBMISSIONS, SUBMISSION_MAX_FILES, MAX_DAILY_REVIEWS, PAGE, DAY} \subseteq Nat \ {0}
    /\ {MaxTime, MaxCrashes, MaxRestarts} \subseteq Nat /\ DAY <= MaxTime
    /\ IsFiniteSet(SubId)

VARIABLES
    now,       \* the clock
    table,     \* SubmissionTable
    disk,      \* per id: metadata, names of the attachments, reviews
    daily,     \* per reviewer: the file of the daily count
    writing,   \* what the holder of submissions_lock is about
    review,    \* the review the central server is storing
    shown,     \* per reviewer: the list on the screen
    crashes, restarts

vars == <<now, table, disk, daily, writing, review, shown, crashes, restarts>>

Submission(id, label) == [id |-> id, label |-> label, files |-> <<>>, authentic |-> FALSE]
Torn == [id |-> "torn"]
Absent == [id |-> "absent"]
NoDirectory == [meta |-> Absent, attached |-> {}, reviews |-> {}]
NoCount == [count |-> 0, reset_at |-> 0]
Unlocked == [op |-> "none"]
NoReview == [at |-> "idle"]

IsSubmission(m) == m \notin {Torn, Absent}
\* A label an AI call may give, or none for a shared journey; a failed call
\* gives one that matches nobody.
AnyLabel == Label \cup {NoLabel}

InTable == {table[i].id : i \in DOMAIN table}
PlaceOf(id) == CHOOSE i \in DOMAIN table : table[i].id = id
FindSubmission(id) == table[PlaceOf(id)]

TypeOK ==
    /\ now \in 0 .. MaxTime
    /\ Len(table) <= MAX_SUBMISSIONS /\ Cardinality(InTable) = Len(table)
    /\ \A i \in DOMAIN table : /\ table[i].id \in SubId /\ table[i].label \in AnyLabel
                               /\ table[i].files \in Seq(File)
                               /\ table[i].authentic \in BOOLEAN
    /\ \A id \in SubId : /\ IsSubmission(disk[id].meta) => disk[id].meta.id = id
                         /\ disk[id].attached \subseteq File
                         /\ \A r \in disk[id].reviews : r.by \in Reviewer /\ r.score \in Score
    /\ \A r \in Reviewer : daily[r].count \in 0 .. MAX_DAILY_REVIEWS /\ shown[r] \subseteq SubId
    /\ writing.op \in {"none", "create", "attach", "list", "approve"}
    /\ review.at \in {"idle", "store", "mark", "count"}

----------------------------------------------------------------------------
\* Metadata

\* Emptying the file of a submission and giving it the new text are two steps.
Empty(id) == disk' = [disk EXCEPT ![id].meta = Torn]
Lock(op, s) == writing' = [op |-> op, sub |-> s]

\* The whole text is on disk; a new submission joins the table only now.
persist_metadata ==
    /\ writing.op \in {"create", "list", "approve"}
    /\ disk[writing.sub.id].meta = Torn
    /\ disk' = [disk EXCEPT ![writing.sub.id].meta = writing.sub]
    /\ table' = IF writing.op = "create" THEN Append(table, writing.sub) ELSE table
    /\ writing' = Unlocked
    /\ review' = IF writing.op = "approve" THEN [review EXCEPT !.at = "count"] ELSE review
    /\ UNCHANGED <<now, daily, shown, crashes, restarts>>

----------------------------------------------------------------------------
\* Handing in

\* A finished root goal is handed in; the table takes no more than its places.
CreateSubmission(id, label) ==
    /\ writing = Unlocked /\ Len(table) < MAX_SUBMISSIONS
    /\ disk[id] = NoDirectory
    /\ Empty(id) /\ Lock("create", Submission(id, label))
    /\ UNCHANGED <<now, table, daily, review, shown, crashes, restarts>>
handle_post_submission_create ==
    \E id \in SubId, label \in AnyLabel : CreateSubmission(id, label)

\* The attachment is written first ...
\* (fault: the list is written before the attachment)
AddSubmissionFile_ListFirst(id, f) ==
    /\ writing = Unlocked
    /\ id \in InTable /\ Len(FindSubmission(id).files) < SUBMISSION_MAX_FILES
    /\ writing' = [op |-> "attach", sub |-> FindSubmission(id), file |-> f]
    /\ UNCHANGED <<now, table, disk, daily, review, shown, crashes, restarts>>
AddSubmissionFile(id, f) ==
    /\ writing = Unlocked
    /\ id \in InTable /\ Len(FindSubmission(id).files) < SUBMISSION_MAX_FILES
    /\ disk' = [disk EXCEPT ![id].attached = @ \cup {f}]
    /\ writing' = [op |-> "attach", sub |-> FindSubmission(id), file |-> f]
    /\ UNCHANGED <<now, table, daily, review, shown, crashes, restarts>>
handle_post_submission_file == \E id \in InTable, f \in File : AddSubmissionFile(id, f)

\* ... and then listed, in the table and in the metadata.
ListFile ==
    /\ writing.op = "attach"
    /\ LET s == [writing.sub EXCEPT !.files = Append(@, writing.file)]
       IN  /\ table' = [table EXCEPT ![PlaceOf(s.id)] = s]
           /\ Empty(s.id) /\ Lock("list", s)
    /\ UNCHANGED <<now, daily, review, shown, crashes, restarts>>

----------------------------------------------------------------------------
\* Reviewing

\* What the owner's app polls, and what a reviewer's opens.
handle_get_submission_status(id) == id \in InTable /\ FindSubmission(id).authentic
ReadSubmissionFile(id, f) == f \in disk[id].attached

HasReviewerReviewed(id, r) == \E v \in disk[id].reviews : v.by = r

\* What is left of the day's reviews counts from the last one of them.
\* (fault: a count ends with its calendar day)
GetReviewsTodayCount_CalendarDay(r) ==
    IF now \div DAY # daily[r].reset_at \div DAY THEN 0 ELSE daily[r].count
GetReviewsTodayCount(r) == IF now - daily[r].reset_at >= DAY THEN 0 ELSE daily[r].count

\* The first PAGE of those that wait for the reviewer, matching labels first.
ListPendingForReviewer(r) ==
    LET pending == {i \in DOMAIN table : ~table[i].authentic /\ ~HasReviewerReviewed(table[i].id, r)}
        matches(i) == LabelOf[r] # NoLabel /\ table[i].label = LabelOf[r]
        Before(j, i) == IF matches(j) = matches(i) THEN j < i ELSE matches(j)
        first == {i \in pending : Cardinality({j \in pending : Before(j, i)}) < PAGE}
    IN  {table[i].id : i \in first}

handle_get_submissions_pending(r) ==
    /\ review.at = "idle"
    /\ shown' = [shown EXCEPT ![r] = ListPendingForReviewer(r)]
    /\ UNCHANGED <<now, table, disk, daily, writing, review, crashes, restarts>>

\* The checks of a review; a reviewer rates what the list shows.
\* (fault: the list is trusted not to hold what was reviewed)
SubmitReview_TrustsList(r, id, score) ==
    /\ review.at = "idle" /\ id \in shown[r]
    /\ GetReviewsTodayCount(r) < MAX_DAILY_REVIEWS
    /\ id \in InTable
    /\ review' = [at |-> "store", by |-> r, sub |-> id, score |-> score,
                  today |-> GetReviewsTodayCount(r)]
    /\ UNCHANGED <<now, table, disk, daily, writing, shown, crashes, restarts>>
SubmitReview(r, id, score) ==
    /\ review.at = "idle" /\ id \in shown[r]
    /\ GetReviewsTodayCount(r) < MAX_DAILY_REVIEWS
    /\ ~HasReviewerReviewed(id, r)
    /\ id \in InTable
    /\ review' = [at |-> "store", by |-> r, sub |-> id, score |-> score,
                  today |-> GetReviewsTodayCount(r)]
    /\ UNCHANGED <<now, table, disk, daily, writing, shown, crashes, restarts>>
handle_post_submission_review(r) ==
    \E id \in SubId, score \in Score : SubmitReview(r, id, score)

\* The review is on disk.
StoreReview ==
    /\ review.at = "store"
    /\ disk' = [disk EXCEPT ![review.sub].reviews =
                   @ \cup {[by |-> review.by, score |-> review.score, when |-> now]}]
    /\ review' = [review EXCEPT !.at = IF review.score >= 4 THEN "mark" ELSE "count"]
    /\ UNCHANGED <<now, table, daily, writing, shown, crashes, restarts>>

\* Four stars make the submission authentic, in the table and in its metadata.
\* (fault: the metadata is not written again)
MarkAuthentic_MemoryOnly ==
    /\ review.at = "mark" /\ writing = Unlocked
    /\ table' = [table EXCEPT ![PlaceOf(review.sub)].authentic = TRUE]
    /\ review' = [review EXCEPT !.at = "count"]
    /\ UNCHANGED <<now, disk, daily, writing, shown, crashes, restarts>>
MarkAuthentic ==
    /\ review.at = "mark" /\ writing = Unlocked
    /\ LET s == [FindSubmission(review.sub) EXCEPT !.authentic = TRUE]
       IN  /\ table' = [table EXCEPT ![PlaceOf(s.id)] = s]
           /\ Empty(s.id) /\ Lock("approve", s)
    /\ UNCHANGED <<now, daily, review, shown, crashes, restarts>>

\* The screen takes the item off its list when the answer is there.
update_daily_count ==
    /\ review.at = "count"
    /\ daily' = [daily EXCEPT ![review.by] = [count |-> review.today + 1, reset_at |-> now]]
    /\ shown' = [shown EXCEPT ![review.by] = @ \ {review.sub}]
    /\ review' = NoReview
    /\ UNCHANGED <<now, table, disk, writing, crashes, restarts>>

\* The clock runs between requests.
Tick ==
    /\ now < MaxTime /\ review.at = "idle" /\ writing = Unlocked
    /\ now' = now + 1
    /\ UNCHANGED <<table, disk, daily, writing, review, shown, crashes, restarts>>

----------------------------------------------------------------------------
\* Stops and starts

\* The directories are read in any order until the table is full; one whose
\* metadata cannot be read takes no place.
InitReviewSystem ==
    LET found == {disk[id].meta : id \in {i \in SubId : IsSubmission(disk[i].meta)}}
        number == IF Cardinality(found) < MAX_SUBMISSIONS THEN Cardinality(found)
                                                           ELSE MAX_SUBMISSIONS
    IN  \E some \in kSubset(number, found) : table' \in SetToSeqs(some)

FreeReviewSystem ==
    /\ restarts < MaxRestarts /\ review.at = "idle" /\ writing = Unlocked
    /\ restarts' = restarts + 1
    /\ InitReviewSystem
    /\ UNCHANGED <<now, disk, daily, writing, review, shown, crashes>>

\* The process ends where it stands; a daily file that was being written may
\* be left empty.
Crash ==
    /\ crashes < MaxCrashes /\ (review.at # "idle" \/ writing # Unlocked)
    /\ crashes' = crashes + 1
    /\ daily' \in {daily} \cup (IF review.at = "count"
                                THEN {[daily EXCEPT ![review.by] = NoCount]} ELSE {})
    /\ InitReviewSystem
    /\ writing' = Unlocked /\ review' = NoReview
    /\ UNCHANGED <<now, disk, shown, restarts>>

Init ==
    /\ now = DAY
    /\ table = <<>> /\ disk = [id \in SubId |-> NoDirectory]
    /\ daily = [r \in Reviewer |-> NoCount] /\ shown = [r \in Reviewer |-> {}]
    /\ writing = Unlocked /\ review = NoReview
    /\ crashes = 0 /\ restarts = 0

Next ==
    \/ handle_post_submission_create \/ handle_post_submission_file
    \/ ListFile \/ persist_metadata
    \/ \E r \in Reviewer : \/ handle_get_submissions_pending(r)
                           \/ handle_post_submission_review(r)
    \/ StoreReview \/ MarkAuthentic \/ update_daily_count
    \/ Tick \/ FreeReviewSystem \/ Crash

Spec == Init /\ [][Next]_vars

----------------------------------------------------------------------------
\* Properties

\* What is called authentic, in the table or on disk, has a review of four stars
\* or more on disk: the badge never outlives or precedes its reason, whatever
\* crash comes in between (reviews.c:543-552).
AuthenticWasReviewed ==
    \A s \in Range(table) \cup {disk[id].meta : id \in SubId} :
        IsSubmission(s) /\ s.authentic => \E v \in disk[s.id].reviews : v.score >= 4

\* Nobody reviews a submission twice, though the screen's list may be old and the
\* count of a crashed review is lost (reviews.c:519).
OneReviewEach ==
    \A id \in SubId : \A v, w \in disk[id].reviews : v.by = w.by => v = w

\* In any 24 hours nobody gives more reviews than the daily limit, times the
\* crashes that lost the count in between (reviews.c:496-508).
NoMoreThanADay ==
    \A r \in Reviewer :
        Cardinality({id \in SubId : \E v \in disk[id].reviews : v.by = r /\ now - v.when < DAY})
            <= MAX_DAILY_REVIEWS * (crashes + 1)

\* Every attachment a submission lists can be read (reviews.c:311-320).
ListedFilesAreThere ==
    \A s \in Range(table) \cup {disk[id].meta : id \in SubId} :
        IsSubmission(s) => \A i \in DOMAIN s.files : ReadSubmissionFile(s.id, s.files[i])

\* Between two writes the table and the metadata agree; only a submission whose
\* metadata a crash tore is missing, and a start never lacks a place for one.
TableMatchesDisk ==
    writing.op \in {"none", "attach"} =>
        /\ \A s \in Range(table) : disk[s.id].meta = s
        /\ \A id \in SubId : IsSubmission(disk[id].meta) => id \in InTable

\* A crash costs at most two submissions their approval or their place, one
\* whose review was being stored and one whose metadata a port was writing, and
\* nothing else costs any: all other well reviewed ones are authentic.  (The
\* reviewer cannot give a review again whose second write a crash prevented.)
ApprovalsLostOnlyByCrashes ==
    review.at = "idle" =>
        Cardinality({id \in SubId : /\ \E v \in disk[id].reviews : v.score >= 4
                                    /\ ~handle_get_submission_status(id)})
            <= 2 * crashes

\* Between two writes of any handler, crashed or not, the table, the metadata and
\* the attachments of a submission tell the same (reviews.c:311-320, :543).
DiskSound == TypeOK /\ ListedFilesAreThere /\ TableMatchesDisk

\* The badge of a submission follows its reviews: nothing is authentic without a
\* good one, and nothing well reviewed lacks it but for a crash (reviews.c:543-552).
BadgeFollowsReviews == AuthenticWasReviewed /\ ApprovalsLostOnlyByCrashes

=============================================================================
