\* A reviewer, two places for three submissions, two days, a crash and a restart.
CONSTANTS
    cook = cook
    Reviewer = {ann}
    SubId = {s1, s2, s3}
    File = {f1}
    Label = {cook}
    NoLabel = NoLabel
    LabelOf <- MCLabelOf
    Score = {3, 4}
    MAX_SUBMISSIONS = 2
    SUBMISSION_MAX_FILES = 1
    MAX_DAILY_REVIEWS = 1
    PAGE = 1
    DAY = 2
    MaxTime = 4
    MaxCrashes = 1
    MaxRestarts = 1
SYMMETRY Symm
SPECIFICATION Spec
CHECK_DEADLOCK FALSE
INVARIANT DiskSound
INVARIANT BadgeFollowsReviews
INVARIANT OneReviewEach
INVARIANT NoMoreThanADay
