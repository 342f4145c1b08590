SPECIFICATION Spec
CONSTANTS
    NULL = NULL
    Days <- MCDays
    Durations <- MCDurations
    Lower <- MCLower
    DayLength = 2
    SearchInput <- MCSearchInput
    CommentInput <- MCCommentInput
    HoursInput <- MCHoursInput
    MaxTyped <- MCMaxTyped
    Submitted <- MCSubmitted
    Seed <- MCSeed
    Parts = 3
    MicroParts = 2
    SecondLength = 3
    PageSize = 2
    MaxNow = 12
    MaxTickets = 6
    MaxPages = 3
CHECK_DEADLOCK FALSE
INVARIANTS
    TextSearchAnswered
