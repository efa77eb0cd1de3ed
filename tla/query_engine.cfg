CONSTANTS
    Chain <- SmallChain
    Capacity = 1
    Words <- AllWords
    Rewrite <- NoRewrite
    StopWords <- SmallStopWords
    MonthNames <- SmallMonthNames
    MonthNumbers <- SmallMonthNumbers
    DayNumbers <- SmallDays
    Years <- SmallYears
    FullDates <- NoDates
    PhraseLen = 2
    TfPercent = 60
    ShortBuffer = 5
    Indexes <- SmallIndexes
    Queries <- SmallQueries
    StartCap = 3
    EndCap = 3
    OtherMeans <- SmallMeans
SPECIFICATION FairSpec
INVARIANTS TypeOK NothingLeftBehind PhraseIsExact PhraseIsFound AnswerIsRight DeathHasItsReason
PROPERTY QueriesAreAnswered
CHECK_DEADLOCK FALSE
