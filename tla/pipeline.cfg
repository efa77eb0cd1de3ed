CONSTANTS
    Chain <- PhraseChain
    Documents <- PhraseDocuments
    Capacity = 2
    Words <- AllWords
    Rewrite <- SmallRewrite
    StopWords <- SmallStopWords
    MonthNames <- SmallMonthNames
    MonthNumbers <- SmallMonthNumbers
    DayNumbers <- SmallDays
    Years <- SmallYears
    FullDates <- SmallFullDates
    PhraseLen = 2
    TfPercent = 60
    ShortBuffer = 5
SPECIFICATION FairSpec
INVARIANTS
    TypeOK
    OneDocumentAtATime
    OnlyTheSecondInsertPanics
    WeightsAreFinite
    WaitInsertIsComplete
    NothingElseIndexed
PROPERTY
    CallsReturn
CHECK_DEADLOCK FALSE
