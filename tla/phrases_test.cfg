CONSTANTS
    Chain <- TestChain
    Documents <- TestDocuments
    Capacity = 10
    Words <- AllWords
    Rewrite <- SmallRewrite
    StopWords <- SmallStopWords
    MonthNames <- SmallMonthNames
    MonthNumbers <- SmallMonthNumbers
    DayNumbers <- SmallDays
    Years <- SmallYears
    FullDates <- SmallFullDates
    PhraseLen = 2
    TfPercent = 40
    ShortBuffer = 25
SPECIFICATION Spec
INVARIANTS TestPhrasesAreIndexed
CHECK_DEADLOCK FALSE
