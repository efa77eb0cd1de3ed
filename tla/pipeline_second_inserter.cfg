CONSTANTS
    Chain <- DateChain
    Documents <- ThreeDocuments
    Capacity = 2
    Words <- AllWords
    Rewrite <- SmallRewrite
    StopWords <- SmallStopWords
    MonthNames <- SmallMonthNames
    MonthNumbers <- SmallMonthNumbers
    DayNumbers <- SmallDays
    Years <- SmallYears
    FullDates <- SmallFullDates
    PhraseLen = 2
    TfPercent = 60
    ShortBuffer = 5
SPECIFICATION Spec
INVARIANTS OutputIsUnconnected
CHECK_DEADLOCK FALSE
