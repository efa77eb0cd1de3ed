CONSTANTS
    Clients = {c1, c2}
    Engines <- TwoEngines
    Tags <- SmallTags
    Texts <- SmallTexts
    Finds <- SmallFinds
    Queries <- SmallQueries
    None = None
SPECIFICATION FairSpec
INVARIANTS TypeOK OneConversation
PROPERTIES ServiceSpec EveryQueryIsAnswered
