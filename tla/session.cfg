SPECIFICATION FairSpec
CONSTANTS
    Tabs <- TwoTabs
    Calls <- TwoCalls
    MaxTokens = 2
    MaxLoads = 3
    MaxFailures = 1
INVARIANTS TypeOK CopiesAgree ListBelongsToSession
PROPERTIES EndedSessionLeaves ForeignListLeaves
