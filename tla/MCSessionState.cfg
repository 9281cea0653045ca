SPECIFICATION FairSpec
CONSTANTS
    Kinds <- MCKinds
    Capacity = 2
    NoBank = NoBank
    Image <- MCImage
    NoFile = NoFile
    Torn = Torn
INVARIANTS  DestinationComplete SavedSurvives
PROPERTIES ImplementsGroupCommit NothingAfterInvalidation CloseReturns
