CONSTANTS
    h1 = h1
    h2 = h2
    Handlers = {h1, h2}
    MaxToken = 3
    MaxDay = 2
SPECIFICATION FairSpec
INVARIANT TypeOK
INVARIANT IInv
INVARIANT StrandedOnlyByLoss
INVARIANT EachStrayIsPaid
INVARIANT MailsBounded
INVARIANT RepeatsHaveACause
INVARIANT FlagTellsMail
PROPERTY EveryJobEnds
PROPERTY EveryTokenIsMailed
CHECK_DEADLOCK FALSE
