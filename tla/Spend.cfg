SPECIFICATION FairSpec
CONSTANTS
    h1 = h1
    h2 = h2
    u1 = u1
    gpt = gpt
    custom = custom
    Handlers = {h1, h2}
    Accounts = {u1}
    None = None
    NoLimit = NoLimit
    Models = {gpt}
    ServerModel = gpt
    Priced = {gpt}
    Rate = 1
    FallbackRate = 2
    Tokens = {0, 1}
    EstTokens = 1
    AssumedTokens = 1
    DailyLimit = 1
    GlobalLimit = 6
    UserLimit = 1
    PublicLimit = 5
    MonthOf <- ThreeDays
    MaxDay = 2
INVARIANTS TypeOK DailyCap PublicCap LedgerCoversReported OvershootBounded
PROPERTY LockReleased
