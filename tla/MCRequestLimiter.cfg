CONSTANTS
    Calls = {p, q}
    Start = 2
    Cap = 2
    MaxRetries = 1
    HedgeTokens = 1
SPECIFICATION FairSpec
INVARIANTS LimiterSound
PROPERTY CallsReturn
