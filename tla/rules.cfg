SPECIFICATION Spec
CONSTANTS
    Window = 4
    Cut = 1
    Lag = 1
    Target = 4
    Fixed <- MCFixed
    Word = 65536
    CheckWindow = 3
    FutureLimit = 6
    MaxSize = 5
    Growth = 2
    RewardWindow = 3
    Zone = 3
    MoneySupply = 12
    Speed = 2
    FreeUntil = 3
    Templates <- MCTemplates
    MaxHeight = 5
    MaxAlternative = 5
    Clocks <- MCClocks
INVARIANTS DifficultyAgrees TimestampsAgree  TemplateAccepted
 
