SPECIFICATION EnsembleSpec
CONSTANTS
    a = a
    b = b
    None = None
    Decks <- TwoDecks
    First <- LeadAndFollow
    Origins <- TwoOrigins
    Tempos <- OneTempo
    Ring = 2
    Tags = 4
    Agree = 2
    Window = 1
    MaxNet = 1
    MaxOwed = 2
    MaxSaid = 1
    MaxOrders = 2
CHECK_DEADLOCK FALSE
INVARIANT ExchangeIsItsOwn
INVARIANT LandsOnLeader
