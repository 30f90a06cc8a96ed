\* Progress of the passes over two days, in two years.
CONSTANTS
    t1 = t1
    gianni = gianni
    verificatore = verificatore
    cronista = cronista
    capo = capo
    x1 = x1
    x2 = x2
    x3 = x3
    x4 = x4
    x5 = x5
    l1 = l1
    l2 = l2
    l3 = l3
    f1 = f1
    f2 = f2
    bozza = bozza
    finale = finale
    Tags = {t1}
    NoTag = NoTag
    Agents = {gianni, verificatore, cronista, capo}
    Director = gianni
    Verificatore = verificatore
    NoRecipient = NoRecipient
    Mails = {x2}
    Mail <- Newsroom
    Titles = {bozza, finale}
    NoTitle = NoTitle
    Now = 3
    Lines = {l1, l2, l3}
    Line <- Log
    Sessions = {f1}
    AgentOf <- Homes
    Days = {1, 2}
    YearOf <- NewYear
    WeekOf <- Weeks
    SizeOf <- Sizes
    Statuses = {}
    NoStatus = NoStatus
    MaxCopies <- OneCopied
    MaxRows = 2
    MaxEdits = 2
    MaxReviews = 0
    MaxUnfreezes = 0
    MaxFailures = 0
    MaxRefusals = 1
    MaxBreaks = 1
SPECIFICATION FairSpec
INVARIANTS
    BouncesDated
    TokensCountedOnce
PROPERTIES
    EveryMailCollected
    FirstTripsCounted
    LogsCollected
    NeverLess
