\* Reviews and director mail, one failing pass, the review form.
CONSTANTS
    t1 = t1
    gianni = gianni
    verificatore = verificatore
    cronista = cronista
    capo = capo
    x1 = x1
    x2 = x2
    x3 = x3
    x4 = x4
    x5 = x5
    l1 = l1
    l2 = l2
    l3 = l3
    f1 = f1
    f2 = f2
    bozza = bozza
    finale = finale
    Tags = {t1}
    NoTag = NoTag
    Agents = {gianni, verificatore, cronista, capo}
    Director = gianni
    Verificatore = verificatore
    NoRecipient = NoRecipient
    Mails = {x1, x2, x4, x5}
    Mail <- Newsroom
    Titles = {bozza, finale}
    NoTitle = NoTitle
    Now = 3
    Lines = {}
    Line <- Log
    Sessions = {}
    AgentOf <- Homes
    Days = {1}
    YearOf <- NewYear
    WeekOf <- Weeks
    SizeOf <- Sizes
    Statuses = {pubblicato}
    NoStatus = NoStatus
    MaxCopies <- OneCopied
    MaxRows = 2
    MaxEdits = 1
    MaxReviews = 1
    MaxUnfreezes = 1
    MaxFailures = 1
    MaxRefusals = 0
    MaxBreaks = 0
SPECIFICATION Spec
INVARIANTS
    TypeOK
    CyclesInOrder
    CreatedFirst
    WarningPrecedesFreeze
    ForeignKeys
    ColumnsAgree
PROPERTIES
    RerunKeepsRows
