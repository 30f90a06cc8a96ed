\* One thread, every fault, and the director unfreezing it.
CONSTANTS
    cronista = cronista
    capo = capo
    Cronista = Cronista
    t1 = t1
    t2 = t2
    m1 = m1
    m2 = m2
    m3 = m3
    m4 = m4
    m5 = m5
    m6 = m6
    m7 = m7
    m8 = m8
    Tags = {t1}
    NoTag = NoTag
    Addresses = {cronista, capo, Cronista}
    NoAddress = NoAddress
    lower <- MCLower
    Msgs = {m1, m2, m3, m4}
    NoMsg = NoMsg
    Mail <- TwoRecipients
    Budgets = {1, 2}
    MaxBudget = 2
    SummaryLimit = 2
    RestartWithinASecond = FALSE
    MaxCrashes = 1
    MaxErrors = 2
    MaxTimeouts = 1
    MaxUnfreezes = 1
SPECIFICATION Spec
INVARIANTS
    FuseHolds
    FuseInv
    NoticeListsDeliveries
    NothingLost
    NotifiedOnce
    TwoStages
    NeverSilencedEarly
    NoticesTellTheTruth
PROPERTIES
    FrozenSilence
    FuseSpec
SYMMETRY Interchangeable
\* The mails of an instance are finite: it stops when all are answered.
CHECK_DEADLOCK FALSE
