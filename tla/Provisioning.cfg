\* Three agents, two of them with S3 keys.
CONSTANTS
    cronista = cronista
    impaginatore = impaginatore
    segreteria = segreteria
    gianni = gianni
    bozze = bozze
    immagini = immagini
    Agents = {cronista, impaginatore, segreteria}
    Keyed = {cronista, impaginatore}
    Impaginatore = impaginatore
    Director = gianni
    NoAgent = NoAgent
    Buckets = {bozze, immagini}
    Grants <- KeySpecs
    MaxFailures = 2
    MaxDeletes = 1
    MaxSecrets = 5
SPECIFICATION Spec
INVARIANTS
    TypeOK
    RunbookRepairs
PROPERTIES
    RerunDoesNoHarm
