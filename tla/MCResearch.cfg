SPECIFICATION LiveSpec
CONSTANTS
    f2 = f2   r2 = r2  good = good
    Tasks = {t1}
    Facts = {f1, f2}
    Scores = {good, bad}
    Passing = {good}
    Refreshes = {r1, r2}
    Direct = {r1}
    Workers = {w1, w2}
    Identity <- OwnIdentity
    Legacy = Legacy
    None = None
    MaxFaults = 1
CONSTRAINT OneKindOfTrouble
INVARIANTS
    TypeOK
    EvidenceIsOfStoredDossier
    BridgePendingOrDone
    ResearchedIsCompleted
PROPERTIES
    RefreshBoundOnce
    LeaseIsResolved
