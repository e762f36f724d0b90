CONSTANTS
    NVersions = 2
    p1 = p1
    p2 = p2
    Paths = {p1, p2}
    Layouts <- MCLayouts
    OldPaths = {p1}
    Services = {s1, s2}
    MaxLoads = 2
    ea = ea
    eb = eb
    q1 = q1
    q2 = q2
    Entities = {ea, eb}
    Anyone = Anyone
    Queries = {q1, q2}
    Hash <- OneHash
    Ks = {2}
    Margin = 1
    Nearest <- Rankings
    Metadata <- EntitiesOfSaves
    Missed <- FarthestMissed
    MaxSearches = 2
SPECIFICATION Spec
SYMMETRY Interchangeable
CHECK_DEADLOCK FALSE
INVARIANTS
    SpaceTypeOK
    LoadedTogether
    LostOnlyToOverlap
    AnswersAreGenuine
    UnderfillIsExplained
