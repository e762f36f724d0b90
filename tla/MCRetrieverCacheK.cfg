CONSTANTS
    NVersions = 1
    p1 = p1
    p2 = p2
    Paths = {p1, p2}
    Layouts <- ApartOnly
    OldPaths = {p1}
    Services = {s1}
    MaxLoads = 1
    ea = ea
    eb = eb
    q1 = q1
    q2 = q2
    Entities = {ea, eb}
    Anyone = Anyone
    Queries = {q1}
    Hash <- OneHash
    Ks = {1, 2}
    Margin = 1
    Nearest <- Rankings
    Metadata <- EntitiesOfSaves
    Missed <- FarthestMissed
    MaxSearches = 2
SPECIFICATION Spec
CHECK_DEADLOCK FALSE
INVARIANT
    UpToK
