SPECIFICATION Spec
CONSTANTS
    PathMax = 3
    MaxFiles = 4
    MaxOpen = 3
    NameMax = 2
    FileCap = 2
    MaxProcOpen = 1
    MaxWrap = 2
    Procs = {1, 2}
    Archive <- MCArchive
    Programs <- MCPrograms
    IoMax = 2
    Counts = {1}
    Seeks <- MCSeeks
    Rooms = {1, 2}
    Wide = {"x"}
    Vectors <- MCVectors
INVARIANTS OpenChain ListingExact NamespaceConsistent
PROPERTY AppendOnly
