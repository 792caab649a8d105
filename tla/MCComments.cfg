\* Two pages, two fetches at a time; ids end at 4.
SPECIFICATION Spec
CONSTANTS
    Visits = {v1, v2}
    Slots = {f1, f2}
    Projects = {1, 2}
    Catalogs <- MCCatalogs
    Threads <- MCThreads
    Broken = Broken
    MaxId = 4
    Nil = Nil
SYMMETRY Symmetry
INVARIANTS
    TypeOK
    UniqueIds
    PageShowsItsProtocol
    
