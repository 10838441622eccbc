SPECIFICATION Spec
CONSTANTS
    Structs = {"Parent", "Child"}
    Root = "Parent"
    FieldsOf <- MCFieldsOf
    FileOf <- MCFileOf
    TypesOf <- MCTypesOf
    Blank = {"_"}
    Objects = {o1, o2}
    Clients = {c1, c2}
    None = None
    MaxEdits = 3
SYMMETRY Symmetry
INVARIANTS TypeOK TwoRunsSettle PoolIsClean
