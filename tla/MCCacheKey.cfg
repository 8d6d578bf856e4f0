\* Configurations in any order, identities with any namespace.
SPECIFICATION Spec
CONSTANTS
    Procs = {p1, p2}
    Prefix <- OpcachePrefix
    Names <- SomeNames
    Values <- SomeValues
    NoValue = NoValue
    Fields <- SomeIdentities
    KeySize = 25
    MaxDirectives = 2
SYMMETRY Symmetry
INVARIANTS TypeOK KeyIdentifies KeyStable
CHECK_DEADLOCK FALSE
