SPECIFICATION Spec
CONSTANTS
    Humans = {a, b}
    Bots = {}
    OwnerOf <- NoOwners
    Groups = {g1, g2}
    ClientIds = {m1}
    Tasks = {c1, c2}
    Instances = {i1}
    RETRIES = 2
    CIRCUIT_FAILS = 2
    HALF_OPEN = 1
    MaxFaults = 1
    MaxOps = 2
    MAX_GROUP_MEMBERS = 2
INVARIANTS RelationsSound LookupsSound
SYMMETRY Symmetry
CHECK_DEADLOCK FALSE
