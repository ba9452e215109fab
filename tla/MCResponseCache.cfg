\* Three tasks; what the functions read changes once.
CONSTANTS
    Clients = {c1, c2, c3}
    f = f
    g = g
    Functions = {f, g}
    Prefix <- SmallPrefix
    Fallback <- SmallFallback
    Args = {a}
    Bases <- SmallBases
    Tenants = {t1, t2}
    Users = {u}
    MaxVersion = 1
    None = None
SPECIFICATION Spec
INVARIANTS
    FreshAfterRemoval
    WorkDoneOnce
    TenantsApart
SYMMETRY Symmetry
\* Every task comes to an end.
CHECK_DEADLOCK FALSE
