SPECIFICATION Spec
CONSTANTS
    Agents = {a1}
    Twins = {t1}
    Requests = {r1, r2}
    Lookups = {k1}
    Ops <- AllOps
    NoTwin = NoTwin
    Miss = Miss
INVARIANTS TypeOK BlacklistComplete
