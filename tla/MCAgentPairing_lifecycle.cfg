SPECIFICATION Spec
CONSTANTS
    Agents = {a1, a2}
    Twins = {t1, t2}
    Requests = {r1}
    Lookups = {}
    Ops <- LifecycleOps
    NoTwin = NoTwin
    Miss = Miss
   
PROPERTIES LifecycleSpec
