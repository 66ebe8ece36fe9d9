SPECIFICATION Spec
CONSTANTS
    Agent = {a1, a2}
    Capability = {c1, c2}
    Action = {x1}
INVARIANTS
    CardsAreDiscoverable
