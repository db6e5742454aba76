\* Three callers: one that fetches, one that joins, one that refreshes.  The
\* clock passes two windows and one ttl; the issuer rotates twice.
CONSTANTS
    c1 = c1
    c2 = c2
    c3 = c3
    Callers <- ThreeCallers
    Ttl = 3
    MinRefresh = 2
    Start = 2
    MaxTime = 5
    MaxVersion = 3
SPECIFICATION Spec
SYMMETRY Symmetry
INVARIANTS
    TypeOK
    SingleFlight
    StoredIsLastGood
    FailureIsBeingEvicted
    RefreshSeesRotation
PROPERTIES
    StampsAreAWindowApart
    ImplementsKeyView
