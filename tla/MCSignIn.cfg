\* Two tabs, two sign-ins, three codes.  The model runs out of sign-ins: it
\* may stop with both tabs closed.
CONSTANTS
    t1 = t1
    t2 = t2
    Tabs <- TwoTabs
    MaxFlows = 2
    CodeTtl = 0
    MaxTime = 1
    MaxCodes = 3
    MaxHandles = 3
SPECIFICATION SignInSpec
SYMMETRY Symmetry
CHECK_DEADLOCK FALSE
INVARIANTS
    OneSignInPerCode
    NoUnexplainedFailure
