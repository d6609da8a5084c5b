\* Where a site may fall on either side of a bisector, the side that the
\* recorded run did not take leaves its order of circle events behind.
CHECK_DEADLOCK FALSE
CONSTANTS
    Inputs <- MCFeetInputs
    Orders <- MCOrders
    Site <- MCFeetSite
SPECIFICATION FeetSpec
INVARIANTS
    NoRuleFollowsNull
    FeetTouchSource
