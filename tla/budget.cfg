\* Five requests of two accounts over two windows and the start of a third.
SPECIFICATION Spec
CONSTANTS
    Users <- MCUsers
    Requests <- MCRequests
    UserOf <- MCUserOf
    CostOf <- MCCostOf
    PerWindow = 2
    WindowLength = 2
    MaxTime = 4
    None = None
CONSTRAINT NumberedInOrder
INVARIANT BooksBalance
INVARIANT TwiceTheBudgetAtMost
CHECK_DEADLOCK FALSE
