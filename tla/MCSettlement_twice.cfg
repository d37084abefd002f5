SPECIFICATION Spec
CONSTANTS
    Zone = {1, 2}
    Product = {"a", "b"}
    Freezer = {}
    Weight <- Grams100And300
    Stock <- StockOfThree
    Tolerance = 5
    FreezerGate = 15
    UnitSlack = 5
    MaxEvents = 3
    MaxTake = 3
    MaxBack = 3
    Misjudges = FALSE
INVARIANT RefundedOnce
CHECK_DEADLOCK FALSE
