SPECIFICATION Spec
CONSTANTS
    Zone = {1, 2}
    Product = {"a", "b"}
    Freezer = {2}
    Weight <- Grams100And250
    Stock <- StockOfThree
    Tolerance = 20
    FreezerGate = 30
    UnitSlack = 5
    MaxEvents = 3
    MaxTake = 2
    MaxBack = 2
    Misjudges = TRUE
INVARIANTS
    TypeOK
    ChargedWithinJudged
    NotOvercharged
    HonestBill
PROPERTY CorrectionStopsAtNet
CHECK_DEADLOCK FALSE
