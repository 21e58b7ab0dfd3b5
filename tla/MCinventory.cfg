CONSTANTS
    Users = {u1}
    Goods = {i1}
    Items = {i1, i2}
    Price <- PriceOfThree
    Word = 16
    StartGold = 3
    StartItems = {i1}
    NoRow = NoRow
    NoReply = NoReply
    QueryOutcomes = {"ok"}
SPECIFICATION Spec
INVARIANT EmptyMeansEmpty
CHECK_DEADLOCK TRUE
