CONSTANTS
    Users = {u1}
    Goods = {i1}
    Items = {i1, i2}
    Price <- PriceOfThree
    Word = 16
    StartGold = 3
    StartItems = {i1}
    NoRow = NoRow
    NoReply = NoReply
    QueryOutcomes = {"ok", "error", "lost"}
SPECIFICATION Spec
INVARIANT TypeOK
PROPERTY SaleAtomic
PROPERTY ShopKeepsWorth
CHECK_DEADLOCK TRUE
