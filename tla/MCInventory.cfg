\* One product that may get an outlet's and a company's row, one variant, two
\* outlets, all three costing methods.
SPECIFICATION Spec
CONSTANTS
  tea = tea
  large = large
  o1 = o1
  o2 = o2
  c1 = c1
  Company = Company
  Products = {tea}
  Variants = {large}
  VariantStock <- MCVariantStock
  Outlets = {o1, o2}
  Priced = {tea}
  Methods = {"AVG", "FIFO", "LIFO"}
  Callers = {c1}
  Orders <- MCOrders
  Adjustments <- MCAdjustments
  MaxInbound = 3
  MaxMoved = 3
INVARIANTS
  TypeOK
  StockAccounts
  HoldsAccount
  CostFollowsGoods
  StockIsCosted
PROPERTY
  LayersInOrder
CHECK_DEADLOCK FALSE
