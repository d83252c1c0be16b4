\* Three sales over two tabs, two calls in one of them, tabs that are closed.
SPECIFICATION Spec
CONSTANTS
  s1 = s1
  s2 = s2
  s3 = s3
  a1 = a1
  a2 = a2
  b1 = b1
  A = A
  B = B
  tea = tea
  large = large
  NoSale = NoSale
  Sales = {s1, s2, s3}
  Calls = {a1, a2, b1}
  Tabs = {A, B}
  Home <- MCHome
  Till <- MCTill
  Products = {tea}
  Variants = {large}
  ProductOf <- MCProductOf
  OnHand <- MCOnHand
  VariantStock <- MCVariantStock
  Carts <- MCCarts
INVARIANTS
  TypeOK
  SaleIsOnce
  HeldByCompleted
  ReservedIsHeld
  SoldWithinStock
PROPERTY
  SaleIsFinal
CHECK_DEADLOCK FALSE
