SPECIFICATION Spec
CONSTANTS
  Tabs = {t1}
  Items = {i1}
  Variants = {v1}
  MaxVersion = 2
INVARIANT SelfHeals
CHECK_DEADLOCK FALSE
