SPECIFICATION Spec
CONSTANTS
  k1 = k1
  k2 = k2
  k3 = k3
  inline = inline
  stock = stock
  verse = verse
  x1 = x1
  x2 = x2
  c1 = c1
  Feature = {"prompts", "resources"}
  Key = {k1, k2, k3}
  Provider = {inline, stock, verse}
  Plugin = {stock, verse}
  ProvidersOf <- Configured
  Lists <- Data
  Sound <- Validity
  Template <- Templates
  PageSize = 1
  Refresher = {x1, x2}
  Client = {c1}
  MaxVersion = 1
  None = None
INVARIANTS
  PagesCoverList
  RequestsReachOwners
PROPERTIES
  CatalogMovesForward
CHECK_DEADLOCK FALSE
