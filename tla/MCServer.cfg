SPECIFICATION Spec
CONSTANTS
  None = None
  Inline = Inline
  App = App
  File <- Files
  Reloaded <- Reloads
  Build <- Builds
  Registrable <- Plugins
  Request <- HttpRequests
INVARIANTS
  WrapsAsDeclared
  OnlyAdmitted
  StatusTellsWhy
  ReferencesResolve
  AdvertisedIsServed
  ServedAsChecked
CHECK_DEADLOCK FALSE
