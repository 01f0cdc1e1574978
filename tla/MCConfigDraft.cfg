CONSTANTS
  Tabs = {t1, t2}
  Keys = {model, apiKey}
  Secrets = {}
  Values = {a, b}
  Default = a
  Unset = Unset
  NoHash = NoHash
  MaxActs = 4
  MaxOpen = 2
  MaxFaults = 1
SPECIFICATION Spec
SYMMETRY TabsAndKeysAreAlike
INVARIANTS
  TypeOK
  UnsavedIsDirty
  SubmitNamesItsStart
  RuntimeFollowsDb
CHECK_DEADLOCK FALSE
