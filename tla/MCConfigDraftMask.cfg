CONSTANTS
  Tabs = {t1}
  Keys = {model, apiKey}
  Secrets = {apiKey}
  Values = {a, b}
  Default = a
  Unset = Unset
  NoHash = NoHash
  MaxActs = 4
  MaxOpen = 2
  MaxFaults = 0
SPECIFICATION Spec
INVARIANT SecretsSurvive
CHECK_DEADLOCK FALSE
