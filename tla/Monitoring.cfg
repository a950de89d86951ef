SPECIFICATION Spec
CONSTANTS
  Keys = {k1, k2}
  MaxRecords = 2
  i1 = i1
  i2 = i2
  Issues = {i1, i2}
  ProviderOf <- MCProviderOf
  Providers = 2
  QueueSize = 1
  MaxFaults = 1
INVARIANTS CountsSurvive MailedOnce
PROPERTY OpenIssueIsNotified
CHECK_DEADLOCK FALSE
