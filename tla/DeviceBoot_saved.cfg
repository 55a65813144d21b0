SPECIFICATION Spec
CONSTANTS
  OptionSets = {{"tls", "caCert"}}
  ReadyPolls = 2
  MaxFaults = 1
  MaxLosses = 0
  MaxCrashes = 1
INVARIANT CaCertSaved
