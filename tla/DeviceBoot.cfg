SPECIFICATION Spec
CONSTANTS
  OptionSets = {{}, {"tls", "caCert"}, {"tls", "deviceCert"}, {"tls", "generateKey", "caCert", "deviceCert"}}
  ReadyPolls = 2
  MaxFaults = 1
  MaxLosses = 1
  MaxCrashes = 1
INVARIANTS
  TypeOK
  ProvisionedWhenOk
  OnlineWhenOk
  ConfiguredIsSet
PROPERTIES
  NoNeedlessSave
  ProvisionedKeyKept
  InitShortens
  InitSucceeds
