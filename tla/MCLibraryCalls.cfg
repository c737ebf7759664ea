\* Calls of the kernel and of the configuration crate, at and around every limit.
SPECIFICATION CallsSpec
CONSTANTS
  WordMax = 70000
  LongMax = 80000
  QuadMax = 3500000
  RecoveryChecksum <- MCChecksum
  Documents <- MCDocuments
  LimitChoices <- MCLimitChoices
  Credentials <- MCCredentials
  Entropies <- MCEntropies
  Damages <- MCDamages
  Lengths <- MCLengths
  Roots <- MCRoots
  KeyContexts <- MCKeyContexts
  Nonces <- MCNonces
  Aads <- MCAads
  Secrets <- MCSecrets
  Domains <- MCDomains
  Bodies <- MCBodies
  SigningKeys <- MCSigningKeys
  Requests <- MCRequests
  OwnerFiles <- MCOwnerFiles
  CommandLines <- MCCommandLines
  Catalogues <- MCCatalogues
  Identities <- MCIdentities
  Observations <- MCObservations
  Retentions <- MCRetentions
  Clocks <- MCClocks
  ApiEnvironments <- MCApiEnvironments
  PoolEnvironments <- MCPoolEnvironments
  ValidatorInputs <- MCValidatorInputs
  CurvePoints <- MCCurvePoints
  AlphabetSizes = {1, 2, 3, 10, 26, 62, 94, 128, 200, 255, 256}
  HostLists <- MCHostLists
  TlsOverrides = {"", "auto", "verify-full", "disabled-insecure", "verify-ca"}
INVARIANTS CodesAreExact OpensOnlyWhatWasMade ConfigHonoured
CHECK_DEADLOCK FALSE
