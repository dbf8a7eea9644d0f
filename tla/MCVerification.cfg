SPECIFICATION Spec
CONSTANTS
  MCProviders = {"venice", "neardirect", "nearcloud", "nanogpt", "phalacloud", "chutes", "tinfoil_v3_cloud", "tinfoil_v3_direct"}
  Providers <- MCProviders
  Configs <- MCConfigs
  MaxDeviations = 2
INVARIANTS TypeOK AdmittedIsAttested HonestIsAdmitted
PROPERTY FailureIsFinal
CHECK_DEADLOCK FALSE
