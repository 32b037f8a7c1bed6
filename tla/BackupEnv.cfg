SPECIFICATION BackupSpec
CONSTANTS
  Notes = {"n1"}
  Starts <- MCStarts
  Passphrases <- MCPassphrases
  Environments <- MCEnvironments
  Spots = {1}
  MaxHops = 2
INVARIANT PassphraseFromEnv
CHECK_DEADLOCK FALSE
