CONSTANTS
  a = a
  b = b
  Hosts = {a, b}
  Users = {"root", "me"}
  Me = "me"
  Nameless = Nameless
  Entered <- MCEntered
  Configs <- MCConfigs
  Files <- MCFiles
  MaxIds = 3

SPECIFICATION Spec

INVARIANTS
  TypeOK
  HostsSurvive
  SecretsHaveHosts

PROPERTY ImportAddsEachOnce
