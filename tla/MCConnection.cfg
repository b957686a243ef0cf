CONSTANTS
  Connections = {c1, c2}
  h1 = h1
  h2 = h2
  Hosts = {h1, h2}
  Ports = {22, 2222}
  Keys = {k1, k2}
  Servers <- MCServers
  Files <- MCFiles
  Profiles <- MCProfiles
  Offers <- MCOffers

SPECIFICATION Spec

SYMMETRY MCSymmetry

INVARIANTS
  TypeOK
  OnlyTrustedKeys
  FailedHasTriedAll

PROPERTY RewriteIsLocal

CHECK_DEADLOCK FALSE
