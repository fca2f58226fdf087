SPECIFICATION FairSpec
CONSTANTS
  Builds = {b1}
  Entries = {sdkmanager, lib}
  sdkmanager = sdkmanager
  Packages = {platform, buildTools}
  MaxFaults = 1
PROPERTY EnsuresInstalled
CHECK_DEADLOCK FALSE
