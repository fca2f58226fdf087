SPECIFICATION FairSpec
CONSTANTS
  Builds = {b1, b2}
  Entries = {sdkmanager, lib, notice}
  sdkmanager = sdkmanager
  Packages = {platform, buildTools}
  MaxFaults = 3
INVARIANTS SdkTypeOK InstalledIsComplete
PROPERTY InstalledUnlessTorn
CHECK_DEADLOCK FALSE
