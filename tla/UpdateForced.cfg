SPECIFICATION Spec
CONSTANTS
  Installed <- MCInstalled
  Releases <- MCReleases
  MaxChecks = 2
  MaxDownloads = 2
  ZipSize = 2
PROPERTY ForcedUpdate
CHECK_DEADLOCK FALSE
