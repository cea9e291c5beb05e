SPECIFICATION FairSpec
CONSTANTS
  Installed <- MCInstalled
  Releases <- MCReleases
  MaxChecks = 2
  MaxDownloads = 2
  ZipSize = 2
INVARIANTS
  TypeOK
  OfferIsNewer
  OfferIsConsistent
  LaunchedWholeAlone
PROPERTIES
  ForcesRightlyAlone
  DownloadEnds
CHECK_DEADLOCK FALSE
