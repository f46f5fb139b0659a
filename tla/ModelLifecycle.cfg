CONSTANTS
  Unit = 6
  Listing <- MCListing
  Nobody = Nobody
  Setups <- MCSetups
  Market <- MCMarket
  OpenHours <- MCOpenHours

SPECIFICATION Spec

INVARIANTS
  ReadsWhatWasDownloaded
  NoLeakage

PROPERTIES
  ApprovedIsLoaded

CHECK_DEADLOCK FALSE
