CONSTANTS
  Symbols = {"A", "B"}
  Unit = 6
  StartingCash = 720
  Setups <- MCSetups
  OpenHours <- MCOpenHours

SPECIFICATION Spec

INVARIANTS
  ServedLikeTrained
  PortalsAgree
  SignalsAreCrosses
  CooldownKept
  AcceptedInSession
  PositionsStayLimited

CHECK_DEADLOCK FALSE
