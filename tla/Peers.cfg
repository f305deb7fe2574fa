SPECIFICATION Spec
CONSTANTS
  Strings <- MCStrings  PeerIds = {"p1", "p2"}
  CertsOf <- MCCertsOf  Authored <- MCAuthored  Racing <- MCRacing  Usages <- MCUsages  Odd = {"odd", "hashed", "left"}
  Hashed = {"hashed"}  LeftEscaped <- MCLeft  LeftPlain <- MCLeft   MaxRows = 2
  NoCert = NoCert  Nothing = Nothing
INVARIANTS
    ToolOutputConforms
    PinsAgree
    AdvisoryLeft
PROPERTIES
    FailsLoud
    RenderingKeeps
