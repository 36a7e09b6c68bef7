SPECIFICATION Spec
CONSTANTS
  N = 2
  Target = {0, 1}
  MaxPriority = 2
  Overlap = FALSE
  Settings <- MixedSettings
INVARIANTS TypeOK GatewayClosedWhileServed OneHandlerPerInterrupt BestRequestFresh
PROPERTIES ImplementsService ClaimRespectsSettings
