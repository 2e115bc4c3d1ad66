CONSTANTS
  Packets = {p1, p2, p3}
  None = None
  Togglers = {ui}
  MaxHeld = 2
SPECIFICATION Spec
INVARIANT TypeOK
PROPERTIES ImplementsGate RequestsRelease
