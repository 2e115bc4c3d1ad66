CONSTANTS
  Packets = {p1, p2}
  None = None
  Togglers = {ui}
  MaxHeld = 1
SPECIFICATION Spec
INVARIANT EnabledHolds
