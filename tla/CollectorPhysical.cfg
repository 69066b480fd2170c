SPECIFICATION Spec
CONSTANTS
  Interfaces = {eth0, br0}
  Physical = {eth0}
  Ids = {}
  Names = {}
  Unset = Unset
  MaxClock = 2
  MaxUpsets = 0
INVARIANT PhysicalOnly
