SPECIFICATION Spec
CONSTANTS
  NDP = 2
  None = None
  Ports <- TwoPorts
  Mode <- Modes
  Mab <- MabPorts
  Nfv = "nfv"
  AuthAcl <- Auth
  NoauthAcl <- Noauth
  Assigned <- Student
  Vlan = {"students"}
  NativeVlan = "native"
  Host = {a, b}
  Hdrs <- Frames
  Enabled = {{2}, {1, 2}}
  MaxEvents = 5
INVARIANTS OnlyAuthenticated AuthenticatedGetsIn AttributedToItsPort VlanAsAssigned
CHECK_DEADLOCK FALSE
