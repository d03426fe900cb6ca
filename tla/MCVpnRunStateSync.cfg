\* The status is asked while the tile starts the VPN, and written after it.
SPECIFICATION Spec
CONSTANTS
    Nil = Nil
    Syncs = {y1}
    Modes = {"vpn"}
    MaxInputs = 3
    Worlds <- Calm
INVARIANTS
    UIReflectsVpn
CHECK_DEADLOCK FALSE
