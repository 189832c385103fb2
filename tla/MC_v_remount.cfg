\* The second boot of a provisioned controller fails at the state disk's mount.
CONSTANTS MaxBoots = 2
SPECIFICATION MountsSpec
INVARIANT StateMountRerunSafe
CHECK_DEADLOCK FALSE
