\* A controller with a state disk, booted four times, crashes anywhere.
CONSTANTS MaxBoots = 4
SPECIFICATION MountsSpec
INVARIANT StateOnDisk BindMountsNotStacked
CHECK_DEADLOCK FALSE
