\* sacctmgr runs before slurmdbd serves; its rc 1 is let through.
CONSTANTS CloudSql = TRUE  MaxBoots = 1
SPECIFICATION AccountingSpec
INVARIANT ClusterRegisteredAfterSetup
CHECK_DEADLOCK FALSE
