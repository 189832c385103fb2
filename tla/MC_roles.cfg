\* Every command line and role, unbounded script timeouts, blocked symlink paths, two boots.
CONSTANTS
    s1 = s1  s2 = s2  s3 = s3  s4 = s4  f1 = f1  f2 = f2  f3 = f3  f4 = f4
    Unset = Unset
    OldId = OldId  NewId = NewId  OtherId = OtherId
    MaxRetries = 1
    Modes = {"main", "hybrid_bucket", "hybrid_nobucket"}
    Configs <- AllRoleConfigs
    Scripts <- RoleScripts
    ScriptCat <- RoleScriptCat
    Disabled = {}
    Files <- NoFiles
    FileDir <- NoFileDir
    InitOwner <- NoInitOwner
    InitLinks = {"absent", "dangling", "occupied"}
    MaxBoots = 2
SPECIFICATION Spec
INVARIANT TypeOK BannerReflectsOutcome ScriptsFailFast 
CHECK_DEADLOCK FALSE
