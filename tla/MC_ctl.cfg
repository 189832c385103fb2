\* A controller, with and without a state disk and Cloud SQL, booted twice.
CONSTANTS
    Modes = {"main"}
    Configs <- CtlConfigs
    s1 = s1  s2 = s2  s3 = s3  s4 = s4  f1 = f1  f2 = f2  f3 = f3  f4 = f4
    Scripts <- CtlScripts
    ScriptCat <- CtlScriptCat
    Disabled <- CtlDisabled
    Unset = Unset
    OldId = OldId  NewId = NewId  OtherId = OtherId
    Files <- NoFiles
    FileDir <- NoFileDir
    InitOwner <- NoInitOwner
    InitLinks = {"absent", "stale"}
    MaxBoots = 2
    MaxRetries = 1
SPECIFICATION Spec
INVARIANT BannerReflectsOutcome ScriptsFailFast ScriptsCompleteOnSuccess
CHECK_DEADLOCK FALSE
