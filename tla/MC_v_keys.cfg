\* Expected violation of KeysCompleteAfterSetup.
CONSTANTS
    s1 = s1  s2 = s2  s3 = s3  s4 = s4  f1 = f1  f2 = f2  f3 = f3  f4 = f4
    Unset = Unset
    OldId = OldId  NewId = NewId  OtherId = OtherId
    MaxRetries = 1
    Modes = {"main"}
    Configs <- CtlNoDiskConfigs
    Scripts <- NoScripts
    ScriptCat <- NoScriptCat
    Disabled = {}
    Files <- MigFiles
    FileDir <- MigFileDir
    InitOwner <- MigInitOwner
    InitLinks = {"absent"}
    MaxBoots = 2
SPECIFICATION Spec
INVARIANT KeysCompleteAfterSetup
CHECK_DEADLOCK FALSE
