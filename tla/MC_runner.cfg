\* A compute node's run_custom_scripts against the fail-fast pipeline.
CONSTANTS
    r1 = r1  r2 = r2  r3 = r3  r4 = r4  r5 = r5  r6 = r6  r7 = r7
    Scripts <- CmpTree
    Path <- CmpPath
    Disabled <- CmpDisabled
    Role = "compute"
    Timeout <- CmpTimeout
    Unset = Unset
    Null = Null
SPECIFICATION RunnerSpec
INVARIANT RunnerTypeOK
PROPERTY PipelineRefined
CHECK_DEADLOCK FALSE
