---------------------------- MODULE ScriptRunner ----------------------------
(***************************************************************************)
(* run_custom_scripts of setup.py, with the scripts' paths: discovery by   *)
(* rglob under the role's directories (in the order of the list), the      *)
(* ".disabled" filter, the timeout chosen by substring of the path, and    *)
(* the fail-fast loop.  A path is the sequence of directory names between  *)
(* dirs.custom_scripts and the file; its first element is the directory    *)
(* rglob was started from.                                                 *)
(***************************************************************************)
EXTENDS Integers, Sequences

CONSTANTS
    Scripts,   \* the files below dirs.custom_scripts
    Path,      \* the directories each lies in, outermost first
    Disabled,  \* the files whose name ends with ".disabled"
    Role,      \* lookup().instance_role (is_controller, is_login_node)
    Timeout,   \* the three *_startup_scripts_timeout keys of config.yaml
    Unset,     \* a key absent from config.yaml
    Null       \* a key present with a null value

DirNames == {"controller.d", "compute.d", "nodeset.d", "login.d", "lib"}
TimeoutKeys == {"controller", "compute", "login"}

ASSUME RunnerAssumption ==
    /\ Path \in [Scripts -> Seq(DirNames) \ {<<>>}]
    /\ Disabled \subseteq Scripts
    /\ Role \in {"controller", "compute", "login", "unknown"}
    /\ Unset \notin Int /\ Null \notin Int /\ Unset # Null
    /\ Timeout \in [TimeoutKeys -> Int \cup {Unset, Null}]

Results == {"ok", "nonzero", "timeout", "hang", "error"}

VARIABLES pc, queue, ran

rvars == <<pc, queue, ran>>

RunnerTypeOK ==
    /\ pc \in {"discover", "loop", "done", "raised", "hung"}
    /\ queue \in SUBSET Scripts
    /\ ran \in Seq([script: Scripts, timeout: Nat, result: Results])

\* custom_dirs, in the order the comprehension walks them.
RoleDirList ==
    CASE Role = "controller" -> <<"controller.d">>
      [] Role = "compute"    -> <<"compute.d", "nodeset.d">>
      [] Role = "login"      -> <<"login.d">>
      [] OTHER               -> <<>>

\* The position in custom_dirs of the directory a script was found under.
DirRank(s) == CHOOSE i \in 1..Len(RoleDirList) : RoleDirList[i] = Path[s][1]

\* Mutant: the ".disabled" suffix not filtered.
SelectedWithDisabled ==
    {s \in Scripts : \E i \in 1..Len(RoleDirList) : Path[s][1] = RoleDirList[i]}

\* rglob("*") under each directory of the list, files not named *.disabled.
Selected ==
    {s \in Scripts : /\ \E i \in 1..Len(RoleDirList) : Path[s][1] = RoleDirList[i]
                     /\ s \notin Disabled}

\* `"/<d>/" in str(script)`: some directory of the path is named d.
InPath(s, d) == \E i \in 1..Len(Path[s]) : Path[s][i] = d

\* cfg.get(key, 300) for the first key whose directory name the path holds
\* (controller.d, then compute.d or nodeset.d, then login.d); 300 for none.
RawTimeout(s) ==
    LET get(k) == IF Timeout[k] = Unset THEN 300 ELSE Timeout[k]
    IN IF InPath(s, "controller.d") THEN get("controller")
       ELSE IF InPath(s, "compute.d") \/ InPath(s, "nodeset.d") THEN get("compute")
       ELSE IF InPath(s, "login.d") THEN get("login")
       ELSE 300

\* Mutant: `timeout = None if not timeout else timeout`, a negative value
\* passed on to run().
EffTimeoutNoNegative(s) ==
    LET t == RawTimeout(s) IN IF t = Null \/ t = 0 THEN 0 ELSE t

\* `timeout = None if not timeout or timeout < 0 else timeout`; 0 stands
\* for None (no time bound).
EffTimeout(s) ==
    LET t == RawTimeout(s) IN IF t = Null \/ t <= 0 THEN 0 ELSE t

RunnerInit == pc = "discover" /\ queue = {} /\ ran = <<>>

\* The list comprehension: all selected scripts, to be run in list order.
Discover ==
    /\ pc = "discover"
    /\ pc' = "loop" /\ queue' = Selected
    /\ UNCHANGED ran

\* Mutant: the scripts of nodeset.d may run before those of compute.d.
NextInOrderAny(s) == s \in queue

\* The loop takes the scripts of the first directory before the next one's.
NextInOrder(s) == s \in queue /\ \A k \in queue : DirRank(s) <= DirRank(k)

\* One iteration: run(script, timeout, check=False, shell=True), log, then
\* check_returncode.  run itself may raise (OSError, TimeoutExpired when a
\* timeout is set); with timeout None a script that never exits blocks the loop.
Execute(s) ==
    /\ pc = "loop" /\ NextInOrder(s)
    /\ queue' = queue \ {s}
    /\ \E r \in Results :
          /\ r = "timeout" => EffTimeout(s) > 0
          /\ r = "hang" => EffTimeout(s) = 0
          /\ ran' = Append(ran, [script |-> s, timeout |-> EffTimeout(s), result |-> r])
          /\ pc' = CASE r = "ok"   -> "loop"
                     [] r = "hang" -> "hung"
                     [] OTHER      -> "raised"

\* The loop ends with every script run.
Finish ==
    /\ pc = "loop" /\ queue = {}
    /\ pc' = "done"
    /\ UNCHANGED <<queue, ran>>

RunnerNext == Discover \/ (\E s \in Scripts : Execute(s)) \/ Finish

\* The process runs until it returns, raises or blocks.
RunnerSpec == RunnerInit /\ [][RunnerNext]_rvars /\ WF_rvars(RunnerNext)

-----------------------------------------------------------------------------
(* Refinement: run_custom_scripts implements the fail-fast pipeline.       *)

AbsResult(r) == CASE r = "ok" -> "ok" [] r = "hang" -> "hang" [] OTHER -> "failed"

Pipeline == INSTANCE ScriptPipeline WITH
    Jobs    <- Selected,
    Bounded <- {s \in Selected : EffTimeout(s) > 0},
    Rank    <- [s \in Selected |-> DirRank(s)],
    pending <- IF pc = "discover" THEN Selected ELSE queue,
    log     <- [i \in 1..Len(ran) |-> [job |-> ran[i].script,
                                       result |-> AbsResult(ran[i].result)]],
    outcome <- CASE pc \in {"discover", "loop"} -> "running"
                 [] pc = "done"                 -> "complete"
                 [] pc = "raised"               -> "aborted"
                 [] OTHER                       -> "blocked"

\* run_custom_scripts runs the selected scripts in directory order, each at
\* most once, stops at the first failure and returns once all succeeded:
\* every behaviour of the loop is one of the pipeline's.
PipelineRefined == Pipeline!PipelineSpec

=============================================================================
