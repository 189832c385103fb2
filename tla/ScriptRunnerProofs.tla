------------------------- MODULE ScriptRunnerProofs -------------------------
(***************************************************************************)
(* run_custom_scripts implements the fail-fast pipeline: the safety part   *)
(* of the refinement, proved for every tree of scripts, every role and     *)
(* every timeout configuration.                                            *)
(***************************************************************************)
EXTENDS ScriptRunner, SequenceTheorems, TLAPS

\* The pipeline's state as the refinement mapping computes it.
AbsPending == IF pc = "discover" THEN Selected ELSE queue
AbsEntry(e) == [job |-> e.script, result |-> AbsResult(e.result)]
AbsLog == [i \in 1..Len(ran) |-> AbsEntry(ran[i])]
AbsOutcome ==
    CASE pc \in {"discover", "loop"} -> "running"
      [] pc = "done"                 -> "complete"
      [] pc = "raised"               -> "aborted"
      [] OTHER                       -> "blocked"

\* The loop only ever holds selected scripts, and nothing ran before discovery.
RunnerInv ==
    /\ RunnerTypeOK
    /\ pc # "discover" => queue \subseteq Selected
    /\ pc = "discover" => ran = <<>>

Entry == [script: Scripts, timeout: Nat, result: Results]

\* The timeout a script runs under is a natural number (0 for None).
LEMMA EffTimeoutNat == ASSUME NEW s \in Scripts PROVE EffTimeout(s) \in Nat
<1>1. \A k \in TimeoutKeys : (IF Timeout[k] = Unset THEN 300 ELSE Timeout[k]) \in Int \cup {Null}
  BY RunnerAssumption
<1>2. RawTimeout(s) \in Int \cup {Null}
  BY <1>1 DEF RawTimeout, TimeoutKeys
<1> QED
  BY <1>2 DEF EffTimeout

LEMMA RunnerInvInit == RunnerInit => RunnerInv
BY DEF RunnerInit, RunnerInv, RunnerTypeOK

LEMMA RunnerInvStep == RunnerInv /\ [RunnerNext]_rvars => RunnerInv'
<1> SUFFICES ASSUME RunnerInv, [RunnerNext]_rvars PROVE RunnerInv'
  OBVIOUS
<1>1. CASE Discover
  BY <1>1 DEF Discover, RunnerInv, RunnerTypeOK, Selected
<1>2. ASSUME NEW s \in Scripts, Execute(s) PROVE RunnerInv'
  <2> PICK r \in Results :
        /\ r = "timeout" => EffTimeout(s) > 0
        /\ r = "hang" => EffTimeout(s) = 0
        /\ ran' = Append(ran, [script |-> s, timeout |-> EffTimeout(s), result |-> r])
        /\ pc' = CASE r = "ok"   -> "loop"
                   [] r = "hang" -> "hung"
                   [] OTHER      -> "raised"
    BY <1>2 DEF Execute
  <2>1. pc' \in {"loop", "hung", "raised"}
    BY Zenon
  <2>2. EffTimeout(s) \in Nat
    BY EffTimeoutNat
  <2>3. ran' \in Seq(Entry)
    BY <2>2 DEF RunnerInv, RunnerTypeOK, Entry
  <2>4. pc = "loop" /\ queue' = queue \ {s} /\ s \in queue
    BY <1>2 DEF Execute, NextInOrder
  <2> QED
    BY <2>1, <2>3, <2>4 DEF RunnerInv, RunnerTypeOK, Entry
<1>3. CASE Finish
  BY <1>3 DEF Finish, RunnerInv, RunnerTypeOK
<1>4. CASE UNCHANGED rvars
  BY <1>4 DEF rvars, RunnerInv, RunnerTypeOK
<1> QED
  BY <1>1, <1>2, <1>3, <1>4 DEF RunnerNext

\* Every script run_custom_scripts starts is run under a natural-number
\* timeout (0 standing for None): line 164 turns a zero, negative or null
\* setting into None, whatever the three timeout keys hold.
THEOREM RunnerTypeCorrect == RunnerSpec => []RunnerTypeOK
<1>1. RunnerInit => RunnerInv
  BY RunnerInvInit
<1>2. RunnerInv /\ [RunnerNext]_rvars => RunnerInv'
  BY RunnerInvStep
<1>3. RunnerInv => RunnerTypeOK
  BY DEF RunnerInv
<1> QED
  BY <1>1, <1>2, <1>3, PTL DEF RunnerSpec

-----------------------------------------------------------------------------
(* The refinement mapping, step by step.                                   *)

\* Appending a result to ran appends its image to the pipeline's log.
LEMMA AbsLogAppend ==
    ASSUME NEW e \in Entry, ran \in Seq(Entry), ran' = Append(ran, e)
    PROVE  AbsLog' = Append(AbsLog, AbsEntry(e))
BY DEF AbsLog

\* The image of each detailed result, and of the state the loop goes to.
LEMMA AbsResultCases ==
    ASSUME NEW r \in Results
    PROVE  /\ AbsResult(r) \in Pipeline!Results
           /\ r = "ok" => AbsResult(r) = "ok"
           /\ r = "hang" => AbsResult(r) = "hang"
           /\ r \notin {"ok", "hang"} => AbsResult(r) = "failed"
BY Zenon DEF AbsResult, Results, Pipeline!Results

LEMMA RefineInit == RunnerInit => Pipeline!PipelineInit
BY DEF RunnerInit, Pipeline!PipelineInit

\* Each step of the loop is a step of the pipeline or leaves its image alone.
LEMMA RefineStep ==
    RunnerInv /\ [RunnerNext]_rvars => [Pipeline!PipelineNext]_Pipeline!pvars
<1> SUFFICES ASSUME RunnerInv, [RunnerNext]_rvars
             PROVE  [Pipeline!PipelineNext]_Pipeline!pvars
  OBVIOUS
<1>1. CASE Discover
  <2>1. AbsPending' = AbsPending /\ AbsLog' = AbsLog
    BY <1>1 DEF Discover, AbsPending, AbsLog
  <2>2. AbsOutcome' = AbsOutcome
    BY <1>1, Zenon DEF Discover, AbsOutcome
  <2> QED
    BY <2>1, <2>2 DEF Pipeline!pvars, AbsPending, AbsLog, AbsOutcome, AbsEntry
<1>2. ASSUME NEW s \in Scripts, Execute(s)
      PROVE  [Pipeline!PipelineNext]_Pipeline!pvars
  <2> PICK r \in Results :
        /\ r = "timeout" => EffTimeout(s) > 0
        /\ r = "hang" => EffTimeout(s) = 0
        /\ ran' = Append(ran, [script |-> s, timeout |-> EffTimeout(s), result |-> r])
        /\ pc' = CASE r = "ok"   -> "loop"
                   [] r = "hang" -> "hung"
                   [] OTHER      -> "raised"
    BY <1>2 DEF Execute
  <2>1. /\ pc = "loop" /\ s \in queue /\ queue' = queue \ {s}
        /\ \A k \in queue : DirRank(s) <= DirRank(k)
    BY <1>2 DEF Execute, NextInOrder
  <2>2. queue \subseteq Selected
    BY <2>1 DEF RunnerInv
  <2>3. pc' # "discover"
    BY Zenon
  <2>4. AbsPending = queue /\ AbsPending' = AbsPending \ {s}
    BY <2>1, <2>3 DEF AbsPending
  <2>5. AbsOutcome = "running"
    BY <2>1, Zenon DEF AbsOutcome
  <2>6. Pipeline!Eligible(s)
    BY <2>1, <2>2, <2>4 DEF Pipeline!Eligible, AbsPending
  <2>7. AbsLog' = Append(AbsLog, [job |-> s, result |-> AbsResult(r)])
    <3>1. [script |-> s, timeout |-> EffTimeout(s), result |-> r] \in Entry
      BY EffTimeoutNat DEF Entry
    <3>2. ran \in Seq(Entry)
      BY DEF RunnerInv, RunnerTypeOK, Entry
    <3> QED
      BY <3>1, <3>2, AbsLogAppend DEF AbsEntry
  <2>8. AbsResult(r) = "hang" => s \notin {x \in Selected : EffTimeout(x) > 0}
    BY AbsResultCases
  <2>9. AbsOutcome' = CASE AbsResult(r) = "ok"     -> "running"
                        [] AbsResult(r) = "failed" -> "aborted"
                        [] OTHER                   -> "blocked"
    <3>1. CASE r = "ok"
      <4>1. pc' = "loop" /\ AbsResult(r) = "ok"
        BY <3>1, AbsResultCases, Zenon
      <4> QED
        BY <4>1, Zenon DEF AbsOutcome
    <3>2. CASE r = "hang"
      <4>1. pc' = "hung" /\ AbsResult(r) = "hang"
        BY <3>2, AbsResultCases, Zenon
      <4> QED
        BY <4>1, Zenon DEF AbsOutcome
    <3>3. CASE r \notin {"ok", "hang"}
      <4>1. pc' = "raised" /\ AbsResult(r) = "failed"
        BY <3>3, AbsResultCases, Zenon
      <4> QED
        BY <4>1, Zenon DEF AbsOutcome
    <3> QED
      BY <3>1, <3>2, <3>3
  <2>10. Pipeline!Step(s)
    BY <2>4, <2>5, <2>6, <2>7, <2>8, <2>9, AbsResultCases
       DEF Pipeline!Step, AbsPending, AbsLog, AbsOutcome
  <2> QED
    BY <2>1, <2>2, <2>10 DEF Pipeline!PipelineNext
<1>3. CASE Finish
  <2>1. AbsPending = {} /\ AbsPending' = AbsPending /\ AbsLog' = AbsLog
    BY <1>3 DEF Finish, AbsPending, AbsLog
  <2>2. AbsOutcome = "running" /\ AbsOutcome' = "complete"
    BY <1>3, Zenon DEF Finish, AbsOutcome
  <2>3. Pipeline!Complete
    BY <2>1, <2>2, Zenon DEF Pipeline!Complete, AbsPending, AbsLog, AbsEntry, AbsOutcome
  <2> QED
    BY <2>3 DEF Pipeline!PipelineNext
<1>4. CASE UNCHANGED rvars
  BY <1>4 DEF rvars, Pipeline!pvars
<1> QED
  BY <1>1, <1>2, <1>3, <1>4 DEF RunnerNext


\* The safety part of PipelineRefined (the MC_runner run checks all of it,
\* weak fairness included, on a compute node's tree): every behaviour of
\* run_custom_scripts, for every tree, role and timeout configuration,
\* starts as the pipeline starts and moves only by the pipeline's steps.
THEOREM RunnerRefinesPipeline ==
    RunnerInit /\ [][RunnerNext]_rvars
        => Pipeline!PipelineInit /\ [][Pipeline!PipelineNext]_Pipeline!pvars
<1>1. RunnerInit => RunnerInv
  BY RunnerInvInit
<1>2. RunnerInv /\ [RunnerNext]_rvars => RunnerInv'
  BY RunnerInvStep
<1>3. RunnerInv /\ [RunnerNext]_rvars => [Pipeline!PipelineNext]_Pipeline!pvars
  BY RefineStep
<1>4. RunnerInit => Pipeline!PipelineInit
  BY RefineInit
<1> QED
  BY <1>1, <1>2, <1>3, <1>4, PTL

\* The abstract proofs, instantiated with the same mapping as Pipeline.
PP == INSTANCE ScriptPipelineProofs WITH
    Jobs    <- Selected,
    Bounded <- {s \in Selected : EffTimeout(s) > 0},
    Rank    <- [s \in Selected |-> DirRank(s)],
    pending <- IF pc = "discover" THEN Selected ELSE queue,
    log     <- [i \in 1..Len(ran) |-> [job |-> ran[i].script,
                                       result |-> AbsResult(ran[i].result)]],
    outcome <- CASE pc \in {"discover", "loop"} -> "running"
                 [] pc = "done"                 -> "complete"
                 [] pc = "raised"               -> "aborted"
                 [] OTHER                       -> "blocked"

\* Pipeline and PP are the same instance: their formulas coincide.
LEMMA SameInit == Pipeline!PipelineInit <=> PP!PipelineInit
BY DEF Pipeline!PipelineInit, PP!PipelineInit

LEMMA SameNext == [Pipeline!PipelineNext]_Pipeline!pvars <=> [PP!PipelineNext]_PP!pvars
BY DEF Pipeline!PipelineNext, PP!PipelineNext, Pipeline!Step, PP!Step,
       Pipeline!Complete, PP!Complete, Pipeline!Eligible, PP!Eligible,
       Pipeline!Results, PP!Results, Pipeline!pvars, PP!pvars

LEMMA SameFailFast == PP!PipelineInv => Pipeline!PipelineFailFast
BY DEF PP!PipelineInv, PP!PipelineFailFast, Pipeline!PipelineFailFast

\* run_custom_scripts is fail-fast for every tree of scripts: in the log of
\* the scripts run, every one but the last succeeded, and while the loop
\* runs the last one succeeded too.
THEOREM RunnerFailFast == RunnerInit /\ [][RunnerNext]_rvars => []Pipeline!PipelineFailFast
<1>1. Pipeline!PipelineInit /\ [][Pipeline!PipelineNext]_Pipeline!pvars => []Pipeline!PipelineFailFast
  <2>1. Pipeline!PipelineInit => PP!PipelineInv
    BY PP!PipelineInvInit, SameInit
  <2>2. PP!PipelineInv /\ [Pipeline!PipelineNext]_Pipeline!pvars => PP!PipelineInv'
    BY PP!PipelineInvStep, SameNext
  <2>3. PP!PipelineInv => Pipeline!PipelineFailFast
    BY SameFailFast
  <2> QED
    BY <2>1, <2>2, <2>3, PTL
<1> QED
  BY <1>1, RunnerRefinesPipeline, PTL
=============================================================================
