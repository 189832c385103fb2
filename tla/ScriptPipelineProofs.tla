------------------------ MODULE ScriptPipelineProofs ------------------------
(***************************************************************************)
(* Proofs about the abstract fail-fast pipeline, for every set of jobs,    *)
(* every rank and every choice of bounded jobs.                            *)
(***************************************************************************)
EXTENDS ScriptPipeline, TLAPS

\* Fail-fast together with the type invariant is inductive.
PipelineInv == PipelineTypeOK /\ PipelineFailFast

LEMMA PipelineInvInit == PipelineInit => PipelineInv
BY DEF PipelineInit, PipelineInv, PipelineTypeOK, PipelineFailFast, Outcomes

LEMMA PipelineInvStep == PipelineInv /\ [PipelineNext]_pvars => PipelineInv'
<1> SUFFICES ASSUME PipelineInv, [PipelineNext]_pvars PROVE PipelineInv'
  OBVIOUS
<1>1. CASE \E j \in Jobs : Step(j)
  <2> PICK j \in Jobs : Step(j)
    BY <1>1
  <2> PICK r \in Results :
        /\ r = "hang" => j \notin Bounded
        /\ log' = Append(log, [job |-> j, result |-> r])
        /\ outcome' = CASE r = "ok"     -> "running"
                        [] r = "failed" -> "aborted"
                        [] OTHER        -> "blocked"
    BY DEF Step
  <2>1. outcome = "running" /\ pending' = pending \ {j}
    BY DEF Step
  <2>2. \A i \in 1..Len(log) : log[i].result = "ok"
    BY <2>1 DEF PipelineInv, PipelineFailFast, PipelineTypeOK
  <2>3. outcome' \in Outcomes /\ (outcome' = "running" <=> r = "ok")
    BY DEF Outcomes, Results
  <2>4. PipelineTypeOK'
    BY <2>1, <2>3 DEF PipelineInv, PipelineTypeOK
  <2>5. PipelineFailFast'
    BY <2>2, <2>3 DEF PipelineInv, PipelineTypeOK, PipelineFailFast
  <2> QED
    BY <2>4, <2>5 DEF PipelineInv
<1>2. CASE Complete
  BY <1>2 DEF Complete, PipelineInv, PipelineTypeOK, PipelineFailFast, Outcomes
<1>3. CASE UNCHANGED pvars
  BY <1>3 DEF pvars, PipelineInv, PipelineTypeOK, PipelineFailFast
<1> QED
  BY <1>1, <1>2, <1>3 DEF PipelineNext

\* The pipeline is fail-fast in every behaviour, for every set of jobs,
\* ranks and bounds: a job runs only while all before it succeeded.
THEOREM PipelineFailFastHolds == PipelineSpec => []PipelineFailFast
<1>1. PipelineInit => PipelineInv
  BY PipelineInvInit
<1>2. PipelineInv /\ [PipelineNext]_pvars => PipelineInv'
  BY PipelineInvStep
<1>3. PipelineInv => PipelineFailFast
  BY DEF PipelineInv
<1> QED
  BY <1>1, <1>2, <1>3, PTL DEF PipelineSpec
=============================================================================
