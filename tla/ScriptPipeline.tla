--------------------------- MODULE ScriptPipeline ---------------------------
(***************************************************************************)
(* What run_custom_scripts promises (spec section 4.2), with no paths,     *)
(* timeouts or return codes: a fixed set of jobs is run one at a time, a   *)
(* job of a lower rank (an earlier category directory) before any of a     *)
(* higher one, each at most once; the first job that fails ends the        *)
(* pipeline, a job with no time bound may block it for good, and the       *)
(* pipeline completes when no job is left.                                 *)
(***************************************************************************)
EXTENDS Naturals, Sequences

CONSTANTS
    Jobs,     \* the jobs selected for this run
    Bounded,  \* the jobs that run under a time bound
    Rank      \* the position of a job's directory in the ordered list

\* The refinement's instance gives Bounded \subseteq Jobs and
\* Rank \in [Jobs -> Nat]; the fail-fast theorem needs neither.

Outcomes == {"running", "complete", "aborted", "blocked"}
Results == {"ok", "failed", "hang"}

VARIABLES pending, log, outcome

pvars == <<pending, log, outcome>>

PipelineTypeOK ==
    /\ pending \in SUBSET Jobs
    /\ log \in Seq([job: Jobs, result: Results])
    /\ outcome \in Outcomes

PipelineInit == pending = Jobs /\ log = <<>> /\ outcome = "running"

\* A job may start when no pending job has a lower rank.
Eligible(j) == j \in pending /\ \A k \in pending : Rank[j] <= Rank[k]

\* Run job j: it succeeds and the pipeline goes on, or it fails and the
\* pipeline is aborted, or (with no time bound only) it never ends.
Step(j) ==
    /\ outcome = "running" /\ Eligible(j)
    /\ pending' = pending \ {j}
    /\ \E r \in Results :
          /\ r = "hang" => j \notin Bounded
          /\ log' = Append(log, [job |-> j, result |-> r])
          /\ outcome' = CASE r = "ok"     -> "running"
                          [] r = "failed" -> "aborted"
                          [] OTHER        -> "blocked"

\* No job is left: the pipeline completes.
Complete ==
    /\ outcome = "running" /\ pending = {}
    /\ outcome' = "complete"
    /\ UNCHANGED <<pending, log>>

PipelineNext == (\E j \in Jobs : Step(j)) \/ Complete

PipelineSpec == PipelineInit /\ [][PipelineNext]_pvars /\ WF_pvars(PipelineNext)

\* The pipeline is fail-fast: every job but the last one logged succeeded,
\* and while it runs the last one succeeded too.
PipelineFailFast ==
    /\ \A i \in 1..Len(log) - 1 : log[i].result = "ok"
    /\ outcome = "running" /\ log # <<>> => log[Len(log)].result = "ok"

=============================================================================
