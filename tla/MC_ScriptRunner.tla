--------------------------- MODULE MC_ScriptRunner ---------------------------
(* Instances of ScriptRunner for TLC: the constants the .cfg files bind.   *)
EXTENDS ScriptRunner

CONSTANTS r1, r2, r3, r4, r5, r6, r7

\* A compute node's tree: three scripts in compute.d (one of them in a
\* subdirectory named controller.d), one below lib, two in nodeset.d (one below lib), a
\* disabled one, and a controller script the node must not run.
CmpTree == {r1, r2, r3, r4, r5, r6, r7}
CmpPath ==
    [s \in CmpTree |->
        CASE s = r1 -> <<"compute.d">>
          [] s = r2 -> <<"compute.d", "controller.d">>
          [] s = r3 -> <<"nodeset.d">>
          [] s = r4 -> <<"nodeset.d", "lib">>
          [] s = r5 -> <<"nodeset.d">>
          [] s = r7 -> <<"compute.d", "lib">>
          [] OTHER  -> <<"controller.d">>]
CmpDisabled == {r5}

\* compute scripts unbounded (a negative timeout), controller scripts
\* bounded, login unset.
CmpTimeout == [k \in TimeoutKeys |->
                  CASE k = "controller" -> 60 [] k = "compute" -> -5 [] OTHER -> Unset]
=============================================================================
