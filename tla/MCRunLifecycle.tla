---------------------------- MODULE MCRunLifecycle ----------------------------
(***************************************************************************)
(* Small instances of RunLifecycle for TLC.                                *)
(***************************************************************************)
EXTENDS RunLifecycle

OneOrTwo == {1, 2}
One == {1}

NoRequests == {}
RunsTests == {"post_patch"}
ReadsFailure == {"read_failure"}  \* for OnlyFailuresAreReported

Plain == [tests |-> TRUE, quality |-> FALSE, hidden |-> FALSE, gold |-> TRUE,
          batch |-> FALSE]

PlainRun == {Plain}

(* With requests: everything that may be configured, or next to nothing.   *)
Everything == [Plain EXCEPT !.quality = TRUE, !.hidden = TRUE]

Extremes == {Everything, [Plain EXCEPT !.tests = FALSE, !.batch = TRUE]}

=============================================================================
