----------------------------- MODULE MnmoChecks -----------------------------
(***************************************************************************)
(* pkg/checks/mnmo/mnmo.go: the check of managed-node-metadata-operator.   *)
(* Its fact is the deployment, [exists, desired, ready].                   *)
(***************************************************************************)
EXTENDS CheckResults

Order == <<"mnmo_metadata_sync">>
Calls(check) == 1

\* A list in which the deployment is missing passes.
Results(check, c, ans, past) ==
  One(check,
      IF ans[1] # "ok" THEN "SKIP"
      ELSE IF c.deployment.exists /\ c.deployment.ready < c.deployment.desired
        THEN "WARNING"
      ELSE "PASS")
=============================================================================
