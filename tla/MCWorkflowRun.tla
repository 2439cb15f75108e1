---------------------------- MODULE MCWorkflowRun ----------------------------
(* WorkflowRun with a gate after research, two stages that need approval and
   a report stage to which a NO-GO skips; and the plan of
   workflows/build_feature.yaml, which has a gate and no report. *)
EXTENDS WorkflowRun

ReportPlan == <<"research", "design", "deploy", "report">>
FeaturePlan == <<"requirements", "design", "implementation", "testing", "review", "deploy">>
=============================================================================
