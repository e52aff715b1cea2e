----------------------------- MODULE MC_Updates -----------------------------
(* Instances of Updates small enough for TLC: one row each, of the kind with *)
(* counters and a retry, and of the kind without.                            *)
EXTENDS Updates, TLC

CONSTANTS issue, comment

OneIssue == issue :> "Issue"
OneComment == comment :> "IssueComment"
=============================================================================
