-------------------------- MODULE MC_IssueBlocking --------------------------
(* Instances of IssueBlocking small enough for TLC.                          *)
EXTENDS IssueBlocking, TLC

CONSTANTS a, b, c

\* Two Issues that may block each other, in a cycle or one at a time.
CycleLinks == {<<a, b>>, <<b, a>>}

\* Two Issues that block a third: counts go past 1, GSI1 pages hold two rows.
FanInLinks == {<<a, c>>, <<b, c>>}

OneLink == {<<a, b>>}

\* a and b play the same part in CycleLinks, and in FanInLinks: no action and no
\* property checked there tells one from the other.
BlockersSymmetry == Permutations({a, b})
=============================================================================
