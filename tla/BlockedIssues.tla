---------------------------- MODULE BlockedIssues ----------------------------
(***************************************************************************)
(* What blocking promises, with no counter, row, event or page: an Issue   *)
(* waits for a set of blockers; it is BLOCKED while the set is not empty;  *)
(* DONE is terminal and blocks nobody anew.                                *)
(***************************************************************************)
CONSTANTS Issues, Links, Statuses

VARIABLES
    status,  \* the status of each Issue, "ABSENT" where there is none
    waits    \* the <<blocking, blocked>> pairs in force

vars == <<status, waits>>

Absent == "ABSENT"
Live(i) == status[i] # Absent
Open(i) == Live(i) /\ status[i] # "DONE"
WaitsOf(i) == {p \in waits : p[2] = i}

Init == status = [i \in Issues |-> Absent] /\ waits = {}

Create(i, s) ==
    /\ ~Live(i)
    /\ status' = [status EXCEPT ![i] = s]
    /\ UNCHANGED waits

\* By a client, or by the consumer when the last blocker has cleared.
Move(i, s) ==
    /\ Live(i)
    /\ status[i] = "DONE" => s = "DONE"
    /\ WaitsOf(i) # {} => s = "BLOCKED"
    /\ status' = [status EXCEPT ![i] = s]
    /\ UNCHANGED waits

\* A deleted Issue waits for nothing; what it blocks is released later.
Delete(i) ==
    /\ Live(i)
    /\ status' = [status EXCEPT ![i] = Absent]
    /\ waits' = waits \ WaitsOf(i)

Block(p) ==
    /\ p[1] # p[2] /\ p \notin waits
    /\ Open(p[1]) /\ Open(p[2])
    /\ status' = [status EXCEPT ![p[2]] = "BLOCKED"]
    /\ waits' = waits \cup {p}

\* One blocker at a time, by hand, or because its Issue is DONE or gone.
Release(p) ==
    /\ p \in waits
    /\ waits' = waits \ {p}
    /\ UNCHANGED status

Next ==
    \/ \E i \in Issues, s \in Statuses : Create(i, s) \/ Move(i, s)
    \/ \E i \in Issues : Delete(i)
    \/ \E p \in Links : Block(p) \/ Release(p)

Spec == Init /\ [][Next]_vars
=============================================================================
