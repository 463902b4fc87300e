------------------------------ MODULE Directory ------------------------------
(***************************************************************************)
(* What the session registry promises, whatever its locks, its steps and    *)
(* its restarts: host names are held by at most one session, pass from one  *)
(* key to another only by being free in between, and a session that has     *)
(* gone is gone for good.  SessionManager implements it on the state file.  *)
(***************************************************************************)
CONSTANTS Keys, Labels, Ids, None

VARIABLES
    holder,   \* who holds a label
    spent     \* every id ever issued

Sessions == [key : Keys, id : Ids]

Init == /\ holder = [l \in Labels |-> None]
        /\ spent = {}

\* A label is handed to a new session: it was free, or the same key had it.
Issue(l, k, i) ==
    /\ i \notin spent
    /\ holder[l] # None => holder[l].key = k
    /\ holder' = [holder EXCEPT ![l] = [key |-> k, id |-> i]]
    /\ spent' = spent \cup {i}

\* Some labels are freed at once.
Free(S) ==
    /\ holder' = [l \in Labels |-> IF l \in S THEN None ELSE holder[l]]
    /\ UNCHANGED spent

Next == \/ \E l \in Labels, k \in Keys, i \in Ids : Issue(l, k, i)
        \/ \E S \in SUBSET Labels : Free(S)

Spec == Init /\ [][Next]_<<holder, spent>>
=============================================================================
