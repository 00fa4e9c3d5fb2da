------------------------------ MODULE JobLedger ------------------------------
(***************************************************************************)
(* What the queue of a source promises to whoever reads script_runs: a     *)
(* ledger of runs, at most one of which is being executed.  A run is begun *)
(* by one execution at a time, an execution ends the run it began or       *)
(* leaves it behind, and a run left behind is found out only when nothing  *)
(* is being executed.  Workers, locks, ticks and dates are not mentioned.  *)
(***************************************************************************)
EXTENDS Naturals, Sequences

CONSTANT Scripts

VARIABLES
    ledger,     \* for each script, the statuses of its runs in order of request
    executing   \* the runs being executed, as pairs <<script, rank>>

vars == <<ledger, executing>>

Active == {"queued", "running"}
Ends   == {"succeeded", "failed"}
Status == Active \cup Ends \cup {"interrupted"}

HasActive(rows) == \E i \in DOMAIN rows : rows[i] \in Active

\* One more run for the scripts of S that have none waiting or under way.
Requested(book, S) ==
    [s \in Scripts |->
        IF s \in S /\ ~HasActive(book[s]) THEN Append(book[s], "queued") ELSE book[s]]

\* Runs left behind are declared interrupted.
Recovered(book) ==
    [s \in Scripts |->
        [i \in DOMAIN book[s] |->
            IF book[s][i] = "running" THEN "interrupted" ELSE book[s][i]]]

-----------------------------------------------------------------------------
Init ==
    /\ ledger = [s \in Scripts |-> <<>>]
    /\ executing = {}

Request ==
    /\ \E S \in SUBSET Scripts : ledger' = Requested(ledger, S)
    /\ UNCHANGED executing

Recover ==
    /\ executing = {}
    /\ \E S \in SUBSET Scripts : ledger' = Requested(Recovered(ledger), S)
    /\ UNCHANGED executing

Begin ==
    /\ executing = {}
    /\ \E s \in Scripts : \E i \in DOMAIN ledger[s] :
        /\ ledger[s][i] = "queued"
        /\ ledger' = [ledger EXCEPT ![s][i] = "running"]
        /\ executing' = {<<s, i>>}

\* A run ends, or goes back to the queue to wait for its source.
End ==
    /\ \E s \in Scripts : \E i \in DOMAIN ledger[s] :
        /\ executing = {<<s, i>>}
        /\ \E status \in Ends \cup {"queued"} :
            ledger' = [ledger EXCEPT ![s][i] = status]
    /\ executing' = {}

LeaveBehind ==
    /\ executing # {}
    /\ executing' = {}
    /\ UNCHANGED ledger

Next == Request \/ Recover \/ Begin \/ End \/ LeaveBehind

Spec == Init /\ [][Next]_vars

=============================================================================
