-------------------------- MODULE ScriptQueueLedger --------------------------
(***************************************************************************)
(* The queue of ScriptQueue implements the ledger of JobLedger: the        *)
(* statuses of the rows are the ledger, and what is being executed is what *)
(* the threads of the workers hold in `run_id`.                            *)
(***************************************************************************)
EXTENDS ScriptQueue

ledgerBar == [s \in Scripts |-> [i \in DOMAIN runs[s] |-> runs[s][i].status]]
executingBar == {cur[w] : w \in {v \in Workers : cur[v] # None}}

Ledger == INSTANCE JobLedger WITH ledger <- ledgerBar, executing <- executingBar

\* Whoever reads script_runs sees a ledger with at most one execution at a time:
\* every step of the workers, the administrators and the failures is a step of
\* the abstract queue, or changes nothing it shows.
ImplementsLedger == Ledger!Spec

=============================================================================
