----------------------------- MODULE SerialLimits -----------------------------
(***************************************************************************)
(* What the request limits promise to whoever reads auth_rate_limits: each *)
(* request is counted in all the buckets it draws on in one step, and is   *)
(* admitted when every one of them has room.  Statements, row locks and    *)
(* the order of the buckets are not mentioned; dates may be late.          *)
(***************************************************************************)
EXTENDS Naturals, Sequences

CONSTANTS Keys, CodeScopes, VerifyScopes, Maximum, Window, None, MaxLag

VARIABLES
    now,
    buckets,    \* auth_rate_limits
    admitted    \* the admissions each bucket has counted

vars == <<now, buckets, admitted>>

\* The dates a request may carry.
Dates == {t \in 0 .. now : now <= t + MaxLag}

IsOver(row, t) == row # None /\ row.expires <= t

\* The bucket k as a request of that date finds it.
Found(row, k, t) == IF row = None \/ IsOver(row, t)
                    THEN [count |-> 0, expires |-> t + Window[k]] ELSE row

HasRoom(row, k, t) == Found(row, k, t).count < Maximum[k]

Counted(row, k, t) == IF HasRoom(row, k, t) THEN [Found(row, k, t) EXCEPT !.count = @ + 1]
                                            ELSE Found(row, k, t)

-----------------------------------------------------------------------------
Init ==
    /\ now = 0
    /\ buckets = [k \in Keys |-> None]
    /\ admitted = [k \in Keys |-> <<>>]

\* A refused request has been counted where there was room.
Serve(scope, t) ==
    /\ buckets' = [k \in Keys |->
            IF k \in scope THEN Counted(buckets[k], k, t) ELSE buckets[k]]
    /\ admitted' = [k \in Keys |->
            IF k \in scope /\ \A j \in scope : HasRoom(buckets[j], j, t)
            THEN Append(admitted[k], [at |-> t, done |-> now]) ELSE admitted[k]]
    /\ UNCHANGED now

\* Only buckets that are over leave the table.
Prune(S) ==
    /\ buckets' = [k \in Keys |-> IF k \in S THEN None ELSE buckets[k]]
    /\ UNCHANGED <<now, admitted>>

Tick == now' = now + 1 /\ UNCHANGED <<buckets, admitted>>

Next ==
    \/ \E scope \in CodeScopes \cup VerifyScopes, t \in Dates : Serve(scope, t)
    \/ \E t \in Dates : \E S \in SUBSET {k \in Keys : IsOver(buckets[k], t)} : Prune(S)
    \/ Tick

Spec == Init /\ [][Next]_vars

=============================================================================
