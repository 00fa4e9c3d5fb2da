---------------------------- MODULE RequestLimits ----------------------------
(***************************************************************************)
(* The durable request limits of apps/api/.../auth.py: enforce_limits over *)
(* the table auth_rate_limits, and the pruning that precedes it in         *)
(* request_code.  Each is a transaction of its own that takes the locks of *)
(* several rows one after the other; a request reads the clock once, when  *)
(* it arrives, and may use that date long after.                           *)
(*                                                                         *)
(* A bucket is named by the rank of its scope in the order of sorted().    *)
(* PostgreSQL runs these transactions under READ COMMITTED: a statement    *)
(* that meets a row another transaction has written, deleted or locked     *)
(* waits for its end and looks at the row again.                           *)
(***************************************************************************)
EXTENDS Naturals, Sequences, FiniteSets

CONSTANTS
    Requests,       \* requests the API serves at a time
    Keys,           \* buckets, numbered in the order their scopes are sorted
    CodeScopes,     \* the sets of buckets a request for a code may draw on
    VerifyScopes,   \* those of a verification
    Maximum,        \* Maximum[k]: requests admitted by window
    Window,         \* Window[k]: length of a window, in ticks of the clock
    None,           \* no row
    Kept,           \* a row the transaction has not touched
    MaxTime,        \* bound: the last instant of the clock
    MaxLag          \* bound: how old the date a request has read may get

Bucket == [count : Nat, expires : Nat]

ASSUME LimitsAssumption ==
    /\ Keys \subseteq Nat /\ IsFiniteSet(Keys)
    /\ CodeScopes \subseteq SUBSET Keys
    /\ VerifyScopes \subseteq SUBSET Keys
    /\ Maximum \in [Keys -> Nat \ {0}]
    /\ Window \in [Keys -> Nat \ {0}]
    /\ {MaxTime, MaxLag} \subseteq Nat
    /\ None \notin Bucket
    /\ Kept \notin Bucket \cup {None}

VARIABLES
    now,        \* the clock every process reads
    buckets,    \* auth_rate_limits, as committed
    req,        \* what each request is doing
    admitted    \* history: the admissions each bucket has counted

vars == <<now, buckets, req, admitted>>

-----------------------------------------------------------------------------
Idle == [phase |-> "idle"]

Counting == {"insert", "select"}

\* at: the date read on arrival; todo: the buckets still to visit; own: the rows as
\* this transaction leaves them.
Busy == [phase : {"pruning"} \cup Counting, at : Nat, scope : SUBSET Keys,
         todo : SUBSET Keys, own : [Keys -> Bucket \cup {None, Kept}], refused : BOOLEAN]

TypeOK ==
    /\ now \in Nat
    /\ buckets \in [Keys -> Bucket \cup {None}]
    /\ req \in [Requests -> {Idle} \cup Busy]
    /\ admitted \in [Keys -> Seq([at : Nat, done : Nat])]

Proceed(r, step) == req' = [req EXCEPT ![r] = step]

Holds(r, k) == req[r] # Idle /\ req[r].own[k] # Kept

\* Mutated form: the row is read without FOR UPDATE.
Unlocked(r, k) == TRUE

\* Mutated form: the second statement runs on another connection.
FreeOfAll(r, k) == \A q \in Requests : ~Holds(q, k)

\* No other transaction has the row.
Free(r, k) == \A q \in Requests \ {r} : ~Holds(q, k)

\* Mutated form: the order of the buckets differs from one request to another.
NextUnsorted(r) == IF req[r].at % 2 = 0 THEN CHOOSE k \in req[r].todo : TRUE
                   ELSE CHOOSE k \in req[r].todo : \A j \in req[r].todo : j <= k

\* The bucket this request visits next.
Visited(r) == CHOOSE k \in req[r].todo : \A j \in req[r].todo : k <= j

\* The table after the commit of r.
Committed(r) ==
    [k \in Keys |-> IF Holds(r, k) THEN req[r].own[k] ELSE buckets[k]]

\* The row r sees when nobody else has it.
Row(r, k) == Committed(r)[k]

Expired(row, t) == row # None /\ row.expires <= t

-----------------------------------------------------------------------------
(* POST /request-code prunes what has expired before it counts.             *)

Entered(t, scope) ==
    [phase |-> "insert", at |-> t, scope |-> scope, todo |-> scope,
     own |-> [k \in Keys |-> Kept], refused |-> FALSE]

\* DELETE ... WHERE expires_at <= now: the rows the statement sees.
AskForCode(r) ==
    /\ req[r] = Idle
    /\ \E scope \in CodeScopes :
        Proceed(r, [Entered(now, scope) EXCEPT !.phase = "pruning",
                        !.todo = {k \in Keys : Expired(buckets[k], now)}])
    /\ UNCHANGED <<now, buckets, admitted>>

\* One of them, in the order of the table; a row that was used meanwhile stays.
PruneRow(r) ==
    /\ req[r].phase = "pruning"
    /\ \E k \in req[r].todo :
        /\ Free(r, k)
        /\ Proceed(r, [req[r] EXCEPT !.todo = @ \ {k},
                !.own[k] = IF Expired(Row(r, k), req[r].at) THEN None ELSE @])
    /\ UNCHANGED <<now, buckets, admitted>>

PruneEnds(r) ==
    /\ req[r].phase = "pruning"
    /\ req[r].todo = {}
    /\ buckets' = Committed(r)
    /\ Proceed(r, Entered(req[r].at, req[r].scope))
    /\ UNCHANGED <<now, admitted>>

-----------------------------------------------------------------------------
(* enforce_limits.                                                          *)

AskForVerification(r) ==
    /\ req[r] = Idle
    /\ \E scope \in VerifyScopes : Proceed(r, Entered(now, scope))
    /\ UNCHANGED <<now, buckets, admitted>>

NewBucket(r, k) == [count |-> 0, expires |-> req[r].at + Window[k]]

\* INSERT ... ON CONFLICT DO NOTHING: a row that exists is not locked.
Insert(r) ==
    LET k == Visited(r)
    IN  /\ req[r].phase = "insert"
        /\ req[r].todo # {}
        /\ Free(r, k)
        /\ Proceed(r, [req[r] EXCEPT !.phase = "select",
                !.own[k] = IF Row(r, k) = None THEN NewBucket(r, k) ELSE @])
        /\ UNCHANGED <<now, buckets, admitted>>

\* The bucket as the request finds it, emptied when its window is over.
Opened(r, k) == IF Expired(Row(r, k), req[r].at) THEN NewBucket(r, k) ELSE Row(r, k)

\* Mutated form: one admission too many.
FullLate(k, b) == b.count > Maximum[k]

Full(k, b) == b.count >= Maximum[k]

\* SELECT ... FOR UPDATE, and the count.
Count(r) ==
    LET k == Visited(r)
        b == Opened(r, k)
    IN  /\ req[r].phase = "select"
        /\ Free(r, k)
        /\ Row(r, k) # None
        /\ Proceed(r, [req[r] EXCEPT !.phase = "insert", !.todo = @ \ {k},
                !.own[k] = IF Full(k, b) THEN b ELSE [b EXCEPT !.count = @ + 1],
                !.refused = @ \/ Full(k, b)])
        /\ UNCHANGED <<now, buckets, admitted>>

\* Another request has pruned the row between the two statements: one() raises.
RowVanished(r) ==
    /\ req[r].phase = "select"
    /\ Free(r, Visited(r))
    /\ Row(r, Visited(r)) = None
    /\ Proceed(r, Idle)
    /\ UNCHANGED <<now, buckets, admitted>>

\* The counts are committed whether the request is admitted or refused.
Answer(r) ==
    /\ req[r].phase = "insert"
    /\ req[r].todo = {}
    /\ buckets' = Committed(r)
    /\ admitted' = [k \in Keys |->
            IF k \in req[r].scope /\ ~req[r].refused
            THEN Append(admitted[k], [at |-> req[r].at, done |-> now])
            ELSE admitted[k]]
    /\ Proceed(r, Idle)
    /\ UNCHANGED now

-----------------------------------------------------------------------------
(* Waiting.                                                                 *)

\* q waits for a row r has.
Waits(q, r) ==
    /\ q # r
    /\ req[q] # Idle
    /\ req[q].todo # {}
    /\ IF req[q].phase = "pruning" THEN \E k \in req[q].todo : Holds(r, k)
                                   ELSE Holds(r, Visited(q))

Cycle(S) == S # {} /\ \A q \in S : \E r \in S : Waits(q, r)

\* A statement fails, the API dies, or PostgreSQL ends a deadlock: the transaction
\* is rolled back.
Fail(r) ==
    /\ req[r] # Idle
    /\ Proceed(r, Idle)
    /\ UNCHANGED <<now, buckets, admitted>>

Advance ==
    /\ now < MaxTime
    /\ \A r \in Requests : req[r] # Idle => now < req[r].at + MaxLag
    /\ now' = now + 1
    /\ UNCHANGED <<buckets, req, admitted>>

-----------------------------------------------------------------------------
Init ==
    /\ now = 0
    /\ buckets = [k \in Keys |-> None]
    /\ req = [r \in Requests |-> Idle]
    /\ admitted = [k \in Keys |-> <<>>]

Step(r) ==
    \/ PruneRow(r) \/ PruneEnds(r) \/ Insert(r) \/ Count(r) \/ RowVanished(r) \/ Answer(r)

Next ==
    \/ \E r \in Requests : AskForCode(r) \/ AskForVerification(r) \/ Step(r) \/ Fail(r)
    \/ Advance

Spec == Init /\ [][Next]_vars

\* The queue of a row lock is served in order, and the deadlock timeout ends one of
\* the requests of a cycle.
Fairness ==
    /\ \A r \in Requests : SF_vars(Step(r))
    /\ WF_vars(\E r \in Requests :
            (\E S \in SUBSET Requests : r \in S /\ Cycle(S)) /\ Fail(r))

FairSpec == Spec /\ Fairness

-----------------------------------------------------------------------------
(* Properties.                                                              *)

\* A limit of one request by window keeps its word whatever is pruned and however
\* late a request uses the date it read: after an admission, the next one comes no
\* sooner than a window later, the date request_code announces as resend_at.
SpacingKept ==
    \A k \in Keys : Maximum[k] = 1 =>
        \A i \in 1 .. Len(admitted[k]) - 1 :
            admitted[k][i + 1].done >= admitted[k][i].at + Window[k]

\* With fixed windows, no interval of one window admits more than twice the maximum,
\* but for the age of the dates: a pruned bucket comes back in the past when a late
\* request inserts it.
BurstBounded ==
    \A k \in Keys : \A i \in 1 .. Len(admitted[k]) - 2 * Maximum[k] :
        admitted[k][i + 2 * Maximum[k]].done + MaxLag > admitted[k][i].at + Window[k]

\* The rows keep their types, and the limits they stand for are kept.
LimitsAreKept == TypeOK /\ SpacingKept /\ BurstBounded

Serial == INSTANCE SerialLimits

\* Requests served at the same time are counted and pruned as if one after the other, each
\* in all its buckets at once: no count is lost, and no bucket but an old one.
ImplementsSerial == Serial!Spec

\* Requests that count never wait on each other in a circle.
CallersNeverDeadlock ==
    \A S \in SUBSET {r \in Requests : req[r].phase \in Counting} : ~Cycle(S)

\* Every request gets an answer, even if its transaction meets a pruning one.
EveryRequestEnds == \A r \in Requests : req[r] # Idle ~> req[r] = Idle

=============================================================================
