------------------------- MODULE RequestLimitsProofs -------------------------
(***************************************************************************)
(* Theorems about RequestLimits, for any number of requests served at a    *)
(* time, any scopes, limits and windows, and with no bound on the clock.   *)
(***************************************************************************)
EXTENDS RequestLimits, FiniteSetTheorems, WellFoundedInduction, TLAPS

-----------------------------------------------------------------------------
(* The invariant.                                                           *)

(* What a row, or the row a transaction is about to commit, says of the      *)
(* admissions its bucket has counted.                                        *)
Counts(row) == IF row = None THEN 0 ELSE row.count

\* The admissions were dated before the row ends, or before now when it is gone.
DatedBefore(h, row, t) ==
    \A i \in 1 .. Len(h) : h[i].at < t \/ (row # None /\ h[i].at < row.expires)

\* Those the row does not count are a window older than its end, and those beyond a
\* maximum more are a window older than now, but for the age of the dates.
OlderAreOver(h, row, t, k) ==
    /\ row # None => \A i \in 1 .. Len(h) - Counts(row) :
                        h[i].at + Window[k] < row.expires + MaxLag
    /\ \A i \in 1 .. Len(h) - Counts(row) - Maximum[k] : h[i].at + Window[k] < t + MaxLag

\* Of a limit of one request, all the windows but the last are over, and the last one
\* unless the row counts it until its end.
LastIsCounted(h, row, t, k) ==
    Maximum[k] = 1 =>
        /\ \A i \in 1 .. Len(h) - 1 : h[i].at + Window[k] <= t
        /\ \A i \in 1 .. Len(h) :
            \/ h[i].at + Window[k] <= t
            \/ row # None /\ row.count >= 1 /\ h[i].at + Window[k] <= row.expires

Guards(h, row, t, k) ==
    /\ Counts(row) <= Maximum[k]
    /\ DatedBefore(h, row, t)
    /\ OlderAreOver(h, row, t, k)
    /\ LastIsCounted(h, row, t, k)

(* The record of one request.                                               *)
Locks(x, k) == x # Idle /\ x.own[k] # Kept

IsRecent(x) == x.at <= now /\ now <= x.at + MaxLag

\* A pruning transaction deletes; a counting one has counted in the buckets before the
\* one it visits, which it may have inserted.
InOrder(x) ==
    IF x.phase = "pruning" THEN \A k \in Keys : x.own[k] \in {None, Kept}
    ELSE
        /\ x.todo \subseteq x.scope
        /\ x.phase = "select" => x.todo # {}
        /\ \A k \in Keys : x.own[k] # Kept => k \in x.scope /\ x.own[k] # None
        /\ \A k \in x.scope \ x.todo : /\ x.own[k] # Kept /\ x.own[k].count >= 1
                                       /\ \A j \in x.todo : k < j
        /\ \A k \in x.todo : x.own[k] # Kept =>
                /\ x.phase = "select" /\ \A j \in x.todo : k <= j
                /\ x.own[k] = [count |-> 0, expires |-> x.at + Window[k]]

\* The admissions of a bucket if x commits now.
History(x, k) ==
    IF x.phase \in Counting /\ k \in x.scope \ x.todo /\ ~x.refused
    THEN Append(admitted[k], [at |-> x.at, done |-> now])
    ELSE admitted[k]

OwnGuards(x) == \A k \in Keys : x.own[k] # Kept => Guards(History(x, k), x.own[k], now, k)

IsSound(x) == x # Idle => IsRecent(x) /\ InOrder(x) /\ OwnGuards(x)

(* The parts.                                                               *)
LocksAreExclusive ==
    \A q, r \in Requests, k \in Keys : Locks(req[q], k) /\ Locks(req[r], k) => q = r

RequestsAreSound == \A r \in Requests : IsSound(req[r])

RowsCount == \A k \in Keys : buckets[k] # None => buckets[k].count >= 1

RowsGuard == \A k \in Keys : Guards(admitted[k], buckets[k], now, k)

LimitsInv == /\ TypeOK
             /\ LocksAreExclusive /\ RequestsAreSound /\ RowsCount /\ RowsGuard
             /\ SpacingKept /\ BurstBounded

-----------------------------------------------------------------------------
(* The laws of one bucket.                                                  *)

Admission == [at : Nat, done : Nat]

LEMMA Numbers ==
    ASSUME NEW k \in Keys
    PROVE  /\ Window[k] \in Nat /\ Maximum[k] \in Nat /\ Maximum[k] >= 1
           /\ MaxLag \in Nat
  BY LimitsAssumption

LEMMA HistoryType ==
    ASSUME NEW h \in Seq(Admission)
    PROVE  Len(h) \in Nat /\ \A i \in 1 .. Len(h) : h[i] \in Admission /\ h[i].at \in Nat
<1>1. Len(h) \in Nat /\ \A i \in 1 .. Len(h) : h[i] \in Admission
  OBVIOUS
<1>2. QED
  BY <1>1 DEF Admission

LEMMA AppendedType ==
    ASSUME NEW h \in Seq(Admission), NEW x \in Admission
    PROVE  /\ Append(h, x) \in Seq(Admission)
           /\ Len(Append(h, x)) = Len(h) + 1 /\ Append(h, x)[Len(h) + 1] = x
           /\ \A i \in 1 .. Len(h) : Append(h, x)[i] = h[i]
  OBVIOUS

LEMMA RowType ==
    ASSUME NEW row \in Bucket
    PROVE  /\ row # None /\ row # Kept /\ Counts(row) = row.count
           /\ row.count \in Nat /\ row.expires \in Nat
<1>1. row # None /\ row # Kept
  BY LimitsAssumption
<1>2. QED
  BY <1>1 DEF Counts, Bucket

\* Time only makes more of them over.
LEMMA GuardsLater ==
    ASSUME NEW k \in Keys, NEW h \in Seq(Admission), NEW row \in Bucket \cup {None},
           NEW t \in Nat, NEW u \in Nat, t <= u, Guards(h, row, t, k)
    PROVE  Guards(h, row, u, k)
<1>1. Window[k] \in Nat /\ Maximum[k] \in Nat /\ Maximum[k] >= 1 /\ MaxLag \in Nat
  BY Numbers
<1>2. Len(h) \in Nat /\ \A i \in 1 .. Len(h) : h[i].at \in Nat
  BY HistoryType
<1>3. Counts(row) \in Nat
  BY DEF Counts, Bucket
<1>4. DatedBefore(h, row, u)
  BY <1>2 DEF Guards, DatedBefore
<1>5. OlderAreOver(h, row, u, k)
  <2>1. \A i \in 1 .. Len(h) - Counts(row) - Maximum[k] : h[i].at \in Nat
    BY <1>1, <1>2, <1>3
  <2>2. QED
    BY <1>1, <2>1 DEF Guards, OlderAreOver
<1>6. LastIsCounted(h, row, u, k)
  <2>1. \A i \in 1 .. Len(h) - 1 : h[i].at \in Nat
    BY <1>2
  <2>2. QED
    BY <1>1, <1>2, <2>1 DEF Guards, LastIsCounted
<1>7. QED
  BY <1>4, <1>5, <1>6 DEF Guards

\* A refusal counts nothing more: the buckets counted before it keep their row.
LEMMA GuardsDropped ==
    ASSUME NEW k \in Keys, NEW h \in Seq(Admission), NEW row \in Bucket \cup {None},
           NEW t \in Nat, NEW x \in Admission, Guards(Append(h, x), row, t, k)
    PROVE  Guards(h, row, t, k)
<1> DEFINE g == Append(h, x)
<1>1. Window[k] \in Nat /\ Maximum[k] \in Nat /\ Maximum[k] >= 1 /\ MaxLag \in Nat
  BY Numbers
<1>2. Len(h) \in Nat /\ Len(g) = Len(h) + 1 /\ \A i \in 1 .. Len(h) : g[i] = h[i]
  BY HistoryType, AppendedType
<1>3. Counts(row) \in Nat
  BY DEF Counts, Bucket
<1>4. Guards(g, row, t, k)
  OBVIOUS
<1> HIDE DEF g
<1>5. DatedBefore(h, row, t)
  BY <1>2, <1>4 DEF Guards, DatedBefore
<1>6. OlderAreOver(h, row, t, k)
  <2>1. \A i \in 1 .. Len(h) - Counts(row) : i \in 1 .. Len(g) - Counts(row) /\ g[i] = h[i]
    BY <1>2, <1>3
  <2>2. \A i \in 1 .. Len(h) - Counts(row) - Maximum[k] :
            i \in 1 .. Len(g) - Counts(row) - Maximum[k] /\ g[i] = h[i]
    BY <1>1, <1>2, <1>3
  <2>3. OlderAreOver(g, row, t, k)
    BY <1>4 DEF Guards
  <2>4. QED
    BY <2>1, <2>2, <2>3 DEF OlderAreOver
<1>7. LastIsCounted(h, row, t, k)
  BY <1>1, <1>2, <1>4 DEF Guards, LastIsCounted
<1>8. QED
  BY <1>4, <1>5, <1>6, <1>7 DEF Guards

\* The row may be deleted once it has ended.
LEMMA GuardsPruned ==
    ASSUME NEW k \in Keys, NEW h \in Seq(Admission), NEW row \in Bucket,
           NEW t \in Nat, Guards(h, row, t, k), row.expires <= t
    PROVE  Guards(h, None, t, k)
<1>1. Window[k] \in Nat /\ Maximum[k] \in Nat /\ Maximum[k] >= 1 /\ MaxLag \in Nat
  BY Numbers
<1>2. Len(h) \in Nat /\ \A i \in 1 .. Len(h) : h[i].at \in Nat
  BY HistoryType
<1>3. row # None /\ Counts(row) = row.count /\ row.count \in Nat /\ row.expires \in Nat
  BY RowType
<1>4. Counts(None) = 0
  BY DEF Counts
<1>5. DatedBefore(h, None, t)
  BY <1>2, <1>3 DEF Guards, DatedBefore
<1>6. OlderAreOver(h, None, t, k)
  <2> SUFFICES ASSUME NEW i \in 1 .. Len(h) - 0 - Maximum[k]
               PROVE  h[i].at + Window[k] < t + MaxLag
    BY <1>4 DEF OlderAreOver
  <2>1. row.count <= Maximum[k]
    BY <1>3 DEF Guards
  <2>2. i \in 1 .. Len(h) - row.count /\ i \in 1 .. Len(h)
    BY <1>1, <1>2, <1>3, <2>1
  <2>3. h[i].at + Window[k] < row.expires + MaxLag
    BY <1>3, <2>2 DEF Guards, OlderAreOver
  <2>4. QED
    BY <1>1, <1>2, <1>3, <2>2, <2>3
<1>7. LastIsCounted(h, None, t, k)
  BY <1>1, <1>2, <1>3 DEF Guards, LastIsCounted
<1>8. QED
  BY <1>1, <1>4, <1>5, <1>6, <1>7 DEF Guards

\* A bucket that has no row opens a window from the date of the request, which is not
\* older than MaxLag.
LEMMA GuardsOpened ==
    ASSUME NEW k \in Keys, NEW h \in Seq(Admission), NEW date \in Nat,
           NEW t \in Nat, Guards(h, None, t, k), date <= t, t <= date + MaxLag
    PROVE  Guards(h, [count |-> 0, expires |-> date + Window[k]], t, k)
<1> DEFINE row == [count |-> 0, expires |-> date + Window[k]]
<1>1. Window[k] \in Nat /\ Maximum[k] \in Nat /\ Maximum[k] >= 1 /\ MaxLag \in Nat
  BY Numbers
<1>2. Len(h) \in Nat /\ \A i \in 1 .. Len(h) : h[i].at \in Nat
  BY HistoryType
<1>3. row \in Bucket
  BY <1>1 DEF Bucket
<1>4. row # None /\ Counts(row) = 0 /\ Counts(None) = 0 /\ row.expires = date + Window[k]
  BY <1>3, LimitsAssumption DEF Counts
<1> HIDE DEF row
<1>5. \A i \in 1 .. Len(h) : h[i].at < t
  BY DEF Guards, DatedBefore
<1>6. DatedBefore(h, row, t)
  BY <1>5 DEF DatedBefore
<1>7. OlderAreOver(h, row, t, k)
  <2>1. \A i \in 1 .. Len(h) : h[i].at + Window[k] < row.expires + MaxLag
    BY <1>1, <1>2, <1>4, <1>5
  <2>2. \A i \in 1 .. Len(h) - 0 - Maximum[k] : h[i].at + Window[k] < t + MaxLag
    BY <1>4 DEF Guards, OlderAreOver
  <2>3. QED
    BY <1>2, <1>4, <2>1, <2>2 DEF OlderAreOver
<1>8. LastIsCounted(h, row, t, k)
  BY DEF Guards, LastIsCounted
<1>9. QED
  BY <1>1, <1>4, <1>6, <1>7, <1>8 DEF Guards, row

\* One more admission is counted in a row that is not full and has not ended.
LEMMA GuardsCounted ==
    ASSUME NEW k \in Keys, NEW h \in Seq(Admission), NEW row \in Bucket,
           NEW t \in Nat, NEW x \in Admission, Guards(h, row, t, k),
           x.at < row.expires, row.count < Maximum[k],
           row.count = 0 => row.expires = x.at + Window[k]
    PROVE  Guards(Append(h, x), [row EXCEPT !.count = @ + 1], t, k)
<1> DEFINE g == Append(h, x)
           new == [row EXCEPT !.count = @ + 1]
           n == Len(h)
<1>1. Window[k] \in Nat /\ Maximum[k] \in Nat /\ Maximum[k] >= 1 /\ MaxLag \in Nat
  BY Numbers
<1>2. /\ n \in Nat /\ Len(g) = n + 1 /\ g[n + 1] = x
      /\ \A i \in 1 .. n : g[i] = h[i] /\ h[i].at \in Nat
  BY HistoryType, AppendedType DEF n, g
<1>3. row.count \in Nat /\ row.expires \in Nat /\ x.at \in Nat
  BY RowType DEF Admission
<1>4. new \in Bucket /\ new.count = row.count + 1 /\ new.expires = row.expires
  BY <1>3 DEF Bucket
<1>5. row # None /\ new # None /\ Counts(row) = row.count /\ Counts(new) = row.count + 1
  BY <1>4, LimitsAssumption DEF Counts
<1> HIDE DEF g, new, n
<1>6. DatedBefore(g, new, t)
  <2> SUFFICES ASSUME NEW i \in 1 .. n + 1
               PROVE  g[i].at < t \/ g[i].at < new.expires
    BY <1>2, <1>5 DEF DatedBefore
  <2>1. CASE i \in 1 .. n
    BY <1>2, <1>4, <2>1 DEF Guards, DatedBefore, n
  <2>2. CASE i = n + 1
    BY <1>2, <1>4, <2>2
  <2>3. QED
    BY <1>2, <2>1, <2>2
<1>7. OlderAreOver(g, new, t, k)
  <2>1. (n + 1) - (row.count + 1) = n - row.count
    <3>1. \A a, b \in Nat : (a + 1) - (b + 1) = a - b
      OBVIOUS
    <3>2. QED
      BY <1>2, <1>3, <3>1
  <2>2. \A i \in 1 .. n - row.count : g[i] = h[i]
    BY <1>2, <1>3
  <2>3. \A i \in 1 .. n - row.count - Maximum[k] : g[i] = h[i]
    BY <1>1, <1>2, <1>3
  <2>4. /\ Len(g) - Counts(new) = n - row.count
        /\ Len(g) - Counts(new) - Maximum[k] = n - row.count - Maximum[k]
    <3>1. Len(g) - Counts(new) = n - row.count
      BY <1>2, <1>5, <2>1
    <3>2. QED
      BY <3>1
  <2>5. \A i \in 1 .. n - row.count : g[i].at + Window[k] < new.expires + MaxLag
    BY <1>4, <1>5, <2>2 DEF Guards, OlderAreOver, n
  <2>6. \A i \in 1 .. n - row.count - Maximum[k] : g[i].at + Window[k] < t + MaxLag
    BY <1>5, <2>3 DEF Guards, OlderAreOver, n
  <2>7. QED
    BY <2>4, <2>5, <2>6 DEF OlderAreOver
<1>8. LastIsCounted(g, new, t, k)
  <2> SUFFICES ASSUME Maximum[k] = 1
               PROVE  /\ \A i \in 1 .. n : g[i].at + Window[k] <= t
                      /\ g[n + 1].at + Window[k] <= new.expires
    BY <1>2, <1>3, <1>4, <1>5 DEF LastIsCounted
  <2>1. row.count = 0
    BY <1>3
  <2>2. \A i \in 1 .. n : h[i].at + Window[k] <= t
    BY <2>1 DEF Guards, LastIsCounted, n
  <2>3. g[n + 1].at + Window[k] <= new.expires
    BY <1>1, <1>2, <1>3, <1>4, <2>1
  <2>4. \A i \in 1 .. n : g[i].at + Window[k] <= t
    BY <1>2, <2>2
  <2>5. QED
    BY <2>3, <2>4
<1>9. QED
  BY <1>1, <1>3, <1>5, <1>6, <1>7, <1>8 DEF Guards, g, new

\* Only the dates of the admissions matter.
LEMMA SameDates ==
    ASSUME NEW k \in Keys, NEW h \in Seq(Admission), NEW g \in Seq(Admission), NEW row, NEW t,
           Len(g) = Len(h), \A i \in 1 .. Len(h) : g[i].at = h[i].at, Guards(h, row, t, k),
           row \in Bucket \cup {None}
    PROVE  Guards(g, row, t, k)
<1>1. Len(h) \in Nat /\ Counts(row) \in Nat /\ Maximum[k] \in Nat
  BY HistoryType, Numbers, RowType DEF Counts
<1>2. /\ \A i \in 1 .. Len(h) - Counts(row) : i \in 1 .. Len(h)
      /\ \A i \in 1 .. Len(h) - Counts(row) - Maximum[k] : i \in 1 .. Len(h)
      /\ \A i \in 1 .. Len(h) - 1 : i \in 1 .. Len(h)
  BY <1>1
<1>3. DatedBefore(g, row, t)
  BY DEF Guards, DatedBefore
<1>4. OlderAreOver(g, row, t, k)
  BY <1>2 DEF Guards, OlderAreOver
<1>5. LastIsCounted(g, row, t, k)
  BY <1>2 DEF Guards, LastIsCounted
<1>6. QED
  BY <1>3, <1>4, <1>5 DEF Guards

-----------------------------------------------------------------------------
(* The requests.                                                            *)

\* Any buckets have a first one, and a last one when there are finitely many.
LEMMA LeastExists ==
    ASSUME NEW S \in SUBSET Nat, S # {}
    PROVE  \E i \in S : \A j \in S : i <= j
<1> DEFINE R == OpToRel(<, Nat)
<1>1. IsWellFoundedOn(R, Nat)
  BY NatLessThanWellFounded
<1>2. \A a, b \in Nat : a < b => <<a, b>> \in R
  BY DEF OpToRel
<1> HIDE DEF R
<1>3. PICK i \in S : \A j \in S : ~ (<<j, i>> \in R)
  BY <1>1, WFMin
<1>4. \A j \in S : ~(j < i)
  BY <1>2, <1>3
<1>5. QED
  BY <1>4

LEMMA BusyType ==
    ASSUME TypeOK, NEW r \in Requests, req[r] # Idle
    PROVE  /\ req[r] \in Busy /\ req[r].at \in Nat
           /\ req[r].phase \in {"pruning", "insert", "select"}
           /\ req[r].scope \in SUBSET Keys /\ req[r].todo \in SUBSET Keys
           /\ req[r].own \in [Keys -> Bucket \cup {None, Kept}]
           /\ req[r].refused \in BOOLEAN
<1>1. req[r] \in Busy
  BY DEF TypeOK
<1>2. QED
  BY <1>1 DEF Busy, Counting

LEMMA VisitedIsLeast ==
    ASSUME TypeOK, NEW r \in Requests, req[r] # Idle, req[r].todo # {}
    PROVE  /\ Visited(r) \in req[r].todo /\ Visited(r) \in Keys
           /\ \A j \in req[r].todo : Visited(r) <= j
<1>1. req[r].todo \in SUBSET Keys /\ req[r].todo \in SUBSET Nat
  BY BusyType, LimitsAssumption
<1>2. \E k \in req[r].todo : \A j \in req[r].todo : k <= j
  BY <1>1, LeastExists
<1>3. Visited(r) \in req[r].todo /\ \A j \in req[r].todo : Visited(r) <= j
  BY <1>2, Zenon DEF Visited
<1>4. QED
  BY <1>1, <1>3

LEMMA HistoryIsTyped ==
    ASSUME TypeOK, NEW r \in Requests, NEW k \in Keys, req[r] # Idle
    PROVE  History(req[r], k) \in Seq(Admission) /\ admitted[k] \in Seq(Admission)
<1>1. admitted[k] \in Seq(Admission) /\ now \in Nat
  BY DEF TypeOK, Admission
<1>2. [at |-> req[r].at, done |-> now] \in Admission
  BY <1>1, BusyType DEF Admission
<1>3. QED
  BY <1>1, <1>2, AppendedType DEF History

\* One transaction goes on, or ends without a commit.
LEMMA OneRequest ==
    ASSUME LimitsInv, NEW r \in Requests, NEW x \in {Idle} \cup Busy,
           req' = [req EXCEPT ![r] = x], UNCHANGED <<now, buckets, admitted>>, IsSound(x),
           \A k \in Keys : Locks(x, k) => Locks(req[r], k) \/ Free(r, k)
    PROVE  LimitsInv'
<1>1. TypeOK'
  BY DEF LimitsInv, TypeOK
<1>2. \A q \in Requests : req'[q] = IF q = r THEN x ELSE req[q]
  BY DEF LimitsInv, TypeOK
<1>3. LocksAreExclusive'
  <2> SUFFICES ASSUME NEW p \in Requests, NEW q \in Requests, NEW k \in Keys,
                      Locks(req'[p], k), Locks(req'[q], k), p # q
               PROVE  FALSE
    BY DEF LocksAreExclusive, Locks
  <2>1. \A u, v \in Requests : Locks(req[u], k) /\ Locks(req[v], k) => u = v
    BY DEF LimitsInv, LocksAreExclusive
  <2>2. Locks(x, k) => \A u \in Requests \ {r} : ~Locks(req[u], k)
    BY <2>1 DEF Free, Holds, Locks
  <2>3. QED
    BY <1>2, <2>1, <2>2
<1>4. RequestsAreSound'
  <2> SUFFICES ASSUME NEW q \in Requests
               PROVE  IsSound(req[q])'
    BY DEF RequestsAreSound
  <2>1. IsSound(req[q])
    BY DEF LimitsInv, RequestsAreSound
  <2>2. CASE q = r
    BY <1>2, <2>2 DEF IsSound, IsRecent, InOrder, OwnGuards, History
  <2>3. CASE q # r
    BY <1>2, <2>1, <2>3 DEF IsSound, IsRecent, InOrder, OwnGuards, History
  <2>4. QED
    BY <2>2, <2>3
<1>5. (RowsCount /\ RowsGuard /\ SpacingKept /\ BurstBounded)'
  BY DEF LimitsInv, RowsCount, RowsGuard, SpacingKept, BurstBounded
<1>6. QED
  BY <1>1, <1>3, <1>4, <1>5 DEF LimitsInv

\* A transaction begins with no lock.
LEMMA EnteredIsSound ==
    ASSUME LimitsInv, NEW t \in Nat, t <= now, now <= t + MaxLag, NEW scope \in SUBSET Keys
    PROVE  /\ Entered(t, scope) \in Busy /\ IsSound(Entered(t, scope))
           /\ \A k \in Keys : ~Locks(Entered(t, scope), k)
<1> DEFINE x == Entered(t, scope)
<1>1. /\ x.phase = "insert" /\ x.at = t /\ x.scope = scope /\ x.todo = scope
      /\ x.refused = FALSE /\ \A k \in Keys : x.own[k] = Kept
  BY DEF Entered
<1>2. x \in Busy
  BY DEF Entered, Busy, Counting
<1> HIDE DEF x
<1>3. IsRecent(x) /\ InOrder(x) /\ OwnGuards(x)
  BY <1>1 DEF IsRecent, InOrder, OwnGuards
<1>4. QED
  BY <1>1, <1>2, <1>3 DEF IsSound, Locks, x

-----------------------------------------------------------------------------
(* The steps of a transaction before its commit.                            *)

\* The row a transaction sees is the one it holds, or else the committed one.
LEMMA RowIsGuarded ==
    ASSUME LimitsInv, NEW r \in Requests, req[r] # Idle, NEW k \in Keys,
           History(req[r], k) = admitted[k]
    PROVE  /\ Row(r, k) = IF req[r].own[k] # Kept THEN req[r].own[k] ELSE buckets[k]
           /\ Row(r, k) \in Bucket \cup {None}
           /\ Guards(admitted[k], Row(r, k), now, k)
<1>1. Row(r, k) = IF req[r].own[k] # Kept THEN req[r].own[k] ELSE buckets[k]
  BY DEF Row, Committed, Holds
<1>2. req[r].own[k] \in Bucket \cup {None, Kept} /\ buckets[k] \in Bucket \cup {None}
  BY BusyType DEF LimitsInv, TypeOK
<1>3. req[r].own[k] # Kept => Guards(admitted[k], req[r].own[k], now, k)
  BY DEF LimitsInv, RequestsAreSound, IsSound, OwnGuards
<1>4. Guards(admitted[k], buckets[k], now, k)
  BY DEF LimitsInv, RowsGuard
<1>5. QED
  BY <1>1, <1>2, <1>3, <1>4

LEMMA AskForCodeKeeps ==
    ASSUME LimitsInv, NEW r \in Requests, AskForCode(r)
    PROVE  LimitsInv'
<1>1. PICK scope \in CodeScopes :
        Proceed(r, [Entered(now, scope) EXCEPT !.phase = "pruning",
                        !.todo = {k \in Keys : Expired(buckets[k], now)}])
  BY DEF AskForCode
<1> DEFINE todo == {k \in Keys : Expired(buckets[k], now)}
           x == [Entered(now, scope) EXCEPT !.phase = "pruning", !.todo = todo]
<1>2. scope \in SUBSET Keys /\ todo \in SUBSET Keys /\ now \in Nat /\ MaxLag \in Nat
  BY LimitsAssumption DEF LimitsInv, TypeOK
<1> HIDE DEF todo
<1>3. x.phase = "pruning" /\ x.at = now /\ \A k \in Keys : x.own[k] = Kept
  BY DEF Entered
<1>4. x \in Busy
  BY <1>2 DEF Entered, Busy
<1> HIDE DEF x
<1>5. IsRecent(x) /\ InOrder(x) /\ OwnGuards(x)
  BY <1>2, <1>3 DEF IsRecent, InOrder, OwnGuards
<1>6. req' = [req EXCEPT ![r] = x] /\ UNCHANGED <<now, buckets, admitted>>
  BY <1>1 DEF AskForCode, Proceed, x, todo
<1>7. \A k \in Keys : ~Locks(x, k)
  BY <1>3 DEF Locks
<1>8. QED
  BY <1>4, <1>5, <1>6, <1>7, OneRequest DEF IsSound

LEMMA AskForVerificationKeeps ==
    ASSUME LimitsInv, NEW r \in Requests, AskForVerification(r)
    PROVE  LimitsInv'
<1>1. PICK scope \in VerifyScopes : Proceed(r, Entered(now, scope))
  BY DEF AskForVerification
<1> DEFINE x == Entered(now, scope)
<1>2. scope \in SUBSET Keys /\ now \in Nat /\ MaxLag \in Nat /\ now <= now + MaxLag
  BY LimitsAssumption DEF LimitsInv, TypeOK
<1>3. x \in Busy /\ IsSound(x) /\ \A k \in Keys : ~Locks(x, k)
  BY <1>2, EnteredIsSound
<1>4. req' = [req EXCEPT ![r] = x] /\ UNCHANGED <<now, buckets, admitted>>
  BY <1>1 DEF AskForVerification, Proceed
<1> HIDE DEF x
<1>5. QED
  BY <1>3, <1>4, OneRequest

\* The end of a row was compared with the date of the request, which is past.
LEMMA PruneRowKeeps ==
    ASSUME LimitsInv, NEW r \in Requests, PruneRow(r)
    PROVE  LimitsInv'
<1>1. PICK k \in req[r].todo :
        /\ Free(r, k)
        /\ Proceed(r, [req[r] EXCEPT !.todo = @ \ {k},
                !.own[k] = IF Expired(Row(r, k), req[r].at) THEN None ELSE @])
  BY DEF PruneRow
<1> DEFINE value == IF Expired(Row(r, k), req[r].at) THEN None ELSE req[r].own[k]
           x == [req[r] EXCEPT !.todo = @ \ {k}, !.own[k] = value]
<1>2. req[r].phase = "pruning" /\ req[r] # Idle
  BY DEF PruneRow, Idle
<1>3. /\ req[r] \in Busy /\ req[r].at \in Nat /\ k \in Keys /\ req[r].todo \in SUBSET Keys
      /\ req[r].own \in [Keys -> Bucket \cup {None, Kept}]
  BY <1>2, BusyType DEF LimitsInv
<1>4. IsRecent(req[r]) /\ InOrder(req[r]) /\ OwnGuards(req[r])
  BY <1>2 DEF LimitsInv, RequestsAreSound, IsSound
<1>5. \A j \in Keys : req[r].own[j] \in {None, Kept} /\ History(req[r], j) = admitted[j]
  BY <1>2, <1>4 DEF InOrder, History, Counting
<1>6. value \in {None, Kept}
  BY <1>3, <1>5
<1>7. value # Kept => Guards(admitted[k], value, now, k)
  <2>1. CASE Expired(Row(r, k), req[r].at)
    <3>1. /\ Row(r, k) \in Bucket \cup {None} /\ Row(r, k) # None
          /\ Guards(admitted[k], Row(r, k), now, k)
      BY <1>2, <1>3, <1>5, <2>1, RowIsGuarded DEF Expired
    <3>2. Row(r, k).expires <= now
      <4>1. Row(r, k).expires <= req[r].at /\ req[r].at <= now /\ now \in Nat
        BY <1>4, <2>1 DEF Expired, IsRecent, LimitsInv, TypeOK
      <4>2. Row(r, k).expires \in Nat
        BY <3>1, RowType
      <4>3. QED
        BY <1>3, <4>1, <4>2
    <3>3. admitted[k] \in Seq(Admission) /\ now \in Nat
      BY <1>3 DEF LimitsInv, TypeOK, Admission
    <3>4. Guards(admitted[k], None, now, k)
      BY <1>3, <3>1, <3>2, <3>3, GuardsPruned
    <3>5. QED
      BY <2>1, <3>4
  <2>2. CASE ~Expired(Row(r, k), req[r].at)
    BY <1>3, <1>4, <1>5, <2>2 DEF OwnGuards
  <2>3. QED
    BY <2>1, <2>2
<1>8. req' = [req EXCEPT ![r] = x] /\ UNCHANGED <<now, buckets, admitted>>
  BY <1>1 DEF PruneRow, Proceed
<1> HIDE DEF value
<1>9. /\ x \in Busy /\ x # Idle /\ x.phase = "pruning" /\ x.at = req[r].at
      /\ \A j \in Keys : x.own[j] = IF j = k THEN value ELSE req[r].own[j]
  <2>1. x \in Busy
    BY <1>3, <1>6 DEF Busy
  <2>2. QED
    BY <1>2, <1>3, <2>1 DEF Busy, Idle
<1> HIDE DEF x
<1>10. IsRecent(x) /\ InOrder(x)
  BY <1>4, <1>5, <1>6, <1>9 DEF IsRecent, InOrder
<1>11. OwnGuards(x)
  BY <1>4, <1>5, <1>7, <1>9 DEF OwnGuards, History, Counting
<1>12. \A j \in Keys : Locks(x, j) => Locks(req[r], j) \/ Free(r, j)
  BY <1>1, <1>2, <1>9 DEF Locks
<1>13. QED
  BY <1>8, <1>9, <1>10, <1>11, <1>12, OneRequest DEF IsSound

LEMMA InsertKeeps ==
    ASSUME LimitsInv, NEW r \in Requests, Insert(r)
    PROVE  LimitsInv'
<1> DEFINE k == Visited(r)
           value == IF Row(r, k) = None THEN NewBucket(r, k) ELSE req[r].own[k]
           x == [req[r] EXCEPT !.phase = "select", !.own[k] = value]
<1>1. /\ req[r].phase = "insert" /\ req[r] # Idle /\ req[r].todo # {} /\ Free(r, k)
      /\ req' = [req EXCEPT ![r] = x] /\ UNCHANGED <<now, buckets, admitted>>
  BY DEF Insert, Proceed, Idle
<1>2. /\ req[r] \in Busy /\ req[r].at \in Nat
      /\ req[r].own \in [Keys -> Bucket \cup {None, Kept}]
  BY <1>1, BusyType DEF LimitsInv
<1>3. k \in req[r].todo /\ k \in Keys /\ \A j \in req[r].todo : k <= j
  BY <1>1, VisitedIsLeast DEF LimitsInv
<1>4. IsRecent(req[r]) /\ InOrder(req[r]) /\ OwnGuards(req[r])
  BY <1>1 DEF LimitsInv, RequestsAreSound, IsSound
<1>5. req[r].todo \subseteq req[r].scope /\ req[r].own[k] = Kept
  BY <1>1, <1>3, <1>4 DEF InOrder
<1>6. History(req[r], k) = admitted[k]
  BY <1>3 DEF History
<1> HIDE DEF k
<1>7. value = Kept \/ (/\ value = [count |-> 0, expires |-> req[r].at + Window[k]]
                       /\ value \in Bucket /\ Guards(admitted[k], value, now, k))
  <2>1. CASE Row(r, k) = None
    <3>1. Guards(admitted[k], None, now, k)
      BY <1>1, <1>3, <1>6, <2>1, RowIsGuarded
    <3>2. admitted[k] \in Seq(Admission) /\ now \in Nat
      BY <1>3 DEF LimitsInv, TypeOK, Admission
    <3>3. Guards(admitted[k], [count |-> 0, expires |-> req[r].at + Window[k]], now, k)
      BY <1>2, <1>3, <1>4, <3>1, <3>2, GuardsOpened DEF IsRecent
    <3>4. [count |-> 0, expires |-> req[r].at + Window[k]] \in Bucket
      BY <1>2, <1>3, Numbers DEF Bucket
    <3>5. value = [count |-> 0, expires |-> req[r].at + Window[k]]
      BY <2>1 DEF NewBucket
    <3>6. QED
      BY <3>3, <3>4, <3>5
  <2>2. CASE Row(r, k) # None
    BY <1>5, <2>2
  <2>3. QED
    BY <2>1, <2>2
<1> HIDE DEF value
<1>8. /\ x \in Busy /\ x # Idle /\ x.phase = "select" /\ x.at = req[r].at
      /\ x.scope = req[r].scope /\ x.todo = req[r].todo /\ x.refused = req[r].refused
      /\ \A j \in Keys : x.own[j] = IF j = k THEN value ELSE req[r].own[j]
  <2>1. x \in Busy
    BY <1>2, <1>7 DEF Busy, Counting
  <2>2. QED
    BY <1>2, <2>1 DEF Busy, Idle
<1> HIDE DEF x
<1>9. IsRecent(x)
  BY <1>4, <1>8 DEF IsRecent
<1>10. InOrder(x)
  <2>1. value # Kept => value # None
    BY <1>7, RowType
  <2>2. \A j \in req[r].todo : req[r].own[j] = Kept /\ j \in Keys
    BY <1>1, <1>2, <1>4 DEF InOrder, Busy
  <2>3. k \notin req[r].scope \ req[r].todo
    BY <1>3
  <2>4. \A j \in req[r].scope : j \in Keys
    BY <1>2 DEF Busy
  <2>5. /\ x.todo \subseteq x.scope /\ x.todo # {}
        /\ \A j \in Keys : x.own[j] # Kept => j \in x.scope /\ x.own[j] # None
    BY <1>1, <1>3, <1>4, <1>5, <1>8, <2>1 DEF InOrder
  <2>6. \A j \in x.scope \ x.todo : /\ x.own[j] # Kept /\ x.own[j].count >= 1
                                    /\ \A i \in x.todo : j < i
    BY <1>1, <1>4, <1>8, <2>3, <2>4 DEF InOrder
  <2>7. \A j \in x.todo : x.own[j] # Kept =>
            /\ \A i \in x.todo : j <= i
            /\ x.own[j] = [count |-> 0, expires |-> x.at + Window[j]]
    BY <1>3, <1>7, <1>8, <2>2
  <2>8. QED
    BY <1>8, <2>5, <2>6, <2>7 DEF InOrder
<1>11. OwnGuards(x)
  <2> SUFFICES ASSUME NEW j \in Keys, x.own[j] # Kept
               PROVE  Guards(History(x, j), x.own[j], now, j)
    BY DEF OwnGuards
  <2>1. History(x, j) = History(req[r], j)
    BY <1>1, <1>8 DEF History, Counting
  <2>2. CASE j = k
    BY <1>6, <1>7, <1>8, <2>1, <2>2
  <2>3. CASE j # k
    BY <1>4, <1>8, <2>1, <2>3 DEF OwnGuards
  <2>4. QED
    BY <2>2, <2>3
<1>12. \A j \in Keys : Locks(x, j) => Locks(req[r], j) \/ Free(r, j)
  BY <1>1, <1>8 DEF Locks
<1>13. QED
  BY <1>1, <1>8, <1>9, <1>10, <1>11, <1>12, OneRequest DEF IsSound

\* A bucket emptied or inserted by the date of a late request is still guarded.
LEMMA OpenedIsGuarded ==
    ASSUME LimitsInv, NEW r \in Requests, req[r].phase = "select", Row(r, Visited(r)) # None
    PROVE  /\ Opened(r, Visited(r)) \in Bucket
           /\ Guards(admitted[Visited(r)], Opened(r, Visited(r)), now, Visited(r))
           /\ req[r].at < Opened(r, Visited(r)).expires
           /\ Opened(r, Visited(r)).count = 0 =>
                Opened(r, Visited(r)).expires = req[r].at + Window[Visited(r)]
<1> DEFINE k == Visited(r)
           b == Opened(r, k)
           new == [count |-> 0, expires |-> req[r].at + Window[k]]
<1>1. req[r] # Idle /\ req[r].todo # {} /\ InOrder(req[r]) /\ IsRecent(req[r])
  BY DEF LimitsInv, RequestsAreSound, IsSound, InOrder, Idle
<1>2. k \in req[r].todo /\ k \in Keys /\ req[r].at \in Nat
  BY <1>1, VisitedIsLeast, BusyType DEF LimitsInv
<1>3. History(req[r], k) = admitted[k]
  BY <1>2 DEF History
<1> HIDE DEF k
<1>4. /\ Row(r, k) = IF req[r].own[k] # Kept THEN req[r].own[k] ELSE buckets[k]
      /\ Row(r, k) \in Bucket /\ Guards(admitted[k], Row(r, k), now, k)
  BY <1>1, <1>2, <1>3, RowIsGuarded DEF k
<1>5. Row(r, k).expires \in Nat /\ Row(r, k).count \in Nat
  BY <1>4, RowType
<1>6. Window[k] \in Nat /\ Window[k] >= 1 /\ now \in Nat /\ admitted[k] \in Seq(Admission)
  BY <1>2, LimitsAssumption DEF LimitsInv, TypeOK, Admission
<1>7. CASE Expired(Row(r, k), req[r].at)
  <2>1. b = new /\ Row(r, k).expires <= now
    BY <1>1, <1>2, <1>5, <1>6, <1>7 DEF Opened, NewBucket, Expired, IsRecent
  <2>2. Guards(admitted[k], None, now, k)
    BY <1>2, <1>4, <1>6, <2>1, GuardsPruned
  <2>3. Guards(admitted[k], new, now, k)
    BY <1>1, <1>2, <1>6, <2>2, GuardsOpened DEF IsRecent
  <2>4. new \in Bucket /\ req[r].at < new.expires /\ new.expires = req[r].at + Window[k]
    BY <1>2, <1>6 DEF Bucket
  <2>5. QED
    BY <2>1, <2>3, <2>4 DEF k
<1>8. CASE ~Expired(Row(r, k), req[r].at)
  <2>1. b = Row(r, k) /\ req[r].at < b.expires
    BY <1>2, <1>4, <1>5, <1>8, RowType DEF Opened, Expired
  <2>2. CASE req[r].own[k] # Kept
    <3>1. b = new
      BY <1>1, <1>2, <1>4, <2>1, <2>2 DEF InOrder
    <3>2. QED
      BY <1>4, <2>1, <3>1 DEF k
  <2>3. CASE req[r].own[k] = Kept
    <3>1. b.count >= 1
      BY <1>2, <1>4, <2>1, <2>3, RowType DEF LimitsInv, RowsCount
    <3>2. QED
      BY <1>4, <2>1, <3>1 DEF k
  <2>4. QED
    BY <2>2, <2>3
<1>9. QED
  BY <1>7, <1>8

LEMMA CountKeeps ==
    ASSUME LimitsInv, NEW r \in Requests, Count(r)
    PROVE  LimitsInv'
<1> DEFINE k == Visited(r)
           b == Opened(r, k)
           value == IF Full(k, b) THEN b ELSE [b EXCEPT !.count = @ + 1]
           x == [req[r] EXCEPT !.phase = "insert", !.todo = @ \ {k}, !.own[k] = value,
                               !.refused = @ \/ Full(k, b)]
           a == [at |-> req[r].at, done |-> now]
<1>1. /\ req[r].phase = "select" /\ req[r] # Idle /\ Free(r, k) /\ Row(r, k) # None
      /\ req' = [req EXCEPT ![r] = x] /\ UNCHANGED <<now, buckets, admitted>>
  BY DEF Count, Proceed, Idle
<1>2. /\ req[r] \in Busy /\ req[r].at \in Nat /\ req[r].refused \in BOOLEAN
      /\ req[r].own \in [Keys -> Bucket \cup {None, Kept}]
      /\ req[r].todo \in SUBSET Keys /\ req[r].scope \in SUBSET Keys
  BY <1>1, BusyType DEF LimitsInv
<1>3. IsRecent(req[r]) /\ InOrder(req[r]) /\ OwnGuards(req[r])
  BY <1>1 DEF LimitsInv, RequestsAreSound, IsSound
<1>4. req[r].todo # {} /\ req[r].todo \subseteq req[r].scope
  BY <1>1, <1>3 DEF InOrder
<1>5. k \in req[r].todo /\ k \in Keys /\ \A j \in req[r].todo : k <= j
  BY <1>1, <1>4, VisitedIsLeast DEF LimitsInv
<1>6. /\ b \in Bucket /\ Guards(admitted[k], b, now, k) /\ req[r].at < b.expires
      /\ b.count = 0 => b.expires = req[r].at + Window[k]
  BY <1>1, OpenedIsGuarded
<1> HIDE DEF k, b
<1>7. b.count \in Nat /\ b.expires \in Nat /\ Maximum[k] \in Nat /\ Maximum[k] >= 1
  BY <1>5, <1>6, RowType, Numbers
<1>8. value \in Bucket /\ value.count >= 1 /\ value # Kept /\ value # None
  <2>1. value \in Bucket /\ value.count >= 1
    BY <1>6, <1>7 DEF Full, Bucket
  <2>2. QED
    BY <2>1, RowType
<1>9. ~Full(k, b) => Guards(Append(admitted[k], a), value, now, k)
  <2>1. admitted[k] \in Seq(Admission) /\ now \in Nat /\ a \in Admission
    BY <1>2, <1>5 DEF LimitsInv, TypeOK, Admission
  <2>2. a.at = req[r].at
    OBVIOUS
  <2> HIDE DEF a
  <2>3. ASSUME b.count < Maximum[k]
        PROVE  Guards(Append(admitted[k], a), [b EXCEPT !.count = @ + 1], now, k)
    BY <1>5, <1>6, <2>1, <2>2, <2>3, GuardsCounted
  <2>4. QED
    BY <1>7, <2>3 DEF Full
<1>10. /\ x \in Busy /\ x # Idle /\ x.phase = "insert" /\ x.at = req[r].at
       /\ x.scope = req[r].scope /\ x.todo = req[r].todo \ {k}
       /\ x.refused = (req[r].refused \/ Full(k, b))
       /\ \A j \in Keys : x.own[j] = IF j = k THEN value ELSE req[r].own[j]
  <2>1. x \in Busy
    BY <1>2, <1>8 DEF Busy, Counting
  <2>2. QED
    BY <1>2, <2>1 DEF Busy, Idle
<1>11. Full(k, b) => value = b
  OBVIOUS
<1> HIDE DEF x, value
<1>12. IsRecent(x)
  BY <1>3, <1>10 DEF IsRecent
<1>13. InOrder(x)
  <2>1. /\ x.todo \subseteq x.scope
        /\ \A j \in Keys : x.own[j] # Kept => j \in x.scope /\ x.own[j] # None
    BY <1>1, <1>3, <1>4, <1>5, <1>8, <1>10 DEF InOrder
  <2>2. \A i \in x.todo : k < i
    <3>1. \A i \in x.todo : k <= i /\ k # i /\ i \in Nat /\ k \in Nat
      BY <1>2, <1>5, <1>10, LimitsAssumption
    <3>2. QED
      BY <3>1
  <2>3. \A j \in x.scope \ x.todo : /\ x.own[j] # Kept /\ x.own[j].count >= 1
                                    /\ \A i \in x.todo : j < i
    <3> SUFFICES ASSUME NEW j \in x.scope \ x.todo
                 PROVE  /\ x.own[j] # Kept /\ x.own[j].count >= 1
                        /\ \A i \in x.todo : j < i
      OBVIOUS
    <3>1. CASE j = k
      BY <1>5, <1>8, <1>10, <2>2, <3>1
    <3>2. CASE j # k
      <4>1. j \in req[r].scope \ req[r].todo /\ j \in Keys
        BY <1>2, <1>10, <3>2
      <4>2. QED
        BY <1>1, <1>3, <1>10, <3>2, <4>1 DEF InOrder
    <3>3. QED
      BY <3>1, <3>2
  <2>4. \A j \in x.todo : x.own[j] = Kept
    <3> SUFFICES ASSUME NEW j \in x.todo, x.own[j] # Kept
                 PROVE  FALSE
      OBVIOUS
    <3>1. j \in req[r].todo /\ j \in Keys /\ j # k /\ req[r].own[j] # Kept
      BY <1>2, <1>10
    <3>2. j <= k
      BY <1>1, <1>3, <1>5, <3>1 DEF InOrder
    <3>3. j \in Nat /\ k \in Nat /\ k < j
      BY <1>5, <2>2, <3>1, LimitsAssumption
    <3>4. QED
      BY <3>2, <3>3
  <2>5. QED
    BY <1>10, <2>1, <2>3, <2>4 DEF InOrder
<1>14. OwnGuards(x)
  <2> SUFFICES ASSUME NEW j \in Keys, x.own[j] # Kept
               PROVE  Guards(History(x, j), x.own[j], now, j)
    BY DEF OwnGuards
  <2>1. CASE j = k
    <3>1. k \in x.scope \ x.todo
      BY <1>4, <1>5, <1>10
    <3>2. CASE Full(k, b)
      <4>1. History(x, k) = admitted[k]
        BY <1>10, <3>2 DEF History
      <4>2. QED
        BY <1>6, <1>10, <1>11, <2>1, <3>2, <4>1
    <3>3. CASE ~Full(k, b) /\ ~req[r].refused
      <4>1. History(x, k) = Append(admitted[k], a)
        BY <1>10, <3>1, <3>3 DEF History, Counting
      <4>2. QED
        BY <1>9, <1>10, <2>1, <3>3, <4>1
    <3>4. CASE ~Full(k, b) /\ req[r].refused
      <4>1. History(x, k) = admitted[k]
        BY <1>10, <3>4 DEF History
      <4>2. admitted[k] \in Seq(Admission) /\ now \in Nat /\ a \in Admission
        BY <1>2, <1>5 DEF LimitsInv, TypeOK, Admission
      <4> HIDE DEF a
      <4>3. Guards(admitted[k], value, now, k)
        BY <1>5, <1>8, <1>9, <3>4, <4>2, GuardsDropped
      <4>4. QED
        BY <1>10, <2>1, <4>1, <4>3
    <3>5. QED
      BY <3>2, <3>3, <3>4
  <2>2. CASE j # k
    <3>1. Guards(History(req[r], j), req[r].own[j], now, j) /\ req[r].own[j] # Kept
      BY <1>3, <1>10, <2>2 DEF OwnGuards
    <3>2. x.own[j] = req[r].own[j]
      BY <1>10, <2>2
    <3>3. CASE History(x, j) = History(req[r], j)
      BY <3>1, <3>2, <3>3
    <3>4. CASE History(x, j) # History(req[r], j)
      <4>1. History(x, j) = admitted[j] /\ History(req[r], j) = Append(admitted[j], a)
        BY <1>1, <1>10, <2>2, <3>4 DEF History, Counting
      <4>2. admitted[j] \in Seq(Admission) /\ now \in Nat /\ a \in Admission
        BY <1>2 DEF LimitsInv, TypeOK, Admission
      <4>3. req[r].own[j] \in Bucket \cup {None}
        BY <1>2, <3>1
      <4> HIDE DEF a
      <4>4. Guards(admitted[j], req[r].own[j], now, j)
        BY <3>1, <4>1, <4>2, <4>3, GuardsDropped
      <4>5. QED
        BY <3>2, <4>1, <4>4
    <3>5. QED
      BY <3>3, <3>4
  <2>3. QED
    BY <2>1, <2>2
<1>15. \A j \in Keys : Locks(x, j) => Locks(req[r], j) \/ Free(r, j)
  BY <1>1, <1>10 DEF Locks
<1>16. QED
  BY <1>1, <1>10, <1>12, <1>13, <1>14, <1>15, OneRequest DEF IsSound

\* A rollback, whatever its reason.
LEMMA RollbackKeeps ==
    ASSUME LimitsInv, NEW r \in Requests, RowVanished(r) \/ Fail(r)
    PROVE  LimitsInv'
<1>1. req' = [req EXCEPT ![r] = Idle] /\ UNCHANGED <<now, buckets, admitted>>
  BY DEF RowVanished, Fail, Proceed
<1>2. IsSound(Idle) /\ \A k \in Keys : ~Locks(Idle, k)
  BY DEF IsSound, Locks
<1>3. QED
  BY <1>1, <1>2, OneRequest

-----------------------------------------------------------------------------
(* The commits, and the clock.                                              *)

\* What a transaction has written becomes the table; what it has counted, the history.
LEMMA CommitKeeps ==
    ASSUME LimitsInv, NEW r \in Requests, req[r] # Idle,
           NEW x \in {Idle} \cup Busy, req' = [req EXCEPT ![r] = x],
           IsSound(x), \A k \in Keys : ~Locks(x, k),
           now' = now, buckets' = Committed(r),
           admitted' = [k \in Keys |-> admitted'[k]],
           \A k \in Keys : admitted'[k] = IF Holds(r, k) THEN History(req[r], k)
                                                         ELSE admitted[k],
           \A k \in Keys : Holds(r, k) /\ req[r].own[k] # None => req[r].own[k].count >= 1
    PROVE  LimitsInv'
<1>1. \A k \in Keys : admitted[k] \in Seq(Admission) /\ admitted'[k] \in Seq(Admission)
  BY HistoryIsTyped DEF LimitsInv
<1>2. \A k \in Keys : Holds(r, k) => /\ req[r].own[k] \in Bucket \cup {None}
                                     /\ Guards(History(req[r], k), req[r].own[k], now, k)
  <2>1. OwnGuards(req[r])
    BY DEF LimitsInv, RequestsAreSound, IsSound
  <2>2. QED
    BY <2>1, BusyType DEF LimitsInv, Holds, OwnGuards
<1>3. \A k \in Keys : buckets'[k] = IF Holds(r, k) THEN req[r].own[k] ELSE buckets[k]
  BY DEF Committed
<1>4. TypeOK'
  <2>1. buckets' \in [Keys -> Bucket \cup {None}]
    BY <1>2 DEF Committed, LimitsInv, TypeOK
  <2>2. admitted' \in [Keys -> Seq([at : Nat, done : Nat])]
    BY <1>1 DEF Admission
  <2>3. QED
    BY <2>1, <2>2 DEF LimitsInv, TypeOK
<1>5. \A q \in Requests : req'[q] = IF q = r THEN x ELSE req[q]
  BY DEF LimitsInv, TypeOK
<1>6. LocksAreExclusive'
  <2> SUFFICES ASSUME NEW p \in Requests, NEW q \in Requests, NEW k \in Keys,
                      Locks(req'[p], k), Locks(req'[q], k), p # q
               PROVE  FALSE
    BY DEF LocksAreExclusive, Locks
  <2>1. \A u, v \in Requests : Locks(req[u], k) /\ Locks(req[v], k) => u = v
    BY DEF LimitsInv, LocksAreExclusive
  <2>2. QED
    BY <1>5, <2>1
<1>7. RequestsAreSound'
  <2> SUFFICES ASSUME NEW q \in Requests
               PROVE  IsSound(req[q])'
    BY DEF RequestsAreSound
  <2>1. CASE q = r
    <3>1. x # Idle => OwnGuards(x)'
      BY DEF Locks, OwnGuards
    <3>2. QED
      BY <1>5, <2>1, <3>1 DEF IsSound, IsRecent, InOrder, OwnGuards
  <2>2. CASE q # r
    <3>1. IsSound(req[q]) /\ req'[q] = req[q]
      BY <1>5, <2>2 DEF LimitsInv, RequestsAreSound
    <3>2. CASE req[q] = Idle
      BY <3>1, <3>2 DEF IsSound
    <3>3. CASE req[q] # Idle
      <4>1. \A k \in Keys : req[q].own[k] # Kept => ~Holds(r, k)
        BY <2>2, <3>3 DEF LimitsInv, LocksAreExclusive, Locks, Holds
      <4>2. \A k \in Keys : req[q].own[k] # Kept => admitted'[k] = admitted[k]
        BY <4>1
      <4>3. OwnGuards(req[q])
        BY <3>1, <3>3 DEF IsSound
      <4>4. OwnGuards(req[q])'
        BY <3>1, <4>2, <4>3 DEF OwnGuards, History
      <4>5. (IsRecent(req[q]) /\ InOrder(req[q]))'
        BY <3>1, <3>3 DEF IsSound, IsRecent, InOrder
      <4>6. QED
        BY <4>4, <4>5 DEF IsSound
    <3>4. QED
      BY <3>2, <3>3
  <2>3. QED
    BY <2>1, <2>2
<1>8. RowsCount'
  BY <1>3 DEF LimitsInv, RowsCount
<1>9. RowsGuard'
  BY <1>2, <1>3 DEF LimitsInv, RowsGuard
<1>10. ASSUME NEW k \in Keys
       PROVE  \/ admitted'[k] = admitted[k]
              \/ \E a \in Admission : /\ admitted'[k] = Append(admitted[k], a) /\ a.done = now
                                      /\ Holds(r, k)
  <2>1. [at |-> req[r].at, done |-> now] \in Admission
    BY BusyType DEF LimitsInv, TypeOK, Admission
  <2>2. QED
    BY <2>1 DEF History
<1>11. SpacingKept'
  <2> SUFFICES ASSUME NEW k \in Keys, Maximum[k] = 1,
                      NEW i \in 1 .. Len(admitted'[k]) - 1
               PROVE  admitted'[k][i + 1].done >= admitted'[k][i].at + Window[k]
    BY DEF SpacingKept
  <2>1. CASE admitted'[k] = admitted[k]
    BY <2>1 DEF LimitsInv, SpacingKept
  <2>2. ASSUME NEW a \in Admission, admitted'[k] = Append(admitted[k], a), a.done = now,
               Holds(r, k)
        PROVE  admitted'[k][i + 1].done >= admitted'[k][i].at + Window[k]
    <3> DEFINE h == admitted[k]
               g == admitted'[k]
    <3>1. /\ h \in Seq(Admission) /\ Len(h) \in Nat /\ Len(g) = Len(h) + 1
          /\ g[Len(h) + 1] = a /\ \A j \in 1 .. Len(h) : g[j] = h[j]
      BY <1>1, <2>2, HistoryType, AppendedType
    <3>2. g = History(req[r], k)
      BY <2>2
    <3> HIDE DEF g, h
    <3>3. \A j \in 1 .. Len(g) - 1 : g[j].at + Window[k] <= now
      BY <1>2, <2>2, <3>2 DEF Guards, LastIsCounted
    <3>4. i \in 1 .. Len(h) /\ i \in 1 .. Len(g) - 1
      BY <3>1 DEF g
    <3>5. CASE i = Len(h)
      <4>1. g[i + 1].done = now /\ g[i].at \in Nat /\ Window[k] \in Nat /\ now \in Nat
        BY <2>2, <3>1, <3>4, <3>5, HistoryType, Numbers DEF LimitsInv, TypeOK
      <4>2. QED
        BY <3>3, <3>4, <4>1 DEF g
    <3>6. CASE i # Len(h)
      <4>1. i \in 1 .. Len(h) - 1 /\ i + 1 \in 1 .. Len(h)
        BY <3>1, <3>4, <3>6
      <4>2. h[i + 1].done >= h[i].at + Window[k]
        BY <4>1 DEF LimitsInv, SpacingKept, h
      <4>3. QED
        BY <3>1, <3>4, <4>1, <4>2 DEF g
    <3>7. QED
      BY <3>5, <3>6
  <2>3. QED
    BY <1>10, <2>1, <2>2
<1>12. BurstBounded'
  <2> SUFFICES ASSUME NEW k \in Keys, NEW i \in 1 .. Len(admitted'[k]) - 2 * Maximum[k]
               PROVE  admitted'[k][i + 2 * Maximum[k]].done + MaxLag
                        > admitted'[k][i].at + Window[k]
    BY DEF BurstBounded
  <2>1. CASE admitted'[k] = admitted[k]
    BY <2>1 DEF LimitsInv, BurstBounded
  <2>2. ASSUME NEW a \in Admission, admitted'[k] = Append(admitted[k], a), a.done = now,
               Holds(r, k)
        PROVE  admitted'[k][i + 2 * Maximum[k]].done + MaxLag
                 > admitted'[k][i].at + Window[k]
    <3> DEFINE h == admitted[k]
               g == admitted'[k]
               row == req[r].own[k]
               M == Maximum[k]
    <3>1. /\ h \in Seq(Admission) /\ Len(h) \in Nat /\ Len(g) = Len(h) + 1
          /\ g[Len(h) + 1] = a /\ \A j \in 1 .. Len(h) : g[j] = h[j]
      BY <1>1, <2>2, HistoryType, AppendedType
    <3>2. g = History(req[r], k)
      BY <2>2
    <3>3. M \in Nat /\ M >= 1 /\ Window[k] \in Nat /\ MaxLag \in Nat /\ now \in Nat
      BY Numbers DEF LimitsInv, TypeOK
    <3>4. Counts(row) \in Nat /\ Counts(row) <= M
      BY <1>2, <2>2, RowType DEF Counts, Guards
    <3> HIDE DEF g, h, M, row
    <3>5. \A j \in 1 .. Len(g) - Counts(row) - M : g[j].at + Window[k] < now + MaxLag
      BY <1>2, <2>2, <3>2 DEF Guards, OlderAreOver, M, row
    <3>6. i \in 1 .. Len(g) - 2 * M
      BY DEF g, M
    <3>7. i \in 1 .. Len(g) - Counts(row) - M /\ i \in 1 .. Len(h)
      BY <3>1, <3>3, <3>4, <3>6
    <3>8. CASE i + 2 * M = Len(h) + 1
      <4>1. g[i + 2 * M].done = now /\ g[i].at \in Nat
        BY <2>2, <3>1, <3>7, <3>8, HistoryType
      <4>2. QED
        BY <3>3, <3>5, <3>7, <4>1 DEF g, M
    <3>9. CASE i + 2 * M # Len(h) + 1
      <4>1. i \in 1 .. Len(h) - 2 * M /\ i + 2 * M \in 1 .. Len(h)
        <5>1. 2 * M \in Nat /\ i \in Nat /\ 1 <= i /\ i <= (Len(h) + 1) - 2 * M
          BY <3>1, <3>3, <3>6
        <5>2. i + 2 * M <= Len(h)
          BY <3>1, <3>9, <5>1
        <5>3. QED
          BY <3>1, <5>1, <5>2
      <4>2. h[i + 2 * M].done + MaxLag > h[i].at + Window[k]
        BY <4>1 DEF LimitsInv, BurstBounded, h, M
      <4>3. g[i + 2 * M] = h[i + 2 * M] /\ g[i] = h[i]
        BY <3>1, <3>7, <4>1
      <4>4. QED
        BY <4>2, <4>3 DEF g, M
    <3>10. QED
      BY <3>8, <3>9
  <2>3. QED
    BY <1>10, <2>1, <2>2
<1>13. QED
  BY <1>4, <1>6, <1>7, <1>8, <1>9, <1>11, <1>12 DEF LimitsInv

LEMMA PruneEndsKeeps ==
    ASSUME LimitsInv, NEW r \in Requests, PruneEnds(r)
    PROVE  LimitsInv'
<1> DEFINE x == Entered(req[r].at, req[r].scope)
<1>1. /\ req[r].phase = "pruning" /\ req[r] # Idle /\ req' = [req EXCEPT ![r] = x]
      /\ buckets' = Committed(r) /\ now' = now /\ admitted' = admitted
  BY DEF PruneEnds, Proceed, Idle
<1>2. IsRecent(req[r]) /\ InOrder(req[r]) /\ req[r].at \in Nat /\ req[r].scope \in SUBSET Keys
  BY <1>1, BusyType DEF LimitsInv, RequestsAreSound, IsSound
<1>3. x \in Busy /\ IsSound(x) /\ \A k \in Keys : ~Locks(x, k)
  BY <1>2, EnteredIsSound DEF IsRecent
<1>4. admitted' = [k \in Keys |-> admitted'[k]]
  BY <1>1 DEF LimitsInv, TypeOK
<1>5. \A k \in Keys : admitted'[k] = IF Holds(r, k) THEN History(req[r], k) ELSE admitted[k]
  BY <1>1 DEF History, Counting
<1>6. \A k \in Keys : Holds(r, k) /\ req[r].own[k] # None => req[r].own[k].count >= 1
  BY <1>1, <1>2 DEF InOrder, Holds
<1> HIDE DEF x
<1>7. QED
  BY <1>1, <1>3, <1>4, <1>5, <1>6, CommitKeeps

\* An admitted request has counted in all its buckets.
LEMMA AnswerKeeps ==
    ASSUME LimitsInv, NEW r \in Requests, Answer(r)
    PROVE  LimitsInv'
<1>1. /\ req[r].phase = "insert" /\ req[r] # Idle /\ req' = [req EXCEPT ![r] = Idle]
      /\ req[r].todo = {} /\ buckets' = Committed(r) /\ now' = now
  BY DEF Answer, Proceed, Idle
<1>2. admitted' = [k \in Keys |->
            IF k \in req[r].scope /\ ~req[r].refused
            THEN Append(admitted[k], [at |-> req[r].at, done |-> now])
            ELSE admitted[k]]
  BY DEF Answer
<1>3. InOrder(req[r])
  BY <1>1 DEF LimitsInv, RequestsAreSound, IsSound
<1>4. \A k \in Keys : Holds(r, k) <=> k \in req[r].scope
  BY <1>1, <1>3 DEF InOrder, Holds
<1>5. \A k \in Keys : admitted'[k] = IF Holds(r, k) THEN History(req[r], k) ELSE admitted[k]
  <2> SUFFICES ASSUME NEW k \in Keys
               PROVE  admitted'[k] = IF Holds(r, k) THEN History(req[r], k) ELSE admitted[k]
    OBVIOUS
  <2>1. admitted'[k] = IF k \in req[r].scope /\ ~req[r].refused
                       THEN Append(admitted[k], [at |-> req[r].at, done |-> now])
                       ELSE admitted[k]
    BY <1>2
  <2>2. QED
    BY <1>1, <1>4, <2>1 DEF History, Counting
<1>6. \A k \in Keys : Holds(r, k) /\ req[r].own[k] # None => req[r].own[k].count >= 1
  BY <1>1, <1>3, <1>4 DEF InOrder
<1>7. IsSound(Idle) /\ \A k \in Keys : ~Locks(Idle, k)
  BY DEF IsSound, Locks
<1>8. admitted' = [k \in Keys |-> admitted'[k]]
  BY <1>2
<1>9. QED
  BY <1>1, <1>5, <1>6, <1>7, <1>8, CommitKeeps

\* A request cannot keep its date for more than MaxLag.
LEMMA AdvanceKeeps ==
    ASSUME LimitsInv, Advance
    PROVE  LimitsInv'
<1>1. /\ now \in Nat /\ now' = now + 1 /\ now' \in Nat /\ now <= now'
      /\ UNCHANGED <<buckets, req, admitted>>
      /\ \A r \in Requests : req[r] # Idle => now < req[r].at + MaxLag
  BY DEF Advance, LimitsInv, TypeOK
<1>2. TypeOK' /\ LocksAreExclusive' /\ RowsCount' /\ SpacingKept' /\ BurstBounded'
  BY <1>1 DEF LimitsInv, TypeOK, LocksAreExclusive, RowsCount, SpacingKept, BurstBounded
<1>3. RowsGuard'
  <2>1. \A k \in Keys : /\ admitted[k] \in Seq(Admission) /\ buckets[k] \in Bucket \cup {None}
                        /\ Guards(admitted[k], buckets[k], now, k)
    BY DEF LimitsInv, TypeOK, RowsGuard, Admission
  <2>2. \A k \in Keys : Guards(admitted[k], buckets[k], now', k)
    BY <1>1, <2>1, GuardsLater
  <2>3. QED
    BY <1>1, <2>2 DEF RowsGuard
<1>4. ASSUME NEW r \in Requests, req[r] # Idle
      PROVE  (IsRecent(req[r]) /\ InOrder(req[r]) /\ OwnGuards(req[r]))'
  <2>1. IsRecent(req[r]) /\ InOrder(req[r]) /\ OwnGuards(req[r])
    BY <1>4 DEF LimitsInv, RequestsAreSound, IsSound
  <2>2. req[r].at \in Nat /\ MaxLag \in Nat /\ req'[r] = req[r]
    BY <1>1, <1>4, BusyType, LimitsAssumption DEF LimitsInv
  <2>3. IsRecent(req[r])'
    BY <1>1, <1>4, <2>1, <2>2 DEF IsRecent
  <2>4. InOrder(req[r])'
    BY <2>1, <2>2 DEF InOrder
  <2>5. ASSUME NEW k \in Keys, req[r].own[k] # Kept
        PROVE  Guards(History(req[r], k)', req[r].own[k], now', k)
    <3> DEFINE h == History(req[r], k)
               g == History(req[r], k)'
    <3>1. h \in Seq(Admission) /\ g \in Seq(Admission)
      <4>1. TypeOK' /\ req'[r] # Idle
        BY <1>2, <1>4, <2>2
      <4>2. admitted'[k] \in Seq(Admission) /\ [at |-> req'[r].at, done |-> now'] \in Admission
        BY <1>1, <2>2, <4>1 DEF TypeOK, Admission
      <4>3. g \in Seq(Admission)
        BY <4>2, AppendedType DEF History
      <4>4. QED
        BY <1>4, <4>3, HistoryIsTyped DEF LimitsInv
    <3>2. req[r].own[k] \in Bucket \cup {None}
      BY <1>4, <2>5, BusyType DEF LimitsInv
    <3>3. Guards(h, req[r].own[k], now', k)
      <4>1. Guards(h, req[r].own[k], now, k)
        BY <2>1, <2>5 DEF OwnGuards
      <4> HIDE DEF h
      <4>2. QED
        BY <1>1, <3>1, <3>2, <4>1, GuardsLater
    <3>4. Len(g) = Len(h) /\ \A i \in 1 .. Len(h) : g[i].at = h[i].at
      <4> DEFINE a == [at |-> req[r].at, done |-> now]
                 b == [at |-> req[r].at, done |-> now']
      <4>1. a \in Admission /\ b \in Admission /\ a.at = b.at
        BY <1>1, <2>2 DEF Admission
      <4>2. admitted[k] \in Seq(Admission)
        BY DEF LimitsInv, TypeOK, Admission
      <4>3. \/ h = admitted[k] /\ g = admitted[k]
            \/ h = Append(admitted[k], a) /\ g = Append(admitted[k], b)
        BY <1>1, <2>2 DEF History
      <4> HIDE DEF a, b, g, h
      <4>4. CASE h = admitted[k] /\ g = admitted[k]
        BY <4>4
      <4>5. CASE h = Append(admitted[k], a) /\ g = Append(admitted[k], b)
        <5>1. /\ Len(admitted[k]) \in Nat
              /\ Len(h) = Len(admitted[k]) + 1 /\ Len(g) = Len(admitted[k]) + 1
              /\ h[Len(admitted[k]) + 1] = a /\ g[Len(admitted[k]) + 1] = b
              /\ \A i \in 1 .. Len(admitted[k]) : h[i] = g[i]
          BY <4>1, <4>2, <4>5, HistoryType, AppendedType
        <5>2. QED
          BY <4>1, <5>1
      <4>6. QED
        BY <4>3, <4>4, <4>5
    <3> HIDE DEF g, h
    <3>5. Guards(g, req[r].own[k], now', k)
      BY <3>1, <3>2, <3>3, <3>4, SameDates
    <3>6. QED
      BY <3>5 DEF g
  <2>6. OwnGuards(req[r])'
    BY <2>2, <2>5 DEF OwnGuards
  <2>7. QED
    BY <2>3, <2>4, <2>6
<1>5. RequestsAreSound'
  BY <1>1, <1>4 DEF RequestsAreSound, IsSound
<1>6. QED
  BY <1>2, <1>3, <1>5 DEF LimitsInv

-----------------------------------------------------------------------------
(* The theorems.                                                            *)

LEMMA LimitsInvInit == Init => LimitsInv
<1> SUFFICES ASSUME Init
             PROVE  LimitsInv
  OBVIOUS
<1>1. TypeOK
  BY DEF Init, TypeOK
<1>2. LocksAreExclusive /\ RequestsAreSound /\ RowsCount
  BY DEF Init, LocksAreExclusive, RequestsAreSound, RowsCount, Locks, IsSound
<1>3. \A k \in Keys : admitted[k] = <<>> /\ buckets[k] = None
  BY DEF Init
<1>4. SpacingKept /\ BurstBounded
  <2>1. \A k \in Keys : Len(admitted[k]) = 0 /\ Maximum[k] \in Nat /\ 2 * Maximum[k] \in Nat
    BY <1>3, Numbers
  <2>2. \A k \in Keys : /\ 1 .. Len(admitted[k]) - 1 = {}
                        /\ 1 .. Len(admitted[k]) - 2 * Maximum[k] = {}
    BY <2>1
  <2>3. QED
    BY <2>2 DEF SpacingKept, BurstBounded
<1>5. RowsGuard
  <2> SUFFICES ASSUME NEW k \in Keys
               PROVE  Guards(admitted[k], buckets[k], now, k)
    BY DEF RowsGuard
  <2>1. /\ Len(admitted[k]) = 0 /\ Maximum[k] \in Nat /\ buckets[k] = None
        /\ Counts(buckets[k]) = 0
    BY <1>3, Numbers DEF Counts
  <2>2. 1 .. 0 = {} /\ 1 .. 0 - 1 = {} /\ 1 .. 0 - 0 - Maximum[k] = {}
    BY <2>1
  <2>3. QED
    BY <2>1, <2>2 DEF Guards, DatedBefore, OlderAreOver, LastIsCounted
<1>6. QED
  BY <1>1, <1>2, <1>4, <1>5 DEF LimitsInv

LEMMA LimitsInvNext == LimitsInv /\ [Next]_vars => LimitsInv'
<1> SUFFICES ASSUME LimitsInv, [Next]_vars
             PROVE  LimitsInv'
  OBVIOUS
<1>1. ASSUME NEW r \in Requests, AskForCode(r)
      PROVE  LimitsInv'
  BY <1>1, AskForCodeKeeps
<1>2. ASSUME NEW r \in Requests, AskForVerification(r)
      PROVE  LimitsInv'
  BY <1>2, AskForVerificationKeeps
<1>3. ASSUME NEW r \in Requests, Step(r)
      PROVE  LimitsInv'
  <2>1. CASE PruneRow(r)
    BY <2>1, PruneRowKeeps
  <2>2. CASE PruneEnds(r)
    BY <2>2, PruneEndsKeeps
  <2>3. CASE Insert(r)
    BY <2>3, InsertKeeps
  <2>4. CASE Count(r)
    BY <2>4, CountKeeps
  <2>5. CASE RowVanished(r)
    BY <2>5, RollbackKeeps
  <2>6. CASE Answer(r)
    BY <2>6, AnswerKeeps
  <2>7. QED
    BY <1>3, <2>1, <2>2, <2>3, <2>4, <2>5, <2>6 DEF Step
<1>4. ASSUME NEW r \in Requests, Fail(r)
      PROVE  LimitsInv'
  BY <1>4, RollbackKeeps
<1>5. CASE Advance
  BY <1>5, AdvanceKeeps
<1>6. CASE UNCHANGED vars
  BY <1>6 DEF vars, LimitsInv, TypeOK, LocksAreExclusive, RequestsAreSound, RowsCount,
     RowsGuard, SpacingKept, BurstBounded, Locks, IsSound, IsRecent, InOrder, OwnGuards,
     History
<1>7. QED
  BY <1>1, <1>2, <1>3, <1>4, <1>5, <1>6 DEF Next

\* A row says enough of the admissions it has counted, the locks make it the row its
\* writer has read, and the order of the buckets is kept.
THEOREM LimitsKeepInvariant == Spec => []LimitsInv
  BY LimitsInvInit, LimitsInvNext, PTL DEF Spec

\* The state is well typed: what a request commits is a row or none.
THEOREM TypeCorrect == Spec => []TypeOK
<1>1. LimitsInv => TypeOK
  BY DEF LimitsInv
<1>2. QED
  BY <1>1, LimitsKeepInvariant, PTL

\* The next code of an address is not sent before the date announced as resend_at,
\* however the buckets are pruned and however late the requests are.
THEOREM SpacingCorrect == Spec => []SpacingKept
<1>1. LimitsInv => SpacingKept
  BY DEF LimitsInv
<1>2. QED
  BY <1>1, LimitsKeepInvariant, PTL

\* No interval of one window admits more than twice the maximum, but for the age of the
\* dates.
THEOREM BurstCorrect == Spec => []BurstBounded
<1>1. LimitsInv => BurstBounded
  BY DEF LimitsInv
<1>2. QED
  BY <1>1, LimitsKeepInvariant, PTL

\* What enforce_limits promises of its buckets: their types, the spacing of a limit of one
\* request and the bound of a burst, whatever is pruned and however late the requests are.
THEOREM LimitsCorrect == Spec => []LimitsAreKept
<1>1. LimitsInv => LimitsAreKept
  BY DEF LimitsInv, LimitsAreKept
<1>2. QED
  BY <1>1, LimitsKeepInvariant, PTL

LEMMA GreatestExists ==
    ASSUME NEW S \in SUBSET Nat, S # {}, IsFiniteSet(S)
    PROVE  \E i \in S : \A j \in S : j <= i
<1> DEFINE Ends(T) == \E i \in T : \A j \in T : j <= i
           Bad == {T \in SUBSET S : T # {} /\ ~Ends(T)}
           Sizes == {Cardinality(T) : T \in Bad}
<1>1. \A T \in SUBSET S : IsFiniteSet(T) /\ Cardinality(T) \in Nat
  BY FS_Subset, FS_CardinalityType
<1>2. SUFFICES ASSUME S \in Bad
               PROVE  FALSE
  OBVIOUS
<1>3. Sizes \in SUBSET Nat /\ Sizes # {}
  BY <1>1, <1>2
<1>4. PICK n \in Sizes : \A m \in Sizes : n <= m
  <2> HIDE DEF Sizes
  <2> QED
    BY <1>3, LeastExists
<1>5. PICK T \in Bad : Cardinality(T) = n
  BY DEF Sizes
<1>6. PICK x \in T : TRUE
  BY <1>5
<1> DEFINE U == T \ {x}
<1>7. Cardinality(U) = n - 1 /\ U \in SUBSET S /\ n \in Nat
  <2>1. IsFiniteSet(T) /\ T \in SUBSET S
    BY <1>1, <1>5
  <2>2. Cardinality(U) = Cardinality(T) - 1
    BY <1>6, <2>1, FS_RemoveElement
  <2>3. QED
    BY <1>3, <1>5, <2>1, <2>2
<1>8. U \notin Bad
  <2>1. U \in Bad => Cardinality(U) \in Sizes
    OBVIOUS
  <2> HIDE DEF U, Bad, Sizes
  <2>2. U \in Bad => n <= Cardinality(U)
    BY <1>4, <2>1
  <2>3. QED
    BY <1>7, <2>2
<1>9. U = {} \/ Ends(U)
  BY <1>7, <1>8
<1>10. T \in SUBSET S /\ ~Ends(T) /\ T \in SUBSET Nat
  BY <1>5
<1>11. CASE U = {}
  <2>1. \A j \in T : j = x /\ j \in Nat
    BY <1>10, <1>11
  <2>2. QED
    BY <1>6, <1>10, <2>1
<1>12. CASE Ends(U)
  <2>1. PICK y \in U : \A j \in U : j <= y
    BY <1>12
  <2>2. y \in T /\ y \in Nat /\ x \in Nat /\ \A j \in T : j = x \/ j <= y
    BY <1>6, <1>10, <2>1
  <2>3. CASE x <= y
    BY <1>10, <2>2, <2>3
  <2>4. CASE y <= x
    <3>1. \A j \in T : j \in Nat /\ j <= x
      BY <1>10, <2>2, <2>4
    <3>2. QED
      BY <1>6, <1>10, <3>1
  <2>5. QED
    BY <2>2, <2>3, <2>4
<1>13. QED
  BY <1>9, <1>11, <1>12

\* A counting request that waits has only counted in buckets before the one it waits for.
LEMMA WaitsAreOrdered ==
    ASSUME LimitsInv, NEW q \in Requests, NEW r \in Requests, NEW p \in Requests,
           req[q].phase \in Counting, req[r].phase \in Counting, Waits(q, r), Waits(r, p)
    PROVE  Visited(q) < Visited(r) /\ Visited(q) \in Keys /\ Visited(r) \in Keys
<1>1. /\ req[q] # Idle /\ req[q].todo # {} /\ req[r] # Idle /\ req[r].todo # {} /\ r # p
      /\ req[q].phase # "pruning" /\ req[r].phase # "pruning"
  BY DEF Waits, Counting
<1>2. Holds(r, Visited(q)) /\ Holds(p, Visited(r))
  BY <1>1 DEF Waits
<1> DEFINE k == Visited(q)
           m == Visited(r)
<1>3. k \in Keys /\ m \in Keys /\ m \in req[r].todo
  BY <1>1, VisitedIsLeast DEF LimitsInv
<1>4. InOrder(req[r])
  BY <1>1 DEF LimitsInv, RequestsAreSound, IsSound
<1> HIDE DEF k, m
<1>5. k \in req[r].scope /\ req[r].own[k] # Kept
  BY <1>1, <1>2, <1>3, <1>4 DEF InOrder, Holds, k
<1>6. k \notin req[r].todo
  <2> SUFFICES ASSUME k \in req[r].todo
               PROVE  FALSE
    OBVIOUS
  <2>1. \A j \in req[r].todo : k <= j
    BY <1>1, <1>4, <1>5 DEF InOrder
  <2>2. m <= k
    BY <1>1, VisitedIsLeast DEF LimitsInv, m
  <2>3. k = m
    BY <1>3, <2>1, <2>2, LimitsAssumption
  <2>4. Holds(r, m) /\ Holds(p, m)
    BY <1>2, <2>3 DEF k, m
  <2>5. QED
    BY <1>1, <1>3, <2>4 DEF LimitsInv, LocksAreExclusive, Locks, Holds
<1>7. k < m
  BY <1>1, <1>3, <1>4, <1>5, <1>6 DEF InOrder
<1>8. QED
  BY <1>3, <1>7 DEF k, m

\* The order in which enforce_limits visits its buckets is enough: requests that count
\* never wait on each other in a circle, for any number of requests and any scopes.
THEOREM CallersCorrect == Spec => []CallersNeverDeadlock
<1>1. LimitsInv => CallersNeverDeadlock
  <2> SUFFICES ASSUME LimitsInv,
                      NEW S \in SUBSET {r \in Requests : req[r].phase \in Counting},
                      Cycle(S)
               PROVE  FALSE
    BY DEF CallersNeverDeadlock
  <2>1. S # {} /\ \A q \in S : \E r \in S : Waits(q, r)
    BY DEF Cycle
  <2>2. \A q \in S : q \in Requests /\ req[q].phase \in Counting
    OBVIOUS
  <2>3. \A q \in S : \E r \in S : /\ Visited(q) < Visited(r)
                                  /\ Visited(q) \in Keys /\ Visited(r) \in Keys
    BY <2>1, <2>2, WaitsAreOrdered
  <2> DEFINE V == {Visited(q) : q \in S}
  <2>4. V # {} /\ V \in SUBSET Keys /\ V \in SUBSET Nat /\ IsFiniteSet(V)
    <3>1. V \in SUBSET Keys
      BY <2>3
    <3>2. V # {}
      BY <2>1
    <3> HIDE DEF V
    <3>3. QED
      BY <3>1, <3>2, LimitsAssumption, FS_Subset
  <2>5. PICK m \in V : \A j \in V : j <= m
    <3> HIDE DEF V
    <3> QED
      BY <2>4, GreatestExists
  <2>6. PICK q \in S : m = Visited(q)
    OBVIOUS
  <2>7. PICK r \in S : Visited(q) < Visited(r)
    BY <2>3
  <2>8. Visited(r) \in V
    OBVIOUS
  <2>9. Visited(r) <= m /\ m < Visited(r) /\ m \in Nat /\ Visited(r) \in Nat
    BY <2>4, <2>5, <2>6, <2>7, <2>8
  <2>10. QED
    BY <2>9
<1>2. QED
  BY <1>1, LimitsKeepInvariant, PTL


-----------------------------------------------------------------------------
(* Requests served at the same time look as if they were served in turn.    *)

\* What a transaction has written of a row is what the row, as committed in the table,
\* gives at the date of the request, and so is its refusal.
Follows(x, table) ==
    /\ x.scope \in CodeScopes \cup VerifyScopes
    /\ x.phase = "pruning" => \A k \in Keys : x.own[k] # Kept => Serial!IsOver(table[k], x.at)
    /\ x.phase # "pruning" =>
        /\ \A k \in x.scope \ x.todo : x.own[k] = Serial!Counted(table[k], k, x.at)
        /\ \A k \in x.todo : x.own[k] # Kept => table[k] = None
        /\ x.refused <=> \E k \in x.scope \ x.todo : ~Serial!HasRoom(table[k], k, x.at)

SerialInv == \A r \in Requests : req[r] # Idle => Follows(req[r], buckets)

LEMMA FollowsStays ==
    ASSUME NEW x \in Busy, NEW table, NEW written, Follows(x, table), InOrder(x),
           \A k \in Keys : x.own[k] # Kept => written[k] = table[k]
    PROVE  Follows(x, written)
<1>1. x.scope \in SUBSET Keys /\ x.todo \in SUBSET Keys
  BY DEF Busy
<1>2. CASE x.phase = "pruning"
  BY <1>2 DEF Follows
<1>3. CASE x.phase # "pruning"
  <2>1. \A k \in x.scope \ x.todo : written[k] = table[k]
    BY <1>1, <1>3 DEF InOrder
  <2>2. \A k \in x.todo : x.own[k] # Kept => written[k] = table[k]
    BY <1>1
  <2>3. x.refused <=> \E k \in x.scope \ x.todo : ~Serial!HasRoom(table[k], k, x.at)
    BY <1>3 DEF Follows
  <2>4. x.refused <=> \E k \in x.scope \ x.todo : ~Serial!HasRoom(written[k], k, x.at)
    BY <2>1, <2>3, Zenon
  <2>. QED
    BY <1>3, <2>1, <2>2, <2>4 DEF Follows
<1>. QED
  BY <1>2, <1>3

\* One request moves on, and what it commits is not what the others have.
LEMMA OneFollows ==
    ASSUME LimitsInv, SerialInv, NEW r \in Requests, NEW x, req' = [req EXCEPT ![r] = x],
           buckets' = buckets \/ buckets' = Committed(r), x # Idle => Follows(x, buckets')
    PROVE  SerialInv'
<1>1. \A q \in Requests : req'[q] = IF q = r THEN x ELSE req[q]
  BY DEF LimitsInv, TypeOK
<1>2. ASSUME NEW q \in Requests \ {r}, req[q] # Idle
      PROVE  Follows(req[q], buckets')
  <2>1. req[q] \in Busy /\ InOrder(req[q]) /\ Follows(req[q], buckets)
    BY <1>2, BusyType DEF LimitsInv, RequestsAreSound, IsSound, SerialInv
  <2>2. \A k \in Keys : req[q].own[k] # Kept => buckets'[k] = buckets[k]
    <3> SUFFICES ASSUME NEW k \in Keys, req[q].own[k] # Kept
                 PROVE  buckets'[k] = buckets[k]
      OBVIOUS
    <3>1. ~Holds(r, k)
      BY <1>2 DEF LimitsInv, LocksAreExclusive, Locks, Holds
    <3>. QED
      BY <3>1 DEF Committed
  <2>. QED
    BY <2>1, <2>2, FollowsStays
<1>. QED
  BY <1>1, <1>2 DEF SerialInv

LEMMA EnteredFollows ==
    ASSUME NEW t \in Nat, NEW scope \in CodeScopes \cup VerifyScopes, NEW table,
           NEW todo \in SUBSET Keys
    PROVE  /\ Follows(Entered(t, scope), table)
           /\ Follows([Entered(t, scope) EXCEPT !.phase = "pruning", !.todo = todo], table)
BY LimitsAssumption DEF Follows, Entered

\* A row is deleted only if it was over when it was locked, and then nobody changes it.
LEMMA PruneRowFollows ==
    ASSUME LimitsInv, SerialInv, NEW r \in Requests, PruneRow(r)
    PROVE  SerialInv'
<1>1. PICK k \in req[r].todo :
        /\ Free(r, k)
        /\ Proceed(r, [req[r] EXCEPT !.todo = @ \ {k},
                !.own[k] = IF Expired(Row(r, k), req[r].at) THEN None ELSE @])
  BY DEF PruneRow
<1> DEFINE value == IF Expired(Row(r, k), req[r].at) THEN None ELSE req[r].own[k]
           x == [req[r] EXCEPT !.todo = @ \ {k}, !.own[k] = value]
<1>2. /\ req[r].phase = "pruning" /\ req[r] # Idle
      /\ req' = [req EXCEPT ![r] = x] /\ buckets' = buckets
  <2>1. req[r].phase = "pruning" /\ buckets' = buckets
    BY DEF PruneRow
  <2>2. req' = [req EXCEPT ![r] = x]
    BY <1>1 DEF Proceed
  <2>. QED
    BY <2>1, <2>2 DEF Idle
<1>3. /\ req[r] \in Busy /\ k \in Keys
      /\ req[r].own \in [Keys -> Bucket \cup {None, Kept}]
      /\ InOrder(req[r]) /\ Follows(req[r], buckets)
  BY <1>2, BusyType DEF LimitsInv, RequestsAreSound, IsSound, SerialInv
<1>4. value # Kept => Serial!IsOver(buckets[k], req[r].at)
  <2>1. CASE req[r].own[k] # Kept
    BY <1>2, <1>3, <2>1 DEF Follows
  <2>2. CASE req[r].own[k] = Kept
    BY <1>2, <1>3, <2>2 DEF Row, Committed, Holds, Expired, Serial!IsOver
  <2>. QED
    BY <2>1, <2>2
<1>5. /\ x.phase = "pruning" /\ x.at = req[r].at /\ x.scope = req[r].scope
      /\ \A j \in Keys : x.own[j] = IF j = k THEN value ELSE req[r].own[j]
  BY <1>2, <1>3 DEF Busy
<1> HIDE DEF x
<1>6. Follows(x, buckets)
  BY <1>2, <1>3, <1>4, <1>5 DEF Follows
<1>. QED
  BY <1>2, <1>6, OneFollows

\* A bucket is opened only when the table has none.
LEMMA InsertFollows ==
    ASSUME LimitsInv, SerialInv, NEW r \in Requests, Insert(r)
    PROVE  SerialInv'
<1> DEFINE k == Visited(r)
           value == IF Row(r, k) = None THEN NewBucket(r, k) ELSE req[r].own[k]
           x == [req[r] EXCEPT !.phase = "select", !.own[k] = value]
<1>1. /\ req[r].phase = "insert" /\ req[r] # Idle /\ req[r].todo # {}
      /\ req' = [req EXCEPT ![r] = x] /\ buckets' = buckets
  BY DEF Insert, Proceed, Idle
<1>2. /\ req[r] \in Busy /\ k \in req[r].todo /\ k \in Keys
      /\ req[r].own \in [Keys -> Bucket \cup {None, Kept}]
      /\ InOrder(req[r]) /\ Follows(req[r], buckets)
  BY <1>1, BusyType, VisitedIsLeast DEF LimitsInv, RequestsAreSound, IsSound, SerialInv
<1>3. req[r].own[k] = Kept
  BY <1>1, <1>2 DEF InOrder
<1>4. value # Kept => buckets[k] = None
  BY <1>1, <1>2, <1>3 DEF Row, Committed, Holds
<1>5. /\ x.phase = "select" /\ x.at = req[r].at /\ x.scope = req[r].scope
      /\ x.todo = req[r].todo /\ x.refused = req[r].refused
      /\ \A j \in Keys : x.own[j] = IF j = k THEN value ELSE req[r].own[j]
  BY <1>1, <1>2 DEF Busy
<1> HIDE DEF x, value, k
<1>6. x.refused <=> \E j \in x.scope \ x.todo : ~Serial!HasRoom(buckets[j], j, x.at)
  BY <1>1, <1>2, <1>5 DEF Follows
<1>7. req[r].scope \in SUBSET Keys /\ req[r].todo \in SUBSET Keys
  BY <1>2 DEF Busy
<1>8. Follows(x, buckets)
  BY <1>1, <1>2, <1>4, <1>5, <1>6, <1>7 DEF Follows
<1>. QED
  BY <1>1, <1>8, OneFollows

\* The row that is counted is the one the table gives, or the one just opened.
LEMMA FoundIsOpened ==
    ASSUME LimitsInv, NEW r \in Requests, req[r].phase = "select", Row(r, Visited(r)) # None,
           Follows(req[r], buckets)
    PROVE  Opened(r, Visited(r)) = Serial!Found(buckets[Visited(r)], Visited(r), req[r].at)
<1> DEFINE k == Visited(r)
           fresh == [count |-> 0, expires |-> req[r].at + Window[k]]
<1>1. req[r] # Idle /\ req[r].phase = "select"
  BY DEF Idle
<1>2. /\ req[r] \in Busy /\ req[r].at \in Nat /\ InOrder(req[r])
  BY <1>1, BusyType DEF LimitsInv, RequestsAreSound, IsSound
<1>3. k \in req[r].todo /\ k \in Keys /\ \A j \in req[r].todo : k <= j
  BY <1>1, <1>2, VisitedIsLeast DEF InOrder, LimitsInv
<1>4. Row(r, k) = IF req[r].own[k] # Kept THEN req[r].own[k] ELSE buckets[k]
  BY <1>1, <1>3 DEF Row, Committed, Holds
<1> HIDE DEF k
<1>5. CASE req[r].own[k] # Kept
  <2>1. buckets[k] = None
    BY <1>1, <1>3, <1>5 DEF Follows
  <2>2. Row(r, k) = fresh
    BY <1>1, <1>2, <1>3, <1>4, <1>5 DEF InOrder
  <2>3. Window[k] \in Nat /\ Window[k] >= 1 /\ fresh.expires = req[r].at + Window[k]
    BY <1>3, LimitsAssumption
  <2>4. ~(fresh.expires <= req[r].at)
    BY <1>2, <2>3
  <2> HIDE DEF fresh
  <2>5. Opened(r, k) = fresh
    BY <2>2, <2>4 DEF Opened, Expired
  <2>. QED
    BY <2>1, <2>5 DEF Serial!Found, fresh, k
<1>6. CASE req[r].own[k] = Kept
  <2>1. Row(r, k) = buckets[k] /\ buckets[k] # None
    BY <1>4, <1>6 DEF k
  <2>. QED
    BY <2>1 DEF Opened, Expired, NewBucket, Serial!Found, Serial!IsOver, k
<1>. QED
  BY <1>5, <1>6

\* The count is the one of the table, which nobody changes until the commit.
LEMMA CountFollows ==
    ASSUME LimitsInv, SerialInv, NEW r \in Requests, Count(r)
    PROVE  SerialInv'
<1> DEFINE k == Visited(r)
           b == Opened(r, k)
           value == IF Full(k, b) THEN b ELSE [b EXCEPT !.count = @ + 1]
           x == [req[r] EXCEPT !.phase = "insert", !.todo = @ \ {k}, !.own[k] = value,
                               !.refused = @ \/ Full(k, b)]
<1>1. /\ req[r].phase = "select" /\ req[r] # Idle /\ Row(r, k) # None
      /\ req' = [req EXCEPT ![r] = x] /\ buckets' = buckets
  BY DEF Count, Proceed, Idle
<1>2. /\ req[r] \in Busy /\ req[r].at \in Nat /\ req[r].refused \in BOOLEAN
      /\ req[r].own \in [Keys -> Bucket \cup {None, Kept}]
      /\ InOrder(req[r]) /\ Follows(req[r], buckets)
  BY <1>1, BusyType DEF LimitsInv, RequestsAreSound, IsSound, SerialInv
<1>3. /\ k \in req[r].todo /\ k \in Keys /\ k \in req[r].scope
      /\ req[r].scope \in SUBSET Keys /\ req[r].todo \in SUBSET Keys
  BY <1>1, <1>2, VisitedIsLeast DEF InOrder, LimitsInv, Busy
<1>4. b = Serial!Found(buckets[k], k, req[r].at) /\ b \in Bucket
  BY <1>1, <1>2, FoundIsOpened, OpenedIsGuarded
<1> HIDE DEF k, b
<1>5. Full(k, b) <=> ~Serial!HasRoom(buckets[k], k, req[r].at)
  <2>1. b.count \in Nat /\ Maximum[k] \in Nat
    BY <1>3, <1>4, RowType, Numbers
  <2>. QED
    BY <1>4, <2>1 DEF Full, Serial!HasRoom
<1>6. value = Serial!Counted(buckets[k], k, req[r].at)
  BY <1>4, <1>5 DEF Serial!Counted
<1>7. /\ x.phase = "insert" /\ x.at = req[r].at /\ x.scope = req[r].scope
      /\ x.todo = req[r].todo \ {k}
      /\ x.refused = (req[r].refused \/ Full(k, b))
      /\ \A j \in Keys : x.own[j] = IF j = k THEN value ELSE req[r].own[j]
  BY <1>1, <1>2, <1>3 DEF Busy
<1> HIDE DEF x, value
<1>8. \A j \in x.scope \ x.todo : x.own[j] = Serial!Counted(buckets[j], j, x.at)
  BY <1>1, <1>2, <1>3, <1>6, <1>7 DEF Follows
<1>9. \A j \in x.todo : x.own[j] # Kept => buckets[j] = None
  BY <1>1, <1>2, <1>3, <1>7 DEF Follows
<1>10. x.refused <=> \E j \in x.scope \ x.todo : ~Serial!HasRoom(buckets[j], j, x.at)
  <2> DEFINE Room(j) == Serial!HasRoom(buckets[j], j, req[r].at)
  <2>1. req[r].refused <=> \E j \in req[r].scope \ req[r].todo : ~Room(j)
    BY <1>1, <1>2 DEF Follows
  <2>2. Full(k, b) <=> ~Room(k)
    BY <1>5
  <2> HIDE DEF Room
  <2>3. req[r].scope \ (req[r].todo \ {k}) = (req[r].scope \ req[r].todo) \cup {k}
    BY <1>3
  <2>4. (req[r].refused \/ Full(k, b))
            <=> \E j \in req[r].scope \ (req[r].todo \ {k}) : ~Room(j)
    BY <2>1, <2>2, <2>3, Zenon
  <2>. QED
    BY <1>7, <2>4, Zenon DEF Room
<1>11. Follows(x, buckets)
  BY <1>2, <1>7, <1>8, <1>9, <1>10 DEF Follows
<1>. QED
  BY <1>1, <1>11, OneFollows

LEMMA SerialInvInit == Init => SerialInv
  BY DEF Init, SerialInv

LEMMA SerialInvNext == LimitsInv /\ SerialInv /\ [Next]_vars => SerialInv'
<1> SUFFICES ASSUME LimitsInv, SerialInv, [Next]_vars
             PROVE  SerialInv'
  OBVIOUS
<1>1. now \in Nat /\ \A k \in Keys : buckets[k] \in Bucket \cup {None}
  BY DEF LimitsInv, TypeOK
<1>2. ASSUME NEW r \in Requests, AskForCode(r)
      PROVE  SerialInv'
  <2> DEFINE todo == {k \in Keys : Expired(buckets[k], now)}
  <2>1. PICK scope \in CodeScopes :
            Proceed(r, [Entered(now, scope) EXCEPT !.phase = "pruning", !.todo = todo])
    BY <1>2 DEF AskForCode
  <2>2. buckets' = buckets
    BY <1>2 DEF AskForCode
  <2> DEFINE x == [Entered(now, scope) EXCEPT !.phase = "pruning", !.todo = todo]
  <2>3. req' = [req EXCEPT ![r] = x]
    BY <2>1 DEF Proceed
  <2>4. Follows(x, buckets)
    <3>1. todo \in SUBSET Keys
      OBVIOUS
    <3> HIDE DEF todo
    <3>. QED
      BY <1>1, <3>1, EnteredFollows
  <2> HIDE DEF x
  <2>. QED
    BY <2>2, <2>3, <2>4, OneFollows
<1>3. ASSUME NEW r \in Requests, AskForVerification(r)
      PROVE  SerialInv'
  <2>1. PICK scope \in VerifyScopes : Proceed(r, Entered(now, scope))
    BY <1>3 DEF AskForVerification
  <2>2. buckets' = buckets /\ req' = [req EXCEPT ![r] = Entered(now, scope)]
    BY <1>3, <2>1 DEF AskForVerification, Proceed
  <2>3. Follows(Entered(now, scope), buckets)
    BY <1>1, EnteredFollows
  <2>. QED
    BY <2>2, <2>3, OneFollows
<1>4. ASSUME NEW r \in Requests, PruneEnds(r)
      PROVE  SerialInv'
  <2> DEFINE x == Entered(req[r].at, req[r].scope)
  <2>1. /\ req[r] # Idle /\ buckets' = Committed(r)
        /\ req' = [req EXCEPT ![r] = x]
    BY <1>4 DEF PruneEnds, Proceed, Idle
  <2>2. req[r].at \in Nat /\ req[r].scope \in CodeScopes \cup VerifyScopes
    BY <2>1, BusyType DEF LimitsInv, SerialInv, Follows
  <2>3. Follows(x, buckets')
    BY <2>2, EnteredFollows
  <2> HIDE DEF x
  <2>. QED
    BY <2>1, <2>3, OneFollows
<1>5. ASSUME NEW r \in Requests, RowVanished(r) \/ Fail(r) \/ Answer(r)
      PROVE  SerialInv'
  <2>1. /\ req' = [req EXCEPT ![r] = Idle]
        /\ buckets' = buckets \/ buckets' = Committed(r)
    BY <1>5 DEF RowVanished, Fail, Answer, Proceed
  <2>. QED
    BY <2>1, OneFollows
<1>6. CASE Advance \/ UNCHANGED vars
  <2>1. req' = req /\ buckets' = buckets
    BY <1>6 DEF Advance, vars
  <2>. QED
    BY <2>1 DEF SerialInv
<1>. QED
  BY <1>2, <1>3, <1>4, <1>5, <1>6, PruneRowFollows, InsertFollows, CountFollows
     DEF Next, Step

SerialStep == [Serial!Next]_(Serial!vars)

LEMMA SerialStutter ==
    ASSUME UNCHANGED <<now, buckets, admitted>>
    PROVE  SerialStep
  BY DEF SerialStep, Serial!vars

LEMMA DateIsServed ==
    ASSUME LimitsInv, NEW r \in Requests, req[r] # Idle
    PROVE  req[r].at \in Serial!Dates
<1>1. req[r].at \in Nat /\ now \in Nat /\ MaxLag \in Nat
  BY BusyType, LimitsAssumption DEF LimitsInv, TypeOK
<1>2. IsRecent(req[r])
  BY DEF LimitsInv, RequestsAreSound, IsSound
<1>. QED
  BY <1>1, <1>2 DEF IsRecent, Serial!Dates

\* What a request prunes is over at its date, whatever happened since it looked.
LEMMA PruneEndsRefines ==
    ASSUME LimitsInv, SerialInv, NEW r \in Requests, PruneEnds(r)
    PROVE  SerialStep
<1>1. /\ req[r].phase = "pruning" /\ req[r] # Idle /\ buckets' = Committed(r)
      /\ now' = now /\ admitted' = admitted
  BY DEF PruneEnds, Idle
<1>2. InOrder(req[r]) /\ Follows(req[r], buckets)
  BY <1>1 DEF LimitsInv, RequestsAreSound, IsSound, SerialInv
<1> DEFINE S == {k \in Keys : Holds(r, k)}
<1>3. S \in SUBSET {k \in Keys : Serial!IsOver(buckets[k], req[r].at)}
  BY <1>1, <1>2 DEF Follows, Holds
<1>4. \A k \in Keys : Holds(r, k) => req[r].own[k] = None
  BY <1>1, <1>2 DEF InOrder, Holds
<1>5. buckets' = [k \in Keys |-> IF k \in S THEN None ELSE buckets[k]]
  BY <1>1, <1>4 DEF Committed
<1> HIDE DEF S
<1>6. Serial!Prune(S)
  BY <1>1, <1>5 DEF Serial!Prune
<1>. QED
  BY <1>1, <1>3, <1>6, DateIsServed DEF SerialStep, Serial!Next

\* What a request commits is what it would have found and counted alone at its commit.
LEMMA AnswerRefines ==
    ASSUME LimitsInv, SerialInv, NEW r \in Requests, Answer(r)
    PROVE  SerialStep
<1> DEFINE scope == req[r].scope
           t == req[r].at
           Room(k) == Serial!HasRoom(buckets[k], k, t)
<1>1. /\ req[r].phase = "insert" /\ req[r] # Idle /\ req[r].todo = {} /\ now' = now
      /\ buckets' = Committed(r)
      /\ admitted' = [k \in Keys |->
            IF k \in scope /\ ~req[r].refused
            THEN Append(admitted[k], [at |-> t, done |-> now]) ELSE admitted[k]]
  BY DEF Answer, Idle
<1>2. InOrder(req[r]) /\ Follows(req[r], buckets) /\ scope \in SUBSET Keys
  BY <1>1, BusyType DEF LimitsInv, RequestsAreSound, IsSound, SerialInv
<1>3. \A k \in Keys : Holds(r, k) <=> k \in scope
  BY <1>1, <1>2 DEF InOrder, Holds
<1>4. \A k \in scope : req[r].own[k] = Serial!Counted(buckets[k], k, t)
  BY <1>1, <1>2 DEF Follows
<1>5. ~req[r].refused <=> \A j \in scope : Room(j)
  <2>1. req[r].refused <=> \E k \in scope \ req[r].todo : ~Room(k)
    BY <1>1, <1>2 DEF Follows
  <2> HIDE DEF Room, scope
  <2>. QED
    BY <1>1, <2>1, Zenon
<1>6. scope \in CodeScopes \cup VerifyScopes
  BY <1>2 DEF Follows
<1>7. buckets' = [k \in Keys |->
        IF k \in scope THEN Serial!Counted(buckets[k], k, t) ELSE buckets[k]]
  BY <1>1, <1>2, <1>3, <1>4 DEF Committed
<1>8. admitted' = [k \in Keys |->
        IF k \in scope /\ \A j \in scope : Room(j)
        THEN Append(admitted[k], [at |-> t, done |-> now]) ELSE admitted[k]]
  <2> HIDE DEF Room, scope, t
  <2>. QED
    BY <1>1, <1>5, Zenon
<1>9. Serial!Serve(scope, t)
  BY <1>1, <1>7, <1>8 DEF Serial!Serve
<1>. QED
  BY <1>1, <1>6, <1>9, DateIsServed DEF SerialStep, Serial!Next

\* Whatever requests are served at the same time and however old their dates, the limits
\* count each in all its buckets at once, and lose no bucket but an old one.
THEOREM CountsSerialize == Spec => ImplementsSerial
<1>1. Init => Serial!Init
  BY DEF Init, Serial!Init
<1>2. LimitsInv /\ SerialInv /\ [Next]_vars => [Serial!Next]_(Serial!vars)
  <2> SUFFICES ASSUME LimitsInv, SerialInv, [Next]_vars
               PROVE  SerialStep
    BY DEF SerialStep
  <2>1. ASSUME NEW r \in Requests,
               \/ AskForCode(r) \/ AskForVerification(r) \/ PruneRow(r) \/ Insert(r)
               \/ Count(r) \/ RowVanished(r) \/ Fail(r)
        PROVE  SerialStep
    BY <2>1, SerialStutter
       DEF AskForCode, AskForVerification, PruneRow, Insert, Count, RowVanished, Fail
  <2>2. CASE Advance
    BY <2>2 DEF Advance, SerialStep, Serial!Next, Serial!Tick
  <2>3. CASE UNCHANGED vars
    BY <2>3, SerialStutter DEF vars
  <2>. QED
    BY <2>1, <2>2, <2>3, PruneEndsRefines, AnswerRefines DEF Next, Step
<1>3. Spec => []SerialInv
  BY SerialInvInit, SerialInvNext, LimitsKeepInvariant, PTL DEF Spec
<1>4. QED
  BY <1>1, <1>2, <1>3, LimitsKeepInvariant, PTL DEF Spec, ImplementsSerial, Serial!Spec

==============================================================================
