-------------------------- MODULE LoltvPolicyProofs --------------------------
(***************************************************************************)
(* Theorems about LoltvPolicy: the pauses, the spacing and the budgets are *)
(* kept by any number of threads, for every delay, window and budget, with *)
(* no bound on the clock.                                                  *)
(***************************************************************************)
EXTENDS LoltvPolicy, TLAPS

\* What the row still holds of the pauses refusals have asked for.
PauseInRow == pause <= row.blocked \/ pause <= now

\* A thread that waits has drawn a delay.
DelayDrawn == \A c \in Callers : Phase(c) \in Pausing => call[c].delay >= MinDelay

\* The collector opens no page when the natural requests are exhausted.
PageWithinBudget ==
    /\ row.browserCount <= BrowserBudget
    /\ row.browserStart <= now
    /\ Phase(Collector) \in {"waiting", "reading", "clicking"} => ~BrowserExhausted

\* The last request is the one the row dates.
LastInRow ==
    /\ sent # <<>> => row.request = sent[Len(sent)]
    /\ row.request <= now

\* The requests of the current window are the last count ones, and those before the
\* preceding window are at least a window older.
WindowsInRow ==
    /\ row.start <= now
    /\ row.count <= Budget
    /\ row.count <= Len(sent)
    /\ \A i \in 1 .. Len(sent) - row.count : sent[i] <= row.start
    /\ \A i \in 1 .. Len(sent) : sent[i] <= now
    /\ \A i \in 1 .. Len(sent) - row.count - Budget : sent[i] + Window <= row.start

PolicyInv == TypeOK /\ PauseInRow /\ DelayDrawn /\ PageWithinBudget /\ LastInRow

USE DEF Pausing, Open

\* The range of a pause.
LEMMA DurationIsNat ==
    ASSUME NEW n \in Nat \ {0}
    PROVE  Duration(n) \in Nat /\ Duration(n) >= Cooldown
<1>1. Earlier(n, 7) \in 1 .. 7
  BY DEF Earlier
<1>2. Doubling[Earlier(n, 7)] \in Nat
  BY <1>1 DEF Doubling
<1>3. Cooldown * Doubling[Earlier(n, 7)] \in Nat
  BY <1>2, PolicyAssumption
<1>. QED
  BY <1>3, PolicyAssumption DEF Duration, Later, Earlier

\* A refusal asks for no less than the cooldown and what its answer says, and takes
\* nothing back.
LEMMA UntilIsLater ==
    ASSUME TypeOK, NEW retry \in RetryAfters
    PROVE  /\ Streak \in Nat
           /\ Until(retry) \in Nat
           /\ Until(retry) >= row.blocked
           /\ Until(retry) >= now + Later(Cooldown, retry)
<1>1. Streak \in Nat /\ Later(Streak, 1) \in Nat \ {0}
  BY DEF TypeOK, Row, Streak, Later
<1>2. Duration(Later(Streak, 1)) \in Nat /\ Duration(Later(Streak, 1)) >= Cooldown
  BY <1>1, DurationIsNat
<1>3. retry \in Nat /\ Cooldown \in Nat
  BY PolicyAssumption
<1>4. now \in Nat /\ row.blocked \in Nat
  BY DEF TypeOK, Row
<1>. QED
  BY <1>1, <1>2, <1>3, <1>4 DEF Until, Later

\* A caller that does not wait afterwards.
LEMMA GoesKeepsDelays ==
    ASSUME TypeOK, DelayDrawn, NEW c \in Callers, NEW phase \in Phases \ Pausing,
           Goes(c, phase)
    PROVE  /\ call' \in [Callers -> [phase : Phases, delay : 0 .. MaxDelay]]
           /\ DelayDrawn'
           /\ Phase(c)' = phase
           /\ \A d \in Callers \ {c} : Phase(d)' = Phase(d)
BY PolicyAssumption DEF TypeOK, Goes, Phase, DelayDrawn

\* Nobody waits when the pages are closed, and none is open.
LEMMA CloseBrowserKeepsDelays ==
    ASSUME TypeOK, DelayDrawn, CloseBrowser
    PROVE  /\ call' \in [Callers -> [phase : Phases, delay : 0 .. MaxDelay]]
           /\ DelayDrawn'
           /\ Phase(Collector)' \in {"off", "between"}
<1>1. PICK phase \in {"off", "between"} : Goes(Collector, phase)
  BY DEF CloseBrowser
<1>2. phase \in Phases \ Pausing /\ Collector \in Callers
  BY DEF Phases, Callers
<1>. QED
  BY <1>1, <1>2, GoesKeepsDelays

\* A step that leaves the callers alone leaves them their delays.
LEMMA SameCall ==
    ASSUME TypeOK, DelayDrawn, UNCHANGED call
    PROVE  /\ call' \in [Callers -> [phase : Phases, delay : 0 .. MaxDelay]]
           /\ DelayDrawn'
           /\ \A d \in Callers : Phase(d)' = Phase(d)
BY DEF TypeOK, Phase, DelayDrawn

\* The empty row satisfies the invariant.
LEMMA PolicyInvInit == Init => PolicyInv
<1>. SUFFICES ASSUME Init PROVE PolicyInv
  OBVIOUS
<1>1. TypeOK
  BY PolicyAssumption DEF Init, TypeOK, Row, Start, Phases, Callers
<1>. QED
  BY <1>1, PolicyAssumption
  DEF PolicyInv, PauseInRow, DelayDrawn, PageWithinBudget, LastInRow, Init, Phase,
      Callers, BrowserExhausted, WindowOver, Start

\* Every step keeps the invariant.
LEMMA PolicyInvStep == PolicyInv /\ [Next]_vars => PolicyInv'
<1>. SUFFICES ASSUME PolicyInv, [Next]_vars PROVE PolicyInv'
  OBVIOUS
<1>. USE DEF PolicyInv
<1>c. /\ MinDelay \in Nat /\ MaxDelay \in Nat /\ Window \in Nat /\ Cooldown \in Nat
      /\ BrowserBudget \in Nat \ {0}
      /\ RetryAfters \subseteq Nat
  BY PolicyAssumption
<1>0. Collector \in Callers
  BY DEF Callers
<1>t. /\ now \in Nat
      /\ row \in Row
      /\ sent \in Seq(Nat)
      /\ pause \in Nat
      /\ clean \in BOOLEAN
      /\ row.browserStart \in Nat /\ row.browserCount \in Nat /\ row.request \in Nat
      /\ row.page \in Nat /\ row.start \in Nat /\ row.count \in Nat
      /\ row.blocked \in Nat /\ row.streak \in Nat
  BY DEF TypeOK, Row
<1>1. CASE StartCycle
  BY <1>0, <1>1, GoesKeepsDelays
  DEF StartCycle, TypeOK, Phases, PauseInRow, PageWithinBudget, LastInRow, BrowserExhausted,
      WindowOver
<1>2. CASE StopCycle
  <2>1. /\ call' \in [Callers -> [phase : Phases, delay : 0 .. MaxDelay]]
        /\ DelayDrawn'
        /\ Phase(Collector)' = "off"
    BY <1>0, <1>2, GoesKeepsDelays DEF StopCycle, Phases
  <2>2. row' = row \/ row' = [row EXCEPT !.page = now]
    BY <1>2 DEF StopCycle, PageMayEnd
  <2>. QED
    BY <1>2, <1>t, <2>1, <2>2
    DEF StopCycle, TypeOK, Row, PauseInRow, PageWithinBudget, LastInRow
<1>3. CASE BrowserRequest
  <2> DEFINE over  == WindowOver(row.browserStart)
             count == IF over THEN 1 ELSE row.browserCount + 1
  <2>1. row' = [row EXCEPT !.browserStart = IF over THEN now ELSE @,
                           !.browserCount = count,
                           !.page = IF count >= BrowserBudget THEN now ELSE @]
    BY <1>3 DEF BrowserRequest
  <2>2. count \in Nat
    BY <1>t
  <2>3. /\ row' \in Row
        /\ row'.browserCount = count
        /\ row'.browserStart = IF over THEN now ELSE row.browserStart
        /\ row'.blocked = row.blocked
        /\ row'.request = row.request
    BY <1>t, <2>1, <2>2 DEF Row
  <2>4. Phase(Collector) \in Open /\ ~BrowserExhausted
    BY <1>3 DEF BrowserRequest, PageWithinBudget
  <2>5. count <= BrowserBudget
    BY <1>c, <1>t, <2>4 DEF BrowserExhausted
  <2>6. /\ now' = now /\ clean' = clean /\ sent' = sent /\ pause' = pause
        /\ IF count >= BrowserBudget THEN CloseBrowser ELSE UNCHANGED call
    BY <1>3 DEF BrowserRequest
  <2>7. /\ call' \in [Callers -> [phase : Phases, delay : 0 .. MaxDelay]]
        /\ DelayDrawn'
        /\ count >= BrowserBudget => Phase(Collector)' \in {"off", "between"}
    BY <2>6, CloseBrowserKeepsDelays, SameCall
  <2>8. PageWithinBudget'
    BY <1>c, <1>t, <2>2, <2>3, <2>5, <2>6, <2>7
    DEF PageWithinBudget, BrowserExhausted, WindowOver
  <2>. QED
    BY <1>t, <2>3, <2>6, <2>7, <2>8 DEF TypeOK, PauseInRow, LastInRow
<1>4. CASE BrowserRequestRefused
  <2>1. /\ call' \in [Callers -> [phase : Phases, delay : 0 .. MaxDelay]]
        /\ DelayDrawn'
        /\ Phase(Collector)' \in {"off", "between"}
    BY <1>4, CloseBrowserKeepsDelays DEF BrowserRequestRefused
  <2>. QED
    BY <1>4, <1>t, <2>1
    DEF BrowserRequestRefused, TypeOK, Row, PauseInRow, PageWithinBudget, LastInRow
<1>5. CASE EndCycle
  <2>1. /\ call' \in [Callers -> [phase : Phases, delay : 0 .. MaxDelay]]
        /\ DelayDrawn'
        /\ Phase(Collector)' = "off"
    BY <1>0, <1>5, GoesKeepsDelays DEF EndCycle, Phases
  <2>2. row' = row \/ (row' = [row EXCEPT !.blocked = 0, !.streak = 0] /\ ~Blocked)
    <3>1. row' = IF clean THEN Clears ELSE row
      BY <1>5 DEF EndCycle
    <3>. QED
      BY <3>1, Zenon DEF Clears
  <2>3. /\ row' \in Row
        /\ row'.browserCount = row.browserCount
        /\ row'.browserStart = row.browserStart
        /\ row'.request = row.request
        /\ row'.blocked = row.blocked \/ row.blocked <= now
    <3>1. CASE row' = row
      BY <1>t, <3>1
    <3>2. CASE row' = [row EXCEPT !.blocked = 0, !.streak = 0] /\ ~Blocked
      <4>1. row.blocked <= now
        BY <1>t, <3>2 DEF Blocked
      <4>2. row' = [row EXCEPT !.blocked = 0, !.streak = 0]
        BY <3>2
      <4>3. /\ row' \in Row
            /\ row'.browserCount = row.browserCount
            /\ row'.browserStart = row.browserStart
            /\ row'.request = row.request
        BY <1>t, <4>2 DEF Row
      <4>. QED
        BY <4>1, <4>3
    <3>. QED
      BY <2>2, <3>1, <3>2
  <2>4. now' = now /\ clean' = clean /\ sent' = sent /\ pause' = pause
    BY <1>5 DEF EndCycle
  <2>. QED
    BY <1>t, <2>1, <2>3, <2>4 DEF TypeOK, PauseInRow, PageWithinBudget, LastInRow
<1>6. ASSUME NEW c \in Callers, Ask(c) PROVE PolicyInv'
  <2>1. PICK delay \in MinDelay .. MaxDelay :
            call' = [call EXCEPT ![c] =
                [phase |-> IF Phase(c) = "reading" THEN "clicking" ELSE "waiting",
                 delay |-> delay]]
    BY <1>6 DEF Ask
  <2>2. call' \in [Callers -> [phase : Phases, delay : 0 .. MaxDelay]] /\ DelayDrawn'
    <3>1. delay \in 0 .. MaxDelay /\ delay >= MinDelay
      BY <1>c
    <3>2. \A d \in Callers : call'[d] =
              IF d = c
              THEN [phase |-> IF Phase(c) = "reading" THEN "clicking" ELSE "waiting",
                    delay |-> delay]
              ELSE call[d]
      BY <2>1 DEF TypeOK
    <3>3. call' \in [Callers -> [phase : Phases, delay : 0 .. MaxDelay]]
      BY <2>1, <3>1 DEF TypeOK, Phases
    <3>. QED
      BY <3>1, <3>2, <3>3 DEF DelayDrawn, Phase
  <2>3. c # Collector => Phase(Collector)' = Phase(Collector)
    BY <1>0, <2>1 DEF TypeOK, Phase
  <2>4. c = Collector => ~BrowserExhausted
    BY <1>6 DEF Ask, MayGoOn
  <2>. QED
    BY <1>6, <1>t, <2>2, <2>3, <2>4
    DEF Ask, TypeOK, PauseInRow, PageWithinBudget, LastInRow, BrowserExhausted, WindowOver
<1>7. ASSUME NEW c \in Callers, Send(c) PROVE PolicyInv'
  <2>1. /\ call' \in [Callers -> [phase : Phases, delay : 0 .. MaxDelay]]
        /\ DelayDrawn'
        /\ c # Collector => Phase(Collector)' = Phase(Collector)
    BY <1>0, <1>7, GoesKeepsDelays DEF Send, Phases
  <2>2. /\ row' \in Row
        /\ row'.browserCount = row.browserCount
        /\ row'.browserStart = row.browserStart
        /\ row'.blocked = row.blocked
        /\ row'.request = now
    <3> DEFINE start == IF WindowOver(row.start) THEN now ELSE row.start
               count == IF WindowOver(row.start) THEN 1 ELSE row.count + 1
    <3>1. row' = [row EXCEPT !.request = now, !.start = start, !.count = count]
      BY <1>7, <1>t DEF Send, Row
    <3>2. start \in Nat /\ count \in Nat
      BY <1>t
    <3>. HIDE DEF start, count
    <3>. QED
      BY <1>t, <3>1, <3>2 DEF Row
  <2>3. /\ sent' \in Seq(Nat) /\ sent' # <<>> /\ sent'[Len(sent')] = now
        /\ now' = now /\ clean' = clean /\ pause' = pause
    <3>1. sent' = Append(sent, now) /\ now' = now /\ clean' = clean /\ pause' = pause
      BY <1>7 DEF Send
    <3>. QED
      BY <1>t, <3>1
  <2>4. c = Collector => Phase(Collector) \in {"waiting", "clicking"}
    BY <1>7 DEF Send
  <2>5. PageWithinBudget'
    BY <1>c, <1>t, <2>1, <2>2, <2>3, <2>4 DEF PageWithinBudget, BrowserExhausted, WindowOver
  <2>6. LastInRow'
    BY <1>t, <2>2, <2>3 DEF LastInRow
  <2>. QED
    BY <1>t, <2>1, <2>2, <2>3, <2>5, <2>6 DEF TypeOK, PauseInRow
<1>8. ASSUME NEW c \in Callers, GiveUp(c) PROVE PolicyInv'
  <2>1. /\ call' \in [Callers -> [phase : Phases, delay : 0 .. MaxDelay]]
        /\ DelayDrawn'
        /\ Phase(c)' = "off"
        /\ c # Collector => Phase(Collector)' = Phase(Collector)
    BY <1>0, <1>8, GoesKeepsDelays DEF GiveUp, Phases
  <2>2. row' = row \/ row' = [row EXCEPT !.page = now]
    BY <1>8 DEF GiveUp, PageMayEnd
  <2>. QED
    BY <1>8, <1>t, <2>1, <2>2
    DEF GiveUp, TypeOK, Row, PauseInRow, PageWithinBudget, LastInRow, BrowserExhausted,
        WindowOver
<1>9. ASSUME NEW c \in Callers, Served(c) PROVE PolicyInv'
  <2>1. /\ call' \in [Callers -> [phase : Phases, delay : 0 .. MaxDelay]]
        /\ DelayDrawn'
        /\ c = Collector => Phase(Collector)' = "between"
        /\ c # Collector => Phase(Collector)' = Phase(Collector)
    BY <1>0, <1>9, GoesKeepsDelays DEF Served, Phases
  <2>2. row' = row \/ row' = [row EXCEPT !.page = now]
    BY <1>9 DEF Served, PageMayEnd
  <2>3. clean' \in BOOLEAN /\ now' = now /\ sent' = sent /\ pause' = pause
    BY <1>9, <1>t DEF Served
  <2>. QED
    BY <1>t, <2>1, <2>2, <2>3
    DEF TypeOK, Row, PauseInRow, PageWithinBudget, LastInRow, BrowserExhausted, WindowOver
<1>10. ASSUME NEW c \in Callers, Refused(c) PROVE PolicyInv'
  <2>1. /\ call' \in [Callers -> [phase : Phases, delay : 0 .. MaxDelay]]
        /\ DelayDrawn'
        /\ c = Collector => Phase(Collector)' \in {"off", "between"}
        /\ c # Collector => Phase(Collector)' = Phase(Collector)
    BY <1>0, <1>10, GoesKeepsDelays, CloseBrowserKeepsDelays DEF Refused, Phases
  <2>2. PICK retry \in RetryAfters, r \in PageMayEnd :
            /\ row' = [r EXCEPT !.blocked = Until(retry), !.streak = Streak]
            /\ pause' = Later(pause, now + Later(Cooldown, retry))
    BY <1>10 DEF Refused, PageMayEnd
  <2>3. /\ Streak \in Nat
        /\ Until(retry) \in Nat
        /\ Until(retry) >= row.blocked
        /\ Until(retry) >= now + Later(Cooldown, retry)
    BY UntilIsLater
  <2>4. r = row \/ r = [row EXCEPT !.page = now]
    BY DEF PageMayEnd
  <2>5. /\ row' \in Row
        /\ row'.browserCount = row.browserCount
        /\ row'.browserStart = row.browserStart
        /\ row'.blocked = Until(retry)
        /\ row'.request = row.request
    BY <1>t, <2>2, <2>3, <2>4 DEF Row
  <2>6. pause' \in Nat /\ PauseInRow'
    <3>1. now' = now /\ retry \in Nat
      BY <1>10, <1>c DEF Refused
    <3>2. Later(Cooldown, retry) \in Nat
      BY <1>c, <3>1 DEF Later
    <3>3. now + Later(Cooldown, retry) \in Nat /\ now + Later(Cooldown, retry) <= Until(retry)
      BY <1>t, <2>3, <3>2
    <3>4. pause' = pause \/ pause' = now + Later(Cooldown, retry)
      BY <2>2 DEF Later
    <3>. QED
      BY <1>t, <2>3, <2>5, <3>1, <3>3, <3>4 DEF PauseInRow
  <2>7. now' = now /\ clean' = clean /\ sent' = sent
    BY <1>10 DEF Refused
  <2>. QED
    BY <1>t, <2>1, <2>5, <2>6, <2>7
    DEF TypeOK, PageWithinBudget, LastInRow, BrowserExhausted, WindowOver
<1>11. ASSUME NEW c \in Callers, Crash(c) PROVE PolicyInv'
  <2>1. /\ call' \in [Callers -> [phase : Phases, delay : 0 .. MaxDelay]]
        /\ DelayDrawn'
        /\ Phase(c)' = "off"
        /\ c # Collector => Phase(Collector)' = Phase(Collector)
    BY <1>0, <1>11, GoesKeepsDelays DEF Crash, Phases
  <2>. QED
    BY <1>11, <1>t, <2>1
    DEF Crash, TypeOK, PauseInRow, PageWithinBudget, LastInRow, BrowserExhausted, WindowOver
<1>12. CASE Advance
  <2>1. /\ now' = now + 1 /\ row' = row /\ call' = call /\ clean' = clean
        /\ sent' = sent /\ pause' = pause
    BY <1>12 DEF Advance
  <2>2. ~BrowserExhausted => ~BrowserExhausted'
    BY <1>c, <1>t, <2>1 DEF BrowserExhausted, WindowOver, PageWithinBudget
  <2>3. /\ call' \in [Callers -> [phase : Phases, delay : 0 .. MaxDelay]]
        /\ DelayDrawn'
        /\ Phase(Collector)' = Phase(Collector)
    BY <1>0, <2>1, SameCall
  <2>. QED
    BY <1>t, <2>1, <2>2, <2>3 DEF TypeOK, PauseInRow, PageWithinBudget, LastInRow
<1>13. CASE UNCHANGED vars
  BY <1>13
  DEF vars, TypeOK, PauseInRow, DelayDrawn, PageWithinBudget, LastInRow, Phase,
      BrowserExhausted, WindowOver
<1>. QED
  BY <1>1, <1>2, <1>3, <1>4, <1>5, <1>6, <1>7, <1>8, <1>9, <1>10, <1>11, <1>12, <1>13
  DEF Next

\* The invariant of the row and of the callers that share it.
THEOREM PolicyCorrect == Spec => []PolicyInv
BY PolicyInvInit, PolicyInvStep, PTL DEF Spec

\* The row, the clock and the callers keep their types.
THEOREM TypeCorrect == Spec => []TypeOK
<1>1. PolicyInv => TypeOK
  BY DEF PolicyInv
<1>. QED
  BY <1>1, PolicyCorrect, PTL

\* The natural requests of the browser never pass their budget.
THEOREM BrowserBudgetCorrect == Spec => []BrowserBudgetKept
<1>1. PolicyInv => BrowserBudgetKept
  BY DEF PolicyInv, PageWithinBudget, BrowserBudgetKept
<1>. QED
  BY <1>1, PolicyCorrect, PTL

-----------------------------------------------------------------------------
\* A request leaves by Send alone.
LEMMA OnlySendSends ==
    ASSUME [Next]_vars, sent' # sent
    PROVE  \E c \in Callers : Send(c)
BY DEF Next, vars, StartCycle, StopCycle, BrowserRequest, BrowserRequestRefused, EndCycle,
       Ask, GiveUp, Served, Refused, Crash, Advance

\* What every other step leaves in the row: the window, and the streak unless a caller is
\* refused while no pause runs.
LEMMA RowLeftAlone ==
    ASSUME PolicyInv, [Next]_vars, \A c \in Callers : ~Send(c)
    PROVE  /\ row'.start = row.start
           /\ row'.count = row.count
           /\ now' \in {now, now + 1}
           /\ sent' = sent
           /\ row'.streak > row.streak => ~Blocked
<1>t. /\ now \in Nat /\ row \in Row /\ row.streak \in Nat
      /\ [row EXCEPT !.page = now] \in Row
  BY DEF PolicyInv, TypeOK, Row
<1>p. /\ [row EXCEPT !.page = now].start = row.start
      /\ [row EXCEPT !.page = now].count = row.count
      /\ [row EXCEPT !.page = now].streak = row.streak
  BY <1>t DEF Row
<1>1. CASE StartCycle \/ UNCHANGED vars \/ Advance
           \/ \E c \in Callers : Ask(c) \/ Crash(c)
  BY <1>t, <1>1 DEF StartCycle, vars, Advance, Ask, Crash
<1>2. CASE StopCycle \/ BrowserRequestRefused \/ \E c \in Callers : GiveUp(c) \/ Served(c)
  <2>1. row' \in PageMayEnd /\ now' = now /\ sent' = sent
    BY <1>2 DEF StopCycle, BrowserRequestRefused, GiveUp, Served, PageMayEnd
  <2>2. row' = row \/ row' = [row EXCEPT !.page = now]
    BY <2>1 DEF PageMayEnd
  <2>3. row'.start = row.start /\ row'.count = row.count /\ row'.streak = row.streak
    BY <1>t, <2>2 DEF Row
  <2>. QED
    BY <1>t, <2>1, <2>3
<1>3. CASE BrowserRequest
  <2>1. PICK start, count, page :
            row' = [row EXCEPT !.browserStart = start, !.browserCount = count, !.page = page]
    BY <1>3, Zenon DEF BrowserRequest
  <2>2. now' = now /\ sent' = sent
    BY <1>3 DEF BrowserRequest
  <2>3. row'.start = row.start /\ row'.count = row.count /\ row'.streak = row.streak
    BY <1>t, <2>1 DEF Row
  <2>. QED
    BY <1>t, <2>2, <2>3
<1>4. CASE EndCycle
  <2>1. row' = row \/ row' = [row EXCEPT !.blocked = 0, !.streak = 0]
    <3>1. row' = IF clean THEN Clears ELSE row
      BY <1>4 DEF EndCycle
    <3>. QED
      BY <3>1, Zenon DEF Clears
  <2>2. now' = now /\ sent' = sent
    BY <1>4 DEF EndCycle
  <2>3. row'.start = row.start /\ row'.count = row.count /\ row'.streak \in {0, row.streak}
    BY <1>t, <2>1 DEF Row
  <2>. QED
    BY <1>t, <2>2, <2>3
<1>5. ASSUME NEW c \in Callers, Refused(c)
      PROVE  /\ row'.start = row.start /\ row'.count = row.count
             /\ now' \in {now, now + 1} /\ sent' = sent
             /\ row'.streak > row.streak => ~Blocked
  <2>1. PICK retry \in RetryAfters, r \in PageMayEnd :
            row' = [r EXCEPT !.blocked = Until(retry), !.streak = Streak]
    BY <1>5 DEF Refused, PageMayEnd
  <2>2. now' = now /\ sent' = sent
    BY <1>5 DEF Refused
  <2>3. r \in Row /\ r.start = row.start /\ r.count = row.count
    BY <1>t, <1>p DEF PageMayEnd
  <2>4. row'.start = row.start /\ row'.count = row.count /\ row'.streak = Streak
    BY <2>1, <2>3 DEF Row
  <2>. QED
    BY <1>t, <2>2, <2>4 DEF Streak
<1>. QED
  BY <1>1, <1>2, <1>3, <1>4, <1>5 DEF Next

\* When no pause runs, every pause ever asked for is over.
LEMMA PausesAreOver ==
    ASSUME PolicyInv, ~Blocked
    PROVE  pause <= now
BY DEF PolicyInv, TypeOK, Row, PauseInRow, Blocked

\* No request leaves during a pause.
THEOREM PausesCorrect == Spec => PausesKept
<1>1. PolicyInv /\ [Next]_vars => [sent' # sent => pause <= now]_vars
  BY OnlySendSends, PausesAreOver DEF Send, MaySend
<1>. QED
  BY <1>1, PolicyCorrect, PTL DEF Spec, PausesKept

\* Requests in flight together count for one refusal.
THEOREM StreakCorrect == Spec => StreakCountsServedPauses
<1>1. ASSUME PolicyInv, [Next]_vars, row'.streak > row.streak PROVE pause <= now
  <2>1. CASE \E c \in Callers : Send(c)
    BY <2>1, PausesAreOver, <1>1 DEF Send, MaySend
  <2>2. CASE \A c \in Callers : ~Send(c)
    BY <2>2, <1>1, RowLeftAlone, PausesAreOver
  <2>. QED
    BY <2>1, <2>2
<1>2. PolicyInv /\ [Next]_vars => [row'.streak > row.streak => pause <= now]_vars
  BY <1>1
<1>. QED
  BY <1>2, PolicyCorrect, PTL DEF Spec, StreakCountsServedPauses

\* Requests are spaced, whoever sends them.
THEOREM SpacingCorrect == Spec => RequestsAreSpaced
<1>1. ASSUME PolicyInv, [Next]_vars, sent' # sent
      PROVE  /\ row.page + MinDelay <= now
             /\ sent # <<>> => sent[Len(sent)] + MinDelay <= now
  <2>1. PICK c \in Callers : Send(c)
    BY <1>1, OnlySendSends
  <2>2. Previous + call[c].delay <= now /\ Phase(c) \in Pausing
    BY <2>1 DEF Send
  <2>3. call[c].delay \in Nat /\ call[c].delay >= MinDelay /\ MinDelay \in Nat
    BY <1>1, <2>2, PolicyAssumption DEF PolicyInv, TypeOK, DelayDrawn
  <2>4. row.page \in Nat /\ row.request \in Nat /\ now \in Nat
    BY <1>1 DEF PolicyInv, TypeOK, Row
  <2>5. row.page + MinDelay <= now /\ row.request + MinDelay <= now
    BY <2>2, <2>3, <2>4 DEF Previous, Later
  <2>. QED
    BY <1>1, <2>5 DEF PolicyInv, LastInRow
<1>2. PolicyInv /\ [Next]_vars =>
        [sent' # sent => /\ row.page + MinDelay <= now
                         /\ sent # <<>> => sent[Len(sent)] + MinDelay <= now]_vars
  BY <1>1
<1>. QED
  BY <1>2, PolicyCorrect, PTL DEF Spec, RequestsAreSpaced

-----------------------------------------------------------------------------
\* The windows the row dates, and what they say of the whole history.
BudgetInv == WindowsInRow /\ BudgetKept

\* A request leaves the row dating the current window and the one before it.
LEMMA BudgetInvSend ==
    ASSUME PolicyInv, BudgetInv, NEW c \in Callers, Send(c)
    PROVE  BudgetInv'
<1>c. Window \in Nat \ {0} /\ Budget \in Nat \ {0}
  BY PolicyAssumption
<1>t. /\ now \in Nat /\ sent \in Seq(Nat) /\ row \in Row
      /\ row.start \in Nat /\ row.count \in Nat
  BY DEF PolicyInv, TypeOK, Row
<1> DEFINE L     == Len(sent)
           over  == now - row.start >= Window
           start == IF over THEN now ELSE row.start
           count == IF over THEN 1 ELSE row.count + 1
<1>1. /\ now' = now
      /\ sent' = Append(sent, now)
      /\ row' = [row EXCEPT !.request = now, !.start = start, !.count = count]
  BY <1>t DEF Send, Row, WindowOver
<1>2. over \/ row.count < Budget
  BY <1>c, <1>t DEF Send, MaySend, Exhausted, WindowOver
<1>3. row'.start = start /\ row'.count = count
  <2>1. start \in Nat /\ count \in Nat
    BY <1>t
  <2>. HIDE DEF start, count
  <2>. QED
    BY <1>1, <1>t, <2>1 DEF Row
<1>4. /\ L \in Nat
      /\ Len(sent') = L + 1
      /\ sent'[L + 1] = now
      /\ \A i \in 1 .. L : sent[i] \in Nat /\ sent'[i] = sent[i]
  BY <1>1, <1>t
<1>5. /\ row.start <= now
      /\ row.count <= Budget
      /\ row.count <= L
      /\ \A i \in 1 .. L - row.count : sent[i] <= row.start
      /\ \A i \in 1 .. L : sent[i] <= now
      /\ \A i \in 1 .. L - row.count - Budget : sent[i] + Window <= row.start
      /\ \A i \in 1 .. L - 2 * Budget : sent[i + 2 * Budget] >= sent[i] + Window
  BY DEF BudgetInv, WindowsInRow, BudgetKept
<1>. HIDE DEF L
<1>6. \A i \in 1 .. L + 1 : sent'[i] <= now
  BY <1>4, <1>5, <1>t
<1>7. /\ start <= now
      /\ count <= Budget
      /\ count <= L + 1
  BY <1>2, <1>4, <1>5, <1>c, <1>t
<1>8. \A i \in 1 .. L + 1 - count : sent'[i] <= start
  BY <1>4, <1>5, <1>t
<1>a. \A i \in 1 .. L - Budget : over => sent'[i] + Window <= now
  <2>1. TAKE i \in 1 .. L - Budget
  <2>2. i \in 1 .. L /\ i \in 1 .. L - row.count
    BY <1>4, <1>5, <1>c, <1>t
  <2>3. sent[i] <= row.start /\ sent[i] \in Nat /\ sent'[i] = sent[i]
    BY <1>4, <1>5, <2>2
  <2>. QED
    BY <1>c, <1>t, <2>3
<1>b. \A i \in 1 .. L - row.count - Budget : sent'[i] + Window <= row.start
  <2>1. TAKE i \in 1 .. L - row.count - Budget
  <2>2. i \in 1 .. L
    BY <1>4, <1>c, <1>t
  <2>. QED
    BY <1>4, <1>5, <2>2
<1>9. \A i \in 1 .. L + 1 - count - Budget : sent'[i] + Window <= start
  <2>1. CASE over
    BY <1>4, <1>a, <1>c, <2>1
  <2>2. CASE ~over
    BY <1>4, <1>b, <1>c, <1>t, <2>2
  <2>. QED
    BY <2>1, <2>2
<1>10. \A i \in 1 .. L + 1 - 2 * Budget : sent'[i + 2 * Budget] >= sent'[i] + Window
  <2>1. TAKE i \in 1 .. L + 1 - 2 * Budget
  <2>2. i \in 1 .. L /\ i + 2 * Budget \in 1 .. L + 1
    BY <1>4, <1>c
  <2>3. CASE i + 2 * Budget = L + 1
    <3>1. sent'[i + 2 * Budget] = now /\ sent'[i] \in Nat
      BY <1>4, <2>2, <2>3, <1>c, <1>8, <1>t
    <3>2. CASE over
      <4>1. i \in 1 .. L - Budget
        BY <1>4, <1>c, <2>2, <2>3
      <4>. QED
        BY <1>a, <3>1, <3>2, <4>1, <1>c, <1>t
    <3>3. CASE ~over
      <4>1. i \in 1 .. L - row.count - Budget
        BY <1>2, <1>4, <1>c, <1>t, <2>2, <2>3, <3>3
      <4>2. sent'[i] + Window <= row.start
        BY <1>b, <4>1
      <4>. QED
        BY <1>5, <3>1, <4>2, <1>c, <1>t
    <3>. QED
      BY <3>2, <3>3
  <2>4. CASE i + 2 * Budget # L + 1
    <3>1. i \in 1 .. L - 2 * Budget /\ i + 2 * Budget \in 1 .. L
      BY <1>4, <1>c, <2>2, <2>4
    <3>. QED
      BY <1>4, <1>5, <2>2, <3>1
  <2>. QED
    BY <2>3, <2>4
<1>11. BudgetKept'
  <2>1. Len(sent') - 2 * Budget = L + 1 - 2 * Budget
    BY <1>4, <1>c
  <2>. QED
    BY <1>10, <2>1, Zenon DEF BudgetKept
<1>12. WindowsInRow'
  <2>c. count \in Nat
    BY <1>t
  <2>. HIDE DEF over, start, count
  <2>1. /\ row'.start <= now'
        /\ row'.count <= Budget
        /\ row'.count <= Len(sent')
    BY <1>1, <1>3, <1>4, <1>7
  <2>2. \A i \in 1 .. Len(sent') - row'.count : sent'[i] <= row'.start
    <3>1. Len(sent') - row'.count = L + 1 - count
      BY <1>3, <1>4, <2>c
    <3>. QED
      BY <1>3, <1>8, <3>1, Zenon
  <2>3. \A i \in 1 .. Len(sent') : sent'[i] <= now'
    BY <1>1, <1>4, <1>6
  <2>4. \A i \in 1 .. Len(sent') - row'.count - Budget : sent'[i] + Window <= row'.start
    <3>1. Len(sent') - row'.count - Budget = L + 1 - count - Budget
      BY <1>3, <1>4, <1>c, <2>c
    <3>. QED
      BY <1>3, <1>9, <3>1, Zenon
  <2>. QED
    BY <2>1, <2>2, <2>3, <2>4 DEF WindowsInRow
<1>. QED
  BY <1>11, <1>12 DEF BudgetInv

\* No interval of one window holds more than twice the budget.
THEOREM BudgetCorrect == Spec => []BudgetKept
<1>1. Init => BudgetInv
  BY PolicyAssumption DEF Init, Start, BudgetInv, WindowsInRow, BudgetKept
<1>2. PolicyInv /\ BudgetInv /\ [Next]_vars => BudgetInv'
  <2>. SUFFICES ASSUME PolicyInv, BudgetInv, [Next]_vars PROVE BudgetInv'
    OBVIOUS
  <2>1. CASE \E c \in Callers : Send(c)
    BY <2>1, BudgetInvSend
  <2>2. CASE \A c \in Callers : ~Send(c)
    <3>1. /\ row'.start = row.start /\ row'.count = row.count
          /\ now' \in {now, now + 1} /\ sent' = sent
      BY <2>2, RowLeftAlone
    <3>2. now \in Nat /\ sent \in Seq(Nat) /\ row.start \in Nat /\ row.count \in Nat
      BY DEF PolicyInv, TypeOK, Row
    <3>3. WindowsInRow'
      <4>1. Len(sent) \in Nat /\ \A i \in 1 .. Len(sent) : sent[i] \in Nat
        BY <3>2
      <4>2. now' >= now
        BY <3>1, <3>2
      <4>. QED
        BY <3>1, <3>2, <4>1, <4>2 DEF BudgetInv, WindowsInRow
    <3>. QED
      BY <3>1, <3>3 DEF BudgetInv, BudgetKept
  <2>. QED
    BY <2>1, <2>2
<1>3. BudgetInv => BudgetKept
  BY DEF BudgetInv
<1>. QED
  BY <1>1, <1>2, <1>3, PolicyCorrect, PTL DEF Spec

\* Both budgets of the source hold, however many callers share them.
THEOREM BudgetsCorrect == Spec => []BudgetsKept
<1>1. BudgetKept /\ BrowserBudgetKept => BudgetsKept
  BY DEF BudgetsKept
<1>. QED
  BY <1>1, BudgetCorrect, BrowserBudgetCorrect, PTL

=============================================================================
