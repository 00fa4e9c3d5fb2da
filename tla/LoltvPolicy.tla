----------------------------- MODULE LoltvPolicy -----------------------------
(***************************************************************************)
(* The shared request policy of the LoLTV source, loltv_policy.py: one row *)
(* of collector_state holds the budget, the spacing and the pause of every *)
(* process that talks to it, the collector (loltv_sync.py, loltv_feed.py,  *)
(* loltv_browser.py), of which the source lock leaves one, and the threads *)
(* of the catalog that fetch logos (catalog_images.py).                    *)
(*                                                                         *)
(* Every method is one transaction under the lock of the row and reads the *)
(* clock there.  Between two of them the row belongs to the others.        *)
(***************************************************************************)
EXTENDS Naturals, Sequences

CONSTANTS
    Collector,          \* the process of the LoLTV cycle
    Logos,              \* the threads that fetch logos
    MinDelay, MaxDelay, \* the smaller and the larger of the two delay settings
    Window,             \* loltv_budget_window_seconds
    Budget,             \* loltv_request_budget
    BrowserBudget,      \* loltv_browser_request_budget
    Cooldown,           \* loltv_block_cooldown_seconds
    MaxPause,           \* six hours, the end of the doubling
    RetryAfters,        \* what a refusal may ask for, 0 when it does not say
    MaxTime             \* bound: how long the clock runs

ASSUME PolicyAssumption ==
    /\ Collector \notin Logos
    /\ {MinDelay, MaxDelay, Window, Budget, BrowserBudget, Cooldown} \subseteq Nat \ {0}
    /\ MinDelay <= MaxDelay
    /\ {MaxPause, MaxTime} \subseteq Nat
    /\ RetryAfters \subseteq Nat

Callers == {Collector} \cup Logos

VARIABLES
    now,    \* the clock every process reads
    row,    \* the LoLTV row of collector_state
    call,   \* what each caller is doing
    clean,  \* the cycle has met no error
    sent,   \* history: the dates of the requests sent to the source
    pause   \* history: the end of the longest pause a refusal has asked for

vars == <<now, row, call, clean, sent, pause>>

\* The clock starts long after the epoch, the date of what has never happened.
Start == Window + MaxDelay

-----------------------------------------------------------------------------
\* off: no cycle, or no logo to fetch; between: the cycle is between two pages;
\* waiting: before_request of a page; reading: its answers come in; clicking:
\* before_request of an action in the page.
Phases  == {"off", "between", "waiting", "reading", "clicking"}
Pausing == {"waiting", "clicking"}
Open    == {"reading", "clicking"}

\* The keys of data the policy reads, 0 when they are missing.
Row == [blocked : Nat, streak : Nat, start : Nat, count : Nat,
        browserStart : Nat, browserCount : Nat, request : Nat, page : Nat]

TypeOK ==
    /\ now \in Nat
    /\ row \in Row
    /\ call \in [Callers -> [phase : Phases, delay : 0 .. MaxDelay]]
    /\ clean \in BOOLEAN
    /\ sent \in Seq(Nat)
    /\ pause \in Nat

Phase(c) == call[c].phase

Goes(c, phase) == call' = [call EXCEPT ![c] = [phase |-> phase, delay |-> 0]]

Later(a, b)   == IF a > b THEN a ELSE b
Earlier(a, b) == IF a > b THEN b ELSE a

Blocked == row.blocked > now

WindowOver(start) == now - start >= Window

Exhausted == ~WindowOver(row.start) /\ row.count >= Budget

BrowserExhausted == ~WindowOver(row.browserStart) /\ row.browserCount >= BrowserBudget

\* LoltvPolicy.check, which the collector calls before each page and each click.
MayGoOn(c) == ~Blocked /\ (c = Collector => ~BrowserExhausted)

-----------------------------------------------------------------------------
(* Sending.                                                                 *)

StartCycle ==
    /\ Phase(Collector) = "off"
    /\ MayGoOn(Collector)
    /\ Goes(Collector, "between")
    /\ clean' = TRUE
    /\ UNCHANGED <<now, row, sent, pause>>

\* A page of the cycle, an action in its page, or a logo, which nothing precedes.
Ask(c) ==
    /\ IF c = Collector THEN Phase(c) \in {"between", "reading"} /\ MayGoOn(c)
                        ELSE Phase(c) = "off"
    /\ \E delay \in MinDelay .. MaxDelay :
        call' = [call EXCEPT ![c] =
            [phase |-> IF Phase(c) = "reading" THEN "clicking" ELSE "waiting",
             delay |-> delay]]
    /\ UNCHANGED <<now, row, clean, sent, pause>>

\* Mutated form: the end of the last page does not count.
PreviousRequest == row.request

Previous == Later(row.request, row.page)

\* Mutated form: one request too many.
MaySendLate == ~Blocked /\ (WindowOver(row.start) \/ row.count <= Budget)

MaySend == ~Blocked /\ ~Exhausted

\* The iteration of before_request that finds the pause over; the others change
\* nothing and sleep.
Send(c) ==
    /\ Phase(c) \in Pausing
    /\ MaySend
    /\ Previous + call[c].delay <= now
    /\ row' = [row EXCEPT !.request = now,
                  !.start = IF WindowOver(@) THEN now ELSE @,
                  !.count = IF WindowOver(row.start) THEN 1 ELSE @ + 1]
    /\ Goes(c, "reading")
    /\ sent' = Append(sent, now)
    /\ UNCHANGED <<now, clean, pause>>

\* The end of a page is written by the browser whatever happened, by the other
\* reads when they succeed.
PageMayEnd == {row, [row EXCEPT !.page = now]}

\* before_request raises; the cycle ends, and so does the download of logos.
GiveUp(c) ==
    /\ Phase(c) \in Pausing
    /\ Blocked \/ Exhausted
    /\ Goes(c, "off")
    /\ row' \in IF c = Collector THEN PageMayEnd ELSE {row}
    /\ UNCHANGED <<now, clean, sent, pause>>

\* check raises between two pages or two games.
StopCycle ==
    /\ Phase(Collector) \in {"between", "reading"}
    /\ ~MayGoOn(Collector)
    /\ Goes(Collector, "off")
    /\ row' \in IF Phase(Collector) = "reading" THEN PageMayEnd ELSE {row}
    /\ UNCHANGED <<now, clean, sent, pause>>

-----------------------------------------------------------------------------
(* Answers.                                                                 *)

\* The pages are closed: what they were read for raises and ends the cycle, unless it
\* was complete.
CloseBrowser ==
    \E phase \in IF Phase(Collector) = "reading" THEN {"off", "between"} ELSE {"off"} :
        Goes(Collector, phase)

\* A page issues a request of its own; at the limit the browser is closed.
BrowserRequest ==
    LET over  == WindowOver(row.browserStart)
        count == IF over THEN 1 ELSE row.browserCount + 1
    IN  /\ Phase(Collector) \in Open
        /\ ~Blocked
        /\ row' = [row EXCEPT !.browserStart = IF over THEN now ELSE @,
                              !.browserCount = count,
                              !.page = IF count >= BrowserBudget THEN now ELSE @]
        /\ IF count >= BrowserBudget THEN CloseBrowser ELSE UNCHANGED call
        /\ UNCHANGED <<now, clean, sent, pause>>

\* Another caller was refused while the page was open.
BrowserRequestRefused ==
    /\ Phase(Collector) \in Open
    /\ Blocked
    /\ CloseBrowser
    /\ row' = [row EXCEPT !.page = now]
    /\ UNCHANGED <<now, clean, sent, pause>>

\* A read ends, well or with an error the cycle records.
Served(c) ==
    /\ Phase(c) = "reading"
    /\ IF c = Collector
       THEN \E well \in BOOLEAN :
                /\ clean' = (clean /\ well)
                /\ row' \in IF well THEN {[row EXCEPT !.page = now]} ELSE PageMayEnd
                /\ Goes(c, "between")
       ELSE Goes(c, "off") /\ UNCHANGED <<row, clean>>
    /\ UNCHANGED <<now, sent, pause>>

\* What the first seven refusals in a row multiply the cooldown by.
Doubling == <<1, 2, 4, 8, 16, 32, 64>>

\* The pause after the n-th refusal in a row.
Duration(n) == Later(Cooldown, Earlier(MaxPause, Cooldown * Doubling[Earlier(n, 7)]))

\* Mutated form: every refusal counts.
StreakOfAll == row.streak + 1

\* Refusals in flight belong to the same one.
Streak == IF Blocked THEN row.streak ELSE row.streak + 1

\* A refusal never shortens a pause.
Until(retry) == Later(now + Later(Duration(Later(Streak, 1)), retry), row.blocked)

\* block: 403, 429 or a challenge.
Refused(c) ==
    /\ Phase(c) \in (IF c = Collector THEN Open ELSE {"reading"})
    /\ \E retry \in RetryAfters :
        /\ row' \in {[r EXCEPT !.blocked = Until(retry), !.streak = Streak] :
                        r \in IF c = Collector THEN PageMayEnd ELSE {row}}
        /\ pause' = Later(pause, now + Later(Cooldown, retry))
    /\ IF c = Collector THEN CloseBrowser ELSE Goes(c, "off")
    /\ UNCHANGED <<now, clean, sent>>

\* Mutated forms: the pause is cleared without being looked at; a healthy cycle takes
\* one refusal back.
ClearsBlind == [row EXCEPT !.blocked = 0, !.streak = 0]
ClearsOne   == IF Blocked THEN row ELSE [row EXCEPT !.blocked = 0, !.streak = @ - 1]

\* healthy raises, and writes nothing, during a pause.
Clears == IF Blocked THEN row ELSE [row EXCEPT !.blocked = 0, !.streak = 0]

\* The cycle ends; only one without an error is healthy.
EndCycle ==
    /\ Phase(Collector) = "between"
    /\ row' = IF clean THEN Clears ELSE row
    /\ Goes(Collector, "off")
    /\ UNCHANGED <<now, clean, sent, pause>>

\* The process dies: nothing but the row is left.
Crash(c) ==
    /\ Phase(c) # "off"
    /\ Goes(c, "off")
    /\ UNCHANGED <<now, row, clean, sent, pause>>

Advance ==
    /\ now < Start + MaxTime
    /\ now' = now + 1
    /\ UNCHANGED <<row, call, clean, sent, pause>>

-----------------------------------------------------------------------------
Init ==
    /\ now = Start
    /\ row = [blocked |-> 0, streak |-> 0, start |-> 0, count |-> 0, browserStart |-> 0,
              browserCount |-> 0, request |-> 0, page |-> 0]
    /\ call = [c \in Callers |-> [phase |-> "off", delay |-> 0]]
    /\ clean = TRUE
    /\ sent = <<>>
    /\ pause = 0

Next ==
    \/ StartCycle \/ StopCycle \/ BrowserRequest \/ BrowserRequestRefused \/ EndCycle
    \/ \E c \in Callers : Ask(c) \/ Send(c) \/ GiveUp(c) \/ Served(c) \/ Refused(c) \/ Crash(c)
    \/ Advance

Spec == Init /\ [][Next]_vars

-----------------------------------------------------------------------------
(* Properties.                                                              *)

\* Whoever was refused, and whatever was healthy since, no request leaves before the
\* end of every pause a refusal has asked for.
PausesKept == [][sent' # sent => pause <= now]_vars

\* A request leaves no sooner than the minimum delay after the one before it and
\* after the end of the last page, whoever they belong to.
RequestsAreSpaced ==
    [][sent' # sent =>
        /\ row.page + MinDelay <= now
        /\ sent # <<>> => sent[Len(sent)] + MinDelay <= now]_vars

\* With fixed windows no interval of one window holds more than twice the budget,
\* whichever processes sent, died or were restarted.
BudgetKept ==
    \A i \in 1 .. Len(sent) - 2 * Budget : sent[i + 2 * Budget] >= sent[i] + Window

\* The natural requests counted in a window never pass their budget: who meets it
\* closes the browser, and no page opens before the window is over.
BrowserBudgetKept == row.browserCount <= BrowserBudget

\* Both budgets hold, across the processes that share them and their deaths.
BudgetsKept == BudgetKept /\ BrowserBudgetKept

\* The pause grows only for a refusal met after every earlier pause was served:
\* answers that were in flight together count once.
StreakCountsServedPauses == [][row'.streak > row.streak => pause <= now]_vars

=============================================================================
