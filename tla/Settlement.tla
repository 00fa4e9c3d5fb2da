------------------------------ MODULE Settlement ------------------------------
(***************************************************************************)
(* The results of the selections (selection_results.py): what was won, lost *)
(* or void among the selections that were quoted on the winner of a match  *)
(* or of one of its maps, from the readings of two sources and the present *)
(* links.  A decision may be taken back.                                   *)
(***************************************************************************)
EXTENDS Reconciliation

CONSTANTS
    Payloads,  \* [sources -> sets of what a source may say of a match]
    Format,    \* [Matches -> "BO1", "BO3" or "BO5"]
    Numbers,   \* the maps on whose winner the bookmaker takes bets
    Delay,     \* DELAY
    MaxClock   \* bound: dates

ASSUME SettlementAssumption ==
    /\ Numbers \subseteq Nat \ {0} /\ Delay \in Nat /\ MaxClock \in Nat
    /\ {"pending", "void"} \cap Teams = {}  \* no team is named as an outcome that is none

VARIABLES
    reading, \* match_snapshots of the sources linked to a match, oldest first
    quoted,  \* [Events -> the labels of the selections that were ever open]
    result,  \* bookmaker_selection_results
    now,
    settled  \* history: nothing has changed since the last settlement

vars == <<event, observed, match, active, link, last, proof, changes, reading, quoted, result,
          now, settled>>

-----------------------------------------------------------------------------
Sources == {"loltv", "oracles-elixir"}
Kinds == {0} \cup Numbers        \* 0 is the winner of the match
Labels == UNION {{r.participants[1].name, r.participants[2].name} : r \in Readings}
Pending == [status |-> "pending", source |-> "none"]

TypeOK ==
    /\ match \in [Matches -> {NoDate} \cup UNION {StartsOf[m] : m \in Matches}]
    /\ active.participants \subseteq Aliases /\ active.competitions \subseteq Competitions
    /\ \A e \in Events : /\ last[e] \in Matches \cup {NoMatch}
                         /\ link[e].match \in Matches \cup {NoMatch}
                         /\ quoted[e] \subseteq Labels
    /\ \A r \in {reading[i] : i \in DOMAIN reading} :
          r.source \in Sources /\ r.match \in Matches /\ r.at \in 0 .. now
    /\ result \in [Events \X Kinds \X Labels ->
                      [status : {"pending", "won", "lost", "void"}, source : Sources \cup {"none"}]]
    /\ now \in 0 .. MaxClock /\ settled \in BOOLEAN

-----------------------------------------------------------------------------
(* What a reading proves.                                                   *)

Target(m) == CASE Format[m] = "BO1" -> 1 [] Format[m] = "BO3" -> 2 [] Format[m] = "BO5" -> 3

Wins(maps, t) == Cardinality({g \in maps : g.winner = t})
Most(a, b) == IF a > b THEN a ELSE b
Least(a, b) == IF a > b THEN b ELSE a

\* completed_series_summary: every map is finished, they are numbered from 1, and the last
\* one decides the series.
Completed(maps, m) ==
    LET home == Fixed[m].home
        away == Fixed[m].away
    IN  /\ maps # {} /\ home # away
        /\ \A g \in maps : g.finished /\ g.winner \in {home, away}
        /\ {g.number : g \in maps} = 1 .. Cardinality(maps)
        /\ Most(Wins(maps, home), Wins(maps, away)) = Target(m)
        /\ \A t \in {home, away} :
               Wins({g \in maps : g.number < Cardinality(maps)}, t) < Target(m)

Score(maps, m) == <<Wins(maps, Fixed[m].home), Wins(maps, Fixed[m].away)>>

\* _validated: a finished series, whose score and maps agree.
Validated(p, m) ==
    LET done == {g \in p.maps : g.finished}
        completed == Completed(p.maps, m)
        score == IF p.score # <<>> THEN p.score ELSE Score(p.maps, m)
    IN  /\ p.status = "finished" /\ p.format = Format[m]
        /\ \A g, h \in p.maps : g.number = h.number => g = h
        /\ \A g \in p.maps : IF g.finished THEN g.winner \in {Fixed[m].home, Fixed[m].away}
                             ELSE g.winner = "none"
        /\ CASE p.source = "oracles-elixir" -> completed /\ p.score = Score(p.maps, m)
             [] p.source = "loltv" ->
                  /\ p.score # <<>> \/ completed
                  /\ completed => score = Score(p.maps, m)
                  /\ Most(score[1], score[2]) = Target(m)
                  /\ Least(score[1], score[2]) < Target(m)
                  /\ \A g \in done : g.number <= score[1] + score[2]
                  /\ \A i \in {1, 2} : Score(done, m)[i] <= score[i]

\* The signature of a valid reading: the score and the maps that are finished.
Signature(p, m) ==
    [score |-> IF p.score # <<>> THEN p.score ELSE Score(p.maps, m),
     maps |-> {<<g.number, g.winner>> : g \in {x \in p.maps : x.finished}}]

Winner(s, m) == IF s.score[1] > s.score[2] THEN Fixed[m].home ELSE Fixed[m].away
Played(s) == s.score[1] + s.score[2]

\* What each payload proves of each match.
Unproved == [score |-> <<>>, maps |-> {}]
Proved == [x \in (UNION {Payloads[s] : s \in Sources}) \X Matches |->
              IF Validated(x[1], x[2]) THEN Signature(x[1], x[2]) ELSE Unproved]
ResultOf(i) == Proved[<<reading[i].payload, reading[i].match>>]

\* The readings of one source of a match, by their places.
Of(source, m) == {i \in DOMAIN reading : reading[i].source = source /\ reading[i].match = m}
LastOf(places) == CHOOSE i \in places : \A j \in places : j <= i

\* Mutated form: the first reading of the present result, whatever came in between.
AnchorOfFirst(source, m) ==
    LET places == Of(source, m)
        same == {i \in places : ResultOf(i) = ResultOf(LastOf(places))}
    IN  CHOOSE i \in same : \A j \in same : i <= j

\* source_proof: the first of the last readings that all say the same.
Anchor(source, m) ==
    LET places == Of(source, m)
        same == {i \in places : \A j \in places : j >= i => ResultOf(j) = ResultOf(LastOf(places))}
    IN  CHOOSE i \in same : \A j \in same : i <= j

SignatureOf(source, m) ==
    IF Of(source, m) = {} THEN Unproved ELSE ResultOf(LastOf(Of(source, m)))
Proves(source, m) == SignatureOf(source, m) # Unproved

\* A newer unresolved state of LoLTV may announce a correction.
Overridden(m) ==
    /\ ~Proves("loltv", m) /\ Of("loltv", m) # {} /\ Of("oracles-elixir", m) # {}
    /\ LET l == reading[LastOf(Of("loltv", m))]
       IN  \/ l.payload.status = "walkover"
           \/ l.at >= reading[LastOf(Of("oracles-elixir", m))].at

Usable(m) == {s \in Sources : Proves(s, m) /\ ~(s = "oracles-elixir" /\ Overridden(m))}

\* Both sources prove a result and they are not the same.
Disagree(m) ==
    /\ Usable(m) = Sources
    /\ LET l == SignatureOf("loltv", m)
           o == SignatureOf("oracles-elixir", m)
       IN  \/ Winner(l, m) # Winner(o, m)
           \/ \E x \in l.maps, y \in o.maps : x[1] = y[1] /\ x[2] # y[2]

\* _source_choice: the sources that say something of the kind of market.
Answers(m, k) ==
    IF Disagree(m) THEN {}
    ELSE {s \in Usable(m) : LET g == SignatureOf(s, m)
                            IN  k = 0 \/ k > Played(g) \/ \E x \in g.maps : x[1] = k}

Chosen(m, k) == IF "loltv" \in Answers(m, k) THEN "loltv" ELSE "oracles-elixir"

-----------------------------------------------------------------------------
(* What a selection was on.                                                 *)

\* _picked_team: the teams of the mapping that bear the label.
Picks(e, label) ==
    {link[e].teams[i] : i \in {j \in DOMAIN link[e].teams :
        label = link[e].names[j] \/ label \in NamesOf[link[e].teams[j]]}}

\* Mutated form: each label is looked at alone.
ValidEach(e) == \A label \in quoted[e] : Cardinality(Picks(e, label)) = 1

\* Two selections, one on each team, of an event whose names are those of the link.
Valid(e) ==
    /\ Cardinality(quoted[e]) = 2
    /\ \A label \in quoted[e] : Cardinality(Picks(e, label)) = 1
    /\ UNION {Picks(e, label) : label \in quoted[e]} =
           {Fixed[link[e].match].home, Fixed[link[e].match].away}

Named(e) ==
    /\ link[e] # NoMapping
    /\ \A i \in {1, 2} : event[e].participants[i].name = link[e].names[i]

\* What a settlement decides of a market: the team that won it, "void" or "pending".
Outcome(e, k) ==
    LET m == link[e].match
        s == Chosen(m, k)
        g == SignatureOf(s, m)
    IN  IF /\ Named(e) /\ Valid(e) /\ Answers(m, k) # {}
           /\ now >= reading[Anchor(s, m)].at + Delay
        THEN [source |-> s, team |->
                IF k > Played(g) THEN "void"
                ELSE IF k = 0 THEN Winner(g, m)
                ELSE (CHOOSE x \in g.maps : x[1] = k)[2]]
        ELSE [source |-> "none", team |-> "pending"]

\* The result of a selection of the market.
ResultFor(outcome, e, label) ==
    [source |-> outcome.source, status |->
        IF outcome.team \in {"pending", "void"} THEN outcome.team
        ELSE IF Picks(e, label) = {outcome.team} THEN "won" ELSE "lost"]

\* The selections that were ever open are examined at every settlement.
Examined(e) == quoted[e]

Settled(outcome) ==
    [x \in DOMAIN result |->
        IF x[3] \in Examined(x[1]) THEN ResultFor(outcome[<<x[1], x[2]>>], x[1], x[3])
        ELSE result[x]]

-----------------------------------------------------------------------------
\* settle_selections, under the lock of the identities.
Settle ==
    /\ \E outcome \in {[x \in Events \X Kinds |-> Outcome(x[1], x[2])]} :
          result' = Settled(outcome)
    /\ settled' = TRUE
    /\ UNCHANGED <<idVars, changes, reading, quoted, now>>

\* A reading of the bookmaker; one with a date comes with open selections (publish).
ReadEvent ==
    /\ \E e \in Events, r \in Readings :
        /\ Remember(e, r)
        /\ quoted' = IF r.start = NoDate THEN quoted
                     ELSE [quoted EXCEPT ![e] = @ \cup {r.participants[1].name,
                                                       r.participants[2].name}]
    /\ settled' = FALSE
    /\ UNCHANGED <<reading, result, now>>

ChangeIdentities ==
    /\ PublishMatch \/ ImportAlias \/ RevokeAlias
    /\ settled' = FALSE
    /\ UNCHANGED <<reading, quoted, result, now>>

\* A source publishes another state of a match.
ReadResult ==
    /\ Change
    /\ \E s \in Sources, m \in Matches : \E p \in Payloads[s] :
        /\ match[m] # NoDate
        /\ Of(s, m) # {} => reading[LastOf(Of(s, m))].payload # p
        /\ reading' = Append(reading, [source |-> s, match |-> m, at |-> now, payload |-> p])
    /\ settled' = FALSE
    /\ UNCHANGED <<idVars, quoted, result, now>>

Tick ==
    /\ now < MaxClock /\ now' = now + 1
    /\ settled' = FALSE
    /\ UNCHANGED <<idVars, changes, reading, quoted, result>>

Init ==
    /\ InitIdentity
    /\ reading = <<>>
    /\ quoted = [e \in Events |-> {}]
    /\ result = [x \in Events \X Kinds \X Labels |-> Pending]
    /\ now = 0 /\ settled = FALSE

Next == Settle \/ ReadEvent \/ ChangeIdentities \/ ReadResult \/ Tick

Spec == Init /\ [][Next]_vars

-----------------------------------------------------------------------------
(* Properties.                                                              *)

\* The two selections of a market never win together, and one of them wins when the other
\* loses, whatever was quoted under other names before and whatever was corrected since.
OnePickWins ==
    \A e \in Events, k \in Kinds :
        LET with(status) == {l \in Labels : result[<<e, k, l>>].status = status}
        IN  /\ Cardinality(with("won")) <= 1 /\ Cardinality(with("lost")) <= 1
            /\ with("won") = {} <=> with("lost") = {}

\* A settlement takes back every decision about an event that has lost its link, or whose
\* market has received a selection under a third name.
RetractedWithLink ==
    settled => \A x \in DOMAIN result :
        (link[x[1]] = NoMapping \/ Cardinality(quoted[x[1]]) > 2) => result[x] = Pending

\* The results of a market agree with one another and with the present link, after any
\* settlement.
ResultsAreConsistent == TypeOK /\ OnePickWins /\ RetractedWithLink

Decides(x) == result'[x] # result[x] /\ result'[x].status # "pending"

\* For the whole correction window, the source of the result has said of the match nothing
\* else than its last reading.
HasStood(source, m) ==
    LET places == Of(source, m)
        old == {i \in places : reading[i].at + Delay <= now}
    IN  /\ old # {}
        /\ \A i \in places : i >= LastOf(old) => ResultOf(i) = ResultOf(LastOf(places))

\* The last word of LoLTV, no older than that of Oracle's Elixir, proves no result.
Questioned(m) ==
    /\ Of("loltv", m) # {} /\ ~Proves("loltv", m)
    /\ \A i \in Of("oracles-elixir", m) : reading[i].at <= reading[LastOf(Of("loltv", m))].at

\* The source of the result proves what was decided: the team of a market was its winner,
\* and a map that is void was not played.
NamesWinner(x) ==
    LET m == link[x[1]].match
        g == SignatureOf(result'[x].source, m)
        status == result'[x].status
    IN  /\ status = "void" => x[2] > Played(g)
        /\ status \in {"won", "lost"} =>
               \E t \in {Fixed[m].home, Fixed[m].away} :
                   /\ IF x[2] = 0 THEN t = Winner(g, m) ELSE <<x[2], t>> \in g.maps
                   /\ status = "won" <=> Picks(x[1], x[3]) = {t}

\* Nothing is decided hastily: on a reading that was corrected within the window, while the
\* last readings of the two sources give two winners or LoLTV questions a result, or for
\* another team than the source says.
DecisionsAreProved ==
    [][\A x \in DOMAIN result : Decides(x) =>
          LET m == link[x[1]].match
          IN  /\ HasStood(result'[x].source, m) /\ ~Questioned(m) /\ NamesWinner(x)
              /\ (\A s \in Sources : Proves(s, m)) =>
                    Winner(SignatureOf("loltv", m), m)
                        = Winner(SignatureOf("oracles-elixir", m), m)]_result
=============================================================================
