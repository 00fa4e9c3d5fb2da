---------------------------- MODULE Reconciliation ----------------------------
(***************************************************************************)
(* The links between the events of the bookmaker and the matches           *)
(* (reconciliation.py): every transaction that writes an event, a match or *)
(* an alias takes the lock of the identities and decides again the links   *)
(* of the events it may concern, before it commits.                        *)
(***************************************************************************)
EXTENDS FixtureIdentity, Sequences

CONSTANTS
    Events,     \* events of the bookmaker
    Matches,    \* identifiers of matches
    Fixed,      \* [Matches -> records]: teams and competition of each match
    StartsOf,   \* [Matches -> sets of dates] a match may be announced at
    Readings,   \* what the bookmaker may show of an event
    Aliases,    \* reviewed aliases of participants
    Competitions, \* reviewed aliases of competitions
    MaxChanges  \* bound: readings, publications and reviews

ASSUME IdentityAssumption ==
    /\ NoMatch \notin Matches /\ MaxChanges \in Nat
    /\ \A m \in Matches : {Fixed[m].home, Fixed[m].away} \subseteq Teams

VARIABLES
    event,    \* bookmaker_events: what is retained of an event
    observed, \* bookmaker_event_observations, oldest first
    match,    \* esport_matches: the date of each match, NoDate when it is unknown
    active,   \* the active aliases, of participants and of competitions, and those revoked
    link,     \* bookmaker_match_links: the mapping of each event
    last,     \* bookmaker_match_resolutions.last_match_id
    proof,    \* the last decision of the journal that linked the event
    changes

idVars == <<event, observed, match, active, link, last, proof>>

-----------------------------------------------------------------------------
Seen(e) == observed[e] # <<>>
Newest(e) == observed[e][Len(observed[e])]

SamePair(p, q) ==
    \A i \in {1, 2} : p[i].name = q[i].name /\ (p[i].id = 0 \/ q[i].id = 0 \/ p[i].id = q[i].id)

\* with_schedule_observations: the dates at which the same fixture was announced.
Anchors(e, row, seen) ==
    {seen[i].start : i \in {j \in DOMAIN seen :
        /\ seen[j].start \notin {NoDate, row.start}
        /\ Agree(seen[j].competition, row.competition)
        /\ SamePair(seen[j].participants, row.participants)}}

\* fixture_from_event
Fixture(e, row, seen) ==
    [start |-> row.start, starts |-> Anchors(e, row, seen),
     competition |-> row.competition, participants |-> row.participants]

\* load_candidates: the matches near a date of the events of the batch, and those the
\* events were linked to.
Candidate(m, at) ==
    [id |-> m, start |-> at[m], home |-> Fixed[m].home, away |-> Fixed[m].away,
     competition |-> Fixed[m].competition, competitionId |-> Fixed[m].competitionId]

Candidates(batch, fixture, at) ==
    {Candidate(m, at) : m \in {x \in Matches :
        /\ at[x] # NoDate
        /\ \E e \in batch : x = last[e] \/ \E d \in Dates(fixture[e]) : Near(at[x], d)}}

\* The reading that came last, when it says something else than the retained event.
Alternate(f, reading) ==
    [f EXCEPT !.participants = reading.participants, !.competition = reading.competition]

\* Mutated form: the retained event alone decides.
DecidedOnEvent(f, known, e, reading) == Resolved(f, known, last[e], proof[e])

\* A link the last reading contradicts is not made.
Decided(f, known, e, reading) ==
    LET found   == Resolved(f, known, last[e], proof[e])
        checked == Resolved(Alternate(f, reading), known, found.match, found)
    IN  IF found.match # NoMatch /\ Alternate(f, reading) # f /\ checked.match # found.match
        THEN NoMapping ELSE found

\* reconcile_in_session on a batch of events, with the rows its transaction has written.
Reconcile(batch, row, seen, at, aliases) ==
    \E shown \in {{e \in batch : seen[e] # <<>>}} :
    \E fixture \in {[e \in shown |-> Fixture(e, row[e], seen[e])]} :
    \E known \in {[candidates |-> Candidates(shown, fixture, at),
                   aliases |-> aliases.participants,
                   competitions |-> aliases.competitions]} :
    \E decision \in {[e \in shown |-> Decided(fixture[e], known, e, seen[e][Len(seen[e])])]} :
        /\ link' = [e \in Events |-> IF e \in shown THEN decision[e] ELSE link[e]]
        /\ last' = [e \in Events |->
                      IF e \in shown /\ last[e] = NoMatch THEN decision[e].match ELSE last[e]]
        /\ proof' = [e \in Events |->
                      IF e \in shown /\ decision[e] # NoMapping THEN decision[e] ELSE proof[e]]

-----------------------------------------------------------------------------
Change == changes < MaxChanges /\ changes' = changes + 1

\* _upsert_event: a reading without a date does not replace names read with one.
Retain(row, reading) ==
    IF reading.start = NoDate /\ row.start # NoDate THEN row
    ELSE [start |-> reading.start, competition |-> reading.competition,
          participants |-> reading.participants]

\* observe_event: the same reading again is not added.
Observe(e, reading) ==
    IF Seen(e) /\ Newest(e) = reading THEN observed[e] ELSE Append(observed[e], reading)

\* remember_event, remember_events and publish.
Remember(e, reading) ==
    /\ Change
    /\ event' = [event EXCEPT ![e] = Retain(event[e], reading)]
    /\ observed' = [observed EXCEPT ![e] = Observe(e, reading)]
    /\ Reconcile({e}, event', observed', match, active)
    /\ UNCHANGED <<match, active>>

\* The end of a publication of matches: a match appears or its date moves.
PublishMatch ==
    /\ Change
    /\ \E m \in Matches : \E d \in StartsOf[m] \ {match[m]} : match' = [match EXCEPT ![m] = d]
    /\ Reconcile(Events, event, observed, match', active)
    /\ UNCHANGED <<event, observed, active>>

\* import_aliases: an alias that was revoked stays so.
ImportAlias ==
    /\ Change
    /\ \/ \E a \in Aliases \ (active.participants \cup active.revoked.participants) :
             active' = [active EXCEPT !.participants = @ \cup {a}]
       \/ \E a \in Competitions \ (active.competitions \cup active.revoked.competitions) :
             active' = [active EXCEPT !.competitions = @ \cup {a}]
    /\ Reconcile(Events, event, observed, match, active')
    /\ UNCHANGED <<event, observed, match>>

\* The decisions of a revocation.
Reconciled == Reconcile(Events, event, observed, match, active')

\* revoke_alias
RevokeAlias ==
    /\ Change
    /\ \/ \E a \in active.participants :
             active' = [active EXCEPT !.participants = @ \ {a},
                                      !.revoked.participants = @ \cup {a}]
       \/ \E a \in active.competitions :
             active' = [active EXCEPT !.competitions = @ \ {a},
                                      !.revoked.competitions = @ \cup {a}]
    /\ Reconciled
    /\ UNCHANGED <<event, observed, match>>

NoEvent == [start |-> NoDate, competition |-> [brand |-> {}, years |-> {}, edition |-> {},
                                               phase |-> {}], participants |-> <<>>]

InitIdentity ==
    /\ event = [e \in Events |-> NoEvent]
    /\ observed = [e \in Events |-> <<>>]
    /\ match = [m \in Matches |-> NoDate]
    /\ active = [participants |-> {}, competitions |-> {},
                 revoked |-> [participants |-> {}, competitions |-> {}]]
    /\ link = [e \in Events |-> NoMapping]
    /\ last = [e \in Events |-> NoMatch]
    /\ proof = [e \in Events |-> NoMapping]
    /\ changes = 0

NextIdentity ==
    \/ \E e \in Events, r \in Readings : Remember(e, r)
    \/ PublishMatch \/ ImportAlias \/ RevokeAlias

-----------------------------------------------------------------------------
(* Properties.                                                              *)

\* An event that was linked to a match is never linked to another one afterwards, through
\* conflicts, reschedulings, rematches, aliases and their revocations.
LinkNeverMoves ==
    [][\A e \in Events : last[e] # NoMatch =>
          last'[e] = last[e] /\ link'[e].match \in {NoMatch, last[e]}]_<<link, last>>

\* A link that rests on a reviewed alias goes with it, however it was confirmed meanwhile.
NoLinkOnRevokedAlias ==
    \A e \in Events : \A i \in DOMAIN link[e].basis :
        link[e].basis[i] = "alias" =>
            \E a \in active.participants : a.name = link[e].names[i] /\ a.target = link[e].teams[i]

\* The name is the one of a team and of no other, which plays at the date of the event or
\* whose names have nothing in common with those of the others.
Designates(name, t, e) ==
    /\ {u \in Teams : name \in NamesOf[u] \cup CodesOf[u]} = {t}
    /\ \/ \E m \in Matches : /\ t \in {Fixed[m].home, Fixed[m].away}
                             /\ match[m] # NoDate /\ Near(match[m], event[e].start)
       \/ \A u \in Teams \ {t} : \A n \in NamesOf[u] : Words[n] \cap Words[name] = {}

\* No link stands against what the bookmaker has shown last: a participant without an
\* identifier, whose name designates a team, plays in the match.
LastReadingAgrees ==
    \A e \in Events : \A i \in {1, 2}, t \in Teams :
        (/\ link[e] # NoMapping /\ active.participants = {}
         /\ Newest(e).participants[i].id = 0
         /\ Designates(Newest(e).participants[i].name, t, e))
        => t \in {Fixed[link[e].match].home, Fixed[link[e].match].away}

\* Whatever was confirmed before, a link stands on aliases that are active and on nothing
\* the bookmaker contradicts.
LinksAreJustified == NoLinkOnRevokedAlias /\ LastReadingAgrees
=============================================================================
