---------------------------- MODULE FixtureIdentity ----------------------------
(***************************************************************************)
(* The identity rules of fixture_identity.py: which match a fixture of the *)
(* bookmaker is, from the names and the identifiers of its participants,   *)
(* the name of its competition, its dates and the reviewed aliases.        *)
(*                                                                         *)
(* Names are normalised already: two names are equal when the keys of the  *)
(* code are.  The provider, the game and the key of the competition are    *)
(* the same throughout and left out.                                       *)
(***************************************************************************)
EXTENDS Integers, FiniteSets

CONSTANTS
    Teams,      \* teams of the catalog
    NamesOf,    \* [Teams -> sets of names], name and aliases
    CodesOf,    \* [Teams -> sets of names], codes
    BookIds,    \* [Teams -> sets of numbers], identifiers the bookmaker gives
    Sourced,    \* the teams that have one LoLTV identifier
    Unknown,    \* names that stand for nobody yet
    Words,      \* [names -> sets of words], the distinctive words of a name
    Qualifiers, \* [names -> sets of words], academy and the like
    Generic,    \* words that say nothing about a competition
    Divisions,  \* words that tell a division from another
    Acronyms,   \* pairs of brands of which one is the acronym of the other
    Tolerance   \* TIME_TOLERANCE

NoDate  == 0
NoMatch == "none"

-----------------------------------------------------------------------------
(* Competitions: a brand (a set of words), years, an edition and a phase.   *)

\* _edition_compatible: what both names say is the same.
Compatible(a, b) ==
    \A part \in {"years", "edition", "phase"} :
        a[part] = {} \/ b[part] = {} \/ a[part] = b[part]

\* competitions_agree
Agree(a, b) == a.brand # {} /\ a.brand = b.brand /\ Compatible(a, b)

\* _brand_anchor
Anchored(a, b) ==
    /\ a.brand # {} /\ b.brand # {}
    /\ \/ <<a.brand, b.brand>> \in Acronyms \/ <<b.brand, a.brand>> \in Acronyms
       \/ /\ a.brand \cap Divisions = b.brand \cap Divisions
          /\ (a.brand \cap b.brand) \ Generic # {}

-----------------------------------------------------------------------------
(* Proofs about one participant.  A fixture has the date start, the dates   *)
(* starts it was once announced at, a competition and two participants.     *)

Dates(f) == ({f.start} \cup f.starts) \ {NoDate}

\* Alias.applies and CompetitionAlias.applies: the interval holds one of the dates.
Covers(a, f) == \E at \in Dates(f) : a.from <= at /\ at < a.until
Scoped(aliases, f, name) == {a \in aliases : a.name = name /\ Covers(a, f)}

\* _participant_proof: an alias decides alone, then an identifier, then the names.
Proof(f, p, t, aliases) ==
    LET scoped == Scoped(aliases, f, p.name)
    IN  IF p.name \in Unknown THEN "none"
        ELSE IF scoped # {}
        THEN IF \A a \in scoped : a.target = t THEN "alias" ELSE "none"
        ELSE IF p.id # 0 /\ BookIds[t] # {}
        THEN IF p.id \in BookIds[t] THEN "id" ELSE "none"
        ELSE IF p.name \in NamesOf[t] \cup CodesOf[t] THEN "name" ELSE "none"

\* The teams the candidates know by a name.
KnownAs(name, candidates) ==
    {t \in UNION {{c.home, c.away} : c \in candidates} : name \in NamesOf[t] \cup CodesOf[t]}

\* _contextual_team_proof: a participant nobody knows is the team that a unique fixture
\* leaves for it.
Contextual(p, t, aliases, candidates, retained) ==
    /\ p.name \notin Unknown /\ p.id = 0
    /\ \A a \in aliases : a.name # p.name
    /\ KnownAs(p.name, candidates) \subseteq {t}
    /\ \E n \in NamesOf[t] : Qualifiers[n] = Qualifiers[p.name]
    /\ retained \/ \E n \in NamesOf[t] : Words[n] \cap Words[p.name] # {}
    /\ t \in Sourced

\* _competition_proof
CompetitionProved(f, c, aliases) ==
    LET scoped == Scoped(aliases, f, f.competition)
    IN  IF scoped # {} THEN \A a \in scoped : a.target = c.competitionId
        ELSE Agree(f.competition, c.competition)

-----------------------------------------------------------------------------
(* resolve_fixture.  "known" holds the candidates and the active aliases,   *)
(* "previous" the match the fixture was first linked to, "proof" the last   *)
(* mapping that linked it.                                                  *)

Near(a, b) == a - b <= Tolerance /\ b - a <= Tolerance

\* Once linked, an old date makes no other match plausible.
Plausible(f, c, previous) ==
    \/ c.id = previous
    \/ IF previous # NoMatch THEN Near(c.start, f.start)
       ELSE \E at \in Dates(f) : Near(c.start, at)

Orientations(c) == IF c.home = c.away THEN {} ELSE {<<c.home, c.away>>, <<c.away, c.home>>}

\* The candidates that are plausible, each in its two orientations.
Hypotheses(f, known, previous) ==
    UNION {{<<c, o>> : o \in Orientations(c)} :
               c \in {x \in known.candidates : Plausible(f, x, previous)}}

Mapping(f, c, teams, basis) ==
    [match |-> c.id, teams |-> teams, basis |-> basis,
     names |-> <<f.participants[1].name, f.participants[2].name>>]

\* retained_contextual_team: the context has already identified this participant.
Retained(f, c, i, t, previous, proof) ==
    /\ previous = c.id /\ proof.match = c.id
    /\ proof.teams[i] = t /\ proof.basis[i] = "context"
    /\ proof.names[i] = f.participants[i].name

\* The proofs of both participants.
Basis(f, teams, aliases) == [i \in {1, 2} |-> Proof(f, f.participants[i], teams[i], aliases)]

\* Both participants proved, and the competition.
Demonstrated(f, known, previous) ==
    {Mapping(f, h[1], h[2], Basis(f, h[2], known.aliases)) :
        h \in {x \in Hypotheses(f, known, previous) :
                /\ CompetitionProved(f, x[1], known.competitions)
                /\ \A i \in {1, 2} : Basis(f, x[2], known.aliases)[i] # "none"}}

\* One participant proved by the context of the other, or the competition by the one of
\* both participants.
ContextProved(f, c, teams, known, previous, proof) ==
    LET basis  == Basis(f, teams, known.aliases)
        proved == {i \in {1, 2} : basis[i] # "none"}
        agrees == CompetitionProved(f, c, known.competitions)
    IN  \/ /\ agrees /\ Cardinality(proved) = 1
           /\ \E i \in {1, 2} \ proved :
                LET retained == Retained(f, c, i, teams[i], previous, proof)
                IN  /\ previous = NoMatch \/ retained
                    /\ Contextual(f.participants[i], teams[i], known.aliases,
                                  known.candidates, retained)
        \/ /\ ~agrees /\ proved = {1, 2}
           /\ \A a \in known.competitions : a.name # f.competition
           /\ Compatible(f.competition, c.competition)
           /\ Anchored(f.competition, c.competition)
           /\ c.competitionId # 0

\* What no rule proves of a participant rests on the context.
WithContext(basis) == [i \in {1, 2} |-> IF basis[i] = "none" THEN "context" ELSE basis[i]]

InContext(f, known, previous, proof) ==
    {Mapping(f, h[1], h[2], WithContext(Basis(f, h[2], known.aliases))) :
        h \in {x \in Hypotheses(f, known, previous) :
                ContextProved(f, x[1], x[2], known, previous, proof)}}

NoMapping == [match |-> NoMatch, teams |-> <<>>, basis |-> <<>>, names |-> <<>>]

\* Aliases that apply to one name and name several targets.
Contradictory(aliases, f, name) ==
    Cardinality({a.target : a \in Scoped(aliases, f, name)}) > 1

\* What is linked, before it is compared with the previous match.
Selected(f, known, previous, proof) ==
    LET full    == Demonstrated(f, known, previous)
        context == InContext(f, known, previous, proof)
        usable  == /\ f.start # NoDate
                   /\ \A p \in {f.participants[1], f.participants[2]} :
                        ~Contradictory(known.aliases, f, p.name)
                   /\ ~Contradictory(known.competitions, f, f.competition)
    IN  IF ~usable THEN NoMapping
        ELSE IF Cardinality(full) = 1 /\ \A o \in context, h \in full : o.match = h.match
        THEN CHOOSE h \in full : TRUE
        ELSE IF full = {} /\ Cardinality(context) = 1 THEN CHOOSE h \in context : TRUE
        ELSE NoMapping

\* Mutated form: the previous match is a candidate like another.
ResolvedAnew(f, known, previous, proof) == Selected(f, known, previous, proof)

\* A fixture that was linked is linked to the same match or to none.
Resolved(f, known, previous, proof) ==
    LET selected == Selected(f, known, previous, proof)
    IN  IF previous \in {NoMatch, selected.match} THEN selected ELSE NoMapping
=============================================================================
