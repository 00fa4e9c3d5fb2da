---------------------------- MODULE SettlementProofs ----------------------------
(***************************************************************************)
(* Theorems about Reconciliation and Settlement, for every catalog, every  *)
(* set of events, matches and aliases, and whatever the sources say: what  *)
(* an event is linked to, and what is decided of its selections.           *)
(***************************************************************************)
EXTENDS Settlement, FiniteSetTheorems, WellFoundedInduction, TLAPS

\* The teams of a match, in the order of one of its two orientations.
Ordered(m) == {<<Fixed[m].home, Fixed[m].away>>, <<Fixed[m].away, Fixed[m].home>>}

\* A mapping names a match that exists and the two teams that play it.
Mapped(h) ==
    /\ h.match \in Matches
    /\ Fixed[h.match].home # Fixed[h.match].away
    /\ h.teams \in Ordered(h.match)
    /\ DOMAIN h.basis = {1, 2} /\ DOMAIN h.names = {1, 2}

\* A participant identified by its context has a word of the name of its team.
Resembles(h) ==
    h.match # NoMatch => \A i \in {1, 2} :
        h.basis[i] = "context" => \E n \in NamesOf[h.teams[i]] : Words[n] \cap Words[h.names[i]] # {}

\* What rests on an alias rests on one of "aliases".
RestsOn(h, aliases) ==
    \A i \in DOMAIN h.basis :
        h.basis[i] = "alias" => \E a \in aliases : a.name = h.names[i] /\ a.target = h.teams[i]

\* Designates, of an event that starts at "start" and matches at the dates "at".
OnlyName(name, t) == {u \in Teams : name \in NamesOf[u] \cup CodesOf[u]} = {t}
Unlike(name, t) == \A u \in Teams \ {t} : \A n \in NamesOf[u] : Words[n] \cap Words[name] = {}

DesignatesAt(name, t, start, at) ==
    /\ OnlyName(name, t)
    /\ \/ \E m \in Matches : /\ t \in {Fixed[m].home, Fixed[m].away}
                             /\ at[m] # NoDate /\ Near(at[m], start)
       \/ Unlike(name, t)

\* A mapping agrees with a reading.
AgreesWith(h, shown, start, at, aliases) ==
    \A i \in {1, 2}, t \in Teams :
        (/\ h # NoMapping /\ aliases = {}
         /\ shown.participants[i].id = 0
         /\ DesignatesAt(shown.participants[i].name, t, start, at))
        => t \in {Fixed[h.match].home, Fixed[h.match].away}

-----------------------------------------------------------------------------
(* What the rules of identity return.                                       *)

\* Every proof is one of four.
LEMMA ProofKinds ==
    \A f, p, t, aliases : Proof(f, p, t, aliases) \in {"none", "alias", "id", "name"}
BY DEF Proof

\* An alias proves a participant only if there is one, of its name and for that team.
LEMMA AliasProves ==
    \A f, p, t, aliases : Proof(f, p, t, aliases) = "alias" =>
        \E a \in aliases : a.name = p.name /\ a.target = t
<1> SUFFICES ASSUME NEW f, NEW p, NEW t, NEW aliases, Proof(f, p, t, aliases) = "alias"
             PROVE  \E a \in aliases : a.name = p.name /\ a.target = t
  OBVIOUS
<1>1. /\ Scoped(aliases, f, p.name) # {}
      /\ \A a \in Scoped(aliases, f, p.name) : a.target = t
  BY DEF Proof
<1> QED
  BY <1>1 DEF Scoped

\* Without an alias or an identifier only the name of the team proves a participant.
LEMMA NameProves ==
    \A f, p, t : Proof(f, p, t, {}) # "none" /\ p.id = 0 => p.name \in NamesOf[t] \cup CodesOf[t]
BY DEF Proof, Scoped

\* What a hypothesis is made of.
LEMMA HypothesisParts ==
    \A f, known, previous : \A h \in Hypotheses(f, known, previous) :
        h[1] \in known.candidates /\ h[2] \in Orientations(h[1])
BY DEF Hypotheses

\* What is selected is demonstrated or follows from the context, of a fixture with a date.
LEMMA SelectedIsProved ==
    \A f, known, previous, before :
        LET h == Selected(f, known, previous, before)
        IN  h = NoMapping \/ /\ f.start # NoDate
                             /\ \/ h \in Demonstrated(f, known, previous)
                                \/ h \in InContext(f, known, previous, before)
<1> SUFFICES ASSUME NEW f, NEW known, NEW previous, NEW before
             PROVE  LET h == Selected(f, known, previous, before)
                    IN  h = NoMapping \/ /\ f.start # NoDate
                                         /\ \/ h \in Demonstrated(f, known, previous)
                                            \/ h \in InContext(f, known, previous, before)
  OBVIOUS
<1> DEFINE full == Demonstrated(f, known, previous)
           context == InContext(f, known, previous, before)
<1>1. \A S : Cardinality(S) = 1 => (CHOOSE h \in S : TRUE) \in S
  <2> SUFFICES ASSUME NEW S, Cardinality(S) = 1 PROVE (CHOOSE h \in S : TRUE) \in S
    OBVIOUS
  <2>1. S # {}
    BY FS_EmptySet
  <2>2. \E h \in S : TRUE
    BY <2>1
  <2> QED
    BY <2>2
<1>2. \/ Selected(f, known, previous, before) = NoMapping
      \/ /\ f.start # NoDate /\ Cardinality(full) = 1
         /\ Selected(f, known, previous, before) = CHOOSE h \in full : TRUE
      \/ /\ f.start # NoDate /\ Cardinality(context) = 1
         /\ Selected(f, known, previous, before) = CHOOSE h \in context : TRUE
  BY DEF Selected
<1> HIDE DEF full, context
<1>3. \/ Selected(f, known, previous, before) = NoMapping
      \/ f.start # NoDate /\ Selected(f, known, previous, before) \in full
      \/ f.start # NoDate /\ Selected(f, known, previous, before) \in context
  BY <1>1, <1>2
<1> QED
  BY <1>3 DEF full, context

\* What is resolved is what is selected, of the previous match when there is one.
LEMMA ResolvedIsSelected ==
    \A f, known, previous, before :
        LET h == Resolved(f, known, previous, before)
        IN  h = NoMapping \/ /\ h = Selected(f, known, previous, before)
                             /\ previous \in {NoMatch, h.match}
BY DEF Resolved

\* What a mapping of the fixture f is made of.
PartsOf(h, f, known) ==
    \E c \in known.candidates : \E o \in Orientations(c) :
        /\ h.match = c.id /\ h.teams = o
        /\ DOMAIN h.basis = {1, 2} /\ DOMAIN h.names = {1, 2}
        /\ \A i \in {1, 2} :
              /\ h.names[i] = f.participants[i].name
              /\ h.basis[i] = IF Proof(f, f.participants[i], o[i], known.aliases) = "none"
                              THEN "context"
                              ELSE Proof(f, f.participants[i], o[i], known.aliases)

\* What the context proves of a participant.
LeftFor(h, f, known, before) ==
    \A i \in {1, 2} : h.basis[i] = "context" =>
        /\ KnownAs(f.participants[i].name, known.candidates) \subseteq {h.teams[i]}
        /\ \/ \E n \in NamesOf[h.teams[i]] : Words[n] \cap Words[f.participants[i].name] # {}
           \/ /\ before.match = h.match
              /\ before.teams[i] = h.teams[i] /\ before.basis[i] = "context"
              /\ before.names[i] = f.participants[i].name

LEMMA DemonstratedParts ==
    \A f, known, previous, before : \A h \in Demonstrated(f, known, previous) :
        PartsOf(h, f, known) /\ LeftFor(h, f, known, before)
<1> SUFFICES ASSUME NEW f, NEW known, NEW previous, NEW before,
                    NEW h \in Demonstrated(f, known, previous)
             PROVE  PartsOf(h, f, known) /\ LeftFor(h, f, known, before)
  OBVIOUS
<1>1. PICK x \in Hypotheses(f, known, previous) :
         /\ h = Mapping(f, x[1], x[2], Basis(f, x[2], known.aliases))
         /\ \A i \in {1, 2} : Basis(f, x[2], known.aliases)[i] # "none"
  BY DEF Demonstrated
<1>2. x[1] \in known.candidates /\ x[2] \in Orientations(x[1])
  BY HypothesisParts
<1>3. \A i \in {1, 2} : Proof(f, f.participants[i], x[2][i], known.aliases) # "none"
  BY <1>1 DEF Basis
<1>4. /\ h.match = x[1].id /\ h.teams = x[2]
      /\ h.basis = [i \in {1, 2} |-> Proof(f, f.participants[i], x[2][i], known.aliases)]
      /\ h.names = <<f.participants[1].name, f.participants[2].name>>
  BY <1>1 DEF Mapping, Basis
<1>5. \A i \in {1, 2} : h.names[i] = f.participants[i].name
  BY <1>4
<1>6. DOMAIN h.basis = {1, 2} /\ DOMAIN h.names = {1, 2}
  <2>1. DOMAIN h.names = 1 .. 2
    BY <1>4
  <2>2. 1 .. 2 = {1, 2}
    OBVIOUS
  <2> QED
    BY <1>4, <2>1, <2>2
<1>7. \A i \in {1, 2} : h.basis[i] = Proof(f, f.participants[i], x[2][i], known.aliases)
  BY <1>4
<1>8. \A i \in {1, 2} : h.basis[i] # "context"
  BY <1>7, ProofKinds
<1>9. PartsOf(h, f, known)
  BY <1>2, <1>3, <1>4, <1>5, <1>6, <1>7 DEF PartsOf
<1> QED
  BY <1>8, <1>9 DEF LeftFor

LEMMA InContextParts ==
    \A f, known, previous, before : \A h \in InContext(f, known, previous, before) :
        PartsOf(h, f, known) /\ LeftFor(h, f, known, before)
<1> SUFFICES ASSUME NEW f, NEW known, NEW previous, NEW before,
                    NEW h \in InContext(f, known, previous, before)
             PROVE  PartsOf(h, f, known) /\ LeftFor(h, f, known, before)
  OBVIOUS
<1>1. PICK x \in Hypotheses(f, known, previous) :
         /\ h = Mapping(f, x[1], x[2], WithContext(Basis(f, x[2], known.aliases)))
         /\ ContextProved(f, x[1], x[2], known, previous, before)
  BY DEF InContext
<1>2. x[1] \in known.candidates /\ x[2] \in Orientations(x[1])
  BY HypothesisParts
<1> DEFINE P(i) == Proof(f, f.participants[i], x[2][i], known.aliases)
<1>3. /\ h.match = x[1].id /\ h.teams = x[2]
      /\ h.basis = [i \in {1, 2} |-> IF P(i) = "none" THEN "context" ELSE P(i)]
      /\ h.names = <<f.participants[1].name, f.participants[2].name>>
  <2>1. WithContext(Basis(f, x[2], known.aliases))
          = [i \in {1, 2} |-> IF P(i) = "none" THEN "context" ELSE P(i)]
    BY DEF WithContext, Basis
  <2> QED
    BY <1>1, <2>1 DEF Mapping
<1>4. \A i \in {1, 2} : h.names[i] = f.participants[i].name
  BY <1>3
<1>5. DOMAIN h.basis = {1, 2} /\ DOMAIN h.names = {1, 2}
  <2>1. DOMAIN h.names = 1 .. 2
    BY <1>3
  <2>2. 1 .. 2 = {1, 2}
    OBVIOUS
  <2> QED
    BY <1>3, <2>1, <2>2
<1>6. \A i \in {1, 2} : h.basis[i] = IF P(i) = "none" THEN "context" ELSE P(i)
  BY <1>3
<1>7. PartsOf(h, f, known)
  BY <1>2, <1>3, <1>4, <1>5, <1>6 DEF PartsOf
<1>8. ASSUME NEW i \in {1, 2}, h.basis[i] = "context"
      PROVE  /\ KnownAs(f.participants[i].name, known.candidates) \subseteq {h.teams[i]}
             /\ \/ \E n \in NamesOf[h.teams[i]] : Words[n] \cap Words[f.participants[i].name] # {}
                \/ /\ before.match = h.match
                   /\ before.teams[i] = h.teams[i] /\ before.basis[i] = "context"
                   /\ before.names[i] = f.participants[i].name
  <2> DEFINE proved == {j \in {1, 2} : P(j) # "none"}
             retained(j) == Retained(f, x[1], j, x[2][j], previous, before)
  <2>1. P(i) = "none"
    <3>1. P(i) # "context"
      BY ProofKinds
    <3> QED
      BY <1>6, <1>8, <3>1
  <2>2. Basis(f, x[2], known.aliases) = [j \in {1, 2} |-> P(j)]
    BY DEF Basis
  <2>3. \/ /\ Cardinality(proved) = 1
           /\ \E j \in {1, 2} \ proved :
                 Contextual(f.participants[j], x[2][j], known.aliases, known.candidates,
                            retained(j))
        \/ proved = {1, 2}
    <3>1. proved = {j \in {1, 2} : Basis(f, x[2], known.aliases)[j] # "none"}
      BY <2>2
    <3> HIDE DEF proved
    <3> QED
      BY <1>1, <3>1 DEF ContextProved
  <2>4. i \notin proved
    BY <2>1
  <2>5. PICK j \in {1, 2} \ proved :
           Contextual(f.participants[j], x[2][j], known.aliases, known.candidates, retained(j))
    BY <2>3, <2>4
  <2>6. proved # {}
    <3>1. Cardinality(proved) = 1
      BY <2>3, <2>4
    <3> QED
      BY <3>1, FS_EmptySet
  <2>7. j = i
    BY <2>4, <2>5, <2>6
  <2>8. /\ KnownAs(f.participants[i].name, known.candidates) \subseteq {x[2][i]}
        /\ retained(i) \/ \E n \in NamesOf[x[2][i]] :
                              Words[n] \cap Words[f.participants[i].name] # {}
    BY <2>5, <2>7 DEF Contextual
  <2>9. retained(i) => /\ before.match = x[1].id
                       /\ before.teams[i] = x[2][i] /\ before.basis[i] = "context"
                       /\ before.names[i] = f.participants[i].name
    BY DEF Retained
  <2> QED
    BY <1>3, <2>8, <2>9
<1> QED
  BY <1>7, <1>8 DEF LeftFor

\* The candidates are matches, at the dates "at".
AreMatches(known, at) == known.candidates \subseteq {Candidate(m, at) : m \in Matches}

LEMMA PartsAreMapped ==
    ASSUME IdentityAssumption, NEW h, NEW f, NEW known, NEW at,
           AreMatches(known, at), PartsOf(h, f, known)
    PROVE  Mapped(h) /\ RestsOn(h, known.aliases) /\ h # NoMapping
<1>0. PICK c \in known.candidates : \E o \in Orientations(c) :
         /\ h.match = c.id /\ h.teams = o
         /\ DOMAIN h.basis = {1, 2} /\ DOMAIN h.names = {1, 2}
         /\ \A i \in {1, 2} :
               /\ h.names[i] = f.participants[i].name
               /\ h.basis[i] = IF Proof(f, f.participants[i], o[i], known.aliases) = "none"
                               THEN "context"
                               ELSE Proof(f, f.participants[i], o[i], known.aliases)
  BY DEF PartsOf
<1>1. PICK o \in Orientations(c) :
         /\ h.match = c.id /\ h.teams = o
         /\ DOMAIN h.basis = {1, 2} /\ DOMAIN h.names = {1, 2}
         /\ \A i \in {1, 2} :
               /\ h.names[i] = f.participants[i].name
               /\ h.basis[i] = IF Proof(f, f.participants[i], o[i], known.aliases) = "none"
                               THEN "context"
                               ELSE Proof(f, f.participants[i], o[i], known.aliases)
  BY <1>0
<1>2. PICK m \in Matches : c = Candidate(m, at)
  BY DEF AreMatches
<1>3. c.id = m /\ c.home = Fixed[m].home /\ c.away = Fixed[m].away
  BY <1>2 DEF Candidate
<1>4. Fixed[m].home # Fixed[m].away /\ o \in Ordered(m)
  BY <1>1, <1>3 DEF Orientations, Ordered
<1>5. Mapped(h)
  BY <1>1, <1>3, <1>4 DEF Mapped
<1>6. ASSUME NEW i \in DOMAIN h.basis, h.basis[i] = "alias"
      PROVE  \E a \in known.aliases : a.name = h.names[i] /\ a.target = h.teams[i]
  <2>1. i \in {1, 2} /\ Proof(f, f.participants[i], o[i], known.aliases) = "alias"
    BY <1>1, <1>6
  <2>2. \E a \in known.aliases : a.name = f.participants[i].name /\ a.target = o[i]
    BY <2>1, AliasProves
  <2> QED
    BY <1>1, <2>1, <2>2
<1>7. h # NoMapping
  BY <1>5 DEF Mapped, NoMapping, IdentityAssumption
<1> QED
  BY <1>5, <1>6, <1>7 DEF RestsOn

LEMMA PartsResemble ==
    ASSUME IdentityAssumption, NEW h, NEW f, NEW known, NEW before,
           Mapped(h), PartsOf(h, f, known), LeftFor(h, f, known, before), Resembles(before)
    PROVE  Resembles(h)
<1>1. \A i \in {1, 2} : h.names[i] = f.participants[i].name
  BY DEF PartsOf
<1>2. h.match # NoMatch
  BY DEF Mapped, IdentityAssumption
<1>3. ASSUME NEW i \in {1, 2}, h.basis[i] = "context"
      PROVE  \E n \in NamesOf[h.teams[i]] : Words[n] \cap Words[h.names[i]] # {}
  <2>1. \/ \E n \in NamesOf[h.teams[i]] : Words[n] \cap Words[f.participants[i].name] # {}
        \/ /\ before.match = h.match
           /\ before.teams[i] = h.teams[i] /\ before.basis[i] = "context"
           /\ before.names[i] = f.participants[i].name
    BY <1>3 DEF LeftFor
  <2>2. CASE /\ before.match = h.match
             /\ before.teams[i] = h.teams[i] /\ before.basis[i] = "context"
             /\ before.names[i] = f.participants[i].name
    <3>1. \E n \in NamesOf[before.teams[i]] : Words[n] \cap Words[before.names[i]] # {}
      BY <1>2, <2>2 DEF Resembles
    <3> QED
      BY <1>1, <2>2, <3>1
  <2> QED
    BY <1>1, <2>1, <2>2
<1> QED
  BY <1>3 DEF Resembles

\* A participant without an identifier or an alias, whose name designates a team, is
\* that team.
LEMMA NameStands ==
    ASSUME IdentityAssumption, NEW h, NEW f, NEW known, NEW before,
           Mapped(h), PartsOf(h, f, known), LeftFor(h, f, known, before), Resembles(h),
           known.aliases = {},
           NEW i \in {1, 2}, f.participants[i].id = 0, NEW t,
           OnlyName(f.participants[i].name, t),
           \/ \E c \in known.candidates : t \in {c.home, c.away}
           \/ Unlike(f.participants[i].name, t)
    PROVE  t \in {Fixed[h.match].home, Fixed[h.match].away}
<1>0. PICK c \in known.candidates : \E o \in Orientations(c) :
         /\ h.match = c.id /\ h.teams = o
         /\ \A j \in {1, 2} :
               /\ h.names[j] = f.participants[j].name
               /\ h.basis[j] = IF Proof(f, f.participants[j], o[j], known.aliases) = "none"
                               THEN "context"
                               ELSE Proof(f, f.participants[j], o[j], known.aliases)
  BY DEF PartsOf
<1>1. PICK o \in Orientations(c) :
         /\ h.match = c.id /\ h.teams = o
         /\ \A j \in {1, 2} :
               /\ h.names[j] = f.participants[j].name
               /\ h.basis[j] = IF Proof(f, f.participants[j], o[j], known.aliases) = "none"
                               THEN "context"
                               ELSE Proof(f, f.participants[j], o[j], known.aliases)
  BY <1>0
<1>2. h.teams[i] \in {Fixed[h.match].home, Fixed[h.match].away}
  BY DEF Mapped, Ordered
<1>3. h.teams[i] \in Teams
  BY <1>2 DEF Mapped, IdentityAssumption
<1>4. CASE Proof(f, f.participants[i], o[i], {}) # "none"
  <2>1. f.participants[i].name \in NamesOf[h.teams[i]] \cup CodesOf[h.teams[i]]
    BY <1>1, <1>4, NameProves
  <2>2. h.teams[i] = t
    BY <1>3, <2>1 DEF OnlyName
  <2> QED
    BY <1>2, <2>2
<1>5. CASE Proof(f, f.participants[i], o[i], {}) = "none"
  <2>1. h.basis[i] = "context"
    BY <1>1, <1>5
  <2>2. KnownAs(f.participants[i].name, known.candidates) \subseteq {h.teams[i]}
    BY <2>1 DEF LeftFor
  <2>3. \E n \in NamesOf[h.teams[i]] : Words[n] \cap Words[f.participants[i].name] # {}
    <3>1. h.match # NoMatch /\ h.names[i] = f.participants[i].name
      BY <1>1 DEF Mapped, IdentityAssumption
    <3> QED
      BY <2>1, <3>1 DEF Resembles
  <2>4. t \in Teams /\ f.participants[i].name \in NamesOf[t] \cup CodesOf[t]
    BY DEF OnlyName
  <2>5. ASSUME NEW x \in known.candidates, t \in {x.home, x.away}
        PROVE  t = h.teams[i]
    <3>1. t \in KnownAs(f.participants[i].name, known.candidates)
      BY <2>4, <2>5 DEF KnownAs
    <3> QED
      BY <2>2, <3>1
  <2>6. h.teams[i] = t
    BY <1>3, <2>3, <2>5 DEF Unlike
  <2> QED
    BY <1>2, <2>6
<1> QED
  BY <1>4, <1>5

LEMMA ResolvedIsSound ==
    ASSUME IdentityAssumption, NEW f, NEW known, NEW at, AreMatches(known, at),
           NEW previous, NEW before, Resembles(before), NEW h,
           h = Resolved(f, known, previous, before), h # NoMapping
    PROVE  /\ Mapped(h) /\ RestsOn(h, known.aliases) /\ Resembles(h)
           /\ PartsOf(h, f, known) /\ LeftFor(h, f, known, before)
           /\ f.start # NoDate /\ previous \in {NoMatch, h.match}
<1>1. h = Selected(f, known, previous, before) /\ previous \in {NoMatch, h.match}
  BY ResolvedIsSelected
<1>2. /\ f.start # NoDate
      /\ h \in Demonstrated(f, known, previous) \/ h \in InContext(f, known, previous, before)
  BY <1>1, SelectedIsProved
<1>3. PartsOf(h, f, known) /\ LeftFor(h, f, known, before)
  BY <1>2, DemonstratedParts, InContextParts
<1>4. Mapped(h) /\ RestsOn(h, known.aliases)
  BY <1>3, PartsAreMapped
<1>5. Resembles(h)
  BY <1>3, <1>4, PartsResemble
<1> QED
  BY <1>1, <1>2, <1>3, <1>4, <1>5

\* What an event is decided to be: a match, for reasons that the last reading does not
\* contradict.
LEMMA DecidedIsSound ==
    ASSUME IdentityAssumption, NEW known, NEW at, AreMatches(known, at),
           NEW row, NEW seen, NEW e, Resembles(proof[e]), NEW shown, NEW h,
           h = Decided(Fixture(e, row, seen), known, e, shown), h # NoMapping
    PROVE  /\ Mapped(h) /\ RestsOn(h, known.aliases) /\ Resembles(h)
           /\ row.start # NoDate /\ last[e] \in {NoMatch, h.match}
           /\ known.aliases = {} =>
                \A i \in {1, 2}, t \in Teams :
                   (/\ shown.participants[i].id = 0
                    /\ OnlyName(shown.participants[i].name, t)
                    /\ \/ \E c \in known.candidates : t \in {c.home, c.away}
                       \/ Unlike(shown.participants[i].name, t))
                   => t \in {Fixed[h.match].home, Fixed[h.match].away}
<1> DEFINE f == Fixture(e, row, seen)
           g == Alternate(f, shown)
           again == Resolved(g, known, h.match, h)
<1>1. h = Resolved(f, known, last[e], proof[e])
  BY DEF Decided
<1>2. g # f => again.match = h.match \/ h.match = NoMatch
  <2> DEFINE found == Resolved(f, known, last[e], proof[e])
             checked == Resolved(g, known, found.match, found)
  <2>1. ~(found.match # NoMatch /\ g # f /\ checked.match # found.match)
    BY <1>1 DEF Decided
  <2> QED
    BY <1>1, <2>1
<1>3. f.start = row.start
  BY DEF Fixture
<1>4. g.participants = shown.participants
  BY DEF Fixture, Alternate
<1> HIDE DEF f, g
<1>5. /\ Mapped(h) /\ RestsOn(h, known.aliases) /\ Resembles(h)
      /\ PartsOf(h, f, known) /\ LeftFor(h, f, known, proof[e])
      /\ f.start # NoDate /\ last[e] \in {NoMatch, h.match}
  <2> DEFINE previous == last[e]
             before == proof[e]
  <2>1. h = Resolved(f, known, previous, before) /\ Resembles(before)
    BY <1>1
  <2> HIDE DEF previous, before
  <2>2. /\ Mapped(h) /\ RestsOn(h, known.aliases) /\ Resembles(h)
        /\ PartsOf(h, f, known) /\ LeftFor(h, f, known, before)
        /\ f.start # NoDate /\ previous \in {NoMatch, h.match}
    BY <2>1, ResolvedIsSound
  <2> QED
    BY <2>2 DEF previous, before
<1>6. \E x, before : /\ Mapped(x) /\ PartsOf(x, g, known) /\ LeftFor(x, g, known, before)
                     /\ Resembles(x) /\ x.match = h.match
  <2>1. CASE g = f
    BY <1>5, <2>1
  <2>2. CASE g # f
    <3>1. h.match \in Matches /\ h.match # NoMatch
      BY <1>5 DEF Mapped, IdentityAssumption
    <3>2. again.match = h.match
      BY <1>2, <2>2, <3>1
    <3>3. again # NoMapping
      BY <3>1, <3>2 DEF NoMapping
    <3> HIDE DEF again
    <3>4. again = Resolved(g, known, h.match, h)
      BY DEF again
    <3>5. Mapped(again) /\ Resembles(again) /\ PartsOf(again, g, known) /\ LeftFor(again, g, known, h)
      BY <1>5, <3>3, <3>4, ResolvedIsSound
    <3> QED
      BY <3>2, <3>5
  <2> QED
    BY <2>1, <2>2
<1>7. ASSUME known.aliases = {}, NEW i \in {1, 2}, NEW t \in Teams,
             shown.participants[i].id = 0,
             OnlyName(shown.participants[i].name, t),
             \/ \E c \in known.candidates : t \in {c.home, c.away}
             \/ Unlike(shown.participants[i].name, t)
      PROVE  t \in {Fixed[h.match].home, Fixed[h.match].away}
  <2>1. PICK x, before : /\ Mapped(x) /\ PartsOf(x, g, known) /\ LeftFor(x, g, known, before)
                         /\ Resembles(x) /\ x.match = h.match
    BY <1>6
  <2>2. /\ g.participants[i].id = 0
        /\ OnlyName(g.participants[i].name, t)
        /\ \/ \E c \in known.candidates : t \in {c.home, c.away}
           \/ Unlike(g.participants[i].name, t)
    BY <1>4, <1>7
  <2>3. t \in {Fixed[x.match].home, Fixed[x.match].away}
    BY <1>7, <2>1, <2>2, NameStands
  <2> QED
    BY <2>1, <2>3
<1> QED
  BY <1>3, <1>5, <1>7

-----------------------------------------------------------------------------
(* The transactions under the lock of the identities.                       *)

\* A link is of an existing match, on aliases and names that still hold.
JustifiedAs(h, row, shown, at, aliases) ==
    h = NoMapping \/ /\ Mapped(h) /\ RestsOn(h, aliases)
                     /\ AgreesWith(h, shown, row.start, at, aliases)

IdentityInv ==
    /\ event = [e \in Events |-> event[e]] /\ observed \in [Events -> Seq(Readings)]
    /\ last \in [Events -> Matches \cup {NoMatch}]
    /\ \A e \in Events :
          /\ link[e].match \in {NoMatch, last[e]}
          /\ observed[e] = <<>> => link[e] = NoMapping
          /\ Resembles(proof[e])
          /\ JustifiedAs(link[e], event[e], Newest(e), match, active.participants)

\* What a transaction leaves of an event.
Left(e, row, seen, at, aliases) ==
    /\ last'[e] \in Matches \cup {NoMatch}
    /\ link'[e].match \in {NoMatch, last'[e]}
    /\ last[e] # NoMatch => last'[e] = last[e]
    /\ seen[e] = <<>> => link'[e] = NoMapping
    /\ Resembles(proof'[e])
    /\ JustifiedAs(link'[e], row[e], seen[e][Len(seen[e])], at, aliases.participants)

\* The events a transaction does not reconcile keep their rows, and the rest with them.
Complete(batch, row, seen, at, aliases) ==
    /\ batch \subseteq Events
    /\ \A e \in Events \ batch : row[e] = event[e] /\ seen[e] = observed[e]
    /\ batch = Events \/ (at = match /\ aliases = active)
    /\ \A e \in Events : seen[e] = <<>> => observed[e] = <<>>

LEMMA ReconcileIsSound ==
    ASSUME IdentityAssumption, IdentityInv
    PROVE  \A batch, row, seen, at, aliases :
              Complete(batch, row, seen, at, aliases) /\ Reconcile(batch, row, seen, at, aliases)
              => /\ last' \in [Events -> Matches \cup {NoMatch}]
                 /\ \A e \in Events : Left(e, row, seen, at, aliases)
<1> SUFFICES ASSUME NEW batch, NEW row, NEW seen, NEW at, NEW aliases,
                    Complete(batch, row, seen, at, aliases),
                    Reconcile(batch, row, seen, at, aliases)
             PROVE  /\ last' \in [Events -> Matches \cup {NoMatch}]
                    /\ \A e \in Events : Left(e, row, seen, at, aliases)
  OBVIOUS
<1> DEFINE present == {e \in batch : seen[e] # <<>>}
           fixture == [e \in present |-> Fixture(e, row[e], seen[e])]
           known == [candidates |-> Candidates(present, fixture, at),
                     aliases |-> aliases.participants,
                     competitions |-> aliases.competitions]
           decision == [e \in present |->
                           Decided(fixture[e], known, e, seen[e][Len(seen[e])])]
<1>1. /\ link' = [e \in Events |-> IF e \in present THEN decision[e] ELSE link[e]]
      /\ last' = [e \in Events |-> IF e \in present /\ last[e] = NoMatch
                                   THEN decision[e].match ELSE last[e]]
      /\ proof' = [e \in Events |-> IF e \in present /\ decision[e] # NoMapping
                                    THEN decision[e] ELSE proof[e]]
  BY DEF Reconcile
<1>2. AreMatches(known, at)
  BY DEF AreMatches, Candidates
<1>3. known.aliases = aliases.participants
  OBVIOUS
<1>4. \A e \in present : \A m \in Matches :
         (at[m] # NoDate /\ row[e].start # NoDate /\ Near(at[m], row[e].start))
         => Candidate(m, at) \in known.candidates
  <2> SUFFICES ASSUME NEW e \in present, NEW m \in Matches,
                      at[m] # NoDate, row[e].start # NoDate, Near(at[m], row[e].start)
               PROVE  Candidate(m, at) \in known.candidates
    OBVIOUS
  <2>1. fixture[e].start = row[e].start
    BY DEF Fixture
  <2>2. row[e].start \in Dates(fixture[e])
    BY <2>1 DEF Dates
  <2>3. \E d \in Dates(fixture[e]) : Near(at[m], d)
    BY <2>2
  <2> HIDE DEF fixture, present
  <2>4. Candidate(m, at) \in Candidates(present, fixture, at)
    BY <2>3 DEF Candidates
  <2> QED
    BY <2>4
<1>5. \A e \in present : decision[e] = Decided(Fixture(e, row[e], seen[e]), known, e,
                                               seen[e][Len(seen[e])])
  OBVIOUS
<1> HIDE DEF known, decision, fixture
<1>6. ASSUME NEW e \in present, decision[e] # NoMapping
      PROVE  /\ Mapped(decision[e]) /\ Resembles(decision[e])
             /\ last[e] \in {NoMatch, decision[e].match}
             /\ JustifiedAs(decision[e], row[e], seen[e][Len(seen[e])], at, aliases.participants)
  <2> DEFINE h == decision[e]
             r == seen[e][Len(seen[e])]
             start == row[e]
  <2>1. h = Decided(Fixture(e, start, seen[e]), known, e, r) /\ h # NoMapping
    BY <1>5, <1>6
  <2>2. Resembles(proof[e])
    BY DEF IdentityInv, Complete
  <2> HIDE DEF h, r, start
  <2>3. /\ Mapped(h) /\ RestsOn(h, known.aliases) /\ Resembles(h)
        /\ start.start # NoDate /\ last[e] \in {NoMatch, h.match}
        /\ known.aliases = {} =>
                \A i \in {1, 2}, t \in Teams :
                   (/\ r.participants[i].id = 0
                    /\ OnlyName(r.participants[i].name, t)
                    /\ \/ \E c \in known.candidates : t \in {c.home, c.away}
                       \/ Unlike(r.participants[i].name, t))
                   => t \in {Fixed[h.match].home, Fixed[h.match].away}
    BY <1>2, <2>1, <2>2, DecidedIsSound
  <2>4. ASSUME NEW i \in {1, 2}, NEW t \in Teams, aliases.participants = {},
               r.participants[i].id = 0, DesignatesAt(r.participants[i].name, t, start.start, at)
        PROVE  t \in {Fixed[h.match].home, Fixed[h.match].away}
    <3>1. \/ \E c \in known.candidates : t \in {c.home, c.away}
          \/ Unlike(r.participants[i].name, t)
      <4>1. ASSUME NEW m \in Matches, t \in {Fixed[m].home, Fixed[m].away},
                   at[m] # NoDate, Near(at[m], start.start)
            PROVE  \E c \in known.candidates : t \in {c.home, c.away}
        <5>1. Candidate(m, at) \in known.candidates
          BY <1>4, <2>3, <4>1 DEF start
        <5>2. t \in {Candidate(m, at).home, Candidate(m, at).away}
          BY <4>1 DEF Candidate
        <5> QED
          BY <5>1, <5>2
      <4> QED
        BY <2>4, <4>1 DEF DesignatesAt
    <3>2. OnlyName(r.participants[i].name, t)
      BY <2>4 DEF DesignatesAt
    <3> QED
      BY <1>3, <2>3, <2>4, <3>1, <3>2
  <2>5. AgreesWith(h, r, start.start, at, aliases.participants)
    BY <2>4 DEF AgreesWith
  <2>6. JustifiedAs(h, start, r, at, aliases.participants)
    BY <1>3, <2>3, <2>5 DEF JustifiedAs
  <2> QED
    BY <2>3, <2>6 DEF h, r, start
<1>7. NoMapping.match = NoMatch
  BY DEF NoMapping
<1>8. \A e \in Events : e \in present => decision[e].match \in Matches \cup {NoMatch}
  BY <1>6, <1>7 DEF Mapped
<1>9. last' \in [Events -> Matches \cup {NoMatch}]
  BY <1>1, <1>8 DEF IdentityInv
<1>10. ASSUME NEW e \in Events, e \in present
       PROVE  Left(e, row, seen, at, aliases)
  <2>1. link'[e] = decision[e]
    BY <1>1, <1>10
  <2>2. last'[e] = IF last[e] = NoMatch THEN decision[e].match ELSE last[e]
    BY <1>1, <1>10
  <2>3. proof'[e] = IF decision[e] # NoMapping THEN decision[e] ELSE proof[e]
    BY <1>1, <1>10
  <2>4. Resembles(proof[e])
    BY DEF IdentityInv
  <2>5. Resembles(proof'[e])
    BY <1>6, <1>10, <2>3, <2>4
  <2>6. decision[e].match \in {NoMatch, last'[e]}
    BY <1>6, <1>7, <1>10, <2>2
  <2>7. JustifiedAs(decision[e], row[e], seen[e][Len(seen[e])], at, aliases.participants)
    <3>1. CASE decision[e] = NoMapping
      BY <3>1 DEF JustifiedAs
    <3>2. CASE decision[e] # NoMapping
      BY <1>6, <1>10, <3>2
    <3> QED
      BY <3>1, <3>2
  <2>8. last'[e] \in Matches \cup {NoMatch}
    BY <1>9
  <2>9. seen[e] # <<>>
    BY <1>10
  <2> QED
    BY <2>1, <2>2, <2>5, <2>6, <2>7, <2>8, <2>9 DEF Left
<1>11. ASSUME NEW e \in Events, e \notin present
       PROVE  Left(e, row, seen, at, aliases)
  <2>1. link'[e] = link[e] /\ last'[e] = last[e] /\ proof'[e] = proof[e]
    BY <1>1, <1>11
  <2>2. /\ link[e].match \in {NoMatch, last[e]} /\ Resembles(proof[e])
        /\ observed[e] = <<>> => link[e] = NoMapping
        /\ JustifiedAs(link[e], event[e], Newest(e), match, active.participants)
    BY DEF IdentityInv
  <2>3. seen[e] = <<>> => link[e] = NoMapping
    BY <2>2 DEF Complete
  <2>4. JustifiedAs(link[e], row[e], seen[e][Len(seen[e])], at, aliases.participants)
    <3>1. CASE seen[e] = <<>>
      BY <2>3, <3>1 DEF JustifiedAs
    <3>2. CASE seen[e] # <<>>
      <4>1. e \notin batch
        BY <1>11, <3>2
      <4>2. row[e] = event[e] /\ seen[e] = observed[e] /\ at = match /\ aliases = active
        BY <4>1 DEF Complete
      <4> QED
        BY <2>2, <4>2 DEF Newest
    <3> QED
      BY <3>1, <3>2
  <2>5. last'[e] \in Matches \cup {NoMatch}
    BY <1>9
  <2> QED
    BY <2>1, <2>2, <2>3, <2>4, <2>5 DEF Left
<1> QED
  BY <1>9, <1>10, <1>11

\* A link is never moved: the action of LinkNeverMoves.
Stays ==
    \A e \in Events : last[e] # NoMatch =>
        last'[e] = last[e] /\ link'[e].match \in {NoMatch, last[e]}

LEMMA LeftIsKept ==
    ASSUME event' = [e \in Events |-> event'[e]], observed' \in [Events -> Seq(Readings)],
           last' \in [Events -> Matches \cup {NoMatch}],
           \A e \in Events : Left(e, event', observed', match', active')
    PROVE  IdentityInv' /\ Stays
<1>1. \A e \in Events :
         /\ link'[e].match \in {NoMatch, last'[e]}
         /\ observed'[e] = <<>> => link'[e] = NoMapping
         /\ Resembles(proof'[e])
         /\ JustifiedAs(link'[e], event'[e], observed'[e][Len(observed'[e])], match',
                        active'.participants)
  BY DEF Left
<1>2. \A e \in Events : Newest(e)' = observed'[e][Len(observed'[e])]
  BY DEF Newest
<1>3. IdentityInv'
  BY <1>1, <1>2 DEF IdentityInv
<1>4. Stays
  BY DEF Left, Stays
<1> QED
  BY <1>3, <1>4

LEMMA RememberKeeps ==
    ASSUME IdentityAssumption, IdentityInv, NEW e \in Events, NEW r \in Readings, Remember(e, r)
    PROVE  IdentityInv' /\ Stays
<1>1. /\ event' = [event EXCEPT ![e] = Retain(event[e], r)]
      /\ observed' = [observed EXCEPT ![e] = Observe(e, r)]
      /\ Reconcile({e}, event', observed', match, active)
      /\ match' = match /\ active' = active
  BY DEF Remember
<1>2. event = [x \in Events |-> event[x]] /\ observed \in [Events -> Seq(Readings)]
  BY DEF IdentityInv
<1>3. event' = [x \in Events |-> event'[x]]
  BY <1>1, <1>2
<1>4. Observe(e, r) \in Seq(Readings) /\ (Observe(e, r) = <<>> => observed[e] = <<>>)
  <2>0. observed[e] \in Seq(Readings)
    BY <1>2
  <2>1. Append(observed[e], r) \in Seq(Readings) /\ Append(observed[e], r) # <<>>
    BY <2>0
  <2> QED
    BY <1>2, <2>1 DEF Observe
<1>5. observed' \in [Events -> Seq(Readings)]
  BY <1>1, <1>2, <1>4
<1>6. \A x \in Events \ {e} : event'[x] = event[x] /\ observed'[x] = observed[x]
  BY <1>1, <1>2
<1>7. observed'[e] = <<>> => observed[e] = <<>>
  BY <1>1, <1>2, <1>4
<1>8. Complete({e}, event', observed', match, active)
  BY <1>6, <1>7 DEF Complete
<1>9. /\ last' \in [Events -> Matches \cup {NoMatch}]
      /\ \A x \in Events : Left(x, event', observed', match, active)
  BY <1>1, <1>8, ReconcileIsSound
<1>10. \A x \in Events : Left(x, event', observed', match', active')
  BY <1>1, <1>9
<1> QED
  BY <1>3, <1>5, <1>9, <1>10, LeftIsKept

\* A transaction that reconciles every event and writes none.
LEMMA ReconcileAllKeeps ==
    ASSUME IdentityAssumption, IdentityInv, event' = event, observed' = observed,
           Reconcile(Events, event, observed, match', active')
    PROVE  IdentityInv' /\ Stays
<1>1. Complete(Events, event, observed, match', active')
  BY DEF Complete
<1>2. /\ last' \in [Events -> Matches \cup {NoMatch}]
      /\ \A x \in Events : Left(x, event, observed, match', active')
  BY <1>1, ReconcileIsSound
<1>3. \A x \in Events : Left(x, event', observed', match', active')
  BY <1>2
<1>4. event' = [x \in Events |-> event'[x]] /\ observed' \in [Events -> Seq(Readings)]
  BY DEF IdentityInv
<1> QED
  BY <1>2, <1>3, <1>4, LeftIsKept

LEMMA ChangeKeeps ==
    ASSUME IdentityAssumption, IdentityInv, PublishMatch \/ ImportAlias \/ RevokeAlias
    PROVE  IdentityInv' /\ Stays
<1>1. CASE PublishMatch
  <2>1. active' = active /\ Reconcile(Events, event, observed, match', active)
    BY <1>1 DEF PublishMatch
  <2>2. Reconcile(Events, event, observed, match', active')
    BY <2>1
  <2>3. event' = event /\ observed' = observed
    BY <1>1 DEF PublishMatch
  <2> QED
    BY <2>2, <2>3, ReconcileAllKeeps
<1>2. CASE ImportAlias
  <2>1. match' = match /\ Reconcile(Events, event, observed, match, active')
    BY <1>2 DEF ImportAlias
  <2>2. Reconcile(Events, event, observed, match', active')
    BY <2>1
  <2>3. event' = event /\ observed' = observed
    BY <1>2 DEF ImportAlias
  <2> QED
    BY <2>2, <2>3, ReconcileAllKeeps
<1>3. CASE RevokeAlias
  <2>1. match' = match /\ Reconcile(Events, event, observed, match, active')
    BY <1>3 DEF RevokeAlias, Reconciled
  <2>2. Reconcile(Events, event, observed, match', active')
    BY <2>1
  <2>3. event' = event /\ observed' = observed
    BY <1>3 DEF RevokeAlias
  <2> QED
    BY <2>2, <2>3, ReconcileAllKeeps
<1> QED
  BY <1>1, <1>2, <1>3

-----------------------------------------------------------------------------
(* Settlements.                                                             *)

Pays == UNION {Payloads[s] : s \in Sources}
Entries == [source : Sources, match : Matches, at : Nat, payload : Pays]
Aliasing == [participants : SUBSET Aliases, competitions : SUBSET Competitions,
             revoked : [participants : SUBSET Aliases, competitions : SUBSET Competitions]]
StartDates == {NoDate} \cup UNION {StartsOf[m] : m \in Matches}
Results == [status : {"pending", "won", "lost", "void"}, source : Sources \cup {"none"}]

ReadingsGood ==
    /\ reading \in Seq(Entries)
    /\ \A i \in DOMAIN reading : reading[i].at <= now

\* What was quoted is known, and nothing is decided of what was not.
QuotedGood ==
    /\ quoted \in [Events -> SUBSET Labels]
    /\ \A e \in Events : IsFiniteSet(quoted[e])
    /\ result \in [Events \X Kinds \X Labels -> Results]
    /\ \A x \in Events \X Kinds \X Labels : x[3] \notin quoted[x[1]] => result[x] = Pending

SettlementTyped ==
    /\ match \in [Matches -> StartDates] /\ active \in Aliasing
    /\ now \in 0 .. MaxClock /\ settled \in BOOLEAN

\* The inductive invariant of Settlement.
SettlementInv == /\ IdentityInv /\ SettlementTyped /\ ReadingsGood /\ QuotedGood
                 /\ OnePickWins /\ RetractedWithLink

\* Any readings have a first and a last one.
LEMMA LeastExists ==
    ASSUME NEW S \in SUBSET Nat, S # {}
    PROVE  \E i \in S : \A j \in S : i <= j
<1> DEFINE R == OpToRel(<, Nat)
<1>1. IsWellFoundedOn(R, Nat)
  BY NatLessThanWellFounded
<1>2. \A a, b \in Nat : a < b => <<a, b>> \in R
  BY DEF OpToRel
<1> HIDE DEF R
<1>3. PICK i \in S : \A j \in S : ~ (<<j, i>> \in R)
  BY <1>1, WFMin
<1>4. \A j \in S : ~(j < i)
  BY <1>2, <1>3
<1> QED
  BY <1>4

LEMMA GreatestExists ==
    ASSUME NEW n \in Nat, NEW S \in SUBSET (1 .. n), S # {}
    PROVE  \E i \in S : \A j \in S : j <= i
<1> DEFINE T == {n - i : i \in S}
<1>1. T \in SUBSET Nat /\ T # {}
  <2>1. \A i \in S : n - i \in Nat
    OBVIOUS
  <2> QED
    BY <2>1
<1>2. PICK x \in T : \A y \in T : x <= y
  BY <1>1, LeastExists
<1>3. PICK i \in S : x = n - i
  BY <1>2
<1>4. \A j \in S : n - i <= n - j
  BY <1>2, <1>3
<1> QED
  BY <1>4

LEMMA LastExists ==
    ASSUME ReadingsGood, NEW S \in SUBSET DOMAIN reading, S # {}
    PROVE  LastOf(S) \in S /\ \A j \in S : j <= LastOf(S)
<1>1. DOMAIN reading = 1 .. Len(reading) /\ Len(reading) \in Nat
  BY DEF ReadingsGood
<1>2. \E i \in S : \A j \in S : j <= i
  BY <1>1, GreatestExists
<1> QED
  BY <1>2, Zenon DEF LastOf

\* What proves the result of a match is a valid state, whose maps one of its teams won.
LEMMA ProvedIsValid ==
    ASSUME ReadingsGood, NEW s \in Sources, NEW m \in Matches, Proves(s, m)
    PROVE  /\ Of(s, m) # {}
           /\ \A x \in SignatureOf(s, m).maps :
                 x = <<x[1], x[2]>> /\ x[2] \in {Fixed[m].home, Fixed[m].away}
<1>1. Of(s, m) # {} /\ SignatureOf(s, m) = ResultOf(LastOf(Of(s, m)))
  BY DEF Proves, SignatureOf
<1> DEFINE i == LastOf(Of(s, m))
           p == reading[i].payload
<1>2. i \in DOMAIN reading /\ reading[i].match = m
  <2>1. Of(s, m) \in SUBSET DOMAIN reading
    BY DEF Of
  <2>2. i \in Of(s, m)
    BY <1>1, <2>1, LastExists
  <2> QED
    BY <2>2 DEF Of
<1>3. p \in Pays
  <2>1. reading[i] \in Entries
    BY <1>2 DEF ReadingsGood
  <2> QED
    BY <2>1 DEF Entries
<1> HIDE DEF p
<1>4. ResultOf(i) = IF Validated(p, m) THEN Signature(p, m) ELSE Unproved
  <2>1. ResultOf(i) = Proved[<<p, m>>]
    BY <1>2 DEF ResultOf, p
  <2>2. <<p, m>> \in Pays \X Matches
    BY <1>3
  <2>3. Proved[<<p, m>>] = IF Validated(p, m) THEN Signature(p, m) ELSE Unproved
    BY <2>2 DEF Proved, Pays
  <2> QED
    BY <2>1, <2>3
<1>5. Validated(p, m) /\ SignatureOf(s, m) = Signature(p, m)
  BY <1>1, <1>4 DEF Proves
<1>6. \A g \in p.maps : g.finished => g.winner \in {Fixed[m].home, Fixed[m].away}
  BY <1>5 DEF Validated
<1>7. \A x \in Signature(p, m).maps :
         x = <<x[1], x[2]>> /\ x[2] \in {Fixed[m].home, Fixed[m].away}
  BY <1>6 DEF Signature
<1> QED
  BY <1>1, <1>5, <1>7

\* A source is chosen among those that answer.
LEMMA ChosenAnswers ==
    ASSUME NEW m, NEW k, Answers(m, k) # {}
    PROVE  /\ Chosen(m, k) \in Answers(m, k) /\ Chosen(m, k) \in Sources
           /\ Proves(Chosen(m, k), m)
           /\ ~Disagree(m)
<1>1. ~Disagree(m) /\ \A s \in Answers(m, k) : s \in Usable(m)
  BY DEF Answers
<1>2. \A s \in Usable(m) : s \in Sources /\ Proves(s, m)
  BY DEF Usable
<1>3. Chosen(m, k) \in Answers(m, k)
  BY <1>1, <1>2 DEF Chosen, Sources
<1> QED
  BY <1>1, <1>2, <1>3

\* What is decided of a market.
LEMMA OutcomeKinds ==
    ASSUME IdentityAssumption, IdentityInv, ReadingsGood, NEW e \in Events, NEW k \in Kinds
    PROVE  \/ Outcome(e, k) = [source |-> "none", team |-> "pending"]
           \/ /\ Mapped(link[e]) /\ Valid(e) /\ Named(e)
              /\ Answers(link[e].match, k) # {}
              /\ Outcome(e, k).source = Chosen(link[e].match, k)
              /\ now >= reading[Anchor(Chosen(link[e].match, k), link[e].match)].at + Delay
              /\ Outcome(e, k).team \in {"void", Fixed[link[e].match].home,
                                         Fixed[link[e].match].away}
<1> DEFINE m == link[e].match
           s == Chosen(m, k)
           g == SignatureOf(s, m)
           team == IF k > Played(g) THEN "void"
                   ELSE IF k = 0 THEN Winner(g, m)
                   ELSE (CHOOSE x \in g.maps : x[1] = k)[2]
<1> SUFFICES ASSUME Outcome(e, k) # [source |-> "none", team |-> "pending"]
             PROVE  /\ Mapped(link[e]) /\ Valid(e) /\ Named(e) /\ Answers(m, k) # {}
                    /\ Outcome(e, k).source = s
                    /\ now >= reading[Anchor(s, m)].at + Delay
                    /\ Outcome(e, k).team \in {"void", Fixed[m].home, Fixed[m].away}
  OBVIOUS
<1>1. /\ Named(e) /\ Valid(e) /\ Answers(m, k) # {}
      /\ now >= reading[Anchor(s, m)].at + Delay
      /\ Outcome(e, k) = [source |-> s, team |-> team]
  BY DEF Outcome
<1>2. Mapped(link[e])
  BY <1>1 DEF IdentityInv, JustifiedAs, Named
<1>3. m \in Matches
  BY <1>2 DEF Mapped
<1>4. s \in Answers(m, k) /\ s \in Sources /\ Proves(s, m)
  BY <1>1, ChosenAnswers
<1>5. k = 0 \/ k > Played(g) \/ \E x \in g.maps : x[1] = k
  <2>1. s \in {t \in Usable(m) : LET h == SignatureOf(t, m)
                                 IN  k = 0 \/ k > Played(h) \/ \E x \in h.maps : x[1] = k}
    BY <1>4 DEF Answers
  <2> QED
    BY <2>1
<1>6. \A x \in g.maps : x[2] \in {Fixed[m].home, Fixed[m].away}
  BY <1>3, <1>4, ProvedIsValid
<1>7. Winner(g, m) \in {Fixed[m].home, Fixed[m].away}
  BY DEF Winner
<1> HIDE DEF g, s, m
<1>8. team \in {"void", Fixed[m].home, Fixed[m].away}
  <2>1. CASE k > Played(g) \/ k = 0
    BY <1>7, <2>1
  <2>2. CASE ~(k > Played(g)) /\ k # 0
    <3>1. (CHOOSE x \in g.maps : x[1] = k) \in g.maps
      BY <1>5, <2>2
    <3>2. team = (CHOOSE x \in g.maps : x[1] = k)[2]
      BY <2>2
    <3> QED
      BY <1>6, <3>1, <3>2
  <2> QED
    BY <2>1, <2>2
<1>9. Outcome(e, k).source = s /\ Outcome(e, k).team = team
  BY <1>1
<1> QED
  BY <1>1, <1>2, <1>8, <1>9

\* The team that is decided won the market, by the reading of the source; a void map was not
\* played.
LEMMA OutcomeNames ==
    ASSUME ReadingsGood, NEW e \in Events, NEW k \in Kinds, link[e].match \in Matches,
           Outcome(e, k) # [source |-> "none", team |-> "pending"]
    PROVE  LET m == link[e].match
               g == SignatureOf(Outcome(e, k).source, m)
               team == Outcome(e, k).team
           IN  \/ team = "void" /\ k > Played(g)
               \/ /\ team \in {Fixed[m].home, Fixed[m].away}
                  /\ IF k = 0 THEN team = Winner(g, m) ELSE <<k, team>> \in g.maps
<1> DEFINE m == link[e].match
           s == Chosen(m, k)
           g == SignatureOf(s, m)
           team == IF k > Played(g) THEN "void"
                   ELSE IF k = 0 THEN Winner(g, m)
                   ELSE (CHOOSE x \in g.maps : x[1] = k)[2]
<1>1. Answers(m, k) # {} /\ Outcome(e, k) = [source |-> s, team |-> team]
  BY DEF Outcome
<1>2. s \in Answers(m, k) /\ s \in Sources /\ Proves(s, m)
  BY <1>1, ChosenAnswers
<1>3. k = 0 \/ k > Played(g) \/ \E x \in g.maps : x[1] = k
  <2>1. s \in {t \in Usable(m) : LET h == SignatureOf(t, m)
                                 IN  k = 0 \/ k > Played(h) \/ \E x \in h.maps : x[1] = k}
    BY <1>2 DEF Answers
  <2> QED
    BY <2>1
<1>4. \A x \in g.maps : x = <<x[1], x[2]>> /\ x[2] \in {Fixed[m].home, Fixed[m].away}
  BY <1>2, ProvedIsValid
<1>5. Winner(g, m) \in {Fixed[m].home, Fixed[m].away}
  BY DEF Winner
<1>6. Outcome(e, k).source = s /\ Outcome(e, k).team = team
  BY <1>1
<1> HIDE DEF g, s, m
<1>7. \/ team = "void" /\ k > Played(g)
      \/ /\ team \in {Fixed[m].home, Fixed[m].away}
         /\ IF k = 0 THEN team = Winner(g, m) ELSE <<k, team>> \in g.maps
  <2>1. CASE k > Played(g)
    BY <2>1
  <2>2. CASE ~(k > Played(g)) /\ k = 0
    BY <1>5, <2>2
  <2>3. CASE ~(k > Played(g)) /\ k # 0
    <3> DEFINE x == CHOOSE x \in g.maps : x[1] = k
    <3>1. x \in g.maps /\ x[1] = k
      BY <1>3, <2>3
    <3>2. team = x[2]
      BY <2>3
    <3> HIDE DEF x, team
    <3> QED
      BY <1>4, <2>3, <3>1, <3>2
  <2> QED
    BY <2>1, <2>2, <2>3
<1> HIDE DEF team
<1> QED
  BY <1>6, <1>7 DEF m, g

\* A set of two elements.
LEMMA TwoElements ==
    ASSUME NEW S, IsFiniteSet(S), Cardinality(S) = 2
    PROVE  \E a, b : a # b /\ S = {a, b}
<1>1. S # {}
  BY FS_EmptySet
<1>2. PICK a \in S : TRUE
  BY <1>1
<1>3. IsFiniteSet(S \ {a}) /\ Cardinality(S \ {a}) = Cardinality(S) - 1
  BY <1>2, FS_RemoveElement
<1>4. Cardinality(S \ {a}) = 1
  BY <1>3
<1>5. PICK b : S \ {a} = {b}
  BY <1>3, <1>4, FS_Singleton
<1> QED
  BY <1>2, <1>5

\* The teams that bear a label are among those of the match.
LEMMA PicksAreTeams ==
    ASSUME NEW e, Mapped(link[e]), NEW label, Cardinality(Picks(e, label)) = 1
    PROVE  \E t : Picks(e, label) = {t}
<1> DEFINE both == {Fixed[link[e].match].home, Fixed[link[e].match].away}
<1>1. DOMAIN link[e].teams = {1, 2}
  <2>1. 1 .. 2 = {1, 2}
    OBVIOUS
  <2> QED
    BY <2>1 DEF Mapped, Ordered
<1>2. \A i \in {1, 2} : link[e].teams[i] \in both
  BY DEF Mapped, Ordered
<1>3. Picks(e, label) \subseteq both
  BY <1>1, <1>2 DEF Picks
<1>4. IsFiniteSet(both)
  <2> DEFINE one == {Fixed[link[e].match].home}
  <2>1. IsFiniteSet(one)
    BY FS_Singleton
  <2>2. IsFiniteSet(one \cup {Fixed[link[e].match].away})
    BY <2>1, FS_AddElement
  <2>3. both = one \cup {Fixed[link[e].match].away}
    OBVIOUS
  <2> HIDE DEF both, one
  <2> QED
    BY <2>2, <2>3
<1>5. IsFiniteSet(Picks(e, label))
  BY <1>3, <1>4, FS_Subset
<1> QED
  BY <1>5, FS_Singleton

\* The selections a and b of an event are on its teams t and u.
OneOnEach(e, a, b, t, u) ==
    /\ a # b /\ quoted[e] = {a, b} /\ t # u
    /\ Picks(e, a) = {t} /\ Picks(e, b) = {u}
    /\ {t, u} = {Fixed[link[e].match].home, Fixed[link[e].match].away}

\* The selections of a valid market: one on each team.
LEMMA ValidMarket ==
    ASSUME NEW e, Mapped(link[e]), IsFiniteSet(quoted[e]), Valid(e)
    PROVE  \E a, b, t, u : OneOnEach(e, a, b, t, u)
<1>1. PICK a, b : a # b /\ quoted[e] = {a, b}
  BY TwoElements DEF Valid
<1>0. Cardinality(Picks(e, a)) = 1 /\ Cardinality(Picks(e, b)) = 1
  BY <1>1 DEF Valid
<1>2. PICK t : Picks(e, a) = {t}
  BY <1>0, PicksAreTeams
<1>3. PICK u : Picks(e, b) = {u}
  BY <1>0, PicksAreTeams
<1>4. UNION {Picks(e, label) : label \in quoted[e]} = {t, u}
  BY <1>1, <1>2, <1>3
<1>5. {t, u} = {Fixed[link[e].match].home, Fixed[link[e].match].away}
  BY <1>4 DEF Valid
<1>6. t # u
  BY <1>5 DEF Mapped
<1>7. OneOnEach(e, a, b, t, u)
  BY <1>1, <1>2, <1>3, <1>5, <1>6 DEF OneOnEach
<1> QED
  BY <1>7

\* What a settlement writes of the selections of a market.
Row(e, k, label) ==
    IF label \in quoted[e] THEN ResultFor(Outcome(e, k), e, label) ELSE Pending

Consistent(row) ==
    LET with(status) == {l \in Labels : row[l].status = status}
    IN  /\ Cardinality(with("won")) <= 1 /\ Cardinality(with("lost")) <= 1
        /\ with("won") = {} <=> with("lost") = {}

LEMMA RowStatus ==
    ASSUME NEW e, NEW k, NEW label, label \in quoted[e]
    PROVE  Row(e, k, label) =
              [source |-> Outcome(e, k).source, status |->
                 IF Outcome(e, k).team \in {"pending", "void"} THEN Outcome(e, k).team
                 ELSE IF Picks(e, label) = {Outcome(e, k).team} THEN "won" ELSE "lost"]
BY DEF Row, ResultFor

LEMMA MarketIsConsistent ==
    ASSUME IdentityAssumption, IdentityInv, ReadingsGood, QuotedGood,
           NEW e \in Events, NEW k \in Kinds,
           NEW row, \A l \in Labels : row[l] = Row(e, k, l)
    PROVE  Consistent(row)
<1> DEFINE team == Outcome(e, k).team
           with(status) == {l \in Labels : row[l].status = status}
<1>1. \A x : Cardinality({x}) = 1
  BY FS_Singleton
<1>2. Cardinality({}) = 0
  BY FS_EmptySet
<1>3. \A l \in Labels \ quoted[e] : row[l].status = "pending"
  BY DEF Row, Pending
<1>6. (/\ Cardinality(with("won")) \in {0, 1} /\ Cardinality(with("lost")) \in {0, 1}
       /\ with("won") = {} <=> with("lost") = {})
      => Consistent(row)
  BY DEF Consistent
<1>4. CASE team \in {"pending", "void"}
  <2>1. \A l \in Labels : row[l].status \in {"pending", "void"}
    BY <1>3, <1>4, RowStatus
  <2>2. with("won") = {} /\ with("lost") = {}
    BY <2>1
  <2>3. Cardinality(with("won")) = 0 /\ Cardinality(with("lost")) = 0
    BY <1>2, <2>2
  <2> QED
    BY <1>6, <2>2, <2>3
<1>5. CASE team \notin {"pending", "void"}
  <2>1. Outcome(e, k) # [source |-> "none", team |-> "pending"]
    BY <1>5
  <2>2. /\ Mapped(link[e]) /\ Valid(e)
        /\ team \in {Fixed[link[e].match].home, Fixed[link[e].match].away}
    BY <1>5, <2>1, OutcomeKinds
  <2>0. PICK a, b, t, u : OneOnEach(e, a, b, t, u)
    BY <2>2, ValidMarket DEF QuotedGood
  <2>3. /\ a # b /\ quoted[e] = {a, b} /\ t # u
        /\ Picks(e, a) = {t} /\ Picks(e, b) = {u}
        /\ {t, u} = {Fixed[link[e].match].home, Fixed[link[e].match].away}
    BY <2>0 DEF OneOnEach
  <2>4. a \in Labels /\ b \in Labels
    BY <2>3 DEF QuotedGood
  <2>5. /\ row[a].status = IF t = team THEN "won" ELSE "lost"
        /\ row[b].status = IF u = team THEN "won" ELSE "lost"
    <3>1. a \in quoted[e] /\ b \in quoted[e]
      BY <2>3
    <3>2. /\ row[a].status = IF Picks(e, a) = {team} THEN "won" ELSE "lost"
          /\ row[b].status = IF Picks(e, b) = {team} THEN "won" ELSE "lost"
      BY <1>5, <2>4, <3>1, RowStatus
    <3> QED
      BY <2>3, <3>2
  <2>6. team \in {t, u}
    BY <2>2, <2>3
  <2>7. CASE t = team
    <3>1. row[a].status = "won" /\ row[b].status = "lost"
      BY <2>3, <2>5, <2>7
    <3>2. with("won") = {a} /\ with("lost") = {b}
      BY <1>3, <2>3, <2>4, <3>1
    <3>3. Cardinality(with("won")) = 1 /\ Cardinality(with("lost")) = 1
      BY <1>1, <3>2
    <3>4. with("won") # {} /\ with("lost") # {}
      BY <3>2
    <3> QED
      BY <3>3, <3>4, <1>6
  <2>8. CASE u = team
    <3>1. row[a].status = "lost" /\ row[b].status = "won"
      BY <2>3, <2>5, <2>8
    <3>2. with("won") = {b} /\ with("lost") = {a}
      BY <1>3, <2>3, <2>4, <3>1
    <3>3. Cardinality(with("won")) = 1 /\ Cardinality(with("lost")) = 1
      BY <1>1, <3>2
    <3>4. with("won") # {} /\ with("lost") # {}
      BY <3>2
    <3> QED
      BY <3>3, <3>4, <1>6
  <2> QED
    BY <2>6, <2>7, <2>8
<1> QED
  BY <1>4, <1>5

LEMMA InitSettles ==
    ASSUME IdentityAssumption, SettlementAssumption, Init
    PROVE  SettlementInv
<1>1. IdentityInv
  <2>1. NoMapping.match = NoMatch /\ Resembles(NoMapping)
    BY DEF NoMapping, Resembles
  <2>2. \A e \in Events : JustifiedAs(link[e], event[e], Newest(e), match, active.participants)
    BY DEF JustifiedAs, Init, InitIdentity
  <2>3. \A e \in Events : link[e] = NoMapping /\ proof[e] = NoMapping /\ last[e] = NoMatch
    BY DEF Init, InitIdentity
  <2>4. /\ event = [e \in Events |-> event[e]] /\ observed \in [Events -> Seq(Readings)]
        /\ last \in [Events -> Matches \cup {NoMatch}]
    BY DEF Init, InitIdentity
  <2> QED
    BY <2>1, <2>2, <2>3, <2>4 DEF IdentityInv
<1>2. SettlementTyped
  <2>1. match \in [Matches -> StartDates]
    BY DEF Init, InitIdentity, StartDates
  <2>2. active \in Aliasing
    BY DEF Init, InitIdentity, Aliasing
  <2>3. now \in 0 .. MaxClock
    BY DEF Init, SettlementAssumption
  <2>4. settled \in BOOLEAN
    BY DEF Init
  <2> QED
    BY <2>1, <2>2, <2>3, <2>4 DEF SettlementTyped
<1>3. ReadingsGood
  <2>1. reading = <<>> /\ DOMAIN reading = {}
    BY DEF Init
  <2>2. reading \in Seq(Entries)
    BY <2>1
  <2> QED
    BY <2>1, <2>2 DEF ReadingsGood
<1>4. \A x \in Events \X Kinds \X Labels : result[x] = Pending
  BY DEF Init
<1>5. QuotedGood
  <2>1. Pending \in Results
    BY DEF Pending, Results
  <2>2. result \in [Events \X Kinds \X Labels -> Results]
    BY <2>1 DEF Init
  <2>3. quoted \in [Events -> SUBSET Labels] /\ \A e \in Events : quoted[e] = {}
    BY DEF Init
  <2>4. \A e \in Events : IsFiniteSet(quoted[e])
    BY <2>3, FS_EmptySet
  <2> QED
    BY <1>4, <2>2, <2>3, <2>4 DEF QuotedGood
<1>6. OnePickWins
  <2> SUFFICES ASSUME NEW e \in Events, NEW k \in Kinds
               PROVE  LET with(status) == {l \in Labels : result[<<e, k, l>>].status = status}
                      IN  /\ Cardinality(with("won")) <= 1 /\ Cardinality(with("lost")) <= 1
                          /\ with("won") = {} <=> with("lost") = {}
    BY DEF OnePickWins
  <2> DEFINE won == {l \in Labels : result[<<e, k, l>>].status = "won"}
             lost == {l \in Labels : result[<<e, k, l>>].status = "lost"}
  <2>1. \A l \in Labels : result[<<e, k, l>>].status = "pending"
    BY <1>4 DEF Pending
  <2>2. won = {} /\ lost = {}
    BY <2>1
  <2>3. Cardinality({}) = 0
    BY FS_EmptySet
  <2> HIDE DEF won, lost
  <2>4. Cardinality(won) <= 1 /\ Cardinality(lost) <= 1 /\ (won = {} <=> lost = {})
    BY <2>2, <2>3
  <2> QED
    BY <2>4 DEF won, lost
<1>7. RetractedWithLink
  BY DEF Init, RetractedWithLink
<1> QED
  BY <1>1, <1>2, <1>3, <1>5, <1>6, <1>7 DEF SettlementInv

LEMMA SettleKeeps ==
    ASSUME IdentityAssumption, SettlementInv, Settle
    PROVE  SettlementInv'
<1> DEFINE X == Events \X Kinds \X Labels
<1>1. /\ UNCHANGED <<idVars, changes, reading, quoted, now>> /\ settled' = TRUE
      /\ \A x \in X : result'[x] = Row(x[1], x[2], x[3])
      /\ DOMAIN result' = X /\ result' = [x \in X |-> result'[x]]
  <2>1. PICK outcome \in {[x \in Events \X Kinds |-> Outcome(x[1], x[2])]} :
           result' = Settled(outcome)
    BY DEF Settle
  <2>2. DOMAIN result = X
    BY DEF SettlementInv, QuotedGood
  <2>3. \A x \in X : outcome[<<x[1], x[2]>>] = Outcome(x[1], x[2])
    BY <2>1
  <2>4. \A x \in X : x[3] \notin quoted[x[1]] => result[x] = Pending
    BY DEF SettlementInv, QuotedGood
  <2>5. result' = [x \in X |-> IF x[3] \in quoted[x[1]]
                              THEN ResultFor(outcome[<<x[1], x[2]>>], x[1], x[3])
                              ELSE result[x]]
    BY <2>1, <2>2 DEF Settled, Examined
  <2>6. \A x \in X : result'[x] = Row(x[1], x[2], x[3])
    BY <2>3, <2>4, <2>5 DEF Row
  <2>7. DOMAIN result' = X /\ result' = [x \in X |-> result'[x]]
    BY <2>5
  <2> QED
    BY <2>6, <2>7 DEF Settle
<1>2. IdentityInv' /\ SettlementTyped' /\ ReadingsGood'
  <2>1. IdentityInv' = IdentityInv
    BY <1>1 DEF idVars, IdentityInv, Newest
  <2>2. SettlementTyped'
    BY <1>1 DEF idVars, SettlementInv, SettlementTyped
  <2>3. ReadingsGood'
    BY <1>1 DEF SettlementInv, ReadingsGood
  <2> QED
    BY <2>1, <2>2, <2>3 DEF SettlementInv
<1>3. \A x \in X : Row(x[1], x[2], x[3]) \in Results
  <2> SUFFICES ASSUME NEW e \in Events, NEW k \in Kinds, NEW l \in Labels
               PROVE  Row(e, k, l) \in Results
    OBVIOUS
  <2>1. CASE l \notin quoted[e]
    BY <2>1 DEF Row, Pending, Results
  <2>2. CASE l \in quoted[e]
    <3>1. Outcome(e, k).source \in Sources \cup {"none"}
      <4>1. CASE Outcome(e, k) = [source |-> "none", team |-> "pending"]
        BY <4>1
      <4>2. CASE Outcome(e, k) # [source |-> "none", team |-> "pending"]
        <5>1. /\ Answers(link[e].match, k) # {}
              /\ Outcome(e, k).source = Chosen(link[e].match, k)
          BY <4>2, OutcomeKinds DEF SettlementInv
        <5> QED
          BY <5>1, ChosenAnswers
      <4> QED
        BY <4>1, <4>2
    <3> QED
      BY <2>2, <3>1, RowStatus DEF Results
  <2> QED
    BY <2>1, <2>2
<1>4. QuotedGood'
  <2>1. result' \in [X -> Results]
    BY <1>1, <1>3
  <2>2. \A x \in X : x[3] \notin quoted[x[1]] => result'[x] = Pending
    BY <1>1 DEF Row
  <2>3. quoted' = quoted
    BY <1>1
  <2> QED
    BY <2>1, <2>2, <2>3 DEF SettlementInv, QuotedGood, Labels, Kinds, Pending
<1>5. OnePickWins'
  <2> SUFFICES ASSUME NEW e \in Events, NEW k \in Kinds
               PROVE  LET with(status) == {l \in Labels : result'[<<e, k, l>>].status = status}
                      IN  /\ Cardinality(with("won")) <= 1 /\ Cardinality(with("lost")) <= 1
                          /\ with("won") = {} <=> with("lost") = {}
    BY DEF OnePickWins, Labels, Kinds
  <2> DEFINE row == [l \in Labels |-> result'[<<e, k, l>>]]
  <2>1. \A l \in Labels : row[l] = Row(e, k, l)
    BY <1>1
  <2>2. \A l \in Labels : row[l] = result'[<<e, k, l>>]
    OBVIOUS
  <2> HIDE DEF row
  <2>3. Consistent(row)
    BY <2>1, MarketIsConsistent DEF SettlementInv
  <2>4. \A status : {l \in Labels : row[l].status = status}
                       = {l \in Labels : result'[<<e, k, l>>].status = status}
    BY <2>2
  <2> QED
    BY <2>3, <2>4 DEF Consistent
<1>6. RetractedWithLink'
  <2> SUFFICES ASSUME NEW x \in X,
                      link[x[1]] = NoMapping \/ Cardinality(quoted[x[1]]) > 2
               PROVE  result'[x] = Pending
    BY <1>1 DEF RetractedWithLink, idVars, Pending, NoMapping
  <2> DEFINE e == x[1]
             k == x[2]
  <2>1. e \in Events /\ k \in Kinds
    OBVIOUS
  <2>2. Outcome(e, k) = [source |-> "none", team |-> "pending"]
    <3>1. ~(Named(e) /\ Valid(e))
      BY DEF Named, Valid
    <3> QED
      BY <3>1 DEF Outcome
  <2>3. Row(e, k, x[3]) = Pending
    BY <2>2 DEF Row, ResultFor, Pending
  <2> QED
    BY <1>1, <2>3
<1> QED
  BY <1>2, <1>4, <1>5, <1>6 DEF SettlementInv

LEMMA ReadEventKeeps ==
    ASSUME IdentityAssumption, SettlementInv, ReadEvent
    PROVE  SettlementInv' /\ Stays
<1>1. PICK e \in Events, r \in Readings :
         /\ Remember(e, r)
         /\ quoted' = IF r.start = NoDate THEN quoted
                      ELSE [quoted EXCEPT ![e] = @ \cup {r.participants[1].name,
                                                        r.participants[2].name}]
  BY DEF ReadEvent
<1>2. /\ settled' = FALSE /\ UNCHANGED <<reading, result, now>>
      /\ match' = match /\ active' = active
  BY <1>1 DEF ReadEvent, Remember
<1>3. IdentityInv' /\ Stays
  BY <1>1, RememberKeeps DEF SettlementInv
<1>4. SettlementTyped'
  BY <1>2 DEF SettlementInv, SettlementTyped
<1>5. ReadingsGood'
  BY <1>2 DEF SettlementInv, ReadingsGood
<1> DEFINE names == {r.participants[1].name, r.participants[2].name}
<1>6. names \subseteq Labels
  BY DEF Labels
<1>7. /\ quoted \in [Events -> SUBSET Labels] /\ \A x \in Events : IsFiniteSet(quoted[x])
      /\ result \in [Events \X Kinds \X Labels -> Results]
      /\ \A x \in Events \X Kinds \X Labels : x[3] \notin quoted[x[1]] => result[x] = Pending
  BY DEF SettlementInv, QuotedGood
<1>8. IsFiniteSet(quoted[e] \cup names)
  <2> DEFINE one == quoted[e] \cup {r.participants[1].name}
             two == one \cup {r.participants[2].name}
  <2>1. IsFiniteSet(quoted[e])
    BY <1>7
  <2>2. IsFiniteSet(one)
    BY <2>1, FS_AddElement
  <2> HIDE DEF one
  <2>3. IsFiniteSet(two)
    BY <2>2, FS_AddElement
  <2>4. quoted[e] \cup names = two
    BY DEF one
  <2> QED
    BY <2>3, <2>4
<1> HIDE DEF names
<1>9. \A x \in Events : quoted'[x] = IF x = e /\ r.start # NoDate THEN quoted[x] \cup names
                                     ELSE quoted[x]
  BY <1>1, <1>7 DEF names
<1>10. quoted' \in [Events -> SUBSET Labels]
  BY <1>1, <1>6, <1>7 DEF names
<1>11. \A x \in Events : IsFiniteSet(quoted'[x])
  BY <1>7, <1>8, <1>9
<1>12. \A x \in Events \X Kinds \X Labels : x[3] \notin quoted'[x[1]] => result[x] = Pending
  BY <1>7, <1>9
<1>13. QuotedGood'
  BY <1>2, <1>7, <1>10, <1>11, <1>12 DEF QuotedGood, Labels, Kinds, Pending
<1>14. OnePickWins'
  BY <1>2 DEF SettlementInv, OnePickWins, Labels, Kinds
<1>15. RetractedWithLink'
  BY <1>2 DEF RetractedWithLink
<1> QED
  BY <1>3, <1>4, <1>5, <1>13, <1>14, <1>15 DEF SettlementInv

\* The reviews of aliases and the publications of matches keep types.
LEMMA ChangeKeepsTypes ==
    ASSUME match \in [Matches -> StartDates], active \in Aliasing,
           PublishMatch \/ ImportAlias \/ RevokeAlias
    PROVE  match' \in [Matches -> StartDates] /\ active' \in Aliasing
<1>1. CASE PublishMatch
  <2>1. PICK m \in Matches : \E d \in StartsOf[m] \ {match[m]} : match' = [match EXCEPT ![m] = d]
    BY <1>1 DEF PublishMatch
  <2>2. PICK d \in StartsOf[m] : match' = [match EXCEPT ![m] = d]
    BY <2>1
  <2>3. d \in StartDates
    BY <2>1, <2>2 DEF StartDates
  <2>4. match' \in [Matches -> StartDates]
    BY <2>2, <2>3
  <2>5. active' = active
    BY <1>1 DEF PublishMatch
  <2> QED
    BY <2>4, <2>5
<1>2. CASE ImportAlias
  <2>1. match' = match
    BY <1>2 DEF ImportAlias
  <2>2. \/ \E a \in Aliases : active' = [active EXCEPT !.participants = @ \cup {a}]
        \/ \E a \in Competitions : active' = [active EXCEPT !.competitions = @ \cup {a}]
    BY <1>2 DEF ImportAlias
  <2>3. active' \in Aliasing
    BY <2>2 DEF Aliasing
  <2> QED
    BY <2>1, <2>3
<1>3. CASE RevokeAlias
  <2>1. match' = match
    BY <1>3 DEF RevokeAlias
  <2>2. CASE \E a \in active.participants :
                active' = [active EXCEPT !.participants = @ \ {a},
                                         !.revoked.participants = @ \cup {a}]
    <3>1. PICK a \in active.participants :
             active' = [active EXCEPT !.participants = @ \ {a},
                                      !.revoked.participants = @ \cup {a}]
      BY <2>2
    <3>2. a \in Aliases
      BY <3>1 DEF Aliasing
    <3>3. active' \in Aliasing
      BY <3>1, <3>2 DEF Aliasing
    <3> QED
      BY <2>1, <3>3
  <2>3. CASE \E a \in active.competitions :
                active' = [active EXCEPT !.competitions = @ \ {a},
                                         !.revoked.competitions = @ \cup {a}]
    <3>1. PICK a \in active.competitions :
             active' = [active EXCEPT !.competitions = @ \ {a},
                                      !.revoked.competitions = @ \cup {a}]
      BY <2>3
    <3>2. a \in Competitions
      BY <3>1 DEF Aliasing
    <3>3. active' \in Aliasing
      BY <3>1, <3>2 DEF Aliasing
    <3> QED
      BY <2>1, <3>3
  <2> QED
    BY <1>3, <2>2, <2>3 DEF RevokeAlias
<1> QED
  BY <1>1, <1>2, <1>3

LEMMA ChangeIdentitiesKeeps ==
    ASSUME IdentityAssumption, SettlementInv, ChangeIdentities
    PROVE  SettlementInv' /\ Stays
<1>1. /\ PublishMatch \/ ImportAlias \/ RevokeAlias
      /\ settled' = FALSE /\ UNCHANGED <<reading, quoted, result, now>>
  BY DEF ChangeIdentities
<1>2. IdentityInv' /\ Stays
  BY <1>1, ChangeKeeps DEF SettlementInv
<1>3. match' \in [Matches -> StartDates] /\ active' \in Aliasing
  BY <1>1, ChangeKeepsTypes DEF SettlementInv, SettlementTyped
<1>4. SettlementTyped'
  BY <1>1, <1>3 DEF SettlementInv, SettlementTyped, StartDates
<1>5. ReadingsGood'
  BY <1>1 DEF SettlementInv, ReadingsGood
<1>6. QuotedGood'
  BY <1>1 DEF SettlementInv, QuotedGood, Labels, Kinds, Pending
<1>7. OnePickWins'
  BY <1>1 DEF SettlementInv, OnePickWins, Labels, Kinds
<1>8. RetractedWithLink'
  BY <1>1 DEF RetractedWithLink
<1> QED
  BY <1>2, <1>4, <1>5, <1>6, <1>7, <1>8 DEF SettlementInv

LEMMA ReadResultKeeps ==
    ASSUME IdentityAssumption, SettlementInv, ReadResult
    PROVE  SettlementInv' /\ Stays
<1>1. UNCHANGED <<idVars, quoted, result, now>> /\ settled' = FALSE
  BY DEF ReadResult
<1>2. PICK s \in Sources, m \in Matches : \E p \in Payloads[s] :
         reading' = Append(reading, [source |-> s, match |-> m, at |-> now, payload |-> p])
  BY DEF ReadResult
<1>3. PICK p \in Payloads[s] :
         reading' = Append(reading, [source |-> s, match |-> m, at |-> now, payload |-> p])
  BY <1>2
<1> DEFINE entry == [source |-> s, match |-> m, at |-> now, payload |-> p]
<1>4. now \in Nat
  BY SettlementAssumption DEF SettlementInv, SettlementTyped
<1>5. entry \in Entries /\ entry.at = now
  BY <1>4 DEF Entries, Pays
<1>6. reading \in Seq(Entries) /\ reading' = Append(reading, entry)
  BY <1>3 DEF SettlementInv, ReadingsGood
<1> HIDE DEF entry
<1>7. /\ reading' \in Seq(Entries) /\ Len(reading) \in Nat
      /\ DOMAIN reading = 1 .. Len(reading) /\ DOMAIN reading' = 1 .. Len(reading) + 1
      /\ \A i \in 1 .. Len(reading) : reading'[i] = reading[i]
      /\ reading'[Len(reading) + 1] = entry
  BY <1>5, <1>6
<1>8. \A i \in DOMAIN reading' : reading'[i].at <= now'
  <2>1. \A i \in 1 .. Len(reading) : reading'[i].at <= now
    BY <1>7 DEF SettlementInv, ReadingsGood
  <2>2. reading'[Len(reading) + 1].at <= now
    BY <1>4, <1>5, <1>7
  <2> QED
    BY <1>1, <1>7, <2>1, <2>2
<1>10. ReadingsGood'
  BY <1>7, <1>8 DEF ReadingsGood, Entries, Pays, Sources
<1>11. IdentityInv' /\ Stays
  <2>1. IdentityInv' = IdentityInv
    BY <1>1 DEF idVars, IdentityInv, Newest
  <2>2. Stays
    BY <1>1 DEF idVars, Stays, SettlementInv, IdentityInv
  <2> QED
    BY <2>1, <2>2 DEF SettlementInv
<1>12. SettlementTyped'
  BY <1>1 DEF idVars, SettlementInv, SettlementTyped
<1>13. QuotedGood'
  BY <1>1 DEF SettlementInv, QuotedGood, Labels, Kinds, Pending
<1>14. OnePickWins'
  BY <1>1 DEF SettlementInv, OnePickWins, Labels, Kinds
<1>15. RetractedWithLink'
  BY <1>1 DEF RetractedWithLink
<1> QED
  BY <1>10, <1>11, <1>12, <1>13, <1>14, <1>15 DEF SettlementInv

LEMMA TickKeeps ==
    ASSUME IdentityAssumption, SettlementInv, Tick
    PROVE  SettlementInv' /\ Stays
<1>1. /\ now < MaxClock /\ now' = now + 1 /\ settled' = FALSE
      /\ UNCHANGED <<idVars, reading, quoted, result>>
  BY DEF Tick
<1>2. IdentityInv' /\ Stays
  <2>1. IdentityInv' = IdentityInv
    BY <1>1 DEF idVars, IdentityInv, Newest
  <2>2. Stays
    BY <1>1 DEF idVars, Stays, SettlementInv, IdentityInv
  <2> QED
    BY <2>1, <2>2 DEF SettlementInv
<1>3. now \in Nat /\ now' \in 0 .. MaxClock
  BY <1>1, SettlementAssumption DEF SettlementInv, SettlementTyped
<1>4. SettlementTyped'
  BY <1>1, <1>3 DEF idVars, SettlementInv, SettlementTyped
<1>5. ReadingsGood'
  <2>1. \A i \in DOMAIN reading : reading[i] \in Entries /\ reading[i].at <= now
    BY DEF SettlementInv, ReadingsGood
  <2>2. \A i \in DOMAIN reading : reading[i].at \in Nat
    BY <2>1 DEF Entries
  <2>3. \A i \in DOMAIN reading : reading[i].at <= now'
    BY <1>1, <1>3, <2>1, <2>2
  <2> QED
    BY <1>1, <2>3 DEF SettlementInv, ReadingsGood
<1>6. QuotedGood'
  BY <1>1 DEF SettlementInv, QuotedGood, Labels, Kinds, Pending
<1>7. OnePickWins'
  BY <1>1 DEF SettlementInv, OnePickWins, Labels, Kinds
<1>8. RetractedWithLink'
  BY <1>1 DEF RetractedWithLink
<1> QED
  BY <1>2, <1>4, <1>5, <1>6, <1>7, <1>8 DEF SettlementInv

LEMMA StepKeeps ==
    ASSUME IdentityAssumption, SettlementInv, [Next]_vars
    PROVE  SettlementInv' /\ Stays
<1>1. CASE Settle
  <2>1. Stays
    BY <1>1 DEF Settle, idVars, Stays, SettlementInv, IdentityInv
  <2> QED
    BY <1>1, <2>1, SettleKeeps
<1>2. CASE UNCHANGED vars
  <2>1. IdentityInv' = IdentityInv
    BY <1>2 DEF vars, IdentityInv, Newest
  <2>2. SettlementTyped' /\ ReadingsGood'
    BY <1>2 DEF vars, SettlementInv, SettlementTyped, ReadingsGood
  <2>3. QuotedGood'
    BY <1>2 DEF vars, SettlementInv, QuotedGood, Labels, Kinds, Pending
  <2>4. OnePickWins'
    BY <1>2 DEF vars, SettlementInv, OnePickWins, Labels, Kinds
  <2>5. RetractedWithLink'
    BY <1>2 DEF vars, SettlementInv, RetractedWithLink
  <2>6. Stays
    BY <1>2 DEF vars, Stays, SettlementInv, IdentityInv
  <2> QED
    BY <2>1, <2>2, <2>3, <2>4, <2>5, <2>6 DEF SettlementInv
<1> QED
  BY <1>1, <1>2, ReadEventKeeps, ChangeIdentitiesKeeps, ReadResultKeeps, TickKeeps DEF Next

-----------------------------------------------------------------------------
(* Decisions.                                                               *)

\* The reading from which the window is counted: since then the source says the same.
LEMMA AnchorStands ==
    ASSUME ReadingsGood, NEW s, NEW m, Of(s, m) # {}
    PROVE  /\ Anchor(s, m) \in Of(s, m)
           /\ \A j \in Of(s, m) : j >= Anchor(s, m) => ResultOf(j) = ResultOf(LastOf(Of(s, m)))
<1> DEFINE places == Of(s, m)
           same == {i \in places : \A j \in places : j >= i => ResultOf(j) = ResultOf(LastOf(places))}
<1>1. places \in SUBSET DOMAIN reading /\ DOMAIN reading \subseteq Nat
  BY DEF Of, ReadingsGood
<1>2. LastOf(places) \in places /\ \A j \in places : j <= LastOf(places)
  BY <1>1, LastExists
<1>3. \A j \in places : j >= LastOf(places) => j = LastOf(places)
  BY <1>1, <1>2
<1>4. LastOf(places) \in same
  BY <1>2, <1>3
<1>5. same \in SUBSET DOMAIN reading /\ same # {}
  BY <1>1, <1>4
<1>6. Anchor(s, m) = CHOOSE i \in same : \A j \in same : i <= j
  BY DEF Anchor
<1> HIDE DEF same
<1>7. \E i \in same : \A j \in same : i <= j
  BY <1>1, <1>5, LeastExists
<1>8. Anchor(s, m) \in same
  BY <1>6, <1>7, Zenon
<1> QED
  BY <1>8 DEF same

LEMMA SettleDecides ==
    ASSUME IdentityAssumption, SettlementInv, Settle, NEW x \in DOMAIN result, Decides(x)
    PROVE  /\ HasStood(result'[x].source, link[x[1]].match)
           /\ ~Questioned(link[x[1]].match) /\ NamesWinner(x)
           /\ (\A s \in Sources : Proves(s, link[x[1]].match)) =>
                 Winner(SignatureOf("loltv", link[x[1]].match), link[x[1]].match)
                     = Winner(SignatureOf("oracles-elixir", link[x[1]].match), link[x[1]].match)
<1> DEFINE e == x[1]
           k == x[2]
           m == link[e].match
           s == Chosen(m, k)
<1>1. x \in Events \X Kinds \X Labels
  BY DEF SettlementInv, QuotedGood
<1>2. result'[x] = Row(e, k, x[3])
  <2>1. PICK outcome \in {[y \in Events \X Kinds |-> Outcome(y[1], y[2])]} :
           result' = Settled(outcome)
    BY DEF Settle
  <2>2. outcome[<<e, k>>] = Outcome(e, k)
    BY <1>1, <2>1
  <2>3. x[3] \notin quoted[e] => result[x] = Pending
    BY <1>1 DEF SettlementInv, QuotedGood
  <2>4. result'[x] = IF x[3] \in quoted[e] THEN ResultFor(outcome[<<e, k>>], e, x[3])
                     ELSE result[x]
    BY <2>1 DEF Settled, Examined
  <2> QED
    BY <2>2, <2>3, <2>4 DEF Row
<1>3. e \in Events /\ k \in Kinds
  BY <1>1
<1> HIDE DEF e, k
<1>4. x[3] \in quoted[e] /\ Outcome(e, k) # [source |-> "none", team |-> "pending"]
  <2>1. result'[x].status # "pending"
    BY DEF Decides
  <2>2. x[3] \in quoted[e]
    BY <1>2, <2>1 DEF Row, Pending
  <2> QED
    BY <1>2, <2>1, <2>2, RowStatus
<1>5. /\ Answers(m, k) # {} /\ Outcome(e, k).source = s /\ Mapped(link[e])
      /\ now >= reading[Anchor(s, m)].at + Delay
  BY <1>3, <1>4, OutcomeKinds DEF SettlementInv
<1>6. result'[x].source = s
  BY <1>2, <1>4, <1>5, RowStatus
<1>7. s \in Sources /\ Proves(s, m) /\ ~Disagree(m)
  BY <1>5, ChosenAnswers
<1>8. m \in Matches
  BY <1>5 DEF Mapped
<1>9. Of(s, m) # {}
  BY <1>7, <1>8, ProvedIsValid DEF SettlementInv
<1> HIDE DEF s, m
<1>10. HasStood(s, m)
  <2> DEFINE places == Of(s, m)
             old == {i \in places : reading[i].at + Delay <= now}
  <2>1. /\ Anchor(s, m) \in places
        /\ \A j \in places : j >= Anchor(s, m) => ResultOf(j) = ResultOf(LastOf(places))
    BY <1>9, AnchorStands DEF SettlementInv
  <2>2. places \in SUBSET DOMAIN reading /\ DOMAIN reading \subseteq Nat
    BY DEF Of, SettlementInv, ReadingsGood
  <2>3. reading[Anchor(s, m)].at \in Nat
    <3>1. reading[Anchor(s, m)] \in Entries
      BY <2>1, <2>2 DEF SettlementInv, ReadingsGood
    <3> QED
      BY <3>1 DEF Entries
  <2>4. now \in Nat /\ Delay \in Nat
    BY SettlementAssumption DEF SettlementInv, SettlementTyped
  <2>5. Anchor(s, m) \in old
    BY <1>5, <2>1, <2>3, <2>4
  <2>6. old \in SUBSET DOMAIN reading /\ old # {}
    BY <2>2, <2>5
  <2>7. old = {i \in Of(s, m) : reading[i].at + Delay <= now}
    OBVIOUS
  <2> HIDE DEF old
  <2>8. LastOf(old) \in old /\ Anchor(s, m) <= LastOf(old)
    BY <2>5, <2>6, LastExists DEF SettlementInv
  <2>9. \A i \in places : i >= LastOf(old) => i >= Anchor(s, m)
    BY <2>1, <2>2, <2>6, <2>8
  <2>10. \A i \in places : i >= LastOf(old) => ResultOf(i) = ResultOf(LastOf(places))
    BY <2>1, <2>9
  <2> QED
    BY <2>6, <2>7, <2>10 DEF HasStood
<1>11. (\A t \in Sources : Proves(t, m)) =>
          Winner(SignatureOf("loltv", m), m) = Winner(SignatureOf("oracles-elixir", m), m)
  <2> SUFFICES ASSUME \A t \in Sources : Proves(t, m)
               PROVE  Winner(SignatureOf("loltv", m), m)
                        = Winner(SignatureOf("oracles-elixir", m), m)
    OBVIOUS
  <2>1. ~Overridden(m)
    BY DEF Overridden, Sources
  <2>2. Usable(m) = Sources
    BY <2>1 DEF Usable
  <2> QED
    BY <1>7, <2>2 DEF Disagree
<1>12. ~Questioned(m)
  <2> SUFFICES ASSUME Questioned(m)
               PROVE  FALSE
    OBVIOUS
  <2>1. s = "oracles-elixir" /\ ~Overridden(m)
    <3>1. s \in Usable(m)
      BY <1>5, ChosenAnswers DEF Answers, s
    <3>2. s # "loltv"
      BY <1>7 DEF Questioned
    <3> QED
      BY <1>7, <3>1, <3>2 DEF Usable, Sources
  <2>2. LastOf(Of(s, m)) \in Of(s, m)
    <3>1. Of(s, m) \in SUBSET DOMAIN reading
      BY DEF Of
    <3> QED
      BY <1>9, <3>1, LastExists DEF SettlementInv
  <2>3. LastOf(Of("loltv", m)) \in Of("loltv", m)
    <3>1. Of("loltv", m) \in SUBSET DOMAIN reading /\ Of("loltv", m) # {}
      BY DEF Of, Questioned
    <3> QED
      BY <3>1, LastExists DEF SettlementInv
  <2>4. \A i \in DOMAIN reading : reading[i].at \in Nat
    <3>1. \A i \in DOMAIN reading : reading[i] \in Entries
      BY DEF SettlementInv, ReadingsGood
    <3> QED
      BY <3>1 DEF Entries
  <2>5. reading[LastOf(Of("loltv", m))].at >= reading[LastOf(Of("oracles-elixir", m))].at
    BY <2>1, <2>2, <2>3, <2>4 DEF Questioned, Of
  <2> QED
    BY <1>9, <2>1, <2>5 DEF Questioned, Overridden
<1>13. NamesWinner(x)
  <2> DEFINE t == Outcome(e, k).team
             g == SignatureOf(s, m)
  <2>1. \/ t = "void" /\ k > Played(g)
        \/ /\ t \in {Fixed[m].home, Fixed[m].away}
           /\ IF k = 0 THEN t = Winner(g, m) ELSE <<k, t>> \in g.maps
    BY <1>3, <1>4, <1>5, <1>8, OutcomeNames DEF SettlementInv, m
  <2>2. result'[x].status = IF t \in {"pending", "void"} THEN t
                            ELSE IF Picks(e, x[3]) = {t} THEN "won" ELSE "lost"
    BY <1>2, <1>4, RowStatus
  <2>3. SignatureOf(result'[x].source, m) = g
    BY <1>6
  <2>0. {Fixed[m].home, Fixed[m].away} \cap {"pending", "void"} = {}
    BY <1>8, IdentityAssumption, SettlementAssumption
  <2> HIDE DEF t, g
  <2>4. result'[x].status = "void" => k > Played(g)
    BY <2>0, <2>1, <2>2
  <2>5. ASSUME result'[x].status \in {"won", "lost"}
        PROVE  \E u \in {Fixed[m].home, Fixed[m].away} :
                  /\ IF k = 0 THEN u = Winner(g, m) ELSE <<k, u>> \in g.maps
                  /\ result'[x].status = "won" <=> Picks(e, x[3]) = {u}
    BY <2>0, <2>1, <2>2, <2>5
  <2> QED
    BY <2>3, <2>4, <2>5 DEF NamesWinner, m, e, k
<1> QED
  BY <1>6, <1>10, <1>11, <1>12, <1>13 DEF m, e

-----------------------------------------------------------------------------
(* The theorems.                                                            *)

\* The invariant holds in every reachable state: each link, each reading and each result
\* is what the transactions of reconciliation.py and selection_results.py need of it.
THEOREM SettlementKeepsInvariant == Spec => []SettlementInv
<1>1. Init => SettlementInv
  BY InitSettles, IdentityAssumption, SettlementAssumption
<1>2. SettlementInv /\ [Next]_vars => SettlementInv'
  BY StepKeeps, IdentityAssumption
<1> QED
  BY <1>1, <1>2, PTL DEF Spec

\* An event that was linked to a match is never linked to another one, whatever the
\* bookmaker, the catalog and the reviews of aliases do (resolve_fixture with a previous
\* match).
THEOREM LinksStay == Spec => LinkNeverMoves
<1>1. SettlementInv /\ [Next]_vars =>
         [\A e \in Events : last[e] # NoMatch =>
             last'[e] = last[e] /\ link'[e].match \in {NoMatch, last[e]}]_<<link, last>>
  BY StepKeeps, IdentityAssumption DEF Stays
<1> QED
  BY <1>1, SettlementKeepsInvariant, PTL DEF Spec, LinkNeverMoves

\* Every link rests on aliases that are active, and on nothing the last reading of the
\* bookmaker contradicts (the end of reconcile_in_session).
THEOREM LinksCorrect == Spec => []LinksAreJustified
<1>1. SettlementInv => LinksAreJustified
  <2> SUFFICES ASSUME SettlementInv PROVE LinksAreJustified
    OBVIOUS
  <2>1. \A e \in Events : JustifiedAs(link[e], event[e], Newest(e), match, active.participants)
    BY DEF SettlementInv, IdentityInv
  <2>2. NoLinkOnRevokedAlias
    <3> SUFFICES ASSUME NEW e \in Events, NEW i \in DOMAIN link[e].basis,
                        link[e].basis[i] = "alias"
                 PROVE  \E a \in active.participants :
                           a.name = link[e].names[i] /\ a.target = link[e].teams[i]
      BY DEF NoLinkOnRevokedAlias
    <3>1. link[e] # NoMapping
      BY DEF NoMapping
    <3>2. RestsOn(link[e], active.participants)
      BY <2>1, <3>1 DEF JustifiedAs
    <3> QED
      BY <3>2 DEF RestsOn
  <2>3. LastReadingAgrees
    <3> SUFFICES ASSUME NEW e \in Events, NEW i \in {1, 2}, NEW t \in Teams,
                        link[e] # NoMapping, active.participants = {},
                        Newest(e).participants[i].id = 0,
                        Designates(Newest(e).participants[i].name, t, e)
                 PROVE  t \in {Fixed[link[e].match].home, Fixed[link[e].match].away}
      BY DEF LastReadingAgrees
    <3>1. AgreesWith(link[e], Newest(e), event[e].start, match, active.participants)
      BY <2>1 DEF JustifiedAs
    <3>2. DesignatesAt(Newest(e).participants[i].name, t, event[e].start, match)
      BY DEF Designates, DesignatesAt, OnlyName, Unlike
    <3> QED
      BY <3>1, <3>2 DEF AgreesWith
  <2> QED
    BY <2>2, <2>3 DEF LinksAreJustified
<1> QED
  BY <1>1, SettlementKeepsInvariant, PTL

\* The results of a market agree with one another and, after a settlement, with the present
\* link (_picked_team and settle_selections).
THEOREM ResultsCorrect == Spec => []ResultsAreConsistent
<1>1. SettlementInv => ResultsAreConsistent
  <2> SUFFICES ASSUME SettlementInv PROVE ResultsAreConsistent
    OBVIOUS
  <2>1. match \in [Matches -> {NoDate} \cup UNION {StartsOf[m] : m \in Matches}]
    BY DEF SettlementInv, SettlementTyped, StartDates
  <2>2. active.participants \subseteq Aliases /\ active.competitions \subseteq Competitions
    BY DEF SettlementInv, SettlementTyped, Aliasing
  <2>3. \A e \in Events : /\ last[e] \in Matches \cup {NoMatch}
                          /\ link[e].match \in Matches \cup {NoMatch}
                          /\ quoted[e] \subseteq Labels
    BY DEF SettlementInv, IdentityInv, QuotedGood
  <2>4. \A r \in {reading[i] : i \in DOMAIN reading} :
           r.source \in Sources /\ r.match \in Matches /\ r.at \in 0 .. now
    <3> SUFFICES ASSUME NEW i \in DOMAIN reading
                 PROVE  /\ reading[i].source \in Sources /\ reading[i].match \in Matches
                        /\ reading[i].at \in 0 .. now
      OBVIOUS
    <3>1. reading[i] \in Entries /\ reading[i].at <= now
      BY DEF SettlementInv, ReadingsGood
    <3>2. now \in Nat
      BY SettlementAssumption DEF SettlementInv, SettlementTyped
    <3> QED
      BY <3>1, <3>2 DEF Entries
  <2>5. now \in 0 .. MaxClock /\ settled \in BOOLEAN
    BY DEF SettlementInv, SettlementTyped
  <2>6. result \in [Events \X Kinds \X Labels -> Results]
    BY DEF SettlementInv, QuotedGood
  <2>7. TypeOK
    BY <2>1, <2>2, <2>3, <2>4, <2>5, <2>6 DEF TypeOK, Results
  <2> QED
    BY <2>7 DEF SettlementInv, ResultsAreConsistent
<1> QED
  BY <1>1, SettlementKeepsInvariant, PTL

\* Nothing is decided that was corrected within the window, on which the two sources disagree
\* or that LoLTV questions, and the team is the one the source proves to have won
\* (source_proof, _source_choice and settle_selections).
THEOREM DecisionsCorrect == Spec => DecisionsAreProved
<1> DEFINE Proven(x) ==
       LET m == link[x[1]].match
       IN  /\ HasStood(result'[x].source, m) /\ ~Questioned(m) /\ NamesWinner(x)
           /\ (\A s \in Sources : Proves(s, m)) =>
                 Winner(SignatureOf("loltv", m), m) = Winner(SignatureOf("oracles-elixir", m), m)
<1>1. SettlementInv /\ [Next]_vars => [\A x \in DOMAIN result : Decides(x) => Proven(x)]_result
  <2> SUFFICES ASSUME SettlementInv, [Next]_vars, result' # result
               PROVE  \A x \in DOMAIN result : Decides(x) => Proven(x)
    BY Zenon
  <2>1. Settle
    BY DEF Next, vars, ReadEvent, ChangeIdentities, ReadResult, Tick
  <2> QED
    BY <2>1, SettleDecides, IdentityAssumption
<1> QED
  BY <1>1, SettlementKeepsInvariant, PTL DEF Spec, DecisionsAreProved
================================================================================
