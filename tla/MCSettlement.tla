----------------------------- MODULE MCSettlement -----------------------------
(* A match, its rematch, the next match of one team, a name the catalog has *)
(* not, and results that are corrected.                                      *)
EXTENDS Settlement

MCTeams == {"A", "B", "C"}
MCNamesOf == [t \in MCTeams |-> CASE t = "A" -> {"alpha", "ace"} [] t = "B" -> {"beta"}
                                  [] t = "C" -> {"gamma"}]
MCCodesOf == [t \in MCTeams |-> {}]
MCBookIds == [t \in MCTeams |-> {}]
MCNames == {"alpha", "ace", "beta", "gamma", "betas", "tbd"}
MCWords == [n \in MCNames |-> IF n \in {"beta", "betas"} THEN {"bet"} ELSE {n}]
MCQualifiers == [n \in MCNames |-> {}]

Cup  == [brand |-> {"cup"}, years |-> {}, edition |-> {}, phase |-> {}]
Open == [brand |-> {"cup", "open"}, years |-> {}, edition |-> {"spring"}, phase |-> {}]

MCMatches == {"m", "r", "g"}
MCFixed == [x \in MCMatches |->
    [home |-> "A", away |-> IF x = "g" THEN "C" ELSE "B", competition |-> Cup,
     competitionId |-> 1]]
MCStartsOf == [x \in MCMatches |-> IF x = "m" THEN {1, 4} ELSE {5}]

Show(start, competition, one, two) == [start |-> start, competition |-> competition,
    participants |-> <<[name |-> one, id |-> 0], [name |-> two, id |-> 0]>>]
MCReadings == {Show(1, Cup, "alpha", "beta"), Show(1, Cup, "ace", "betas"),
               Show(0, Cup, "alpha", "gamma"), Show(5, Cup, "alpha", "gamma"),
               Show(5, Open, "beta", "alpha")}
MCAliases == {[name |-> "betas", target |-> "B", from |-> 1, until |-> 9]}
MCCompetitions == {[name |-> Open, target |-> 1, from |-> 1, until |-> 9]}

Series(source, status, score, maps) ==
    [source |-> source, status |-> status, format |-> "BO3", score |-> score, maps |-> maps]
Map(number, winner) == [number |-> number, finished |-> TRUE, winner |-> winner]
MCPayloads == [s \in {"loltv", "oracles-elixir"} |->
    IF s = "loltv"
    THEN {Series(s, "finished", <<2, 0>>, {Map(1, "A")}), Series(s, "finished", <<1, 2>>, {}),
          Series(s, "live", <<>>, {})}
    ELSE {Series(s, "finished", <<2, 0>>, {Map(1, "A"), Map(2, "A")})}]
MCFormat == [x \in MCMatches |-> "BO3"]
=============================================================================
