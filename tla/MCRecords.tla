------------------------------- MODULE MCRecords -------------------------------
(***************************************************************************)
(* A series between two teams of the catalog, its rematch on the same day, *)
(* a team that LoLTV knows by two identifiers and one that LoLTV shows     *)
(* before the catalog does; an inventory of two years, then of three with  *)
(* a corrected file, of which an import may take a part.                   *)
(***************************************************************************)
EXTENDS OracleData, TLC

LOCAL Team(id, name) == [id |-> id, name |-> name]
LOCAL A == Team("s1", "A")
LOCAL B == Team("s2", "B")
LOCAL OtherA == Team("s3", "A")
LOCAL C == Team("s4", "C")

LOCAL Read(home, away, start, competition, result, maps) ==
    [home |-> home, away |-> away, start |-> start, competition |-> competition,
     score |-> result, maps |-> maps]
LOCAL Map(winner, stat) == {[number |-> 1, winner |-> winner, stat |-> stat]}

MCReadings ==
    "e1" :> {Read(A, B, 0, "spring", <<>>, {}),
             Read(A, B, 0, "spring", <<1, 0>>, Map("home", 1)),
             Read(B, A, 1, "spring", <<0, 1>>, {}),
             Read(OtherA, B, 0, "spring", <<1, 0>>, {})}
    @@ "e2" :> {Read(A, B, 0, "spring", <<0, 1>>, Map("away", 2)),
                Read(C, B, 1, "finals", <<1, 0>>, {})}

MCBrand      == [c \in {"spring", "finals"} |-> "lec"]
MCRiotName   == "alpha" :> "A" @@ "beta" :> "B" @@ "gamma" :> "C"
MCHomeLeague == [t \in {"alpha", "beta", "gamma"} |-> "lec"]
MCOldMatches == "old" :> [home |-> "beta", away |-> "alpha", start |-> 0, league |-> "lec"]

LOCAL Game(won, lost, time, stat) ==
    [won |-> won, lost |-> lost, at |-> time, stat |-> stat, number |-> 1, league |-> "lec"]
LOCAL First  == Game("A", "B", 1, 1)
LOCAL Second == Game("B", "A", 2, 2)
LOCAL Third  == Game("C", "B", NoDate, 3)

LOCAL Ancient == [First EXCEPT !.league = "retired"]

MCGames      == {First, Second, Third, Ancient}
MCDeliveries == {<<{Ancient}, {First}>>, <<{Ancient}, {First, Second}, {Third}>>}
MCTarget     == [m \in {"e1", "e2", "old"} |-> 1]
=============================================================================
