-------------------------- MODULE MCEvidenceIntake --------------------------
(***************************************************************************)
(* An instance of EvidenceIntake for TLC: a letter with a medium finding    *)
(* repeated on another page, two uneven pages of suspicious sentences, a    *)
(* scan with an instruction over a page end, a scan with nothing in it, a   *)
(* file over each of the strict budgets, and one that is refused.           *)
(***************************************************************************)
EXTENDS EvidenceIntake

Piece(name) == [name |-> name, rule |-> "none", hidden |-> "none", cue |-> FALSE, half |-> "", money |-> FALSE]

Cue(name) == [Piece(name) EXCEPT !.cue = TRUE]

Typed(text) == [scanned |-> FALSE, text |-> text]

Scan(text) == [scanned |-> TRUE, text |-> text]

File(pages) == [fits |-> TRUE, pages |-> pages]

MCContent ==
    [letter |-> File(<<Typed(<<[Piece("m") EXCEPT !.rule = "medium"], [Piece("v") EXCEPT !.money = TRUE]>>),
                       Typed(<<Piece("a"), Piece("m")>>)>>),
     uneven |-> File(<<Typed(<<Cue("b"), Cue("c"), Cue("d")>>), Typed(<<Cue("e"), [Piece("w") EXCEPT !.money = TRUE]>>)>>),
     scan   |-> File(<<Scan(<<Piece("g"), [Piece("o") EXCEPT !.half = "opens"]>>),
                       Scan(<<[Piece("h") EXCEPT !.half = "closes"]>>)>>),
     faded  |-> File(<<Scan(<<Piece("x")>>), Typed(<<Piece("y")>>), Scan(<<Piece("z")>>)>>),
     long   |-> File(<<Typed(<<Cue("i"), Cue("j"), Cue("k"), Cue("l"), Cue("n"), Cue("p")>>)>>),
     dense  |-> File(<<Typed(<<Piece("q"), [Piece("r") EXCEPT !.rule = "critical"], Piece("s"), [Piece("t") EXCEPT !.rule = "medium", !.hidden = "medium"], Piece("u")>>)>>),
     broken |-> [fits |-> FALSE, pages |-> <<>>]]
=============================================================================
