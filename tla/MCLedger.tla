------------------------------ MODULE MCLedger ------------------------------
(* Ledger: a session's transcript, that of an agent of it, that of a nested *)
(* agent and a file of no known place.                                      *)
EXTENDS Ledger

Use(input, output, read, total, five, hour) ==
    [input |-> input, output |-> output, read |-> read, total |-> total, five |-> five, hour |-> hour]
Line(id, model, at, u) ==
    [shape |-> "usage", side |-> FALSE, at |-> at, id |-> id, model |-> model, u |-> u]

Opening == Line("m1", "big", 1, Use(1, 1, 0, 4, 0, 3))
Grown   == Line("m1", "small", 2, Use(1, 2, 0, 4, 9, 1))
Turn    == Line("m2", "big", 2, Use(0, 1, 6, 0, 0, 0))
Lost    == Line("m3", "big", 2, Use(0, 3, 1, 4, 2, 5))
Side    == [Turn EXCEPT !.side = TRUE]
Early   == Line("m4", "big", 0, Use(2, 1, 0, 3, 3, 0))
Late    == [Turn EXCEPT !.at = 3]
Timeless == [Turn EXCEPT !.at = -1]
Keyless == [Turn EXCEPT !.shape = "keyless"]
Words   == [Turn EXCEPT !.shape = "text"]

MCTranscripts ==
    << [depth |-> 1, sub |-> 0, agent |-> FALSE], [depth |-> 3, sub |-> 2, agent |-> TRUE],
       [depth |-> 5, sub |-> 2, agent |-> TRUE], [depth |-> 2, sub |-> 0, agent |-> FALSE] >>
MCTexts ==
    << { << >>, <<Opening, Grown>>, <<Turn, Lost>>, <<Side, Words, Turn>>, <<Early, Turn, Late>> },
       { << >>, <<Opening>>, <<Grown, Opening>>, <<Turn, Lost>>, <<Side, Words, Turn>>,
         <<Early, Turn, Lost>>, <<Keyless, Timeless, Grown>> },
       { << >>, <<Opening, Grown>>, <<Turn, Lost>>, <<Grown>> },
       { <<Keyless, Turn>>, <<Words, Turn>> } >>
MCAppendable == {Grown, Lost}
=============================================================================
