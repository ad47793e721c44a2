------------------------------ MODULE MCImporter ------------------------------
(***************************************************************************)
(* Importer with files that fill a batch and leave a rest, skip a line,    *)
(* and fail at a row or before the first.                                  *)
(***************************************************************************)
EXTENDS Importer, TLC

Csv(rows) == [zip |-> FALSE, rows |-> rows]
Zip(rows) == [zip |-> TRUE, rows |-> rows]

OneFile == {Csv(<<"row">>)}
GoodAndBad == {Csv(<<"row", "row", "row">>), Zip(<<"skip", "row">>), Csv(<<"row", "bad">>)}

\* Four rows are one more than the queue and the committer hold at a batch size of two.
LongAndEmpty == {Csv(<<"row", "row", "row", "row">>), Zip(<<"row", "bad">>), Csv(<<>>)}

Symmetry == Permutations(Requests)
===============================================================================
