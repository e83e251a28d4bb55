------------------------------ MODULE MCApiToken ------------------------------
(* Constants for the runs of ApiToken.                                         *)
EXTENDS ApiToken, TLC

CONSTANTS p1, p2

OneRun  == {p1}
TwoRuns == {p1, p2}

AllFaults == {"http", "db", "answer", "crash"}
DbOnly    == {"db"}

AnyAnswer   == SUBSET FullAnswer
WholeAnswer == {FullAnswer}

Runs == Permutations(Run)

=============================================================================
