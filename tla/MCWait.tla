------------------------------- MODULE MCWait -------------------------------
(* Small instance of DependencyWait.                                       *)
EXTENDS DependencyWait

Answer(o, k, t) == [code |-> "OK", override |-> o, known |-> k, tags |-> t]
Failure(c) == [code |-> c, override |-> "", known |-> FALSE, tags |-> <<>>]

MCGrace == [d \in Deps |-> IF d = "own" THEN 1 ELSE 0]
MCOwnAnswers == {Answer("", TRUE, <<"a">>), Answer("", TRUE, <<"">>),
                 Failure("cannot find tag"), Failure("Unavailable")}
MCCrossAnswers == {Answer("b", FALSE, <<>>), Failure("DeadlineExceeded")}
MCOwned == {"b", "c"}
=============================================================================
