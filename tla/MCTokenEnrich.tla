---------------------------- MODULE MCTokenEnrich ----------------------------
EXTENDS TokenEnrich
CONSTANTS t1, t2, t3
Entry(t, k, l) == [token |-> t, known |-> k, trust |-> l]
Duplicated == <<Entry(t1, {"name"}, 0), Entry(t2, {}, 1), Entry(t1, {}, 1)>>
TwoAnswers == {[known |-> {"name"}, trust |-> 0], [known |-> {"domain"}, trust |-> 1]}
==============================================================================
