----------------------------- MODULE MCServices -----------------------------
EXTENDS Services

\* A poll every hour and a report at nine, as the environment seeds them.
MCSeeds == [i \in Ids |-> IF i = 1 THEN [type |-> "poll", on |-> TRUE, params |-> Hourly]
                          ELSE [type |-> "daily", on |-> TRUE, params |-> Nine]]

\* Nothing to review, one group of two files, three groups of one.
MCPlans == {<<>>, <<{"f", "g"}>>, <<{"f"}, {"g"}, {"h"}>>}
=============================================================================
