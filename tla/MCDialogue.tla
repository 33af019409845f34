----------------------------- MODULE MCDialogue -----------------------------
(* Two topics that share a fact key: the region is asked in both.          *)
EXTENDS Dialogue

CONSTANTS housing, loan

MCTopics == {housing, loan}
MCKeys == [t \in MCTopics |-> IF t = housing THEN <<"region">> ELSE <<"region", "income">>]
=============================================================================
