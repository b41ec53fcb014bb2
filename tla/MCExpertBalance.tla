--------------------------- MODULE MCExpertBalance ---------------------------
EXTENDS ExpertBalance

Group(ep, experts, slots) == [ep |-> ep, experts |-> experts, slots |-> slots]

\* A rank without a part in a move takes three ranks, a choice among the slots of a rank
\* two of them.
ExchangeConfigs == {Group(3, 3, 3), Group(2, 4, 4)}

\* From one redundant slot to two for every expert, on one rank and on both.
ReplaceConfigs == {Group(2, 3, 4), Group(2, 2, 4), Group(2, 2, 6), Group(3, 2, 3)}

\* A busy slot and a less busy one, two equally busy, or one that is both.
MCLoads == {<<9, 4>>, <<6, 6>>}

MCConfigs == ExchangeConfigs \cup ReplaceConfigs
=============================================================================
