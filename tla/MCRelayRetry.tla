----------------------------- MODULE MCRelayRetry -----------------------------
EXTENDS RelayRetry

CONSTANTS c1, c2, c3

\* Two channels share the highest priority; or only one is above the default, 0.
TwoLevels == [c \in {c1, c2, c3} |-> IF c = c3 THEN 1 ELSE 2]
OneAbove == [c \in {c1, c2, c3} |-> CASE c = c1 -> 1 [] c = c2 -> 0 [] c = c3 -> 0 - 1]
Both == {TwoLevels, OneAbove}
=============================================================================
