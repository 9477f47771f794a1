---------------------------- MODULE MCMapViewport ----------------------------
EXTENDS MapViewport

\* Two addresses of one cell, in thousandths of a degree, and one of another cell.
MCPlace == [a \in Addresses |-> CASE a = "a" -> <<2, 11>> [] a = "b" -> <<4, 13>> [] OTHER -> <<8, 13>>]
MCInComplex == [r \in Articles |-> IF r = 2 THEN 2 ELSE 1]
MCRegion == [c \in Complexes |-> [sido |-> 1, sigungu |-> c]]
\* The first article of complex 1 is neither its cheapest nor its last.
MCPrice == [r \in Articles |-> CASE r = 1 -> 2 [] r = 2 -> 3 [] OTHER -> 1]

=============================================================================
