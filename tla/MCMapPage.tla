------------------------------ MODULE MCMapPage ------------------------------
EXTENDS MapPage

\* Two close viewports of one zoom, and one far out.
MCZoomed == [view \in Views |-> IF view \in Close THEN 14 ELSE 9]
\* A search by region, the filter the cache key leaves out, moves the map.
MCCentre == [query \in Queries |-> IF "region" \in query THEN "V2" ELSE Nil]

=============================================================================
