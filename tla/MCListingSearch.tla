--------------------------- MODULE MCListingSearch ---------------------------
EXTENDS ListingSearch

\* Article 1 and 3 are of one complex; article 2 is returned by two statements.
MCComplexOf == [r \in Rows |-> IF r = 3 THEN 1 ELSE r]
MCStreamsOf == [r \in Rows |-> CASE r = 1 -> {"a"} [] r = 2 -> {"a", "b"} [] OTHER -> {"b"}]

=============================================================================
