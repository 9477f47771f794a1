----------------------------- MODULE MapViewport -----------------------------
(***************************************************************************)
(* What the map shows, listing_map_service.py, over complexes that get      *)
(* their coordinates from the sweep of GeocodeSweep.  One viewport can be   *)
(* built in two ways: in SQL, or, when Python must judge every row, from a  *)
(* stream of rows.  Far out it shows provinces or districts, then complexes *)
(* of one cell together, then each complex.  A complex without verified     *)
(* coordinates is counted and not shown.                                    *)
(*                                                                          *)
(* Texts of a row are represented by the row they are taken from; averages  *)
(* by the sum and the number of what is averaged.                           *)
(***************************************************************************)
EXTENDS GeocodeSweep

CONSTANTS
  Articles,      \* article ids
  InComplex,     \* the complex of an article
  Region,        \* sido_code and sigungu_code of a complex
  price,         \* primary_price of an article
  Zooms

ASSUME ViewportAssumption ==
  /\ Articles \subseteq Nat /\ IsFiniteSet(Articles)
  /\ InComplex \in [Articles -> Complexes]
  /\ Region \in [Complexes -> [sido : Nat, sigungu : Nat]]
  /\ price \in [Articles -> Nat] /\ Zooms \subseteq 0..21

VARIABLE listed      \* the active articles the filter matches

viewportVars == <<sweepVars, listed>>

-----------------------------------------------------------------------------
(* From zoom to shape.                                                      *)

map_viewport_mode(zoom) ==
  CASE zoom <= 8 -> "sido"
    [] zoom \in 9..12 -> "sigungu"
    [] zoom \in 13..14 -> "clusters"
    [] OTHER -> "markers"

\* In thousandths of a degree, as the places are.
map_cell_size(zoom) ==
  CASE zoom <= 7 -> 500 [] zoom \in 8..9 -> 100 [] zoom \in 10..11 -> 20 [] OTHER -> 5

Sum(f(_), S) == SumFunction([x \in S |-> f(x)])

\* Many markers in the place of one cluster.
ClusterOf(members) ==
  LET xs == {m.at[1] : m \in members}
      ys == {m.at[2] : m \in members}
  IN  [centre |-> <<Sum(LAMBDA m : m.at[1], members), Sum(LAMBDA m : m.at[2], members)>>,
       west |-> Min(xs), south |-> Min(ys), east |-> Max(xs), north |-> Max(ys),
       complexes |-> Cardinality(members),
       listings |-> Sum(LAMBDA m : m.listings, members),
       min |-> Min({m.min : m \in members}), max |-> Max({m.max : m \in members})]

aggregate_map_regions(markers, level) ==
  {[code |-> code, cluster |-> ClusterOf({m \in markers : m.region[level] = code})]
     : code \in {m.region[level] : m \in markers}}

\* As if a cell with one complex had nothing to cluster, and nothing to show.
OnlyClusters(markers, zoom) ==
  LET size == map_cell_size(zoom)
      cell(m) == <<m.at[1] \div size, m.at[2] \div size>>
      cells == {{m \in markers : cell(m) = k} : k \in {cell(m) : m \in markers}}
  IN  [markers |-> {},
       clusters |-> {[code |-> 0, cluster |-> ClusterOf(ms)]
                       : ms \in {ms \in cells : Cardinality(ms) > 1}}]

\* A cell with one complex keeps its marker; the other cells become clusters.
cluster_map_complexes(markers, zoom) ==
  LET size == map_cell_size(zoom)
      cell(m) == <<m.at[1] \div size, m.at[2] \div size>>
      cells == {{m \in markers : cell(m) = k} : k \in {cell(m) : m \in markers}}
  IN  [markers |-> UNION {ms \in cells : Cardinality(ms) = 1},
       clusters |-> {[code |-> 0, cluster |-> ClusterOf(ms)]
                       : ms \in {ms \in cells : Cardinality(ms) > 1}}]

Located(c) == complex[c].status = "OK" /\ complex[c].at # Nowhere

Viewport(mode, markers, clusters, matching, mapped, listings) ==
  [mode |-> mode, markers |-> markers, clusters |-> clusters, matching |-> matching,
   mapped |-> mapped, unmapped |-> matching - mapped, listings |-> listings]

Marker(c, text, count, min, max) ==
  [complex |-> c, text |-> text, at |-> complex[c].at, listings |-> count,
   min |-> min, max |-> max, region |-> Region[c]]

-----------------------------------------------------------------------------
(* The viewport in SQL.                                                     *)

\* The candidates grouped by complex, with the texts of the first article.
Aggregate(rows, c) ==
  LET mine == {r \in rows : InComplex[r] = c}
      prices == {price[r] : r \in mine}
  IN  Marker(c, Min(mine), Cardinality(mine), Min(prices), Max(prices))

\* GROUP BY the code of the region; the counts of the page are sums over the groups.
SqlRegionViewport(mode, located, matching) ==
  LET region(m) == Region[m.complex][mode]
      clusters == {[code |-> code, cluster |-> ClusterOf({m \in located : region(m) = code})]
                     : code \in {region(m) : m \in located}}
  IN  Viewport(mode, {}, clusters, matching,
               Sum(LAMBDA k : k.cluster.complexes, clusters),
               Sum(LAMBDA k : k.cluster.listings, clusters))

SqlViewport(rows, zoom) ==
  LET mode == map_viewport_mode(zoom)
      ids == {InComplex[r] : r \in rows}
      located == {Aggregate(rows, c) : c \in {d \in ids : Located(d)}}
      shape == IF mode = "clusters" THEN cluster_map_complexes(located, zoom)
               ELSE [markers |-> located, clusters |-> {}]
  IN  IF mode \in {"sido", "sigungu"}
      THEN SqlRegionViewport(mode, located, Cardinality(ids))
      ELSE Viewport(mode, shape.markers, shape.clusters, Cardinality(ids),
                    Cardinality(located), Sum(LAMBDA m : m.listings, located))

-----------------------------------------------------------------------------
(* The viewport from a stream.                                              *)

\* As if setdefault were an assignment: the text of the last row.
LastRowsText(rows) ==
  LET ids == {InComplex[r] : r \in rows}
      mine(c) == {r \in rows : InComplex[r] = c}
      prices(c) == {price[r] : r \in mine(c)}
  IN  [c \in ids |-> [text |-> Max(mine(c)), count |-> Cardinality(mine(c)),
                      min |-> Min(prices(c)), max |-> Max(prices(c))]]

AddRow(sums, r) ==
  LET c == InComplex[r]
      p == price[r]
      s == IF c \in DOMAIN sums THEN sums[c]
           ELSE [text |-> r, count |-> 0, min |-> p, max |-> p]
      next == [text |-> s.text, count |-> s.count + 1,
               min |-> Min({s.min, p}), max |-> Max({s.max, p})]
  IN  [d \in DOMAIN sums \cup {c} |-> IF d = c THEN next ELSE sums[d]]

\* One row after the other, in the order of article ids, summed up per complex:
\* after[n] holds the rows up to article n.
Summaries(rows) ==
  LET last == Max(rows \cup {0})
      after[n \in 0..last] ==
        LET before == IF n = 0 THEN <<>> ELSE after[n - 1]
        IN  IF n \in rows THEN AddRow(before, n) ELSE before
  IN  after[last]

StreamViewport(rows, zoom) ==
  LET mode == map_viewport_mode(zoom)
      sums == Summaries(rows)
      located == {Marker(c, sums[c].text, sums[c].count, sums[c].min, sums[c].max)
                    : c \in {d \in DOMAIN sums : Located(d)}}
      shape == CASE mode = "clusters" -> cluster_map_complexes(located, zoom)
                 [] mode = "markers" -> [markers |-> located, clusters |-> {}]
                 [] OTHER -> [markers |-> {},
                              clusters |-> aggregate_map_regions(located, mode)]
  IN  Viewport(mode, shape.markers, shape.clusters, Cardinality(DOMAIN sums),
               Cardinality(located), Sum(LAMBDA m : m.listings, located))

-----------------------------------------------------------------------------
ViewportInit ==
  /\ SweepInit
  /\ listed \in SUBSET Articles

ViewportNext == SweepNext /\ UNCHANGED listed

\* The sweep is a cron job and its batches go on by themselves; a process that
\* dies is not promised to.
ViewportSpec ==
  /\ ViewportInit /\ [][ViewportNext]_viewportVars
  /\ WF_viewportVars(StartSweep(TRUE) /\ UNCHANGED listed)
  /\ WF_viewportVars((LoadBatch \/ NothingDue \/ CommitBatch) /\ UNCHANGED listed)

-----------------------------------------------------------------------------
(* What must hold.                                                          *)

\* The list and its judged version must not tell different stories: for the same
\* rows both ways give the same page, at every zoom.
SqlAndStreamAgree ==
  \A zoom \in Zooms : SqlViewport(listed, zoom) = StreamViewport(listed, zoom)

\* The complexes in clusters and the markers add up to the complexes shown, as the
\* design demands: however far out the map is, every listing of a located complex is counted in
\* exactly one marker or cluster, and every other complex is reported missing.
NothingIsLostOnTheMap ==
  \A zoom \in Zooms :
    LET v == SqlViewport(listed, zoom)
        shown == {r \in listed : Located(InComplex[r])}
        missing == {InComplex[r] : r \in listed \ shown}
        clusters == v.clusters
    IN  /\ Sum(LAMBDA m : m.listings, v.markers) + Sum(LAMBDA k : k.cluster.listings, clusters)
             = Cardinality(shown)
        /\ v.listings = Cardinality(shown)
        /\ Cardinality(v.markers) + Sum(LAMBDA k : k.cluster.complexes, clusters)
             = Cardinality({InComplex[r] : r \in shown})
        /\ v.unmapped = Cardinality(missing)

\* A marker stands where the address of its complex is, as long as no address
\* changed while a sweep had the complex loaded.
MarkersStandAtTheirAddress ==
  ~disturbed =>
    \A m \in StreamViewport(listed, 15).markers : m.at = Place[complex[m.complex].address]

\* A complex that waits for coordinates is looked up one day, however often others
\* fail: a sweep does not come back to those it has tried.  A sweep has room for every
\* complex here; one that is full of failures each day would not get to the rest.
PendingIsAttempted ==
  \A c \in Complexes : complex[c].status = "PENDING" ~> complex[c].status # "PENDING"

-----------------------------------------------------------------------------
(* What the documents say and the code does not do.                         *)

\* "A change of address clears the coordinates and puts the complex back to PENDING":
\* not when a sweep had loaded it before.
NoMarkerAtAnOldAddress ==
  \A m \in StreamViewport(listed, 15).markers : m.at = Place[complex[m.complex].address]

=============================================================================
