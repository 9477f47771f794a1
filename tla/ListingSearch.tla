---------------------------- MODULE ListingSearch ----------------------------
(***************************************************************************)
(* The paged search.  A page is found by keyset: the cursor holds the sort  *)
(* value and the id of the last item, and the next page starts after it.    *)
(* Four searches share the scheme.  A plain one pages through rows or       *)
(* through complexes in SQL.  A loan or affordability search judges rows in *)
(* Python, so it scans candidates in batches until a page is full; grouped, *)
(* it scans complexes in the order of their candidates, which is not the    *)
(* order of what is shown, and its cursor carries a second anchor: where    *)
(* the scan goes on.  Between two pages the crawl may change a listing, and *)
(* the applicant may edit the profile the rows are judged by.               *)
(*                                                                          *)
(* One request is one transaction on one snapshot (REPEATABLE READ), so a   *)
(* search is one step however many statements it takes.  Sort values are    *)
(* small numbers; a key is a pair <<sort value, id>>.                       *)
(***************************************************************************)
EXTENDS Integers, FiniteSets, FiniteSetsExt, Sequences, SequencesExt

CONSTANTS
  Rows,          \* article ids
  ComplexOf,     \* the complex a row belongs to
  Values,        \* values of the sort column
  Streams,       \* SQL statements a candidate batch merges: branch x trade type
  StreamsOf,     \* the statements that return a row
  PageSize,      \* filters.page_size
  BatchSize,     \* candidates fetched at a time: max(100, 4 * page_size)
  MaxChanges,    \* bound on changes by the crawl or to the profile
  Nil            \* no cursor, no anchor

ASSUME SearchAssumption ==
  /\ Rows \subseteq Nat /\ IsFiniteSet(Rows)
  /\ ComplexOf \in [Rows -> Nat]
  /\ Values \subseteq Nat
  /\ StreamsOf \in [Rows -> (SUBSET Streams) \ {{}}]
  /\ PageSize \in Nat \ {0} /\ BatchSize \in Nat \ {0}
  /\ MaxChanges \in Nat
  /\ Nil \notin Nat \X Nat
  /\ Nil \notin [key : Nat \X Nat, scan : (Nat \X Nat) \cup {Nil}, fp : Nat \cup {Nil}]

VARIABLES
  search,     \* what was asked for; it stays the same during a walk
  listed,     \* active rows that satisfy the SQL conditions, with their sort value
  accepted,   \* rows the evaluator accepts for the present profile
  profile,    \* the version of the applicant's profile
  began,      \* the version the walk began with
  page,       \* the page in the browser
  walk,       \* the pages shown since the first one, as sequences of ids
  back,       \* has the walk taken a step back?
  touched,    \* rows the crawl changed since the walk began
  changes     \* counts them, and profile edits, up to MaxChanges

vars == <<search, listed, accepted, profile, began, page, walk, back, touched, changes>>

\* kind "spread" is the price or the area, whose group value is the lower end of
\* the group when ascending; "highest" is the households of the group.
Search == [grouped : BOOLEAN, runtime : BOOLEAN, desc : BOOLEAN,
           kind : {"spread", "highest"}]

-----------------------------------------------------------------------------
(* Order and keyset.                                                        *)

Ahead(desc, a, b) ==
  LET smaller(x, y) == x[1] < y[1] \/ (x[1] = y[1] /\ x[2] < y[2])
  IN  IF desc THEN smaller(b, a) ELSE smaller(a, b)

\* _apply_keyset; with the order reversed, _apply_previous_keyset.
After(keys, anchor, desc) ==
  IF anchor = Nil THEN keys ELSE {k \in keys : Ahead(desc, anchor, k)}

InOrder(keys, desc) ==
  [i \in 1..Cardinality(keys) |->
    CHOOSE k \in keys : Cardinality({j \in keys : Ahead(desc, j, k)}) = i - 1]

Take(n, s) == SubSeq(s, 1, Min({n, Len(s)}))

\* SELECT ... WHERE <keyset> ORDER BY sort, id LIMIT n
Fetch(keys, anchor, desc, n) == Take(n, InOrder(After(keys, anchor, desc), desc))

RowKeys(rows) == {<<listed[r], r>> : r \in rows}

\* The aggregate of each complex over some of its rows.
GroupKeys(rows, desc, kind) ==
  {LET values == {listed[r] : r \in {q \in rows : ComplexOf[q] = c}}
   IN  <<IF desc \/ kind = "highest" THEN Max(values) ELSE Min(values), c>>
     : c \in {ComplexOf[r] : r \in rows}}

Matching == IF search.runtime THEN DOMAIN listed \cap accepted ELSE DOMAIN listed

-----------------------------------------------------------------------------
(* Cursors and pages.                                                       *)

FingerprintOfFilter == Nil

\* The fingerprint holds the applicant only when the rows depend on it.
Fingerprint == IF search.runtime THEN profile ELSE Nil

Cursor(key, scan) == [key |-> key, scan |-> scan, fp |-> Fingerprint]

EmptyPage(hasPrevious) ==
  [items |-> <<>>, next |-> Nil, previous |-> Nil, hasPrevious |-> hasPrevious]

PreviousCursorOfLast(preceding) ==
  IF preceding # <<>> THEN Cursor(Last(preceding), Nil) ELSE Nil

\* The page before starts after the item before its first one; when there is no
\* such item it is the first page, which needs no cursor.
PreviousCursor(preceding) ==
  IF Len(preceding) > PageSize THEN Cursor(Last(preceding), Nil) ELSE Nil

-----------------------------------------------------------------------------
(* The scan of candidate rows.                                              *)

\* _loan_candidate_batch: every statement is limited, then the merged rows are.
CandidateBatch(anchor, desc) ==
  LET answers(t) ==
        Fetch(RowKeys({r \in DOMAIN listed : t \in StreamsOf[r]}), anchor, desc, BatchSize)
  IN  Take(BatchSize, InOrder(UNION {ToSet(answers(t)) : t \in Streams}, desc))

\* One turn of the loop: the accepted rows of the next batch are appended in its order.
ReadCandidates(s, desc) ==
  LET batch == CandidateBatch(s.at, desc)
      found == s.found \o InOrder({k \in ToSet(batch) : k[2] \in accepted}, desc)
  IN  [at |-> IF batch = <<>> THEN s.at ELSE Last(batch),
       found |-> Take(PageSize + 1, found),
       done |-> Len(found) > PageSize \/ Len(batch) < BatchSize]

\* _scan_eligible_rows, _scan_purchase_affordable_rows and the two previous cursors.
ScanRows(anchor, desc) ==
  LET scan[n \in 0..Cardinality(Rows) + 1] ==
        IF n = 0 THEN [at |-> anchor, found |-> <<>>, done |-> FALSE]
        ELSE LET s == scan[n - 1] IN IF s.done THEN s ELSE ReadCandidates(s, desc)
  IN  scan[Cardinality(Rows) + 1].found

-----------------------------------------------------------------------------
(* The page by one keyset.                                                  *)

\* Up to PageSize + 1 keys after the anchor.
Read(anchor, desc) ==
  CASE search.runtime -> ScanRows(anchor, desc)
    [] ~search.runtime /\ search.grouped ->
         Fetch(GroupKeys(DOMAIN listed, search.desc, search.kind), anchor, desc, PageSize + 1)
    [] OTHER -> Fetch(RowKeys(DOMAIN listed), anchor, desc, PageSize + 1)

\* _search_rows, _search_eligible_rows, _search_purchase_affordable_rows and the
\* plain _search_grouped.
KeysetPage(anchor) ==
  LET found == Read(anchor, search.desc)
      items == Take(PageSize, found)
      preceding == Read(Head(items), ~search.desc)
  IN  IF found = <<>>
      THEN EmptyPage(anchor # Nil /\ ~search.grouped)
      ELSE [items |-> items,
            next |-> IF Len(found) > PageSize THEN Cursor(Last(items), Nil) ELSE Nil,
            previous |-> IF anchor # Nil THEN PreviousCursor(preceding) ELSE Nil,
            hasPrevious |-> anchor # Nil]

-----------------------------------------------------------------------------
(* The scan of groups, _search_runtime_filtered_grouped.                    *)

\* _raw_bound_is_safe: a group not scanned yet cannot come before this one.
RawBoundIsSafe(raw, worst, desc) == raw = worst \/ Ahead(desc, worst, raw)

\* What a batch of groups adds: those that qualify, each with its key in the scan
\* and the key the scan was at before it.
Qualified(batch, at, wanted) ==
  UNION {{[key |-> k, raw |-> batch[i], before |-> IF i = 1 THEN at ELSE batch[i - 1]]
           : k \in {w \in wanted : w[2] = batch[i][2]}} : i \in DOMAIN batch}

Keys(qualified) == {q.key : q \in qualified}

\* One turn of the loop.
ReadGroups(s, raw, wanted, desc) ==
  LET batch == Fetch(raw, s.at, desc, PageSize + 1)
      found == s.found \cup Qualified(batch, s.at, wanted)
      at == IF batch = <<>> THEN s.at ELSE Last(batch)
  IN  [at |-> at, found |-> found,
       done |-> \/ Len(batch) < PageSize + 1
                \/ /\ Cardinality(Keys(found)) > PageSize
                   /\ RawBoundIsSafe(at, InOrder(Keys(found), desc)[PageSize + 1], desc)]

\* The groups after the anchor, as far as they were found by a scan that started at
\* start, and where the scan stopped.
ScanGroups(anchor, start, desc) ==
  LET raw == GroupKeys(DOMAIN listed, desc, "spread")
      wanted == After(GroupKeys(Matching, desc, search.kind), anchor, desc)
      scan[n \in 0..Cardinality(Rows) + 1] ==
        IF n = 0 THEN [at |-> start, found |-> {}, done |-> FALSE]
        ELSE LET s == scan[n - 1] IN IF s.done THEN s ELSE ReadGroups(s, raw, wanted, desc)
  IN  scan[Cardinality(Rows) + 1]

NextScanWhereThisStopped(scanned, items) == scanned.at

\* The next scan starts before the first group that is left over.
NextScanAnchor(scanned, items) ==
  LET remaining == {q \in scanned.found : q.key \notin ToSet(items)}
      first == CHOOSE q \in remaining :
                 \A p \in remaining : p.raw # q.raw => Ahead(search.desc, q.raw, p.raw)
  IN  IF remaining = {} THEN scanned.at ELSE first.before

RuntimeGroupPage(anchor, start) ==
  LET scanned == ScanGroups(anchor, start, search.desc)
      ranked == InOrder(Keys(scanned.found), search.desc)
      items == Take(PageSize, ranked)
  IN  IF ranked = <<>>
      THEN EmptyPage(FALSE)
      ELSE [items |-> items,
            next |-> IF Len(ranked) > PageSize
                     THEN Cursor(Last(items), NextScanAnchor(scanned, items)) ELSE Nil,
            previous |-> Nil,
            hasPrevious |-> FALSE]

\* _run_search with the anchors of a cursor.
PageAt(anchor, start) ==
  IF search.runtime /\ search.grouped THEN RuntimeGroupPage(anchor, start) ELSE KeysetPage(anchor)

FirstPage == PageAt(Nil, Nil)

-----------------------------------------------------------------------------
(* What happens.                                                            *)

Ids(p) == [i \in DOMAIN p.items |-> p.items[i][2]]

Init ==
  /\ search \in {s \in Search : ~s.grouped => s.kind = "spread"}
  /\ listed \in UNION {[rows -> Values] : rows \in SUBSET Rows}
  /\ accepted \in (IF search.runtime THEN SUBSET DOMAIN listed ELSE {{}})
  /\ profile = 0 /\ began = 0 /\ changes = 0 /\ touched = {} /\ back = FALSE
  /\ page = EmptyPage(FALSE)
  /\ walk = <<>>

\* The search form, or an address without a cursor.
Open ==
  /\ page' = FirstPage
  /\ walk' = <<Ids(page')>>
  /\ back' = FALSE
  /\ touched' = {}
  /\ began' = profile
  /\ UNCHANGED <<search, listed, accepted, profile, changes>>

\* _decode_cursor_payload: a cursor of another filter or applicant is refused.
Valid(cursor) == cursor.fp = Fingerprint

\* The search answers with an error in the place of the list.
Refuse ==
  /\ page' = EmptyPage(FALSE)
  /\ walk' = <<>>
  /\ UNCHANGED <<back, touched>>

FollowNext ==
  /\ page.next # Nil
  /\ \/ /\ Valid(page.next)
        /\ page' = PageAt(page.next.key, page.next.scan)
        /\ walk' = Append(walk, Ids(page'))
        /\ UNCHANGED <<back, touched>>
     \/ ~Valid(page.next) /\ Refuse
  /\ UNCHANGED <<search, listed, accepted, profile, began, changes>>

\* The link goes to the previous cursor, or to the first page when there is none.
FollowPrevious ==
  /\ page.hasPrevious
  /\ \/ /\ page.previous # Nil => Valid(page.previous)
        /\ page' = IF page.previous = Nil THEN FirstPage
                   ELSE PageAt(page.previous.key, page.previous.scan)
        /\ walk' = Append(Take(Len(walk) - 2, walk), Ids(page'))
        /\ back' = TRUE
        /\ UNCHANGED touched
     \/ page.previous # Nil /\ ~Valid(page.previous) /\ Refuse
  /\ UNCHANGED <<search, listed, accepted, profile, began, changes>>

Change ==
  /\ changes < MaxChanges
  /\ changes' = changes + 1
  /\ UNCHANGED <<search, began, page, walk, back>>

\* A row appears, goes away, or gets another price.  The crawl does not ask the
\* profile: a row that appears is accepted or not.
CrawlChanges(r) ==
  /\ Change
  /\ \E kept \in BOOLEAN, v \in Values :
       /\ listed' = IF kept THEN [q \in DOMAIN listed \cup {r} |-> IF q = r THEN v ELSE listed[q]]
                    ELSE Restrict(listed, DOMAIN listed \ {r})
       /\ listed' # listed
  /\ accepted' \in (IF search.runtime /\ r \in DOMAIN listed'
                    THEN {accepted \ {r}, accepted \cup {r}} ELSE {accepted \ {r}})
  /\ touched' = touched \cup {r}
  /\ UNCHANGED profile

\* The profile is saved in another tab; one row is judged differently now.
EditProfile(r) ==
  /\ search.runtime /\ r \in DOMAIN listed
  /\ Change
  /\ profile' = profile + 1
  /\ accepted' = IF r \in accepted THEN accepted \ {r} ELSE accepted \cup {r}
  /\ UNCHANGED <<listed, touched>>

Next ==
  \/ Open \/ FollowNext \/ FollowPrevious
  \/ \E r \in Rows : CrawlChanges(r) \/ EditProfile(r)

Spec == Init /\ [][Next]_vars

-----------------------------------------------------------------------------
(* What a reader of the list expects.                                       *)

MatchingKeys ==
  IF search.grouped THEN GroupKeys(Matching, search.desc, search.kind) ELSE RowKeys(Matching)

Shown == FlattenSeq(walk)

Undisturbed == touched = {} /\ profile = began

\* A row, or a complex, none of whose rows the crawl has touched.
Stable(id) == ~ \E r \in touched : id = (IF search.grouped THEN ComplexOf[r] ELSE r)

\* As long as nothing changes, the pages are the list of all matches, in order,
\* cut into full pages; a next page is offered exactly when there is more.
WalkIsTheList ==
  (Undisturbed /\ ~back /\ walk # <<>>) =>
    LET all == InOrder(MatchingKeys, search.desc)
    IN  /\ Shown = Take(Len(Shown), [i \in DOMAIN all |-> all[i][2]])
        /\ page.next # Nil <=> Len(Shown) < Len(all)
        /\ page.next # Nil => Len(Shown) = PageSize * Len(walk)

\* Whatever the crawl and the applicant do between the pages, a reader who goes
\* on to the end has seen every row (complex) that the crawl left alone and that
\* matches then exactly once, and never saw one twice on the way.
StableShownOnce ==
  [][(FollowNext /\ ~back /\ walk' # <<>>) =>
       \A id \in UNION {{r, ComplexOf[r]} : r \in Rows} :
         Stable(id) =>
           LET times == Cardinality({i \in DOMAIN Shown' : Shown'[i] = id})
               matches == id \in {k[2] : k \in MatchingKeys}
           IN  /\ times <= 1
               /\ page'.next = Nil /\ matches => times = 1]_vars

\* As long as nothing changes, the link back shows the page before this one.
PreviousLeadsBack ==
  [][FollowPrevious /\ Undisturbed => Ids(page') = walk[Len(walk) - 1]]_vars

=============================================================================
