------------------------------- MODULE MapPage -------------------------------
(***************************************************************************)
(* The map page in the browser, listing-map.js: a map the user moves, a     *)
(* list beside it, and a search form.  When the map comes to rest, a timer  *)
(* is set; when it fires, the map data and the list of the viewport are     *)
(* asked for.  A search swaps the list for the list of its query and, when  *)
(* the query is new, asks for the viewport again.                           *)
(*                                                                          *)
(* A query is the set of the filters it sets.  An answer is what it is an   *)
(* answer to: a viewport and a query.  The server caches map data under a   *)
(* key that leaves filters out, and the cache is everybody's, so an answer  *)
(* may be to any query with the same key.                                   *)
(*                                                                          *)
(* An answer to a request that was cancelled or superseded does nothing: it *)
(* is aborted or fails the test of its id.  Such requests are forgotten.    *)
(***************************************************************************)
EXTENDS Integers

CONSTANTS
  Filters,
  Keyed,        \* the filters the cache key holds
  Forms,        \* what the user enters
  Views,        \* viewports, with their zoom
  Start,        \* the one a mounted map begins with
  Close,        \* those close enough for a list: zoom >= 11
  Zoomed,       \* zoom level of a viewport
  Centre,       \* where a search for a region takes the map, or Nil
  Nil,
  Everywhere,   \* the "viewport" of a list without bounds
  MaxOps        \* bound on what the user does

Queries == SUBSET Filters
Requests == [view : Views, key : Views, query : Queries, clean : BOOLEAN]

ASSUME MapPageAssumption ==
  /\ Keyed \subseteq Filters /\ Forms \subseteq Queries
  /\ Close \subseteq Views /\ Start \in Close
  /\ {Nil, Everywhere} \cap Views = {} /\ Nil # Everywhere /\ Nil \notin Requests
  /\ Zoomed \in [Views -> Nat]
  /\ Centre \in [Queries -> Views \cup {Nil}]
  /\ MaxOps \in Nat

VARIABLES
  at, motion,   \* the map: its viewport; "still", "dragged" or "moving"
  dirty,        \* instance.viewportDirty
  manual,       \* instance.isManualClick
  soon,         \* the timeout of focus()
  net,          \* timers, last keys, requests and their signs, by kind
  shown,        \* the answers on the page, by kind
  form,         \* the search form
  base,         \* the query of the last search, in the URLs and the query key
  delayed,      \* a changed form waits for its 400 ms
  search,       \* the search under way, or Nil
  late,         \* has a timer fired after the map was moved from where it was set?
  ops

mapVars == <<at, motion, dirty, manual, soon>>
formVars == <<form, base, delayed, search>>
vars == <<mapVars, formVars, net, shown, late, ops>>

Kinds == {"map", "cards"}
CacheKey(query) == query \cap Keyed

\* clean: the form held the query of the page when this was asked.
Request(view, key, asked) ==
  [view |-> view, key |-> key, query |-> asked \cup form, clean |-> form = asked]

\* The list of a search is of the query and not of a viewport.
WholeList(query) == [view |-> Everywhere, key |-> Everywhere, query |-> query, clean |-> TRUE]

-----------------------------------------------------------------------------
(* Requests.  n is net before a call, the value is net after it.            *)

\* What `finally` does for the newest request.
Ended(n, kind) == [n EXCEPT !.live[kind] = Nil, !.pending[kind] = FALSE]

\* As if `finally` put the sign out for a request that was aborted, too.
CancelLeavesSign(n, kind) == [n EXCEPT !.live[kind] = Nil]

\* cancelMapRequest, cancelCardsRequest
Cancel(n, kind) == Ended(n, kind)

\* The base URL keeps its parameters; the form adds its own and clears none.
Send(n, kind, view, key, asked) ==
  IF n.last[kind] = key THEN n
  ELSE [Cancel(n, kind) EXCEPT !.live[kind] = Request(view, key, asked),
                               !.pending[kind] = TRUE, !.failed[kind] = FALSE]

requestMapData(n, view, key, asked) == Send(n, "map", view, key, asked)

requestCards(n, view, key, asked) ==
  IF view \in Close THEN Send(n, "cards", view, key, asked) ELSE n

RequestBoth(n, view, asked) ==
  requestCards(requestMapData(n, view, view, asked), view, view, asked)

markViewportDirty(n) == Cancel(Cancel(n, "map"), "cards")

\* As if the list were up to date whenever the map is.
ScheduleByMapOnly(n, view) ==
  LET due == n.last.map # view
  IN  [n EXCEPT !.timer = [map |-> IF due THEN view ELSE Nil,
                           cards |-> IF due /\ ~manual /\ view \in Close THEN view ELSE Nil]]

\* The viewport's key is taken when the timers are set.
scheduleViewportRefresh(n, view) ==
  [n EXCEPT !.timer =
     [map |-> IF n.last.map # view THEN view ELSE Nil,
      cards |-> IF ~manual /\ view \in Close /\ n.last.cards # view THEN view ELSE Nil]]

-----------------------------------------------------------------------------
(* The user and the map.                                                    *)

\* A timeout of 0 ms is over before the user does anything else.
Acts == ~soon /\ ops < MaxOps /\ ops' = ops + 1 /\ UNCHANGED late

\* dragstart
Drag ==
  /\ Acts /\ motion # "dragged" /\ motion' = "dragged"
  /\ manual' = FALSE /\ dirty' = TRUE
  /\ net' = markViewportDirty(net)
  /\ UNCHANGED <<at, soon, formVars, shown>>

\* The map follows the mouse; nobody listens.
Slide(view) ==
  /\ Acts /\ motion = "dragged" /\ view # at /\ Zoomed[view] = Zoomed[at]
  /\ at' = view
  /\ UNCHANGED <<motion, dirty, manual, soon, formVars, net, shown>>

\* zoom_changed, or a click on a cluster
Zoom(view) ==
  /\ Acts /\ Zoomed[view] # Zoomed[at]
  /\ at' = view /\ motion' = "moving" /\ dirty' = TRUE
  /\ net' = markViewportDirty(net)
  /\ UNCHANGED <<manual, soon, formVars, shown>>

\* A click on a listing moves the map to it.
focus(view) ==
  /\ Acts /\ view \in Close /\ view # at
  /\ at' = view /\ motion' = "moving" /\ dirty' = TRUE /\ manual' = TRUE /\ soon' = TRUE
  /\ net' = markViewportDirty(net)
  /\ UNCHANGED <<formVars, shown>>

openComplexModal ==
  /\ Acts /\ ~manual /\ manual' = TRUE
  /\ UNCHANGED <<at, motion, dirty, soon, formVars, net, shown>>

Rest ==
  /\ dirty' = FALSE
  /\ net' = IF dirty THEN scheduleViewportRefresh(net, at) ELSE net
  /\ UNCHANGED <<at, manual, formVars, shown, late, ops>>

Idle == motion # "still" /\ motion' = "still" /\ Rest /\ UNCHANGED soon

FocusTimeout == soon /\ soon' = FALSE /\ Rest /\ UNCHANGED motion

-----------------------------------------------------------------------------
(* Timers and answers.                                                      *)

Late(key) == late' = (late \/ key # at \/ motion = "dragged")

\* The viewport is the one of now, the key the one of then.
MapTimerFires ==
  /\ net.timer.map # Nil
  /\ net' = requestMapData([net EXCEPT !.timer.map = Nil], at, net.timer.map, base)
  /\ Late(net.timer.map)
  /\ UNCHANGED <<mapVars, formVars, shown, ops>>

CardsTimerFires ==
  /\ net.timer.cards # Nil
  /\ net' = requestCards([net EXCEPT !.timer.cards = Nil], at, net.timer.cards, base)
  /\ Late(net.timer.cards)
  /\ UNCHANGED <<mapVars, formVars, shown, ops>>

Answered(kind) ==
  /\ net.live[kind] # Nil
  /\ net' = [Ended(net, kind) EXCEPT !.last[kind] = net.live[kind].key]
  /\ UNCHANGED <<mapVars, formVars, late, ops>>

MapAnswer(query) ==
  /\ Answered("map")
  /\ CacheKey(query) = CacheKey(net.live.map.query)
  /\ shown' = [shown EXCEPT !.map = [net.live.map EXCEPT !.query = query]]

CardsAnswer == Answered("cards") /\ shown' = [shown EXCEPT !.cards = net.live.cards]

\* The keys stay as they are.
RequestFails(kind) ==
  /\ net.live[kind] # Nil
  /\ net' = [Ended(net, kind) EXCEPT !.failed[kind] = TRUE]
  /\ UNCHANGED <<mapVars, formVars, shown, late, ops>>

-----------------------------------------------------------------------------
(* The search form, with hx-sync="this:replace".                            *)

\* A control inside the form triggers a search after 400 ms, one outside none.
Edit(query) ==
  /\ Acts /\ query # form /\ form' = query
  /\ delayed' \in {delayed, TRUE}
  /\ UNCHANGED <<mapVars, base, search, net, shown>>

SearchDue ==
  /\ delayed /\ delayed' = FALSE
  /\ search' = form
  /\ UNCHANGED <<mapVars, form, base, net, shown, late, ops>>

\* The handler of listing-map.js asks a WeakMap for its forEach and ends with that
\* error: keys, timers and requests stay as they are.  htmx clears the 400 ms.
Submit ==
  /\ Acts
  /\ search' = form /\ delayed' = FALSE
  /\ UNCHANGED <<mapVars, form, base, net, shown>>

ForgetKeys(n) == [n EXCEPT !.last = [k \in Kinds |-> Nil]]

\* As if a new query left the last keys alone.
KeysKept(n) == [markViewportDirty(n) EXCEPT !.timer = [k \in Kinds |-> Nil]]

NewQuery(n) == [markViewportDirty(ForgetKeys(n)) EXCEPT !.timer = [k \in Kinds |-> Nil]]

\* refreshSearchConfig: a query that is not new ends here.
SearchAnswer ==
  /\ search # Nil /\ search' = Nil /\ base' = search
  /\ shown' = [shown EXCEPT !.cards = WholeList(search)]
  /\ IF search = base THEN UNCHANGED <<mapVars, net>>
     ELSE /\ at' = IF Centre[search] = Nil THEN at ELSE Centre[search]
          /\ motion' = IF at' # at THEN "moving" ELSE motion
          /\ dirty' = (dirty \/ Zoomed[at'] # Zoomed[at])
          /\ manual' = FALSE
          /\ net' = RequestBoth(NewQuery(net), at', search)
          /\ UNCHANGED soon
  /\ UNCHANGED <<form, delayed, late, ops>>

SearchFails ==
  /\ search # Nil /\ search' = Nil
  /\ UNCHANGED <<mapVars, form, base, delayed, net, shown, late, ops>>

-----------------------------------------------------------------------------
\* mount: the first refresh is scheduled at once.
Init ==
  /\ at = Start /\ motion = "moving" /\ dirty = TRUE /\ manual = FALSE /\ soon = FALSE
  /\ form \in Forms /\ base = form /\ delayed = FALSE /\ search = Nil /\ late = FALSE /\ ops = 0
  /\ shown = [map |-> Nil, cards |-> WholeList(base)]
  /\ net = [timer |-> [map |-> at, cards |-> at],
            last |-> [k \in Kinds |-> Nil], live |-> [k \in Kinds |-> Nil],
            pending |-> [k \in Kinds |-> FALSE], failed |-> [k \in Kinds |-> FALSE]]

UserNext ==
  \/ Drag \/ openComplexModal \/ Submit
  \/ \E view \in Views : Slide(view) \/ Zoom(view) \/ focus(view)
  \/ \E query \in Forms : Edit(query)

MapRequestEnds == (\E query \in Queries : MapAnswer(query)) \/ RequestFails("map")
CardsRequestEnds == CardsAnswer \/ RequestFails("cards")

Next ==
  \/ UserNext \/ MapRequestEnds \/ CardsRequestEnds
  \/ Idle \/ FocusTimeout \/ MapTimerFires \/ CardsTimerFires
  \/ SearchDue \/ SearchAnswer \/ SearchFails

\* The browser runs timers; a fetch ends; a map that was moved comes to rest.
Spec ==
  /\ Init /\ [][Next]_vars
  /\ WF_vars(Idle) /\ WF_vars(FocusTimeout)
  /\ WF_vars(MapTimerFires) /\ WF_vars(CardsTimerFires)
  /\ WF_vars(MapRequestEnds) /\ WF_vars(CardsRequestEnds)
  /\ WF_vars(SearchDue) /\ WF_vars(SearchAnswer \/ SearchFails)

-----------------------------------------------------------------------------
(* What must hold.                                                          *)

\* Nothing is under way, and the signs that say so are out.
Settled ==
  /\ motion = "still" /\ ~soon /\ ~delayed /\ search = Nil
  /\ \A k \in Kinds : net.timer[k] = Nil /\ net.live[k] = Nil /\ ~net.pending[k]

\* The form holds the query of the page, as it did when the answer was asked for.
Trusted(kind) == form = base /\ ~net.failed[kind] /\ shown[kind].clean

\* The page at rest shows the map of where it is and of what was searched, as far as
\* the cache can tell queries apart: no order of moves, timers, searches and answers
\* leaves older map data, as long as no timer outlives the rest it was set at; see
\* MapShowsNewestViewport.
SettledMapShowsViewport ==
  Settled /\ Trusted("map") /\ ~late =>
    /\ shown.map.view = at
    /\ CacheKey(shown.map.query) = CacheKey(base)

\* The list beside it is the viewport's, or the whole list of the search, when the map
\* is close enough and was not moved by a click.  A whole list that should have been
\* replaced is excepted, see ListIsOfTheViewport.
SettledListShowsViewport ==
  Settled /\ Trusted("cards") /\ ~manual /\ ~late /\ at \in Close =>
    /\ shown.cards.view \in {at, Everywhere}
    /\ shown.cards.query = base

\* When the user stops, the page comes to rest and the loading signs go out.
PageSettles == <>[]Settled

-----------------------------------------------------------------------------
(* What documents and code say and the page does not do.                    *)

\* "A new operation cancels the previous timer": only the newest viewport's data is
\* shown.
MapShowsNewestViewport == Settled /\ Trusted("map") => shown.map.view = at

\* "The listings of the current map area", says the heading of the list.
ListIsOfTheViewport ==
  Settled /\ Trusted("cards") /\ ~manual /\ at \in Close => shown.cards.view # Everywhere

\* A submit forgets the last keys and asks for the viewport again, as the handler of it
\* is written to do.
SubmitAsksAgain == [][Submit => /\ net'.live.map # Nil /\ net'.live.map.view = at
                                /\ \A k \in Kinds : net'.last[k] = Nil]_vars

\* The map shows what was searched.
MapIsOfTheQuery == Settled /\ Trusted("map") => shown.map.query = base

=============================================================================
