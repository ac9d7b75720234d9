------------------------------- MODULE Paging -------------------------------
(***************************************************************************)
(* A caller walks a list page by page.  Each request is parsed             *)
(* (runtime/urlquery.go), ordered (XOrder in templates/filter.tmpl) and    *)
(* answered by ListPage (runtime/query.go) in two statements, a count and  *)
(* a page.  Between any two steps rows may be appended to the table.       *)
(*                                                                         *)
(* A query parameter is the list of its values: <<>> is absent.  A number  *)
(* that strconv.Atoi refuses is one outside GoInt.                         *)
(***************************************************************************)
EXTENDS PageWindow, Sequences, FiniteSets, SequencesExt

CONSTANTS
    MaxRows,     \* the table holds the rows 1..n, n <= MaxRows
    Cell,        \* [1..MaxRows -> [columns -> Int]]: what a row holds
    SortKey,     \* the columns marked Sortable
    Pages, Sizes, Sorts    \* the values a caller sends

ASSUME PagingAssumption ==
    /\ MaxRows \in 1..(MaxInt - 1)
    /\ \A r \in 1..MaxRows : \A key \in SortKey : key \in DOMAIN Cell[r] /\ Cell[r][key] \in Int
    /\ Pages \cup Sizes \subseteq Seq(Int)
    /\ Sorts \subseteq Seq(Seq(STRING \X STRING))

VARIABLES
    table,     \* the ids in the table
    sent,      \* the parameters of the request: page, size, sort
    phase,     \* "idle", "count", "page", "answered", "done"
    total,     \* what the count returned
    answer,    \* the last answer
    seen,      \* the rows of this walk, in the order received
    first      \* the page the walk began at and the table it found

vars == <<table, sent, phase, total, answer, seen, first>>

-----------------------------------------------------------------------------
RefusedPageParam(values) ==
    Len(values) > 1 \/ \E n \in DOMAIN values : values[n] \notin 1..MaxInt

PageParam(values) == IF values = <<>> THEN 0 ELSE values[1]

\* ParseSortSpecs, then the allow-list of XOrder; a term is <<key, direction>>
\* and an empty value sorts by nothing.
RefusedSort(values) ==
    \/ Len(values) > 1
    \/ \E n \in DOMAIN values : \E t \in DOMAIN values[n] :
          \/ values[n][t][1] \notin SortKey \cup {"id"}
          \/ values[n][t][2] \notin {"", "asc", "desc"}

SortSpecs(values) ==
    IF values = <<>> THEN <<>>
    ELSE [t \in DOMAIN values[1] |->
            [key |-> values[1][t][1], desc |-> values[1][t][2] = "desc"]]

ById(desc) == [key |-> "id", desc |-> desc]

OrderAsRequested(specs) == IF specs = <<>> THEN <<ById(FALSE)>> ELSE specs

\* XOrder: the primary key ends the order unless it is in it, in the direction
\* of the last term.
Order(specs) ==
    IF specs = <<>> THEN <<ById(FALSE)>>
    ELSE IF \E n \in DOMAIN specs : specs[n].key = "id" THEN specs
    ELSE Append(specs, ById(Last(specs).desc))

-----------------------------------------------------------------------------
(***************************************************************************)
(* The database.                                                           *)
(***************************************************************************)
At(r, key) == IF key = "id" THEN r ELSE Cell[r][key]

\* ORDER BY puts r strictly before s.
Before(order, r, s) == \E n \in DOMAIN order :
    /\ \A m \in 1..(n - 1) : At(r, order[m].key) = At(s, order[m].key)
    /\ IF order[n].desc THEN At(r, order[n].key) > At(s, order[n].key)
                        ELSE At(r, order[n].key) < At(s, order[n].key)

\* Rows the order does not tell apart come in any order.
Arrangements(order, rows) ==
    {q \in SetToSeqs(rows) : \A m, n \in DOMAIN q : m < n => ~Before(order, q[n], q[m])}

\* LIMIT and OFFSET; a negative offset is none.
Window(q, offset, limit) ==
    LET from == IF offset < 0 THEN 0 ELSE offset
        to   == IF from + limit < Len(q) THEN from + limit ELSE Len(q)
    IN SubSeq(q, from + 1, to)

-----------------------------------------------------------------------------
(***************************************************************************)
(* The walk.                                                               *)
(***************************************************************************)
Refused(params) == RefusedPageParam(params.page) \/ RefusedPageParam(params.size)
                     \/ RefusedSort(params.sort)

NoAnswer == [status |-> 0, data |-> <<>>, total |-> 0, page |-> 0, size |-> 0]

Refusal == [NoAnswer EXCEPT !.status = 400]

\* One request: refused before the database is asked, or on to the count.
Request(params) ==
    /\ sent' = params
    /\ IF Refused(params) THEN phase' = "done" /\ answer' = Refusal
                          ELSE phase' = "count" /\ UNCHANGED answer
    /\ UNCHANGED <<table, total>>

Begin(params) ==
    /\ phase = "idle" /\ Request(params)
    /\ seen' = <<>> /\ first' = [page |-> PageParam(params.page), table |-> table]

Count ==
    /\ phase = "count" /\ phase' = "page"
    /\ total' = Cardinality(table)
    /\ UNCHANGED <<table, sent, answer, seen, first>>

PageEchoesSize(request, q) ==
    LET page == PageParam(request.page)
        size == PageParam(request.size)
    IN [status |-> 200, total |-> total, data |-> Window(q, Offset(page, size), Limit(size)),
        page |-> IF page <= 0 THEN 1 ELSE page, size |-> size]

\* What ListPage makes of the rows in the order q.
Page(request, q) ==
    LET page == PageParam(request.page)
        size == PageParam(request.size)
    IN [status |-> 200, total |-> total, data |-> Window(q, Offset(page, size), Limit(size)),
        page |-> IF page <= 0 THEN 1 ELSE page, size |-> Limit(size)]

Fetch ==
    /\ phase = "page" /\ phase' = "answered"
    /\ \E q \in Arrangements(Order(SortSpecs(sent.sort)), table) : answer' = Page(sent, q)
    /\ seen' = seen \o answer'.data
    /\ UNCHANGED <<table, sent, total, first>>

\* A full page may have a successor; a short one is the last.
Continue ==
    /\ phase = "answered" /\ Len(answer.data) = answer.size
    /\ Request([sent EXCEPT !.page = <<answer.page + 1>>])
    /\ UNCHANGED <<seen, first>>

Stop ==
    /\ phase = "answered" /\ Len(answer.data) # answer.size
    /\ phase' = "done"
    /\ UNCHANGED <<table, sent, total, answer, seen, first>>

\* Another caller's create: ids grow.
Grow ==
    /\ Cardinality(table) < MaxRows
    /\ table' = table \cup {Cardinality(table) + 1}
    /\ UNCHANGED <<sent, phase, total, answer, seen, first>>

Params == [page : Pages, size : Sizes, sort : Sorts]

Init ==
    /\ table \in {1..n : n \in 0..MaxRows}
    /\ sent = [page |-> <<>>, size |-> <<>>, sort |-> <<>>]
    /\ phase = "idle" /\ total = 0 /\ answer = NoAnswer /\ seen = <<>>
    /\ first = [page |-> 0, table |-> {}]

Walk == (\E params \in Params : Begin(params)) \/ Count \/ Fetch \/ Continue \/ Stop

Next == Walk \/ Grow

\* The caller and the server take their steps; nobody has to append rows.
Spec == Init /\ [][Next]_vars /\ WF_vars(Walk)

-----------------------------------------------------------------------------
\* issue 60: a page is the rows of its number and of no other, however large
\* the number: (page - 1) * size rows come before it, counted without overflow,
\* and it is short only where the table ends.  A parameter is honoured, a size
\* beyond the cap at the cap, or refused; never quietly replaced by another.
PageIsItsNumber ==
    [][phase' = "answered" /\ phase = "page" =>
         LET order == Order(SortSpecs(sent.sort))
             skip  == (answer'.page - 1) * answer'.size
             data  == answer'.data
         IN /\ sent.page \in {<<>>, <<answer'.page>>}
            /\ \/ sent.size \in {<<>>, <<answer'.size>>}
               \/ sent.size[1] > MaxPageSize /\ answer'.size = MaxPageSize
            /\ \A n \in DOMAIN data :
                  Cardinality({r \in table : Before(order, r, data[n])}) = skip + n - 1
            /\ Len(data) < answer'.size => Cardinality(table) <= skip + Len(data)]_vars

\* ADR 0002: offset paging with a total order neither repeats a row nor loses
\* one while nobody writes.  In the default order that holds of appended rows
\* too: what was there when the walk began is seen once.
WalkSeesEveryRowOnce ==
    phase # "idle" /\ (table = first.table \/ Order(SortSpecs(sent.sort)) = <<ById(FALSE)>>) =>
        /\ \A m, n \in DOMAIN seen : seen[m] = seen[n] => m = n
        /\ phase = "done" /\ answer.status = 200 /\ first.page <= 1
             => /\ first.table \subseteq {seen[n] : n \in DOMAIN seen}
                /\ table = first.table => Len(seen) = answer.total

\* Page.Size is the size that was used and never zero: a walk whose first request
\* is accepted comes to a short page, and does not step through empty pages up
\* to the last number.
WalkEnds == phase = "count" ~> phase = "done" /\ answer.status = 200
=============================================================================
