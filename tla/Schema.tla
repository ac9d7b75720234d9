------------------------------- MODULE Schema -------------------------------
(***************************************************************************)
(* Which schemas the generator refuses (schema_conflicts.go), against what *)
(* the templates emit for the ones it accepts.                             *)
(*                                                                         *)
(* An author edits an ent schema and its api annotations; after any edit   *)
(* checkGraphConflicts may be run on it.  A graph maps the names of its    *)
(* entities to nodes.  A Go name is the sequence of its words, so a name   *)
(* the templates derive is a concatenation, and two derived names are the  *)
(* same identifier exactly when they are the same sequence.  The types of  *)
(* fields are abstracted to what ent derives from them.                    *)
(***************************************************************************)
EXTENDS Naturals, Sequences, FiniteSets

CONSTANTS
    Seeds,      \* the graphs the author starts from
    Pool,       \* entity names the author may declare
    Blank,      \* the node of an entity declared anew
    MaxEdits    \* bound on edits

Op    == {"create", "patch", "delete", "get", "list"}
Query == {"Filterable", "Searchable", "Sortable"}
Word  == Query \cup {"Hidden", "ReadOnly"}
None  == <<>>

\* What ent knows of a field, the words it carries, and stray: an annotation of
\* the wrong kind is attached to it.  reserved: its storage key begins with "_".
Field == [type: {"string", "int", "enum", "bytes", "json"}, optional: BOOLEAN,
          default: BOOLEAN, immutable: BOOLEAN, sensitive: BOOLEAN, reserved: BOOLEAN,
          words: SUBSET Word, stray: BOOLEAN]

\* The EntAPIEdge annotation of an edge; key is <<>> when it names none.
Bare == [bare |-> TRUE, expand |-> FALSE, key |-> <<>>]

ASSUME ConstantsAssumption == MaxEdits \in Nat /\ Seeds # {}

\* A graph ent loads: edges, their fields and their other ends and the operations
\* excluded belong to what is declared.  tombstone is what the soft-delete marker
\* names, an annotation ent never reads: it may be a field of no one's.
Node(g, n) ==
    /\ n = [resource |-> n.resource, except |-> n.except, tombstone |-> n.tombstone,
            id |-> n.id, fields |-> n.fields, edges |-> n.edges]
    /\ n.except \subseteq IF n.resource THEN Op ELSE {}
    /\ n.fields \in [DOMAIN n.fields -> Field]
    /\ n.edges = [x \in DOMAIN n.edges |-> n.edges[x]]
    /\ \A x \in DOMAIN n.edges :
         /\ n.edges[x] = [target |-> n.edges[x].target, required |-> n.edges[x].required,
                          field |-> n.edges[x].field, ref |-> n.edges[x].ref,
                          stray |-> n.edges[x].stray, note |-> n.edges[x].note]
         /\ n.edges[x].target \in DOMAIN g
         /\ n.edges[x].field \in {None} \cup DOMAIN n.fields
         /\ n.edges[x].ref \in {None} \cup DOMAIN n.edges

Loads(g) == g = [e \in DOMAIN g |-> g[e]] /\ \A e \in DOMAIN g : Node(g, g[e])

ASSUME SeedsAssumption ==
    /\ \A g \in Seeds : Loads(g)
    /\ Blank.edges = <<>> /\ Node(<<>>, Blank)

VARIABLES
    graph,    \* [entity name -> node]
    edits     \* edits made so far

vars == <<graph, edits>>

(***************************************************************************)
(* The annotations (api/annotations.go).  ent folds the annotations of a   *)
(* mixin and of the schema into one with Merge.                            *)
(***************************************************************************)
\* ResourceAnnotation.Merge, and Except: the union of excluded operations.
MergeExcept(a, b) == a \cup b

\* FieldAnnotation.Merge.
MergeWords(a, b) == a \cup b

\* EdgeAnnotation.Merge: a later key wins only when there is one.
MergeNotes(a, b) ==
    [bare |-> FALSE, expand |-> a.expand \/ b.expand,
     key |-> IF b.key # None THEN b.key ELSE a.key]

-----------------------------------------------------------------------------
(***************************************************************************)
(* What ent derives from a field, as this code asks it.                    *)
(***************************************************************************)
\* Field.Ops: the predicates ent generates, by family.
Ops(f) ==
    CASE f.type = "string" -> {"eq", "order", "contains"}
      [] f.type = "enum"   -> {"eq"}
      [] f.type = "json"   -> IF f.optional THEN {"null"} ELSE {}
      [] OTHER             -> {"eq", "order"}

\* fieldParseConversion: whether a query value of the type can be parsed.
Parses(f) == f.type \notin {"bytes", "json"}

\* TypeInfo.Comparable: whether ent generates an order option.
Comparable(f) == f.type \notin {"bytes", "json"}

(***************************************************************************)
(* The readers of the annotations (funcs_scope.go, funcs_fields.go).       *)
(***************************************************************************)
Withheld(f) == f.words \cap {"Hidden", "ReadOnly"} # {}
Excepts(n, op) == n.resource /\ op \in n.except

BlockedCreateFields(n) ==
    {f \in DOMAIN n.fields : /\ ~n.fields[f].optional /\ ~n.fields[f].default
                             /\ Withheld(n.fields[f])}

HasCreateFamily(n) == BlockedCreateFields(n) = {} \/ ~Excepts(n, "create")

CreateFields(n) == {f \in DOMAIN n.fields : ~Withheld(n.fields[f])}

PatchFields(n) ==
    {f \in DOMAIN n.fields : ~n.fields[f].immutable /\ ~Withheld(n.fields[f])}

ResponseFieldsKeepSecrets(n) ==
    {f \in DOMAIN n.fields : "Hidden" \notin n.fields[f].words}

ResponseFields(n) ==
    {f \in DOMAIN n.fields : ~n.fields[f].sensitive /\ "Hidden" \notin n.fields[f].words}

ResponseEdges(n) == {x \in DOMAIN n.edges : n.edges[x].note.expand}

EdgeKey(n, x) == IF n.edges[x].note.key # None THEN n.edges[x].note.key ELSE x

\* queryFields and the markers it selects on.
Marked(n, w) == {f \in DOMAIN n.fields : w \in n.fields[f].words}

\* resourceOps: the operations that are routed and handled.
ResourceOps(n) ==
    IF ~n.resource THEN {}
    ELSE {op \in Op \ n.except : op = "create" => HasCreateFamily(n)}

-----------------------------------------------------------------------------
(***************************************************************************)
(* The refusals.  Each is <<entity, member, rule>>.                        *)
(***************************************************************************)
Dimensions(f) == f.words \cap Query

\* fieldWordConflicts.
FieldWordConflicts(n, f) ==
    {r \in {"hidden_and_more", "secret_queried", "secret_returned", "not_listed",
             "reserved_key"} :
       \/ r = "hidden_and_more" /\ "Hidden" \in f.words /\ f.words # {"Hidden"}
       \/ r = "secret_queried" /\ f.sensitive /\ Dimensions(f) # {}
       \/ r = "secret_returned" /\ f.sensitive /\ "ReadOnly" \in f.words
       \/ r = "not_listed" /\ Dimensions(f) # {} /\ Excepts(n, "list")
       \/ r = "reserved_key" /\ Dimensions(f) # {} /\ f.reserved}

QueryConflictsTrustSort(f) ==
    {r \in {"no_Contains", "no_predicates", "not_parsed"} :
       \/ r = "no_Contains" /\ "Searchable" \in f.words /\ "contains" \notin Ops(f)
       \/ r = "no_predicates" /\ "Filterable" \in f.words /\ Ops(f) = {}
       \/ r = "not_parsed" /\ "Filterable" \in f.words /\ Ops(f) # {} /\ ~Parses(f)}

\* queryConflicts: a word that asks for a call to something ent never wrote.
QueryConflicts(f) ==
    {r \in {"no_Contains", "no_predicates", "not_parsed", "not_ordered"} :
       \/ r = "no_Contains" /\ "Searchable" \in f.words /\ "contains" \notin Ops(f)
       \/ r = "no_predicates" /\ "Filterable" \in f.words /\ Ops(f) = {}
       \/ r = "not_parsed" /\ "Filterable" \in f.words /\ Ops(f) # {} /\ ~Parses(f)
       \/ r = "not_ordered" /\ "Sortable" \in f.words /\ ~Comparable(f)}

RequiredEdgesOfAnyResource(n) ==
    {x \in DOMAIN n.edges : n.edges[x].required /\ n.edges[x].field = None}

\* requiredEdgeWithoutFieldConflicts.
RequiredEdgesWithoutField(n) ==
    {x \in DOMAIN n.edges : /\ n.edges[x].required /\ n.edges[x].field = None
                            /\ ~Excepts(n, "create")}

BlockedUnlessPatched(n) == IF Excepts(n, "patch") THEN {} ELSE BlockedCreateFields(n)

\* The blocked fields that are refused, not merely left out of the surface.
RefusedCreateFields(n) == IF Excepts(n, "create") THEN {} ELSE BlockedCreateFields(n)

\* asymmetricSelfEdgeConflicts, reported at the inverse end.
AsymmetricSelfEdges(e, n) ==
    {x \in DOMAIN n.edges :
       /\ n.edges[x].ref # None /\ n.edges[x].target = e
       /\ n.edges[x].note.bare # n.edges[n.edges[x].ref].note.bare}

\* Expand on an edge whose target has no Summary.
UnsummarisedEdges(g, n) ==
    {x \in ResponseEdges(n) : ~g[n.edges[x].target].resource}

Has(f) == <<"Has">> \o f

\* patchMethodCollisions.
PatchMethodCollisions(n) ==
    {f \in PatchFields(n) : f = <<"Apply">> \/ \E o \in PatchFields(n) : f = Has(o)}

Refuse(e, S, rule) == {<<e, x, rule>> : x \in S}

\* What nodeConflicts reports of the fields, the edges and the entity itself.
FieldConflicts(e, n) ==
    (UNION {{<<e, f, r>> : r \in FieldWordConflicts(n, n.fields[f]) \cup QueryConflicts(n.fields[f])} :
              f \in DOMAIN n.fields})
    \cup Refuse(e, {f \in DOMAIN n.fields : n.fields[f].stray}, "misplaced_Expand")
    \cup Refuse(e, RefusedCreateFields(n), "blocked_create")
    \cup Refuse(e, PatchMethodCollisions(n), "method")

EdgeConflicts(g, e, n) ==
    Refuse(e, {x \in DOMAIN n.edges : n.edges[x].stray}, "misplaced_word")
    \cup Refuse(e, UnsummarisedEdges(g, n), "no_Summary")
    \cup Refuse(e, RequiredEdgesWithoutField(n), "required_edge")
    \cup Refuse(e, AsymmetricSelfEdges(e, n), "asymmetric_pair")

EntityConflicts(e, n) ==
    {<<e, None, r>> : r \in {q \in {"empty_patch", "word_on_the_id", "id_not_parsed"} :
       \/ q = "empty_patch" /\ PatchFields(n) = {} /\ ~Excepts(n, "patch")
       \/ q = "word_on_the_id" /\ (n.id.words # {} \/ n.id.stray)
       \/ q = "id_not_parsed" /\ ~Parses(n.id)}}

\* nodeConflicts.
NodeConflicts(g, e) ==
    FieldConflicts(e, g[e]) \cup EdgeConflicts(g, e, g[e]) \cup EntityConflicts(e, g[e])

\* unusableSoftDeleteField, of any entity, resource or not.
UnusableTombstones(g) ==
    {<<e, g[e].tombstone, "tombstone">> :
       e \in {d \in DOMAIN g : /\ g[d].tombstone # None
                               /\ g[d].tombstone \in DOMAIN g[d].fields
                                    => ~g[d].fields[g[d].tombstone].optional}}

Resources(g) == {e \in DOMAIN g : g[e].resource}

\* The names declared once per graph.
GraphSymbols == {<<"Error", "Map">>, <<"API">>, <<"API", "Handler">>, <<"API", "Option">>}

\* ent's plural of a regular noun.
Plural(e) == Append(e, "s")

DerivedNamesLessTags(e) ==
    {e \o s : s \in {<<"Create", "Request">>, <<"Patch", "Request">>, <<"Summary">>,
                     <<"Response">>, <<"Query", "With", "Response", "Edges">>,
                     <<"List", "Response">>, <<"Filter">>, <<"Sort", "Keys">>, <<"Order">>}}
    \cup {p \o e : p \in {<<"Get">>, <<"Create">>, <<"Patch">>, <<"Delete">>}}

\* derivedEntityDecls: every exported name the templates can declare for a
\* resource, whatever its deviations.
DerivedNames(e) ==
    {e \o s : s \in {<<"Create", "Request">>, <<"Create", "Request", "Tags">>,
                     <<"Patch", "Request">>, <<"Patch", "Request", "Tags">>, <<"Summary">>,
                     <<"Response">>, <<"Query", "With", "Response", "Edges">>,
                     <<"List", "Response">>, <<"Filter">>, <<"Sort", "Keys">>, <<"Order">>}}
    \cup {<<"Valid">> \o e \o s : s \in {<<"Create", "Request">>, <<"Patch", "Request">>}}
    \cup {<<"New">> \o e \o s : s \in {<<"Summary">>, <<"Response">>, <<"List", "Response">>}}
    \cup {<<"Parse">> \o e \o <<"Query">>}
    \cup {p \o e : p \in {<<"Get">>, <<"Create">>, <<"Patch">>, <<"Delete">>}}
    \cup {p \o e \o <<"Fn">> : p \in {<<"Get">>, <<"Create">>, <<"Patch">>, <<"Delete">>}}
    \cup {<<"List">> \o Plural(e), <<"Delete", "Batch">> \o Plural(e),
          <<"List">> \o Plural(e) \o <<"Fn">>}

NameConflictsOfRoutes(g) ==
    UNION {{<<b, a, "derived_name">> :
              b \in (DOMAIN g \cap DerivedNames(a))
                   \ (IF "create" \in g[a].except THEN {a \o <<"Create", "Request">>} ELSE {})} :
             a \in Resources(g)}

\* reservedNameConflicts: of every entity, resource or not.
NameConflicts(g) ==
    {<<e, None, "graph_symbol">> : e \in IF Resources(g) = {} THEN {} ELSE DOMAIN g \cap GraphSymbols}
    \cup (UNION {{<<b, a, "derived_name">> : b \in DOMAIN g \cap DerivedNames(a)} :
                   a \in Resources(g)})

\* checkGraphConflicts.
Conflicts(g) ==
    UnusableTombstones(g) \cup (UNION {NodeConflicts(g, e) : e \in Resources(g)})
       \cup NameConflicts(g)

Accepted(g) == Conflicts(g) = {}

-----------------------------------------------------------------------------
(***************************************************************************)
(* What the templates write for an accepted graph.                         *)
(***************************************************************************)
\* dto.tmpl
RequestNames(e, n) ==
    {e \o <<"Patch", "Request">>, <<"Valid">> \o e \o <<"Patch", "Request">>,
     e \o <<"Patch", "Request", "Tags">>}
    \cup IF HasCreateFamily(n)
         THEN {e \o <<"Create", "Request">>, <<"Valid">> \o e \o <<"Create", "Request">>,
               e \o <<"Create", "Request", "Tags">>}
         ELSE {}

ResponseNames(e) ==
    {e \o <<"Summary">>, <<"New">> \o e \o <<"Summary">>,
     e \o <<"Response">>, <<"New">> \o e \o <<"Response">>,
     e \o <<"List", "Response">>, <<"New">> \o e \o <<"List", "Response">>,
     e \o <<"Query", "With", "Response", "Edges">>}

\* filter.tmpl
FilterNames(e) ==
    {e \o <<"Filter">>, <<"Parse">> \o e \o <<"Query">>, e \o <<"Sort", "Keys">>,
     e \o <<"Order">>}

\* wiring.tmpl: of every operation, whatever is excepted.
WiringNames(e, n) ==
    {<<"Get">> \o e, <<"List">> \o Plural(e), <<"Patch">> \o e, <<"Delete">> \o e,
     <<"Delete", "Batch">> \o Plural(e)}
    \cup IF HasCreateFamily(n) THEN {<<"Create">> \o e} ELSE {}

\* handler.tmpl: the function type of each routed operation.
HandlerNames(e, n) ==
    {CASE op = "list"   -> <<"List">> \o Plural(e) \o <<"Fn">>
       [] op = "create" -> <<"Create">> \o e \o <<"Fn">>
       [] op = "get"    -> <<"Get">> \o e \o <<"Fn">>
       [] op = "patch"  -> <<"Patch">> \o e \o <<"Fn">>
       [] op = "delete" -> <<"Delete">> \o e \o <<"Fn">> : op \in ResourceOps(n)}

Emitted(g, e) ==
    RequestNames(e, g[e]) \cup ResponseNames(e) \cup FilterNames(e)
       \cup WiringNames(e, g[e]) \cup HandlerNames(e, g[e])

\* The schemas openapi.tmpl defines, and those it refers to.
DocumentSchemas(g) ==
    {<<"Problem">>} \cup
    (UNION {{e \o <<"Summary">>, e \o <<"Response">>, e \o <<"List", "Response">>,
            e \o <<"Patch", "Request">>}
           \cup (IF HasCreateFamily(g[e]) THEN {e \o <<"Create", "Request">>} ELSE {})
             : e \in Resources(g)})

DocumentRefs(g) ==
    UNION {{g[e].edges[x].target \o <<"Summary">> : x \in ResponseEdges(g[e])}
           \cup {e \o <<"Response">>, <<"Problem">>}
           \cup (IF "list" \in ResourceOps(g[e]) THEN {e \o <<"List", "Response">>} ELSE {})
           \cup (IF "create" \in ResourceOps(g[e]) THEN {e \o <<"Create", "Request">>} ELSE {})
           \cup (IF "patch" \in ResourceOps(g[e]) THEN {e \o <<"Patch", "Request">>} ELSE {})
             : e \in Resources(g)}

\* Every method and struct field of one request, with repetition: the struct of
\* the fields has a presence method of each (dto.tmpl).
RequestMembers(S) ==
    [fields |-> S, presence |-> {Has(f) : f \in S},
     methods |-> {<<"Validate">>, <<"Unmarshal", "JSON">>}]

\* The validated patch: a presence method and a reader of each field.
ReaderMembers(S) ==
    [fields |-> S, presence |-> {Has(f) : f \in S}, methods |-> {<<"Apply">>}]

\* The JSON keys of a response, beside those of its fields.
EdgeKeys(n) == {EdgeKey(n, x) : x \in ResponseEdges(n)}

\* No method of its own begins with Has, so only a field can repeat a name.
Clashing(r) == r.fields \cap (r.presence \cup r.methods)

-----------------------------------------------------------------------------
(***************************************************************************)
(* The author.                                                             *)
(***************************************************************************)
Edit(g) ==
    /\ edits < MaxEdits
    /\ g # graph
    /\ graph' = g
    /\ edits' = edits + 1

Declare(e) == e \notin DOMAIN graph /\ Edit([d \in DOMAIN graph \cup {e} |->
                                                IF d = e THEN Blank ELSE graph[d]])

Remove(e) ==
    /\ \A d \in DOMAIN graph \ {e} : \A x \in DOMAIN graph[d].edges : graph[d].edges[x].target # e
    /\ Edit([d \in DOMAIN graph \ {e} |-> graph[d]])

\* api.Resource() added, or taken away.
Expose(e) == ~graph[e].resource /\ Edit([graph EXCEPT ![e].resource = TRUE])
Conceal(e) == Edit([graph EXCEPT ![e].resource = FALSE, ![e].except = {}])

Exclude(e, op) ==
    /\ graph[e].resource
    /\ Edit([graph EXCEPT ![e].except = MergeExcept(@, {op})])

Include(e, op) == Edit([graph EXCEPT ![e].except = @ \ {op}])

Say(e, f, w)   == Edit([graph EXCEPT ![e].fields[f].words = MergeWords(@, {w})])
Unsay(e, f, w) == Edit([graph EXCEPT ![e].fields[f].words = @ \ {w}])
SayOnId(e, w)  == Edit([graph EXCEPT ![e].id.words = MergeWords(@, {w})])

Annotate(e, x, expand) ==
    Edit([graph EXCEPT ![e].edges[x].note =
             MergeNotes(@, [bare |-> FALSE, expand |-> expand, key |-> None])])
Strip(e, x) == Edit([graph EXCEPT ![e].edges[x].note = Bare])

\* An annotation of the wrong kind: Expand on a field, a word on an edge.
MisplaceExpand(e, f) == Edit([graph EXCEPT ![e].fields[f].stray = TRUE])
MisplaceWord(e, x)   == Edit([graph EXCEPT ![e].edges[x].stray = TRUE])

\* The soft-delete marker attached by hand, by an author who says the field an
\* entity of the graph has: this one, or another.
Mark(e, f) == Edit([graph EXCEPT ![e].tombstone = f])

\* ent holds an edge and its field to the same optionality.
Reshape(e, f, part) ==
    /\ \A x \in DOMAIN graph[e].edges : graph[e].edges[x].field # f
    /\ CASE part = "optional"  -> Edit([graph EXCEPT ![e].fields[f].optional = ~@])
         [] part = "default"   -> Edit([graph EXCEPT ![e].fields[f].default = ~@])
         [] part = "immutable" -> Edit([graph EXCEPT ![e].fields[f].immutable = ~@])
         [] part = "sensitive" -> Edit([graph EXCEPT ![e].fields[f].sensitive = ~@])

Init == graph \in Seeds /\ edits = 0

Next ==
    \/ \E e \in Pool : Declare(e)
    \/ \E e \in DOMAIN graph :
         \/ Remove(e)
         \/ Expose(e)
         \/ Conceal(e)
         \/ \E op \in Op : Exclude(e, op) \/ Include(e, op)
         \/ \E w \in Word : SayOnId(e, w)
         \/ \E d \in DOMAIN graph : \E f \in DOMAIN graph[d].fields : Mark(e, f)
         \/ \E f \in DOMAIN graph[e].fields :
              \/ \E w \in Word : Say(e, f, w) \/ Unsay(e, f, w)
              \/ MisplaceExpand(e, f)
              \/ \E p \in {"optional", "default", "immutable", "sensitive"} : Reshape(e, f, p)
         \/ \E x \in DOMAIN graph[e].edges :
              \/ \E b \in BOOLEAN : Annotate(e, x, b)
              \/ Strip(e, x)
              \/ MisplaceWord(e, x)

Spec == Init /\ [][Next]_vars

-----------------------------------------------------------------------------
(***************************************************************************)
(* Properties.                                                             *)
(***************************************************************************)
\* The graph stays one ent loads.
TypeOK == edits \in 0..MaxEdits /\ Loads(graph)

\* An entity never shares its name with anything the accepted schema's generated
\* package declares, and no member of a validated patch is declared twice: the
\* list of reserved names in schema_conflicts.go has kept up with five templates.
CollisionsAreRefused ==
    Accepted(graph) =>
      \A e \in Resources(graph) :
        /\ DOMAIN graph \cap (Emitted(graph, e) \cup GraphSymbols) = {}
        /\ Clashing(ReaderMembers(PatchFields(graph[e]))) = {}

\* Which names are refused depends on the entities and on which are resources,
\* and on nothing else: no deviation added or removed (an excluded operation, a
\* word on a field) brings a refusal of a name up or takes one away.
NameRefusalsStable ==
    [][DOMAIN graph' = DOMAIN graph /\ Resources(graph') = Resources(graph)
         => NameConflicts(graph') = NameConflicts(graph)]_vars

\* A route that is generated can succeed: a routed create can set every field ent
\* insists on, the one of each required edge among them, and a routed patch has
\* something to change.
RoutesCanSucceed ==
    Accepted(graph) =>
      \A e \in Resources(graph) : LET n == graph[e] IN
        /\ "create" \in ResourceOps(n) =>
             /\ \A f \in DOMAIN n.fields :
                   ~n.fields[f].optional /\ ~n.fields[f].default => f \in CreateFields(n)
             /\ \A x \in DOMAIN n.edges : n.edges[x].required => n.edges[x].field # None
        /\ "patch" \in ResourceOps(n) => PatchFields(n) # {}

\* What ent or the author keeps from callers stays kept: an accepted schema
\* neither returns such a field, in a response or in another entity's summary,
\* nor lets a query be answered by its value.
SecretsStayIn ==
    Accepted(graph) =>
      \A e \in Resources(graph) : \A f \in DOMAIN graph[e].fields :
        LET d == graph[e].fields[f] IN
        d.sensitive \/ "Hidden" \in d.words =>
          f \notin ResponseFields(graph[e]) \cup (UNION {Marked(graph[e], w) : w \in Query})

\* Generated code and the generated document refer to what exists: ent's
\* predicates and orders for the fields that are queried, its IsNil for a
\* tombstone, a Summary for an expanded edge, a schema for each $ref.
ReferencesResolve ==
    Accepted(graph) =>
      /\ DocumentRefs(graph) \subseteq DocumentSchemas(graph)
      /\ \A e \in Resources(graph) : LET n == graph[e] IN
           /\ \A f \in Marked(n, "Searchable") : "contains" \in Ops(n.fields[f])
           /\ \A f \in Marked(n, "Filterable") : Ops(n.fields[f]) # {} /\ Parses(n.fields[f])
           /\ \A f \in Marked(n, "Sortable") : Comparable(n.fields[f])
      /\ \A e \in DOMAIN graph : graph[e].tombstone # None =>
           /\ graph[e].tombstone \in DOMAIN graph[e].fields
           /\ graph[e].fields[graph[e].tombstone].optional

\* The repair the messages offer is one: excluding an operation other than list
\* brings up no refusal, and takes away those whose message names it.
ExceptIsARepair ==
    [][\A e \in DOMAIN graph : \A op \in Op \ {"list"} :
         Exclude(e, op) =>
           /\ Conflicts(graph') \subseteq Conflicts(graph)
           /\ \A c \in Conflicts(graph') :
                c[1] = e => /\ op = "create" => c[3] \notin {"blocked_create", "required_edge"}
                            /\ op = "patch" => c[3] # "empty_patch"]_vars

\* What schema_conflicts.go says of itself: it rejects a graph this package
\* cannot generate correct code for.  In correct code no two resources declare
\* one name, no request declares a member twice and no response a key.
EachScopeDeclaresOnce ==
    Accepted(graph) =>
      \A e \in Resources(graph) :
        /\ \A d \in Resources(graph) \ {e} : Emitted(graph, d) \cap Emitted(graph, e) = {}
        /\ Clashing(RequestMembers(CreateFields(graph[e]))) = {}
        /\ Clashing(RequestMembers(PatchFields(graph[e]))) = {}
        /\ EdgeKeys(graph[e]) \cap ({<<"ID">>} \cup ResponseFields(graph[e])) = {}

=============================================================================
