---------------------------- MODULE SchemaProofs ----------------------------
(***************************************************************************)
(* Theorems about Schema, for every set of seeds and pool of names.        *)
(***************************************************************************)
EXTENDS Schema, TLAPS

\* The list of reserved names covers what each template writes.
LEMMA RequestsAreDerived ==
    ASSUME NEW e, NEW n
    PROVE  RequestNames(e, n) \cup ResponseNames(e) \subseteq DerivedNames(e)
<1>1. RequestNames(e, n) \subseteq DerivedNames(e)
  BY Zenon DEF RequestNames, DerivedNames
<1>2. ResponseNames(e) \subseteq DerivedNames(e)
  BY Zenon DEF ResponseNames, DerivedNames
<1> QED  BY <1>1, <1>2

LEMMA QueriesAreDerived ==
    ASSUME NEW e, NEW n
    PROVE  FilterNames(e) \cup WiringNames(e, n) \subseteq DerivedNames(e)
<1>1. FilterNames(e) \subseteq DerivedNames(e)
  BY Zenon DEF FilterNames, DerivedNames
<1>2. WiringNames(e, n) \subseteq DerivedNames(e)
  BY Zenon DEF WiringNames, DerivedNames
<1> QED  BY <1>1, <1>2

LEMMA HandlersAreDerived ==
    ASSUME NEW e, NEW n
    PROVE  HandlerNames(e, n) \subseteq DerivedNames(e)
<1>1. ResourceOps(n) \subseteq Op
  BY DEF ResourceOps
<1>2. <<"List">> \o Plural(e) \o <<"Fn">> \in DerivedNames(e)
  BY Zenon DEF DerivedNames
<1>3. \A p \in {<<"Get">>, <<"Create">>, <<"Patch">>, <<"Delete">>} :
        p \o e \o <<"Fn">> \in DerivedNames(e)
  BY Zenon DEF DerivedNames
<1>4. /\ <<"Create">> \o e \o <<"Fn">> \in DerivedNames(e)
      /\ <<"Get">> \o e \o <<"Fn">> \in DerivedNames(e)
      /\ <<"Patch">> \o e \o <<"Fn">> \in DerivedNames(e)
      /\ <<"Delete">> \o e \o <<"Fn">> \in DerivedNames(e)
  BY <1>3, Zenon
<1> DEFINE fn(op) == CASE op = "list"   -> <<"List">> \o Plural(e) \o <<"Fn">>
                       [] op = "create" -> <<"Create">> \o e \o <<"Fn">>
                       [] op = "get"    -> <<"Get">> \o e \o <<"Fn">>
                       [] op = "patch"  -> <<"Patch">> \o e \o <<"Fn">>
                       [] op = "delete" -> <<"Delete">> \o e \o <<"Fn">>
<1>5. ASSUME NEW op \in Op  PROVE fn(op) \in DerivedNames(e)
  <2>1. CASE op = "list"
    BY <1>2, <2>1
  <2>2. CASE op = "create"
    BY <1>4, <2>2
  <2>3. CASE op = "get"
    BY <1>4, <2>3
  <2>4. CASE op = "patch"
    BY <1>4, <2>4
  <2>5. CASE op = "delete"
    BY <1>4, <2>5
  <2> QED  BY <2>1, <2>2, <2>3, <2>4, <2>5 DEF Op
<1>6. HandlerNames(e, n) = {fn(op) : op \in ResourceOps(n)}
  BY DEF HandlerNames
<1> HIDE DEF fn
<1> QED  BY <1>1, <1>5, <1>6

LEMMA EmittedIsDerived ==
    ASSUME NEW g, NEW e
    PROVE  Emitted(g, e) \subseteq DerivedNames(e)
<1>1. /\ RequestNames(e, g[e]) \cup ResponseNames(e) \subseteq DerivedNames(e)
      /\ FilterNames(e) \cup WiringNames(e, g[e]) \subseteq DerivedNames(e)
      /\ HandlerNames(e, g[e]) \subseteq DerivedNames(e)
  BY RequestsAreDerived, QueriesAreDerived, HandlersAreDerived, Zenon
<1> QED  BY <1>1 DEF Emitted

\* Every refusal of a resource is one of the graph.
LEMMA AcceptedNodes ==
    ASSUME NEW g, Accepted(g), NEW e \in Resources(g)
    PROVE  NodeConflicts(g, e) = {}
BY DEF Accepted, Conflicts

LEMMA AcceptedNames ==
    ASSUME NEW g, Accepted(g), NEW e \in Resources(g)
    PROVE  DOMAIN g \cap (DerivedNames(e) \cup GraphSymbols) = {}
<1>1. NameConflicts(g) = {}
  BY DEF Accepted, Conflicts
<1>2. Resources(g) # {}
  OBVIOUS
<1>3. ASSUME NEW d \in DOMAIN g, d \in GraphSymbols  PROVE FALSE
  <2>1. <<d, None, "graph_symbol">> \in NameConflicts(g)
    BY <1>2, <1>3, Zenon DEF NameConflicts
  <2> QED  BY <1>1, <2>1
<1>4. ASSUME NEW d \in DOMAIN g, d \in DerivedNames(e)  PROVE FALSE
  <2> DEFINE named(a) == {<<b, a, "derived_name">> : b \in DOMAIN g \cap DerivedNames(a)}
  <2>1. <<d, e, "derived_name">> \in named(e)
    BY <1>4
  <2>2. NameConflicts(g) = {<<x, None, "graph_symbol">> :
                              x \in IF Resources(g) = {} THEN {} ELSE DOMAIN g \cap GraphSymbols}
                           \cup UNION {named(a) : a \in Resources(g)}
    BY Zenon DEF NameConflicts
  <2> HIDE DEF named
  <2> QED  BY <1>1, <2>1, <2>2
<1> QED  BY <1>3, <1>4

\* The refusals of a node, as the sets they report.
LEMMA AcceptedFields ==
    ASSUME NEW e, NEW n, FieldConflicts(e, n) = {}
    PROVE  /\ RefusedCreateFields(n) = {}
           /\ PatchMethodCollisions(n) = {}
           /\ \A f \in DOMAIN n.fields :
                FieldWordConflicts(n, n.fields[f]) \cup QueryConflicts(n.fields[f]) = {}
<1>1. \A f \in RefusedCreateFields(n) : <<e, f, "blocked_create">> \in FieldConflicts(e, n)
  BY Zenon DEF FieldConflicts, Refuse
<1>2. \A f \in PatchMethodCollisions(n) : <<e, f, "method">> \in FieldConflicts(e, n)
  BY Zenon DEF FieldConflicts, Refuse
<1>3. \A f \in DOMAIN n.fields :
        \A r \in FieldWordConflicts(n, n.fields[f]) \cup QueryConflicts(n.fields[f]) :
          <<e, f, r>> \in FieldConflicts(e, n)
  <2> DEFINE told(f) == {<<e, f, r>> : r \in FieldWordConflicts(n, n.fields[f])
                                                \cup QueryConflicts(n.fields[f])}
  <2>1. (UNION {told(f) : f \in DOMAIN n.fields}) \subseteq FieldConflicts(e, n)
    BY Zenon DEF FieldConflicts
  <2>2. \A f \in DOMAIN n.fields : told(f) \subseteq UNION {told(o) : o \in DOMAIN n.fields}
    BY Zenon
  <2>3. \A f \in DOMAIN n.fields :
          \A r \in FieldWordConflicts(n, n.fields[f]) \cup QueryConflicts(n.fields[f]) :
            <<e, f, r>> \in told(f)
    BY Zenon
  <2> HIDE DEF told
  <2> QED  BY <2>1, <2>2, <2>3, Zenon
<1> QED  BY <1>1, <1>2, <1>3, Zenon

LEMMA AcceptedEdges ==
    ASSUME NEW g, NEW e, NEW n, EdgeConflicts(g, e, n) = {}
    PROVE  RequiredEdgesWithoutField(n) = {} /\ UnsummarisedEdges(g, n) = {}
<1>1. \A x \in RequiredEdgesWithoutField(n) : <<e, x, "required_edge">> \in EdgeConflicts(g, e, n)
  BY Zenon DEF EdgeConflicts, Refuse
<1>2. \A x \in UnsummarisedEdges(g, n) : <<e, x, "no_Summary">> \in EdgeConflicts(g, e, n)
  BY Zenon DEF EdgeConflicts, Refuse
<1> QED  BY <1>1, <1>2, Zenon

LEMMA AcceptedPatch ==
    ASSUME NEW e, NEW n, EntityConflicts(e, n) = {}
    PROVE  PatchFields(n) = {} => Excepts(n, "patch")
BY DEF EntityConflicts

LEMMA AcceptedResource ==
    ASSUME NEW g, Accepted(g), NEW e \in Resources(g)
    PROVE  /\ FieldConflicts(e, g[e]) = {}
           /\ EdgeConflicts(g, e, g[e]) = {}
           /\ EntityConflicts(e, g[e]) = {}
BY AcceptedNodes DEF NodeConflicts

-----------------------------------------------------------------------------
\* The generated package never declares an entity's own name, nor a member of a
\* validated patch twice, whatever the schema.
THEOREM CollisionsRefused == Spec => []CollisionsAreRefused
<1>1. CollisionsAreRefused
  <2> SUFFICES ASSUME Accepted(graph), NEW e \in Resources(graph)
               PROVE  /\ DOMAIN graph \cap (Emitted(graph, e) \cup GraphSymbols) = {}
                      /\ Clashing(ReaderMembers(PatchFields(graph[e]))) = {}
    BY DEF CollisionsAreRefused
  <2>1. DOMAIN graph \cap (DerivedNames(e) \cup GraphSymbols) = {}
    BY AcceptedNames
  <2>2. Emitted(graph, e) \subseteq DerivedNames(e)
    BY EmittedIsDerived
  <2> DEFINE P == PatchFields(graph[e])
  <2>3. FieldConflicts(e, graph[e]) = {}
    BY AcceptedResource
  <2>4. PatchMethodCollisions(graph[e]) = {}
    BY <2>3, AcceptedFields, Zenon
  <2>5. \A f \in P : f # <<"Apply">> /\ \A o \in P : f # Has(o)
    BY <2>4 DEF PatchMethodCollisions
  <2>6. Clashing(ReaderMembers(P)) = {}
    BY <2>5 DEF Clashing, ReaderMembers
  <2> QED  BY <2>1, <2>2, <2>6
<1> QED  BY <1>1, PTL

\* Whatever the deviations, the names refused are the same.
THEOREM NamesStable == Spec => NameRefusalsStable
<1>1. ASSUME DOMAIN graph' = DOMAIN graph, Resources(graph') = Resources(graph)
      PROVE  NameConflicts(graph') = NameConflicts(graph)
  BY <1>1 DEF NameConflicts
<1> QED  BY <1>1, PTL DEF NameRefusalsStable

\* A routed create can give ent everything it asks, a routed patch can change
\* something.
THEOREM RoutesSucceed == Spec => []RoutesCanSucceed
<1>1. RoutesCanSucceed
  <2> SUFFICES ASSUME Accepted(graph), NEW e \in Resources(graph)
               PROVE  LET n == graph[e] IN
                 /\ "create" \in ResourceOps(n) =>
                      /\ \A f \in DOMAIN n.fields :
                            ~n.fields[f].optional /\ ~n.fields[f].default => f \in CreateFields(n)
                      /\ \A x \in DOMAIN n.edges : n.edges[x].required => n.edges[x].field # None
                 /\ "patch" \in ResourceOps(n) => PatchFields(n) # {}
    BY DEF RoutesCanSucceed
  <2> DEFINE n == graph[e]
  <2>1. /\ FieldConflicts(e, n) = {}
        /\ EdgeConflicts(graph, e, n) = {}
        /\ EntityConflicts(e, n) = {}
    BY AcceptedResource, Zenon
  <2>2. RefusedCreateFields(n) = {}
    BY <2>1, AcceptedFields, Zenon
  <2>3. RequiredEdgesWithoutField(n) = {}
    BY <2>1, AcceptedEdges, Zenon
  <2>4. PatchFields(n) = {} => Excepts(n, "patch")
    BY <2>1, AcceptedPatch, Zenon
  <2>5. \A op \in ResourceOps(n) : ~Excepts(n, op)
    BY DEF ResourceOps, Excepts
  <2>6. ASSUME "create" \in ResourceOps(n)
        PROVE  BlockedCreateFields(n) = {}
    BY <2>2, <2>5, <2>6 DEF RefusedCreateFields
  <2>7. ASSUME "create" \in ResourceOps(n), NEW f \in DOMAIN n.fields,
               ~n.fields[f].optional, ~n.fields[f].default
        PROVE  f \in CreateFields(n)
    BY <2>6, <2>7 DEF BlockedCreateFields, CreateFields
  <2>8. ASSUME "create" \in ResourceOps(n), NEW x \in DOMAIN n.edges, n.edges[x].required
        PROVE  n.edges[x].field # None
    BY <2>3, <2>5, <2>8 DEF RequiredEdgesWithoutField
  <2>9. "patch" \in ResourceOps(n) => PatchFields(n) # {}
    BY <2>4, <2>5
  <2> QED  BY <2>7, <2>8, <2>9
<1> QED  BY <1>1, PTL

\* A field kept from callers is neither returned nor searched, filtered or sorted by.
THEOREM SecretsKept == Spec => []SecretsStayIn
<1>1. SecretsStayIn
  <2> SUFFICES ASSUME Accepted(graph), NEW e \in Resources(graph),
                      NEW f \in DOMAIN graph[e].fields,
                      graph[e].fields[f].sensitive \/ "Hidden" \in graph[e].fields[f].words
               PROVE  /\ f \notin ResponseFields(graph[e])
                      /\ \A w \in Query : f \notin Marked(graph[e], w)
    BY DEF SecretsStayIn
  <2> DEFINE d == graph[e].fields[f]
  <2>1. FieldConflicts(e, graph[e]) = {}
    BY AcceptedResource
  <2>2. FieldWordConflicts(graph[e], d) = {}
    BY <2>1, AcceptedFields
  <2>3. f \notin ResponseFields(graph[e])
    BY DEF ResponseFields
  <2>4. ASSUME NEW w \in Query, w \in d.words  PROVE FALSE
    <3>1. w # "Hidden"
      BY DEF Query
    <3>2. CASE "Hidden" \in d.words
      <4>1. "hidden_and_more" \in FieldWordConflicts(graph[e], d)
        BY <2>4, <3>1, <3>2 DEF FieldWordConflicts
      <4> QED  BY <2>2, <4>1
    <3>3. CASE d.sensitive
      <4>1. Dimensions(d) # {}
        BY <2>4 DEF Dimensions
      <4>2. "secret_queried" \in FieldWordConflicts(graph[e], d)
        BY <3>3, <4>1 DEF FieldWordConflicts
      <4> QED  BY <2>2, <4>2
    <3> QED  BY <3>2, <3>3
  <2> QED  BY <2>3, <2>4 DEF Marked
<1> QED  BY <1>1, PTL

-----------------------------------------------------------------------------
(***************************************************************************)
(* No edit makes a graph ent would not load.                               *)
(***************************************************************************)
\* An edit of one node.
Edited(e, m) == graph' = [graph EXCEPT ![e] = m]

LEMMA OneNode ==
    ASSUME Loads(graph), NEW e \in DOMAIN graph, NEW m, Edited(e, m), Node(graph, m)
    PROVE  Loads(graph')
<1>1. DOMAIN graph' = DOMAIN graph /\ graph' = [d \in DOMAIN graph' |-> graph'[d]]
  BY DEF Loads, Edited
<1>2. ASSUME NEW d \in DOMAIN graph' PROVE Node(graph', graph'[d])
  <2>1. graph'[d] = IF d = e THEN m ELSE graph[d]
    BY <1>1, <1>2 DEF Loads, Edited
  <2>2. Node(graph, graph'[d])
    BY <1>1, <1>2, <2>1 DEF Loads
  <2> QED BY <1>1, <2>2 DEF Node
<1> QED BY <1>1, <1>2 DEF Loads

\* A field of a node, or one of its edges, with other annotations.
LEMMA OneField ==
    ASSUME NEW n, Node(graph, n), NEW f \in DOMAIN n.fields, NEW d \in Field
    PROVE  Node(graph, [n EXCEPT !.fields = [@ EXCEPT ![f] = d]])
BY DEF Node

LEMMA OneEdge ==
    ASSUME NEW n, Node(graph, n), NEW x \in DOMAIN n.edges, NEW y,
           y = [target |-> n.edges[x].target, required |-> n.edges[x].required,
                field |-> n.edges[x].field, ref |-> n.edges[x].ref,
                stray |-> y.stray, note |-> y.note]
    PROVE  Node(graph, [n EXCEPT !.edges = [@ EXCEPT ![x] = y]])
<1>1. /\ y.target \in DOMAIN graph /\ y.field \in {None} \cup DOMAIN n.fields
      /\ y.ref \in {None} \cup DOMAIN n.edges
      /\ y = [target |-> y.target, required |-> y.required, field |-> y.field,
              ref |-> y.ref, stray |-> y.stray, note |-> y.note]
  BY DEF Node
<1> QED BY <1>1 DEF Node

\* What EXCEPT makes of the records.
LEMMA EdgeExcept ==
    ASSUME NEW y, NEW target, NEW required, NEW field, NEW ref, NEW stray, NEW note,
           y = [target |-> target, required |-> required, field |-> field, ref |-> ref,
                stray |-> stray, note |-> note],
           NEW m, m = [y EXCEPT !.stray = TRUE] \/ \E k : m = [y EXCEPT !.note = k]
    PROVE  m = [target |-> target, required |-> required, field |-> field, ref |-> ref,
                stray |-> m.stray, note |-> m.note]
<1>1. CASE m = [y EXCEPT !.stray = TRUE]
  BY <1>1
<1>2. ASSUME NEW k, m = [y EXCEPT !.note = k]
      PROVE  m = [target |-> target, required |-> required, field |-> field, ref |-> ref,
                  stray |-> m.stray, note |-> m.note]
  BY <1>2
<1> QED BY <1>1, <1>2

LEMMA NodeExcept ==
    ASSUME NEW n, NEW resource, NEW except, NEW tombstone, NEW id, NEW fields, NEW edges,
           n = [resource |-> resource, except |-> except, tombstone |-> tombstone, id |-> id,
                fields |-> fields, edges |-> edges],
           NEW m, NEW r, NEW S, NEW i,
           \/ m = [n EXCEPT !.resource = r, !.except = S] /\ i = id
           \/ m = [n EXCEPT !.resource = r] /\ S = except /\ i = id
           \/ m = [n EXCEPT !.except = S] /\ r = resource /\ i = id
           \/ m = [n EXCEPT !.id = i] /\ r = resource /\ S = except
    PROVE  m = [resource |-> r, except |-> S, tombstone |-> tombstone, id |-> i,
                fields |-> fields, edges |-> edges]
<1>1. CASE m = [n EXCEPT !.resource = r, !.except = S] /\ i = id
  BY <1>1
<1>2. CASE m = [n EXCEPT !.resource = r] /\ S = except /\ i = id
  BY <1>2
<1>3. CASE m = [n EXCEPT !.except = S] /\ r = resource /\ i = id
  BY <1>3
<1>4. CASE m = [n EXCEPT !.id = i] /\ r = resource /\ S = except
  BY <1>4
<1> QED BY <1>1, <1>2, <1>3, <1>4

LEMMA FieldEdits ==
    ASSUME Loads(graph), NEW e \in DOMAIN graph, NEW f \in DOMAIN graph[e].fields,
           \/ \E w \in Word : Say(e, f, w) \/ Unsay(e, f, w)
           \/ MisplaceExpand(e, f)
           \/ \E p \in {"optional", "default", "immutable", "sensitive"} : Reshape(e, f, p)
    PROVE  Loads(graph')
<1> DEFINE n == graph[e]
<1>1. Node(graph, n)
  BY DEF Loads
<1>2. n.fields[f] \in Field
  BY <1>1 DEF Node
<1>3. SUFFICES ASSUME NEW d \in Field,
                      Edited(e, [n EXCEPT !.fields = [@ EXCEPT ![f] = d]])
               PROVE  Loads(graph')
  <2>1. ASSUME NEW w \in Word, Say(e, f, w)
        PROVE  \E d \in Field : Edited(e, [n EXCEPT !.fields = [@ EXCEPT ![f] = d]])
    <3>1. [n.fields[f] EXCEPT !.words = MergeWords(@, {w})] \in Field
      BY <1>2 DEF Field, MergeWords
    <3> QED BY <2>1, <3>1 DEF Say, Edit, Edited
  <2>2. ASSUME NEW w \in Word, Unsay(e, f, w)
        PROVE  \E d \in Field : Edited(e, [n EXCEPT !.fields = [@ EXCEPT ![f] = d]])
    <3>1. [n.fields[f] EXCEPT !.words = @ \ {w}] \in Field
      BY <1>2 DEF Field
    <3> QED BY <2>2, <3>1 DEF Unsay, Edit, Edited
  <2>3. ASSUME MisplaceExpand(e, f)
        PROVE  \E d \in Field : Edited(e, [n EXCEPT !.fields = [@ EXCEPT ![f] = d]])
    <3>1. [n.fields[f] EXCEPT !.stray = TRUE] \in Field
      BY <1>2 DEF Field
    <3> QED BY <2>3, <3>1 DEF MisplaceExpand, Edit, Edited
  <2>4. ASSUME NEW p \in {"optional", "default", "immutable", "sensitive"}, Reshape(e, f, p)
        PROVE  \E d \in Field : Edited(e, [n EXCEPT !.fields = [@ EXCEPT ![f] = d]])
    <3>1. /\ [n.fields[f] EXCEPT !.optional = ~@] \in Field
          /\ [n.fields[f] EXCEPT !.default = ~@] \in Field
          /\ [n.fields[f] EXCEPT !.immutable = ~@] \in Field
          /\ [n.fields[f] EXCEPT !.sensitive = ~@] \in Field
      BY <1>2 DEF Field
    <3> QED BY <2>4, <3>1 DEF Reshape, Edit, Edited
  <2> QED BY <2>1, <2>2, <2>3, <2>4
<1> QED BY <1>1, <1>3, OneField, OneNode

LEMMA EdgeEdits ==
    ASSUME Loads(graph), NEW e \in DOMAIN graph, NEW x \in DOMAIN graph[e].edges,
           (\E b \in BOOLEAN : Annotate(e, x, b)) \/ Strip(e, x) \/ MisplaceWord(e, x)
    PROVE  Loads(graph')
<1> DEFINE n == graph[e]
<1>1. Node(graph, n)
  BY DEF Loads
<1>2. n.edges[x] = [target |-> n.edges[x].target, required |-> n.edges[x].required,
                    field |-> n.edges[x].field, ref |-> n.edges[x].ref,
                    stray |-> n.edges[x].stray, note |-> n.edges[x].note]
  BY <1>1 DEF Node
<1>3. PICK y : /\ Edited(e, [n EXCEPT !.edges = [@ EXCEPT ![x] = y]])
               /\ \/ y = [n.edges[x] EXCEPT !.stray = TRUE]
                  \/ \E k : y = [n.edges[x] EXCEPT !.note = k]
  <2>1. ASSUME NEW b \in BOOLEAN, Annotate(e, x, b)
        PROVE  \E k : Edited(e, [n EXCEPT !.edges = [@ EXCEPT ![x] = [n.edges[x] EXCEPT !.note = k]]])
    <3> DEFINE note == MergeNotes(n.edges[x].note, [bare |-> FALSE, expand |-> b, key |-> None])
    <3>1. Edited(e, [n EXCEPT !.edges = [@ EXCEPT ![x] = [n.edges[x] EXCEPT !.note = note]]])
      BY <2>1 DEF Annotate, Edit, Edited
    <3> QED BY <3>1
  <2>2. Strip(e, x) =>
          Edited(e, [n EXCEPT !.edges = [@ EXCEPT ![x] = [n.edges[x] EXCEPT !.note = Bare]]])
    BY DEF Strip, Edit, Edited
  <2>3. MisplaceWord(e, x) =>
          Edited(e, [n EXCEPT !.edges = [@ EXCEPT ![x] = [n.edges[x] EXCEPT !.stray = TRUE]]])
    BY DEF MisplaceWord, Edit, Edited
  <2> QED BY <2>1, <2>2, <2>3
<1>4. y = [target |-> n.edges[x].target, required |-> n.edges[x].required,
           field |-> n.edges[x].field, ref |-> n.edges[x].ref,
           stray |-> y.stray, note |-> y.note]
  BY <1>2, <1>3, EdgeExcept
<1>5. Node(graph, [n EXCEPT !.edges = [@ EXCEPT ![x] = y]])
  BY <1>1, <1>4, OneEdge
<1> QED BY <1>3, <1>5, OneNode

\* A node with other annotations of its own.
LEMMA OneScope ==
    ASSUME NEW n, Node(graph, n), NEW r, NEW S, S \subseteq IF r THEN Op ELSE {}, NEW t, NEW i,
           NEW m, m = [resource |-> r, except |-> S, tombstone |-> t, id |-> i,
                       fields |-> n.fields, edges |-> n.edges]
    PROVE  Node(graph, m)
<1>1. /\ m.resource = r /\ m.except = S /\ m.tombstone = t /\ m.id = i
      /\ m.fields = n.fields /\ m.edges = n.edges
  OBVIOUS
<1>2. m = [resource |-> m.resource, except |-> m.except, tombstone |-> m.tombstone, id |-> m.id,
           fields |-> m.fields, edges |-> m.edges]
  BY <1>1
<1> QED BY <1>1, <1>2 DEF Node

LEMMA EntityEdits ==
    ASSUME Loads(graph), NEW e \in DOMAIN graph,
           \/ Expose(e) \/ Conceal(e)
           \/ \E op \in Op : Exclude(e, op) \/ Include(e, op)
           \/ \E w \in Word : SayOnId(e, w)
    PROVE  Loads(graph')
<1> DEFINE n == graph[e]
<1>1. /\ Node(graph, n)
      /\ n.except \subseteq IF n.resource THEN Op ELSE {}
      /\ n = [resource |-> n.resource, except |-> n.except, tombstone |-> n.tombstone,
              id |-> n.id, fields |-> n.fields, edges |-> n.edges]
  BY DEF Loads, Node
<1>2. SUFFICES ASSUME NEW m, NEW r, NEW S, NEW i, Edited(e, m), S \subseteq IF r THEN Op ELSE {},
                      \/ m = [n EXCEPT !.resource = r, !.except = S] /\ i = n.id
                      \/ m = [n EXCEPT !.resource = r] /\ S = n.except /\ i = n.id
                      \/ m = [n EXCEPT !.except = S] /\ r = n.resource /\ i = n.id
                      \/ m = [n EXCEPT !.id = i] /\ r = n.resource /\ S = n.except
               PROVE  Loads(graph')
  <2>1. CASE Expose(e)
    <3>1. Edited(e, [n EXCEPT !.resource = TRUE])
      BY <2>1 DEF Expose, Edit, Edited
    <3>2. n.except \subseteq IF TRUE THEN Op ELSE {}
      BY <1>1
    <3> QED BY <1>2, <3>1, <3>2
  <2>2. CASE Conceal(e)
    <3>1. Edited(e, [n EXCEPT !.resource = FALSE, !.except = {}])
      BY <2>2 DEF Conceal, Edit, Edited, Loads
    <3>2. {} \subseteq IF FALSE THEN Op ELSE {}
      OBVIOUS
    <3> QED BY <1>2, <3>1, <3>2
  <2>3. ASSUME NEW op \in Op, Exclude(e, op) PROVE Loads(graph')
    <3>1. Edited(e, [n EXCEPT !.except = n.except \cup {op}]) /\ n.resource
      BY <2>3 DEF Exclude, Edit, Edited, MergeExcept
    <3>2. n.except \cup {op} \subseteq IF n.resource THEN Op ELSE {}
      BY <1>1, <3>1
    <3> QED BY <1>2, <3>1, <3>2
  <2>4. ASSUME NEW op \in Op, Include(e, op) PROVE Loads(graph')
    <3>1. Edited(e, [n EXCEPT !.except = n.except \ {op}])
      BY <2>4 DEF Include, Edit, Edited
    <3>2. n.except \ {op} \subseteq IF n.resource THEN Op ELSE {}
      BY <1>1
    <3> QED BY <1>2, <3>1, <3>2
  <2>5. ASSUME NEW w \in Word, SayOnId(e, w) PROVE Loads(graph')
    <3>1. Edited(e, [n EXCEPT !.id = [n.id EXCEPT !.words = MergeWords(@, {w})]])
      BY <2>5 DEF SayOnId, Edit, Edited
    <3> QED BY <1>1, <1>2, <3>1
  <2> QED BY <2>1, <2>2, <2>3, <2>4, <2>5
<1>3. m = [resource |-> r, except |-> S, tombstone |-> n.tombstone, id |-> i,
           fields |-> n.fields, edges |-> n.edges]
  BY <1>1, <1>2, NodeExcept
<1>4. Node(graph, m)
  BY <1>1, <1>2, <1>3, OneScope
<1> QED BY <1>2, <1>4, OneNode

\* The soft-delete marker, whatever field it names.
LEMMA MarkExcept ==
    ASSUME NEW n, NEW resource, NEW except, NEW tombstone, NEW id, NEW fields, NEW edges,
           n = [resource |-> resource, except |-> except, tombstone |-> tombstone, id |-> id,
                fields |-> fields, edges |-> edges],
           NEW t
    PROVE  [n EXCEPT !.tombstone = t] = [resource |-> resource, except |-> except,
                tombstone |-> t, id |-> id, fields |-> fields, edges |-> edges]
OBVIOUS

LEMMA MarkLoads ==
    ASSUME Loads(graph), NEW e \in DOMAIN graph, NEW f, Mark(e, f)
    PROVE  Loads(graph')
<1> DEFINE n == graph[e]
           m == [n EXCEPT !.tombstone = f]
<1>1. /\ Node(graph, n)
      /\ n.except \subseteq IF n.resource THEN Op ELSE {}
      /\ n = [resource |-> n.resource, except |-> n.except, tombstone |-> n.tombstone,
              id |-> n.id, fields |-> n.fields, edges |-> n.edges]
  BY DEF Loads, Node
<1>2. Edited(e, m)
  BY DEF Mark, Edit, Edited
<1>3. m = [resource |-> n.resource, except |-> n.except, tombstone |-> f, id |-> n.id,
           fields |-> n.fields, edges |-> n.edges]
  BY <1>1, MarkExcept
<1> HIDE DEF m
<1>4. Node(graph, m)
  BY <1>1, <1>3, OneScope
<1> QED BY <1>2, <1>4, OneNode

LEMMA DeclareLoads ==
    ASSUME Loads(graph), NEW e \in Pool, Declare(e)
    PROVE  Loads(graph')
<1>1. /\ e \notin DOMAIN graph
      /\ graph' = [d \in DOMAIN graph \cup {e} |-> IF d = e THEN Blank ELSE graph[d]]
  BY DEF Declare, Edit
<1>2. \A d \in DOMAIN graph : Node(graph', graph[d])
  BY <1>1 DEF Loads, Node
<1>3. Node(graph', Blank)
  <2>1. DOMAIN Blank.edges = {}
    BY SeedsAssumption
  <2> QED BY <2>1, SeedsAssumption DEF Node
<1> QED BY <1>1, <1>2, <1>3 DEF Loads

LEMMA RemoveLoads ==
    ASSUME Loads(graph), NEW e \in DOMAIN graph, Remove(e)
    PROVE  Loads(graph')
<1>1. /\ graph' = [d \in DOMAIN graph \ {e} |-> graph[d]]
      /\ \A d \in DOMAIN graph \ {e} : \A x \in DOMAIN graph[d].edges : graph[d].edges[x].target # e
  BY DEF Remove, Edit
<1>2. ASSUME NEW d \in DOMAIN graph \ {e} PROVE Node(graph', graph[d])
  BY <1>1 DEF Loads, Node
<1> QED BY <1>1, <1>2 DEF Loads

THEOREM GraphsLoad == Spec => []Loads(graph)
<1>1. Init => Loads(graph)
  BY SeedsAssumption DEF Init
<1>2. Loads(graph) /\ [Next]_vars => Loads(graph')
  <2> SUFFICES ASSUME Loads(graph), [Next]_vars PROVE Loads(graph')
    OBVIOUS
  <2>1. CASE UNCHANGED vars
    BY <2>1 DEF vars
  <2>2. CASE Next
    BY <2>2, DeclareLoads, RemoveLoads, EntityEdits, MarkLoads, FieldEdits, EdgeEdits DEF Next
  <2> QED BY <2>1, <2>2
<1>3. Loads(graph)' <=> Loads(graph')
  BY DEF Loads, Node
<1> QED BY <1>1, <1>2, <1>3, PTL DEF Spec

-----------------------------------------------------------------------------
(***************************************************************************)
(* References.                                                             *)
(***************************************************************************)
\* A query word that asks for what ent never wrote is refused.
LEMMA QueriesHaveTheirCalls ==
    ASSUME NEW f, QueryConflicts(f) = {}
    PROVE  /\ "Searchable" \in f.words => "contains" \in Ops(f)
           /\ "Filterable" \in f.words => Ops(f) # {} /\ Parses(f)
           /\ "Sortable" \in f.words => Comparable(f)
<1>1. "Searchable" \in f.words /\ "contains" \notin Ops(f) => "no_Contains" \in QueryConflicts(f)
  BY Zenon DEF QueryConflicts
<1>2. "Filterable" \in f.words /\ Ops(f) = {} => "no_predicates" \in QueryConflicts(f)
  BY Zenon DEF QueryConflicts
<1>3. "Filterable" \in f.words /\ Ops(f) # {} /\ ~Parses(f) => "not_parsed" \in QueryConflicts(f)
  BY Zenon DEF QueryConflicts
<1>4. "Sortable" \in f.words /\ ~Comparable(f) => "not_ordered" \in QueryConflicts(f)
  BY Zenon DEF QueryConflicts
<1> QED BY <1>1, <1>2, <1>3, <1>4, Zenon

\* What the document defines of one resource, and what it refers to for it.
Defined(g, e) ==
    {e \o <<"Summary">>, e \o <<"Response">>, e \o <<"List", "Response">>,
     e \o <<"Patch", "Request">>}
    \cup (IF HasCreateFamily(g[e]) THEN {e \o <<"Create", "Request">>} ELSE {})

Referred(g, e) ==
    {g[e].edges[x].target \o <<"Summary">> : x \in ResponseEdges(g[e])}
    \cup {e \o <<"Response">>, <<"Problem">>}
    \cup (IF "list" \in ResourceOps(g[e]) THEN {e \o <<"List", "Response">>} ELSE {})
    \cup (IF "create" \in ResourceOps(g[e]) THEN {e \o <<"Create", "Request">>} ELSE {})
    \cup (IF "patch" \in ResourceOps(g[e]) THEN {e \o <<"Patch", "Request">>} ELSE {})

LEMMA RefsResolve ==
    ASSUME NEW g, Loads(g), Accepted(g)
    PROVE  DocumentRefs(g) \subseteq DocumentSchemas(g)
<1>1. DocumentRefs(g) = UNION {Referred(g, e) : e \in Resources(g)}
  BY Zenon DEF DocumentRefs, Referred
<1>2. DocumentSchemas(g) = {<<"Problem">>} \cup UNION {Defined(g, e) : e \in Resources(g)}
  BY Zenon DEF DocumentSchemas, Defined
<1>3. ASSUME NEW e \in Resources(g), NEW x \in ResponseEdges(g[e])
      PROVE  g[e].edges[x].target \in Resources(g)
  <2>1. UnsummarisedEdges(g, g[e]) = {}
    BY AcceptedResource, AcceptedEdges
  <2>2. g[g[e].edges[x].target].resource
    BY <2>1 DEF UnsummarisedEdges
  <2>3. g[e].edges[x].target \in DOMAIN g
    BY DEF Loads, Node, Resources, ResponseEdges
  <2> QED BY <2>2, <2>3 DEF Resources
<1>4. ASSUME NEW e \in Resources(g)
      PROVE  Referred(g, e) \subseteq DocumentSchemas(g)
  <2>1. "create" \in ResourceOps(g[e]) => HasCreateFamily(g[e])
    BY DEF ResourceOps
  <2>2. /\ {e \o <<"Response">>, e \o <<"List", "Response">>, e \o <<"Patch", "Request">>}
             \subseteq Defined(g, e)
        /\ "create" \in ResourceOps(g[e]) => e \o <<"Create", "Request">> \in Defined(g, e)
        /\ \A d : d \o <<"Summary">> \in Defined(g, d)
    BY <2>1, Zenon DEF Defined
  <2>3. Defined(g, e) \subseteq DocumentSchemas(g) /\ <<"Problem">> \in DocumentSchemas(g)
    BY <1>2
  <2>4. \A x \in ResponseEdges(g[e]) :
           g[e].edges[x].target \o <<"Summary">> \in DocumentSchemas(g)
    BY <1>2, <1>3, <2>2
  <2>5. ASSUME NEW r \in Referred(g, e) PROVE r \in DocumentSchemas(g)
    <3>1. \/ \E x \in ResponseEdges(g[e]) : r = g[e].edges[x].target \o <<"Summary">>
          \/ r \in {e \o <<"Response">>, <<"Problem">>, e \o <<"List", "Response">>,
                    e \o <<"Patch", "Request">>}
          \/ r = e \o <<"Create", "Request">> /\ "create" \in ResourceOps(g[e])
      BY Zenon DEF Referred
    <3> QED BY <2>2, <2>3, <2>4, <3>1
  <2> QED BY <2>5
<1> QED BY <1>1, <1>4

\* The generated code and document of an accepted schema refer to what exists
\* (queryConflicts and nodeConflicts, against the five templates).
THEOREM ReferencesAreResolved == Spec => []ReferencesResolve
<1>1. Loads(graph) => ReferencesResolve
  <2> SUFFICES ASSUME Loads(graph), Accepted(graph)
               PROVE  /\ DocumentRefs(graph) \subseteq DocumentSchemas(graph)
                      /\ \A e \in Resources(graph) : LET n == graph[e] IN
                           /\ \A f \in Marked(n, "Searchable") : "contains" \in Ops(n.fields[f])
                           /\ \A f \in Marked(n, "Filterable") :
                                 Ops(n.fields[f]) # {} /\ Parses(n.fields[f])
                           /\ \A f \in Marked(n, "Sortable") : Comparable(n.fields[f])
                      /\ \A e \in DOMAIN graph : graph[e].tombstone # None =>
                           /\ graph[e].tombstone \in DOMAIN graph[e].fields
                           /\ graph[e].fields[graph[e].tombstone].optional
    BY DEF ReferencesResolve
  <2>1. DocumentRefs(graph) \subseteq DocumentSchemas(graph)
    BY RefsResolve
  <2>2. ASSUME NEW e \in Resources(graph)
        PROVE  /\ \A f \in Marked(graph[e], "Searchable") : "contains" \in Ops(graph[e].fields[f])
               /\ \A f \in Marked(graph[e], "Filterable") :
                     Ops(graph[e].fields[f]) # {} /\ Parses(graph[e].fields[f])
               /\ \A f \in Marked(graph[e], "Sortable") : Comparable(graph[e].fields[f])
    <3>1. \A f \in DOMAIN graph[e].fields : QueryConflicts(graph[e].fields[f]) = {}
      BY AcceptedResource, AcceptedFields
    <3> QED BY <3>1, QueriesHaveTheirCalls DEF Marked
  <2>3. ASSUME NEW e \in DOMAIN graph, graph[e].tombstone # None
        PROVE  /\ graph[e].tombstone \in DOMAIN graph[e].fields
               /\ graph[e].fields[graph[e].tombstone].optional
    <3>1. UnusableTombstones(graph) = {}
      BY DEF Accepted, Conflicts
    <3>2. (graph[e].tombstone \in DOMAIN graph[e].fields
             => ~graph[e].fields[graph[e].tombstone].optional)
          => <<e, graph[e].tombstone, "tombstone">> \in UnusableTombstones(graph)
      BY <2>3 DEF UnusableTombstones
    <3> QED BY <3>1, <3>2
  <2> QED BY <2>1, <2>2, <2>3
<1> QED BY <1>1, GraphsLoad, PTL

-----------------------------------------------------------------------------
(***************************************************************************)
(* Excluding an operation.                                                 *)
(***************************************************************************)
\* What excluding an operation other than list leaves as it is.
Narrower(m, n) ==
    /\ m.fields = n.fields /\ m.edges = n.edges /\ m.id = n.id /\ m.resource = n.resource
    /\ n.except \subseteq m.except /\ ("list" \in m.except => "list" \in n.except)

LEMMA RefuseMonotone ==
    ASSUME NEW e, NEW S, NEW T, NEW rule, S \subseteq T
    PROVE  Refuse(e, S, rule) \subseteq Refuse(e, T, rule)
BY DEF Refuse

LEMMA FieldsNarrow ==
    ASSUME NEW e, NEW m, NEW n, Narrower(m, n)
    PROVE  FieldConflicts(e, m) \subseteq FieldConflicts(e, n)
<1>1. \A f : FieldWordConflicts(m, f) = FieldWordConflicts(n, f)
  BY DEF FieldWordConflicts, Narrower, Excepts
<1>2. RefusedCreateFields(m) \subseteq RefusedCreateFields(n)
  BY DEF RefusedCreateFields, BlockedCreateFields, Excepts, Narrower
<1>3. PatchMethodCollisions(m) = PatchMethodCollisions(n)
  BY DEF PatchMethodCollisions, PatchFields, Narrower
<1> DEFINE Told(k) == UNION {{<<e, f, r>> : r \in FieldWordConflicts(k, k.fields[f])
                                                    \cup QueryConflicts(k.fields[f])} :
                                f \in DOMAIN k.fields}
           Stray(k) == {f \in DOMAIN k.fields : k.fields[f].stray}
<1>4. Told(m) = Told(n) /\ Stray(m) = Stray(n)
  BY <1>1 DEF Narrower
<1>5. \A k : FieldConflicts(e, k) =
        Told(k) \cup Refuse(e, Stray(k), "misplaced_Expand")
          \cup Refuse(e, RefusedCreateFields(k), "blocked_create")
          \cup Refuse(e, PatchMethodCollisions(k), "method")
  BY DEF FieldConflicts
<1> HIDE DEF Told, Stray
<1>6. Refuse(e, RefusedCreateFields(m), "blocked_create")
        \subseteq Refuse(e, RefusedCreateFields(n), "blocked_create")
  BY <1>2, RefuseMonotone
<1> QED BY <1>3, <1>4, <1>5, <1>6

LEMMA EdgesNarrow ==
    ASSUME NEW g, NEW h, NEW e, NEW m, NEW n, Narrower(m, n),
           \A x \in DOMAIN n.edges : h[n.edges[x].target].resource = g[n.edges[x].target].resource
    PROVE  EdgeConflicts(h, e, m) \subseteq EdgeConflicts(g, e, n)
<1>1. RequiredEdgesWithoutField(m) \subseteq RequiredEdgesWithoutField(n)
  BY DEF RequiredEdgesWithoutField, Excepts, Narrower
<1>2. UnsummarisedEdges(h, m) = UnsummarisedEdges(g, n)
  BY DEF UnsummarisedEdges, ResponseEdges, Narrower
<1>3. AsymmetricSelfEdges(e, m) = AsymmetricSelfEdges(e, n)
  BY DEF AsymmetricSelfEdges, Narrower
<1> DEFINE Stray(k) == {x \in DOMAIN k.edges : k.edges[x].stray}
<1>4. Stray(m) = Stray(n)
  BY DEF Narrower
<1>5. \A k, d : EdgeConflicts(d, e, k) =
        Refuse(e, Stray(k), "misplaced_word")
          \cup Refuse(e, UnsummarisedEdges(d, k), "no_Summary")
          \cup Refuse(e, RequiredEdgesWithoutField(k), "required_edge")
          \cup Refuse(e, AsymmetricSelfEdges(e, k), "asymmetric_pair")
  BY DEF EdgeConflicts
<1> HIDE DEF Stray
<1>6. Refuse(e, RequiredEdgesWithoutField(m), "required_edge")
        \subseteq Refuse(e, RequiredEdgesWithoutField(n), "required_edge")
  BY <1>1, RefuseMonotone
<1> QED BY <1>2, <1>3, <1>4, <1>5, <1>6

LEMMA EntityNarrows ==
    ASSUME NEW e, NEW m, NEW n, Narrower(m, n)
    PROVE  EntityConflicts(e, m) \subseteq EntityConflicts(e, n)
<1>1. PatchFields(m) = PatchFields(n)
  BY DEF PatchFields, Narrower
<1>2. Excepts(n, "patch") => Excepts(m, "patch")
  BY DEF Excepts, Narrower
<1> QED BY <1>1, <1>2 DEF EntityConflicts, Narrower

\* The rules a refusal can name, by the function that reports it.
LEMMA FieldRules ==
    ASSUME NEW e, NEW n, NEW c \in FieldConflicts(e, n)
    PROVE  /\ c[3] \notin {"required_edge", "empty_patch"}
           /\ c[3] = "blocked_create" => RefusedCreateFields(n) # {}
<1> DEFINE Told == UNION {{<<e, f, r>> : r \in FieldWordConflicts(n, n.fields[f])
                                                 \cup QueryConflicts(n.fields[f])} :
                             f \in DOMAIN n.fields}
<1>1. \/ c \in Told
      \/ \E S : c \in Refuse(e, S, "misplaced_Expand") \cup Refuse(e, S, "method")
      \/ c \in Refuse(e, RefusedCreateFields(n), "blocked_create")
  BY DEF FieldConflicts
<1>2. CASE c \in Told
  <2>1. PICK f \in DOMAIN n.fields : \E r \in FieldWordConflicts(n, n.fields[f])
                                               \cup QueryConflicts(n.fields[f]) : c = <<e, f, r>>
    BY <1>2
  <2>2. c[3] \in FieldWordConflicts(n, n.fields[f]) \cup QueryConflicts(n.fields[f])
    BY <2>1
  <2>3. c[3] \in {"hidden_and_more", "secret_queried", "secret_returned", "not_listed",
                  "reserved_key", "no_Contains", "no_predicates", "not_parsed", "not_ordered"}
    BY <2>2 DEF FieldWordConflicts, QueryConflicts
  <2> QED BY <2>3
<1>3. CASE \E S : c \in Refuse(e, S, "misplaced_Expand") \cup Refuse(e, S, "method")
  BY <1>3 DEF Refuse
<1>4. CASE c \in Refuse(e, RefusedCreateFields(n), "blocked_create")
  BY <1>4 DEF Refuse
<1> HIDE DEF Told
<1> QED BY <1>1, <1>2, <1>3, <1>4

LEMMA EdgeRules ==
    ASSUME NEW g, NEW e, NEW n, NEW c \in EdgeConflicts(g, e, n)
    PROVE  /\ c[3] \notin {"blocked_create", "empty_patch"}
           /\ c[3] = "required_edge" => RequiredEdgesWithoutField(n) # {}
<1>1. \/ \E S : c \in Refuse(e, S, "misplaced_word") \cup Refuse(e, S, "no_Summary")
                        \cup Refuse(e, S, "asymmetric_pair")
      \/ c \in Refuse(e, RequiredEdgesWithoutField(n), "required_edge")
  BY DEF EdgeConflicts
<1> QED BY <1>1 DEF Refuse

LEMMA EntityRules ==
    ASSUME NEW e, NEW n, NEW c \in EntityConflicts(e, n)
    PROVE  /\ c[3] \notin {"blocked_create", "required_edge"}
           /\ c[3] = "empty_patch" => ~Excepts(n, "patch")
BY DEF EntityConflicts

LEMMA OtherRules ==
    ASSUME NEW g, NEW c \in UnusableTombstones(g) \cup NameConflicts(g)
    PROVE  c[3] \in {"tombstone", "graph_symbol", "derived_name"}
BY DEF UnusableTombstones, NameConflicts

LEMMA ExcludeNarrows ==
    ASSUME Loads(graph), NEW e \in DOMAIN graph, NEW op \in Op \ {"list"}, Exclude(e, op)
    PROVE  /\ DOMAIN graph' = DOMAIN graph
           /\ \A d \in DOMAIN graph : /\ Narrower(graph'[d], graph[d])
                                      /\ graph'[d].tombstone = graph[d].tombstone
           /\ Excepts(graph'[e], op)
<1> DEFINE n == graph[e]
           m == [n EXCEPT !.except = n.except \cup {op}]
<1>1. n.resource /\ graph' = [graph EXCEPT ![e] = m]
  BY DEF Exclude, Edit, MergeExcept
<1>2. n = [resource |-> n.resource, except |-> n.except, tombstone |-> n.tombstone,
           id |-> n.id, fields |-> n.fields, edges |-> n.edges]
  BY DEF Loads, Node
<1>3. m = [resource |-> n.resource, except |-> n.except \cup {op}, tombstone |-> n.tombstone,
           id |-> n.id, fields |-> n.fields, edges |-> n.edges]
  <2> DEFINE S == n.except \cup {op}
  <2>1. m = [n EXCEPT !.except = S]
    OBVIOUS
  <2> HIDE DEF S, m
  <2>2. m = [resource |-> n.resource, except |-> S, tombstone |-> n.tombstone,
             id |-> n.id, fields |-> n.fields, edges |-> n.edges]
    BY <1>2, <2>1, NodeExcept
  <2> QED BY <2>2 DEF S
<1>4. Narrower(m, n) /\ m.tombstone = n.tombstone /\ Excepts(m, op)
  BY <1>1, <1>3 DEF Narrower, Excepts
<1> HIDE DEF m
<1>5. /\ DOMAIN graph' = DOMAIN graph
      /\ \A d \in DOMAIN graph : graph'[d] = IF d = e THEN m ELSE graph[d]
  BY <1>1 DEF Loads
<1> QED BY <1>4, <1>5 DEF Narrower

\* The refusals after are among those before: one node at a time, and those of
\* the whole graph are the same.
LEMMA ExcludeRefusesLess ==
    ASSUME Loads(graph), NEW h, DOMAIN h = DOMAIN graph,
           \A d \in DOMAIN graph : /\ Narrower(h[d], graph[d])
                                   /\ h[d].tombstone = graph[d].tombstone
    PROVE  Conflicts(h) \subseteq Conflicts(graph)
<1>1. Resources(h) = Resources(graph)
  BY DEF Resources, Narrower
<1>2. NameConflicts(h) = NameConflicts(graph)
  BY <1>1 DEF NameConflicts
<1>3. UnusableTombstones(h) = UnusableTombstones(graph)
  BY DEF UnusableTombstones, Narrower
<1>4. ASSUME NEW d \in DOMAIN graph PROVE NodeConflicts(h, d) \subseteq NodeConflicts(graph, d)
  <2>1. \A x \in DOMAIN graph[d].edges :
           h[graph[d].edges[x].target].resource = graph[graph[d].edges[x].target].resource
    BY DEF Loads, Node, Narrower
  <2>2. EdgeConflicts(h, d, h[d]) \subseteq EdgeConflicts(graph, d, graph[d])
    BY <2>1, EdgesNarrow
  <2>3. FieldConflicts(d, h[d]) \subseteq FieldConflicts(d, graph[d])
    BY FieldsNarrow
  <2>4. EntityConflicts(d, h[d]) \subseteq EntityConflicts(d, graph[d])
    BY EntityNarrows
  <2> QED BY <2>2, <2>3, <2>4 DEF NodeConflicts
<1>5. \A d \in Resources(h) : NodeConflicts(h, d) \subseteq NodeConflicts(graph, d)
  BY <1>1, <1>4 DEF Resources
<1> QED BY <1>1, <1>2, <1>3, <1>5, Zenon DEF Conflicts

\* Whom a refusal of a node is about.
LEMMA RefusedNode ==
    ASSUME NEW g, NEW d, NEW c \in NodeConflicts(g, d)
    PROVE  c[1] = d
<1>1. c \in FieldConflicts(d, g[d]) => c[1] = d
  BY DEF FieldConflicts, Refuse
<1>2. c \in EdgeConflicts(g, d, g[d]) => c[1] = d
  BY DEF EdgeConflicts, Refuse
<1>3. c \in EntityConflicts(d, g[d]) => c[1] = d
  BY DEF EntityConflicts
<1> QED BY <1>1, <1>2, <1>3 DEF NodeConflicts

\* The refusals whose message names an operation are gone with it.
LEMMA ExcludedIsNotAsked ==
    ASSUME NEW g, NEW e, NEW op, Excepts(g[e], op), NEW c \in Conflicts(g), c[1] = e
    PROVE  /\ op = "create" => c[3] \notin {"blocked_create", "required_edge"}
           /\ op = "patch" => c[3] # "empty_patch"
<1>1. CASE c \in UnusableTombstones(g) \cup NameConflicts(g)
  <2>1. c[3] \in {"tombstone", "graph_symbol", "derived_name"}
    BY <1>1, OtherRules
  <2> QED BY <2>1
<1>2. ASSUME NEW d \in Resources(g), c \in NodeConflicts(g, d)
      PROVE  /\ op = "create" => c[3] \notin {"blocked_create", "required_edge"}
             /\ op = "patch" => c[3] # "empty_patch"
  <2>1. d = e
    BY <1>2, RefusedNode
  <2>2. c \in FieldConflicts(e, g[e]) \/ c \in EdgeConflicts(g, e, g[e])
          \/ c \in EntityConflicts(e, g[e])
    BY <1>2, <2>1 DEF NodeConflicts
  <2>3. op = "create" => RefusedCreateFields(g[e]) = {} /\ RequiredEdgesWithoutField(g[e]) = {}
    BY DEF RefusedCreateFields, RequiredEdgesWithoutField
  <2> QED BY <2>2, <2>3, FieldRules, EdgeRules, EntityRules
<1> QED BY <1>1, <1>2 DEF Conflicts

\* An excluded operation brings up no refusal and answers those that name it
\* (schema_conflicts.go: every "api.Except(...)" a message offers).
THEOREM RepairsRepair == Spec => ExceptIsARepair
<1>1. ASSUME Loads(graph), NEW e \in DOMAIN graph, NEW op \in Op \ {"list"}, Exclude(e, op)
      PROVE  /\ Conflicts(graph') \subseteq Conflicts(graph)
             /\ \A c \in Conflicts(graph') :
                  c[1] = e => /\ op = "create" => c[3] \notin {"blocked_create", "required_edge"}
                              /\ op = "patch" => c[3] # "empty_patch"
  BY <1>1, ExcludeNarrows, ExcludeRefusesLess, ExcludedIsNotAsked
<1>2. Loads(graph) =>
        \A e \in DOMAIN graph : \A op \in Op \ {"list"} :
          Exclude(e, op) =>
            /\ Conflicts(graph') \subseteq Conflicts(graph)
            /\ \A c \in Conflicts(graph') :
                 c[1] = e => /\ op = "create" => c[3] \notin {"blocked_create", "required_edge"}
                             /\ op = "patch" => c[3] # "empty_patch"
  BY <1>1
<1> QED BY <1>2, GraphsLoad, PTL DEF ExceptIsARepair
=============================================================================
