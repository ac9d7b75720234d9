---------------------------- MODULE MCGeneration ----------------------------
(* TLC instances of Generation. *)
EXTENDS Generation

S(e, r, d) == [ents |-> e, resources |-> r, soft |-> d, conflict |-> FALSE]

\* One entity that gains and loses api.Resource() and the mixin, and a schema
\* that is refused.
MCSchemasOne ==
    { S({1}, {1}, {}), S({1}, {}, {1}), S({}, {}, {}),
      [ents |-> {1}, resources |-> {1}, soft |-> {}, conflict |-> TRUE] }

\* Two entities: both exposed; one dropped from the schema; none exposed; and a
\* schema that is refused.
MCSchemasTwo ==
    { S({1, 2}, {1, 2}, {2}), S({1}, {1}, {}), S({1, 2}, {}, {}),
      [ents |-> {1}, resources |-> {1}, soft |-> {}, conflict |-> TRUE] }

\* File names as os.ReadDir sorts them, for entities "article" and "tag":
\* article_*.go, entapi_*.go, mine.go, notes.md, openapi.yaml, tag_*.go.
MCScanRank ==
    [f \in File |->
        LET place == [ent |-> 1, dto |-> 2, filter |-> 3, handler |-> 4, wiring |-> 5,
                      errors |-> 11, http |-> 12, embed |-> 13, softdelete |-> 14,
                      legacy_go |-> 15, own_go |-> 16, own_md |-> 17, openapi |-> 18]
        IN  place[f[2]] + (IF f[1] > 1 THEN 20 * (f[1] - 1) ELSE 0)]
=============================================================================
