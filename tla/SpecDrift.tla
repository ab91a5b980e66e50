------------------------------ MODULE SpecDrift ------------------------------
(***************************************************************************)
(* The two drift tools over the APIv2 specification: the fields of a model *)
(* against its schema (scripts/model_schema_drift.py), and the paths the   *)
(* code calls against those that changed (scripts/drift_operations.py).    *)
(*                                                                         *)
(* A tool runs on one input, chosen when it starts.  A schema is a node    *)
(* of names: it refers to one, is composed of some, or has properties.  A  *)
(* property is of one family wherever it appears.                          *)
(***************************************************************************)
EXTENDS Integers, Sequences, SequencesExt, FiniteSets

CONSTANTS
    Names,         \* the schemas of the specification
    Root,          \* the one a model is compared with
    Aliases,       \* field and property names
    Family,        \* the family of each as a property
    FieldFamilies, \* the families a model's fields may have
    Composed,      \* the sets of schemas that one may be composed of
    MaxSegments    \* a bound: the segments of a path

ASSUME DriftAssumption ==
    /\ IsFiniteSet(Names) /\ Root \in Names
    /\ Composed \subseteq SUBSET Names
    /\ MaxSegments \in Nat
    /\ Family \in [Aliases -> {"string", "object", "wildcard"}]
    /\ "wildcard" \in FieldFamilies

VARIABLES
    input,      \* what the tool looks at
    report      \* what it says, or NoReport

driftVars == <<input, report>>
NoInput == [tool |-> "none"]
NoReport == [failed |-> FALSE, listed |-> {}]

-----------------------------------------------------------------------------
(* Schemas.                                                                *)

\* A node has $ref, or any of allOf, anyOf (as oneOf) and properties; without
\* properties its own required list is not looked at.
Node(ref, all, any, props, required) ==
    [ref |-> ref, all |-> all, any |-> any, props |-> props, required |-> required]
Nodes ==
    {Node(r, {}, {}, {}, {}) : r \in {{n} : n \in Names}}
    \cup {Node({}, all, any, props, required) :
             all \in Composed, any \in Composed,
             props \in SUBSET Aliases, required \in {{}, Aliases}}

Nothing == [props |-> {}, required |-> {}]
Merge(results) ==
    [props |-> UNION {r.props : r \in results},
     required |-> UNION {r.required : r \in results}]

\* Slip: what one of the variants requires is taken for required.
VariantSlip(r) == r

\* A variant's requirements are not unconditional.
Variant(r) == [r EXCEPT !.required = {}]

Own(node) ==
    [props |-> node.props,
     required |-> IF node.props = {} THEN {} ELSE node.required]

\* resolve_schema: what the schema of each name comes to when the names in seen
\* are being followed; no name is followed into itself.
ResolveSchema(schemas) ==
    LET resolve[seen \in SUBSET Names] ==
          [n \in Names |->
              LET node == schemas[n]
                  Follow(m) == IF m \in seen THEN Nothing ELSE resolve[seen \cup {m}][m]
              IN  IF node.ref # {} THEN Merge({Follow(m) : m \in node.ref})
                  ELSE Merge({Own(node)} \cup {Follow(m) : m \in node.all}
                                         \cup {Variant(Follow(m)) : m \in node.any})]
    IN  resolve

\* diff_model: the fields that differ, those the allowlist excuses among them.
Absent == "absent"
Differs(fields, schema) ==
    {a \in Aliases :
        IF fields[a] = Absent THEN a \in schema.props /\ a \in schema.required
        ELSE \/ a \notin schema.props
             \/ /\ "wildcard" \notin {fields[a], Family[a]}
                /\ fields[a] # Family[a]}

Used(allow, differing) == allow \cap differing

\* How a model finds its schema: exempt, by an alias that exists or not, by its
\* path or its name, or not at all.
Mappings == {"exempt", "alias", "dead_alias", "path_or_name", "unresolved"}

\* The default run of the tool: 1 for an unresolved model, a dead mapping, a
\* stale entry of the allowlist, or a difference it does not excuse.
FieldVerdict(i) ==
    LET compared == i.mapping \in {"alias", "dead_alias", "path_or_name"}
        schema == IF i.mapping = "dead_alias" THEN Nothing
                  ELSE ResolveSchema(i.schemas)[{}][Root]
        differing == IF compared THEN Differs(i.fields, schema) ELSE {}
        used == Used(i.allow, differing)
    IN  [failed |-> \/ i.mapping \in {"unresolved", "dead_alias"}
                    \/ i.allow \ used # {}
                    \/ differing \ used # {},
         listed |-> differing \ used]

CheckFields ==
    /\ input = NoInput
    /\ \E schemas \in [Names -> Nodes],
          fields \in [Aliases -> FieldFamilies \cup {Absent}],
          allow \in SUBSET Aliases, mapping \in Mappings :
          LET i == [tool |-> "fields", schemas |-> schemas, fields |-> fields,
                    allow |-> allow, mapping |-> mapping]
          IN  input' = i /\ report' = FieldVerdict(i)

-----------------------------------------------------------------------------
(* Paths: sequences of segments, and these of literals and holes.  The code *)
(* fills a hole with an id, which is a hole of the specification's path, or *)
(* with a word, which is literal there.  Here "hole" is the {} of a path,   *)
(* and "any" the * at the end of a declared one.                            *)

Calls == {<<"a">>, <<"b">>, <<"id">>, <<"id", "b">>, <<"a", "word">>}
Words == {"a", "b"}
Declared == {<<"a">>, <<"b">>, <<"hole">>, <<"hole", "b">>, <<"a", "any">>}
Paths(S) == UNION {[1 .. n -> S] : n \in 1 .. MaxSegments}

\* _normalize of a call's template, and of the specification's path for it.
Fill(path, hole, with) ==
    [i \in DOMAIN path |-> [j \in DOMAIN path[i] |->
        IF path[i][j] = hole THEN with ELSE path[i][j]]]
Template(call) == Fill(Fill(call, "id", "hole"), "word", "hole")
SpecPath(call, word) == Fill(Fill(call, "id", "hole"), "word", word)

\* Slip: a hole of the path matches whatever is declared.
SegMatchesSlip(t, p) == t = p \/ t = <<"hole">> \/ Last(p) = "hole" \/ Last(t) = "any"

\* _seg_matches.
SegMatches(t, p) ==
    \/ t = p
    \/ t = <<"hole">>
    \/ Last(t) = "any" /\ IsPrefix(Front(t), p)

\* template_covers: the path may go deeper.
TemplateCovers(template, path) ==
    /\ Len(template) <= Len(path)
    /\ \A i \in DOMAIN template : SegMatches(template[i], path[i])

\* Where a call is made: in a public module with a client, or without one; in a
\* private module, for the clients of others; or in a form that cannot be rendered.
\* Only what is declared for a client's module is matched with the changed paths.
Places == {"client", "helper", "private", "unrendered"}
Discovered(place) == place \in {"client", "helper"}

\* undeclared_siblings of one call, then affected_modules of the path it meets.
PathVerdict(i) ==
    [failed |-> Discovered(i.place) /\ ~TemplateCovers(i.declared, Template(i.call)),
     listed |-> IF /\ i.place # "helper"
                   /\ TemplateCovers(i.declared, SpecPath(i.call, i.word))
                THEN {"module"} ELSE {}]

CheckPaths ==
    /\ input = NoInput
    /\ \E call \in Paths(Calls), declared \in Paths(Declared), word \in Words,
          place \in Places :
          LET i == [tool |-> "paths", call |-> call, declared |-> declared, word |-> word,
                    place |-> place]
          IN  input' = i /\ report' = PathVerdict(i)

DriftInit == input = NoInput /\ report = NoReport
DriftNext == CheckFields \/ CheckPaths

-----------------------------------------------------------------------------
(* Properties.                                                             *)

AnyWay(node) == node.ref \cup node.all \cup node.any
Sure(node) == node.ref \cup node.all

\* The schemas reached from the root in any number of steps.
Reached(steps) ==
    {n \in Names : \A X \in SUBSET Names :
                      Root \in X /\ (\A x \in X : steps[x] \subseteq X) => n \in X}

\* The tool passes exactly if the model is exempt or finds its schema, and the
\* allowlist is the set of the real differences, less those it overlooks.  They
\* are: a field the schema knows nowhere, or of another family; or one that is
\* required through references and allOf alone, which the model lacks.  Overlooked
\* are the lacking ones that no schema has as a property, or that only schemas
\* without properties of their own require (a required list beside allOf alone is
\* not read, though the tool's documentation makes no such exception).
DriftIsAccounted ==
    input.tool = "fields" =>
        LET schemas == input.schemas
            reached == Reached([n \in Names |-> AnyWay(schemas[n])])
            sure == Reached([n \in Names |-> Sure(schemas[n])])
            known == UNION {schemas[n].props : n \in reached}
            needed == UNION {schemas[n].required : n \in sure}
            lacking == {a \in Aliases : input.fields[a] = Absent}
            real == (lacking \cap needed)
                    \cup {a \in Aliases \ lacking :
                             \/ a \notin known
                             \/ input.fields[a] \notin {"wildcard", Family[a]}
                                /\ Family[a] # "wildcard"}
            overlooked == {a \in lacking :
                              \/ a \notin known
                              \/ \A n \in sure : a \in schemas[n].required
                                                 => schemas[n].props = {}}
        IN  ~report.failed <=>
                \/ input.mapping = "exempt" /\ input.allow = {}
                \/ /\ input.mapping \in {"alias", "path_or_name"}
                   /\ input.allow = real \ overlooked

\* A change of a path that the code of a client's module calls is attributed to that
\* module, as long as no call is undeclared: the template drawn from the code and the
\* path of the specification, which are written differently, are covered alike.
CallsAreAttributed ==
    input.tool = "paths" /\ input.place = "client" /\ ~report.failed
    => "module" \in report.listed

\* The same of every call, wherever it is made, as the module's documentation and its
\* test have it: the test fails if the code calls an endpoint that the map cannot
\* attribute.
EveryCallIsAttributed ==
    input.tool = "paths" /\ ~report.failed => "module" \in report.listed
=============================================================================
