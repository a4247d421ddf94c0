------------------------------ MODULE OpenApi ------------------------------
(***************************************************************************)
(* The OpenAPI schema that is published for a dataclass (sovereign/        *)
(* validation.py: schema_for_type, schema_for_dataclass).  A schema is     *)
(* what it says: the set of the JSON documents that it admits.             *)
(***************************************************************************)
EXTENDS Validation

\* A document has no number that is infinite or none, though json.loads would
\* read one.
DocumentAround(S) ==
  {v \in JsonValues :
     /\ v[1] \notin {"inf", "nan"}
     /\ v[1] = "list" => Elements(v[2]) \subseteq S
     /\ v[1] = "dict" => \A i \in DOMAIN v[2] : v[2][i][2] \in S}
Document[n \in 0 .. MaxDepth] == IF n = 0 THEN DocumentAround({}) ELSE DocumentAround(Document[n - 1])
Documents == Document[MaxDepth]

Typed(tags) == {v \in Documents : v[1] \in tags}
ArrayOf(S) == {v \in Typed({"list"}) : Elements(v[2]) \subseteq S}
ObjectOf(S) == {v \in Typed({"dict"}) : \A i \in DOMAIN v[2] : v[2][i][2] \in S}

\* anyOf the alternatives, the single one, or anything; nullable with None.
SchemaForUnion(alternatives, schema) ==
  LET subs == Elements(alternatives) \ {NoneType}
  IN  {v \in Documents : \/ subs = {}
                         \/ \E A \in subs : v \in schema[A]
                         \/ NoneType \in Elements(alternatives) /\ v = None}

\* As a plausible bug would have it: additionalProperties is left out.
SchemaForDataclassOpen(m, schema) ==
  {v \in Typed({"dict"}) :
     /\ \A f \in Elements(Models[m]) : f.default = Required => f.name \in Keys(v[2])
     /\ \A f \in Elements(Models[m]) : f.name \in Keys(v[2]) => ValueAt(v[2], f.name) \in schema[f.type]}

\* The required properties are there, all are of their schema, no others.
SchemaForDataclass(m, schema) ==
  {v \in Typed({"dict"}) :
     /\ Keys(v[2]) \subseteq FieldNames(m)
     /\ \A f \in Elements(Models[m]) : f.default = Required => f.name \in Keys(v[2])
     /\ \A f \in Elements(Models[m]) : f.name \in Keys(v[2]) => ValueAt(v[2], f.name) \in schema[f.type]}

\* schema_for_type, when its nested calls return what schema says.
SchemaNested(schema) ==
  [T \in Types |->
     CASE T[1] = "any"                       -> Documents
       [] T[1] = "union"                     -> SchemaForUnion(T[2], schema)
       [] T[1] \in Sequenced                 -> ArrayOf(schema[T[2]])
       [] T[1] = "fixed"                     -> ArrayOf(schema[T[2][1]])
       [] T[1] = "dict"                      -> ObjectOf(schema[T[2]])
       [] T[1] = "model"                     -> SchemaForDataclass(T[2], schema)
       [] T[1] = "int"                       -> Typed({"int"})
       [] T[1] = "float"                     -> Typed({"int", "float"})
       [] T[1] = "bool"                      -> Typed({"bool"})
       [] OTHER                              -> Typed({"str"})]

\* The call that Python's recursion limit forbids publishes nothing.
SchemaNever == [T \in Types |-> {}]
Schema[n \in 0 .. MaxDepth] == IF n = 0 THEN SchemaNever ELSE SchemaNested(Schema[n - 1])

(***************************************************************************)
(* References: the documents without an integer that no float can hold and *)
(* without half of a surrogate pair; and the declarations whose schema     *)
(* says what the validator does: not so for a plain class or a type that   *)
(* it does not look into, which the schema calls strings, and for a set of *)
(* items that cannot be in a set.                                          *)
(***************************************************************************)
OrdinaryAround(S) ==
  {v \in Documents :
     /\ ~Lone(v)
     /\ v[1] = "int" => v[2] \in -MaxFloat .. MaxFloat
     /\ v[1] = "list" => Elements(v[2]) \subseteq S
     /\ v[1] = "dict" => \A i \in DOMAIN v[2] : v[2][i][2] \in S}
Ordinary[n \in 0 .. MaxDepth] == IF n = 0 THEN OrdinaryAround({}) ELSE OrdinaryAround(Ordinary[n - 1])

HashableTypeAround(S) ==
  {T \in Types : \/ T[1] \in Scalars \ {"any"} \/ T = NoneType
                 \/ T[1] = "union" /\ Elements(T[2]) \subseteq S
                 \/ T[1] = "tuple" /\ T[2] \in S}
HashableType[n \in 0 .. MaxDepth] == IF n = 0 THEN {} ELSE HashableTypeAround(HashableType[n - 1])

DocumentedAround(S) ==
  {T \in Types : \/ T[1] \in Scalars
                 \/ T[1] = "union" /\ \A A \in Elements(T[2]) : A = NoneType \/ A \in S
                 \/ T[1] = "set" /\ T[2] \in S /\ T[2] \in HashableType[MaxDepth]
                 \/ T[1] \in {"list", "tuple", "dict"} /\ T[2] \in S
                 \/ T[1] = "fixed" /\ T[2][1] \in S
                 \/ T[1] = "model" /\ \A f \in Elements(Models[T[2]]) : f.type \in S}
Documented[n \in 0 .. MaxDepth] == IF n = 0 THEN {} ELSE DocumentedAround(Documented[n - 1])
=============================================================================
