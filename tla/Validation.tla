----------------------------- MODULE Validation -----------------------------
(***************************************************************************)
(* Request validation (sovereign/validation.py): a JSON value is coerced   *)
(* to the declared type of a dataclass field.                              *)
(*                                                                         *)
(* A Python value is a pair of a tag and a payload.  A string is known by  *)
(* what it is the text of: <<"str", <<"int", 7>>>> is "7", and a string    *)
(* that reads as nothing is <<"str", <<"word", w>>>>.  Floats are counted  *)
(* in halves, so that truncation shows; <<"inf">> and <<"nan">> are        *)
(* float("inf") and float("nan"), which json.loads accepts.  An object     *)
(* keeps the order of its keys.                                            *)
(*                                                                         *)
(* A declared type is a tuple: <<"int">>, <<"list", T>>, <<"dict", T>>     *)
(* (keys are str, as in every JSON object), <<"union", <<T, ...>>>>,       *)
(* <<"class", tag>> for a plain class of which only values with that tag   *)
(* are instances (so <<"class", "none">> is None), <<"model", m>>.         *)
(* <<"tuple", T>> is tuple[T, ...], <<"fixed", <<T1, ...>>>> is            *)
(* tuple[T1, ...] of so many items.  <<"mapping", T>> is Mapping[str, T]:  *)
(* it stands for the types that the validator does not look into (Literal, *)
(* NewType, the generics of collections.abc).                              *)
(*                                                                         *)
(* What is recursive in the code is a recursive function of a number here: *)
(* of the nested calls that Python's recursion limit leaves, or of the     *)
(* depth to which values are nested.                                       *)
(***************************************************************************)
EXTENDS Integers, Sequences

CONSTANTS
  Models,               \* [class -> sequence of [name, type, default]]
  Types,                \* the declared types, and all that they are made of
  Words,                \* the strings that read as nothing
  Surrogates,           \* those with half of a surrogate pair, which JSON can escape and UTF-8 not write
  MaxFloat,             \* the largest integer that a float can hold, about 10^308
  MaxDepth              \* how deep calls and values can be nested

None == <<"none">>
NoneType == <<"class", "none">>
NaN == <<"nan">>
Required == <<"required">>              \* dataclasses.MISSING
Text(v) == <<"str", v>>                 \* str(v)
Lone(v) == v[1] = "str" /\ v[2] \in {"word"} \X Surrogates
Elements(s) == {s[i] : i \in DOMAIN s}
Optional(T) == <<"union", <<T, NoneType>>>>
Scalars == {"any", "bool", "int", "float", "str", "bytes"}
Sequenced == {"list", "tuple", "set"}

\* What is made of a value and a type is nested as deep as both together, and
\* once more for the object of a request.
MaxLevels == 2 * MaxDepth + 1
MaxNesting == MaxDepth + MaxLevels

\* The JSON values with at most n levels of nesting; a word is only met as
\* what a string holds.
JsonScalars ==
  {None, <<"inf">>, <<"nan">>} \cup ({"bool"} \X BOOLEAN) \cup ({"int", "float"} \X Int) \cup ({"word"} \X Words)
JsonAround(S) ==
  ({"str"} \X S) \cup ({"list"} \X Seq(S)) \cup ({"dict"} \X Seq(STRING \X S)) \cup S
Json[n \in 0 .. MaxNesting] == IF n = 0 THEN JsonScalars ELSE JsonAround(Json[n - 1])
JsonValues == Json[MaxDepth]

\* The Python values with at most n levels around JSON values.
PythonAround(S) ==
  ({"str", "bytes"} \X S) \cup ({"list", "tuple"} \X Seq(S)) \cup ({"set"} \X SUBSET S)
    \cup ({"dict"} \X Seq(STRING \X S)) \cup ({"obj"} \X (DOMAIN Models) \X Seq(S)) \cup S
Python[n \in 0 .. MaxLevels] == IF n = 0 THEN JsonValues ELSE PythonAround(Python[n - 1])
PythonValues == Python[MaxLevels]

\* What a call ends with: a value, a ValidationError, another exception.
Ok(v) == <<"ok", v>>
Invalid == <<"invalid">>
Raised == <<"raised">>
Failed(r) == r[1] # "ok"

\* The calls of a loop, in order: the first that fails ends it.
Collect(rs) ==
  LET bad == {i \in DOMAIN rs : Failed(rs[i])}
  IN  IF bad = {} THEN Ok([i \in DOMAIN rs |-> rs[i][2]])
      ELSE rs[CHOOSE i \in bad : \A j \in bad : i <= j]

(***************************************************************************)
(* _coerce_scalar                                                          *)
(***************************************************************************)
CoerceBool(v) ==
  CASE v[1] = "bool"                         -> Ok(v)
    [] v[1] = "str" /\ v[2][1] = "bool"      -> Ok(v[2])
    [] v = Text(<<"int", 1>>)                -> Ok(<<"bool", TRUE>>)
    [] v = Text(<<"int", 0>>)                -> Ok(<<"bool", FALSE>>)
    [] OTHER                                 -> Invalid

\* int() truncates toward zero and raises OverflowError, which is no
\* ValueError, for an infinite float; it does not read "1.5" or take a NaN.
CoerceInt(v) ==
  CASE v[1] = "int"                          -> Ok(v)
    [] v[1] = "float" /\ v[2] >= 0           -> Ok(<<"int", v[2] \div 2>>)
    [] v[1] = "float" /\ v[2] < 0            -> Ok(<<"int", -((-v[2]) \div 2)>>)
    [] v[1] = "str" /\ v[2][1] = "int"       -> Ok(v[2])
    [] v[1] = "inf"                          -> Raised
    [] OTHER                                 -> Invalid

\* float() raises OverflowError for an integer that no float can hold; given
\* as a text it reads as infinite.
CoerceFloat(v) ==
  LET n == IF v[1] = "str" THEN v[2] ELSE v
  IN  CASE n[1] \in {"float", "inf", "nan"}  -> Ok(n)
        [] n[1] = "int" /\ n[2] \in -MaxFloat .. MaxFloat -> Ok(<<"float", 2 * n[2]>>)
        [] n[1] = "int" /\ n[2] \notin -MaxFloat .. MaxFloat ->
             IF v[1] = "str" THEN Ok(<<"inf">>) ELSE Raised
        [] OTHER                             -> Invalid

\* encode("utf-8") raises UnicodeEncodeError, which is no ValidationError.
CoerceBytes(v) ==
  CASE Lone(v)                               -> Raised
    [] v[1] = "str" /\ ~Lone(v)              -> Ok(<<"bytes", v[2]>>)
    [] OTHER                                 -> Invalid

CoerceScalar(v, T) ==
  CASE T[1] = "any"                          -> Ok(v)
    [] T[1] = "bool"                         -> CoerceBool(v)
    [] T[1] = "int"                          -> CoerceInt(v)
    [] T[1] = "float"                        -> CoerceFloat(v)
    [] T[1] = "str"                          -> Ok(IF v[1] = "str" THEN v ELSE Text(v))
    [] T[1] = "bytes"                        -> CoerceBytes(v)
    [] T[1] = "class"                        -> IF v[1] = T[2] THEN Ok(v) ELSE Invalid
    [] T[1] = "mapping"                      -> Ok(v)

(***************************************************************************)
(* coerce_value and validate_model; coerce is what the nested calls do.    *)
(***************************************************************************)
\* The hashable values; hash() has no more levels to go than there are.
HashableAround(S) ==
  {v \in PythonValues :
     v[1] \notin {"list", "dict", "set", "obj"} /\ (v[1] = "tuple" => Elements(v[2]) \subseteq S)}
Hashable[n \in 0 .. MaxLevels] == IF n = 0 THEN {} ELSE HashableAround(Hashable[n - 1])

\* As plausible bugs would have it: None is tried like any other value, and
\* the first alternative that would do leaves the value as it came.
CoerceUnionNoneLast(v, alternatives, coerce) ==
  LET hits == {i \in DOMAIN alternatives : coerce[alternatives[i]][v] # Invalid}
  IN  IF hits = {} THEN Invalid ELSE coerce[alternatives[CHOOSE i \in hits : \A j \in hits : i <= j]][v]

CoerceUnionUncoerced(v, alternatives, coerce) ==
  IF \E A \in Elements(alternatives) : ~Failed(coerce[A][v]) THEN Ok(v) ELSE Invalid

\* The alternatives are tried from left to right; only a ValidationError
\* leads to the next one.
CoerceUnion(v, alternatives, coerce) ==
  LET subs == {i \in DOMAIN alternatives : alternatives[i] # NoneType}
      hits == {i \in subs : coerce[alternatives[i]][v] # Invalid}
  IN  IF v = None /\ NoneType \in Elements(alternatives) THEN Ok(None)
      ELSE IF hits = {} THEN Invalid
      ELSE coerce[alternatives[CHOOSE i \in hits : \A j \in hits : i <= j]][v]

\* A value that is no list stands for the list of itself; a tuple type
\* uses its first argument for every item, however many it has, and a set
\* needs hashable items.
CoerceItems(v, kind, T, coerce) ==
  LET given == IF v[1] = "list" THEN v[2] ELSE <<v>>
      items == Collect([i \in DOMAIN given |-> coerce[T][given[i]]])
  IN  IF Failed(items) THEN items
      ELSE IF kind # "set" THEN Ok(<<kind, items[2]>>)
      ELSE IF Elements(items[2]) \subseteq Hashable[MaxLevels] THEN Ok(<<"set", Elements(items[2])>>)
      ELSE Raised

CoerceDict(v, T, coerce) ==
  LET items == Collect([i \in DOMAIN v[2] |-> coerce[T][v[2][i][2]]])
  IN  IF v[1] # "dict" THEN Invalid
      ELSE IF Failed(items) THEN items
      ELSE Ok(<<"dict", [i \in DOMAIN v[2] |-> <<v[2][i][1], items[2][i]>>]>>)

Keys(pairs) == {pairs[i][1] : i \in DOMAIN pairs}
ValueAt(pairs, key) == pairs[CHOOSE i \in {j \in DOMAIN pairs : pairs[j][1] = key} : TRUE][2]
FieldNames(m) == {Models[m][i].name : i \in DOMAIN Models[m]}

CoerceField(f, pairs, coerce) ==
  IF f.name \in Keys(pairs) THEN coerce[f.type][ValueAt(pairs, f.name)]
  ELSE IF f.default = Required THEN Invalid ELSE Ok(f.default)

\* Unknown fields are refused first; then the fields in their order.
ValidateModel(m, pairs, coerce) ==
  LET fields == Collect([i \in DOMAIN Models[m] |-> CoerceField(Models[m][i], pairs, coerce)])
  IN  IF ~(Keys(pairs) \subseteq FieldNames(m)) THEN Invalid
      ELSE IF Failed(fields) THEN fields
      ELSE Ok(<<"obj", m, fields[2]>>)

\* coerce_value, when its nested calls return what coerce says.
CoerceNested(coerce) ==
  [T \in Types |-> [v \in JsonValues |->
     CASE T[1] = "union"                     -> CoerceUnion(v, T[2], coerce)
       [] T[1] \in Sequenced                 -> CoerceItems(v, T[1], T[2], coerce)
       [] T[1] = "fixed"                     -> CoerceItems(v, "tuple", T[2][1], coerce)
       [] T[1] = "dict"                      -> CoerceDict(v, T[2], coerce)
       [] T[1] = "model"                     -> IF v[1] = "dict" THEN ValidateModel(T[2], v[2], coerce) ELSE Invalid
       [] OTHER                              -> CoerceScalar(v, T)]]

\* The call that Python's recursion limit forbids raises RecursionError.
CoerceNever == [T \in Types |-> [v \in JsonValues |-> Raised]]
Coerce[n \in 0 .. MaxDepth] == IF n = 0 THEN CoerceNever ELSE CoerceNested(Coerce[n - 1])

\* validate_body: every failure, of whatever kind, is a 400, and the handler
\* runs with the validated object only.
ValidateBody(m, body) ==
  IF body[1] = "dict" THEN ValidateModel(m, body[2], Coerce[MaxDepth]) ELSE Invalid

\* validate_query: the parameters of the query string are strings.
ValidateQuery(m, pairs) ==
  LET text(v) == IF v[1] = "str" THEN v ELSE Text(v)
  IN  ValidateModel(m, [i \in DOMAIN pairs |-> <<pairs[i][1], text(pairs[i][2])>>], Coerce[MaxDepth])

(***************************************************************************)
(* References: which values are of a declared type, value and type nested  *)
(* to at most n levels; and the declarations that leave no choice between  *)
(* alternatives.                                                           *)
(***************************************************************************)
OfType(T, of) ==
  {v \in PythonValues :
     \/ T[1] = "any"
     \/ T[1] = "union" /\ \E A \in Elements(T[2]) : v \in of[A]
     \/ T[1] \in {"list", "tuple"} /\ v[1] = T[1] /\ Elements(v[2]) \subseteq of[T[2]]
     \/ T[1] = "set" /\ v[1] = "set" /\ v[2] \subseteq of[T[2]]
     \/ T[1] \in {"dict", "mapping"} /\ v[1] = "dict" /\ \A i \in DOMAIN v[2] : v[2][i][2] \in of[T[2]]
     \/ /\ T[1] = "fixed" /\ v[1] = "tuple" /\ Len(v[2]) = Len(T[2])
        /\ \A i \in DOMAIN T[2] : v[2][i] \in of[T[2][i]]
     \/ /\ T[1] = "model" /\ v[1] = "obj" /\ v[2] = T[2] /\ DOMAIN v[3] = DOMAIN Models[T[2]]
        /\ \A i \in DOMAIN Models[T[2]] : v[3][i] \in of[Models[T[2]][i].type]
     \/ T[1] = "class" /\ v[1] = T[2]
     \/ T[1] = "float" /\ v[1] \in {"float", "inf", "nan"}
     \/ T[1] \in {"bool", "int", "str", "bytes"} /\ v[1] = T[1]}
OfNested(of) == [T \in Types |-> OfType(T, of)]
OfNone == [T \in Types |-> {}]
Of[n \in 0 .. MaxLevels] == IF n = 0 THEN OfNone ELSE OfNested(Of[n - 1])

\* The declarations that the validator does not check in full: with a type
\* that it does not look into, or a tuple type of so many items.
UncheckedAround(S) ==
  {T \in Types :
     \/ T[1] \in {"fixed", "mapping"}
     \/ T[1] = "union" /\ \E A \in Elements(T[2]) : A \in S
     \/ T[1] \in Sequenced \cup {"dict"} /\ T[2] \in S
     \/ T[1] = "model" /\ \E f \in Elements(Models[T[2]]) : f.type \in S}
Unchecked[n \in 0 .. MaxLevels] == IF n = 0 THEN {} ELSE UncheckedAround(Unchecked[n - 1])

UnambiguousAround(S) ==
  {T \in Types :
     \/ T[1] \in Scalars \cup {"class", "model"}
     \/ T[1] = "union" /\ Len(T[2]) = 2 /\ T[2][2] = NoneType /\ T[2][1] \in S
     \/ T[1] \in Sequenced \cup {"dict"} /\ T[2] \in S}
Unambiguous[n \in 0 .. MaxDepth] == IF n = 0 THEN {} ELSE UnambiguousAround(Unambiguous[n - 1])

\* A scalar type, or an optional one, that is read back from the text of its
\* values.
ReadFromText(T) == (IF T[1] = "union" THEN T[2][1] ELSE T)[1] \in {"bool", "int", "float", "str"}

\* What a program's declarations are: unions of more than None (Union[None] is
\* None), dataclasses whose fields have a name of their own, a type, and a
\* default of that type if any.
ASSUME ValidationAssumption ==
  /\ MaxDepth \in Nat \ {0} /\ MaxFloat \in Nat /\ Surrogates \subseteq Words
  /\ \A T \in Types :
       \/ T[1] \in Scalars
       \/ T[1] = "class" /\ T[2] \in STRING
       \/ T[1] = "union" /\ T[2] \in Seq(Types) /\ Elements(T[2]) \ {NoneType} # {}
       \/ T[1] \in Sequenced \cup {"dict", "mapping"} /\ T[2] \in Types
       \/ T[1] = "fixed" /\ T[2] \in Seq(Types) \ {<<>>}
       \/ T[1] = "model" /\ T[2] \in DOMAIN Models
  /\ \A m \in DOMAIN Models :
       /\ <<"model", m>> \in Types
       /\ Models[m] \in Seq([name : STRING, type : Types, default : {Required} \cup Python[MaxDepth]])
       /\ \A i, j \in DOMAIN Models[m] : Models[m][i].name = Models[m][j].name => i = j
       /\ \A i \in DOMAIN Models[m] :
            Models[m][i].default # Required => Models[m][i].default \in Of[MaxDepth][Models[m][i].type]
=============================================================================
