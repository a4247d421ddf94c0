----------------------------- MODULE OrmColumns -----------------------------
(***************************************************************************)
(* What a dataclass field becomes in its SQLite column and what is read    *)
(* back (orm.py: _sqlite_type, _encode, _decode), over the values of       *)
(* Validation.                                                             *)
(***************************************************************************)
EXTENDS Validation

CONSTANT MaxInteger     \* the largest integer that SQLite can hold, 2^63 - 1

ASSUME ColumnsAssumption == MaxInteger \in Nat

Ellipsis == <<"ellipsis">>

\* The arguments of a type, whatever generic it is.
Args(T) ==
  CASE T[1] \in {"union", "fixed"}           -> T[2]
    [] T[1] \in {"list", "set"}              -> <<T[2]>>
    [] T[1] = "tuple"                        -> <<T[2], Ellipsis>>
    [] T[1] \in {"dict", "mapping"}          -> <<<<"str">>, T[2]>>
    [] OTHER                                 -> <<>>
First(alternatives) ==
  alternatives[CHOOSE i \in DOMAIN alternatives :
                 alternatives[i] # NoneType /\ \A j \in 1 .. i - 1 : alternatives[j] = NoneType]
IsOptional(T) == NoneType \in Elements(Args(T))

\* A type with None among its arguments is taken for its first argument that
\* is not None, be it a union or not.
Bare(T) == IF IsOptional(T) THEN First(Args(T)) ELSE T

\* The column of a type, again and again of its first argument that is not
\* None: there may be no such argument (StopIteration), and then no table.
NoColumn == "none"
SqliteTypeNested(inner) ==
  [T \in Types \cup {<<"str">>, Ellipsis} |->
     IF IsOptional(T)
     THEN IF Elements(Args(T)) = {NoneType} THEN NoColumn ELSE inner[First(Args(T))]
     ELSE CASE T[1] \in {"int", "bool"}      -> "INTEGER"
            [] T[1] = "float"                -> "REAL"
            [] T[1] = "bytes"                -> "BLOB"
            [] OTHER                         -> "TEXT"]
SqliteTypes[n \in 0 .. MaxDepth] ==
  IF n = 0 THEN [T \in Types \cup {<<"str">>, Ellipsis} |-> NoColumn] ELSE SqliteTypeNested(SqliteTypes[n - 1])
SqliteType(T) == SqliteTypes[MaxDepth][T]

\* dataclasses.asdict turns objects into dicts at every depth; inner is what
\* it makes of what a value is made of.
AsDictNested(inner) ==
  [v \in PythonValues |->
     CASE v[1] = "obj"                       ->
            <<"dict", [i \in DOMAIN v[3] |-> <<Models[v[2]][i].name, inner[v[3][i]]>>]>>
       [] v[1] \in {"list", "tuple"}         -> <<v[1], [i \in DOMAIN v[2] |-> inner[v[2][i]]]>>
       [] v[1] = "dict"                      -> <<"dict", [i \in DOMAIN v[2] |-> <<v[2][i][1], inner[v[2][i][2]]>>]>>
       [] OTHER                              -> v]
AsDict[n \in 0 .. MaxNesting] == IF n = 0 THEN [v \in PythonValues |-> v] ELSE AsDictNested(AsDict[n - 1])

\* json.dumps writes a tuple as a list, and raises for sets and bytes; it
\* leaves half a surrogate pair as it is, and SQLite refuses the text.
DumpsNested(inner) ==
  [v \in PythonValues |->
     CASE v[1] \in {"list", "tuple"}         ->
            LET items == Collect([i \in DOMAIN v[2] |-> inner[v[2][i]]])
            IN  IF Failed(items) THEN items ELSE Ok(<<"list", items[2]>>)
       [] v[1] = "dict"                      ->
            LET items == Collect([i \in DOMAIN v[2] |-> inner[v[2][i][2]]])
            IN  IF Failed(items) THEN items
                ELSE Ok(<<"dict", [i \in DOMAIN v[2] |-> <<v[2][i][1], items[2][i]>>]>>)
       [] v[1] \in {"set", "bytes"} \/ Lone(v) -> Raised
       [] OTHER                              -> Ok(v)]
Dumps[n \in 0 .. MaxNesting] == IF n = 0 THEN [v \in PythonValues |-> Ok(v)] ELSE DumpsNested(Dumps[n - 1])

\* The parameter bound to the statement: an integer of more than 64 bits and
\* a text that UTF-8 cannot write raise.
EncodeValue(x) ==
  LET v    == AsDict[MaxNesting][x]
      json == Dumps[MaxNesting][v]
  IN  CASE v[1] \in {"dict", "list", "tuple", "set"} ->
             IF Failed(json) THEN json ELSE Ok(Text(<<"json", json[2]>>))
        [] v[1] = "bool"                     -> Ok(<<"int", IF v[2] THEN 1 ELSE 0>>)
        [] v[1] = "int" /\ v[2] \notin -MaxInteger - 1 .. MaxInteger -> Raised
        [] Lone(v)                           -> Raised
        [] OTHER                             -> Ok(v)

\* The type affinity of a column decides what SQLite keeps of a parameter,
\* and a NaN it keeps as NULL.
Affinity(v, column) ==
  LET n == IF v[1] = "str" /\ v[2][1] \in {"int", "float"} THEN v[2] ELSE v
  IN  IF v = NaN THEN None
      ELSE CASE column = "TEXT"    -> IF v[1] \in {"int", "float", "inf"} THEN Text(v) ELSE v
             [] column = "REAL"    -> IF n[1] = "int" THEN <<"float", 2 * n[2]>> ELSE n
             [] column = "INTEGER" -> IF n[1] = "float" /\ n[2] % 2 = 0 THEN <<"int", n[2] \div 2>> ELSE n
             [] column = "BLOB"    -> v

\* json.loads of what a column holds.
Loads(c) == IF c[1] = "str" /\ c[2][1] = "json" THEN Ok(c[2][2]) ELSE Raised

\* As a plausible bug would have it: only JSON columns are converted.
DecodeRaw(c, T) == IF c # None /\ ~Failed(Loads(c)) THEN Loads(c) ELSE Ok(c)

\* What _select makes of a column: an optional type is read as its first
\* alternative; a container is read from JSON, its items as JSON left them.
DecodeColumn(c, T) ==
  LET U    == Bare(T)
      data == Loads(c)
  IN  IF c = None THEN Ok(None)
      ELSE CASE U[1] = "bool"                -> Ok(<<"bool", c # <<"int", 0>>>>)
             [] U[1] = "int"                 -> CoerceInt(c)
             [] U[1] = "float"               -> CoerceFloat(c)
             [] U[1] \in Sequenced \cup {"dict", "fixed", "model"} ->
                  IF Failed(data) THEN data
                  ELSE Ok(CASE U[1] = "model" -> <<"obj", U[2], [i \in DOMAIN data[2][2] |-> data[2][2][i][2]]>>
                            [] U[1] \in {"tuple", "fixed"} -> <<"tuple", data[2][2]>>
                            [] U[1] = "set"   -> <<"set", Elements(data[2][2])>>
                            [] OTHER          -> data[2])
             [] OTHER                        -> Ok(c)

(***************************************************************************)
(* Reference: the declared types a column keeps.  A container keeps what   *)
(* JSON keeps, an optional type needs one alternative; Any and other       *)
(* unions meet the affinity of their column, a tuple or an object inside a *)
(* container comes back as list or dict, and sets cannot be written.  A     *)
(* container of nothing but None is taken for an optional type.            *)
(***************************************************************************)
PlainAround(S) ==
  {T \in Types : \/ T[1] \in {"any", "bool", "int", "float", "str"} \/ T = NoneType
                 \/ T[1] = "union" /\ Elements(T[2]) \subseteq S
                 \/ T[1] \in {"list", "dict"} /\ T[2] \in S}
Plain[n \in 0 .. MaxDepth] == IF n = 0 THEN {} ELSE PlainAround(Plain[n - 1])

StorableBare(T) ==
  \/ T[1] \in {"bool", "int", "float", "str", "bytes"}
  \/ T[1] \in {"list", "tuple", "dict"} /\ T[2] \in Plain[MaxDepth] \ {NoneType}
  \/ T[1] = "model" /\ \A f \in Elements(Models[T[2]]) :
                         f.type \in Plain[MaxDepth] /\ f.default \in {Required} \cup JsonValues
Storable(T) ==
  StorableBare(T) \/ (T[1] = "union" /\ Len(T[2]) = 2 /\ T[2][2] = NoneType /\ StorableBare(T[2][1]))
=============================================================================
