---------------------------- MODULE ModelColumns ----------------------------
(***************************************************************************)
(* ModelApi with the columns of its classes (OrmColumns) and the schemas   *)
(* that are published for them (OpenApi).                                  *)
(***************************************************************************)
EXTENDS ModelApi, OpenApi, OrmColumns

\* A value that stands in the attribute p knows its class.
EncodeP(x) == <<x[1], Affinity(EncodeValue(x[2])[2], SqliteType(TypeOfP(x[1])))>>
WritableP(x) == SqliteType(TypeOfP(x[1])) # NoColumn /\ ~Failed(EncodeValue(x[2]))
DecodeP(c) == <<c[1], DecodeColumn(c[2], TypeOfP(c[1]))[2]>>
ReadableP(c) == ~Failed(DecodeColumn(c[2], TypeOfP(c[1])))

\* Every body that the published OpenAPI schema of a class admits is accepted
\* by the validator of that class (validation.py:106 and 179), unless it holds
\* an integer that no float can hold, for which line 44 raises OverflowError,
\* or half of a surrogate pair, for which line 55 raises UnicodeEncodeError.
DocumentedIsAccepted ==
  LET T == <<"model", cls>>
  IN  T \in Documented[MaxDepth] /\ body \in Schema[MaxDepth][T] /\ body \in Ordinary[MaxDepth]
        => ~Failed(Validated)

\* A row reads back as the value that was saved, for every declared type that
\* a column can keep (orm.py:11-62), unless that value is a NaN itself, which
\* SQLite keeps as NULL.
LoadedAsSaved ==
  Storable(TypeOfP(cls)) =>
    \A i \in DOMAIN table : table[i].saved[2] # NaN =>
      ReadableP(table[i].columns) /\ DecodeP(table[i].columns) = table[i].saved
=============================================================================
