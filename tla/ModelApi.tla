------------------------------ MODULE ModelApi ------------------------------
(***************************************************************************)
(* A resource with a validated body and a table: a request is validated    *)
(* into an object of a dataclass (Validation), the object is inserted,     *)
(* saved, read and deleted by threads of several processes (SqliteOrm).    *)
(* Every class of the table has the fields id and p; the type of p, and    *)
(* the body of the request, are chosen at the start.                       *)
(***************************************************************************)
EXTENDS SqliteOrm, Validation

CONSTANTS
  Classes,      \* the table classes, a subset of DOMAIN Models
  Bodies,       \* the bodies that are sent
  Raced         \* bound: the <<class, body>> for which MaxOps calls are made, and one for the others

VARIABLES cls, body

\* The classes of the table, whose key has a default and whose p is required,
\* and what a request can hold.
ASSUME ApiAssumption ==
  /\ Bodies \subseteq JsonValues
  /\ \A m \in Classes : /\ m \in DOMAIN Models /\ Len(Models[m]) = 2
                         /\ Models[m][1].name = "id" /\ Models[m][1].default # Required
                         /\ Models[m][2].name = "p" /\ Models[m][2].default = Required

TypeOfP(m) == Models[m][2].type

Validated == ValidateBody(cls, body)
Payload(r) == <<cls, r[2][3][2]>>

ApiInit == OrmInit /\ cls \in Classes /\ body \in Bodies

\* POST: a body that is refused is answered with 400 and leaves no trace, an
\* object that cannot be written ends in an exception before the statement.
Create(t) == ~Failed(Validated) /\ Insert(t, Payload(Validated))

\* PUT: the object is saved as it is, or with the validated value.
Save(t) ==
  \/ object[t] # NoObject /\ SaveUpdate(t, object[t].value)
  \/ ~Failed(Validated) /\ SaveUpdate(t, Payload(Validated))

ApiNext ==
  /\ ops < (IF <<cls, body>> \in Raced THEN MaxOps ELSE 1) \/ missed # {}
  /\ \E t \in Threads : \/ Create(t) \/ Save(t) \/ SaveInsert(t) \/ Delete(t)
                        \/ \E i \in Ids : Get(t, i)
  /\ UNCHANGED <<cls, body>>

ApiSpec == ApiInit /\ [][ApiNext]_<<ormVars, cls, body>>

\* What a handler gets has the declared type in every field, at every depth,
\* whatever was sent, when the validator looks into the types that are declared
\* (validation.py:63-123): not so for tuple[T1, ...] of so many items, which
\* line 83 reads as items of T1, and for what line 61 returns as it came.
CoercedConforms ==
  LET T == <<"model", cls>>
  IN  ~Failed(Validated) /\ T \notin Unchecked[MaxLevels] => Validated[2] \in Of[MaxLevels][T]

\* A value that has the declared type already comes through unchanged, from
\* JSON and, for scalars, from the text it has in a query string; unions that
\* leave a choice excepted (validation.py:67-78, 144-152).
ConformingKept ==
  LET T == TypeOfP(cls)
      v == ValueAt(body[2], "p")
  IN  body[1] = "dict" /\ Keys(body[2]) = {"p"} /\ v \in Of[MaxDepth][T] /\ T \in Unambiguous[MaxDepth]
        => /\ ~Failed(Validated) /\ Validated[2][3][2] = v
           /\ ReadFromText(T) /\ v # None => ValidateQuery(cls, body[2]) = Validated
=============================================================================
