------------------------------ MODULE SqliteOrm ------------------------------
(***************************************************************************)
(* The dataclass ORM (sovereign/orm.py): threads of several processes work *)
(* with objects that stand for rows of one SQLite table.  Every statement  *)
(* commits by itself; the lock of an ORM object excludes the threads of    *)
(* its own process only.  save() is an UPDATE and, when no row was hit, an *)
(* INSERT with the id the object has.                                      *)
(*                                                                         *)
(* An object carries, besides its id and its field values, the number of   *)
(* the insertion it goes back to (origin): a copy read by get() shares it. *)
(* Keys are given by AUTOINCREMENT; a program that chooses keys itself is  *)
(* not modelled.                                                           *)
(***************************************************************************)
EXTENDS Integers, FiniteSets

CONSTANTS
  Threads,
  Processes,
  ProcessOf,            \* [Threads -> Processes]
  Values,               \* the field values of objects
  Encode(_),            \* the columns of field values
  Decode(_),            \* the field values read from columns
  Writable(_),          \* _encode does not raise for these field values
  Readable(_),          \* _decode does not raise for these columns
  MaxOps                \* bound: how many calls are made

ASSUME OrmAssumption ==
  ProcessOf \in [Threads -> Processes] /\ MaxOps \in Nat /\ "nobody" \notin Threads

VARIABLES
  table,        \* [rowid -> [columns, saved, origin, by]]
  sequence,     \* sqlite_sequence: the largest rowid ever used
  object,       \* the object a thread works with
  missed,       \* the threads whose UPDATE of save() hit no row
  holder,       \* the thread that holds the lock of a process's ORM object
  conflict,     \* for a thread whose save() met an IntegrityError: who had inserted the row
  ops           \* calls begun

ormVars == <<table, sequence, object, missed, holder, conflict, ops>>

Nobody == "nobody"
NoObject == [id |-> 0, origin |-> 0]
Ids == 1..MaxOps

OrmInit ==
  /\ table = [i \in {} |-> NoObject]
  /\ sequence = 0
  /\ object = [t \in Threads |-> NoObject]
  /\ missed = {}
  /\ holder = [p \in Processes |-> Nobody]
  /\ conflict = [t \in Threads |-> Nobody]
  /\ ops = 0

\* A call of a thread that is in none: the RLock of its ORM object is free.
Call(t) ==
  /\ ops < MaxOps /\ ops' = ops + 1
  /\ t \notin missed
  /\ holder[ProcessOf[t]] = Nobody

\* A row: its columns; of which values they are, which insertion it goes back
\* to, and which thread inserted it.
RowOf(v, origin, by) == [columns |-> Encode(v), saved |-> v, origin |-> origin, by |-> by]

Put(i, row) == table' = [j \in DOMAIN table \cup {i} |-> IF j = i THEN row ELSE table[j]]
Overwrite(i, v) == Put(i, RowOf(v, table[i].origin, table[i].by))
Drop(i) == table' = [j \in DOMAIN table \ {i} |-> table[j]]

\* As a plausible bug would have it (INTEGER PRIMARY KEY alone): one more
\* than the largest rowid in the table.
NextIdReused == 1 + (IF DOMAIN table = {} THEN 0 ELSE CHOOSE i \in DOMAIN table : \A j \in DOMAIN table : j <= i)

NextId == sequence + 1

\* insert(): an object without a key gets the next one from the table.
Insert(t, v) ==
  /\ Call(t)
  /\ Writable(v)
  /\ Put(NextId, RowOf(v, ops + 1, t))
  /\ sequence' = IF NextId > sequence THEN NextId ELSE sequence
  /\ object' = [object EXCEPT ![t] = [id |-> NextId, value |-> v, origin |-> ops + 1]]
  /\ UNCHANGED <<missed, holder, conflict>>

\* The fields of an object are plain attributes: the program sets them.
SaveChanged(t, v) == [id |-> object[t].id, value |-> v, origin |-> object[t].origin]

\* As a plausible bug would have it: the lock covers the UPDATE only.
SaveUpdateUnlocked(t, v) ==
  /\ Call(t)
  /\ object[t] # NoObject /\ Writable(v)
  /\ object' = [object EXCEPT ![t] = SaveChanged(t, v)]
  /\ IF object[t].id \in DOMAIN table
     THEN Overwrite(object[t].id, v) /\ UNCHANGED missed
     ELSE missed' = missed \cup {t} /\ UNCHANGED table
  /\ UNCHANGED <<sequence, holder, conflict>>

\* save(), the UPDATE: when it hit no row, the lock stays held.
SaveUpdate(t, v) ==
  /\ Call(t)
  /\ object[t] # NoObject /\ Writable(v)
  /\ object' = [object EXCEPT ![t] = SaveChanged(t, v)]
  /\ IF object[t].id \in DOMAIN table
     THEN /\ Overwrite(object[t].id, v)
          /\ UNCHANGED <<missed, holder>>
     ELSE /\ missed' = missed \cup {t}
          /\ holder' = [holder EXCEPT ![ProcessOf[t]] = t]
          /\ UNCHANGED table
  /\ UNCHANGED <<sequence, conflict>>

\* save(), the INSERT with the key of the object: a row that came into being
\* meanwhile makes it an IntegrityError; the lock is released either way.
SaveInsert(t) ==
  /\ t \in missed /\ missed' = missed \ {t}
  /\ holder' = [holder EXCEPT ![ProcessOf[t]] = Nobody]
  /\ IF object[t].id \in DOMAIN table
     THEN conflict' = [conflict EXCEPT ![t] = table[object[t].id].by] /\ UNCHANGED <<table, sequence>>
     ELSE /\ Put(object[t].id, RowOf(object[t].value, object[t].origin, t))
          /\ sequence' = IF object[t].id > sequence THEN object[t].id ELSE sequence
          /\ UNCHANGED conflict
  /\ UNCHANGED <<object, ops>>

\* delete(): the object keeps its id, and a later save() brings the row back.
Delete(t) ==
  /\ Call(t)
  /\ object[t] # NoObject /\ Drop(object[t].id)
  /\ UNCHANGED <<sequence, object, missed, holder, conflict>>

\* get(): a row that cannot be decoded raises, and leaves the caller without.
Get(t, i) ==
  /\ Call(t)
  /\ i \in DOMAIN table /\ Readable(table[i].columns)
  /\ object' = [object EXCEPT ![t] =
                  [id |-> i, value |-> Decode(table[i].columns), origin |-> table[i].origin]]
  /\ UNCHANGED <<table, sequence, missed, holder, conflict>>

OrmNext == \E t \in Threads :
  \/ \E v \in Values : Insert(t, v) \/ SaveUpdate(t, v)
  \/ SaveInsert(t)
  \/ Delete(t)
  \/ \E i \in Ids : Get(t, i)

OrmSpec == OrmInit /\ [][OrmNext]_ormVars

OrmTypeOK ==
  /\ DOMAIN table \subseteq 1..sequence
  /\ \A i \in DOMAIN table : table[i].origin \in 1..ops /\ table[i].by \in Threads
  /\ sequence \in 0..MaxOps
  /\ \A t \in Threads :
       object[t] = NoObject \/ (object[t].id \in 1..sequence /\ object[t].origin \in 1..ops)
  /\ missed \subseteq Threads
  /\ holder \in [Processes -> Threads \cup {Nobody}]
  /\ conflict \in [Threads -> Threads \cup {Nobody}]
  /\ ops \in 0..MaxOps

\* A stale object never stands for another object's row: when its row was
\* deleted, by whichever process, its id is either gone or names a row that
\* goes back to the same insertion (AUTOINCREMENT, orm.py:139).
RowIdentity ==
  \A t \in Threads :
    object[t] # NoObject /\ object[t].id \in DOMAIN table
      => table[object[t].id].origin = object[t].origin

\* save() can fail with an IntegrityError only because of another process:
\* between its UPDATE and its INSERT no thread of the same process gets in
\* (orm.py:181, the RLock is held over both).
ConflictIsForeign ==
  \A t \in Threads : conflict[t] # Nobody => ProcessOf[conflict[t]] # ProcessOf[t]
=============================================================================
