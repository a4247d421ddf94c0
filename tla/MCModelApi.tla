----------------------------- MODULE MCModelApi -----------------------------
(* ModelApi with the declared types a program of this framework uses, every *)
(* kind of JSON value, and two processes, one of them with two threads.     *)
EXTENDS ModelColumns, TLC

CONSTANTS t1, t2, t3, p1, p2

ThreadsC == {t1, t2, t3}
ProcessesC == {p1, p2}
ProcessOfC == t1 :> p1 @@ t2 :> p1 @@ t3 :> p2
MCSymmetry == Permutations({t1, t2})

Union(A, B) == <<"union", <<A, B>>>>
Nested == <<"model", "nested">>
Field(n, T, d) == [name |-> n, type |-> T, default |-> d]
Row(T) == <<Field("id", Optional(<<"int">>), None), Field("p", T, Required)>>
ModelsC ==
  [nested |-> <<Field("a", <<"int">>, Required), Field("b", <<"list", <<"str">>>>, <<"list", <<>>>>)>>,
   any |-> Row(<<"any">>), bool |-> Row(<<"bool">>), int |-> Row(<<"int">>), float |-> Row(<<"float">>),
   str |-> Row(<<"str">>), bytes |-> Row(<<"bytes">>), bare |-> Row(<<"class", "list">>), model |-> Row(Nested),
   optint |-> Row(Optional(<<"int">>)), optstr |-> Row(Optional(<<"str">>)), optbool |-> Row(Optional(<<"bool">>)),
   optlist |-> Row(Optional(<<"list", <<"int">>>>)), optmodel |-> Row(Optional(Nested)),
   intstr |-> Row(Union(<<"int">>, <<"str">>)), strint |-> Row(Union(<<"str">>, <<"int">>)),
   intfloat |-> Row(Union(<<"int">>, <<"float">>)), liststr |-> Row(Union(<<"list", <<"int">>>>, <<"str">>)),
   optintstr |-> Row(<<"union", <<<<"int">>, <<"str">>, NoneType>>>>),
   ints |-> Row(<<"list", <<"int">>>>), anys |-> Row(<<"list", <<"any">>>>), tuple |-> Row(<<"tuple", <<"int">>>>),
   set |-> Row(<<"set", <<"str">>>>), setany |-> Row(<<"set", <<"any">>>>), dict |-> Row(<<"dict", <<"float">>>>),
   rows |-> Row(<<"list", <<"tuple", <<"int">>>>>>), models |-> Row(<<"list", Nested>>), blobs |-> Row(<<"list", <<"bytes">>>>),
   optfloat |-> Row(Optional(<<"float">>)), optbytes |-> Row(Optional(<<"bytes">>)), pair |-> Row(<<"fixed", <<<<"int">>, <<"str">>>>>>),
   intnone |-> Row(<<"fixed", <<<<"int">>, NoneType>>>>), nones |-> Row(<<"list", NoneType>>), nonetuple |-> Row(<<"tuple", NoneType>>),
   dictnone |-> Row(<<"dict", NoneType>>), optdictnone |-> Row(Optional(<<"dict", NoneType>>)), mapping |-> Row(<<"mapping", <<"int">>>>)]
\* The types of the fields, and the types that they are made of.
Parts(S) ==
  S \cup {T[2] : T \in {U \in S : U[1] \in {"list", "tuple", "set", "dict", "mapping"}}}
    \cup UNION {Elements(T[2]) : T \in {U \in S : U[1] \in {"union", "fixed"}}}
TypesC ==
  Parts(Parts({ModelsC[m][i].type : m \in DOMAIN ModelsC, i \in {1, 2}})) \cup {<<"model", m>> : m \in DOMAIN ModelsC}
ClassesC == DOMAIN ModelsC \ {"nested"}

I(n) == <<"int", n>>
Word == Text(<<"word", "w">>)
Half == Text(<<"word", "s">>)
Sent ==
  {None, <<"bool", TRUE>>, <<"bool", FALSE>>, I(0), I(1), I(7), I(50), I(-1000), <<"float", 3>>, <<"float", -3>>,
   <<"float", 4>>, <<"inf">>, NaN, Half, Text(I(1000)), <<"list", <<NaN>>>>, <<"list", <<Half>>>>, <<"list", <<None, None>>>>,
   <<"list", <<I(1), Word>>>>, <<"dict", <<<<"a", None>>>>>>,
   Word, Text(I(1)), Text(I(7)), Text(<<"float", 3>>), Text(<<"bool", FALSE>>),
   <<"list", <<>>>>, <<"list", <<I(1)>>>>, <<"list", <<Text(I(7)), Word>>>>, <<"list", <<<<"list", <<I(1)>>>>>>>>,
   <<"list", <<<<"inf">>>>>>, <<"dict", <<>>>>, <<"dict", <<<<"a", I(1)>>>>>>, <<"list", <<<<"dict", <<<<"a", I(1)>>>>>>>>>>,
   <<"dict", <<<<"a", Text(I(7))>>, <<"b", <<"list", <<Word>>>>>>>>>>, <<"dict", <<<<"b", Word>>>>>>, <<"dict", <<<<"z", I(1)>>>>>>}
Body(v) == <<"dict", <<<<"p", v>>>>>>
BodiesC == {Body(v) : v \in Sent}
             \cup {None, <<"list", <<>>>>, <<"dict", <<>>>>, <<"dict", <<<<"p", I(1)>>, <<"q", I(1)>>>>>>}

RacedC == {<<"int", Body(I(7))>>}

ValuesC == {<<m, ValueAt(b[2], "p")>> : <<m, b>> \in ClassesC \X {Body(v) : v \in Sent}}
=============================================================================
