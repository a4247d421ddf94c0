-------------------------- MODULE MCRequestReader --------------------------
EXTENDS RequestReader

Request(kind, fields, sizes, trailer) ==
  [kind |-> kind, fields |-> fields, sizes |-> sizes, trailer |-> trailer]

MCRequests ==
  { Request("length", 2, <<0>>, FALSE), Request("length", 0, <<2>>, FALSE),
    Request("length", 0, <<4>>, FALSE), Request("chunked", 0, <<1, 2>>, FALSE),
    Request("chunked", 0, <<2, 2>>, FALSE), Request("chunked", 0, <<1>>, TRUE),
    Request("invalid", 1, <<>>, FALSE), Request("junk", 0, <<>>, FALSE),
    Request("overrun", 0, <<1>>, FALSE), Request("length", 6, <<0>>, FALSE) }
=============================================================================
