--------------------------- MODULE RequestReader ---------------------------
(***************************************************************************)
(* SocketReader and parse_request of src/sovereign/parser.py, as the       *)
(* keep-alive loop of server.py uses them: a reader with a buffer and a    *)
(* deadline of its own for every request of the connection.                *)
(*                                                                         *)
(* The stream is made of tokens <<kind, n>>: what starts a head and tells  *)
(* its body, a header field, the blank line, a chunk size, a line end and  *)
(* a byte of a body.  Limits count tokens.                                 *)
(***************************************************************************)
EXTENDS Integers, Sequences

CONSTANTS
  Requests,            \* what the client may send: see Stream
  RecvSize,            \* most of one recv()
  MaxHead, MaxLine,    \* limits of a head, and of a line of a chunked body
  MaxBody,             \* max_body_bytes
  HeadIdle, BodyIdle,  \* idle timeouts of one recv()
  Absolute,            \* absolute_request_timeout
  MaxSent              \* bound: requests sent on the connection

ASSUME ReaderAssumption ==
  /\ \A n \in {RecvSize, HeadIdle, BodyIdle, Absolute} : n \in Nat \ {0}
  /\ MaxBody \in Nat /\ MaxSent \in Nat
  (* The blank line alone is within the limit of a head, and a line of a   *)
  (* chunked body may have 8192 bytes.                                     *)
  /\ MaxHead \in Nat \ {0} /\ MaxLine \in Nat \ {0}

(* What the client may send: a request is [kind, fields, sizes, trailer],  *)
(* with the size of its body, or the sizes of its chunks.                  *)
ASSUME RequestsAssumption ==
  \A r \in Requests :
    /\ r.kind \in {"length", "chunked", "invalid", "junk", "overrun"}
    /\ r.fields \in Nat /\ r.trailer \in BOOLEAN
    /\ r.sizes \in Seq(Nat)
    /\ r.kind \in {"length", "overrun"} => Len(r.sizes) = 1
    /\ r.kind \in {"chunked", "overrun"} => \A i \in DOMAIN r.sizes : r.sizes[i] # 0

VARIABLES
  sent, gone,       \* the client: its requests, and whether it has left
  wire,             \* what it has sent and the server has not received
  mode,             \* what parse_request reads, or what became of it
  status,           \* of the HTTPError that refused a request
  buffer, need,     \* of the reader; bytes that read_exact() has to return
  got,              \* the request so far
  age,              \* seconds since the reader was made
  receiving, left,  \* it is in recv(), which times out in so many seconds
  parsed,           \* the requests that were read
  firm              \* history: requests sent in order, see InOrder

sender == <<sent, gone, firm>>
result == <<status, parsed>>
reader == <<buffer, need, got>>
timing == <<age, receiving, left>>
readerVars == <<sender, wire, mode, result, reader, timing>>

Token(kind, n) == <<kind, n>>
Byte == Token("byte", 0)
Field == Token("field", 0)
LineEnd == Token("line", 0)
Blank == Token("blank", 0)  \* with the line end before it
Many(token, n) == [i \in 1..n |-> token]

Chunk(n) == <<Token("size", n), LineEnd>> \o Many(Byte, n) \o <<LineEnd>>

(* The end of a chunked body, behind the line of its last size.            *)
Ending(r) == (IF r.trailer THEN <<Field, LineEnd>> ELSE <<>>) \o <<LineEnd>>

(* A chunked body from its i-th chunk on.                                  *)
ChunksFrom(r) ==
  LET from[i \in 1..(Len(r.sizes) + 1)] ==
        IF i = Len(r.sizes) + 1 THEN <<Token("size", 0), LineEnd>> \o Ending(r)
                                ELSE Chunk(r.sizes[i]) \o from[i + 1]
  IN  from

(* A request on the wire.  Three kinds are malformed: a head that          *)
(* parse_header_block refuses, a chunk size that is no number, and a chunk *)
(* that is longer than its size.                                           *)
Framing(r) == IF r.kind = "length" THEN Token("length", r.sizes[1])
              ELSE Token(IF r.kind = "invalid" THEN "invalid" ELSE "chunked", 0)
HeadOf(r) == <<Framing(r)>> \o Many(Field, r.fields) \o <<Blank>>
BodyStream(r) ==
  CASE r.kind = "length"  -> Many(Byte, r.sizes[1])
    [] r.kind = "chunked" -> ChunksFrom(r)[1]
    [] r.kind = "junk"    -> Many(Field, r.fields + 4) \o <<LineEnd>>
    [] r.kind = "overrun" -> <<Token("size", r.sizes[1]), LineEnd>> \o Many(Byte, r.sizes[1] + 1)
    [] OTHER              -> <<>>
Stream(r) == HeadOf(r) \o BodyStream(r)

Nothing == [kind |-> "none", sizes |-> <<>>, total |-> 0]

ReaderInit ==
  /\ sent = <<>> /\ gone = FALSE /\ firm = 0 /\ wire = <<>>
  /\ mode = "head" /\ status = 0 /\ parsed = <<>>
  /\ buffer = <<>> /\ need = 0 /\ got = Nothing
  /\ age = 0 /\ receiving = FALSE /\ left = 0

Reading == {"head", "body", "size", "chunk", "end of chunk", "last"}
Lines == {"head", "size", "last"}

Marker == IF mode = "head" THEN Blank ELSE LineEnd
Limit == IF mode = "head" THEN MaxHead ELSE MaxLine
IdleTimeout == IF mode = "head" THEN HeadIdle ELSE BodyIdle
Least(m, n) == IF m < n THEN m ELSE n

(* The loop of _read_until, or of read_exact, has come to its end.         *)
Complete == IF mode \in Lines THEN (\E i \in DOMAIN buffer : buffer[i] = Marker) ELSE Len(buffer) >= need

Reject(code) == mode' = "refused" /\ status' = code

-----------------------------------------------------------------------------
(* _recv_some().                                                           *)

(* Mutant: the deadline is tested, and recv() may still wait past it.      *)
BeginRecvIdleOnly ==
  /\ mode \in Reading /\ ~Complete /\ ~receiving
  /\ IF mode \in Lines /\ Len(buffer) > Limit
     THEN Reject(431) /\ UNCHANGED timing
     ELSE IF age >= Absolute THEN Reject(408) /\ UNCHANGED timing
     ELSE receiving' = TRUE /\ left' = IdleTimeout /\ UNCHANGED <<mode, status, age>>
  /\ UNCHANGED <<sender, wire, reader, parsed>>

(* Mutant: the limit is not tested between two recv().                     *)
BeginRecvUnlimited ==
  /\ mode \in Reading /\ ~Complete /\ ~receiving
  /\ IF age >= Absolute
     THEN Reject(408) /\ UNCHANGED timing
     ELSE receiving' = TRUE /\ left' = Least(IdleTimeout, Absolute - age) /\ UNCHANGED <<mode, status, age>>
  /\ UNCHANGED <<sender, wire, reader, parsed>>

(* The limit of a line is tested before each recv() only, the deadline     *)
(* too, and the timeout of the socket is cut to what is left of it.        *)
BeginRecv ==
  /\ mode \in Reading /\ ~Complete /\ ~receiving
  /\ IF mode \in Lines /\ Len(buffer) > Limit
     THEN Reject(431) /\ UNCHANGED timing
     ELSE IF age >= Absolute THEN Reject(408) /\ UNCHANGED timing
     ELSE receiving' = TRUE /\ left' = Least(IdleTimeout, Absolute - age) /\ UNCHANGED <<mode, status, age>>
  /\ UNCHANGED <<sender, wire, reader, parsed>>

(* Whatever has arrived, in whatever pieces.                               *)
Receive ==
  /\ receiving /\ receiving' = FALSE /\ left' = 0
  /\ \E k \in 1..Least(RecvSize, Len(wire)) :
       /\ buffer' = buffer \o SubSeq(wire, 1, k)
       /\ wire' = SubSeq(wire, k + 1, Len(wire))
  /\ UNCHANGED <<sender, mode, result, need, got, age>>

RecvTimeout ==
  /\ receiving /\ left = 0
  /\ receiving' = FALSE /\ Reject(408)
  /\ UNCHANGED <<sender, wire, reader, parsed, age, left>>

(* The end of the stream (ClientClosed), or the error of a reset one.      *)
StreamEnds ==
  /\ receiving /\ gone
  /\ receiving' = FALSE /\ left' = 0 /\ mode' = "closed"
  /\ UNCHANGED <<sender, wire, reader, result, age>>

-----------------------------------------------------------------------------
(* parse_request().                                                        *)

(* buffer without its first line, and without its first n tokens.          *)
Rest(n) == SubSeq(buffer, n + 1, Len(buffer))
LineLength == CHOOSE i \in DOMAIN buffer :
                buffer[i] = Marker /\ \A j \in 1..(i - 1) : buffer[j] # Marker
Line == SubSeq(buffer, 1, LineLength - 1)

Expect(m, n) == mode' = m /\ need' = n /\ UNCHANGED result

(* The request is complete.                                                *)
Done(request) == mode' = "serve" /\ need' = 0 /\ parsed' = Append(parsed, request) /\ UNCHANGED status

Abort(code) == Reject(code) /\ UNCHANGED <<need, parsed>>

(* What the head says of the body.                                         *)
BodyOf(start, kind) ==
  /\ got' = [Nothing EXCEPT !.kind = kind]
  /\ \/ start[1] = "chunked" /\ Expect("size", 0)
     \/ start[1] = "length" /\ start[2] = 0 /\ Done([kind |-> kind, sizes |-> <<0>>, total |-> 0])
     \/ start[1] = "length" /\ start[2] > MaxBody /\ Abort(413)
     \/ start[1] = "length" /\ start[2] \in 1..MaxBody /\ Expect("body", start[2])

(* Behind what another reader has left of a request, the head of the next  *)
(* is refused, or its request line has bytes of a body in front of it.     *)
ParseHead ==
  /\ mode = "head" /\ Complete
  /\ buffer' = Rest(LineLength)
  /\ LET starts == {i \in DOMAIN Line : Line[i][1] \in {"length", "chunked"}} IN
     \/ 1 \in starts /\ BodyOf(Line[1], Line[1][1])
     \/ 1 \notin starts /\ Abort(400) /\ UNCHANGED got
     \/ \E i \in starts \ {1} :
          /\ \A j \in 1..(i - 1) : Line[j] = Byte
          /\ BodyOf(Line[i], "garbled")
  /\ UNCHANGED <<sender, wire, timing>>

ReadBody ==
  /\ mode = "body" /\ Complete
  /\ buffer' = Rest(need)
  /\ Done([got EXCEPT !.sizes = <<need>>, !.total = need])
  /\ UNCHANGED <<sender, wire, got, timing>>

(* The number in a line of a chunked body; -1 is none.                     *)
Size == IF Len(Line) = 1 /\ Line[1][1] = "size" THEN Line[1][2] ELSE -1

(* The next chunk follows, if the body does not grow too long by it.       *)
Grow ==
  /\ got' = [got EXCEPT !.total = @ + Size]
  /\ IF got'.total > MaxBody THEN Abort(413) ELSE Expect("chunk", Size)

(* Mutant: the last size ends the body, and the line behind it stays.      *)
ReadSizeIsLast ==
  /\ mode = "size" /\ Complete
  /\ buffer' = Rest(LineLength)
  /\ \/ Size = -1 /\ Abort(400) /\ UNCHANGED got
     \/ Size = 0 /\ Done(got) /\ UNCHANGED got
     \/ Size > 0 /\ Grow
  /\ UNCHANGED <<sender, wire, timing>>

(* The size of the next chunk, or the last one.                            *)
ReadSize ==
  /\ mode = "size" /\ Complete
  /\ buffer' = Rest(LineLength)
  /\ \/ Size = -1 /\ Abort(400) /\ UNCHANGED got
     \/ Size = 0 /\ Expect("last", 0) /\ UNCHANGED got
     \/ Size > 0 /\ Grow
  /\ UNCHANGED <<sender, wire, timing>>

ReadChunk ==
  /\ mode = "chunk" /\ Complete
  /\ buffer' = Rest(need)
  /\ got' = [got EXCEPT !.sizes = Append(@, need)]
  /\ Expect("end of chunk", 1)
  /\ UNCHANGED <<sender, wire, timing>>

EndOfChunk ==
  /\ mode = "end of chunk" /\ Complete
  /\ buffer' = Rest(1)
  /\ IF buffer[1] = LineEnd THEN Expect("size", 0)
                            ELSE Abort(400)
  /\ UNCHANGED <<sender, wire, got, timing>>

(* One line behind the last chunk: the blank one, or the first of trailers. *)
ReadLast ==
  /\ mode = "last" /\ Complete
  /\ buffer' = Rest(LineLength)
  /\ Done(got)
  /\ UNCHANGED <<sender, wire, got, timing>>

(* The response is written.  The next request has a new reader, and what   *)
(* this one has in its buffer goes with it; or the connection is closed.   *)
Respond ==
  /\ mode = "serve"
  /\ \/ mode' = "head" /\ age' = 0
     \/ mode' = "closed" /\ UNCHANGED age
  /\ buffer' = <<>> /\ need' = 0 /\ got' = Nothing
  /\ UNCHANGED <<sender, wire, result, receiving, left>>

-----------------------------------------------------------------------------
(* The client, and time.                                                   *)

(* A request is sent in order if the response to every one before it has   *)
(* been written and none of them had trailers.                             *)
InOrder ==
  /\ firm = Len(sent) /\ Len(parsed) = Len(sent) /\ mode # "serve"
  /\ \A i \in DOMAIN sent : ~sent[i].trailer

SendRequest ==
  /\ ~gone /\ mode \in Reading \cup {"serve"} /\ Len(sent) < MaxSent
  /\ \E r \in Requests :
       /\ sent' = Append(sent, r)
       /\ wire' = wire \o Stream(r)
       /\ firm' = IF InOrder THEN firm + 1 ELSE firm
  /\ UNCHANGED <<gone, mode, result, reader, timing>>

(* It leaves, perhaps in the middle of a request.                          *)
Quit ==
  /\ ~gone /\ gone' = TRUE
  /\ \E k \in 0..Len(wire) : wire' = SubSeq(wire, 1, k)
  /\ UNCHANGED <<sent, firm, mode, result, reader, timing>>

TimePasses ==
  /\ mode \in Reading /\ (receiving => left > 0)
  /\ age' = IF age < Absolute THEN age + 1 ELSE age
  /\ left' = IF receiving THEN left - 1 ELSE left
  /\ UNCHANGED <<sender, wire, mode, result, reader, receiving>>

RecvSome == BeginRecv \/ Receive \/ RecvTimeout \/ StreamEnds
ParseRequest == ParseHead \/ ReadBody \/ ReadSize \/ ReadChunk \/ EndOfChunk \/ ReadLast

ReaderNext == RecvSome \/ ParseRequest \/ Respond \/ SendRequest \/ Quit \/ TimePasses

ReaderSpec == ReaderInit /\ [][ReaderNext]_readerVars

-----------------------------------------------------------------------------
(* Properties.                                                             *)

Greatest(S) == CHOOSE n \in S : \A m \in S : m <= n

(* Types.  The limit of a line is tested between two recv() only, so the   *)
(* buffer may pass it by one recv(), and no more; the declared sizes of a  *)
(* body never pass max_body_bytes.                                         *)
TypeOK ==
  /\ mode \in Reading \cup {"serve", "refused", "closed"}
  /\ status \in {0, 400, 408, 413, 431} /\ (status # 0) = (mode = "refused")
  /\ Len(buffer) <= Greatest({MaxHead, MaxLine, MaxBody}) + RecvSize
  /\ mode \in Reading => got.total <= MaxBody
  /\ age \in 0..Absolute /\ left \in 0..Greatest({HeadIdle, BodyIdle})
  /\ receiving \in BOOLEAN /\ (receiving => mode \in Reading)
  /\ firm <= Len(sent) /\ Len(sent) <= MaxSent

(* However a client spreads its bytes, no recv() waits past the absolute   *)
(* deadline of the request, whichever idle timeout it is given.            *)
DeadlineKept == receiving => age + left <= Absolute

(* The sum of sizes, from the i-th on.                                     *)
SumFrom(sizes) ==
  LET from[i \in 1..(Len(sizes) + 1)] ==
        IF i = Len(sizes) + 1 THEN 0 ELSE sizes[i] + from[i + 1]
  IN  from
BodySize(sizes) == SumFrom(sizes)[1]

(* What parse_request() should answer to r, if it was sent in order.       *)
Meant(r) == [kind |-> r.kind, sizes |-> r.sizes, total |-> BodySize(r.sizes)]

Deserved(r) ==
  CASE status = 400 -> r.kind \in {"invalid", "junk", "overrun"}
    [] status = 413 -> BodySize(r.sizes) > MaxBody
    [] status = 431 -> r.kind = "junk" \/ r.fields + 2 > MaxHead
    [] OTHER        -> TRUE

(* Whatever the pieces it arrives in, a request that was sent in order is  *)
(* parsed as it was meant, one after the other, and none is refused for a  *)
(* fault it has not: each parse consumes its request to the last byte.     *)
ParsedAsSent ==
  /\ \A i \in DOMAIN parsed : i <= firm => parsed[i] = Meant(sent[i])
  /\ firm = Len(sent) =>
       /\ Len(parsed) <= Len(sent)
       /\ status \in {400, 413, 431} => Len(parsed) < Len(sent) /\ Deserved(sent[Len(parsed) + 1])
=============================================================================
