---------------------------- MODULE AssetDelivery ----------------------------
(***************************************************************************)
(* Delivery of files to browsers: the routes of HTML5App.mount, the        *)
(* handler serve_html5_file and the static handler (html5.py, static.py),  *)
(* and the compression middlewares around them (middleware.py).  A request *)
(* locates a file, takes its ETag from a stat, and reads it, each in a     *)
(* step of its own, while an upload is saved in place                      *)
(* (UploadedFile.save: truncate, then chunk after chunk) or a file is      *)
(* removed.  One client keeps what it got for one URL: the last full copy, *)
(* which it revalidates with If-None-Match, and a download it puts         *)
(* together from byte ranges.                                              *)
(*                                                                         *)
(* A file is its modification time and its chunks; every write advances    *)
(* the time, and its chunk is one no other write wrote.                    *)
(*                                                                         *)
(* An Accept-Encoding header is the set of its entries: the coding, if it  *)
(* is spelled in lower case, and its weight, which the code does not look  *)
(* at: "gzip;q=0" has a weight of 0 and refuses gzip.                      *)
(***************************************************************************)
EXTENDS Integers, Sequences

CONSTANTS
  Ranges,               \* Range headers: NoRange, <<"span", a, b>>, <<"open", a>>, <<"suffix", k>>, <<"bad">>
  Accepts,              \* Accept-Encoding headers
  Chains,               \* the middlewares that are registered: sequences, outermost first
  MinSize,              \* chunks from which a body is worth compressing
  MaxSaves, MaxRequests \* bounds: how many changes of files, how many requests

ASSUME DeliveryAssumption ==
  /\ MinSize \in Nat \ {0} /\ MaxSaves \in Nat /\ MaxRequests \in Nat
  /\ Accepts \subseteq SUBSET [coding : {"gzip", "deflate"}, lower : BOOLEAN, weight : {0, 1}]
  /\ Chains \subseteq Seq({"gzip", "compression"})
  /\ \A r \in Ranges : (r[1] \in {"span", "open", "suffix"} => r[2] \in Nat) /\ (r[1] = "span" => r[3] \in Nat)

VARIABLES
  files,        \* [Files -> Absent or [mtime, data]]
  clock,        \* the latest modification time
  saving,       \* NotSaving, or the file that is being saved and the chunks left
  url, chain,   \* what is requested, and the middlewares, outermost first
  request,      \* Idle, or the request in progress
  response,     \* NoResponse, or the last one, until the next request
  copy,         \* NoCopy, or the last full response of the client
  download,     \* NoDownload, or the parts the client has under one tag
  saves, requests

deliveryVars == <<files, clock, saving, url, chain, request, response, copy, download, saves, requests>>

Files == {"index", "page", "asset"}
Urls == {"page", "asset", "static"}
Absent == [mtime |-> 0]
NoTag == <<0, 0>>
NotSaving == [file |-> "none"]
NoRange == <<"none">>
\* codings: how the body is encoded; encoding: the Content-Encoding header;
\* length: the encodings of the body under which Content-Length was measured.
Unset == "unset"                \* a header that is not there
Idle == [step |-> "idle", inm |-> NoTag, target |-> "none", tag |-> NoTag, seen |-> <<>>]
NoResponse == [status |-> 0, from |-> "none", tag |-> NoTag, data |-> <<>>, span |-> <<0, 0>>, size |-> 0,
               codings |-> <<>>, encoding |-> Unset, length |-> {}, accept |-> {}]
NoCopy == [tag |-> NoTag, data |-> <<>>]
NoDownload == [tag |-> NoTag, size |-> 0, parts |-> <<>>, seen |-> <<>>, torn |-> FALSE]

(***************************************************************************)
(* Routing: the routes in the order of their registration, the first that  *)
(* matches is taken.  The pages' pattern matches every path, so a missing  *)
(* asset is a 404 only because the assets' route comes before it.          *)
(***************************************************************************)
\* As a plausible bug would have it: the pages are mounted first.
RoutesPagesFirst == <<[name |-> "page", matches |-> {"page", "asset"}], [name |-> "asset", matches |-> {"asset"}]>>

Routes == <<[name |-> "asset", matches |-> {"asset"}], [name |-> "page", matches |-> {"page", "asset"}]>>

\* Paths under /static/ do not go through the routes.
Handler == IF url = "static" THEN "static"
           ELSE LET first == CHOOSE i \in DOMAIN Routes :
                               url \in Routes[i].matches /\ \A j \in 1..(i - 1) : url \notin Routes[j].matches
                IN  Routes[first].name
FileOf == IF url = "page" THEN "page" ELSE "asset"
SpaFallback == Handler = "page"

\* As a plausible bug would have it: the time in whole seconds.
ETagCoarse(f) == <<files[f].mtime \div 4, Len(files[f].data)>>

ETag(f) == <<files[f].mtime, Len(files[f].data)>>

(***************************************************************************)
(* Writers                                                                 *)
(***************************************************************************)
\* UploadedFile.save opens with "wb": the file exists, and is empty.
SaveStart(f, n) ==
  /\ saves < MaxSaves /\ saving = NotSaving
  /\ files' = [files EXCEPT ![f] = [mtime |-> clock + 1, data |-> <<>>]]
  /\ saving' = IF n = 0 THEN NotSaving ELSE [file |-> f, left |-> n]
  /\ clock' = clock + 1 /\ saves' = saves + 1
  /\ UNCHANGED <<url, chain, request, response, copy, download, requests>>

SaveChunk ==
  /\ saving # NotSaving
  /\ files' = [files EXCEPT ![saving.file] = [mtime |-> clock + 1, data |-> Append(@.data, clock + 1)]]
  /\ saving' = IF saving.left = 1 THEN NotSaving ELSE [saving EXCEPT !.left = @ - 1]
  /\ clock' = clock + 1
  /\ UNCHANGED <<url, chain, request, response, copy, download, saves, requests>>

\* A file is removed by whoever maintains the directory.
RemoveFile(f) ==
  /\ saves < MaxSaves /\ saving = NotSaving /\ files[f] # Absent
  /\ files' = [files EXCEPT ![f] = Absent] /\ saves' = saves + 1
  /\ UNCHANGED <<clock, saving, url, chain, request, response, copy, download, requests>>

(***************************************************************************)
(* A request                                                               *)
(***************************************************************************)
\* The client revalidates the copy it has, or not.
Send(tag) ==
  /\ requests < MaxRequests /\ request = Idle
  /\ request' = [Idle EXCEPT !.step = "locate", !.inm = tag]
  /\ response' = NoResponse /\ requests' = requests + 1
  /\ UNCHANGED <<files, clock, saving, url, chain, copy, download, saves>>

Answer(r) ==
  /\ response' = r /\ request' = Idle
  /\ UNCHANGED <<files, clock, saving, url, chain, saves, requests>>

Fail(status) == Answer([NoResponse EXCEPT !.status = status]) /\ UNCHANGED <<copy, download>>

Proceed(r) ==
  /\ request' = r
  /\ UNCHANGED <<files, clock, saving, url, chain, response, copy, download, saves, requests>>

\* exists() and is_file(); a page that is not there is the index, for a
\* client that takes HTML.
Locate(html) ==
  /\ request.step = "locate"
  /\ LET to(f) == Proceed([request EXCEPT !.step = "stat", !.target = f])
     IN  IF files[FileOf] # Absent THEN to(FileOf)
         ELSE IF SpaFallback /\ html /\ files["index"] # Absent THEN to("index")
         ELSE Fail(404)

\* The ETag, and 304 when the client has it; a file that is gone ends in a
\* FileNotFoundError, here and in the read.
Stat ==
  /\ request.step = "stat"
  /\ LET f == request.target
     IN  IF files[f] = Absent THEN Fail(500)
         ELSE IF request.inm = ETag(f)
         THEN /\ Answer([NoResponse EXCEPT !.status = 304, !.from = f, !.tag = ETag(f), !.data = files[f].data])
              /\ UNCHANGED <<copy, download>>
         ELSE Proceed([request EXCEPT !.step = "read", !.tag = ETag(f), !.seen = files[f].data])

\* _range_response: the first and last position asked for, counted from 0;
\* what has no such positions in the file is a 416.
Asked(range, size) ==
  CASE range[1] = "span"   -> <<range[2], range[3]>>
    [] range[1] = "open"   -> <<range[2], size - 1>>
    [] range[1] = "suffix" -> <<IF size > range[2] THEN size - range[2] ELSE 0, size - 1>>
    [] OTHER               -> <<0, -1>>
Satisfiable(span, size) == span[1] <= span[2] /\ span[1] < size

\* As a plausible bug would have it: the last position is left out.
SliceShort(data, span) == SubSeq(data, span[1] + 1, span[2])

Slice(data, span) == SubSeq(data, span[1] + 1, span[2] + 1)

Partial(r, range) ==
  LET size == Len(r.data)
      span == Asked(range, size)
      kept == <<span[1], IF span[2] < size THEN span[2] ELSE size - 1>>
  IN  IF ~Satisfiable(span, size) THEN [NoResponse EXCEPT !.status = 416, !.size = size]
      ELSE [r EXCEPT !.status = 206, !.span = kept, !.size = size, !.data = Slice(r.data, kept), !.length = {<<>>}]

\* The codings that a header names, in whatever case, and those that a search
\* for lower-case letters finds in it.
CodingsNamed(header) == {e.coding : e \in header}
CodingsFound(header) == {e.coding : e \in {e \in header : e.lower}}

\* The body of a full response when "gzip" stands in the header as it is sent.
Gzipped(r) ==
  IF "gzip" \in CodingsFound(r.accept) /\ Len(r.data) >= MinSize
  THEN [r EXCEPT !.codings = <<"gzip">>, !.encoding = "gzip"] ELSE r

\* As a plausible bug would have it: what is encoded is encoded again.
CompressAgain(mw, r) ==
  IF Len(r.data) < MinSize \/ "gzip" \notin CodingsNamed(r.accept) THEN r
  ELSE [r EXCEPT !.codings = Append(@, "gzip"), !.encoding = "gzip", !.length = {Append(r.codings, "gzip")}]

\* CompressionMiddleware prefers gzip and knows deflate, GZipMiddleware knows
\* gzip only; both search the header in lower case, and neither touches what
\* has a Content-Encoding.
Compress(mw, r) ==
  LET known  == IF mw = "compression" THEN {"gzip", "deflate"} ELSE {"gzip"}
      usable == known \cap CodingsNamed(r.accept)
      coding == IF "gzip" \in usable THEN "gzip" ELSE "deflate"
  IN  IF r.encoding # Unset \/ Len(r.data) < MinSize \/ usable = {} THEN r
      ELSE [r EXCEPT !.codings = Append(@, coding), !.encoding = coding, !.length = {Append(r.codings, coding)}]

\* A response on its way back through the middlewares from the i-th inwards.
Through(r) ==
  LET from[i \in 1..(Len(chain) + 1)] ==
        IF i = Len(chain) + 1 THEN r ELSE Compress(chain[i], from[i + 1])
  IN  from

\* The rest of the handler, and the way back through the middlewares; an
\* HTTPError (416) passes them by.
Body(range, accept, data) ==
  LET r == [NoResponse EXCEPT !.status = 200, !.from = request.target, !.tag = request.tag,
                              !.data = data, !.accept = accept]
      made == IF url = "static" THEN r
              ELSE IF range # NoRange THEN Partial(r, range)
              ELSE Gzipped(r)
  IN  IF made.status = 416 THEN made ELSE Through(made)[1]

\* The client: parts under one tag belong together, a part under another tag
\* begins the download anew.  torn: the file was written between the stat and
\* the read of a part, so that its tag names what the file was before.
Joined(r) ==
  LET old == IF download.tag = r.tag THEN download
             ELSE [NoDownload EXCEPT !.tag = r.tag, !.size = r.size, !.seen = request.seen]
  IN  [old EXCEPT !.parts = [i \in DOMAIN @ \cup r.span[1]..r.span[2] |->
                               IF i \in r.span[1]..r.span[2] /\ i - r.span[1] < Len(r.data)
                               THEN r.data[i - r.span[1] + 1]
                               ELSE IF i \in DOMAIN @ THEN @[i] ELSE 0],
                  !.torn = @ \/ files[request.target].data # request.seen]

Read(range, accept) ==
  /\ request.step = "read"
  /\ IF files[request.target] = Absent THEN Fail(500)
     ELSE LET r == Body(range, accept, files[request.target].data)
          IN  /\ Answer(r)
              /\ copy' = IF r.status = 200 THEN [tag |-> r.tag, data |-> r.data] ELSE copy
              /\ download' = IF r.status = 206 THEN Joined(r) ELSE download

DeliveryInit ==
  /\ files = [index |-> [mtime |-> 2, data |-> <<1, 2>>], page |-> Absent, asset |-> [mtime |-> 4, data |-> <<3, 4>>]]
  /\ clock = 4
  /\ saving = NotSaving
  /\ url \in Urls
  /\ chain \in Chains
  /\ request = Idle /\ response = NoResponse /\ copy = NoCopy /\ download = NoDownload
  /\ saves = 0 /\ requests = 0

Serve ==
  \/ \E tag \in {NoTag, copy.tag} : Send(tag)
  \/ \E html \in BOOLEAN : Locate(html)
  \/ Stat
  \/ \E range \in Ranges, accept \in Accepts : Read(range, accept)

DeliveryNext ==
  \/ \E f \in Files, n \in Nat : SaveStart(f, n)
  \/ SaveChunk
  \/ \E f \in Files : RemoveFile(f)
  \/ Serve

DeliverySpec == DeliveryInit /\ [][DeliveryNext]_deliveryVars

\* A client that is told 304 has the content the file had at that moment, and
\* not one it had before a write (html5.py:219, 233 and 236: the tag is taken
\* before the body is read, so a body can only be newer than its tag).
NotModifiedIsCurrent ==
  response.status = 304 => copy # NoCopy /\ copy.data = response.data

\* Byte ranges that came under one ETag, none of them overtaken by a write
\* between stat and read, are parts of one content at the positions their
\* Content-Range names, and of its size (html5.py:170-191).
PartsOfOneFile ==
  download # NoDownload /\ ~download.torn =>
    /\ download.size = Len(download.seen)
    /\ \A i \in DOMAIN download.parts : i + 1 \in DOMAIN download.seen /\ download.parts[i] = download.seen[i + 1]

\* Whatever middlewares are registered, in whichever order, a body was encoded
\* as its one Content-Encoding says, and its Content-Length was measured after
\* that.  The coding is one that the Accept-Encoding header names, be it with a
\* weight of 0 (html5.py:243, middleware.py:74-112).
EncodedOnce ==
  /\ response.codings = IF response.encoding = Unset THEN <<>> ELSE <<response.encoding>>
  /\ response.encoding \in CodingsNamed(response.accept) \cup {Unset}
  /\ response.length \subseteq {response.codings}

\* A request for an asset is never answered with the index page, which a
\* browser would keep as a script or a style (html5.py:278-286, router.py:110).
AssetMissIs404 ==
  url = "asset" => response.from \in {"none", "asset"}
=============================================================================
