------------------------------ MODULE Multipart ------------------------------
(***************************************************************************)
(* The multipart/form-data parser (sovereign/multipart.py), over a body    *)
(* cut into the pieces that it tells apart: the separator, CRLF, "--", a   *)
(* Content-Disposition or Content-Type line, the first bytes of a known    *)
(* type of file, and other bytes.  A piece of a text is the piece of bytes *)
(* that UTF-8 writes it as.                                                *)
(***************************************************************************)
EXTENDS Integers, Sequences, FiniteSets, SequencesExt

CONSTANTS
  MaxParts, MaxFiles, MaxFileSize,      \* the limits; sizes in pieces of content
  Binary                                \* the pieces that are not UTF-8

ASSUME MultipartAssumption == {MaxParts, MaxFiles, MaxFileSize} \subseteq Nat

Sep == <<"separator">>
Crlf == <<"crlf">>
Dashes == <<"dashes">>
Magic(mime) == <<"magic", mime>>
Disposition(name, filename) == <<"disposition", name, filename>>
ContentType(mime) == <<"type", mime>>
Missing == "missing"                        \* a parameter or header that is not given
Dangerous == {"application/exe", "text/x-shellscript"}
Compared == {"image/png", "image/jpeg", "image/gif", "image/svg+xml", "application/pdf", "application/zip"}

StartsWith(s, x) == s # <<>> /\ Head(s) = x

\* raw.split(sep)[1:]: a segment lies between a separator and the next one, or
\* the end.
Separators(raw, i) == {j \in 1 .. i - 1 : raw[j] = Sep}
EndsSegment(raw, i) == Separators(raw, i) # {} /\ (i > Len(raw) \/ raw[i] = Sep)
Segment(raw, i) ==
  SubSeq(raw, (CHOOSE j \in Separators(raw, i) : \A k \in Separators(raw, i) : k <= j) + 1, i - 1)

\* As a plausible bug would have it (bytes.strip): every CRLF at the borders.
TrimAll(part) ==
  LET kept == {i \in DOMAIN part : part[i] # Crlf}
  IN  IF kept = {} THEN <<>>
      ELSE SubSeq(part, CHOOSE i \in kept : \A j \in kept : i <= j, CHOOSE i \in kept : \A j \in kept : j <= i)

\* One CRLF at each border belongs to the separator.
Trim(part) ==
  LET p == IF StartsWith(part, Crlf) THEN Tail(part) ELSE part
  IN  IF p # <<>> /\ Last(p) = Crlf THEN Front(p) ELSE p

\* Where the blank line after the headers begins, or 0.
BlankLine(p) ==
  LET at == {i \in 1..Len(p) - 1 : p[i] = Crlf /\ p[i + 1] = Crlf}
  IN  IF at = {} THEN 0 ELSE CHOOSE i \in at : \A j \in at : i <= j

\* _headers: the last line of a kind counts.
Header(lines, kind) ==
  LET own == {i \in DOMAIN lines : lines[i][1] = kind}
  IN  IF own = {} THEN <<kind, Missing, Missing>> ELSE lines[CHOOSE i \in own : \A j \in own : j <= i]

\* sniff_mime looks at the first bytes only.
Sniffed(content) == IF content # <<>> /\ Head(content)[1] = "magic" THEN Head(content)[2] ELSE Missing

\* decode("utf-8", errors="replace"): bytes that are not UTF-8 are lost.
Replacement == <<"replacement">>
Decode(content) == [i \in DOMAIN content |-> IF content[i] \in Binary THEN Replacement ELSE content[i]]

Refuse(st, status) == [st EXCEPT !.status = status]
With(f, name, x) == [n \in DOMAIN f \cup {name} |-> IF n = name THEN x ELSE f[n]]

\* A part with a filename: it counts, and its bytes must not belie its type.
File(st, name, filename, mime, content) ==
  LET counted == [st EXCEPT !.file_count = @ + 1]
      sniffed == Sniffed(content)
  IN  IF counted.file_count > MaxFiles \/ Len(content) > MaxFileSize THEN Refuse(st, 413)
      ELSE IF sniffed \in Dangerous THEN Refuse(st, 415)
      ELSE IF sniffed # Missing /\ mime \in Compared /\ sniffed # mime THEN Refuse(st, 415)
      ELSE [counted EXCEPT !.files = With(@, name, [filename |-> filename, content |-> content])]

Part(st, p) ==
  LET counted == [st EXCEPT !.part_count = @ + 1]
      blank   == BlankLine(p)
      lines   == SubSeq(p, 1, blank - 1)
      content == SubSeq(p, blank + 2, Len(p))
      disp    == Header(lines, "disposition")
      mime    == Header(lines, "type")[2]
  IN  IF counted.part_count > MaxParts THEN Refuse(st, 413)
      ELSE IF blank = 0 THEN Refuse(st, 400)
      ELSE IF \E i \in DOMAIN lines : lines[i][1] \notin {"disposition", "type", "crlf"} THEN Refuse(st, 400)
      ELSE IF disp[2] = Missing THEN Refuse(st, 400)
      ELSE IF disp[3] = Missing THEN [counted EXCEPT !.fields = With(@, disp[2], Decode(content))]
      ELSE File(counted, disp[2], disp[3], mime, content)

\* The loop of MultipartParser.parse, until the closing separator or the first
\* part that is refused.
Step(st, seg) ==
  IF st.status # 0 THEN st
  ELSE IF StartsWith(seg, Dashes) THEN [st EXCEPT !.status = 200]
  ELSE IF Trim(seg) = <<>> THEN st
  ELSE Part(st, Trim(seg))

NoneYet == [n \in {} |-> <<>>]
Start(raw) == [status |-> IF Separators(raw, Len(raw) + 1) = {} THEN 400 ELSE 0,
               part_count |-> 0, file_count |-> 0, fields |-> NoneYet, files |-> NoneYet]

\* What the loop has come to before each position of the body.
ReadSoFar(raw) ==
  LET read[i \in 0 .. Len(raw) + 1] ==
        IF i = 0 THEN Start(raw)
        ELSE IF EndsSegment(raw, i) THEN Step(read[i - 1], Segment(raw, i)) ELSE read[i - 1]
  IN  read

Parse(raw) == [ReadSoFar(raw)[Len(raw) + 1] EXCEPT !.status = IF @ = 0 THEN 200 ELSE @]

(***************************************************************************)
(* Reference: a form as a client encodes it (RFC 7578), and what it says.  *)
(* Its parts are [name, filename, type, content]; the client has chosen a  *)
(* separator that occurs in no content.                                    *)
(***************************************************************************)
IsFile(part) == part.filename # Missing
EncodePart(p) ==
  <<Sep, Crlf, Disposition(p.name, p.filename), Crlf>>
    \o (IF IsFile(p) THEN <<ContentType(p.type), Crlf, Crlf>> ELSE <<Crlf>>) \o p.content \o <<Crlf>>
Encoded(form) ==
  LET upto[n \in 0 .. Len(form)] == IF n = 0 THEN <<>> ELSE upto[n - 1] \o EncodePart(form[n])
  IN  upto
EncodeForm(form) == Encoded(form)[Len(form)] \o <<Sep, Dashes, Crlf>>

FilesOf(form) == {i \in DOMAIN form : IsFile(form[i])}
FieldsOf(form) == DOMAIN form \ FilesOf(form)
Named(form, name, own) == {i \in own : form[i].name = name}
LastOf(form, name, own) ==
  form[CHOOSE i \in Named(form, name, own) : \A j \in Named(form, name, own) : j <= i]
NamesOf(form, own) == {form[i].name : i \in own}

Acceptable(form) ==
  /\ Len(form) <= MaxParts /\ Cardinality(FilesOf(form)) <= MaxFiles
  /\ \A i \in FilesOf(form) :
       /\ Len(form[i].content) <= MaxFileSize
       /\ Sniffed(form[i].content) \notin Dangerous
       /\ Sniffed(form[i].content) \in {Missing, form[i].type} \/ form[i].type \notin Compared

\* Within the limits a form is read as it was written, whatever CRLFs, dashes
\* or blank lines its contents begin or end with, the last part of a name
\* winning: its files byte for byte, its fields when they are text.  Beyond the
\* limits, and for files that belie their type, it is refused as a whole
\* (multipart.py:118-159).
IsText(content) == \A i \in DOMAIN content : content[i] \notin Binary
FieldsSaid(form) ==
  [n \in NamesOf(form, FieldsOf(form)) |-> LastOf(form, n, FieldsOf(form)).content]
FilesSaid(form) ==
  [n \in NamesOf(form, FilesOf(form)) |->
     [filename |-> LastOf(form, n, FilesOf(form)).filename, content |-> LastOf(form, n, FilesOf(form)).content]]
RoundTrips(form) ==
  LET r == Parse(EncodeForm(form))
  IN  IF Acceptable(form)
      THEN /\ r.status = 200 /\ r.files = FilesSaid(form) /\ DOMAIN r.fields = DOMAIN FieldsSaid(form)
           /\ \A n \in DOMAIN r.fields : IsText(FieldsSaid(form)[n]) => r.fields[n] = FieldsSaid(form)[n]
      ELSE r.status \in {413, 415}
==============================================================================
