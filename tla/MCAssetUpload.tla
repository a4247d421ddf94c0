---------------------------- MODULE MCAssetUpload ----------------------------
(* AssetUpload with forms of one or two parts whose contents begin and end  *)
(* with what the parser looks for, forms of three parts beyond the limits,  *)
(* ranges at both borders of a file, and headers that refuse a coding.      *)
EXTENDS AssetUpload

CONSTANTS a

B == <<"byte", a>>
PiecesC == {B, Crlf, Dashes, Magic("image/png"), Magic("application/exe")}
Contents == {<<>>, <<B>>, <<B, B>>, <<B, B, B>>, <<Crlf>>, <<Crlf, B>>, <<B, Crlf>>, <<Dashes>>,
             <<Crlf, Crlf, B>>, <<B, Crlf, Crlf>>, <<Dashes, Crlf>>,
             <<Magic("image/png"), B>>, <<Magic("application/exe")>>, <<B, Magic("application/exe")>>}
PartOf(name, kind, content) ==
  [name |-> name, filename |-> IF kind = Missing THEN Missing ELSE "f", type |-> kind, content |-> content]
Parts == {PartOf(n, k, c) : n \in {"x", "y"}, k \in {Missing, "image/png", "image/jpeg", "text/plain"}, c \in Contents}
Short == {PartOf(n, k, <<B>>) : n \in {"x", "y"}, k \in {Missing, "text/plain"}}
FormsC == {<<>>} \cup {<<p>> : p \in Parts} \cup {<<p, q>> : p \in {PartOf("x", Missing, <<B>>), PartOf("x", "text/plain", <<Crlf>>)}, q \in Parts}
            \cup {<<p, q, r>> : p \in Short, q \in Short, r \in Short}
BinaryC == {Magic("image/png")}
NamesC == {"x", "y", "f"}
Entry(coding, lower, weight) == [coding |-> coding, lower |-> lower, weight |-> weight]
AcceptsC == {{}, {Entry("gzip", TRUE, 1)}, {Entry("gzip", TRUE, 0)}, {Entry("gzip", FALSE, 1)}, {Entry("deflate", TRUE, 1)},
             {Entry("gzip", TRUE, 0), Entry("deflate", TRUE, 1)}, {Entry("gzip", FALSE, 1), Entry("deflate", TRUE, 1)}}
ChainsC == {<<>>, <<"compression">>, <<"gzip", "compression">>, <<"compression", "gzip">>}
RangesC == {NoRange, <<"span", 0, 0>>, <<"span", 1, 1>>, <<"span", 1, 9>>, <<"span", 2, 1>>, <<"open", 1>>,
            <<"suffix", 0>>, <<"suffix", 1>>, <<"suffix", 9>>, <<"bad">>}
=============================================================================
