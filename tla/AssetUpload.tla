----------------------------- MODULE AssetUpload -----------------------------
(***************************************************************************)
(* Files come in as multipart forms (Multipart) and are saved where they   *)
(* are delivered from (AssetDelivery): a form is parsed, and the files it  *)
(* holds, if it was accepted, can be saved, again and again.               *)
(***************************************************************************)
EXTENDS AssetDelivery, Multipart

CONSTANTS
  Forms,                \* the forms that are sent
  Names,                \* the names of fields and files that are read as they are written:
                        \* ASCII, and without semicolons, quotes and blanks at their ends
  Pieces                \* what the contents of their parts are made of

VARIABLES form,         \* NoForm, or the form that has been received
          uploads       \* the sizes of the files that are there to be saved

\* A client chooses a separator that occurs in no content.
ASSUME FormsAssumption ==
  /\ Sep \notin Pieces /\ Names \subseteq STRING \ {Missing}
  /\ Forms \subseteq Seq([name : Names, filename : Names \cup {Missing}, type : STRING, content : Seq(Pieces)])

NoForm == [pending |-> FALSE, parts |-> <<>>]

UploadInit == DeliveryInit /\ form \in [pending : {TRUE}, parts : Forms] /\ uploads = {}

\* The handler parses the form; a form that is refused leaves no file.
ReceiveForm ==
  /\ form.pending /\ form' = NoForm
  /\ LET r == Parse(EncodeForm(form.parts))
         sizes == IF r.status = 200 THEN {Len(r.files[n].content) : n \in DOMAIN r.files} ELSE {}
     IN  uploads' = IF sizes = {} THEN {} ELSE {CHOOSE k \in sizes : \A j \in sizes : j <= k}
  /\ UNCHANGED deliveryVars

\* Writes to other files than those the URL is answered from change nothing
\* that the client sees.
Answering == IF url = "page" THEN {"index", "page"} ELSE {"asset"}

UploadNext ==
  \/ ReceiveForm
  \/ /\ ~form.pending /\ UNCHANGED <<form, uploads>>
     /\ \/ \E f \in Answering, n \in uploads : SaveStart(f, n)
        \/ SaveChunk
        \/ \E f \in Answering : RemoveFile(f)
        \/ Serve

UploadSpec == UploadInit /\ [][UploadNext]_<<deliveryVars, form, uploads>>

\* A form is read as it was written, its fields when they are text
\* (multipart.py:100-159).
FormRoundTrip == form.pending => RoundTrips(form.parts)
=============================================================================
