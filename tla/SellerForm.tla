----------------------------- MODULE SellerForm -----------------------------
(***************************************************************************)
(* The seller publishes or edits an auction: AuctionForm, ImageUploader    *)
(* and the two pages around them (admin-web/src), against the checks of    *)
(* server-go/internal/auction/service.go and the binding of the request    *)
(* before them.  Prices are cents: two decimals of a yuan, which the form  *)
(* turns into each other without a rest.  Numbers of seconds may be broken *)
(* in the form: they are counted in parts of a second.  Texts are odd when *)
(* the form takes them and the server does not: a title of blanks, the     *)
(* address of a stream that is no URL.                                     *)
(*                                                                         *)
(* The uploader is that of the group of pictures; that of the cover is the *)
(* same with one picture, of which the first is sent.                      *)
(***************************************************************************)
EXTENDS Integers, Sequences, SequencesExt, FiniteSets

CONSTANTS
  Typed,        \* the fields that are filled in
  Second,       \* the parts of a second that are typed
  MaxInt64,     \* of the server's prices
  Uploads,      \* bound: files that are about, each a picture of its own
  MaxImages,    \* nine: `max` of the uploader, and the server's limit
  RowImages,    \* bound: how many pictures an auction that is edited has
  Empty,        \* null
  Skew,         \* how far the seller's clock may be off the server's
  LastInstant   \* bound: the last instant

\* A ceiling that is Empty is none.
Field == [price : Nat, step : Nat, ceiling : Nat \cup {Empty}, start : Nat,
          duration : Nat, extend : Nat, threshold : Nat, text : {"fine", "odd"}]

ASSUME FormAssumption ==
  /\ Typed \subseteq Field /\ Empty \notin Int /\ Empty \notin {"ok", "refused"}
  /\ Second \in Nat \ {0} /\ MaxInt64 \in Nat
  /\ MaxImages \in Nat \ {0} /\ RowImages \subseteq 0..MaxImages /\ Skew \in Nat /\ LastInstant \in Nat

VARIABLES
  time,       \* by the server's clock
  row,        \* the auction that is edited, or Empty: a new one is published
  page,       \* loading, form, error, list
  initial,    \* what the form was opened with, its fields and its pictures
  fields,     \* the form's
  images,     \* the form's pictures, in their order
  dialog,     \* whether the browser's dialog for files is open
  uploads,    \* under way: the pictures there were when it began
  late,       \* history: the files that were chosen when there was no room for one
  preview,    \* what is shown before it is sent
  call        \* the submission under way, with its answer

server == <<time, row>>
form == <<page, initial, fields>>
pictures == <<images, dialog, uploads, late>>
sending == <<preview, call>>
formVars == <<server, form, pictures, sending>>

\* Seconds the server and the form allow.
Day == 86400
DurationLimits == (30 * Second)..(Day * Second)
ExtendLimits == (10 * Second)..(30 * Second)
ThresholdLimits == Second..(300 * Second)
TimesFit(f) ==
  f.duration \in DurationLimits /\ f.extend \in ExtendLimits /\ f.threshold \in ThresholdLimits

\* A clock of the seller's machine.
Device == (time - Skew)..(time + Skew)

-----------------------------------------------------------------------------
(* What the form accepts, and what the server does.                         *)

\* Wrong: the ceiling is not compared with the start price.
WrongAccepts(f, now) ==
  /\ f.step >= 1 /\ (f.ceiling # Empty => f.ceiling > 0)
  /\ f.start > now
  /\ TimesFit(f)

\* The rules of the form's items.
Accepts(f, now) ==
  /\ f.step >= 1 /\ (f.ceiling # Empty => f.ceiling > f.price)
  /\ f.start > now
  /\ TimesFit(f)

\* validateTitle, validateOptionalURL, validatePrices, and what validateCreate
\* and validateUpdate ask besides.
Valid(f, ceiling) ==
  /\ f.text = "fine"
  /\ f.step > 0 /\ (ceiling # Empty => ceiling > 0 /\ ceiling >= f.price)
  /\ f.start > time
  /\ TimesFit(f)

Editable == row.status = "pending" /\ row.fields.start > time

\* A field that is null is not given: the row keeps its own.
Kept(ceiling) == IF ceiling = Empty /\ row # Empty THEN row.fields.ceiling ELSE ceiling

\* ShouldBindJSON: whole seconds, and prices that are numbers of 64 bits.
Binds(f) ==
  /\ \A parts \in {f.duration, f.extend, f.threshold} : parts % Second = 0
  /\ \A cents \in {f.price, f.step, f.ceiling} \ {Empty} : cents <= MaxInt64

\* Create and Update, with validateImages.
ServerTakes(f, shown) ==
  /\ Binds(f)
  /\ row # Empty => Editable
  /\ Valid(f, Kept(f.ceiling)) /\ Len(shown) <= MaxImages

-----------------------------------------------------------------------------
\* An auction that has been published is one the server has taken.
Published ==
  {f \in Typed : f.text = "fine" /\ f.step > 0 /\ TimesFit(f) /\ Binds(f)
                 /\ (f.ceiling # Empty => f.ceiling > 0 /\ f.ceiling >= f.price)}

\* The defaults of a new one, which can be published.
Blank == CHOOSE f \in Published : f.ceiling = Empty

ASSUME BlankAssumption == \E f \in Published : f.ceiling = Empty

\* initialValues.
New == [fields |-> Blank, images |-> <<>>]
Stored == [fields |-> [row.fields EXCEPT !.duration = IF @ > 30 * Second THEN @ ELSE 30 * Second],
           images |-> row.images]

NoUploads == [u \in Uploads |-> Empty]

FormInit ==
  /\ time = 0
  /\ \/ row = Empty /\ page = "form"
     \/ /\ \E f \in Published, n \in RowImages :
             row = [fields |-> f, status |-> "pending", images |-> [i \in 1..n |-> i]]
        /\ page = "loading"
  /\ initial = New /\ fields = Blank
  /\ images = <<>> /\ dialog = FALSE /\ uploads = NoUploads /\ late = {}
  /\ preview = Empty /\ call = Empty

\* The edit page's load; it shows an auction that is not pending with a warning.
Loaded ==
  /\ page = "loading"
  /\ \/ /\ page' = "form"
        /\ initial' = Stored /\ fields' = initial'.fields /\ images' = initial'.images
     \/ page' = "error" /\ UNCHANGED <<initial, fields, images>>
  /\ UNCHANGED <<server, dialog, uploads, late, sending>>

OnForm == page = "form"

\* The fields are filled in, if no preview is in the way.
Fill ==
  /\ OnForm /\ preview = Empty
  /\ \E f \in Typed : fields' = f
  /\ UNCHANGED <<server, page, initial, pictures, sending>>

\* resetFields: uploads under way are not told.
Reset ==
  /\ OnForm /\ preview = Empty
  /\ fields' = initial.fields /\ images' = initial.images
  /\ UNCHANGED <<server, page, initial, dialog, uploads, late, sending>>

-----------------------------------------------------------------------------
(* ImageUploader.                                                           *)

\* The button, hidden when there is no room, opens the dialog.
OpenDialog ==
  /\ OnForm /\ preview = Empty /\ ~dialog
  /\ Len(images) < MaxImages
  /\ dialog' = TRUE
  /\ UNCHANGED <<server, form, images, uploads, late, sending>>

\* A file that is nowhere yet.
Lists ==
  {images} \cup {uploads[u].base : u \in {v \in Uploads : uploads[v] # Empty}}
  \cup (IF row = Empty THEN {} ELSE {row.images})
  \cup (IF preview = Empty THEN {} ELSE {preview.images})
  \cup (IF call = Empty THEN {} ELSE {call.sent.images})

NewFile(u) == uploads[u] = Empty /\ \A s \in Lists : ~Contains(s, u)

\* customRequest of each file that is chosen, several if there may be several: the
\* pictures are those of the last time it was drawn, and are not counted again.
ChooseFiles(files) ==
  /\ dialog /\ dialog' = FALSE
  /\ \A u \in files : NewFile(u)
  /\ MaxImages = 1 => Cardinality(files) <= 1
  /\ uploads' = [u \in Uploads |-> IF u \in files THEN [base |-> images] ELSE uploads[u]]
  /\ late' = IF Len(images) < MaxImages THEN late \ files ELSE late \cup files
  /\ UNCHANGED <<server, form, images, sending>>

\* Wrong: the picture is added to those there are by now.
WrongUploaded(u) == Append(images, u)

Uploaded(u) == Append(uploads[u].base, u)

\* Others that came meanwhile are lost with it, one that was removed is back.
UploadArrives(u) ==
  /\ uploads[u] # Empty
  /\ images' = Uploaded(u)
  /\ uploads' = [uploads EXCEPT ![u] = Empty]
  /\ UNCHANGED <<server, form, dialog, late, sending>>

UploadFails(u) ==
  /\ uploads[u] # Empty
  /\ uploads' = [uploads EXCEPT ![u] = Empty]
  /\ UNCHANGED <<server, form, images, dialog, late, sending>>

RemovePicture ==
  /\ OnForm /\ preview = Empty
  /\ \E i \in DOMAIN images : images' = RemoveAt(images, i)
  /\ UNCHANGED <<server, form, dialog, uploads, late, sending>>

-----------------------------------------------------------------------------
(* The preview and the submission.                                          *)

\* openPreview: the button is disabled while a submission is under way.
OpenPreview ==
  /\ OnForm /\ preview = Empty /\ call = Empty
  /\ \E now \in Device : Accepts(fields, now)
  /\ preview' = [fields |-> fields, images |-> images]
  /\ UNCHANGED <<server, form, pictures, call>>

ClosePreview ==
  /\ OnForm /\ preview # Empty
  /\ preview' = Empty
  /\ UNCHANGED <<server, form, pictures, call>>

\* confirm: the preview stays until the answer comes, unless it is closed.
Confirm ==
  /\ OnForm /\ preview # Empty /\ call = Empty
  /\ call' = [sent |-> preview, answer |-> Empty]
  /\ UNCHANGED <<server, form, pictures, preview>>

\* Create or Update.
ServeForm ==
  /\ call # Empty /\ call.answer = Empty
  /\ LET f == call.sent.fields
         ok == ServerTakes(f, call.sent.images)
     IN  /\ call' = [call EXCEPT !.answer = IF ok THEN "ok" ELSE "refused"]
         /\ row' = IF ok /\ row # Empty
                   THEN [row EXCEPT !.fields = [f EXCEPT !.ceiling = Kept(@)],
                                    !.images = call.sent.images]
                   ELSE row
  /\ UNCHANGED <<time, form, pictures, preview>>

\* onSubmit goes on, and confirm after it: the preview closes whatever came, and
\* if the auction was taken the form is left for the list.
SubmissionAnswered ==
  /\ call # Empty /\ call.answer # Empty
  /\ IF call.answer = "ok"
     THEN /\ page' = "list" /\ initial' = New /\ fields' = Blank
          /\ images' = <<>> /\ dialog' = FALSE /\ uploads' = NoUploads /\ late' = {}
     ELSE UNCHANGED <<form, pictures>>
  /\ call' = Empty /\ preview' = Empty
  /\ UNCHANGED server

\* The answer is lost, or never comes.
SubmissionFails ==
  /\ call # Empty
  /\ call' = Empty /\ preview' = Empty
  /\ UNCHANGED <<server, form, pictures>>

\* Another tab of the seller saves other prices.
Saved(f) == [row EXCEPT !.fields.price = f.price, !.fields.ceiling = Kept(f.ceiling)]

OtherSaves ==
  /\ row # Empty /\ Editable
  /\ \E f \in Typed :
       /\ Binds(f) /\ Valid([row.fields EXCEPT !.price = f.price], Kept(f.ceiling))
       /\ row' = Saved(f)
  /\ UNCHANGED <<time, form, pictures, sending>>

\* Time passes, and the worker starts the auction.
Tick ==
  /\ time < LastInstant /\ time' = time + 1
  /\ row' = IF row # Empty /\ row.status = "pending" /\ row.fields.start <= time'
            THEN [row EXCEPT !.status = "active"] ELSE row
  /\ UNCHANGED <<form, pictures, sending>>

FormNext ==
  \/ Loaded \/ Fill \/ Reset \/ RemovePicture
  \/ OpenDialog \/ \E files \in SUBSET Uploads : ChooseFiles(files)
  \/ \E u \in Uploads : UploadArrives(u) \/ UploadFails(u)
  \/ OpenPreview \/ ClosePreview \/ Confirm \/ ServeForm \/ SubmissionAnswered \/ SubmissionFails
  \/ OtherSaves \/ Tick

FormSpec == FormInit /\ [][FormNext]_formVars

-----------------------------------------------------------------------------
FormTypeOK ==
  /\ page \in {"loading", "form", "error", "list"} /\ fields \in Field
  /\ row # Empty => row.fields \in Field /\ row.status \in {"pending", "active"}

\* The pictures of the form and of what is sent, but those whose files were chosen
\* when there was no room any more, are never more than the uploader allows, and
\* none is there twice, though uploads are begun together, end in any order, bring
\* back what was removed, and pictures arrive while a dialog is open.
OnlyLateTooMany ==
  \A shown \in {images} \cup (IF call = Empty THEN {} ELSE {call.sent.images}) :
    Cardinality(ToSet(shown) \ late) <= MaxImages /\ IsInjective(shown)

\* What the form accepted the server refuses only because of the time, which the
\* clocks may disagree about, because of a text, because the auction can be
\* edited no more, because a ceiling that was left empty is still the row's, or
\* for what the form does not look at: a broken second, a price beyond the
\* server's integers, a picture too many.
RefusalsExplained ==
  [][call # Empty /\ call.answer = Empty /\ call' # Empty /\ call'.answer = "refused" =>
       \/ call.sent.fields.start <= time \/ call.sent.fields.text = "odd"
       \/ ~Binds(call.sent.fields) \/ Len(call.sent.images) > MaxImages
       \/ row # Empty /\ ~Editable
       \/ row # Empty /\ call.sent.fields.ceiling = Empty /\ row.fields.ceiling # Empty
            /\ row.fields.ceiling < call.sent.fields.price]_formVars

-----------------------------------------------------------------------------
(* What the documents say and the code does not keep.                       *)

\* ImageUploader.tsx:2 and AuctionForm.tsx:149: nine pictures at most.  A file that is
\* chosen in a dialog opened earlier, while an upload arrives, is the tenth.
ImagesFit == Len(images) <= MaxImages

\* What AuctionForm.tsx:193 and 217 say and a change does not do: an empty ceiling means that there is none.
EmptyMeansNone ==
  [][call # Empty /\ call.answer = Empty /\ call' # Empty /\ call'.answer = "ok" /\ row # Empty =>
       row'.fields.ceiling = call.sent.fields.ceiling]_formVars
=============================================================================
