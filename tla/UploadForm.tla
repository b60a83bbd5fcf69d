----------------------------- MODULE UploadForm ------------------------------
(***************************************************************************)
(* The upload form (upload-dropzone.tsx) over the upload mutation of the   *)
(* page, beside the checks of POST /upload (upload.py).  A file is dropped *)
(* or chosen, checked by its name, type and size, and sent with a customer *)
(* when the button is pressed; a file can be dropped at any time.  What    *)
(* happens to the job afterwards is Workspace and JobLifecycle.            *)
(***************************************************************************)
EXTENDS Integers, FiniteSets

CONSTANTS
    Files,           \* [ext, mime, size, genuine]
    Customers,       \* what the customer field may hold, "" among it
    NoFile, NoUpload,
    MaxSize,         \* 50 MB
    DropsWhileUploading,   \* whether the user drops files on the form meanwhile
    MaxUploads,      \* bound: presses of the button
    MaxTrouble       \* bound: answers 429 and lost requests

Answers == {"none", "created", "refused", "again"}
Upload == [file : Files, customer : Customers, answer : Answers]

UploadAssumption ==
    /\ \A f \in Files : f.size \in Nat
    /\ "" \in Customers
    /\ NoFile \notin Files /\ NoUpload \notin Upload
    /\ MaxSize \in Nat
    /\ DropsWhileUploading \in BOOLEAN
    /\ MaxUploads \in Nat /\ MaxTrouble \in Nat

VARIABLES
    open,            \* the form is on the page: no job is open
    selectedFile, customer, error, isDragging,     \* states of the form
    upload,          \* the mutation: [file, customer, answer] or NoUpload
    uploadError,     \* the page says that the upload has failed
    created,         \* the jobs the server has created, as the file and customer sent
    uploads, trouble

form == <<selectedFile, customer, error, isDragging>>
vars == <<open, form, upload, uploadError, created, uploads, trouble>>

isUploading == upload # NoUpload

-----------------------------------------------------------------------------
(* The checks of the form and of the server.                               *)

ACCEPTED_EXTENSIONS == {"pdf", "xlsx", "xls", "csv"}
ACCEPTED_TYPES == {"pdf", "xlsx", "xls", "csv"}
ALLOWED_EXTENSIONS == {"pdf", "xlsx", "xlsm", "csv"}

isAcceptedFile(f) == f.ext \in ACCEPTED_EXTENSIONS \/ f.mime \in ACCEPTED_TYPES

\* VARIANT of FitsForm: the limit of the form is one off.
FitsLoosely(f) == f.size <= MaxSize + 1

FitsForm(f) == f.size <= MaxSize

\* upload_file: extension, size, and the first bytes of the content
ServerTakes(f) ==
    /\ f.ext \in ALLOWED_EXTENSIONS
    /\ f.size \in 1..MaxSize
    /\ f.genuine

\* A file of one of the three formats the form names, with the usual name.
Ordinary(f) == f.ext \in {"pdf", "xlsx", "csv"} /\ f.genuine /\ f.size > 0

-----------------------------------------------------------------------------
(* Choosing a file.                                                        *)

\* VARIANT of handleFile: the error is shown and the file taken all the same.
handleAnyFile(f) ==
    /\ selectedFile' = f
    /\ error' = ~(isAcceptedFile(f) /\ FitsForm(f))

\* handleFile: the file, or an error and the file from before
handleFile(f) ==
    IF isAcceptedFile(f) /\ FitsForm(f)
    THEN selectedFile' = f /\ error' = FALSE
    ELSE error' = TRUE /\ UNCHANGED selectedFile

handleDragOver ==
    /\ open /\ ~isDragging
    /\ isDragging' = TRUE
    /\ UNCHANGED <<open, selectedFile, customer, error, upload, uploadError, created, uploads,
                   trouble>>

handleDragLeave ==
    /\ open /\ isDragging
    /\ isDragging' = FALSE
    /\ UNCHANGED <<open, selectedFile, customer, error, upload, uploadError, created, uploads,
                   trouble>>

\* handleDrop: not disabled by anything; a drop without a file only ends the drag
handleDrop(f) ==
    /\ open /\ isDragging
    /\ isUploading => DropsWhileUploading
    /\ isDragging' = FALSE
    /\ IF f = NoFile THEN UNCHANGED <<selectedFile, error>> ELSE handleFile(f)
    /\ UNCHANGED <<open, customer, upload, uploadError, created, uploads, trouble>>

\* handleInputChange: the button for choosing, shown without a file
handleInputChange(f) ==
    /\ open /\ ~isUploading /\ selectedFile = NoFile
    /\ handleFile(f)
    /\ UNCHANGED <<open, customer, isDragging, upload, uploadError, created, uploads, trouble>>

SetCustomer(c) ==
    /\ open /\ ~isUploading
    /\ customer' = c
    /\ UNCHANGED <<open, selectedFile, error, isDragging, upload, uploadError, created, uploads,
                   trouble>>

\* VARIANT of clearFile: the button stays while the file is uploaded.
clearFileAnytime ==
    /\ open /\ selectedFile # NoFile
    /\ selectedFile' = NoFile /\ error' = FALSE
    /\ UNCHANGED <<open, customer, isDragging, upload, uploadError, created, uploads, trouble>>

clearFile ==
    /\ open /\ ~isUploading /\ selectedFile # NoFile
    /\ selectedFile' = NoFile /\ error' = FALSE
    /\ UNCHANGED <<open, customer, isDragging, upload, uploadError, created, uploads, trouble>>

-----------------------------------------------------------------------------
(* Uploading.                                                              *)

\* handleUploadClick, from the enabled button
handleUploadClick ==
    /\ open /\ ~isUploading /\ selectedFile # NoFile
    /\ uploads < MaxUploads
    /\ uploads' = uploads + 1
    /\ upload' = [file |-> selectedFile, customer |-> customer, answer |-> "none"]
    /\ uploadError' = FALSE
    /\ UNCHANGED <<open, form, created, trouble>>

Reply(answer) == upload' = [upload EXCEPT !.answer = answer]

\* POST /upload
upload_file ==
    /\ isUploading /\ upload.answer = "none"
    /\ IF ServerTakes(upload.file)
       THEN Reply("created")
            /\ created' = created \cup {[file |-> upload.file, customer |-> upload.customer,
                                         press |-> uploads]}
       ELSE Reply("refused") /\ UNCHANGED created
    /\ UNCHANGED <<open, form, uploadError, uploads, trouble>>

\* The rate limit, or a request or an answer that is lost.
Trouble ==
    /\ isUploading /\ upload.answer \in {"none", "created"}
    /\ trouble < MaxTrouble
    /\ trouble' = trouble + 1
    /\ Reply("again")
    /\ UNCHANGED <<open, form, uploadError, created, uploads>>

\* onSuccess opens the job and takes the form away; onError leaves it as it is.
UploadDone ==
    /\ isUploading /\ upload.answer # "none"
    /\ upload' = NoUpload
    /\ IF upload.answer = "created"
       THEN open' = FALSE /\ UNCHANGED uploadError
       ELSE uploadError' = TRUE /\ UNCHANGED open
    /\ UNCHANGED <<form, created, uploads, trouble>>

\* handleNewUpload: a new form
NewForm ==
    /\ ~open
    /\ open' = TRUE
    /\ selectedFile' = NoFile /\ customer' = "" /\ error' = FALSE /\ isDragging' = FALSE
    /\ UNCHANGED <<upload, uploadError, created, uploads, trouble>>

Init ==
    /\ open = TRUE
    /\ selectedFile = NoFile /\ customer = "" /\ error = FALSE /\ isDragging = FALSE
    /\ upload = NoUpload /\ uploadError = FALSE
    /\ created = {}
    /\ uploads = 0 /\ trouble = 0

Next ==
    \/ handleDragOver \/ handleDragLeave
    \/ \E f \in Files \cup {NoFile} : handleDrop(f)
    \/ \E f \in Files : handleInputChange(f)
    \/ \E c \in Customers : SetCustomer(c)
    \/ clearFile \/ handleUploadClick
    \/ upload_file \/ Trouble \/ UploadDone \/ NewForm

Spec == Init /\ [][Next]_vars

-----------------------------------------------------------------------------
\* Types of the variables; the file of the form is always one it has accepted, also
\* when another one was refused after it.
TypeOK ==
    /\ open \in BOOLEAN /\ error \in BOOLEAN /\ isDragging \in BOOLEAN
    /\ selectedFile \in {f \in Files : isAcceptedFile(f) /\ f.size <= MaxSize} \cup {NoFile}
    /\ customer \in Customers
    /\ upload \in Upload \cup {NoUpload}
    /\ uploadError \in BOOLEAN
    /\ created \subseteq [file : Files, customer : Customers, press : 1..MaxUploads]
    /\ uploads \in 0..MaxUploads /\ trouble \in 0..MaxTrouble

\* While a file is being uploaded the form goes on showing that file and that
\* customer: every control that would change them is out of reach, but for a drop.
ShownIsSent ==
    isUploading /\ ~DropsWhileUploading =>
        selectedFile = upload.file /\ customer = upload.customer

\* An ordinary file that passes the form is never refused because of what it is:
\* the two size limits and the two lists of formats agree on it.
OrdinaryFileTaken ==
    isUploading /\ upload.answer = "refused" => ~Ordinary(upload.file)
=============================================================================
