------------------------------ MODULE Uploads -------------------------------
(***************************************************************************)
(* POST /api/v1/uploads (upload.routes.ts): from authenticate to the       *)
(* answer, with what the upload leaves on the disk.  Files have names of   *)
(* their own (randomUUID), so uploads meet only in the process they share. *)
(* The body is read by multer, which is external: it removes the files it  *)
(* has stored when the form turns out to be unacceptable, and may or may   *)
(* not remove one it was still writing.                                    *)
(* An operator whose name has an underscore is a bug the code has not.     *)
(***************************************************************************)
EXTENDS Naturals

CONSTANTS
    Uploads,   \* the requests
    Mimes,     \* the MIME types a client declares
    Signed,    \* those whose signature the code knows: png, jpeg and pdf
    Allowed,   \* UPLOAD_ALLOWED_MIME_TYPES
    Other,     \* the contents that have no known signature
    Faults     \* "db", "disk", "read", "unlink", "left", "crash"

ASSUME UploadsAssumption ==
    /\ Signed \subseteq Mimes
    /\ Allowed \subseteq Mimes
    /\ Other \notin Mimes
    /\ Faults \subseteq {"db", "disk", "read", "unlink", "left", "crash"}

VARIABLES
    form,    \* form[u]: what the client sends
    pc,      \* pc[u]: what the request awaits
    file,    \* file[u]: what is on the disk
    status,  \* status[u]: the answer; 0 when there is none
    hurt     \* hurt[u]: the fault that the upload met, or "none"

vars == <<form, pc, file, status, hurt>>

\* field: one part named file, two of them, a part with another name, no part,
\* or a body that ends or breaks in the middle.  content names the type whose
\* signature the bytes have.
Form == [token : BOOLEAN, field : {"file", "twice", "other", "none", "broken"},
         mime : Mimes, content : Signed \cup {Other}, big : BOOLEAN]

TypeOK ==
    /\ form \in [Uploads -> Form]
    /\ pc \in [Uploads -> {"arriving", "authenticating", "parsing", "writing",
                           "discarding", "reading", "unlinking", "done"}]
    /\ file \in [Uploads -> {"none", "partial", "stored"}]
    /\ status \in [Uploads -> {0, 201, 401, 413, 422, 500}]
    /\ hurt \in [Uploads -> Faults \cup {"none", "broken"}]

Init ==
    /\ form \in [Uploads -> Form]
    /\ pc = [u \in Uploads |-> "arriving"]
    /\ file = [u \in Uploads |-> "none"]
    /\ status = [u \in Uploads |-> 0]
    /\ hurt = [u \in Uploads |-> "none"]

-----------------------------------------------------------------------------
Goto(u, to) ==
    /\ pc' = [pc EXCEPT ![u] = to]
    /\ UNCHANGED <<form, status, hurt>>

\* The answer, after a fault if why is one.
AnswerAfter(u, code, why) ==
    /\ pc' = [pc EXCEPT ![u] = "done"]
    /\ status' = [status EXCEPT ![u] = code]
    /\ hurt' = [hurt EXCEPT ![u] = why]
    /\ UNCHANGED form

Answer(u, code) == AnswerAfter(u, code, "none")

\* What multer knows to be wrong with the form once it has the file.
Refusal(u) ==
    IF form[u].big THEN 413 ELSE IF form[u].field = "twice" THEN 422 ELSE 0

Arrive(u) ==
    /\ pc[u] = "arriving"
    /\ Goto(u, "authenticating")
    /\ UNCHANGED file

\* authenticate.
Authenticate(u) ==
    /\ pc[u] = "authenticating"
    /\ \/ form[u].token /\ Goto(u, "parsing")
       \/ ~form[u].token /\ Answer(u, 401)
       \/ form[u].token /\ "db" \in Faults /\ AnswerAfter(u, 500, "db")
    /\ UNCHANGED file

\* fileFilter does not call back for a type that is not on the list.
Filter_NoCallback(u) ==
    /\ pc[u] = "parsing"
    /\ \/ /\ form[u].mime \in Allowed
          /\ IF form[u].field \in {"none", "other"}
             THEN Answer(u, 422) /\ UNCHANGED file
             ELSE Goto(u, "writing") /\ file' = [file EXCEPT ![u] = "partial"]
       \/ form[u].field = "broken" /\ AnswerAfter(u, 500, "broken") /\ UNCHANGED file

\* fileFilter, after multer has seen the name of the part; no part, no req.file;
\* a body may break before it has shown either.
Filter(u) ==
    /\ pc[u] = "parsing"
    /\ \/ IF form[u].field \in {"none", "other"} \/ form[u].mime \notin Allowed
          THEN Answer(u, 422) /\ UNCHANGED file
          ELSE Goto(u, "writing") /\ file' = [file EXCEPT ![u] = "partial"]
       \/ form[u].field = "broken" /\ AnswerAfter(u, 500, "broken") /\ UNCHANGED file

LeftBehind(u) == \E kept \in {"none", "partial"} : file' = [file EXCEPT ![u] = kept]

\* diskStorage, up to the limit on the size; a body that breaks or a write that
\* fails ends the upload.
Write(u) ==
    /\ pc[u] = "writing"
    /\ \/ /\ form[u].field # "broken" \/ form[u].big
          /\ file' = [file EXCEPT ![u] = "stored"]
          /\ Goto(u, IF Refusal(u) = 0 THEN "reading" ELSE "discarding")
       \/ /\ \/ form[u].field = "broken" /\ AnswerAfter(u, 500, "broken")
             \/ "disk" \in Faults /\ AnswerAfter(u, 500, "disk")
          /\ LeftBehind(u)

\* A client leaves before its whole body has come.
Leave(u) ==
    /\ "left" \in Faults
    /\ \/ pc[u] = "parsing" /\ UNCHANGED file
       \/ pc[u] = "writing" /\ LeftBehind(u)
    /\ AnswerAfter(u, 0, "left")

Removed(u) == file' = [file EXCEPT ![u] = "none"]

\* multer removes the file of a form it refuses, and does not say if it cannot.
Discard(u) ==
    /\ pc[u] = "discarding"
    /\ \/ Removed(u) /\ Answer(u, Refusal(u))
       \/ "unlink" \in Faults /\ UNCHANGED file
          /\ AnswerAfter(u, Refusal(u), "unlink")

\* The content has the signature of some type the code knows.
HasValidSignature_AnyType(u) == form[u].content \in Signed

HasValidSignature(u) ==
    form[u].mime \in Signed /\ form[u].content = form[u].mime

\* A mismatch is answered without removing the file.
ReadSignature_Keeps(u) ==
    /\ pc[u] = "reading"
    /\ \/ HasValidSignature(u) /\ Answer(u, 201)
       \/ ~HasValidSignature(u) /\ Answer(u, 422)
       \/ "read" \in Faults /\ AnswerAfter(u, 500, "read")
    /\ UNCHANGED file

\* validateFileSignature and the 201; an error of readFile is nobody's.
ReadSignature(u) ==
    /\ pc[u] = "reading"
    /\ \/ HasValidSignature(u) /\ Answer(u, 201)
       \/ ~HasValidSignature(u) /\ Goto(u, "unlinking")
       \/ "read" \in Faults /\ AnswerAfter(u, 500, "read")
    /\ UNCHANGED file

\* unlink without the catch.
Unlink_Throws(u) ==
    /\ pc[u] = "unlinking"
    /\ \/ Removed(u) /\ Answer(u, 422)
       \/ "unlink" \in Faults /\ UNCHANGED file /\ AnswerAfter(u, 500, "unlink")

\* unlink, whose error is caught, and the refusal.
Unlink(u) ==
    /\ pc[u] = "unlinking"
    /\ \/ Removed(u) /\ Answer(u, 422)
       \/ "unlink" \in Faults /\ UNCHANGED file /\ AnswerAfter(u, 422, "unlink")

InProgress(u) == pc[u] \notin {"arriving", "done"}

\* The process dies with every upload it works on; the one that is started
\* after it looks at no file.
Crash ==
    /\ "crash" \in Faults
    /\ \E u \in Uploads : InProgress(u)
    /\ pc' = [u \in Uploads |-> IF InProgress(u) THEN "done" ELSE pc[u]]
    /\ hurt' = [u \in Uploads |-> IF InProgress(u) THEN "crash" ELSE hurt[u]]
    /\ UNCHANGED <<form, file, status>>

-----------------------------------------------------------------------------
Step(u) ==
    \/ Authenticate(u) \/ Filter(u) \/ Write(u) \/ Discard(u)
    \/ ReadSignature(u) \/ Unlink(u)

Next == (\E u \in Uploads : Arrive(u) \/ Leave(u) \/ Step(u)) \/ Crash

Spec == Init /\ [][Next]_vars

\* The file system and the database answer, and a client that stays sends its
\* body on (Node ends a request that takes longer than requestTimeout).
FairSpec == Spec /\ \A u \in Uploads : WF_vars(Step(u))
=============================================================================
