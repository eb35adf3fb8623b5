------------------------- MODULE UploadsProperties --------------------------
(* What an upload promises to the client and to the operator of the disk.   *)
EXTENDS Uploads

Ended(u) == pc[u] = "done"

(* A file that was accepted is on the disk, whole and within the limit, was  *)
(* sent by a user, and has both a type on the list and the signature of that *)
(* type; nothing done for another upload takes it away again                 *)
(* (upload.routes.ts 50-80).                                                 *)
AcceptedIsKept ==
    \A u \in Uploads : status[u] = 201 =>
        /\ file[u] = "stored"
        /\ form[u].token /\ ~form[u].big /\ form[u].field = "file"
        /\ form[u].mime \in Allowed \cap Signed
        /\ form[u].content = form[u].mime

(* Whatever is refused leaves nothing on the disk by the time the client     *)
(* knows, unless something failed: a whole file stays only if it could not   *)
(* be read or removed or the process died, part of a file only if the write, *)
(* the body or the process broke off.  A user who is not authenticated       *)
(* leaves nothing in any case, as multer runs after authenticate.            *)
OrphansExplained ==
    \A u \in Uploads : Ended(u) /\ status[u] # 201 =>
        /\ file[u] = "stored" => hurt[u] \in {"read", "unlink", "crash"}
        /\ file[u] = "partial" => hurt[u] \in {"disk", "left", "broken", "crash"}
        /\ ~form[u].token => file[u] = "none"

(* Who sent what the rules forbid is told so, with the status of the rule    *)
(* that was broken first, even when the file could not be removed: a 500     *)
(* means a fault or a broken body, and a 4xx is never the answer to a good   *)
(* form (upload.routes.ts 61, error-handler.ts 18-43).                       *)
StatusTells ==
    \A u \in Uploads :
        LET f == form[u]
            good == f.field = "file" /\ f.mime \in Allowed \cap Signed
                    /\ f.content = f.mime
        IN  /\ status[u] = 500 => hurt[u] \in {"db", "disk", "read", "broken"}
            /\ status[u] = 401 <=> Ended(u) /\ hurt[u] # "crash" /\ ~f.token
            /\ status[u] = 413 => f.big /\ f.mime \in Allowed
            /\ status[u] = 422 => ~good /\ (f.field = "file" /\ f.mime \in Allowed
                                            => ~f.big)

(* Every upload that arrived ends, answered unless the client left or the    *)
(* process died.                                                             *)
EveryUploadEnds ==
    \A u \in Uploads :
        InProgress(u) ~> /\ Ended(u)
                         /\ status[u] = 0 => hurt[u] \in {"left", "crash"}
=============================================================================
