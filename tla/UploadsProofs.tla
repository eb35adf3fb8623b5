---------------------------- MODULE UploadsProofs ----------------------------
(***************************************************************************)
(* Theorems about Uploads, for any number of uploads, any list of allowed  *)
(* types and all faults.                                                   *)
(***************************************************************************)
EXTENDS UploadsProperties, TLAPS

\* What is known of an upload while it is handled.
UnderWay(u) ==
    /\ ~Ended(u) => status[u] = 0 /\ hurt[u] = "none"
    /\ pc[u] \in {"parsing", "writing", "discarding", "reading", "unlinking"} =>
         form[u].token
    /\ pc[u] \in {"arriving", "authenticating", "parsing"} => file[u] = "none"
    /\ pc[u] \in {"writing", "discarding", "reading", "unlinking"} =>
         form[u].mime \in Allowed /\ form[u].field \notin {"none", "other"}
    /\ pc[u] = "writing" => file[u] = "partial"
    /\ pc[u] = "discarding" => file[u] = "stored" /\ Refusal(u) # 0
    /\ pc[u] \in {"reading", "unlinking"} =>
         file[u] = "stored" /\ ~form[u].big /\ form[u].field = "file"
    /\ pc[u] = "unlinking" => ~HasValidSignature(u)

\* The three safety properties, of one upload.
Kept(u) ==
    status[u] = 201 =>
        /\ file[u] = "stored"
        /\ form[u].token /\ ~form[u].big /\ form[u].field = "file"
        /\ form[u].mime \in Allowed \cap Signed
        /\ form[u].content = form[u].mime

Explained(u) ==
    Ended(u) /\ status[u] # 201 =>
        /\ file[u] = "stored" => hurt[u] \in {"read", "unlink", "crash"}
        /\ file[u] = "partial" => hurt[u] \in {"disk", "left", "broken", "crash"}
        /\ ~form[u].token => file[u] = "none"

Good(u) ==
    /\ form[u].field = "file" /\ form[u].mime \in Allowed \cap Signed
    /\ form[u].content = form[u].mime

Told(u) ==
    /\ status[u] = 500 => hurt[u] \in {"db", "disk", "read", "broken"}
    /\ status[u] = 401 <=> Ended(u) /\ hurt[u] # "crash" /\ ~form[u].token
    /\ status[u] = 413 => form[u].big /\ form[u].mime \in Allowed
    /\ status[u] = 422 => ~Good(u) /\ (form[u].field = "file"
                                       /\ form[u].mime \in Allowed => ~form[u].big)

Local(u) == UnderWay(u) /\ Kept(u) /\ Explained(u) /\ Told(u)

UploadsInv == TypeOK /\ \A u \in Uploads : Local(u)

LEMMA InitInv == Init => UploadsInv
BY DEF Init, UploadsInv, TypeOK, Local, UnderWay, Kept, Explained, Told, Ended

\* An upload of which nothing changes stays as it is.
LEMMA Untouched ==
    ASSUME NEW u \in Uploads, Local(u), form' = form, pc'[u] = pc[u],
           file'[u] = file[u], status'[u] = status[u], hurt'[u] = hurt[u]
    PROVE  Local(u)'
BY DEF Local, UnderWay, Kept, Explained, Told, Good, Ended, Refusal, HasValidSignature

\* An upload that goes on writes only its own entries.
LEMMA Frame ==
    ASSUME UploadsInv, NEW u \in Uploads, Arrive(u) \/ Leave(u) \/ Step(u)
    PROVE  /\ TypeOK' /\ form' = form
           /\ \A v \in Uploads \ {u} :
                /\ pc'[v] = pc[v] /\ file'[v] = file[v]
                /\ status'[v] = status[v] /\ hurt'[v] = hurt[v]
<1> USE UploadsAssumption
    DEF UploadsInv, TypeOK, Goto, Answer, AnswerAfter, Removed,
        LeftBehind
<1>1. CASE Arrive(u)
  BY <1>1 DEF Arrive
<1>2. CASE Authenticate(u)
  BY <1>2 DEF Authenticate
<1>3. CASE Filter(u)
  BY <1>3 DEF Filter
<1>4. CASE Write(u)
  BY <1>4 DEF Write
<1>5. CASE Discard(u)
  BY <1>5 DEF Discard, Refusal, UnderWay, Local
<1>6. CASE ReadSignature(u)
  BY <1>6 DEF ReadSignature
<1>7. CASE Unlink(u)
  BY <1>7 DEF Unlink
<1>8. CASE Leave(u)
  BY <1>8 DEF Leave
<1> QED
  BY <1>1, <1>2, <1>3, <1>4, <1>5, <1>6, <1>7, <1>8 DEF Step

\* And what it writes there keeps what is known of it.
LEMMA OwnKeeps ==
    ASSUME UploadsInv, NEW u \in Uploads, Arrive(u) \/ Leave(u) \/ Step(u)
    PROVE  Local(u)'
<1> USE UploadsAssumption
    DEF UploadsInv, TypeOK, Goto, Answer, AnswerAfter, Removed, LeftBehind,
        Local, UnderWay, Kept, Explained, Told, Good, Ended, Refusal, HasValidSignature
<1>1. CASE Arrive(u)
  BY <1>1 DEF Arrive
<1>2. CASE Authenticate(u)
  BY <1>2 DEF Authenticate
<1>3. CASE Filter(u)
  BY <1>3 DEF Filter, Form
<1>4. CASE Write(u)
  BY <1>4 DEF Write, Form
<1>5. CASE Discard(u)
  BY <1>5 DEF Discard
<1>6. CASE ReadSignature(u)
  BY <1>6 DEF ReadSignature
<1>7. CASE Unlink(u)
  BY <1>7 DEF Unlink
<1>8. CASE Leave(u)
  BY <1>8 DEF Leave
<1> QED
  BY <1>1, <1>2, <1>3, <1>4, <1>5, <1>6, <1>7, <1>8 DEF Step

LEMMA CrashKeeps == ASSUME UploadsInv, Crash PROVE UploadsInv'
<1>1. TypeOK'
  BY DEF Crash, UploadsInv, TypeOK
<1>2. ASSUME NEW u \in Uploads, InProgress(u) PROVE Local(u)'
  BY <1>2 DEF Crash, InProgress, UploadsInv, TypeOK, Local, UnderWay, Kept,
     Explained, Told, Good, Ended
<1>3. ASSUME NEW u \in Uploads, ~InProgress(u) PROVE Local(u)'
  BY <1>3, Untouched DEF Crash, UploadsInv
<1> QED
  BY <1>1, <1>2, <1>3 DEF UploadsInv

LEMMA NextKeeps == UploadsInv /\ [Next]_vars => UploadsInv'
<1> SUFFICES ASSUME UploadsInv, [Next]_vars PROVE UploadsInv'
  OBVIOUS
<1>1. ASSUME NEW u \in Uploads, Arrive(u) \/ Leave(u) \/ Step(u) PROVE UploadsInv'
  <2>1. TypeOK'
    BY <1>1, Frame
  <2>2. Local(u)'
    BY <1>1, OwnKeeps
  <2>3. ASSUME NEW v \in Uploads, v # u PROVE Local(v)'
    BY <1>1, <2>3, Frame, Untouched DEF UploadsInv
  <2> QED
    BY <2>1, <2>2, <2>3 DEF UploadsInv
<1>2. CASE UNCHANGED vars
  BY <1>2, Untouched DEF vars, UploadsInv, TypeOK
<1> QED
  BY <1>1, <1>2, CrashKeeps DEF Next

LEMMA UploadsInvariant == Spec => []UploadsInv
BY InitInv, NextKeeps, PTL DEF Spec

-----------------------------------------------------------------------------
(* Requests and files keep their types.                                      *)
THEOREM TypeCorrect == Spec => []TypeOK
<1>1. UploadsInv => TypeOK
  BY DEF UploadsInv
<1> QED
  BY <1>1, UploadsInvariant, PTL

(* An accepted file is on the disk, whole, allowed and of the type it was    *)
(* declared to have, and stays there.                                        *)
THEOREM AcceptedFilesAreKept == Spec => []AcceptedIsKept
<1>1. UploadsInv => AcceptedIsKept
  BY DEF UploadsInv, Local, Kept, AcceptedIsKept
<1> QED
  BY <1>1, UploadsInvariant, PTL

(* What is refused leaves nothing on the disk but after a fault.             *)
THEOREM OrphansHaveAReason == Spec => []OrphansExplained
<1>1. UploadsInv => OrphansExplained
  BY DEF UploadsInv, Local, Explained, OrphansExplained
<1> QED
  BY <1>1, UploadsInvariant, PTL

(* The status tells the client's mistakes from the server's faults.          *)
THEOREM StatusesTell == Spec => []StatusTells
<1>1. UploadsInv => StatusTells
  BY ZenonT(30) DEF UploadsInv, Local, Told, Good, StatusTells
<1> QED
  BY <1>1, UploadsInvariant, PTL
=============================================================================
