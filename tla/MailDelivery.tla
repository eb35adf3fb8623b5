---------------------------- MODULE MailDelivery ----------------------------
(***************************************************************************)
(* What the email queue promises to who queues a mail: it is settled once, *)
(* as delivered only after a copy has left, and never more than MaxCopies  *)
(* copies leave.  A copy may still leave after the mail is settled, and a  *)
(* mail that was given up may have been delivered.                         *)
(***************************************************************************)
EXTENDS Naturals

CONSTANTS Mails, MaxCopies

VARIABLES status, copies

vars == <<status, copies>>

Init ==
    /\ status = [m \in Mails |-> "unknown"]
    /\ copies = [m \in Mails |-> 0]

Accept(m) ==
    /\ status[m] = "unknown"
    /\ status' = [status EXCEPT ![m] = "accepted"]
    /\ UNCHANGED copies

Send(m) ==
    /\ status[m] # "unknown"
    /\ copies[m] < MaxCopies
    /\ copies' = [copies EXCEPT ![m] = @ + 1]
    /\ UNCHANGED status

Settle(m) ==
    /\ status[m] = "accepted"
    /\ \/ copies[m] > 0 /\ status' = [status EXCEPT ![m] = "delivered"]
       \/ status' = [status EXCEPT ![m] = "givenUp"]
    /\ UNCHANGED copies

Next == \E m \in Mails : Accept(m) \/ Send(m) \/ Settle(m)

SafeSpec == Init /\ [][Next]_vars

Spec == SafeSpec /\ \A m \in Mails : WF_vars(Settle(m))
=============================================================================
