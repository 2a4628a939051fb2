--------------------------- MODULE GroupDecision ---------------------------
(***************************************************************************)
(* What a deployment request promises to those who ask and those who       *)
(* review: it is decided once, and only a request that was approved is     *)
(* carried out and ends as completed or failed.                            *)
(***************************************************************************)
CONSTANT Requests

VARIABLE status   \* the status of each request, "absent" before it is made

Decisions == {"deploying", "rejected", "sent_back", "cancelled", "expired"}
Outcomes  == {"completed", "failed"}
Status    == {"absent", "pending_approval"} \cup Decisions \cup Outcomes

Move(r, from, to) ==
    /\ status[r] \in from
    /\ \E s \in to : status' = [status EXCEPT ![r] = s]

Submitted(r) == Move(r, {"absent"}, {"pending_approval"})
Decided(r)   == Move(r, {"pending_approval"}, Decisions \ {"expired"})
Ended(r)     == Move(r, {"deploying"}, Outcomes)

(* One sweep may expire several requests.                                    *)
Expired ==
    \E R \in SUBSET {r \in Requests : status[r] = "pending_approval"} :
        status' = [r \in Requests |-> IF r \in R THEN "expired" ELSE status[r]]

(* A handler sweeps before it decides nothing, or decides later.             *)
Next == Expired \/ \E r \in Requests : Submitted(r) \/ Decided(r) \/ Ended(r)

Init == status = [r \in Requests |-> "absent"]
Spec == Init /\ [][Next]_status
=============================================================================
