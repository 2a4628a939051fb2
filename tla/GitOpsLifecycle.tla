--------------------------- MODULE GitOpsLifecycle ---------------------------
(***************************************************************************)
(* What the GitOps outbox promises about one execution, without leases,    *)
(* rows or a provider: whoever took it last settles it, once; a failure    *)
(* may be queued again, a bounded number of times; after a success nothing *)
(* but its change is recorded, and a synchroniser that is alone follows it *)
(* until it is merged or closed, and then no more.                         *)
(***************************************************************************)
EXTENDS Naturals

CONSTANTS Workers, Syncs, Admin, Nobody, MaxAttempts

VARIABLES
    phase,     \* the status shown for the execution
    by,        \* who brought it there
    attempts   \* how often it was queued

vars == <<phase, by, attempts>>

Init == phase = "none" /\ by = Nobody /\ attempts = 0

Enqueue ==
    /\ phase = "none"
    /\ phase' = "queued" /\ by' = Admin /\ attempts' = 1

(* Also a take-over from a worker that is late or gone.                      *)
Claim(w) ==
    /\ phase \in {"queued", "claimed"}
    /\ phase' = "claimed" /\ by' = w /\ UNCHANGED attempts

Settle(w) ==
    /\ phase = "claimed" /\ by = w
    /\ phase' \in {"succeeded", "failed"} /\ UNCHANGED <<by, attempts>>

Retry ==
    /\ phase = "failed" /\ attempts < MaxAttempts
    /\ phase' = "queued" /\ by' = Admin /\ attempts' = attempts + 1

Changes == {"change_open", "change_merged", "change_closed"}
Alone(s) == \A t \in Syncs : t = s

(* A synchroniser does not compare what it read when it appends, so that one *)
(* of several may repeat or take back what another just recorded.            *)
Follow(s) ==
    /\ phase \in {"succeeded"} \cup Changes /\ phase' \in Changes
    /\ Alone(s) => phase \in {"succeeded", "change_open"} /\ phase' # phase
    /\ by' = s /\ UNCHANGED attempts

Next ==
    \/ Enqueue \/ Retry
    \/ \E w \in Workers : Claim(w) \/ Settle(w)
    \/ \E s \in Syncs : Follow(s)

Spec == Init /\ [][Next]_vars
=============================================================================
