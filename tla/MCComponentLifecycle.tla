----------------------- MODULE MCComponentLifecycle -----------------------
EXTENDS ComponentLifecycle, TLC

CONSTANTS ann, bob, g1

Account(session, member) == [session |-> session, member |-> member, enabled |-> TRUE]

(* Bob, who may approve deployments of the group, was made an operator.     *)
Accounts == ann :> Account("admin", {}) @@ bob :> Account("operator", {"deployment_approver"})
MCNewRanks == {Account("admin", {}), Account("operator", {}),
               Account("group_owner", {"group_owner"})}

(* A Kubernetes collector under FleetAMP's authority, the same one after an *)
(* upgrade, one on a virtual machine and one that is offline.               *)
Managed == [identity |-> g1, pinned |-> FALSE, named |-> {}, excluded |-> {}, labels |-> {"prod"},
            type |-> "otel_collector", runtime |-> "kubernetes",
            authority |-> "lifecycle_managed", version |-> "v1",
            connected |-> TRUE, healthy |-> TRUE, reportsHealth |-> TRUE]
Upgraded == [Managed EXCEPT !.version = "v2"]
Machine  == [Managed EXCEPT !.runtime = "vm", !.identity = Empty, !.named = {g1}]
Offline  == [Managed EXCEPT !.connected = FALSE]
MCReports == {Managed, Upgraded, Machine, Offline}

Upgrade == [operation |-> "upgrade", type |-> "otel-collector-kubernetes", group |-> g1,
            labels |-> {"prod"}, method |-> "gitops", current |-> "v1", desired |-> "v2"]
MCSpecs == {Upgrade,
            [Upgrade EXCEPT !.type = "otel-collector"],
            [Upgrade EXCEPT !.operation = "install", !.current = Empty, !.method = "carrier"],
            [Upgrade EXCEPT !.operation = "restart", !.type = "otel-operator"]}

Repository == [groups |-> {g1}, enabled |-> TRUE, name |-> "repository"]
MCConnections == {Repository, [Repository EXCEPT !.enabled = FALSE]}

Symmetry == Permutations(Handlers)
===========================================================================
