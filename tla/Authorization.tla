---------------------------- MODULE Authorization ----------------------------
(***************************************************************************)
(* What the role of a session may request (security.go): the middleware    *)
(* asks before any handler runs, and the handlers ask again, in the terms  *)
(* of the groups.  A request is named by the page it is made to and by     *)
(* what its form asks for, "view" being a request that only reads.         *)
(***************************************************************************)

SessionRoles == {"admin", "operator", "group_owner", "viewer"}

\* What a role on a page that Settings > Users gives to members of a group.
OwningRoles  == {"group_owner"}
EditingRoles == {"group_owner", "configuration_editor"}
ReviewingRoles == {"group_owner", "deployment_approver"}

(* The pages that a group owner may open.                                   *)
GroupOwnerPages == {"account", "agents", "groups", "packages", "blueprints", "approvals"}

(* What a form of a group's page asks for; anything else is administration. *)
EditsOfGroups   == {"request_deployment", "create_configuration", "cancel_deployment"}
ReviewsOfGroups == {"approve_deployment", "reject_deployment", "send_back_deployment"}

RequiredPermission(page, action) ==
    CASE page = "account" -> "read"
      [] page \in {"settings", "audit-log"} -> "admin"
      [] page = "approvals" -> "approve"
      [] page = "packages" /\ action = "publish" -> "admin"
      [] action = "view" -> "read"
      [] page = "groups" /\ action \in ReviewsOfGroups -> "approve"
      [] page = "groups" /\ action \notin EditsOfGroups \cup ReviewsOfGroups -> "admin"
      [] OTHER -> "edit"

RoleAllows(role, permission) ==
    permission \in CASE role = "admin"       -> {"read", "edit", "approve", "admin"}
                     [] role = "group_owner" -> {"read", "edit", "approve"}
                     [] role = "operator"    -> {"read", "edit"}
                     [] role = "viewer"      -> {"read"}
                     [] OTHER                -> {}

Authorized(role, page, action) ==
    /\ role = "group_owner" => page \in GroupOwnerPages
    /\ RoleAllows(role, RequiredPermission(page, action))
===============================================================================
