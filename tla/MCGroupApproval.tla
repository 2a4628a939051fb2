-------------------------- MODULE MCGroupApproval --------------------------
EXTENDS GroupApproval, TLC
CONSTANTS owner, admin
Roles == owner :> "group_owner" @@ admin :> "admin"
=============================================================================
