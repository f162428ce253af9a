----------------------------- MODULE MCAccounts -----------------------------
EXTENDS Accounts, TLC

CONSTANTS root, admin, common, free

MCUsers == {root, admin, common, free}
MCRoles == [u \in MCUsers |-> CASE u = root -> RoleRootUser [] u = admin -> RoleAdminUser
                                [] u = common -> RoleCommonUser [] u = free -> 0]

\* Operations on status and role, on identities and codes, and on quota.
MCFamilies == {
  [max |-> 2, ops |-> {"GenerateAccessToken", "UpdateSelf", "UpdateUser", "ManageUser", "ManageRole", "ManageDelete",
                       "DeleteSelf", "DeleteUser", "Login", "Logout"}],
  [max |-> 3, ops |-> {"GenerateAccessToken", "ManageUser", "DeleteSelf"}],
  [max |-> 3, ops |-> {"GenerateAccessToken", "ManageRole"}],
  [max |-> 3, ops |-> {"GenerateAccessToken", "EmailBind", "GitHubBind", "GitHubOAuth", "Register", "CreateUser",
                       "SendEmailVerification", "SendPasswordResetEmail", "ResetPassword"}],
  [max |-> 2, ops |-> {"LarkBind", "LarkOAuth", "ManageUser"}],
  [max |-> 2, ops |-> {"OidcBind", "OidcAuth", "ManageUser"}],
  [max |-> 5, ops |-> {"EmailBind", "SendEmailVerification", "SendPasswordResetEmail", "ResetPassword"}],
  [max |-> 3, ops |-> {"GenerateAccessToken", "Redeem", "UpdateRedemption", "DeleteRedemption", "UpdateToken",
                       "ValidateUserToken", "DeleteToken", "AdminTopUp", "Consume"}],
  [max |-> 4, ops |-> {"Redeem", "UpdateRedemption"}]}

Symmetric == Permutations(Handlers) \cup Permutations(Nodes)
=============================================================================
