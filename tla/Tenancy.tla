------------------------------ MODULE Tenancy ------------------------------
(***************************************************************************)
(* The enterprise layer (blockthrough/enterprise and its routes): tenants, *)
(* their users and roles, single sign-on, and the tenant a request works   *)
(* for, kept in a context variable of its own for each request. Users are  *)
(* a dict: a sequence of which an update keeps the order.                  *)
(***************************************************************************)
EXTENDS Integers, Sequences, FiniteSets, SequencesExt

CONSTANTS
    Emails,
    SsoProviders,
    UserRoles,      \* role -> the permissions it grants (ROLE_PERMISSIONS)
    Permissions,
    HttpRequests,   \* requests in flight
    MaxTenants, MaxUsers, MaxLogins, MaxBlocks \* bounds: tenants, users ever added, logins, open blocks

ASSUME TenancyAssumption ==
    {MaxTenants, MaxUsers, MaxLogins, MaxBlocks} \subseteq Nat /\ \A r \in DOMAIN UserRoles : UserRoles[r] \subseteq Permissions

VARIABLES
    tenants,   \* _tenants: whether tenant i is active (name, plan, settings left out)
    users,     \* _users, in the order they were added
    contexts,  \* request -> its context: [tenant, user, blocks]
    directory  \* history: [added, logins, last: who logged in last by email and provider, given: id -> role]

tenancyVars == <<tenants, users, contexts, directory>>
NoTenant == 0
NoUser == 0
NoSso == "none"
SsoAccounts == Emails \X SsoProviders
NoContext == [tenant |-> NoTenant, user |-> NoUser, admitted |-> NoTenant, blocks |-> <<>>]

TenancyInit ==
    /\ tenants = <<>> /\ users = <<>>
    /\ contexts = [r \in HttpRequests |-> NoContext]
    /\ directory = [added |-> 0, logins |-> 0, last |-> [a \in SsoAccounts |-> NoUser], given |-> <<>>]

PositionOf(u) == {i \in DOMAIN users : users[i].id = u}

CreateTenant ==
    /\ Len(tenants) < MaxTenants
    /\ tenants' = Append(tenants, TRUE)
    /\ UNCHANGED <<users, contexts, directory>>
UpdateTenant(t, active) ==
    /\ t \in DOMAIN tenants
    /\ tenants' = [tenants EXCEPT ![t] = active]
    /\ UNCHANGED <<users, contexts, directory>>
DeactivateTenant(t) == UpdateTenant(t, FALSE)

NewUser(t, email, role, provider) ==
    [id |-> directory.added + 1, tenant |-> t, email |-> email, role |-> role,
     provider |-> provider, lastLogin |-> 0]
AddUser(t, email, role, provider) ==
    /\ t \in DOMAIN tenants /\ directory.added < MaxUsers
    /\ users' = Append(users, NewUser(t, email, role, provider))
    /\ directory' = [directory EXCEPT !.added = @ + 1, !.given = Append(@, role)]
    /\ UNCHANGED <<tenants, contexts>>
RemoveUser(t, u) ==
    /\ \E i \in PositionOf(u) : users[i].tenant = t /\ users' = RemoveAt(users, i)
    /\ UNCHANGED <<tenants, contexts, directory>>

\* A changed user takes the place of the old one.
MutReplacedLast(i, user) == Append(RemoveAt(users, i), user)
Replaced(i, user) == [users EXCEPT ![i] = user]
WithRole(user, role) == [user EXCEPT !.role = role]
UpdateRole(t, u, role) ==
    /\ \E i \in PositionOf(u) : users[i].tenant = t /\ users' = Replaced(i, WithRole(users[i], role))
    /\ directory' = [directory EXCEPT !.given[u] = role]
    /\ UNCHANGED <<tenants, contexts>>

\* The first user with the e-mail and the provider of the token.
AuthenticateSso(email, provider) ==
    LET found == {i \in DOMAIN users : users[i].email = email /\ users[i].provider = provider} IN
    /\ directory.logins < MaxLogins /\ found # {}
    /\ LET i == CHOOSE j \in found : \A k \in found : j <= k IN
       /\ users' = Replaced(i, [users[i] EXCEPT !.lastLogin = directory.logins + 1])
       /\ directory' = [directory EXCEPT !.logins = @ + 1, !.last[<<email, provider>>] = users[i].id]
    /\ UNCHANGED <<tenants, contexts>>

(* Requests. *)
CheckPermission(u, permission) == \E i \in PositionOf(u) : permission \in UserRoles[users[i].role]
RequireTenant(t) == t \in DOMAIN tenants /\ tenants[t]
RequirePermission(r, t, u, permission) ==
    /\ contexts[r] = NoContext /\ RequireTenant(t) /\ CheckPermission(u, permission)
    /\ contexts' = [contexts EXCEPT ![r] = [tenant |-> t, user |-> u, admitted |-> t, blocks |-> <<>>]]
    /\ UNCHANGED <<tenants, users, directory>>

\* __enter__ keeps the token of the old value, __exit__ resets to it.
EnterTenant(r, t) ==
    /\ t \in DOMAIN tenants /\ Len(contexts[r].blocks) < MaxBlocks
    /\ contexts' = [contexts EXCEPT ![r].blocks = Append(@, [tenant |-> t, token |-> contexts[r].tenant]),
                                    ![r].tenant = t]
    /\ UNCHANGED <<tenants, users, directory>>
AfterExit(context) == Last(context.blocks).token
ExitTenant(r) ==
    /\ contexts[r].blocks # <<>>
    /\ contexts' = [contexts EXCEPT ![r].blocks = Front(@), ![r].tenant = AfterExit(contexts[r])]
    /\ UNCHANGED <<tenants, users, directory>>
Respond(r) ==
    /\ contexts[r] # NoContext /\ contexts[r].blocks = <<>>
    /\ contexts' = [contexts EXCEPT ![r] = NoContext]
    /\ UNCHANGED <<tenants, users, directory>>

TenancyNext ==
    \/ CreateTenant
    \/ \E t \in DOMAIN tenants : UpdateTenant(t, TRUE) \/ DeactivateTenant(t)
    \/ \E t \in DOMAIN tenants, e \in Emails, role \in DOMAIN UserRoles, p \in SsoProviders \cup {NoSso} :
          AddUser(t, e, role, p)
    \/ \E t \in DOMAIN tenants, u \in 1..directory.added :
          RemoveUser(t, u) \/ \E role \in DOMAIN UserRoles : UpdateRole(t, u, role)
    \/ \E e \in Emails, p \in SsoProviders : AuthenticateSso(e, p)
    \/ \E r \in HttpRequests :
          \/ \E t \in DOMAIN tenants : \/ EnterTenant(r, t)
                                       \/ \E u \in 1..directory.added, p \in Permissions : RequirePermission(r, t, u, p)
          \/ ExitTenant(r) \/ Respond(r)

\* One account of one provider stays one user: whoever logged in with it last is who
\* logs in next, role changes and newer users with the same e-mail notwithstanding,
\* until that user is removed.
SameUserUntilRemoved ==
    [][\A a \in SsoAccounts :
          (directory'.last[a] # directory.last[a] /\ directory.last[a] # NoUser) =>
              PositionOf(directory.last[a]) = {}]_tenancyVars

\* Users are copied at each change, and no copy loses what another change wrote:
\* the role is the one given last, the login the one made last.
CopiesLoseNothing ==
    /\ \A i \in DOMAIN users : users[i].role = directory.given[users[i].id]
    /\ \A a \in SsoAccounts : \A i \in PositionOf(directory.last[a]) : users[i].lastLogin > 0

\* While requests for several tenants are served at once, each works for the tenant
\* of its innermost open block, else for the one it was admitted for.
InnermostTenant ==
    \A r \in HttpRequests :
        contexts[r].tenant = IF contexts[r].blocks = <<>> THEN contexts[r].admitted
                             ELSE Last(contexts[r].blocks).tenant

\* A user stays the same over logins and changes of role, and a request acts for the
\* tenant of the innermost block it is in.
IdentitiesKept == []CopiesLoseNothing /\ []InnermostTenant /\ SameUserUntilRemoved
=============================================================================
