------------------------------- MODULE Scopes -------------------------------
(***************************************************************************)
(* Scopes: src/shared/auth/scopes.ts, the guards of                        *)
(* middleware/scopeValidator.ts, and the routes of the gateway that carry  *)
(* a guard.  A scope string resource:action is a pair; a list of scopes is *)
(* the set of its elements.                                                *)
(***************************************************************************)
EXTENDS Integers

CONSTANT
    Malformed       \* strings that are no scope

Resources == {"clients", "tiers", "api_keys", "users", "usage", "webhooks", "analytics", "audit"}
Actions == {"read", "write", "delete", "admin"}
Scope == Resources \X Actions

ASSUME MalformedAssumption == Malformed \cap Scope = {}

VARIABLE
    caller      \* who has authenticated: [role, permissions]

scopeVars == <<caller>>

\* SCOPES: the scopes the code has a name for.
Predefined ==
    ({"clients", "tiers", "api_keys", "users"} \X Actions)
        \cup ({"usage"} \X {"read", "write"})
        \cup ({"webhooks"} \X {"read", "write", "delete"})
        \cup {<<"analytics", "read">>, <<"audit", "read">>, <<"audit", "admin">>}

\* SCOPE_GROUPS.
Group == [
    READONLY    |-> {"clients", "tiers", "usage", "analytics"} \X {"read"},
    DEVELOPER   |-> ({"clients", "api_keys", "webhooks"} \X {"read", "write"})
                        \cup ({"tiers", "usage"} \X {"read"}),
    ADMIN       |-> ({"clients", "tiers", "api_keys", "users", "usage", "webhooks"} \X {"read", "write"})
                        \cup {<<"clients", "admin">>, <<"api_keys", "delete">>, <<"webhooks", "delete">>}
                        \cup {<<"analytics", "read">>, <<"audit", "read">>, <<"audit", "admin">>},
    SUPER_ADMIN |-> Predefined]

\* validateScopes: valid when the list of the invalid ones is empty.
InvalidScopes(list) == {s \in list : s \notin Scope}
ValidateScopes(list) == InvalidScopes(list) = {}

\* actionHierarchy.
Superior == [read |-> {"write", "delete", "admin"}, write |-> {"delete", "admin"},
             delete |-> {"admin"}, admin |-> {}]

\* Mutant: the hierarchy read from the other end.
HasPermissionInferior(held, s) ==
    s \in held \/ \E a \in Actions : s[2] \in Superior[a] /\ <<s[1], a>> \in held

HasPermission(held, s) == s \in held \/ \E a \in Superior[s[2]] : <<s[1], a>> \in held

HasAnyPermission(held, list) == \E s \in list : HasPermission(held, s)

\* parseScopes: null, an array, or an object with an array; what is no scope is
\* dropped.
ParseScopes(permissions) ==
    IF permissions.form = "null" THEN {} ELSE permissions.scopes \cap Scope

\* What authenticateJWT loads: all the scopes of SCOPES for an admin.
LoadedScopes(who) ==
    IF who.role = "admin" THEN Group.SUPER_ADMIN ELSE ParseScopes(who.permissions)

-----------------------------------------------------------------------------
(***************************************************************************)
(* The guarded routes: any of the scopes opens one; effect is what its     *)
(* handler does to the rows of which resources.                            *)
(***************************************************************************)

On(resources, effect, guard) == [of |-> resources, effect |-> effect, guard |-> guard]

UserRoutes == {
    On({"users"}, "write", {<<"users", "write">>}),
    On({"users"}, "read", {<<"users", "read">>}),
    On({"users"}, "delete", {<<"users", "delete">>, <<"users", "admin">>})}

\* POST and PATCH; GET; DELETE, which deactivates; usage; reset-usage.
ClientRoutes == {
    On({"clients"}, "write", {<<"clients", "write">>}),
    On({"clients"}, "read", {<<"clients", "read">>}),
    On({"clients"}, "delete", {<<"clients", "delete">>, <<"clients", "admin">>}),
    On({"usage", "clients"}, "read", {<<"usage", "read">>, <<"clients", "admin">>}),
    On({"usage", "clients"}, "write", {<<"usage", "write">>, <<"clients", "admin">>})}

TierRoutes == {
    On({"tiers"}, "write", {<<"tiers", "write">>}),
    On({"tiers"}, "delete", {<<"tiers", "delete">>, <<"tiers", "admin">>})}

KeyRoutes == {
    On({"api_keys"}, "write", {<<"api_keys", "write">>}),
    On({"api_keys"}, "read", {<<"api_keys", "read">>}),
    On({"api_keys"}, "delete", {<<"api_keys", "delete">>, <<"api_keys", "admin">>})}

WhitelistRoutes == {
    On({"clients"}, "write", {<<"clients", "admin">>}),
    On({"clients"}, "read", {<<"clients", "read">>}),
    On({"clients"}, "delete", {<<"clients", "admin">>})}

AuditRoutes == {
    On({"audit"}, "read", {<<"audit", "read">>}),
    On({"audit"}, "write", {<<"audit", "admin">>}),
    On({"audit"}, "delete", {<<"audit", "admin">>})}

Routes == UserRoutes \cup ClientRoutes \cup TierRoutes \cup KeyRoutes \cup WhitelistRoutes \cup AuditRoutes

\* requireScope and requireAnyScope: an empty list when nothing is loaded.
RequireAnyScope(who, route) == HasAnyPermission(LoadedScopes(who), route.guard)

-----------------------------------------------------------------------------
\* Bound: the groups, and every list of at most two strings.
Lists == {{}} \cup {{a, b} : a, b \in Scope \cup Malformed} \cup {Group[g] : g \in DOMAIN Group}

Nobody == [role |-> "user", permissions |-> [form |-> "null", scopes |-> {}]]

ScopesInit == caller = Nobody

\* A user whose scopes were written by POST or PATCH of /users, where a schema
\* checks the form of the strings but not the names.
AsUser(list) == caller' = [role |-> "user", permissions |-> [form |-> "object", scopes |-> list]]

\* A client API key: POST /:clientId/api-keys refuses names that are no scope,
\* and parseAPIKey hands the middleware an array.
AsClientKey(list) ==
    /\ ValidateScopes(list)
    /\ caller' = [role |-> "client", permissions |-> [form |-> "list", scopes |-> list]]

AsAdmin(list) == caller' = [role |-> "admin", permissions |-> [form |-> "object", scopes |-> list]]

ScopesNext ==
    /\ caller = Nobody
    /\ \E list \in Lists : AsUser(list) \/ AsClientKey(list) \/ AsAdmin(list)

ScopesSpec == ScopesInit /\ [][ScopesNext]_scopeVars

-----------------------------------------------------------------------------
Rank == [read |-> 1, write |-> 2, delete |-> 3, admin |-> 4]

\* Whatever scopes a caller holds, a guarded route opens only for one who holds
\* on one of the route's resources an action of at least the rank of what the
\* handler does, whatever the list holds besides; and for an admin all open.
OpenedByRank ==
    \A route \in Routes :
        /\ caller.role = "admin" => RequireAnyScope(caller, route)
        /\ caller.role # "admin" /\ RequireAnyScope(caller, route) =>
              \E held \in caller.permissions.scopes \cap Scope :
                  held[1] \in route.of /\ Rank[held[2]] >= Rank[route.effect]
=============================================================================
