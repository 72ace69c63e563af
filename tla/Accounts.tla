------------------------------ MODULE Accounts ------------------------------
(***************************************************************************)
(* Accounts, roles and tokens: internal/service/auth_service.go, the auth  *)
(* and user handlers of internal/handler/auth_handler.go, and the          *)
(* middleware of internal/middleware/auth.go and permission.go.            *)
(*                                                                         *)
(* A token is its claims: it carries the role of the moment it was made,   *)
(* and JWTAuth never looks at the user again.  Passwords are left to the   *)
(* environment, names to the unique index.  Time is counted in hours, and  *)
(* only as the age of what there is.                                       *)
(***************************************************************************)
EXTENDS Naturals, FiniteSets

CONSTANTS Accounts,      \* ids of users, never used twice
          Workers,       \* requests of admins served at the same time
          PlainRoles,    \* roles that are not admin
          Lifetime,      \* JWTExpireHours
          Leeway,        \* of JWTAuthForRefresh, 24 hours
          Tokens         \* bound on the tokens not yet of the past

ASSUME AccountAssumption ==
  /\ Lifetime \in Nat \ {0} /\ Leeway \in Nat \ {0} /\ Tokens \in Nat
  /\ "admin" \notin PlainRoles /\ "player" \in PlainRoles

VARIABLES
  users,       \* rows of users: whether there is one, its role, must_change_password
  issued,      \* tokens in somebody's hands
  blacklist,   \* tokenBlacklist: an entry is of the age of its token
  deletions,   \* deletions of users under way
  revoked,     \* history: tokens logged out since the process started
  settled,     \* history: hours the row of a user has not changed, up to Lifetime
  contested    \* history: deletions overlapped, or an admin lost its role by an edit

accountVars == <<users, issued, blacklist, deletions, revoked, settled, contested>>

Roles == {"admin"} \cup PlainRoles
Row   == [is : {"unborn", "present", "deleted"}, role : Roles, must : BOOLEAN]
Token == [user : Accounts, role : Roles, age : 0..Lifetime + Leeway]
Deletion == [at : {"idle", "count", "delete"}, victim : Accounts \cup {"nobody"}]

AccountsTypeOK ==
  /\ users \in [Accounts -> Row]
  /\ issued \subseteq Token /\ blacklist \subseteq Token /\ revoked \subseteq Token
  /\ deletions \in [Workers -> Deletion]
  /\ settled \in [Accounts -> 0..Lifetime]
  /\ contested \in BOOLEAN

NoUser == [is |-> "unborn", role |-> "player", must |-> FALSE]
NoDeletion == [at |-> "idle", victim |-> "nobody"]

\* seedAdmin makes the first admin.
AccountInit ==
  /\ \E a \in Accounts :
       users = [u \in Accounts |-> IF u = a THEN [is |-> "present", role |-> "admin", must |-> TRUE]
                                   ELSE NoUser]
  /\ issued = {} /\ blacklist = {} /\ revoked = {}
  /\ deletions = [w \in Workers |-> NoDeletion]
  /\ settled = [u \in Accounts |-> 0]
  /\ contested = FALSE

Present(u) == users[u].is = "present"
-----------------------------------------------------------------------------
(***************************************************************************)
(* Tokens and the middleware.                                              *)
(***************************************************************************)

\* GenerateToken: equal claims of the same second make the same token.
Made(u, role) == [user |-> u, role |-> role, age |-> 0]

Give(token) ==
  /\ Cardinality(issued \cup {token}) <= Tokens
  /\ issued' = issued \cup {token}

\* isTokenBlacklisted: an entry counts until its token expires.
Blacklisted(token) == token \in blacklist /\ token.age < Lifetime

JWTAuth(token) == ~Blacklisted(token) /\ token.age < Lifetime

JWTAuthForRefresh(token) == ~Blacklisted(token) /\ token.age < Lifetime + Leeway

\* A user that is gone has no password to change.
EnforcePasswordChange(token) == ~(Present(token.user) /\ users[token.user].must)

\* RequireRole(RoleAdmin) looks at the claims.
Administrates(token) ==
  /\ JWTAuth(token) /\ token.role = "admin" /\ EnforcePasswordChange(token)
-----------------------------------------------------------------------------
(***************************************************************************)
(* What a user does with its account.                                      *)
(***************************************************************************)
Login(u) ==
  /\ Present(u)
  /\ Give(Made(u, users[u].role))
  /\ UNCHANGED <<users, blacklist, deletions, revoked, settled, contested>>

Register(u) ==
  /\ users[u] = NoUser
  /\ users' = [users EXCEPT ![u] = [is |-> "present", role |-> "player", must |-> TRUE]]
  /\ Give(Made(u, "player"))
  /\ UNCHANGED <<blacklist, deletions, revoked, settled, contested>>

ChangePassword(token) ==
  /\ JWTAuth(token) /\ Present(token.user)
  /\ users' = [users EXCEPT ![token.user] =
                 [is |-> "present", role |-> users[token.user].role, must |-> FALSE]]
  /\ UNCHANGED <<issued, blacklist, deletions, revoked, settled, contested>>

\* Mutant: what is left of the time of a token is not looked at.
Cleaned_All == {}

\* cleanupBlacklist drops the entries of expired tokens.
Cleaned == {token \in blacklist : token.age < Lifetime}

BlacklistToken(token) == blacklist' = Cleaned \cup {token}

Logout(token) ==
  /\ JWTAuth(token)
  /\ BlacklistToken(token)
  /\ revoked' = revoked \cup {token}
  /\ UNCHANGED <<users, issued, deletions, settled, contested>>

\* Mutant: the new token copies the claims of the old one.
RefreshToken_Copies(token) ==
  /\ JWTAuthForRefresh(token)
  /\ Give(Made(token.user, token.role))
  /\ UNCHANGED <<users, blacklist, deletions, revoked, settled, contested>>

\* The user is read again.
RefreshToken(token) ==
  /\ JWTAuthForRefresh(token) /\ Present(token.user)
  /\ Give(Made(token.user, users[token.user].role))
  /\ UNCHANGED <<users, blacklist, deletions, revoked, settled, contested>>
-----------------------------------------------------------------------------
(***************************************************************************)
(* What an admin does with the accounts of others.                         *)
(***************************************************************************)
CreateUser(token, u, role) ==
  /\ Administrates(token) /\ users[u] = NoUser
  /\ users' = [users EXCEPT ![u] = [is |-> "present", role |-> role, must |-> TRUE]]
  /\ UNCHANGED <<issued, blacklist, deletions, revoked, settled, contested>>

\* UpdateUser: the last admin may lose its role.
UpdateUser(token, u, role) ==
  /\ Administrates(token) /\ Present(u)
  /\ users' = [users EXCEPT ![u] = [is |-> "present", role |-> role, must |-> users[u].must]]
  /\ settled' = [settled EXCEPT ![u] = 0]
  /\ contested' = (contested \/ (users[u].role = "admin" /\ role # "admin"))
  /\ UNCHANGED <<issued, blacklist, deletions, revoked>>

Deleting(w, stage) == deletions[w].at = stage
NextStage(w, stage) == deletions' = [deletions EXCEPT ![w] = [at |-> stage, victim |-> deletions[w].victim]]

\* Delete of the user handler reads the row of the victim ...
BeginDeletion(w, token, u) ==
  /\ Deleting(w, "idle")
  /\ Administrates(token) /\ token.user # u /\ Present(u)
  /\ deletions' = [deletions EXCEPT ![w] =
       [at |-> IF users[u].role = "admin" THEN "count" ELSE "delete", victim |-> u]]
  /\ contested' = (contested \/ \E v \in Workers : ~Deleting(v, "idle"))
  /\ UNCHANGED <<users, issued, blacklist, revoked, settled>>

OtherAdmins(u) == {a \in Accounts \ {u} : Present(a) /\ users[a].role = "admin"}

\* Mutant: the count takes in the victim itself.
CountAdmins_All(w) ==
  /\ Deleting(w, "count")
  /\ IF {a \in Accounts : Present(a) /\ users[a].role = "admin"} = {}
     THEN deletions' = [deletions EXCEPT ![w] = NoDeletion]
     ELSE NextStage(w, "delete")
  /\ UNCHANGED <<users, issued, blacklist, revoked, settled, contested>>

\* ... counts the other admins, if the victim is one ...
CountAdmins(w) ==
  /\ Deleting(w, "count")
  /\ IF OtherAdmins(deletions[w].victim) = {}
     THEN deletions' = [deletions EXCEPT ![w] = NoDeletion]
     ELSE NextStage(w, "delete")
  /\ UNCHANGED <<users, issued, blacklist, revoked, settled, contested>>

\* ... and deletes it.  Its tokens stay what they are.
DeleteUser(w) ==
  /\ Deleting(w, "delete")
  /\ LET u == deletions[w].victim IN
     /\ users' = [users EXCEPT ![u] = [is |-> "deleted", role |-> users[u].role, must |-> FALSE]]
     /\ settled' = [settled EXCEPT ![u] = 0]
  /\ deletions' = [deletions EXCEPT ![w] = NoDeletion]
  /\ UNCHANGED <<issued, blacklist, revoked, contested>>
-----------------------------------------------------------------------------
\* A token too old for the refresh is of the past, and so is its entry.
Older(tokens, limit) ==
  {[token EXCEPT !.age = token.age + 1] : token \in {x \in tokens : x.age < limit}}

PassHour ==
  /\ issued' = Older(issued, Lifetime + Leeway - 1)
  /\ blacklist' = Older(blacklist, Lifetime + Leeway - 1)
  /\ revoked' = Older(revoked, Lifetime + Leeway - 1)
  /\ settled' = [u \in Accounts |-> IF settled[u] < Lifetime THEN settled[u] + 1 ELSE Lifetime]
  /\ UNCHANGED <<users, deletions, contested>>

\* The blacklist is in memory, the rows and the tokens are not.  seedAdmin
\* makes an admin when there is none.
Restart ==
  /\ blacklist' = {} /\ revoked' = {}
  /\ deletions' = [w \in Workers |-> NoDeletion]
  /\ \/ /\ \E u \in Accounts : Present(u) /\ users[u].role = "admin"
        /\ UNCHANGED users
     \/ /\ ~\E u \in Accounts : Present(u) /\ users[u].role = "admin"
        /\ \E u \in Accounts :
             /\ users[u] = NoUser
             /\ users' = [users EXCEPT ![u] = [is |-> "present", role |-> "admin", must |-> TRUE]]
  /\ contested' = FALSE
  /\ UNCHANGED <<issued, settled>>

AccountNext ==
  \/ \E u \in Accounts : Login(u) \/ Register(u)
  \/ \E token \in issued :
       \/ ChangePassword(token) \/ Logout(token) \/ RefreshToken(token)
       \/ \E u \in Accounts :
            \/ \E role \in Roles : CreateUser(token, u, role) \/ UpdateUser(token, u, role)
            \/ \E w \in Workers : BeginDeletion(w, token, u)
  \/ \E w \in Workers : CountAdmins(w) \/ DeleteUser(w)
  \/ PassHour
  \/ Restart

AccountSpec == AccountInit /\ [][AccountNext]_accountVars
-----------------------------------------------------------------------------
(***************************************************************************)
(* Properties.                                                             *)
(***************************************************************************)

\* Since the process started there is an admin, unless two deletions of users
\* overlapped or an edit took the role of one: tokens of admins that were
\* deleted or lost their role meanwhile do not change that.
AdminRemains == contested \/ \E u \in Accounts : Present(u) /\ users[u].role = "admin"

\* Until the process restarts no request that JWTAuth guards passes with a token
\* that was logged out, and no refresh takes it before it has expired: the
\* cleaning of the blacklist does not bring it back.  A refresh does take it
\* after that, for as long as its leeway: by then the blacklist has let it go.
\* (A websocket asks for no blacklist at all: it is not guarded by JWTAuth.)
LoggedOutStaysOut ==
  \A token \in revoked :
    /\ ~JWTAuth(token)
    /\ JWTAuthForRefresh(token) => token.age >= Lifetime

\* The role a token claims is the role of its user, unless the row changed less
\* than the lifetime of a token ago: a role taken away, or a user deleted, lives
\* on for that long and no longer, however often its tokens are refreshed.
ClaimsAgeOut ==
  \A token \in issued :
    JWTAuth(token) /\ settled[token.user] = Lifetime =>
      Present(token.user) /\ users[token.user].role = token.role
=============================================================================
