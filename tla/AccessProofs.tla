----------------------------- MODULE AccessProofs -----------------------------
(***************************************************************************)
(* Who may do what, who is whose, and who hears of it: proofs about        *)
(* Accounts, for any accounts, roles and lifetimes, about TeamAdmin, for   *)
(* any teams, players and requests, about RateLimit, for any limits and    *)
(* windows, and about Hub, for any users, games and connections.           *)
(***************************************************************************)
EXTENDS Accounts, TeamAdmin, RateLimit, Hub, Sums

-----------------------------------------------------------------------------
(***************************************************************************)
(* Accounts.                                                               *)
(***************************************************************************)
Admin(a) == Present(a) /\ users[a].role = "admin"

\* One deletion is under way at a time, and when it is about to delete there is
\* another admin than its victim.
DeletionsLeaveAnAdmin ==
  /\ \E a \in Accounts : Admin(a)
  /\ \A v, w \in Workers : ~Deleting(v, "idle") /\ ~Deleting(w, "idle") => v = w
  /\ \A w \in Workers : Deleting(w, "delete") =>
       \E a \in Accounts : a # deletions[w].victim /\ Admin(a)

\* What was logged out is on the blacklist for as long as it would be good.
RevokedAreListed == \A token \in revoked : token.age < Lifetime => token \in blacklist

\* A token younger than the last change of its user's row tells the truth.
YoungTokensTell ==
  \A token \in issued : settled[token.user] > token.age =>
    Present(token.user) /\ users[token.user].role = token.role

AccountInv ==
  /\ AccountsTypeOK
  /\ \A w \in Workers : ~Deleting(w, "idle") => deletions[w].victim \in Accounts
  /\ contested \/ DeletionsLeaveAnAdmin
  /\ RevokedAreListed
  /\ YoungTokensTell

\* An hour later a token is a token of the same claims.
LEMMA OlderToken ==
  ASSUME NEW x \in Token, x.age < Lifetime + Leeway
  PROVE  /\ [x EXCEPT !.age = x.age + 1] \in Token
         /\ [x EXCEPT !.age = x.age + 1].user = x.user
         /\ [x EXCEPT !.age = x.age + 1].role = x.role
         /\ [x EXCEPT !.age = x.age + 1].age = x.age + 1
<1>1. /\ x.age \in 0..Lifetime + Leeway /\ Lifetime \in Nat /\ Leeway \in Nat
  BY AccountAssumption DEF Token
<1>2. x.age + 1 \in 0..Lifetime + Leeway
  BY <1>1
<1> QED BY <1>1, <1>2 DEF Token

\* A step that leaves the deletions and the admins alone.
LEMMA AdminsStay ==
  ASSUME contested \/ DeletionsLeaveAnAdmin, UNCHANGED <<deletions, contested>>,
         \A a \in Accounts : Admin(a) => Admin(a)'
  PROVE  (contested \/ DeletionsLeaveAnAdmin)'
BY DEF DeletionsLeaveAnAdmin, Deleting

\* A step that gives a token which tells the truth.
LEMMA GivenTells ==
  ASSUME YoungTokensTell, NEW token, Give(token),
         \A u \in Accounts : settled'[u] = settled[u],
         issued \subseteq Token,
         \A u \in Accounts : Present(u) => Present(u)' /\ users'[u].role = users[u].role,
         token.user \in Accounts, Present(token.user)', users'[token.user].role = token.role
  PROVE  YoungTokensTell'
<1> SUFFICES ASSUME NEW t \in issued', settled'[t.user] > t.age
             PROVE  Present(t.user)' /\ users'[t.user].role = t.role
  BY DEF YoungTokensTell
<1>1. CASE t = token
  BY <1>1
<1>2. CASE t # token
  <2>1. t \in issued /\ t.user \in Accounts
    BY <1>2 DEF Give, Token
  <2> QED BY <2>1 DEF YoungTokensTell
<1> QED BY <1>1, <1>2

LEMMA AccountStep == AccountInv /\ [AccountNext]_accountVars => AccountInv'
<1> SUFFICES ASSUME AccountInv, [AccountNext]_accountVars PROVE AccountInv'
  OBVIOUS
<1>1. /\ users \in [Accounts -> Row] /\ issued \subseteq Token /\ blacklist \subseteq Token
      /\ revoked \subseteq Token /\ deletions \in [Workers -> Deletion]
      /\ settled \in [Accounts -> 0..Lifetime] /\ contested \in BOOLEAN
      /\ Lifetime \in Nat /\ Leeway \in Nat /\ Lifetime > 0 /\ Leeway > 0
  BY AccountAssumption DEF AccountInv, AccountsTypeOK
<1>2. /\ \A w \in Workers : ~Deleting(w, "idle") => deletions[w].victim \in Accounts
      /\ contested \/ DeletionsLeaveAnAdmin
      /\ RevokedAreListed /\ YoungTokensTell
  BY DEF AccountInv
<1>3. CASE UNCHANGED accountVars
  BY <1>1, <1>2, <1>3 DEF accountVars, AccountInv, AccountsTypeOK, DeletionsLeaveAnAdmin, Admin,
     Present, Deleting, RevokedAreListed, YoungTokensTell
\* A step that gives a token to a user who is there after it.
<1>4. ASSUME NEW u \in Accounts, NEW role \in Roles, Give(Made(u, role)),
             UNCHANGED <<blacklist, deletions, revoked, settled, contested>>,
             users' \in [Accounts -> Row],
             \A a \in Accounts : Present(a) => Present(a)' /\ users'[a].role = users[a].role,
             Present(u)', users'[u].role = role
      PROVE  AccountInv'
  <2>1. Made(u, role) \in Token /\ Made(u, role).user = u /\ Made(u, role).role = role
    BY <1>1 DEF Made, Token
  <2>2. issued' \subseteq Token
    BY <1>1, <1>4, <2>1 DEF Give
  <2>3. AccountsTypeOK'
    BY <1>1, <1>4, <2>2 DEF AccountsTypeOK
  <2>4. (contested \/ DeletionsLeaveAnAdmin)'
    BY <1>2, <1>4, AdminsStay DEF Admin
  <2>5. YoungTokensTell'
    BY <1>1, <1>2, <1>4, <2>1, GivenTells
  <2> QED BY <1>2, <1>4, <2>3, <2>4, <2>5 DEF AccountInv, Deleting, RevokedAreListed
<1>5. ASSUME NEW u \in Accounts, Login(u) PROVE AccountInv'
  <2>1. users[u].role \in Roles
    BY <1>1 DEF Row
  <2> QED BY <1>1, <1>4, <1>5, <2>1 DEF Login, Present
<1>6. ASSUME NEW u \in Accounts, Register(u) PROVE AccountInv'
  <2> DEFINE r == [is |-> "present", role |-> "player", must |-> TRUE]
  <2>1. r \in Row /\ r.is = "present" /\ r.role = "player" /\ "player" \in Roles
    BY AccountAssumption DEF Row, Roles
  <2>2. users' = [users EXCEPT ![u] = r] /\ ~Present(u)
    BY <1>6 DEF Register, Present, NoUser
  <2> HIDE DEF r
  <2>3. /\ users' \in [Accounts -> Row] /\ users'[u] = r
        /\ \A a \in Accounts : a # u => users'[a] = users[a]
    BY <1>1, <2>1, <2>2
  <2>4. \A a \in Accounts : Present(a) => Present(a)' /\ users'[a].role = users[a].role
    BY <2>2, <2>3 DEF Present
  <2>5. Present(u)' /\ users'[u].role = "player"
    BY <2>1, <2>3 DEF Present
  <2>6. /\ Give(Made(u, "player"))
        /\ UNCHANGED <<blacklist, deletions, revoked, settled, contested>>
    BY <1>6 DEF Register
  <2> QED BY <1>4, <2>1, <2>3, <2>4, <2>5, <2>6
<1>7. ASSUME NEW token \in issued, RefreshToken(token) PROVE AccountInv'
  <2>1. token.user \in Accounts /\ users[token.user].role \in Roles
    BY <1>1 DEF Token, Row
  <2>2. PICK u \in Accounts : u = token.user
    BY <2>1
  <2> QED BY <1>1, <1>4, <1>7, <2>1, <2>2 DEF RefreshToken, Present
\* A step on the row of one user, who keeps the role or has not been there.
<1>8. ASSUME NEW u \in Accounts, NEW r \in Row, users' = [users EXCEPT ![u] = r],
             UNCHANGED <<issued, blacklist, deletions, revoked, settled, contested>>,
             r.is = "present", Present(u) => r.role = users[u].role
      PROVE  AccountInv'
  <2>1. /\ users' \in [Accounts -> Row] /\ users'[u] = r
        /\ \A a \in Accounts : a # u => users'[a] = users[a]
    BY <1>1, <1>8
  <2>2. \A a \in Accounts : Present(a) => Present(a)' /\ users'[a].role = users[a].role
    BY <1>8, <2>1 DEF Present
  <2>3. AccountsTypeOK'
    BY <1>1, <1>8, <2>1 DEF AccountsTypeOK
  <2>4. (contested \/ DeletionsLeaveAnAdmin)'
    BY <1>2, <1>8, <2>2, AdminsStay DEF Admin
  <2>5. \A token \in issued : token.user \in Accounts
    BY <1>1 DEF Token
  <2>6. YoungTokensTell'
    BY <1>2, <1>8, <2>2, <2>5 DEF YoungTokensTell
  <2> QED BY <1>2, <1>8, <2>3, <2>4, <2>6 DEF AccountInv, Deleting, RevokedAreListed
<1>9. ASSUME NEW token \in issued, ChangePassword(token) PROVE AccountInv'
  <2>1. PICK u \in Accounts : u = token.user
    BY <1>1 DEF Token
  <2> DEFINE r == [is |-> "present", role |-> users[u].role, must |-> FALSE]
  <2>2. r \in Row /\ r.is = "present" /\ r.role = users[u].role
    BY <1>1 DEF Row
  <2>3. /\ users' = [users EXCEPT ![u] = r]
        /\ UNCHANGED <<issued, blacklist, deletions, revoked, settled, contested>>
    BY <1>9, <2>1 DEF ChangePassword
  <2> HIDE DEF r
  <2> QED BY <1>8, <2>2, <2>3
<1>10. ASSUME NEW token \in issued, NEW u \in Accounts, NEW role \in Roles,
              CreateUser(token, u, role)
       PROVE  AccountInv'
  <2> DEFINE r == [is |-> "present", role |-> role, must |-> TRUE]
  <2>1. r \in Row /\ r.is = "present"
    BY DEF Row
  <2>2. /\ users' = [users EXCEPT ![u] = r] /\ ~Present(u)
        /\ UNCHANGED <<issued, blacklist, deletions, revoked, settled, contested>>
    BY <1>10 DEF CreateUser, Present, NoUser
  <2> HIDE DEF r
  <2> QED BY <1>8, <2>1, <2>2
<1>11. ASSUME NEW token \in issued, Logout(token) PROVE AccountInv'
  <2>1. /\ blacklist' \subseteq Token /\ revoked' \subseteq Token
        /\ UNCHANGED <<users, issued, deletions, settled, contested>>
    BY <1>1, <1>11 DEF Logout, BlacklistToken, Cleaned
  <2>2. AccountsTypeOK'
    BY <1>1, <2>1 DEF AccountsTypeOK
  <2>3. RevokedAreListed'
    BY <1>2, <1>11 DEF Logout, BlacklistToken, Cleaned, JWTAuth, RevokedAreListed
  <2>4. YoungTokensTell' /\ (contested \/ DeletionsLeaveAnAdmin)'
    BY <1>2, <2>1 DEF YoungTokensTell, DeletionsLeaveAnAdmin, Admin, Present, Deleting
  <2> QED BY <1>2, <2>1, <2>2, <2>3, <2>4 DEF AccountInv, Deleting
\* A step that changes the row of one user as an admin may.
<1>12. ASSUME NEW u \in Accounts, NEW r \in Row, users' = [users EXCEPT ![u] = r],
              settled' = [settled EXCEPT ![u] = 0],
              UNCHANGED <<issued, blacklist, revoked>>
       PROVE  /\ users' \in [Accounts -> Row] /\ settled' \in [Accounts -> 0..Lifetime]
              /\ users'[u] = r /\ \A a \in Accounts : a # u => users'[a] = users[a]
              /\ RevokedAreListed' /\ YoungTokensTell'
  <2>1. /\ users' \in [Accounts -> Row] /\ settled' \in [Accounts -> 0..Lifetime]
        /\ users'[u] = r /\ \A a \in Accounts : a # u => users'[a] = users[a]
        /\ settled'[u] = 0 /\ \A a \in Accounts : a # u => settled'[a] = settled[a]
    BY <1>1, <1>12
  <2>2. \A token \in issued : token.user \in Accounts /\ token.age \in Nat
    BY <1>1 DEF Token
  <2>3. YoungTokensTell'
    <3> SUFFICES ASSUME NEW token \in issued, settled'[token.user] > token.age
                 PROVE  Present(token.user)' /\ users'[token.user].role = token.role
      BY <1>12 DEF YoungTokensTell
    <3>1. token.user # u
      BY <2>1, <2>2
    <3> QED BY <1>2, <2>1, <2>2, <3>1 DEF YoungTokensTell, Present
  <2> QED BY <1>2, <1>12, <2>1, <2>3 DEF RevokedAreListed
<1>13. ASSUME NEW token \in issued, NEW u \in Accounts, NEW role \in Roles,
              UpdateUser(token, u, role)
       PROVE  AccountInv'
  <2> DEFINE r == [is |-> "present", role |-> role, must |-> users[u].must]
  <2>1. r \in Row /\ r.is = "present" /\ r.role = role
    BY <1>1 DEF Row
  <2>2. /\ users' = [users EXCEPT ![u] = r] /\ settled' = [settled EXCEPT ![u] = 0]
        /\ UNCHANGED <<issued, blacklist, deletions, revoked>>
    BY <1>13 DEF UpdateUser
  <2>3. contested' \in BOOLEAN
    BY <1>1, <1>13 DEF UpdateUser
  <2>4. contested' \/ (~contested /\ (Admin(u) => role = "admin"))
    BY <1>13 DEF UpdateUser, Admin
  <2> HIDE DEF r
  <2>5. /\ users' \in [Accounts -> Row] /\ settled' \in [Accounts -> 0..Lifetime]
        /\ users'[u] = r /\ \A a \in Accounts : a # u => users'[a] = users[a]
        /\ RevokedAreListed' /\ YoungTokensTell'
    BY <1>12, <2>1, <2>2
  <2>6. (contested \/ DeletionsLeaveAnAdmin)'
    <3> SUFFICES ASSUME ~contested' PROVE DeletionsLeaveAnAdmin'
      OBVIOUS
    <3>1. \A a \in Accounts : Admin(a) => Admin(a)'
      BY <2>1, <2>4, <2>5 DEF Admin, Present
    <3> QED BY <1>2, <2>2, <2>4, <3>1 DEF DeletionsLeaveAnAdmin, Deleting
  <2>7. AccountsTypeOK'
    BY <1>1, <2>2, <2>3, <2>5 DEF AccountsTypeOK
  <2> QED BY <1>2, <2>2, <2>5, <2>6, <2>7 DEF AccountInv, Deleting
\* A step of a deletion.
<1>14. ASSUME NEW w \in Workers, NEW d \in Deletion, deletions' = [deletions EXCEPT ![w] = d],
              UNCHANGED <<users, issued, blacklist, revoked, settled>>, contested' \in BOOLEAN,
              d.at # "idle" => d.victim \in Accounts,
              ~contested' => /\ ~contested
                             /\ d.at # "idle" => \A v \in Workers \ {w} : Deleting(v, "idle")
                             /\ d.at = "delete" => \E a \in Accounts : a # d.victim /\ Admin(a)
       PROVE  AccountInv'
  <2>1. /\ deletions' \in [Workers -> Deletion] /\ deletions'[w] = d
        /\ \A v \in Workers : v # w => deletions'[v] = deletions[v]
    BY <1>1, <1>14
  <2>2. AccountsTypeOK'
    BY <1>1, <1>14, <2>1 DEF AccountsTypeOK
  <2>3. \A v \in Workers : ~Deleting(v, "idle")' => deletions'[v].victim \in Accounts
    BY <1>2, <1>14, <2>1 DEF Deleting
  <2>4. (contested \/ DeletionsLeaveAnAdmin)'
    <3> SUFFICES ASSUME ~contested' PROVE DeletionsLeaveAnAdmin'
      OBVIOUS
    <3>1. DeletionsLeaveAnAdmin /\ \A a \in Accounts : Admin(a)' <=> Admin(a)
      BY <1>2, <1>14 DEF Admin, Present
    <3>2. \A v, x \in Workers : ~Deleting(v, "idle")' /\ ~Deleting(x, "idle")' => v = x
      BY <1>14, <2>1, <3>1 DEF DeletionsLeaveAnAdmin, Deleting
    <3>3. \A v \in Workers : Deleting(v, "delete")' =>
            \E a \in Accounts : a # deletions'[v].victim /\ Admin(a)
      BY <1>14, <2>1, <3>1 DEF DeletionsLeaveAnAdmin, Deleting
    <3> QED BY <3>1, <3>2, <3>3 DEF DeletionsLeaveAnAdmin
  <2>5. RevokedAreListed' /\ YoungTokensTell'
    BY <1>2, <1>14 DEF RevokedAreListed, YoungTokensTell, Present
  <2> QED BY <2>2, <2>3, <2>4, <2>5 DEF AccountInv
<1>15. ASSUME NEW w \in Workers, NEW token \in issued, NEW u \in Accounts,
              BeginDeletion(w, token, u)
       PROVE  AccountInv'
  <2> DEFINE d == [at |-> IF users[u].role = "admin" THEN "count" ELSE "delete", victim |-> u]
  <2>1. d \in Deletion /\ d.victim = u /\ (d.at = "delete" => users[u].role # "admin")
    BY DEF Deletion
  <2>2. /\ deletions' = [deletions EXCEPT ![w] = d]
        /\ UNCHANGED <<users, issued, blacklist, revoked, settled>>
    BY <1>15 DEF BeginDeletion
  <2>3. contested' \in BOOLEAN
    BY <1>1, <1>15 DEF BeginDeletion
  <2>4. ~contested' => ~contested /\ \A v \in Workers : Deleting(v, "idle")
    BY <1>15 DEF BeginDeletion
  <2> HIDE DEF d
  <2>5. ~contested' /\ d.at = "delete" => \E a \in Accounts : a # d.victim /\ Admin(a)
    BY <1>2, <2>1, <2>4 DEF DeletionsLeaveAnAdmin, Admin
  <2> QED BY <1>14, <2>1, <2>2, <2>3, <2>4, <2>5
<1>16. NoDeletion \in Deletion /\ NoDeletion.at = "idle"
  BY DEF NoDeletion, Deletion
<1>17. ASSUME NEW w \in Workers, ~Deleting(w, "idle"), ~contested
       PROVE  \A v \in Workers \ {w} : Deleting(v, "idle")
  BY <1>2, <1>17 DEF DeletionsLeaveAnAdmin
<1>18. ASSUME NEW w \in Workers, CountAdmins(w) PROVE AccountInv'
  <2>1. /\ Deleting(w, "count") /\ ~Deleting(w, "idle") /\ deletions[w].victim \in Accounts
        /\ UNCHANGED <<users, issued, blacklist, revoked, settled, contested>>
    BY <1>2, <1>18 DEF CountAdmins, Deleting
  <2>2. CASE OtherAdmins(deletions[w].victim) = {}
    BY <1>1, <1>14, <1>16, <1>18, <2>1, <2>2 DEF CountAdmins
  <2>3. CASE OtherAdmins(deletions[w].victim) # {}
    <3> DEFINE d == [at |-> "delete", victim |-> deletions[w].victim]
    <3>1. d \in Deletion /\ d.at = "delete" /\ d.victim = deletions[w].victim
      BY <2>1 DEF Deletion
    <3>2. deletions' = [deletions EXCEPT ![w] = d]
      BY <1>18, <2>3 DEF CountAdmins, NextStage
    <3> HIDE DEF d
    <3>3. \E a \in Accounts : a # d.victim /\ Admin(a)
      BY <2>3, <3>1 DEF OtherAdmins, Admin
    <3> QED BY <1>1, <1>14, <1>17, <2>1, <3>1, <3>2, <3>3
  <2> QED BY <2>2, <2>3
<1>19. ASSUME NEW w \in Workers, DeleteUser(w) PROVE AccountInv'
  <2>1. PICK u \in Accounts : u = deletions[w].victim
    BY <1>2, <1>19 DEF DeleteUser, Deleting
  <2> DEFINE r == [is |-> "deleted", role |-> users[u].role, must |-> FALSE]
  <2>2. r \in Row
    BY <1>1 DEF Row
  <2>3. /\ users' = [users EXCEPT ![u] = r] /\ settled' = [settled EXCEPT ![u] = 0]
        /\ deletions' = [deletions EXCEPT ![w] = NoDeletion]
        /\ UNCHANGED <<issued, blacklist, revoked, contested>>
        /\ Deleting(w, "delete") /\ ~Deleting(w, "idle")
    BY <1>19, <2>1 DEF DeleteUser, Deleting
  <2> HIDE DEF r
  <2>4. /\ users' \in [Accounts -> Row] /\ settled' \in [Accounts -> 0..Lifetime]
        /\ users'[u] = r /\ \A a \in Accounts : a # u => users'[a] = users[a]
        /\ RevokedAreListed' /\ YoungTokensTell'
    BY <1>12, <2>2, <2>3
  <2>5. /\ deletions' \in [Workers -> Deletion] /\ deletions'[w].at = "idle"
        /\ \A v \in Workers : v # w => deletions'[v] = deletions[v]
    BY <1>1, <1>16, <2>3
  <2>6. (contested \/ DeletionsLeaveAnAdmin)'
    <3> SUFFICES ASSUME ~contested PROVE DeletionsLeaveAnAdmin'
      BY <2>3
    <3>1. \A v \in Workers : Deleting(v, "idle")'
      BY <1>17, <2>3, <2>5 DEF Deleting
    <3>2. PICK a \in Accounts : a # u /\ Admin(a)
      BY <1>2, <2>1, <2>3 DEF DeletionsLeaveAnAdmin
    <3>3. Admin(a)'
      BY <2>4, <3>2 DEF Admin, Present
    <3> QED BY <3>1, <3>3 DEF DeletionsLeaveAnAdmin, Deleting
  <2>7. AccountsTypeOK'
    BY <1>1, <2>3, <2>4, <2>5 DEF AccountsTypeOK
  <2> QED BY <1>2, <2>4, <2>5, <2>6, <2>7 DEF AccountInv, Deleting
<1>20. CASE PassHour
  <2>1. ASSUME NEW tokens \in SUBSET Token, NEW limit \in Nat, limit < Lifetime + Leeway,
               NEW token \in Older(tokens, limit)
        PROVE  \E x \in tokens :
                 /\ x.age < limit /\ token = [x EXCEPT !.age = x.age + 1] /\ token \in Token
                 /\ token.user = x.user /\ token.role = x.role /\ token.age = x.age + 1
    <3>1. PICK x \in tokens : x.age < limit /\ token = [x EXCEPT !.age = x.age + 1]
      BY <2>1 DEF Older
    <3>2. x \in Token /\ x.age < Lifetime + Leeway
      BY <1>1, <2>1, <3>1 DEF Token
    <3> QED BY <3>1, <3>2, OlderToken
  <2>2. /\ issued' \subseteq Token /\ blacklist' \subseteq Token /\ revoked' \subseteq Token
        /\ \A token \in issued' : \E x \in issued :
             token.user = x.user /\ token.role = x.role /\ token.age = x.age + 1
        /\ \A token \in revoked' : \E x \in revoked :
             /\ x.age < Lifetime + Leeway - 1
             /\ token = [x EXCEPT !.age = x.age + 1] /\ token.age = x.age + 1
    <3>1. issued \in SUBSET Token /\ blacklist \in SUBSET Token /\ revoked \in SUBSET Token
      BY <1>1
    <3>2. /\ issued' = Older(issued, Lifetime + Leeway - 1)
          /\ blacklist' = Older(blacklist, Lifetime + Leeway - 1)
          /\ revoked' = Older(revoked, Lifetime + Leeway - 1)
      BY <1>20 DEF PassHour
    <3>3. /\ Lifetime + Leeway - 1 \in Nat /\ Lifetime + Leeway - 1 < Lifetime + Leeway
      BY <1>1
    <3>4. \A token \in issued' : token \in Token /\ \E x \in issued :
             token.user = x.user /\ token.role = x.role /\ token.age = x.age + 1
      <4> TAKE token \in issued'
      <4>1. PICK limit \in Nat : limit < Lifetime + Leeway /\ token \in Older(issued, limit)
        BY <3>2, <3>3
      <4>2. PICK x \in issued :
              /\ token \in Token
              /\ token.user = x.user /\ token.role = x.role /\ token.age = x.age + 1
        BY <2>1, <3>1, <4>1
      <4> QED BY <4>2
    <3>5. \A token \in blacklist' : token \in Token
      BY <2>1, <3>1, <3>2, <3>3
    <3>6. \A token \in revoked' : token \in Token /\ \E x \in revoked :
             /\ x.age < Lifetime + Leeway - 1
             /\ token = [x EXCEPT !.age = x.age + 1] /\ token.age = x.age + 1
      <4> TAKE token \in revoked'
      <4>1. PICK x \in revoked :
              x.age < Lifetime + Leeway - 1 /\ token = [x EXCEPT !.age = x.age + 1]
        BY <3>2 DEF Older
      <4>2. x \in Token /\ x.age < Lifetime + Leeway
        BY <1>1, <3>1, <4>1 DEF Token
      <4> QED BY <4>1, <4>2, OlderToken
    <3> QED BY <3>4, <3>5, <3>6
  <2>3. /\ settled' \in [Accounts -> 0..Lifetime]
        /\ \A u \in Accounts :
             settled'[u] = IF settled[u] < Lifetime THEN settled[u] + 1 ELSE Lifetime
        /\ UNCHANGED <<users, deletions, contested>>
    BY <1>1, <1>20 DEF PassHour
  <2>4. AccountsTypeOK'
    BY <1>1, <2>2, <2>3 DEF AccountsTypeOK
  <2>5. RevokedAreListed'
    <3> SUFFICES ASSUME NEW token \in revoked', token.age < Lifetime PROVE token \in blacklist'
      BY DEF RevokedAreListed
    <3>1. PICK x \in revoked : /\ x.age < Lifetime + Leeway - 1 /\ token.age = x.age + 1
                               /\ token = [x EXCEPT !.age = x.age + 1]
      BY <2>2
    <3>2. x.age \in Nat /\ x.age < Lifetime
      BY <1>1, <3>1 DEF Token
    <3>3. x \in blacklist
      BY <1>2, <3>2 DEF RevokedAreListed
    <3> QED BY <1>20, <3>1, <3>3 DEF PassHour, Older
  <2>6. YoungTokensTell'
    <3> SUFFICES ASSUME NEW token \in issued', settled'[token.user] > token.age
                 PROVE  Present(token.user)' /\ users'[token.user].role = token.role
      BY DEF YoungTokensTell
    <3>1. PICK x \in issued : token.user = x.user /\ token.role = x.role /\ token.age = x.age + 1
      BY <2>2
    <3>2. x.user \in Accounts /\ x.age \in Nat /\ settled[x.user] \in 0..Lifetime
      BY <1>1 DEF Token
    <3>3. settled[x.user] > x.age
      BY <1>1, <2>3, <3>1, <3>2
    <3> QED BY <1>2, <2>3, <3>1, <3>3 DEF YoungTokensTell, Present
  <2>7. (contested \/ DeletionsLeaveAnAdmin)'
    BY <1>2, <2>3, AdminsStay DEF Admin, Present
  <2> QED BY <1>2, <2>3, <2>4, <2>5, <2>6, <2>7 DEF AccountInv, Deleting
<1>21. CASE Restart
  <2>1. /\ blacklist' = {} /\ revoked' = {} /\ contested' = FALSE
        /\ deletions' = [w \in Workers |-> NoDeletion] /\ UNCHANGED <<issued, settled>>
    BY <1>21 DEF Restart
  <2>2. /\ deletions' \in [Workers -> Deletion]
        /\ \A w \in Workers : Deleting(w, "idle")' /\ ~Deleting(w, "delete")'
    BY <1>16, <2>1 DEF Deleting
  <2>3. RevokedAreListed'
    BY <2>1 DEF RevokedAreListed
  <2>4. /\ users' \in [Accounts -> Row] /\ \E a \in Accounts : Admin(a)'
        /\ \A a \in Accounts : Present(a) => users'[a] = users[a]
    <3>1. CASE UNCHANGED users /\ \E u \in Accounts : Admin(u)
      BY <1>1, <3>1 DEF Admin, Present
    <3>2. CASE \E u \in Accounts :
                 /\ users[u] = NoUser
                 /\ users' = [users EXCEPT ![u] = [is |-> "present", role |-> "admin", must |-> TRUE]]
      <4>1. PICK u \in Accounts :
              /\ users[u] = NoUser
              /\ users' = [users EXCEPT ![u] = [is |-> "present", role |-> "admin", must |-> TRUE]]
        BY <3>2
      <4> DEFINE r == [is |-> "present", role |-> "admin", must |-> TRUE]
      <4>2. r \in Row /\ r.is = "present" /\ r.role = "admin" /\ ~Present(u)
        BY <4>1 DEF Row, Roles, Present, NoUser
      <4>3. users' = [users EXCEPT ![u] = r]
        BY <4>1
      <4> HIDE DEF r
      <4>4. /\ users' \in [Accounts -> Row] /\ users'[u] = r
            /\ \A a \in Accounts : a # u => users'[a] = users[a]
        BY <1>1, <4>2, <4>3
      <4> QED BY <4>2, <4>4 DEF Admin, Present
    <3> QED BY <1>21, <3>1, <3>2 DEF Restart, Admin
  <2>5. AccountsTypeOK'
    BY <1>1, <2>1, <2>2, <2>4 DEF AccountsTypeOK
  <2>6. YoungTokensTell'
    <3>1. \A token \in issued : token.user \in Accounts
      BY <1>1 DEF Token
    <3> QED BY <1>2, <2>1, <2>4, <3>1 DEF YoungTokensTell, Present
  <2>7. DeletionsLeaveAnAdmin'
    BY <2>2, <2>4 DEF DeletionsLeaveAnAdmin
  <2> QED BY <2>2, <2>3, <2>5, <2>6, <2>7 DEF AccountInv
<1> QED BY <1>3, <1>5, <1>6, <1>7, <1>9, <1>10, <1>11, <1>13, <1>15, <1>18, <1>19, <1>20, <1>21
        DEF AccountNext

LEMMA AccountInvHolds == AccountSpec => []AccountInv
<1>1. AccountInit => AccountInv
  <2> SUFFICES ASSUME AccountInit PROVE AccountInv
    OBVIOUS
  <2>1. PICK a \in Accounts :
          users = [u \in Accounts |-> IF u = a THEN [is |-> "present", role |-> "admin", must |-> TRUE]
                                      ELSE NoUser]
    BY DEF AccountInit
  <2>2. /\ [is |-> "present", role |-> "admin", must |-> TRUE] \in Row /\ NoUser \in Row
        /\ NoDeletion \in Deletion
    BY AccountAssumption DEF Row, Roles, NoUser, NoDeletion, Deletion
  <2>3. AccountsTypeOK
    <3>1. users \in [Accounts -> Row] /\ deletions \in [Workers -> Deletion]
      BY <2>1, <2>2 DEF AccountInit
    <3>2. settled \in [Accounts -> 0..Lifetime]
      BY AccountAssumption DEF AccountInit
    <3> QED BY <3>1, <3>2 DEF AccountInit, AccountsTypeOK
  <2>4. Admin(a)
    BY <2>1 DEF Admin, Present
  <2>5. \A w \in Workers : Deleting(w, "idle") /\ ~Deleting(w, "delete")
    BY DEF AccountInit, Deleting, NoDeletion
  <2>6. RevokedAreListed /\ YoungTokensTell
    BY DEF AccountInit, RevokedAreListed, YoungTokensTell
  <2> QED BY <2>3, <2>4, <2>5, <2>6 DEF AccountInv, DeletionsLeaveAnAdmin
<1> QED BY <1>1, AccountStep, PTL DEF AccountSpec

\* Deletions of users that do not overlap, and any other requests, leave an
\* admin, whatever the tokens still claim.
THEOREM AnAdminRemains == AccountSpec => []AdminRemains
<1>1. AccountInv => AdminRemains
  BY DEF AccountInv, DeletionsLeaveAnAdmin, Admin, AdminRemains
<1> QED BY <1>1, AccountInvHolds, PTL

\* Through every cleaning of the blacklist and every token given meanwhile, no
\* request that JWTAuth guards passes with a token that was logged out, and a
\* refresh takes it after its expiry only.
THEOREM LogoutIsFinal == AccountSpec => []LoggedOutStaysOut
<1>1. AccountInv => LoggedOutStaysOut
  <2> SUFFICES ASSUME AccountInv, NEW token \in revoked
               PROVE  ~JWTAuth(token) /\ (JWTAuthForRefresh(token) => token.age >= Lifetime)
    BY DEF LoggedOutStaysOut
  <2>1. token.age \in Nat /\ Lifetime \in Nat
    BY AccountAssumption DEF AccountInv, AccountsTypeOK, Token
  <2>2. token.age < Lifetime => Blacklisted(token)
    BY DEF AccountInv, RevokedAreListed, Blacklisted
  <2> QED BY <2>1, <2>2 DEF JWTAuth, JWTAuthForRefresh
<1> QED BY <1>1, AccountInvHolds, PTL

\* A role outlives its loss in tokens for the lifetime of one, and refreshing
\* them does not prolong it.
THEOREM ClaimsExpire == AccountSpec => []ClaimsAgeOut
<1>1. AccountInv => ClaimsAgeOut
  <2> SUFFICES ASSUME AccountInv, NEW token \in issued, JWTAuth(token),
                      settled[token.user] = Lifetime
               PROVE  Present(token.user) /\ users[token.user].role = token.role
    BY DEF ClaimsAgeOut
  <2>1. token.age < Lifetime /\ token.age \in Nat
    BY DEF JWTAuth, AccountInv, AccountsTypeOK, Token
  <2> QED BY <2>1, AccountAssumption DEF AccountInv, YoungTokensTell
<1> QED BY <1>1, AccountInvHolds, PTL
-----------------------------------------------------------------------------
(***************************************************************************)
(* Teams.                                                                  *)
(***************************************************************************)
Marking == {"add", "register", "enlist", "round"}

\* What a request is for tells where it can be.
Shape(q) ==
  /\ At(q, "idle") <=> work[q].kind = "none"
  /\ work[q].at \in {"games", "members", "records", "row"} <=> work[q].kind = "delete"
  /\ work[q].at \in {"user", "join"} <=> work[q].kind = "add"
  /\ At(q, "enroll") <=> work[q].kind = "register"
  /\ work[q].at \in {"check", "insert"} <=> work[q].kind = "enlist"
  /\ At(q, "record") <=> work[q].kind = "round"
  /\ work[q].kind # "none" => work[q].team \in TeamIds
  /\ work[q].kind = "add" => work[q].player \in Players

\* The team of a request that overlaps no deletion of it is there.
Lives(q) ==
  /\ work[q].kind \in {"add", "register", "enlist"} \ crossed => Exists(work[q].team)
  /\ work[q].kind = "round" /\ {"round", "enlist", "failure"} \cap crossed = {} =>
       teams[work[q].team] # "deleted"

\* What a deletion has got through so far stays done, unless something that
\* overlapped it undid it.
Emptied(q) ==
  "failure" \notin crossed =>
    /\ work[q].at \in {"members", "records", "row"} /\ "enlist" \notin crossed =>
         listed[work[q].team] = 0
    /\ work[q].at \in {"records", "row"} /\ {"add", "register", "edit"} \cap crossed = {} =>
         \A p \in Players : member[p] # work[q].team
    /\ At(q, "row") /\ {"round", "enlist"} \cap crossed = {} => work[q].team \notin recorded

\* A player about to join has no team yet.
Joins(q) ==
  At(q, "join") /\ {"edit", "two adds"} \cap crossed = {} => member[work[q].player] = NoTeam

JobInv(q) == Shape(q) /\ Lives(q) /\ Emptied(q) /\ Joins(q)

\* Every overlap is marked.
OverlapsMarked ==
  /\ \A p, q \in Requests :
       work[p].kind = "delete" /\ work[q].kind \in Marking => work[q].kind \in crossed
  /\ \A p, q \in Requests :
       work[p].kind = "add" /\ work[q].kind = "add" /\ p # q => "two adds" \in crossed

TablesTyped ==
  /\ teams \in [TeamIds -> {"unborn", "present", "deleted"}]
  /\ member \in [Players -> TeamIds \cup {NoTeam, Unborn}]
  /\ listed \in [TeamIds -> Nat] /\ work \in [Requests -> Work]

TeamInv ==
  /\ TablesTyped /\ OverlapsMarked /\ DeletedTeamLeavesNothing
  /\ \A q \in Requests : JobInv(q)

\* What any step does to the tables: who may put a team, a member, a row of a
\* game or a record where there was none.
TablesMove ==
  /\ crossed \subseteq crossed'
  /\ \A t \in TeamIds : \/ teams'[t] \in {teams[t], "present"}
                        \/ \E q \in Requests : At(q, "row") /\ work[q].team = t
  /\ \A t \in TeamIds : listed[t] = 0 =>
       listed'[t] = 0 \/ \E q \in Requests : work[q].kind = "enlist" /\ work[q].team = t
  /\ \A p \in Players : \/ member'[p] \in {member[p], NoTeam} \/ "edit" \in crossed'
                        \/ \E q \in Requests : /\ work[q].kind \in {"add", "register"}
                                               /\ work[q].team = member'[p]
  /\ \A p \in Players : member[p] = NoTeam =>
       \/ member'[p] = NoTeam \/ "edit" \in crossed' \/ \E q \in Requests : At(q, "join") /\ work'[q] = Idle
  /\ \A t \in recorded' \ recorded :
       \E q \in Requests : work[q].kind = "round" /\ work[q].team = t

LEMMA StepMovesTables ==
  ASSUME TeamInv, TeamNext PROVE TablesMove /\ TablesTyped'
<1> USE DEF At, GoOn, Finish
<1>1. /\ TablesTyped /\ \A q \in Requests : Shape(q)
  BY DEF TeamInv, JobInv
<1>2. ASSUME NEW q \in Requests, TeamBegin(q) PROVE TablesMove /\ TablesTyped'
  <2>1. PICK t \in TeamIds, kind \in Kinds, stage \in Stages, p \in Players \cup {NoTeam} :
          /\ Begin(q, kind, stage, t, p) /\ UNCHANGED <<member, listed, recorded>>
          /\ UNCHANGED teams \/ teams' = [teams EXCEPT ![t] = "present"]
    BY <1>2 DEF TeamBegin, CreateTeam, Inserted, ReadTeam, BeginDelete, BeginEnlist, BeginRound, BeginAdd,
       BeginRemove, BeginRegister, Kinds, Stages
  <2>2. [kind |-> kind, at |-> stage, team |-> t, player |-> p] \in Work
    BY <2>1 DEF Work
  <2> QED BY <1>1, <2>1, <2>2 DEF TablesTyped, TablesMove, Begin
<1>3. ASSUME NEW q \in Requests, TeamStep(q) PROVE TablesMove /\ TablesTyped'
  <2>0. /\ work[q] \in Work /\ \A stage \in Stages : [work[q] EXCEPT !.at = stage] \in Work
        /\ Idle \in Work
    BY <1>1 DEF TablesTyped, Work, Idle, Stages
  <2>1. CASE SaveTeam(q)
    BY <1>1, <2>0, <2>1 DEF SaveTeam, TablesMove, TablesTyped
  <2>2. CASE DeleteFromGames(q)
    BY <1>1, <2>0, <2>2 DEF DeleteFromGames, TablesMove, TablesTyped, Stages
  <2>3. CASE NullifyMembers(q)
    BY <1>1, <2>0, <2>3 DEF NullifyMembers, TablesMove, TablesTyped, Stages
  <2>4. CASE DeleteRecords(q)
    BY <1>1, <2>0, <2>4 DEF DeleteRecords, TablesMove, TablesTyped, Stages
  <2>5. CASE DeleteFails(q)
    BY <1>1, <2>0, <2>5 DEF DeleteFails, TablesMove, TablesTyped, Stages
  <2>6. CASE DeleteRow(q)
    BY <1>1, <2>0, <2>6 DEF DeleteRow, TablesMove, TablesTyped
  <2>7. CASE AddCheck(q)
    BY <1>1, <2>0, <2>7 DEF AddCheck, TablesMove, TablesTyped, Stages
  <2>8. CASE Join(q)
    <3>1. work[q].kind = "add" /\ work[q].team \in TeamIds
      BY <1>1, <2>8 DEF Join, Shape
    <3> QED BY <1>1, <2>0, <2>8, <3>1 DEF Join, TablesMove, TablesTyped
  <2>9. CASE Leave(q)
    BY <1>1, <2>0, <2>9 DEF Leave, TablesMove, TablesTyped
  <2>10. CASE Enroll(q)
    <3>1. work[q].kind = "register" /\ work[q].team \in TeamIds
      BY <1>1, <2>10 DEF Enroll, Shape
    <3> QED BY <1>1, <2>0, <2>10, <3>1, TeamAssumption DEF Enroll, TablesMove, TablesTyped
  <2>11. CASE EnlistCheck(q)
    BY <1>1, <2>0, <2>11 DEF EnlistCheck, TablesMove, TablesTyped, Stages
  <2>12. CASE Insert(q)
    <3>1. work[q].kind = "enlist" /\ work[q].team \in TeamIds
      BY <1>1, <2>12 DEF Insert, Shape
    <3> QED BY <1>1, <2>0, <2>12, <3>1 DEF Insert, TablesMove, TablesTyped
  <2>13. CASE Record(q)
    <3>1. work[q].kind = "round" /\ work[q].team \in TeamIds
      BY <1>1, <2>13 DEF Record, Shape
    <3> QED BY <1>1, <2>0, <2>13, <3>1 DEF Record, TablesMove, TablesTyped
  <2> QED BY <1>3, <2>1, <2>2, <2>3, <2>4, <2>5, <2>6, <2>7, <2>8, <2>9, <2>10, <2>11, <2>12,
             <2>13 DEF TeamStep
<1>4. ASSUME NEW p \in Players, RegisterAlone(p) PROVE TablesMove /\ TablesTyped'
  BY <1>1, <1>4, TeamAssumption DEF RegisterAlone, TablesMove, TablesTyped
<1>5. ASSUME NEW p \in Players, NEW t \in TeamIds, EditUser(p, t) PROVE TablesMove /\ TablesTyped'
  BY <1>1, <1>5 DEF EditUser, TablesMove, TablesTyped
<1>6. ASSUME NEW t \in TeamIds, RemoveFromGame(t) PROVE TablesMove /\ TablesTyped'
  BY <1>1, <1>6 DEF RemoveFromGame, TablesMove, TablesTyped
<1>7. CASE Sweep
  BY <1>1, <1>7 DEF Sweep, TablesMove, TablesTyped
<1>8. ASSUME NEW t \in TeamIds, AdminCreateTeam(t) PROVE TablesMove /\ TablesTyped'
  BY <1>1, <1>8 DEF AdminCreateTeam, Inserted, TablesMove, TablesTyped
<1> QED BY <1>2, <1>3, <1>4, <1>5, <1>6, <1>7, <1>8 DEF TeamNext

\* A request that does not move keeps its promise, whatever another does.
LEMMA OthersKeep ==
  ASSUME TeamInv, TablesMove, TablesTyped', OverlapsMarked', NEW r \in Requests,
         work'[r] = work[r]
  PROVE  JobInv(r)'
<1>1. Shape(r) /\ Lives(r) /\ Emptied(r) /\ Joins(r) /\ crossed \subseteq crossed'
  BY DEF TeamInv, JobInv, TablesMove
<1>2. Shape(r)'
  BY <1>1 DEF Shape, At
<1>3. \A q \in Requests : At(q, "row") => work[q].kind = "delete"
  BY DEF TeamInv, JobInv, Shape, At
<1>4. Lives(r)'
  <2>1. work[r].kind # "none" => work[r].team \in TeamIds
    BY <1>1 DEF Shape
  <2>2. CASE teams'[work[r].team] \in {teams[work[r].team], "present"}
    BY <1>1, <2>2 DEF Lives, Exists
  <2>3. CASE \E q \in Requests : At(q, "row") /\ work[q].team = work[r].team
    BY <1>1, <1>3, <2>3 DEF TeamInv, OverlapsMarked, Marking, Lives
  <2> QED BY <1>1, <2>1, <2>2, <2>3 DEF TablesMove, Lives
<1>5. Emptied(r)'
  <2> SUFFICES ASSUME "failure" \notin crossed', work[r].kind = "delete" PROVE Emptied(r)'
    BY <1>1 DEF Emptied, Shape, At
  <2>1. /\ work[r].team \in TeamIds /\ "failure" \notin crossed
        /\ \A q \in Requests : work[q].kind \in Marking => work[q].kind \in crossed
    BY <1>1 DEF Shape, TeamInv, OverlapsMarked
  <2>2. ASSUME work[r].at \in {"members", "records", "row"}, "enlist" \notin crossed'
        PROVE  listed'[work[r].team] = 0
    BY <1>1, <2>1, <2>2 DEF Emptied, TablesMove, Marking
  <2>3. ASSUME work[r].at \in {"records", "row"}, {"add", "register", "edit"} \cap crossed' = {},
               NEW p \in Players
        PROVE  member'[p] # work[r].team
    BY <1>1, <2>1, <2>3, TeamAssumption DEF Emptied, TablesMove, Marking
  <2>4. ASSUME At(r, "row"), {"round", "enlist"} \cap crossed' = {}
        PROVE  work[r].team \notin recorded'
    BY <1>1, <2>1, <2>4 DEF Emptied, TablesMove, Marking
  <2> QED BY <2>2, <2>3, <2>4 DEF Emptied, At
<1>6. Joins(r)'
  <2> SUFFICES ASSUME At(r, "join"), {"edit", "two adds"} \cap crossed' = {}
               PROVE  member'[work[r].player] = NoTeam
    BY DEF Joins, At
  <2>1. member[work[r].player] = NoTeam
    BY <1>1 DEF Joins
  <2>2. work[r].kind = "add" /\ work[r].player \in Players
    BY <1>1 DEF Shape, At
  <2>3. ~\E q \in Requests : At(q, "join") /\ work'[q] = Idle
    <3> SUFFICES ASSUME NEW q \in Requests, At(q, "join"), work'[q] = Idle PROVE FALSE
      OBVIOUS
    <3>1. work[q].kind = "add"
      BY DEF TeamInv, JobInv, Shape, At
    <3>2. CASE q = r
      <4>1. Idle.at = "idle"
        BY DEF Idle
      <4> QED BY <3>2, <4>1 DEF At
    <3>3. CASE q # r
      BY <1>1, <2>2, <3>1, <3>3 DEF TeamInv, OverlapsMarked
    <3> QED BY <3>2, <3>3
  <2> QED BY <1>1, <2>1, <2>2, <2>3 DEF TablesMove
<1> QED BY <1>2, <1>4, <1>5, <1>6 DEF JobInv

\* A request that goes on or ends makes no overlap; one that begins marks those
\* it makes.
LEMMA OverlapsStayMarked == ASSUME TeamInv, TeamNext PROVE OverlapsMarked'
<1>1. TablesTyped /\ OverlapsMarked
  BY DEF TeamInv
<1>2. crossed \subseteq crossed'
  BY StepMovesTables DEF TablesMove
<1>3. ASSUME \A r \in Requests : work'[r].kind \in {work[r].kind, "none"} PROVE OverlapsMarked'
  BY <1>1, <1>2, <1>3 DEF OverlapsMarked, Marking
<1>4. ASSUME NEW q \in Requests, TeamBegin(q) PROVE OverlapsMarked'
  <2>1. PICK t \in TeamIds, kind \in Kinds, stage \in Stages, p \in Players \cup {NoTeam} :
          Begin(q, kind, stage, t, p)
    BY <1>4 DEF TeamBegin, CreateTeam, ReadTeam, BeginDelete, BeginEnlist, BeginRound, BeginAdd,
       BeginRemove, BeginRegister, Kinds, Stages
  <2>2. /\ work'[q].kind = kind
        /\ \A r \in Requests : r # q => work'[r] = work[r]
        /\ crossed' = crossed \cup (Crossings(kind) \cap Marks)
    BY <1>1, <2>1 DEF Begin, TablesTyped
  <2>3. \A a, b \in Requests : work'[a].kind = "delete" /\ work'[b].kind \in Marking =>
          work'[b].kind \in crossed'
    <3> SUFFICES ASSUME NEW a \in Requests, NEW b \in Requests, work'[a].kind = "delete",
                        work'[b].kind \in Marking
                 PROVE  work'[b].kind \in crossed'
      OBVIOUS
    <3>1. CASE a = q
      <4>1. b # q /\ work[b].kind \in Marking /\ work'[b] = work[b]
        BY <2>2, <3>1 DEF Marking
      <4>2. work[b].kind \in Crossings(kind) \cap Marks
        BY <2>2, <3>1, <4>1 DEF Crossings, Marking, Marks
      <4> QED BY <2>2, <4>1, <4>2
    <3>2. CASE a # q /\ b = q
      <4>1. "delete" \in {work[r].kind : r \in Requests} \ {"none"} /\ kind \in Marking
        BY <2>2, <3>2
      <4>2. kind \in Crossings(kind) \cap Marks
        BY <4>1 DEF Crossings, Marking, Marks
      <4> QED BY <2>2, <3>2, <4>2
    <3>3. CASE a # q /\ b # q
      BY <1>1, <1>2, <2>2, <3>3 DEF OverlapsMarked
    <3> QED BY <3>1, <3>2, <3>3
  <2>4. \A a, b \in Requests : work'[a].kind = "add" /\ work'[b].kind = "add" /\ a # b =>
          "two adds" \in crossed'
    <3> SUFFICES ASSUME NEW a \in Requests, NEW b \in Requests, work'[a].kind = "add",
                        work'[b].kind = "add", a # b
                 PROVE  "two adds" \in crossed'
      OBVIOUS
    <3>1. CASE a # q /\ b # q
      BY <1>1, <1>2, <2>2, <3>1 DEF OverlapsMarked
    <3>2. CASE a = q \/ b = q
      <4>1. kind = "add" /\ "add" \in {work[r].kind : r \in Requests} \ {"none"}
        BY <2>2, <3>2
      <4>2. "two adds" \in Crossings(kind) \cap Marks
        BY <4>1 DEF Crossings, Marks
      <4> QED BY <2>2, <4>2
    <3> QED BY <3>1, <3>2
  <2> QED BY <2>3, <2>4 DEF OverlapsMarked
<1>5. ASSUME NEW q \in Requests, TeamStep(q) PROVE OverlapsMarked'
  <2>1. \/ work' = [work EXCEPT ![q] = Idle]
        \/ \E stage : work' = [work EXCEPT ![q] = [work[q] EXCEPT !.at = stage]]
    BY <1>5, Zenon DEF TeamStep, SaveTeam, DeleteFromGames, NullifyMembers, DeleteRecords, DeleteFails,
       DeleteRow, AddCheck, Join, Leave, Enroll, EnlistCheck, Insert, Record, GoOn, Finish
  <2>2. work[q] \in Work
    BY <1>1 DEF TablesTyped
  <2>3. Idle.kind = "none" /\ \A stage : [work[q] EXCEPT !.at = stage].kind = work[q].kind
    BY <2>2 DEF Idle, Work
  <2>4. \A r \in Requests : work'[r].kind \in {work[r].kind, "none"}
    <3>1. CASE work' = [work EXCEPT ![q] = Idle]
      BY <1>1, <2>3, <3>1 DEF TablesTyped
    <3>2. CASE \E stage : work' = [work EXCEPT ![q] = [work[q] EXCEPT !.at = stage]]
      <4>1. PICK stage : work' = [work EXCEPT ![q] = [work[q] EXCEPT !.at = stage]]
        BY <3>2
      <4> DEFINE w == [work[q] EXCEPT !.at = stage]
      <4>2. w.kind = work[q].kind /\ work' = [work EXCEPT ![q] = w]
        BY <2>3, <4>1
      <4> HIDE DEF w
      <4> QED BY <1>1, <4>2 DEF TablesTyped
    <3> QED BY <2>1, <3>1, <3>2
  <2> QED BY <1>3, <2>4
<1>6. CASE UNCHANGED work
  BY <1>3, <1>6
<1>7. UNCHANGED work \/ \E q \in Requests : TeamBegin(q) \/ TeamStep(q)
  BY DEF TeamNext, RegisterAlone, EditUser, AdminCreateTeam, RemoveFromGame, Sweep
<1> QED BY <1>4, <1>5, <1>6, <1>7

\* What is deleted stays empty: who could fill it again overlapped the deletion.
LEMMA DeletedStaysEmpty ==
  ASSUME TeamInv, TablesMove, TablesTyped'
  PROVE  DeletedTeamLeavesNothing'
<1> SUFFICES ASSUME NEW t \in TeamIds, teams'[t] = "deleted", "failure" \notin crossed'
             PROVE  /\ {"add", "register", "edit"} \cap crossed' = {} =>
                         \A p \in Players : member'[p] # t
                    /\ "enlist" \notin crossed' => listed'[t] = 0
                    /\ {"round", "enlist"} \cap crossed' = {} => t \notin recorded'
  BY DEF DeletedTeamLeavesNothing
<1>1. crossed \subseteq crossed' /\ "failure" \notin crossed
  BY DEF TablesMove
<1>2. CASE teams[t] = "deleted"
  <2>1. \A q \in Requests : work[q].team = t =>
          /\ work[q].kind \in {"add", "register", "enlist"} => work[q].kind \in crossed
          /\ work[q].kind = "round" => {"round", "enlist"} \cap crossed # {}
    BY <1>1, <1>2 DEF TeamInv, JobInv, Lives, Exists
  <2>2. /\ {"add", "register", "edit"} \cap crossed = {} => \A p \in Players : member[p] # t
        /\ "enlist" \notin crossed => listed[t] = 0
        /\ {"round", "enlist"} \cap crossed = {} => t \notin recorded
    BY <1>1, <1>2 DEF TeamInv, DeletedTeamLeavesNothing
  <2> QED BY <1>1, <2>1, <2>2, TeamAssumption DEF TablesMove
<1>3. CASE teams[t] # "deleted"
  <2>1. PICK r \in Requests : At(r, "row") /\ work[r].team = t
    BY <1>3 DEF TablesMove, TablesTyped
  <2>2. work[r].kind = "delete" /\ Emptied(r)
    BY <2>1 DEF TeamInv, JobInv, Shape, At
  <2>3. \A q \in Requests : work[q].kind \in Marking => work[q].kind \in crossed
    BY <2>2 DEF TeamInv, OverlapsMarked
  <2>4. /\ {"add", "register", "edit"} \cap crossed = {} => \A p \in Players : member[p] # t
        /\ "enlist" \notin crossed => listed[t] = 0
        /\ {"round", "enlist"} \cap crossed = {} => t \notin recorded
    BY <1>1, <2>1, <2>2 DEF Emptied, At
  <2> QED BY <1>1, <2>3, <2>4, TeamAssumption DEF TablesMove, Marking
<1> QED BY <1>2, <1>3

\* The request that moves keeps its own promise.
LEMMA MoverKeeps ==
  ASSUME TeamInv, TablesMove, TablesTyped', NEW q \in Requests, TeamBegin(q) \/ TeamStep(q)
  PROVE  /\ JobInv(q)'
         /\ \A r \in Requests : r # q => work'[r] = work[r]
<1>1. /\ work \in [Requests -> Work] /\ work[q] \in Work
      /\ Shape(q) /\ Lives(q) /\ Emptied(q) /\ Joins(q) /\ crossed \subseteq crossed'
      /\ teams \in [TeamIds -> {"unborn", "present", "deleted"}]
      /\ member \in [Players -> TeamIds \cup {NoTeam, Unborn}]
      /\ listed \in [TeamIds -> Nat]
  BY DEF TeamInv, JobInv, TablesTyped, TablesMove
\* A request that has ended promises nothing.
<1>2. ASSUME work' = [work EXCEPT ![q] = Idle]
      PROVE  JobInv(q)' /\ \A r \in Requests : r # q => work'[r] = work[r]
  <2>1. Idle.at = "idle" /\ Idle.kind = "none"
    BY DEF Idle
  <2>2. work'[q] = Idle /\ \A r \in Requests : r # q => work'[r] = work[r]
    BY <1>1, <1>2
  <2> QED BY <2>1, <2>2 DEF JobInv, Shape, Lives, Emptied, Joins, At, Marking
\* One that goes on promises what its next place asks for.
<1>3. ASSUME NEW stage \in Stages, work' = [work EXCEPT ![q] = [work[q] EXCEPT !.at = stage]]
      PROVE  /\ work'[q].at = stage /\ work'[q].kind = work[q].kind
             /\ work'[q].team = work[q].team /\ work'[q].player = work[q].player
             /\ \A r \in Requests : r # q => work'[r] = work[r]
  <2> DEFINE w == [work[q] EXCEPT !.at = stage]
  <2>1. /\ w.at = stage /\ w.kind = work[q].kind
        /\ w.team = work[q].team /\ w.player = work[q].player
    BY <1>1 DEF Work
  <2>2. work' = [work EXCEPT ![q] = w]
    BY <1>3
  <2> HIDE DEF w
  <2> QED BY <1>1, <2>1, <2>2
<1>4. ASSUME UNCHANGED teams, work'[q].kind = work[q].kind, work'[q].team = work[q].team
      PROVE  Lives(q)'
  BY <1>1, <1>4 DEF Lives, Exists
\* One that begins.
<1>5. CASE TeamBegin(q)
  <2>1. ASSUME NEW t \in TeamIds, NEW kind \in Kinds, NEW stage \in Stages,
               NEW p \in Players \cup {NoTeam}, Begin(q, kind, stage, t, p),
               <<kind, stage>> \in {<<"save", "save">>, <<"delete", "games">>,
                 <<"enlist", "check">>, <<"round", "record">>, <<"add", "user">>,
                 <<"remove", "leave">>, <<"register", "enroll">>},
               kind = "add" => p \in Players,
               kind \in {"add", "register", "enlist"} => Exists(t) /\ UNCHANGED teams,
               kind = "round" => listed[t] > 0 /\ UNCHANGED teams
        PROVE  JobInv(q)' /\ \A r \in Requests : r # q => work'[r] = work[r]
    <3>1. /\ work'[q].at = stage /\ work'[q].kind = kind /\ work'[q].team = t
          /\ work'[q].player = p
          /\ \A r \in Requests : r # q => work'[r] = work[r]
      BY <1>1, <2>1 DEF Begin
    <3>2. Shape(q)'
      BY <2>1, <3>1 DEF Shape, At
    <3>3. Lives(q)'
      <4>1. kind = "round" /\ teams[t] = "deleted" => "enlist" \in crossed \/ "failure" \in crossed
        BY <1>1, <2>1 DEF TeamInv, DeletedTeamLeavesNothing
      <4> QED BY <1>1, <2>1, <3>1, <4>1 DEF Lives, Exists
    <3>4. Emptied(q)' /\ Joins(q)'
      BY <2>1, <3>1 DEF Emptied, Joins, At
    <3> QED BY <3>1, <3>2, <3>3, <3>4 DEF JobInv
  <2>2. PICK t \in TeamIds :
          \/ CreateTeam(q, t) \/ ReadTeam(q, t) \/ BeginDelete(q, t)
          \/ BeginEnlist(q, t) \/ BeginRound(q, t)
          \/ \E p \in Players : BeginAdd(q, t, p) \/ BeginRemove(q, t, p) \/ BeginRegister(q, t, p)
    BY <1>5 DEF TeamBegin
  <2>3. CASE CreateTeam(q, t) \/ ReadTeam(q, t)
    <3>1. Begin(q, "save", "save", t, NoTeam)
      BY <2>3 DEF CreateTeam, Inserted, ReadTeam
    <3> QED BY <2>1, <3>1 DEF Kinds, Stages
  <2>4. CASE BeginDelete(q, t)
    <3>1. Begin(q, "delete", "games", t, NoTeam)
      BY <2>4 DEF BeginDelete
    <3> QED BY <2>1, <3>1 DEF Kinds, Stages
  <2>5. CASE BeginEnlist(q, t)
    BY <2>1, <2>5 DEF BeginEnlist, Kinds, Stages
  <2>6. CASE BeginRound(q, t)
    BY <2>1, <2>6 DEF BeginRound, Kinds, Stages
  <2>7. ASSUME NEW p \in Players, BeginAdd(q, t, p) \/ BeginRemove(q, t, p) \/ BeginRegister(q, t, p)
        PROVE  JobInv(q)' /\ \A r \in Requests : r # q => work'[r] = work[r]
    <3>1. CASE BeginAdd(q, t, p)
      BY <2>1, <3>1 DEF BeginAdd, Kinds, Stages
    <3>2. CASE BeginRemove(q, t, p)
      <4>1. Begin(q, "remove", "leave", t, p)
        BY <3>2 DEF BeginRemove
      <4> QED BY <2>1, <4>1 DEF Kinds, Stages
    <3>3. CASE BeginRegister(q, t, p)
      BY <2>1, <3>3 DEF BeginRegister, Kinds, Stages
    <3> QED BY <2>7, <3>1, <3>2, <3>3
  <2> QED BY <2>2, <2>3, <2>4, <2>5, <2>6, <2>7
<1>6. CASE SaveTeam(q) \/ DeleteRow(q) \/ Join(q) \/ Leave(q) \/ Enroll(q) \/ Insert(q) \/ Record(q)
  BY <1>2, <1>6 DEF SaveTeam, DeleteRow, Join, Leave, Enroll, Insert, Record, Finish
<1>7. CASE AddCheck(q)
  <2>1. CASE member[work[q].player] = NoTeam
    <3>1. work' = [work EXCEPT ![q] = [work[q] EXCEPT !.at = "join"]]
      BY <1>7, <2>1 DEF AddCheck, GoOn
    <3>2. UNCHANGED <<teams, member>> /\ work[q].kind = "add"
      BY <1>1, <1>7 DEF AddCheck, Shape, At
    <3>3. /\ work'[q].at = "join" /\ work'[q].kind = work[q].kind
          /\ work'[q].team = work[q].team /\ work'[q].player = work[q].player
          /\ \A r \in Requests : r # q => work'[r] = work[r]
      BY <1>3, <3>1 DEF Stages
    <3>4. Shape(q)' /\ Emptied(q)'
      BY <1>1, <3>2, <3>3 DEF Shape, Emptied, At
    <3> QED BY <1>4, <2>1, <3>2, <3>3, <3>4 DEF JobInv, Joins
  <2>2. CASE member[work[q].player] # NoTeam
    BY <1>2, <1>7, <2>2 DEF AddCheck, Finish
  <2> QED BY <2>1, <2>2
<1>8. CASE EnlistCheck(q)
  <2>1. CASE listed[work[q].team] > 0
    BY <1>2, <1>8, <2>1 DEF EnlistCheck, Finish
  <2>2. CASE ~(listed[work[q].team] > 0)
    <3>1. work' = [work EXCEPT ![q] = [work[q] EXCEPT !.at = "insert"]]
      BY <1>8, <2>2 DEF EnlistCheck, GoOn
    <3>2. UNCHANGED teams /\ work[q].kind = "enlist"
      BY <1>1, <1>8 DEF EnlistCheck, Shape, At
    <3>3. /\ work'[q].at = "insert" /\ work'[q].kind = work[q].kind
          /\ work'[q].team = work[q].team /\ work'[q].player = work[q].player
          /\ \A r \in Requests : r # q => work'[r] = work[r]
      BY <1>3, <3>1 DEF Stages
    <3>4. Shape(q)' /\ Emptied(q)' /\ Joins(q)'
      BY <1>1, <3>2, <3>3 DEF Shape, Emptied, Joins, At
    <3> QED BY <1>4, <3>2, <3>3, <3>4 DEF JobInv
  <2> QED BY <2>1, <2>2
\* A deletion goes on, and has done one thing more.
<1>9. ASSUME NEW stage \in {"members", "records", "row"},
             work' = [work EXCEPT ![q] = [work[q] EXCEPT !.at = stage]],
             work[q].kind = "delete", UNCHANGED teams, Emptied(q)'
      PROVE  JobInv(q)' /\ \A r \in Requests : r # q => work'[r] = work[r]
  <2>1. /\ work'[q].at = stage /\ work'[q].kind = work[q].kind
        /\ work'[q].team = work[q].team /\ work'[q].player = work[q].player
        /\ \A r \in Requests : r # q => work'[r] = work[r]
    BY <1>3, <1>9 DEF Stages
  <2>2. Shape(q)' /\ Joins(q)'
    BY <1>1, <1>9, <2>1 DEF Shape, Joins, At
  <2> QED BY <1>4, <1>9, <2>1, <2>2 DEF JobInv
<1>10. CASE DeleteFromGames(q)
  <2>1. /\ work' = [work EXCEPT ![q] = [work[q] EXCEPT !.at = "members"]]
        /\ work[q].kind = "delete" /\ UNCHANGED teams /\ work[q].team \in TeamIds
    BY <1>1, <1>10 DEF DeleteFromGames, GoOn, Shape, At
  <2>2. work'[q].at = "members" /\ work'[q].team = work[q].team
    BY <1>3, <2>1 DEF Stages
  <2>3. listed'[work[q].team] = 0
    BY <1>1, <1>10, <2>1 DEF DeleteFromGames
  <2>4. Emptied(q)'
    BY <2>2, <2>3 DEF Emptied, At
  <2> QED BY <1>9, <2>1, <2>4
<1>11. CASE NullifyMembers(q)
  <2>1. /\ work' = [work EXCEPT ![q] = [work[q] EXCEPT !.at = "records"]]
        /\ work[q].kind = "delete" /\ UNCHANGED <<teams, listed>> /\ work[q].team \in TeamIds
        /\ work[q].at = "members"
    BY <1>1, <1>11 DEF NullifyMembers, GoOn, Shape, At
  <2>2. work'[q].at = "records" /\ work'[q].team = work[q].team
    BY <1>3, <2>1 DEF Stages
  <2>3. \A p \in Players : member'[p] # work[q].team
    BY <1>1, <1>11, <2>1, TeamAssumption DEF NullifyMembers
  <2>4. Emptied(q)'
    BY <1>1, <2>1, <2>2, <2>3 DEF Emptied, At
  <2> QED BY <1>9, <2>1, <2>4
<1>12. CASE DeleteRecords(q)
  <2>1. /\ work' = [work EXCEPT ![q] = [work[q] EXCEPT !.at = "row"]]
        /\ work[q].kind = "delete" /\ UNCHANGED <<teams, member, listed>>
        /\ work[q].at = "records"
    BY <1>1, <1>12 DEF DeleteRecords, GoOn, Shape, At
  <2>2. work'[q].at = "row" /\ work'[q].team = work[q].team
    BY <1>3, <2>1 DEF Stages
  <2>3. work[q].team \notin recorded'
    BY <1>12 DEF DeleteRecords
  <2>4. Emptied(q)'
    BY <1>1, <2>1, <2>2, <2>3 DEF Emptied, At
  <2> QED BY <1>9, <2>1, <2>4
<1>13. CASE DeleteFails(q)
  <2>1. PICK stage \in {"members", "records", "row"} :
          work' = [work EXCEPT ![q] = [work[q] EXCEPT !.at = stage]]
    BY <1>13 DEF DeleteFails
  <2>2. work[q].kind = "delete" /\ UNCHANGED teams /\ "failure" \in crossed'
    BY <1>1, <1>13 DEF DeleteFails, Shape, At
  <2>3. Emptied(q)'
    BY <2>2 DEF Emptied
  <2> QED BY <1>9, <2>1, <2>2, <2>3
<1> QED BY <1>5, <1>6, <1>7, <1>8, <1>10, <1>11, <1>12, <1>13 DEF TeamStep

LEMMA TeamInvHolds == TeamSpec => []TeamInv
<1>1. TeamInit => TeamInv
  <2> SUFFICES ASSUME TeamInit PROVE TeamInv
    OBVIOUS
  <2>1. Idle \in Work /\ Idle.at = "idle" /\ Idle.kind = "none"
    BY DEF Idle, Work, Stages
  <2>2. TablesTyped /\ DeletedTeamLeavesNothing
    BY <2>1 DEF TeamInit, TablesTyped, DeletedTeamLeavesNothing
  <2>3. ASSUME NEW q \in Requests PROVE JobInv(q) /\ work[q].kind = "none"
    <3>1. work[q] = Idle
      BY DEF TeamInit
    <3> QED BY <2>1, <3>1 DEF JobInv, Shape, Lives, Emptied, Joins, At
  <2>4. OverlapsMarked
    BY <2>3 DEF OverlapsMarked, Marking
  <2> QED BY <2>2, <2>3, <2>4 DEF TeamInv
<1>2. TeamInv /\ [TeamNext]_teamVars => TeamInv'
  <2> SUFFICES ASSUME TeamInv, [TeamNext]_teamVars PROVE TeamInv'
    OBVIOUS
  <2>1. CASE UNCHANGED teamVars
    <3>1. TablesTyped' /\ OverlapsMarked' /\ DeletedTeamLeavesNothing'
      BY <2>1 DEF teamVars, TeamInv, TablesTyped, OverlapsMarked, Marking, DeletedTeamLeavesNothing
    <3>2. ASSUME NEW q \in Requests PROVE JobInv(q)'
      <4>1. Shape(q) /\ Lives(q) /\ Emptied(q) /\ Joins(q)
        BY DEF TeamInv, JobInv
      <4>2. Shape(q)' /\ Lives(q)'
        BY <2>1, <4>1 DEF teamVars, Shape, Lives, Exists, At
      <4>3. Emptied(q)' /\ Joins(q)'
        BY <2>1, <4>1 DEF teamVars, Emptied, Joins, Exists, At
      <4> QED BY <4>2, <4>3 DEF JobInv
    <3> QED BY <3>1, <3>2 DEF TeamInv
  <2>2. CASE TeamNext
    <3>1. TablesMove /\ TablesTyped'
      BY <2>2, StepMovesTables
    <3>2. OverlapsMarked' /\ DeletedTeamLeavesNothing'
      BY <2>2, <3>1, OverlapsStayMarked, DeletedStaysEmpty
    <3>3. CASE UNCHANGED work
      BY <3>1, <3>2, <3>3, OthersKeep DEF TeamInv
    <3>4. ASSUME NEW q \in Requests, TeamBegin(q) \/ TeamStep(q) PROVE TeamInv'
      BY <3>1, <3>2, <3>4, MoverKeeps, OthersKeep DEF TeamInv
    <3>5. UNCHANGED work \/ \E q \in Requests : TeamBegin(q) \/ TeamStep(q)
      BY <2>2 DEF TeamNext, RegisterAlone, EditUser, AdminCreateTeam, RemoveFromGame, Sweep
    <3> QED BY <3>3, <3>4, <3>5
  <2> QED BY <2>1, <2>2
<1> QED BY <1>1, <1>2, PTL DEF TeamSpec

\* Whatever the other requests do between its statements, a deletion that met no
\* failure leaves nothing of its team, but what overlapped it put there.
THEOREM NothingLeft == TeamSpec => []DeletedTeamLeavesNothing
<1>1. TeamInv => DeletedTeamLeavesNothing
  BY DEF TeamInv
<1> QED BY <1>1, TeamInvHolds, PTL

\* A player changes teams by way of none: the team it had when it was added is
\* still none when it joins.
THEOREM TeamIsKept == TeamSpec => MemberKeepsTeam
<1>1. TeamInv /\ [TeamNext]_teamVars =>
        [\A p \in Players :
           /\ member[p] \in TeamIds /\ member'[p] \in TeamIds
           /\ crossed' \cap {"edit", "two adds"} = {}
           => member'[p] = member[p]]_teamVars
  <2> SUFFICES ASSUME TeamInv, TeamNext, NEW p \in Players, member[p] \in TeamIds,
                      member'[p] \in TeamIds, crossed' \cap {"edit", "two adds"} = {}
               PROVE  member'[p] = member[p]
    BY DEF teamVars
  <2>1. /\ member \in [Players -> TeamIds \cup {NoTeam, Unborn}]
        /\ crossed \subseteq crossed' /\ NoTeam \notin TeamIds /\ Unborn \notin TeamIds
    BY StepMovesTables, TeamAssumption DEF TeamInv, TablesTyped, TablesMove
  <2>2. UNCHANGED member
        \/ (\E q \in Requests : NullifyMembers(q) \/ Join(q) \/ Leave(q) \/ Enroll(q))
        \/ (\E x \in Players : RegisterAlone(x))
        \/ (\E x \in Players, t \in TeamIds : EditUser(x, t))
    BY DEF TeamNext, TeamBegin, TeamStep, CreateTeam, ReadTeam, BeginDelete, BeginEnlist,
       BeginRound, BeginAdd, BeginRemove, BeginRegister, SaveTeam, DeleteFromGames, DeleteRecords,
       DeleteFails, DeleteRow, AddCheck, EnlistCheck, Insert, Record, AdminCreateTeam, RemoveFromGame, Sweep
  <2>3. ASSUME NEW q \in Requests, NullifyMembers(q) \/ Leave(q) \/ Enroll(q)
        PROVE  member'[p] = member[p]
    BY <2>1, <2>3 DEF NullifyMembers, Leave, Enroll
  <2>4. ASSUME NEW q \in Requests, Join(q) PROVE member'[p] = member[p]
    <3>1. member[work[q].player] = NoTeam
      BY <2>1, <2>4 DEF Join, TeamInv, JobInv, Joins
    <3> QED BY <2>1, <2>4, <3>1 DEF Join
  <2>5. ASSUME NEW x \in Players, RegisterAlone(x) PROVE member'[p] = member[p]
    BY <2>1, <2>5 DEF RegisterAlone
  <2>6. ASSUME NEW x \in Players, NEW t \in TeamIds, EditUser(x, t) PROVE FALSE
    BY <2>6 DEF EditUser
  <2> QED BY <2>2, <2>3, <2>4, <2>5, <2>6
<1> QED BY <1>1, TeamInvHolds, PTL DEF TeamSpec, MemberKeepsTeam

-----------------------------------------------------------------------------
(***************************************************************************)
(* RateLimit.                                                              *)
(***************************************************************************)
\* One pass of the loop of Allow, and the loop over times up to n.
Kept(times, x) == IF x < Window THEN Append(times, x) ELSE times
Filters(f, times, n) ==
  f = [i \in 0..n |-> IF i = 0 THEN <<>> ELSE Kept(f[i - 1], times[i])]

\* What the loop does, pass by pass.
LEMMA FilterSteps ==
  ASSUME NEW f, NEW times, NEW n \in Nat, Filters(f, times, n)
  PROVE  f[0] = <<>> /\ \A i \in 0..n : i # 0 => f[i] = Kept(f[i - 1], times[i])
<1> DEFINE body(i) == IF i = 0 THEN <<>> ELSE Kept(f[i - 1], times[i])
<1>1. f = [i \in 0..n |-> body(i)]
  BY DEF Filters
<1> HIDE DEF body
<1>2. \A i \in 0..n : f[i] = body(i)
  BY <1>1
<1>3. 0 \in 0..n
  OBVIOUS
<1> QED BY <1>2, <1>3 DEF body

\* The loop ends, whatever it goes over.
LEMMA FilterExists ==
  ASSUME NEW times
  PROVE  \A n \in Nat : \E f : Filters(f, times, n)
<1> DEFINE Good == {n \in Nat : \E f : Filters(f, times, n)}
<1>1. 0 \in Good
  <2>1. Filters([i \in 0..0 |-> <<>>], times, 0)
    BY DEF Filters
  <2> QED BY <2>1
<1>2. ASSUME NEW n \in Nat, n \in Good
      PROVE  n + 1 \in Good
  <2>1. PICK f : Filters(f, times, n)
    BY <1>2
  <2> DEFINE old(i) == IF i = 0 THEN <<>> ELSE Kept(f[i - 1], times[i])
             g == [i \in 0..n + 1 |-> old(i)]
  <2>2. f[0] = <<>> /\ \A i \in 0..n : i # 0 => f[i] = Kept(f[i - 1], times[i])
    BY <2>1, FilterSteps
  <2>3. \A i \in 0..n : old(i) = f[i]
    BY <2>2
  <2>4. \A i \in 0..n + 1 : i # 0 => i - 1 \in 0..n /\ i - 1 \in 0..n + 1
    OBVIOUS
  <2> HIDE DEF old
  <2>5. \A i \in 0..n : i \in 0..n + 1 /\ g[i] = f[i]
    BY <2>3
  <2>6. \A i \in 0..n + 1 : i # 0 => g[i - 1] = f[i - 1]
    BY <2>4, <2>5
  <2> HIDE DEF g
  <2>7. \A i \in 0..n + 1 : old(i) = IF i = 0 THEN <<>> ELSE Kept(g[i - 1], times[i])
    BY <2>6 DEF old
  <2>8. g = [i \in 0..n + 1 |-> IF i = 0 THEN <<>> ELSE Kept(g[i - 1], times[i])]
    BY <2>7 DEF g
  <2>9. Filters(g, times, n + 1)
    BY <2>8 DEF Filters
  <2> QED BY <2>9
<1> HIDE DEF Good
<1> QED BY <1>1, <1>2, NatSets DEF Good

\* What the loop keeps of the first ages does not depend on the rest.
LEMMA FiltersAgree ==
  ASSUME NEW s, NEW t, NEW m \in Nat, NEW n \in Nat, m <= n,
         \A i \in 1..m : s[i] = t[i],
         NEW f, Filters(f, s, m), NEW g, Filters(g, t, n)
  PROVE  f[m] = g[m]
<1> DEFINE Good == {i \in Nat : i <= m => f[i] = g[i]}
<1>0. /\ f[0] = <<>> /\ \A i \in 0..m : i # 0 => f[i] = Kept(f[i - 1], s[i])
      /\ g[0] = <<>> /\ \A i \in 0..n : i # 0 => g[i] = Kept(g[i - 1], t[i])
  BY FilterSteps
<1>1. 0 \in Good
  BY <1>0
<1>2. ASSUME NEW i \in Nat, i \in Good
      PROVE  i + 1 \in Good
  <2> SUFFICES ASSUME i + 1 <= m PROVE f[i + 1] = g[i + 1]
    OBVIOUS
  <2>1. f[i] = g[i] /\ i + 1 \in 0..m /\ i + 1 \in 0..n /\ i + 1 \in 1..m /\ (i + 1) - 1 = i /\ i + 1 # 0
    BY <1>2
  <2>2. f[i + 1] = Kept(f[i], s[i + 1])
    BY <1>0, <2>1
  <2>3. g[i + 1] = Kept(g[i], t[i + 1])
    BY <1>0, <2>1
  <2> QED BY <2>1, <2>2, <2>3
<1> HIDE DEF Good
<1>3. Nat \subseteq Good
  BY <1>1, <1>2, NatSets
<1> QED BY <1>3 DEF Good

\* Recent is what the loop has kept in the end.
LEMMA RecentIs ==
  ASSUME NEW times, Len(times) \in Nat
  PROVE  \E f : Filters(f, times, Len(times)) /\ Recent(times) = f[Len(times)]
<1> DEFINE f == CHOOSE f : Filters(f, times, Len(times))
<1>1. Filters(f, times, Len(times))
  BY FilterExists
<1>2. Recent(times) = f[Len(times)]
  BY DEF Recent, Filters, Kept
<1> QED BY <1>1, <1>2

\* Of nothing it keeps nothing.
LEMMA RecentEmpty == Recent(<<>>) = <<>>
<1>1. PICK f : Filters(f, <<>>, Len(<<>>)) /\ Recent(<<>>) = f[Len(<<>>)]
  BY RecentIs
<1> QED BY <1>1, FilterSteps

\* One age more is one pass more.
LEMMA RecentAppend ==
  ASSUME NEW s \in Seq(Ages), NEW x \in Ages
  PROVE  Recent(Append(s, x)) = Kept(Recent(s), x)
<1> DEFINE t == Append(s, x)
           n == Len(s)
<1>1. /\ n \in Nat /\ Len(t) = n + 1 /\ t[n + 1] = x /\ n <= n + 1
      /\ \A i \in 1..n : s[i] = t[i]
  OBVIOUS
<1> HIDE DEF t, n
<1>2. PICK f : Filters(f, s, n) /\ Recent(s) = f[n]
  BY <1>1, RecentIs DEF n
<1>3. PICK g : Filters(g, t, n + 1) /\ Recent(t) = g[n + 1]
  BY <1>1, RecentIs
<1>4. f[n] = g[n]
  BY <1>1, <1>2, <1>3, FiltersAgree
<1>5. g[n + 1] = Kept(g[n], t[n + 1])
  <2>1. n + 1 \in 0..n + 1 /\ n + 1 # 0 /\ (n + 1) - 1 = n /\ n + 1 \in Nat
    BY <1>1
  <2> QED BY <1>3, <2>1, FilterSteps
<1> QED BY <1>1, <1>2, <1>3, <1>4, <1>5 DEF t

-----------------------------------------------------------------------------
\* A property of all sequences of ages, from the empty one and one more age.
LEMMA AgeSequences ==
  ASSUME NEW C, <<>> \in C,
         \A s \in Seq(Ages), x \in Ages : s \in C => Append(s, x) \in C
  PROVE  Seq(Ages) \subseteq C
<1> DEFINE Good == {n \in Nat : \A s \in Seq(Ages) : Len(s) = n => s \in C}
<1>1. 0 \in Good
  <2>1. \A s \in Seq(Ages) : Len(s) = 0 => s = <<>>
    OBVIOUS
  <2> QED BY <2>1
<1>2. ASSUME NEW n \in Nat, n \in Good
      PROVE  n + 1 \in Good
  <2> SUFFICES ASSUME NEW s \in Seq(Ages), Len(s) = n + 1 PROVE s \in C
    OBVIOUS
  <2> DEFINE front == SubSeq(s, 1, n)
  <2>1. /\ front \in Seq(Ages) /\ Len(front) = n /\ s[n + 1] \in Ages
        /\ s = Append(front, s[n + 1])
    OBVIOUS
  <2> HIDE DEF front
  <2>2. front \in C
    BY <1>2, <2>1
  <2>3. Append(front, s[n + 1]) \in C
    BY <2>1, <2>2
  <2> QED BY <2>1, <2>3
<1> HIDE DEF Good
<1>3. Nat \subseteq Good
  BY <1>1, <1>2, NatSets
<1>4. \A s \in Seq(Ages) : Len(s) \in Good
  BY <1>3
<1> QED BY <1>4 DEF Good

\* What is kept are ages, no more than there were.
LEMMA RecentType ==
  ASSUME NEW s \in Seq(Ages)
  PROVE  Recent(s) \in Seq(Ages) /\ Len(Recent(s)) <= Len(s)
<1> DEFINE C == {q \in Seq(Ages) : Recent(q) \in Seq(Ages) /\ Len(Recent(q)) <= Len(q)}
<1>1. <<>> \in C
  <2>1. <<>> \in Seq(Ages) /\ Len(<<>>) <= Len(<<>>)
    OBVIOUS
  <2> QED BY <2>1, RecentEmpty
<1>2. ASSUME NEW q \in Seq(Ages), NEW x \in Ages, q \in C
      PROVE  Append(q, x) \in C
  <2>1. Recent(Append(q, x)) = Kept(Recent(q), x)
    BY RecentAppend
  <2>2. Recent(q) \in Seq(Ages) /\ Len(Recent(q)) <= Len(q)
    BY <1>2
  <2>3. /\ Kept(Recent(q), x) \in Seq(Ages)
        /\ Len(Kept(Recent(q), x)) <= Len(q) + 1
    BY <2>2 DEF Kept
  <2>4. Append(q, x) \in Seq(Ages) /\ Len(Append(q, x)) = Len(q) + 1
    OBVIOUS
  <2> QED BY <2>1, <2>3, <2>4
<1> HIDE DEF C
<1>3. Seq(Ages) \subseteq C
  BY <1>1, <1>2, AgeSequences
<1> QED BY <1>3 DEF C

\* The loop finds nothing to drop in what it kept.
LEMMA RecentTwice ==
  ASSUME NEW s \in Seq(Ages)
  PROVE  Recent(Recent(s)) = Recent(s)
<1> DEFINE C == {q \in Seq(Ages) : Recent(Recent(q)) = Recent(q)}
<1>1. <<>> \in C
  BY RecentEmpty
<1>2. ASSUME NEW q \in Seq(Ages), NEW x \in Ages, q \in C
      PROVE  Append(q, x) \in C
  <2>1. Recent(Append(q, x)) = Kept(Recent(q), x)
    BY RecentAppend
  <2>2. Recent(q) \in Seq(Ages) /\ Recent(Recent(q)) = Recent(q)
    BY <1>2, RecentType
  <2>3. Recent(Append(Recent(q), x)) = Kept(Recent(q), x)
    BY <2>2, RecentAppend
  <2>4. Recent(Kept(Recent(q), x)) = Kept(Recent(q), x)
    BY <2>2, <2>3 DEF Kept
  <2>5. Append(q, x) \in Seq(Ages)
    OBVIOUS
  <2> QED BY <2>1, <2>4, <2>5
<1> HIDE DEF C
<1>3. Seq(Ages) \subseteq C
  BY <1>1, <1>2, AgeSequences
<1> QED BY <1>3 DEF C

Aged(x) == IF x < Window THEN x + 1 ELSE Window

\* A tick makes each age one older, and no more than the window.
LEMMA GrowAppend ==
  ASSUME NEW s \in Seq(Ages), NEW x \in Ages
  PROVE  /\ Grow(s) \in Seq(Ages) /\ Len(Grow(s)) = Len(s) /\ Aged(x) \in Ages
         /\ Grow(Append(s, x)) = Append(Grow(s), Aged(x))
<1>1. Window \in Nat
  BY RateAssumption
<1>2. \A y \in Ages : Aged(y) \in Ages
  BY <1>1 DEF Aged, Ages
<1>3. \A q : Grow(q) = [i \in 1..Len(q) |-> Aged(q[i])]
  BY DEF Grow, Aged
<1>4. \A q \in Seq(Ages) : /\ Grow(q) \in Seq(Ages) /\ Len(Grow(q)) = Len(q)
                           /\ \A i \in 1..Len(q) : Grow(q)[i] = Aged(q[i])
  <2> SUFFICES ASSUME NEW q \in Seq(Ages)
               PROVE  /\ Grow(q) \in Seq(Ages) /\ Len(Grow(q)) = Len(q)
                      /\ \A i \in 1..Len(q) : Grow(q)[i] = Aged(q[i])
    OBVIOUS
  <2>1. Grow(q) = [i \in 1..Len(q) |-> Aged(q[i])] /\ Len(q) \in Nat
    BY <1>3
  <2>2. \A i \in 1..Len(q) : Aged(q[i]) \in Ages
    BY <1>2
  <2> QED BY <2>1, <2>2
<1>5. Grow(Append(s, x)) = Append(Grow(s), Aged(x))
  <2> DEFINE t == Append(s, x)
  <2>1. t \in Seq(Ages) /\ Len(t) = Len(s) + 1 /\ \A i \in 1..Len(s) + 1 : t[i] = IF i <= Len(s) THEN s[i] ELSE x
    OBVIOUS
  <2> HIDE DEF t
  <2>2. /\ Grow(t) \in Seq(Ages) /\ Len(Grow(t)) = Len(t)
        /\ \A i \in 1..Len(t) : Grow(t)[i] = Aged(t[i])
    BY <1>4, <2>1
  <2> DEFINE u == Append(Grow(s), Aged(x))
  <2>3. /\ u \in Seq(Ages) /\ Len(u) = Len(s) + 1
        /\ \A i \in 1..Len(s) + 1 : u[i] = IF i <= Len(s) THEN Grow(s)[i] ELSE Aged(x)
    BY <1>2, <1>4
  <2> HIDE DEF u
  <2>4. Len(s) \in Nat /\ \A i \in 1..Len(s) + 1 : Grow(t)[i] = u[i]
    <3>1. Len(s) \in Nat
      OBVIOUS
    <3>2. ASSUME NEW i \in 1..Len(s) + 1
          PROVE  Grow(t)[i] = u[i]
      <4>1. CASE i <= Len(s)
        <5>1. i \in 1..Len(s) /\ i \in 1..Len(t)
          BY <2>1, <4>1
        <5> QED BY <5>1, <2>1, <2>2, <2>3, <1>4, <4>1
      <4>2. CASE ~ (i <= Len(s))
        BY <4>2, <2>1, <2>2, <2>3
      <4> QED BY <4>1, <4>2
    <3> QED BY <3>1, <3>2
  <2> QED BY <2>1, <2>2, <2>3, <2>4 DEF t, u
<1> QED BY <1>2, <1>4, <1>5

\* What is past the window stays past it: it may be dropped before or after a
\* tick.
LEMMA RecentGrow ==
  ASSUME NEW s \in Seq(Ages)
  PROVE  Recent(Grow(Recent(s))) = Recent(Grow(s))
<1> DEFINE C == {q \in Seq(Ages) : Recent(Grow(Recent(q))) = Recent(Grow(q))}
<1>1. <<>> \in C
  BY RecentEmpty
<1>2. ASSUME NEW q \in Seq(Ages), NEW x \in Ages, q \in C
      PROVE  Append(q, x) \in C
  <2>1. Recent(Append(q, x)) = Kept(Recent(q), x)
    BY RecentAppend
  <2>2. Recent(q) \in Seq(Ages) /\ Recent(Grow(Recent(q))) = Recent(Grow(q))
    BY <1>2, RecentType
  <2>3. /\ Grow(q) \in Seq(Ages) /\ Aged(x) \in Ages
        /\ Recent(Grow(Append(q, x))) = Kept(Recent(Grow(q)), Aged(x))
    BY GrowAppend, RecentAppend
  <2>4. Recent(Grow(Append(Recent(q), x))) = Kept(Recent(Grow(Recent(q))), Aged(x))
    BY <2>2, GrowAppend, RecentAppend
  <2>5. Recent(Grow(Kept(Recent(q), x))) = Kept(Recent(Grow(q)), Aged(x))
    <3>1. CASE x < Window
      BY <2>2, <2>4, <3>1 DEF Kept
    <3>2. CASE ~ (x < Window)
      <4>1. Aged(x) = Window /\ ~ (Window < Window)
        BY <3>2, RateAssumption DEF Aged
      <4>2. Kept(Recent(q), x) = Recent(q) /\ Kept(Recent(Grow(q)), Aged(x)) = Recent(Grow(q))
        BY <3>2, <4>1 DEF Kept
      <4> QED BY <2>2, <4>2
    <3> QED BY <3>1, <3>2
  <2>6. Append(q, x) \in Seq(Ages)
    OBVIOUS
  <2> QED BY <2>1, <2>3, <2>5, <2>6
<1> HIDE DEF C
<1>3. Seq(Ages) \subseteq C
  BY <1>1, <1>2, AgeSequences
<1> QED BY <1>3 DEF C

-----------------------------------------------------------------------------
\* The history of a key is what the limiter would count for it now, and that of
\* an account the same, when none of its attempts went astray.
Counts(n) ==
  /\ passed[n] = Recent(byName[n])
  /\ n \notin strayed => tried[n] = passed[n]
  /\ Len(Recent(byName[n])) <= NameLimit
  /\ refused[n] => Len(Recent(byName[n])) = NameLimit

RateInv == RateTypeOK /\ \A n \in Names : Counts(n)

\* After a request the limiter keeps what counts, and no more than its limit; a
\* refusal comes at the limit.
LEMMA CountedIs ==
  ASSUME NEW s \in Seq(Ages), NEW limit \in Nat \ {0}, Len(Recent(s)) <= limit
  PROVE  /\ Counted(s, limit) \in Seq(Ages)
         /\ Recent(Counted(s, limit)) = Counted(s, limit)
         /\ Len(Counted(s, limit)) <= limit
         /\ ~Allowed(s, limit) => Len(Counted(s, limit)) = limit
<1>1. Recent(s) \in Seq(Ages) /\ Recent(Recent(s)) = Recent(s) /\ 0 \in Ages /\ 0 < Window
  BY RecentType, RecentTwice, RateAssumption DEF Ages
<1>2. Recent(Append(Recent(s), 0)) = Append(Recent(s), 0)
  BY <1>1, RecentAppend DEF Kept
<1> DEFINE r == Recent(s)
<1>3. r \in Seq(Ages) /\ Len(r) \in Nat /\ limit \in Nat /\ Append(r, 0) \in Seq(Ages)
      /\ Len(Append(r, 0)) = Len(r) + 1
  BY <1>1
<1>4. CASE Len(r) < limit
  <2>1. Counted(s, limit) = Append(r, 0) /\ Allowed(s, limit)
    BY <1>4 DEF Counted, Allowed
  <2> QED BY <1>2, <1>3, <1>4, <2>1
<1>5. CASE ~ (Len(r) < limit)
  <2>1. Counted(s, limit) = r /\ Len(r) = limit
    BY <1>3, <1>5 DEF Counted, Allowed
  <2> QED BY <1>1, <1>3, <2>1
<1> QED BY <1>4, <1>5

\* What a limiter keeps are ages, whatever its limit.
LEMMA CountedType ==
  ASSUME NEW s \in Seq(Ages), NEW limit
  PROVE  Counted(s, limit) \in Seq(Ages)
<1>1. Recent(s) \in Seq(Ages) /\ 0 \in Ages
  BY RecentType, RateAssumption DEF Ages
<1> QED BY <1>1 DEF Counted

\* No request has been made at first.
LEMMA RateStarts == RateInit => RateInv
<1> SUFFICES ASSUME RateInit PROVE RateInv
  OBVIOUS
<1>1. RateTypeOK
  BY DEF RateInit, RateTypeOK
<1>2. \A n \in Names : byName[n] = <<>> /\ passed[n] = <<>> /\ tried[n] = <<>> /\ refused[n] = FALSE
  BY DEF RateInit
<1>3. NameLimit \in Nat
  BY RateAssumption
<1> QED BY <1>1, <1>2, <1>3, RecentEmpty DEF RateInv, Counts

\* Every step keeps history and limiter together.
LEMMA RateSteps == RateInv /\ [RateNext]_rateVars => RateInv'
<1> SUFFICES ASSUME RateInv, [RateNext]_rateVars PROVE RateInv'
  OBVIOUS
<1>0. /\ byAddress \in [Addresses -> Seq(Ages)]
      /\ byName \in [Names -> Seq(Ages)] /\ passed \in [Names -> Seq(Ages)]
      /\ tried \in [Names -> Seq(Ages)] /\ strayed \subseteq Names
      /\ attempts \subseteq Addresses \X Names \X Names
      /\ refused \in [Names -> BOOLEAN]
  BY DEF RateInv, RateTypeOK
<1>n. \A n \in Names : Counts(n)
  BY DEF RateInv
<1>1. ASSUME NEW a \in Addresses, Nameless(a) PROVE RateInv'
  <2>1. Counted(byAddress[a], AddressLimit) \in Seq(Ages)
    BY <1>0, CountedType
  <2>2. byAddress' \in [Addresses -> Seq(Ages)]
    BY <1>0, <1>1, <2>1 DEF Nameless
  <2> QED BY <1>0, <1>1, <1>n, <2>2 DEF Nameless, RateInv, RateTypeOK, Counts
<1>2. ASSUME NEW a \in Addresses, NEW n \in Names, NEW u \in Names, AttemptFrom(a, n, u)
      PROVE  RateInv'
  <2>1. Counted(byAddress[a], AddressLimit) \in Seq(Ages)
    BY <1>0, CountedType
  <2>2. byAddress' \in [Addresses -> Seq(Ages)]
    BY <1>0, <1>2, <2>1 DEF AttemptFrom
  <2>3. attempts' \subseteq Addresses \X Names \X Names
    BY <1>0, <1>2 DEF AttemptFrom
  <2> QED BY <1>0, <1>2, <1>n, <2>2, <2>3 DEF AttemptFrom, RateInv, RateTypeOK, Counts
<1>3. ASSUME NEW a \in Addresses, NEW n \in Names, NEW u \in Names, AttemptFor(a, n, u)
      PROVE  RateInv'
  <2> DEFINE now == Counted(byName[n], NameLimit)
             fine == Allowed(byName[n], NameLimit)
  <2>1. /\ now \in Seq(Ages) /\ Recent(now) = now /\ Len(now) <= NameLimit
        /\ ~fine => Len(now) = NameLimit
    BY <1>0, <1>n, RateAssumption, CountedIs DEF Counts
  <2>2. byName' = [byName EXCEPT ![n] = now] /\ UNCHANGED byAddress
    BY <1>3 DEF AttemptFor
  <2>3. passed' = [passed EXCEPT ![n] = now]
    <3>1. passed[n] = Recent(byName[n])
      BY <1>n DEF Counts
    <3>2. CASE fine
      BY <1>3, <3>1, <3>2 DEF AttemptFor, Counted
    <3>3. CASE ~fine
      <4>1. now = passed[n]
        BY <3>1, <3>3 DEF Counted
      <4> QED BY <1>0, <1>3, <3>3, <4>1 DEF AttemptFor
    <3> QED BY <3>2, <3>3
  <2>a. /\ tried' \in [Names -> Seq(Ages)] /\ strayed' \subseteq Names
        /\ strayed \subseteq strayed'
        /\ \A m \in Names : m # u => tried'[m] = tried[m]
        /\ n # u => {n, u} \subseteq strayed' \/ tried' = tried
    <3>1. CASE fine
      <4>1. Append(tried[u], 0) \in Seq(Ages)
        BY <1>0, RateAssumption DEF Ages
      <4> QED BY <1>0, <1>3, <3>1, <4>1 DEF AttemptFor
    <3>2. CASE ~fine
      BY <1>0, <1>3, <3>2 DEF AttemptFor
    <3> QED BY <3>1, <3>2
  <2>b. n = u /\ n \notin strayed' => tried'[n] = now
    <3> SUFFICES ASSUME n = u, n \notin strayed' PROVE tried'[n] = now
      OBVIOUS
    <3>1. tried[n] = passed[n]
      BY <1>n, <2>a DEF Counts
    <3>2. CASE fine
      <4>1. tried'[n] = Append(tried[n], 0) /\ passed'[n] = Append(passed[n], 0)
        BY <1>0, <1>3, <3>2 DEF AttemptFor
      <4> QED BY <1>0, <2>3, <3>1, <4>1
    <3>3. CASE ~fine
      <4>1. tried' = tried /\ passed' = passed
        BY <1>3, <3>3 DEF AttemptFor
      <4> QED BY <1>0, <2>3, <3>1, <4>1
    <3> QED BY <3>2, <3>3
  <2>4. refused' = [refused EXCEPT ![n] = ~fine] /\ fine \in BOOLEAN
    BY <1>3 DEF AttemptFor, Allowed
  <2>5. attempts' \subseteq Addresses \X Names \X Names
    BY <1>0, <1>3 DEF AttemptFor
  <2> HIDE DEF now, fine
  <2>6. RateTypeOK'
    BY <1>0, <2>1, <2>2, <2>3, <2>4, <2>5, <2>a DEF RateTypeOK
  <2>7. ASSUME NEW m \in Names PROVE Counts(m)'
    <3>0. m \notin strayed' => tried'[m] = passed'[m]
      <4>1. CASE m = n
        <5>1. n # u /\ n \notin strayed' => tried'[n] = tried[n] /\ tried' = tried
          BY <2>a
        <5>2. CASE n = u
          BY <1>0, <2>3, <2>b, <4>1, <5>2
        <5>3. CASE n # u
          <6>1. n \in strayed' \/ UNCHANGED <<tried, passed>>
            BY <1>3, <5>3 DEF AttemptFor
          <6> QED BY <1>n, <2>a, <4>1, <6>1 DEF Counts
        <5> QED BY <5>2, <5>3
      <4>2. CASE m # n
        <5>1. passed'[m] = passed[m]
          BY <1>0, <2>3, <4>2
        <5>2. m \in strayed' \/ tried'[m] = tried[m]
          BY <2>a, <4>2
        <5> QED BY <1>n, <2>a, <5>1, <5>2 DEF Counts
      <4> QED BY <4>1, <4>2
    <3>1. CASE m = n
      BY <1>0, <2>1, <2>2, <2>3, <2>4, <3>0, <3>1 DEF Counts
    <3>2. CASE m # n
      <4>1. byName'[m] = byName[m] /\ passed'[m] = passed[m] /\ refused'[m] = refused[m]
        BY <1>0, <2>2, <2>3, <2>4, <3>2
      <4> QED BY <1>n, <3>0, <4>1 DEF Counts
    <3> QED BY <3>1, <3>2
  <2> QED BY <2>6, <2>7 DEF RateInv
<1>4. ASSUME PassTick PROVE RateInv'
  <2>0. Window \in Nat /\ NameLimit \in Nat /\ 0 \in Ages
    BY RateAssumption DEF Ages
  <2>1. \A s \in Seq(Ages) : Grow(s) \in Seq(Ages) /\ Len(Grow(s)) = Len(s)
    BY <2>0, GrowAppend
  <2>2. \A s \in Seq(Ages) : Recent(s) \in Seq(Ages) /\ Len(Recent(s)) <= Len(s)
    BY RecentType
  <2>3. RateTypeOK'
    BY <1>0, <1>4, <2>1, <2>2 DEF PassTick, RateTypeOK
  <2>4. ASSUME NEW n \in Names PROVE Counts(n)'
    <3>1. byName'[n] = Grow(byName[n]) /\ passed'[n] = Recent(Grow(passed[n])) /\ refused'[n] = FALSE
          /\ tried'[n] = Recent(Grow(tried[n])) /\ strayed' = strayed
      BY <1>4 DEF PassTick
    <3>2. passed[n] = Recent(byName[n]) /\ Len(passed[n]) <= NameLimit /\ byName[n] \in Seq(Ages)
      BY <1>0, <1>n DEF Counts
    <3>3. passed'[n] = Recent(byName'[n])
      BY <3>1, <3>2, RecentGrow
    <3>4. Len(passed'[n]) <= NameLimit
      <4>1. passed[n] \in Seq(Ages) /\ Grow(passed[n]) \in Seq(Ages)
            /\ Len(Grow(passed[n])) = Len(passed[n])
        BY <1>0, <2>1
      <4>2. /\ Len(Recent(Grow(passed[n]))) <= Len(Grow(passed[n]))
            /\ Recent(Grow(passed[n])) \in Seq(Ages)
        BY <4>1, <2>2
      <4> QED BY <2>0, <3>1, <3>2, <4>1, <4>2
    <3>5. n \notin strayed' => tried'[n] = passed'[n]
      BY <1>n, <3>1 DEF Counts
    <3> QED BY <3>1, <3>3, <3>4, <3>5 DEF Counts
  <2> QED BY <2>3, <2>4 DEF RateInv
<1>5. ASSUME UNCHANGED rateVars PROVE RateInv'
  BY <1>5, <1>0, <1>n DEF rateVars, RateInv, RateTypeOK, Counts
<1> QED BY <1>1, <1>2, <1>3, <1>4, <1>5 DEF RateNext

\* In any window no more attempts than its limit get through that present a
\* name, and one is refused only when that many did; an account is limited so
\* as long as every attempt presents the account it tries: for any addresses,
\* names, limits and windows.
THEOREM LimitKept == RateSpec => []LimitIsKeptAndFair
<1>1. RateInv => LimitIsKeptAndFair
  BY DEF RateInv, Counts, LimitIsKeptAndFair
<1> QED BY <1>1, RateStarts, RateSteps, PTL DEF RateSpec

-----------------------------------------------------------------------------
(***************************************************************************)
(* Hub.                                                                    *)
(***************************************************************************)
\* What the properties need besides: a connection that is registered and has
\* not copied its list is subscribed to nothing, what one has still to restore
\* it asked for, and those a broadcast has still to write to are registered.
HubInv ==
  /\ HubTypeOK
  /\ ConnectionHasItsGames
  /\ \A c \in Connections : Phase(c, "registered") => Served(c) = {} /\ c \in clients
  /\ \A c \in Connections : Phase(c, "restore") => socket[c].games \subseteq asked[c]
  /\ \A c \in sending : c \in clients
  /\ WritesReachOpenConnections

LEMMA HubStarts == HubInit => HubInv
<1> SUFFICES ASSUME HubInit PROVE HubInv
  OBVIOUS
<1>1. \A c \in Connections : socket[c] = [at |-> "new", user |-> "nobody", games |-> {}]
  BY DEF HubInit
<1>2. HubTypeOK
  BY DEF HubInit, HubTypeOK, Socket, Phases
<1>3. \A c \in Connections : Served(c) = {} /\ socket[c].at = "new" /\ c \notin clients
  BY <1>1 DEF HubInit, Served
<1>4. QED
  BY <1>2, <1>3 DEF HubInit, HubInv, ConnectionHasItsGames, Phase, WritesReachOpenConnections

\* A subscription of d to g changes what d is served with, and nothing else.
LEMMA SubscribedServes ==
  ASSUME NEW d \in Connections, NEW g \in Channels, gameSub \in [Channels -> SUBSET Connections],
         gameSub' = Subscribed(g, d)
  PROVE  /\ gameSub' \in [Channels -> SUBSET Connections]
         /\ Served(d)' = Served(d) \cup {g}
         /\ \A c \in Connections : c # d => Served(c)' = Served(c)
BY DEF Subscribed, Served

LEMMA HubTypeStep == HubTypeOK /\ [HubNext]_hubVars => HubTypeOK'
<1> SUFFICES ASSUME HubTypeOK, [HubNext]_hubVars PROVE HubTypeOK'
  OBVIOUS
<1> USE DEF HubTypeOK, Socket, Phases
<1>1. ASSUME NEW c \in Connections, NEW u \in Viewers, Connect(c, u) PROVE HubTypeOK'
  BY <1>1 DEF Connect
<1>2. ASSUME NEW c \in Connections, CopySubs(c) PROVE HubTypeOK'
  BY <1>2 DEF CopySubs, Enter, Phase
<1>3. ASSUME NEW c \in Connections, ReadLoop(c) PROVE HubTypeOK'
  BY <1>3 DEF ReadLoop, Enter, Phase
<1>4. ASSUME NEW c \in Connections, TrackUserSub(c) PROVE HubTypeOK'
  BY <1>4 DEF TrackUserSub, Enter, Phase
<1>5. ASSUME NEW c \in Connections, ReadFails(c) PROVE HubTypeOK'
  BY <1>5 DEF ReadFails, Enter, Phase
<1>6. ASSUME NEW c \in Connections, Unregister(c) PROVE HubTypeOK'
  BY <1>6 DEF Unregister, Enter, Phase
<1>7. ASSUME NEW c \in Connections, Write(c) PROVE HubTypeOK'
  BY <1>7 DEF Write, Phase
<1>8. ASSUME NEW c \in Connections, NEW g \in Channels, RestoreSub(c, g) PROVE HubTypeOK'
  BY <1>8 DEF RestoreSub, Enter, Phase, Subscribed
<1>9. ASSUME NEW c \in Connections, NEW g \in Channels, Subscribe(c, g) PROVE HubTypeOK'
  BY <1>9 DEF Subscribe, Enter, Phase, Subscribed
<1>10. CASE Broadcast
  BY <1>10 DEF Broadcast
<1>11. CASE UNCHANGED hubVars
  BY <1>11 DEF hubVars
<1>12. QED
  BY <1>1, <1>2, <1>3, <1>4, <1>5, <1>6, <1>7, <1>8, <1>9, <1>10, <1>11 DEF HubNext

LEMMA HubStep == HubInv /\ [HubNext]_hubVars => HubInv'
<1> SUFFICES ASSUME HubInv, [HubNext]_hubVars PROVE HubInv'
  OBVIOUS
<1>0. HubTypeOK /\ HubTypeOK'
  BY HubTypeStep DEF HubInv
<1>t. /\ socket \in [Connections -> Socket]
      /\ gameSub \in [Channels -> SUBSET Connections]
      /\ userSubs \in [Viewers -> SUBSET Channels]
      /\ asked \in [Connections -> SUBSET Channels]
      /\ \A c \in Connections : socket[c].at \in Phases /\ socket[c].games \in SUBSET Channels
  BY <1>0 DEF HubTypeOK, Socket
<1> USE DEF HubInv, ConnectionHasItsGames, WritesReachOpenConnections, Phase, LockFree
<1>1. ASSUME NEW d \in Connections, NEW u \in Viewers, Connect(d, u) PROVE HubInv'
  <2>1. \A c \in Connections : Served(c)' = Served(c)
    BY <1>1 DEF Connect, Served
  <2>2. \A c \in Connections : c # d => socket'[c] = socket[c]
    BY <1>1, <1>t DEF Connect
  <2>3. socket'[d].at = "registered"
    BY <1>1, <1>t DEF Connect
  <2>4. QED
    BY <1>0, <1>1, <2>1, <2>2, <2>3 DEF Connect
<1>2. ASSUME NEW d \in Connections, CopySubs(d) PROVE HubInv'
  <2>1. \A c \in Connections : Served(c)' = Served(c)
    BY <1>2 DEF CopySubs, Served
  <2>2. \A c \in Connections : c # d => socket'[c] = socket[c] /\ asked'[c] = asked[c]
    BY <1>2, <1>t DEF CopySubs, Enter
  <2>3. socket'[d].at = "restore" /\ socket'[d].games = asked'[d]
    BY <1>2, <1>t DEF CopySubs, Enter
  <2>4. QED
    BY <1>0, <1>2, <2>1, <2>2, <2>3 DEF CopySubs
<1>3. ASSUME NEW d \in Connections, ReadLoop(d) PROVE HubInv'
  <2>1. \A c \in Connections : Served(c)' = Served(c)
    BY <1>3 DEF ReadLoop, Served
  <2>2. \A c \in Connections : c # d => socket'[c] = socket[c]
    BY <1>3, <1>t DEF ReadLoop, Enter
  <2>3. socket'[d].at = "read" /\ socket[d].games = {}
    BY <1>3, <1>t DEF ReadLoop, Enter
  <2>4. QED
    BY <1>0, <1>3, <2>1, <2>2, <2>3 DEF ReadLoop
<1>4. ASSUME NEW d \in Connections, TrackUserSub(d) PROVE HubInv'
  <2>1. \A c \in Connections : Served(c)' = Served(c)
    BY <1>4 DEF TrackUserSub, Served
  <2>2. \A c \in Connections : c # d => socket'[c] = socket[c]
    BY <1>4, <1>t DEF TrackUserSub, Enter
  <2>3. socket'[d].at = "read"
    BY <1>4, <1>t DEF TrackUserSub, Enter
  <2>4. QED
    BY <1>0, <1>4, <2>1, <2>2, <2>3 DEF TrackUserSub
<1>5. ASSUME NEW d \in Connections, ReadFails(d) PROVE HubInv'
  <2>1. \A c \in Connections : Served(c)' = Served(c)
    BY <1>5 DEF ReadFails, Served
  <2>2. \A c \in Connections : c # d => socket'[c] = socket[c]
    BY <1>5, <1>t DEF ReadFails, Enter
  <2>3. socket'[d].at = "leaving"
    BY <1>5, <1>t DEF ReadFails, Enter
  <2>4. QED
    BY <1>0, <1>5, <2>1, <2>2, <2>3 DEF ReadFails
<1>6. ASSUME NEW d \in Connections, Unregister(d) PROVE HubInv'
  <2>1. \A c \in Connections : c # d => Served(c)' = Served(c)
    BY <1>6, <1>t DEF Unregister, Served
  <2>2. Served(d)' = {}
    BY <1>6, <1>t DEF Unregister, Served
  <2>3. \A c \in Connections : c # d => socket'[c] = socket[c]
    BY <1>6, <1>t DEF Unregister, Enter
  <2>4. socket'[d].at = "closed"
    BY <1>6, <1>t DEF Unregister, Enter
  <2>5. QED
    BY <1>0, <1>6, <2>1, <2>2, <2>3, <2>4 DEF Unregister
<1>7. ASSUME NEW d \in Connections, Write(d) PROVE HubInv'
  <2>1. \A c \in Connections : Served(c)' = Served(c)
    BY <1>7 DEF Write, Served
  <2>2. ~Phase(d, "closed")
    BY <1>7 DEF Write
  <2>3. QED
    BY <1>0, <1>7, <2>1, <2>2 DEF Write
<1>8. ASSUME NEW d \in Connections, NEW g \in Channels, RestoreSub(d, g) PROVE HubInv'
  <2>1. /\ Served(d)' = Served(d) \cup {g}
        /\ \A c \in Connections : c # d => Served(c)' = Served(c)
    BY <1>8, <1>t, SubscribedServes DEF RestoreSub
  <2>2. \A c \in Connections : c # d => socket'[c] = socket[c]
    BY <1>8, <1>t DEF RestoreSub, Enter
  <2>3. socket'[d].at = "restore" /\ socket'[d].games = socket[d].games \ {g} /\ g \in asked[d]
    BY <1>8, <1>t DEF RestoreSub, Enter
  <2>4. QED
    BY <1>0, <1>8, <2>1, <2>2, <2>3 DEF RestoreSub
<1>9. ASSUME NEW d \in Connections, NEW g \in Channels, Subscribe(d, g) PROVE HubInv'
  <2>1. /\ Served(d)' = Served(d) \cup {g}
        /\ \A c \in Connections : c # d => Served(c)' = Served(c)
    BY <1>9, <1>t, SubscribedServes DEF Subscribe
  <2>2. \A c \in Connections : c # d => socket'[c] = socket[c] /\ asked'[c] = asked[c]
    BY <1>9, <1>t DEF Subscribe, Enter
  <2>3. socket'[d].at = "track" /\ asked'[d] = asked[d] \cup {g}
    BY <1>9, <1>t DEF Subscribe, Enter
  <2>4. QED
    BY <1>0, <1>9, <2>1, <2>2, <2>3 DEF Subscribe
<1>10. CASE Broadcast
  <2>1. \A c \in Connections : Served(c)' = Served(c)
    BY <1>10 DEF Broadcast, Served
  <2>2. \A c \in Connections, g \in Channels : c \in gameSub[g] => c \in clients
    BY <1>t DEF Served, Phases
  <2>3. QED
    BY <1>0, <1>10, <1>t, <2>1, <2>2 DEF Broadcast
<1>11. CASE UNCHANGED hubVars
  <2>1. \A c \in Connections : Served(c)' = Served(c)
    BY <1>11 DEF hubVars, Served
  <2>2. QED
    BY <1>0, <1>11, <2>1 DEF hubVars
<1>12. QED
  BY <1>1, <1>2, <1>3, <1>4, <1>5, <1>6, <1>7, <1>8, <1>9, <1>10, <1>11 DEF HubNext

LEMMA HubAlways == HubSpec => []HubInv
<1>1. QED
  BY HubStarts, HubStep, PTL DEF HubSpec

\* Every variable of the hub stays within its type, for any connections, users
\* and games.
THEOREM HubTypeCorrect == HubSpec => []HubTypeOK
<1>1. HubInv => HubTypeOK
  BY DEF HubInv
<1>2. QED
  BY <1>1, HubAlways, PTL

\* Connections that read are subscribed to exactly their games, and those that
\* ended to none (ws.go: Register, RestoreSubs, Subscribe, Unregister).
THEOREM ConnectionsHaveTheirGames == HubSpec => []ConnectionHasItsGames
<1>1. HubInv => ConnectionHasItsGames
  BY DEF HubInv
<1>2. QED
  BY <1>1, HubAlways, PTL

\* A broadcast writes to no connection its handler has closed, because the
\* handler needs the write lock of the hub before it closes.
THEOREM WritesReachOpen == HubSpec => []WritesReachOpenConnections
<1>1. HubInv => WritesReachOpenConnections
  BY DEF HubInv
<1>2. QED
  BY <1>1, HubAlways, PTL
=============================================================================
