------------------------ MODULE AccountsTablesProofs ------------------------
(***************************************************************************)
(* The tables of Accounts, for every value of its constants: what the keys *)
(* and the transactions promise holds whatever requests overlap, and what  *)
(* overlapping sign-ins and refreshes may do to the sessions of a user.    *)
(***************************************************************************)
EXTENDS AccountsSafetyProofs

-----------------------------------------------------------------------------
(* The inductive invariant: NoOrphanRows, and that an identifier in use was   *)
(* given by the sequence, also the one an assignment may insert again.        *)

BornFirst ==
    /\ \A u \in Users : account[u] # Gone => u \in born
    /\ \A p \in Procs : pc[p] \in AssignSteps => whom[p] \in born

TablesInv == NoOrphanRows /\ BornFirst

\* An account that was not there: an assignment inserted it again, or it was
\* created, and its login data with it.
Appears(u) ==
    account'[u] # Gone =>
        \/ account[u] # Gone
        \/ u \in born
        \/ u \in born' /\ login'[u] # Gone

Typed ==
    /\ account \in [Users -> Account \cup {Gone}]
    /\ login \in [Users -> Login \cup {Gone}]
    /\ role \in [RoleIds -> RoleNames \cup {Gone}]

LEMMA IsTyped ==
    ASSUME TypeInv
    PROVE  Typed
  BY DEF TypeInv, TableTypes, Typed

Result == NoOrphanRows' /\ born \subseteq born' /\ \A u \in Users : Appears(u)

LEMMA QuietResult ==
    ASSUME TablesInv, UNCHANGED tableVars
    PROVE  Result
  BY DEF TablesInv, NoOrphanRows, Result, Appears, tableVars

\* Rows of user_login_data keep their address or go, tokens are of users that
\* have one.
LEMMA RowsResult ==
    ASSUME TablesInv, UNCHANGED <<account, role, permission, born>>,
           \A u \in Users : login'[u] # Gone =>
              login[u] # Gone /\ login'[u].email = login[u].email,
           \A t \in tokens' : t.user \in Users => account[t.user] # Gone
    PROVE  Result
  <1>1. \A u \in Users : account[u] = Gone => login'[u] = Gone /\ \A t \in tokens' : t.user # u
    BY DEF TablesInv, NoOrphanRows
  <1>2. \A u \in Users : account[u] # Gone => /\ role[account[u].role] # Gone
                                              /\ account[u].permissions \subseteq permission
    BY DEF TablesInv, NoOrphanRows
  <1>3. \A u, v \in Users :
           login'[u] # Gone /\ login'[v] # Gone /\ login'[u].email = login'[v].email => u = v
    BY DEF TablesInv, NoOrphanRows
  <1>4. QED
    BY <1>1, <1>2, <1>3 DEF NoOrphanRows, Result, Appears

\* One row of user_login_data, with an address nobody else has.
LEMMA AddressResult ==
    ASSUME TypeInv, TablesInv, NEW v \in Users, NEW row, account[v] # Gone,
           EmailFree(row.email, v), login' = [login EXCEPT ![v] = row],
           UNCHANGED <<account, tokens, role, permission, born>>
    PROVE  Result
  <1>1. login \in [Users -> Login \cup {Gone}]
    BY IsTyped DEF Typed
  <1>2. \A u \in Users : u # v => login'[u] = login[u]
    BY <1>1
  <1>3. login'[v] = row
    BY <1>1
  <1>4. \A u \in Users : u # v /\ login[u] # Gone => login[u].email # row.email
    BY DEF EmailFree, ByEmail
  <1>5. \A u, w \in Users :
           login'[u] # Gone /\ login'[w] # Gone /\ login'[u].email = login'[w].email => u = w
    BY <1>2, <1>3, <1>4 DEF TablesInv, NoOrphanRows
  <1>6. \A u \in Users : account[u] = Gone => login'[u] = Gone /\ \A t \in tokens : t.user # u
    BY <1>2 DEF TablesInv, NoOrphanRows
  <1>7. \A u \in Users : account[u] # Gone => /\ role[account[u].role] # Gone
                                              /\ account[u].permissions \subseteq permission
    BY DEF TablesInv, NoOrphanRows
  <1>8. QED
    BY <1>5, <1>6, <1>7 DEF NoOrphanRows, Result, Appears

\* One account, whose role is there and whose permissions are.
LEMMA AccountResult ==
    ASSUME TypeInv, TablesInv, NEW v \in Users, NEW row, account' = [account EXCEPT ![v] = row],
           row # Gone, role[row.role] # Gone, row.permissions \subseteq permission,
           account[v] # Gone \/ v \in born,
           UNCHANGED <<login, tokens, role, permission, born>>
    PROVE  Result
  <1>1. account \in [Users -> Account \cup {Gone}]
    BY IsTyped DEF Typed
  <1>2. \A u \in Users : account'[u] = IF u = v THEN row ELSE account[u]
    BY <1>1
  <1>3. \A u \in Users : account'[u] = Gone => login[u] = Gone /\ \A t \in tokens : t.user # u
    BY <1>2 DEF TablesInv, NoOrphanRows
  <1>4. \A u \in Users : account'[u] # Gone => /\ role[account'[u].role] # Gone
                                               /\ account'[u].permissions \subseteq permission
    BY <1>2 DEF TablesInv, NoOrphanRows
  <1>5. \A u, w \in Users :
           login[u] # Gone /\ login[w] # Gone /\ login[u].email = login[w].email => u = w
    BY DEF TablesInv, NoOrphanRows
  <1>6. \A u \in Users : Appears(u)
    BY <1>2 DEF Appears
  <1>7. QED
    BY <1>3, <1>4, <1>5, <1>6 DEF NoOrphanRows, Result

-----------------------------------------------------------------------------
LEMMA SessionResult ==
    ASSUME TypeInv, TablesInv, NEW p \in Procs, Session(p)
    PROVE  Result
  <1> DEFINE v == whom[p]
             coded == [login[v] EXCEPT !.code = mails + 1, !.attempts = 0]
             in == [login[v] EXCEPT !.loginAt = clock]
             on == [login[v] EXCEPT !.activityAt = clock]
  <1>1. login \in [Users -> Login \cup {Gone}] /\ tokens \subseteq Token
    BY DEF TypeInv, TableTypes
  <1>2. \A t \in tokens : t.user \in Users /\ account[t.user] # Gone
    BY <1>1 DEF TablesInv, NoOrphanRows, Token
  <1>3. v \in Users /\ login[v] # Gone =>
           /\ coded.email = login[v].email /\ in.email = login[v].email
           /\ on.email = login[v].email
    BY <1>1 DEF Login
  <1>4. CASE WriteCode(p) \/ StampLogin(p) \/ StampActivity(p)
    <2>1. /\ UNCHANGED <<account, tokens, role, permission, born>>
          /\ \/ login' = login
             \/ /\ login[v] # Gone
                /\ \/ login' = [login EXCEPT ![v] = coded]
                   \/ login' = [login EXCEPT ![v] = in]
                   \/ login' = [login EXCEPT ![v] = on]
      BY <1>4 DEF WriteCode, StampLogin, StampActivity, UpdateLogin
    <2> HIDE DEF coded, in, on, v
    <2>2. \A u \in Users : login'[u] # Gone =>
             login[u] # Gone /\ login'[u].email = login[u].email
      BY <1>1, <1>3, <2>1
    <2>3. QED  BY <1>2, <2>1, <2>2, RowsResult
  <1>5. CASE InsertToken(p) \/ UpdateToken(p) \/ Revoke(p)
    <2>1. /\ UNCHANGED <<account, login, role, permission, born>>
          /\ \A t \in tokens' : \/ \E x \in tokens : t.user = x.user
                                \/ account[t.user] # Gone
      <3>1. CASE InsertToken(p)
        BY <3>1 DEF InsertToken
      <3>2. CASE UpdateToken(p)
        <4>1. \A x \in tokens : [x EXCEPT !.token = signed[p], !.revoked = FALSE].user = x.user
          BY <1>1 DEF Token
        <4>2. QED  BY <3>2, <4>1 DEF UpdateToken, TokensOf
      <3>3. CASE Revoke(p)
        <4>1. \A x \in tokens : [x EXCEPT !.revoked = TRUE].user = x.user
          BY <1>1 DEF Token
        <4>2. QED  BY <3>3, <4>1 DEF Revoke
      <3>4. QED  BY <1>5, <3>1, <3>2, <3>3
    <2>2. QED  BY <1>2, <2>1, RowsResult
  <1>6. CASE \/ Verify(p) \/ VerifyFails(p) \/ CodeAccepted(p) \/ CodeWrong(p) \/ CodeLocked(p)
             \/ CodeUnknown(p) \/ ReadToken(p) \/ ReadTokenFails(p) \/ FindToken(p)
             \/ InsertTokenFails(p)
    BY <1>6, QuietResult DEF Verify, VerifyFails, CodeAccepted, CodeWrong, CodeLocked,
       CodeUnknown, ReadToken, ReadTokenFails, FindToken, InsertTokenFails
  <1>7. QED  BY <1>4, <1>5, <1>6 DEF Session

LEMMA MailedResult ==
    ASSUME TypeInv, TablesInv, NEW p \in Procs, Mailed(p)
    PROVE  Result
  <1> DEFINE v == whom[p]
             recovered == [login[v] EXCEPT !.recovery = mails + 1, !.recoveryAt = clock]
             confirmed == [login[v] EXCEPT !.confirmation = mails + 1]
             changed == [login[v] EXCEPT !.password = req[p].arg.password, !.recovery = 0,
                                         !.recoveryAt = Never]
             known == [login[v] EXCEPT !.confirmed = TRUE, !.confirmation = 0]
  <1>1. login \in [Users -> Login \cup {Gone}] /\ tokens \subseteq Token
    BY DEF TypeInv, TableTypes
  <1>2. \A t \in tokens : t.user \in Users /\ account[t.user] # Gone
    BY <1>1 DEF TablesInv, NoOrphanRows, Token
  <1>3. v \in Users /\ login[v] # Gone =>
           /\ recovered.email = login[v].email /\ confirmed.email = login[v].email
           /\ changed.email = login[v].email /\ known.email = login[v].email
    BY <1>1 DEF Login
  <1>4. CASE \/ WriteRecovery(p) \/ WriteConfirmation(p) \/ RedeemRecovery(p)
             \/ RedeemConfirmation(p)
    <2>1. /\ UNCHANGED <<account, tokens, role, permission, born>>
          /\ \/ login' = login
             \/ /\ login[v] # Gone
                /\ \/ login' = [login EXCEPT ![v] = recovered]
                   \/ login' = [login EXCEPT ![v] = confirmed]
                   \/ login' = [login EXCEPT ![v] = changed]
                   \/ login' = [login EXCEPT ![v] = known]
      BY <1>4 DEF WriteRecovery, WriteConfirmation, RedeemRecovery, RedeemConfirmation, Redeem,
         UpdateLogin
    <2> HIDE DEF recovered, confirmed, changed, known, v
    <2>2. \A u \in Users : login'[u] # Gone =>
             login[u] # Gone /\ login'[u].email = login[u].email
      BY <1>1, <1>3, <2>1
    <2>3. QED  BY <1>2, <2>1, <2>2, RowsResult
  <1>5. CASE ReadAddress(p) \/ ReadAddressFails(p) \/ ReadRecovery(p) \/ ReadConfirmation(p)
             \/ MailedTokenRefused(p)
    BY <1>5, QuietResult DEF ReadAddress, ReadAddressFails, ReadRecovery, ReadConfirmation,
       MailedTokenRefused
  <1>6. QED  BY <1>4, <1>5 DEF Mailed

LEMMA CreateResult ==
    ASSUME TypeInv, TablesInv, NEW p \in Procs, InsertUser(p)
    PROVE  Result
  <1> DEFINE e == Lower[req[p].arg.email]
             r == diff[p].roleOf
             new == [role |-> r, permissions |-> {}, profile |-> 0]
             data == NewLogin(e, req[p].arg.password, req[p].arg.confirmed)
  <1>1. Typed  BY IsTyped
  <1>2. /\ e \in Emails /\ req[p].arg.password \in Passwords
        /\ req[p].arg.confirmed \in BOOLEAN /\ r \in RoleIds
    BY ConstantsAssumption DEF InsertUser, TypeInv, Holds, Request, Argument
  <1>3. /\ data \in Login /\ data # Gone /\ data.email = e
        /\ new \in Account /\ new # Gone /\ new.role = r /\ new.permissions = {}
    BY <1>2, NewLoginType, ConstantsAssumption DEF NewLogin, Account
  <1> HIDE DEF new, data
  <1>4. PICK v \in NextOf(Users) :
           /\ born' = born \cup {v}
           /\ \/ /\ EmailFree(e, v) /\ role[r] # Gone
                 /\ account' = [account EXCEPT ![v] = new] /\ login' = [login EXCEPT ![v] = data]
              \/ UNCHANGED <<account, login>>
    BY DEF InsertUser, new, data
  <1>5. v \in Users /\ UNCHANGED <<tokens, role, permission>>
    BY <1>4 DEF NextOf, InsertUser
  <1>6. CASE UNCHANGED <<account, login>>
    BY <1>4, <1>5, <1>6 DEF TablesInv, NoOrphanRows, Result, Appears
  <1>7. CASE /\ EmailFree(e, v) /\ role[r] # Gone
             /\ account' = [account EXCEPT ![v] = new] /\ login' = [login EXCEPT ![v] = data]
    <2>1. \A u \in Users : /\ account'[u] = IF u = v THEN new ELSE account[u]
                           /\ login'[u] = IF u = v THEN data ELSE login[u]
      BY <1>1, <1>5, <1>7 DEF Typed
    <2>2. \A u \in Users : account'[u] = Gone => login'[u] = Gone /\ \A t \in tokens : t.user # u
      BY <1>3, <2>1 DEF TablesInv, NoOrphanRows
    <2>3. \A u \in Users : account'[u] # Gone => /\ role[account'[u].role] # Gone
                                                 /\ account'[u].permissions \subseteq permission
      BY <1>3, <1>7, <2>1 DEF TablesInv, NoOrphanRows
    <2>4. \A u \in Users : u # v /\ login[u] # Gone => login[u].email # e
      BY <1>7 DEF EmailFree, ByEmail
    <2>5. \A u, w \in Users :
             login'[u] # Gone /\ login'[w] # Gone /\ login'[u].email = login'[w].email => u = w
      BY <1>3, <2>1, <2>4 DEF TablesInv, NoOrphanRows
    <2>6. \A u \in Users : Appears(u)
      BY <1>3, <1>4, <2>1 DEF Appears
    <2>7. QED
      BY <1>4, <1>5, <2>2, <2>3, <2>5, <2>6 DEF NoOrphanRows, Result
  <1>8. QED  BY <1>4, <1>6, <1>7

LEMMA AdministerResult ==
    ASSUME TypeInv, TablesInv, NEW p \in Procs, Administer(p)
    PROVE  Result
  <1> DEFINE v == whom[p]
             arg == req[p].arg
  <1>1. /\ account \in [Users -> Account \cup {Gone}]
        /\ login \in [Users -> Login \cup {Gone}] /\ tokens \subseteq Token
    BY DEF TypeInv, TableTypes
  <1>2. \A t \in tokens : t.user \in Users /\ account[t.user] # Gone
    BY <1>1 DEF TablesInv, NoOrphanRows, Token
  <1>3. pc[p] # "idle" => /\ arg.email \in Emails /\ Lower[arg.email] \in Emails
                          /\ arg.profile \in Nat /\ arg.role \in RoleIds
    BY ConstantsAssumption DEF TypeInv, Holds, Request, Argument
  <1>4. CASE FindRole(p) \/ FindRoleFails(p) \/ ReadOwn(p) \/ UpdateUser(p)
    BY <1>4, QuietResult DEF FindRole, FindRoleFails, ReadOwn, UpdateUser
  <1>5. CASE InsertUser(p)
    BY <1>5, CreateResult
  <1>6. CASE Deactivate(p) \/ DeleteLogin(p)
    <2> DEFINE row == [login[v] EXCEPT !.status = "DEACTIVATED"]
    <2>1. v \in Users /\ login[v] # Gone => row.email = login[v].email
      BY <1>1 DEF Login
    <2>2. /\ UNCHANGED <<account, tokens, role, permission, born>>
          /\ \/ login' = login
             \/ login[v] # Gone /\ login' = [login EXCEPT ![v] = row]
             \/ login' = [login EXCEPT ![v] = Gone]
      BY <1>6 DEF Deactivate, DeleteLogin, LastOnLogin
    <2> HIDE DEF row
    <2>3. \A u \in Users : login'[u] # Gone =>
             login[u] # Gone /\ login'[u].email = login[u].email
      BY <1>1, <2>1, <2>2
    <2>4. QED  BY <1>2, <2>2, <2>3, RowsResult
  <1>7. CASE UpdateProfile(p)
    <2> DEFINE row == Patched(v, arg)
    <2>1. /\ UNCHANGED <<login, tokens, role, permission, born>>
          /\ \/ account' = account
             \/ RoleFound(arg) /\ account' = [account EXCEPT ![v] = row]
      BY <1>7 DEF UpdateProfile, LastOnAccount
    <2>2. CASE account' = account \/ v \notin Users \/ account[v] = Gone
      <3>1. account' = account
        BY <1>1, <2>1, <2>2 DEF Patched
      <3>2. QED  BY <2>1, <3>1, QuietResult DEF tableVars
    <2>3. CASE /\ v \in Users /\ account[v] # Gone
               /\ RoleFound(arg) /\ account' = [account EXCEPT ![v] = row]
      <3>1. account[v] \in Account  BY <1>1, <2>3
      <3>2. /\ row \in Account
            /\ row.role = IF arg.withRole THEN arg.role ELSE account[v].role
            /\ row.permissions = account[v].permissions
        BY <1>3, <1>7, <2>3, <3>1 DEF Patched, Account, UpdateProfile
      <3>3. /\ row # Gone /\ role[row.role] # Gone /\ row.permissions \subseteq permission
        BY <2>3, <3>2, ConstantsAssumption DEF RoleFound, TablesInv, NoOrphanRows
      <3> HIDE DEF row, v
      <3>4. QED  BY <2>1, <2>3, <3>3, AccountResult
    <2>4. QED  BY <2>1, <2>2, <2>3
  <1>8. CASE UpdateLoginRow(p)
    <2> DEFINE row == Retyped(v, arg)
    <2>1. /\ UNCHANGED <<account, tokens, role, permission, born>>
          /\ \/ login' = login
             \/ EmailFree(arg.email, v) /\ login' = [login EXCEPT ![v] = row]
      BY <1>8 DEF UpdateLoginRow, LastOnLogin
    <2>2. CASE login' = login \/ v \notin Users \/ login[v] = Gone
      <3>1. login' = login
        BY <1>1, <2>1, <2>2 DEF Retyped
      <3>2. QED  BY <2>1, <3>1, QuietResult DEF tableVars
    <2>3. CASE /\ v \in Users /\ login[v] # Gone
               /\ EmailFree(arg.email, v) /\ login' = [login EXCEPT ![v] = row]
      <3>1. login[v] \in Login /\ account[v] # Gone
        BY <1>1, <2>3 DEF TablesInv, NoOrphanRows
      <3>2. row.email = arg.email
        BY <2>3, <3>1 DEF Retyped, Login
      <3> HIDE DEF row, v
      <3>3. QED  BY <2>1, <2>3, <3>1, <3>2, AddressResult
    <2>4. QED  BY <2>1, <2>2, <2>3
  <1>9. CASE SaveLogin(p)
    <2> DEFINE e == Lower[arg.email]
               row == IF login[v] # Gone
                         THEN [login[v] EXCEPT !.email = e, !.password = Unhashed]
                         ELSE NewLogin(e, Unhashed, FALSE)
    <2>1. /\ UNCHANGED <<account, tokens, role, permission, born>>
          /\ \/ login' = login
             \/ EmailFree(e, v) /\ account[v] # Gone /\ login' = [login EXCEPT ![v] = row]
      BY <1>9 DEF SaveLogin, LastOnLogin
    <2>2. CASE login' = login \/ v \notin Users
      <3> HIDE DEF row, v, e
      <3>1. login' = login  BY <1>1, <2>1, <2>2
      <3>2. QED  BY <2>1, <3>1, QuietResult DEF tableVars
    <2>3. CASE /\ v \in Users /\ EmailFree(e, v) /\ account[v] # Gone
               /\ login' = [login EXCEPT ![v] = row]
      <3>1. row.email = e
        <4>1. CASE login[v] # Gone
          BY <1>1, <2>3, <4>1 DEF Login
        <4>2. CASE login[v] = Gone
          BY <4>2 DEF NewLogin
        <4>3. QED  BY <4>1, <4>2
      <3> HIDE DEF row, v, e
      <3>2. QED  BY <2>1, <2>3, <3>1, AddressResult
    <2>4. QED  BY <2>1, <2>2, <2>3
  <1>10. CASE DeleteUser(p)
    <2>1. /\ UNCHANGED <<tokens, role, permission, born>>
          /\ \/ UNCHANGED <<account, login>>
             \/ /\ \A t \in tokens : t.user # v
                /\ account' = [account EXCEPT ![v] = Gone] /\ login' = [login EXCEPT ![v] = Gone]
      BY <1>10 DEF DeleteUser
    <2>2. CASE UNCHANGED <<account, login>>
      BY <2>1, <2>2, QuietResult DEF tableVars
    <2>3. CASE /\ \A t \in tokens : t.user # v
               /\ account' = [account EXCEPT ![v] = Gone] /\ login' = [login EXCEPT ![v] = Gone]
      <3>1. \A u \in Users : /\ account'[u] = IF u = v THEN Gone ELSE account[u]
                             /\ login'[u] = IF u = v THEN Gone ELSE login[u]
        BY <1>1, <2>3
      <3>2. NoOrphanRows'
        BY <2>1, <2>3, <3>1 DEF TablesInv, NoOrphanRows
      <3>3. \A u \in Users : Appears(u)
        BY <3>1 DEF Appears
      <3>4. QED  BY <2>1, <3>2, <3>3 DEF Result
    <2>4. QED  BY <2>1, <2>2, <2>3
  <1>11. QED
    BY <1>4, <1>5, <1>6, <1>7, <1>8, <1>9, <1>10 DEF Administer

\* Roles come, go or change their name, but not those accounts have.
LEMMA RolesResult ==
    ASSUME TablesInv, UNCHANGED <<account, login, tokens, permission>>, born \subseteq born',
           \A u \in Users : account[u] # Gone => role'[account[u].role] # Gone
    PROVE  Result
  <1>1. \A u \in Users : account[u] # Gone => account[u].permissions \subseteq permission
    BY DEF TablesInv, NoOrphanRows
  <1>2. QED
    BY <1>1 DEF TablesInv, NoOrphanRows, Result, Appears

LEMMA AssignResult ==
    ASSUME TypeInv, TablesInv, NEW p \in Procs, Assign(p)
    PROVE  Result
  <1> DEFINE v == whom[p]
             arg == req[p].arg
  <1>1. /\ account \in [Users -> Account \cup {Gone}]
        /\ role \in [RoleIds -> RoleNames \cup {Gone}]
    BY DEF TypeInv, TableTypes
  <1>2. pc[p] # "idle" => arg.name \in RoleNames
    BY DEF TypeInv, Holds, Request, Argument
  <1>3. \A u \in Users : account[u] # Gone =>
           account[u].role \in RoleIds /\ role[account[u].role] # Gone
    BY <1>1 DEF TablesInv, NoOrphanRows, Account
  <1>4. CASE ReadAccount(p) \/ ReadAssigned(p) \/ SelectForSave(p) \/ AssignmentBreaks(p)
    BY <1>4, QuietResult DEF ReadAccount, ReadAssigned, SelectForSave, AssignmentBreaks, Ends
  <1>5. CASE InsertRole(p) \/ UpdateRole(p)
    <2>1. arg.name # Gone
      BY <1>2, <1>5, ConstantsAssumption DEF InsertRole, UpdateRole
    <2>2. /\ UNCHANGED <<account, login, tokens, permission>> /\ born \subseteq born'
          /\ role' = role \/ \E r \in RoleIds \cup {arg.role} : role' = [role EXCEPT ![r] = arg.name]
      BY <1>5 DEF InsertRole, UpdateRole, LastOnRole, NextOf
    <2> HIDE DEF arg
    <2>3. \A u \in Users : account[u] # Gone => role'[account[u].role] # Gone
      BY <1>1, <1>3, <2>1, <2>2
    <2>4. QED  BY <2>2, <2>3, RolesResult
  <1>6. CASE DeleteRole(p)
    <2>1. /\ UNCHANGED <<account, login, tokens, permission>> /\ born \subseteq born'
          /\ \/ role' = role
             \/ /\ \A u \in Users : account[u] # Gone => account[u].role # arg.role
                /\ role' = [role EXCEPT ![arg.role] = Gone]
      BY <1>6 DEF DeleteRole, LastOnRole
    <2>2. \A u \in Users : account[u] # Gone => role'[account[u].role] # Gone
      BY <1>1, <1>3, <2>1
    <2>3. QED  BY <2>1, <2>2, RolesResult
  <1>7. CASE InsertPermission(p)
    <2>1. /\ UNCHANGED <<account, login, tokens, role>> /\ born \subseteq born'
          /\ permission \subseteq permission'
      BY <1>7 DEF InsertPermission
    <2>2. QED  BY <2>1 DEF TablesInv, NoOrphanRows, Result, Appears
  <1>8. CASE DeletePermission(p)
    <2> DEFINE n == arg.permission
               row(u) == [account[u] EXCEPT !.permissions = account[u].permissions \ {n}]
    <2>1. /\ UNCHANGED <<login, tokens, role, born>>
          /\ \/ UNCHANGED <<account, permission>>
             \/ /\ permission' = permission \ {n}
                /\ account' = [u \in Users |-> IF account[u] = Gone THEN Gone ELSE row(u)]
      BY <1>8 DEF DeletePermission
    <2>2. CASE UNCHANGED <<account, permission>>
      BY <2>1, <2>2, QuietResult DEF tableVars
    <2>3. CASE /\ permission' = permission \ {n}
               /\ account' = [u \in Users |-> IF account[u] = Gone THEN Gone ELSE row(u)]
      <3>1. \A u \in Users : account[u] # Gone =>
               /\ row(u) \in Account
               /\ row(u).role = account[u].role
               /\ row(u).permissions = account[u].permissions \ {n}
        BY <1>1 DEF Account
      <3>2. \A u \in Users : account[u] # Gone => row(u) # Gone
        BY <3>1, ConstantsAssumption
      <3> HIDE DEF row, n
      <3>3. \A u \in Users : /\ account'[u] = Gone <=> account[u] = Gone
                             /\ account[u] # Gone => account'[u] = row(u)
        BY <2>3, <3>2
      <3>4. \A u \in Users : account[u] # Gone => account[u].permissions \subseteq permission
        BY DEF TablesInv, NoOrphanRows
      <3>5. \A u \in Users : account'[u] # Gone => /\ role[account'[u].role] # Gone
                                                   /\ account'[u].permissions \subseteq permission'
        BY <1>3, <2>3, <3>1, <3>3, <3>4
      <3>6. \A u \in Users : account'[u] = Gone => login[u] = Gone /\ \A t \in tokens : t.user # u
        BY <3>3 DEF TablesInv, NoOrphanRows
      <3>7. \A u, w \in Users :
               login[u] # Gone /\ login[w] # Gone /\ login[u].email = login[w].email => u = w
        BY DEF TablesInv, NoOrphanRows
      <3>8. QED
        BY <2>1, <3>3, <3>5, <3>6, <3>7 DEF NoOrphanRows, Result, Appears
    <2>4. QED  BY <2>1, <2>2, <2>3
  <1>9. CASE Save(p)
    <2> DEFINE lost == ~diff[p].insert /\ account[v] = Gone
    <2>1. /\ v \in Users /\ entity[p] \in Account /\ diff[p] \in Diff /\ v \in born
          /\ UNCHANGED <<login, tokens, role, permission, born>>
      BY <1>9 DEF Save, LastOnAccount, UserSteps, TypeInv, RequestTypes, Holds, TablesInv,
         BornFirst, AssignSteps
    <2>2. PICK r \in IF lost THEN {diff[p].roleOf} ELSE RolesToWrite(p) :
             /\ ~SaveBreaks(p, r)
             /\ account' = IF lost THEN account
                   ELSE [account EXCEPT ![v] = SavedAccount(entity[p], account[v], diff[p], r)]
      BY <1>9 DEF Save, LastOnAccount
    <2>3. r \in RoleIds
      BY <1>9, <2>1, <2>2 DEF RolesToWrite, Account, Save, TypeInv, Holds
    <2>4. CASE lost
      BY <2>1, <2>2, <2>4, QuietResult DEF tableVars
    <2>5. CASE ~lost
      <3> DEFINE row == SavedAccount(entity[p], account[v], diff[p], r)
      <3>1. row \in Account
        <4>1. diff[p].add \subseteq PermissionIds /\ entity[p].profile \in Nat
          BY <2>1 DEF Diff, Account
        <4>2. CASE diff[p].insert
          BY <2>3, <4>1, <4>2 DEF SavedAccount, Account
        <4>3. CASE ~diff[p].insert /\ account[v] # Gone
          <5>1. account[v] \in Account  BY <1>1, <2>1, <4>3
          <5>2. QED  BY <2>3, <4>1, <4>3, <5>1 DEF SavedAccount, Account
        <4>4. QED  BY <2>5, <4>2, <4>3
      <3>2. row.role = IF diff[p].insert \/ "role" \in diff[p].columns
                          THEN r ELSE account[v].role
        BY DEF SavedAccount
      <3>3. row.permissions = ((IF diff[p].insert THEN {} ELSE account[v].permissions)
                                 \ diff[p].remove) \cup diff[p].add
        BY DEF SavedAccount
      <3>4. diff[p].add \subseteq permission
        BY <2>2 DEF SaveBreaks
      <3>5. (diff[p].insert \/ "role" \in diff[p].columns) => role[r] # Gone
        BY <2>2 DEF SaveBreaks
      <3>6. ~diff[p].insert => /\ role[account[v].role] # Gone
                               /\ account[v].permissions \subseteq permission
        BY <2>1, <2>5 DEF TablesInv, NoOrphanRows
      <3>7. account' = [account EXCEPT ![v] = row]
        BY <2>2, <2>5
      <3> HIDE DEF row, v
      <3>8. row # Gone /\ role[row.role] # Gone /\ row.permissions \subseteq permission
        BY <3>1, <3>2, <3>3, <3>4, <3>5, <3>6, ConstantsAssumption
      <3>9. QED  BY <2>1, <3>7, <3>8, AccountResult
    <2>6. QED  BY <2>4, <2>5
  <1>10. QED
    BY <1>4, <1>5, <1>6, <1>7, <1>8, <1>9 DEF Assign

LEMMA WorldResult ==
    ASSUME TypeInv, TablesInv,
           (\E w \in background : WriteInBackground(w)) \/ (\E j \in Jobs : Job(j))
    PROVE  Result
  <1>1. login \in [Users -> Login \cup {Gone}] /\ tokens \subseteq Token
    BY DEF TypeInv, TableTypes
  <1>2. \A t \in tokens : t.user \in Users /\ account[t.user] # Gone
    BY <1>1 DEF TablesInv, NoOrphanRows, Token
  <1>3. CASE \E w \in background : WriteInBackground(w)
    <2>1. PICK w \in background : WriteInBackground(w)  BY <1>3
    <2> DEFINE u == w.user
               new == [login[u] EXCEPT !.attempts = w.attempts,
                                       !.code = IF w.kind = "reset" THEN 0 ELSE login[u].code]
    <2>2. u \in Users
      BY DEF TypeInv, WorldTypes, Write
    <2>3. login[u] # Gone => new.email = login[u].email
      BY <1>1, <2>2 DEF Login
    <2>4. login' = IF login[u] = Gone THEN login ELSE [login EXCEPT ![u] = new]
      BY <2>1 DEF WriteInBackground, UpdateLogin
    <2>5. UNCHANGED <<account, tokens, role, permission, born>>
      BY <2>1 DEF WriteInBackground
    <2> HIDE DEF new, u
    <2>6. \A x \in Users : login'[x] # Gone => login[x] # Gone /\ login'[x].email = login[x].email
      BY <1>1, <2>2, <2>3, <2>4
    <2>7. QED  BY <1>2, <2>5, <2>6, RowsResult
  <1>4. CASE \E j \in Jobs : Job(j)
    <2>1. PICK j \in Jobs : Job(j)  BY <1>4
    <2>2. \A u \in Users : login[u] # Gone =>
             /\ [login[u] EXCEPT !.status = "INACTIVE"].email = login[u].email
             /\ [login[u] EXCEPT !.status = "ACTIVE"].email = login[u].email
      BY <1>1 DEF Login
    <2>3. \/ login' = login
          \/ login' = clearInactiveUsers(login, clock)
          \/ login' = setActiveUsers(login, clock)
      BY <2>1 DEF Job, Jobs
    <2>4. \A u \in Users : login'[u] # Gone => login[u] # Gone /\ login'[u].email = login[u].email
      BY <1>1, <2>2, <2>3 DEF clearInactiveUsers, setActiveUsers
    <2>5. tokens' \subseteq tokens /\ UNCHANGED <<account, role, permission, born>>
      BY <2>1 DEF Job, clearExpiredTokens
    <2>6. QED  BY <1>2, <2>4, <2>5, RowsResult
  <1>5. QED  BY <1>3, <1>4

LEMMA ResultStep ==
    ASSUME TypeInv, TablesInv, [Next]_vars
    PROVE  Result
  <1>1. CASE \E p \in Procs : (\E r \in offered.requests : Start(p, r)) \/ Guard(p)
    BY <1>1, QuietResult DEF Start, Guard
  <1>2. CASE \E p \in Procs : Session(p) \/ Mailed(p) \/ Administer(p) \/ Assign(p)
    BY <1>2, SessionResult, MailedResult, AdministerResult, AssignResult
  <1>3. CASE (\E w \in background : WriteInBackground(w)) \/ (\E j \in Jobs : Job(j))
    BY <1>3, WorldResult
  <1>4. CASE Midnight \/ Tick \/ Crash \/ Terminating \/ UNCHANGED vars
    BY <1>4, QuietResult DEF Midnight, Tick, Crash, Ends, Terminating, vars
  <1>5. QED
    BY <1>1, <1>2, <1>3, <1>4 DEF Next

LEMMA TablesInvStep ==
    ASSUME Paths, TablesInv, [Next]_vars
    PROVE  TablesInv'
  <1>1. Result
    BY ResultStep DEF Paths
  <1>2. \A u \in Users : account'[u] # Gone => u \in born'
    BY <1>1 DEF Result, Appears, TablesInv, BornFirst
  <1>3. ASSUME NEW p \in Procs, pc'[p] \in AssignSteps
        PROVE  whom'[p] \in born'
    <2>1. CASE ReadAccount(p)
      <3>1. whom[p] \in Users /\ account[whom[p]] # Gone /\ whom' = whom
        BY <2>1 DEF ReadAccount, Paths, TypeInv, Holds, UserSteps
      <3>2. QED  BY <1>1, <3>1 DEF TablesInv, BornFirst, Result
    <2>2. CASE pc[p] \in AssignSteps /\ whom'[p] = whom[p]
      BY <1>1, <2>2 DEF TablesInv, BornFirst, Result
    <2>3. QED  BY <1>3, <2>1, <2>2, FollowsStep DEF Follows
  <1>4. QED  BY <1>1, <1>2, <1>3 DEF Result, TablesInv, BornFirst

LEMMA TablesInit == Init => TablesInv
  <1> SUFFICES ASSUME Init  PROVE TablesInv
    OBVIOUS
  <1>1. \A u \in Users : account[u] = Gone => login[u] = Gone /\ \A t \in tokens : t.user # u
    BY ConstantsAssumption DEF Init
  <1>2. \A u \in Users : account[u] # Gone => /\ role[account[u].role] # Gone
                                              /\ account[u].permissions \subseteq permission
    BY InitialAssumption DEF Init
  <1>3. \A u, v \in Users :
           login[u] # Gone /\ login[v] # Gone /\ login[u].email = login[v].email => u = v
    BY InitialAssumption DEF Init
  <1>4. BornFirst
    BY DEF Init, BornFirst, AssignSteps
  <1>5. QED  BY <1>1, <1>2, <1>3, <1>4 DEF TablesInv, NoOrphanRows

LEMMA TablesInvariant == Spec => [](Paths /\ TablesInv)
  <1>1. Paths /\ TablesInv /\ [Next]_vars => TablesInv'
    BY TablesInvStep
  <1>2. QED  BY <1>1, TablesInit, PathsInvariant, PTL DEF Spec

-----------------------------------------------------------------------------
\* Nothing refers to a row that is gone, and no two users have one address,
\* whatever deletions, assignments, sign-ins and registrations overlap.
THEOREM NoOrphans == Spec => []NoOrphanRows
  <1>1. TablesInv => NoOrphanRows
    BY DEF TablesInv
  <1>2. QED  BY <1>1, TablesInvariant, PTL

\* createUser makes the account and its login data in one step, or neither.
THEOREM CreatedTogether == Spec => CreatedWhole
  <1>1. ASSUME Paths, TablesInv, [Next]_vars, NEW u \in Users, u \notin born
        PROVE  account'[u] # Gone <=> login'[u] # Gone
    <2>1. Result
      BY <1>1, ResultStep DEF Paths
    <2>2. account[u] = Gone
      BY <1>1 DEF TablesInv, BornFirst
    <2>3. account'[u] # Gone => login'[u] # Gone
      BY <1>1, <2>1, <2>2 DEF Result, Appears
    <2>4. login'[u] # Gone => account'[u] # Gone
      BY <2>1 DEF Result, NoOrphanRows
    <2>5. QED  BY <2>3, <2>4
  <1>2. Paths /\ TablesInv /\ [Next]_vars =>
           [\A u \in Users : u \notin born => (account'[u] # Gone <=> login'[u] # Gone)]_vars
    BY <1>1
  <1>3. QED  BY <1>2, TablesInvariant, PTL DEF Spec, CreatedWhole

-----------------------------------------------------------------------------
(* The sessions: how many rows a device can have, and when one that ended is  *)
(* live again.  First what a step does to the rows of user_token.            *)

TokenSteps(p) == InsertToken(p) \/ UpdateToken(p) \/ Revoke(p)

\* Only three statements and the job touch the rows, and only logouts and
\* expiries are counted as ends.
LEMMA OtherStepsKeepTokens ==
    ASSUME [Next]_vars, \A p \in Procs : ~TokenSteps(p), \A j \in Jobs : ~Job(j)
    PROVE  UNCHANGED <<tokens, ended>>
  <1>1. CASE \E p \in Procs : (\E r \in offered.requests : Start(p, r)) \/ Guard(p)
    BY <1>1 DEF Start, Guard, tableVars, historyVars
  <1>2. CASE \E p \in Procs : Session(p)
    BY <1>2 DEF Session, Verify, VerifyFails, WriteCode, CodeAccepted, CodeUnknown, CodeWrong,
       CodeLocked, ReadToken, ReadTokenFails, FindToken, InsertTokenFails, StampLogin,
       StampActivity, TokenSteps, tableVars, historyVars
  <1>3. CASE \E p \in Procs : Mailed(p)
    BY <1>3 DEF Mailed, ReadAddress, ReadAddressFails, WriteRecovery, WriteConfirmation,
       ReadRecovery, ReadConfirmation, MailedTokenRefused, RedeemRecovery, RedeemConfirmation,
       Redeem, tableVars, historyVars
  <1>4. CASE \E p \in Procs : Administer(p)
    BY <1>4 DEF Administer, FindRole, FindRoleFails, InsertUser, ReadOwn, Deactivate,
       UpdateProfile, UpdateLoginRow, UpdateUser, DeleteUser, DeleteLogin, SaveLogin,
       LastOnLogin, LastOnAccount, tableVars, historyVars
  <1>5. CASE \E p \in Procs : Assign(p)
    BY <1>5 DEF Assign, InsertRole, UpdateRole, DeleteRole, LastOnRole, InsertPermission,
       DeletePermission, ReadAccount, ReadAssigned, SelectForSave, Save, AssignmentBreaks, Ends,
       LastOnAccount, tableVars, historyVars
  <1>6. CASE \/ \E w \in background : WriteInBackground(w)
             \/ Midnight \/ Tick \/ Crash \/ Terminating \/ UNCHANGED vars
    BY <1>6 DEF WriteInBackground, Midnight, Tick, Crash, Ends, Terminating, vars, tableVars,
       historyVars
  <1>7. QED
    BY <1>1, <1>2, <1>3, <1>4, <1>5, <1>6 DEF Next

\* What UpdateToken and Revoke write over a row.
LEMMA RewrittenRow ==
    ASSUME TypeInv, NEW t \in tokens, NEW s
    PROVE  LET stored == [t EXCEPT !.token = s, !.revoked = FALSE]
               over == [t EXCEPT !.revoked = TRUE]
           IN  /\ stored.user = t.user /\ stored.device = t.device /\ stored.revoked = FALSE
               /\ over.user = t.user /\ over.device = t.device /\ over.revoked = TRUE
  BY DEF TypeInv, TableTypes, Token

-----------------------------------------------------------------------------
(* RefreshRevivesOnlyByOverlap: a session that is live stays live until an     *)
(* end is counted, so a refresh that goes on without one has missed an end.   *)

Kept(u, d) ==
    /\ ended'[u] >= ended[u]
    /\ Live(u, d) => (Live(u, d)' \/ ended'[u] > ended[u])

LEMMA KeptStep ==
    ASSUME TypeInv, [Next]_vars, NEW u \in Users, NEW d
    PROVE  Kept(u, d)
  <1>1. ended[u] \in Nat /\ ended \in [Users -> Nat]
    BY DEF TypeInv, WorldTypes
  <1>2. CASE \E p \in Procs : InsertToken(p)
    BY <1>1, <1>2 DEF InsertToken, Kept, Live, TokensOf, historyVars
  <1>3. CASE \E p \in Procs : UpdateToken(p)
    <2>1. PICK p \in Procs : UpdateToken(p)  BY <1>3
    <2> DEFINE stored(t) == [t EXCEPT !.token = signed[p], !.revoked = FALSE]
               old == TokensOf(whom[p], req[p].arg.device)
    <2>2. \A t \in tokens : /\ stored(t).user = t.user /\ stored(t).device = t.device
                            /\ ~stored(t).revoked
      BY RewrittenRow
    <2>3. tokens' = (tokens \ old) \cup {stored(t) : t \in old} /\ ended' = ended
      BY <2>1 DEF UpdateToken, historyVars
    <2>4. old \subseteq tokens  BY DEF TokensOf
    <2> HIDE DEF stored, old
    <2>5. Live(u, d) => Live(u, d)'
      BY <2>2, <2>3, <2>4 DEF Live, TokensOf
    <2>6. QED  BY <1>1, <2>3, <2>5 DEF Kept
  <1>4. CASE \E p \in Procs : Revoke(p)
    <2>1. PICK p \in Procs : Revoke(p)  BY <1>4
    <2>2. whom[p] \in Users
      BY <2>1 DEF Revoke, TypeInv, Holds, UserSteps
    <2>3. ended' = [ended EXCEPT ![whom[p]] = ended[whom[p]] + 1]
      BY <2>1 DEF Revoke
    <2>4. CASE whom[p] = u
      BY <1>1, <2>3, <2>4 DEF Kept
    <2>5. CASE whom[p] # u
      <3>1. \A t \in tokens : t.user = u => t \in tokens'
        BY <2>1, <2>5 DEF Revoke
      <3>2. QED  BY <1>1, <2>2, <2>3, <2>5, <3>1 DEF Kept, Live, TokensOf
    <2>6. QED  BY <2>4, <2>5
  <1>5. CASE \E j \in Jobs : Job(j)
    <2>1. ended'[u] = IF \E t \in tokens \ tokens' : t.user = u /\ ~t.revoked
                         THEN ended[u] + 1 ELSE ended[u]
      BY <1>5 DEF Job
    <2>2. QED  BY <1>1, <2>1 DEF Kept, Live, TokensOf
  <1>6. CASE (\A p \in Procs : ~TokenSteps(p)) /\ \A j \in Jobs : ~Job(j)
    <2>1. UNCHANGED <<tokens, ended>>  BY <1>6, OtherStepsKeepTokens
    <2>2. QED  BY <1>1, <2>1 DEF Kept, Live, TokensOf
  <1>7. QED  BY <1>2, <1>3, <1>4, <1>5, <1>6 DEF TokenSteps

Refreshing(p) == pc[p] \in RefreshSteps /\ req[p].handler = "refreshToken"

\* The session of a refresh is live, or has ended since the refresh saw it.
Covered(p) ==
    /\ whom[p] \in Users
    /\ saw[p] <= ended[whom[p]]
    /\ Live(whom[p], req[p].arg.device) \/ ended[whom[p]] > saw[p]

OverlapInv == \A p \in Procs : Refreshing(p) => Covered(p)

LEMMA OverlapStep ==
    ASSUME Paths, OverlapInv, [Next]_vars
    PROVE  OverlapInv'
  <1> SUFFICES ASSUME NEW p \in Procs, Refreshing(p)'
               PROVE  Covered(p)'
    BY DEF OverlapInv
  <1>1. ended \in [Users -> Nat] /\ saw \in [Procs -> Nat] /\ ended' \in [Users -> Nat]
    BY TypeStep DEF Paths, TypeInv, WorldTypes
  <1>2. CASE ReadToken(p)
    <2>1. whom[p] \in Users /\ UNCHANGED <<tokens, whom, req, ended>>
      BY <1>2 DEF ReadToken, tableVars, Paths, TypeInv, Holds, UserSteps
    <2>2. saw'[p] = ended[whom[p]]
      BY <1>1, <1>2 DEF ReadToken
    <2>3. Live(whom[p], req[p].arg.device)
      BY <1>2 DEF ReadToken, Live
    <2>4. QED  BY <1>1, <2>1, <2>2, <2>3 DEF Covered, Live, TokensOf
  <1>3. CASE /\ pc[p] \in RefreshSteps /\ req[p].handler = "refreshToken"
             /\ whom'[p] = whom[p] /\ req'[p] = req[p] /\ saw'[p] = saw[p]
    <2>1. Covered(p)
      BY <1>3 DEF OverlapInv, Refreshing
    <2>2. PICK u \in Users : u = whom[p]
      BY <2>1 DEF Covered
    <2>3. PICK d : d = req[p].arg.device
      OBVIOUS
    <2>4. Kept(u, d)  BY KeptStep DEF Paths
    <2>5. saw[p] <= ended'[u] /\ (Live(u, d)' \/ ended'[u] > saw[p])
      BY <1>1, <2>1, <2>2, <2>3, <2>4 DEF Kept, Covered
    <2>6. QED
      BY <1>3, <2>2, <2>3, <2>5 DEF Covered, Live, TokensOf
  <1>4. QED
    BY <1>2, <1>3, FollowsStep DEF Follows, Refreshing

\* A refresh brings back a session that ended only when it had verified its
\* token before: a later refresh is refused, however the others interleave.
THEOREM RefreshRevives == Spec => RefreshRevivesOnlyByOverlap
  <1>1. Init => OverlapInv
    BY DEF Init, OverlapInv, Refreshing, RefreshSteps
  <1>2. Paths /\ OverlapInv /\ [Next]_vars => OverlapInv'
    BY OverlapStep
  <1>3. ASSUME Paths, OverlapInv, NEW p \in Procs, NEW u \in Users, NEW d \in Devices,
               pc[p] \in {"insertToken", "updateToken"}, req[p].handler = "refreshToken",
               whom[p] = u, req[p].arg.device = d, ~Live(u, d)
        PROVE  ended[u] > saw[p]
    BY <1>3 DEF OverlapInv, Covered, Refreshing, RefreshSteps
  <1>4. Paths /\ OverlapInv =>
           [\A p \in Procs, u \in Users, d \in Devices :
               (/\ pc[p] \in {"insertToken", "updateToken"}
                /\ req[p].handler = "refreshToken"
                /\ whom[p] = u /\ req[p].arg.device = d
                /\ ~Live(u, d) /\ Live(u, d)')
                  => ended[u] > saw[p]]_vars
    BY <1>3
  <1>5. QED
    BY <1>1, <1>2, <1>4, PathsInvariant, PTL DEF Spec, RefreshRevivesOnlyByOverlap

-----------------------------------------------------------------------------
(* RowsPerDeviceBounded: a request comes to its insertion only when the device *)
(* has no row; it then counts as one, until it has inserted.                 *)

LEMMA SetsAreFinite ==
    ASSUME TypeInv, NEW u, NEW d
    PROVE  /\ IsFiniteSet(TokensOf(u, d)) /\ Cardinality(TokensOf(u, d)) \in Nat
           /\ IsFiniteSet(Inserting(u, d)) /\ Cardinality(Inserting(u, d)) \in Nat
           /\ Cardinality(Inserting(u, d)) <= Cardinality(Procs)
           /\ Cardinality(Procs) \in Nat
  <1>1. TokensOf(u, d) \in SUBSET tokens /\ IsFiniteSet(tokens)
    BY DEF TokensOf, TypeInv, TableTypes
  <1>2. Inserting(u, d) \in SUBSET Procs /\ IsFiniteSet(Procs)
    BY InitialAssumption DEF Inserting
  <1>3. IsFiniteSet(TokensOf(u, d)) /\ IsFiniteSet(Inserting(u, d))
    BY <1>1, <1>2, FS_Subset
  <1>4. QED
    BY <1>2, <1>3, FS_Subset, FS_CardinalityType

\* A statement that inserts no row of this device leaves as many at most.
LEMMA RowsNarrow ==
    ASSUME TypeInv, TypeInv', [Next]_vars, NEW u \in Users, NEW d \in Devices,
           \A p \in Procs : InsertToken(p) => ~(whom[p] = u /\ req[p].arg.device = d)
    PROVE  Cardinality(TokensOf(u, d)') <= Cardinality(TokensOf(u, d))
  <1>1. /\ IsFiniteSet(TokensOf(u, d)) /\ Cardinality(TokensOf(u, d)) \in Nat
    BY SetsAreFinite
  <1>2. ASSUME TokensOf(u, d)' \in SUBSET TokensOf(u, d)
        PROVE  Cardinality(TokensOf(u, d)') <= Cardinality(TokensOf(u, d))
    BY <1>1, <1>2, FS_Subset
  <1>3. CASE \E p \in Procs : InsertToken(p)
    <2>1. PICK p \in Procs : InsertToken(p)  BY <1>3
    <2>2. ~(whom[p] = u /\ req[p].arg.device = d)
      BY <2>1
    <2>3. TokensOf(u, d)' \in SUBSET TokensOf(u, d)
      BY <2>1, <2>2 DEF InsertToken, TokensOf
    <2>4. QED  BY <1>2, <2>3
  <1>4. CASE \E p \in Procs : UpdateToken(p)
    <2>1. PICK p \in Procs : UpdateToken(p)  BY <1>4
    <2> DEFINE stored(t) == [t EXCEPT !.token = signed[p], !.revoked = FALSE]
               old == TokensOf(whom[p], req[p].arg.device)
               f == [t \in tokens |-> stored(t)]
    <2>2. \A t \in tokens : stored(t).user = t.user /\ stored(t).device = t.device
      BY RewrittenRow
    <2>3. tokens' = (tokens \ old) \cup {stored(t) : t \in old}
      BY <2>1 DEF UpdateToken
    <2>4. old \subseteq tokens /\ \A t \in tokens : f[t] = stored(t)
      BY DEF TokensOf
    <2>5. \A t \in old : t.user = whom[p] /\ t.device = req[p].arg.device
      BY DEF TokensOf
    <2>6. CASE whom[p] = u /\ req[p].arg.device = d
      <3>1. old = TokensOf(u, d)  BY <2>6
      <3> HIDE DEF stored, f, old
      <3>2. TokensOf(u, d)' \in SUBSET {f[t] : t \in old}
        BY <2>3, <2>4, <3>1 DEF TokensOf
      <3>3. IsFiniteSet(old)  BY <1>1, <3>1
      <3>4. Cardinality(TokensOf(u, d)') <= Cardinality(old)
        BY <3>2, <3>3, ImageBound
      <3>5. QED  BY <3>1, <3>4
    <2>7. CASE ~(whom[p] = u /\ req[p].arg.device = d)
      <3> HIDE DEF stored, f, old
      <3>1. TokensOf(u, d)' \in SUBSET TokensOf(u, d)
        BY <2>2, <2>3, <2>4, <2>5, <2>7 DEF TokensOf
      <3>2. QED  BY <1>2, <3>1
    <2>8. QED  BY <2>6, <2>7
  <1>5. CASE \E p \in Procs : Revoke(p)
    <2>1. PICK p \in Procs : Revoke(p)  BY <1>5
    <2> DEFINE over(t) == [t EXCEPT !.revoked = TRUE]
               next(t) == IF t.user = whom[p] THEN over(t) ELSE t
               f == [t \in tokens |-> next(t)]
    <2>2. \A t \in tokens : over(t).user = t.user /\ over(t).device = t.device
      BY RewrittenRow
    <2>3. \A t \in tokens : next(t).user = t.user /\ next(t).device = t.device
      BY <2>2
    <2>4. tokens' = {next(t) : t \in tokens}
      BY <2>1 DEF Revoke
    <2>5. \A t \in tokens : f[t] = next(t)
      OBVIOUS
    <2> HIDE DEF over, next, f
    <2>6. TokensOf(u, d)' \in SUBSET {f[t] : t \in TokensOf(u, d)}
      BY <2>3, <2>4, <2>5 DEF TokensOf
    <2>7. QED  BY <1>1, <2>6, ImageBound
  <1>6. CASE \E j \in Jobs : Job(j)
    <2>1. tokens' \subseteq tokens
      BY <1>6 DEF Job, clearExpiredTokens
    <2>2. TokensOf(u, d)' \in SUBSET TokensOf(u, d)
      BY <2>1 DEF TokensOf
    <2>3. QED  BY <1>2, <2>2
  <1>7. CASE (\A p \in Procs : ~TokenSteps(p)) /\ \A j \in Jobs : ~Job(j)
    <2>1. tokens' = tokens  BY <1>7, OtherStepsKeepTokens
    <2>2. TokensOf(u, d)' \in SUBSET TokensOf(u, d)
      BY <2>1 DEF TokensOf
    <2>3. QED  BY <1>2, <2>2
  <1>8. QED  BY <1>3, <1>4, <1>5, <1>6, <1>7 DEF TokenSteps

LEMMA RowsStep ==
    ASSUME Paths, RowsPerDeviceBounded, [Next]_vars, NEW u \in Users, NEW d \in Devices
    PROVE  Cardinality(TokensOf(u, d)') + Cardinality(Inserting(u, d)') <= Cardinality(Procs)
  <1> DEFINE T == TokensOf(u, d)
             I == Inserting(u, d)
             C == Cardinality(Procs)
  <1>1. TypeInv /\ TypeInv'
    BY TypeStep DEF Paths
  <1>2. /\ IsFiniteSet(T) /\ Cardinality(T) \in Nat
        /\ IsFiniteSet(I) /\ Cardinality(I) \in Nat /\ C \in Nat
    BY <1>1, SetsAreFinite
  <1>3. /\ Cardinality(T') \in Nat /\ Cardinality(I') \in Nat /\ Cardinality(I') <= C
    <2>1. IsFiniteSet(tokens') /\ T' \in SUBSET tokens'
      BY <1>1 DEF TypeInv, TableTypes, TokensOf
    <2>2. IsFiniteSet(Procs) /\ I' \in SUBSET Procs
      BY InitialAssumption DEF Inserting
    <2>3. QED  BY <2>1, <2>2, FS_Subset, FS_CardinalityType
  <1>4. Cardinality(T) + Cardinality(I) <= C
    BY DEF RowsPerDeviceBounded
  <1>5. \A q \in I' : /\ whom[q] = u /\ req[q].arg.device = d
                      /\ q \in I \/ FindToken(q)
    BY FollowsStep DEF Inserting, Follows
  <1>6. CASE \E q \in I' : FindToken(q)
    <2>1. PICK q \in I' : FindToken(q)  BY <1>6
    <2>2. q \in Procs /\ pc'[q] = "insertToken"
      BY DEF Inserting
    <2>3. T = {} /\ tokens' = tokens
      BY <1>1, <1>5, <2>1, <2>2 DEF FindToken, GoTo, tableVars, TypeInv, RequestTypes
    <2>4. T' = {}  BY <2>3 DEF TokensOf
    <2>5. Cardinality(T') = 0  BY <2>4, FS_EmptySet
    <2>6. QED  BY <1>2, <1>3, <2>5
  <1>7. CASE ~(\E q \in I' : FindToken(q)) /\ \E p \in I : InsertToken(p)
    <2>1. PICK p \in I : InsertToken(p)  BY <1>7
    <2>2. p \in Procs /\ whom[p] = u /\ req[p].arg.device = d
      BY DEF Inserting
    <2>3. pc'[p] # "insertToken"
      BY <1>1, <2>1, <2>2 DEF InsertToken, TokenStored, GoTo, Answer, TypeInv, RequestTypes
    <2>4. I' \in SUBSET (I \ {p})
      BY <1>5, <1>7, <2>3 DEF Inserting
    <2>5. Cardinality(I') <= Cardinality(I) - 1
      <3>1. IsFiniteSet(I \ {p}) /\ Cardinality(I \ {p}) = Cardinality(I) - 1
        BY <1>2, <2>1, FS_RemoveElement
      <3>2. QED  BY <2>4, <3>1, FS_Subset
    <2> DEFINE row == [id |-> FreshId, user |-> whom[p], device |-> req[p].arg.device,
                       token |-> signed[p], revoked |-> FALSE]
    <2>6. tokens' = tokens \cup {row}
      BY <2>1 DEF InsertToken
    <2> HIDE DEF row
    <2>7. T' \in SUBSET (T \cup {row})
      BY <2>6 DEF TokensOf
    <2>8. Cardinality(T') <= Cardinality(T) + 1
      <3>1. IsFiniteSet(T \cup {row}) /\ Cardinality(T \cup {row}) <= Cardinality(T) + 1
        <4>1. /\ IsFiniteSet(T \cup {row})
              /\ Cardinality(T \cup {row}) =
                    IF row \in T THEN Cardinality(T) ELSE Cardinality(T) + 1
          BY <1>2, FS_AddElement
        <4>2. QED  BY <1>2, <4>1
      <3>2. Cardinality(T') <= Cardinality(T \cup {row})
        BY <2>7, <3>1, FS_Subset
      <3>3. Cardinality(T \cup {row}) \in Nat
        BY <3>1, FS_CardinalityType
      <3>4. QED  BY <1>2, <1>3, <3>1, <3>2, <3>3
    <2>9. QED  BY <1>2, <1>3, <1>4, <2>5, <2>8
  <1>8. CASE ~(\E q \in I' : FindToken(q)) /\ ~\E p \in I : InsertToken(p)
    <2>1. I' \in SUBSET I
      BY <1>5, <1>8
    <2>2. Cardinality(I') <= Cardinality(I)
      BY <1>2, <2>1, FS_Subset
    <2>3. \A p \in Procs : InsertToken(p) => ~(whom[p] = u /\ req[p].arg.device = d)
      BY <1>8 DEF Inserting, InsertToken
    <2>4. Cardinality(T') <= Cardinality(T)
      BY <1>1, <2>3, RowsNarrow
    <2>5. QED  BY <1>2, <1>3, <1>4, <2>2, <2>4
  <1>9. QED  BY <1>6, <1>7, <1>8

\* A device never has more rows than requests run at a time, however many
\* sign-ins find none and insert one.
THEOREM RowsBounded == Spec => []RowsPerDeviceBounded
  <1>1. Init => RowsPerDeviceBounded
    <2> SUFFICES ASSUME Init, NEW u \in Users, NEW d \in Devices
                 PROVE  Cardinality(TokensOf(u, d)) + Cardinality(Inserting(u, d))
                           <= Cardinality(Procs)
      BY DEF RowsPerDeviceBounded
    <2>1. Inserting(u, d) = {}
      BY DEF Init, Inserting
    <2>2. Cardinality(TokensOf(u, d)) <= Cardinality(Procs)
      BY InitialAssumption DEF Init, TokensOf
    <2>3. Cardinality(TokensOf(u, d)) \in Nat /\ Cardinality(Inserting(u, d)) = 0
      BY <2>1, TypeInit, SetsAreFinite, FS_EmptySet
    <2>4. QED  BY <2>2, <2>3
  <1>2. ASSUME Paths, RowsPerDeviceBounded, [Next]_vars
        PROVE  RowsPerDeviceBounded'
    BY <1>2, RowsStep DEF RowsPerDeviceBounded
  <1>3. QED  BY <1>1, <1>2, PathsInvariant, PTL DEF Spec
=============================================================================
