------------------------------ MODULE Accounts ------------------------------
(***************************************************************************)
(* Accounts and sessions: AuthService, UsersService and JobService on the   *)
(* tables user_account, user_login_data, user_token, user_role and          *)
(* permission.  Requests interleave: one action per statement the database  *)
(* sees, and a request keeps what it read in an earlier one.                *)
(*                                                                         *)
(* Operations that no route, job or message reaches (blockUserAccount,      *)
(* enableM2FA, removePermissionFromUser, ...) are not part of the system.   *)
(***************************************************************************)
EXTENDS Access, FiniteSets

CONSTANTS
    Users,          \* identifiers the sequence of user_account can give
    RoleIds,        \* identifiers of roles
    PermissionIds,  \* identifiers of permissions
    Emails,         \* addresses as they are typed ...
    Lower,          \* ... and in lower case: Emails -> Emails
    Passwords,
    Unhashed,       \* a password stored as it was typed: no password compares equal
    Devices,        \* values of the User-Agent header
    Procs,          \* bound: requests served at a time
    Workloads,      \* what is asked in a behaviour, and its bounds
    InitialAccount, InitialLogin, InitialTokens, InitialRole, InitialPermission,
    WithOrders,     \* users that have orders
    OfRoles,        \* permissions granted to roles
    MaxTime,        \* bound: units of time; in one, refresh tokens of a user look alike
    RefreshLife,    \* JWT_REFRESH_TOKEN_SECRET_EXPIRES_IN_MS
    RecoveryLife,   \* 240 minutes
    ActiveLife,     \* 30 days
    Never,          \* a timestamp that is NULL
    Gone,           \* a row that is not there
    None            \* no request, no user

Times == 0..MaxTime
Stamp == Times \cup {Never}
Ids   == Users \cup RoleIds \cup PermissionIds

\* Rows.  Of the columns, those a decision reads or an operation resets.
Account == [role: RoleIds, permissions: SUBSET PermissionIds, profile: Nat]
Login   == [email: Emails, password: Passwords \cup {Unhashed}, confirmed: BOOLEAN,
            status: {"ACTIVE", "INACTIVE", "BLOCKED", "DEACTIVATED"},
            recovery: Nat, recoveryAt: Stamp, confirmation: Nat,
            m2fa: BOOLEAN, code: Nat, attempts: Nat, loginAt: Stamp, activityAt: Stamp]
Token   == [id: Nat, user: Users, device: Devices, token: Times, revoked: BOOLEAN]

\* The first statement of each handler, after the guards.
FirstStep ==
    [register |-> "findRole", createUser |-> "findRole",
     login |-> "verify", loginM2FA |-> "readCode", refreshToken |-> "readToken",
     logout |-> "revoke",
     passwordReset |-> "readAddress", emailConfirmation |-> "readAddress",
     passwordChange |-> "readRecovery", confirmEmail |-> "readConfirmation",
     deactivateCurrentUserAccount |-> "readOwn", updateUserAccount |-> "updateProfile",
     updateUser |-> "updateUser", deleteUser |-> "deleteUser",
     deleteUserLoginData |-> "deleteLogin", createUserLoginData |-> "saveLogin",
     updateUserLoginData |-> "updateLogin",
     createRoles |-> "insertRole", updateRoles |-> "updateRole", deleteRoles |-> "deleteRole",
     createPermissions |-> "insertPermission", deletePermissions |-> "deletePermission",
     assignPermissionToUser |-> "readAccount", assignRoleToUser |-> "readAccount"]

\* Handlers whose user the path, the token or the guard gives.
OfUser == {"logout", "refreshToken", "deactivateCurrentUserAccount", "updateUserAccount",
           "updateUser", "deleteUser", "deleteUserLoginData", "createUserLoginData",
           "updateUserLoginData", "assignPermissionToUser", "assignRoleToUser"}

\* A request: the handler of its route, who sends it, the user it names and
\* its parameters, of which a handler looks at its own.
Argument == [email: Emails, password: Passwords, device: Devices, right: BOOLEAN,
             confirmed: BOOLEAN, profile: Nat, withRole: BOOLEAN, role: RoleIds,
             permission: PermissionIds, name: RoleNames]
Request ==
    {r \in [handler: DOMAIN FirstStep, by: Users \cup {None}, user: Users \cup {None},
            arg: Argument] : r.handler \in OfUser => r.user \in Users}

\* An update of user_login_data that loginM2fa starts and does not await.
Write == [user: Users, kind: {"reset", "count"}, attempts: Nat]

\* What save() finds different from the table.
Diff == [insert: BOOLEAN, columns: SUBSET {"role", "profile"}, roleOf: RoleIds \cup {None},
         add: SUBSET PermissionIds, remove: SUBSET PermissionIds]
NoDiff == [insert |-> FALSE, columns |-> {}, roleOf |-> None, add |-> {}, remove |-> {}]

Jobs == {"clear_expired_tokens", "clear_inactive_users", "set_active_users"}

\* A workload: the requests made, how many of them, how long, the midnights and
\* the crashes.
IsWorkload(w) ==
    /\ w.requests \subseteq Request
    /\ w.count \in Nat /\ w.time \in Times /\ w.midnights \in Nat /\ w.crashes \in Nat

ASSUME ConstantsAssumption ==
    /\ \A w \in Workloads : IsWorkload(w)
    /\ Lower \in [Emails -> Emails]
    /\ InitialAccount \in [Users -> Account \cup {Gone}]
    /\ InitialLogin \in [Users -> Login \cup {Gone}]
    /\ InitialTokens \subseteq Token
    /\ InitialRole \in [RoleIds -> RoleNames \cup {Gone}]
    /\ InitialPermission \subseteq PermissionIds
    /\ OfRoles \subseteq InitialPermission
    /\ \A u \in Users : InitialLogin[u] # Gone => InitialAccount[u] # Gone
    /\ \A t \in InitialTokens : InitialAccount[t.user] # Gone
    /\ MaxTime \in Nat /\ RefreshLife \in Nat /\ RecoveryLife \in Nat /\ ActiveLife \in Nat
    /\ Gone \notin Account \cup Login \cup RoleNames
    /\ None \notin Users \cup Request /\ Never \notin Nat

\* Nothing is under way at the start: no token is mailed, no code judged, and no
\* device has more rows than requests are served at a time.
ASSUME InitialAssumption ==
    /\ \A u \in Users : InitialLogin[u] # Gone =>
          /\ InitialLogin[u].recovery = 0 /\ InitialLogin[u].confirmation = 0
          /\ InitialLogin[u].attempts = 0
    /\ IsFiniteSet(Procs) /\ IsFiniteSet(InitialTokens)
    /\ \A u \in Users, d \in Devices :
          Cardinality({t \in InitialTokens : t.user = u /\ t.device = d}) <= Cardinality(Procs)
    /\ \A u \in Users : InitialAccount[u] # Gone =>
          /\ InitialRole[InitialAccount[u].role] # Gone
          /\ InitialAccount[u].permissions \subseteq InitialPermission
    /\ \A u, v \in Users :
          InitialLogin[u] # Gone /\ InitialLogin[v] # Gone
             /\ InitialLogin[u].email = InitialLogin[v].email => u = v

VARIABLES
    account,    \* user_account with user_permission
    login,      \* user_login_data
    tokens,     \* user_token
    role,       \* user_role: the name of each role
    permission, \* permission: those that exist
    born,       \* identifiers the sequences have given
    pc,         \* next statement of each request
    req,        \* the request
    whom,       \* the user it is about, once read
    shown,      \* the token it presented
    signed,     \* when it signed a refresh token
    entity,     \* the account row it read
    diff,       \* what save() will write; the role createUser has read
    background, \* updates nobody awaits
    otp,        \* totp.options of the process: "login" or "default"
    mails,      \* tokens and codes mailed so far, numbered
    issued,     \* when refresh tokens were issued to each user
    clock,
    due,        \* jobs of this midnight that have not run
    offered,    \* the workload
    used,       \* requests, midnights and crashes so far
    ended,      \* history: logouts and expiries that ended sessions of each user
    saw,        \* history: those of its user when a refresh verified its token
    redeemed,   \* history: mailed tokens that changed a password or confirmed
    wrong       \* history: codes judged wrong, for each user

tableVars   == <<account, login, tokens, role, permission, born>>
requestVars == <<req, whom, shown, signed, entity, diff>>
processVars == <<background, otp>>
worldVars   == <<mails, issued, clock, due, offered, used>>
historyVars == <<ended, saw, redeemed, wrong>>
vars == <<tableVars, pc, requestVars, processVars, worldVars, historyVars>>

-----------------------------------------------------------------------------
Route(h) ==
    IF h \in DOMAIN AuthRoutes THEN AuthRoutes[h]
    ELSE IF h \in DOMAIN MailRoutes THEN MailRoutes[h]
    ELSE IF h \in DOMAIN ProfileRoutes THEN ProfileRoutes[h]
    ELSE UserRoutes[h]

ByEmail(e) == {u \in Users : login[u] # Gone /\ login[u].email = e}
EmailFree(e, u) == ByEmail(e) \subseteq {u}
TokensOf(u, d) == {t \in tokens : t.user = u /\ t.device = d}
Live(u, d) == \E t \in TokensOf(u, d) : ~t.revoked
FreshId == CHOOSE n \in 1..(Cardinality(tokens) + 1) : \A t \in tokens : t.id # n

\* The next identifier of a sequence: a set of one, or none when the bound is met.
NextOf(ids) == IF ids \subseteq born THEN {} ELSE {CHOOSE i \in ids : i \notin born}

GoTo(p, step) == pc' = [pc EXCEPT ![p] = step]

\* The request is answered, or fails with an error that is answered.
Answer(p) ==
    /\ pc' = [pc EXCEPT ![p] = "idle"]
    /\ req' = [req EXCEPT ![p] = None]
    /\ whom' = [whom EXCEPT ![p] = None]
    /\ shown' = [shown EXCEPT ![p] = 0]
    /\ signed' = [signed EXCEPT ![p] = 0]
    /\ entity' = [entity EXCEPT ![p] = Gone]
    /\ diff' = [diff EXCEPT ![p] = NoDiff]

\* The process ends: requests and updates under way are lost, totp.options are
\* those of the library again, jobs that have not run will not.
Ends ==
    /\ pc' = [p \in Procs |-> "idle"]
    /\ req' = [p \in Procs |-> None]
    /\ whom' = [p \in Procs |-> None]
    /\ shown' = [p \in Procs |-> 0]
    /\ signed' = [p \in Procs |-> 0]
    /\ entity' = [p \in Procs |-> Gone]
    /\ diff' = [p \in Procs |-> NoDiff]
    /\ background' = {}
    /\ otp' = "default"
    /\ due' = {}
    /\ UNCHANGED <<tableVars, mails, issued, clock, offered, historyVars>>

\* An update of one row of user_login_data: none, when it is gone.
UpdateLogin(u, new) ==
    login' = IF login[u] = Gone THEN login ELSE [login EXCEPT ![u] = new]
-----------------------------------------------------------------------------
Init ==
    /\ account = InitialAccount
    /\ login = InitialLogin
    /\ tokens = InitialTokens
    /\ role = InitialRole
    /\ permission = InitialPermission
    /\ born = {u \in Users : account[u] # Gone} \cup {r \in RoleIds : role[r] # Gone}
              \cup permission
    /\ pc = [p \in Procs |-> "idle"]
    /\ req = [p \in Procs |-> None]
    /\ whom = [p \in Procs |-> None]
    /\ shown = [p \in Procs |-> 0]
    /\ signed = [p \in Procs |-> 0]
    /\ entity = [p \in Procs |-> Gone]
    /\ diff = [p \in Procs |-> NoDiff]
    /\ background = {}
    /\ otp = "default"
    /\ mails = 0
    /\ issued = [u \in Users |-> {t.token : t \in {x \in tokens : x.user = u}}]
    /\ clock = 0
    /\ due = {}
    /\ offered \in Workloads
    /\ used = [requests |-> 0, midnights |-> 0, crashes |-> 0]
    /\ ended = [u \in Users |-> 0]
    /\ saw = [p \in Procs |-> 0]
    /\ redeemed = {}
    /\ wrong = [u \in Users |-> 0]

\* A request arrives; one that is not public carries an access token.
Start(p, r) ==
    /\ pc[p] = "idle"
    /\ used.requests < offered.count
    /\ NeedsUser(Route(r.handler)) => issued[r.by] # {}
    /\ req' = [req EXCEPT ![p] = r]
    /\ whom' = [whom EXCEPT ![p] = r.user]
    /\ GoTo(p, IF NeedsUser(Route(r.handler)) THEN "guard" ELSE FirstStep[r.handler])
    /\ used' = [used EXCEPT !.requests = @ + 1]
    /\ UNCHANGED <<tableVars, shown, signed, entity, diff, processVars, mails, issued, clock,
                   due, offered, historyVars>>

\* JwtStrategy.validate reads the sender, RolesGuard looks at the role.
Passes(r) ==
    /\ account[r.by] # Gone
    /\ login[r.by] # Gone
    /\ login[r.by].confirmed
    /\ RoleAllowed(Route(r.handler), role[account[r.by].role])

Guard(p) ==
    /\ pc[p] = "guard"
    /\ IF Passes(req[p])
          THEN GoTo(p, FirstStep[req[p].handler]) /\ UNCHANGED requestVars
          ELSE Answer(p)
    /\ UNCHANGED <<tableVars, processVars, worldVars, historyVars>>

-----------------------------------------------------------------------------
(* Sessions: login, loginM2fa, refreshToken, logout                          *)

\* LocalStrategy: verifyUser reads the row, compares and throws on any fault.
\* login() signs the tokens at once.
Verify(p) ==
    /\ pc[p] = "verify"
    /\ \E u \in ByEmail(req[p].arg.email) :
          /\ login[u].confirmed
          /\ login[u].password = req[p].arg.password
          /\ whom' = [whom EXCEPT ![p] = u]
          /\ signed' = [signed EXCEPT ![p] = clock]
          /\ GoTo(p, IF login[u].m2fa THEN "writeCode" ELSE "findToken")
    /\ UNCHANGED <<tableVars, req, shown, entity, diff, processVars, worldVars, historyVars>>

VerifyFails(p) ==
    /\ pc[p] = "verify"
    /\ \A u \in ByEmail(req[p].arg.email) :
          ~(login[u].confirmed /\ login[u].password = req[p].arg.password)
    /\ Answer(p)
    /\ UNCHANGED <<tableVars, processVars, worldVars, historyVars>>

\* A code is mailed: token and secret of the row are new, the attempts zero.
WriteCode(p) ==
    LET u == whom[p]
    IN  /\ pc[p] = "writeCode"
        /\ UpdateLogin(u, [login[u] EXCEPT !.code = mails + 1, !.attempts = 0])
        /\ mails' = mails + 1
        /\ otp' = "login"
        /\ Answer(p)
        /\ UNCHANGED <<account, tokens, role, permission, born, background, issued, clock,
                       due, offered, used, historyVars>>

\* loginM2fa reads the row of the token it is shown.
CodeAccepted(p) ==
    /\ pc[p] = "readCode"
    /\ otp = "login" /\ req[p].arg.right
    /\ \E u \in Users :
          /\ login[u] # Gone /\ login[u].code # 0
          /\ login[u].attempts <= 3
          /\ whom' = [whom EXCEPT ![p] = u]
    /\ signed' = [signed EXCEPT ![p] = clock]
    /\ GoTo(p, "findToken")
    /\ UNCHANGED <<tableVars, req, shown, entity, diff, processVars, worldVars, historyVars>>

\* Mutant: the attempts are not looked at.
CodeWrongUnlocked(p) ==
    /\ pc[p] = "readCode"
    /\ ~(otp = "login" /\ req[p].arg.right)
    /\ \E u \in Users :
          /\ login[u] # Gone /\ login[u].code # 0
          /\ background' = background \cup
                {[user |-> u, kind |-> "count", attempts |-> login[u].attempts + 1]}
          /\ wrong' = [wrong EXCEPT ![u] = @ + 1]
    /\ Answer(p)
    /\ UNCHANGED <<tableVars, otp, worldVars, ended, saw, redeemed>>

\* A code of the row that is wrong, or judged with the options of the library:
\* one more attempt than the row has.
CodeWrong(p) ==
    /\ pc[p] = "readCode"
    /\ ~(otp = "login" /\ req[p].arg.right)
    /\ \E u \in Users :
          /\ login[u] # Gone /\ login[u].code # 0
          /\ login[u].attempts <= 3
          /\ background' = background \cup
                {[user |-> u, kind |-> "count", attempts |-> login[u].attempts + 1]}
          /\ wrong' = [wrong EXCEPT ![u] = @ + 1]
    /\ Answer(p)
    /\ UNCHANGED <<tableVars, otp, worldVars, ended, saw, redeemed>>

CodeLocked(p) ==
    /\ pc[p] = "readCode"
    /\ \E u \in Users :
          /\ login[u] # Gone /\ login[u].code # 0
          /\ login[u].attempts > 3
          /\ background' = background \cup {[user |-> u, kind |-> "reset", attempts |-> 0]}
    /\ Answer(p)
    /\ UNCHANGED <<tableVars, otp, worldVars, historyVars>>

\* The token has expired, or no row has it.
CodeUnknown(p) ==
    /\ pc[p] = "readCode"
    /\ Answer(p)
    /\ UNCHANGED <<tableVars, processVars, worldVars, historyVars>>

\* An update that nobody awaits reaches the database.
WriteInBackground(w) ==
    /\ background' = background \ {w}
    /\ UpdateLogin(w.user, [login[w.user] EXCEPT
                               !.attempts = w.attempts,
                               !.code = IF w.kind = "reset" THEN 0 ELSE @])
    /\ UNCHANGED <<account, tokens, role, permission, born, pc, requestVars, otp, worldVars,
                   historyVars>>

\* Mutant: blacklisted rows are found too.
ReadTokenRevoked(p) ==
    LET u == whom[p]
    IN  /\ pc[p] = "readToken"
        /\ \E t \in issued[u], row \in TokensOf(u, req[p].arg.device) :
              /\ clock < t + RefreshLife
              /\ t = row.token
              /\ shown' = [shown EXCEPT ![p] = t]
        /\ saw' = [saw EXCEPT ![p] = ended[u]]
        /\ signed' = [signed EXCEPT ![p] = clock]
        /\ GoTo(p, "stampActivity")
        /\ UNCHANGED <<tableVars, req, whom, entity, diff, processVars, worldVars, ended,
                       redeemed, wrong>>

\* getUserToken: a row of the device that is not blacklisted, any of them.  The
\* JWT must not have expired; bcrypt compares only the first 72 bytes, where
\* tokens of one user and one unit of time are the same.
ReadToken(p) ==
    LET u == whom[p]
    IN  /\ pc[p] = "readToken"
        /\ \E t \in issued[u], row \in TokensOf(u, req[p].arg.device) :
              /\ clock < t + RefreshLife
              /\ ~row.revoked
              /\ t = row.token
              /\ shown' = [shown EXCEPT ![p] = t]
        /\ saw' = [saw EXCEPT ![p] = ended[u]]
        /\ signed' = [signed EXCEPT ![p] = clock]
        /\ GoTo(p, "stampActivity")
        /\ UNCHANGED <<tableVars, req, whom, entity, diff, processVars, worldVars, ended,
                       redeemed, wrong>>

\* A token that is expired, or that no row of the device matches.
ReadTokenFails(p) ==
    /\ pc[p] = "readToken"
    /\ Answer(p)
    /\ UNCHANGED <<tableVars, processVars, worldVars, historyVars>>

\* Mutant: a row is inserted at every sign-in.
FindTokenNever(p) ==
    /\ pc[p] = "findToken"
    /\ GoTo(p, "insertToken")
    /\ UNCHANGED <<tableVars, requestVars, processVars, worldVars, historyVars>>

\* createUserToken looks for a row of the device ...
FindToken(p) ==
    /\ pc[p] = "findToken"
    /\ GoTo(p, IF TokensOf(whom[p], req[p].arg.device) = {} THEN "insertToken"
                                                            ELSE "updateToken")
    /\ UNCHANGED <<tableVars, requestVars, processVars, worldVars, historyVars>>

\* The answer of loginM2fa and refreshToken carries the tokens; login has one
\* more statement to do.
TokenStored(p) ==
    IF req[p].handler = "login"
       THEN GoTo(p, "stampLogin") /\ UNCHANGED <<requestVars, issued>>
       ELSE Answer(p) /\ issued' = [issued EXCEPT ![whom[p]] = @ \cup {signed[p]}]

\* ... and inserts one, if the user is still there,
InsertToken(p) ==
    /\ pc[p] = "insertToken"
    /\ account[whom[p]] # Gone
    /\ tokens' = tokens \cup
          {[id |-> FreshId, user |-> whom[p], device |-> req[p].arg.device,
            token |-> signed[p], revoked |-> FALSE]}
    /\ TokenStored(p)
    /\ UNCHANGED <<account, login, role, permission, born, processVars, mails, clock, due,
                   offered, used, historyVars>>

InsertTokenFails(p) ==
    /\ pc[p] = "insertToken"
    /\ account[whom[p]] = Gone
    /\ Answer(p)
    /\ UNCHANGED <<tableVars, processVars, worldVars, historyVars>>

\* ... or rewrites all rows of the device.
UpdateToken(p) ==
    LET old == TokensOf(whom[p], req[p].arg.device)
    IN  /\ pc[p] = "updateToken"
        /\ tokens' = (tokens \ old) \cup
                        {[t EXCEPT !.token = signed[p], !.revoked = FALSE] : t \in old}
        /\ TokenStored(p)
        /\ UNCHANGED <<account, login, role, permission, born, processVars, mails, clock, due,
                       offered, used, historyVars>>

\* login and logout set last_login_timestamp.
StampLogin(p) ==
    LET u == whom[p]
    IN  /\ pc[p] = "stampLogin"
        /\ UpdateLogin(u, [login[u] EXCEPT !.loginAt = clock])
        /\ IF req[p].handler = "login"
              THEN Answer(p) /\ issued' = [issued EXCEPT ![u] = @ \cup {signed[p]}]
              ELSE GoTo(p, "stampActivity") /\ UNCHANGED <<requestVars, issued>>
        /\ UNCHANGED <<account, tokens, role, permission, born, processVars, mails, clock, due,
                       offered, used, historyVars>>

\* logout and refreshToken set last_activity_timestamp.
StampActivity(p) ==
    LET u == whom[p]
    IN  /\ pc[p] = "stampActivity"
        /\ UpdateLogin(u, [login[u] EXCEPT !.activityAt = clock])
        /\ IF req[p].handler = "logout"
              THEN Answer(p)
              ELSE GoTo(p, "findToken") /\ UNCHANGED requestVars
        /\ UNCHANGED <<account, tokens, role, permission, born, processVars, worldVars,
                       historyVars>>

\* invalidateUserTokens: every device of the user.
Revoke(p) ==
    LET u == whom[p]
    IN  /\ pc[p] = "revoke"
        /\ tokens' = {IF t.user = u THEN [t EXCEPT !.revoked = TRUE] ELSE t : t \in tokens}
        /\ ended' = [ended EXCEPT ![u] = @ + 1]
        /\ GoTo(p, "stampLogin")
        /\ UNCHANGED <<account, login, role, permission, born, requestVars, processVars,
                       worldVars, saw, redeemed, wrong>>
-----------------------------------------------------------------------------
(* Mailed tokens: confirmation of an address and recovery of a password      *)

\* resetPassword and confirmEmail find the user; a confirmed one is refused the
\* second.
ReadAddress(p) ==
    /\ pc[p] = "readAddress"
    /\ \E u \in ByEmail(req[p].arg.email) :
          /\ req[p].handler = "emailConfirmation" => ~login[u].confirmed
          /\ whom' = [whom EXCEPT ![p] = u]
    /\ GoTo(p, IF req[p].handler = "passwordReset" THEN "writeRecovery"
                                                   ELSE "writeConfirmation")
    /\ UNCHANGED <<tableVars, req, shown, signed, entity, diff, processVars, worldVars,
                   historyVars>>

ReadAddressFails(p) ==
    /\ pc[p] = "readAddress"
    /\ \A u \in ByEmail(req[p].arg.email) :
          req[p].handler = "emailConfirmation" /\ login[u].confirmed
    /\ Answer(p)
    /\ UNCHANGED <<tableVars, processVars, worldVars, historyVars>>

\* updateRecoveryCred and updateConfirmationCred replace the token; the mail
\* leaves if a row was there.
WriteRecovery(p) ==
    LET u == whom[p]
    IN  /\ pc[p] = "writeRecovery"
        /\ UpdateLogin(u, [login[u] EXCEPT !.recovery = mails + 1, !.recoveryAt = clock])
        /\ mails' = IF login[u] = Gone THEN mails ELSE mails + 1
        /\ Answer(p)
        /\ UNCHANGED <<account, tokens, role, permission, born, processVars, issued, clock,
                       due, offered, used, historyVars>>

WriteConfirmation(p) ==
    LET u == whom[p]
    IN  /\ pc[p] = "writeConfirmation"
        /\ UpdateLogin(u, [login[u] EXCEPT !.confirmation = mails + 1])
        /\ mails' = IF login[u] = Gone THEN mails ELSE mails + 1
        /\ Answer(p)
        /\ UNCHANGED <<account, tokens, role, permission, born, processVars, issued, clock,
                       due, offered, used, historyVars>>

\* isRecoveredTokenExpired
RecoveryExpired(row) == row.recoveryAt = Never \/ clock > row.recoveryAt + RecoveryLife

\* changePasswordByRecoveryToken compares the token it is shown with the row's,
ReadRecovery(p) ==
    /\ pc[p] = "readRecovery"
    /\ \E u \in ByEmail(req[p].arg.email), k \in 1..mails :
          /\ ~RecoveryExpired(login[u])
          /\ login[u].recovery = k
          /\ whom' = [whom EXCEPT ![p] = u]
          /\ shown' = [shown EXCEPT ![p] = k]
    /\ GoTo(p, "redeemRecovery")
    /\ UNCHANGED <<tableVars, req, signed, entity, diff, processVars, worldVars, historyVars>>

\* confirmEmailByToken likewise; the age of the token is not looked at.
ReadConfirmation(p) ==
    /\ pc[p] = "readConfirmation"
    /\ \E u \in ByEmail(req[p].arg.email), k \in 1..mails :
          /\ ~login[u].confirmed
          /\ login[u].confirmation = k
          /\ whom' = [whom EXCEPT ![p] = u]
          /\ shown' = [shown EXCEPT ![p] = k]
    /\ GoTo(p, "redeemConfirmation")
    /\ UNCHANGED <<tableVars, req, signed, entity, diff, processVars, worldVars, historyVars>>

\* Another token, an expired one, or nobody of that address.
MailedTokenRefused(p) ==
    /\ pc[p] \in {"readRecovery", "readConfirmation"}
    /\ Answer(p)
    /\ UNCHANGED <<tableVars, processVars, worldVars, historyVars>>

Redeem(p, row) ==
    /\ UpdateLogin(whom[p], row)
    /\ redeemed' = IF login[whom[p]] = Gone THEN redeemed ELSE redeemed \cup {shown[p]}
    /\ Answer(p)
    /\ UNCHANGED <<account, tokens, role, permission, born, processVars, worldVars, ended,
                   saw, wrong>>

\* Mutant: the token stays in the row.
RedeemRecoveryKeeps(p) ==
    /\ pc[p] = "redeemRecovery"
    /\ Redeem(p, [login[whom[p]] EXCEPT !.password = req[p].arg.password])

\* ... and an update that does not look at the token again uses it up.
RedeemRecovery(p) ==
    /\ pc[p] = "redeemRecovery"
    /\ Redeem(p, [login[whom[p]] EXCEPT !.password = req[p].arg.password,
                                        !.recovery = 0, !.recoveryAt = Never])

RedeemConfirmation(p) ==
    /\ pc[p] = "redeemConfirmation"
    /\ Redeem(p, [login[whom[p]] EXCEPT !.confirmed = TRUE, !.confirmation = 0])

-----------------------------------------------------------------------------
(* Accounts                                                                  *)

\* The transaction of createUser reads the role of that name,
FindRole(p) ==
    /\ pc[p] = "findRole"
    /\ \E r \in RoleIds :
          /\ role[r] = "USER"
          /\ diff' = [diff EXCEPT ![p] = [NoDiff EXCEPT !.roleOf = r]]
    /\ GoTo(p, "insertUser")
    /\ UNCHANGED <<tableVars, req, whom, shown, signed, entity, processVars, worldVars,
                   historyVars>>

FindRoleFails(p) ==
    /\ pc[p] = "findRole"
    /\ \A r \in RoleIds : role[r] # "USER"
    /\ Answer(p)
    /\ UNCHANGED <<tableVars, processVars, worldVars, historyVars>>

\* The defaults of the columns.
NewLogin(e, password, confirmed) ==
    [email |-> e, password |-> password, confirmed |-> confirmed, status |-> "ACTIVE",
     recovery |-> 0, recoveryAt |-> Never, confirmation |-> 0, m2fa |-> FALSE, code |-> 0,
     attempts |-> 0, loginAt |-> Never, activityAt |-> Never]

\* Mutant: no transaction; the account stays when its login data are refused.
InsertUserHalf(p) ==
    LET e == Lower[req[p].arg.email]
        r == diff[p].roleOf
    IN  /\ pc[p] = "insertUser"
        /\ \E u \in NextOf(Users) :
              /\ role[r] # Gone /\ ~EmailFree(e, u)
              /\ born' = born \cup {u}
              /\ account' = [account EXCEPT ![u] = [role |-> r, permissions |-> {}, profile |-> 0]]
              /\ UNCHANGED login
        /\ Answer(p)
        /\ UNCHANGED <<tokens, role, permission, processVars, worldVars, historyVars>>

\* inserts both rows and commits.  The role it read may be gone, and the
\* address, written in lower case, is unique.  An identifier of the sequence is
\* used up in any case.
InsertUser(p) ==
    LET e == Lower[req[p].arg.email]
        r == diff[p].roleOf
    IN  /\ pc[p] = "insertUser"
        /\ \E u \in NextOf(Users) :
              /\ born' = born \cup {u}
              /\ IF EmailFree(e, u) /\ role[r] # Gone
                    THEN /\ account' = [account EXCEPT ![u] =
                               [role |-> r, permissions |-> {}, profile |-> 0]]
                         /\ login' = [login EXCEPT ![u] = NewLogin(e, req[p].arg.password,
                                                                   req[p].arg.confirmed)]
                    ELSE UNCHANGED <<account, login>>
        /\ Answer(p)
        /\ UNCHANGED <<tokens, role, permission, processVars, worldVars, historyVars>>

\* The last statement of a request, on one table.
LastOnLogin(p, rows) ==
    /\ login' = rows
    /\ Answer(p)
    /\ UNCHANGED <<account, tokens, role, permission, born, processVars, worldVars, historyVars>>

LastOnAccount(p, rows) ==
    /\ account' = rows
    /\ Answer(p)
    /\ UNCHANGED <<login, tokens, role, permission, born, processVars, worldVars, historyVars>>

\* currentUserDeactivate: the password is compared, then the status written.
ReadOwn(p) ==
    LET u == whom[p]
    IN  /\ pc[p] = "readOwn"
        /\ IF login[u] # Gone /\ login[u].password = req[p].arg.password
              THEN GoTo(p, "deactivate") /\ UNCHANGED requestVars
              ELSE Answer(p)
        /\ UNCHANGED <<tableVars, processVars, worldVars, historyVars>>

\* Mutant: a status that FindUsersDto knows and the table does not.
DeactivateDeleted(p) ==
    LET u == whom[p]
    IN  /\ pc[p] = "deactivate"
        /\ LastOnLogin(p, IF login[u] = Gone THEN login
                             ELSE [login EXCEPT ![u] = [login[u] EXCEPT !.status = "DELETED"]])

Deactivate(p) ==
    LET u == whom[p]
    IN  /\ pc[p] = "deactivate"
        /\ LastOnLogin(p, IF login[u] = Gone THEN login
                             ELSE [login EXCEPT ![u] = [login[u] EXCEPT !.status = "DEACTIVATED"]])

\* The columns of the body, role_id among them: a role that is not there fails.
Patched(u, arg) ==
    IF account[u] = Gone THEN Gone
       ELSE [account[u] EXCEPT !.profile = arg.profile,
                               !.role = IF arg.withRole THEN arg.role ELSE @]

RoleFound(arg) == arg.withRole => role[arg.role] # Gone

UpdateProfile(p) ==
    LET u == whom[p]
    IN  /\ pc[p] = "updateProfile"
        /\ LastOnAccount(p, IF RoleFound(req[p].arg)
                               THEN [account EXCEPT ![u] = Patched(u, req[p].arg)]
                               ELSE account)

\* updateUserLoginData writes the address and the password as they were typed.
Retyped(u, arg) ==
    IF login[u] = Gone THEN Gone
       ELSE [login[u] EXCEPT !.email = arg.email, !.password = Unhashed]

UpdateLoginRow(p) ==
    LET u == whom[p]
    IN  /\ pc[p] = "updateLogin"
        /\ LastOnLogin(p, IF EmailFree(req[p].arg.email, u)
                             THEN [login EXCEPT ![u] = Retyped(u, req[p].arg)]
                             ELSE login)

\* updateUser: the route hands the whole body to both updates of the
\* transaction, the first does not know the columns of the second and fails.
UpdateUser(p) ==
    /\ pc[p] = "updateUser"
    /\ Answer(p)
    /\ UNCHANGED <<tableVars, processVars, worldVars, historyVars>>

\* Mutant: tokens do not stop the deletion.
DeleteUserWithTokens(p) ==
    LET u == whom[p]
        held == u \in WithOrders
    IN  /\ pc[p] = "deleteUser"
        /\ account' = IF held THEN account ELSE [account EXCEPT ![u] = Gone]
        /\ login' = IF held THEN login ELSE [login EXCEPT ![u] = Gone]
        /\ Answer(p)
        /\ UNCHANGED <<tokens, role, permission, born, processVars, worldVars, historyVars>>

\* deleteUserAccount: the row of user_login_data and the permissions go with the
\* account; tokens and orders refer to it without a cascade, and stop it.
DeleteUser(p) ==
    LET u == whom[p]
        held == u \in WithOrders \/ \E t \in tokens : t.user = u
    IN  /\ pc[p] = "deleteUser"
        /\ account' = IF held THEN account ELSE [account EXCEPT ![u] = Gone]
        /\ login' = IF held THEN login ELSE [login EXCEPT ![u] = Gone]
        /\ Answer(p)
        /\ UNCHANGED <<tokens, role, permission, born, processVars, worldVars, historyVars>>

DeleteLogin(p) ==
    /\ pc[p] = "deleteLogin"
    /\ LastOnLogin(p, [login EXCEPT ![whom[p]] = Gone])

\* createUserLoginData saves a row under the identifier of the body: a new one
\* for an account that is there, or the given columns of the one there is.
SaveLogin(p) ==
    LET u == whom[p]
        e == Lower[req[p].arg.email]
        row == IF login[u] # Gone
                  THEN [login[u] EXCEPT !.email = e, !.password = Unhashed]
                  ELSE NewLogin(e, Unhashed, FALSE)
    IN  /\ pc[p] = "saveLogin"
        /\ LastOnLogin(p, IF EmailFree(e, u) /\ account[u] # Gone
                             THEN [login EXCEPT ![u] = row] ELSE login)

-----------------------------------------------------------------------------
(* Roles and permissions                                                     *)

LastOnRole(p, rows, ids) ==
    /\ role' = rows
    /\ born' = born \cup ids
    /\ Answer(p)
    /\ UNCHANGED <<account, login, tokens, permission, processVars, worldVars, historyVars>>

InsertRole(p) ==
    /\ pc[p] = "insertRole"
    /\ \E r \in NextOf(RoleIds) : LastOnRole(p, [role EXCEPT ![r] = req[p].arg.name], {r})

UpdateRole(p) ==
    LET r == req[p].arg.role
    IN  /\ pc[p] = "updateRole"
        /\ LastOnRole(p, IF role[r] = Gone THEN role
                            ELSE [role EXCEPT ![r] = req[p].arg.name], {})

\* An account refers to its role without a cascade.
DeleteRole(p) ==
    LET r == req[p].arg.role
        held == \E u \in Users : account[u] # Gone /\ account[u].role = r
    IN  /\ pc[p] = "deleteRole"
        /\ LastOnRole(p, IF held THEN role ELSE [role EXCEPT ![r] = Gone], {})

InsertPermission(p) ==
    /\ pc[p] = "insertPermission"
    /\ \E n \in NextOf(PermissionIds) :
          /\ permission' = permission \cup {n}
          /\ born' = born \cup {n}
    /\ Answer(p)
    /\ UNCHANGED <<account, login, tokens, role, processVars, worldVars, historyVars>>

\* What users hold goes with the permission, what roles hold stops it.
DeletePermission(p) ==
    LET n == req[p].arg.permission
    IN  /\ pc[p] = "deletePermission"
        /\ IF n \in OfRoles
              THEN UNCHANGED <<permission, account>>
              ELSE /\ permission' = permission \ {n}
                   /\ account' = [u \in Users |->
                         IF account[u] = Gone THEN Gone
                            ELSE [account[u] EXCEPT !.permissions = @ \ {n}]]
        /\ Answer(p)
        /\ UNCHANGED <<login, tokens, role, born, processVars, worldVars, historyVars>>

\* assignPermissionToUser and assignRoleToUser read the account, then what is
\* assigned.  The controller awaits neither: an error ends the process.
IsGrant(p) == req[p].handler = "assignPermissionToUser"

ReadAccount(p) ==
    /\ pc[p] = "readAccount"
    /\ account[whom[p]] # Gone
    /\ entity' = [entity EXCEPT ![p] = account[whom[p]]]
    /\ GoTo(p, "readAssigned")
    /\ UNCHANGED <<tableVars, req, whom, shown, signed, diff, processVars, worldVars,
                   historyVars>>

AssignedFound(p) ==
    IF IsGrant(p) THEN req[p].arg.permission \in permission ELSE role[req[p].arg.role] # Gone

ReadAssigned(p) ==
    /\ pc[p] = "readAssigned"
    /\ AssignedFound(p)
    /\ GoTo(p, "diff")
    /\ UNCHANGED <<tableVars, requestVars, processVars, worldVars, historyVars>>

\* save() selects the row again and notes what differs from the object: the
\* columns others changed since, the permissions added, and those others
\* granted, which it will take away.  A row that has gone it will insert.
DiffAgainst(e, r, arg, grant) ==
    LET want == IF grant THEN e.permissions \cup {arg.permission} ELSE r.permissions
    IN  [insert  |-> FALSE,
         columns |-> (IF e.profile # r.profile THEN {"profile"} ELSE {}) \cup
                     (IF e.role # r.role \/ (~grant /\ arg.role # r.role) THEN {"role"} ELSE {}),
         roleOf  |-> IF grant THEN e.role ELSE arg.role,
         add     |-> want \ r.permissions,
         remove  |-> r.permissions \ want]

SelectForSave(p) ==
    LET r == account[whom[p]]
    IN  /\ pc[p] = "diff"
        /\ diff' = [diff EXCEPT ![p] =
              IF r = Gone
                 THEN [NoDiff EXCEPT !.insert = TRUE,
                                     !.roleOf = IF IsGrant(p) THEN entity[p].role
                                                              ELSE req[p].arg.role,
                                     !.add = IF IsGrant(p)
                                                THEN entity[p].permissions \cup
                                                        {req[p].arg.permission}
                                                ELSE {}]
                 ELSE DiffAgainst(entity[p], r, req[p].arg, IsGrant(p))]
        /\ GoTo(p, "save")
        /\ UNCHANGED <<tableVars, req, whom, shown, signed, entity, processVars, worldVars,
                       historyVars>>

\* What the transaction of save() makes of the row.  Of two values for role_id,
\* the one read and the one assigned, either may be written.
SavedAccount(e, r, d, newRole) ==
    [role        |-> IF d.insert \/ "role" \in d.columns THEN newRole ELSE r.role,
     permissions |-> ((IF d.insert THEN {} ELSE r.permissions) \ d.remove) \cup d.add,
     profile     |-> IF d.insert \/ "profile" \in d.columns THEN e.profile ELSE r.profile]

RolesToWrite(p) == {diff[p].roleOf} \cup
    (IF ~diff[p].insert /\ entity[p].role # account[whom[p]].role THEN {entity[p].role} ELSE {})

\* A key that is there twice, or refers to nothing.
SaveBreaks(p, r) ==
    \/ diff[p].insert /\ account[whom[p]] # Gone
    \/ ~diff[p].insert /\ account[whom[p]] = Gone /\ diff[p].add # {}
    \/ diff[p].add \ permission # {}
    \/ ~diff[p].insert /\ account[whom[p]] # Gone
          /\ diff[p].add \cap account[whom[p]].permissions # {}
    \/ (diff[p].insert \/ "role" \in diff[p].columns) /\ role[r] = Gone

Save(p) ==
    LET u == whom[p]
        lost == ~diff[p].insert /\ account[u] = Gone
    IN  /\ pc[p] = "save"
        /\ \E r \in IF lost THEN {diff[p].roleOf} ELSE RolesToWrite(p) :
              /\ ~SaveBreaks(p, r)
              /\ LastOnAccount(p, IF lost THEN account
                    ELSE [account EXCEPT ![u] = SavedAccount(entity[p], account[u], diff[p], r)])

\* An error of an assignment is an unhandled rejection.
AssignmentBreaks(p) ==
    /\ \/ pc[p] = "readAccount" /\ account[whom[p]] = Gone
       \/ pc[p] = "readAssigned" /\ ~AssignedFound(p)
       \/ pc[p] = "save" /\ SaveBreaks(p, diff[p].roleOf)
    /\ Ends
    /\ UNCHANGED used

-----------------------------------------------------------------------------
(* The jobs of midnight, time and crashes                                    *)

Midnight ==
    /\ used.midnights < offered.midnights
    /\ due' = Jobs
    /\ used' = [used EXCEPT !.midnights = @ + 1]
    /\ UNCHANGED <<tableVars, pc, requestVars, processVars, mails, issued, clock, offered,
                   historyVars>>

clearExpiredTokens(rows, now) == {t \in rows : ~(t.token + RefreshLife < now \/ t.revoked)}

Older(at, now) == at = Never \/ at + ActiveLife < now
Newer(at, now) == at # Never /\ at + ActiveLife > now

\* Mutant: either timestamp is enough.
clearInactiveUsersEither(rows, now) ==
    [u \in Users |->
        IF rows[u] # Gone /\ (Older(rows[u].activityAt, now) \/ Older(rows[u].loginAt, now))
           THEN [rows[u] EXCEPT !.status = "INACTIVE"] ELSE rows[u]]

clearInactiveUsers(rows, now) ==
    [u \in Users |->
        IF rows[u] # Gone /\ Older(rows[u].activityAt, now) /\ Older(rows[u].loginAt, now)
           THEN [rows[u] EXCEPT !.status = "INACTIVE"] ELSE rows[u]]

setActiveUsers(rows, now) ==
    [u \in Users |->
        IF rows[u] # Gone /\ (Newer(rows[u].activityAt, now) \/ Newer(rows[u].loginAt, now))
           THEN [rows[u] EXCEPT !.status = "ACTIVE"] ELSE rows[u]]

Job(j) ==
    /\ j \in due
    /\ due' = due \ {j}
    /\ tokens' = IF j = "clear_expired_tokens" THEN clearExpiredTokens(tokens, clock) ELSE tokens
    /\ login' = CASE j = "clear_inactive_users" -> clearInactiveUsers(login, clock)
                  [] j = "set_active_users" -> setActiveUsers(login, clock)
                  [] OTHER -> login
    /\ ended' = [u \in Users |->
          IF \E t \in tokens \ tokens' : t.user = u /\ ~t.revoked THEN ended[u] + 1 ELSE ended[u]]
    /\ UNCHANGED <<account, role, permission, born, pc, requestVars, processVars, mails, issued,
                   clock, offered, used, saw, redeemed, wrong>>

Tick ==
    /\ clock < offered.time
    /\ clock' = clock + 1
    /\ UNCHANGED <<tableVars, pc, requestVars, processVars, mails, issued, due, offered, used,
                   historyVars>>

Crash ==
    /\ used.crashes < offered.crashes
    /\ used' = [used EXCEPT !.crashes = @ + 1]
    /\ Ends

-----------------------------------------------------------------------------
Session(p) ==
    \/ Verify(p) \/ VerifyFails(p) \/ WriteCode(p)
    \/ CodeAccepted(p) \/ CodeWrong(p) \/ CodeLocked(p) \/ CodeUnknown(p)
    \/ ReadToken(p) \/ ReadTokenFails(p) \/ FindToken(p)
    \/ InsertToken(p) \/ InsertTokenFails(p) \/ UpdateToken(p)
    \/ StampLogin(p) \/ StampActivity(p) \/ Revoke(p)

Mailed(p) ==
    \/ ReadAddress(p) \/ ReadAddressFails(p) \/ WriteRecovery(p) \/ WriteConfirmation(p)
    \/ ReadRecovery(p) \/ ReadConfirmation(p) \/ MailedTokenRefused(p)
    \/ RedeemRecovery(p) \/ RedeemConfirmation(p)

Administer(p) ==
    \/ FindRole(p) \/ FindRoleFails(p) \/ InsertUser(p) \/ ReadOwn(p) \/ Deactivate(p) \/ UpdateProfile(p)
    \/ UpdateLoginRow(p) \/ UpdateUser(p) \/ DeleteUser(p) \/ DeleteLogin(p) \/ SaveLogin(p)

Assign(p) ==
    \/ InsertRole(p) \/ UpdateRole(p) \/ DeleteRole(p)
    \/ InsertPermission(p) \/ DeletePermission(p)
    \/ ReadAccount(p) \/ ReadAssigned(p) \/ SelectForSave(p) \/ Save(p) \/ AssignmentBreaks(p)

\* The workload is done.
Terminating ==
    /\ \A p \in Procs : pc[p] = "idle"
    /\ used.requests = offered.count
    /\ background = {} /\ due = {}
    /\ UNCHANGED vars

Next ==
    \/ \E p \in Procs : \/ \E r \in offered.requests : Start(p, r)
                        \/ Guard(p) \/ Session(p) \/ Mailed(p) \/ Administer(p) \/ Assign(p)
    \/ \E w \in background : WriteInBackground(w)
    \/ Midnight \/ (\E j \in Jobs : Job(j)) \/ Tick \/ Crash
    \/ Terminating

Spec == Init /\ [][Next]_vars
-----------------------------------------------------------------------------
(* Properties                                                                *)

Steps == {FirstStep[h] : h \in DOMAIN FirstStep} \cup
    {"idle", "guard", "findToken", "insertToken", "updateToken", "writeCode", "stampLogin",
     "stampActivity", "writeRecovery", "writeConfirmation", "redeemRecovery",
     "redeemConfirmation", "insertUser", "deactivate", "readAssigned", "diff", "save"}

\* Types, and what the foreign keys of the tables promise.
TypeOK ==
    /\ account \in [Users -> Account \cup {Gone}]
    /\ login \in [Users -> Login \cup {Gone}]
    /\ tokens \subseteq Token
    /\ role \in [RoleIds -> RoleNames \cup {Gone}]
    /\ permission \subseteq PermissionIds
    /\ born \subseteq Ids
    /\ pc \in [Procs -> Steps]
    /\ req \in [Procs -> Request \cup {None}]
    /\ whom \in [Procs -> Users \cup {None}]
    /\ shown \in [Procs -> Nat]
    /\ signed \in [Procs -> Times]
    /\ entity \in [Procs -> Account \cup {Gone}]
    /\ diff \in [Procs -> Diff]
    /\ background \subseteq Write
    /\ otp \in {"login", "default"}
    /\ mails \in Nat
    /\ issued \in [Users -> SUBSET Times]
    /\ clock \in Times
    /\ due \subseteq Jobs
    /\ offered \in Workloads
    /\ used \in [requests: Nat, midnights: Nat, crashes: Nat]
    /\ ended \in [Users -> Nat]
    /\ saw \in [Procs -> Nat]
    /\ redeemed \subseteq 1..mails
    /\ wrong \in [Users -> Nat]

Inserting(u, d) == {p \in Procs : pc[p] = "insertToken" /\ whom[p] = u
                                     /\ req[p].arg.device = d}

\* createUserToken looks for the row of a device and inserts it in two
\* statements: sign-ins that overlap leave several rows, but never more than
\* run at a time, however many sign-ins there are.
RowsPerDeviceBounded ==
    \A u \in Users, d \in Devices :
        Cardinality(TokensOf(u, d)) + Cardinality(Inserting(u, d)) <= Cardinality(Procs)

\* A session that a logout, or the job, ended comes back by a refresh only if
\* the refresh had verified its token before that: whoever refreshes later is
\* refused.
RefreshRevivesOnlyByOverlap ==
    [][\A p \in Procs, u \in Users, d \in Devices :
          (/\ pc[p] \in {"insertToken", "updateToken"}
           /\ req[p].handler = "refreshToken"
           /\ whom[p] = u /\ req[p].arg.device = d
           /\ ~Live(u, d) /\ Live(u, d)')
             => ended[u] > saw[p]]_vars

\* A mailed token that changed a password or confirmed an address has left the
\* row for good: only requests that had compared it before can use it again.
\* A later mail, or another request's update, must not bring it back.
RedeemedTokensAreGone ==
    \A u \in Users : login[u] # Gone =>
        login[u].recovery \notin redeemed /\ login[u].confirmation \notin redeemed

\* The attempts are counted by updates nobody awaits, from values that may be
\* old: nobody is locked out who did not give as many wrong codes, and the
\* count stops where loginM2fa refuses.
SecondFactorLock ==
    \A u \in Users : login[u] # Gone =>
        /\ login[u].attempts <= wrong[u]
        /\ login[u].attempts <= 4

\* Nothing refers to a row that is gone: a sign-in, an assignment or a
\* registration that overlaps a deletion fails and leaves the tables whole.
NoOrphanRows ==
    /\ \A u \in Users :
          /\ account[u] = Gone => login[u] = Gone /\ \A t \in tokens : t.user # u
          /\ account[u] # Gone => /\ role[account[u].role] # Gone
                                  /\ account[u].permissions \subseteq permission
    /\ \A u, v \in Users :
          login[u] # Gone /\ login[v] # Gone /\ login[u].email = login[v].email => u = v

\* createUser makes the account and its login data, or neither: also when the
\* address was taken or the role deleted after the request had looked.
CreatedWhole ==
    [][\A u \in Users :
          u \notin born => (account'[u] # Gone <=> login'[u] # Gone)]_vars

\* The jobs of midnight run at once and in no order.  Whatever the order, a user
\* seen within 30 days ends ACTIVE and one not seen for longer INACTIVE.
MidnightJobsAgree ==
    LET one   == setActiveUsers(clearInactiveUsers(login, clock), clock)
        other == clearInactiveUsers(setActiveUsers(login, clock), clock)
        last(u) == {t \in {login[u].activityAt, login[u].loginAt} : t # Never}
    IN  /\ one = other
        /\ \A u \in Users : login[u] # Gone =>
              /\ (\E t \in last(u) : clock < t + ActiveLife) => one[u].status = "ACTIVE"
              /\ (\A t \in last(u) : clock > t + ActiveLife) => one[u].status = "INACTIVE"
=============================================================================
