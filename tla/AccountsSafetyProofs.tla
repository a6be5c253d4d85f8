------------------------ MODULE AccountsSafetyProofs ------------------------
(***************************************************************************)
(* The safety properties of Accounts, for every value of its constants.     *)
(* TypeInv is the invariant of AccountsProofs.                              *)
(***************************************************************************)
EXTENDS AccountsProofs

-----------------------------------------------------------------------------
(* How a request comes to the statements the properties are about.           *)

RefreshSteps == {"stampActivity", "findToken", "insertToken", "updateToken"}
AssignSteps  == {"readAssigned", "diff", "save"}

\* Statements of a sign-in or of a logout.
NotRefreshing(p) ==
    pc[p] \in {"verify", "readCode", "revoke", "stampLogin"} =>
        req[p].handler # "refreshToken"

Follows(p) ==
    /\ pc'[p] = "insertToken" =>
          /\ pc[p] = "insertToken" \/ FindToken(p)
          /\ whom'[p] = whom[p] /\ req'[p] = req[p]
    /\ pc'[p] \in RefreshSteps /\ req'[p].handler = "refreshToken" =>
          \/ ReadToken(p)
          \/ /\ pc[p] \in RefreshSteps
             /\ whom'[p] = whom[p] /\ req'[p] = req[p] /\ saw'[p] = saw[p]
    /\ pc'[p] = "redeemRecovery" =>
          \/ ReadRecovery(p)
          \/ pc'[p] = pc[p] /\ whom'[p] = whom[p] /\ shown'[p] = shown[p]
    /\ pc'[p] = "redeemConfirmation" =>
          \/ ReadConfirmation(p)
          \/ pc'[p] = pc[p] /\ whom'[p] = whom[p] /\ shown'[p] = shown[p]
    /\ pc'[p] \in AssignSteps =>
          \/ ReadAccount(p)
          \/ pc[p] \in AssignSteps /\ whom'[p] = whom[p]
    /\ NotRefreshing(p)'

Paths == TypeInv /\ \A p \in Procs : NotRefreshing(p)

LEMMA FirstStepsPath ==
    ASSUME NEW r \in Request
    PROVE  /\ FirstStep[r.handler] \notin RefreshSteps \cup AssignSteps
           /\ FirstStep[r.handler] \in {"verify", "readCode", "revoke", "stampLogin"} =>
                 r.handler # "refreshToken"
  <1>1. r.handler \in DOMAIN FirstStep  BY DEF Request
  <1>2. QED  BY <1>1 DEF FirstStep, RefreshSteps, AssignSteps

LEMMA AnsweredFollows ==
    ASSUME Paths, NEW p \in Procs, Answer(p), UNCHANGED saw, NEW q \in Procs
    PROVE  Follows(q)
  BY DEF Paths, TypeInv, RequestTypes, Answer, Follows, NotRefreshing, RefreshSteps, AssignSteps

LEMMA EndsFollows ==
    ASSUME Paths, Ends, NEW q \in Procs
    PROVE  Follows(q)
  BY DEF Ends, Follows, NotRefreshing, RefreshSteps, AssignSteps

LEMMA QuietFollows ==
    ASSUME Paths, UNCHANGED <<pc, requestVars, saw>>, NEW q \in Procs
    PROVE  Follows(q)
  BY DEF Paths, Follows, NotRefreshing, requestVars

LEMMA SessionFollows ==
    ASSUME Paths, NEW p \in Procs, Session(p), NEW q \in Procs
    PROVE  Follows(q)
  <1> USE DEF Paths, TypeInv, RequestTypes
  <1>1. CASE Verify(p)
    BY <1>1 DEF Verify, GoTo, historyVars, Follows, NotRefreshing, RefreshSteps, AssignSteps
  <1>2. CASE CodeAccepted(p)
    BY <1>2 DEF CodeAccepted, GoTo, historyVars, Follows, NotRefreshing, RefreshSteps, AssignSteps
  <1>3. CASE ReadToken(p)
    <2>1. CASE q = p
      BY <1>3, <2>1 DEF ReadToken, GoTo, Follows, NotRefreshing, RefreshSteps, AssignSteps
    <2>2. CASE q # p
      <3>1. /\ pc'[q] = pc[q] /\ req'[q] = req[q] /\ whom'[q] = whom[q]
            /\ shown'[q] = shown[q]
        BY <1>3, <2>2 DEF ReadToken, GoTo
      <3>2. saw'[q] = saw[q]
        BY <1>3, <2>2 DEF ReadToken, WorldTypes
      <3>3. QED  BY <3>1, <3>2 DEF Follows, NotRefreshing
    <2>3. QED  BY <2>1, <2>2
  <1>4. CASE FindToken(p)
    <2>1. CASE q = p
      BY <1>4, <2>1 DEF FindToken, GoTo, requestVars, historyVars, Follows, NotRefreshing,
         RefreshSteps, AssignSteps
    <2>2. CASE q # p
      BY <1>4, <2>2 DEF FindToken, GoTo, requestVars, historyVars, Follows, NotRefreshing
    <2>3. QED  BY <2>1, <2>2
  <1>5. CASE InsertToken(p) \/ UpdateToken(p)
    <2>1. CASE req[p].handler = "login"
      BY <1>5, <2>1 DEF InsertToken, UpdateToken, TokenStored, GoTo, requestVars, historyVars,
         Follows, NotRefreshing, RefreshSteps, AssignSteps
    <2>2. CASE req[p].handler # "login"
      BY <1>5, <2>2, AnsweredFollows DEF InsertToken, UpdateToken, TokenStored, historyVars
    <2>3. QED  BY <2>1, <2>2
  <1>6. CASE StampLogin(p)
    <2>1. CASE req[p].handler = "login"
      BY <1>6, <2>1, AnsweredFollows DEF StampLogin, historyVars
    <2>2. CASE req[p].handler # "login"
      BY <1>6, <2>2 DEF StampLogin, GoTo, requestVars, historyVars, Follows, NotRefreshing,
         RefreshSteps, AssignSteps
    <2>3. QED  BY <2>1, <2>2
  <1>7. CASE StampActivity(p)
    <2>1. CASE req[p].handler = "logout"
      BY <1>7, <2>1, AnsweredFollows DEF StampActivity, historyVars
    <2>2. CASE req[p].handler # "logout"
      BY <1>7, <2>2 DEF StampActivity, GoTo, requestVars, historyVars, Follows, NotRefreshing,
         RefreshSteps, AssignSteps
    <2>3. QED  BY <2>1, <2>2
  <1>8. CASE Revoke(p)
    BY <1>8 DEF Revoke, GoTo, requestVars, Follows, NotRefreshing, RefreshSteps, AssignSteps
  <1>9. CASE \/ VerifyFails(p) \/ WriteCode(p) \/ CodeWrong(p) \/ CodeLocked(p)
             \/ CodeUnknown(p) \/ ReadTokenFails(p) \/ InsertTokenFails(p)
    BY <1>9, AnsweredFollows DEF VerifyFails, WriteCode, CodeWrong, CodeLocked, CodeUnknown,
       ReadTokenFails, InsertTokenFails, historyVars
  <1>10. QED
    BY <1>1, <1>2, <1>3, <1>4, <1>5, <1>6, <1>7, <1>8, <1>9 DEF Session

LEMMA MailedFollows ==
    ASSUME Paths, NEW p \in Procs, Mailed(p), NEW q \in Procs
    PROVE  Follows(q)
  <1>1. CASE ReadAddress(p)
    BY <1>1 DEF ReadAddress, GoTo, historyVars, Follows, NotRefreshing, RefreshSteps,
       AssignSteps, Paths, TypeInv, RequestTypes
  <1>2. CASE ReadRecovery(p)
    <2>1. CASE q = p
      BY <1>2, <2>1 DEF ReadRecovery, GoTo, Follows, NotRefreshing, RefreshSteps,
         AssignSteps, Paths, TypeInv, RequestTypes
    <2>2. CASE q # p
      BY <1>2, <2>2 DEF ReadRecovery, GoTo, historyVars, Follows, NotRefreshing, Paths, TypeInv,
         RequestTypes
    <2>3. QED  BY <2>1, <2>2
  <1>3. CASE ReadConfirmation(p)
    <2>1. CASE q = p
      BY <1>3, <2>1 DEF ReadConfirmation, GoTo, Follows, NotRefreshing, RefreshSteps,
         AssignSteps, Paths, TypeInv, RequestTypes
    <2>2. CASE q # p
      BY <1>3, <2>2 DEF ReadConfirmation, GoTo, historyVars, Follows, NotRefreshing, Paths,
         TypeInv, RequestTypes
    <2>3. QED  BY <2>1, <2>2
  <1>4. CASE \/ ReadAddressFails(p) \/ MailedTokenRefused(p) \/ WriteRecovery(p)
             \/ WriteConfirmation(p) \/ RedeemRecovery(p) \/ RedeemConfirmation(p)
    BY <1>4, AnsweredFollows DEF ReadAddressFails, MailedTokenRefused, WriteRecovery,
       WriteConfirmation, RedeemRecovery, RedeemConfirmation, Redeem, historyVars
  <1>5. QED  BY <1>1, <1>2, <1>3, <1>4 DEF Mailed

LEMMA AdministerFollows ==
    ASSUME Paths, NEW p \in Procs, Administer(p), NEW q \in Procs
    PROVE  Follows(q)
  <1>1. CASE FindRole(p)
    BY <1>1 DEF FindRole, GoTo, historyVars, Follows, NotRefreshing, RefreshSteps,
       AssignSteps, Paths, TypeInv, RequestTypes
  <1>2. CASE ReadOwn(p)
    <2>1. CASE Answer(p)
      BY <1>2, <2>1, AnsweredFollows DEF ReadOwn, historyVars
    <2>2. CASE ~Answer(p)
      BY <1>2, <2>2 DEF ReadOwn, GoTo, requestVars, historyVars, Follows, NotRefreshing,
         RefreshSteps, AssignSteps, Paths, TypeInv, RequestTypes
    <2>3. QED  BY <2>1, <2>2
  <1>3. CASE ~FindRole(p) /\ ~ReadOwn(p)
    BY <1>3, AnsweredFollows DEF Administer, FindRoleFails, InsertUser, Deactivate,
       UpdateProfile, UpdateLoginRow, UpdateUser, DeleteUser, DeleteLogin, SaveLogin,
       LastOnLogin, LastOnAccount, historyVars
  <1>4. QED  BY <1>1, <1>2, <1>3

LEMMA AssignFollows ==
    ASSUME Paths, NEW p \in Procs, Assign(p), NEW q \in Procs
    PROVE  Follows(q)
  <1>1. CASE ReadAccount(p)
    <2>1. CASE q = p
      BY <1>1, <2>1 DEF ReadAccount, GoTo, Follows, NotRefreshing, RefreshSteps,
         AssignSteps, Paths, TypeInv, RequestTypes
    <2>2. CASE q # p
      BY <1>1, <2>2 DEF ReadAccount, GoTo, historyVars, Follows, NotRefreshing, Paths, TypeInv,
         RequestTypes
    <2>3. QED  BY <2>1, <2>2
  <1>2. CASE ReadAssigned(p)
    BY <1>2 DEF ReadAssigned, GoTo, requestVars, historyVars, Follows, NotRefreshing,
       RefreshSteps, AssignSteps, Paths, TypeInv, RequestTypes
  <1>3. CASE SelectForSave(p)
    <2>1. /\ pc[p] = "diff" /\ GoTo(p, "save")
          /\ UNCHANGED <<req, whom, shown, saw>>
      BY <1>3 DEF SelectForSave, historyVars
    <2>2. QED
      BY <2>1 DEF GoTo, Follows, NotRefreshing, RefreshSteps, AssignSteps, Paths, TypeInv,
         RequestTypes
  <1>4. CASE AssignmentBreaks(p)
    BY <1>4, EndsFollows DEF AssignmentBreaks
  <1>5. CASE InsertRole(p) \/ UpdateRole(p) \/ DeleteRole(p) \/ InsertPermission(p)
             \/ DeletePermission(p) \/ Save(p)
    BY <1>5, AnsweredFollows DEF InsertRole, UpdateRole, DeleteRole, LastOnRole,
       InsertPermission, DeletePermission, Save, LastOnAccount, historyVars
  <1>6. QED  BY <1>1, <1>2, <1>3, <1>4, <1>5 DEF Assign

LEMMA ArrivalFollows ==
    ASSUME Paths, NEW p \in Procs, (\E r \in offered.requests : Start(p, r)) \/ Guard(p),
           NEW q \in Procs
    PROVE  Follows(q)
  <1>1. CASE \E r \in offered.requests : Start(p, r)
    <2>1. PICK r \in offered.requests : Start(p, r)  BY <1>1
    <2> DEFINE next == IF NeedsUser(Route(r.handler)) THEN "guard" ELSE FirstStep[r.handler]
    <2>2. r \in Request
      BY ConstantsAssumption DEF IsWorkload, Paths, TypeInv, WorldTypes
    <2>3. /\ next \notin RefreshSteps \cup AssignSteps
          /\ next \notin {"redeemRecovery", "redeemConfirmation"}
          /\ next \in {"verify", "readCode", "revoke", "stampLogin"} =>
                r.handler # "refreshToken"
      BY <2>2, FirstSteps, FirstStepsPath DEF RefreshSteps, AssignSteps
    <2>4. /\ pc' = [pc EXCEPT ![p] = next] /\ req' = [req EXCEPT ![p] = r]
          /\ whom' = [whom EXCEPT ![p] = r.user] /\ UNCHANGED <<shown, saw>>
      BY <2>1 DEF Start, GoTo, historyVars
    <2> HIDE DEF next
    <2>5. QED
      BY <2>3, <2>4 DEF Follows, NotRefreshing, RefreshSteps, AssignSteps, Paths, TypeInv,
         RequestTypes
  <1>2. CASE Guard(p) /\ Passes(req[p])
    <2> DEFINE next == FirstStep[req[p].handler]
    <2>1. req[p] \in Request  BY <1>2 DEF Guard, Paths, TypeInv, Holds
    <2>2. /\ next \notin RefreshSteps \cup AssignSteps
          /\ next \notin {"redeemRecovery", "redeemConfirmation"}
          /\ next \in {"verify", "readCode", "revoke", "stampLogin"} =>
                req[p].handler # "refreshToken"
      BY <2>1, FirstSteps, FirstStepsPath DEF RefreshSteps, AssignSteps
    <2>3. pc' = [pc EXCEPT ![p] = next] /\ UNCHANGED <<req, whom, shown, saw>>
      BY <1>2 DEF Guard, GoTo, requestVars, historyVars
    <2> HIDE DEF next
    <2>4. QED
      BY <2>2, <2>3 DEF Follows, NotRefreshing, RefreshSteps, AssignSteps, Paths, TypeInv,
         RequestTypes
  <1>3. CASE Guard(p) /\ ~Passes(req[p])
    BY <1>3, AnsweredFollows DEF Guard, historyVars
  <1>4. QED  BY <1>1, <1>2, <1>3

LEMMA FollowsStep ==
    ASSUME Paths, [Next]_vars, NEW q \in Procs
    PROVE  Follows(q)
  <1>1. CASE \E p \in Procs : (\E r \in offered.requests : Start(p, r)) \/ Guard(p) \/ Session(p)
                                \/ Mailed(p) \/ Administer(p) \/ Assign(p)
    BY <1>1, ArrivalFollows, SessionFollows, MailedFollows, AdministerFollows, AssignFollows
  <1>2. CASE \/ \E w \in background : WriteInBackground(w)
             \/ Midnight \/ (\E j \in Jobs : Job(j)) \/ Tick
    BY <1>2, QuietFollows DEF WriteInBackground, Midnight, Job, Tick, worldVars, historyVars
  <1>3. CASE Crash
    BY <1>3, EndsFollows DEF Crash
  <1>4. CASE Terminating \/ UNCHANGED vars
    BY <1>4, QuietFollows DEF Terminating, vars, worldVars, historyVars
  <1>5. QED
    BY <1>1, <1>2, <1>3, <1>4 DEF Next

LEMMA PathsInvariant == Spec => []Paths
  <1>1. Init => \A p \in Procs : NotRefreshing(p)
    BY DEF Init, NotRefreshing
  <1>2. ASSUME Paths, [Next]_vars
        PROVE  \A p \in Procs : NotRefreshing(p)'
    BY <1>2, FollowsStep DEF Follows
  <1>3. ASSUME Paths, [Next]_vars
        PROVE  Paths'
    BY <1>2, <1>3, TypeStep DEF Paths
  <1>4. Init => Paths
    BY <1>1, TypeInit DEF Paths
  <1>5. QED  BY <1>3, <1>4, PTL DEF Spec

-----------------------------------------------------------------------------
(* The jobs of midnight                                                      *)

\* What the two jobs that write statuses make of one row.
LEMMA JobsOnRow ==
    ASSUME TypeInv, NEW u \in Users
    PROVE  LET one   == setActiveUsers(clearInactiveUsers(login, clock), clock)
               other == clearInactiveUsers(setActiveUsers(login, clock), clock)
               last  == {t \in {login[u].activityAt, login[u].loginAt} : t # Never}
           IN  /\ one[u] = other[u]
               /\ login[u] # Gone =>
                     /\ (\E t \in last : clock < t + ActiveLife) => one[u].status = "ACTIVE"
                     /\ (\A t \in last : clock > t + ActiveLife) => one[u].status = "INACTIVE"
  <1> DEFINE row == login[u]
             old == Older(row.activityAt, clock) /\ Older(row.loginAt, clock)
             new == Newer(row.activityAt, clock) \/ Newer(row.loginAt, clock)
             asleep == [row EXCEPT !.status = "INACTIVE"]
             awake  == [row EXCEPT !.status = "ACTIVE"]
             one == setActiveUsers(clearInactiveUsers(login, clock), clock)
             other == clearInactiveUsers(setActiveUsers(login, clock), clock)
  <1>1. login \in [Users -> Login \cup {Gone}]
    BY DEF TypeInv, TableTypes
  <1>2. CASE row = Gone
    BY <1>2 DEF setActiveUsers, clearInactiveUsers
  <1>3. CASE row # Gone
    <2>1. row \in Login  BY <1>1, <1>3
    <2>2. /\ row.activityAt \in Stamp /\ row.loginAt \in Stamp
          /\ asleep \in Login /\ awake \in Login
          /\ asleep.status = "INACTIVE" /\ awake.status = "ACTIVE"
          /\ asleep.activityAt = row.activityAt /\ asleep.loginAt = row.loginAt
          /\ awake.activityAt = row.activityAt /\ awake.loginAt = row.loginAt
      BY <2>1 DEF Login
    <2>3. asleep # Gone /\ awake # Gone
      BY <2>2, ConstantsAssumption
    <2>4. /\ \A t \in Stamp : t # Never => t \in Int
          /\ clock \in Int /\ ActiveLife \in Int
      BY ConstantsAssumption DEF Stamp, Times, TypeInv, WorldTypes
    <2>5. ~(old /\ new)
      BY <2>2, <2>4 DEF Older, Newer
    <2> HIDE DEF old, new, asleep, awake, row
    <2>6. one[u] = IF new THEN awake ELSE IF old THEN asleep ELSE row
      <3>1. clearInactiveUsers(login, clock)[u] = IF old THEN asleep ELSE row
        BY <1>3 DEF clearInactiveUsers, old, asleep, row
      <3>2. CASE old
        BY <2>2, <2>3, <2>5, <3>1, <3>2 DEF setActiveUsers, new, old
      <3>3. CASE ~old
        BY <1>3, <3>1, <3>3 DEF setActiveUsers, new, awake, row
      <3>4. QED  BY <3>2, <3>3
    <2>7. other[u] = IF new THEN awake ELSE IF old THEN asleep ELSE row
      <3>1. setActiveUsers(login, clock)[u] = IF new THEN awake ELSE row
        BY <1>3 DEF setActiveUsers, new, awake, row
      <3>2. CASE new
        BY <2>2, <2>3, <2>5, <3>1, <3>2 DEF clearInactiveUsers, new, old
      <3>3. CASE ~new
        BY <1>3, <3>1, <3>3 DEF clearInactiveUsers, old, asleep, row
      <3>4. QED  BY <3>2, <3>3
    <2> HIDE DEF one, other
    <2> DEFINE last == {t \in {row.activityAt, row.loginAt} : t # Never}
    <2>8. (\E t \in last : clock < t + ActiveLife) => new
      BY <2>2, <2>4 DEF new, Newer
    <2>9. (\A t \in last : clock > t + ActiveLife) => old /\ ~new
      BY <2>2, <2>4 DEF new, old, Newer, Older
    <2> HIDE DEF last
    <2>10. /\ one[u] = other[u]
           /\ (\E t \in last : clock < t + ActiveLife) => one[u].status = "ACTIVE"
           /\ (\A t \in last : clock > t + ActiveLife) => one[u].status = "INACTIVE"
      BY <2>2, <2>6, <2>7, <2>8, <2>9
    <2>11. QED  BY <2>10 DEF one, other, last, row
  <1>4. QED  BY <1>2, <1>3

\* The result of the jobs of midnight does not depend on their order, and each
\* user ends with the status its last sign-in or request gives.
THEOREM MidnightJobs == Spec => []MidnightJobsAgree
  <1>1. TypeInv => MidnightJobsAgree
    <2> SUFFICES ASSUME TypeInv  PROVE MidnightJobsAgree
      OBVIOUS
    <2> DEFINE one   == setActiveUsers(clearInactiveUsers(login, clock), clock)
               other == clearInactiveUsers(setActiveUsers(login, clock), clock)
    <2>1. one = other
      <3>1. /\ one = [u \in Users |-> one[u]]
            /\ other = [u \in Users |-> other[u]]
        BY DEF setActiveUsers, clearInactiveUsers
      <3>2. \A u \in Users : one[u] = other[u]
        BY JobsOnRow
      <3> HIDE DEF one, other
      <3>3. QED  BY <3>1, <3>2
    <2>2. QED  BY <2>1, JobsOnRow DEF MidnightJobsAgree
  <1>2. QED  BY <1>1, TypeInvariant, PTL

-----------------------------------------------------------------------------
(* The rows of user_login_data: attempts and mailed tokens                   *)

\* Statements that may write an attempt or a mailed token.
Marking ==
    \/ \E p \in Procs : \/ WriteCode(p) \/ WriteRecovery(p) \/ WriteConfirmation(p)
                        \/ RedeemRecovery(p) \/ RedeemConfirmation(p)
    \/ \E w \in background : WriteInBackground(w)

\* A row that keeps both, or is new and has none.
Plain(u) ==
    login'[u] # Gone =>
        \/ /\ login[u] # Gone
           /\ login'[u].attempts = login[u].attempts
           /\ login'[u].recovery = login[u].recovery
           /\ login'[u].confirmation = login[u].confirmation
        \/ login'[u].attempts = 0 /\ login'[u].recovery = 0 /\ login'[u].confirmation = 0

LEMMA QuietPlain ==
    ASSUME UNCHANGED login, NEW u \in Users
    PROVE  Plain(u)
  BY DEF Plain

\* A row that is written with other columns than these.
LEMMA RowPlain ==
    ASSUME TypeInv, NEW v, NEW row, login' = [login EXCEPT ![v] = row],
           v \in Users => \/ row = Gone
                          \/ /\ login[v] # Gone
                             /\ row.attempts = login[v].attempts
                             /\ row.recovery = login[v].recovery
                             /\ row.confirmation = login[v].confirmation
                          \/ row.attempts = 0 /\ row.recovery = 0 /\ row.confirmation = 0,
           NEW u \in Users
    PROVE  Plain(u)
  BY DEF Plain, TypeInv, TableTypes

LEMMA AdministerPlain ==
    ASSUME TypeInv, NEW p \in Procs, Administer(p), NEW u \in Users
    PROVE  Plain(u)
  <1> DEFINE v == whom[p]
  <1>1. v \in Users /\ login[v] # Gone => login[v] \in Login
    BY DEF TypeInv, TableTypes
  <1>2. \A e, x, c : /\ NewLogin(e, x, c).attempts = 0
                     /\ NewLogin(e, x, c).recovery = 0 /\ NewLogin(e, x, c).confirmation = 0
    BY DEF NewLogin
  <1>3. CASE InsertUser(p)
    <2>1. PICK w \in NextOf(Users) : \E row :
             /\ login' = login \/ login' = [login EXCEPT ![w] = row]
             /\ row.attempts = 0 /\ row.recovery = 0 /\ row.confirmation = 0
      BY <1>2, <1>3 DEF InsertUser
    <2>2. QED  BY <2>1, QuietPlain, RowPlain
  <1>4. CASE Deactivate(p)
    <2> DEFINE row == [login[v] EXCEPT !.status = "DEACTIVATED"]
    <2>1. v \in Users /\ login[v] # Gone =>
             /\ row.attempts = login[v].attempts /\ row.recovery = login[v].recovery
             /\ row.confirmation = login[v].confirmation
      BY <1>1 DEF Login
    <2>2. login' = login \/ (login[v] # Gone /\ login' = [login EXCEPT ![v] = row])
      BY <1>4 DEF Deactivate, LastOnLogin
    <2> HIDE DEF row
    <2>3. QED  BY <2>1, <2>2, QuietPlain, RowPlain
  <1>5. CASE UpdateLoginRow(p)
    <2> DEFINE row == Retyped(v, req[p].arg)
    <2>1. v \in Users => \/ row = Gone
                         \/ /\ login[v] # Gone
                            /\ row.attempts = login[v].attempts
                            /\ row.recovery = login[v].recovery
                            /\ row.confirmation = login[v].confirmation
      BY <1>1 DEF Login, Retyped
    <2>2. login' = login \/ login' = [login EXCEPT ![v] = row]
      BY <1>5 DEF UpdateLoginRow, LastOnLogin
    <2> HIDE DEF row
    <2>3. QED  BY <2>1, <2>2, QuietPlain, RowPlain
  <1>6. CASE SaveLogin(p)
    <2> DEFINE e == Lower[req[p].arg.email]
               row == IF login[v] # Gone
                         THEN [login[v] EXCEPT !.email = e, !.password = Unhashed]
                         ELSE NewLogin(e, Unhashed, FALSE)
    <2>1. v \in Users => \/ /\ login[v] # Gone
                            /\ row.attempts = login[v].attempts
                            /\ row.recovery = login[v].recovery
                            /\ row.confirmation = login[v].confirmation
                         \/ row.attempts = 0 /\ row.recovery = 0 /\ row.confirmation = 0
      <3>1. CASE login[v] # Gone
        BY <1>1, <3>1 DEF Login
      <3>2. CASE login[v] = Gone
        <4>1. row = NewLogin(e, Unhashed, FALSE)  BY <3>2
        <4> HIDE DEF row
        <4>2. QED  BY <1>2, <4>1
      <3>3. QED  BY <3>1, <3>2
    <2>2. login' = login \/ login' = [login EXCEPT ![v] = row]
      BY <1>6 DEF SaveLogin, LastOnLogin
    <2> HIDE DEF row
    <2>3. QED  BY <2>1, <2>2, QuietPlain, RowPlain
  <1>7. CASE DeleteUser(p) \/ DeleteLogin(p)
    <2>1. login' = login \/ login' = [login EXCEPT ![v] = Gone]
      BY <1>7 DEF DeleteUser, DeleteLogin, LastOnLogin
    <2>2. QED  BY <2>1, QuietPlain, RowPlain
  <1>8. CASE FindRole(p) \/ FindRoleFails(p) \/ ReadOwn(p) \/ UpdateProfile(p) \/ UpdateUser(p)
    BY <1>8, QuietPlain DEF FindRole, FindRoleFails, ReadOwn, UpdateProfile, UpdateUser,
       LastOnAccount, tableVars
  <1>9. QED  BY <1>3, <1>4, <1>5, <1>6, <1>7, <1>8 DEF Administer

LEMMA SessionPlain ==
    ASSUME TypeInv, NEW p \in Procs, Session(p), ~WriteCode(p), NEW u \in Users
    PROVE  Plain(u)
  <1> DEFINE v == whom[p]
             in == [login[v] EXCEPT !.loginAt = clock]
             on == [login[v] EXCEPT !.activityAt = clock]
  <1>1. v \in Users /\ login[v] # Gone =>
           /\ in.attempts = login[v].attempts /\ on.attempts = login[v].attempts
           /\ in.recovery = login[v].recovery /\ on.recovery = login[v].recovery
           /\ in.confirmation = login[v].confirmation
           /\ on.confirmation = login[v].confirmation
    BY DEF TypeInv, TableTypes, Login
  <1>2. CASE StampLogin(p) \/ StampActivity(p)
    <2>1. \/ login' = login
          \/ login[v] # Gone /\ login' = [login EXCEPT ![v] = in]
          \/ login[v] # Gone /\ login' = [login EXCEPT ![v] = on]
      BY <1>2 DEF StampLogin, StampActivity, UpdateLogin
    <2> HIDE DEF in, on
    <2>2. QED  BY <1>1, <2>1, QuietPlain, RowPlain
  <1>3. CASE ~StampLogin(p) /\ ~StampActivity(p)
    BY <1>3, QuietPlain DEF Session, Verify, VerifyFails, CodeAccepted, CodeWrong, CodeLocked,
       CodeUnknown, ReadToken, ReadTokenFails, FindToken, InsertToken, InsertTokenFails,
       UpdateToken, Revoke, tableVars
  <1>4. QED  BY <1>2, <1>3

LEMMA JobPlain ==
    ASSUME TypeInv, NEW j \in Jobs, Job(j), NEW u \in Users
    PROVE  Plain(u)
  <1>1. login \in [Users -> Login \cup {Gone}]  BY DEF TypeInv, TableTypes
  <1>2. login' = login \/ \E st \in {"ACTIVE", "INACTIVE"} :
           login'[u] \in {login[u], [login[u] EXCEPT !.status = st]} /\
              (login[u] = Gone => login'[u] = Gone)
    BY DEF Job, Jobs, clearInactiveUsers, setActiveUsers
  <1>3. login[u] # Gone => \A st : /\ [login[u] EXCEPT !.status = st].attempts = login[u].attempts
                                   /\ [login[u] EXCEPT !.status = st].recovery = login[u].recovery
                                   /\ [login[u] EXCEPT !.status = st].confirmation
                                         = login[u].confirmation
    BY <1>1 DEF Login
  <1>4. QED  BY <1>2, <1>3 DEF Plain

LEMMA PlainStep ==
    ASSUME TypeInv, [Next]_vars, ~Marking, NEW u \in Users
    PROVE  Plain(u)
  <1>1. CASE \E p \in Procs : (\E r \in offered.requests : Start(p, r)) \/ Guard(p)
    BY <1>1, QuietPlain DEF Start, Guard, tableVars
  <1>2. CASE \E p \in Procs : Session(p)
    BY <1>2, SessionPlain DEF Marking
  <1>3. CASE \E p \in Procs : Mailed(p)
    BY <1>3, QuietPlain DEF Mailed, ReadAddress, ReadAddressFails, ReadRecovery, ReadConfirmation,
       MailedTokenRefused, Marking, tableVars
  <1>4. CASE \E p \in Procs : Administer(p)
    BY <1>4, AdministerPlain
  <1>5. CASE \E p \in Procs : Assign(p)
    BY <1>5, QuietPlain DEF Assign, InsertRole, UpdateRole, DeleteRole, LastOnRole,
       InsertPermission, DeletePermission, ReadAccount, ReadAssigned, SelectForSave, Save,
       AssignmentBreaks, Ends, LastOnAccount, tableVars
  <1>6. CASE \E j \in Jobs : Job(j)
    BY <1>6, JobPlain
  <1>7. CASE Midnight \/ Tick \/ Crash \/ Terminating \/ UNCHANGED vars
    BY <1>7, QuietPlain DEF Midnight, Tick, Crash, Ends, Terminating, vars, tableVars
  <1>8. QED
    BY <1>1, <1>2, <1>3, <1>4, <1>5, <1>6, <1>7 DEF Next, Marking

\* The other statements mail nothing, use up no token and count no attempt,
\* unless a code is judged.
LEMMA UnmarkedFrame ==
    ASSUME [Next]_vars, ~Marking
    PROVE  /\ mails' = mails /\ redeemed' = redeemed
           /\ \/ background' \subseteq background /\ wrong' = wrong
              \/ \E p \in Procs : CodeWrong(p) \/ CodeLocked(p)
  <1>1. CASE \E p \in Procs : (\E r \in offered.requests : Start(p, r)) \/ Guard(p)
    BY <1>1 DEF Start, Guard, processVars, worldVars, historyVars
  <1>2. CASE \E p \in Procs : Session(p)
    BY <1>2 DEF Session, Verify, VerifyFails, CodeAccepted, CodeUnknown, CodeWrong, CodeLocked,
       ReadToken, ReadTokenFails, FindToken, InsertToken, InsertTokenFails, UpdateToken,
       StampLogin, StampActivity, Revoke, Marking, processVars, worldVars, historyVars
  <1>3. CASE \E p \in Procs : Mailed(p)
    BY <1>3 DEF Mailed, ReadAddress, ReadAddressFails, ReadRecovery, ReadConfirmation,
       MailedTokenRefused, Marking, processVars, worldVars, historyVars
  <1>4. CASE \E p \in Procs : Administer(p)
    BY <1>4 DEF Administer, FindRole, FindRoleFails, InsertUser, ReadOwn, Deactivate,
       UpdateProfile, UpdateLoginRow, UpdateUser, DeleteUser, DeleteLogin, SaveLogin,
       LastOnLogin, LastOnAccount, processVars, worldVars, historyVars
  <1>5. CASE \E p \in Procs : Assign(p)
    BY <1>5 DEF Assign, InsertRole, UpdateRole, DeleteRole, LastOnRole, InsertPermission,
       DeletePermission, ReadAccount, ReadAssigned, SelectForSave, Save, AssignmentBreaks, Ends,
       LastOnAccount, processVars, worldVars, historyVars
  <1>6. CASE \/ \E j \in Jobs : Job(j)
             \/ Midnight \/ Tick \/ Crash \/ Terminating \/ UNCHANGED vars
    BY <1>6 DEF Job, Midnight, Tick, Crash, Ends, Terminating, vars, processVars, worldVars,
       historyVars
  <1>7. QED
    BY <1>1, <1>2, <1>3, <1>4, <1>5, <1>6 DEF Next, Marking

\* The columns of the statements that do write an attempt or a mailed token.
LEMMA MarkedRow ==
    ASSUME TypeInv, NEW u \in Users, login[u] # Gone, NEW k \in Nat, NEW x
    PROVE  LET row == login[u]
               coded == [row EXCEPT !.code = k, !.attempts = 0]
               counted == [row EXCEPT !.attempts = k, !.code = x]
               recovered == [row EXCEPT !.recovery = k, !.recoveryAt = x]
               confirmed == [row EXCEPT !.confirmation = k]
               changed == [row EXCEPT !.password = x, !.recovery = 0, !.recoveryAt = Never]
               known == [row EXCEPT !.confirmed = TRUE, !.confirmation = 0]
           IN  /\ coded.attempts = 0 /\ counted.attempts = k
               /\ recovered.attempts = row.attempts /\ confirmed.attempts = row.attempts
               /\ changed.attempts = row.attempts /\ known.attempts = row.attempts
               /\ coded.recovery = row.recovery /\ counted.recovery = row.recovery
               /\ recovered.recovery = k /\ confirmed.recovery = row.recovery
               /\ changed.recovery = 0 /\ known.recovery = row.recovery
               /\ coded.confirmation = row.confirmation
               /\ counted.confirmation = row.confirmation
               /\ recovered.confirmation = row.confirmation /\ confirmed.confirmation = k
               /\ changed.confirmation = row.confirmation /\ known.confirmation = 0
  BY DEF TypeInv, TableTypes, Login

-----------------------------------------------------------------------------
(* SecondFactorLock: an update that nobody awaits carries no more attempts    *)
(* than codes were judged wrong, and none above the limit.                    *)

PendingWithinLimit ==
    \A w \in background :
        /\ w.kind = "count" => w.attempts <= wrong[w.user] /\ w.attempts <= 4
        /\ w.kind = "reset" => w.attempts = 0

LockInv == SecondFactorLock /\ PendingWithinLimit

LEMMA LockKeeps ==
    ASSUME TypeInv, TypeInv', LockInv, background' \subseteq background, wrong' = wrong,
           \A u \in Users : login'[u] # Gone =>
              \/ login[u] # Gone /\ login'[u].attempts = login[u].attempts
              \/ login'[u].attempts = 0
    PROVE  LockInv'
  <1>1. \A u \in Users : wrong'[u] \in Nat
    BY DEF TypeInv, WorldTypes
  <1>2. SecondFactorLock'
    BY <1>1 DEF LockInv, SecondFactorLock
  <1>3. PendingWithinLimit'
    BY DEF LockInv, PendingWithinLimit
  <1>4. QED  BY <1>2, <1>3 DEF LockInv

LEMMA JudgedLock ==
    ASSUME TypeInv, LockInv, NEW p \in Procs, CodeWrong(p) \/ CodeLocked(p)
    PROVE  LockInv'
  <1> DEFINE counts(v) == [user |-> v, kind |-> "count", attempts |-> login[v].attempts + 1]
             resets(v) == [user |-> v, kind |-> "reset", attempts |-> 0]
  <1>1. login' = login
    BY DEF CodeWrong, CodeLocked, tableVars
  <1>2. wrong \in [Users -> Nat] /\ background \subseteq Write
    BY DEF TypeInv, WorldTypes
  <1>3. CASE CodeWrong(p)
    <2>1. PICK v \in Users :
             /\ login[v] # Gone /\ login[v].attempts <= 3
             /\ background' = background \cup {counts(v)}
             /\ wrong' = [wrong EXCEPT ![v] = wrong[v] + 1]
      BY <1>3 DEF CodeWrong
    <2>2. login[v].attempts \in Nat  BY <2>1 DEF TypeInv, TableTypes, Login
    <2>3. /\ counts(v).user = v /\ counts(v).kind = "count"
          /\ counts(v).attempts = login[v].attempts + 1
      OBVIOUS
    <2>4. login[v].attempts <= wrong[v]  BY <2>1 DEF LockInv, SecondFactorLock
    <2>5. \A u \in Users : wrong[u] \in Nat /\ wrong'[u] \in Nat /\ wrong[u] <= wrong'[u]
      BY <1>2, <2>1
    <2>6. wrong'[v] = wrong[v] + 1  BY <1>2, <2>1
    <2> HIDE DEF counts
    <2>7. SecondFactorLock'
      <3> SUFFICES ASSUME NEW u \in Users, login[u] # Gone
                   PROVE  login[u].attempts <= wrong'[u] /\ login[u].attempts <= 4
        BY <1>1 DEF SecondFactorLock
      <3>1. login[u].attempts \in Nat  BY DEF TypeInv, TableTypes, Login
      <3>2. QED  BY <2>5, <3>1 DEF LockInv, SecondFactorLock
    <2>8. PendingWithinLimit'
      <3> SUFFICES ASSUME NEW w \in background'
                   PROVE  /\ w.kind = "count" => w.attempts <= wrong'[w.user] /\ w.attempts <= 4
                          /\ w.kind = "reset" => w.attempts = 0
        BY DEF PendingWithinLimit
      <3>1. CASE w \in background
        <4>1. w.user \in Users /\ w.attempts \in Nat  BY <1>2, <3>1 DEF Write
        <4>2. QED  BY <2>5, <3>1, <4>1 DEF LockInv, PendingWithinLimit
      <3>2. CASE w = counts(v)
        BY <2>1, <2>2, <2>3, <2>4, <2>5, <2>6, <3>2
      <3>3. QED  BY <2>1, <3>1, <3>2
    <2>9. QED  BY <2>7, <2>8 DEF LockInv
  <1>4. CASE CodeLocked(p)
    <2>1. PICK v \in Users : background' = background \cup {resets(v)}
      BY <1>4 DEF CodeLocked
    <2>2. resets(v).kind = "reset" /\ resets(v).attempts = 0
      OBVIOUS
    <2>3. wrong' = wrong  BY <1>4 DEF CodeLocked, historyVars
    <2> HIDE DEF resets
    <2>4. QED
      BY <1>1, <2>1, <2>2, <2>3 DEF LockInv, SecondFactorLock, PendingWithinLimit
  <1>5. QED  BY <1>3, <1>4

LEMMA MarkedLock ==
    ASSUME TypeInv, TypeInv', LockInv, Marking
    PROVE  LockInv'
  <1>1. mails + 1 \in Nat /\ login \in [Users -> Login \cup {Gone}]
    BY DEF TypeInv, WorldTypes, TableTypes
  <1>2. CASE \E p \in Procs : WriteCode(p) \/ WriteRecovery(p) \/ WriteConfirmation(p)
    <2>1. PICK p \in Procs : WriteCode(p) \/ WriteRecovery(p) \/ WriteConfirmation(p)  BY <1>2
    <2>2. background' = background /\ wrong' = wrong
      BY <2>1 DEF WriteCode, WriteRecovery, WriteConfirmation, processVars, historyVars
    <2>3. \A u \in Users : login'[u] # Gone =>
              \/ login[u] # Gone /\ login'[u].attempts = login[u].attempts
              \/ login'[u].attempts = 0
      <3>1. CASE WriteCode(p)
        BY <1>1, <3>1, MarkedRow DEF WriteCode, UpdateLogin
      <3>2. CASE WriteRecovery(p)
        BY <1>1, <3>2, MarkedRow DEF WriteRecovery, UpdateLogin
      <3>3. CASE WriteConfirmation(p)
        BY <1>1, <3>3, MarkedRow DEF WriteConfirmation, UpdateLogin
      <3>4. QED  BY <2>1, <3>1, <3>2, <3>3
    <2>4. QED  BY <2>2, <2>3, LockKeeps
  <1>3. CASE \E p \in Procs : RedeemRecovery(p) \/ RedeemConfirmation(p)
    <2>1. PICK p \in Procs : RedeemRecovery(p) \/ RedeemConfirmation(p)  BY <1>3
    <2>2. background' = background /\ wrong' = wrong
      BY <2>1 DEF RedeemRecovery, RedeemConfirmation, Redeem, processVars
    <2>3. \A u \in Users : login'[u] # Gone =>
              login[u] # Gone /\ login'[u].attempts = login[u].attempts
      <3>1. CASE RedeemRecovery(p)
        BY <1>1, <3>1, MarkedRow DEF RedeemRecovery, Redeem, UpdateLogin
      <3>2. CASE RedeemConfirmation(p)
        BY <1>1, <3>2, MarkedRow DEF RedeemConfirmation, Redeem, UpdateLogin
      <3>3. QED  BY <2>1, <3>1, <3>2
    <2>4. QED  BY <2>2, <2>3, LockKeeps
  <1>4. CASE \E w \in background : WriteInBackground(w)
    <2>1. PICK w \in background : WriteInBackground(w)  BY <1>4
    <2>2. w.user \in Users /\ w.attempts \in Nat /\ w.kind \in {"reset", "count"}
      BY DEF TypeInv, WorldTypes, Write
    <2>3. wrong' = wrong /\ background' \subseteq background
      BY <2>1 DEF WriteInBackground, historyVars
    <2>4. \A u \in Users : login'[u] # Gone =>
              /\ login[u] # Gone
              /\ login'[u].attempts = IF u = w.user THEN w.attempts ELSE login[u].attempts
      BY <1>1, <2>1, <2>2, MarkedRow DEF WriteInBackground, UpdateLogin
    <2>5. w.attempts <= wrong[w.user] /\ w.attempts <= 4
      <3>1. wrong[w.user] \in Nat  BY <2>2 DEF TypeInv, WorldTypes
      <3>2. QED  BY <2>2, <3>1 DEF LockInv, PendingWithinLimit
    <2>6. SecondFactorLock'
      BY <2>3, <2>4, <2>5 DEF LockInv, SecondFactorLock
    <2>7. PendingWithinLimit'
      BY <2>3 DEF LockInv, PendingWithinLimit
    <2>8. QED  BY <2>6, <2>7 DEF LockInv
  <1>5. QED  BY <1>2, <1>3, <1>4 DEF Marking

LEMMA LockStep ==
    ASSUME TypeInv, TypeInv', LockInv, [Next]_vars
    PROVE  LockInv'
  <1>1. CASE Marking
    BY <1>1, MarkedLock
  <1>2. CASE \E p \in Procs : CodeWrong(p) \/ CodeLocked(p)
    BY <1>2, JudgedLock
  <1>3. CASE ~Marking /\ background' \subseteq background /\ wrong' = wrong
    <2>1. \A u \in Users : Plain(u)  BY <1>3, PlainStep
    <2>2. QED  BY <1>3, <2>1, LockKeeps DEF Plain
  <1>4. QED  BY <1>1, <1>2, <1>3, UnmarkedFrame

\* Nobody is locked out of the second factor who did not give as many wrong
\* codes, and the attempts stop at the limit, however late the updates of
\* loginM2fa reach the database.
THEOREM SecondFactorLocks == Spec => []SecondFactorLock
  <1>1. Init => LockInv
    <2> SUFFICES ASSUME Init  PROVE LockInv
      OBVIOUS
    <2>1. SecondFactorLock
      BY InitialAssumption DEF Init, SecondFactorLock
    <2>2. PendingWithinLimit  BY DEF Init, PendingWithinLimit
    <2>3. QED  BY <2>1, <2>2 DEF LockInv
  <1>2. TypeInv /\ TypeInv' /\ LockInv /\ [Next]_vars => LockInv'
    BY LockStep
  <1>3. LockInv => SecondFactorLock
    BY DEF LockInv
  <1>4. QED  BY <1>1, <1>2, <1>3, TypeInvariant, PTL DEF Spec

-----------------------------------------------------------------------------
(* RedeemedTokensAreGone: a mailed token is in one column of one row, and a    *)
(* request that has compared one uses it up in that row.                      *)

There(u) == login[u] # Gone

Distinct ==
    \A u, v \in Users : There(u) /\ There(v) =>
        /\ login[u].recovery <= mails /\ login[u].confirmation <= mails
        /\ u # v /\ login[u].recovery = login[v].recovery => login[u].recovery = 0
        /\ u # v /\ login[u].confirmation = login[v].confirmation => login[u].confirmation = 0
        /\ login[u].recovery = login[v].confirmation => login[u].recovery = 0

Presented(p) ==
    /\ pc[p] = "redeemRecovery" =>
          \A v \in Users : There(v) =>
              /\ login[v].recovery = shown[p] => v = whom[p]
              /\ login[v].confirmation # shown[p]
    /\ pc[p] = "redeemConfirmation" =>
          \A v \in Users : There(v) =>
              /\ login[v].confirmation = shown[p] => v = whom[p]
              /\ login[v].recovery # shown[p]

RedeemInv == Distinct /\ RedeemedTokensAreGone /\ \A p \in Procs : Presented(p)

TokensKept(u) ==
    There(u)' =>
        \/ /\ There(u)
           /\ login'[u].recovery = login[u].recovery
           /\ login'[u].confirmation = login[u].confirmation
        \/ login'[u].recovery = 0 /\ login'[u].confirmation = 0

LEMMA MailedTypes ==
    ASSUME TypeInv, NEW u \in Users, There(u)
    PROVE  login[u].recovery \in Nat /\ login[u].confirmation \in Nat
  BY DEF There, TypeInv, TableTypes, Login

\* A request that has just compared a token: it is in its row alone.
LEMMA ReadPresents ==
    ASSUME TypeInv, RedeemInv, NEW p \in Procs, ReadRecovery(p) \/ ReadConfirmation(p)
    PROVE  Presented(p)'
  <1>1. login' = login
    BY DEF ReadRecovery, ReadConfirmation, tableVars
  <1>2. CASE ReadRecovery(p)
    <2>1. PICK u \in Users, k \in 1..mails :
             /\ There(u) /\ login[u].recovery = k
             /\ whom' = [whom EXCEPT ![p] = u] /\ shown' = [shown EXCEPT ![p] = k]
      BY <1>2 DEF ReadRecovery, ByEmail, There
    <2>2. whom'[p] = u /\ shown'[p] = k /\ pc'[p] = "redeemRecovery" /\ k # 0
      BY <1>2, <2>1 DEF ReadRecovery, GoTo, TypeInv, RequestTypes, WorldTypes
    <2>3. \A v \in Users : There(v) => /\ login[v].recovery = k => v = u
                                       /\ login[v].confirmation # k
      BY <2>1, <2>2 DEF RedeemInv, Distinct
    <2>4. QED  BY <1>1, <2>2, <2>3 DEF Presented, There
  <1>3. CASE ReadConfirmation(p)
    <2>1. PICK u \in Users, k \in 1..mails :
             /\ There(u) /\ login[u].confirmation = k
             /\ whom' = [whom EXCEPT ![p] = u] /\ shown' = [shown EXCEPT ![p] = k]
      BY <1>3 DEF ReadConfirmation, ByEmail, There
    <2>2. whom'[p] = u /\ shown'[p] = k /\ pc'[p] = "redeemConfirmation" /\ k # 0
      BY <1>3, <2>1 DEF ReadConfirmation, GoTo, TypeInv, RequestTypes, WorldTypes
    <2>3. \A v \in Users : There(v) => /\ login[v].confirmation = k => v = u
                                       /\ login[v].recovery # k
      BY <2>1, <2>2 DEF RedeemInv, Distinct
    <2>4. QED  BY <1>1, <2>2, <2>3 DEF Presented, There
  <1>4. QED  BY <1>2, <1>3

\* A statement that keeps the tokens of the rows, or clears them.
LEMMA RedeemKeeps ==
    ASSUME TypeInv, RedeemInv, mails' \in Nat, mails' >= mails, redeemed' = redeemed,
           \A u \in Users : TokensKept(u), \A q \in Procs : Follows(q)
    PROVE  RedeemInv'
  <1>1. mails \in Nat /\ redeemed \subseteq 1..mails
    BY DEF TypeInv, WorldTypes
  <1>2. Distinct'
    BY <1>1, MailedTypes DEF RedeemInv, Distinct, TokensKept, There
  <1>3. RedeemedTokensAreGone'
    BY <1>1 DEF RedeemInv, RedeemedTokensAreGone, TokensKept, There
  <1>4. ASSUME NEW p \in Procs
        PROVE  Presented(p)'
    <2>1. CASE ReadRecovery(p) \/ ReadConfirmation(p)
      BY <2>1, ReadPresents
    <2>2. CASE ~ReadRecovery(p) /\ ~ReadConfirmation(p)
      <3>1. pc'[p] \in {"redeemRecovery", "redeemConfirmation"} =>
               pc'[p] = pc[p] /\ whom'[p] = whom[p] /\ shown'[p] = shown[p] /\ shown[p] # 0
        BY <1>1, <2>2 DEF Follows, TypeInv, Holds
      <3>2. QED
        BY <3>1 DEF RedeemInv, Presented, TokensKept, There
    <2>3. QED  BY <2>1, <2>2
  <1>5. QED  BY <1>2, <1>3, <1>4 DEF RedeemInv

\* A new token is in no row, and no request has compared it.
LEMMA MailedRedeem ==
    ASSUME TypeInv, RedeemInv, NEW p \in Procs, WriteRecovery(p) \/ WriteConfirmation(p),
           \A q \in Procs : Follows(q)
    PROVE  RedeemInv'
  <1> DEFINE u == whom[p]
             k == mails + 1
  <1>1. /\ mails \in Nat /\ k \in Nat /\ k > mails /\ k # 0 /\ redeemed \subseteq 1..mails
        /\ login \in [Users -> Login \cup {Gone}]
    BY DEF TypeInv, WorldTypes, TableTypes
  <1>2. redeemed' = redeemed
    BY DEF WriteRecovery, WriteConfirmation, historyVars
  <1>3. CASE login[u] = Gone
    <2>1. login' = login /\ mails' = mails
      BY <1>3 DEF WriteRecovery, WriteConfirmation, UpdateLogin
    <2>2. \A v \in Users : TokensKept(v)
      BY <2>1 DEF TokensKept, There
    <2>3. QED  BY <1>1, <1>2, <2>1, <2>2, RedeemKeeps
  <1>4. CASE login[u] # Gone
    <2>1. mails' = k
      BY <1>4 DEF WriteRecovery, WriteConfirmation
    <2>2. \A v \in Users : There(v)' =>
             /\ There(v)
             /\ \/ /\ login'[v].recovery = login[v].recovery \/ (v = u /\ login'[v].recovery = k)
                   /\ login'[v].confirmation = login[v].confirmation
                \/ /\ v = u /\ login'[v].confirmation = k
                   /\ login'[v].recovery = login[v].recovery
      <3>1. CASE WriteRecovery(p)
        BY <1>1, <1>4, <3>1, MarkedRow DEF WriteRecovery, UpdateLogin, There
      <3>2. CASE WriteConfirmation(p)
        BY <1>1, <1>4, <3>2, MarkedRow DEF WriteConfirmation, UpdateLogin, There
      <3>3. QED  BY <3>1, <3>2
    <2> HIDE DEF u, k
    <2>3. Distinct'
      BY <1>1, <2>1, <2>2, MailedTypes DEF RedeemInv, Distinct
    <2>4. RedeemedTokensAreGone'
      BY <1>1, <1>2, <2>1, <2>2 DEF RedeemInv, RedeemedTokensAreGone, There
    <2>5. ASSUME NEW q \in Procs
          PROVE  Presented(q)'
      <3>1. ~ReadRecovery(q) /\ ~ReadConfirmation(q)
        BY <1>1, <2>1 DEF ReadRecovery, ReadConfirmation, worldVars
      <3>2. pc'[q] \in {"redeemRecovery", "redeemConfirmation"} =>
               /\ pc'[q] = pc[q] /\ whom'[q] = whom[q] /\ shown'[q] = shown[q]
               /\ shown[q] # k
        BY <1>1, <3>1 DEF Follows, TypeInv, Holds
      <3>3. QED
        BY <2>2, <3>2 DEF RedeemInv, Presented
    <2>6. QED  BY <2>3, <2>4, <2>5 DEF RedeemInv
  <1>5. QED  BY <1>3, <1>4

\* A token that is used up leaves its row; the others are not it.
LEMMA UsedUpRedeem ==
    ASSUME TypeInv, RedeemInv, NEW p \in Procs, RedeemRecovery(p) \/ RedeemConfirmation(p),
           \A q \in Procs : Follows(q)
    PROVE  RedeemInv'
  <1> DEFINE u == whom[p]
             k == shown[p]
  <1>1. /\ mails \in Nat /\ mails' = mails /\ redeemed \subseteq 1..mails
        /\ login \in [Users -> Login \cup {Gone}]
    BY DEF RedeemRecovery, RedeemConfirmation, Redeem, worldVars, TypeInv, WorldTypes, TableTypes
  <1>2. k \in 1..mails /\ k # 0
    BY <1>1 DEF RedeemRecovery, RedeemConfirmation, TypeInv, Holds
  <1>3. redeemed' \subseteq redeemed \cup {k}
    BY DEF RedeemRecovery, RedeemConfirmation, Redeem
  <1>4. \A v \in Users : There(v)' =>
           /\ There(v)
           /\ login'[v].recovery \in {login[v].recovery, 0}
           /\ login'[v].confirmation \in {login[v].confirmation, 0}
           /\ login'[v].recovery # k /\ login'[v].confirmation # k
    <2>1. CASE RedeemRecovery(p)
      <3>1. Presented(p) /\ pc[p] = "redeemRecovery"
        BY <2>1 DEF RedeemRecovery, RedeemInv
      <3>2. \A v \in Users : There(v)' =>
               /\ There(v)
               /\ login'[v].recovery = IF v = u THEN 0 ELSE login[v].recovery
               /\ login'[v].confirmation = login[v].confirmation
        BY <1>1, <2>1, MarkedRow DEF RedeemRecovery, Redeem, UpdateLogin, There
      <3>3. QED  BY <1>2, <3>1, <3>2 DEF Presented
    <2>2. CASE RedeemConfirmation(p)
      <3>1. Presented(p) /\ pc[p] = "redeemConfirmation"
        BY <2>2 DEF RedeemConfirmation, RedeemInv
      <3>2. \A v \in Users : There(v)' =>
               /\ There(v)
               /\ login'[v].confirmation = IF v = u THEN 0 ELSE login[v].confirmation
               /\ login'[v].recovery = login[v].recovery
        BY <1>1, <2>2, MarkedRow DEF RedeemConfirmation, Redeem, UpdateLogin, There
      <3>3. QED  BY <1>2, <3>1, <3>2 DEF Presented
    <2>3. QED  BY <2>1, <2>2
  <1> HIDE DEF u, k
  <1>5. Distinct'
    BY <1>1, <1>4, MailedTypes DEF RedeemInv, Distinct
  <1>6. RedeemedTokensAreGone'
    <2>1. 0 \notin redeemed /\ 0 # k  BY <1>1, <1>2
    <2>2. \A v \in Users : There(v) => /\ login[v].recovery \notin redeemed
                                       /\ login[v].confirmation \notin redeemed
      BY DEF RedeemInv, RedeemedTokensAreGone, There
    <2>3. \A v \in Users : There(v)' => /\ login'[v].recovery \notin redeemed'
                                        /\ login'[v].confirmation \notin redeemed'
      BY <1>3, <1>4, <2>1, <2>2
    <2>4. QED  BY <2>3 DEF RedeemedTokensAreGone, There
  <1>7. ASSUME NEW q \in Procs
        PROVE  Presented(q)'
    <2>1. ~ReadRecovery(q) /\ ~ReadConfirmation(q)
      <3>1. pc'[p] = "idle" /\ pc[p] # "idle"
        BY DEF RedeemRecovery, RedeemConfirmation, Redeem, Answer, TypeInv, RequestTypes
      <3>2. pc[p] \notin {"readRecovery", "readConfirmation"}
        BY DEF RedeemRecovery, RedeemConfirmation
      <3>3. QED
        BY <3>1, <3>2 DEF ReadRecovery, ReadConfirmation, GoTo, TypeInv, RequestTypes
    <2>2. pc'[q] \in {"redeemRecovery", "redeemConfirmation"} =>
             /\ pc'[q] = pc[q] /\ whom'[q] = whom[q] /\ shown'[q] = shown[q]
             /\ shown[q] # 0
      BY <1>1, <2>1 DEF Follows, TypeInv, Holds
    <2>3. QED
      BY <1>4, <2>2 DEF RedeemInv, Presented
  <1>8. QED  BY <1>5, <1>6, <1>7 DEF RedeemInv

LEMMA RedeemStep ==
    ASSUME Paths, RedeemInv, [Next]_vars
    PROVE  RedeemInv'
  <1>1. TypeInv /\ \A q \in Procs : Follows(q)
    BY FollowsStep DEF Paths
  <1>2. mails \in Nat /\ login \in [Users -> Login \cup {Gone}]
    BY <1>1 DEF TypeInv, WorldTypes, TableTypes
  <1>3. CASE \E p \in Procs : WriteRecovery(p) \/ WriteConfirmation(p)
    BY <1>1, <1>3, MailedRedeem
  <1>4. CASE \E p \in Procs : RedeemRecovery(p) \/ RedeemConfirmation(p)
    BY <1>1, <1>4, UsedUpRedeem
  <1>5. CASE \E p \in Procs : WriteCode(p)
    <2>1. PICK p \in Procs : WriteCode(p)  BY <1>5
    <2>2. \A u \in Users : TokensKept(u)
      BY <1>1, <1>2, <2>1, MarkedRow DEF WriteCode, UpdateLogin, TokensKept, There
    <2>3. mails' = mails + 1 /\ redeemed' = redeemed
      BY <2>1 DEF WriteCode, historyVars
    <2>4. QED  BY <1>1, <1>2, <2>2, <2>3, RedeemKeeps
  <1>6. CASE \E w \in background : WriteInBackground(w)
    <2>1. PICK w \in background : WriteInBackground(w)  BY <1>6
    <2>2. w.attempts \in Nat  BY <1>1 DEF TypeInv, WorldTypes, Write
    <2>3. \A u \in Users : TokensKept(u)
      BY <1>1, <1>2, <2>1, <2>2, MarkedRow DEF WriteInBackground, UpdateLogin, TokensKept, There
    <2>4. mails' = mails /\ redeemed' = redeemed
      BY <2>1 DEF WriteInBackground, worldVars, historyVars
    <2>5. QED  BY <1>1, <1>2, <2>3, <2>4, RedeemKeeps
  <1>7. CASE ~Marking
    <2>1. \A u \in Users : TokensKept(u)
      BY <1>1, <1>7, PlainStep DEF Plain, TokensKept, There
    <2>2. mails' = mails /\ redeemed' = redeemed  BY <1>7, UnmarkedFrame
    <2>3. QED  BY <1>1, <1>2, <2>1, <2>2, RedeemKeeps
  <1>8. QED  BY <1>3, <1>4, <1>5, <1>6, <1>7 DEF Marking

\* A mailed token that changed a password or confirmed an address is in no row
\* again, whatever requests overlap.
THEOREM RedeemedTokensStayGone == Spec => []RedeemedTokensAreGone
  <1>1. Init => RedeemInv
    <2> SUFFICES ASSUME Init  PROVE RedeemInv
      OBVIOUS
    <2>1. Distinct
      BY InitialAssumption DEF Init, Distinct, There
    <2>2. RedeemedTokensAreGone  BY DEF Init, RedeemedTokensAreGone
    <2>3. \A p \in Procs : Presented(p)  BY DEF Init, Presented
    <2>4. QED  BY <2>1, <2>2, <2>3 DEF RedeemInv
  <1>2. Paths /\ RedeemInv /\ [Next]_vars => RedeemInv'
    BY RedeemStep
  <1>3. RedeemInv => RedeemedTokensAreGone
    BY DEF RedeemInv
  <1>4. QED  BY <1>1, <1>2, <1>3, PathsInvariant, PTL DEF Spec
=============================================================================
