--------------------------- MODULE AccountsProofs ---------------------------
(***************************************************************************)
(* What holds of Accounts for every value of its constants: the types of    *)
(* the tables and of what requests keep between two statements.             *)
(***************************************************************************)
EXTENDS Accounts, FiniteSetTheorems, TLAPS

-----------------------------------------------------------------------------
(* The inductive invariant: TypeOK in three groups, and what a request is    *)
(* known to hold at each of its statements.                                  *)

TableTypes ==
    /\ account \in [Users -> Account \cup {Gone}]
    /\ login \in [Users -> Login \cup {Gone}]
    /\ tokens \subseteq Token
    /\ role \in [RoleIds -> RoleNames \cup {Gone}]
    /\ permission \subseteq PermissionIds
    /\ born \subseteq Ids
    /\ IsFiniteSet(tokens)

RequestTypes ==
    /\ pc \in [Procs -> Steps]
    /\ req \in [Procs -> Request \cup {None}]
    /\ whom \in [Procs -> Users \cup {None}]
    /\ shown \in [Procs -> Nat]
    /\ signed \in [Procs -> Times]
    /\ entity \in [Procs -> Account \cup {Gone}]
    /\ diff \in [Procs -> Diff]

WorldTypes ==
    /\ background \subseteq Write
    /\ otp \in {"login", "default"}
    /\ mails \in Nat
    /\ issued \in [Users -> SUBSET Times]
    /\ clock \in Times
    /\ due \subseteq Jobs
    /\ offered \in Workloads
    /\ used \in [requests: Nat, midnights: Nat, crashes: Nat]
    /\ ended \in [Users -> Nat]
    /\ saw \in [Procs -> Nat]
    /\ redeemed \subseteq 1..mails
    /\ wrong \in [Users -> Nat]

\* Statements whose user is known to be one.
UserSteps ==
    {"readToken", "revoke", "stampLogin", "stampActivity", "findToken", "insertToken",
     "updateToken", "readAccount", "readAssigned", "diff", "save"}

Holds(p) ==
    /\ pc[p] # "idle" => req[p] \in Request
    /\ pc[p] = "guard" => whom[p] = req[p].user
    /\ pc[p] \in UserSteps => whom[p] \in Users
    /\ pc[p] \in {"readAssigned", "diff", "save"} => entity[p] \in Account
    /\ pc[p] \in {"insertUser", "save"} => diff[p].roleOf \in RoleIds
    /\ pc[p] \in {"redeemRecovery", "redeemConfirmation"} => shown[p] \in 1..mails

TypeInv == TableTypes /\ RequestTypes /\ WorldTypes /\ \A p \in Procs : Holds(p)

-----------------------------------------------------------------------------
(* Requests                                                                  *)

LEMMA FirstSteps ==
    ASSUME NEW r \in Request
    PROVE  /\ FirstStep[r.handler] \in Steps \ {"idle", "guard", "insertUser", "save", "diff",
                  "readAssigned", "redeemRecovery", "redeemConfirmation"}
           /\ FirstStep[r.handler] \in UserSteps => r.user \in Users
  <1>1. r.handler \in DOMAIN FirstStep  BY DEF Request
  <1>2. CASE r.handler \in OfUser
    BY <1>1, <1>2 DEF Request, OfUser, FirstStep, UserSteps, Steps
  <1>3. CASE r.handler \notin OfUser
    BY <1>1, <1>3 DEF OfUser, FirstStep, UserSteps, Steps
  <1>4. QED  BY <1>2, <1>3

LEMMA Idle ==
    /\ NoDiff \in Diff
    /\ "idle" \in Steps /\ "idle" \notin UserSteps
    /\ 0 \in Times
  BY ConstantsAssumption DEF NoDiff, Diff, Steps, UserSteps, Times

RequestsOK == RequestTypes /\ \A p \in Procs : Holds(p)

\* A request that is answered keeps nothing.
LEMMA AnswerKeeps ==
    ASSUME TypeInv, NEW p \in Procs, Answer(p), mails' \in Nat, mails' >= mails
    PROVE  RequestsOK'
  BY Idle DEF TypeInv, WorldTypes, RequestsOK, RequestTypes, Holds, Answer

LEMMA Answered ==
    ASSUME TypeInv, NEW p \in Procs, Answer(p), UNCHANGED mails
    PROVE  RequestsOK'
  BY AnswerKeeps DEF TypeInv, WorldTypes

LEMMA EndsKeeps ==
    ASSUME TypeInv, Ends
    PROVE  RequestsOK'
  BY Idle DEF TypeInv, WorldTypes, RequestsOK, RequestTypes, Holds, Ends

LEMMA QuietKeeps ==
    ASSUME TypeInv, UNCHANGED <<pc, requestVars, mails>>
    PROVE  RequestsOK'
  BY DEF TypeInv, WorldTypes, RequestsOK, RequestTypes, Holds, requestVars

LEMMA SessionRequests ==
    ASSUME TypeInv, NEW p \in Procs, Session(p)
    PROVE  RequestsOK'
  <1>1. CASE Verify(p)
    BY <1>1 DEF Verify, ByEmail, GoTo, Steps, UserSteps, worldVars,
       TypeInv, WorldTypes, TableTypes, RequestsOK, RequestTypes, Holds
  <1>2. CASE VerifyFails(p) \/ CodeWrong(p) \/ CodeLocked(p) \/ CodeUnknown(p)
             \/ ReadTokenFails(p) \/ InsertTokenFails(p)
    BY <1>2, Answered DEF VerifyFails, CodeWrong, CodeLocked, CodeUnknown, ReadTokenFails,
       InsertTokenFails, worldVars
  <1>3. CASE WriteCode(p)
    BY <1>3, AnswerKeeps DEF WriteCode, TypeInv, WorldTypes
  <1>4. CASE CodeAccepted(p)
    BY <1>4 DEF CodeAccepted, GoTo, Steps, UserSteps, worldVars,
       TypeInv, WorldTypes, TableTypes, RequestsOK, RequestTypes, Holds
  <1>5. CASE ReadToken(p)
    <2>1. whom[p] \in Users  BY <1>5 DEF ReadToken, UserSteps,
       TypeInv, WorldTypes, TableTypes, RequestsOK, RequestTypes, Holds
    <2>2. PICK t \in issued[whom[p]] : shown' = [shown EXCEPT ![p] = t]
      BY <1>5 DEF ReadToken,
       TypeInv, WorldTypes, TableTypes, RequestsOK, RequestTypes, Holds
    <2>3. t \in Nat
      BY <2>1, <2>2, ConstantsAssumption DEF Times, TypeInv, WorldTypes
    <2>4. RequestTypes'
      BY <1>5, <2>1, <2>2, <2>3 DEF ReadToken, GoTo, Steps, UserSteps, worldVars,
       TypeInv, WorldTypes, TableTypes, RequestTypes, Holds
    <2>5. \A q \in Procs : Holds(q)'
      BY <1>5, <2>1, <2>2, <2>3 DEF ReadToken, GoTo, UserSteps, worldVars,
       TypeInv, WorldTypes, TableTypes, RequestTypes, Holds
    <2>6. QED
      BY <2>4, <2>5 DEF RequestsOK
  <1>6. CASE FindToken(p)
    BY <1>6 DEF FindToken, GoTo, Steps, UserSteps, worldVars, requestVars,
       TypeInv, WorldTypes, TableTypes, RequestsOK, RequestTypes, Holds
  <1>7. CASE InsertToken(p) \/ UpdateToken(p)
    <2>1. CASE req[p].handler = "login"
      BY <1>7, <2>1 DEF InsertToken, UpdateToken, TokenStored, GoTo, Steps, UserSteps,
         requestVars,
       TypeInv, WorldTypes, TableTypes, RequestsOK, RequestTypes, Holds
    <2>2. CASE req[p].handler # "login"
      BY <1>7, <2>2, Answered DEF InsertToken, UpdateToken, TokenStored
    <2>3. QED  BY <2>1, <2>2
  <1>8. CASE StampLogin(p)
    <2>1. CASE req[p].handler = "login"
      BY <1>8, <2>1, Answered DEF StampLogin
    <2>2. CASE req[p].handler # "login"
      BY <1>8, <2>2 DEF StampLogin, GoTo, Steps, UserSteps, requestVars,
       TypeInv, WorldTypes, TableTypes, RequestsOK, RequestTypes, Holds
    <2>3. QED  BY <2>1, <2>2
  <1>9. CASE StampActivity(p)
    <2>1. CASE req[p].handler = "logout"
      BY <1>9, <2>1, Answered DEF StampActivity, worldVars
    <2>2. CASE req[p].handler # "logout"
      BY <1>9, <2>2 DEF StampActivity, GoTo, Steps, UserSteps, requestVars, worldVars,
       TypeInv, WorldTypes, TableTypes, RequestsOK, RequestTypes, Holds
    <2>3. QED  BY <2>1, <2>2
  <1>10. CASE Revoke(p)
    BY <1>10 DEF Revoke, GoTo, Steps, UserSteps, requestVars, worldVars,
       TypeInv, WorldTypes, TableTypes, RequestsOK, RequestTypes, Holds
  <1>11. QED
    BY <1>1, <1>2, <1>3, <1>4, <1>5, <1>6, <1>7, <1>8, <1>9, <1>10 DEF Session

LEMMA MailedRequests ==
    ASSUME TypeInv, NEW p \in Procs, Mailed(p)
    PROVE  RequestsOK'
  <1>1. CASE ReadAddress(p)
    BY <1>1 DEF ReadAddress, ByEmail, GoTo, Steps, UserSteps, worldVars,
       TypeInv, WorldTypes, TableTypes, RequestsOK, RequestTypes, Holds
  <1>2. CASE WriteRecovery(p) \/ WriteConfirmation(p)
    BY <1>2, AnswerKeeps DEF WriteRecovery, WriteConfirmation, TypeInv, WorldTypes
  <1>3. CASE ReadRecovery(p) \/ ReadConfirmation(p)
    BY <1>3 DEF ReadRecovery, ReadConfirmation, ByEmail, GoTo, Steps, UserSteps, worldVars,
       TypeInv, WorldTypes, TableTypes, RequestsOK, RequestTypes, Holds
  <1>4. CASE ReadAddressFails(p) \/ MailedTokenRefused(p) \/ RedeemRecovery(p)
             \/ RedeemConfirmation(p)
    BY <1>4, Answered DEF ReadAddressFails, MailedTokenRefused, RedeemRecovery,
       RedeemConfirmation, Redeem, worldVars
  <1>5. QED
    BY <1>1, <1>2, <1>3, <1>4 DEF Mailed

LEMMA AdministerRequests ==
    ASSUME TypeInv, NEW p \in Procs, Administer(p)
    PROVE  RequestsOK'
  <1>1. CASE FindRole(p)
    <2>1. PICK r \in RoleIds : diff' = [diff EXCEPT ![p] = [NoDiff EXCEPT !.roleOf = r]]
      BY <1>1 DEF FindRole,
       TypeInv, WorldTypes, TableTypes, RequestsOK, RequestTypes, Holds
    <2>2. /\ [NoDiff EXCEPT !.roleOf = r] \in Diff
          /\ [NoDiff EXCEPT !.roleOf = r].roleOf = r
      BY DEF NoDiff, Diff
    <2>3. QED
      BY <1>1, <2>1, <2>2 DEF FindRole, GoTo, Steps, UserSteps, worldVars,
       TypeInv, WorldTypes, TableTypes, RequestsOK, RequestTypes, Holds
  <1>2. CASE ReadOwn(p)
    <2>1. CASE Answer(p)
      BY <1>2, <2>1, Answered DEF ReadOwn, worldVars
    <2>2. CASE ~Answer(p)
      BY <1>2, <2>2 DEF ReadOwn, GoTo, Steps, UserSteps, requestVars, worldVars,
       TypeInv, WorldTypes, TableTypes, RequestsOK, RequestTypes, Holds
    <2>3. QED  BY <2>1, <2>2
  <1>3. CASE ~FindRole(p) /\ ~ReadOwn(p)
    BY <1>3, Answered DEF Administer, FindRoleFails, InsertUser, Deactivate, UpdateProfile,
       UpdateLoginRow, UpdateUser, DeleteUser, DeleteLogin, SaveLogin, LastOnLogin,
       LastOnAccount, worldVars
  <1>4. QED
    BY <1>1, <1>2, <1>3

LEMMA AssignRequests ==
    ASSUME TypeInv, NEW p \in Procs, Assign(p)
    PROVE  RequestsOK'
  <1>1. CASE ReadAccount(p)
    <2>1. account[whom[p]] \in Account
      BY <1>1 DEF ReadAccount, UserSteps,
       TypeInv, WorldTypes, TableTypes, RequestsOK, RequestTypes, Holds
    <2>2. QED
      BY <1>1, <2>1 DEF ReadAccount, GoTo, Steps, UserSteps, worldVars,
       TypeInv, WorldTypes, TableTypes, RequestsOK, RequestTypes, Holds
  <1>2. CASE ReadAssigned(p)
    BY <1>2 DEF ReadAssigned, GoTo, Steps, UserSteps, requestVars, worldVars,
       TypeInv, WorldTypes, TableTypes, RequestsOK, RequestTypes, Holds
  <1>3. CASE SelectForSave(p)
    <2> DEFINE r == account[whom[p]]
               new == IF r = Gone
                  THEN [NoDiff EXCEPT !.insert = TRUE,
                                      !.roleOf = IF IsGrant(p) THEN entity[p].role
                                                               ELSE req[p].arg.role,
                                      !.add = IF IsGrant(p)
                                                 THEN entity[p].permissions \cup
                                                         {req[p].arg.permission}
                                                 ELSE {}]
                  ELSE DiffAgainst(entity[p], r, req[p].arg, IsGrant(p))
    <2>1. /\ whom[p] \in Users /\ r \in Account \cup {Gone}
          /\ entity[p] \in Account /\ req[p] \in Request
      BY <1>3 DEF SelectForSave, UserSteps,
       TypeInv, WorldTypes, TableTypes, RequestsOK, RequestTypes, Holds
    <2>2. req[p].arg.role \in RoleIds /\ req[p].arg.permission \in PermissionIds
      BY <2>1 DEF Request, Argument
    <2>3. entity[p].role \in RoleIds /\ entity[p].permissions \in SUBSET PermissionIds
      BY <2>1 DEF Account
    <2>4. IsGrant(p) \in BOOLEAN  BY DEF IsGrant
    <2>5. new \in Diff /\ new.roleOf \in RoleIds
      <3>1. CASE r = Gone
        BY <2>2, <2>3, <2>4, <3>1 DEF NoDiff, Diff
      <3>2. CASE r # Gone
        <4>1. r.permissions \in SUBSET PermissionIds  BY <2>1, <3>2 DEF Account
        <4>2. QED  BY <2>2, <2>3, <2>4, <3>2, <4>1 DEF Diff, DiffAgainst
      <3>3. QED  BY <3>1, <3>2
    <2>6. diff' = [diff EXCEPT ![p] = new]  BY <1>3 DEF SelectForSave,
       TypeInv, WorldTypes, TableTypes, RequestsOK, RequestTypes, Holds
    <2>7. /\ GoTo(p, "save")
          /\ UNCHANGED <<req, whom, shown, signed, entity, mails>>
      BY <1>3 DEF SelectForSave, worldVars
    <2> HIDE DEF new, r
    <2>8. QED
      BY <2>1, <2>5, <2>6, <2>7 DEF GoTo, Steps, UserSteps, worldVars,
       TypeInv, WorldTypes, TableTypes, RequestsOK, RequestTypes, Holds
  <1>4. CASE AssignmentBreaks(p)
    BY <1>4, EndsKeeps DEF AssignmentBreaks
  <1>5. CASE InsertRole(p) \/ UpdateRole(p) \/ DeleteRole(p) \/ InsertPermission(p)
             \/ DeletePermission(p) \/ Save(p)
    BY <1>5, Answered DEF InsertRole, UpdateRole, DeleteRole, LastOnRole, InsertPermission,
       DeletePermission, Save, LastOnAccount, worldVars
  <1>6. QED
    BY <1>1, <1>2, <1>3, <1>4, <1>5 DEF Assign

LEMMA StartRequests ==
    ASSUME TypeInv, NEW p \in Procs, NEW r \in offered.requests, Start(p, r)
    PROVE  RequestsOK'
  <1> DEFINE next == IF NeedsUser(Route(r.handler)) THEN "guard" ELSE FirstStep[r.handler]
  <1>1. r \in Request
    BY ConstantsAssumption DEF IsWorkload,
       TypeInv, WorldTypes, TableTypes, RequestsOK, RequestTypes, Holds
  <1>2. r.user \in Users \cup {None}
    BY <1>1 DEF Request
  <1>3. /\ next \in Steps \ {"idle", "insertUser", "save", "diff", "readAssigned",
                             "redeemRecovery", "redeemConfirmation"}
        /\ next \in UserSteps => r.user \in Users
    BY <1>1, FirstSteps DEF Steps, UserSteps
  <1>4. pc' = [pc EXCEPT ![p] = next]
    BY DEF Start, GoTo,
       TypeInv, WorldTypes, TableTypes, RequestsOK, RequestTypes, Holds
  <1> HIDE DEF next
  <1>5. QED
    BY <1>1, <1>2, <1>3, <1>4 DEF Start,
       TypeInv, WorldTypes, TableTypes, RequestsOK, RequestTypes, Holds

LEMMA GuardRequests ==
    ASSUME TypeInv, NEW p \in Procs, Guard(p)
    PROVE  RequestsOK'
  <1>1. CASE Passes(req[p])
    <2>1. req[p] \in Request /\ whom[p] = req[p].user
      BY DEF Guard,
       TypeInv, WorldTypes, TableTypes, RequestsOK, RequestTypes, Holds
    <2>2. QED
      BY <1>1, <2>1, FirstSteps DEF Guard, GoTo, requestVars, worldVars,
       TypeInv, WorldTypes, TableTypes, RequestsOK, RequestTypes, Holds
  <1>2. CASE ~Passes(req[p])
    BY <1>2, Answered DEF Guard, worldVars
  <1>3. QED  BY <1>1, <1>2

LEMMA RequestsStep ==
    ASSUME TypeInv, [Next]_vars
    PROVE  RequestsOK'
  <1>1. CASE \E p \in Procs : (\E r \in offered.requests : Start(p, r)) \/ Guard(p) \/ Session(p)
                                \/ Mailed(p) \/ Administer(p) \/ Assign(p)
    BY <1>1, StartRequests, GuardRequests, SessionRequests, MailedRequests, AdministerRequests,
       AssignRequests
  <1>2. CASE \/ \E w \in background : WriteInBackground(w)
             \/ Midnight \/ (\E j \in Jobs : Job(j)) \/ Tick
    BY <1>2, QuietKeeps DEF WriteInBackground, Midnight, Job, Tick, worldVars
  <1>3. CASE Crash
    BY <1>3, EndsKeeps DEF Crash
  <1>4. CASE Terminating \/ UNCHANGED vars
    BY <1>4, QuietKeeps DEF Terminating, vars, worldVars
  <1>5. QED
    BY <1>1, <1>2, <1>3, <1>4 DEF Next

-----------------------------------------------------------------------------
(* Tables                                                                    *)

\* What f makes of the elements of a finite set is no more than they are.
LEMMA ImageBound ==
    ASSUME NEW S, IsFiniteSet(S), NEW f, NEW T \in SUBSET {f[x] : x \in S}
    PROVE  IsFiniteSet(T) /\ Cardinality(T) <= Cardinality(S)
  <1> DEFINE g == [x \in S |-> f[x]]
             R == {f[x] : x \in S}
  <1>1. g \in Surjection(S, R)
    BY DEF Surjection
  <1>2. IsFiniteSet(R) /\ Cardinality(R) <= Cardinality(S)
    BY <1>1, FS_Surjection
  <1>3. IsFiniteSet(T) /\ Cardinality(T) <= Cardinality(R)
    BY <1>2, FS_Subset
  <1>4. Cardinality(R) \in Nat /\ Cardinality(S) \in Nat /\ Cardinality(T) \in Nat
    BY <1>2, <1>3, FS_CardinalityType
  <1>5. QED  BY <1>2, <1>3, <1>4

\* There are more numbers up to one more than the rows than rows.
LEMMA FreshIdIsFresh ==
    ASSUME IsFiniteSet(tokens)
    PROVE  FreshId \in Nat /\ \A t \in tokens : t.id # FreshId
  <1> DEFINE C == Cardinality(tokens)
             N == 1..(C + 1)
             f == [t \in tokens |-> t.id]
  <1>1. C \in Nat  BY FS_CardinalityType
  <1>2. IsFiniteSet(N) /\ Cardinality(N) = C + 1  BY <1>1, FS_Interval
  <1>3. \E n \in N : \A t \in tokens : t.id # n
    <2>1. SUFFICES ASSUME \A n \in N : \E t \in tokens : t.id = n  PROVE FALSE
      OBVIOUS
    <2>2. N \in SUBSET {f[t] : t \in tokens}  BY <2>1
    <2>3. Cardinality(N) <= C  BY <2>2, ImageBound
    <2>4. QED  BY <1>1, <1>2, <2>3
  <1>4. QED  BY <1>1, <1>3 DEF FreshId

LEMMA QuietTables ==
    ASSUME TypeInv, UNCHANGED tableVars
    PROVE  TableTypes'
  BY DEF TypeInv, TableTypes, tableVars

\* An update of one row.
LEMMA UpdateLoginTables ==
    ASSUME TypeInv, NEW u, NEW new, u \in Users /\ login[u] # Gone => new \in Login,
           UpdateLogin(u, new), UNCHANGED <<account, tokens, role, permission, born>>
    PROVE  TableTypes'
  BY DEF TypeInv, TableTypes, UpdateLogin

LEMMA LoginTables ==
    ASSUME TypeInv, login' \in [Users -> Login \cup {Gone}],
           UNCHANGED <<account, tokens, role, permission, born>>
    PROVE  TableTypes'
  BY DEF TypeInv, TableTypes

LEMMA AccountTables ==
    ASSUME TypeInv, account' \in [Users -> Account \cup {Gone}],
           UNCHANGED <<login, tokens, role, permission, born>>
    PROVE  TableTypes'
  BY DEF TypeInv, TableTypes

LEMMA TokenTables ==
    ASSUME TypeInv, tokens' \subseteq Token, IsFiniteSet(tokens'),
           UNCHANGED <<account, login, role, permission, born>>
    PROVE  TableTypes'
  BY DEF TypeInv, TableTypes

LEMMA RewrittenToken ==
    ASSUME NEW t \in Token, NEW at \in Times, NEW ends \in BOOLEAN
    PROVE  [t EXCEPT !.token = at, !.revoked = ends] \in Token
  BY DEF Token

LEMMA RevokedToken ==
    ASSUME NEW t \in Token
    PROVE  [t EXCEPT !.revoked = TRUE] \in Token
  BY DEF Token

LEMMA CountedLogin ==
    ASSUME NEW row \in Login, NEW n \in Nat, NEW code \in Nat
    PROVE  [row EXCEPT !.attempts = n, !.code = code] \in Login
  BY DEF Login

LEMMA RetypedLogin ==
    ASSUME NEW row \in Login, NEW address \in Emails
    PROVE  [row EXCEPT !.email = address, !.password = Unhashed] \in Login
  BY DEF Login

LEMMA SessionTables ==
    ASSUME TypeInv, NEW p \in Procs, Session(p)
    PROVE  TableTypes'
  <1> DEFINE u == whom[p]
  <1>1. CASE WriteCode(p)
    <2>1. u \in Users /\ login[u] # Gone =>
             [login[u] EXCEPT !.code = mails + 1, !.attempts = 0] \in Login
      <3>1. mails + 1 \in Nat  BY DEF TypeInv, WorldTypes
      <3>2. u \in Users /\ login[u] # Gone => login[u] \in Login
        BY DEF TypeInv, TableTypes
      <3> HIDE DEF u
      <3>3. QED  BY <3>1, <3>2 DEF Login
    <2>2. QED
      BY <1>1, <2>1, UpdateLoginTables DEF WriteCode
  <1>2. CASE StampLogin(p)
    <2>1. u \in Users /\ login[u] # Gone => [login[u] EXCEPT !.loginAt = clock] \in Login
      BY DEF TypeInv, TableTypes, WorldTypes, Login, Stamp
    <2>2. QED
      BY <1>2, <2>1, UpdateLoginTables DEF StampLogin
  <1>3. CASE StampActivity(p)
    <2>1. u \in Users /\ login[u] # Gone => [login[u] EXCEPT !.activityAt = clock] \in Login
      BY DEF TypeInv, TableTypes, WorldTypes, Login, Stamp
    <2>2. QED
      BY <1>3, <2>1, UpdateLoginTables DEF StampActivity
  <1>4. CASE InsertToken(p)
    <2> DEFINE row == [id |-> FreshId, user |-> u, device |-> req[p].arg.device,
                       token |-> signed[p], revoked |-> FALSE]
    <2>1. u \in Users /\ req[p] \in Request /\ signed[p] \in Times
      BY <1>4 DEF InsertToken, UserSteps, TypeInv, RequestTypes, Holds
    <2>2. req[p].arg.device \in Devices  BY <2>1 DEF Request, Argument
    <2>3. FreshId \in Nat  BY FreshIdIsFresh DEF TypeInv, TableTypes
    <2>4. row \in Token  BY <2>1, <2>2, <2>3 DEF Token
    <2>5. tokens' = tokens \cup {row}  BY <1>4 DEF InsertToken
    <2> HIDE DEF row
    <2>6. tokens' \subseteq Token  BY <2>4, <2>5 DEF TypeInv, TableTypes
    <2>7. IsFiniteSet(tokens')  BY <2>5, FS_AddElement DEF TypeInv, TableTypes
    <2>8. QED  BY <1>4, <2>6, <2>7, TokenTables DEF InsertToken
  <1>5. CASE UpdateToken(p)
    <2> DEFINE old == TokensOf(u, req[p].arg.device)
               f == [t \in tokens |-> [t EXCEPT !.token = signed[p], !.revoked = FALSE]]
               new == {[t EXCEPT !.token = signed[p], !.revoked = FALSE] : t \in old}
    <2>1. signed[p] \in Times /\ old \subseteq tokens
      BY DEF TypeInv, RequestTypes, TokensOf
    <2>2. new \subseteq Token
      <3>1. ASSUME NEW t \in old
            PROVE  [t EXCEPT !.token = signed[p], !.revoked = FALSE] \in Token
        <4>1. t \in Token  BY <2>1 DEF TypeInv, TableTypes
        <4> HIDE DEF old, new, f
        <4>2. QED  BY <2>1, <4>1, RewrittenToken
      <3>2. QED  BY <3>1
    <2>3. new \in SUBSET {f[t] : t \in tokens}  BY <2>1
    <2>4. IsFiniteSet(new)
      <3> HIDE DEF new, f
      <3>1. QED  BY <2>3, ImageBound DEF TypeInv, TableTypes
    <2>5. IsFiniteSet(tokens \ old)  BY FS_Subset DEF TypeInv, TableTypes
    <2>6. tokens' = (tokens \ old) \cup new  BY <1>5 DEF UpdateToken
    <2> HIDE DEF new, old
    <2>7. IsFiniteSet(tokens')  BY <2>4, <2>5, <2>6, FS_Union
    <2>8. tokens' \subseteq Token  BY <2>2, <2>6 DEF TypeInv, TableTypes
    <2>9. QED  BY <1>5, <2>7, <2>8, TokenTables DEF UpdateToken
  <1>6. CASE Revoke(p)
    <2> DEFINE f == [t \in tokens |-> IF t.user = u THEN [t EXCEPT !.revoked = TRUE] ELSE t]
    <2>1. tokens' = {f[t] : t \in tokens}
      BY <1>6 DEF Revoke
    <2>2. \A t \in tokens : f[t] \in Token
      <3>1. ASSUME NEW t \in tokens
            PROVE  f[t] \in Token
        <4>1. t \in Token  BY DEF TypeInv, TableTypes
        <4>2. [t EXCEPT !.revoked = TRUE] \in Token  BY <4>1, RevokedToken
        <4>3. f[t] = IF t.user = u THEN [t EXCEPT !.revoked = TRUE] ELSE t
          OBVIOUS
        <4> HIDE DEF f
        <4>4. QED  BY <4>1, <4>2, <4>3
      <3>2. QED  BY <3>1
    <2> HIDE DEF f
    <2>3. tokens' \subseteq Token /\ IsFiniteSet(tokens')
      BY <2>1, <2>2, ImageBound DEF TypeInv, TableTypes
    <2>4. QED  BY <1>6, <2>3, TokenTables DEF Revoke
  <1>7. CASE \/ Verify(p) \/ VerifyFails(p) \/ CodeAccepted(p) \/ CodeWrong(p) \/ CodeLocked(p)
             \/ CodeUnknown(p) \/ ReadToken(p) \/ ReadTokenFails(p) \/ FindToken(p)
             \/ InsertTokenFails(p)
    BY <1>7, QuietTables DEF Verify, VerifyFails, CodeAccepted, CodeWrong, CodeLocked,
       CodeUnknown, ReadToken, ReadTokenFails, FindToken, InsertTokenFails
  <1>8. QED
    BY <1>1, <1>2, <1>3, <1>4, <1>5, <1>6, <1>7 DEF Session

LEMMA MailedTables ==
    ASSUME TypeInv, NEW p \in Procs, Mailed(p)
    PROVE  TableTypes'
  <1> DEFINE u == whom[p]
             there == u \in Users /\ login[u] # Gone
  <1>1. mails + 1 \in Nat /\ clock \in Stamp /\ Never \in Stamp
    BY DEF TypeInv, WorldTypes, Stamp
  <1>2. there => login[u] \in Login
    BY DEF TypeInv, TableTypes
  <1>3. pc[p] = "redeemRecovery" => req[p].arg.password \in Passwords
    BY DEF TypeInv, Holds, Request, Argument
  <1> HIDE DEF there
  <1>4. there => /\ [login[u] EXCEPT !.recovery = mails + 1, !.recoveryAt = clock] \in Login
                 /\ [login[u] EXCEPT !.confirmation = mails + 1] \in Login
                 /\ [login[u] EXCEPT !.confirmed = TRUE, !.confirmation = 0] \in Login
    BY <1>1, <1>2 DEF Login
  <1>5. there /\ pc[p] = "redeemRecovery" =>
           [login[u] EXCEPT !.password = req[p].arg.password, !.recovery = 0,
                            !.recoveryAt = Never] \in Login
    BY <1>1, <1>2, <1>3 DEF Login
  <1> USE DEF there
  <1>6. CASE WriteRecovery(p) \/ WriteConfirmation(p)
    BY <1>4, <1>6, UpdateLoginTables DEF WriteRecovery, WriteConfirmation
  <1>7. CASE RedeemRecovery(p) \/ RedeemConfirmation(p)
    BY <1>4, <1>5, <1>7, UpdateLoginTables DEF RedeemRecovery, RedeemConfirmation, Redeem
  <1>8. CASE ReadAddress(p) \/ ReadAddressFails(p) \/ ReadRecovery(p) \/ ReadConfirmation(p)
             \/ MailedTokenRefused(p)
    BY <1>8, QuietTables DEF ReadAddress, ReadAddressFails, ReadRecovery, ReadConfirmation,
       MailedTokenRefused
  <1>9. QED
    BY <1>6, <1>7, <1>8 DEF Mailed

LEMMA NewLoginType ==
    ASSUME NEW e \in Emails, NEW password \in Passwords \cup {Unhashed}, NEW confirmed \in BOOLEAN
    PROVE  NewLogin(e, password, confirmed) \in Login
  BY DEF NewLogin, Login, Stamp

LEMMA AdministerTables ==
    ASSUME TypeInv, NEW p \in Procs, Administer(p)
    PROVE  TableTypes'
  <1> DEFINE u == whom[p]
             arg == req[p].arg
  <1>1. /\ account \in [Users -> Account \cup {Gone}]
        /\ login \in [Users -> Login \cup {Gone}]
        /\ born \subseteq Ids
    BY DEF TypeInv, TableTypes
  <1>2. pc[p] # "idle" =>
           /\ arg.email \in Emails /\ Lower[arg.email] \in Emails
           /\ arg.password \in Passwords /\ arg.confirmed \in BOOLEAN
           /\ arg.profile \in Nat /\ arg.role \in RoleIds
    BY ConstantsAssumption DEF TypeInv, Holds, Request, Argument
  <1>3. CASE FindRole(p) \/ FindRoleFails(p) \/ ReadOwn(p) \/ UpdateUser(p)
    BY <1>3, QuietTables DEF FindRole, FindRoleFails, ReadOwn, UpdateUser
  <1>4. CASE InsertUser(p)
    <2> DEFINE e == Lower[arg.email]
               r == diff[p].roleOf
               new == [role |-> r, permissions |-> {}, profile |-> 0]
               data == NewLogin(e, arg.password, arg.confirmed)
    <2>1. r \in RoleIds  BY <1>4 DEF InsertUser, TypeInv, Holds
    <2>2. new \in Account  BY <2>1 DEF Account
    <2>3. data \in Login  BY <1>2, <1>4, NewLoginType DEF InsertUser
    <2> HIDE DEF new, data
    <2>4. PICK v \in NextOf(Users) :
             /\ born' = born \cup {v}
             /\ \/ account' = [account EXCEPT ![v] = new] /\ login' = [login EXCEPT ![v] = data]
                \/ UNCHANGED <<account, login>>
      BY <1>4 DEF InsertUser, new, data
    <2>5. v \in Users  BY <2>4 DEF NextOf
    <2>6. UNCHANGED <<tokens, role, permission>>  BY <1>4 DEF InsertUser
    <2>7. QED
      BY <2>2, <2>3, <2>4, <2>5, <2>6 DEF TypeInv, TableTypes, Ids
  <1>5. CASE Deactivate(p)
    <2>1. u \in Users /\ login[u] # Gone =>
             [login[u] EXCEPT !.status = "DEACTIVATED"] \in Login
      BY <1>1 DEF Login
    <2>2. login' \in [Users -> Login \cup {Gone}]
      BY <1>1, <1>5, <2>1 DEF Deactivate, LastOnLogin
    <2>3. QED  BY <1>5, <2>2, LoginTables DEF Deactivate, LastOnLogin
  <1>6. CASE UpdateProfile(p)
    <2>1. u \in Users => Patched(u, arg) \in Account \cup {Gone}
      BY <1>1, <1>2, <1>6 DEF UpdateProfile, Patched, Account
    <2>2. account' \in [Users -> Account \cup {Gone}]
      BY <1>1, <1>6, <2>1 DEF UpdateProfile, LastOnAccount
    <2>3. QED  BY <1>6, <2>2, AccountTables DEF UpdateProfile, LastOnAccount
  <1>7. CASE UpdateLoginRow(p)
    <2>1. u \in Users => Retyped(u, arg) \in Login \cup {Gone}
      <3>1. arg.email \in Emails  BY <1>2, <1>7 DEF UpdateLoginRow
      <3>2. ASSUME u \in Users, login[u] # Gone
            PROVE  Retyped(u, arg) \in Login
        <4>1. login[u] \in Login  BY <1>1, <3>2
        <4> HIDE DEF u, arg
        <4>2. QED  BY <3>1, <3>2, <4>1, RetypedLogin DEF Retyped
      <3> HIDE DEF u, arg
      <3>3. QED  BY <3>2 DEF Retyped
    <2>2. login' \in [Users -> Login \cup {Gone}]
      BY <1>1, <1>7, <2>1 DEF UpdateLoginRow, LastOnLogin
    <2>3. QED  BY <1>7, <2>2, LoginTables DEF UpdateLoginRow, LastOnLogin
  <1>8. CASE DeleteUser(p)
    BY <1>1, <1>8 DEF DeleteUser, TypeInv, TableTypes
  <1>9. CASE DeleteLogin(p)
    BY <1>1, <1>9, LoginTables DEF DeleteLogin, LastOnLogin
  <1>10. CASE SaveLogin(p)
    <2> DEFINE e == Lower[arg.email]
               row == IF login[u] # Gone
                         THEN [login[u] EXCEPT !.email = e, !.password = Unhashed]
                         ELSE NewLogin(e, Unhashed, FALSE)
    <2>1. e \in Emails  BY <1>2, <1>10 DEF SaveLogin
    <2>2. NewLogin(e, Unhashed, FALSE) \in Login  BY <2>1, NewLoginType
    <2>3. u \in Users => row \in Login
      BY <1>1, <2>1, <2>2 DEF Login
    <2> HIDE DEF row
    <2>4. login' = [login EXCEPT ![u] = row] \/ login' = login
      BY <1>10 DEF SaveLogin, LastOnLogin, row
    <2>5. login' \in [Users -> Login \cup {Gone}]  BY <1>1, <2>3, <2>4
    <2>6. QED  BY <1>10, <2>5, LoginTables DEF SaveLogin, LastOnLogin
  <1>11. QED
    BY <1>3, <1>4, <1>5, <1>6, <1>7, <1>8, <1>9, <1>10 DEF Administer

LEMMA AssignTables ==
    ASSUME TypeInv, NEW p \in Procs, Assign(p)
    PROVE  TableTypes'
  <1> DEFINE u == whom[p]
             arg == req[p].arg
  <1>1. /\ account \in [Users -> Account \cup {Gone}]
        /\ role \in [RoleIds -> RoleNames \cup {Gone}]
        /\ permission \subseteq PermissionIds
        /\ born \subseteq Ids
    BY DEF TypeInv, TableTypes
  <1>2. pc[p] # "idle" => arg.name \in RoleNames
    BY DEF TypeInv, Holds, Request, Argument
  <1>3. CASE ReadAccount(p) \/ ReadAssigned(p) \/ SelectForSave(p) \/ AssignmentBreaks(p)
    BY <1>3, QuietTables DEF ReadAccount, ReadAssigned, SelectForSave, AssignmentBreaks, Ends
  <1>4. CASE InsertRole(p)
    BY <1>1, <1>2, <1>4 DEF InsertRole, LastOnRole, NextOf, Ids, TypeInv, TableTypes
  <1>5. CASE UpdateRole(p) \/ DeleteRole(p)
    BY <1>1, <1>2, <1>5 DEF UpdateRole, DeleteRole, LastOnRole, TypeInv, TableTypes
  <1>6. CASE InsertPermission(p)
    BY <1>1, <1>6 DEF InsertPermission, NextOf, Ids, TypeInv, TableTypes
  <1>7. CASE DeletePermission(p)
    <2> DEFINE n == arg.permission
    <2>1. \A v \in Users :
             account[v] # Gone =>
                [account[v] EXCEPT !.permissions = account[v].permissions \ {n}] \in Account
      BY <1>1 DEF Account
    <2>2. account' \in [Users -> Account \cup {Gone}]
      BY <1>1, <1>7, <2>1 DEF DeletePermission
    <2>3. permission' \subseteq PermissionIds
      BY <1>1, <1>7 DEF DeletePermission
    <2>4. QED  BY <1>7, <2>2, <2>3 DEF DeletePermission, TypeInv, TableTypes
  <1>8. CASE Save(p)
    <2> DEFINE lost == ~diff[p].insert /\ account[u] = Gone
    <2>1. /\ u \in Users /\ entity[p] \in Account /\ diff[p] \in Diff
          /\ diff[p].roleOf \in RoleIds
      BY <1>8 DEF Save, UserSteps, TypeInv, RequestTypes, Holds
    <2>2. PICK r \in IF lost THEN {diff[p].roleOf} ELSE RolesToWrite(p) :
             account' = IF lost THEN account
                ELSE [account EXCEPT ![u] = SavedAccount(entity[p], account[u], diff[p], r)]
      BY <1>8 DEF Save, LastOnAccount
    <2>3. r \in RoleIds
      BY <2>1, <2>2 DEF RolesToWrite, Account
    <2>4. /\ diff[p].add \subseteq PermissionIds
          /\ entity[p].profile \in Nat
      BY <2>1 DEF Diff, Account
    <2>5. ~lost => SavedAccount(entity[p], account[u], diff[p], r) \in Account
      <3>1. CASE diff[p].insert
        BY <2>3, <2>4, <3>1 DEF SavedAccount, Account
      <3>2. CASE ~diff[p].insert /\ account[u] # Gone
        <4>1. account[u] \in Account  BY <1>1, <2>1, <3>2
        <4>2. QED  BY <2>3, <2>4, <3>2, <4>1 DEF SavedAccount, Account
      <3>3. QED  BY <3>1, <3>2
    <2>6. account' \in [Users -> Account \cup {Gone}]
      BY <1>1, <2>2, <2>5
    <2>7. QED  BY <1>8, <2>6, AccountTables DEF Save, LastOnAccount
  <1>9. QED
    BY <1>3, <1>4, <1>5, <1>6, <1>7, <1>8 DEF Assign

LEMMA BackgroundTables ==
    ASSUME TypeInv, NEW w \in background, WriteInBackground(w)
    PROVE  TableTypes'
  <1> DEFINE u == w.user
             new == [login[u] EXCEPT !.attempts = w.attempts,
                                     !.code = IF w.kind = "reset" THEN 0 ELSE login[u].code]
  <1>1. u \in Users /\ w.attempts \in Nat
    BY DEF TypeInv, WorldTypes, Write
  <1>2. login[u] # Gone => new \in Login
    <2>1. login[u] # Gone => login[u] \in Login  BY <1>1 DEF TypeInv, TableTypes
    <2>2. ASSUME login[u] # Gone
          PROVE  new \in Login
      <3>1. login[u] \in Login  BY <2>1, <2>2
      <3>2. login[u].code \in Nat  BY <3>1 DEF Login
      <3> DEFINE code == IF w.kind = "reset" THEN 0 ELSE login[u].code
      <3>3. code \in Nat  BY <3>2
      <3> HIDE DEF u
      <3>4. QED  BY <1>1, <3>1, <3>3, CountedLogin
    <2>3. QED  BY <2>2
  <1>3. UpdateLogin(u, new)
    BY DEF WriteInBackground
  <1> HIDE DEF new
  <1>4. QED
    BY <1>2, <1>3, UpdateLoginTables DEF WriteInBackground

LEMMA JobTables ==
    ASSUME TypeInv, NEW j \in Jobs, Job(j)
    PROVE  TableTypes'
  <1>1. login \in [Users -> Login \cup {Gone}] /\ tokens \subseteq Token /\ IsFiniteSet(tokens)
    BY DEF TypeInv, TableTypes
  <1>2. \A v \in Users : login[v] # Gone =>
           /\ [login[v] EXCEPT !.status = "INACTIVE"] \in Login
           /\ [login[v] EXCEPT !.status = "ACTIVE"] \in Login
    BY <1>1 DEF Login
  <1>3. /\ clearInactiveUsers(login, clock) \in [Users -> Login \cup {Gone}]
        /\ setActiveUsers(login, clock) \in [Users -> Login \cup {Gone}]
    BY <1>1, <1>2 DEF clearInactiveUsers, setActiveUsers
  <1>4. login' \in [Users -> Login \cup {Gone}]
    BY <1>1, <1>3 DEF Job, Jobs
  <1>5. tokens' \in SUBSET tokens
    BY DEF Job, clearExpiredTokens
  <1>6. IsFiniteSet(tokens') /\ tokens' \subseteq Token
    BY <1>1, <1>5, FS_Subset
  <1>7. QED
    BY <1>4, <1>6 DEF Job, TypeInv, TableTypes

LEMMA TablesStep ==
    ASSUME TypeInv, [Next]_vars
    PROVE  TableTypes'
  <1>1. CASE \E p \in Procs : (\E r \in offered.requests : Start(p, r)) \/ Guard(p)
    BY <1>1, QuietTables DEF Start, Guard
  <1>2. CASE \E p \in Procs : Session(p) \/ Mailed(p) \/ Administer(p) \/ Assign(p)
    BY <1>2, SessionTables, MailedTables, AdministerTables, AssignTables
  <1>3. CASE \E w \in background : WriteInBackground(w)
    BY <1>3, BackgroundTables
  <1>4. CASE \E j \in Jobs : Job(j)
    BY <1>4, JobTables
  <1>5. CASE Midnight \/ Tick \/ Crash \/ Terminating \/ UNCHANGED vars
    BY <1>5, QuietTables DEF Midnight, Tick, Crash, Ends, Terminating, vars
  <1>6. QED
    BY <1>1, <1>2, <1>3, <1>4, <1>5 DEF Next

-----------------------------------------------------------------------------
(* The world                                                                 *)

\* What touches neither the updates under way nor a history variable but
\* perhaps the mails and what was issued.
LEMMA QuietWorld ==
    ASSUME TypeInv, UNCHANGED <<processVars, worldVars, historyVars>>
    PROVE  WorldTypes'
  BY DEF TypeInv, WorldTypes, processVars, worldVars, historyVars

LEMMA MailWorld ==
    ASSUME TypeInv, mails' \in {mails, mails + 1}, otp' \in {"login", "default"},
           UNCHANGED <<background, issued, clock, due, offered, used, historyVars>>
    PROVE  WorldTypes'
  <1>1. mails' \in Nat /\ mails' >= mails /\ 1..mails \subseteq 1..mails'
    BY DEF TypeInv, WorldTypes
  <1>2. QED
    BY <1>1 DEF TypeInv, WorldTypes, historyVars

LEMMA IssuedWorld ==
    ASSUME TypeInv, NEW p \in Procs,
           issued' = issued \/ issued' = [issued EXCEPT ![whom[p]] = @ \cup {signed[p]}],
           UNCHANGED <<processVars, mails, clock, due, offered, used, historyVars>>
    PROVE  WorldTypes'
  <1>1. signed[p] \in Times  BY DEF TypeInv, RequestTypes
  <1>2. issued' \in [Users -> SUBSET Times]
    BY <1>1 DEF TypeInv, WorldTypes
  <1>3. QED
    BY <1>2 DEF TypeInv, WorldTypes, processVars, historyVars

LEMMA SessionWorld ==
    ASSUME TypeInv, NEW p \in Procs, Session(p)
    PROVE  WorldTypes'
  <1>1. CASE WriteCode(p)
    BY <1>1, MailWorld DEF WriteCode
  <1>2. CASE InsertToken(p) \/ UpdateToken(p) \/ StampLogin(p)
    BY <1>2, IssuedWorld DEF InsertToken, UpdateToken, StampLogin, TokenStored
  <1>3. CASE CodeWrong(p) \/ CodeLocked(p)
    <2> DEFINE counts(v) == [user |-> v, kind |-> "count", attempts |-> login[v].attempts + 1]
               resets(v) == [user |-> v, kind |-> "reset", attempts |-> 0]
    <2>1. PICK v \in Users :
             /\ login[v] # Gone
             /\ background' \in {background \cup {counts(v)}, background \cup {resets(v)}}
             /\ wrong' \in {wrong, [wrong EXCEPT ![v] = wrong[v] + 1]}
      BY <1>3 DEF CodeWrong, CodeLocked, historyVars
    <2>2. login[v].attempts \in Nat  BY <2>1 DEF TypeInv, TableTypes, Login
    <2>3. counts(v) \in Write /\ resets(v) \in Write  BY <2>1, <2>2 DEF Write
    <2>4. wrong' \in [Users -> Nat]  BY <2>1 DEF TypeInv, WorldTypes
    <2> HIDE DEF counts, resets
    <2>5. QED
      BY <1>3, <2>1, <2>3, <2>4 DEF CodeWrong, CodeLocked, TypeInv, WorldTypes, worldVars,
         historyVars
  <1>4. CASE ReadToken(p)
    <2>1. whom[p] \in Users  BY <1>4 DEF ReadToken, UserSteps, TypeInv, Holds
    <2>2. saw' = [saw EXCEPT ![p] = ended[whom[p]]]  BY <1>4 DEF ReadToken
    <2>3. saw' \in [Procs -> Nat]  BY <2>1, <2>2 DEF TypeInv, WorldTypes
    <2>4. QED
      BY <1>4, <2>3 DEF ReadToken, TypeInv, WorldTypes, processVars, worldVars
  <1>5. CASE Revoke(p)
    <2>1. ended' = [ended EXCEPT ![whom[p]] = ended[whom[p]] + 1] /\ whom[p] \in Users
      BY <1>5 DEF Revoke, UserSteps, TypeInv, Holds
    <2>2. ended \in [Users -> Nat]  BY DEF TypeInv, WorldTypes
    <2>3. ended' \in [Users -> Nat]  BY <2>1, <2>2
    <2>4. QED
      BY <1>5, <2>3 DEF Revoke, TypeInv, WorldTypes, processVars, worldVars
  <1>6. CASE \/ Verify(p) \/ VerifyFails(p) \/ CodeAccepted(p) \/ CodeUnknown(p)
             \/ ReadTokenFails(p) \/ FindToken(p) \/ InsertTokenFails(p) \/ StampActivity(p)
    BY <1>6, QuietWorld DEF Verify, VerifyFails, CodeAccepted, CodeUnknown, ReadTokenFails,
       FindToken, InsertTokenFails, StampActivity
  <1>7. QED
    BY <1>1, <1>2, <1>3, <1>4, <1>5, <1>6 DEF Session

LEMMA MailedWorld ==
    ASSUME TypeInv, NEW p \in Procs, Mailed(p)
    PROVE  WorldTypes'
  <1>1. CASE WriteRecovery(p) \/ WriteConfirmation(p)
    BY <1>1, MailWorld DEF WriteRecovery, WriteConfirmation, processVars, TypeInv, WorldTypes
  <1>2. CASE RedeemRecovery(p) \/ RedeemConfirmation(p)
    <2>1. shown[p] \in 1..mails
      BY <1>2 DEF RedeemRecovery, RedeemConfirmation, TypeInv, Holds
    <2>2. redeemed' \subseteq redeemed \cup {shown[p]}
      BY <1>2 DEF RedeemRecovery, RedeemConfirmation, Redeem
    <2>3. QED
      BY <1>2, <2>1, <2>2 DEF RedeemRecovery, RedeemConfirmation, Redeem, TypeInv, WorldTypes,
         processVars, worldVars
  <1>3. CASE ReadAddress(p) \/ ReadAddressFails(p) \/ ReadRecovery(p) \/ ReadConfirmation(p)
             \/ MailedTokenRefused(p)
    BY <1>3, QuietWorld DEF ReadAddress, ReadAddressFails, ReadRecovery, ReadConfirmation,
       MailedTokenRefused
  <1>4. QED  BY <1>1, <1>2, <1>3 DEF Mailed

LEMMA EndsWorld ==
    ASSUME TypeInv, Ends, used' \in [requests: Nat, midnights: Nat, crashes: Nat]
    PROVE  WorldTypes'
  BY DEF TypeInv, WorldTypes, Ends, historyVars

LEMMA ClerkWorld ==
    ASSUME TypeInv, NEW p \in Procs, Administer(p) \/ Assign(p)
    PROVE  WorldTypes'
  <1>1. CASE Administer(p)
    BY <1>1, QuietWorld DEF Administer, FindRole, FindRoleFails, InsertUser, ReadOwn, Deactivate,
       UpdateProfile, UpdateLoginRow, UpdateUser, DeleteUser, DeleteLogin, SaveLogin,
       LastOnLogin, LastOnAccount
  <1>2. CASE AssignmentBreaks(p)
    BY <1>2, EndsWorld DEF AssignmentBreaks, TypeInv, WorldTypes
  <1>3. CASE Assign(p) /\ ~AssignmentBreaks(p)
    BY <1>3, QuietWorld DEF Assign, InsertRole, UpdateRole, DeleteRole, LastOnRole,
       InsertPermission, DeletePermission, ReadAccount, ReadAssigned, SelectForSave, Save,
       LastOnAccount
  <1>4. QED  BY <1>1, <1>2, <1>3

LEMMA WorldStep ==
    ASSUME TypeInv, [Next]_vars
    PROVE  WorldTypes'
  <1>1. CASE \E p \in Procs, r \in offered.requests : Start(p, r)
    BY <1>1 DEF Start, TypeInv, WorldTypes, processVars, historyVars
  <1>2. CASE \E p \in Procs : Guard(p)
    BY <1>2, QuietWorld DEF Guard
  <1>3. CASE \E p \in Procs : Session(p) \/ Mailed(p) \/ Administer(p) \/ Assign(p)
    BY <1>3, SessionWorld, MailedWorld, ClerkWorld
  <1>4. CASE \E w \in background : WriteInBackground(w)
    BY <1>4 DEF WriteInBackground, TypeInv, WorldTypes, worldVars, historyVars
  <1>5. CASE \E j \in Jobs : Job(j)
    <2>1. ended' \in [Users -> Nat]
      BY <1>5 DEF Job, TypeInv, WorldTypes
    <2>2. QED
      BY <1>5, <2>1 DEF Job, TypeInv, WorldTypes, processVars
  <1>6. CASE Midnight
    BY <1>6 DEF Midnight, TypeInv, WorldTypes, processVars, historyVars
  <1>7. CASE Tick
    <2>1. offered.time \in Times  BY ConstantsAssumption DEF TypeInv, WorldTypes, IsWorkload
    <2>2. clock' \in Times
      BY <1>7, <2>1, ConstantsAssumption DEF Tick, TypeInv, WorldTypes, Times
    <2>3. QED
      BY <1>7, <2>2 DEF Tick, TypeInv, WorldTypes, processVars, historyVars
  <1>8. CASE Crash
    BY <1>8, EndsWorld DEF Crash, TypeInv, WorldTypes
  <1>9. CASE Terminating \/ UNCHANGED vars
    BY <1>9, QuietWorld DEF Terminating, vars
  <1>10. QED
    BY <1>1, <1>2, <1>3, <1>4, <1>5, <1>6, <1>7, <1>8, <1>9 DEF Next

-----------------------------------------------------------------------------
LEMMA TypeInit ==
    ASSUME Init
    PROVE  TypeInv
  <1>1. TableTypes
    <2>1. born \subseteq Ids
      BY ConstantsAssumption DEF Init, Ids
    <2>2. QED
      BY <2>1, ConstantsAssumption, InitialAssumption DEF Init, TableTypes
  <1>2. RequestTypes /\ \A p \in Procs : Holds(p)
    BY Idle DEF Init, RequestTypes, Holds
  <1>3. WorldTypes
    <2>1. \A u \in Users : {t.token : t \in {x \in tokens : x.user = u}} \subseteq Times
      BY ConstantsAssumption DEF Init, Token
    <2>2. issued \in [Users -> SUBSET Times]  BY <2>1 DEF Init
    <2>3. QED  BY <2>2, Idle DEF Init, WorldTypes
  <1>4. QED  BY <1>1, <1>2, <1>3 DEF TypeInv

LEMMA TypeStep ==
    ASSUME TypeInv, [Next]_vars
    PROVE  TypeInv'
  BY RequestsStep, TablesStep, WorldStep DEF TypeInv, RequestsOK

LEMMA TypeInvariant == Spec => []TypeInv
  BY TypeInit, TypeStep, PTL DEF Spec

\* The tables have their types whatever requests, jobs and crashes do, and a
\* request only ever holds what its statements can have read.
THEOREM TypeCorrect == Spec => []TypeOK
  <1>1. TypeInv => TypeOK
    BY DEF TypeInv, TableTypes, RequestTypes, WorldTypes, TypeOK
  <1>2. QED  BY <1>1, TypeInvariant, PTL
=============================================================================
