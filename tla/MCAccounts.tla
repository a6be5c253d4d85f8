----------------------------- MODULE MCAccounts -----------------------------
(* Small instances of Accounts for TLC: each workload asks one question.      *)
EXTENDS Accounts, TLC

CONSTANTS boss, ann, n1, n2, n3, n4, adm, usr, r1, r2, r3, g1, g2, g3, g4, a, A, b, c, pw, pw2, d1, d2, p1, p2

Row(e, st, conf, two) ==
    [email |-> e, password |-> pw, confirmed |-> conf, status |-> st,
     recovery |-> 0, recoveryAt |-> Never, confirmation |-> 0,
     m2fa |-> two, code |-> 0, attempts |-> 0, loginAt |-> Never, activityAt |-> Never]

Accounts0 == boss :> [role |-> adm, permissions |-> {}, profile |-> 0] @@
             ann  :> [role |-> usr, permissions |-> {g1}, profile |-> 0] @@
             [u \in {n1, n2, n3, n4} |-> Gone]
Logins0   == boss :> Row(b, "ACTIVE", TRUE, TRUE) @@ ann :> Row(a, "BLOCKED", TRUE, FALSE)
             @@ [u \in {n1, n2, n3, n4} |-> Gone]
Tokens0   == {[id |-> 1, user |-> boss, device |-> d1, token |-> 0, revoked |-> FALSE],
              [id |-> 2, user |-> ann, device |-> d1, token |-> 0, revoked |-> FALSE]}
Roles0    == adm :> "ADMIN" @@ usr :> "USER" @@ [r \in {r1, r2, r3} |-> Gone]
LowerCase == a :> a @@ A :> a @@ b :> b @@ c :> c

\* What a handler does not look at is the same everywhere.
Unread == [email |-> a, password |-> pw, device |-> d1, right |-> FALSE, confirmed |-> FALSE,
           profile |-> 0, withRole |-> FALSE, role |-> usr, permission |-> g1, name |-> "USER"]
Nothing == [profile |-> 0]

Ask(h, by, user, arg) == [handler |-> h, by |-> by, user |-> user, arg |-> arg @@ Unread]
SignIn(e, d) == Ask("login", None, None, [email |-> e, device |-> d])
Refresh(d)   == Ask("refreshToken", None, ann, [device |-> d])
Logout       == Ask("logout", ann, ann, Nothing)
Code(r)      == Ask("loginM2FA", None, None, [right |-> r])
Mail(h, e)   == Ask(h, None, None, [email |-> e])
NewPassword  == Ask("passwordChange", None, None, [password |-> pw2])
Register(e)  == Ask("register", None, None, [email |-> e])
ByBoss(h, user, arg) == Ask(h, boss, user, arg)
ByAnn(h, arg) == Ask(h, ann, ann, arg)

W(requests, count, time, midnights, crashes) ==
    [requests |-> requests, count |-> count, time |-> time, midnights |-> midnights,
     crashes |-> crashes]

Sessions     == W({SignIn(a, d1), SignIn(a, d2), Refresh(d1), Refresh(d2), Logout}, 4, 0, 0, 0)
Expiry       == W({SignIn(a, d1), Refresh(d1)}, 3, 2, 1, 0)
SecondFactor == W({SignIn(b, d1), Code(TRUE), Code(FALSE)}, 4, 0, 0, 1)
Guesses      == W({SignIn(b, d1), Code(FALSE)}, 7, 0, 0, 0)
Recovery     == W({Mail("passwordReset", a), NewPassword, SignIn(a, d1)}, 4, 2, 0, 0)
Confirmation == W({Register(c), Mail("emailConfirmation", c), Mail("confirmEmail", c)}, 4, 0, 0, 0)
Cron         == W({SignIn(a, d1), Refresh(d1),
                   ByAnn("deactivateCurrentUserAccount", Nothing)}, 2, 2, 1, 1)
Directory    == W({Register(A), Register(b), ByBoss("createUser", None, Nothing),
                   ByBoss("deleteUser", ann, Nothing),
                   ByBoss("deleteUserLoginData", ann, Nothing),
                   ByBoss("createUserLoginData", ann, [email |-> A]),
                   ByBoss("updateUserLoginData", ann, [email |-> A]),
                   ByBoss("updateUser", ann, Nothing),
                   ByAnn("updateUserAccount", [profile |-> 1]),
                   ByBoss("deleteRoles", None, [role |-> usr]), SignIn(a, d2), Logout},
                  3, 0, 1, 0)
Rights       == W({ByBoss("assignPermissionToUser", ann, [permission |-> g2]),
                   ByBoss("assignPermissionToUser", ann, [permission |-> g1]),
                   ByBoss("assignRoleToUser", ann, [role |-> r1]),
                   ByBoss("assignRoleToUser", ann, [role |-> adm]),
                   ByBoss("createPermissions", None, Nothing),
                   ByBoss("deletePermissions", None, [permission |-> g2]),
                   ByBoss("deletePermissions", None, [permission |-> g1]),
                   ByBoss("createRoles", None, [name |-> "TICKET_VERIFIER"]),
                   ByBoss("updateRoles", None, [role |-> r1, name |-> "USER"]),
                   ByBoss("deleteRoles", None, [role |-> r1]),
                   ByAnn("updateUserAccount", [profile |-> 1])}, 3, 0, 0, 0)
Signup       == W({Register(c), ByBoss("createRoles", None, [name |-> "USER"]),
                   ByBoss("updateRoles", None, [role |-> usr, name |-> "GUEST"]),
                   ByBoss("deleteRoles", None, [role |-> r1])}, 3, 0, 0, 0)

AllWorkloads == {Signup, Sessions, Expiry, SecondFactor, Guesses, Recovery, Confirmation, Cron,
                 Directory, Rights}
=============================================================================
