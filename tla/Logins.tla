-------------------------------- MODULE Logins --------------------------------
(***************************************************************************)
(* Logins of one account: password, 2FA token, session                     *)
(* (cmd/auth.go, internal/auth/auth.go, internal/tmptokens), and the       *)
(* password changes that end sessions (cmd/users.go).                      *)
(*                                                                         *)
(* A password is its number: the current one is the last. Sessions are     *)
(* rows of the database; tokens are in memory, one lock guards them. A     *)
(* login reads the account in one statement and saves its session in a     *)
(* later one; a change of password writes the account and deletes its      *)
(* sessions in another.                                                    *)
(***************************************************************************)
EXTENDS Integers, FiniteSets

CONSTANTS
    LoginRequests,      \* requests that can be under way at once
    Tokens,             \* ids of 2FA tokens
    MaxTries,           \* 15 (tmptokens.go:15)
    MaxPasswords, MaxSessions,      \* bounds on password changes and on logins
    MaxLoginFaults      \* bound on failing statements and restarts

ASSUME LoginsAssumption ==
    /\ IsFiniteSet(Tokens)
    /\ {MaxTries, MaxPasswords, MaxSessions} \subseteq Nat \ {0}
    /\ MaxLoginFaults \in Nat

VARIABLES
    password,       \* the number of the password set last
    active,         \* users.status is not disabled
    twofa,          \* users.twofa_type is totp
    token,          \* tmptokens: [at, tries, for]
    sessions,       \* sessions: [n, for, late], for = the password the login had proved
    loginRequest,
    \* --- history, read by properties and by bounds only ---
    made,           \* logins so far
    passes,         \* checks of a token that succeeded
    spent2fa,       \* tokens that gave a session or are gone otherwise
    purgeFailed,    \* sessions were to be deleted and were not
    loginFaults

loginsVars == <<password, active, twofa, token, sessions, loginRequest, made, passes,
                spent2fa, purgeFailed, loginFaults>>

NoLogin == [at |-> "idle"]

LoginsInit ==
    /\ password = 1 /\ active = TRUE /\ twofa = FALSE
    /\ token = [t \in Tokens |-> [at |-> "unused", tries |-> 0, for |-> 0]]
    /\ sessions = {}
    /\ loginRequest = [r \in LoginRequests |-> NoLogin]
    /\ made = 0 /\ passes = [t \in Tokens |-> 0] /\ spent2fa = {}
    /\ purgeFailed = FALSE /\ loginFaults = 0

LoginAt(r, pc) == loginRequest[r].at = pc
LoginGoto(r, rec) == loginRequest' = [loginRequest EXCEPT ![r] = rec]
LoginDone(r) == LoginGoto(r, NoLogin)
LoginFault == loginFaults < MaxLoginFaults /\ loginFaults' = loginFaults + 1
LoginAccount == <<password, active, twofa>>
TokenHistory == <<passes, spent2fa>>

-----------------------------------------------------------------------------
(* Login.                                                                  *)

\* doLogin: login-user wants the current password of an account that is not disabled.
Login(r) ==
    /\ LoginAt(r, "idle") /\ active /\ made < MaxSessions /\ made' = made + 1
    /\ LoginGoto(r, [at |-> IF twofa THEN "issue" ELSE "save", for |-> password])
    /\ UNCHANGED <<LoginAccount, token, sessions, TokenHistory, purgeFailed, loginFaults>>

\* OIDCFinish: the provider vouches for the e-mail.
OIDCFinish(r) ==
    /\ LoginAt(r, "idle") /\ made < MaxSessions /\ made' = made + 1
    /\ LoginGoto(r, [at |-> "save", for |-> password])
    /\ UNCHANGED <<LoginAccount, token, sessions, TokenHistory, purgeFailed, loginFaults>>

\* tmptokens.Set, of a random id
IssueToken(r, t) ==
    /\ LoginAt(r, "issue") /\ token[t].at = "unused"
    /\ token' = [token EXCEPT ![t] = [at |-> "live", tries |-> 0, for |-> loginRequest[r].for]]
    /\ LoginDone(r)
    /\ UNCHANGED <<LoginAccount, sessions, made, TokenHistory, purgeFailed, loginFaults>>

Gone == [at |-> "gone", tries |-> 0, for |-> 0]

\* Variant: one try more.
ExceededLate(tries) == tries > MaxTries + 1

\* The tries are used up.
Exceeded(tries) == tries > MaxTries

\* TwofaPage: tmptokens.Check counts a try, for showing the form (not post) as for posting it.
TwofaPage(r, t, post) ==
    LET tries == token[t].tries + 1 IN
    /\ LoginAt(r, "idle") /\ token[t].at = "live"
    /\ IF Exceeded(tries)
       THEN /\ token' = [token EXCEPT ![t] = Gone] /\ spent2fa' = spent2fa \cup {t}
            /\ UNCHANGED <<loginRequest, passes>>
       ELSE /\ token' = [token EXCEPT ![t].tries = tries]
            /\ passes' = [passes EXCEPT ![t] = @ + 1] /\ UNCHANGED spent2fa
            /\ IF post THEN LoginGoto(r, [at |-> "verify", token |-> t, for |-> token[t].for])
                       ELSE UNCHANGED loginRequest
    /\ UNCHANGED <<LoginAccount, sessions, made, purgeFailed, loginFaults>>

\* doTwofaVerify: the account has 2FA on and the code is right, or the form is shown again.
Verify(r) ==
    /\ LoginAt(r, "verify")
    /\ \/ twofa /\ LoginGoto(r, [loginRequest[r] EXCEPT !.at = "consume"])
       \/ LoginDone(r)
    /\ UNCHANGED <<LoginAccount, token, sessions, made, TokenHistory, purgeFailed, loginFaults>>

\* Variant: the token is not deleted.
ConsumedKeep(t) == token[t]

\* What tmptokens.Delete leaves of a token.
Consumed(t) == Gone

ConsumeToken(r) ==
    LET q == loginRequest[r] IN
    /\ LoginAt(r, "consume")
    /\ token' = [token EXCEPT ![q.token] = Consumed(q.token)]
    /\ spent2fa' = spent2fa \cup {q.token}
    /\ LoginGoto(r, [at |-> "save", for |-> q.for])
    /\ UNCHANGED <<LoginAccount, sessions, made, passes, purgeFailed, loginFaults>>

\* SaveSession
NewSession(n, for) == [n |-> n, for |-> for, late |-> for < password]
SaveSession(r) ==
    /\ LoginAt(r, "save")
    /\ \/ /\ \E n \in 1..(2 * MaxSessions) :
              /\ \A s \in sessions : s.n # n
              /\ \A k \in 1..(n - 1) : \E s \in sessions : s.n = k
              /\ sessions' = sessions \cup {NewSession(n, loginRequest[r].for)}
          /\ UNCHANGED loginFaults
       \/ LoginFault /\ UNCHANGED sessions
    /\ LoginDone(r)
    /\ UNCHANGED <<LoginAccount, token, made, TokenHistory, purgeFailed>>

-----------------------------------------------------------------------------
(* What a session or an administrator does.                                *)

Logout(s) ==
    /\ sessions' = sessions \ {s}
    /\ UNCHANGED <<LoginAccount, token, loginRequest, made, TokenHistory, purgeFailed, loginFaults>>

\* UpdateUserProfile with a password, by session s, which knows the new one: the others are
\* to be deleted.
ChangePassword(r, s) ==
    /\ LoginAt(r, "idle") /\ password < MaxPasswords
    /\ password' = password + 1
    /\ sessions' = (sessions \ {s}) \cup {[s EXCEPT !.for = password + 1]}
    /\ LoginGoto(r, [at |-> "purge", keep |-> s.n])
    /\ UNCHANGED <<active, twofa, token, made, TokenHistory, purgeFailed, loginFaults>>

\* UpdateUser with a password, by an administrator: all are to be deleted.
SetPassword(r) ==
    /\ LoginAt(r, "idle") /\ password < MaxPasswords
    /\ password' = password + 1
    /\ LoginGoto(r, [at |-> "purge", keep |-> 0])
    /\ UNCHANGED <<active, twofa, token, sessions, made, TokenHistory, purgeFailed, loginFaults>>

\* Variant: with nothing to keep, everything is kept.
KeptAll(n) == {s \in sessions : n = 0 \/ s.n = n}

\* delete-user-sessions: what it leaves.
Kept(n) == {s \in sessions : s.n = n}

\* DeleteUserSessions; an error is logged and the request goes on.
PurgeSessions(r) ==
    /\ LoginAt(r, "purge")
    /\ \/ sessions' = Kept(loginRequest[r].keep) /\ UNCHANGED <<purgeFailed, loginFaults>>
       \/ LoginFault /\ purgeFailed' = TRUE /\ UNCHANGED sessions
    /\ LoginDone(r)
    /\ UNCHANGED <<LoginAccount, token, made, TokenHistory>>

\* UpdateUser of the status
SetStatus ==
    /\ active' = ~active
    /\ UNCHANGED <<password, twofa, token, sessions, loginRequest, made, TokenHistory, purgeFailed, loginFaults>>

\* EnableTOTP, DisableTOTP: check what the session's user is, and for the latter the
\* password ...
TOTPCheck(r, on) ==
    /\ LoginAt(r, "idle") /\ sessions # {} /\ twofa = ~on /\ (~on => active)
    /\ LoginGoto(r, [at |-> "totp", on |-> on])
    /\ UNCHANGED <<LoginAccount, token, sessions, made, TokenHistory, purgeFailed, loginFaults>>

\* ... and write it (SetTwoFA).
TOTPWrite(r) ==
    /\ LoginAt(r, "totp")
    /\ twofa' = loginRequest[r].on /\ LoginDone(r)
    /\ UNCHANGED <<password, active, token, sessions, made, TokenHistory, purgeFailed, loginFaults>>

\* The time of a token is over: Check refuses it and deletes it, or Clean does.
ExpireToken(t) ==
    /\ token[t].at = "live"
    /\ token' = [token EXCEPT ![t] = Gone] /\ spent2fa' = spent2fa \cup {t}
    /\ UNCHANGED <<LoginAccount, sessions, loginRequest, made, passes, purgeFailed, loginFaults>>

\* The process ends and starts again: tokens and requests are gone.
RestartLogins ==
    /\ LoginFault
    /\ token' = [t \in Tokens |-> IF token[t].at = "unused" THEN token[t] ELSE Gone]
    /\ spent2fa' = {t \in Tokens : token[t].at # "unused"}
    /\ purgeFailed' = (purgeFailed \/ \E r \in LoginRequests : LoginAt(r, "purge"))
    /\ loginRequest' = [r \in LoginRequests |-> NoLogin]
    /\ UNCHANGED <<LoginAccount, sessions, made, passes>>

LoginStep(r) ==
    \/ Login(r) \/ OIDCFinish(r) \/ Verify(r) \/ ConsumeToken(r) \/ SaveSession(r)
    \/ \E t \in Tokens : IssueToken(r, t) \/ \E post \in BOOLEAN : TwofaPage(r, t, post)
    \/ \E s \in sessions : ChangePassword(r, s)
    \/ SetPassword(r) \/ PurgeSessions(r)
    \/ \E on \in BOOLEAN : TOTPCheck(r, on)
    \/ TOTPWrite(r)

LoginsNext ==
    \/ \E r \in LoginRequests : LoginStep(r)
    \/ \E s \in sessions : Logout(s)
    \/ \E t \in Tokens : ExpireToken(t)
    \/ SetStatus \/ RestartLogins

-----------------------------------------------------------------------------
(* What is checked.                                                        *)

LoginsTypeOK ==
    /\ password \in 1..MaxPasswords
    /\ {active, twofa, purgeFailed} \subseteq BOOLEAN
    /\ \A t \in Tokens : token[t].at \in {"unused", "live", "gone"} /\ token[t].tries \in 0..MaxTries
    /\ \A s \in sessions : s.for \in 1..password
    /\ \A s1, s2 \in sessions : s1.n = s2.n => s1 = s2

\* A change of password ends every session there was. One under an old password is there
\* only while the deletion is still to come, or if it failed; or because it was saved after
\* the change by a login that had proved the old password before it, itself or with a 2FA
\* token it was given (cmd/users.go:169-177, 263-274, cmd/auth.go:467-526, 607-644).
OldSessionsEnd ==
    \A s \in sessions : s.for < password =>
        s.late \/ purgeFailed \/ \E r \in LoginRequests : LoginAt(r, "purge")

\* A 2FA token passes no more checks than it has tries, however many requests use it at
\* once, and none after it has given a session, has run out, or the process has ended
\* (internal/tmptokens/tmptokens.go:57-90, cmd/auth.go:132-145, 633-637).
TokenEnds ==
    [][\A t \in Tokens : passes'[t] # passes[t] => t \notin spent2fa /\ passes[t] < MaxTries]_loginsVars
=============================================================================
