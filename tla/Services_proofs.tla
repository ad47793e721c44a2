---------------------------- MODULE Services_proofs ----------------------------
(***************************************************************************)
(* Theorems about Services, for any number of requests, users, tokens,     *)
(* browsers, clicks, files and processes. No component writes what another *)
(* keeps: a step of Services is one of a component or leaves it alone, so  *)
(* that the invariant of each is one of Services.                          *)
(*                                                                         *)
(* The invariants of Accounts, Templates, Media and Upgrade are in         *)
(* Stores_proofs; those of Logins, Settings, ConfirmWebhooks, EventStream, *)
(* TxMessages and PushTokens are here, before the theorems.                *)
(***************************************************************************)
EXTENDS Services, Stores_proofs, SequenceTheorems


-----------------------------------------------------------------------------
(* Logins: what a 2FA token is good for, and which sessions there are.     *)

TokenType == [at : {"unused", "live", "gone"}, tries : Nat, for : Nat]
SessionType == [n : Nat \ {0}, for : Nat, late : BOOLEAN]
LoginType ==
    [at : {"idle"}] \cup [at : {"issue", "save"}, for : Nat]
      \cup [at : {"verify", "consume"}, token : Tokens, for : Nat]
      \cup [at : {"purge"}, keep : Nat] \cup [at : {"totp"}, on : BOOLEAN]

LoginsTyped ==
    /\ password \in Nat
    /\ loginRequest \in [LoginRequests -> LoginType]
    /\ token \in [Tokens -> TokenType] /\ passes \in [Tokens -> Nat]
    /\ sessions \subseteq SessionType

\* A live token has passed as many checks as tries were counted, and is not spent.
TokenInv ==
    \A t \in Tokens :
        /\ token[t].at = "unused" => t \notin spent2fa /\ passes[t] = 0
        /\ token[t].at = "live" => t \notin spent2fa /\ passes[t] = token[t].tries

Current(s) == s.for < password => s.late

\* Once a password was changed the sessions are current, or the deletion that leaves only
\* current ones is still to come; an earlier deletion that is late does no harm.
SessionInv ==
    /\ \A s1, s2 \in sessions : s1.n = s2.n => s1 = s2
    /\ \/ purgeFailed \/ \A s \in sessions : Current(s)
       \/ \E r \in LoginRequests : LoginAt(r, "purge") /\ \A s \in Kept(loginRequest[r].keep) : Current(s)

LoginsInv == LoginsTyped /\ TokenInv /\ SessionInv

-----------------------------------------------------------------------------

\* A request that goes on leaves the others where they are.
LEMMA LoginGoes ==
    ASSUME LoginsTyped, NEW r \in LoginRequests, NEW rec \in LoginType, LoginGoto(r, rec)
    PROVE  /\ loginRequest' \in [LoginRequests -> LoginType]
           /\ loginRequest'[r] = rec
           /\ \A o \in LoginRequests : o # r => loginRequest'[o] = loginRequest[o]
BY DEF LoginsTyped, LoginGoto

\* The stages of a login request are well typed.
LEMMA Records ==
    /\ NoLogin \in LoginType /\ NoLogin.at = "idle"
    /\ \A f \in Nat : [at |-> "issue", for |-> f] \in LoginType /\ [at |-> "save", for |-> f] \in LoginType
    /\ \A t \in Tokens, f \in Nat : [at |-> "verify", token |-> t, for |-> f] \in LoginType
    /\ \A k \in Nat : [at |-> "purge", keep |-> k] \in LoginType
    /\ \A on \in BOOLEAN : [at |-> "totp", on |-> on] \in LoginType
BY DEF LoginType, NoLogin

\* What a request holds at each stage.
LEMMA AtFacts ==
    ASSUME LoginsTyped, NEW r \in LoginRequests
    PROVE  /\ loginRequest[r] \in LoginType
           /\ LoginAt(r, "issue") \/ LoginAt(r, "save") => loginRequest[r].for \in Nat
           /\ LoginAt(r, "verify") \/ LoginAt(r, "consume") =>
                loginRequest[r] \in [at : {"verify", "consume"}, token : Tokens, for : Nat]
           /\ LoginAt(r, "purge") => loginRequest[r].keep \in Nat
BY DEF LoginsTyped, LoginType, LoginAt

\* Steps of requests that are not at a deletion, and change neither sessions nor password.
LEMMA SameSessions ==
    ASSUME LoginsTyped, SessionInv, NEW r \in LoginRequests, ~LoginAt(r, "purge"),
           UNCHANGED <<password, sessions, purgeFailed>>,
           \A o \in LoginRequests : o # r => loginRequest'[o] = loginRequest[o]
    PROVE  SessionInv'
<1>1. \A n : Kept(n)' = Kept(n)
    BY DEF Kept
<1>2. \A s : Current(s)' <=> Current(s)
    BY DEF Current
<1>3. ASSUME NEW o \in LoginRequests, LoginAt(o, "purge"), \A s \in Kept(loginRequest[o].keep) : Current(s)
      PROVE  /\ LoginAt(o, "purge")'
             /\ \A s \in sessions : s.n = loginRequest'[o].keep => Current(s)'
    BY <1>2, <1>3 DEF LoginAt, Kept
<1> QED
    BY <1>2, <1>3 DEF SessionInv, Kept

\* Steps that leave the tokens alone.
LEMMA SameTokens ==
    ASSUME TokenInv, UNCHANGED <<token, passes, spent2fa>>
    PROVE  TokenInv'
BY DEF TokenInv

-----------------------------------------------------------------------------
(* Every step of Logins keeps the invariant.                               *)

\* Steps of a request that touch neither tokens, sessions nor the password.
LEMMA LoginKeeps ==
    ASSUME LoginsInv, NEW r \in LoginRequests,
           \/ Login(r) \/ OIDCFinish(r) \/ Verify(r)
           \/ \E on \in BOOLEAN : TOTPCheck(r, on)
           \/ TOTPWrite(r)
    PROVE  LoginsInv'
<1>1. LoginsTyped /\ TokenInv /\ SessionInv
    BY DEF LoginsInv
<1>2. UNCHANGED <<password, sessions, purgeFailed, token, passes, spent2fa>> /\ ~LoginAt(r, "purge")
    BY DEF Login, OIDCFinish, Verify, TOTPCheck, TOTPWrite, LoginAt, LoginAccount, TokenHistory
<1>3. \E rec \in LoginType : LoginGoto(r, rec)
    <2>1. CASE Login(r)
        BY <2>1, <1>1, Records DEF Login, LoginsTyped
    <2>2. CASE OIDCFinish(r)
        BY <2>2, <1>1, Records DEF OIDCFinish, LoginsTyped
    <2>3. CASE Verify(r)
        <3>1. [loginRequest[r] EXCEPT !.at = "consume"] \in LoginType
            BY <2>3, <1>1, AtFacts DEF Verify, LoginType
        <3> QED
            BY <2>3, <3>1, Records DEF Verify, LoginDone
    <2>4. CASE \E on \in BOOLEAN : TOTPCheck(r, on)
        BY <2>4, Records DEF TOTPCheck
    <2>5. CASE TOTPWrite(r)
        BY <2>5, Records DEF TOTPWrite, LoginDone
    <2> QED
        BY <2>1, <2>2, <2>3, <2>4, <2>5
<1>4. PICK rec \in LoginType : LoginGoto(r, rec)
    BY <1>3
<1>5. /\ loginRequest' \in [LoginRequests -> LoginType]
      /\ \A o \in LoginRequests : o # r => loginRequest'[o] = loginRequest[o]
    BY <1>1, <1>4, LoginGoes
<1>6. LoginsTyped'
    BY <1>1, <1>2, <1>5 DEF LoginsTyped
<1>7. SessionInv'
    BY <1>1, <1>2, <1>5, SameSessions
<1>8. TokenInv'
    BY <1>1, <1>2, SameTokens
<1> QED
    BY <1>6, <1>7, <1>8 DEF LoginsInv

\* A token is issued once: it was unused, so that nothing passed it.
LEMMA IssueTokenKeeps ==
    ASSUME LoginsInv, NEW r \in LoginRequests, NEW t \in Tokens, IssueToken(r, t)
    PROVE  LoginsInv'
<1>1. LoginsTyped /\ TokenInv /\ SessionInv
    BY DEF LoginsInv
<1>2. UNCHANGED <<password, sessions, purgeFailed, passes, spent2fa>> /\ LoginAt(r, "issue")
    BY DEF IssueToken, LoginAccount, TokenHistory
<1>3. PICK f \in Nat : f = loginRequest[r].for
    BY <1>1, <1>2, AtFacts
<1>4. /\ token' \in [Tokens -> TokenType]
      /\ token'[t].at = "live" /\ token'[t].tries = 0 /\ token[t].at = "unused"
      /\ \A u \in Tokens : u # t => token'[u] = token[u]
    BY <1>1, <1>3 DEF IssueToken, LoginsTyped, TokenType
<1>5. /\ loginRequest' \in [LoginRequests -> LoginType]
      /\ \A o \in LoginRequests : o # r => loginRequest'[o] = loginRequest[o]
    BY <1>1, Records, LoginGoes DEF IssueToken, LoginDone
<1>6. LoginsTyped'
    BY <1>1, <1>2, <1>4, <1>5 DEF LoginsTyped
<1>7. ~LoginAt(r, "purge")
    BY <1>2 DEF LoginAt
<1>8. SessionInv'
    BY <1>1, <1>2, <1>5, <1>7, SameSessions
<1>9. TokenInv'
    BY <1>1, <1>2, <1>4 DEF TokenInv
<1> QED
    BY <1>6, <1>8, <1>9 DEF LoginsInv

\* Checking a token counts a try and a pass, or ends the token.
LEMMA TwofaPageKeeps ==
    ASSUME LoginsInv, NEW r \in LoginRequests, NEW t \in Tokens, NEW post \in BOOLEAN, TwofaPage(r, t, post)
    PROVE  LoginsInv'
<1>1. LoginsTyped /\ TokenInv /\ SessionInv
    BY DEF LoginsInv
<1>2. UNCHANGED <<password, sessions, purgeFailed>> /\ LoginAt(r, "idle") /\ token[t].at = "live"
    BY DEF TwofaPage, LoginAccount
<1>3. ~LoginAt(r, "purge")
    BY <1>2 DEF LoginAt
<1>4. token[t] \in TokenType /\ token[t].for \in Nat /\ token[t].tries \in Nat
    BY <1>1 DEF LoginsTyped, TokenType
<1>5. /\ loginRequest' \in [LoginRequests -> LoginType]
      /\ \A o \in LoginRequests : o # r => loginRequest'[o] = loginRequest[o]
    <2>1. CASE UNCHANGED loginRequest
        BY <2>1, <1>1 DEF LoginsTyped
    <2>2. CASE LoginGoto(r, [at |-> "verify", token |-> t, for |-> token[t].for])
        <3>1. [at |-> "verify", token |-> t, for |-> token[t].for] \in LoginType
            BY <1>4, Records
        <3> QED
            BY <2>2, <3>1, <1>1, LoginGoes
    <2> QED
        BY <2>1, <2>2 DEF TwofaPage
<1>6. SessionInv'
    BY <1>1, <1>2, <1>3, <1>5, SameSessions
<1>7. CASE Exceeded(token[t].tries + 1)
    <2>1. /\ token' = [token EXCEPT ![t] = Gone] /\ spent2fa' = spent2fa \cup {t}
          /\ UNCHANGED passes
        BY <1>7 DEF TwofaPage
    <2>2. LoginsTyped'
        BY <1>1, <1>2, <1>5, <2>1 DEF LoginsTyped, TokenType, Gone
    <2>3. TokenInv'
        BY <1>1, <2>1 DEF TokenInv, LoginsTyped, Gone
    <2> QED
        BY <1>6, <2>2, <2>3 DEF LoginsInv
<1>8. CASE ~Exceeded(token[t].tries + 1)
    <2>1. /\ token' = [token EXCEPT ![t].tries = token[t].tries + 1]
          /\ passes' = [passes EXCEPT ![t] = @ + 1] /\ UNCHANGED spent2fa
        BY <1>8 DEF TwofaPage
    <2>2. LoginsTyped'
        BY <1>1, <1>2, <1>4, <1>5, <2>1 DEF LoginsTyped, TokenType
    <2>3. TokenInv'
        BY <1>1, <1>2, <1>4, <2>1 DEF TokenInv, LoginsTyped, TokenType
    <2> QED
        BY <1>6, <2>2, <2>3 DEF LoginsInv
<1> QED
    BY <1>7, <1>8

\* A token that gave a session is gone, and stays so.
LEMMA ConsumeTokenKeeps ==
    ASSUME LoginsInv, NEW r \in LoginRequests, ConsumeToken(r)
    PROVE  LoginsInv'
<1>1. LoginsTyped /\ TokenInv /\ SessionInv
    BY DEF LoginsInv
<1>2. UNCHANGED <<password, sessions, purgeFailed, passes>> /\ LoginAt(r, "consume")
    BY DEF ConsumeToken, LoginAccount
<1>3. loginRequest[r].token \in Tokens /\ loginRequest[r].for \in Nat
    BY <1>1, <1>2, AtFacts
<1>4. PICK t \in Tokens : t = loginRequest[r].token
    BY <1>3
<1>5. token' = [token EXCEPT ![t] = Gone] /\ spent2fa' = spent2fa \cup {t}
    BY <1>4 DEF ConsumeToken, Consumed
<1>6. /\ loginRequest' \in [LoginRequests -> LoginType]
      /\ \A o \in LoginRequests : o # r => loginRequest'[o] = loginRequest[o]
    BY <1>1, <1>3, Records, LoginGoes DEF ConsumeToken
<1>7. LoginsTyped'
    BY <1>1, <1>2, <1>5, <1>6 DEF LoginsTyped, TokenType, Gone
<1>8. TokenInv'
    BY <1>1, <1>2, <1>5 DEF TokenInv, LoginsTyped, Gone
<1>9. SessionInv'
    <2>1. ~LoginAt(r, "purge")
        BY <1>2 DEF LoginAt
    <2> QED
        BY <1>1, <1>2, <1>6, <2>1, SameSessions
<1> QED
    BY <1>7, <1>8, <1>9 DEF LoginsInv

\* A session is saved under a number of its own, and is late if its password is not the last.
LEMMA SaveSessionKeeps ==
    ASSUME LoginsInv, NEW r \in LoginRequests, SaveSession(r)
    PROVE  LoginsInv'
<1>1. LoginsTyped /\ TokenInv /\ SessionInv
    BY DEF LoginsInv
<1>2. UNCHANGED <<password, purgeFailed, token, passes, spent2fa>> /\ LoginAt(r, "save") /\ ~LoginAt(r, "purge")
    BY DEF SaveSession, LoginAccount, TokenHistory, LoginAt
<1>3. /\ loginRequest' \in [LoginRequests -> LoginType]
      /\ \A o \in LoginRequests : o # r => loginRequest'[o] = loginRequest[o]
    BY <1>1, Records, LoginGoes DEF SaveSession, LoginDone
<1>4. TokenInv'
    BY <1>1, <1>2, SameTokens
<1>5. CASE UNCHANGED sessions
    <2>1. LoginsTyped'
        BY <1>1, <1>2, <1>3, <1>5 DEF LoginsTyped
    <2>2. SessionInv'
        BY <1>1, <1>2, <1>3, <1>5, SameSessions
    <2> QED
        BY <1>4, <2>1, <2>2 DEF LoginsInv
<1>6. CASE \E n \in 1..(2 * MaxSessions) :
             /\ \A s \in sessions : s.n # n
             /\ sessions' = sessions \cup {NewSession(n, loginRequest[r].for)}
    <2>1. PICK n \in 1..(2 * MaxSessions) :
             /\ \A s \in sessions : s.n # n
             /\ sessions' = sessions \cup {NewSession(n, loginRequest[r].for)}
        BY <1>6
    <2>2. PICK f \in Nat : f = loginRequest[r].for
        BY <1>1, <1>2, AtFacts
    <2>3. PICK x : x = NewSession(n, f)
        OBVIOUS
    <2>4. x \in SessionType /\ x.n = n /\ Current(x) /\ sessions' = sessions \cup {x}
        <3>1. n \in Nat \ {0} /\ (f < password) \in BOOLEAN
            BY <2>1, LoginsAssumption
        <3>2. x = [n |-> n, for |-> f, late |-> f < password]
            BY <2>3 DEF NewSession
        <3>3. x \in SessionType
            BY <3>1, <3>2 DEF SessionType
        <3>4. x.n = n /\ Current(x)
            BY <3>2, Zenon DEF Current
        <3> QED
            BY <2>1, <2>2, <2>3, <3>3, <3>4
    <2>5. LoginsTyped'
        BY <1>1, <1>2, <1>3, <2>4 DEF LoginsTyped
    <2>6. \A s1, s2 \in sessions' : s1.n = s2.n => s1 = s2
        BY <1>1, <2>1, <2>4 DEF SessionInv
    <2>7. \A s : Current(s)' <=> Current(s)
        BY <1>2 DEF Current
    <2>8. ASSUME NEW o \in LoginRequests, LoginAt(o, "purge"), \A s \in Kept(loginRequest[o].keep) : Current(s)
          PROVE  /\ LoginAt(o, "purge")'
                 /\ \A s \in sessions' : s.n = loginRequest'[o].keep => Current(s)'
        BY <1>2, <1>3, <2>4, <2>7, <2>8 DEF LoginAt, Kept
    <2>9. SessionInv'
        BY <1>1, <1>2, <2>4, <2>6, <2>7, <2>8 DEF SessionInv, Kept
    <2> QED
        BY <1>4, <2>5, <2>9 DEF LoginsInv
<1> QED
    BY <1>5, <1>6 DEF SaveSession

\* A change of password leaves a deletion to come that keeps only a current session.
LEMMA ChangePasswordKeeps ==
    ASSUME LoginsInv, NEW r \in LoginRequests, NEW s \in sessions, ChangePassword(r, s)
    PROVE  LoginsInv'
<1>1. LoginsTyped /\ TokenInv /\ SessionInv
    BY DEF LoginsInv
<1>2. /\ UNCHANGED <<purgeFailed, token, passes, spent2fa>> /\ password' = password + 1
      /\ LoginGoto(r, [at |-> "purge", keep |-> s.n])
      /\ sessions' = (sessions \ {s}) \cup {[s EXCEPT !.for = password + 1]}
    BY DEF ChangePassword, TokenHistory
<1>3. s \in SessionType /\ s.n \in Nat
    BY <1>1 DEF LoginsTyped, SessionType
<1>4. PICK x : x = [s EXCEPT !.for = password + 1]
    OBVIOUS
<1>5. x \in SessionType /\ x.n = s.n /\ x.for = password + 1 /\ sessions' = (sessions \ {s}) \cup {x}
    BY <1>1, <1>2, <1>3, <1>4 DEF SessionType, LoginsTyped
<1>6. /\ loginRequest' \in [LoginRequests -> LoginType]
      /\ loginRequest'[r] = [at |-> "purge", keep |-> s.n]
    BY <1>1, <1>2, <1>3, Records, LoginGoes
<1>7. LoginsTyped'
    BY <1>1, <1>2, <1>5, <1>6 DEF LoginsTyped
<1>8. TokenInv'
    BY <1>1, <1>2, SameTokens
<1>9. \A s1, s2 \in sessions' : s1.n = s2.n => s1 = s2
    BY <1>1, <1>5 DEF SessionInv
<1>10. \A y \in sessions' : y.n = s.n => y = x
    BY <1>5, <1>9
<1>11. Current(x)'
    BY <1>1, <1>2, <1>5 DEF Current, LoginsTyped
<1>12. LoginAt(r, "purge")' /\ \A y \in sessions' : y.n = loginRequest'[r].keep => Current(y)'
    <2>1. LoginAt(r, "purge")' /\ loginRequest'[r].keep = s.n
        BY <1>6 DEF LoginAt
    <2> QED
        BY <2>1, <1>10, <1>11
<1>13. SessionInv'
    BY <1>9, <1>12 DEF SessionInv, Kept
<1> QED
    BY <1>7, <1>8, <1>13 DEF LoginsInv

\* An administrator's leaves one to come that keeps none: sessions are numbered from 1.
LEMMA SetPasswordKeeps ==
    ASSUME LoginsInv, NEW r \in LoginRequests, SetPassword(r)
    PROVE  LoginsInv'
<1>1. LoginsTyped /\ TokenInv /\ SessionInv
    BY DEF LoginsInv
<1>2. /\ UNCHANGED <<sessions, purgeFailed, token, passes, spent2fa>> /\ password' = password + 1
      /\ LoginGoto(r, [at |-> "purge", keep |-> 0])
    BY DEF SetPassword, TokenHistory
<1>3. /\ loginRequest' \in [LoginRequests -> LoginType]
      /\ loginRequest'[r] = [at |-> "purge", keep |-> 0]
    BY <1>1, <1>2, Records, LoginGoes
<1>4. LoginsTyped'
    BY <1>1, <1>2, <1>3 DEF LoginsTyped
<1>5. TokenInv'
    BY <1>1, <1>2, SameTokens
<1>6. \A y \in sessions' : y.n # 0
    BY <1>1, <1>2 DEF LoginsTyped, SessionType
<1>7. LoginAt(r, "purge")' /\ loginRequest'[r].keep = 0
    BY <1>3 DEF LoginAt
<1>8. SessionInv'
    BY <1>1, <1>2, <1>6, <1>7 DEF SessionInv, Kept
<1> QED
    BY <1>4, <1>5, <1>8 DEF LoginsInv

\* Fewer sessions, with the same deletions to come.
LEMMA FewerSessions ==
    ASSUME LoginsInv, sessions' \subseteq sessions,
           UNCHANGED <<password, purgeFailed, loginRequest, token, passes, spent2fa>>
    PROVE  LoginsInv'
<1>1. LoginsTyped /\ TokenInv /\ SessionInv
    BY DEF LoginsInv
<1>2. LoginsTyped'
    BY <1>1 DEF LoginsTyped
<1>3. TokenInv'
    BY <1>1, SameTokens
<1>4. SessionInv'
    BY <1>1 DEF SessionInv, Kept, Current, LoginAt
<1> QED
    BY <1>2, <1>3, <1>4 DEF LoginsInv

\* A deletion leaves what it keeps: it was the one that only keeps current sessions, or
\* that one is still to come.
LEMMA PurgeSessionsKeeps ==
    ASSUME LoginsInv, NEW r \in LoginRequests, PurgeSessions(r)
    PROVE  LoginsInv'
<1>1. LoginsTyped /\ TokenInv /\ SessionInv
    BY DEF LoginsInv
<1>2. UNCHANGED <<password, token, passes, spent2fa>> /\ LoginAt(r, "purge")
    BY DEF PurgeSessions, LoginAccount, TokenHistory
<1>3. /\ loginRequest' \in [LoginRequests -> LoginType]
      /\ \A o \in LoginRequests : o # r => loginRequest'[o] = loginRequest[o]
    BY <1>1, Records, LoginGoes DEF PurgeSessions, LoginDone
<1>4. TokenInv'
    BY <1>1, <1>2, SameTokens
<1>5. CASE sessions' = Kept(loginRequest[r].keep) /\ UNCHANGED purgeFailed
    <2>1. sessions' \subseteq sessions
        BY <1>5 DEF Kept
    <2>2. LoginsTyped'
        BY <1>1, <1>2, <1>3, <2>1 DEF LoginsTyped
    <2>3. \A y : Current(y)' <=> Current(y)
        BY <1>2 DEF Current
    <2>4. \A s1, s2 \in sessions' : s1.n = s2.n => s1 = s2
        BY <1>1, <2>1 DEF SessionInv
    <2>5. ASSUME purgeFailed PROVE SessionInv'
        <3>1. purgeFailed'
            BY <1>5, <2>5, Zenon
        <3> QED
            BY <2>4, <3>1 DEF SessionInv
    <2>6. ASSUME \A s \in sessions : Current(s) PROVE SessionInv'
        <3>1. \A s \in sessions' : Current(s)'
            BY <2>1, <2>3, <2>6
        <3> QED
            BY <2>4, <3>1 DEF SessionInv
    <2>7. ASSUME NEW o \in LoginRequests, LoginAt(o, "purge"), \A s \in Kept(loginRequest[o].keep) : Current(s)
          PROVE  SessionInv'
        <3>1. CASE o = r
            <4>1. \A s \in sessions' : Current(s)'
                BY <1>5, <2>3, <2>7, <3>1
            <4> QED
                BY <2>4, <4>1 DEF SessionInv
        <3>2. CASE o # r
            <4>1. LoginAt(o, "purge")' /\ loginRequest'[o] = loginRequest[o]
                BY <1>3, <2>7, <3>2 DEF LoginAt
            <4>2. \A s \in sessions' : s.n = loginRequest'[o].keep => Current(s)'
                BY <2>1, <2>3, <2>7, <4>1 DEF Kept
            <4> QED
                BY <2>4, <4>1, <4>2 DEF SessionInv, Kept
        <3> QED
            BY <3>1, <3>2
    <2>8. SessionInv'
        BY <1>1, <2>5, <2>6, <2>7 DEF SessionInv
    <2> QED
        BY <1>4, <2>2, <2>8 DEF LoginsInv
<1>6. CASE purgeFailed' = TRUE /\ UNCHANGED sessions
    <2>1. LoginsTyped'
        BY <1>1, <1>2, <1>3, <1>6 DEF LoginsTyped
    <2>2. SessionInv'
        BY <1>1, <1>6 DEF SessionInv
    <2> QED
        BY <1>4, <2>1, <2>2 DEF LoginsInv
<1> QED
    BY <1>5, <1>6 DEF PurgeSessions

\* A token whose time is over is gone, and stays so.
LEMMA ExpireTokenKeeps ==
    ASSUME LoginsInv, NEW t \in Tokens, ExpireToken(t)
    PROVE  LoginsInv'
<1>1. LoginsTyped /\ TokenInv /\ SessionInv
    BY DEF LoginsInv
<1>2. /\ UNCHANGED <<password, sessions, purgeFailed, loginRequest, passes>>
      /\ token' = [token EXCEPT ![t] = Gone] /\ spent2fa' = spent2fa \cup {t}
    BY DEF ExpireToken, LoginAccount
<1>3. LoginsTyped'
    BY <1>1, <1>2 DEF LoginsTyped, TokenType, Gone
<1>4. TokenInv'
    BY <1>1, <1>2 DEF TokenInv, LoginsTyped, Gone
<1>5. SessionInv'
    BY <1>1, <1>2 DEF SessionInv, Kept, Current, LoginAt
<1> QED
    BY <1>3, <1>4, <1>5 DEF LoginsInv

\* A restart leaves no live token; a deletion that was to come is one that failed.
LEMMA RestartLoginsKeeps ==
    ASSUME LoginsInv, RestartLogins
    PROVE  LoginsInv'
<1>1. LoginsTyped /\ TokenInv /\ SessionInv
    BY DEF LoginsInv
<1>2. /\ UNCHANGED <<password, sessions, passes>>
      /\ spent2fa' = {t \in Tokens : token[t].at # "unused"}
      /\ purgeFailed' = (purgeFailed \/ \E r \in LoginRequests : LoginAt(r, "purge"))
      /\ loginRequest' = [r \in LoginRequests |-> NoLogin]
    BY DEF RestartLogins, LoginAccount
<1>3. \A t \in Tokens : /\ token[t].at = "unused" => token'[t] = token[t]
                        /\ token[t].at # "unused" => token'[t] = Gone
    BY DEF RestartLogins
<1>4. token' \in [Tokens -> TokenType]
    <2>1. token' = [t \in Tokens |-> token'[t]]
        BY DEF RestartLogins
    <2>2. Gone \in TokenType /\ \A t \in Tokens : token[t] \in TokenType
        BY <1>1 DEF LoginsTyped, TokenType, Gone
    <2>3. \A t \in Tokens : token'[t] \in TokenType
        BY <1>3, <2>2
    <2> QED
        BY <2>1, <2>3
<1>5. LoginsTyped'
    BY <1>1, <1>2, <1>4, Records DEF LoginsTyped
<1>6. TokenInv'
    BY <1>1, <1>2, <1>3 DEF TokenInv, Gone
<1>7. SessionInv'
    BY <1>1, <1>2 DEF SessionInv, Kept, Current, LoginAt
<1> QED
    BY <1>5, <1>6, <1>7 DEF LoginsInv

-----------------------------------------------------------------------------

\* The invariant holds at the start.
LEMMA LoginsInitInv ==
    ASSUME LoginsInit PROVE LoginsInv
<1>1. LoginsTyped
    BY Records DEF LoginsInit, LoginsTyped, TokenType
<1>2. TokenInv
    BY DEF LoginsInit, TokenInv
<1>3. SessionInv
    BY DEF LoginsInit, SessionInv
<1> QED
    BY <1>1, <1>2, <1>3 DEF LoginsInv

\* Steps of the other services.
LEMMA LoginsUnchanged ==
    ASSUME LoginsInv, UNCHANGED loginsVars
    PROVE  LoginsInv'
<1>1. LoginsTyped'
    BY DEF LoginsInv, LoginsTyped, loginsVars
<1>2. TokenInv'
    BY DEF LoginsInv, TokenInv, loginsVars
<1>3. SessionInv'
    BY DEF LoginsInv, SessionInv, Kept, Current, LoginAt, loginsVars
<1> QED
    BY <1>1, <1>2, <1>3 DEF LoginsInv

\* Every step of Logins keeps the invariant.
LEMMA LoginsNextInv ==
    ASSUME LoginsInv, LoginsNext
    PROVE  LoginsInv'
<1>1. CASE \E r \in LoginRequests : LoginStep(r)
    <2>1. PICK r \in LoginRequests : LoginStep(r)
        BY <1>1
    <2>2. CASE \/ Login(r) \/ OIDCFinish(r) \/ Verify(r)
               \/ \E on \in BOOLEAN : TOTPCheck(r, on)
               \/ TOTPWrite(r)
        BY <2>2, LoginKeeps
    <2>3. CASE \E t \in Tokens : IssueToken(r, t) \/ \E post \in BOOLEAN : TwofaPage(r, t, post)
        BY <2>3, IssueTokenKeeps, TwofaPageKeeps
    <2>4. CASE \E s \in sessions : ChangePassword(r, s)
        BY <2>4, ChangePasswordKeeps
    <2>5. CASE ConsumeToken(r) \/ SaveSession(r) \/ SetPassword(r) \/ PurgeSessions(r)
        BY <2>5, ConsumeTokenKeeps, SaveSessionKeeps, SetPasswordKeeps, PurgeSessionsKeeps
    <2> QED
        BY <2>1, <2>2, <2>3, <2>4, <2>5, Zenon DEF LoginStep
<1>2. CASE \E s \in sessions : Logout(s)
    <2>1. /\ sessions' \subseteq sessions
          /\ UNCHANGED <<password, purgeFailed, loginRequest, token, passes, spent2fa>>
        BY <1>2 DEF Logout, LoginAccount, TokenHistory
    <2> QED
        BY <2>1, FewerSessions
<1>3. CASE \E t \in Tokens : ExpireToken(t)
    BY <1>3, ExpireTokenKeeps
<1>4. CASE SetStatus
    <2>1. /\ sessions' \subseteq sessions
          /\ UNCHANGED <<password, purgeFailed, loginRequest, token, passes, spent2fa>>
        BY <1>4 DEF SetStatus, TokenHistory
    <2> QED
        BY <2>1, FewerSessions
<1>5. CASE RestartLogins
    BY <1>5, RestartLoginsKeeps
<1> QED
    BY <1>1, <1>2, <1>3, <1>4, <1>5, Zenon DEF LoginsNext

\* Only looking at a token counts a pass, and the token was live then: not spent, and
\* within its tries.
LEMMA PassesGrow ==
    ASSUME LoginsInv, LoginsNext, NEW t \in Tokens, passes'[t] # passes[t]
    PROVE  t \notin spent2fa /\ passes[t] < MaxTries
<1>1. LoginsTyped /\ TokenInv /\ MaxTries \in Nat
    BY LoginsAssumption DEF LoginsInv
<1>2. passes' # passes
    OBVIOUS
<1>3. \E r \in LoginRequests, u \in Tokens, post \in BOOLEAN : TwofaPage(r, u, post)
    BY <1>2 DEF LoginsNext, LoginStep, Login, OIDCFinish, Verify, ConsumeToken, SaveSession, IssueToken,
        ChangePassword, SetPassword, PurgeSessions, TOTPCheck, TOTPWrite, Logout, ExpireToken,
        SetStatus, RestartLogins, TokenHistory
<1>4. PICK r \in LoginRequests, u \in Tokens, post \in BOOLEAN : TwofaPage(r, u, post)
    BY <1>3
<1>5. ~Exceeded(token[u].tries + 1) /\ passes' = [passes EXCEPT ![u] = @ + 1] /\ token[u].at = "live"
    BY <1>2, <1>4 DEF TwofaPage
<1>6. t = u
    BY <1>1, <1>5 DEF LoginsTyped
<1> QED
    BY <1>1, <1>5, <1>6 DEF Exceeded, TokenInv, LoginsTyped, TokenType

\* What a request and a token may hold when there were n passwords.
LoginMay(q, n) ==
    /\ q.at \in {"issue", "save", "verify", "consume"} => q.for \in 1..n
    /\ q.at = "totp" => q.on \in BOOLEAN
TokenMay(k, n) ==
    /\ k.at \in {"unused", "live", "gone"} /\ k.tries \in 0..MaxTries
    /\ k.at = "live" => k.for \in 1..n

\* Logins, tokens and sessions are under passwords that there were, within their bounds.
LoginsRange ==
    /\ password \in 1..MaxPasswords /\ {active, twofa, purgeFailed} \subseteq BOOLEAN
    /\ \A t \in Tokens : TokenMay(token[t], password)
    /\ \A r \in LoginRequests : LoginMay(loginRequest[r], password)
    /\ \A s \in sessions : s.for \in 1..password

\* One password, nobody logged in.
LEMMA RangeInit == LoginsInit => LoginsRange
<1> SUFFICES ASSUME LoginsInit PROVE LoginsRange
    OBVIOUS
<1>1. MaxPasswords \in Nat \ {0} /\ MaxTries \in Nat
    BY LoginsAssumption
<1>2. \A r \in LoginRequests : LoginMay(loginRequest[r], password)
    BY DEF LoginsInit, LoginMay, NoLogin
<1>3. \A t \in Tokens : TokenMay(token[t], password)
    BY <1>1 DEF LoginsInit, TokenMay
<1>4. password \in 1..MaxPasswords
    BY <1>1 DEF LoginsInit
<1>5. {active, twofa, purgeFailed} \subseteq BOOLEAN /\ sessions = {}
    BY DEF LoginsInit
<1> QED
    BY <1>2, <1>3, <1>4, <1>5 DEF LoginsRange

\* There are more passwords.
LEMMA MayLater ==
    ASSUME NEW n \in Nat, NEW m \in Nat, n <= m, NEW q
    PROVE  /\ LoginMay(q, n) => LoginMay(q, m)
           /\ TokenMay(q, n) => TokenMay(q, m)
<1>1. 1..n \subseteq 1..m
    OBVIOUS
<1> QED
    BY <1>1 DEF LoginMay, TokenMay

\* A step changes one request, one token, some sessions.
LEMMA RangeStep ==
    ASSUME LoginsTyped, LoginsRange,
           password' \in 1..MaxPasswords, password <= password', {active', twofa', purgeFailed'} \subseteq BOOLEAN,
           \A t \in Tokens : token'[t] = token[t] \/ TokenMay(token'[t], password'),
           \A r \in LoginRequests : loginRequest'[r] = loginRequest[r] \/ LoginMay(loginRequest'[r], password'),
           \A s \in sessions' : s \in sessions \/ s.for \in 1..password'
    PROVE  LoginsRange'
<1>1. password \in Nat /\ password' \in Nat /\ MaxPasswords \in Nat
    BY LoginsAssumption DEF LoginsRange
<1>2. \A t \in Tokens : TokenMay(token'[t], password')
    BY <1>1, MayLater DEF LoginsRange
<1>3. \A r \in LoginRequests : LoginMay(loginRequest'[r], password')
    BY <1>1, MayLater DEF LoginsRange
<1>4. \A s \in sessions' : s.for \in 1..password'
    BY <1>1 DEF LoginsRange
<1> QED
    BY <1>2, <1>3, <1>4 DEF LoginsRange, TokenMay, LoginMay

\* A request goes on with what it may hold.
LEMMA GoesMay ==
    ASSUME LoginsTyped, NEW r \in LoginRequests, NEW rec, LoginGoto(r, rec), NEW n, LoginMay(rec, n)
    PROVE  \A o \in LoginRequests : loginRequest'[o] = loginRequest[o] \/ LoginMay(loginRequest'[o], n)
<1> QED
    BY DEF LoginsTyped, LoginGoto

\* The stages of a request that hold no password.
LEMMA MayIdle ==
    ASSUME NEW n
    PROVE  /\ LoginMay(NoLogin, n) /\ \A k : LoginMay([at |-> "purge", keep |-> k], n)
           /\ \A on \in BOOLEAN : LoginMay([at |-> "totp", on |-> on], n)
           /\ \A f \in 1..n : LoginMay([at |-> "save", for |-> f], n) /\ LoginMay([at |-> "issue", for |-> f], n)
           /\ \A t : \A f \in 1..n : LoginMay([at |-> "verify", token |-> t, for |-> f], n)
<1> QED
    BY DEF LoginMay, NoLogin

\* A token that is gone.
LEMMA GoneMay == \A n : TokenMay(Gone, n)
<1>1. 0 \in 0..MaxTries
    BY LoginsAssumption
<1> QED
    BY <1>1 DEF TokenMay, Gone

\* What a token and a request hold.
LEMMA RangeFacts ==
    ASSUME LoginsTyped, LoginsRange
    PROVE  /\ password \in 1..MaxPasswords /\ password \in Nat /\ MaxPasswords \in Nat /\ MaxTries \in Nat
           /\ {active, twofa, purgeFailed} \subseteq BOOLEAN
           /\ \A t \in Tokens : TokenMay(token[t], password)
           /\ \A r \in LoginRequests : LoginMay(loginRequest[r], password)
<1> QED
    BY LoginsAssumption DEF LoginsRange

\* Steps of requests that leave the tokens alone.
LEMMA RequestRange ==
    ASSUME LoginsInv, LoginsRange, NEW r \in LoginRequests,
           \/ Login(r) \/ OIDCFinish(r) \/ Verify(r) \/ SaveSession(r) \/ PurgeSessions(r)
           \/ \E on \in BOOLEAN : TOTPCheck(r, on)
           \/ TOTPWrite(r)
    PROVE  LoginsRange'
<1>0. LoginsTyped
    BY DEF LoginsInv
<1>1. UNCHANGED <<password, token, active>>
    BY DEF Login, OIDCFinish, Verify, SaveSession, PurgeSessions, TOTPCheck, TOTPWrite, LoginAccount
<1>2. /\ password \in 1..MaxPasswords /\ password <= password' /\ password' \in 1..MaxPasswords
      /\ {active, twofa, purgeFailed} \subseteq BOOLEAN /\ LoginMay(loginRequest[r], password)
      /\ \A t \in Tokens : token'[t] = token[t]
    BY <1>0, <1>1, RangeFacts
<1>3. \E rec : LoginGoto(r, rec) /\ LoginMay(rec, password)
    <2>0. ASSUME NEW t PROVE LoginMay([at |-> "save", for |-> password], password) /\ LoginMay([at |-> "issue", for |-> password], password)
        <3>1. password \in 1..password
            BY <1>2
        <3> QED
            BY <3>1, MayIdle
    <2>1. CASE Login(r)
        <3>1. LoginGoto(r, [at |-> "save", for |-> password]) \/ LoginGoto(r, [at |-> "issue", for |-> password]) \/ LoginGoto(r, NoLogin)
            BY <2>1 DEF Login
        <3> QED
            BY <3>1, <2>0, MayIdle
    <2>2. CASE OIDCFinish(r)
        <3>1. LoginGoto(r, [at |-> "save", for |-> password])
            BY <2>2 DEF OIDCFinish
        <3> QED
            BY <3>1, <2>0, MayIdle
    <2>3. CASE Verify(r)
        <3> PICK q : q = loginRequest[r]
            OBVIOUS
        <3> PICK rec : rec = [q EXCEPT !.at = "consume"]
            OBVIOUS
        <3>1. q \in [at : {"verify", "consume"}, token : Tokens, for : Nat] /\ q.at = "verify"
            BY <2>3, <1>0, AtFacts DEF Verify, LoginAt
        <3>2. rec.at = "consume" /\ rec.for = q.for
            BY <3>1
        <3>3. LoginMay(rec, password)
            BY <1>2, <3>1, <3>2 DEF LoginMay
        <3>4. LoginGoto(r, rec) \/ LoginGoto(r, NoLogin)
            BY <2>3 DEF Verify, LoginDone
        <3> QED
            BY <3>3, <3>4, MayIdle
    <2>4. CASE SaveSession(r) \/ PurgeSessions(r) \/ TOTPWrite(r)
        BY <2>4, MayIdle DEF SaveSession, PurgeSessions, TOTPWrite, LoginDone
    <2>5. ASSUME NEW on \in BOOLEAN, TOTPCheck(r, on) PROVE \E rec : LoginGoto(r, rec) /\ LoginMay(rec, password)
        BY <2>5, MayIdle DEF TOTPCheck
    <2> QED
        BY <2>1, <2>2, <2>3, <2>4, <2>5
<1>4. \A o \in LoginRequests : loginRequest'[o] = loginRequest[o] \/ LoginMay(loginRequest'[o], password')
    BY <1>0, <1>1, <1>3, GoesMay
<1>5. {active', twofa', purgeFailed'} \subseteq BOOLEAN
    <2>1. purgeFailed' \in BOOLEAN
        BY <1>2 DEF Login, OIDCFinish, Verify, SaveSession, PurgeSessions, TOTPCheck, TOTPWrite
    <2>2. twofa' \in BOOLEAN
        <3>1. CASE TOTPWrite(r)
            BY <3>1, <1>2 DEF TOTPWrite, LoginAt, LoginMay
        <3>2. CASE ~TOTPWrite(r)
            BY <3>2, <1>2 DEF Login, OIDCFinish, Verify, SaveSession, PurgeSessions, TOTPCheck, LoginAccount
        <3> QED
            BY <3>1, <3>2
    <2> QED
        BY <1>1, <1>2, <2>1, <2>2
<1>6. \A s \in sessions' : s \in sessions \/ s.for \in 1..password'
    <2>1. CASE SaveSession(r)
        <3>1. loginRequest[r].for \in 1..password
            BY <2>1, <1>2 DEF SaveSession, LoginAt, LoginMay
        <3>2. \A n : NewSession(n, loginRequest[r].for).for = loginRequest[r].for
            BY DEF NewSession
        <3>3. \A s \in sessions' : s \in sessions \/ \E n : s = NewSession(n, loginRequest[r].for)
            BY <2>1 DEF SaveSession
        <3> QED
            BY <1>1, <3>1, <3>2, <3>3
    <2>2. CASE PurgeSessions(r)
        BY <2>2 DEF PurgeSessions, Kept
    <2>3. CASE ~SaveSession(r) /\ ~PurgeSessions(r)
        BY <2>3 DEF Login, OIDCFinish, Verify, TOTPCheck, TOTPWrite
    <2> QED
        BY <2>1, <2>2, <2>3
<1> QED
    BY <1>0, <1>2, <1>4, <1>5, <1>6, RangeStep

\* Steps that change a token.
LEMMA TokenRange ==
    ASSUME LoginsInv, LoginsRange, NEW r \in LoginRequests, NEW t \in Tokens,
           IssueToken(r, t) \/ (\E post \in BOOLEAN : TwofaPage(r, t, post)) \/ ConsumeToken(r)
    PROVE  LoginsRange'
<1>0. LoginsTyped
    BY DEF LoginsInv
<1>1. UNCHANGED <<password, active, twofa, purgeFailed, sessions>>
    BY DEF IssueToken, TwofaPage, ConsumeToken, LoginAccount
<1>2. /\ password \in 1..MaxPasswords /\ password <= password' /\ password' \in 1..MaxPasswords
      /\ {active', twofa', purgeFailed'} \subseteq BOOLEAN
      /\ LoginMay(loginRequest[r], password) /\ TokenMay(token[t], password) /\ MaxTries \in Nat
      /\ \A s \in sessions' : s \in sessions
    BY <1>0, <1>1, RangeFacts
<1>3. token \in [Tokens -> TokenType]
    BY <1>0 DEF LoginsTyped
<1>4. \A u \in Tokens : token'[u] = token[u] \/ TokenMay(token'[u], password)
    <2>1. CASE IssueToken(r, t)
        <3> PICK k : k = [at |-> "live", tries |-> 0, for |-> loginRequest[r].for]
            OBVIOUS
        <3>1. loginRequest[r].for \in 1..password
            BY <2>1, <1>2 DEF IssueToken, LoginAt, LoginMay
        <3>2. TokenMay(k, password)
            BY <1>2, <3>1 DEF TokenMay
        <3>3. token' = [token EXCEPT ![t] = k]
            BY <2>1 DEF IssueToken
        <3> QED
            BY <1>3, <3>2, <3>3
    <2>2. ASSUME NEW post \in BOOLEAN, TwofaPage(r, t, post)
          PROVE  \A u \in Tokens : token'[u] = token[u] \/ TokenMay(token'[u], password)
        <3> PICK n : n = token[t].tries + 1
            OBVIOUS
        <3> PICK k : k = [token[t] EXCEPT !.tries = n]
            OBVIOUS
        <3>1. token[t] \in TokenType /\ token[t].tries \in Nat /\ n \in Nat
            BY <1>3 DEF TokenType
        <3>2. k.at = token[t].at /\ k.tries = n /\ k.for = token[t].for
            BY <3>1 DEF TokenType
        <3>3. token' = [token EXCEPT ![t] = Gone] \/ (token' = [token EXCEPT ![t] = k] /\ n <= MaxTries)
            <4>1. CASE Exceeded(n)
                BY <2>2, <4>1 DEF TwofaPage
            <4>2. CASE ~Exceeded(n)
                BY <2>2, <4>2, <1>2, <3>1 DEF TwofaPage, Exceeded
            <4> QED
                BY <4>1, <4>2
        <3>4. n <= MaxTries => TokenMay(k, password)
            BY <1>2, <3>1, <3>2 DEF TokenMay
        <3> QED
            BY <1>3, <3>3, <3>4, GoneMay
    <2>3. CASE ConsumeToken(r)
        <3>1. \E u : token' = [token EXCEPT ![u] = Gone]
            BY <2>3 DEF ConsumeToken, Consumed
        <3> QED
            BY <1>3, <3>1, GoneMay
    <2> QED
        BY <2>1, <2>2, <2>3
<1>5. loginRequest' = loginRequest \/ \E rec : LoginGoto(r, rec) /\ LoginMay(rec, password)
    <2>1. CASE IssueToken(r, t)
        BY <2>1, MayIdle DEF IssueToken, LoginDone
    <2>2. ASSUME NEW post \in BOOLEAN, TwofaPage(r, t, post)
          PROVE  loginRequest' = loginRequest \/ \E rec : LoginGoto(r, rec) /\ LoginMay(rec, password)
        <3>1. token[t].for \in 1..password
            BY <2>2, <1>2 DEF TwofaPage, TokenMay
        <3>2. LoginMay([at |-> "verify", token |-> t, for |-> token[t].for], password)
            BY <3>1, MayIdle
        <3>3. loginRequest' = loginRequest \/ LoginGoto(r, [at |-> "verify", token |-> t, for |-> token[t].for])
            BY <2>2 DEF TwofaPage
        <3> QED
            BY <3>2, <3>3
    <2>3. CASE ConsumeToken(r)
        <3>1. loginRequest[r].for \in 1..password
            BY <2>3, <1>2 DEF ConsumeToken, LoginAt, LoginMay
        <3>2. LoginGoto(r, [at |-> "save", for |-> loginRequest[r].for])
            BY <2>3 DEF ConsumeToken
        <3> QED
            BY <3>1, <3>2, MayIdle
    <2> QED
        BY <2>1, <2>2, <2>3
<1>6. \A o \in LoginRequests : loginRequest'[o] = loginRequest[o] \/ LoginMay(loginRequest'[o], password')
    BY <1>0, <1>1, <1>5, GoesMay
<1> QED
    BY <1>0, <1>1, <1>2, <1>4, <1>6, RangeStep

\* Steps that change the password, or none of these.
LEMMA AccountRange ==
    ASSUME LoginsInv, LoginsRange,
           \/ \E r \in LoginRequests, s \in sessions : ChangePassword(r, s)
           \/ \E r \in LoginRequests : SetPassword(r)
           \/ \E s \in sessions : Logout(s)
           \/ SetStatus \/ RestartLogins \/ UNCHANGED loginsVars
    PROVE  LoginsRange'
<1>0. LoginsTyped
    BY DEF LoginsInv
<1>1. /\ password \in 1..MaxPasswords /\ password \in Nat /\ MaxPasswords \in Nat
      /\ {active, twofa, purgeFailed} \subseteq BOOLEAN
    BY <1>0, RangeFacts
<1>2. ASSUME NEW r \in LoginRequests, NEW keep, LoginGoto(r, [at |-> "purge", keep |-> keep]),
             password < MaxPasswords, password' = password + 1, UNCHANGED <<active, twofa, token, purgeFailed>>,
             \A s \in sessions' : s \in sessions \/ s.for = password'
      PROVE  LoginsRange'
    <2>1. password' \in 1..MaxPasswords /\ password <= password' /\ password' \in 1..password'
        BY <1>1, <1>2
    <2>2. \A o \in LoginRequests : loginRequest'[o] = loginRequest[o] \/ LoginMay(loginRequest'[o], password')
        BY <1>0, <1>2, GoesMay, MayIdle
    <2> QED
        BY <1>0, <1>1, <1>2, <2>1, <2>2, RangeStep
<1>3. ASSUME NEW r \in LoginRequests, NEW s \in sessions, ChangePassword(r, s) PROVE LoginsRange'
    <2> PICK new : new = [s EXCEPT !.for = password + 1]
        OBVIOUS
    <2>1. new.for = password + 1
        BY <1>0 DEF LoginsTyped, SessionType
    <2>2. \A x \in sessions' : x \in sessions \/ x.for = password'
        BY <1>3, <2>1 DEF ChangePassword
    <2>3. LoginGoto(r, [at |-> "purge", keep |-> s.n])
        BY <1>3 DEF ChangePassword
    <2>4. password < MaxPasswords /\ password' = password + 1 /\ UNCHANGED <<active, twofa, token, purgeFailed>>
        BY <1>3 DEF ChangePassword
    <2> QED
        BY <1>2, <2>2, <2>3, <2>4
<1>4. ASSUME NEW r \in LoginRequests, SetPassword(r) PROVE LoginsRange'
    <2>1. LoginGoto(r, [at |-> "purge", keep |-> 0])
        BY <1>4 DEF SetPassword
    <2>2. /\ password < MaxPasswords /\ password' = password + 1 /\ UNCHANGED <<active, twofa, token, purgeFailed>>
          /\ \A s \in sessions' : s \in sessions
        BY <1>4 DEF SetPassword
    <2> QED
        BY <1>2, <2>1, <2>2
<1>5. ASSUME password' = password, token' = token, loginRequest' = loginRequest, sessions' \subseteq sessions,
             {active', twofa', purgeFailed'} \subseteq BOOLEAN
      PROVE  LoginsRange'
    <2>1. password' \in 1..MaxPasswords /\ password <= password' /\ \A s \in sessions' : s \in sessions
        BY <1>1, <1>5
    <2> QED
        BY <1>0, <1>5, <2>1, RangeStep
<1>6. ASSUME NEW s \in sessions, Logout(s) PROVE LoginsRange'
    BY <1>1, <1>5, <1>6 DEF Logout, LoginAccount
<1>7. CASE SetStatus
    BY <1>1, <1>5, <1>7 DEF SetStatus
<1>8. CASE RestartLogins
    <2>1. UNCHANGED <<password, active, twofa, sessions>>
        BY <1>8 DEF RestartLogins, LoginAccount
    <2>2. \A t \in Tokens : token'[t] = token[t] \/ token'[t] = Gone
        BY <1>8 DEF RestartLogins
    <2>3. \A t \in Tokens : token'[t] = token[t] \/ TokenMay(token'[t], password')
        BY <2>2, GoneMay
    <2>4. \A r \in LoginRequests : loginRequest'[r] = NoLogin
        BY <1>8 DEF RestartLogins
    <2>5. \A r \in LoginRequests : loginRequest'[r] = loginRequest[r] \/ LoginMay(loginRequest'[r], password')
        BY <2>4, MayIdle
    <2>6. purgeFailed' \in BOOLEAN
        BY <1>8 DEF RestartLogins
    <2>7. {active', twofa', purgeFailed'} \subseteq BOOLEAN
        BY <1>1, <2>1, <2>6
    <2>8. password' \in 1..MaxPasswords /\ password <= password' /\ \A s \in sessions' : s \in sessions
        BY <1>1, <2>1
    <2> QED
        BY <1>0, <2>3, <2>5, <2>7, <2>8, RangeStep
<1>9. CASE UNCHANGED loginsVars
    BY <1>1, <1>5, <1>9 DEF loginsVars
<1> QED
    BY <1>3, <1>4, <1>6, <1>7, <1>8, <1>9

\* Every step keeps Logins within its bounds.
LEMMA LoginsNextRange ==
    ASSUME LoginsInv, LoginsRange, LoginsNext \/ UNCHANGED loginsVars
    PROVE  LoginsRange'
<1>1. ASSUME NEW r \in LoginRequests, LoginStep(r) PROVE LoginsRange'
    <2>1. CASE \/ Login(r) \/ OIDCFinish(r) \/ Verify(r) \/ SaveSession(r) \/ PurgeSessions(r)
               \/ \E on \in BOOLEAN : TOTPCheck(r, on)
               \/ TOTPWrite(r)
        BY <2>1, RequestRange
    <2>2. ASSUME NEW t \in Tokens, IssueToken(r, t) \/ \E post \in BOOLEAN : TwofaPage(r, t, post)
          PROVE  LoginsRange'
        BY <2>2, TokenRange
    <2>3. CASE ConsumeToken(r)
        <3>1. LoginsTyped
            BY DEF LoginsInv
        <3>2. \E t \in Tokens : TRUE
            BY <2>3, <3>1, AtFacts DEF ConsumeToken
        <3> QED
            BY <2>3, <3>2, TokenRange
    <2>4. CASE SetPassword(r) \/ \E s \in sessions : ChangePassword(r, s)
        BY <2>4, AccountRange
    <2> QED
        BY <1>1, <2>1, <2>2, <2>3, <2>4 DEF LoginStep
<1>2. ASSUME NEW t \in Tokens, ExpireToken(t) PROVE LoginsRange'
    <2>0. LoginsTyped
        BY DEF LoginsInv
    <2>1. UNCHANGED <<password, active, twofa, purgeFailed, sessions, loginRequest>>
        BY <1>2 DEF ExpireToken, LoginAccount
    <2>2. \A u \in Tokens : token'[u] = token[u] \/ token'[u] = Gone
        BY <1>2, <2>0 DEF ExpireToken, LoginsTyped
    <2>3. \A u \in Tokens : token'[u] = token[u] \/ TokenMay(token'[u], password')
        BY <2>2, GoneMay
    <2>4. /\ password' \in 1..MaxPasswords /\ password <= password' /\ {active', twofa', purgeFailed'} \subseteq BOOLEAN
          /\ \A s \in sessions' : s \in sessions
        BY <2>0, <2>1, RangeFacts
    <2> QED
        BY <2>0, <2>1, <2>3, <2>4, RangeStep
<1>3. CASE (\E s \in sessions : Logout(s)) \/ SetStatus \/ RestartLogins \/ UNCHANGED loginsVars
    BY <1>3, AccountRange
<1> QED
    BY <1>1, <1>2, <1>3 DEF LoginsNext

\* What the invariants say of the types.
LEMMA LoginsMean == LoginsInv /\ LoginsRange => LoginsTypeOK
<1> SUFFICES ASSUME LoginsInv, LoginsRange PROVE LoginsTypeOK
    OBVIOUS
<1>1. \A t \in Tokens : token[t].at \in {"unused", "live", "gone"} /\ token[t].tries \in 0..MaxTries
    BY DEF LoginsRange, TokenMay
<1>2. \A s1, s2 \in sessions : s1.n = s2.n => s1 = s2
    BY DEF LoginsInv, SessionInv
<1> QED
    BY <1>1, <1>2 DEF LoginsTypeOK, LoginsRange

-----------------------------------------------------------------------------
(* Settings: a save, and the restart it asks for.                          *)

SettingsType == [secret : 0..(MaxSaves + 1), rest : 1..(MaxSaves + 1)]
SavingType ==
    [at : {"idle", "saved", "warn", "timer"}]
      \cup [at : {"save"}, cur : 0..(MaxSaves + 1), secret : 0..(MaxSaves + 1), rest : 1..(MaxSaves + 1)]

SettingsTyped ==
    /\ saves \in 0..MaxSaves /\ stored \in SettingsType /\ loaded \in SettingsType
    /\ saving \in [SettingsRequests -> SavingType] /\ chReload \in 0..1
    /\ closing \in {"no", "http", "db"} /\ running \subseteq PipedCampaigns

SettingsInv == SettingsTyped /\ SavedSettingsHold

\* What a request holds on its way.
LEMMA SavingFacts ==
    ASSUME SettingsTyped, NEW r \in SettingsRequests
    PROVE  /\ SavingAt(r, "save") => /\ saving[r].cur \in 0..(MaxSaves + 1)
                                     /\ saving[r].secret \in 0..(MaxSaves + 1)
                                     /\ saving[r].rest \in 1..(MaxSaves + 1)
<1>1. saving[r] \in SavingType
    BY DEF SettingsTyped
<1> QED
    BY <1>1 DEF SavingType, SavingAt

\* A request goes on, the others stay where they are.
LEMMA SavingGoes ==
    ASSUME SettingsTyped, NEW r \in SettingsRequests, NEW rec \in SavingType, SavingGoto(r, rec)
    PROVE  /\ saving' \in [SettingsRequests -> SavingType] /\ saving'[r] = rec
           /\ \A o \in SettingsRequests \ {r} : saving'[o] = saving[o]
BY DEF SettingsTyped, SavingGoto

\* A request that was not on its way to a restart goes on: another still is if it was.
LEMMA OthersHold ==
    ASSUME SavedSettingsHold, NEW r \in SettingsRequests,
           \A o \in SettingsRequests \ {r} : saving'[o] = saving[o],
           saving[r].at \notin {"saved", "warn", "timer"},
           UNCHANGED <<stored, loaded, needsRestart, chReload, closing, given, undone>>
    PROVE  SavedSettingsHold'
BY DEF SavedSettingsHold

\* A request that arrives counts.
LEMMA RequestCounts ==
    ASSUME SettingsTyped, NEW r \in SettingsRequests, NewRequest(r)
    PROVE  saves' \in 0..MaxSaves /\ saves' + 1 \in 1..(MaxSaves + 1) /\ saves' + 1 \in 0..(MaxSaves + 1)
BY SettingsAssumption DEF SettingsTyped, NewRequest

\* A save of all settings, from the form to the statement.
LEMMA SavesKeep ==
    ASSUME SettingsInv, NEW r \in SettingsRequests,
           \/ \E b \in BOOLEAN : ReadSettings(r, b) \/ UpdateSettingsByKey(r, b)
           \/ SaveSettings(r) \/ SaveRefused(r)
    PROVE  SettingsInv'
<1>1. SettingsTyped /\ SavedSettingsHold
    BY DEF SettingsInv
<1>2. Nobody \in SavingType /\ [at |-> "saved"] \in SavingType
    BY DEF SavingType, Nobody
<1>3. ASSUME NEW b \in BOOLEAN, ReadSettings(r, b) PROVE SettingsInv'
    <2>1. /\ saves' \in 0..MaxSaves /\ saves' + 1 \in 1..(MaxSaves + 1) /\ saves' + 1 \in 0..(MaxSaves + 1)
        BY <1>1, <1>3, RequestCounts DEF ReadSettings
    <2>2. stored.secret \in 0..(MaxSaves + 1) /\ 0 \in 0..(MaxSaves + 1)
        BY <1>1, SettingsAssumption DEF SettingsTyped, SettingsType
    <2>3. PICK rec : rec = [at |-> "save", cur |-> stored.secret, secret |-> IF b THEN 0 ELSE saves' + 1,
                            rest |-> saves' + 1]
        OBVIOUS
    <2>4. rec \in SavingType
        BY <2>1, <2>2, <2>3 DEF SavingType
    <2>5. /\ SavingGoto(r, rec) /\ saving[r].at = "idle"
          /\ UNCHANGED <<stored, loaded, needsRestart, chReload, closing, running, given, undone>>
        BY <1>3, <2>3 DEF ReadSettings, NewRequest, SavingAt, Process
    <2>6. /\ saving' \in [SettingsRequests -> SavingType]
          /\ \A o \in SettingsRequests \ {r} : saving'[o] = saving[o]
        BY <1>1, <2>4, <2>5, SavingGoes
    <2>7. SettingsTyped'
        BY <1>1, <2>1, <2>5, <2>6 DEF SettingsTyped
    <2>8. SavedSettingsHold'
        BY <1>1, <2>5, <2>6, OthersHold
    <2> QED
        BY <2>7, <2>8 DEF SettingsInv
<1>4. ASSUME NEW b \in BOOLEAN, UpdateSettingsByKey(r, b) PROVE SettingsInv'
    <2>1. /\ saves' \in 0..MaxSaves /\ saves' + 1 \in 1..(MaxSaves + 1) /\ saves' + 1 \in 0..(MaxSaves + 1)
        BY <1>1, <1>4, RequestCounts DEF UpdateSettingsByKey
    <2>2. /\ SavingGoto(r, [at |-> "saved"])
          /\ UNCHANGED <<loaded, needsRestart, chReload, closing, running, undone>>
        BY <1>4 DEF UpdateSettingsByKey, Process
    <2>3. saving' \in [SettingsRequests -> SavingType] /\ saving'[r].at = "saved"
        BY <1>1, <1>2, <2>2, SavingGoes
    <2>4. stored' \in SettingsType /\ (b => stored'.secret = given') /\ (~b => stored'.secret = stored.secret /\ given' = given)
        BY <1>1, <1>4, <2>1 DEF UpdateSettingsByKey, SettingsTyped, SettingsType
    <2>5. SettingsTyped'
        BY <1>1, <2>1, <2>2, <2>3, <2>4 DEF SettingsTyped
    <2>6. SavedSettingsHold'
        BY <1>1, <2>2, <2>3, <2>4 DEF SavedSettingsHold
    <2> QED
        BY <2>5, <2>6 DEF SettingsInv
<1>5. ASSUME SavingGoto(r, Nobody), saving[r].at = "save",
             UNCHANGED <<stored, loaded, needsRestart, chReload, closing, running, given, undone, saves>>
      PROVE  SettingsInv'
    <2>1. /\ saving' \in [SettingsRequests -> SavingType]
          /\ \A o \in SettingsRequests \ {r} : saving'[o] = saving[o]
        BY <1>1, <1>2, <1>5, SavingGoes
    <2>2. SettingsTyped'
        BY <1>1, <1>5, <2>1 DEF SettingsTyped
    <2>3. SavedSettingsHold'
        BY <1>1, <1>5, <2>1, OthersHold
    <2> QED
        BY <2>2, <2>3 DEF SettingsInv
<1>6. CASE SaveRefused(r)
    BY <1>5, <1>6 DEF SaveRefused, SavingAt, Process
<1>7. CASE SaveSettings(r)
    <2>1. CASE closing = "db"
        BY <1>5, <1>7, <2>1 DEF SaveSettings, SavingAt, Process
    <2>2. CASE closing # "db"
        <3>1. /\ saving[r].cur \in 0..(MaxSaves + 1) /\ saving[r].secret \in 0..(MaxSaves + 1)
              /\ saving[r].rest \in 1..(MaxSaves + 1)
            BY <1>1, <1>7, SavingFacts DEF SaveSettings
        <3>2. PICK cur, secret : cur = saving[r].cur /\ secret = saving[r].secret
            OBVIOUS
        <3>3. /\ SavingGoto(r, [at |-> "saved"])
              /\ stored' = [secret |-> Secret(saving[r]), rest |-> saving[r].rest]
              /\ given' = IF secret = 0 THEN given ELSE secret
              /\ undone' = (undone \/ (secret = 0 /\ cur # stored.secret))
              /\ UNCHANGED <<loaded, needsRestart, chReload, closing, running, saves>>
            BY <1>7, <2>2, <3>2 DEF SaveSettings, Process
        <3>4. stored' \in SettingsType /\ stored'.secret = IF secret = 0 THEN cur ELSE secret
            BY <3>1, <3>2, <3>3 DEF SettingsType, Secret
        <3>5. saving' \in [SettingsRequests -> SavingType] /\ saving'[r].at = "saved"
            BY <1>1, <1>2, <3>3, SavingGoes
        <3>6. SettingsTyped'
            BY <1>1, <3>3, <3>4, <3>5 DEF SettingsTyped
        <3>7. SavedSettingsHold'
            BY <1>1, <3>3, <3>4, <3>5 DEF SavedSettingsHold
        <3> QED
            BY <3>6, <3>7 DEF SettingsInv
    <2> QED
        BY <2>1, <2>2
<1> QED
    BY <1>3, <1>4, <1>6, <1>7

\* The restart that follows, up to the signal.
LEMMA ReloadsKeep ==
    ASSUME SettingsInv, NEW r \in SettingsRequests,
           SettingsRestart(r) \/ NeedsRestart(r) \/ ReloadApp(r) \/ SendReload(r)
    PROVE  SettingsInv'
<1>1. SettingsTyped /\ SavedSettingsHold
    BY DEF SettingsInv
<1>2. Nobody \in SavingType /\ [at |-> "warn"] \in SavingType
    BY DEF SavingType, Nobody
<1>3. CASE SettingsRestart(r)
    <2>1. UNCHANGED <<stored, loaded, needsRestart, chReload, closing, running, given, undone, saves>>
        BY <1>3 DEF SettingsRestart, Process
    <2>2. PICK rec \in SavingType : SavingGoto(r, rec) /\ rec.at \in {"warn", "timer"}
        <3>1. CASE running # {}
            BY <1>2, <1>3, <3>1 DEF SettingsRestart, RunningPipes
        <3>2. CASE running = {}
            <4>1. [at |-> "timer"] \in SavingType
                BY DEF SavingType
            <4> QED
                BY <1>3, <3>2, <4>1 DEF SettingsRestart, RunningPipes
        <3> QED
            BY <3>1, <3>2
    <2>3. saving' \in [SettingsRequests -> SavingType] /\ saving'[r].at \in {"warn", "timer"}
        BY <1>1, <2>2, SavingGoes
    <2>4. SettingsTyped'
        BY <1>1, <2>1, <2>3 DEF SettingsTyped
    <2>5. SavedSettingsHold'
        BY <1>1, <2>1, <2>3 DEF SavedSettingsHold
    <2> QED
        BY <2>4, <2>5 DEF SettingsInv
<1>4. CASE NeedsRestart(r)
    <2>1. /\ needsRestart' = TRUE /\ SavingGoto(r, Nobody)
          /\ UNCHANGED <<stored, loaded, chReload, closing, running, given, undone, saves>>
        BY <1>4 DEF NeedsRestart
    <2>2. saving' \in [SettingsRequests -> SavingType]
        BY <1>1, <1>2, <2>1, SavingGoes
    <2>3. SettingsTyped'
        BY <1>1, <2>1, <2>2 DEF SettingsTyped
    <2>4. SavedSettingsHold'
        BY <1>1, <2>1 DEF SavedSettingsHold
    <2> QED
        BY <2>3, <2>4 DEF SettingsInv
<1>5. CASE ReloadApp(r)
    <2>1. saves' \in 0..MaxSaves
        BY <1>1, <1>5, RequestCounts DEF ReloadApp
    <2>2. PICK rec : rec = [at |-> "timer"]
        OBVIOUS
    <2>3. rec \in SavingType /\ rec.at = "timer"
        BY <1>1, <2>2 DEF SavingType, SettingsTyped
    <2>4. /\ SavingGoto(r, rec)
          /\ UNCHANGED <<stored, loaded, needsRestart, chReload, closing, running, given, undone>>
        BY <1>5, <2>2 DEF ReloadApp, Process
    <2>5. saving' \in [SettingsRequests -> SavingType] /\ saving'[r].at = "timer"
        BY <1>1, <2>3, <2>4, SavingGoes
    <2>6. SettingsTyped'
        BY <1>1, <2>1, <2>4, <2>5 DEF SettingsTyped
    <2>7. SavedSettingsHold'
        BY <1>1, <2>4, <2>5 DEF SavedSettingsHold
    <2> QED
        BY <2>6, <2>7 DEF SettingsInv
<1>6. CASE SendReload(r)
    <2>1. /\ chReload' = 1 /\ SavingGoto(r, Nobody)
          /\ UNCHANGED <<stored, loaded, needsRestart, closing, running, given, undone, saves>>
        BY <1>6 DEF SendReload
    <2>2. saving' \in [SettingsRequests -> SavingType]
        BY <1>1, <1>2, <2>1, SavingGoes
    <2>3. SettingsTyped'
        BY <1>1, <2>1, <2>2 DEF SettingsTyped
    <2>4. SavedSettingsHold'
        BY <1>1, <2>1 DEF SavedSettingsHold
    <2> QED
        BY <2>3, <2>4 DEF SettingsInv
<1> QED
    BY <1>3, <1>4, <1>5, <1>6

\* The restart itself, and campaigns that come and go.
LEMMA RespawnKeeps ==
    ASSUME SettingsInv,
           \/ BeginReload \/ CloseDB \/ Respawn
           \/ \E k \in PipedCampaigns : CampaignStarts(k) \/ CampaignEnds(k)
    PROVE  SettingsInv'
<1>1. SettingsTyped /\ SavedSettingsHold
    BY DEF SettingsInv
<1>2. CASE BeginReload
    <2>1. /\ UNCHANGED <<stored, loaded, needsRestart, saving, running, given, undone, saves>>
          /\ chReload' = 0 /\ closing' = "http"
        BY <1>2 DEF BeginReload
    <2> QED
        BY <1>1, <2>1 DEF SettingsInv, SettingsTyped, SavedSettingsHold
<1>3. CASE CloseDB
    <2>1. /\ UNCHANGED <<stored, loaded, needsRestart, saving, chReload, running, given, undone, saves>>
          /\ closing' = "db"
        BY <1>3 DEF CloseDB
    <2> QED
        BY <1>1, <2>1 DEF SettingsInv, SettingsTyped, SavedSettingsHold
<1>4. CASE Respawn
    <2>1. /\ UNCHANGED <<stored, given, undone, saves>>
          /\ loaded' = stored /\ closing' = "no" /\ chReload' = 0 /\ running' = {}
          /\ saving' = [r \in SettingsRequests |-> Nobody]
        BY <1>4 DEF Respawn
    <2>2. saving' \in [SettingsRequests -> SavingType]
        BY <2>1 DEF SavingType, Nobody
    <2>3. SettingsTyped'
        BY <1>1, <2>1, <2>2 DEF SettingsTyped
    <2>4. SavedSettingsHold'
        BY <1>1, <2>1 DEF SavedSettingsHold
    <2> QED
        BY <2>3, <2>4 DEF SettingsInv
<1>5. CASE \E k \in PipedCampaigns : CampaignStarts(k) \/ CampaignEnds(k)
    <2>1. /\ UNCHANGED <<stored, loaded, needsRestart, saving, chReload, closing, given, undone, saves>>
          /\ running' \subseteq PipedCampaigns
        BY <1>1, <1>5 DEF CampaignStarts, CampaignEnds, SettingsTyped
    <2> QED
        BY <1>1, <2>1 DEF SettingsInv, SettingsTyped, SavedSettingsHold
<1> QED
    BY <1>2, <1>3, <1>4, <1>5

\* Settings start typed and as they are loaded.
LEMMA SettingsInitInv == SettingsInit => SettingsInv
<1> SUFFICES ASSUME SettingsInit PROVE SettingsInv
    OBVIOUS
<1>1. 0 \in 0..MaxSaves /\ 1 \in 0..(MaxSaves + 1) /\ 1 \in 1..(MaxSaves + 1)
    BY SettingsAssumption
<1>2. SettingsTyped
    BY <1>1 DEF SettingsInit, SettingsTyped, SettingsType, SavingType, FirstSettings, Nobody
<1>3. SavedSettingsHold
    BY DEF SettingsInit, SavedSettingsHold, FirstSettings
<1> QED
    BY <1>2, <1>3 DEF SettingsInv

\* Every step of Settings keeps the invariant, and so do those of other services.
LEMMA SettingsNextInv ==
    ASSUME SettingsInv, SettingsNext \/ UNCHANGED settingsVars
    PROVE  SettingsInv'
<1>1. CASE UNCHANGED settingsVars
    BY <1>1 DEF settingsVars, SettingsInv, SettingsTyped, SavedSettingsHold
<1>2. CASE SettingsNext
    BY <1>2, SavesKeep, ReloadsKeep, RespawnKeeps DEF SettingsNext
<1> QED
    BY <1>1, <1>2

-----------------------------------------------------------------------------
(* EventStream: what a browser is shown of the log.                        *)

StreamStages == [at : {"off", "reading"}, line : {0}] \cup [at : {"writing"}, line : Nat \ {0}]

\* What a connection was given and is to be shown, in order.
Got(b) == shown[b] \o Pending(b)

StreamTyped ==
    /\ lines \in Nat /\ errors \subseteq 1..lines
    /\ stream \in [Browsers -> StreamStages]
    /\ Subscribed \subseteq Browsers /\ \A b \in Subscribed : subs[b] \in Seq(Nat) /\ Len(subs[b]) <= ChannelSize
    /\ \A b \in Browsers : stream[b] # Off <=> b \in Subscribed
    /\ shown \in [Browsers -> Seq(Nat)]
    /\ since \in [Browsers -> 0..lines]

\* A sequence of lines is of the errors since n, in order, and has all but the crowded ones.
Tells(q, n) ==
    /\ Rising(q)
    /\ \A i \in 1..Len(q) : q[i] \in errors /\ q[i] > n
    /\ \A e \in errors \ crowded : e > n => \E i \in 1..Len(q) : q[i] = e

\* The buffer holds the last lines.
LogInv ==
    /\ log \in Seq(Nat) /\ Len(log) <= LogSize /\ Len(log) <= lines
    /\ \A i \in 1..Len(log) : log[i] = lines - Len(log) + i
    /\ Len(log) < LogSize => Len(log) = lines

StreamInv == StreamTyped /\ LogInv /\ \A b \in Subscribed : Tells(Got(b), since[b])

\* Appending to a sequence of lines, and joining them.
LEMMA LineAppended ==
    ASSUME NEW q \in Seq(Nat), NEW n \in Nat
    PROVE  /\ Append(q, n) \in Seq(Nat) /\ Len(q) \in Nat /\ Len(Append(q, n)) = Len(q) + 1
           /\ Append(q, n)[Len(q) + 1] = n /\ \A i \in 1..Len(q) : Append(q, n)[i] = q[i]
           /\ Append(q, n) = q \o <<n>> /\ <<n>> \in Seq(Nat)
<1>1. /\ Append(q, n) \in Seq(Nat) /\ Len(Append(q, n)) = Len(q) + 1 /\ Len(q) \in Nat
      /\ Append(q, n)[Len(q) + 1] = n /\ \A i \in 1..Len(q) : Append(q, n)[i] = q[i]
    BY AppendProperties, LenProperties
<1>2. Append(q, n) = q \o <<n>>
    BY AppendIsConcat
<1>3. <<n>> \in Seq(Nat)
    OBVIOUS
<1> QED
    BY <1>1, <1>2, <1>3

\* Lines can be joined in any order.
LEMMA LinesJoined ==
    ASSUME NEW s \in Seq(Nat), NEW t \in Seq(Nat), NEW u \in Seq(Nat)
    PROVE  (s \o t) \o u = s \o (t \o u)
<1>1. PICK st, tu : st = s \o t /\ tu = t \o u
    OBVIOUS
<1>2. PICK k, m, n \in Nat : k = Len(s) /\ m = Len(t) /\ n = Len(u)
    BY LenProperties
<1>3. /\ st \in Seq(Nat) /\ Len(st) = k + m
      /\ \A i \in 1..(k + m) : st[i] = IF i <= k THEN s[i] ELSE t[i - k]
    <2>1. /\ st \in Seq(Nat) /\ Len(st) = Len(s) + Len(t)
          /\ \A i \in 1..(Len(s) + Len(t)) : st[i] = IF i <= Len(s) THEN s[i] ELSE t[i - Len(s)]
        BY <1>1, ConcatProperties
    <2>2. Len(s) = k /\ Len(t) = m
        BY <1>2
    <2> QED
        BY <2>1, <2>2
<1>4. /\ tu \in Seq(Nat) /\ Len(tu) = m + n
      /\ \A i \in 1..(m + n) : tu[i] = IF i <= m THEN t[i] ELSE u[i - m]
    <2>1. /\ tu \in Seq(Nat) /\ Len(tu) = Len(t) + Len(u)
          /\ \A i \in 1..(Len(t) + Len(u)) : tu[i] = IF i <= Len(t) THEN t[i] ELSE u[i - Len(t)]
        BY <1>1, ConcatProperties
    <2>2. Len(t) = m /\ Len(u) = n
        BY <1>2
    <2> QED
        BY <2>1, <2>2
<1>5. PICK a, c : a = st \o u /\ c = s \o tu
    OBVIOUS
<1>6. /\ a \in Seq(Nat) /\ Len(a) = k + m + n
      /\ \A i \in 1..(k + m + n) : a[i] = IF i <= k + m THEN st[i] ELSE u[i - (k + m)]
    <2>1. /\ a \in Seq(Nat) /\ Len(a) = Len(st) + Len(u)
          /\ \A i \in 1..(Len(st) + Len(u)) : a[i] = IF i <= Len(st) THEN st[i] ELSE u[i - Len(st)]
        BY <1>3, <1>5, ConcatProperties
    <2>2. Len(st) = k + m /\ Len(u) = n
        BY <1>2, <1>3
    <2> QED
        BY <2>1, <2>2
<1>7. /\ c \in Seq(Nat) /\ Len(c) = k + (m + n)
      /\ \A i \in 1..(k + (m + n)) : c[i] = IF i <= k THEN s[i] ELSE tu[i - k]
    <2>1. /\ c \in Seq(Nat) /\ Len(c) = Len(s) + Len(tu)
          /\ \A i \in 1..(Len(s) + Len(tu)) : c[i] = IF i <= Len(s) THEN s[i] ELSE tu[i - Len(s)]
        BY <1>4, <1>5, ConcatProperties
    <2>2. Len(s) = k /\ Len(tu) = m + n
        BY <1>2, <1>4
    <2> QED
        BY <2>1, <2>2
<1>8. ASSUME NEW i \in 1..(k + m + n) PROVE a[i] = c[i]
    <2>1. CASE i <= k
        <3>1. i \in 1..(k + m) /\ i \in 1..(k + (m + n)) /\ i <= k + m
            BY <1>2, <2>1
        <3>2. a[i] = st[i]
            BY <1>6, <3>1
        <3>3. st[i] = s[i]
            BY <1>3, <2>1, <3>1
        <3>4. c[i] = s[i]
            BY <1>7, <2>1, <3>1
        <3> QED
            BY <3>2, <3>3, <3>4
    <2>2. CASE i > k /\ i <= k + m
        <3>1. i - k \in 1..(m + n) /\ i - k <= m /\ i \in 1..(k + m) /\ ~(i <= k) /\ i \in 1..(k + (m + n))
            BY <1>2, <2>2
        <3> QED
            BY <1>3, <1>4, <1>6, <1>7, <2>2, <3>1
    <2>3. CASE i > k + m
        <3>1. /\ i - k \in 1..(m + n) /\ ~(i - k <= m) /\ ~(i <= k + m) /\ ~(i <= k)
              /\ i \in 1..(k + (m + n)) /\ (i - k) - m = i - (k + m)
            BY <1>2, <2>3
        <3> QED
            BY <1>4, <1>6, <1>7, <3>1
    <2> QED
        BY <1>2, <2>1, <2>2, <2>3
<1>9. a = c
    <2>1. PICK x \in Nat : x = k + m + n
        BY <1>2
    <2>2. a \in [1..x -> Nat]
        BY <1>2, <1>6, <2>1, LenProperties
    <2>3. c \in [1..x -> Nat]
        BY <1>2, <1>7, <2>1, LenProperties
    <2> QED
        BY <1>8, <2>1, <2>2, <2>3
<1> QED
    BY <1>1, <1>5, <1>9

\* The first line after those of s is the first of t.
LEMMA FirstAfter ==
    ASSUME NEW s \in Seq(Nat), NEW t \in Seq(Nat), t # <<>>
    PROVE  Len(s) + 1 \in 1..Len(s \o t) /\ (s \o t)[Len(s) + 1] = t[1]
<1>1. PICK k, m \in Nat : k = Len(s) /\ m = Len(t) /\ m # 0
    BY LenProperties, EmptySeq
<1>2. k + 1 \in 1..(k + m) /\ ~(k + 1 <= k) /\ (k + 1) - k = 1
    BY <1>1
<1>3. Len(s \o t) = k + m /\ \A i \in 1..(k + m) : (s \o t)[i] = IF i <= k THEN s[i] ELSE t[i - k]
    BY <1>1, ConcatProperties
<1> QED
    BY <1>1, <1>2, <1>3

\* Appending a line that is larger than all there are keeps a sequence in order.
LEMMA RisingAppend ==
    ASSUME NEW q \in Seq(Nat), NEW n \in Nat, Rising(q), \A i \in 1..Len(q) : q[i] < n
    PROVE  /\ Append(q, n) \in Seq(Nat) /\ Rising(Append(q, n))
           /\ \A i \in 1..Len(Append(q, n)) : Append(q, n)[i] = n \/ \E j \in 1..Len(q) : q[j] = Append(q, n)[i]
           /\ \A j \in 1..Len(q) : \E i \in 1..Len(Append(q, n)) : Append(q, n)[i] = q[j]
           /\ \E i \in 1..Len(Append(q, n)) : Append(q, n)[i] = n
<1>1. PICK m \in Nat : m = Len(q)
    BY LenProperties
<1>2. PICK a : a = Append(q, n)
    OBVIOUS
<1>3. /\ a \in Seq(Nat) /\ Len(a) = m + 1 /\ \A i \in 1..m : a[i] = q[i] /\ q[i] \in Nat
      /\ a[m + 1] = n
    BY <1>1, <1>2, AppendProperties, ElementOfSeq
<1>4. \A i \in 1..(m + 1) : i \in 1..m \/ i = m + 1
    BY <1>1
<1>5. Rising(a)
    <2>1. ASSUME NEW i \in 1..m PROVE a[i] < a[i + 1]
        <3>1. CASE i = m
            BY <1>1, <1>3, <2>1, <3>1
        <3>2. CASE i # m
            <4>1. i \in 1..(m - 1) /\ i + 1 \in 1..m
                BY <1>1, <3>2
            <4> QED
                BY <1>1, <1>3, <4>1 DEF Rising
        <3> QED
            BY <3>1, <3>2
    <2>2. (m + 1) - 1 = m
        BY <1>1
    <2> QED
        BY <1>3, <2>1, <2>2 DEF Rising
<1>6. \A i \in 1..m : i \in 1..(m + 1)
    BY <1>1
<1>7. m + 1 \in 1..(m + 1)
    BY <1>1
<1> QED
    BY <1>1, <1>2, <1>3, <1>4, <1>5, <1>6, <1>7

\* What is pending is the line at hand and then the channel.
LEMMA PendingFacts ==
    ASSUME StreamTyped, NEW b \in Subscribed
    PROVE  /\ subs[b] \in Seq(Nat) /\ shown[b] \in Seq(Nat) /\ Pending(b) \in Seq(Nat) /\ Got(b) \in Seq(Nat)
           /\ stream[b].at # "writing" => Pending(b) = subs[b] /\ stream[b].at = "reading"
           /\ stream[b].at = "writing" => Pending(b) = <<stream[b].line>> \o subs[b] /\ stream[b].line \in Nat \ {0}
<1>1. b \in Browsers /\ subs[b] \in Seq(Nat) /\ shown[b] \in Seq(Nat) /\ stream[b] \in StreamStages /\ stream[b] # Off
    BY DEF StreamTyped
<1>2. <<>> \o subs[b] = subs[b]
    BY <1>1, ConcatEmptySeq
<1>3. stream[b].at # "writing" => stream[b].line = 0 /\ stream[b].at = "reading"
    BY <1>1 DEF StreamStages, Off
<1>4. stream[b].at = "writing" => stream[b].line \in Nat \ {0}
    BY <1>1 DEF StreamStages
<1>5. stream[b].at = "writing" => Pending(b) = <<stream[b].line>> \o subs[b]
    BY <1>4 DEF Pending
<1>6. stream[b].at # "writing" => Pending(b) = subs[b]
    BY <1>2, <1>3 DEF Pending
<1>7. Pending(b) \in Seq(Nat)
    <2>1. stream[b].at = "writing" => <<stream[b].line>> \in Seq(Nat)
        BY <1>4
    <2> QED
        BY <1>1, <1>5, <1>6, <2>1, ConcatProperties
<1>8. Got(b) \in Seq(Nat)
    BY <1>1, <1>7, ConcatProperties DEF Got
<1> QED
    BY <1>1, <1>3, <1>4, <1>5, <1>6, <1>7, <1>8

\* Connections that a step leaves alone.
LEMMA SameGot ==
    ASSUME NEW b, shown'[b] = shown[b], stream'[b] = stream[b], subs'[b] = subs[b]
    PROVE  Got(b)' = Got(b)
BY DEF Got, Pending

\* Steps of a connection: nothing is logged, and the others are left alone.
LEMMA ConnectionKeeps ==
    ASSUME StreamInv, StreamTyped', NEW b \in Browsers, UNCHANGED <<log, lines, errors, crowded>>,
           Subscribed' \subseteq Subscribed \cup {b},
           \A d \in Browsers \ {b} : /\ shown'[d] = shown[d] /\ stream'[d] = stream[d]
                                     /\ since'[d] = since[d] /\ (d \in Subscribed => subs'[d] = subs[d]),
           b \in Subscribed' => Tells(Got(b)', since'[b])
    PROVE  StreamInv'
<1>1. LogInv'
    BY DEF StreamInv, LogInv
<1>2. \A q, n : Tells(q, n)' <=> Tells(q, n)
    BY DEF Tells
<1>3. ASSUME NEW d \in Subscribed', d # b PROVE Tells(Got(d), since[d])'
    <2>1. d \in Subscribed /\ d \in Browsers \ {b}
        BY <1>3 DEF StreamTyped
    <2>2. Got(d)' = Got(d) /\ since'[d] = since[d]
        BY <2>1, SameGot
    <2> QED
        BY <1>2, <2>1, <2>2 DEF StreamInv
<1>4. b \in Subscribed' => Tells(Got(b), since[b])'
    BY <1>2
<1> QED
    BY <1>1, <1>3, <1>4 DEF StreamInv

\* A connection begins with nothing to show, and nothing was logged since.
LEMMA SubscribeKeeps ==
    ASSUME StreamInv, NEW b \in Browsers, Subscribe(b)
    PROVE  StreamInv'
<1>1. StreamTyped /\ ChannelSize \in Nat \ {0}
    BY EventStreamAssumption DEF StreamInv
<1>2. /\ UNCHANGED <<log, lines, errors, crowded>> /\ b \notin Subscribed
      /\ Subscribed' = Subscribed \cup {b} /\ subs'[b] = <<>>
      /\ \A d \in Subscribed \ {b} : subs'[d] = subs[d]
    BY <1>1 DEF Subscribe, With, Subscribed, StreamTyped
<1>3. /\ stream' = [stream EXCEPT ![b] = StreamReading]
      /\ since' = [since EXCEPT ![b] = lines] /\ shown' = [shown EXCEPT ![b] = <<>>]
    BY DEF Subscribe
<1>4. StreamReading \in StreamStages /\ StreamReading # Off
    BY DEF StreamStages, StreamReading, Off
<1>5. StreamTyped'
    <2>1. /\ stream' \in [Browsers -> StreamStages] /\ shown' \in [Browsers -> Seq(Nat)]
          /\ since' \in [Browsers -> 0..lines']
        <3>1. <<>> \in Seq(Nat) /\ lines \in 0..lines
            BY <1>1, EmptySeq DEF StreamTyped
        <3> QED
            BY <1>1, <1>2, <1>3, <1>4, <3>1 DEF StreamTyped
    <2>2. \A d \in Subscribed' : subs'[d] \in Seq(Nat) /\ Len(subs'[d]) <= ChannelSize
        <3>1. <<>> \in Seq(Nat) /\ Len(<<>>) <= ChannelSize
            BY <1>1, EmptySeq
        <3>2. \A d \in Subscribed : subs[d] \in Seq(Nat) /\ Len(subs[d]) <= ChannelSize
            BY <1>1 DEF StreamTyped
        <3> QED
            BY <1>2, <3>1, <3>2
    <2>3. \A d \in Browsers : stream'[d] # Off <=> d \in Subscribed'
        BY <1>1, <1>2, <1>3, <1>4 DEF StreamTyped
    <2> QED
        BY <1>1, <1>2, <2>1, <2>2, <2>3 DEF StreamTyped
<1>6. Got(b)' = <<>> /\ since'[b] = lines
    <2>1. shown'[b] = <<>> /\ since'[b] = lines
        BY <1>1, <1>3 DEF StreamTyped
    <2>2. Pending(b)' = <<>>
        <3>1. stream'[b].line = 0
            BY <1>1, <1>3 DEF StreamTyped, StreamReading
        <3> QED
            BY <1>2, <3>1, ConcatEmptySeq, EmptySeq DEF Pending
    <2> QED
        BY <2>1, <2>2, ConcatEmptySeq, EmptySeq DEF Got
<1>7. Tells(Got(b)', since'[b])
    <2>1. \A e \in errors : ~(e > lines)
        BY <1>1 DEF StreamTyped
    <2>2. Len(<<>>) = 0
        BY EmptySeq
    <2> QED
        BY <1>6, <2>1, <2>2 DEF Tells, Rising
<1>8. \A d \in Browsers \ {b} : shown'[d] = shown[d] /\ stream'[d] = stream[d] /\ since'[d] = since[d]
    BY <1>1, <1>3 DEF StreamTyped
<1> QED
    BY <1>2, <1>5, <1>7, <1>8, ConnectionKeeps

\* A line goes from the channel to the connection, and from there to the browser.
LEMMA ShowKeeps ==
    ASSUME StreamInv, NEW b \in Browsers, TakeEvent(b) \/ WriteEvent(b)
    PROVE  StreamInv'
<1>1. StreamTyped /\ ChannelSize \in Nat \ {0}
    BY EventStreamAssumption DEF StreamInv
<1>2. UNCHANGED <<log, lines, errors, since, crowded>>
    BY DEF TakeEvent, WriteEvent
<1>3. b \in Subscribed /\ subs[b] \in Seq(Nat) /\ shown[b] \in Seq(Nat)
    <2>1. stream[b] # Off
        BY DEF TakeEvent, WriteEvent, Off
    <2> QED
        BY <1>1, <2>1 DEF StreamTyped
<1>4. CASE TakeEvent(b)
    <2>1. /\ stream' = [stream EXCEPT ![b] = [at |-> "writing", line |-> Head(subs[b])]]
          /\ subs[b] # <<>> /\ stream[b].at = "reading" /\ UNCHANGED shown
        BY <1>4 DEF TakeEvent
    <2>2. /\ Subscribed' = Subscribed /\ subs'[b] = Tail(subs[b])
          /\ \A d \in Subscribed \ {b} : subs'[d] = subs[d]
        BY <1>3, <1>4 DEF TakeEvent, With, Subscribed
    <2>3. PICK q \in Seq(Nat) : q = subs[b] /\ Len(q) <= ChannelSize /\ Len(q) \in Nat \ {0}
        BY <1>1, <1>3, <2>1, EmptySeq DEF StreamTyped
    <2>4. /\ Head(q) \in Nat /\ Tail(q) \in Seq(Nat) /\ Len(Tail(q)) = Len(q) - 1
          /\ Head(q) = q[1] /\ q = <<Head(q)>> \o Tail(q)
        <3>1. /\ Head(q) \in Nat /\ Tail(q) \in Seq(Nat) /\ Len(Tail(q)) = Len(q) - 1
              /\ Head(q) = q[1]
            BY <2>1, <2>3, HeadTailProperties
        <3>2. Tail(q) = SubSeq(q, 2, Len(q)) /\ SubSeq(q, 1, Len(q)) = q
            BY <2>1, <2>3, TailIsSubSeq, SubSeqFull
        <3>3. 1 \in 1..Len(q) /\ Len(q) \in 1..Len(q) /\ 1 + 1 = 2
            BY <2>3
        <3>4. SubSeq(q, 1, Len(q)) = <<q[1]>> \o SubSeq(q, 1 + 1, Len(q))
            BY <2>3, <3>3, SubSeqRecursiveFirst
        <3> QED
            BY <3>1, <3>2, <3>3, <3>4
    <2>5. Head(q) # 0
        <3>1. Got(b) = shown[b] \o q
            BY <1>1, <1>3, <2>1, <2>3, PendingFacts DEF Got
        <3>2. PICK k : k \in 1..Len(Got(b)) /\ Got(b)[k] = q[1]
            <4>1. PICK p \in Seq(Nat) : p = shown[b]
                BY <1>3
            <4>2. Len(p) + 1 \in 1..Len(p \o q) /\ (p \o q)[Len(p) + 1] = q[1]
                BY <2>1, <2>3, FirstAfter
            <4> QED
                BY <3>1, <4>1, <4>2
        <3>3. \A i \in 1..Len(Got(b)) : Got(b)[i] > since[b]
            BY <1>3 DEF StreamInv, Tells
        <3>4. since[b] \in Nat
            BY <1>1, <1>3 DEF StreamTyped
        <3> QED
            BY <2>4, <3>2, <3>3, <3>4
    <2>6. [at |-> "writing", line |-> Head(q)] \in StreamStages /\ [at |-> "writing", line |-> Head(q)] # Off
        BY <2>4, <2>5 DEF StreamStages, Off
    <2>7. stream'[b] = [at |-> "writing", line |-> Head(q)] /\ \A d \in Browsers \ {b} : stream'[d] = stream[d]
        BY <1>1, <2>1, <2>3 DEF StreamTyped
    <2>8. StreamTyped'
        <3>1. stream' \in [Browsers -> StreamStages]
            BY <1>1, <2>1, <2>3, <2>6 DEF StreamTyped
        <3>2. \A d \in Subscribed' : subs'[d] \in Seq(Nat) /\ Len(subs'[d]) <= ChannelSize
            <4>1. Len(q) - 1 <= ChannelSize
                BY <1>1, <2>3
            <4> QED
                BY <1>1, <2>2, <2>3, <2>4, <4>1 DEF StreamTyped
        <3>3. \A d \in Browsers : stream'[d] # Off <=> d \in Subscribed'
            BY <1>1, <1>3, <2>2, <2>6, <2>7 DEF StreamTyped
        <3> QED
            BY <1>1, <1>2, <2>1, <2>2, <3>1, <3>2, <3>3 DEF StreamTyped
    <2>9. Got(b)' = Got(b)
        <3>1. Pending(b) = q
            BY <1>1, <1>3, <2>1, <2>3, PendingFacts
        <3>2. Pending(b)' = <<Head(q)>> \o Tail(q)
            BY <2>2, <2>3, <2>5, <2>7 DEF Pending
        <3> QED
            BY <2>1, <2>4, <3>1, <3>2 DEF Got
    <2>10. Tells(Got(b)', since'[b])
        BY <1>2, <1>3, <2>9 DEF StreamInv
    <2> QED
        BY <1>2, <2>1, <2>2, <2>7, <2>8, <2>10, ConnectionKeeps
<1>5. CASE WriteEvent(b)
    <2>1. /\ shown' = [shown EXCEPT ![b] = Append(@, stream[b].line)]
          /\ stream' = [stream EXCEPT ![b] = StreamReading] /\ stream[b].at = "writing" /\ UNCHANGED subs
        BY <1>5 DEF WriteEvent
    <2>2. PICK n \in Nat : n = stream[b].line /\ Pending(b) = <<n>> \o subs[b]
        BY <1>1, <1>3, <2>1, PendingFacts
    <2>3. /\ shown'[b] = Append(shown[b], n) /\ Append(shown[b], n) \in Seq(Nat)
          /\ Append(shown[b], n) = shown[b] \o <<n>>
        <3>1. shown'[b] = Append(shown[b], n)
            BY <1>1, <1>3, <2>1, <2>2 DEF StreamTyped
        <3> QED
            BY <1>3, <3>1, LineAppended
    <2>4. StreamReading \in StreamStages /\ StreamReading # Off /\ StreamReading.line = 0
        BY DEF StreamStages, StreamReading, Off
    <2>5. stream'[b] = StreamReading /\ \A d \in Browsers \ {b} : stream'[d] = stream[d] /\ shown'[d] = shown[d]
        BY <1>1, <2>1 DEF StreamTyped
    <2>6. StreamTyped'
        <3>1. stream' \in [Browsers -> StreamStages] /\ shown' \in [Browsers -> Seq(Nat)]
            BY <1>1, <2>1, <2>2, <2>3, <2>4 DEF StreamTyped
        <3>2. Subscribed' = Subscribed
            BY <2>1 DEF Subscribed
        <3>3. \A d \in Browsers : stream'[d] # Off <=> d \in Subscribed'
            BY <1>1, <1>3, <2>4, <2>5, <3>2 DEF StreamTyped
        <3> QED
            BY <1>1, <1>2, <2>1, <3>1, <3>2, <3>3 DEF StreamTyped
    <2>7. Got(b)' = Got(b)
        <3>1. Pending(b)' = subs[b]
            BY <1>3, <2>1, <2>4, <2>5, ConcatEmptySeq DEF Pending
        <3>2. Got(b)' = (shown[b] \o <<n>>) \o subs[b]
            BY <2>3, <3>1 DEF Got
        <3>3. Got(b) = shown[b] \o (<<n>> \o subs[b])
            BY <2>2 DEF Got
        <3>4. <<n>> \in Seq(Nat)
            BY <2>2
        <3>5. (shown[b] \o <<n>>) \o subs[b] = shown[b] \o (<<n>> \o subs[b])
            BY <1>3, <3>4, LinesJoined
        <3> QED
            BY <3>2, <3>3, <3>5
    <2>8. Tells(Got(b)', since'[b])
        BY <1>2, <1>3, <2>7 DEF StreamInv
    <2>9. Subscribed' = Subscribed
        BY <2>1 DEF Subscribed
    <2> QED
        BY <1>2, <2>1, <2>5, <2>6, <2>8, <2>9, ConnectionKeeps
<1> QED
    BY <1>4, <1>5

\* A connection ends.
LEMMA UnsubscribeKeeps ==
    ASSUME StreamInv, NEW b \in Browsers, Unsubscribe(b)
    PROVE  StreamInv'
<1>1. StreamTyped
    BY DEF StreamInv
<1>2. /\ UNCHANGED <<log, lines, errors, since, shown, crowded>>
      /\ Subscribed' = Subscribed \ {b} /\ \A d \in Subscribed \ {b} : subs'[d] = subs[d]
      /\ stream' = [stream EXCEPT ![b] = Off]
    BY DEF Unsubscribe, Without, Subscribed
<1>3. Off \in StreamStages
    BY DEF StreamStages, Off
<1>4. StreamTyped'
    <2>1. stream' \in [Browsers -> StreamStages]
        BY <1>1, <1>2, <1>3 DEF StreamTyped
    <2>2. \A d \in Browsers : stream'[d] # Off <=> d \in Subscribed'
        BY <1>1, <1>2 DEF StreamTyped
    <2> QED
        BY <1>1, <1>2, <2>1, <2>2 DEF StreamTyped
<1>5. \A d \in Browsers \ {b} : stream'[d] = stream[d]
    BY <1>1, <1>2 DEF StreamTyped
<1>6. /\ Subscribed' \subseteq Subscribed \cup {b}
      /\ \A d \in Browsers \ {b} : d \in Subscribed => subs'[d] = subs[d]
      /\ b \notin Subscribed'
    BY <1>2
<1> QED
    BY <1>2, <1>4, <1>5, <1>6, ConnectionKeeps

\* A line is logged: the buffer moves on by it.
LEMMA LogMoves ==
    ASSUME StreamInv, lines' = lines + 1, log' = Logged(log, lines')
    PROVE  LogInv'
<1>1. LogInv /\ lines \in Nat /\ LogSize \in Nat \ {0} /\ lines' \in Nat
    BY EventStreamAssumption DEF StreamInv, StreamTyped
<1>2. PICK k \in Nat : k = Len(log) /\ k <= LogSize /\ k <= lines /\ \A i \in 1..k : log[i] = lines - k + i
    BY <1>1, LenProperties DEF LogInv
<1>3. CASE k >= LogSize
    <2>1. log # <<>>
        BY <1>1, <1>2, <1>3, EmptySeq
    <2>2. PICK t : t = Tail(log)
        OBVIOUS
    <2>3. t \in Seq(Nat) /\ Len(t) = k - 1 /\ \A i \in 1..(k - 1) : t[i] = log[i + 1]
        BY <1>1, <1>2, <2>1, <2>2, HeadTailProperties DEF LogInv
    <2>4. log' = Append(t, lines')
        BY <1>2, <1>3, <2>2 DEF Logged
    <2>5. /\ log' \in Seq(Nat) /\ Len(log') = (k - 1) + 1 /\ log'[(k - 1) + 1] = lines'
          /\ \A i \in 1..(k - 1) : log'[i] = t[i]
        <3>1. PICK n \in Nat : n = lines'
            BY <1>1
        <3>2. log' = Append(t, n)
            BY <2>4, <3>1
        <3>3. /\ Append(t, n) \in Seq(Nat) /\ Len(Append(t, n)) = Len(t) + 1
              /\ Append(t, n)[Len(t) + 1] = n /\ \A i \in 1..Len(t) : Append(t, n)[i] = t[i]
            BY <2>3, LineAppended
        <3> QED
            BY <2>3, <3>1, <3>2, <3>3
    <2>6. \A i \in 1..(k - 1) : i + 1 \in 1..k
        BY <1>2
    <2>7. \A i \in 1..(k - 1) : log'[i] = lines - k + (i + 1)
        BY <1>2, <2>3, <2>5, <2>6
    <2>8. \A i \in 1..k : log'[i] = lines' - k + i
        <3>1. \A i \in 1..k : i \in 1..(k - 1) \/ i = (k - 1) + 1
            BY <1>2
        <3>2. \A i \in 1..k : lines - k + (i + 1) = (lines + 1) - k + i
            BY <1>1, <1>2
        <3>3. (lines + 1) - k + ((k - 1) + 1) = lines + 1
            BY <1>1, <1>2
        <3>4. ASSUME NEW i \in 1..k PROVE log'[i] = lines' - k + i
            <4>1. CASE i \in 1..(k - 1)
                BY <2>7, <3>2, <4>1
            <4>2. CASE i = (k - 1) + 1
                BY <2>5, <3>3, <4>2
            <4> QED
                BY <3>1, <4>1, <4>2
        <3> QED
            BY <3>4
    <2>9. Len(log') = k /\ k = LogSize /\ k <= lines'
        BY <1>1, <1>2, <1>3, <2>5
    <2>10. /\ Len(log') <= LogSize /\ Len(log') <= lines'
           /\ Len(log') < LogSize => Len(log') = lines'
        BY <1>1, <2>9
    <2>11. \A i \in 1..Len(log') : log'[i] = lines' - Len(log') + i
        BY <2>8, <2>9
    <2>12. log' \in Seq(Nat)
        BY <2>5
    <2> QED
        BY <2>10, <2>11, <2>12 DEF LogInv
<1>4. CASE k < LogSize
    <2>1. log' = Append(log, lines') /\ k = lines
        BY <1>1, <1>2, <1>4 DEF Logged, LogInv
    <2>2. /\ log' \in Seq(Nat) /\ Len(log') = k + 1 /\ log'[k + 1] = lines'
          /\ \A i \in 1..k : log'[i] = log[i]
        <3>1. PICK n \in Nat : n = lines'
            BY <1>1
        <3>2. log' = Append(log, n) /\ log \in Seq(Nat)
            BY <1>1, <2>1, <3>1 DEF LogInv
        <3>3. /\ Append(log, n) \in Seq(Nat) /\ Len(Append(log, n)) = Len(log) + 1
              /\ Append(log, n)[Len(log) + 1] = n /\ \A i \in 1..Len(log) : Append(log, n)[i] = log[i]
            BY <3>2, LineAppended
        <3> QED
            BY <1>2, <3>1, <3>2, <3>3
    <2>3. \A i \in 1..(k + 1) : log'[i] = lines' - (k + 1) + i
        <3> SUFFICES ASSUME NEW i \in 1..(k + 1) PROVE log'[i] = lines' - (k + 1) + i
            OBVIOUS
        <3>1. CASE i \in 1..k
            <4>1. log'[i] = lines - k + i
                BY <1>2, <2>2, <3>1
            <4> QED
                BY <1>1, <1>2, <3>1, <4>1
        <3>2. CASE i = k + 1
            <4>1. log'[i] = lines'
                BY <2>2, <3>2
            <4> QED
                BY <1>1, <1>2, <3>2, <4>1
        <3> QED
            BY <1>2, <3>1, <3>2
    <2>4. k + 1 <= LogSize /\ k + 1 = lines'
        BY <1>1, <1>2, <1>4, <2>1
    <2> QED
        BY <1>1, <2>2, <2>3, <2>4 DEF LogInv
<1> QED
    BY <1>1, <1>2, <1>3, <1>4

\* A line that speaks of no error goes nowhere else.
LEMMA QuietLineKeeps ==
    ASSUME StreamInv, lines' = lines + 1, log' = Logged(log, lines'),
           UNCHANGED <<errors, subs, crowded, stream, since, shown>>
    PROVE  StreamInv'
<1>1. lines \in Nat
    BY DEF StreamInv, StreamTyped
<1>2. \A n \in 0..lines : n \in 0..(lines + 1)
    BY <1>1
<1>3. StreamTyped'
    <2>1. since' \in [Browsers -> 0..lines']
        BY <1>2 DEF StreamInv, StreamTyped
    <2>2. errors' \subseteq 1..lines' /\ lines' \in Nat
        BY <1>1 DEF StreamInv, StreamTyped
    <2>3. Subscribed' = Subscribed
        BY DEF Subscribed
    <2> QED
        BY <2>1, <2>2, <2>3 DEF StreamInv, StreamTyped
<1>4. ASSUME NEW b \in Subscribed' PROVE Tells(Got(b), since[b])'
    <2>1. b \in Subscribed
        BY <1>4 DEF Subscribed
    <2>2. Got(b)' = Got(b)
        BY SameGot
    <2>3. Tells(Got(b), since[b])
        BY <2>1 DEF StreamInv
    <2> QED
        BY <2>2, <2>3 DEF Tells
<1>5. LogInv'
    BY LogMoves
<1> QED
    BY <1>3, <1>4, <1>5 DEF StreamInv

\* One that does is published: whoever gets it is told one more, and unless it is crowded
\* everybody gets it.
LEMMA PublishKeeps ==
    ASSUME StreamInv, lines' = lines + 1, log' = Logged(log, lines'), UNCHANGED <<stream, since, shown>>,
           errors' = errors \cup {lines'}, NEW told \in SUBSET Subscribed, Publish(lines', told)
    PROVE  StreamInv'
<1>1. StreamTyped /\ ChannelSize \in Nat \ {0} /\ lines \in Nat /\ lines' \in Nat
    BY EventStreamAssumption DEF StreamInv, StreamTyped
<1>2. /\ Subscribed' = Subscribed
      /\ \A b \in Subscribed : subs'[b] = IF b \in told THEN Append(subs[b], lines') ELSE subs[b]
      /\ \A b \in told : ~Full(b)
      /\ crowded' = IF \E b \in Subscribed : Len(subs[b]) = ChannelSize THEN crowded \cup {lines'} ELSE crowded
    BY DEF Publish, Subscribed
<1>3. ASSUME NEW b \in Subscribed PROVE Len(subs[b]) \in Nat /\ Len(subs[b]) <= ChannelSize
    BY <1>1, LenProperties DEF StreamTyped
<1>4. ASSUME NEW b \in Subscribed, b \notin told PROVE lines' \in crowded'
    <2>1. \E d \in Subscribed : Full(d)
        BY <1>4 DEF Publish
    <2>2. PICK d \in Subscribed : Full(d)
        BY <2>1
    <2>3. Len(subs[d]) = ChannelSize
        BY <1>1, <1>3, <2>2 DEF Full
    <2> QED
        BY <1>2, <2>3
<1>5. ASSUME NEW b \in told
      PROVE  Append(subs[b], lines') \in Seq(Nat) /\ Len(Append(subs[b], lines')) <= ChannelSize
    <2>1. subs[b] \in Seq(Nat) /\ Len(subs[b]) < ChannelSize /\ Len(subs[b]) \in Nat
        BY <1>1, <1>2, <1>3 DEF StreamTyped, Full
    <2>2. Append(subs[b], lines') \in Seq(Nat) /\ Len(Append(subs[b], lines')) = Len(subs[b]) + 1
        BY <1>1, <2>1, AppendProperties
    <2> QED
        BY <1>1, <2>1, <2>2
<1>6. StreamTyped'
    <2>1. \A n \in 0..lines : n \in 0..(lines + 1)
        BY <1>1
    <2>2. since' \in [Browsers -> 0..lines']
        BY <1>1, <2>1 DEF StreamTyped
    <2>3. errors' \subseteq 1..lines'
        BY <1>1 DEF StreamTyped
    <2>4. \A b \in Subscribed' : subs'[b] \in Seq(Nat) /\ Len(subs'[b]) <= ChannelSize
        BY <1>1, <1>2, <1>3, <1>5 DEF StreamTyped
    <2> QED
        BY <1>1, <1>2, <2>2, <2>3, <2>4 DEF StreamTyped
<1>7. ASSUME NEW b \in Subscribed PROVE Tells(Got(b), since[b])'
    <2>1. PICK q \in Seq(Nat) : q = Got(b)
        BY <1>1, PendingFacts
    <2>2. /\ Rising(q) /\ \A i \in 1..Len(q) : q[i] \in errors /\ q[i] > since[b]
          /\ \A e \in errors \ crowded : e > since[b] => \E i \in 1..Len(q) : q[i] = e
        BY <2>1 DEF StreamInv, Tells
    <2>3. CASE b \notin told
        <3>1. Got(b)' = q
            BY <1>2, <2>1, <2>3 DEF Got, Pending
        <3>2. errors' \ crowded' \subseteq errors \ crowded
            BY <1>2, <1>4, <2>3
        <3> QED
            BY <2>2, <3>1, <3>2 DEF Tells
    <2>4. CASE b \in told
        <3>1. Got(b)' = Append(q, lines')
            <4>1. subs[b] \in Seq(Nat) /\ Pending(b) \in Seq(Nat) /\ shown[b] \in Seq(Nat)
                BY <1>1, PendingFacts
            <4>2. Append(subs[b], lines') = subs[b] \o <<lines'>> /\ <<lines'>> \in Seq(Nat)
                BY <1>1, <4>1, LineAppended
            <4>3. Pending(b)' = Pending(b) \o <<lines'>>
                <5>1. PICK h \in Seq(Nat) : h = IF stream[b].line = 0 THEN <<>> ELSE <<stream[b].line>>
                    <6>1. b \in Browsers /\ stream[b] \in StreamStages
                        BY <1>1 DEF StreamTyped
                    <6>2. stream[b].line \in Nat
                        BY <6>1 DEF StreamStages
                    <6>3. <<>> \in Seq(Nat) /\ <<stream[b].line>> \in Seq(Nat)
                        BY <6>2, EmptySeq
                    <6> QED
                        BY <6>3
                <5>2. Pending(b) = h \o subs[b] /\ Pending(b)' = h \o (subs[b] \o <<lines'>>)
                    BY <1>2, <2>4, <4>2, <5>1 DEF Pending
                <5>3. (h \o subs[b]) \o <<lines'>> = h \o (subs[b] \o <<lines'>>)
                    <6>1. PICK s \in Seq(Nat), o \in Seq(Nat) : s = subs[b] /\ o = <<lines'>>
                        BY <4>1, <4>2
                    <6>2. (h \o s) \o o = h \o (s \o o)
                        BY LinesJoined
                    <6> QED
                        BY <6>1, <6>2
                <5> QED
                    BY <5>2, <5>3
            <4>4. Got(b)' = shown[b] \o (Pending(b) \o <<lines'>>)
                BY <4>3 DEF Got
            <4>5. shown[b] \o (Pending(b) \o <<lines'>>) = q \o <<lines'>>
                <5>1. (shown[b] \o Pending(b)) \o <<lines'>> = shown[b] \o (Pending(b) \o <<lines'>>)
                    <6>1. PICK s \in Seq(Nat), p \in Seq(Nat), o \in Seq(Nat) :
                              s = shown[b] /\ p = Pending(b) /\ o = <<lines'>>
                        BY <4>1, <4>2
                    <6>2. (s \o p) \o o = s \o (p \o o)
                        BY LinesJoined
                    <6> QED
                        BY <6>1, <6>2
                <5> QED
                    BY <2>1, <5>1 DEF Got
            <4> QED
                BY <1>1, <4>4, <4>5, LineAppended
        <3>2. since[b] \in 0..lines /\ \A i \in 1..Len(q) : q[i] < lines'
            BY <1>1, <2>2 DEF StreamTyped
        <3>3. PICK a : a = Append(q, lines')
            OBVIOUS
        <3>4. /\ Rising(a)
              /\ \A i \in 1..Len(a) : a[i] = lines' \/ \E j \in 1..Len(q) : q[j] = a[i]
              /\ \A j \in 1..Len(q) : \E i \in 1..Len(a) : a[i] = q[j]
              /\ \E i \in 1..Len(a) : a[i] = lines'
            <4>1. PICK n \in Nat : n = lines'
                BY <1>1
            <4>2. a = Append(q, n) /\ Rising(q) /\ \A i \in 1..Len(q) : q[i] < n
                BY <2>2, <3>2, <3>3, <4>1
            <4>3. /\ Rising(Append(q, n))
                  /\ \A i \in 1..Len(Append(q, n)) :
                        Append(q, n)[i] = n \/ \E j \in 1..Len(q) : q[j] = Append(q, n)[i]
                  /\ \A j \in 1..Len(q) : \E i \in 1..Len(Append(q, n)) : Append(q, n)[i] = q[j]
                  /\ \E i \in 1..Len(Append(q, n)) : Append(q, n)[i] = n
                BY <4>2, RisingAppend
            <4> QED
                BY <4>1, <4>2, <4>3
        <3>5. \A i \in 1..Len(a) : a[i] \in errors' /\ a[i] > since[b]
            <4>1. lines' > since[b]
                BY <1>1, <3>2
            <4> QED
                BY <2>2, <3>4, <4>1
        <3>6. \A e \in errors' \ crowded' : e > since[b] => \E i \in 1..Len(a) : a[i] = e
            <4>1. \A e \in errors' \ crowded' : e = lines' \/ e \in errors \ crowded
                BY <1>2
            <4>2. ASSUME NEW e \in errors \ crowded, e > since[b] PROVE \E i \in 1..Len(a) : a[i] = e
                <5>1. PICK j \in 1..Len(q) : q[j] = e
                    BY <2>2, <4>2
                <5> QED
                    BY <3>4, <5>1
            <4> QED
                BY <3>4, <4>1, <4>2
        <3> QED
            BY <3>1, <3>3, <3>4, <3>5, <3>6 DEF Tells
    <2> QED
        BY <2>3, <2>4
<1>8. LogInv'
    BY LogMoves
<1> QED
    BY <1>2, <1>6, <1>7, <1>8 DEF StreamInv

\* A stream starts with nobody and nothing.
LEMMA StreamInitInv == StreamInit => StreamInv
<1> SUFFICES ASSUME StreamInit PROVE StreamInv
    OBVIOUS
<1>1. Subscribed = {}
    BY DEF StreamInit, Subscribed
<1>2. StreamTyped
    <2>1. <<>> \in Seq(Nat) /\ 0 \in 0..0
        BY EmptySeq
    <2> QED
        BY <1>1, <2>1 DEF StreamInit, StreamTyped, StreamStages, Off
<1>3. LogInv
    BY EventStreamAssumption, EmptySeq DEF StreamInit, LogInv
<1> QED
    BY <1>1, <1>2, <1>3 DEF StreamInv

\* Every step of the stream keeps the invariant, and so do those of other services.
LEMMA StreamNextInv ==
    ASSUME StreamInv, StreamNext \/ UNCHANGED streamVars
    PROVE  StreamInv'
<1>1. CASE UNCHANGED streamVars
    <2>1. UNCHANGED <<subs, stream, log, lines, errors, since, shown, crowded>>
        BY <1>1 DEF streamVars
    <2>2. StreamTyped' /\ LogInv'
        BY <2>1 DEF StreamInv, StreamTyped, LogInv, Subscribed
    <2>3. \A b : b \in Subscribed' => b \in Subscribed /\ Got(b)' = Got(b) /\ since'[b] = since[b]
        BY <2>1 DEF Subscribed, Got, Pending
    <2>4. \A q, n : Tells(q, n)' <=> Tells(q, n)
        BY <2>1 DEF Tells
    <2> QED
        BY <2>2, <2>3, <2>4 DEF StreamInv
<1>2. ASSUME NEW error \in BOOLEAN, LogLine(error) PROVE StreamInv'
    BY <1>2, QuietLineKeeps, PublishKeeps DEF LogLine
<1>3. ASSUME NEW b \in Browsers, Subscribe(b) \/ TakeEvent(b) \/ WriteEvent(b) \/ Unsubscribe(b)
      PROVE  StreamInv'
    BY <1>3, SubscribeKeeps, ShowKeeps, UnsubscribeKeeps
<1> QED
    BY <1>1, <1>2, <1>3 DEF StreamNext

\* What the invariant says of what is shown and of the buffer.
LEMMA StreamMeans == StreamInv => MissedOnlyWhenFull /\ StreamTypeOK
<1> SUFFICES ASSUME StreamInv PROVE MissedOnlyWhenFull /\ StreamTypeOK
    OBVIOUS
<1>1. \A b \in Subscribed : /\ Rising(shown[b] \o Pending(b))
                            /\ LET got == shown[b] \o Pending(b) IN
                               /\ {got[i] : i \in 1..Len(got)} \subseteq {n \in errors : n > since[b]}
                               /\ \A n \in errors \ crowded : n > since[b] => \E i \in 1..Len(got) : got[i] = n
    BY DEF StreamInv, Tells, Got
<1>2. log = [i \in 1..Len(log) |-> lines - Len(log) + i]
    <2>1. log = [i \in 1..Len(log) |-> log[i]]
        BY LenProperties DEF StreamInv, LogInv
    <2> QED
        BY <2>1 DEF StreamInv, LogInv
<1>3. MissedOnlyWhenFull
    BY <1>1, <1>2 DEF MissedOnlyWhenFull, StreamInv, LogInv
<1>4. StreamTypeOK
    BY DEF StreamInv, StreamTyped, LogInv, StreamTypeOK
<1> QED
    BY <1>3, <1>4

-----------------------------------------------------------------------------
(* ConfirmWebhooks: the reports of a click.                                *)

ClickType ==
    [at : {"new", "confirm", "load", "hooks", "over", "failed", "ended"}, lists : SUBSET WebLists,
     ids : SUBSET WebLists]
DeliveryType == [at : {"none", "due", "delivered", "gave up"}, failed : 0..(MaxRetries + 1)]

WebhooksTyped ==
    /\ subscription \in [WebLists -> {"unconfirmed", "confirmed", "unsubscribed"}]
    /\ env \in EnvSettings \cup {NoEnv} /\ hook \subseteq WebLists
    /\ click \in [Clicks -> ClickType] /\ delivery \in [Clicks -> [WebLists -> DeliveryType]]
    /\ turned \in [Clicks -> SUBSET WebLists] /\ received \in [Clicks -> SUBSET WebLists]

\* A goroutine's end tells how its attempts went.
DeliveryInv ==
    \A c \in Clicks, l \in WebLists :
        /\ delivery[c][l].at = "due" => delivery[c][l].failed <= MaxRetries
        /\ delivery[c][l].at = "delivered" => l \in received[c]
        /\ delivery[c][l].at = "gave up" => delivery[c][l].failed = MaxRetries + 1

\* A click that did not confirm yet has turned no list; one that is over has a goroutine
\* for each of its lists that has a target.
ClickInv ==
    \A c \in Clicks :
        /\ ClickAt(c, "new") \/ ClickAt(c, "confirm") => turned[c] = {}
        /\ ClickAt(c, "hooks") => ~env.configured
        /\ ClickAt(c, "over") => \A l \in click[c].lists : HasTarget(l) => delivery[c][l].at # "none"

WebhooksInv == WebhooksTyped /\ DeliveryInv /\ ClickInv

\* No click, no delivery.
LEMMA WebhooksInitInv == WebhooksInit => WebhooksInv
<1> SUFFICES ASSUME WebhooksInit PROVE WebhooksInv
    OBVIOUS
<1>1. NoClick \in ClickType /\ NoClick.at = "new"
    BY DEF ClickType, NoClick
<1>2. NoDelivery \in DeliveryType /\ NoDelivery.at = "none"
    BY ConfirmWebhooksAssumption DEF DeliveryType, NoDelivery
<1>3. /\ \A c \in Clicks : click[c] = NoClick
      /\ \A c \in Clicks, l \in WebLists : delivery[c][l] = NoDelivery
    BY DEF WebhooksInit
<1>4. WebhooksTyped
    BY <1>1, <1>2 DEF WebhooksInit, WebhooksTyped
<1>5. DeliveryInv
    BY <1>2, <1>3 DEF DeliveryInv
<1>6. ClickInv
    BY <1>1, <1>3 DEF WebhooksInit, ClickInv, ClickAt
<1> QED
    BY <1>4, <1>5, <1>6 DEF WebhooksInv

\* A click goes on to a place that is not its end: nothing is owed yet.
LEMMA ClickGoes ==
    ASSUME WebhooksInv, NEW c \in Clicks, NEW rec \in ClickType, click' = [click EXCEPT ![c] = rec],
           rec.at \notin {"over", "hooks"}, UNCHANGED <<hook, env, delivery, received, hookEdited>>,
           turned' \in [Clicks -> SUBSET WebLists], \A d \in Clicks \ {c} : turned'[d] = turned[d],
           rec.at \in {"new", "confirm"} => turned'[c] = {},
           subscription' \in [WebLists -> {"unconfirmed", "confirmed", "unsubscribed"}]
    PROVE  WebhooksInv'
<1>1. WebhooksTyped'
    BY DEF WebhooksInv, WebhooksTyped
<1>2. DeliveryInv'
    BY DEF WebhooksInv, DeliveryInv
<1>3. ClickInv'
    <2> SUFFICES ASSUME NEW d \in Clicks
                 PROVE  /\ ClickAt(d, "new")' \/ ClickAt(d, "confirm")' => turned'[d] = {}
                        /\ ClickAt(d, "hooks")' => ~env'.configured
                        /\ ClickAt(d, "over")' => \A l \in click'[d].lists : HasTarget(l)' => delivery'[d][l].at # "none"
        BY DEF ClickInv
    <2>1. CASE d = c
        BY <2>1 DEF WebhooksInv, WebhooksTyped, ClickAt
    <2>2. CASE d # c
        BY <2>2 DEF WebhooksInv, WebhooksTyped, ClickInv, ClickAt, HasTarget
    <2> QED
        BY <2>1, <2>2
<1> QED
    BY <1>1, <1>2, <1>3 DEF WebhooksInv

\* The click is over, and the goroutines of its targets are started.
LEMMA DispatchKeeps ==
    ASSUME WebhooksInv, NEW c \in Clicks, NEW targets,
           ClickGoto(c, "over"), Dispatch(c, targets),
           \A l \in click[c].lists : HasTarget(l) => l \in targets,
           UNCHANGED <<subscription, hook, env, turned, received, hookEdited>>
    PROVE  WebhooksInv'
<1>1. WebhooksTyped /\ DeliveryInv /\ ClickInv
    BY DEF WebhooksInv
<1>2. \A l \in WebLists : /\ l \in targets => delivery'[c][l] = [at |-> "due", failed |-> 0]
                          /\ l \notin targets => delivery'[c][l] = [at |-> "none", failed |-> 0]
    BY <1>1 DEF Dispatch, WebhooksTyped, NoDelivery
<1>3. \A d \in Clicks \ {c} : delivery'[d] = delivery[d] /\ click'[d] = click[d]
    BY <1>1 DEF Dispatch, WebhooksTyped, ClickGoto
<1>4. click'[c] = [click[c] EXCEPT !.at = "over"]
    BY <1>1 DEF WebhooksTyped, ClickGoto
<1>5. [at |-> "due", failed |-> 0] \in DeliveryType /\ NoDelivery \in DeliveryType
    BY ConfirmWebhooksAssumption DEF DeliveryType, NoDelivery
<1>6. WebhooksTyped'
    <2>1. [click[c] EXCEPT !.at = "over"] \in ClickType
        BY <1>1 DEF WebhooksTyped, ClickType
    <2>2. click' \in [Clicks -> ClickType]
        BY <1>1, <2>1 DEF WebhooksTyped, ClickGoto
    <2>3. delivery' \in [Clicks -> [WebLists -> DeliveryType]]
        BY <1>1, <1>5 DEF WebhooksTyped, Dispatch
    <2> QED
        BY <1>1, <2>2, <2>3 DEF WebhooksTyped
<1>7. DeliveryInv'
    <2> SUFFICES ASSUME NEW d \in Clicks, NEW l \in WebLists
                 PROVE  /\ delivery'[d][l].at = "due" => delivery'[d][l].failed <= MaxRetries
                        /\ delivery'[d][l].at = "delivered" => l \in received'[d]
                        /\ delivery'[d][l].at = "gave up" => delivery'[d][l].failed = MaxRetries + 1
        BY DEF DeliveryInv
    <2>1. CASE d = c
        <3>1. CASE l \in targets
            <4>1. delivery'[d][l].at = "due" /\ delivery'[d][l].failed = 0
                BY <2>1, <3>1, <1>2
            <4> QED
                BY <4>1, ConfirmWebhooksAssumption
        <3>2. CASE l \notin targets
            <4>1. delivery'[d][l].at = "none"
                BY <2>1, <3>2, <1>2
            <4> QED
                BY <4>1
        <3> QED
            BY <3>1, <3>2
    <2>2. CASE d # c
        BY <2>2, <1>1, <1>3 DEF DeliveryInv
    <2> QED
        BY <2>1, <2>2
<1>8. ClickInv'
    <2> SUFFICES ASSUME NEW d \in Clicks
                 PROVE  /\ ClickAt(d, "new")' \/ ClickAt(d, "confirm")' => turned'[d] = {}
                        /\ ClickAt(d, "hooks")' => ~env'.configured
                        /\ ClickAt(d, "over")' => \A l \in click'[d].lists : HasTarget(l)' => delivery'[d][l].at # "none"
        BY DEF ClickInv
    <2>1. CASE d = c
        <3>1. click'[d].at = "over" /\ click'[d].lists = click[c].lists /\ click[c].lists \subseteq WebLists
            BY <2>1, <1>1, <1>4 DEF WebhooksTyped, ClickType
        <3>2. \A l \in click[c].lists : HasTarget(l)' => l \in targets
            BY DEF HasTarget
        <3> QED
            BY <2>1, <3>1, <3>2, <1>2 DEF ClickAt
    <2>2. CASE d # c
        BY <2>2, <1>1, <1>3 DEF ClickInv, ClickAt, HasTarget
    <2> QED
        BY <2>1, <2>2
<1> QED
    BY <1>6, <1>7, <1>8 DEF WebhooksInv

\* One attempt.
LEMMA AttemptKeeps ==
    ASSUME WebhooksInv, NEW c \in Clicks, NEW l \in WebLists, Attempt(c, l)
    PROVE  WebhooksInv'
<1>1. WebhooksTyped /\ DeliveryInv /\ ClickInv
    BY DEF WebhooksInv
<1>2. /\ delivery[c][l].at = "due" /\ delivery[c][l].failed \in 0..(MaxRetries + 1)
      /\ delivery[c][l].failed <= MaxRetries /\ MaxRetries \in Nat
    <2>1. delivery[c][l].at = "due" /\ MaxRetries \in Nat
        BY ConfirmWebhooksAssumption DEF Attempt
    <2>2. delivery[c][l] \in DeliveryType
        BY <1>1 DEF WebhooksTyped
    <2>3. delivery[c][l].failed \in 0..(MaxRetries + 1)
        BY <2>2 DEF DeliveryType
    <2>4. delivery[c][l].failed <= MaxRetries
        BY <1>1, <2>1 DEF DeliveryInv
    <2> QED
        BY <2>1, <2>3, <2>4
<1>3. PICK d : /\ delivery' = [delivery EXCEPT ![c][l] = d] /\ d \in DeliveryType /\ d.at # "none"
               /\ d.at = "due" => d.failed <= MaxRetries
               /\ d.at = "delivered" => l \in received'[c]
               /\ d.at = "gave up" => d.failed = MaxRetries + 1
    <2>1. CASE /\ delivery' = [delivery EXCEPT ![c][l].at = "delivered"]
               /\ received' = [received EXCEPT ![c] = @ \cup {l}]
        <3>0. delivery[c][l] \in DeliveryType
            BY <1>1 DEF WebhooksTyped
        <3>1. [delivery[c][l] EXCEPT !.at = "delivered"] \in DeliveryType
            BY <3>0 DEF DeliveryType
        <3>2. delivery' = [delivery EXCEPT ![c][l] = [delivery[c][l] EXCEPT !.at = "delivered"]]
            BY <2>1
        <3> QED
            BY <2>1, <3>1, <3>2, <1>1 DEF DeliveryType, WebhooksTyped
    <2>2. CASE delivery' = [delivery EXCEPT ![c][l] =
                [at |-> IF TriedAll(delivery[c][l].failed + 1) THEN "gave up" ELSE "due",
                 failed |-> delivery[c][l].failed + 1]]
        <3> DEFINE failed == delivery[c][l].failed + 1
                   d == [at |-> IF TriedAll(failed) THEN "gave up" ELSE "due", failed |-> failed]
        <3>1. failed \in 0..(MaxRetries + 1)
            BY <1>2
        <3>2. d.failed = failed /\ (TriedAll(failed) => d.at = "gave up") /\ (~TriedAll(failed) => d.at = "due")
            OBVIOUS
        <3>3. TriedAll(failed) => failed = MaxRetries + 1
            BY <1>2, <3>1 DEF TriedAll
        <3>4. ~TriedAll(failed) => failed <= MaxRetries
            BY <1>2, <3>1 DEF TriedAll
        <3>5. d \in DeliveryType
            BY <3>1 DEF DeliveryType
        <3> HIDE DEF d, failed
        <3>6. /\ d.at = "due" => d.failed <= MaxRetries
              /\ d.at # "delivered" /\ d.at # "none"
              /\ d.at = "gave up" => d.failed = MaxRetries + 1
            BY <3>2, <3>3, <3>4
        <3> QED
            BY <2>2, <3>5, <3>6 DEF d, failed
    <2> QED
        BY <2>1, <2>2 DEF Attempt
<1>4. received' \in [Clicks -> SUBSET WebLists] /\ \A e \in Clicks : received[e] \subseteq received'[e]
    <2>1. received' \in {received, [received EXCEPT ![c] = @ \cup {l}]}
        BY DEF Attempt
    <2> QED
        BY <1>1, <2>1 DEF WebhooksTyped
<1>5. delivery' \in [Clicks -> [WebLists -> DeliveryType]]
    BY <1>1, <1>3 DEF WebhooksTyped
<1>6. delivery'[c][l] = d /\ \A e \in Clicks, k \in WebLists : <<e, k>> # <<c, l>> => delivery'[e][k] = delivery[e][k]
    BY <1>1, <1>3 DEF WebhooksTyped
<1>7. WebhooksTyped'
    BY <1>1, <1>4, <1>5 DEF WebhooksTyped, Attempt
<1>8. DeliveryInv'
    <2> SUFFICES ASSUME NEW e \in Clicks, NEW k \in WebLists
                 PROVE  /\ delivery'[e][k].at = "due" => delivery'[e][k].failed <= MaxRetries
                        /\ delivery'[e][k].at = "delivered" => k \in received'[e]
                        /\ delivery'[e][k].at = "gave up" => delivery'[e][k].failed = MaxRetries + 1
        BY DEF DeliveryInv
    <2>1. CASE e = c /\ k = l
        BY <2>1, <1>3, <1>6
    <2>2. CASE ~(e = c /\ k = l)
        <3>1. delivery'[e][k] = delivery[e][k]
            BY <2>2, <1>6
        <3> QED
            BY <3>1, <1>1, <1>4 DEF DeliveryInv
    <2> QED
        BY <2>1, <2>2
<1>9. ClickInv'
    <2>1. UNCHANGED <<click, env, hook, hookEdited, turned>>
        BY DEF Attempt
    <2>2. \A e \in Clicks, k \in WebLists : delivery[e][k].at # "none" => delivery'[e][k].at # "none"
        BY <1>3, <1>6
    <2>3. \A e \in Clicks : click[e].lists \subseteq WebLists
        BY <1>1 DEF WebhooksTyped, ClickType
    <2> QED
        BY <2>1, <2>2, <2>3, <1>1 DEF ClickInv, ClickAt, HasTarget
<1> QED
    BY <1>7, <1>8, <1>9 DEF WebhooksInv

\* What goes on around the clicks: what a click owes becomes less at most.
LEMMA HookEditKeeps ==
    ASSUME WebhooksInv, NEW l \in WebLists, Resubscribe(l) \/ EditHook(l)
    PROVE  WebhooksInv'
<1>1. WebhooksTyped /\ DeliveryInv /\ ClickInv
    BY DEF WebhooksInv
<1>2. WebhooksTyped'
    BY <1>1 DEF WebhooksTyped, Resubscribe, EditHook
<1>3. DeliveryInv'
    BY <1>1 DEF DeliveryInv, Resubscribe, EditHook
<1>4. UNCHANGED <<click, delivery, env, turned>> /\ \A k \in WebLists : HasTarget(k)' => HasTarget(k)
    BY DEF HasTarget, Resubscribe, EditHook
<1>5. ClickInv'
    BY <1>1, <1>4 DEF ClickInv, ClickAt, WebhooksTyped, ClickType
<1> QED
    BY <1>2, <1>3, <1>5 DEF WebhooksInv

\* After a restart no click is over, and those that did not begin still have not.
LEMMA WebRestartKeeps ==
    ASSUME WebhooksInv, NEW e \in EnvSettings, RestartWebhooks(e)
    PROVE  WebhooksInv'
<1>1. \A c \in Clicks : /\ click'[c] \in ClickType /\ click'[c].at \in {"new", "ended"}
                        /\ click'[c].at = "new" => ClickAt(c, "new")
    <2> SUFFICES ASSUME NEW c \in Clicks
                 PROVE  /\ click'[c] \in ClickType /\ click'[c].at \in {"new", "ended"}
                        /\ click'[c].at = "new" => ClickAt(c, "new")
        OBVIOUS
    <2>1. click[c] \in ClickType
        BY DEF WebhooksInv, WebhooksTyped
    <2>2. [click[c] EXCEPT !.at = "ended"] \in ClickType /\ [click[c] EXCEPT !.at = "ended"].at = "ended"
        BY <2>1 DEF ClickType
    <2>3. NoClick \in ClickType /\ NoClick.at = "new"
        BY DEF NoClick, ClickType
    <2>4. click'[c] = IF ClickAt(c, "new") THEN NoClick ELSE [click[c] EXCEPT !.at = "ended"]
        BY Zenon DEF RestartWebhooks
    <2> QED
        BY <2>2, <2>3, <2>4
<1>2. NoDelivery \in DeliveryType /\ \A c \in Clicks, l \in WebLists : delivery'[c][l] = NoDelivery
    BY ConfirmWebhooksAssumption DEF RestartWebhooks, DeliveryType, NoDelivery
<1>3. WebhooksTyped'
    <2>1. click' \in [Clicks -> ClickType]
        <3>1. click' = [c \in Clicks |-> click'[c]]
            BY Zenon DEF RestartWebhooks
        <3> QED
            BY <1>1, <3>1
    <2>2. delivery' \in [Clicks -> [WebLists -> DeliveryType]]
        BY <1>2 DEF RestartWebhooks
    <2> QED
        BY <2>1, <2>2 DEF WebhooksInv, WebhooksTyped, RestartWebhooks
<1>4. DeliveryInv'
    <2>1. NoDelivery.at = "none"
        BY DEF NoDelivery
    <2> QED
        BY <2>1, <1>2 DEF DeliveryInv
<1>5. ClickInv'
    <2>1. turned' = turned /\ \A c \in Clicks : ClickAt(c, "new") => turned[c] = {}
        BY DEF WebhooksInv, ClickInv, RestartWebhooks
    <2>2. \A c \in Clicks : ~ClickAt(c, "confirm")' /\ ~ClickAt(c, "hooks")' /\ ~ClickAt(c, "over")'
        BY <1>1 DEF ClickAt
    <2>3. \A c \in Clicks : ClickAt(c, "new")' => turned'[c] = {}
        BY <1>1, <2>1 DEF ClickAt
    <2> QED
        BY <2>2, <2>3 DEF ClickInv
<1> QED
    BY <1>3, <1>4, <1>5 DEF WebhooksInv

\* What a step of the webhooks does to the clicks, their deliveries and the targets.
LEMMA WebhooksNextInv ==
    ASSUME WebhooksInv, WebhooksNext \/ UNCHANGED webhookVars
    PROVE  WebhooksInv'
<1>1. WebhooksTyped
    BY DEF WebhooksInv
<1>2. ASSUME NEW c \in Clicks, NEW named \in SUBSET WebLists, OptinPage(c, named)
      PROVE  WebhooksInv'
    <2> DEFINE lists == IF named = {} THEN Unconfirmed ELSE Unconfirmed \cap named
               rec == [at |-> "confirm", lists |-> lists, ids |-> IF named = {} THEN lists ELSE named]
    <2>1. lists \subseteq WebLists
        BY DEF Unconfirmed
    <2>2. rec \in ClickType /\ rec.at = "confirm"
        BY <2>1 DEF ClickType
    <2>3. click' = [click EXCEPT ![c] = rec]
        BY <1>2 DEF OptinPage
    <2>4. turned' = turned /\ turned[c] = {}
        BY <1>2 DEF OptinPage, WebhooksInv, ClickInv
    <2> HIDE DEF rec
    <2> QED
        BY <1>1, <1>2, <2>2, <2>3, <2>4, ClickGoes DEF OptinPage, WebhooksTyped
<1>3. ASSUME NEW c \in Clicks, Confirm(c) \/ ClickFails(c)
      PROVE  WebhooksInv'
    <2>1. PICK pc \in {"load", "failed"} : ClickGoto(c, pc)
        BY <1>3 DEF Confirm, ClickFails
    <2>2. [click[c] EXCEPT !.at = pc] \in ClickType /\ [click[c] EXCEPT !.at = pc].at = pc
        BY <1>1 DEF WebhooksTyped, ClickType
    <2>3. click' = [click EXCEPT ![c] = [click[c] EXCEPT !.at = pc]]
        BY <2>1 DEF ClickGoto
    <2>4. /\ subscription' \in [WebLists -> {"unconfirmed", "confirmed", "unsubscribed"}]
          /\ turned' \in [Clicks -> SUBSET WebLists] /\ \A d \in Clicks \ {c} : turned'[d] = turned[d]
        BY <1>1, <1>3 DEF Confirm, ClickFails, WebhooksTyped, Unconfirmed
    <2> QED
        BY <1>3, <2>2, <2>3, <2>4, ClickGoes DEF Confirm, ClickFails
<1>4. ASSUME NEW c \in Clicks, LoadSubscriber(c)
      PROVE  WebhooksInv'
    <2>1. CASE env.configured
        <3>1. \A l \in click[c].lists : HasTarget(l) => l \in click[c].lists \cap env.targets
            BY <2>1 DEF HasTarget
        <3> QED
            BY <1>4, <2>1, <3>1, DispatchKeeps DEF LoadSubscriber
    <2>2. CASE ~env.configured
        <3>1. ClickGoto(c, "hooks") /\ UNCHANGED <<subscription, hook, env, delivery, turned, received, hookEdited>>
            BY <1>4, <2>2 DEF LoadSubscriber
        <3>2. click'[c].at = "hooks" /\ click' \in [Clicks -> ClickType]
              /\ \A d \in Clicks \ {c} : click'[d] = click[d]
            BY <1>1, <3>1 DEF ClickGoto, WebhooksTyped, ClickType
        <3>3. WebhooksTyped'
            BY <1>1, <3>1, <3>2 DEF WebhooksTyped
        <3>4. DeliveryInv'
            BY <3>1 DEF WebhooksInv, DeliveryInv
        <3>5. ClickInv'
            BY <2>2, <3>1, <3>2 DEF WebhooksInv, ClickInv, ClickAt, HasTarget
        <3> QED
            BY <3>3, <3>4, <3>5 DEF WebhooksInv
    <2> QED
        BY <2>1, <2>2
<1>5. ASSUME NEW c \in Clicks, LoadHooks(c)
      PROVE  WebhooksInv'
    <2>1. \A l \in click[c].lists : HasTarget(l) => l \in click[c].lists \cap hook
        BY <1>5 DEF LoadHooks, HasTarget, WebhooksInv, ClickInv
    <2> QED
        BY <1>5, <2>1, DispatchKeeps DEF LoadHooks
<1>6. CASE UNCHANGED webhookVars
    <2>1. UNCHANGED <<subscription, hook, env, click, delivery, turned, received, hookEdited>>
        BY <1>6 DEF webhookVars
    <2> QED
        BY <2>1 DEF WebhooksInv, WebhooksTyped, DeliveryInv, ClickInv, ClickAt, HasTarget
<1> QED
    BY <1>2, <1>3, <1>4, <1>5, <1>6, AttemptKeeps, HookEditKeeps, WebRestartKeeps DEF WebhooksNext

\* The invariant states what is checked of the webhooks.
LEMMA WebhooksMean == WebhooksInv => ConfirmationReported /\ WebhooksTypeOK
<1> SUFFICES ASSUME WebhooksInv PROVE ConfirmationReported /\ WebhooksTypeOK
    OBVIOUS
<1>1. ConfirmationReported
    <2> SUFFICES ASSUME NEW c \in Clicks, ~CutOff(c), NEW l \in turned[c] \cap click[c].lists, HasTarget(l)
                 PROVE  \/ ToDispatch(c) \/ delivery[c][l].at = "due" \/ l \in received[c]
                        \/ delivery[c][l].failed = MaxRetries + 1
        BY DEF ConfirmationReported
    <2>1. l \in WebLists /\ delivery[c][l] \in DeliveryType /\ click[c] \in ClickType
        BY DEF WebhooksInv, WebhooksTyped
    <2>2. CASE click[c].at \in {"new", "confirm"}
        BY <2>2 DEF WebhooksInv, ClickInv, ClickAt
    <2>3. CASE ClickAt(c, "over")
        <3>1. delivery[c][l].at \in {"due", "delivered", "gave up"}
            BY <2>1, <2>3 DEF WebhooksInv, ClickInv, DeliveryType
        <3> QED
            BY <2>1, <3>1 DEF WebhooksInv, DeliveryInv
    <2> QED
        BY <2>1, <2>2, <2>3 DEF ClickType, CutOff, ToDispatch, ClickAt
<1>2. WebhooksTypeOK
    BY DEF WebhooksInv, WebhooksTyped, WebhooksTypeOK, ClickType, DeliveryType
<1> QED
    BY <1>1, <1>2

-----------------------------------------------------------------------------
(* TxMessages: a message to each of many recipients.                       *)

TxModes == {"default", "fallback", "external"}
TxAnswers == {"ok", "not found", "error"}
TxMessage ==
    [to : 1..Recipients, body : 1..Recipients, subject : 1..Recipients, alt : 1..Recipients]
TxSending ==
    [at : {"send"}, mode : TxModes, n : 1..(Recipients + 1), subject : 0..Recipients,
     alt : 0..Recipients, pushed : Seq(TxMessage), notFound : SUBSET (1..Recipients)]
TxAnsweredType ==
    [at : {"answered"}, answer : TxAnswers, mode : TxModes, notFound : SUBSET (1..Recipients),
     pushed : Seq(TxMessage)]

\* What is queued: in the order of the recipients, each with the own body, the first's subject and
\* alternative body.
TxQueued(p, n) ==
    /\ \A i \in 2..Len(p) : p[i - 1].to < p[i].to
    /\ \A i \in 1..Len(p) : /\ p[i].to < n /\ p[i].body = p[i].to
                           /\ p[i].subject = p[1].to /\ p[i].alt = p[1].to

Reached(p) == {p[i].to : i \in 1..Len(p)}

\* Everybody before n was reached or was not found, and nobody both.
TxSoFar(q) ==
    q.at = "send" =>
        /\ TxQueued(q.pushed, q.n)
        /\ IF q.pushed = <<>> THEN q.subject = Unrendered ELSE q.subject = q.pushed[1].to
        /\ q.alt = q.subject
        /\ \A m \in 1..(q.n - 1) : m \in Reached(q.pushed) <=> m \notin q.notFound
        /\ \A m \in q.notFound : m < q.n
        /\ q.mode # "default" => q.notFound = {}

TxTold(q) ==
    q.at = "answered" =>
        /\ TxQueued(q.pushed, Recipients + 1)
        /\ Reached(q.pushed) \cap q.notFound = {} /\ (q.notFound # {} => q.mode = "default")
        /\ q.answer = "ok" => Reached(q.pushed) = 1..Recipients
        /\ q.answer = "not found" => q.notFound # {} /\ Reached(q.pushed) \cup q.notFound = 1..Recipients
        /\ q.answer = "error" => \E n \in 1..Recipients : Reached(q.pushed) \cup q.notFound = 1..(n - 1)

TxInv ==
    /\ txReq \in [TxRequests -> {NoTxReq} \cup TxSending \cup TxAnsweredType]
    /\ \A r \in TxRequests : TxSoFar(txReq[r]) /\ TxTold(txReq[r])

\* No request.
LEMMA TxInitInv == TxInit => TxInv
<1>1. TxSoFar(NoTxReq) /\ TxTold(NoTxReq)
    BY DEF NoTxReq, TxSoFar, TxTold
<1> QED
    BY <1>1 DEF TxInit, TxInv

\* What is queued are messages.
LEMMA MessageFacts ==
    ASSUME NEW p \in Seq(TxMessage)
    PROVE  Len(p) \in Nat /\ \A i \in 1..Len(p) : p[i] \in TxMessage /\ p[i].to \in 1..Recipients
<1>1. Len(p) \in Nat /\ \A i \in 1..Len(p) : p[i] \in TxMessage
    BY LenProperties
<1> QED
    BY <1>1 DEF TxMessage

\* One request goes on.
LEMMA TxGoes ==
    ASSUME TxInv, NEW r \in TxRequests, NEW rec \in {NoTxReq} \cup TxSending \cup TxAnsweredType,
           TxSoFar(rec), TxTold(rec), TxGoto(r, rec)
    PROVE  TxInv'
BY DEF TxInv, TxGoto

\* What a request holds that sends.
LEMMA TxSends ==
    ASSUME TxInv, NEW r \in TxRequests, TxAt(r, "send")
    PROVE  txReq[r] \in TxSending /\ TxSoFar(txReq[r])
<1>1. NoTxReq.at = "idle" /\ \A q \in TxAnsweredType : q.at = "answered"
    BY DEF NoTxReq, TxAnsweredType
<1> QED
    BY <1>1 DEF TxInv, TxAt

\* The queue gets one more message.
LEMMA QueueGrows ==
    ASSUME NEW p \in Seq(TxMessage), NEW m \in TxMessage
    PROVE  /\ Append(p, m) \in Seq(TxMessage) /\ Len(Append(p, m)) = Len(p) + 1 /\ Len(p) \in Nat
           /\ Append(p, m)[Len(p) + 1] = m /\ \A i \in 1..Len(p) : Append(p, m)[i] = p[i] /\ p[i] \in TxMessage
BY AppendProperties, LenProperties

\* A request starts.
LEMMA SendTxKeeps ==
    ASSUME TxInv, NEW r \in TxRequests, NEW form \in TxForms, SendTx(r, form)
    PROVE  TxInv'
<1> DEFINE rec == [at |-> "send", mode |-> form.mode, n |-> 1, subject |-> Unrendered, alt |-> Unrendered,
                   pushed |-> <<>>, notFound |-> {}]
<1>1. form.mode \in TxModes
    BY DEF TxForms, TxModes
<1>2. 1 \in 1..(Recipients + 1) /\ Unrendered \in 0..Recipients /\ Unrendered = 0
    BY TxAssumption DEF Unrendered
<1>3. <<>> \in Seq(TxMessage) /\ Len(<<>>) = 0
    BY EmptySeq
<1>4. rec \in TxSending
    BY <1>1, <1>2, <1>3 DEF TxSending
<1>5. /\ rec.at = "send" /\ rec.n = 1 /\ rec.subject = Unrendered
      /\ rec.alt = Unrendered /\ rec.pushed = <<>> /\ rec.notFound = {}
      /\ TxGoto(r, rec)
    BY DEF SendTx
<1> HIDE DEF rec
<1>6. TxQueued(rec.pushed, rec.n)
    BY <1>3, <1>5 DEF TxQueued
<1>7. TxSoFar(rec)
    <2>1. 1..(rec.n - 1) = {}
        BY <1>5
    <2> QED
        BY <1>5, <1>6, <2>1 DEF TxSoFar
<1>8. TxTold(rec)
    BY <1>5 DEF TxTold
<1> QED
    BY <1>4, <1>5, <1>7, <1>8, TxGoes

\* The next recipient is not found.
LEMMA NotFoundKeeps ==
    ASSUME TxInv, NEW r \in TxRequests, NotFoundNext(r)
    PROVE  TxInv'
<1> DEFINE q == txReq[r]
           rec == [q EXCEPT !.notFound = NotFound(q), !.n = @ + 1]
<1>1. q \in TxSending /\ TxSoFar(q) /\ q.at = "send" /\ q.n <= Recipients /\ q.mode = "default"
    BY TxSends DEF NotFoundNext, TxAt
<1>2. PICK n \in 1..Recipients : n = q.n
    BY <1>1, TxAssumption DEF TxSending
<1>3. TxGoto(r, rec)
    BY DEF NotFoundNext
<1>4. rec \in TxSending
    <2>1. n + 1 \in 1..(Recipients + 1) /\ q.notFound \cup {n} \subseteq 1..Recipients
        BY <1>1, <1>2, TxAssumption DEF TxSending
    <2> QED
        BY <1>1, <1>2, <2>1 DEF TxSending, NotFound
<1>5. /\ rec.at = "send" /\ rec.n = n + 1 /\ rec.notFound = q.notFound \cup {n} /\ rec.pushed = q.pushed
      /\ rec.subject = q.subject /\ rec.alt = q.alt /\ rec.mode = "default"
    BY <1>1, <1>2 DEF TxSending, NotFound
<1> HIDE DEF rec, q
<1>6. \A i \in 1..Len(q.pushed) : q.pushed[i] \in TxMessage /\ q.pushed[i].to \in 1..Recipients
    <2>1. q.pushed \in Seq(TxMessage)
        BY <1>1 DEF TxSending
    <2> QED
        BY <2>1, MessageFacts
<1>7. TxQueued(q.pushed, n)
    BY <1>1, <1>2 DEF TxSoFar
<1>8. TxQueued(rec.pushed, rec.n)
    BY <1>2, <1>5, <1>6, <1>7, TxAssumption DEF TxQueued
<1>9. \A m \in Reached(q.pushed) : m < n
    BY <1>7 DEF TxQueued, Reached
<1>10. \A m \in 1..(rec.n - 1) : m \in Reached(rec.pushed) <=> m \notin rec.notFound
    <2>1. ASSUME NEW m \in 1..n PROVE m \in Reached(q.pushed) <=> m \notin q.notFound \cup {n}
        <3>1. CASE m = n
            BY <3>1, <1>2, <1>9
        <3>2. CASE m # n
            <4>1. m \in 1..(q.n - 1)
                BY <3>2, <1>2
            <4> QED
                BY <3>2, <4>1, <1>1 DEF TxSoFar
        <3> QED
            BY <3>1, <3>2
    <2>2. rec.n - 1 = n
        BY <1>2, <1>5
    <2> QED
        BY <2>1, <2>2, <1>5
<1>11. \A m \in rec.notFound : m < rec.n
    <2>1. q.notFound \subseteq 1..Recipients
        BY <1>1 DEF TxSending
    <2> QED
        BY <2>1, <1>1, <1>2, <1>5 DEF TxSoFar
<1>12. TxSoFar(rec)
    BY <1>1, <1>5, <1>8, <1>10, <1>11 DEF TxSoFar
<1>13. TxTold(rec)
    BY <1>5 DEF TxTold
<1> QED
    BY <1>3, <1>4, <1>12, <1>13, TxGoes

\* The next recipient's message is rendered and queued.
LEMMA PushKeeps ==
    ASSUME TxInv, NEW r \in TxRequests, PushMessage(r)
    PROVE  TxInv'
<1> DEFINE q == txReq[r]
           subject == RenderedOnce(q.subject, q.n)
           alt == RenderedOnce(q.alt, q.n)
           msg == [to |-> q.n, body |-> q.n, subject |-> subject, alt |-> alt]
           rec == [q EXCEPT !.subject = subject, !.alt = alt, !.n = @ + 1, !.pushed = Append(@, msg)]
<1>1. q \in TxSending /\ TxSoFar(q) /\ q.at = "send" /\ q.n <= Recipients
    BY TxSends DEF PushMessage, TxAt
<1>2. PICK n \in 1..Recipients : n = q.n
    BY <1>1, TxAssumption DEF TxSending
<1>3. PICK p \in Seq(TxMessage) : p = q.pushed
    BY <1>1 DEF TxSending
<1>4. TxGoto(r, rec)
    BY DEF PushMessage
<1>5. \A i \in 1..Len(p) : p[i] \in TxMessage /\ p[i].to \in 1..Recipients
    BY <1>3, MessageFacts
<1>6. Len(p) \in Nat /\ (p = <<>> <=> Len(p) = 0)
    BY <1>3, LenProperties, EmptySeq
<1>7. PICK s \in 1..Recipients : /\ s = subject /\ s = alt
                                 /\ p = <<>> => s = n
                                 /\ p # <<>> => s = p[1].to
    <2>1. CASE p = <<>>
        BY <2>1, <1>1, <1>2, <1>3 DEF RenderedOnce, TxSoFar
    <2>2. CASE p # <<>>
        <3>1. 1 \in 1..Len(p)
            BY <2>2, <1>6
        <3>2. q.subject = p[1].to /\ q.alt = p[1].to /\ p[1].to \in 1..Recipients
            BY <2>2, <3>1, <1>1, <1>3, <1>5 DEF TxSoFar
        <3> QED
            BY <2>2, <3>2 DEF RenderedOnce, Unrendered
    <2> QED
        BY <2>1, <2>2
<1>8. msg \in TxMessage /\ msg.to = n /\ msg.body = n /\ msg.subject = s /\ msg.alt = s
    BY <1>2, <1>7 DEF TxMessage
<1>9. /\ rec.at = "send" /\ rec.n = n + 1 /\ rec.notFound = q.notFound /\ rec.pushed = Append(p, msg)
      /\ rec.subject = s /\ rec.alt = s /\ rec.mode = q.mode
    BY <1>1, <1>2, <1>3, <1>7 DEF TxSending
<1>10. /\ Append(p, msg) \in Seq(TxMessage) /\ Len(Append(p, msg)) = Len(p) + 1
       /\ Append(p, msg)[Len(p) + 1] = msg
       /\ \A i \in 1..Len(p) : Append(p, msg)[i] = p[i]
    BY <1>3, <1>8, QueueGrows
<1>11. rec \in TxSending
    <2>1. n + 1 \in 1..(Recipients + 1) /\ s \in 0..Recipients
        BY <1>2, <1>7, TxAssumption
    <2> QED
        BY <1>1, <1>2, <1>3, <1>7, <1>10, <2>1 DEF TxSending
<1>12. PICK o \in Seq(TxMessage) : o = Append(p, msg)
    BY <1>10
<1>13. PICK l \in Nat : l = Len(p)
    BY <1>6
<1> HIDE DEF rec, msg, q
<1>14. TxQueued(p, n)
    BY <1>1, <1>2, <1>3 DEF TxSoFar
<1>15. o[1].to = s
    <2>1. CASE p = <<>>
        BY <2>1, <1>6, <1>7, <1>8, <1>10, <1>12
    <2>2. CASE p # <<>>
        <3>1. 1 \in 1..Len(p)
            BY <2>2, <1>6
        <3> QED
            BY <2>2, <3>1, <1>7, <1>10, <1>12
    <2> QED
        BY <2>1, <2>2
<1>16. \A i \in 1..(l + 1) : o[i].to < n + 1 /\ o[i].body = o[i].to /\ o[i].subject = o[1].to /\ o[i].alt = o[1].to
    <2> SUFFICES ASSUME NEW i \in 1..(l + 1)
                 PROVE  o[i].to < n + 1 /\ o[i].body = o[i].to /\ o[i].subject = o[1].to /\ o[i].alt = o[1].to
        OBVIOUS
    <2>1. CASE i \in 1..l
        <3>1. /\ o[i] = p[i] /\ p[i].to < n /\ p[i].body = p[i].to /\ p[i].subject = p[1].to
              /\ p[i].alt = p[1].to /\ p[i].to \in 1..Recipients
            BY <2>1, <1>5, <1>10, <1>12, <1>13, <1>14 DEF TxQueued
        <3>2. p # <<>>
            BY <2>1, <1>6, <1>13
        <3> QED
            BY <3>1, <3>2, <1>2, <1>7, <1>15, TxAssumption
    <2>2. CASE i = l + 1
        BY <2>2, <1>2, <1>8, <1>10, <1>12, <1>13, <1>15
    <2> QED
        BY <2>1, <2>2
<1>17. \A i \in 2..(l + 1) : o[i - 1].to < o[i].to
    <2> SUFFICES ASSUME NEW i \in 2..(l + 1)
                 PROVE  o[i - 1].to < o[i].to
        OBVIOUS
    <2>1. i - 1 \in 1..l /\ o[i - 1] = p[i - 1] /\ p[i - 1].to < n
        BY <1>10, <1>12, <1>13, <1>14 DEF TxQueued
    <2>2. CASE i \in 2..l
        <3>1. o[i] = p[i]
            BY <2>2, <1>10, <1>12, <1>13
        <3> QED
            BY <2>2, <2>1, <3>1, <1>13, <1>14 DEF TxQueued
    <2>3. CASE i = l + 1
        BY <2>1, <2>3, <1>8, <1>10, <1>12, <1>13
    <2> QED
        BY <2>2, <2>3
<1>18. Len(o) = l + 1
    BY <1>10, <1>12, <1>13
<1>19. TxQueued(rec.pushed, rec.n)
    BY <1>9, <1>12, <1>16, <1>17, <1>18 DEF TxQueued
<1>20. Reached(o) = Reached(p) \cup {n}
    <2>1. \A i \in 1..l : o[i].to = p[i].to
        BY <1>10, <1>12, <1>13
    <2>2. o[l + 1].to = n
        BY <1>8, <1>10, <1>12, <1>13
    <2>3. \A i \in 1..(l + 1) : i \in 1..l \/ i = l + 1
        BY <1>13
    <2>4. 1..l \subseteq 1..(l + 1) /\ l + 1 \in 1..(l + 1)
        BY <1>13
    <2> QED
        BY <2>1, <2>2, <2>3, <2>4, <1>13, <1>18 DEF Reached
<1>21. \A m \in 1..(rec.n - 1) : m \in Reached(rec.pushed) <=> m \notin rec.notFound
    <2>1. ASSUME NEW m \in 1..n PROVE m \in Reached(o) <=> m \notin q.notFound
        <3>1. CASE m = n
            BY <3>1, <1>1, <1>2, <1>20 DEF TxSoFar
        <3>2. CASE m # n
            <4>1. m \in 1..(q.n - 1)
                BY <3>2, <1>2
            <4> QED
                BY <3>2, <4>1, <1>1, <1>3, <1>20 DEF TxSoFar
        <3> QED
            BY <3>1, <3>2
    <2>2. rec.n - 1 = n
        BY <1>2, <1>9
    <2> QED
        BY <2>1, <2>2, <1>9, <1>12
<1>22. \A m \in rec.notFound : m < rec.n
    <2>1. q.notFound \subseteq 1..Recipients
        BY <1>1 DEF TxSending
    <2> QED
        BY <2>1, <1>1, <1>2, <1>9, TxAssumption DEF TxSoFar
<1>23. rec.pushed # <<>> /\ rec.subject = rec.pushed[1].to /\ rec.alt = rec.subject
    <2>1. o # <<>>
        BY <1>13, <1>18, EmptySeq
    <2> QED
        BY <2>1, <1>9, <1>12, <1>15
<1>24. rec.mode # "default" => rec.notFound = {}
    BY <1>1, <1>9 DEF TxSoFar
<1>25. TxSoFar(rec)
    BY <1>19, <1>21, <1>22, <1>23, <1>24 DEF TxSoFar
<1>26. TxTold(rec)
    BY <1>9 DEF TxTold
<1> QED
    BY <1>4, <1>11, <1>25, <1>26, TxGoes

\* Everybody before the next recipient was reached or not found, and nobody both.
LEMMA ReachedBefore ==
    ASSUME NEW q \in TxSending, TxSoFar(q)
    PROVE  Reached(q.pushed) \cap q.notFound = {} /\ Reached(q.pushed) \cup q.notFound = 1..(q.n - 1)
<1>1. \A i \in 1..Len(q.pushed) : q.pushed[i].to \in 1..Recipients
    <2>1. q.pushed \in Seq(TxMessage)
        BY DEF TxSending
    <2> QED
        BY <2>1, MessageFacts
<1>2. \A m \in Reached(q.pushed) : m \in 1..Recipients /\ m < q.n
    BY <1>1 DEF TxSending, TxSoFar, TxQueued, Reached
<1>3. \A m \in q.notFound : m \in 1..Recipients /\ m < q.n
    BY DEF TxSending, TxSoFar
<1>4. Reached(q.pushed) \subseteq 1..(q.n - 1) /\ q.notFound \subseteq 1..(q.n - 1)
    BY <1>2, <1>3, TxAssumption DEF TxSending
<1>5. \A m \in 1..(q.n - 1) : m \in Reached(q.pushed) <=> m \notin q.notFound
    BY DEF TxSending, TxSoFar
<1> QED
    BY <1>4, <1>5

\* What is queued before the next recipient is queued before the end.
LEMMA QueuedBefore ==
    ASSUME NEW q \in TxSending, TxSoFar(q)
    PROVE  TxQueued(q.pushed, Recipients + 1)
<1>1. \A i \in 1..Len(q.pushed) : q.pushed[i].to \in 1..Recipients
    <2>1. q.pushed \in Seq(TxMessage)
        BY DEF TxSending
    <2> QED
        BY <2>1, MessageFacts
<1>2. TxQueued(q.pushed, q.n)
    BY DEF TxSending, TxSoFar
<1> QED
    BY <1>1, <1>2, TxAssumption DEF TxQueued

\* The answer.
LEMMA AnswerKeeps ==
    ASSUME TxInv, NEW r \in TxRequests, TxFails(r) \/ TxEnds(r)
    PROVE  TxInv'
<1> DEFINE q == txReq[r]
<1>1. q \in TxSending /\ TxSoFar(q) /\ q.at = "send"
    BY TxSends DEF TxFails, TxEnds, TxAt
<1>2. PICK answer \in TxAnswers :
        /\ TxAnswer(r, answer)
        /\ answer = "error" => q.n <= Recipients
        /\ answer # "error" => q.n > Recipients /\ (answer = "ok" <=> q.notFound = {})
    BY Zenon DEF TxFails, TxEnds, TxAnswers
<1> DEFINE rec == [at |-> "answered", answer |-> answer, mode |-> q.mode, notFound |-> q.notFound,
                   pushed |-> q.pushed]
<1>3. rec \in TxAnsweredType /\ TxGoto(r, rec)
    BY <1>1, <1>2 DEF TxSending, TxAnsweredType, TxAnswer
<1>4. /\ rec.at = "answered" /\ rec.answer = answer /\ rec.mode = q.mode /\ rec.notFound = q.notFound
      /\ rec.pushed = q.pushed
    OBVIOUS
<1> HIDE DEF rec, q
<1>5. TxSoFar(rec)
    BY <1>4 DEF TxSoFar
<1>6. Reached(q.pushed) \cap q.notFound = {} /\ Reached(q.pushed) \cup q.notFound = 1..(q.n - 1)
    BY <1>1, ReachedBefore
<1>7. PICK n \in 1..(Recipients + 1) : n = q.n
    BY <1>1 DEF TxSending
<1>8. answer # "error" => 1..(n - 1) = 1..Recipients
    <2>1. answer # "error" => n = Recipients + 1
        BY <1>2, <1>7, TxAssumption
    <2>2. n = Recipients + 1 => n - 1 = Recipients
        BY TxAssumption
    <2> QED
        BY <2>1, <2>2
<1>9. answer = "error" => n \in 1..Recipients
    BY <1>2, <1>7, TxAssumption
<1>10. TxTold(rec)
    <2>1. TxQueued(rec.pushed, Recipients + 1)
        BY <1>1, <1>4, QueuedBefore
    <2>2. Reached(rec.pushed) \cap rec.notFound = {} /\ (rec.notFound # {} => rec.mode = "default")
        BY <1>1, <1>4, <1>6 DEF TxSoFar
    <2>3. rec.answer = "ok" => Reached(rec.pushed) = 1..Recipients
        BY <1>2, <1>4, <1>6, <1>7, <1>8
    <2>4. rec.answer = "not found" => rec.notFound # {} /\ Reached(rec.pushed) \cup rec.notFound = 1..Recipients
        BY <1>2, <1>4, <1>6, <1>7, <1>8
    <2>5. rec.answer = "error" => \E m \in 1..Recipients : Reached(rec.pushed) \cup rec.notFound = 1..(m - 1)
        BY <1>4, <1>6, <1>7, <1>9
    <2> QED
        BY <2>1, <2>2, <2>3, <2>4, <2>5 DEF TxTold
<1> QED
    BY <1>3, <1>5, <1>10, TxGoes

\* What a step of the transactional messages does to a request.
LEMMA TxNextInv ==
    ASSUME TxInv, TxNext \/ UNCHANGED txVars
    PROVE  TxInv'
<1>1. ASSUME NEW r \in TxRequests, TxOver(r) PROVE TxInv'
    <2>1. TxSoFar(NoTxReq) /\ TxTold(NoTxReq)
        BY DEF NoTxReq, TxSoFar, TxTold
    <2> QED
        BY <1>1, <2>1, TxGoes DEF TxOver
<1>2. CASE UNCHANGED txVars
    BY <1>2 DEF txVars, TxInv
<1> QED
    BY <1>1, <1>2, SendTxKeeps, NotFoundKeeps, PushKeeps, AnswerKeeps DEF TxNext

\* The invariant states what is checked of transactional messages.
LEMMA TxMeans == TxInv => TxAnswered /\ TxTypeOK
<1> SUFFICES ASSUME TxInv PROVE TxAnswered /\ TxTypeOK
    OBVIOUS
<1>1. TxTypeOK
    BY TxSends DEF TxTypeOK, TxSending
<1>2. ASSUME NEW r \in TxRequests, TxAt(r, "answered")
      PROVE  LET q == txReq[r]
                 to == [i \in 1..Len(q.pushed) |-> q.pushed[i].to]
                 reached == {to[i] : i \in 1..Len(to)} IN
             /\ \A i \in 2..Len(to) : to[i - 1] < to[i]
             /\ reached \cap q.notFound = {} /\ (q.notFound # {} => q.mode = "default")
             /\ q.answer = "ok" => reached = 1..Recipients
             /\ q.answer = "not found" => q.notFound # {} /\ reached \cup q.notFound = 1..Recipients
             /\ q.answer = "error" => \E n \in 1..Recipients : reached \cup q.notFound = 1..(n - 1)
             /\ \A i \in 1..Len(to) : LET m == q.pushed[i] IN
                   m.body = m.to /\ m.subject = to[1] /\ m.alt = to[1]
    <2> DEFINE q == txReq[r]
               to == [i \in 1..Len(q.pushed) |-> q.pushed[i].to]
               reached == {to[i] : i \in 1..Len(to)}
    <2>1. q \in TxAnsweredType /\ TxTold(q) /\ q.at = "answered"
        BY <1>2 DEF TxInv, TxAt, NoTxReq, TxSending
    <2>0. q.pushed \in Seq(TxMessage)
        BY <2>1 DEF TxAnsweredType
    <2>2. PICK l \in Nat : l = Len(q.pushed)
        BY <2>0, MessageFacts
    <2>3. \A i \in 1..l : q.pushed[i].to \in 1..Recipients
        BY <2>0, <2>2, MessageFacts
    <2>4. to \in Seq(1..Recipients) /\ Len(to) = l /\ \A i \in 1..l : to[i] = q.pushed[i].to
        BY <2>2, <2>3
    <2> HIDE DEF to, q
    <2>5. reached = Reached(q.pushed)
        BY <2>2, <2>4 DEF Reached
    <2>6. \A i \in 2..l : i \in 1..l /\ i - 1 \in 1..l
        BY <2>2
    <2>7. \A i \in 2..Len(to) : to[i - 1] < to[i]
        BY <2>1, <2>2, <2>4, <2>6 DEF TxTold, TxQueued
    <2>8. \A i \in 1..Len(to) : 1 \in 1..l /\ to[1] = q.pushed[1].to
        BY <2>2, <2>4
    <2>9. \A i \in 1..Len(to) : LET m == q.pushed[i] IN
             m.body = m.to /\ m.subject = to[1] /\ m.alt = to[1]
        BY <2>1, <2>2, <2>4, <2>8 DEF TxTold, TxQueued
    <2>10. /\ reached \cap q.notFound = {} /\ (q.notFound # {} => q.mode = "default")
           /\ q.answer = "ok" => reached = 1..Recipients
           /\ q.answer = "not found" => q.notFound # {} /\ reached \cup q.notFound = 1..Recipients
           /\ q.answer = "error" => \E n \in 1..Recipients : reached \cup q.notFound = 1..(n - 1)
        BY <2>1, <2>5 DEF TxTold
    <2> QED
        BY <2>7, <2>9, <2>10 DEF to, q
<1> QED
    BY <1>1, <1>2 DEF TxAnswered

-----------------------------------------------------------------------------
(* PushTokens: a push notification to each of many tokens.                 *)

PushSending ==
    [at : {"send", "deactivate", "answered", "failed"}, all : Nat, left : SUBSET PushTokens, invalid : SUBSET PushTokens,
     accepted : Nat]

PushTyped ==
    /\ pushToken \in [DOMAIN pushToken -> BOOLEAN]
    /\ DOMAIN pushToken \subseteq PushTokens /\ IsFiniteSet(DOMAIN pushToken)
    /\ pushReq \in [PushRequests -> {NoPushReq} \cup PushSending]
    /\ excused \in [PushRequests -> SUBSET PushTokens]

\* What the service rejected is inactive, or the request that was told will deactivate it, or
\* is excused; nothing else is inactive; and every token is counted once.
PushRight(q, excuse) ==
    q.at # "idle" =>
        /\ IsFiniteSet(q.left) /\ IsFiniteSet(q.invalid) /\ q.invalid \subseteq rejected
        /\ q.at \in {"send", "failed"} => /\ q.left \cap q.invalid = {}
                                         /\ q.accepted + Cardinality(q.invalid) + Cardinality(q.left) = q.all
        /\ q.at = "failed" => q.left # {}
        /\ q.at \in {"deactivate", "answered"} =>
                            /\ q.left \subseteq q.invalid
                            /\ q.accepted + Cardinality(q.invalid) = q.all
                            /\ (q.invalid \ q.left) \cap Active \subseteq excuse
        /\ q.at = "answered" => q.left = {}

PushInv ==
    /\ PushTyped
    /\ DOMAIN pushToken \ Active \subseteq rejected
    /\ \A r \in PushRequests : PushRight(pushReq[r], excused[r])

\* No token, no request.
LEMMA PushInitInv == PushInit => PushInv
<1> SUFFICES ASSUME PushInit PROVE PushInv
    OBVIOUS
<1>1. DOMAIN pushToken = {} /\ pushToken \in [{} -> BOOLEAN]
    BY DEF PushInit
<1>2. IsFiniteSet({})
    BY FS_EmptySet
<1>3. PushTyped
    BY <1>1, <1>2 DEF PushInit, PushTyped
<1>4. NoPushReq.at = "idle"
    BY DEF NoPushReq
<1> QED
    BY <1>1, <1>3, <1>4 DEF PushInit, PushInv, PushRight

\* What a request holds that is at work.
LEMMA PushWorks ==
    ASSUME PushInv, NEW r \in PushRequests, ~PushAt(r, "idle")
    PROVE  pushReq[r] \in PushSending /\ PushRight(pushReq[r], excused[r])
BY DEF PushInv, PushTyped, PushAt, NoPushReq

\* One request goes on, the tokens stay as they are.
LEMMA PushGoes ==
    ASSUME PushInv, NEW r \in PushRequests, NEW rec \in {NoPushReq} \cup PushSending, PushGoto(r, rec),
           UNCHANGED pushToken, rejected \subseteq rejected',
           NEW e \in SUBSET PushTokens, excused' = [excused EXCEPT ![r] = e],
           PushRight(rec, e)'
    PROVE  PushInv'
<1>1. PushTyped'
    BY DEF PushInv, PushTyped, PushGoto
<1>2. Active' = Active
    BY DEF Active
<1>3. (DOMAIN pushToken \ Active \subseteq rejected)'
    BY <1>2 DEF PushInv
<1>4. ASSUME NEW o \in PushRequests PROVE PushRight(pushReq[o], excused[o])'
    <2>1. CASE o = r
        <3>1. pushReq'[o] = rec /\ excused'[o] = e
            BY <2>1 DEF PushInv, PushTyped, PushGoto
        <3> QED
            BY <3>1 DEF PushRight
    <2>2. CASE o # r
        <3>1. pushReq'[o] = pushReq[o] /\ excused'[o] = excused[o]
            BY <2>2 DEF PushInv, PushTyped, PushGoto
        <3> QED
            BY <3>1, <1>2 DEF PushInv, PushRight
    <2> QED
        BY <2>1, <2>2
<1> QED
    BY <1>1, <1>3, <1>4 DEF PushInv

\* The tokens of one step: what becomes active is excused.
LEMMA TokensGo ==
    ASSUME PushInv, PushTyped', UNCHANGED <<pushReq, rejected>>,
           \A r \in PushRequests : pushReq[r].at # "idle" =>
               /\ excused[r] \subseteq excused'[r]
               /\ Active' \ Active \subseteq excused'[r],
           DOMAIN pushToken' \ Active' \subseteq rejected
    PROVE  PushInv'
BY DEF PushInv, PushRight

\* A token is registered, again or for the first time.
LEMMA SaveKeeps ==
    ASSUME PushInv, NEW t \in PushTokens, SavePushToken(t)
    PROVE  PushInv'
<1>1. DOMAIN pushToken' = DOMAIN pushToken \cup {t}
    BY DEF SavePushToken
<1>2. \A u \in DOMAIN pushToken' : pushToken'[u] = (u = t \/ pushToken[u])
    BY DEF SavePushToken
<1>3. Active' = Active \cup {t}
    BY <1>1, <1>2, Zenon DEF Active
<1>4. pushToken' \in [DOMAIN pushToken' -> BOOLEAN]
    BY <1>1 DEF SavePushToken
<1>5. IsFiniteSet(DOMAIN pushToken \cup {t})
    BY FS_AddElement DEF PushInv, PushTyped
<1>6. excused' \in [PushRequests -> SUBSET PushTokens]
    BY DEF SavePushToken, PushInv, PushTyped
<1>7. PushTyped'
    BY <1>1, <1>4, <1>5, <1>6 DEF PushInv, PushTyped, SavePushToken
<1>8. \A r \in PushRequests : pushReq[r].at # "idle" => excused'[r] = excused[r] \cup {t}
    BY DEF SavePushToken, PushAt
<1> QED
    BY <1>1, <1>3, <1>7, <1>8, TokensGo DEF SavePushToken, PushInv

\* A token's row is deleted.
LEMMA DeleteKeeps ==
    ASSUME PushInv, NEW t \in PushTokens, DeletePushToken(t)
    PROVE  PushInv'
<1>1. pushToken' = [u \in DOMAIN pushToken \ {t} |-> pushToken[u]]
    BY DEF DeletePushToken, Restrict
<1>2. DOMAIN pushToken' = DOMAIN pushToken \ {t}
    BY <1>1
<1>3. Active' = Active \ {t}
    BY <1>1, <1>2 DEF Active
<1>4. pushToken' \in [DOMAIN pushToken' -> BOOLEAN]
    BY <1>1 DEF PushInv, PushTyped
<1>5. IsFiniteSet(DOMAIN pushToken \ {t})
    BY FS_RemoveElement DEF PushInv, PushTyped
<1>6. PushTyped'
    BY <1>2, <1>4, <1>5 DEF PushInv, PushTyped, DeletePushToken
<1> QED
    BY <1>2, <1>3, <1>6, TokensGo DEF DeletePushToken, PushInv

\* A request starts, with finitely many tokens.
LEMMA SendKeeps ==
    ASSUME PushInv, NEW r \in PushRequests, NEW ts \in SUBSET PushTokens, IsFiniteSet(ts), SendTestPush(r, ts)
    PROVE  PushInv'
<1> DEFINE rec == [at |-> "send", all |-> Cardinality(ts), left |-> ts, invalid |-> {}, accepted |-> 0]
<1>1. Cardinality(ts) \in Nat /\ IsFiniteSet({}) /\ Cardinality({}) = 0
    BY FS_CardinalityType, FS_EmptySet
<1>2. rec \in PushSending
    BY <1>1 DEF PushSending
<1>3. PushRight(rec, excused[r])'
    BY <1>1 DEF PushRight
<1>4. excused' = [excused EXCEPT ![r] = excused[r]] /\ excused[r] \in SUBSET PushTokens
    BY DEF SendTestPush, PushInv, PushTyped
<1>5. excused'[r] = excused[r]
    BY DEF SendTestPush
<1>6. PushRight(rec, excused[r]) /\ UNCHANGED <<rejected, pushToken>>
    BY <1>1 DEF PushRight, SendTestPush
<1>7. PushGoto(r, rec)
    BY DEF SendTestPush
<1> HIDE DEF rec
<1> QED
    BY <1>2, <1>3, <1>4, <1>5, <1>6, <1>7, PushGoes DEF PushRight, Active

\* One more is sent to: accepted, or rejected.
LEMMA AnswerCounts ==
    ASSUME PushInv, NEW r \in PushRequests, NEW t \in PushTokens, SendAccepted(r, t) \/ SendRejected(r, t)
    PROVE  PushInv'
<1> DEFINE q == pushReq[r]
<1>1. q \in PushSending /\ PushRight(q, excused[r]) /\ q.at = "send" /\ t \in q.left
    BY PushWorks DEF SendAccepted, SendRejected, PushAt
<1>2. PICK left \in SUBSET PushTokens, invalid \in SUBSET PushTokens, accepted \in Nat :
        left = q.left /\ invalid = q.invalid /\ accepted = q.accepted
    BY <1>1 DEF PushSending
<1>3. /\ IsFiniteSet(left) /\ IsFiniteSet(invalid) /\ invalid \subseteq rejected /\ left \cap invalid = {}
      /\ accepted + Cardinality(invalid) + Cardinality(left) = q.all
    BY <1>1, <1>2 DEF PushRight
<1>4. IsFiniteSet(left \ {t}) /\ Cardinality(left \ {t}) = Cardinality(left) - 1
    <2>1. t \in left /\ IsFiniteSet(left)
        BY <1>1, <1>2, <1>3
    <2> QED
        BY <2>1, FS_RemoveElement
<1>5. t \notin invalid
    BY <1>1, <1>2, <1>3
<1>6. IsFiniteSet(invalid \cup {t}) /\ Cardinality(invalid \cup {t}) = Cardinality(invalid) + 1
    BY <1>3, <1>5, FS_AddElement
<1>7. Cardinality(left) \in Nat /\ Cardinality(invalid) \in Nat
    BY <1>3, FS_CardinalityType
<1>8. UNCHANGED pushToken
    BY DEF SendAccepted, SendRejected
<1>9. CASE SendAccepted(r, t)
    <2>0. [q EXCEPT !.left = @ \ {t}, !.accepted = @ + 1] \in PushSending
        <3>1. accepted + 1 \in Nat /\ left \ {t} \in SUBSET PushTokens
            BY <1>2
        <3>2. [q EXCEPT !.left = left \ {t}, !.accepted = accepted + 1] \in PushSending
            BY <1>1, <3>1 DEF PushSending
        <3> QED
            BY <1>2, <3>2
    <2>1. PICK rec \in PushSending : rec = [q EXCEPT !.left = @ \ {t}, !.accepted = @ + 1]
        BY <2>0
    <2>2. /\ rec.at = "send" /\ rec.left = left \ {t} /\ rec.accepted = accepted + 1 /\ rec.invalid = invalid
          /\ rec.all = q.all
        BY <1>1, <1>2, <2>1 DEF PushSending
    <2>3. PushGoto(r, rec) /\ UNCHANGED <<pushToken, rejected>>
        BY <1>9, <2>1 DEF SendAccepted
    <2>4. PICK e \in SUBSET PushTokens : excused' = [excused EXCEPT ![r] = e] /\ e = excused[r]
        BY <1>9 DEF SendAccepted, PushInv, PushTyped
    <2>5. rec.accepted + Cardinality(rec.invalid) + Cardinality(rec.left) = rec.all
        BY <1>3, <1>4, <1>7, <2>2
    <2>6. PushRight(rec, e)'
        BY <1>3, <1>4, <2>2, <2>3, <2>5 DEF PushRight
    <2> QED
        BY <2>1, <2>3, <2>4, <2>6, PushGoes
<1>10. CASE SendRejected(r, t)
    <2>0. [q EXCEPT !.left = @ \ {t}, !.invalid = @ \cup {t}] \in PushSending
        BY <1>1 DEF PushSending
    <2>1. PICK rec \in PushSending : rec = [q EXCEPT !.left = @ \ {t}, !.invalid = @ \cup {t}]
        BY <2>0
    <2>2. /\ rec.at = "send" /\ rec.left = left \ {t} /\ rec.accepted = accepted /\ rec.invalid = invalid \cup {t}
          /\ rec.all = q.all
        BY <1>1, <1>2, <2>1 DEF PushSending
    <2>3. PushGoto(r, rec) /\ rejected' = rejected \cup {t}
        BY <1>10, <2>1 DEF SendRejected, Rejected
    <2>4. PICK e \in SUBSET PushTokens : excused' = [excused EXCEPT ![r] = e]
        BY <1>10 DEF SendRejected, PushInv, PushTyped
    <2>5. rec.accepted + Cardinality(rec.invalid) + Cardinality(rec.left) = rec.all
        BY <1>3, <1>4, <1>6, <1>7, <2>2
    <2>6. rec.left \cap rec.invalid = {}
        BY <1>3, <2>2
    <2>7. PushRight(rec, e)'
        BY <1>3, <1>4, <1>6, <2>2, <2>3, <2>5, <2>6 DEF PushRight
    <2> QED
        BY <1>8, <2>1, <2>3, <2>4, <2>7, PushGoes
<1> QED
    BY <1>9, <1>10

\* The last was sent to: the rejected are next.
LEMMA EndsKeeps ==
    ASSUME PushInv, NEW r \in PushRequests, SendEnds(r) \/ PushAnswer(r)
    PROVE  PushInv'
<1> DEFINE q == pushReq[r]
<1>1. q \in PushSending /\ PushRight(q, excused[r]) /\ q.left = {} /\ q.at \in {"send", "deactivate"}
    BY PushWorks DEF SendEnds, PushAnswer, PushAt
<1>2. PICK e \in SUBSET PushTokens :
        UNCHANGED <<pushToken, rejected>> /\ e = excused[r] /\ excused' = [excused EXCEPT ![r] = e]
    BY DEF SendEnds, PushAnswer, PushInv, PushTyped
<1>3. Cardinality({}) = 0 /\ Cardinality(q.invalid) \in Nat /\ q.accepted \in Nat
    BY <1>1, FS_EmptySet, FS_CardinalityType DEF PushRight, PushSending
<1>4. CASE SendEnds(r)
    <2>0. [q EXCEPT !.at = "deactivate", !.left = q.invalid] \in PushSending
        BY <1>1 DEF PushSending
    <2>1. PICK rec \in PushSending : rec = [q EXCEPT !.at = "deactivate", !.left = q.invalid]
        BY <2>0
    <2>2. /\ rec.at = "deactivate" /\ rec.left = q.invalid /\ rec.accepted = q.accepted /\ rec.invalid = q.invalid
          /\ rec.all = q.all
        BY <1>1, <2>1 DEF PushSending
    <2>3. PushGoto(r, rec) /\ q.at = "send"
        BY <1>4, <2>1 DEF SendEnds, PushAt
    <2> HIDE DEF q
    <2>4. PICK invalid \in SUBSET PushTokens, n \in Nat :
            invalid = q.invalid /\ n = q.accepted /\ IsFiniteSet(invalid)
            /\ n + Cardinality(invalid) = q.all /\ invalid \subseteq rejected
        BY <1>1, <1>3, <2>3 DEF PushRight, PushSending
    <2>5. PushRight(rec, e)'
        BY <1>2, <2>2, <2>4 DEF PushRight
    <2> QED
        BY <1>2, <2>1, <2>3, <2>5, PushGoes
<1>5. CASE PushAnswer(r)
    <2>0. [q EXCEPT !.at = "answered"] \in PushSending
        BY <1>1 DEF PushSending
    <2>1. PICK rec \in PushSending : rec = [q EXCEPT !.at = "answered"]
        BY <2>0
    <2>2. /\ rec.at = "answered" /\ rec.left = q.left /\ rec.accepted = q.accepted /\ rec.invalid = q.invalid
          /\ rec.all = q.all
        BY <1>1, <2>1 DEF PushSending
    <2>3. PushGoto(r, rec) /\ q.at = "deactivate"
        BY <1>5, <2>1 DEF PushAnswer, PushAt
    <2>4. PICK invalid \in SUBSET PushTokens, n \in Nat :
            invalid = q.invalid /\ n = q.accepted /\ IsFiniteSet(invalid)
            /\ n + Cardinality(invalid) = q.all /\ invalid \subseteq rejected
            /\ (invalid \ {}) \cap Active \subseteq e
        BY <1>1, <1>2, <1>3, <2>3 DEF PushRight, PushSending
    <2>5. Active' = Active /\ IsFiniteSet({})
        BY <1>2, FS_EmptySet DEF Active
    <2> HIDE DEF q
    <2>6. PushRight(rec, e)'
        BY <1>1, <1>2, <2>2, <2>4, <2>5 DEF PushRight
    <2> QED
        BY <1>2, <2>1, <2>3, <2>6, PushGoes
<1> QED
    BY <1>4, <1>5

\* One of the rejected is deactivated, or the statement fails.
LEMMA DeactivateKeeps ==
    ASSUME PushInv, NEW r \in PushRequests, NEW t \in PushTokens, NEW fails \in BOOLEAN,
           DeactivatePushToken(r, t, fails)
    PROVE  PushInv'
<1> DEFINE q == pushReq[r]
<1>1. q \in PushSending /\ PushRight(q, excused[r]) /\ t \in q.left /\ q.at = "deactivate"
    BY PushWorks DEF DeactivatePushToken, PushAt
<1>0. [q EXCEPT !.left = @ \ {t}] \in PushSending
    BY <1>1 DEF PushSending
<1>2. PICK rec \in PushSending : rec = [q EXCEPT !.left = @ \ {t}]
    BY <1>0
<1>3. /\ rec.at = "deactivate" /\ rec.left = q.left \ {t} /\ rec.accepted = q.accepted /\ rec.invalid = q.invalid
      /\ rec.all = q.all
    BY <1>1, <1>2 DEF PushSending
<1>4. PushGoto(r, rec) /\ UNCHANGED rejected
    BY <1>2 DEF DeactivatePushToken
<1>5. IsFiniteSet(q.left \ {t})
    BY <1>1, FS_RemoveElement DEF PushRight
<1>8. PICK left, invalid \in SUBSET PushTokens :
        left = q.left /\ invalid = q.invalid /\ IsFiniteSet(left \ {t}) /\ IsFiniteSet(invalid)
        /\ rec.accepted + Cardinality(invalid) = rec.all /\ invalid \subseteq rejected /\ left \subseteq invalid
        /\ (invalid \ left) \cap Active \subseteq excused[r]
    BY <1>1, <1>3, <1>5 DEF PushRight, PushSending
<1> HIDE DEF q
<1>6. CASE fails
    <2>1. PICK e \in SUBSET PushTokens : excused' = [excused EXCEPT ![r] = e] /\ e = excused[r] \cup {t}
        BY <1>6 DEF DeactivatePushToken, PushInv, PushTyped
    <2>2. UNCHANGED pushToken /\ Active' = Active
        BY <1>6 DEF DeactivatePushToken, Active
    <2>3. PushRight(rec, e)'
        BY <1>3, <1>4, <1>8, <2>1, <2>2 DEF PushRight
    <2> QED
        BY <1>2, <1>4, <2>1, <2>2, <2>3, PushGoes
<1>7. CASE ~fails
    <2>1. pushToken' = [u \in DOMAIN pushToken |-> u # t /\ pushToken[u]] /\ UNCHANGED excused
        BY <1>7 DEF DeactivatePushToken, Deactivated
    <2>2. DOMAIN pushToken' = DOMAIN pushToken /\ \A u \in DOMAIN pushToken : pushToken'[u] = (u # t /\ pushToken[u])
        BY <2>1
    <2>3. Active' = Active \ {t}
        BY <2>2, Zenon DEF Active
    <2>4. pushToken' \in [DOMAIN pushToken' -> BOOLEAN]
        BY <2>1, <2>2
    <2>5. PushTyped'
        BY <1>2, <1>4, <2>1, <2>2, <2>4 DEF PushInv, PushTyped, PushGoto
    <2>6. DOMAIN pushToken' \ Active' \subseteq rejected
        BY <1>1, <2>2, <2>3 DEF PushInv, PushRight
    <2>7. ASSUME NEW o \in PushRequests PROVE PushRight(pushReq[o], excused[o])'
        <3>1. CASE o = r
            <4>1. pushReq'[o] = rec /\ excused'[o] = excused[r]
                BY <3>1, <1>4, <2>1 DEF PushInv, PushTyped, PushGoto
            <4> QED
                BY <4>1, <1>3, <1>4, <1>8, <2>3 DEF PushRight
        <3>2. CASE o # r
            <4>1. pushReq'[o] = pushReq[o] /\ excused'[o] = excused[o]
                BY <3>2, <1>4, <2>1 DEF PushInv, PushTyped, PushGoto
            <4> QED
                BY <4>1, <1>4, <2>3 DEF PushInv, PushRight
        <3> QED
            BY <3>1, <3>2
    <2> QED
        BY <1>4, <2>5, <2>6, <2>7 DEF PushInv
<1> QED
    BY <1>6, <1>7

\* The service fails: the request goes no further.
LEMMA FailsKeeps ==
    ASSUME PushInv, NEW r \in PushRequests, SendFails(r)
    PROVE  PushInv'
<1> DEFINE q == pushReq[r]
<1>1. q \in PushSending /\ PushRight(q, excused[r]) /\ q.left # {} /\ q.at = "send"
    BY PushWorks DEF SendFails, PushAt
<1>2. PICK e \in SUBSET PushTokens :
        UNCHANGED <<pushToken, rejected>> /\ e = excused[r] /\ excused' = [excused EXCEPT ![r] = e]
    BY DEF SendFails, PushInv, PushTyped
<1>3. [q EXCEPT !.at = "failed"] \in PushSending
    BY <1>1 DEF PushSending
<1>4. PICK rec \in PushSending : rec = [q EXCEPT !.at = "failed"]
    BY <1>3
<1>5. /\ rec.at = "failed" /\ rec.left = q.left /\ rec.accepted = q.accepted /\ rec.invalid = q.invalid
      /\ rec.all = q.all
    BY <1>1, <1>4 DEF PushSending
<1>6. PushGoto(r, rec)
    BY <1>4 DEF SendFails
<1> HIDE DEF q
<1>7. PushRight(rec, e)'
    BY <1>1, <1>2, <1>5 DEF PushRight
<1> QED
    BY <1>2, <1>4, <1>6, <1>7, PushGoes

\* A request is over, or all are with the process.
LEMMA PushOverKeeps ==
    ASSUME PushInv, \/ RestartPush
                    \/ \E r \in PushRequests : PushOver(r)
    PROVE  PushInv'
<1>1. NoPushReq.at = "idle"
    BY DEF NoPushReq
<1>2. CASE RestartPush
    <2>1. PushTyped'
        BY <1>2 DEF RestartPush, PushInv, PushTyped
    <2>2. \A r \in PushRequests : pushReq'[r] = NoPushReq
        BY <1>2 DEF RestartPush
    <2>3. (DOMAIN pushToken \ Active \subseteq rejected)'
        BY <1>2 DEF RestartPush, PushInv, Active
    <2> QED
        BY <1>1, <2>1, <2>2, <2>3 DEF PushInv, PushRight
<1>3. ASSUME NEW r \in PushRequests, PushOver(r)
      PROVE  PushInv'
    <2>1. PushGoto(r, NoPushReq) /\ excused' = [excused EXCEPT ![r] = {}] /\ UNCHANGED <<pushToken, rejected>>
        BY <1>3 DEF PushOver
    <2>2. PushRight(NoPushReq, {})'
        BY <1>1 DEF PushRight
    <2> QED
        BY <2>1, <2>2, PushGoes
<1> QED
    BY <1>2, <1>3

\* What a step of the push notifications does to a request and the tokens.
LEMMA PushNextInv ==
    ASSUME PushInv, PushNext \/ UNCHANGED pushVars
    PROVE  PushInv'
<1>1. ASSUME NEW r \in PushRequests, SendTestPush(r, Active) PROVE PushInv'
    <2>1. Active \subseteq PushTokens /\ IsFiniteSet(Active)
        BY FS_Subset DEF Active, PushInv, PushTyped
    <2> QED
        BY <1>1, <2>1, SendKeeps
<1>2. ASSUME NEW r \in PushRequests, NEW t \in PushTokens, SendTestPush(r, {t}) PROVE PushInv'
    <2>1. {t} \in SUBSET PushTokens /\ IsFiniteSet({t})
        BY FS_Singleton
    <2> QED
        BY <1>2, <2>1, SendKeeps
<1>3. CASE UNCHANGED pushVars
    <2>1. UNCHANGED <<pushToken, pushReq, rejected, excused>>
        BY <1>3 DEF pushVars
    <2> QED
        BY <2>1 DEF PushInv, PushTyped, PushRight, Active
<1> QED
    BY <1>1, <1>2, <1>3, SaveKeeps, DeleteKeeps, AnswerCounts, EndsKeeps, FailsKeeps, DeactivateKeeps,
       PushOverKeeps DEF PushNext

\* The invariant states what is checked of push notifications.
LEMMA PushMeans == PushInv => PushAnswered /\ PushTypeOK
<1> SUFFICES ASSUME PushInv PROVE PushAnswered /\ PushTypeOK
    OBVIOUS
<1>1. PushTypeOK
    BY PushWorks DEF PushTypeOK, PushInv, PushTyped, PushRight, PushAt
<1>2. \A t \in DOMAIN pushToken \ Active : t \in rejected
    BY DEF PushInv
<1>3. ASSUME NEW r \in PushRequests
      PROVE  LET q == pushReq[r] IN
             /\ q.at = "answered" => /\ q.accepted + Cardinality(q.invalid) = q.all
                                    /\ q.invalid \cap Active \subseteq excused[r]
             /\ q.at = "failed" => /\ q.left # {} /\ q.left \cap q.invalid = {}
                                  /\ q.accepted + Cardinality(q.invalid) + Cardinality(q.left) = q.all
    <2>1. PushRight(pushReq[r], excused[r])
        BY DEF PushInv
    <2> QED
        BY <2>1 DEF PushRight
<1> QED
    BY <1>1, <1>2, <1>3 DEF PushAnswered

-----------------------------------------------------------------------------
(* Theorems.                                                               *)

\* A step of the services is one of a component, or leaves it alone.
LEMMA NextOf ==
    ASSUME [Next]_vars
    PROVE  /\ LoginsNext \/ UNCHANGED loginsVars
           /\ AccountsNext \/ UNCHANGED accountsVars
           /\ SettingsNext \/ UNCHANGED settingsVars
           /\ WebhooksNext \/ UNCHANGED webhookVars
           /\ StreamNext \/ UNCHANGED streamVars
           /\ UpgradeNext \/ UNCHANGED upgradeVars
           /\ TemplatesNext \/ UNCHANGED templatesVars
           /\ TxNext \/ UNCHANGED txVars
           /\ MediaNext \/ UNCHANGED mediaVars
           /\ PushNext \/ UNCHANGED pushVars
<1>1. LoginsNext \/ UNCHANGED loginsVars
    BY Zenon DEF Next, vars
<1>2. AccountsNext \/ UNCHANGED accountsVars
    BY Zenon DEF Next, vars
<1>3. SettingsNext \/ UNCHANGED settingsVars
    BY Zenon DEF Next, vars
<1>4. WebhooksNext \/ UNCHANGED webhookVars
    BY Zenon DEF Next, vars
<1>5. StreamNext \/ UNCHANGED streamVars
    BY Zenon DEF Next, vars
<1>6. UpgradeNext \/ UNCHANGED upgradeVars
    BY Zenon DEF Next, vars
<1>7. TemplatesNext \/ UNCHANGED templatesVars
    BY Zenon DEF Next, vars
<1>8. TxNext \/ UNCHANGED txVars
    BY Zenon DEF Next, vars
<1>9. MediaNext \/ UNCHANGED mediaVars
    BY Zenon DEF Next, vars
<1>10. PushNext \/ UNCHANGED pushVars
    BY Zenon DEF Next, vars
<1> QED
    BY <1>1, <1>2, <1>3, <1>4, <1>5, <1>6, <1>7, <1>8, <1>9, <1>10

\* Logins keeps its state typed, a live token has passed as often as tries were counted, and
\* the sessions are current, or the deletion that makes them so is to come or failed.
THEOREM LoginsCorrect == Spec => []LoginsInv
<1>1. Init => LoginsInv
    BY LoginsInitInv DEF Init
<1>2. LoginsInv /\ [Next]_vars => LoginsInv'
    BY NextOf, LoginsNextInv, LoginsUnchanged
<1> QED
    BY <1>1, <1>2, PTL DEF Spec

\* A request of the accounts has read no newer table than there is, and the cache holds what
\* a request before its refresh, or a flag, does not account for.
THEOREM AccountsCorrect == Spec => []AccountsInv
<1>1. Init => AccountsInv
    BY AccountsInitInv DEF Init
<1>2. AccountsInv /\ [Next]_vars => AccountsInv'
    BY NextOf, AccountsNextInv
<1> QED
    BY <1>1, <1>2, PTL DEF Spec

\* What was saved is stored, and loaded or about to be.
THEOREM SettingsCorrect == Spec => []SettingsInv
<1>1. Init => SettingsInv
    BY SettingsInitInv DEF Init
<1>2. SettingsInv /\ [Next]_vars => SettingsInv'
    BY NextOf, SettingsNextInv
<1> QED
    BY <1>1, <1>2, PTL DEF Spec

\* What a click confirmed it reports itself: the report arrived, is to come, or failed
\* MaxRetries + 1 times, unless the click was cut off.
THEOREM WebhooksCorrect == Spec => []WebhooksInv
<1>1. Init => WebhooksInv
    BY WebhooksInitInv DEF Init
<1>2. WebhooksInv /\ [Next]_vars => WebhooksInv'
    BY NextOf, WebhooksNextInv
<1> QED
    BY <1>1, <1>2, PTL DEF Spec

\* A connection holds, in order, what was logged since it began but for what came when a
\* channel was full.
THEOREM StreamCorrect == Spec => []StreamInv
<1>1. Init => StreamInv
    BY StreamInitInv DEF Init
<1>2. StreamInv /\ [Next]_vars => StreamInv'
    BY NextOf, StreamNextInv
<1> QED
    BY <1>1, <1>2, PTL DEF Spec

\* The copies of templates in memory are the rows, once the last request to change a row is
\* done with the copy.
THEOREM TemplatesCorrect == Spec => []TemplatesInv
<1>1. Init => TemplatesInv
    BY TemplatesInitInv DEF Init
<1>2. TemplatesInv /\ [Next]_vars => TemplatesInv'
    BY NextOf, TemplatesNextInv
<1> QED
    BY <1>1, <1>2, PTL DEF Spec

\* A transactional message was queued for the recipients before the one that is next, or
\* before the one at which it broke off, but for those that were not found.
THEOREM TxCorrect == Spec => []TxInv
<1>1. Init => TxInv
    BY TxInitInv DEF Init
<1>2. TxInv /\ [Next]_vars => TxInv'
    BY NextOf, TxNextInv
<1> QED
    BY <1>1, <1>2, PTL DEF Spec

\* The files of a row are there, and no request is at their names but those that crossed.
THEOREM MediaCorrect == Spec => []MediaInv
<1>1. Init => MediaInv
    BY MediaInitInv DEF Init
<1>2. MediaInv /\ [Next]_vars => MediaInv'
    BY NextOf, MediaNextInv
<1> QED
    BY <1>1, <1>2, PTL DEF Spec

\* What a push test was given is accepted, rejected or not sent to, yet or any more.
THEOREM PushCorrect == Spec => []PushInv
<1>1. Init => PushInv
    BY PushInitInv DEF Init
<1>2. PushInv /\ [Next]_vars => PushInv'
    BY NextOf, PushNextInv
<1> QED
    BY <1>1, <1>2, PTL DEF Spec

\* Tokens, logins and sessions are under passwords that there were, within their bounds.
THEOREM LoginsRangeCorrect == Spec => []LoginsRange
<1>1. Init => LoginsRange
    BY RangeInit DEF Init
<1>2. LoginsInv /\ LoginsRange /\ [Next]_vars => LoginsRange'
    BY NextOf, LoginsNextRange
<1> QED
    BY <1>1, <1>2, LoginsCorrect, PTL DEF Spec

\* What is recorded was applied, and an undisturbed database has everything once.
THEOREM UpgradeCorrect == Spec => [](SchemaInv /\ OnceInv)
<1>1. Init => SchemaInv /\ OnceInv
    BY SchemaInitInv, OnceInitInv DEF Init
<1>2. SchemaInv /\ OnceInv /\ [Next]_vars => (SchemaInv /\ OnceInv)'
    BY NextOf, SchemaNextInv, OnceNextInv
<1> QED
    BY <1>1, <1>2, PTL DEF Spec

\* A change of password ends every session there was (cmd/users.go:169-177, 263-274,
\* cmd/auth.go:467-526).
THEOREM SessionsCorrect == Spec => []OldSessionsEnd
<1>1. LoginsInv => OldSessionsEnd
    BY DEF LoginsInv, SessionInv, Current, OldSessionsEnd
<1> QED
    BY <1>1, LoginsCorrect, PTL

\* A 2FA token passes no more checks than it has tries, and none after it is spent, however
\* many requests use it at once (internal/tmptokens/tmptokens.go:57-90,
\* cmd/auth.go:132-145, 633-637).
THEOREM TokenCorrect == Spec => TokenEnds
<1>1. LoginsInv /\ [Next]_vars =>
        [\A t \in Tokens : passes'[t] # passes[t] => t \notin spent2fa /\ passes[t] < MaxTries]_loginsVars
    BY NextOf, PassesGrow
<1> QED
    BY <1>1, LoginsCorrect, PTL DEF Spec, TokenEnds

\* When no request has its refresh before it, the cache of API users is the table, but for
\* the flagged ways (cmd/users.go:98-101, 235-280, internal/auth/auth.go:117-128).
THEOREM CacheCorrect == Spec => []CacheFresh
<1>1. AccountsInv => CacheFresh
    BY AccountsMean
<1> QED
    BY <1>1, AccountsCorrect, PTL

\* Once a setup has made its user the setup page is not shown again
\* (cmd/auth.go:70-105, 528-593, init.go:1188-1199).
THEOREM SetupCorrect == Spec => []SetupEnds
<1>1. AccountsInv => SetupEnds
    BY AccountsMean
<1> QED
    BY <1>1, AccountsCorrect, PTL

\* The last enabled super admin is lost in three ways only, whatever requests do at once
\* (queries/users.sql:16-25, 50-54, schema.sql:382).
THEOREM SuperAdminCorrect == Spec => SuperAdminKept
<1>1. AccountsInv /\ [Next]_vars =>
        [Supers # {} /\ Supers' = {} =>
           \/ \E r \in UserRequests : LET q == userRequest[r] IN
                 UpdateWrite(r) /\ (q.edit.type = "api" \/ ~CanEdit(q.user, q.edit))
           \/ \E r \in UserRequests : DeleteWrite(r) /\ ~CanDelete(userRequest[r].rows)
           \/ \E r \in UserRequests : DeleteRole(r, TRUE)]_accountsVars
    BY NextOf, SuperLost
<1> QED
    BY <1>1, AccountsCorrect, PTL DEF Spec, SuperAdminKept

\* A setting that was saved holds, and is loaded or on its way
\* (cmd/settings.go:95-99, 143-150, 313-364).
THEOREM SavedCorrect == Spec => []SavedSettingsHold
<1>1. SettingsInv => SavedSettingsHold
    BY DEF SettingsInv
<1> QED
    BY <1>1, SettingsCorrect, PTL

\* What a click confirmed has arrived at its target, is to be sent, or was tried
\* MaxRetries + 1 times, unless the click could not load the subscriber or the webhooks or
\* the process ended (cmd/confirm_webhook.go:25-87, internal/webhooks/webhooks.go:162-219).
THEOREM ReportCorrect == Spec => []ConfirmationReported
<1>1. WebhooksInv => ConfirmationReported
    BY WebhooksMean
<1> QED
    BY <1>1, WebhooksCorrect, PTL

\* A browser is shown what is logged, in order and once, but for what came when a channel
\* was full (internal/events/events.go:62-76, internal/buflog/buflog.go:30-41).
THEOREM StreamShownCorrect == Spec => []MissedOnlyWhenFull
<1>1. StreamInv => MissedOnlyWhenFull
    BY StreamMeans
<1> QED
    BY <1>1, StreamCorrect, PTL

\* A server serves only on the whole schema, and undisturbed upgrades leave everything once
\* (cmd/upgrade.go:81-101, 108-163, cmd/install.go:124-137).
THEOREM CompleteCorrect == Spec => []UpgradesComplete
<1>1. SchemaInv /\ OnceInv => UpgradesComplete
    BY UpgradeMeans
<1> QED
    BY <1>1, UpgradeCorrect, PTL

\* A transactional message or a push test that is answered without an error has reached
\* everyone but those that the answer names or the service rejected; one that is answered
\* with an error broke off, and has reached those before the failure
\* (cmd/tx.go:82-176, cmd/push.go:176-227).
THEOREM AnswersCorrect == Spec => []FanOutsAnswered
<1>1. TxInv /\ PushInv => FanOutsAnswered
    BY TxMeans, PushMeans DEF FanOutsAnswered
<1> QED
    BY <1>1, TxCorrect, PushCorrect, PTL

\* Transactional templates in memory are their rows, once the last request to change a row
\* is done with the copy, and the files of media hold what was uploaded with their rows
\* (cmd/templates.go:109-212, cmd/init.go:645-658, cmd/media.go:26-192).
THEOREM CopiesCorrect == Spec => []CopiesFollowRows
<1>1. TemplatesInv /\ MediaInv => CopiesFollowRows
    BY TemplatesMean, MediaMeans DEF CopiesFollowRows
<1> QED
    BY <1>1, TemplatesCorrect, MediaCorrect, PTL

\* Every service keeps its state in range.
THEOREM ServicesTypeCorrect == Spec => []TypeOK
<1>1. LoginsInv /\ LoginsRange => LoginsTypeOK
    BY LoginsMean
<1>2. SettingsInv => SettingsTypeOK
    BY DEF SettingsInv, SettingsTyped, SettingsType, SettingsTypeOK
<1>3. StreamInv => StreamTypeOK
    BY StreamMeans
<1>4. AccountsInv => AccountsTypeOK
    BY AccountsMean
<1>5. WebhooksInv => WebhooksTypeOK
    BY WebhooksMean
<1>6. SchemaInv /\ OnceInv => UpgradeTypeOK
    BY UpgradeMeans
<1>7. TemplatesInv /\ MediaInv => TemplatesTypeOK /\ MediaTypeOK
    BY TemplatesMean, MediaMeans
<1>8. TxInv /\ PushInv => TxTypeOK /\ PushTypeOK
    BY TxMeans, PushMeans
<1>9. /\ LoginsInv /\ LoginsRange /\ SettingsInv /\ StreamInv /\ AccountsInv /\ WebhooksInv /\ SchemaInv /\ OnceInv
      /\ TemplatesInv /\ MediaInv /\ TxInv /\ PushInv
      => TypeOK
    BY <1>1, <1>2, <1>3, <1>4, <1>5, <1>6, <1>7, <1>8 DEF TypeOK
<1> QED
    BY <1>9, LoginsCorrect, LoginsRangeCorrect, SettingsCorrect, StreamCorrect, AccountsCorrect, WebhooksCorrect,
       UpgradeCorrect, TemplatesCorrect, MediaCorrect, TxCorrect, PushCorrect, PTL
===============================================================================
