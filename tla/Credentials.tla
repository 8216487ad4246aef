------------------------------ MODULE Credentials ------------------------------
(***************************************************************************)
(* Passwords and sessions of businesses (AuthUserController) and of admins *)
(* (AuthAdminController).  A code that resets a password is not stored:    *)
(* the hash sent with it tells whose it is and when it expires, and it may *)
(* be used again until then.                                               *)
(***************************************************************************)
EXTENDS Business

CONSTANT Admins     \* accounts of admins

ASSUME AdminsAssumption ==
    Admins \intersect Businesses = {} /\ Empty \notin Businesses \union Admins

VARIABLES
    password,   \* the request that set each account's password, or its first
    code,       \* the account each request was sent a code for
    expired,    \* codes whose five minutes have passed
    blocked,    \* accounts with is_blocked
    session,    \* the account each login gave a token for
    grants      \* history: requests that were let change a password, and whether rightly

credentialVars == <<password, code, expired, blocked, session, grants>>

Holders == Businesses \union Admins

CredentialInit ==
    /\ password = [a \in Holders |-> Empty]
    /\ code = [r \in Requests |-> Empty]
    /\ expired = {}
    /\ blocked \in SUBSET {b \in Businesses : user[b] # Empty}
    /\ session = [r \in Requests |-> Empty]
    /\ grants = {}

Registered(a) == a \in Businesses => user[a] # Empty

-----------------------------------------------------------------------------
(* The expiry is not looked at. *)
ValidCode_Bug(c, a) == code[c] = a

(* verifyOTP computes the hash anew: a code counts for its account.        *)
ValidCode(c, a) == code[c] = a /\ c \notin expired

(* An account that is blocked may sign in. *)
Inactive_Bug(a) == FALSE

Inactive(a) == a \in blocked

Matches(a, tried) == password[a] = tried

(* Passwords that anybody has chosen. *)
Chosen == {Empty} \union {g.request : g \in grants}

-----------------------------------------------------------------------------
(* The email with the code is sent before the hash is returned. *)
SendCode(r, a) ==
    /\ Registered(a)
    /\ code' = [code EXCEPT ![r] = a]
    /\ Begin(r, Done)
    /\ UNCHANGED <<businessVars, password, expired, blocked, session, grants>>

ForgotPassword(r, b) == b \in Businesses /\ SendCode(r, b)
AdminForgotPassword(r, a) == a \in Admins /\ SendCode(r, a)

(* Five minutes have passed. *)
ExpireCode(c) ==
    /\ code[c] # Empty /\ c \notin expired
    /\ expired' = expired \union {c}
    /\ UNCHANGED <<requestVars, businessVars, password, code, blocked, session, grants>>

ChangePassword(r, a, rightly) ==
    /\ grants' = grants \union {[request |-> r, account |-> a, rightly |-> rightly]}
    /\ Begin(r, [op |-> "password", at |-> "save", account |-> a])

(* The code is verified, and then the account is read. *)
Reset(r, a, c) ==
    /\ IF ValidCode(c, a)
       THEN ChangePassword(r, a, code[c] = a /\ c \notin expired)
       ELSE Begin(r, Done) /\ UNCHANGED grants
    /\ UNCHANGED <<businessVars, password, code, expired, blocked, session>>

ResetPassword(r, b, c) == b \in Businesses /\ Reset(r, b, c)
AdminResetPassword(r, a, c) == a \in Admins /\ Reset(r, a, c)

(* An admin who is signed in gives the current password. *)
UpdateAdminPassword(r, a, known) ==
    /\ \E s \in Requests : session[s] = a
    /\ IF Matches(a, known)
       THEN ChangePassword(r, a, password[a] = known)
       ELSE Begin(r, Done) /\ UNCHANGED grants
    /\ UNCHANGED <<businessVars, password, code, expired, blocked, session>>

SavePassword(r) ==
    /\ At(r, "password", "save")
    /\ password' = [password EXCEPT ![job[r].account] = r]
    /\ Finish(r)
    /\ UNCHANGED <<businessVars, code, expired, blocked, session, grants>>

TryLogin(r, a, tried, known) ==
    /\ Begin(r, IF ~Inactive(a) /\ known
                THEN [op |-> "login", at |-> "attempt", account |-> a, tried |-> tried] ELSE Done)
    /\ UNCHANGED <<businessVars, credentialVars>>

(* A business's password is verified by the handler, and again by          *)
(* attempt(); an admin's only there.                                       *)
Login(r, b, tried) == user[b] # Empty /\ TryLogin(r, b, tried, Matches(b, tried))

AdminLogin(r, a, tried) == TryLogin(r, a, tried, TRUE)

Attempt(r) ==
    /\ At(r, "login", "attempt")
    /\ session' = IF Matches(job[r].account, job[r].tried)
                  THEN [session EXCEPT ![r] = job[r].account] ELSE session
    /\ Finish(r)
    /\ UNCHANGED <<businessVars, password, code, expired, blocked, grants>>

Logout(r, s) ==
    /\ session[s] \in Businesses
    /\ session' = [session EXCEPT ![s] = Empty]
    /\ Begin(r, Done)
    /\ UNCHANGED <<businessVars, password, code, expired, blocked, grants>>

(* is_blocked is set by a statement of its own, whatever was read before.  *)
SetBlocked(r, new) ==
    /\ blocked' = new
    /\ Begin(r, Done)
    /\ UNCHANGED <<businessVars, password, code, expired, session, grants>>

BlockUser(r, b) == user[b] # Empty /\ b \notin blocked /\ SetBlocked(r, blocked \union {b})

UnblockUser(r, b) == b \in blocked /\ SetBlocked(r, blocked \ {b})

BlockAdmin(r, a) == a \notin blocked /\ SetBlocked(r, blocked \union {a})

UnblockAdmin(r, a) == a \in blocked /\ SetBlocked(r, blocked \ {a})

CredentialNext ==
    \/ \E r \in Requests, a \in Holders :
        \/ ForgotPassword(r, a) \/ AdminForgotPassword(r, a)
        \/ \E c \in Requests : code[c] # Empty /\ (ResetPassword(r, a, c) \/ AdminResetPassword(r, a, c))
    \/ \E r \in Requests, b \in Businesses :
        \/ \E tried \in Chosen : Login(r, b, tried)
        \/ BlockUser(r, b) \/ UnblockUser(r, b)
    \/ \E r \in Requests, a \in Admins :
        \/ \E tried \in Chosen :
            AdminLogin(r, a, tried) \/ UpdateAdminPassword(r, a, tried)
        \/ BlockAdmin(r, a) \/ UnblockAdmin(r, a)
    \/ \E r \in Requests :
        \/ SavePassword(r) \/ Attempt(r)
        \/ \E s \in Requests : Logout(r, s)
    \/ \E c \in Requests : ExpireCode(c)

-----------------------------------------------------------------------------
(* Properties. *)

CredentialTypes ==
    /\ password \in [Holders -> Key]
    /\ code \in [Requests -> Holders \union {Empty}]
    /\ expired \subseteq Requests
    /\ blocked \subseteq Holders
    /\ session \in [Requests -> Holders \union {Empty}]
    /\ grants \subseteq [request : Requests, account : Holders, rightly : BOOLEAN]

(* However requests overlap: whoever changed a password was let do so for  *)
(* that account, with a code sent to it that had not expired, or with the  *)
(* password it had then.                                                   *)
ChangedRightly ==
    \A a \in Holders : password[a] # Empty =>
        [request |-> password[a], account |-> a, rightly |-> TRUE] \in grants

(* One at a time: an account that is blocked is not signed in by its       *)
(* password.  (Its earlier tokens stay valid, a login that overlaps the    *)
(* block goes through, and its wallet still signs in to it.)               *)
LoginRefusesBlocked ==
    [][inSeries => \A r \in Requests :
        session'[r] # session[r] => session'[r] \notin blocked]_session
=============================================================================
