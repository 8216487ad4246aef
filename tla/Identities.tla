------------------------------ MODULE Identities ------------------------------
(***************************************************************************)
(* Signing in with a CKB wallet, and linking one to an account:            *)
(* CccAuthController.  A wallet proves its subject by signing a challenge, *)
(* which counts once; the row of user_identities then says whose it is.    *)
(* Who has no account is given a provisional one, whose email is made from *)
(* the subject: it is written here as the subject itself.                  *)
(***************************************************************************)
EXTENDS Requests

CONSTANTS
    Subjects,       \* wallets, on the configured network
    Challenges,     \* rows of external_auth_challenges, made or not
    Members,        \* accounts with an email of their own
    NoOne           \* no account, and the null of every column

ASSUME AccountsAssumption == Members \intersect Subjects = {} /\ NoOne \notin Members \union Subjects

VARIABLES
    challenge,      \* subject of each challenge, and whether it is used or expired
    identity,       \* the account each subject belongs to, a row of user_identities
    provisional,    \* subjects that a provisional account was made for
    token,          \* the account each wallet that signed in was given a session for
    accepted        \* history: how often each challenge was accepted

identityVars == <<challenge, identity, provisional, token, accepted>>

Accounts == Members \union Subjects
ChallengeRow == [subject : Subjects, used : BOOLEAN, expired : BOOLEAN]

ASSUME NullChallengeAssumption == NoOne \notin ChallengeRow

(* Wallets may have been linked to accounts before. *)
IdentityInit ==
    /\ challenge = [c \in Challenges |-> NoOne]
    /\ identity \in [Subjects -> Members \union {NoOne}]
    /\ provisional = {}
    /\ token = [r \in Requests |-> NoOne]
    /\ accepted = [c \in Challenges |-> 0]

-----------------------------------------------------------------------------
(* Conditions the steps test.  A definition named ..._Bug is never used by *)
(* the specification: it is what the next definition would be with a       *)
(* mistake, to see that the properties notice it.                          *)

Fresh(c) == ~challenge[c].used /\ ~challenge[c].expired

(* The update is made whatever has become of the challenge. *)
Consumable_Bug(c) == TRUE

(* The update's where: no other request has used the challenge by now. *)
Consumable(c) == ~challenge[c].used /\ ~challenge[c].expired

(* A wallet may be taken over from another account. *)
Foreign_Bug(owner, user) == FALSE

(* The wallet belongs to an account other than the one that asks. *)
Foreign(owner, user) == owner # NoOne /\ user # NoOne /\ owner # user

(* Any account may give up its last wallet. *)
Recoverable_Bug(user) == TRUE

(* An account with an email of its own can be signed in to without one. *)
Recoverable(user) == user \in Members

(* The row that was found is saved, or one is inserted if there is still   *)
(* none: rows are unique in their subject.                                 *)
Refused(found, owner) == found = NoOne /\ owner # NoOne

-----------------------------------------------------------------------------
Challenge(r, c, s) ==
    /\ challenge[c] = NoOne
    /\ Begin(r, Done)
    /\ challenge' = [challenge EXCEPT ![c] = [subject |-> s, used |-> FALSE, expired |-> FALSE]]
    /\ UNCHANGED <<identity, provisional, token, accepted>>

(* CHALLENGE_TTL_SECONDS have passed. *)
Expire(c) ==
    /\ challenge[c] # NoOne /\ ~challenge[c].expired
    /\ challenge' = [challenge EXCEPT ![c].expired = TRUE]
    /\ UNCHANGED <<requestVars, identity, provisional, token, accepted>>

(* consumeAndVerify reads the challenge; user is the account the request   *)
(* is signed in to, email a member's in its body.                          *)
Prove(r, op, c, user, email) ==
    /\ challenge[c] # NoOne
    /\ Begin(r, IF Fresh(c) THEN [op |-> op, at |-> "consume", challenge |-> c,
                                  user |-> user, email |-> email]
                ELSE Done)
    /\ UNCHANGED identityVars

Verify(r, c, user, email) == Prove(r, "verify", c, user, email)

Link(r, c, user) == user # NoOne /\ Prove(r, "link", c, user, NoOne)

(* The signature has been checked, and is right. *)
Consume(r) ==
    /\ At(r, "verify", "consume") \/ At(r, "link", "consume")
    /\ LET c == job[r].challenge IN
       IF Consumable(c)
       THEN /\ challenge' = [challenge EXCEPT ![c].used = TRUE]
            /\ accepted' = [accepted EXCEPT ![c] = @ + 1]
            /\ Continue(r, [op |-> job[r].op, at |-> "find", subject |-> challenge[c].subject,
                            user |-> job[r].user, email |-> job[r].email])
       ELSE Finish(r) /\ UNCHANGED <<challenge, accepted>>
    /\ UNCHANGED <<identity, provisional, token>>

(* op tells whether the handler is verify or link, and so what follows. *)
Save(op, s, user) ==
    [op |-> "identity", at |-> "find", handler |-> op, subject |-> s, user |-> user]

(* Whose wallet it is decides whose account it signs in to. *)
FindOwner(r) ==
    /\ At(r, "verify", "find") \/ At(r, "link", "find")
    /\ LET s == job[r].subject
           owner == identity[s]
           user == job[r].user
           op == job[r].op
       IN IF Foreign(owner, user) THEN Finish(r)
          ELSE Continue(r, IF user # NoOne THEN Save(op, s, user)
                           ELSE IF owner # NoOne THEN Save(op, s, owner)
                           ELSE IF job[r].email # NoOne THEN Save(op, s, job[r].email)
                           ELSE [op |-> "verify", at |-> "create", subject |-> s])
    /\ UNCHANGED identityVars

(* Emails are unique: there is one provisional account for a subject. *)
CreateCccUser(r) ==
    /\ At(r, "verify", "create")
    /\ LET s == job[r].subject IN
       IF s \in provisional THEN Finish(r) ELSE Continue(r, Save("verify", s, s))
    /\ provisional' = provisional \union {job[r].subject}
    /\ UNCHANGED <<challenge, identity, token, accepted>>

(* saveIdentity looks for the row again, and will merge or create. *)
FindIdentity(r) ==
    /\ At(r, "identity", "find")
    /\ Continue(r, [op |-> "identity", at |-> "save", handler |-> job[r].handler,
                    subject |-> job[r].subject, user |-> job[r].user,
                    found |-> identity[job[r].subject]])
    /\ UNCHANGED identityVars

(* Where no row was found one is inserted, and that throws if there is one *)
(* by now; where one was found its owner is replaced, unless it was the    *)
(* same or the row is gone.  (One deleted and made again is taken for the  *)
(* same.)                                                                  *)
SaveIdentity(r) ==
    /\ At(r, "identity", "save")
    /\ LET s == job[r].subject
           written == IF job[r].found = NoOne THEN identity[s] = NoOne
                      ELSE identity[s] # NoOne /\ job[r].found # job[r].user
       IN /\ identity' = IF written THEN [identity EXCEPT ![s] = job[r].user] ELSE identity
          /\ Continue(r, IF job[r].handler = "verify" /\ ~Refused(job[r].found, identity[s])
                         THEN [op |-> "token", at |-> "generate", subject |-> s,
                               user |-> job[r].user]
                         ELSE Done)
    /\ UNCHANGED <<challenge, provisional, token, accepted>>

(* Whatever has become of the wallet or the account: is_blocked is not     *)
(* looked at.                                                              *)
GenerateToken(r) ==
    /\ At(r, "token", "generate")
    /\ token' = [token EXCEPT ![r] = job[r].user]
    /\ Finish(r)
    /\ UNCHANGED <<challenge, identity, provisional, accepted>>

Unlink(r, user, s) ==
    /\ Begin(r, Done)
    /\ identity' = IF Recoverable(user) /\ identity[s] = user
                   THEN [identity EXCEPT ![s] = NoOne] ELSE identity
    /\ UNCHANGED <<challenge, provisional, token, accepted>>

(* Accounts a request can be signed in to. *)
SignedIn == Members \union provisional

IdentityNext ==
    \/ \E r \in Requests :
        \/ \E c \in Challenges, s \in Subjects : Challenge(r, c, s)
        \/ \E c \in Challenges, user \in SignedIn \union {NoOne}, email \in Members \union {NoOne} :
            Verify(r, c, user, email)
        \/ \E c \in Challenges, user \in SignedIn : Link(r, c, user)
        \/ \E user \in SignedIn, s \in Subjects : Unlink(r, user, s)
        \/ Consume(r) \/ FindOwner(r) \/ CreateCccUser(r)
        \/ FindIdentity(r) \/ SaveIdentity(r) \/ GenerateToken(r)
    \/ \E c \in Challenges : Expire(c)

-----------------------------------------------------------------------------
(* Properties. *)

IdentityTypes ==
    /\ challenge \in [Challenges -> ChallengeRow \union {NoOne}]
    /\ identity \in [Subjects -> Accounts \union {NoOne}]
    /\ provisional \subseteq Subjects
    /\ token \in [Requests -> Accounts \union {NoOne}]
    /\ accepted \in [Challenges -> Nat]

(* However requests overlap, a challenge that was signed is accepted once: *)
(* the later of two requests finds it used when it marks it.               *)
ChallengeUsedOnce == \A c \in Challenges : accepted[c] <= 1

(* One at a time: a wallet that belongs to an account stays with it until  *)
(* that account gives it up.  (Of two first sign-ins that overlap the      *)
(* second may take the wallet from the first.)                             *)
IdentityKeepsOwner ==
    [][inSeries => \A s \in Subjects :
        identity[s] # NoOne => identity'[s] \in {identity[s], NoOne}]_identity

(* One at a time: a wallet signs in to the account it belongs to by then.  *)
(* (Of two first sign-ins that overlap both may: one has given the wallet  *)
(* to its account, the other then takes it and both are given sessions.)   *)
WalletSignsInToOwner ==
    [][inSeries => \A r \in Requests :
        token'[r] # token[r] => identity[job[r].subject] = token'[r]]_token

(* One at a time, and unless a request ends early: a provisional account   *)
(* keeps the wallet it was made for, the only way to sign in to it.  (One  *)
(* that was made and left without a wallet stays so: the next sign-in      *)
(* cannot make the account again.)                                         *)
ProvisionalHasIdentity ==
    inSeries /\ Running = {} /\ faults = 0 =>
        \A s \in provisional : identity[s] = s
=============================================================================
