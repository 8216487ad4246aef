---------------------------- MODULE Platform_proofs ----------------------------
(***************************************************************************)
(* For any requests at any overlap, accounts, wallets, businesses, keys    *)
(* and pages: the types of Platform.tla and of what its handlers hold; who *)
(* a wallet belongs to; that a business is whole; who changed a password;  *)
(* and that a payment is told of.  The steps of each part of the platform  *)
(* leave the variables and the jobs of the others alone, so that each part *)
(* has invariants of its own.                                              *)
(***************************************************************************)
EXTENDS Platform, TLAPS, FiniteSetTheorems

(* What a handler holds in memory: of Identities.tla, *)
ProofJob == [op : {"verify", "link"}, at : {"consume"}, challenge : Challenges,
             user : Accounts \union {NoOne}, email : Members \union {NoOne}]
FindJob == [op : {"verify", "link"}, at : {"find"}, subject : Subjects,
            user : Accounts \union {NoOne}, email : Members \union {NoOne}]
CreateJob == [op : {"verify"}, at : {"create"}, subject : Subjects]
SaveJob == [op : {"identity"}, at : {"find"}, handler : {"verify", "link"},
            subject : Subjects, user : Accounts]
WriteJob == [op : {"identity"}, at : {"save"}, handler : {"verify", "link"},
             subject : Subjects, user : Accounts, found : Accounts \union {NoOne}]
TokenJob == [op : {"token"}, at : {"generate"}, subject : Subjects, user : Accounts]
IdentityJobs == ProofJob \union FindJob \union CreateJob \union SaveJob \union WriteJob
                \union TokenJob

(* of Business.tla, *)
SignupJob == [op : {"signup"}, at : {"create", "upload", "save", "settings"},
              business : Businesses, todo : SUBSET Documents, uploaded : SUBSET Documents]
AdminJob == [op : {"verifyUser"}, at : {"save"}, business : Businesses, copy : UserRow,
             verified : BOOLEAN]
KeysJob == [op : {"show", "generate"}, at : {"user"}, business : Businesses, copy : SettingRow]
SettingsJob == [op : {"settings"}, at : {"save"}, business : Businesses, copy : SettingRow,
                new : SettingRow]
PayoutJob == [op : {"payout"}, at : {"insert"}, business : Businesses]
BusinessJobs == SignupJob \union AdminJob \union KeysJob \union SettingsJob \union PayoutJob

(* of Credentials.tla, *)
PasswordJob == [op : {"password"}, at : {"save"}, account : Holders]
LoginJob == [op : {"login"}, at : {"attempt"}, account : Holders, tried : Key]
CredentialJobs == PasswordJob \union LoginJob

(* and of Notices.tla. *)
NoticeJobs == [op : {"webhook"}, at : {"dispatch", "post", "log", "commit", "balance"},
               business : Businesses]

Jobs == {Waiting, Done} \union IdentityJobs \union BusinessJobs \union CredentialJobs
        \union NoticeJobs

JobsOK == job \in [Requests -> Jobs] /\ inSeries \in BOOLEAN /\ faults \in Nat

(* The handlers' operations, which tell whose job a job is. *)
IdentityOps == {"verify", "link", "identity", "token"}
BusinessOps == {"signup", "verifyUser", "show", "generate", "settings", "payout"}
CredentialOps == {"password", "login"}
NoticeOps == {"webhook"}

LEMMA JobOps ==
    /\ \A j \in IdentityJobs : j.op \in IdentityOps
    /\ \A j \in BusinessJobs : j.op \in BusinessOps
    /\ \A j \in CredentialJobs : j.op \in CredentialOps
    /\ \A j \in NoticeJobs : j.op \in NoticeOps
    /\ Waiting.op = "waiting" /\ Done.op = "done"
  <1>1. \A j \in IdentityJobs : j.op \in IdentityOps
    BY DEF IdentityJobs, ProofJob, FindJob, CreateJob, SaveJob, WriteJob, TokenJob, IdentityOps
  <1>2. \A j \in BusinessJobs : j.op \in BusinessOps
    BY DEF BusinessJobs, SignupJob, AdminJob, KeysJob, SettingsJob, PayoutJob, BusinessOps
  <1>3. \A j \in CredentialJobs : j.op \in CredentialOps
    BY DEF CredentialJobs, PasswordJob, LoginJob, CredentialOps
  <1>4. \A j \in NoticeJobs : j.op \in NoticeOps
    BY DEF NoticeJobs, NoticeOps
  <1>5. QED BY <1>1, <1>2, <1>3, <1>4 DEF Waiting, Done

LEMMA JobsApart ==
    /\ IdentityJobs \intersect BusinessJobs = {} /\ IdentityJobs \intersect CredentialJobs = {}
    /\ IdentityJobs \intersect NoticeJobs = {} /\ BusinessJobs \intersect CredentialJobs = {}
    /\ BusinessJobs \intersect NoticeJobs = {} /\ CredentialJobs \intersect NoticeJobs = {}
    /\ {Waiting, Done} \intersect (IdentityJobs \union BusinessJobs
            \union CredentialJobs \union NoticeJobs) = {}
    /\ Waiting # Done
  BY JobOps DEF IdentityOps, BusinessOps, CredentialOps, NoticeOps

-----------------------------------------------------------------------------
(* How a step moves the jobs: those of a part S go on, begin or end.       *)

Moves(S) ==
    /\ inSeries' = inSeries /\ faults' \in {faults, faults + 1}
    /\ \/ job' = job
       \/ \E r \in Requests, j \in S \union {Done} :
            /\ job' = [job EXCEPT ![r] = j]
            /\ \/ job[r] \in S
               \/ job[r] = Waiting
                  /\ Cardinality(Running) < IF inSeries THEN 1 ELSE MaxInFlight

LEMMA BeginMoves ==
    ASSUME NEW S, NEW r \in Requests, NEW j \in S \union {Done}, Begin(r, j)
    PROVE  Moves(S) /\ job' = [job EXCEPT ![r] = j] /\ job[r] = Waiting
  BY DEF Begin, Moves

LEMMA ContinueMoves ==
    ASSUME NEW S, NEW r \in Requests, job[r] \in S, NEW j \in S \union {Done}, Continue(r, j)
    PROVE  Moves(S) /\ job' = [job EXCEPT ![r] = j]
  BY DEF Continue, Moves

LEMMA FinishMoves ==
    ASSUME NEW S, NEW r \in Requests, job[r] \in S, Finish(r)
    PROVE  Moves(S) /\ job' = [job EXCEPT ![r] = Done]
  BY ContinueMoves DEF Finish

LEMMA BreakMoves ==
    ASSUME JobsOK, NEW S, NEW r \in Requests, job[r] \in S, Break(r)
    PROVE  Moves(S) /\ job' = [job EXCEPT ![r] = Done] /\ faults' = faults + 1
  BY DEF Break, Moves

LEMMA RestMoves ==
    ASSUME NEW S, UNCHANGED requestVars
    PROVE  Moves(S)
  BY DEF requestVars, Moves

LEMMA MovesTyped ==
    ASSUME JobsOK, NEW S, S \subseteq Jobs, Moves(S)
    PROVE  JobsOK'
  <1>1. Done \in Jobs
    BY DEF Jobs
  <1>2. faults' \in Nat /\ inSeries' \in BOOLEAN
    BY DEF JobsOK, Moves
  <1>3. job' \in [Requests -> Jobs]
    BY <1>1 DEF JobsOK, Moves
  <1>4. QED BY <1>2, <1>3 DEF JobsOK

(* The jobs of another part stay as they are; who is done stays done.      *)
LEMMA OthersKept ==
    ASSUME JobsOK, NEW S, NEW T, S \intersect T = {}, Waiting \notin S \union T,
           Done \notin S \union T, Moves(S)
    PROVE  /\ \A r \in Requests : job'[r] \in T <=> job[r] \in T
           /\ \A r \in Requests : job[r] \in T => job'[r] = job[r]
           /\ \A r \in Requests : job[r] = Done => job'[r] = Done
           /\ \A r \in Requests : job'[r] = Waiting => job[r] = Waiting
  <1>1. Waiting # Done
    BY JobsApart
  <1>2. QED BY <1>1 DEF JobsOK, Moves

(* What a job is, told by its step. *)
LEMMA JobAt ==
    ASSUME JobsOK, NEW r \in Requests, NEW op, NEW step, At(r, op, step)
    PROVE  /\ op \in {"verify", "link"} /\ step = "consume" => job[r] \in ProofJob
           /\ op \in {"verify", "link"} /\ step = "find" => job[r] \in FindJob
           /\ op \in {"verify", "link"} /\ step = "create" => job[r] \in CreateJob
           /\ op = "identity" /\ step = "find" => job[r] \in SaveJob
           /\ op = "identity" /\ step = "save" => job[r] \in WriteJob
           /\ op = "token" => job[r] \in TokenJob
           /\ op = "signup" => job[r] \in SignupJob
           /\ op = "verifyUser" => job[r] \in AdminJob
           /\ op \in {"show", "generate"} => job[r] \in KeysJob
           /\ op = "settings" => job[r] \in SettingsJob
           /\ op = "payout" => job[r] \in PayoutJob
           /\ op = "password" => job[r] \in PasswordJob
           /\ op = "login" => job[r] \in LoginJob
           /\ op = "webhook" => job[r] \in NoticeJobs
           /\ job[r].op = op /\ job[r].at = step /\ r \in Running
  <1>1. /\ job[r] \in IdentityJobs \union BusinessJobs \union CredentialJobs \union NoticeJobs
        /\ job[r].op = op /\ job[r].at = step /\ r \in Running
    BY DEF JobsOK, Jobs, At, Running
  <1>2. CASE job[r] \in IdentityJobs
    <2>1. op \in IdentityOps
      BY <1>1, <1>2, JobOps
    <2>2. QED
      BY <1>1, <1>2, <2>1 DEF IdentityJobs, ProofJob, FindJob, CreateJob, SaveJob, WriteJob,
            TokenJob, IdentityOps
  <1>3. CASE job[r] \in BusinessJobs
    <2>1. op \in BusinessOps
      BY <1>1, <1>3, JobOps
    <2>2. QED
      BY <1>1, <1>3, <2>1 DEF BusinessJobs, SignupJob, AdminJob, KeysJob, SettingsJob,
            PayoutJob, BusinessOps
  <1>4. CASE job[r] \in CredentialJobs
    <2>1. op \in CredentialOps
      BY <1>1, <1>4, JobOps
    <2>2. QED
      BY <1>1, <1>4, <2>1 DEF CredentialJobs, PasswordJob, LoginJob, CredentialOps
  <1>5. CASE job[r] \in NoticeJobs
    <2>1. op \in NoticeOps
      BY <1>1, <1>5, JobOps
    <2>2. QED BY <1>1, <1>5, <2>1 DEF NoticeOps
  <1>6. QED BY <1>1, <1>2, <1>3, <1>4, <1>5

-----------------------------------------------------------------------------
(* Types: sign-in with a wallet. *)

(* A challenge that is being proved has been made. *)
IdentityHeld == \A r \in Requests : job[r] \in ProofJob => challenge[job[r].challenge] # NoOne

LEMMA IdentityHeldKept ==
    ASSUME JobsOK, IdentityHeld, NEW r \in Requests, NEW j, job' = [job EXCEPT ![r] = j],
           \A c \in Challenges : challenge[c] # NoOne => challenge'[c] # NoOne,
           j \in ProofJob => challenge'[j.challenge] # NoOne
    PROVE  IdentityHeld'
  <1>1. \A x \in Requests : job[x] \in ProofJob => job[x].challenge \in Challenges
    BY DEF ProofJob
  <1>2. QED BY <1>1 DEF IdentityHeld, JobsOK

LEMMA IdentityStep ==
    ASSUME JobsOK, IdentityTypes, IdentityHeld, IdentityNext
    PROVE  Moves(IdentityJobs) /\ IdentityTypes' /\ IdentityHeld'
  <1> USE DEF IdentityTypes
  <1>a. SignedIn \subseteq Accounts /\ Members \subseteq Accounts /\ Subjects \subseteq Accounts
    BY DEF SignedIn, Accounts
  <1>b. \A c \in Challenges : challenge[c] # NoOne => challenge[c] \in ChallengeRow
    OBVIOUS
  <1>c. Done \in IdentityJobs \union {Done} /\ Done \notin ProofJob
    BY JobsApart DEF IdentityJobs
  <1>d. \A j \in FindJob \union CreateJob \union SaveJob \union WriteJob \union TokenJob :
            j \notin ProofJob
    BY DEF ProofJob, FindJob, CreateJob, SaveJob, WriteJob, TokenJob
  <1>1. ASSUME NEW r \in Requests, NEW c \in Challenges, NEW s \in Subjects, Challenge(r, c, s)
        PROVE  Moves(IdentityJobs) /\ IdentityTypes' /\ IdentityHeld'
    <2>1. Moves(IdentityJobs) /\ job' = [job EXCEPT ![r] = Done]
      BY <1>1, <1>c, BeginMoves DEF Challenge
    <2>2. [subject |-> s, used |-> FALSE, expired |-> FALSE] \in ChallengeRow
      BY DEF ChallengeRow
    <2>3. /\ IdentityTypes'
          /\ \A x \in Challenges : challenge[x] # NoOne => challenge'[x] # NoOne
      BY <1>1, <2>2 DEF Challenge
    <2>4. QED BY <1>c, <2>1, <2>3, IdentityHeldKept
  <1>2. ASSUME NEW r \in Requests, NEW op \in {"verify", "link"}, NEW c \in Challenges,
               NEW u \in Accounts \union {NoOne}, NEW e \in Members \union {NoOne},
               Prove(r, op, c, u, e)
        PROVE  Moves(IdentityJobs) /\ IdentityTypes' /\ IdentityHeld'
    <2>1. [op |-> op, at |-> "consume", challenge |-> c, user |-> u, email |-> e] \in ProofJob
      BY DEF ProofJob
    <2>2. PICK j \in ProofJob \union {Done} : Begin(r, j) /\ (j # Done => j.challenge = c)
      BY <1>2, <2>1 DEF Prove
    <2>3. Moves(IdentityJobs) /\ job' = [job EXCEPT ![r] = j]
      BY <2>2, BeginMoves DEF IdentityJobs
    <2>4. QED BY <1>2, <1>c, <2>2, <2>3, IdentityHeldKept DEF Prove, identityVars
  <1>3. ASSUME NEW r \in Requests, NEW u \in SignedIn, NEW s \in Subjects, Unlink(r, u, s)
        PROVE  Moves(IdentityJobs) /\ IdentityTypes' /\ IdentityHeld'
    <2>1. Moves(IdentityJobs) /\ job' = [job EXCEPT ![r] = Done]
      BY <1>3, <1>c, BeginMoves DEF Unlink
    <2>2. QED BY <1>3, <1>c, <2>1, IdentityHeldKept DEF Unlink
  <1>4. ASSUME NEW r \in Requests, Consume(r)
        PROVE  Moves(IdentityJobs) /\ IdentityTypes' /\ IdentityHeld'
    <2>1. job[r] \in ProofJob /\ job[r] \in IdentityJobs
      BY <1>4, JobAt DEF Consume, IdentityJobs
    <2>2. PICK c \in Challenges : job[r].challenge = c
      BY <2>1 DEF ProofJob
    <2>3. CASE Consumable(c)
      <3> DEFINE j == [op |-> job[r].op, at |-> "find", subject |-> challenge[c].subject,
                       user |-> job[r].user, email |-> job[r].email]
      <3>1. challenge[c] \in ChallengeRow
        BY <1>b, <2>1, <2>2 DEF IdentityHeld
      <3>2. j \in FindJob
        BY <2>1, <3>1 DEF FindJob, ProofJob, ChallengeRow
      <3>3. /\ challenge' = [challenge EXCEPT ![c].used = TRUE]
            /\ accepted' = [accepted EXCEPT ![c] = @ + 1]
            /\ Continue(r, j) /\ UNCHANGED <<identity, provisional, token>>
        BY <1>4, <2>2, <2>3 DEF Consume
      <3> HIDE DEF j
      <3>4. Moves(IdentityJobs) /\ job' = [job EXCEPT ![r] = j]
        <4>1. j \in IdentityJobs \union {Done}
          BY <3>2 DEF IdentityJobs
        <4>2. QED BY <2>1, <3>3, <4>1, ContinueMoves
      <3>5. [challenge[c] EXCEPT !.used = TRUE] \in ChallengeRow
        BY <3>1 DEF ChallengeRow
      <3>6. /\ IdentityTypes'
            /\ \A x \in Challenges : challenge[x] # NoOne => challenge'[x] # NoOne
        <4>1. challenge' \in [Challenges -> ChallengeRow \union {NoOne}]
          BY <3>3, <3>5
        <4>2. accepted' \in [Challenges -> Nat]
          BY <3>3
        <4>3. \A x \in Challenges : challenge[x] # NoOne => challenge'[x] # NoOne
          BY <3>3, <3>5, NullChallengeAssumption
        <4>4. QED BY <3>3, <4>1, <4>2, <4>3
      <3>7. j \notin ProofJob
        BY <1>d, <3>2
      <3>8. IdentityHeld'
        BY ONLY JobsOK, IdentityHeld, <3>4, <3>6, <3>7, IdentityHeldKept
      <3>9. QED BY <3>4, <3>6, <3>8
    <2>4. CASE ~Consumable(c)
      <3>1. Finish(r) /\ UNCHANGED identityVars
        BY <1>4, <2>2, <2>4 DEF Consume, identityVars
      <3>2. QED BY <1>c, <2>1, <3>1, FinishMoves, IdentityHeldKept DEF identityVars
    <2>5. QED BY <2>3, <2>4
  <1>5. ASSUME NEW r \in Requests, job[r] \in IdentityJobs,
               NEW j \in FindJob \union CreateJob \union SaveJob \union WriteJob
                         \union TokenJob \union {Done},
               Continue(r, j), UNCHANGED <<challenge, accepted>>,
               identity' \in [Subjects -> Accounts \union {NoOne}],
               token' \in [Requests -> Accounts \union {NoOne}],
               provisional' \subseteq Subjects
        PROVE  Moves(IdentityJobs) /\ IdentityTypes' /\ IdentityHeld'
    <2>1. Moves(IdentityJobs) /\ job' = [job EXCEPT ![r] = j]
      <3>1. j \in IdentityJobs \union {Done}
        BY <1>5 DEF IdentityJobs
      <3>2. QED BY <1>5, <3>1, ContinueMoves
    <2>2. j \notin ProofJob
      BY <1>5, <1>c, <1>d
    <2>3. IdentityHeld'
      BY <1>5, <2>1, <2>2, IdentityHeldKept
    <2>4. IdentityTypes'
      BY <1>5
    <2>5. QED BY <2>1, <2>3, <2>4
  <1>6. ASSUME NEW r \in Requests, FindOwner(r)
        PROVE  Moves(IdentityJobs) /\ IdentityTypes' /\ IdentityHeld'
    <2>1. job[r] \in FindJob /\ job[r] \in IdentityJobs
      BY <1>6, JobAt DEF FindOwner, IdentityJobs
    <2>2. PICK s \in Subjects, u \in Accounts \union {NoOne}, e \in Members \union {NoOne} :
             job[r].subject = s /\ job[r].user = u /\ job[r].email = e
      BY <2>1 DEF FindJob
    <2>3. \A x \in Accounts : Save(job[r].op, s, x) \in SaveJob
      BY <2>1 DEF FindJob, Save, SaveJob
    <2>4. [op |-> "verify", at |-> "create", subject |-> s] \in CreateJob
      BY DEF CreateJob
    <2>5. PICK j \in SaveJob \union CreateJob \union {Done} : Continue(r, j)
      <3>1. CASE Foreign(identity[s], u)
        BY <1>6, <2>2, <3>1 DEF FindOwner, Finish
      <3>2. CASE ~Foreign(identity[s], u)
        <4>1. Continue(r, IF u # NoOne THEN Save(job[r].op, s, u)
                          ELSE IF identity[s] # NoOne THEN Save(job[r].op, s, identity[s])
                          ELSE IF e # NoOne THEN Save(job[r].op, s, e)
                          ELSE [op |-> "verify", at |-> "create", subject |-> s])
          BY <1>6, <2>2, <3>2 DEF FindOwner
        <4>2. QED BY <1>a, <2>3, <2>4, <4>1
      <3>3. QED BY <3>1, <3>2
    <2>6. QED BY <1>5, <1>6, <2>1, <2>5 DEF FindOwner, identityVars
  <1>7. ASSUME NEW r \in Requests, CreateCccUser(r)
        PROVE  Moves(IdentityJobs) /\ IdentityTypes' /\ IdentityHeld'
    <2>1. job[r] \in CreateJob /\ job[r] \in IdentityJobs /\ job[r].subject \in Subjects
      BY <1>7, JobAt DEF CreateCccUser, IdentityJobs, CreateJob
    <2>2. Save("verify", job[r].subject, job[r].subject) \in SaveJob
      BY <1>a, <2>1 DEF Save, SaveJob
    <2>3. PICK j \in SaveJob \union {Done} : Continue(r, j)
      BY <1>7, <2>2 DEF CreateCccUser, Finish
    <2>4. QED BY <1>5, <1>7, <2>1, <2>3 DEF CreateCccUser
  <1>8. ASSUME NEW r \in Requests, FindIdentity(r)
        PROVE  Moves(IdentityJobs) /\ IdentityTypes' /\ IdentityHeld'
    <2>1. job[r] \in SaveJob /\ job[r] \in IdentityJobs
      BY <1>8, JobAt DEF FindIdentity, IdentityJobs
    <2>2. [op |-> "identity", at |-> "save", handler |-> job[r].handler,
           subject |-> job[r].subject, user |-> job[r].user,
           found |-> identity[job[r].subject]] \in WriteJob
      BY <2>1 DEF SaveJob, WriteJob
    <2>3. QED BY <1>5, <1>8, <2>1, <2>2 DEF FindIdentity, identityVars
  <1>9. ASSUME NEW r \in Requests, SaveIdentity(r)
        PROVE  Moves(IdentityJobs) /\ IdentityTypes' /\ IdentityHeld'
    <2>1. job[r] \in WriteJob /\ job[r] \in IdentityJobs
      BY <1>9, JobAt DEF SaveIdentity, IdentityJobs
    <2>2. job[r].subject \in Subjects /\ job[r].user \in Accounts
      BY <2>1 DEF WriteJob
    <2>3. identity' \in {identity, [identity EXCEPT ![job[r].subject] = job[r].user]}
      BY <1>9 DEF SaveIdentity
    <2>4. identity' \in [Subjects -> Accounts \union {NoOne}]
      BY <2>2, <2>3
    <2>5. [op |-> "token", at |-> "generate", subject |-> job[r].subject,
           user |-> job[r].user] \in TokenJob
      BY <2>2 DEF TokenJob
    <2>6. PICK j \in TokenJob \union {Done} : Continue(r, j)
      BY <1>9, <2>5 DEF SaveIdentity
    <2>7. QED BY <1>5, <1>9, <2>1, <2>4, <2>6 DEF SaveIdentity
  <1>13. ASSUME NEW r \in Requests, GenerateToken(r)
         PROVE  Moves(IdentityJobs) /\ IdentityTypes' /\ IdentityHeld'
    <2>1. job[r] \in TokenJob /\ job[r] \in IdentityJobs
      BY <1>13, JobAt DEF GenerateToken, IdentityJobs
    <2>2. token' \in [Requests -> Accounts \union {NoOne}]
      BY <1>13, <2>1 DEF GenerateToken, TokenJob
    <2>3. QED BY <1>5, <1>13, <2>1, <2>2 DEF GenerateToken, Finish
  <1>10. ASSUME NEW c \in Challenges, Expire(c)
         PROVE  Moves(IdentityJobs) /\ IdentityTypes' /\ IdentityHeld'
    <2>1. [challenge[c] EXCEPT !.expired = TRUE] \in ChallengeRow
      BY <1>10, <1>b DEF Expire, ChallengeRow
    <2>2. /\ IdentityTypes'
          /\ \A x \in Challenges : challenge[x] # NoOne => challenge'[x] # NoOne
      BY <1>10, <2>1, NullChallengeAssumption DEF Expire
    <2>3. Moves(IdentityJobs) /\ job' = job
      BY <1>10, RestMoves DEF Expire, requestVars
    <2>4. IdentityHeld'
      BY <2>2, <2>3 DEF IdentityHeld, ProofJob
    <2>5. QED BY <2>2, <2>3, <2>4
  <1>11. ASSUME NEW r \in Requests, NEW c \in Challenges
         PROVE  /\ \A u \in SignedIn \union {NoOne}, e \in Members \union {NoOne} :
                      Verify(r, c, u, e) => Moves(IdentityJobs) /\ IdentityTypes' /\ IdentityHeld'
                /\ \A u \in SignedIn :
                      Link(r, c, u) => Moves(IdentityJobs) /\ IdentityTypes' /\ IdentityHeld'
    BY <1>a, <1>2 DEF Verify, Link
  <1>12. QED
    BY <1>1, <1>3, <1>4, <1>6, <1>7, <1>8, <1>9, <1>10, <1>11, <1>13 DEF IdentityNext

-----------------------------------------------------------------------------
(* Types: businesses and their settings. *)

(* The rows that the handlers write have been found or made, and are not   *)
(* deleted.                                                                *)
RowsFor(j, users, settings) ==
    /\ j \in SignupJob /\ j.at # "create" => users[j.business] # Empty
    /\ j \in AdminJob => users[j.business] # Empty
    /\ j \in KeysJob \union SettingsJob => settings[j.business] # Empty

BusinessHeld == \A r \in Requests : RowsFor(job[r], user, setting)

LEMMA BusinessHeldKept ==
    ASSUME JobsOK, BusinessHeld, NEW r \in Requests, NEW j, job' = [job EXCEPT ![r] = j],
           \A b \in Businesses : user[b] # Empty => user'[b] # Empty,
           \A b \in Businesses : setting[b] # Empty => setting'[b] # Empty,
           RowsFor(j, user', setting')
    PROVE  BusinessHeld'
  <1>1. \A x \in Requests : job[x] \in SignupJob \union AdminJob \union KeysJob \union SettingsJob
            => job[x].business \in Businesses
    BY DEF SignupJob, AdminJob, KeysJob, SettingsJob
  <1>2. ASSUME NEW x \in Requests, x # r PROVE RowsFor(job'[x], user', setting')
    <2>1. job'[x] = job[x] /\ RowsFor(job[x], user, setting)
      BY <1>2 DEF BusinessHeld, JobsOK
    <2>2. QED BY <1>1, <2>1 DEF RowsFor
  <1>3. job'[r] = j
    BY DEF JobsOK
  <1>4. QED BY <1>2, <1>3 DEF BusinessHeld

(* No rows are asked for by the jobs of other parts. *)
LEMMA NoRows ==
    ASSUME NEW j \in {Done} \union PayoutJob, NEW users, NEW settings
    PROVE  RowsFor(j, users, settings)
  <1>1. j.op \in {"done", "payout"}
    BY DEF Done, PayoutJob
  <1>2. QED BY <1>1 DEF RowsFor, SignupJob, AdminJob, KeysJob, SettingsJob

LEMMA BusinessJobOps ==
    ASSUME NEW j
    PROVE  /\ j \in SignupJob => j.op = "signup"
           /\ j \in AdminJob => j.op = "verifyUser"
           /\ j \in KeysJob => j.op \in {"show", "generate"}
           /\ j \in SettingsJob => j.op = "settings"
           /\ j \in PayoutJob => j.op = "payout"
  BY DEF SignupJob, AdminJob, KeysJob, SettingsJob, PayoutJob

LEMMA SavedSetting ==
    ASSUME NEW row \in SettingRow, NEW copy \in SettingRow, NEW new \in SettingRow
    PROVE  /\ Saved(row, copy, new) \in SettingRow
           /\ Saved(row, copy, new).testPublic =
                IF new.testPublic = copy.testPublic THEN row.testPublic ELSE new.testPublic
           /\ Saved(row, copy, new).testPrivate =
                IF new.testPrivate = copy.testPrivate THEN row.testPrivate ELSE new.testPrivate
           /\ Saved(row, copy, new).lapses =
                IF new.lapses = copy.lapses THEN row.lapses ELSE new.lapses
           /\ Saved(row, copy, new).livePublic =
                IF new.livePublic = copy.livePublic THEN row.livePublic ELSE new.livePublic
           /\ Saved(row, copy, new).livePrivate =
                IF new.livePrivate = copy.livePrivate THEN row.livePrivate ELSE new.livePrivate
  BY DEF Saved, SettingRow

LEMMA SavedUser ==
    ASSUME NEW row \in UserRow, NEW copy \in UserRow, NEW v \in BOOLEAN
    PROVE  /\ Saved(row, copy, [copy EXCEPT !.verified = v]) \in UserRow
           /\ Saved(row, copy, [copy EXCEPT !.verified = v]).documents = row.documents
           /\ Saved(row, copy, [copy EXCEPT !.verified = v]).verified =
                IF v = copy.verified THEN row.verified ELSE v
  BY DEF Saved, UserRow

LEMMA NewKeys ==
    ASSUME NEW row \in SettingRow, NEW k \in Key
    PROVE  TestKeys(row, k) \in SettingRow /\ LiveKeys(row, k) \in SettingRow
  BY DEF TestKeys, LiveKeys, SettingRow

LEMMA NewSettingRow == NewSetting \in SettingRow
  BY DEF NewSetting, WithoutKeys, SettingRow, Key

LEMMA ChangeJob ==
    ASSUME NEW b \in Businesses, NEW copy \in SettingRow, NEW new \in SettingRow
    PROVE  Change(b, copy, new) \in SettingsJob /\ Change(b, copy, new).business = b
  BY DEF Change, SettingsJob

(* A step that writes no row of a user or of settings. *)
LEMMA BusinessQuiet ==
    ASSUME JobsOK, BusinessTypes, BusinessHeld, NEW r \in Requests,
           NEW j \in BusinessJobs \union {Done}, RowsFor(j, user, setting),
           Begin(r, j) \/ (job[r] \in BusinessJobs /\ Continue(r, j)),
           UNCHANGED <<user, setting, lapsed, shown, verifiedOnce>>,
           stored' \in [Businesses -> SUBSET Documents],
           payouts' \in [Businesses -> SUBSET Requests]
    PROVE  Moves(BusinessJobs) /\ BusinessTypes' /\ BusinessHeld'
  <1>1. Moves(BusinessJobs) /\ job' = [job EXCEPT ![r] = j]
    BY BeginMoves, ContinueMoves
  <1>2. BusinessHeld'
    BY <1>1, BusinessHeldKept
  <1>3. QED BY <1>1, <1>2 DEF BusinessTypes

LEMMA BeginsAndMakes ==
    ASSUME JobsOK, BusinessTypes, BusinessHeld, NEW r \in Requests, NEW b \in Businesses,
           \/ \E files \in SUBSET Documents : Signup(r, b, files)
           \/ \E v \in BOOLEAN : VerifyUser(r, b, v)
           \/ \E environment \in {"TEST", "LIVE"} :
                SwitchEnvironment(r, b, environment) \/ UpdateGeneral(r, b, environment)
           \/ ShowKeys(r, b) \/ GenerateKeys(r, b)
           \/ UpdateWebhook(r, b) \/ GenerateSecret(r, b) \/ UpdatePayout(r, b)
    PROVE  Moves(BusinessJobs) /\ BusinessTypes' /\ BusinessHeld'
  <1>a. /\ setting[b] # Empty => setting[b] \in SettingRow
        /\ user[b] # Empty => user[b] \in UserRow
        /\ stored \in [Businesses -> SUBSET Documents]
        /\ payouts \in [Businesses -> SUBSET Requests]
    BY DEF BusinessTypes
  <1>b. Done \in BusinessJobs \union {Done} /\ RowsFor(Done, user, setting)
    BY NoRows
  <1>1. ASSUME NEW files \in SUBSET Documents, Signup(r, b, files)
        PROVE  Moves(BusinessJobs) /\ BusinessTypes' /\ BusinessHeld'
    <2> DEFINE j == [op |-> "signup", at |-> "create", business |-> b, todo |-> files,
                     uploaded |-> {}]
    <2>1. j \in SignupJob /\ j.at = "create"
      BY DEF SignupJob
    <2>2. j \in BusinessJobs \union {Done} /\ RowsFor(j, user, setting)
      BY <2>1, BusinessJobOps DEF BusinessJobs, RowsFor
    <2>3. Begin(r, j) \/ Begin(r, Done)
      BY <1>1 DEF Signup
    <2> HIDE DEF j
    <2>4. QED BY <1>1, <1>a, <1>b, <2>2, <2>3, BusinessQuiet DEF Signup, businessVars
  <1>2. ASSUME NEW v \in BOOLEAN, VerifyUser(r, b, v)
        PROVE  Moves(BusinessJobs) /\ BusinessTypes' /\ BusinessHeld'
    <2> DEFINE j == [op |-> "verifyUser", at |-> "save", business |-> b, copy |-> user[b],
                     verified |-> v]
    <2>1. j \in AdminJob /\ j.business = b
      BY <1>2, <1>a DEF AdminJob, VerifyUser
    <2>2. j \in BusinessJobs \union {Done} /\ RowsFor(j, user, setting)
      BY <1>2, <2>1, BusinessJobOps DEF BusinessJobs, RowsFor, VerifyUser
    <2>3. Begin(r, j)
      BY <1>2 DEF VerifyUser
    <2> HIDE DEF j
    <2>4. QED BY <1>2, <1>a, <2>2, <2>3, BusinessQuiet DEF VerifyUser, businessVars
  <1>3. ASSUME NEW op \in {"show", "generate"}, ReadForKeys(r, b, op)
        PROVE  Moves(BusinessJobs) /\ BusinessTypes' /\ BusinessHeld'
    <2> DEFINE j == [op |-> op, at |-> "user", business |-> b, copy |-> setting[b]]
    <2>1. j \in KeysJob /\ j.business = b
      BY <1>3, <1>a DEF KeysJob, ReadForKeys
    <2>2. j \in BusinessJobs \union {Done} /\ RowsFor(j, user, setting)
      BY <1>3, <2>1, BusinessJobOps DEF BusinessJobs, RowsFor, ReadForKeys
    <2>3. Begin(r, j)
      BY <1>3 DEF ReadForKeys
    <2> HIDE DEF j
    <2>4. QED BY <1>3, <1>a, <2>2, <2>3, BusinessQuiet DEF ReadForKeys, businessVars
  <1>4. ASSUME NEW new, setting[b] # Empty => new \in SettingRow, setting[b] # Empty,
               Begin(r, Change(b, setting[b], new)) \/ Begin(r, Done), UNCHANGED businessVars
        PROVE  Moves(BusinessJobs) /\ BusinessTypes' /\ BusinessHeld'
    <2>1. PICK j \in {Change(b, setting[b], new), Done} : Begin(r, j)
      BY <1>4
    <2>2. j = Done \/ (j \in SettingsJob /\ j.business = b)
      BY <1>4, <1>a, <2>1, ChangeJob
    <2>3. j \in BusinessJobs \union {Done} /\ RowsFor(j, user, setting)
      BY <1>4, <1>b, <2>2, BusinessJobOps DEF BusinessJobs, RowsFor
    <2>4. QED BY <1>4, <1>a, <2>1, <2>3, BusinessQuiet DEF businessVars
  <1>5. ASSUME NEW environment \in {"TEST", "LIVE"},
               SwitchEnvironment(r, b, environment) \/ UpdateGeneral(r, b, environment)
        PROVE  Moves(BusinessJobs) /\ BusinessTypes' /\ BusinessHeld'
    <2>1. setting[b] # Empty => [setting[b] EXCEPT !.environment = environment] \in SettingRow
      BY <1>a DEF SettingRow
    <2>2. QED BY <1>4, <1>5, <2>1 DEF SwitchEnvironment, UpdateGeneral
  <1>6. ASSUME UpdateWebhook(r, b)
        PROVE  Moves(BusinessJobs) /\ BusinessTypes' /\ BusinessHeld'
    <2>1. setting[b] # Empty => [setting[b] EXCEPT !.url = TRUE] \in SettingRow
      BY <1>a DEF SettingRow
    <2>2. QED BY <1>4, <1>6, <2>1 DEF UpdateWebhook
  <1>7. ASSUME GenerateSecret(r, b)
        PROVE  Moves(BusinessJobs) /\ BusinessTypes' /\ BusinessHeld'
    <2>1. setting[b] # Empty => [setting[b] EXCEPT !.secret = r] \in SettingRow
      BY <1>a DEF SettingRow, Key
    <2>2. QED BY <1>4, <1>7, <2>1 DEF GenerateSecret
  <1>8. ASSUME UpdatePayout(r, b)
        PROVE  Moves(BusinessJobs) /\ BusinessTypes' /\ BusinessHeld'
    <2>1. [op |-> "payout", at |-> "insert", business |-> b] \in PayoutJob
      BY DEF PayoutJob
    <2>2. PICK j \in PayoutJob : Begin(r, j)
      BY <1>8, <2>1 DEF UpdatePayout
    <2>3. payouts' \in [Businesses -> SUBSET Requests]
      BY <1>8, <1>a DEF UpdatePayout, Deleted
    <2>4. QED BY <1>8, <1>a, <2>2, <2>3, NoRows, BusinessQuiet DEF UpdatePayout, BusinessJobs
  <1>9. QED
    BY <1>1, <1>2, <1>3, <1>5, <1>6, <1>7, <1>8 DEF ShowKeys, GenerateKeys

(* The steps of a signup that has begun. *)
LEMMA SignupStep ==
    ASSUME JobsOK, BusinessTypes, BusinessHeld, NEW r \in Requests,
           \/ CreateUser(r) \/ SaveDocuments(r) \/ InsertSettings(r) \/ FailSignup(r)
           \/ \E f \in Documents : UploadDocument(r, f)
    PROVE  Moves(BusinessJobs) /\ BusinessTypes' /\ BusinessHeld'
  <1>a. job[r] \in SignupJob /\ job[r] \in BusinessJobs
    BY JobAt DEF CreateUser, SaveDocuments, InsertSettings, FailSignup, UploadDocument, BusinessJobs
  <1>b. PICK b \in Businesses : job[r].business = b
    BY <1>a DEF SignupJob
  <1>c. /\ user \in [Businesses -> UserRow \union {Empty}]
        /\ stored \in [Businesses -> SUBSET Documents]
        /\ setting \in [Businesses -> SettingRow \union {Empty}]
    BY DEF BusinessTypes
  <1>d. job[r].at # "create" => user[b] # Empty
    BY <1>a, <1>b DEF BusinessHeld, RowsFor
  <1>1. ASSUME NEW j \in SignupJob \union {Done}, Continue(r, j) \/ (j = Done /\ Break(r)),
               j # Done => j.business = b,
               \A x \in Businesses : user[x] # Empty => user'[x] # Empty,
               \A x \in Businesses : setting[x] # Empty => setting'[x] # Empty,
               j \in SignupJob /\ j.at # "create" => user'[b] # Empty,
               user' \in [Businesses -> UserRow \union {Empty}],
               stored' \in [Businesses -> SUBSET Documents],
               setting' \in [Businesses -> SettingRow \union {Empty}],
               UNCHANGED <<lapsed, payouts, shown, verifiedOnce>>
        PROVE  Moves(BusinessJobs) /\ BusinessTypes' /\ BusinessHeld'
    <2>1. Moves(BusinessJobs) /\ job' = [job EXCEPT ![r] = j]
      <3>1. j \in BusinessJobs \union {Done}
        BY DEF BusinessJobs
      <3>2. QED BY <1>1, <1>a, <3>1, ContinueMoves, BreakMoves
    <2>2. RowsFor(j, user', setting')
      BY <1>1, NoRows, BusinessJobOps DEF RowsFor
    <2>3. BusinessHeld'
      BY <1>1, <2>1, <2>2, BusinessHeldKept
    <2>4. BusinessTypes'
      BY <1>1 DEF BusinessTypes
    <2>5. QED BY <2>1, <2>3, <2>4
  <1>2. CASE CreateUser(r)
    <2>1. CASE user[b] = Empty
      <3>1. [documents |-> {}, verified |-> FALSE] \in UserRow
        BY DEF UserRow
      <3>2. PICK step \in {"settings", "upload"} : Continue(r, [job[r] EXCEPT !.at = step])
        BY <1>2, <1>b, <2>1 DEF CreateUser
      <3>3. [job[r] EXCEPT !.at = step] \in SignupJob
            /\ [job[r] EXCEPT !.at = step].business = b
        BY <1>a, <1>b DEF SignupJob
      <3>4. user' = [user EXCEPT ![b] = [documents |-> {}, verified |-> FALSE]]
        BY <1>2, <1>b, <2>1 DEF CreateUser
      <3>5. /\ user' \in [Businesses -> UserRow \union {Empty}] /\ user'[b] # Empty
            /\ \A x \in Businesses : user[x] # Empty => user'[x] # Empty
        BY <1>c, <3>1, <3>4, NullRowsAssumption
      <3>6. UNCHANGED <<stored, setting, lapsed, payouts, shown, verifiedOnce>>
        BY <1>2 DEF CreateUser
      <3>7. QED BY ONLY <1>1, <1>c, <3>2, <3>3, <3>5, <3>6
    <2>2. CASE user[b] # Empty
      BY <1>1, <1>2, <1>b, <1>c, <2>2 DEF CreateUser, Finish
    <2>3. QED BY <2>1, <2>2
  <1>3. ASSUME NEW f \in Documents, UploadDocument(r, f)
        PROVE  Moves(BusinessJobs) /\ BusinessTypes' /\ BusinessHeld'
    <2> DEFINE step == IF job[r].todo = {f} THEN "save" ELSE "upload"
               j == [job[r] EXCEPT !.todo = @ \ {f}, !.uploaded = @ \union {f}, !.at = step]
    <2>1. Continue(r, j)
      BY <1>3 DEF UploadDocument
    <2>a. job[r].at = "upload"
      BY <1>3, JobAt DEF UploadDocument
    <2>2. j \in SignupJob /\ j.business = b
      BY <1>a, <1>b DEF SignupJob
    <2>3. /\ stored' = [stored EXCEPT ![b] = @ \union {f}]
          /\ UNCHANGED <<user, setting, lapsed, payouts, shown, verifiedOnce>>
      BY <1>3, <1>b DEF UploadDocument
    <2>4. stored' \in [Businesses -> SUBSET Documents]
      BY <1>c, <2>3
    <2> HIDE DEF j
    <2>5. QED BY <1>1, <1>c, <1>d, <2>1, <2>a, <2>2, <2>3, <2>4
  <1>4. CASE SaveDocuments(r)
    <2>1. job[r].at # "create" /\ job[r].uploaded \in SUBSET Documents
      BY <1>4, <1>a, JobAt DEF SaveDocuments, SignupJob
    <2>2. [user[b] EXCEPT !.documents = job[r].uploaded] \in UserRow
      BY <1>c, <1>d, <2>1 DEF UserRow
    <2>3. user' = [user EXCEPT ![b].documents = job[r].uploaded]
      BY <1>4, <1>b DEF SaveDocuments, Named
    <2>4. /\ user' \in [Businesses -> UserRow \union {Empty}] /\ user'[b] # Empty
          /\ \A x \in Businesses : user[x] # Empty => user'[x] # Empty
      BY <1>c, <2>2, <2>3, NullRowsAssumption
    <2>5. [job[r] EXCEPT !.at = "settings"] \in SignupJob
          /\ [job[r] EXCEPT !.at = "settings"].business = b
      BY <1>a, <1>b DEF SignupJob
    <2>6. /\ Continue(r, [job[r] EXCEPT !.at = "settings"])
          /\ UNCHANGED <<stored, setting, lapsed, payouts, shown, verifiedOnce>>
      BY <1>4 DEF SaveDocuments
    <2>7. QED BY ONLY <1>1, <1>c, <2>4, <2>5, <2>6
  <1>5. CASE InsertSettings(r)
    <2>1. setting' = [setting EXCEPT ![b] = NewSetting]
      BY <1>5, <1>b DEF InsertSettings
    <2>2. /\ setting' \in [Businesses -> SettingRow \union {Empty}]
          /\ \A x \in Businesses : setting[x] # Empty => setting'[x] # Empty
      BY <1>c, <2>1, NewSettingRow, NullRowsAssumption
    <2>3. Done \notin SignupJob /\ Continue(r, Done)
          /\ UNCHANGED <<user, stored, lapsed, payouts, shown, verifiedOnce>>
      BY <1>5, JobsApart DEF InsertSettings, BusinessJobs, Finish
    <2>4. QED BY <1>1, <1>c, <2>2, <2>3
  <1>6. CASE FailSignup(r)
    <2>1. stored' \in [Businesses -> SUBSET Documents]
      BY <1>6, <1>c DEF FailSignup
    <2>2. Done \notin SignupJob
      BY JobsApart DEF BusinessJobs
    <2>3. QED BY <1>1, <1>6, <1>c, <2>1, <2>2 DEF FailSignup
  <1>7. QED BY <1>2, <1>3, <1>4, <1>5, <1>6

LEMMA BusinessStep ==
    ASSUME JobsOK, BusinessTypes, BusinessHeld, BusinessNext
    PROVE  Moves(BusinessJobs) /\ BusinessTypes' /\ BusinessHeld'
  <1>c. /\ user \in [Businesses -> UserRow \union {Empty}]
        /\ stored \in [Businesses -> SUBSET Documents]
        /\ setting \in [Businesses -> SettingRow \union {Empty}]
        /\ payouts \in [Businesses -> SUBSET Requests]
        /\ lapsed \subseteq Requests
        /\ shown \in [Businesses -> [test : Key, live : Key, secret : Key]]
        /\ verifiedOnce \subseteq Businesses
    BY DEF BusinessTypes
  <1>1. ASSUME NEW r \in Requests, NEW b \in Businesses,
               \/ \E files \in SUBSET Documents : Signup(r, b, files)
               \/ \E v \in BOOLEAN : VerifyUser(r, b, v)
               \/ \E environment \in {"TEST", "LIVE"} :
                    SwitchEnvironment(r, b, environment) \/ UpdateGeneral(r, b, environment)
               \/ ShowKeys(r, b) \/ GenerateKeys(r, b)
               \/ UpdateWebhook(r, b) \/ GenerateSecret(r, b) \/ UpdatePayout(r, b)
        PROVE  Moves(BusinessJobs) /\ BusinessTypes' /\ BusinessHeld'
    BY <1>1, BeginsAndMakes
  <1>2. ASSUME NEW r \in Requests,
               \/ CreateUser(r) \/ SaveDocuments(r) \/ InsertSettings(r) \/ FailSignup(r)
               \/ \E f \in Documents : UploadDocument(r, f)
        PROVE  Moves(BusinessJobs) /\ BusinessTypes' /\ BusinessHeld'
    BY <1>2, SignupStep
  <1>3. ASSUME NEW r \in Requests, job[r] \in BusinessJobs, Finish(r)
        PROVE  /\ Moves(BusinessJobs)
               /\ (\A x \in Businesses : user[x] # Empty => user'[x] # Empty)
                  /\ (\A x \in Businesses : setting[x] # Empty => setting'[x] # Empty)
                  => BusinessHeld'
    <2>1. Moves(BusinessJobs) /\ job' = [job EXCEPT ![r] = Done]
      BY <1>3, FinishMoves
    <2>2. RowsFor(Done, user', setting')
      BY NoRows
    <2>3. QED BY <2>1, <2>2, BusinessHeldKept
  <1>4. ASSUME NEW r \in Requests, SaveVerified(r)
        PROVE  Moves(BusinessJobs) /\ BusinessTypes' /\ BusinessHeld'
    <2>1. /\ job[r] \in AdminJob /\ job[r] \in BusinessJobs /\ job[r].business \in Businesses
          /\ job[r].copy \in UserRow /\ job[r].verified \in BOOLEAN
      BY <1>4, JobAt DEF SaveVerified, BusinessJobs, AdminJob
    <2>2. user[job[r].business] \in UserRow
      BY <1>c, <2>1 DEF BusinessHeld, RowsFor
    <2>3. /\ user' = [user EXCEPT ![job[r].business] =
                 Saved(@, job[r].copy, [job[r].copy EXCEPT !.verified = job[r].verified])]
          /\ verifiedOnce' \subseteq Businesses /\ Finish(r)
          /\ UNCHANGED <<stored, setting, lapsed, payouts, shown>>
      BY <1>4, <1>c, <2>1 DEF SaveVerified
    <2>4. Saved(user[job[r].business], job[r].copy,
                [job[r].copy EXCEPT !.verified = job[r].verified]) \in UserRow
      BY <2>1, <2>2, SavedUser
    <2>5. /\ user' \in [Businesses -> UserRow \union {Empty}]
          /\ \A x \in Businesses : user[x] # Empty => user'[x] # Empty
      BY <1>c, <2>1, <2>3, <2>4, NullRowsAssumption
    <2>6. QED BY <1>3, <1>c, <2>1, <2>3, <2>5 DEF BusinessTypes
  <1>5. ASSUME NEW r \in Requests, ClearLapsedKey(r) \/ MakeKeys(r)
        PROVE  Moves(BusinessJobs) /\ BusinessTypes' /\ BusinessHeld'
    <2>1. /\ job[r] \in KeysJob /\ job[r] \in BusinessJobs /\ job[r].business \in Businesses
          /\ job[r].copy \in SettingRow
      BY <1>5, JobAt DEF ClearLapsedKey, MakeKeys, BusinessJobs, KeysJob
    <2>2. setting[job[r].business] # Empty
      BY <2>1 DEF BusinessHeld, RowsFor
    <2>3. PICK new \in SettingRow :
             Continue(r, Change(job[r].business, job[r].copy, new)) \/ Continue(r, Done)
      <3>1. r \in Key /\ Empty \in Key
        BY DEF Key
      <3>2. TestKeys(job[r].copy, Empty) \in SettingRow /\ TestKeys(job[r].copy, r) \in SettingRow
            /\ LiveKeys(job[r].copy, r) \in SettingRow
        BY <2>1, <3>1, NewKeys
      <3>3. QED BY <1>5, <2>1, <3>2 DEF ClearLapsedKey, MakeKeys, Finish
    <2>4. PICK j \in {Change(job[r].business, job[r].copy, new), Done} : Continue(r, j)
      BY <2>3
    <2>5. j = Done \/ (j \in SettingsJob /\ j.business = job[r].business)
      BY <2>1, <2>4, ChangeJob
    <2>6. j \in BusinessJobs \union {Done} /\ RowsFor(j, user, setting)
      BY <2>2, <2>5, NoRows, BusinessJobOps DEF BusinessJobs, RowsFor
    <2>7. QED BY <1>5, <1>c, <2>1, <2>4, <2>6, BusinessQuiet
              DEF ClearLapsedKey, MakeKeys, businessVars
  <1>6. ASSUME NEW r \in Requests, SaveSettings(r)
        PROVE  Moves(BusinessJobs) /\ BusinessTypes' /\ BusinessHeld'
    <2>1. /\ job[r] \in SettingsJob /\ job[r] \in BusinessJobs /\ job[r].business \in Businesses
          /\ job[r].copy \in SettingRow /\ job[r].new \in SettingRow
      BY <1>6, JobAt DEF SaveSettings, BusinessJobs, SettingsJob
    <2>2. PICK b \in Businesses : job[r].business = b
      BY <2>1
    <2>3. setting[b] \in SettingRow
      BY <1>c, <2>1, <2>2 DEF BusinessHeld, RowsFor
    <2>4. /\ setting' = [setting EXCEPT ![b] = Saved(@, job[r].copy, job[r].new)]
          /\ shown' = [shown EXCEPT ![b] = Shown(@, r, job[r].new)] /\ Finish(r)
          /\ UNCHANGED <<user, stored, lapsed, payouts, verifiedOnce>>
      BY <1>6, <2>2 DEF SaveSettings
    <2>5. Saved(setting[b], job[r].copy, job[r].new) \in SettingRow
      BY <2>1, <2>3, SavedSetting
    <2>6. Shown(shown[b], r, job[r].new) \in [test : Key, live : Key, secret : Key]
      BY <1>c DEF Shown, Key
    <2>7. /\ setting' \in [Businesses -> SettingRow \union {Empty}]
          /\ \A x \in Businesses : setting[x] # Empty => setting'[x] # Empty
          /\ shown' \in [Businesses -> [test : Key, live : Key, secret : Key]]
      BY <1>c, <2>4, <2>5, <2>6, NullRowsAssumption
    <2>8. QED BY <1>3, <1>c, <2>1, <2>4, <2>7 DEF BusinessTypes
  <1>7. ASSUME NEW r \in Requests, InsertPayout(r)
        PROVE  Moves(BusinessJobs) /\ BusinessTypes' /\ BusinessHeld'
    <2>1. job[r] \in BusinessJobs
      BY <1>7, JobAt DEF InsertPayout, BusinessJobs
    <2>2. payouts' \in [Businesses -> SUBSET Requests]
      BY <1>7, <1>c DEF InsertPayout
    <2>3. QED BY <1>3, <1>7, <1>c, <2>1, <2>2 DEF InsertPayout, BusinessTypes
  <1>8. ASSUME NEW b \in Businesses, LapseKey(b)
        PROVE  Moves(BusinessJobs) /\ BusinessTypes' /\ BusinessHeld'
    <2>1. setting[b].lapses \in Requests
      BY <1>8, <1>c DEF LapseKey, SettingRow, Key
    <2>2. lapsed' \subseteq Requests
      BY <1>8, <1>c, <2>1 DEF LapseKey
    <2>3. UNCHANGED <<job, user, setting>> /\ Moves(BusinessJobs)
      BY <1>8, RestMoves DEF LapseKey, requestVars
    <2>4. BusinessHeld'
      BY <2>3 DEF BusinessHeld
    <2>5. QED BY <1>8, <1>c, <2>2, <2>3, <2>4 DEF LapseKey, BusinessTypes
  <1>9. QED
    BY <1>1, <1>2, <1>4, <1>5, <1>6, <1>7, <1>8 DEF BusinessNext

-----------------------------------------------------------------------------
(* Types: passwords and sessions. *)

Grant == [request : Requests, account : Holders, rightly : BOOLEAN]

LEMMA CredentialStep ==
    ASSUME JobsOK, CredentialTypes, CredentialNext
    PROVE  Moves(CredentialJobs) /\ CredentialTypes' /\ UNCHANGED businessVars
  <1> USE DEF CredentialTypes
  <1> DEFINE Goal == Moves(CredentialJobs) /\ CredentialTypes' /\ UNCHANGED businessVars
  <1>a. /\ Businesses \subseteq Holders /\ Admins \subseteq Holders
        /\ grants \subseteq Grant
    BY DEF Holders, Grant
  <1>b. Chosen \subseteq Key
    BY <1>a DEF Chosen, Key, Grant
  <1>c. Done \in CredentialJobs \union {Done}
    OBVIOUS
  <1>1. ASSUME NEW r \in Requests, NEW a \in Holders, SendCode(r, a) PROVE Goal
    <2>1. Moves(CredentialJobs)
      BY <1>1, <1>c, BeginMoves DEF SendCode
    <2>2. QED BY <1>1, <2>1 DEF SendCode
  <1>2. ASSUME NEW r \in Requests, NEW a \in Holders, NEW rightly \in BOOLEAN,
               ChangePassword(r, a, rightly),
               UNCHANGED <<businessVars, password, code, expired, blocked, session>>
        PROVE  Goal
    <2>1. [op |-> "password", at |-> "save", account |-> a] \in PasswordJob
      BY DEF PasswordJob
    <2>2. Moves(CredentialJobs)
      BY <1>2, <2>1, BeginMoves DEF ChangePassword, CredentialJobs
    <2>3. [request |-> r, account |-> a, rightly |-> rightly] \in Grant
      BY DEF Grant
    <2>4. grants' \subseteq Grant
      BY <1>2, <1>a, <2>3 DEF ChangePassword
    <2>5. QED BY <1>2, <2>2, <2>4 DEF Grant
  <1>3. ASSUME NEW r \in Requests, Begin(r, Done), UNCHANGED <<businessVars, password, code, expired, grants>>,
               blocked' \subseteq Holders, session' \in [Requests -> Holders \union {Empty}]
        PROVE  Goal
    <2>1. Moves(CredentialJobs)
      BY <1>3, <1>c, BeginMoves
    <2>2. QED BY <1>3, <2>1
  <1>4. ASSUME NEW r \in Requests, NEW a \in Holders, NEW c \in Requests, Reset(r, a, c)
        PROVE  Goal
    <2>1. CASE ValidCode(c, a)
      <3>1. PICK rightly \in BOOLEAN : ChangePassword(r, a, rightly)
        BY <1>4, <2>1 DEF Reset
      <3>2. QED BY <1>2, <1>4, <3>1 DEF Reset
    <2>2. CASE ~ValidCode(c, a)
      BY <1>3, <1>4, <2>2 DEF Reset
    <2>3. QED BY <2>1, <2>2
  <1>5. ASSUME NEW r \in Requests, NEW a \in Admins, NEW tried \in Chosen,
               UpdateAdminPassword(r, a, tried)
        PROVE  Goal
    <2>1. CASE Matches(a, tried)
      <3>1. PICK rightly \in BOOLEAN : ChangePassword(r, a, rightly)
        BY <1>5, <2>1 DEF UpdateAdminPassword
      <3>2. QED BY <1>2, <1>5, <1>a, <3>1 DEF UpdateAdminPassword
    <2>2. CASE ~Matches(a, tried)
      BY <1>3, <1>5, <2>2 DEF UpdateAdminPassword
    <2>3. QED BY <2>1, <2>2
  <1>6. ASSUME NEW r \in Requests, SavePassword(r) PROVE Goal
    <2>1. job[r] \in CredentialJobs /\ job[r].account \in Holders /\ r \in Key
      BY <1>6, JobAt DEF SavePassword, CredentialJobs, PasswordJob, Key
    <2>2. Moves(CredentialJobs)
      BY <1>6, <2>1, FinishMoves DEF SavePassword
    <2>3. QED BY <1>6, <2>1, <2>2 DEF SavePassword
  <1>7. ASSUME NEW r \in Requests, NEW a \in Holders, NEW tried \in Chosen, NEW known,
               TryLogin(r, a, tried, known)
        PROVE  Goal
    <2>1. [op |-> "login", at |-> "attempt", account |-> a, tried |-> tried] \in LoginJob
      BY <1>b DEF LoginJob
    <2>2. PICK j \in CredentialJobs \union {Done} : Begin(r, j)
      BY <1>7, <2>1 DEF TryLogin, CredentialJobs
    <2>3. Moves(CredentialJobs)
      BY <2>2, BeginMoves
    <2>4. QED BY <1>7, <2>3 DEF TryLogin, credentialVars
  <1>8. ASSUME NEW r \in Requests, Attempt(r) PROVE Goal
    <2>1. job[r] \in CredentialJobs /\ job[r].account \in Holders
      BY <1>8, JobAt DEF Attempt, CredentialJobs, LoginJob
    <2>2. Moves(CredentialJobs)
      BY <1>8, <2>1, FinishMoves DEF Attempt
    <2>3. QED BY <1>8, <2>1, <2>2 DEF Attempt
  <1>9. ASSUME NEW r \in Requests, NEW z \in Requests, Logout(r, z) PROVE Goal
    BY <1>3, <1>9 DEF Logout
  <1>10. ASSUME NEW r \in Requests, NEW a \in Holders, NEW new \in {blocked \union {a}, blocked \ {a}},
                SetBlocked(r, new)
         PROVE  Goal
    BY <1>3, <1>10 DEF SetBlocked
  <1>11. ASSUME NEW c \in Requests, ExpireCode(c) PROVE Goal
    BY <1>11, RestMoves DEF ExpireCode
  <1> HIDE DEF Goal
  <1>12. ASSUME NEW r \in Requests, NEW a \in Holders,
                \/ ForgotPassword(r, a) \/ AdminForgotPassword(r, a)
                \/ \E c \in Requests : ResetPassword(r, a, c) \/ AdminResetPassword(r, a, c)
         PROVE  Goal
    BY <1>1, <1>4, <1>12 DEF ForgotPassword, AdminForgotPassword, ResetPassword,
          AdminResetPassword
  <1>13. ASSUME NEW r \in Requests, NEW b \in Businesses,
                \/ \E tried \in Chosen : Login(r, b, tried)
                \/ BlockUser(r, b) \/ UnblockUser(r, b)
         PROVE  Goal
    BY <1>7, <1>10, <1>13, <1>a DEF Login, BlockUser, UnblockUser
  <1>14. ASSUME NEW r \in Requests, NEW a \in Admins,
                \/ \E tried \in Chosen : AdminLogin(r, a, tried) \/ UpdateAdminPassword(r, a, tried)
                \/ BlockAdmin(r, a) \/ UnblockAdmin(r, a)
         PROVE  Goal
    BY <1>5, <1>7, <1>10, <1>14, <1>a DEF AdminLogin, BlockAdmin, UnblockAdmin
  <1>15. Goal
    BY <1>6, <1>8, <1>9, <1>11, <1>12, <1>13, <1>14 DEF CredentialNext, Goal
  <1>16. QED BY <1>15 DEF Goal

-----------------------------------------------------------------------------
(* Types: how a payment is told of. *)

(* A stream that goes on has polls left, and a call that is to be logged   *)
(* has an outcome.                                                         *)
NoticeHeld ==
    /\ \A r \in Requests : watch[r] # Empty /\ watch[r].end = "no" => watch[r].ticks < MaxTicks
    /\ \A r \in Requests : job[r] \in NoticeJobs /\ job[r].at = "log" => Len(delivery[r]) > 0

LEMMA NoticeHeldKept ==
    ASSUME JobsOK, NoticeHeld, NEW r \in Requests, NEW j, job' = [job EXCEPT ![r] = j],
           j \in NoticeJobs /\ j.at = "log" => Len(delivery'[r]) > 0,
           \A x \in Requests \ {r} : delivery'[x] = delivery[x], UNCHANGED watch
    PROVE  NoticeHeld'
  BY DEF NoticeHeld, JobsOK

LEMMA WebhookStep ==
    ASSUME JobsOK, NoticeTypes, NoticeHeld, NEW r \in Requests,
           \/ \E failed \in SUBSET Requests : Commit(r, failed) \/ EmitBalance(r, failed)
           \/ Dispatch(r) \/ LogAttempt(r) \/ LogFails(r)
           \/ \E success \in BOOLEAN : Post(r, success)
    PROVE  Moves(NoticeJobs) /\ NoticeTypes' /\ NoticeHeld' /\ UNCHANGED businessVars
  <1> USE DEF NoticeTypes
  <1> DEFINE Goal == Moves(NoticeJobs) /\ NoticeTypes' /\ NoticeHeld' /\ UNCHANGED businessVars
  <1>a. job[r] \in NoticeJobs /\ \A step \in {"post", "log", "commit", "balance"} :
            [job[r] EXCEPT !.at = step] \in NoticeJobs /\ [job[r] EXCEPT !.at = step].at = step
    <2>1. job[r] \in NoticeJobs
      BY JobAt DEF Commit, EmitBalance, Dispatch, LogAttempt, LogFails, Post
    <2>2. QED BY <2>1 DEF NoticeJobs
  <1>b. Done \notin NoticeJobs
    BY JobsApart
  <1>d. ASSUME NEW step \in {"post", "log", "commit", "balance"},
               Continue(r, [job[r] EXCEPT !.at = step])
        PROVE  Moves(NoticeJobs) /\ job' = [job EXCEPT ![r] = [job[r] EXCEPT !.at = step]]
    <2>1. PICK j : j = [job[r] EXCEPT !.at = step]
      OBVIOUS
    <2>2. j \in NoticeJobs \union {Done} /\ Continue(r, j) /\ job[r] \in NoticeJobs
      BY <1>a, <1>d, <2>1
    <2>3. QED BY <2>1, <2>2, ContinueMoves
  <1>1. CASE Dispatch(r)
    <2>1. PICK step \in {"post", "commit"} : Continue(r, [job[r] EXCEPT !.at = step])
      BY <1>1 DEF Dispatch
    <2>2. Moves(NoticeJobs) /\ job' = [job EXCEPT ![r] = [job[r] EXCEPT !.at = step]]
      BY <1>d, <2>1
    <2>3. UNCHANGED <<businessVars, noticeVars>>
      BY <1>1 DEF Dispatch
    <2>4. NoticeHeld'
      BY <1>a, <2>2, <2>3, NoticeHeldKept DEF noticeVars
    <2>5. QED BY <2>2, <2>3, <2>4 DEF noticeVars
  <1>2. ASSUME NEW success \in BOOLEAN, Post(r, success) PROVE Goal
    <2>1. Moves(NoticeJobs) /\ job' = [job EXCEPT ![r] = [job[r] EXCEPT !.at = "log"]]
      BY <1>2, <1>a, ContinueMoves DEF Post
    <2>2. delivery' = [delivery EXCEPT ![r] = Append(@, success)]
          /\ UNCHANGED <<businessVars, status, tab, clients, watch, log>>
      BY <1>2 DEF Post
    <2>3. delivery[r] \in Seq(BOOLEAN)
      OBVIOUS
    <2>7. Append(delivery[r], success) \in Seq(BOOLEAN)
      BY <1>2, <2>3
    <2>8. Len(Append(delivery[r], success)) > 0
      BY <2>3
    <2>4. delivery' \in [Requests -> Seq(BOOLEAN)] /\ Len(delivery'[r]) > 0
          /\ \A x \in Requests \ {r} : delivery'[x] = delivery[x]
      BY <2>2, <2>7, <2>8
    <2>5. NoticeHeld'
      BY <2>1, <2>2, <2>4, NoticeHeldKept
    <2>6. QED BY <2>1, <2>2, <2>4, <2>5
  <1>3. ASSUME NEW step \in {"post", "commit"}, job' = [job EXCEPT ![r] = [job[r] EXCEPT !.at = step]],
               UNCHANGED <<businessVars, status, tab, clients, watch, delivery>>,
               log' \in [Requests -> Seq(BOOLEAN)], Moves(NoticeJobs)
        PROVE  Goal
    <2>1. NoticeHeld'
      BY <1>3, <1>a, NoticeHeldKept
    <2>2. QED BY <1>3, <2>1
  <1>c. \E step \in {"post", "commit"} : AfterLog(r) = [job[r] EXCEPT !.at = step]
    BY DEF AfterLog
  <1>4. CASE LogAttempt(r)
    <2>1. job[r].at = "log" /\ Len(delivery[r]) > 0 /\ delivery[r] \in Seq(BOOLEAN)
      BY <1>4, <1>a, JobAt DEF LogAttempt, NoticeHeld
    <2>2. delivery[r][Len(delivery[r])] \in BOOLEAN
      BY <2>1
    <2>3. log' \in [Requests -> Seq(BOOLEAN)]
      BY <1>4, <2>2 DEF LogAttempt
    <2>4. PICK step \in {"post", "commit"} : Continue(r, [job[r] EXCEPT !.at = step])
      BY <1>4, <1>c DEF LogAttempt
    <2>5. Moves(NoticeJobs) /\ job' = [job EXCEPT ![r] = [job[r] EXCEPT !.at = step]]
      BY <1>d, <2>4
    <2>6. QED BY <1>3, <1>4, <2>3, <2>5 DEF LogAttempt
  <1>5. CASE LogFails(r)
    <2>1. PICK step \in {"post", "commit"} : job' = [job EXCEPT ![r] = [job[r] EXCEPT !.at = step]]
      BY <1>5, <1>c DEF LogFails
    <2>2. Moves(NoticeJobs)
      BY <1>5, <1>a, <2>1 DEF LogFails, Moves
    <2>3. QED BY <1>3, <1>5, <2>1, <2>2 DEF LogFails, noticeVars
  <1>6. ASSUME NEW failed \in SUBSET Requests, Commit(r, failed) PROVE Goal
    <2>1. Moves(NoticeJobs) /\ job' = [job EXCEPT ![r] = [job[r] EXCEPT !.at = "balance"]]
      BY <1>6, <1>a, ContinueMoves DEF Commit
    <2>2. status' \in Statuses /\ clients' \in [Businesses -> SUBSET Requests]
          /\ UNCHANGED <<businessVars, tab, watch, delivery, log>>
      BY <1>6 DEF Commit, Emit, Statuses
    <2>3. NoticeHeld'
      BY <1>a, <2>1, <2>2, NoticeHeldKept
    <2>4. QED BY <2>1, <2>2, <2>3
  <1>7. ASSUME NEW failed \in SUBSET Requests, EmitBalance(r, failed) PROVE Goal
    <2>1. Moves(NoticeJobs) /\ job' = [job EXCEPT ![r] = Done]
      BY <1>7, <1>a, FinishMoves DEF EmitBalance
    <2>2. clients' \in [Businesses -> SUBSET Requests]
          /\ UNCHANGED <<businessVars, status, tab, watch, delivery, log>>
      BY <1>7 DEF EmitBalance, Emit
    <2>3. NoticeHeld'
      BY <1>b, <2>1, <2>2, NoticeHeldKept
    <2>4. QED BY <2>1, <2>2, <2>3
  <1>8. QED BY <1>1, <1>2, <1>4, <1>5, <1>6, <1>7

(* What becomes of the row of a customer's page: its time is up, it polls, *)
(* a read is answered or fails.                                            *)
TimedOut(w) == [w EXCEPT !.ticks = MaxTicks, !.end = "timeout"]
Polling(w, s) == [w EXCEPT !.ticks = @ + 1, !.reads = @ \union {<<w.ticks + 1, s>>}]
Gone(w) == [w EXCEPT !.end = "gone"]
Taken(w, n, s) == [w EXCEPT !.reads = @ \ {<<n, s>>}]
FirstTold(w, s) == [w EXCEPT !.first = s, !.last = s, !.late = @ \/ w.end # "no"]
Failing(w, n, s) == [w EXCEPT !.reads = @ \ {<<n, s>>}, !.late = @ \/ w.end # "no",
                              !.end = IF @ = "no" /\ n = 0 THEN "error" ELSE @]

LEMMA WatchTyped ==
    ASSUME NEW w \in WatchRow, NEW n \in 0..MaxTicks, NEW s \in Statuses
    PROVE  /\ TimedOut(w) \in WatchRow /\ Gone(w) \in WatchRow /\ Taken(w, n, s) \in WatchRow
           /\ FirstTold(w, s) \in WatchRow /\ Told(w, s) \in WatchRow /\ Failing(w, n, s) \in WatchRow
           /\ w.ticks < MaxTicks => Polling(w, s) \in WatchRow
  <1> USE NoticeBoundsAssumption
  <1>1. /\ w.late \in BOOLEAN /\ w.reads \subseteq (0..MaxTicks) \X Statuses
        /\ w.ticks \in 0..MaxTicks /\ w.end \in {"no", "complete", "timeout", "error", "gone"}
    BY DEF WatchRow
  <1>2. PICK late \in BOOLEAN : late = (w.late \/ w.end # "no")
    BY <1>1
  <1>3. MaxTicks \in 0..MaxTicks /\ w.reads \ {<<n, s>>} \subseteq (0..MaxTicks) \X Statuses
    BY <1>1
  <1>4. TimedOut(w) \in WatchRow
    BY <1>3 DEF WatchRow, TimedOut
  <1>5. Gone(w) \in WatchRow
    BY DEF WatchRow, Gone
  <1>6. Taken(w, n, s) \in WatchRow
    BY <1>3 DEF WatchRow, Taken
  <1>7. FirstTold(w, s) \in WatchRow
    <2>1. [w EXCEPT !.first = s, !.last = s, !.late = late] \in WatchRow
      BY DEF WatchRow
    <2>2. QED BY <1>2, <2>1 DEF FirstTold
  <1>8. Told(w, s) \in WatchRow
    <2>1. PICK e \in {"no", "complete", "timeout", "error", "gone"} :
             e = (IF w.end = "no" /\ Terminal(s) THEN "complete" ELSE w.end)
      BY <1>1
    <2>2. Told(w, s) \in {[w EXCEPT !.late = late],
                          [w EXCEPT !.last = s, !.late = late, !.end = e]}
      BY <1>2, <2>1 DEF Told
    <2>3. /\ [w EXCEPT !.late = late] \in WatchRow
          /\ [w EXCEPT !.last = s, !.late = late, !.end = e] \in WatchRow
      BY DEF WatchRow
    <2>4. QED BY <2>2, <2>3
  <1>9. Failing(w, n, s) \in WatchRow
    <2>1. PICK e \in {"no", "complete", "timeout", "error", "gone"} :
             e = (IF w.end = "no" /\ n = 0 THEN "error" ELSE w.end)
      BY <1>1
    <2>2. [w EXCEPT !.reads = @ \ {<<n, s>>}, !.late = late, !.end = e] \in WatchRow
      BY <1>3 DEF WatchRow
    <2>3. QED BY <1>2, <2>1, <2>2 DEF Failing
  <1>10. ASSUME w.ticks < MaxTicks PROVE Polling(w, s) \in WatchRow
    <2>1. w.ticks + 1 \in 0..MaxTicks
      BY <1>1, <1>10
    <2>2. w.reads \union {<<w.ticks + 1, s>>} \subseteq (0..MaxTicks) \X Statuses
      BY <1>1, <2>1
    <2>3. QED BY <2>1, <2>2 DEF WatchRow, Polling
  <1>11. QED BY <1>4, <1>5, <1>6, <1>7, <1>8, <1>9, <1>10

(* The fields that decide how a stream ends.                               *)
LEMMA WatchFields ==
    ASSUME NEW w \in WatchRow, NEW n \in 0..MaxTicks, NEW s \in Statuses
    PROVE  /\ TimedOut(w).end = "timeout" /\ Gone(w).end = "gone"
           /\ Polling(w, s).end = w.end /\ Polling(w, s).ticks = w.ticks + 1
           /\ Taken(w, n, s).end = w.end /\ Taken(w, n, s).ticks = w.ticks
           /\ FirstTold(w, s).end = w.end /\ FirstTold(w, s).ticks = w.ticks
           /\ Told(w, s).ticks = w.ticks /\ Failing(w, n, s).ticks = w.ticks
           /\ Told(w, s).end = (IF w.last # s /\ w.end = "no" /\ Terminal(s) THEN "complete"
                                ELSE w.end)
           /\ Failing(w, n, s).end = (IF w.end = "no" /\ n = 0 THEN "error" ELSE w.end)
  BY DEF TimedOut, Gone, Polling, Taken, FirstTold, Told, Failing, WatchRow

(* What each step does to the row, in the words above.                     *)
LEMMA WatchSteps ==
    ASSUME NoticeTypes, NEW r \in Requests, watch[r] # Empty
    PROVE  /\ watch[r] \in WatchRow /\ watch[r].ticks \in 0..MaxTicks /\ status \in Statuses
           /\ Tick(r) => \/ SetWatch(r, TimedOut(watch[r]))
                         \/ /\ SetWatch(r, Polling(watch[r], status))
                            /\ watch[r].ticks + 1 # MaxTicks
           /\ CloseWatch(r) => SetWatch(r, Gone(watch[r]))
           /\ \A n \in 0..MaxTicks, s \in Statuses :
                /\ Answer(r, n, s) =>
                    IF n = 0 THEN SetWatch(r, FirstTold(Taken(watch[r], n, s), s))
                    ELSE SetWatch(r, Told(Taken(watch[r], n, s), s))
                /\ FailRead(r, n, s) =>
                    watch' = [watch EXCEPT ![r] = Failing(watch[r], n, s)]
  <1>1. watch[r] \in WatchRow /\ watch[r].ticks \in 0..MaxTicks /\ status \in Statuses
    BY DEF NoticeTypes, WatchRow
  <1>2. Tick(r) => \/ SetWatch(r, TimedOut(watch[r]))
                   \/ SetWatch(r, Polling(watch[r], status)) /\ watch[r].ticks + 1 # MaxTicks
    BY DEF Tick, TimedOut, Polling
  <1>3. CloseWatch(r) => SetWatch(r, Gone(watch[r]))
    BY DEF CloseWatch, Gone
  <1>4. ASSUME NEW n \in 0..MaxTicks, NEW s \in Statuses
        PROVE  Answer(r, n, s) =>
                    IF n = 0 THEN SetWatch(r, FirstTold(Taken(watch[r], n, s), s))
                    ELSE SetWatch(r, Told(Taken(watch[r], n, s), s))
    BY DEF Answer, Taken, FirstTold
  <1>5. ASSUME NEW n \in 0..MaxTicks, NEW s \in Statuses, FailRead(r, n, s)
        PROVE  watch' = [watch EXCEPT ![r] = Failing(watch[r], n, s)]
    BY <1>5 DEF FailRead, Failing, NoticeTypes, WatchRow
  <1>6. QED BY <1>1, <1>2, <1>3, <1>4, <1>5

(* The steps of the pages write no call of the webhook. *)
LEMMA PageStep ==
    ASSUME JobsOK, NoticeTypes, NoticeHeld,
           \/ \E r \in Requests :
                \/ \E b \in Businesses : OpenTab(r, b) \/ ConfirmPayment(r, b)
                \/ LoseTab(r) \/ CloseTab(r) \/ OpenWatch(r) \/ Tick(r) \/ CloseWatch(r)
                \/ \E n \in 0..MaxTicks, s \in Statuses : Answer(r, n, s) \/ FailRead(r, n, s)
           \/ \E b \in Businesses : \E failed \in SUBSET clients[b] : Heartbeat(b, failed)
           \/ IncompletePayment
    PROVE  Moves(NoticeJobs) /\ NoticeTypes' /\ NoticeHeld' /\ UNCHANGED businessVars
  <1> DEFINE Goal == Moves(NoticeJobs) /\ NoticeTypes' /\ NoticeHeld' /\ UNCHANGED businessVars
  <1>a. Done \notin NoticeJobs
    BY JobsApart
  <1>b. ASSUME NEW r \in Requests, NEW j \in NoticeJobs \union {Done},
               j \in NoticeJobs => j.at # "log", Begin(r, j), UNCHANGED <<businessVars, delivery, log>>,
               status' \in Statuses, tab' \in [Requests -> TabRow \union {Empty}],
               clients' \in [Businesses -> SUBSET Requests],
               watch' \in [Requests -> WatchRow \union {Empty}],
               \A x \in Requests : watch'[x] # Empty /\ watch'[x].end = "no" =>
                    watch'[x].ticks < MaxTicks
        PROVE  Goal
    <2>1. Moves(NoticeJobs) /\ job' = [job EXCEPT ![r] = j]
      BY <1>b, BeginMoves
    <2>2. QED BY <1>a, <1>b, <2>1 DEF NoticeTypes, NoticeHeld, JobsOK
  <1>c. ASSUME UNCHANGED <<job, inSeries, businessVars, delivery, log>>,
               faults' \in {faults, faults + 1},
               status' \in Statuses, tab' \in [Requests -> TabRow \union {Empty}],
               clients' \in [Businesses -> SUBSET Requests],
               watch' \in [Requests -> WatchRow \union {Empty}],
               \A x \in Requests : watch'[x] # Empty /\ watch'[x].end = "no" =>
                    watch'[x].ticks < MaxTicks
        PROVE  Goal
    BY <1>c DEF NoticeTypes, NoticeHeld, Moves
  <1>d. ASSUME NEW r \in Requests, NEW w \in WatchRow, w.end = "no" => w.ticks < MaxTicks,
               watch' = [watch EXCEPT ![r] = w]
        PROVE  /\ watch' \in [Requests -> WatchRow \union {Empty}]
               /\ \A x \in Requests : watch'[x] # Empty /\ watch'[x].end = "no" =>
                    watch'[x].ticks < MaxTicks
    BY <1>d DEF NoticeTypes, NoticeHeld
  <1>e. ASSUME UNCHANGED watch
        PROVE  \A x \in Requests : watch'[x] # Empty /\ watch'[x].end = "no" =>
                    watch'[x].ticks < MaxTicks
    BY <1>e DEF NoticeHeld
  <1> HIDE DEF Goal
  <1>1. ASSUME NEW r \in Requests, NEW b \in Businesses, OpenTab(r, b) PROVE Goal
    <2>1. [business |-> b, connected |-> TRUE] \in TabRow
      BY DEF TabRow
    <2>2. tab' \in [Requests -> TabRow \union {Empty}]
          /\ clients' \in [Businesses -> SUBSET Requests]
      BY <1>1, <2>1 DEF OpenTab, NoticeTypes
    <2>3. QED BY <1>1, <1>a, <1>b, <1>e, <2>2 DEF OpenTab, NoticeTypes
  <1>2. ASSUME NEW r \in Requests, NEW b \in Businesses, ConfirmPayment(r, b) PROVE Goal
    <2>1. PICK j : j = [op |-> "webhook", at |-> "dispatch", business |-> b]
      OBVIOUS
    <2>2. j \in NoticeJobs /\ j.at # "log" /\ Begin(r, j)
      BY <1>2, <2>1 DEF NoticeJobs, ConfirmPayment
    <2>3. QED BY <1>2, <1>b, <1>e, <2>2 DEF ConfirmPayment, NoticeTypes, noticeVars
  <1>3. ASSUME NEW r \in Requests, LoseTab(r) PROVE Goal
    <2>1. [tab[r] EXCEPT !.connected = FALSE] \in TabRow
      BY <1>3 DEF LoseTab, NoticeTypes, TabRow
    <2>2. tab' \in [Requests -> TabRow \union {Empty}]
      BY <1>3, <2>1 DEF LoseTab, NoticeTypes
    <2>3. QED BY <1>3, <1>c, <1>e, <2>2 DEF LoseTab, NoticeTypes, requestVars
  <1>4. ASSUME NEW r \in Requests, CloseTab(r) PROVE Goal
    <2>1. tab' \in [Requests -> TabRow \union {Empty}]
          /\ clients' \in [Businesses -> SUBSET Requests]
      BY <1>4 DEF CloseTab, NoticeTypes, Without
    <2>2. QED BY <1>4, <1>c, <1>e, <2>1 DEF CloseTab, NoticeTypes, requestVars
  <1>5. ASSUME NEW r \in Requests, OpenWatch(r) PROVE Goal
    <2>1. PICK w : w = [ticks |-> 0, reads |-> {<<0, status>>}, first |-> Empty,
                        last |-> Empty, end |-> "no", late |-> FALSE]
      OBVIOUS
    <2>2. w \in WatchRow /\ w.ticks < MaxTicks
      BY <2>1, NoticeBoundsAssumption DEF WatchRow, NoticeTypes
    <2>3. watch' = [watch EXCEPT ![r] = w]
      BY <1>5, <2>1 DEF OpenWatch
    <2>4. QED BY <1>5, <1>a, <1>b, <1>d, <2>2, <2>3 DEF OpenWatch, NoticeTypes
  <1>6. ASSUME NEW r \in Requests, NEW w \in WatchRow, w.end = "no" => w.ticks < MaxTicks,
               SetWatch(r, w)
        PROVE  Goal
    BY <1>6, <1>c, <1>d DEF SetWatch, NoticeTypes, requestVars
  <1>f. ASSUME NEW r \in Requests, watch[r] # Empty
        PROVE  watch[r] \in WatchRow /\ (watch[r].end = "no" => watch[r].ticks < MaxTicks)
               /\ watch[r].ticks \in 0..MaxTicks /\ status \in Statuses
    BY <1>f DEF NoticeTypes, NoticeHeld, WatchRow
  <1>7. ASSUME NEW r \in Requests, Tick(r) PROVE Goal
    <2>1. watch[r] # Empty /\ watch[r].end = "no"
      BY <1>7 DEF Tick, Watching
    <2>2. PICK x : /\ SetWatch(r, x)
                   /\ \/ x = TimedOut(watch[r])
                      \/ x = Polling(watch[r], status) /\ watch[r].ticks + 1 # MaxTicks
      BY <1>7, <2>1, WatchSteps
    <2>3. watch[r] \in WatchRow /\ watch[r].ticks < MaxTicks /\ watch[r].ticks \in 0..MaxTicks
          /\ status \in Statuses /\ 0 \in 0..MaxTicks
      BY <2>1, <1>f, NoticeBoundsAssumption
    <2>4. x \in WatchRow
      BY <2>2, <2>3, WatchTyped
    <2>5. x.end = "no" => x.ticks < MaxTicks
      BY <2>2, <2>3, WatchFields, NoticeBoundsAssumption
    <2>6. QED BY <1>6, <2>2, <2>4, <2>5
  <1>8. ASSUME NEW r \in Requests, CloseWatch(r) PROVE Goal
    <2>1. watch[r] # Empty
      BY <1>8 DEF CloseWatch, Watching
    <2>2. watch[r] \in WatchRow /\ status \in Statuses /\ 0 \in 0..MaxTicks
      BY <2>1, <1>f, NoticeBoundsAssumption
    <2>3. Gone(watch[r]) \in WatchRow /\ Gone(watch[r]).end = "gone"
      BY <2>2, WatchTyped, WatchFields
    <2>4. QED BY <1>6, <1>8, <2>1, <2>3, WatchSteps
  <1>9. ASSUME NEW r \in Requests, NEW n \in 0..MaxTicks, NEW s \in Statuses, Answer(r, n, s)
        PROVE  Goal
    <2>1. watch[r] # Empty
      BY <1>9 DEF Answer
    <2>2. watch[r] \in WatchRow /\ (watch[r].end = "no" => watch[r].ticks < MaxTicks)
      BY <2>1, <1>f
    <2>3. PICK w : w = Taken(watch[r], n, s)
      OBVIOUS
    <2>4. w \in WatchRow /\ w.ticks = watch[r].ticks /\ w.end = watch[r].end
      BY <2>2, <2>3, WatchTyped, WatchFields
    <2>5. PICK x \in {FirstTold(w, s), Told(w, s)} : SetWatch(r, x)
      BY <1>9, <2>1, <2>3, WatchSteps
    <2>6. x \in WatchRow
      BY <2>4, <2>5, WatchTyped
    <2>7. x.ticks = w.ticks /\ (x.end = "no" => w.end = "no")
      BY <2>4, <2>5, WatchFields
    <2>8. QED BY <1>6, <2>2, <2>4, <2>5, <2>6, <2>7
  <1>10. ASSUME NEW r \in Requests, NEW n \in 0..MaxTicks, NEW s \in Statuses, FailRead(r, n, s)
         PROVE  Goal
    <2>1. watch[r] # Empty
      BY <1>10 DEF FailRead
    <2>2. watch[r] \in WatchRow /\ (watch[r].end = "no" => watch[r].ticks < MaxTicks)
      BY <2>1, <1>f
    <2>3. PICK w : w = Failing(watch[r], n, s) /\ watch' = [watch EXCEPT ![r] = w]
      BY <1>10, <2>1, WatchSteps
    <2>4. w \in WatchRow /\ w.ticks = watch[r].ticks /\ (w.end = "no" => watch[r].end = "no")
      BY <2>2, <2>3, WatchTyped, WatchFields
    <2>5. QED BY <1>10, <1>c, <1>d, <2>2, <2>3, <2>4 DEF FailRead, NoticeTypes
  <1>11. ASSUME NEW b \in Businesses, NEW failed \in SUBSET clients[b], Heartbeat(b, failed)
         PROVE  Goal
    <2>1. clients' \in [Businesses -> SUBSET Requests]
      BY <1>11 DEF Heartbeat, Emit, NoticeTypes
    <2>2. QED BY <1>11, <1>c, <1>e, <2>1 DEF Heartbeat, NoticeTypes, requestVars
  <1>12. ASSUME IncompletePayment PROVE Goal
    <2>1. status' \in Statuses
      BY <1>12 DEF IncompletePayment, Statuses
    <2>2. QED BY <1>12, <1>c, <1>e, <2>1 DEF IncompletePayment, NoticeTypes, requestVars
  <1>13. Goal
    BY <1>1, <1>2, <1>3, <1>4, <1>5, <1>7, <1>8, <1>9, <1>10, <1>11, <1>12
  <1>14. QED BY <1>13 DEF Goal

LEMMA NoticeStep ==
    ASSUME JobsOK, NoticeTypes, NoticeHeld, NoticeNext
    PROVE  Moves(NoticeJobs) /\ NoticeTypes' /\ NoticeHeld' /\ UNCHANGED businessVars
  BY PageStep, WebhookStep DEF NoticeNext


-----------------------------------------------------------------------------
(* All parts together. *)

Types ==
    /\ JobsOK /\ IdentityTypes /\ BusinessTypes /\ CredentialTypes /\ NoticeTypes
    /\ IdentityHeld /\ BusinessHeld /\ NoticeHeld

(* What the steps of the other parts do to the jobs of S: nothing, or a    *)
(* handler is ended early.                                                 *)
Framed(S) ==
    /\ inSeries' = inSeries /\ faults' \in {faults, faults + 1}
    /\ \A r \in Requests :
        /\ job'[r] \in S => job'[r] = job[r]
        /\ job[r] \in S /\ faults' = faults => job'[r] = job[r]
        /\ job[r] = Done => job'[r] = Done
        /\ job'[r] = Waiting => job[r] = Waiting

LEMMA MovesFrame ==
    ASSUME JobsOK, NEW S, NEW T, S \intersect T = {}, Waiting \notin S \union T,
           Done \notin S \union T, Moves(S)
    PROVE  Framed(T)
  <1>1. inSeries' = inSeries /\ faults' \in {faults, faults + 1}
    BY DEF Moves
  <1>2. QED BY <1>1, OthersKept DEF Framed

LEMMA BreakFrame ==
    ASSUME JobsOK, NEW r \in Requests, Break(r), NEW T, Waiting \notin T, Done \notin T
    PROVE  Framed(T) /\ JobsOK'
  <1>1. Waiting # Done
    BY JobsApart
  <1>2. Framed(T)
    BY <1>1 DEF Break, Framed, JobsOK, Running
  <1>3. Done \in Jobs
    BY DEF Jobs
  <1>4. QED BY <1>2, <1>3 DEF Break, JobsOK

LEMMA StutterFrame ==
    ASSUME UNCHANGED requestVars, NEW T, JobsOK
    PROVE  Framed(T) /\ JobsOK'
  BY DEF requestVars, Framed, JobsOK

LEMMA HeldInFrame ==
    /\ Types /\ Framed(IdentityJobs) /\ UNCHANGED identityVars => IdentityTypes' /\ IdentityHeld'
    /\ Types /\ Framed(BusinessJobs) /\ UNCHANGED businessVars => BusinessTypes' /\ BusinessHeld'
    /\ Types /\ Framed(NoticeJobs) /\ UNCHANGED noticeVars => NoticeTypes' /\ NoticeHeld'
  <1>1. Types /\ Framed(IdentityJobs) /\ UNCHANGED identityVars => IdentityTypes' /\ IdentityHeld'
    <2>1. ProofJob \subseteq IdentityJobs /\ \A j \in ProofJob : j.challenge \in Challenges
      BY DEF ProofJob, IdentityJobs
    <2>2. QED BY <2>1 DEF Types, IdentityTypes, IdentityHeld, identityVars, Framed
  <1>2. Types /\ Framed(BusinessJobs) /\ UNCHANGED businessVars => BusinessTypes' /\ BusinessHeld'
    <2>1. SignupJob \union AdminJob \union KeysJob \union SettingsJob \subseteq BusinessJobs
      BY DEF BusinessJobs
    <2> SUFFICES ASSUME Types, Framed(BusinessJobs), UNCHANGED businessVars
                 PROVE  BusinessTypes' /\ BusinessHeld'
      OBVIOUS
    <2>2. ASSUME NEW r \in Requests PROVE RowsFor(job'[r], user', setting')
      BY <2>1 DEF Types, BusinessHeld, RowsFor, Framed, businessVars
    <2>3. BusinessTypes'
      BY DEF Types, BusinessTypes, businessVars
    <2>4. QED BY <2>2, <2>3 DEF BusinessHeld
  <1>3. Types /\ Framed(NoticeJobs) /\ UNCHANGED noticeVars => NoticeTypes' /\ NoticeHeld'
    BY DEF Types, NoticeTypes, NoticeHeld, noticeVars, Framed
  <1>4. QED BY <1>1, <1>2, <1>3

(* A step is one of a part of the platform, seen from which the others are *)
(* framed.                                                                 *)
LEMMA PartSteps ==
    ASSUME Types, [Next]_vars
    PROVE  /\ JobsOK'
           /\ (IdentityNext /\ Moves(IdentityJobs)) \/ (Framed(IdentityJobs) /\ UNCHANGED identityVars)
           /\ (BusinessNext /\ Moves(BusinessJobs)) \/ (Framed(BusinessJobs) /\ UNCHANGED businessVars)
           /\ \/ CredentialNext /\ Moves(CredentialJobs)
              \/ Framed(CredentialJobs) /\ UNCHANGED credentialVars
           /\ (NoticeNext /\ Moves(NoticeJobs)) \/ (Framed(NoticeJobs) /\ UNCHANGED noticeVars)
           /\ UNCHANGED businessVars \/ BusinessNext
  <1> USE DEF Types
  <1>a. IdentityJobs \subseteq Jobs /\ BusinessJobs \subseteq Jobs /\ CredentialJobs \subseteq Jobs
        /\ NoticeJobs \subseteq Jobs
    BY DEF Jobs
  <1>1. CASE IdentityNext /\ UNCHANGED <<businessVars, credentialVars, noticeVars>>
    <2>1. Moves(IdentityJobs)
      BY <1>1, IdentityStep
    <2>2. JobsOK'
      BY <1>a, <2>1, MovesTyped
    <2>3. Framed(BusinessJobs) /\ Framed(CredentialJobs) /\ Framed(NoticeJobs)
      BY <2>1, MovesFrame, JobsApart
    <2>4. QED BY <1>1, <2>1, <2>2, <2>3
  <1>2. CASE BusinessNext /\ UNCHANGED <<identityVars, credentialVars, noticeVars>>
    <2>1. Moves(BusinessJobs)
      BY <1>2, BusinessStep
    <2>2. JobsOK'
      BY <1>a, <2>1, MovesTyped
    <2>3. Framed(IdentityJobs) /\ Framed(CredentialJobs) /\ Framed(NoticeJobs)
      BY <2>1, MovesFrame, JobsApart
    <2>4. QED BY <1>2, <2>1, <2>2, <2>3
  <1>3. CASE CredentialNext /\ UNCHANGED <<identityVars, noticeVars>>
    <2>1. Moves(CredentialJobs) /\ UNCHANGED businessVars
      BY <1>3, CredentialStep
    <2>2. JobsOK'
      BY <1>a, <2>1, MovesTyped
    <2>3. Framed(IdentityJobs) /\ Framed(BusinessJobs) /\ Framed(NoticeJobs)
      BY <2>1, MovesFrame, JobsApart
    <2>4. QED BY <1>3, <2>1, <2>2, <2>3
  <1>4. CASE NoticeNext /\ UNCHANGED <<identityVars, credentialVars>>
    <2>1. Moves(NoticeJobs) /\ UNCHANGED businessVars
      BY <1>4, NoticeStep
    <2>2. JobsOK'
      BY <1>a, <2>1, MovesTyped
    <2>3. Framed(IdentityJobs) /\ Framed(BusinessJobs) /\ Framed(CredentialJobs)
      BY <2>1, MovesFrame, JobsApart
    <2>4. QED BY <1>4, <2>1, <2>2, <2>3
  <1>5. ASSUME NEW r \in Requests, BreakRequest(r)
        PROVE  /\ JobsOK' /\ Framed(IdentityJobs) /\ Framed(BusinessJobs)
               /\ Framed(CredentialJobs) /\ Framed(NoticeJobs)
               /\ UNCHANGED <<identityVars, businessVars, credentialVars, noticeVars>>
    BY <1>5, BreakFrame, JobsApart DEF BreakRequest
  <1>6. CASE UNCHANGED vars
    BY <1>6, StutterFrame DEF vars
  <1>7. QED BY <1>1, <1>2, <1>3, <1>4, <1>5, <1>6 DEF Next

LEMMA TypesInit == ASSUME Init PROVE Types
  <1> USE DEF Init
  <1>1. JobsOK
    BY DEF RequestsInit, JobsOK, Jobs
  <1>2. \A r \in Requests : job[r] = Waiting
    BY DEF RequestsInit
  <1>3. IdentityTypes
    BY DEF IdentityInit, IdentityTypes, Accounts
  <1>4. BusinessTypes
    <2>1. user \in [Businesses -> UserRow \union {Empty}]
      BY DEF BusinessInit, UserRow
    <2>2. setting \in [Businesses -> SettingRow \union {Empty}]
      BY NewSettingRow DEF BusinessInit
    <2>3. shown \in [Businesses -> [test : Key, live : Key, secret : Key]]
      BY DEF BusinessInit, Key
    <2>4. QED BY <2>1, <2>2, <2>3 DEF BusinessInit, BusinessTypes
  <1>5. CredentialTypes
    BY DEF CredentialInit, CredentialTypes, Key, Holders
  <1>6. NoticeTypes
    <2>1. \A f : f = [r \in Requests |-> <<>>] => f \in [Requests -> Seq(BOOLEAN)]
      OBVIOUS
    <2>2. QED BY <2>1 DEF NoticeInit, NoticeTypes, Statuses
  <1>7. IdentityHeld /\ BusinessHeld
    BY <1>2, JobsApart DEF IdentityHeld, BusinessHeld, RowsFor, IdentityJobs, BusinessJobs
  <1>8. NoticeHeld
    BY <1>2, JobsApart DEF NoticeHeld, NoticeInit
  <1>9. QED BY <1>1, <1>3, <1>4, <1>5, <1>6, <1>7, <1>8 DEF Types

LEMMA TypesKept ==
    ASSUME Types, [Next]_vars
    PROVE  Types'
  <1> USE DEF Types
  <1>1. JobsOK'
    BY PartSteps
  <1>2. IdentityTypes' /\ IdentityHeld'
    BY PartSteps, IdentityStep, HeldInFrame
  <1>3. BusinessTypes' /\ BusinessHeld'
    BY PartSteps, BusinessStep, HeldInFrame
  <1>4. CredentialTypes'
    <2>1. UNCHANGED credentialVars => CredentialTypes'
      BY DEF CredentialTypes, credentialVars
    <2>2. QED BY <2>1, PartSteps, CredentialStep
  <1>5. NoticeTypes' /\ NoticeHeld'
    BY PartSteps, NoticeStep, HeldInFrame
  <1>6. QED BY <1>1, <1>2, <1>3, <1>4, <1>5

(* The rows of wallets, businesses, passwords and pages keep their types,  *)
(* for any number of requests that overlap in any way.                     *)
THEOREM TypeCorrect == Spec => []TypeOK
  <1>1. Init => Types
    BY TypesInit
  <1>2. Types /\ [Next]_vars => Types'
    BY TypesKept
  <1>3. Types => TypeOK
    BY DEF Types, TypeOK
  <1>4. QED BY <1>1, <1>2, <1>3, PTL DEF Spec


-----------------------------------------------------------------------------
(* Passwords: a handler that will save one was let do so. *)

PasswordsGranted ==
    /\ ChangedRightly
    /\ \A r \in Requests : job[r] \in PasswordJob =>
            [request |-> r, account |-> job[r].account, rightly |-> TRUE] \in grants

(* A step leaves what was granted; it lets a handler change a password,    *)
(* saves one, or does neither.                                             *)
LEMMA PasswordSteps ==
    ASSUME Types, CredentialNext
    PROVE  /\ grants \subseteq grants'
           /\ \/ /\ UNCHANGED password
                 /\ \A r \in Requests : job'[r] \in PasswordJob => job'[r] = job[r]
              \/ \E r \in Requests, a \in Holders :
                    UNCHANGED password /\ ChangePassword(r, a, TRUE)
              \/ \E r \in Requests : SavePassword(r)
  <1> USE DEF Types, JobsOK
  <1>a. Done \notin PasswordJob /\ \A j \in LoginJob : j \notin PasswordJob
    BY JobsApart DEF CredentialJobs, PasswordJob, LoginJob
  <1> DEFINE Goal == /\ grants \subseteq grants'
                     /\ \/ /\ UNCHANGED password
                           /\ \A r \in Requests : job'[r] \in PasswordJob => job'[r] = job[r]
                        \/ \E r \in Requests, a \in Holders :
                              UNCHANGED password /\ ChangePassword(r, a, TRUE)
                        \/ \E r \in Requests : SavePassword(r)
  <1>b. ASSUME NEW r \in Requests, NEW j, j \notin PasswordJob, job' = [job EXCEPT ![r] = j],
               UNCHANGED <<password, grants>>
        PROVE  Goal
    BY <1>b
  <1>c. ASSUME NEW r \in Requests, Begin(r, Done) \/ Finish(r), UNCHANGED <<password, grants>>
        PROVE  Goal
    BY <1>a, <1>b, <1>c DEF Begin, Finish, Continue
  <1> HIDE DEF Goal
  <1>1. ASSUME NEW r \in Requests, NEW a \in Holders, SendCode(r, a) PROVE Goal
    BY <1>1, <1>c DEF SendCode
  <1>2. ASSUME NEW r \in Requests, NEW a \in Holders, ChangePassword(r, a, TRUE), UNCHANGED password
        PROVE  Goal
    BY <1>2 DEF ChangePassword, Goal
  <1>3. ASSUME NEW r \in Requests, NEW a \in Holders, NEW c \in Requests, Reset(r, a, c) PROVE Goal
    <2>1. CASE ValidCode(c, a)
      <3>1. ChangePassword(r, a, code[c] = a /\ c \notin expired) /\ UNCHANGED password
        BY <1>3, <2>1 DEF Reset
      <3>2. (code[c] = a /\ c \notin expired) = TRUE
        BY <2>1 DEF ValidCode
      <3>3. QED BY <1>2, <3>1, <3>2
    <2>2. CASE ~ValidCode(c, a)
      BY <1>3, <1>c, <2>2 DEF Reset
    <2>3. QED BY <2>1, <2>2
  <1>4. ASSUME NEW r \in Requests, NEW a \in Admins, NEW tried \in Chosen,
               UpdateAdminPassword(r, a, tried)
        PROVE  Goal
    <2>1. CASE Matches(a, tried)
      <3>1. ChangePassword(r, a, password[a] = tried) /\ UNCHANGED password /\ a \in Holders
        BY <1>4, <2>1 DEF UpdateAdminPassword, Holders
      <3>2. (password[a] = tried) = TRUE
        BY <2>1 DEF Matches
      <3>3. QED BY <1>2, <3>1, <3>2
    <2>2. CASE ~Matches(a, tried)
      BY <1>4, <1>c, <2>2 DEF UpdateAdminPassword
    <2>3. QED BY <2>1, <2>2
  <1>5. ASSUME NEW r \in Requests, SavePassword(r) PROVE Goal
    <2>1. grants \subseteq grants'
      BY <1>5 DEF SavePassword
    <2>2. QED BY <1>5, <2>1 DEF Goal
  <1>6. ASSUME NEW r \in Requests, NEW a \in Holders, NEW tried \in Key, NEW known \in BOOLEAN,
               TryLogin(r, a, tried, known)
        PROVE  Goal
    <2>1. [op |-> "login", at |-> "attempt", account |-> a, tried |-> tried] \in LoginJob
      BY DEF LoginJob
    <2>2. PICK j \in LoginJob \union {Done} : Begin(r, j)
      BY <1>6, <2>1 DEF TryLogin
    <2>3. QED BY <1>6, <1>a, <1>b, <2>2 DEF TryLogin, Begin, credentialVars
  <1>7. ASSUME NEW r \in Requests, NEW a \in Holders, NEW tried \in Chosen,
               \/ a \in Businesses /\ Login(r, a, tried)
               \/ a \in Admins /\ AdminLogin(r, a, tried)
        PROVE  Goal
    <2>1. tried \in Key
      BY <1>7 DEF Chosen, CredentialTypes, Key
    <2>2. \E known \in BOOLEAN : TryLogin(r, a, tried, known)
      BY <1>7 DEF Login, AdminLogin, Matches
    <2>3. QED BY <1>6, <2>1, <2>2
  <1>8. ASSUME NEW r \in Requests, Attempt(r) PROVE Goal
    BY <1>8, <1>c DEF Attempt
  <1>9. ASSUME NEW r \in Requests, NEW x \in Requests, Logout(r, x) PROVE Goal
    BY <1>9, <1>c DEF Logout
  <1>10. ASSUME NEW r \in Requests, NEW new, SetBlocked(r, new) PROVE Goal
    BY <1>10, <1>c DEF SetBlocked
  <1>11. ASSUME NEW c \in Requests, ExpireCode(c) PROVE Goal
    BY <1>11 DEF ExpireCode, requestVars, Goal
  <1>d. Businesses \subseteq Holders /\ Admins \subseteq Holders
    BY DEF Holders
  <1>12. ASSUME NEW r \in Requests, NEW a \in Holders,
                \/ ForgotPassword(r, a) \/ AdminForgotPassword(r, a)
                \/ \E c \in Requests : ResetPassword(r, a, c) \/ AdminResetPassword(r, a, c)
         PROVE  Goal
    BY <1>1, <1>3, <1>12 DEF ForgotPassword, AdminForgotPassword, ResetPassword, AdminResetPassword
  <1>13. ASSUME NEW r \in Requests, NEW b \in Businesses,
                \/ \E tried \in Chosen : Login(r, b, tried)
                \/ BlockUser(r, b) \/ UnblockUser(r, b)
         PROVE  Goal
    BY <1>7, <1>10, <1>13, <1>d DEF BlockUser, UnblockUser
  <1>14. ASSUME NEW r \in Requests, NEW a \in Admins,
                \/ \E tried \in Chosen : AdminLogin(r, a, tried) \/ UpdateAdminPassword(r, a, tried)
                \/ BlockAdmin(r, a) \/ UnblockAdmin(r, a)
         PROVE  Goal
    BY <1>4, <1>7, <1>10, <1>14, <1>d DEF BlockAdmin, UnblockAdmin
  <1>15. Goal
    BY <1>5, <1>8, <1>9, <1>11, <1>12, <1>13, <1>14 DEF CredentialNext
  <1>16. QED BY <1>15 DEF Goal

LEMMA PasswordsGrantedKept ==
    ASSUME Types, PasswordsGranted, [Next]_vars
    PROVE  PasswordsGranted'
  <1> USE DEF PasswordsGranted, ChangedRightly
  <1>a. PasswordJob \subseteq CredentialJobs
    BY DEF CredentialJobs
  <1>b. job \in [Requests -> Jobs] /\ password \in [Holders -> Key]
    BY DEF Types, JobsOK, CredentialTypes
  <1>1. CASE Framed(CredentialJobs) /\ UNCHANGED credentialVars
    BY <1>1, <1>a DEF Framed, credentialVars
  <1>2. CASE CredentialNext
    <2>1. grants \subseteq grants'
      BY <1>2, PasswordSteps
    <2>2. CASE /\ UNCHANGED password
               /\ \A r \in Requests : job'[r] \in PasswordJob => job'[r] = job[r]
      BY <2>1, <2>2
    <2>3. ASSUME NEW r \in Requests, NEW a \in Holders, UNCHANGED password, ChangePassword(r, a, TRUE)
          PROVE  PasswordsGranted'
      BY <2>1, <2>3, <1>b DEF ChangePassword, Begin
    <2>4. ASSUME NEW r \in Requests, SavePassword(r)
          PROVE  PasswordsGranted'
      <3>1. job[r] \in PasswordJob /\ Done \notin PasswordJob
        BY <2>4, JobAt, JobsApart, <1>a DEF SavePassword, Types
      <3>2. PICK a \in Holders : job[r].account = a
        BY <3>1 DEF PasswordJob
      <3>3. /\ password' = [password EXCEPT ![a] = r] /\ job' = [job EXCEPT ![r] = Done]
            /\ grants' = grants
        BY <2>4, <3>2 DEF SavePassword, Finish, Continue
      <3>4. QED BY <1>b, <3>1, <3>2, <3>3
    <2>5. QED BY <1>2, <2>2, <2>3, <2>4, PasswordSteps
  <1>3. QED BY <1>1, <1>2, PartSteps

(* However requests overlap: whoever changed a password was let do so, by  *)
(* a code sent to that account that had not expired or by the password it  *)
(* had.                                                                    *)
THEOREM PasswordsChangedRightly == Spec => []ChangedRightly
  <1>1. Init => Types /\ PasswordsGranted
    <2>1. Init => Types
      BY TypesInit
    <2>2. ASSUME Init PROVE PasswordsGranted
      <3>1. \A r \in Requests : job[r] \notin PasswordJob
        BY <2>2, JobsApart DEF Init, RequestsInit, CredentialJobs
      <3>2. \A a \in Holders : password[a] = Empty
        BY <2>2 DEF Init, CredentialInit
      <3>3. QED BY <3>1, <3>2 DEF PasswordsGranted, ChangedRightly
    <2>3. QED BY <2>1, <2>2
  <1>2. Types /\ PasswordsGranted /\ [Next]_vars => (Types /\ PasswordsGranted)'
    BY TypesKept, PasswordsGrantedKept
  <1>3. PasswordsGranted => ChangedRightly
    BY DEF PasswordsGranted
  <1>4. QED BY <1>1, <1>2, <1>3, PTL DEF Spec


-----------------------------------------------------------------------------
(* One at a time: a handler that runs is alone. *)

Alone == inSeries => \A r, q \in Running : r = q

LEMMA RestsBefore ==
    ASSUME Alone, inSeries, Cardinality(Running) < 1
    PROVE  Running = {}
  <1>1. SUFFICES ASSUME NEW q \in Running PROVE FALSE
    OBVIOUS
  <1>2. Running = {q}
    BY <1>1 DEF Alone
  <1>3. Cardinality({q}) = 1
    BY FS_Singleton
  <1>4. QED BY <1>2, <1>3

(* Of a handler that moves, the others are at rest. *)
LEMMA OnlyOne ==
    ASSUME Alone, inSeries, NEW S, Waiting \notin S, Done \notin S, Moves(S)
    PROVE  \/ job' = job
           \/ \E r \in Requests, j \in S \union {Done} :
                /\ job' = [job EXCEPT ![r] = j] /\ Running \subseteq {r}
                /\ job[r] \in S \union {Waiting}
  <1>1. ASSUME NEW r \in Requests, job[r] \in S PROVE Running \subseteq {r}
    BY <1>1 DEF Alone, Running
  <1>2. QED BY <1>1, RestsBefore DEF Moves

LEMMA AloneKeptByMoves ==
    ASSUME JobsOK, Alone, NEW S, Waiting \notin S, Done \notin S, Moves(S)
    PROVE  Alone'
  <1> SUFFICES ASSUME inSeries, NEW q \in Running', NEW z \in Running' PROVE q = z
    BY DEF Moves, Alone
  <1>1. CASE job' = job
    BY <1>1 DEF Running, Alone
  <1>2. ASSUME NEW r \in Requests, NEW j, job' = [job EXCEPT ![r] = j], Running \subseteq {r}
        PROVE  q = z
    BY <1>2 DEF Running, JobsOK
  <1>3. QED BY <1>1, <1>2, OnlyOne

LEMMA AloneKept ==
    ASSUME Types, Alone, [Next]_vars
    PROVE  Alone'
  <1>1. JobsOK /\ JobsOK'
    BY PartSteps DEF Types
  <1>2. CASE Moves(IdentityJobs) \/ Moves(BusinessJobs) \/ Moves(CredentialJobs)
             \/ Moves(NoticeJobs)
    BY <1>1, <1>2, AloneKeptByMoves, JobsApart
  <1>3. CASE Framed(IdentityJobs) /\ Framed(BusinessJobs) /\ Framed(CredentialJobs)
             /\ Framed(NoticeJobs)
    <2>1. \A r \in Running' : r \in Running
      BY <1>1, <1>3 DEF JobsOK, Jobs, Framed, Running
    <2>2. inSeries' = inSeries
      BY <1>3 DEF Framed
    <2>3. QED BY <2>1, <2>2 DEF Alone
  <1>4. QED BY <1>2, <1>3, PartSteps

LEMMA AloneInit == ASSUME Init PROVE Alone
  BY DEF Init, RequestsInit, Alone, Running

-----------------------------------------------------------------------------
(* A challenge is accepted once. *)

Uses(c) == IF challenge[c] # NoOne /\ challenge[c].used THEN 1 ELSE 0

(* It was accepted no more often than it is marked as used. *)
UsesCounted == \A c \in Challenges : accepted[c] <= Uses(c)

LEMMA UsesCountedKept ==
    ASSUME Types, UsesCounted, [Next]_vars
    PROVE  UsesCounted'
  <1> USE DEF UsesCounted, Uses
  <1>a. challenge \in [Challenges -> ChallengeRow \union {NoOne}]
        /\ accepted \in [Challenges -> Nat]
    BY DEF Types, IdentityTypes
  <1>b. CASE UNCHANGED <<challenge, accepted>>
    BY <1>b
  <1>1. ASSUME NEW r \in Requests, NEW c \in Challenges, NEW s \in Subjects, Challenge(r, c, s)
        PROVE  UsesCounted'
    BY <1>1, <1>a DEF Challenge
  <1>2. ASSUME NEW c \in Challenges, Expire(c) PROVE UsesCounted'
    BY <1>2, <1>a, NullChallengeAssumption DEF Expire, ChallengeRow
  <1>3. ASSUME NEW r \in Requests, Consume(r) PROVE UsesCounted'
    <2>1. job[r] \in ProofJob
      BY <1>3, JobAt DEF Consume, Types
    <2>2. PICK c \in Challenges : job[r].challenge = c /\ challenge[c] \in ChallengeRow
      BY <2>1, <1>a DEF ProofJob, Types, IdentityHeld
    <2>3. CASE Consumable(c)
      <3>1. /\ challenge' = [challenge EXCEPT ![c].used = TRUE]
            /\ accepted' = [accepted EXCEPT ![c] = @ + 1]
        BY <1>3, <2>2, <2>3 DEF Consume
      <3>2. [challenge[c] EXCEPT !.used = TRUE] \in ChallengeRow
            /\ [challenge[c] EXCEPT !.used = TRUE].used
        BY <2>2 DEF ChallengeRow
      <3>3. accepted[c] = 0
        BY <1>a, <2>3 DEF Consumable
      <3>7. challenge'[c] = [challenge[c] EXCEPT !.used = TRUE]
        BY <1>a, <3>1
      <3>8. accepted'[c] <= 1
        BY <1>a, <3>1, <3>3
      <3>4. accepted'[c] <= 1 /\ challenge'[c] # NoOne /\ challenge'[c].used
        BY <3>2, <3>7, <3>8, NullChallengeAssumption
      <3>5. \A x \in Challenges \ {c} : accepted'[x] = accepted[x] /\ challenge'[x] = challenge[x]
        BY <1>a, <3>1
      <3>6. QED BY <3>4, <3>5
    <2>4. CASE ~Consumable(c)
      BY <1>3, <1>b, <2>2, <2>4 DEF Consume
    <2>5. QED BY <2>3, <2>4
  <1>4. CASE IdentityNext
    <2>1. ASSUME NEW r \in Requests, NEW op, NEW c, NEW u, NEW e, Prove(r, op, c, u, e)
          PROVE  UNCHANGED <<challenge, accepted>>
      BY <2>1 DEF Prove, identityVars
    <2>2. ASSUME NEW r \in Requests, NEW u, NEW s,
                 \/ Unlink(r, u, s) \/ FindOwner(r) \/ CreateCccUser(r) \/ FindIdentity(r)
                 \/ SaveIdentity(r) \/ GenerateToken(r)
          PROVE  UNCHANGED <<challenge, accepted>>
      BY <2>2 DEF Unlink, FindOwner, CreateCccUser, FindIdentity, SaveIdentity, GenerateToken,
            identityVars
    <2>3. QED BY <1>1, <1>2, <1>3, <1>4, <1>b, <2>1, <2>2 DEF IdentityNext, Verify, Link
  <1>5. CASE UNCHANGED identityVars
    BY <1>5, <1>b DEF identityVars
  <1>6. QED BY <1>4, <1>5, PartSteps


-----------------------------------------------------------------------------
(* One at a time: who a wallet belongs to. *)

(* What a handler has found out about the owner still holds: no other has  *)
(* changed it meanwhile.                                                   *)
OwnerFits(j, owners) ==
    /\ j \in CreateJob => owners[j.subject] = NoOne
    /\ j \in SaveJob \union WriteJob => owners[j.subject] \in {NoOne, j.user}
    /\ j \in WriteJob => j.found = owners[j.subject]
    /\ j \in TokenJob => owners[j.subject] = j.user

OwnersFound == inSeries => \A r \in Requests : OwnerFits(job[r], identity)

(* A provisional account has its wallet, or a handler is about to give it. *)
Gives(j, s) == j \in SaveJob \union WriteJob /\ j.subject = s /\ j.user = s

Provided ==
    inSeries /\ faults = 0 =>
        \A s \in provisional : identity[s] = s \/ \E r \in Requests : Gives(job[r], s)

OwnersStay == \A s \in Subjects : identity[s] # NoOne => identity'[s] \in {identity[s], NoOne}

(* Who is signed in with a wallet is the account it belongs to.            *)
OwnersSignedIn ==
    \A r \in Requests : token'[r] # token[r] => identity[job[r].subject] = token'[r]

LEMMA IdentityJobKinds ==
    ASSUME NEW j
    PROVE  /\ j \in ProofJob \union FindJob \union {Waiting, Done} =>
                j \notin CreateJob \union SaveJob \union WriteJob \union TokenJob
           /\ j \in SaveJob \union WriteJob => j \notin CreateJob \union TokenJob
           /\ j \in SaveJob => j \notin WriteJob
           /\ j \in CreateJob => j \notin SaveJob \union WriteJob \union TokenJob
           /\ j \in TokenJob => j \notin CreateJob \union SaveJob \union WriteJob
  BY DEF ProofJob, FindJob, CreateJob, SaveJob, WriteJob, TokenJob, Waiting, Done

LEMMA OwnersStep ==
    ASSUME Types, Alone, OwnersFound, Provided, inSeries, IdentityNext
    PROVE  OwnersFound' /\ Provided' /\ OwnersStay
  <1> DEFINE Goal == OwnersFound' /\ Provided' /\ OwnersStay
  <1>a. /\ job \in [Requests -> Jobs] /\ identity \in [Subjects -> Accounts \union {NoOne}]
        /\ provisional \subseteq Subjects
        /\ JobsOK /\ IdentityTypes /\ IdentityHeld
    BY DEF Types, JobsOK, IdentityTypes
  <1>b. /\ NoOne \notin Subjects /\ NoOne \notin Accounts /\ Members \intersect Subjects = {}
        /\ Subjects \subseteq Accounts /\ Members \subseteq Accounts
    BY AccountsAssumption DEF Accounts
  <1>c. ASSUME NEW r \in Requests, Running \subseteq {r}, NEW q \in Requests \ {r}
        PROVE  job[q] \in {Waiting, Done}
    BY <1>c DEF Running
  (* A handler goes on, with what it has found or made. *)
  <1>d. ASSUME NEW r \in Requests, Running \subseteq {r}, NEW j,
               job' = [job EXCEPT ![r] = j], UNCHANGED <<inSeries, faults>>, OwnerFits(j, identity'),
               OwnersStay,
               faults = 0 => \A s \in provisional' :
                    \/ identity'[s] = s \/ Gives(j, s)
                    \/ s \in provisional /\ identity'[s] = identity[s] /\ ~Gives(job[r], s)
        PROVE  Goal
    <2>1. \A q \in Requests \ {r} : job'[q] = job[q] /\ job[q] \in {Waiting, Done}
      BY <1>a, <1>c, <1>d
    <2>2. job'[r] = j
      BY <1>a, <1>d
    <2>3. OwnersFound'
      <3>1. ASSUME NEW q \in Requests \ {r} PROVE OwnerFits(job'[q], identity')
        BY <2>1, IdentityJobKinds DEF OwnerFits
      <3>2. QED BY <1>d, <2>2, <3>1 DEF OwnersFound
    <2>4. \A q \in Requests, s \in Subjects : Gives(job[q], s) => q = r
      BY <2>1, IdentityJobKinds DEF Gives
    <2>5. Provided'
      BY <1>a, <1>d, <2>2, <2>4 DEF Provided
    <2>6. QED BY <1>d, <2>3, <2>5
  <1>e. ASSUME NEW r \in Requests, r \in Running PROVE Running \subseteq {r}
    BY <1>e DEF Alone
  <1>f. ASSUME NEW r \in Requests, NEW j, Begin(r, j)
        PROVE  Running \subseteq {r} /\ ~\E s \in Subjects : Gives(job[r], s)
    BY <1>f, RestsBefore, IdentityJobKinds DEF Begin, Gives
  <1>g. ASSUME NEW j \in {Done} \union ProofJob \union FindJob, NEW owners
        PROVE  OwnerFits(j, owners)
    BY IdentityJobKinds DEF OwnerFits
  (* What tells nothing of an owner: *)
  <1>h. ASSUME NEW r \in Requests, NEW j \in {Done} \union ProofJob \union FindJob,
               Begin(r, j) \/ (job[r] \in ProofJob \union FindJob /\ r \in Running /\ Continue(r, j)),
               UNCHANGED <<identity, provisional>>
        PROVE  Goal
    <2>1. job' = [job EXCEPT ![r] = j] /\ UNCHANGED <<inSeries, faults>>
      BY <1>h DEF Begin, Continue
    <2>2. Running \subseteq {r} /\ ~\E s \in Subjects : Gives(job[r], s)
      BY <1>e, <1>f, <1>h, IdentityJobKinds DEF Gives
    <2>3. OwnerFits(j, identity')
      BY <1>g
    <2>4. OwnersStay
      BY <1>h DEF OwnersStay
    <2>5. QED BY <1>a, <1>d, <1>h, <2>1, <2>2, <2>3, <2>4
  <1> HIDE DEF Goal
  <1>1. ASSUME NEW r \in Requests, NEW c \in Challenges, NEW s \in Subjects, Challenge(r, c, s)
        PROVE  Goal
    BY <1>1, <1>h DEF Challenge
  <1>2. ASSUME NEW r \in Requests, NEW op \in {"verify", "link"}, NEW c \in Challenges,
               NEW u \in Accounts \union {NoOne}, NEW e \in Members \union {NoOne},
               Prove(r, op, c, u, e)
        PROVE  Goal
    <2>1. [op |-> op, at |-> "consume", challenge |-> c, user |-> u, email |-> e] \in ProofJob
      BY DEF ProofJob
    <2>2. PICK j \in ProofJob \union {Done} : Begin(r, j)
      BY <1>2, <2>1 DEF Prove
    <2>3. QED BY <1>2, <1>h, <2>2 DEF Prove, identityVars
  <1>3. ASSUME NEW r \in Requests, NEW u \in SignedIn, NEW s \in Subjects, Unlink(r, u, s)
        PROVE  Goal
    <2>1. Begin(r, Done) /\ UNCHANGED provisional
      BY <1>3 DEF Unlink
    <2>2. identity' = identity
          \/ (identity' = [identity EXCEPT ![s] = NoOne] /\ identity[s] = u /\ u \in Members)
      BY <1>3 DEF Unlink, Recoverable
    <2>3. OwnersStay
      BY <1>a, <2>2 DEF OwnersStay
    <2>4. \A x \in provisional : identity[x] = x => identity'[x] = x
      BY <1>a, <1>b, <2>2
    <2>5. ASSUME faults = 0, NEW x \in provisional PROVE identity'[x] = x
      <3>1. \A q \in Requests : job[q] \in {Waiting, Done}
        BY <1>c, <1>f, <2>1 DEF Begin
      <3>2. identity[x] = x
        BY <2>5, <3>1, IdentityJobKinds DEF Provided, Gives
      <3>3. QED BY <2>4, <3>2
    <2>6. OwnerFits(Done, identity')
      BY <1>g
    <2>7. QED BY <1>d, <1>f, <2>1, <2>3, <2>5, <2>6 DEF Begin
  <1>4. ASSUME NEW r \in Requests, Consume(r) PROVE Goal
    <2>1. job[r] \in ProofJob /\ r \in Running
      BY <1>4, <1>a, JobAt DEF Consume
    <2>2. PICK c \in Challenges : job[r].challenge = c /\ challenge[c] \in ChallengeRow
      BY <2>1, <1>a DEF ProofJob, IdentityHeld, IdentityTypes
    <2>3. [op |-> job[r].op, at |-> "find", subject |-> challenge[c].subject,
           user |-> job[r].user, email |-> job[r].email] \in FindJob
      BY <2>1, <2>2 DEF FindJob, ProofJob, ChallengeRow
    <2>4. PICK j \in FindJob \union {Done} : Continue(r, j)
      BY <1>4, <2>2, <2>3 DEF Consume, Finish
    <2>5. QED BY <1>4, <1>h, <2>1, <2>4 DEF Consume
  <1>5. ASSUME NEW r \in Requests, FindOwner(r) PROVE Goal
    <2>1. job[r] \in FindJob /\ r \in Running
      BY <1>5, <1>a, JobAt DEF FindOwner
    <2>2. PICK s \in Subjects, u \in Accounts \union {NoOne}, e \in Members \union {NoOne} :
             job[r].subject = s /\ job[r].user = u /\ job[r].email = e
      BY <2>1 DEF FindJob
    <2>3. CASE Foreign(identity[s], u)
      BY <1>5, <1>h, <2>1, <2>2, <2>3 DEF FindOwner, Finish, identityVars
    <2>4. CASE ~Foreign(identity[s], u)
      <3>1. \A x : LET new == Save(job[r].op, s, x) IN
                   new.subject = s /\ new.user = x /\ new \notin WriteJob
        BY DEF Save, WriteJob
      <3>2. \A x : x \in {identity[s]} \/ identity[s] = NoOne =>
                OwnerFits(Save(job[r].op, s, x), identity)
        BY <3>1 DEF OwnerFits, CreateJob, TokenJob, Save
      <3>3. identity[s] = NoOne =>
                OwnerFits([op |-> "verify", at |-> "create", subject |-> s], identity)
        BY DEF OwnerFits, SaveJob, WriteJob, TokenJob
      <3>4. PICK j : Continue(r, j) /\ OwnerFits(j, identity)
        <4>1. Continue(r, IF u # NoOne THEN Save(job[r].op, s, u)
                          ELSE IF identity[s] # NoOne THEN Save(job[r].op, s, identity[s])
                          ELSE IF e # NoOne THEN Save(job[r].op, s, e)
                          ELSE [op |-> "verify", at |-> "create", subject |-> s])
          BY <1>5, <2>2, <2>4 DEF FindOwner
        <4>2. u # NoOne => u \in {identity[s]} \/ identity[s] = NoOne
          BY <2>4 DEF Foreign
        <4>3. QED BY <3>2, <3>3, <4>1, <4>2
      <3>5. UNCHANGED <<identity, provisional>> /\ OwnersStay
        BY <1>5 DEF FindOwner, identityVars, OwnersStay
      <3>6. \A x \in Subjects : ~Gives(job[r], x)
        BY <2>1, IdentityJobKinds DEF Gives
      <3>7. QED BY <1>a, <1>d, <1>e, <2>1, <3>4, <3>5, <3>6 DEF Continue
    <2>5. QED BY <2>3, <2>4
  <1>6. ASSUME NEW r \in Requests, CreateCccUser(r) PROVE Goal
    <2>1. job[r] \in CreateJob /\ r \in Running
      BY <1>6, <1>a, JobAt DEF CreateCccUser
    <2>2. PICK s \in Subjects : job[r].subject = s
      BY <2>1 DEF CreateJob
    <2>3. identity[s] = NoOne /\ UNCHANGED identity /\ provisional' = provisional \union {s}
      BY <1>6, <2>1, <2>2 DEF OwnersFound, OwnerFits, CreateCccUser
    <2>4. \A x \in Subjects : ~Gives(job[r], x)
      BY <2>1, IdentityJobKinds DEF Gives
    <2>5. faults = 0 => s \notin provisional
      <3>1. \A q \in Requests, x \in Subjects : ~Gives(job[q], x)
        BY <1>c, <1>e, <2>1, <2>4, IdentityJobKinds DEF Gives
      <3>2. QED BY <1>b, <2>3, <3>1 DEF Provided
    <2>6. LET new == Save("verify", s, s) IN new \in SaveJob /\ new.subject = s /\ new.user = s
      BY <1>b DEF Save, SaveJob
    <2>7. Gives(Save("verify", s, s), s) /\ OwnerFits(Save("verify", s, s), identity')
      BY <2>3, <2>6, IdentityJobKinds DEF Gives, OwnerFits
    <2>8. OwnersStay
      BY <2>3 DEF OwnersStay
    <2>9. CASE s \in provisional
      <3>1. Continue(r, Done) /\ faults # 0
        BY <1>6, <2>2, <2>5, <2>9 DEF CreateCccUser, Finish
      <3>2. OwnerFits(Done, identity')
        BY <1>g
      <3>3. QED BY <1>d, <1>e, <2>1, <2>8, <3>1, <3>2 DEF Continue
    <2>10. CASE s \notin provisional
      <3>1. PICK j : j = Save("verify", s, s)
        OBVIOUS
      <3>2. Continue(r, j)
        BY <1>6, <2>2, <2>10, <3>1 DEF CreateCccUser
      <3>3. QED BY <1>a, <1>d, <1>e, <2>1, <2>3, <2>4, <2>7, <2>8, <3>1, <3>2 DEF Continue
    <2>11. QED BY <2>9, <2>10
  <1>7. ASSUME NEW r \in Requests, FindIdentity(r) PROVE Goal
    <2>1. job[r] \in SaveJob /\ r \in Running
      BY <1>7, <1>a, JobAt DEF FindIdentity
    <2>2. PICK s \in Subjects, u \in Accounts : job[r].subject = s /\ job[r].user = u
      BY <2>1 DEF SaveJob
    <2>3. PICK j : j = [op |-> "identity", at |-> "save", handler |-> job[r].handler,
                        subject |-> s, user |-> u, found |-> identity[s]]
      OBVIOUS
    <2>4. j \in WriteJob /\ j.subject = s /\ j.user = u /\ j.found = identity[s]
      BY <1>a, <2>1, <2>3 DEF SaveJob, WriteJob
    <2>5. Continue(r, j) /\ UNCHANGED <<identity, provisional>>
      BY <1>7, <2>2, <2>3 DEF FindIdentity, identityVars
    <2>6. identity[s] \in {NoOne, u}
      BY <2>1, <2>2 DEF OwnersFound, OwnerFits
    <2>7. OwnerFits(j, identity')
      BY <2>4, <2>5, <2>6, IdentityJobKinds DEF OwnerFits
    <2>8. \A x : Gives(job[r], x) => Gives(j, x)
      BY <2>1, <2>2, <2>4 DEF Gives
    <2>9. OwnersStay
      BY <2>5 DEF OwnersStay
    <2>10. QED BY <1>d, <1>e, <2>1, <2>5, <2>7, <2>8, <2>9 DEF Continue
  <1>8. ASSUME NEW r \in Requests, SaveIdentity(r) PROVE Goal
    <2>1. job[r] \in WriteJob /\ r \in Running
      BY <1>8, <1>a, JobAt DEF SaveIdentity
    <2>2. PICK s \in Subjects, u \in Accounts : job[r].subject = s /\ job[r].user = u
      BY <2>1 DEF WriteJob
    <2>3. identity[s] \in {NoOne, u} /\ job[r].found = identity[s]
      BY <2>1, <2>2 DEF OwnersFound, OwnerFits
    <2>4. identity' = [identity EXCEPT ![s] = u]
      BY <1>8, <1>a, <2>2, <2>3 DEF SaveIdentity
    <2>5. PICK j : Continue(r, j) /\ OwnerFits(j, identity')
      <3>1. PICK new : new = [op |-> "token", at |-> "generate", subject |-> s, user |-> u]
        OBVIOUS
      <3>2. new \in TokenJob /\ new.subject = s /\ new.user = u /\ identity'[s] = u
        BY <1>a, <2>4, <3>1 DEF TokenJob
      <3>3. OwnerFits(new, identity') /\ OwnerFits(Done, identity')
        BY <1>g, <3>2, IdentityJobKinds DEF OwnerFits
      <3>4. Continue(r, new) \/ Continue(r, Done)
        BY <1>8, <2>2, <3>1 DEF SaveIdentity
      <3>5. QED BY <3>3, <3>4
    <2>6. OwnersStay /\ UNCHANGED provisional
      BY <1>8, <1>a, <2>3, <2>4 DEF SaveIdentity, OwnersStay
    <2>7. ASSUME NEW x \in provisional, Gives(job[r], x) PROVE identity'[x] = x
      BY <1>a, <2>2, <2>4, <2>7 DEF Gives
    <2>8. ASSUME NEW x \in provisional PROVE identity[x] = x => identity'[x] = x
      BY <1>a, <1>b, <2>3, <2>4
    <2>9. ASSUME faults = 0, NEW x \in provisional PROVE identity'[x] = x
      <3>1. identity[x] = x \/ Gives(job[r], x)
        <4>1. \A q \in Requests : Gives(job[q], x) => q = r
          BY <1>c, <1>e, <2>1, IdentityJobKinds DEF Gives
        <4>2. QED BY <2>9, <4>1 DEF Provided
      <3>2. QED BY <2>7, <2>8, <3>1
    <2>10. QED BY <1>d, <1>e, <2>1, <2>5, <2>6, <2>9 DEF Continue
  <1>9. ASSUME NEW c \in Challenges, Expire(c) PROVE Goal
    BY <1>9 DEF Expire, requestVars, OwnersFound, Provided, OwnersStay, Goal
  <1>13. ASSUME NEW r \in Requests, GenerateToken(r) PROVE Goal
    <2>1. job[r] \in TokenJob /\ r \in Running
      BY <1>13, <1>a, JobAt DEF GenerateToken
    <2>2. Continue(r, Done) /\ UNCHANGED <<identity, provisional>>
      BY <1>13 DEF GenerateToken, Finish
    <2>3. OwnersStay /\ OwnerFits(Done, identity')
      BY <1>g, <2>2 DEF OwnersStay
    <2>4. \A s \in Subjects : ~Gives(job[r], s)
      BY <2>1, IdentityJobKinds DEF Gives
    <2>5. QED BY <1>a, <1>d, <1>e, <2>1, <2>2, <2>3, <2>4 DEF Continue
  <1>10. ASSUME NEW r \in Requests, NEW c \in Challenges
         PROVE  /\ \A u \in SignedIn \union {NoOne}, e \in Members \union {NoOne} :
                      Verify(r, c, u, e) => Goal
                /\ \A u \in SignedIn : Link(r, c, u) => Goal
    <2>1. SignedIn \subseteq Accounts
      BY <1>a, <1>b DEF SignedIn
    <2>2. QED BY <1>2, <2>1 DEF Verify, Link
  <1>11. Goal
    BY <1>1, <1>3, <1>4, <1>5, <1>6, <1>7, <1>8, <1>9, <1>10, <1>13 DEF IdentityNext
  <1>12. QED BY <1>11 DEF Goal

(* The session is of the account the wallet was found with, or given to.   *)
LEMMA TokensStep ==
    ASSUME Types, OwnersFound, inSeries, IdentityNext
    PROVE  OwnersSignedIn
  <1>1. CASE UNCHANGED token
    BY <1>1 DEF OwnersSignedIn
  <1>2. ASSUME NEW r \in Requests, GenerateToken(r) PROVE OwnersSignedIn
    <2>1. job[r] \in TokenJob
      BY <1>2, JobAt DEF Types, GenerateToken
    <2>2. identity[job[r].subject] = job[r].user
      BY <2>1 DEF OwnersFound, OwnerFits
    <2>3. token' = [token EXCEPT ![r] = job[r].user] /\ token \in [Requests -> Accounts \union {NoOne}]
      BY <1>2 DEF GenerateToken, Types, IdentityTypes
    <2>4. QED BY <2>2, <2>3 DEF OwnersSignedIn
  <1>3. ASSUME NEW r \in Requests, NEW c, NEW s, NEW u, NEW e,
               \/ Challenge(r, c, s) \/ Verify(r, c, u, e) \/ Link(r, c, u) \/ Unlink(r, u, s)
               \/ Consume(r) \/ FindOwner(r) \/ CreateCccUser(r) \/ FindIdentity(r)
               \/ SaveIdentity(r)
        PROVE  UNCHANGED token
    BY <1>3 DEF Challenge, Verify, Link, Prove, Unlink, Consume, FindOwner, CreateCccUser,
          FindIdentity, SaveIdentity, identityVars
  <1>4. ASSUME NEW c, Expire(c) PROVE UNCHANGED token
    BY <1>4 DEF Expire
  <1>5. QED BY <1>1, <1>2, <1>3, <1>4 DEF IdentityNext

LEMMA OwnersKept ==
    ASSUME Types, Alone, OwnersFound, Provided, [Next]_vars
    PROVE  OwnersFound' /\ Provided' /\ (inSeries => OwnersStay /\ OwnersSignedIn)
  <1>1. CASE Framed(IdentityJobs) /\ UNCHANGED identityVars
    <2>1. CreateJob \union SaveJob \union WriteJob \union TokenJob \subseteq IdentityJobs
      BY DEF IdentityJobs
    <2>2. OwnersFound'
      BY <1>1, <2>1 DEF Framed, identityVars, OwnersFound, OwnerFits
    <2>3. ASSUME (inSeries /\ faults = 0)' PROVE faults = 0 /\ faults' = faults /\ inSeries
      BY <1>1, <2>3 DEF Framed, Types, JobsOK
    <2>4. Provided'
      BY <1>1, <2>1, <2>3 DEF Framed, identityVars, Provided, Gives
    <2>5. OwnersStay /\ OwnersSignedIn
      BY <1>1 DEF identityVars, OwnersStay, OwnersSignedIn
    <2>6. QED BY <2>2, <2>4, <2>5
  <1>2. CASE IdentityNext /\ Moves(IdentityJobs)
    <2>1. CASE inSeries
      BY <1>2, <2>1, OwnersStep, TokensStep
    <2>2. CASE ~inSeries
      BY <1>2, <2>2 DEF Moves, OwnersFound, Provided
    <2>3. QED BY <2>1, <2>2
  <1>3. QED BY <1>1, <1>2, PartSteps

-----------------------------------------------------------------------------
(* One at a time: a login that goes on is of an account not blocked. *)

LoginsOpen == inSeries => \A r \in Requests : job[r] \in LoginJob => job[r].account \notin blocked

SessionsOpen == \A r \in Requests : session'[r] # session[r] => session'[r] \notin blocked

LEMMA LoginsStep ==
    ASSUME Types, Alone, LoginsOpen, inSeries, CredentialNext
    PROVE  LoginsOpen' /\ SessionsOpen
  <1> DEFINE Goal == LoginsOpen' /\ SessionsOpen
  <1>a. /\ job \in [Requests -> Jobs] /\ JobsOK /\ blocked \subseteq Holders
        /\ session \in [Requests -> Holders \union {Empty}] /\ Empty \notin blocked
    BY AdminsAssumption DEF Types, JobsOK, CredentialTypes, Holders
  <1>b. Done \notin LoginJob /\ Waiting \notin LoginJob /\ \A j \in PasswordJob : j \notin LoginJob
    BY JobsApart DEF CredentialJobs, PasswordJob, LoginJob
  <1>c. ASSUME NEW r \in Requests, NEW j, job' = [job EXCEPT ![r] = j], UNCHANGED inSeries,
               j \in LoginJob => j.account \notin blocked,
               UNCHANGED blocked \/ (Running = {} /\ j = Done), SessionsOpen
        PROVE  Goal
    BY <1>a, <1>b, <1>c DEF LoginsOpen, Running
  <1>d. ASSUME UNCHANGED session PROVE SessionsOpen
    BY <1>d DEF SessionsOpen
  <1>e. ASSUME NEW r \in Requests, Begin(r, Done), UNCHANGED session PROVE Goal
    <2>1. Running = {}
      BY <1>e, RestsBefore DEF Begin
    <2>2. QED BY <1>b, <1>c, <1>d, <1>e, <2>1 DEF Begin
  <1>1. ASSUME NEW r \in Requests, NEW a \in Holders, SendCode(r, a) PROVE Goal
    BY <1>1, <1>e DEF SendCode
  <1>2. ASSUME NEW r \in Requests, NEW a, NEW rightly, ChangePassword(r, a, rightly),
               UNCHANGED <<session, blocked>>
        PROVE  Goal
    <2>1. PICK j : j = [op |-> "password", at |-> "save", account |-> a]
      OBVIOUS
    <2>2. j \notin LoginJob /\ Begin(r, j)
      BY <1>2, <2>1 DEF LoginJob, ChangePassword
    <2>3. QED BY <1>2, <1>c, <1>d, <2>2 DEF Begin
  <1>3. ASSUME NEW r \in Requests, NEW a \in Holders, NEW c \in Requests, Reset(r, a, c) PROVE Goal
    BY <1>3, <1>2, <1>e DEF Reset
  <1>4. ASSUME NEW r \in Requests, NEW a \in Admins, NEW tried \in Chosen,
               UpdateAdminPassword(r, a, tried)
        PROVE  Goal
    BY <1>4, <1>2, <1>e DEF UpdateAdminPassword
  <1>5. ASSUME NEW r \in Requests, SavePassword(r) PROVE Goal
    BY <1>5, <1>b, <1>c, <1>d DEF SavePassword, Finish, Continue
  <1>6. ASSUME NEW r \in Requests, NEW a, NEW tried, NEW known, TryLogin(r, a, tried, known)
        PROVE  Goal
    <2>1. UNCHANGED <<session, blocked>>
      BY <1>6 DEF TryLogin, credentialVars
    <2>2. CASE ~Inactive(a) /\ known
      <3>1. PICK j : j = [op |-> "login", at |-> "attempt", account |-> a, tried |-> tried]
        OBVIOUS
      <3>2. j.account \notin blocked /\ Begin(r, j)
        BY <1>6, <2>2, <3>1 DEF TryLogin, Inactive
      <3>3. QED BY <1>c, <1>d, <2>1, <3>2 DEF Begin
    <2>3. CASE ~(~Inactive(a) /\ known)
      BY <1>6, <1>e, <2>1, <2>3 DEF TryLogin
    <2>4. QED BY <2>2, <2>3
  <1>7. ASSUME NEW r \in Requests, Attempt(r) PROVE Goal
    <2>1. job[r] \in LoginJob
      BY <1>7, <1>a, JobAt DEF Attempt
    <2>2. PICK a \in Holders : job[r].account = a
      BY <2>1 DEF LoginJob
    <2>3. a \notin blocked
      BY <2>1, <2>2 DEF LoginsOpen
    <2>4. session' = session \/ session' = [session EXCEPT ![r] = a]
      BY <1>7, <2>2 DEF Attempt
    <2>5. SessionsOpen
      BY <1>a, <2>3, <2>4 DEF SessionsOpen
    <2>6. QED BY <1>7, <1>b, <1>c, <2>5 DEF Attempt, Finish, Continue
  <1>8. ASSUME NEW r \in Requests, NEW x \in Requests, Logout(r, x) PROVE Goal
    <2>1. SessionsOpen
      BY <1>8, <1>a DEF Logout, SessionsOpen
    <2>2. QED BY <1>8, <1>b, <1>c, <2>1 DEF Logout, Begin
  <1>9. ASSUME NEW r \in Requests, NEW new, SetBlocked(r, new) PROVE Goal
    BY <1>9, <1>e DEF SetBlocked
  <1>10. ASSUME NEW c \in Requests, ExpireCode(c) PROVE Goal
    BY <1>10, <1>d DEF ExpireCode, requestVars, LoginsOpen
  <1> HIDE DEF Goal
  <1>11. ASSUME NEW r \in Requests, NEW a \in Holders,
                \/ ForgotPassword(r, a) \/ AdminForgotPassword(r, a)
                \/ \E c \in Requests : ResetPassword(r, a, c) \/ AdminResetPassword(r, a, c)
         PROVE  Goal
    BY <1>1, <1>3, <1>11 DEF ForgotPassword, AdminForgotPassword, ResetPassword, AdminResetPassword
  <1>12. ASSUME NEW r \in Requests, NEW b \in Businesses,
                \/ \E tried \in Chosen : Login(r, b, tried)
                \/ BlockUser(r, b) \/ UnblockUser(r, b)
         PROVE  Goal
    BY <1>6, <1>9, <1>12 DEF Login, BlockUser, UnblockUser
  <1>13. ASSUME NEW r \in Requests, NEW a \in Admins,
                \/ \E tried \in Chosen : AdminLogin(r, a, tried) \/ UpdateAdminPassword(r, a, tried)
                \/ BlockAdmin(r, a) \/ UnblockAdmin(r, a)
         PROVE  Goal
    BY <1>4, <1>6, <1>9, <1>13 DEF AdminLogin, BlockAdmin, UnblockAdmin
  <1>14. Goal
    BY <1>5, <1>7, <1>8, <1>10, <1>11, <1>12, <1>13 DEF CredentialNext
  <1>15. QED BY <1>14 DEF Goal

LEMMA LoginsKept ==
    ASSUME Types, Alone, LoginsOpen, [Next]_vars
    PROVE  LoginsOpen' /\ (inSeries => SessionsOpen)
  <1>1. CASE Framed(CredentialJobs) /\ UNCHANGED credentialVars
    BY <1>1 DEF Framed, credentialVars, LoginsOpen, SessionsOpen, CredentialJobs
  <1>2. CASE CredentialNext /\ Moves(CredentialJobs)
    <2>1. CASE inSeries
      BY <1>2, <2>1, LoginsStep
    <2>2. CASE ~inSeries
      BY <1>2, <2>2 DEF Moves, LoginsOpen
    <2>3. QED BY <2>1, <2>2
  <1>3. QED BY <1>1, <1>2, PartSteps

-----------------------------------------------------------------------------
(* Who signs in. *)

SignInInv == Types /\ Alone /\ UsesCounted /\ OwnersFound /\ Provided /\ LoginsOpen

LEMMA SignInInvInit == Init => SignInInv
  <1> SUFFICES ASSUME Init PROVE SignInInv
    OBVIOUS
  <1>1. Types /\ Alone
    BY TypesInit, AloneInit
  <1>2. \A r \in Requests : job[r] = Waiting
    BY DEF Init, RequestsInit
  <1>3. UsesCounted
    BY DEF Init, IdentityInit, UsesCounted, Uses
  <1>4. OwnersFound
    BY <1>2, IdentityJobKinds DEF OwnersFound, OwnerFits
  <1>5. Provided
    BY DEF Init, IdentityInit, Provided
  <1>6. LoginsOpen
    BY <1>2, JobsApart DEF LoginsOpen, CredentialJobs
  <1>7. QED BY <1>1, <1>3, <1>4, <1>5, <1>6 DEF SignInInv

LEMMA SignInInvKept == SignInInv /\ [Next]_vars => SignInInv'
  BY TypesKept, AloneKept, UsesCountedKept, OwnersKept, LoginsKept DEF SignInInv

(* However requests overlap, a signed challenge signs in once; one at a    *)
(* time, and unless a handler ends early, a provisional account has the    *)
(* wallet it was made for, the only way to sign in to it again.            *)
THEOREM WalletsSignIn == Spec => []SignInWorks
  <1>1. SignInInv => SignInWorks
    <2> SUFFICES ASSUME SignInInv PROVE SignInWorks
      OBVIOUS
    <2>1. ChallengeUsedOnce
      <3>1. ASSUME NEW c \in Challenges PROVE accepted[c] <= 1
        <4>1. Uses(c) \in {0, 1} /\ accepted[c] \in Nat /\ accepted[c] <= Uses(c)
          BY DEF SignInInv, UsesCounted, Uses, Types, IdentityTypes
        <4>2. QED BY <4>1
      <3>2. QED BY <3>1 DEF ChallengeUsedOnce
    <2>2. ProvisionalHasIdentity
      <3>1. ASSUME Running = {}, NEW r \in Requests, NEW s PROVE ~Gives(job[r], s)
        <4>1. job[r] \in {Waiting, Done}
          BY <3>1 DEF Running
        <4>2. QED BY <4>1, IdentityJobKinds DEF Gives
      <3>2. QED BY <3>1 DEF SignInInv, Provided, ProvisionalHasIdentity
    <2>3. QED BY <2>1, <2>2 DEF SignInWorks
  <1>2. QED BY <1>1, SignInInvInit, SignInInvKept, PTL DEF Spec

(* One at a time: a wallet stays with its account until that account gives *)
(* it up, and signs in to that account; and by its password no account     *)
(* that is blocked is signed in to.  (By its wallet it is.)                *)
THEOREM SignInStaysRight == Spec => SignInHolds
  <1>1. SignInInv /\ [Next]_vars =>
            [inSeries => \A s \in Subjects :
                identity[s] # NoOne => identity'[s] \in {identity[s], NoOne}]_identity
    BY OwnersKept DEF SignInInv, OwnersStay
  <1>2. SignInInv /\ [Next]_vars =>
            [inSeries => \A r \in Requests :
                session'[r] # session[r] => session'[r] \notin blocked]_session
    BY LoginsKept DEF SignInInv, SessionsOpen
  <1>3. SignInInv /\ [Next]_vars =>
            [inSeries => \A r \in Requests :
                token'[r] # token[r] => identity[job[r].subject] = token'[r]]_token
    BY OwnersKept DEF SignInInv, OwnersSignedIn
  <1>4. QED
    BY <1>1, <1>2, <1>3, SignInInvInit, SignInInvKept, PTL
       DEF Spec, SignInHolds, IdentityKeepsOwner, WalletSignsInToOwner, LoginRefusesBlocked


-----------------------------------------------------------------------------
(* What the handlers of businesses do, by what they hold in memory.        *)

KeyFields == {"testPublic", "testPrivate", "lapses", "livePublic", "livePrivate"}

(* A request is read in: it is done with, or goes on with a signup, with a *)
(* user's row, or with the row of settings that it has read.               *)
ReadIn(r, j) ==
    /\ Begin(r, j) /\ UNCHANGED businessVars
    /\ \/ j = Done \/ j \in AdminJob
       \/ j \in SignupJob /\ j.at = "create" /\ j.uploaded = {}
       \/ /\ j \in KeysJob \union SettingsJob
          /\ setting[j.business] # Empty /\ j.copy = setting[j.business]
          /\ j \in SettingsJob => \A f \in KeyFields : j.new[f] = j.copy[f]

(* The page of API keys has read the user's row, and clears a test key     *)
(* that lapsed or makes keys.                                              *)
DecideKeys(r, b, copy, new) ==
    /\ job[r] \in KeysJob /\ job[r].business = b /\ job[r].copy = copy
    /\ Continue(r, Change(b, copy, new)) /\ UNCHANGED businessVars
    /\ \/ new = TestKeys(copy, Empty) /\ Expired(copy)
       \/ new = TestKeys(copy, r)
       \/ new = LiveKeys(copy, r) /\ user[b].verified

LEMMA ReadsIn ==
    ASSUME Types, NEW r \in Requests, NEW b \in Businesses,
           \/ \E files \in SUBSET Documents : Signup(r, b, files)
           \/ \E v \in BOOLEAN : VerifyUser(r, b, v)
           \/ \E environment \in {"TEST", "LIVE"} :
                SwitchEnvironment(r, b, environment) \/ UpdateGeneral(r, b, environment)
           \/ ShowKeys(r, b) \/ GenerateKeys(r, b)
           \/ UpdateWebhook(r, b) \/ GenerateSecret(r, b)
    PROVE  \E j : ReadIn(r, j)
  <1>a. /\ setting[b] # Empty => setting[b] \in SettingRow
        /\ user[b] # Empty => user[b] \in UserRow
    BY DEF Types, BusinessTypes
  <1>1. ASSUME NEW files \in SUBSET Documents, Signup(r, b, files) PROVE \E j : ReadIn(r, j)
    <2>1. PICK j : j = [op |-> "signup", at |-> "create", business |-> b, todo |-> files,
                        uploaded |-> {}]
      OBVIOUS
    <2>2. j \in SignupJob /\ j.at = "create" /\ j.uploaded = {}
      BY <2>1 DEF SignupJob
    <2>3. (Begin(r, j) \/ Begin(r, Done)) /\ UNCHANGED businessVars
      BY <1>1, <2>1 DEF Signup
    <2>4. QED BY <2>2, <2>3 DEF ReadIn
  <1>2. ASSUME NEW v \in BOOLEAN, VerifyUser(r, b, v) PROVE \E j : ReadIn(r, j)
    <2>1. PICK j : j = [op |-> "verifyUser", at |-> "save", business |-> b, copy |-> user[b],
                        verified |-> v]
      OBVIOUS
    <2>2. j \in AdminJob
      BY <1>2, <1>a, <2>1 DEF AdminJob, VerifyUser
    <2>3. Begin(r, j) /\ UNCHANGED businessVars
      BY <1>2, <2>1 DEF VerifyUser
    <2>4. QED BY <2>2, <2>3 DEF ReadIn
  <1>3. ASSUME NEW op \in {"show", "generate"}, ReadForKeys(r, b, op) PROVE \E j : ReadIn(r, j)
    <2>1. PICK j : j = [op |-> op, at |-> "user", business |-> b, copy |-> setting[b]]
      OBVIOUS
    <2>2. j \in KeysJob /\ j.business = b /\ j.copy = setting[b] /\ setting[b] # Empty
      BY <1>3, <1>a, <2>1 DEF KeysJob, ReadForKeys
    <2>3. Begin(r, j) /\ UNCHANGED businessVars
      BY <1>3, <2>1 DEF ReadForKeys
    <2>4. j \notin SettingsJob
      BY <2>2, BusinessJobOps
    <2>5. QED BY <2>2, <2>3, <2>4 DEF ReadIn
  <1>4. ASSUME NEW new \in SettingRow, setting[b] # Empty,
               \A f \in KeyFields : new[f] = setting[b][f],
               Begin(r, Change(b, setting[b], new)) \/ Begin(r, Done), UNCHANGED businessVars
        PROVE  \E j : ReadIn(r, j)
    <2>1. PICK j \in {Change(b, setting[b], new), Done} : Begin(r, j)
      BY <1>4
    <2>2. CASE j = Change(b, setting[b], new)
      <3>1. j \in SettingsJob /\ j.business = b /\ j.copy = setting[b] /\ j.new = new
        BY <1>4, <1>a, <2>2 DEF Change, SettingsJob
      <3>2. QED BY <1>4, <2>1, <3>1 DEF ReadIn
    <2>3. CASE j = Done
      BY <1>4, <2>1, <2>3 DEF ReadIn
    <2>4. QED BY <2>1, <2>2, <2>3
  <1>5. ASSUME NEW environment \in {"TEST", "LIVE"},
               SwitchEnvironment(r, b, environment) \/ UpdateGeneral(r, b, environment)
        PROVE  \E j : ReadIn(r, j)
    <2>1. PICK new : new = [setting[b] EXCEPT !.environment = environment]
      OBVIOUS
    <2>2. setting[b] # Empty /\ UNCHANGED businessVars
          /\ (Begin(r, Change(b, setting[b], new)) \/ Begin(r, Done))
      BY <1>5, <2>1 DEF SwitchEnvironment, UpdateGeneral
    <2>3. new \in SettingRow /\ \A f \in KeyFields : new[f] = setting[b][f]
      BY <1>a, <2>1, <2>2 DEF SettingRow, KeyFields
    <2>4. QED BY <1>4, <2>2, <2>3
  <1>6. ASSUME UpdateWebhook(r, b) PROVE \E j : ReadIn(r, j)
    <2>1. PICK new : new = [setting[b] EXCEPT !.url = TRUE]
      OBVIOUS
    <2>2. setting[b] # Empty /\ UNCHANGED businessVars /\ Begin(r, Change(b, setting[b], new))
      BY <1>6, <2>1 DEF UpdateWebhook
    <2>3. new \in SettingRow /\ \A f \in KeyFields : new[f] = setting[b][f]
      BY <1>a, <2>1, <2>2 DEF SettingRow, KeyFields
    <2>4. QED BY <1>4, <2>2, <2>3
  <1>7. ASSUME GenerateSecret(r, b) PROVE \E j : ReadIn(r, j)
    <2>1. PICK new : new = [setting[b] EXCEPT !.secret = r]
      OBVIOUS
    <2>2. setting[b] # Empty /\ UNCHANGED businessVars /\ Begin(r, Change(b, setting[b], new))
      BY <1>7, <2>1 DEF GenerateSecret
    <2>3. new \in SettingRow /\ \A f \in KeyFields : new[f] = setting[b][f]
      BY <1>a, <2>1, <2>2 DEF SettingRow, KeyFields, Key
    <2>4. QED BY <1>4, <2>2, <2>3
  <1>8. QED BY <1>1, <1>2, <1>3, <1>5, <1>6, <1>7 DEF ShowKeys, GenerateKeys

LEMMA KeysDecided ==
    ASSUME Types, NEW r \in Requests, ClearLapsedKey(r) \/ MakeKeys(r),
           \A b \in Businesses : setting[b] # Empty => user[b] # Empty
    PROVE  /\ job[r] \in KeysJob /\ UNCHANGED businessVars
           /\ \/ Finish(r)
              \/ \E b \in Businesses, copy, new \in SettingRow : DecideKeys(r, b, copy, new)
  <1>1. job[r] \in KeysJob /\ UNCHANGED businessVars
    BY JobAt DEF Types, ClearLapsedKey, MakeKeys
  <1>2. PICK b \in Businesses, copy \in SettingRow : job[r].business = b /\ job[r].copy = copy
    BY <1>1 DEF KeysJob
  <1>3. user[b] \in UserRow
    BY <1>1, <1>2 DEF Types, BusinessHeld, RowsFor, BusinessTypes
  <1>4. TestKeys(copy, Empty) \in SettingRow /\ TestKeys(copy, r) \in SettingRow
        /\ LiveKeys(copy, r) \in SettingRow
    BY NewKeys DEF Key
  <1>5. CASE ClearLapsedKey(r)
    BY <1>1, <1>2, <1>4, <1>5 DEF ClearLapsedKey, DecideKeys
  <1>6. CASE MakeKeys(r)
    <2>1. Finish(r) \/ (/\ MayGenerate(copy, user[b])
                        /\ Continue(r, Change(b, copy, IF copy.environment = "LIVE"
                                                      THEN LiveKeys(copy, r) ELSE TestKeys(copy, r))))
      BY <1>2, <1>6 DEF MakeKeys
    <2>2. CASE Continue(r, Change(b, copy, LiveKeys(copy, r))) /\ user[b].verified
      BY <1>1, <1>2, <1>4, <2>2 DEF DecideKeys
    <2>3. CASE Continue(r, Change(b, copy, TestKeys(copy, r)))
      BY <1>1, <1>2, <1>4, <2>3 DEF DecideKeys
    <2>4. QED BY <1>1, <2>1, <2>2, <2>3 DEF MayGenerate
  <1>7. QED BY <1>5, <1>6

(* The steps of businesses, in these words. *)
LEMMA BusinessCases ==
    ASSUME Types, BusinessNext,
           \A b \in Businesses : setting[b] # Empty => user[b] # Empty
    PROVE  \/ \E r \in Requests :
                \/ \E j : ReadIn(r, j)
                \/ CreateUser(r) \/ SaveDocuments(r) \/ InsertSettings(r) \/ FailSignup(r)
                \/ \E f \in Documents : UploadDocument(r, f)
                \/ SaveVerified(r) \/ SaveSettings(r) \/ InsertPayout(r)
                \/ job[r] \in KeysJob /\ Finish(r) /\ UNCHANGED businessVars
                \/ \E b \in Businesses, copy, new \in SettingRow : DecideKeys(r, b, copy, new)
                \/ \E b \in Businesses : UpdatePayout(r, b)
           \/ \E b \in Businesses : LapseKey(b)
  BY ReadsIn, KeysDecided DEF BusinessNext


-----------------------------------------------------------------------------
(* Signup. *)

(* The signup has made the user's row: no other one does. *)
PastCreate(j) == j \in SignupJob /\ j.at # "create"

(* What it has uploaded is what is in the store, and the settings come     *)
(* last.                                                                   *)
SignupFits(j) ==
    /\ setting[j.business] = Empty /\ stored[j.business] = j.uploaded
    /\ j.at = "settings" => user[j.business].documents = j.uploaded

SignupInv ==
    /\ \A r \in Requests : job[r] \in SignupJob /\ job[r].at = "create" => job[r].uploaded = {}
    /\ \A r \in Requests : PastCreate(job[r]) => SignupFits(job[r])
    /\ \A r, q \in Requests :
        PastCreate(job[r]) /\ PastCreate(job[q]) /\ job[r].business = job[q].business => r = q
    /\ \A b \in Businesses : user[b] = Empty => stored[b] = {}
    /\ \A b \in Businesses : setting[b] # Empty => user[b] # Empty /\ stored[b] = user[b].documents
    /\ faults = 0 => \A b \in Businesses : user[b] # Empty =>
            \/ setting[b] # Empty
            \/ \E r \in Requests : PastCreate(job[r]) /\ job[r].business = b

(* Steps of no signup, or of one that only begins.                         *)
Alike(b) ==
    /\ user'[b] = Empty <=> user[b] = Empty
    /\ user[b] # Empty => user'[b].documents = user[b].documents
    /\ setting'[b] = Empty <=> setting[b] = Empty

SignupQuiet ==
    /\ faults' \in {faults, faults + 1} /\ UNCHANGED stored /\ \A b \in Businesses : Alike(b)
    /\ \A r \in Requests :
        /\ job'[r] \in SignupJob =>
            job'[r] = job[r] \/ (job'[r].at = "create" /\ job'[r].uploaded = {})
        /\ faults' = faults /\ PastCreate(job[r]) => job'[r] = job[r]

LEMMA SignupQuietKept ==
    ASSUME Types, SignupInv, SignupQuiet
    PROVE  SignupInv'
  <1>a. \A r \in Requests : PastCreate(job'[r]) => job'[r] = job[r]
    BY DEF SignupQuiet, PastCreate
  <1>b. \A r \in Requests : PastCreate(job[r]) => job[r].business \in Businesses
    BY DEF PastCreate, SignupJob
  <1>c. faults \in Nat
    BY DEF Types, JobsOK
  <1>1. \A r \in Requests : job'[r] \in SignupJob /\ job'[r].at = "create" => job'[r].uploaded = {}
    BY DEF SignupQuiet, SignupInv
  <1>2. ASSUME NEW r \in Requests, PastCreate(job'[r]) PROVE SignupFits(job[r])'
    <2>1. job'[r] = job[r] /\ PastCreate(job[r]) /\ SignupFits(job[r])
      BY <1>a, <1>2 DEF SignupInv
    <2>2. PICK b \in Businesses : job[r].business = b
      BY <1>b, <2>1
    <2>3. user[b] # Empty
      BY <2>1, <2>2 DEF Types, BusinessHeld, RowsFor, PastCreate
    <2>4. Alike(b) /\ stored' = stored
      BY DEF SignupQuiet
    <2>5. QED BY <2>1, <2>2, <2>3, <2>4 DEF SignupFits, Alike
  <1>3. \A r, q \in Requests :
            PastCreate(job'[r]) /\ PastCreate(job'[q]) /\ job'[r].business = job'[q].business => r = q
    BY <1>a DEF SignupInv
  <1>4. /\ \A b \in Businesses : user'[b] = Empty => stored'[b] = {}
        /\ \A b \in Businesses : setting'[b] # Empty =>
                user'[b] # Empty /\ stored'[b] = user'[b].documents
    BY DEF SignupInv, SignupQuiet, Alike
  <1>5. ASSUME faults' = 0, NEW b \in Businesses, user'[b] # Empty, setting'[b] = Empty
        PROVE  \E r \in Requests : PastCreate(job'[r]) /\ job'[r].business = b
    <2>1. faults = 0 /\ faults' = faults
      BY <1>5, <1>c DEF SignupQuiet
    <2>2. user[b] # Empty /\ setting[b] = Empty
      BY <1>5 DEF SignupQuiet, Alike
    <2>3. QED BY <2>1, <2>2 DEF SignupInv, SignupQuiet
  <1>6. \A r \in Requests : PastCreate(job'[r]) => SignupFits(job[r])'
    BY <1>2
  <1>7. QED BY <1>1, <1>6, <1>3, <1>4, <1>5 DEF SignupInv, PastCreate

(* A step of the signup of b: it goes on, or it ends. *)
LEMMA SignupGoesOn ==
    ASSUME Types, SignupInv, NEW r \in Requests, NEW b \in Businesses, NEW j,
           job' = [job EXCEPT ![r] = j], faults' \in {faults, faults + 1},
           PastCreate(job[r]) => job[r].business = b,
           \/ PastCreate(job[r])
           \/ user[b] = Empty /\ j # Done
           \/ j = Done /\ UNCHANGED <<user, stored, setting>>,
           \/ /\ PastCreate(j) /\ j.business = b /\ user'[b] # Empty
              /\ setting'[b] = Empty /\ stored'[b] = j.uploaded
              /\ j.at = "settings" => user'[b].documents = j.uploaded
           \/ /\ j = Done
              /\ user'[b] = Empty => stored'[b] = {}
              /\ setting'[b] # Empty => user'[b] # Empty /\ stored'[b] = user'[b].documents
              /\ faults' = 0 => (setting'[b] # Empty \/ ~PastCreate(job[r])),
           \A x \in Businesses \ {b} :
                user'[x] = user[x] /\ stored'[x] = stored[x] /\ setting'[x] = setting[x]
    PROVE  SignupInv'
  <1>a. job \in [Requests -> Jobs] /\ faults \in Nat
    BY DEF Types, JobsOK
  <1>b. ~PastCreate(Done) /\ Done \notin SignupJob
    BY BusinessJobOps DEF PastCreate, Done
  <1>c. \A q \in Requests \ {r} : job'[q] = job[q]
    BY <1>a
  <1>d. job'[r] = j
    BY <1>a
  <1>e. \A q \in Requests : PastCreate(job[q]) =>
            job[q].business \in Businesses /\ user[job[q].business] # Empty
    BY DEF PastCreate, SignupJob, Types, BusinessHeld, RowsFor
  (* The other signups are of other businesses, or nothing is written. *)
  <1>f. ASSUME NEW q \in Requests \ {r}, PastCreate(job[q])
        PROVE  \/ job[q].business # b
               \/ j = Done /\ UNCHANGED <<user, stored, setting>>
    <2>1. CASE PastCreate(job[r])
      BY <1>f, <2>1 DEF SignupInv
    <2>2. CASE user[b] = Empty
      BY <1>e, <1>f, <2>2
    <2>3. QED BY <2>1, <2>2
  <1>1. \A q \in Requests : job'[q] \in SignupJob /\ job'[q].at = "create" => job'[q].uploaded = {}
    BY <1>b, <1>c, <1>d DEF SignupInv, PastCreate
  <1>2. ASSUME NEW q \in Requests, PastCreate(job'[q])
        PROVE  /\ setting'[job'[q].business] = Empty
               /\ stored'[job'[q].business] = job'[q].uploaded
               /\ job'[q].at = "settings" => user'[job'[q].business].documents = job'[q].uploaded
    <2>1. CASE q = r
      BY <1>2, <1>b, <1>d, <2>1
    <2>2. CASE q # r
      <3>1. job'[q] = job[q] /\ PastCreate(job[q]) /\ SignupFits(job[q])
        BY <1>2, <1>c, <2>2 DEF SignupInv
      <3>2. PICK x \in Businesses : job[q].business = x
        BY <1>e, <3>1
      <3>3. user'[x] = user[x] /\ stored'[x] = stored[x] /\ setting'[x] = setting[x]
        BY <1>f, <2>2, <3>1, <3>2
      <3>4. QED BY <3>1, <3>2, <3>3 DEF SignupFits
    <2>3. QED BY <2>1, <2>2
  <1>3. \A q, z \in Requests :
            PastCreate(job'[q]) /\ PastCreate(job'[z]) /\ job'[q].business = job'[z].business => q = z
    BY <1>b, <1>c, <1>d, <1>f DEF SignupInv
  <1>4. /\ \A x \in Businesses : user'[x] = Empty => stored'[x] = {}
        /\ \A x \in Businesses : setting'[x] # Empty =>
                user'[x] # Empty /\ stored'[x] = user'[x].documents
    <2>1. setting'[b] # Empty => user'[b] # Empty /\ stored'[b] = user'[b].documents
      BY <1>b
    <2>2. user'[b] = Empty => stored'[b] = {}
      BY <1>b
    <2>3. QED BY <2>1, <2>2 DEF SignupInv
  <1>5. ASSUME faults' = 0, NEW x \in Businesses, user'[x] # Empty, setting'[x] = Empty
        PROVE  \E q \in Requests : PastCreate(job'[q]) /\ job'[q].business = x
    <2>1. faults = 0
      BY <1>5, <1>a
    <2>2. CASE x = b /\ PastCreate(j) /\ j.business = b
      BY <1>d, <2>2
    <2>3. CASE x = b /\ j = Done
      <3>1. ~PastCreate(job[r]) /\ UNCHANGED <<user, stored, setting>>
        BY <1>5, <1>b, <2>3
      <3>2. PICK q \in Requests : PastCreate(job[q]) /\ job[q].business = x
        BY <1>5, <2>1, <3>1 DEF SignupInv
      <3>3. QED BY <1>c, <3>1, <3>2
    <2>4. CASE x # b
      <3>1. user[x] # Empty /\ setting[x] = Empty
        BY <1>5, <2>4
      <3>2. PICK q \in Requests : PastCreate(job[q]) /\ job[q].business = x
        BY <2>1, <3>1 DEF SignupInv
      <3>3. CASE q # r
        BY <1>c, <3>2, <3>3
      <3>4. q # r
        BY <2>4, <3>2
      <3>5. QED BY <3>3, <3>4
    <2>5. QED BY <1>b, <2>2, <2>3, <2>4
  <1>6. QED BY <1>1, <1>2, <1>3, <1>4, <1>5 DEF SignupInv, SignupFits, PastCreate

LEMMA SignupActions ==
    ASSUME Types, SignupInv, NEW r \in Requests,
           \/ CreateUser(r) \/ SaveDocuments(r) \/ InsertSettings(r) \/ FailSignup(r)
           \/ \E f \in Documents : UploadDocument(r, f)
    PROVE  SignupInv'
  <1>a. /\ job \in [Requests -> Jobs] /\ JobsOK /\ faults \in Nat
        /\ user \in [Businesses -> UserRow \union {Empty}]
        /\ stored \in [Businesses -> SUBSET Documents]
        /\ setting \in [Businesses -> SettingRow \union {Empty}]
    BY DEF Types, JobsOK, BusinessTypes
  <1>b. job[r] \in SignupJob
    BY <1>a, JobAt DEF CreateUser, SaveDocuments, InsertSettings, FailSignup, UploadDocument
  <1>c. PICK b \in Businesses, todo, uploaded \in SUBSET Documents,
             step \in {"create", "upload", "save", "settings"} :
            job[r].business = b /\ job[r].todo = todo /\ job[r].uploaded = uploaded /\ job[r].at = step
    BY <1>b DEF SignupJob
  <1>d. step # "create" =>
            /\ PastCreate(job[r]) /\ setting[b] = Empty /\ stored[b] = uploaded /\ user[b] # Empty
            /\ step = "settings" => user[b].documents = uploaded
    BY <1>b, <1>c DEF SignupInv, SignupFits, PastCreate, Types, BusinessHeld, RowsFor
  <1>e. step = "create" => uploaded = {} /\ ~PastCreate(job[r])
    BY <1>b, <1>c DEF SignupInv, PastCreate
  <1>f. ASSUME NEW s \in {"upload", "save", "settings"}, NEW j, j = [job[r] EXCEPT !.at = s]
        PROVE  PastCreate(j) /\ j.business = b /\ j.uploaded = uploaded /\ j.at = s
    BY <1>b, <1>c, <1>f DEF SignupJob, PastCreate
  <1>g. ~PastCreate(Done)
    BY BusinessJobOps DEF PastCreate, Done
  <1>1. CASE CreateUser(r)
    <2>1. step = "create" /\ uploaded = {} /\ ~PastCreate(job[r])
      BY <1>1, <1>c, <1>e DEF CreateUser, At
    <2>2. CASE user[b] = Empty
      <3>1. PICK s \in {"upload", "settings"} : Continue(r, [job[r] EXCEPT !.at = s])
        BY <1>1, <1>c, <2>2 DEF CreateUser
      <3>2. PICK j : j = [job[r] EXCEPT !.at = s]
        OBVIOUS
      <3>3. PastCreate(j) /\ j.business = b /\ j.uploaded = {}
        BY <1>f, <2>1, <3>2
      <3>4. PICK row : row = [documents |-> {}, verified |-> FALSE]
        OBVIOUS
      <3>5. row # Empty /\ row.documents = {}
        <4>1. row \in UserRow /\ row.documents = {}
          BY <3>4 DEF UserRow
        <4>2. QED BY <4>1, NullRowsAssumption
      <3>6. user' = [user EXCEPT ![b] = row] /\ stored' = stored /\ setting' = setting
        BY <1>1, <1>c, <2>2, <3>4 DEF CreateUser
      <3>7. stored[b] = {} /\ setting[b] = Empty
        BY <2>2 DEF SignupInv
      <3>8. user'[b] # Empty /\ user'[b].documents = {}
        BY <1>a, <3>5, <3>6
      <3>9. \A x \in Businesses \ {b} : user'[x] = user[x]
        BY <1>a, <3>6
      <3>10. job' = [job EXCEPT ![r] = j] /\ faults' = faults /\ j # Done
        BY <1>g, <3>1, <3>2, <3>3 DEF Continue
      <3>11. QED BY <2>1, <2>2, <3>3, <3>6, <3>7, <3>8, <3>9, <3>10, SignupGoesOn
    <2>3. CASE user[b] # Empty
      <3>1. job' = [job EXCEPT ![r] = Done] /\ faults' = faults /\ UNCHANGED <<user, stored, setting>>
        BY <1>1, <1>c, <2>3 DEF CreateUser, Finish, Continue
      <3>2. user'[b] # Empty /\ (setting'[b] # Empty => stored'[b] = user'[b].documents)
        BY <2>3, <3>1 DEF SignupInv
      <3>3. QED BY <2>1, <3>1, <3>2, SignupGoesOn
    <2>4. QED BY <2>2, <2>3
  <1>2. ASSUME NEW f \in Documents, UploadDocument(r, f) PROVE SignupInv'
    <2>1. step = "upload"
      BY <1>2, <1>c DEF UploadDocument, At
    <2>2. PICK s \in {"upload", "save"} :
             Continue(r, [job[r] EXCEPT !.todo = todo \ {f}, !.uploaded = uploaded \union {f}, !.at = s])
      <3>1. PICK s \in {"upload", "save"} : s = (IF job[r].todo = {f} THEN "save" ELSE "upload")
        OBVIOUS
      <3>2. QED BY <1>2, <1>b, <1>c, <3>1 DEF UploadDocument, SignupJob
    <2>3. PICK t, u \in SUBSET Documents : t = todo \ {f} /\ u = uploaded \union {f}
      <3>1. todo \ {f} \in SUBSET Documents /\ uploaded \union {f} \in SUBSET Documents
        OBVIOUS
      <3>2. QED BY <3>1
    <2>4. PICK j : j = [job[r] EXCEPT !.todo = t, !.uploaded = u, !.at = s]
      OBVIOUS
    <2>5. PastCreate(j) /\ j.business = b /\ j.uploaded = uploaded \union {f} /\ j.at = s
      <3>1. s \in {"upload", "save", "settings"}
        BY <2>2
      <3>2. PastCreate(j) /\ j.business = b /\ j.uploaded = u /\ j.at = s
        BY <1>b, <1>c, <2>4, <3>1 DEF SignupJob, PastCreate
      <3>3. QED BY <2>3, <3>2
    <2>6. stored' = [stored EXCEPT ![b] = @ \union {f}] /\ user' = user /\ setting' = setting
      BY <1>2, <1>c DEF UploadDocument
    <2>7. stored'[b] = uploaded \union {f} /\ \A x \in Businesses \ {b} : stored'[x] = stored[x]
      BY <1>a, <1>d, <2>1, <2>6
    <2>8. job' = [job EXCEPT ![r] = j] /\ faults' = faults
      BY <2>2, <2>3, <2>4 DEF Continue
    <2>9. QED BY <1>c, <1>d, <2>1, <2>5, <2>6, <2>7, <2>8, SignupGoesOn
  <1>3. CASE SaveDocuments(r)
    <2>1. step = "save"
      BY <1>3, <1>c DEF SaveDocuments, At
    <2>2. PICK j : j = [job[r] EXCEPT !.at = "settings"]
      OBVIOUS
    <2>3. PastCreate(j) /\ j.business = b /\ j.uploaded = uploaded
      BY <1>f, <2>2
    <2>4. PICK row : row = [user[b] EXCEPT !.documents = uploaded]
      OBVIOUS
    <2>5. user[b] \in UserRow
      BY <1>a, <1>d, <2>1
    <2>6. row # Empty /\ row.documents = uploaded
      BY <2>4, <2>5, NullRowsAssumption DEF UserRow
    <2>7. user' = [user EXCEPT ![b] = row] /\ stored' = stored /\ setting' = setting
      BY <1>3, <1>c, <2>4 DEF SaveDocuments, Named
    <2>8. user'[b] = row /\ \A x \in Businesses \ {b} : user'[x] = user[x]
      BY <1>a, <2>7
    <2>9. job' = [job EXCEPT ![r] = j] /\ faults' = faults
      BY <1>3, <2>2 DEF SaveDocuments, Continue
    <2>10. QED BY <1>c, <1>d, <2>1, <2>3, <2>6, <2>7, <2>8, <2>9, SignupGoesOn
  <1>4. CASE InsertSettings(r)
    <2>1. step = "settings"
      BY <1>4, <1>c DEF InsertSettings, At
    <2>2. setting' = [setting EXCEPT ![b] = NewSetting] /\ stored' = stored /\ user' = user
          /\ job' = [job EXCEPT ![r] = Done] /\ faults' = faults
      BY <1>4, <1>c DEF InsertSettings, Finish, Continue
    <2>3. setting'[b] # Empty /\ \A x \in Businesses \ {b} : setting'[x] = setting[x]
      BY <1>a, <2>2, NewSettingRow, NullRowsAssumption
    <2>4. QED BY <1>c, <1>d, <2>1, <2>2, <2>3, SignupGoesOn
  <1>5. CASE FailSignup(r)
    <2>1. /\ stored' = [stored EXCEPT ![b] = @ \ Tracked(todo, uploaded)]
          /\ user' = user /\ setting' = setting
          /\ job' = [job EXCEPT ![r] = Done] /\ faults' = faults + 1
      BY <1>5, <1>c DEF FailSignup, Break
    <2>2. \A x \in Businesses \ {b} : stored'[x] = stored[x]
      BY <1>a, <2>1
    <2>6. faults' # 0
      BY <1>a, <2>1
    <2>3. CASE step # "create"
      BY <1>c, <1>d, <2>1, <2>2, <2>3, <2>6, SignupGoesOn
    <2>4. CASE step = "create"
      <3>1. Tracked(todo, uploaded) = {}
        BY <1>e, <2>4 DEF Tracked
      <3>2. stored' = stored
        BY <1>a, <2>1, <3>1
      <3>3. /\ user'[b] = Empty => stored'[b] = {}
            /\ setting'[b] # Empty => user'[b] # Empty /\ stored'[b] = user'[b].documents
        BY <2>1, <3>2 DEF SignupInv
      <3>4. QED BY <1>e, <2>1, <2>4, <3>2, <3>3, SignupGoesOn
    <2>5. QED BY <2>3, <2>4
  <1>6. QED BY <1>1, <1>2, <1>3, <1>4, <1>5

LEMMA SignupKept ==
    ASSUME Types, SignupInv, [Next]_vars
    PROVE  SignupInv'
  <1>a. /\ job \in [Requests -> Jobs] /\ JobsOK /\ faults \in Nat
        /\ user \in [Businesses -> UserRow \union {Empty}]
        /\ setting \in [Businesses -> SettingRow \union {Empty}]
        /\ BusinessHeld
    BY DEF Types, JobsOK, BusinessTypes
  <1>b. Done \notin SignupJob /\ Waiting \notin SignupJob
        /\ \A j \in AdminJob \union KeysJob \union SettingsJob \union PayoutJob : j \notin SignupJob
    BY BusinessJobOps DEF Done, Waiting
  <1>c. ASSUME UNCHANGED <<user, setting>> PROVE \A b \in Businesses : Alike(b)
    BY <1>c DEF Alike
  (* A step of a handler that is no signup. *)
  <1>d. ASSUME NEW r \in Requests, job[r] \notin SignupJob, NEW j,
               j \in SignupJob => j.at = "create" /\ j.uploaded = {},
               Begin(r, j) \/ Continue(r, j), UNCHANGED stored, \A b \in Businesses : Alike(b)
        PROVE  SignupInv'
    <2>1. job' = [job EXCEPT ![r] = j] /\ faults' = faults
      BY <1>d DEF Begin, Continue
    <2>2. SignupQuiet
      BY <1>a, <1>d, <2>1 DEF SignupQuiet, PastCreate
    <2>3. QED BY <2>2, SignupQuietKept
  <1>1. CASE Framed(BusinessJobs) /\ UNCHANGED businessVars
    <2>1. SignupJob \subseteq BusinessJobs
      BY DEF BusinessJobs
    <2>2. SignupQuiet
      BY <1>1, <1>c, <2>1 DEF SignupQuiet, Framed, PastCreate, businessVars
    <2>3. QED BY <2>2, SignupQuietKept
  <1>2. ASSUME NEW r \in Requests, NEW j, ReadIn(r, j) PROVE SignupInv'
    <2>1. job[r] = Waiting /\ Begin(r, j) /\ UNCHANGED <<user, stored, setting>>
      BY <1>2 DEF ReadIn, Begin, businessVars
    <2>2. j \in SignupJob => j.at = "create" /\ j.uploaded = {}
      BY <1>2, <1>b DEF ReadIn
    <2>3. QED BY <1>b, <1>c, <1>d, <2>1, <2>2
  <1>3. ASSUME NEW r \in Requests, SaveVerified(r) PROVE SignupInv'
    <2>1. job[r] \in AdminJob
      BY <1>3, <1>a, JobAt DEF SaveVerified
    <2>2. PICK b \in Businesses, copy \in UserRow, v \in BOOLEAN :
             job[r].business = b /\ job[r].copy = copy /\ job[r].verified = v
      BY <2>1 DEF AdminJob
    <2>3. user[b] \in UserRow
      BY <1>a, <2>1, <2>2 DEF BusinessHeld, RowsFor
    <2>4. PICK row : row = Saved(user[b], copy, [copy EXCEPT !.verified = v])
      OBVIOUS
    <2>5. row \in UserRow /\ row.documents = user[b].documents
      BY <2>3, <2>4, SavedUser
    <2>6. user' = [user EXCEPT ![b] = row] /\ UNCHANGED <<stored, setting>> /\ Continue(r, Done)
      BY <1>3, <2>2, <2>4 DEF SaveVerified, Finish
    <2>7. \A x \in Businesses : Alike(x)
      <3>1. \A x \in Businesses \ {b} : user'[x] = user[x]
        BY <1>a, <2>6
      <3>2. user'[b] = row
        BY <1>a, <2>6
      <3>3. ASSUME NEW x \in Businesses PROVE Alike(x)
        BY <2>3, <2>5, <2>6, <3>1, <3>2, NullRowsAssumption DEF Alike
      <3>4. QED BY <3>3
    <2>8. QED BY <1>b, <1>d, <2>1, <2>6, <2>7
  <1>4. ASSUME NEW r \in Requests, SaveSettings(r) PROVE SignupInv'
    <2>1. job[r] \in SettingsJob
      BY <1>4, <1>a, JobAt DEF SaveSettings
    <2>2. PICK b \in Businesses, copy, new \in SettingRow :
             job[r].business = b /\ job[r].copy = copy /\ job[r].new = new
      BY <2>1 DEF SettingsJob
    <2>3. setting[b] \in SettingRow
      BY <1>a, <2>1, <2>2 DEF BusinessHeld, RowsFor
    <2>4. PICK row : row = Saved(setting[b], copy, new)
      OBVIOUS
    <2>5. row \in SettingRow
      BY <2>3, <2>4, SavedSetting
    <2>6. setting' = [setting EXCEPT ![b] = row] /\ UNCHANGED <<user, stored>> /\ Continue(r, Done)
      BY <1>4, <2>2, <2>4 DEF SaveSettings, Finish
    <2>7. \A x \in Businesses : Alike(x)
      BY <1>a, <2>3, <2>5, <2>6, NullRowsAssumption DEF Alike
    <2>8. QED BY <1>b, <1>d, <2>1, <2>6, <2>7
  <1>5. ASSUME NEW r \in Requests, NEW b \in Businesses,
               \/ InsertPayout(r) \/ UpdatePayout(r, b)
               \/ job[r] \in KeysJob /\ Finish(r) /\ UNCHANGED businessVars
        PROVE  SignupInv'
    <2>1. UNCHANGED <<user, stored, setting>> /\ job[r] \notin SignupJob
      BY <1>5, <1>a, <1>b, JobAt DEF InsertPayout, UpdatePayout, Begin, businessVars
    <2>2. [op |-> "payout", at |-> "insert", business |-> b] \notin SignupJob
      BY DEF SignupJob
    <2>3. PICK j : j \notin SignupJob /\ (Begin(r, j) \/ Continue(r, j))
      BY <1>5, <1>b, <2>2 DEF InsertPayout, UpdatePayout, Finish
    <2>4. QED BY <1>c, <1>d, <2>1, <2>3
  <1>6. ASSUME NEW r \in Requests, NEW b \in Businesses, NEW copy \in SettingRow,
               NEW new \in SettingRow, DecideKeys(r, b, copy, new)
        PROVE  SignupInv'
    <2>1. Change(b, copy, new) \notin SignupJob
      BY <1>b, ChangeJob
    <2>2. /\ job[r] \notin SignupJob /\ Continue(r, Change(b, copy, new))
          /\ UNCHANGED <<user, stored, setting>>
      BY <1>6, <1>b DEF DecideKeys, businessVars
    <2>3. QED BY <1>c, <1>d, <2>1, <2>2
  <1>7. ASSUME NEW b \in Businesses, LapseKey(b) PROVE SignupInv'
    <2>1. SignupQuiet
      BY <1>7, <1>c DEF LapseKey, requestVars, SignupQuiet
    <2>2. QED BY <2>1, SignupQuietKept
  <1>8. CASE BusinessNext
    <2>1. \A b \in Businesses : setting[b] # Empty => user[b] # Empty
      BY DEF SignupInv
    <2>2. \/ \E r \in Requests :
                \/ \E j : ReadIn(r, j)
                \/ CreateUser(r) \/ SaveDocuments(r) \/ InsertSettings(r) \/ FailSignup(r)
                \/ \E f \in Documents : UploadDocument(r, f)
                \/ SaveVerified(r) \/ SaveSettings(r) \/ InsertPayout(r)
                \/ job[r] \in KeysJob /\ Finish(r) /\ UNCHANGED businessVars
                \/ \E b \in Businesses, copy, new \in SettingRow : DecideKeys(r, b, copy, new)
                \/ \E b \in Businesses : UpdatePayout(r, b)
          \/ \E b \in Businesses : LapseKey(b)
      BY <1>8, <2>1, BusinessCases
    <2>3. ASSUME NEW r \in Requests, InsertPayout(r) PROVE SignupInv'
      <3>1. job[r] \in PayoutJob
        BY <2>3, <1>a, JobAt DEF InsertPayout
      <3>2. QED BY <1>5, <2>3, <3>1 DEF PayoutJob
    <2>4. ASSUME NEW r \in Requests, job[r] \in KeysJob /\ Finish(r) /\ UNCHANGED businessVars
          PROVE  SignupInv'
      BY <1>5, <2>4 DEF KeysJob
    <2>5. QED
      BY <1>2, <1>3, <1>4, <1>5, <1>6, <1>7, <2>2, <2>3, <2>4, SignupActions
  <1>9. QED BY <1>1, <1>8, PartSteps


-----------------------------------------------------------------------------
(* Settings: of the steps, those that read, change or make a row of them. *)

Editing == KeysJob \union SettingsJob

SettingsQuiet ==
    /\ UNCHANGED <<inSeries, setting, shown>>
    /\ lapsed \subseteq lapsed' /\ verifiedOnce \subseteq verifiedOnce'
    /\ \A r \in Requests : job'[r] \in Editing => job'[r] = job[r]
    /\ \A r \in Requests : job[r] = Done => job'[r] = Done

LEMMA SettingsCases ==
    ASSUME Types, SignupInv, [Next]_vars
    PROVE  \/ SettingsQuiet
           \/ \E r \in Requests :
                \/ \E j \in Editing : ReadIn(r, j)
                \/ InsertSettings(r) \/ SaveSettings(r)
                \/ \E b \in Businesses, copy, new \in SettingRow : DecideKeys(r, b, copy, new)
  <1>a. job \in [Requests -> Jobs] /\ JobsOK
    BY DEF Types, JobsOK
  <1>b. Done \notin Editing /\ Waiting # Done
        /\ \A j \in SignupJob \union AdminJob \union PayoutJob : j \notin Editing
    BY BusinessJobOps, JobsApart DEF Done, Editing
  <1>c. ASSUME NEW r \in Requests, NEW j, j \notin Editing, Begin(r, j) \/ Continue(r, j) \/ Break(r),
               job[r] # Done, UNCHANGED <<setting, shown>>,
               lapsed \subseteq lapsed', verifiedOnce \subseteq verifiedOnce'
        PROVE  SettingsQuiet
    BY <1>a, <1>b, <1>c DEF Begin, Continue, Break, SettingsQuiet
  <1>1. CASE Framed(BusinessJobs) /\ UNCHANGED businessVars
    <2>1. Editing \subseteq BusinessJobs
      BY DEF BusinessJobs, Editing
    <2>2. QED BY <1>1, <2>1 DEF Framed, businessVars, SettingsQuiet
  <1>2. ASSUME NEW r \in Requests, NEW j, ReadIn(r, j), j \notin Editing
        PROVE  SettingsQuiet
    <2>1. Begin(r, j) /\ job[r] # Done /\ UNCHANGED <<setting, shown, lapsed, verifiedOnce>>
      BY <1>2, <1>b DEF ReadIn, Begin, businessVars
    <2>2. QED BY <1>2, <1>c, <2>1
  <1>3. ASSUME NEW r \in Requests,
               \/ CreateUser(r) \/ SaveDocuments(r) \/ FailSignup(r)
               \/ \E f \in Documents : UploadDocument(r, f)
        PROVE  SettingsQuiet
    <2>1. job[r] \in SignupJob
      BY <1>3, <1>a, JobAt DEF CreateUser, SaveDocuments, FailSignup, UploadDocument
    <2>2. \A s : [job[r] EXCEPT !.at = s] \notin Editing
      BY <2>1 DEF Editing, SignupJob, KeysJob, SettingsJob
    <2>3. \A s, t, u : [job[r] EXCEPT !.todo = t, !.uploaded = u, !.at = s] \notin Editing
      BY <2>1 DEF Editing, SignupJob, KeysJob, SettingsJob
    <2>4. \/ \E s : Continue(r, [job[r] EXCEPT !.at = s])
          \/ \E s, t, u : Continue(r, [job[r] EXCEPT !.todo = t, !.uploaded = u, !.at = s])
          \/ Continue(r, Done) \/ Break(r)
      <3>1. CASE CreateUser(r)
        BY <3>1 DEF CreateUser, Finish
      <3>2. CASE SaveDocuments(r)
        BY <3>2 DEF SaveDocuments
      <3>3. CASE FailSignup(r)
        BY <3>3 DEF FailSignup
      <3>4. ASSUME NEW f \in Documents, UploadDocument(r, f)
            PROVE  \E s, t, u : Continue(r, [job[r] EXCEPT !.todo = t, !.uploaded = u, !.at = s])
        <4>1. PICK s, t, u : /\ s = (IF job[r].todo = {f} THEN "save" ELSE "upload")
                             /\ t = job[r].todo \ {f} /\ u = job[r].uploaded \union {f}
          OBVIOUS
        <4>2. Continue(r, [job[r] EXCEPT !.todo = t, !.uploaded = u, !.at = s])
          BY <3>4, <2>1, <4>1 DEF UploadDocument, SignupJob
        <4>3. QED BY <4>2
      <3>5. QED BY <1>3, <3>1, <3>2, <3>3, <3>4
    <2>5. PICK j : j \notin Editing /\ (Continue(r, j) \/ Break(r))
      BY <1>b, <2>2, <2>3, <2>4
    <2>6. job[r] # Done
      BY <2>1, BusinessJobOps DEF Done
    <2>7. UNCHANGED <<setting, shown, lapsed, verifiedOnce>>
      BY <1>3 DEF CreateUser, SaveDocuments, FailSignup, UploadDocument
    <2>8. QED BY <1>c, <2>5, <2>6, <2>7
  <1>4. ASSUME NEW r \in Requests, SaveVerified(r) PROVE SettingsQuiet
    <2>1. job[r] # Done
      BY <1>4, <1>a, JobAt DEF SaveVerified, Running
    <2>2. Continue(r, Done) /\ UNCHANGED <<setting, shown, lapsed>>
          /\ verifiedOnce \subseteq verifiedOnce'
      BY <1>4 DEF SaveVerified, Finish
    <2>3. QED BY <1>b, <1>c, <2>1, <2>2
  <1>5. ASSUME NEW r \in Requests, InsertPayout(r) PROVE SettingsQuiet
    <2>1. job[r] # Done
      BY <1>5, <1>a, JobAt DEF InsertPayout, Running
    <2>2. Continue(r, Done) /\ UNCHANGED <<setting, shown, lapsed, verifiedOnce>>
      BY <1>5 DEF InsertPayout, Finish
    <2>3. QED BY <1>b, <1>c, <2>1, <2>2
  <1>6. ASSUME NEW r \in Requests, NEW b \in Businesses, UpdatePayout(r, b) PROVE SettingsQuiet
    <2>1. PICK j : j = [op |-> "payout", at |-> "insert", business |-> b]
      OBVIOUS
    <2>2. j \in PayoutJob
      BY <2>1 DEF PayoutJob
    <2>3. Begin(r, j) /\ job[r] # Done /\ UNCHANGED <<setting, shown, lapsed, verifiedOnce>>
      BY <1>6, <1>b, <2>1 DEF UpdatePayout, Begin
    <2>4. QED BY <1>b, <1>c, <2>2, <2>3
  <1>7. ASSUME NEW r \in Requests, job[r] \in KeysJob, Finish(r), UNCHANGED businessVars
        PROVE  SettingsQuiet
    <2>1. job[r] # Done
      BY <1>7, BusinessJobOps DEF Done
    <2>2. QED BY <1>7, <1>b, <1>c, <2>1 DEF Finish, businessVars
  <1>8. ASSUME NEW b \in Businesses, LapseKey(b) PROVE SettingsQuiet
    BY <1>8 DEF LapseKey, requestVars, SettingsQuiet
  <1>9. CASE BusinessNext
    <2>1. \A b \in Businesses : setting[b] # Empty => user[b] # Empty
      BY DEF SignupInv
    <2>2. \/ \E r \in Requests :
                \/ \E j : ReadIn(r, j)
                \/ CreateUser(r) \/ SaveDocuments(r) \/ InsertSettings(r) \/ FailSignup(r)
                \/ \E f \in Documents : UploadDocument(r, f)
                \/ SaveVerified(r) \/ SaveSettings(r) \/ InsertPayout(r)
                \/ job[r] \in KeysJob /\ Finish(r) /\ UNCHANGED businessVars
                \/ \E b \in Businesses, copy, new \in SettingRow : DecideKeys(r, b, copy, new)
                \/ \E b \in Businesses : UpdatePayout(r, b)
          \/ \E b \in Businesses : LapseKey(b)
      BY <1>9, <2>1, BusinessCases
    <2>3. QED BY <1>2, <1>3, <1>4, <1>5, <1>6, <1>7, <1>8, <2>2
  <1>10. QED BY <1>1, <1>9, PartSteps


(* What the two that write do: a signup makes the row of a business that   *)
(* has none, a handler writes what it has changed.                         *)
LEMMA SettingsMade ==
    ASSUME Types, SignupInv, NEW r \in Requests, InsertSettings(r)
    PROVE  \E b \in Businesses :
                /\ setting[b] = Empty /\ setting' = [setting EXCEPT ![b] = NewSetting]
                /\ job' = [job EXCEPT ![r] = Done] /\ job[r] # Done
                /\ UNCHANGED <<inSeries, shown, lapsed, verifiedOnce>>
  <1>1. job[r] \in SignupJob /\ job[r].at = "settings"
    BY JobAt DEF InsertSettings, Types, At
  <1>2. PICK b \in Businesses : job[r].business = b
    BY <1>1 DEF SignupJob
  <1>3. setting[b] = Empty
    BY <1>1, <1>2 DEF SignupInv, SignupFits, PastCreate
  <1>4. job[r] # Done
    BY <1>1, BusinessJobOps DEF Done
  <1>5. /\ setting' = [setting EXCEPT ![b] = NewSetting] /\ job' = [job EXCEPT ![r] = Done]
        /\ UNCHANGED <<inSeries, shown, lapsed, verifiedOnce>>
    BY <1>2 DEF InsertSettings, Finish, Continue
  <1>6. QED BY <1>3, <1>4, <1>5

LEMMA SettingsWritten ==
    ASSUME Types, NEW r \in Requests, SaveSettings(r)
    PROVE  \E b \in Businesses, copy, new, row \in SettingRow :
                /\ job[r] \in SettingsJob /\ job[r].business = b /\ job[r].copy = copy
                /\ job[r].new = new /\ setting[b] = row
                /\ setting' = [setting EXCEPT ![b] = Saved(row, copy, new)]
                /\ shown' = [shown EXCEPT ![b] = Shown(@, r, new)]
                /\ job' = [job EXCEPT ![r] = Done] /\ job[r] # Done
                /\ UNCHANGED <<inSeries, lapsed, verifiedOnce>>
  <1>1. job[r] \in SettingsJob
    BY JobAt DEF SaveSettings, Types
  <1>2. PICK b \in Businesses, copy, new \in SettingRow :
            job[r].business = b /\ job[r].copy = copy /\ job[r].new = new
    BY <1>1 DEF SettingsJob
  <1>3. setting[b] \in SettingRow
    BY <1>1, <1>2 DEF Types, BusinessHeld, BusinessTypes, RowsFor
  <1>4. job[r] # Done
    BY <1>1, BusinessJobOps DEF Done
  <1>5. /\ setting' = [setting EXCEPT ![b] = Saved(setting[b], copy, new)]
        /\ shown' = [shown EXCEPT ![b] = Shown(@, r, new)]
        /\ job' = [job EXCEPT ![r] = Done]
        /\ UNCHANGED <<inSeries, lapsed, verifiedOnce>>
    BY <1>2 DEF SaveSettings, Finish, Continue
  <1>6. QED BY <1>1, <1>2, <1>3, <1>4, <1>5

(* The rows that handlers hold, and those they are about to write, have    *)
(* keys of one generation; a live key is one that was saved before, or of  *)
(* the handler itself, which has found the account verified.               *)
Matching(row) ==
    /\ row.testPublic = row.testPrivate /\ row.lapses = row.testPrivate
    /\ row.livePublic = row.livePrivate

Finished == {q \in Requests : job[q] = Done}

EditFits(j, r, finished, verified) ==
    /\ Matching(j.copy) /\ j.copy.livePrivate \in finished \union {Empty}
    /\ j \in SettingsJob =>
        /\ Matching(j.new)
        /\ j.new.livePrivate = j.copy.livePrivate \/ (j.new.livePrivate = r /\ j.business \in verified)

KeysInv ==
    /\ \A b \in Businesses : setting[b] # Empty =>
            Matching(setting[b]) /\ setting[b].livePrivate \in Finished \union {Empty}
    /\ \A r \in Requests : job[r] \in Editing => EditFits(job[r], r, Finished, verifiedOnce)
    /\ \A b \in Businesses : shown[b].live # Empty => b \in verifiedOnce

LEMMA MatchingWrites ==
    ASSUME NEW row \in SettingRow, NEW copy \in SettingRow, NEW new \in SettingRow, NEW k \in Key
    PROVE  /\ Matching(row) /\ Matching(copy) /\ Matching(new) => Matching(Saved(row, copy, new))
           /\ Saved(row, copy, new).livePrivate \in {row.livePrivate, new.livePrivate}
           /\ Saved(row, copy, new).livePrivate # row.livePrivate => new.livePrivate # copy.livePrivate
           /\ Matching(copy) => Matching(TestKeys(copy, k)) /\ Matching(LiveKeys(copy, k))
           /\ TestKeys(copy, k).livePrivate = copy.livePrivate
           /\ LiveKeys(copy, k).livePrivate = k
           /\ (\A f \in KeyFields : new[f] = copy[f]) /\ Matching(copy) =>
                Matching(new) /\ new.livePrivate = copy.livePrivate
  <1>1. Matching(row) /\ Matching(copy) /\ Matching(new) => Matching(Saved(row, copy, new))
    BY SavedSetting DEF Matching
  <1>2. /\ Saved(row, copy, new).livePrivate \in {row.livePrivate, new.livePrivate}
        /\ Saved(row, copy, new).livePrivate # row.livePrivate => new.livePrivate # copy.livePrivate
    BY SavedSetting
  <1>3. Matching(copy) => Matching(TestKeys(copy, k)) /\ Matching(LiveKeys(copy, k))
    BY DEF Matching, TestKeys, LiveKeys, SettingRow
  <1>4. TestKeys(copy, k).livePrivate = copy.livePrivate /\ LiveKeys(copy, k).livePrivate = k
    BY DEF TestKeys, LiveKeys, SettingRow
  <1>5. (\A f \in KeyFields : new[f] = copy[f]) /\ Matching(copy) =>
                Matching(new) /\ new.livePrivate = copy.livePrivate
    BY DEF Matching, KeyFields
  <1>6. QED BY <1>1, <1>2, <1>3, <1>4, <1>5

(* An account that is verified has been.                                   *)
VerifiedNoted == \A b \in Businesses : user[b] # Empty /\ user[b].verified => b \in verifiedOnce

LEMMA VerifiedNotedKept ==
    ASSUME Types, SignupInv, VerifiedNoted, [Next]_vars
    PROVE  VerifiedNoted'
  <1>a. /\ JobsOK /\ BusinessHeld
        /\ user \in [Businesses -> UserRow \union {Empty}]
    BY DEF Types, BusinessTypes
  <1>b. CASE UNCHANGED <<user, verifiedOnce>>
    BY <1>b DEF VerifiedNoted
  <1>c. ASSUME NEW b \in Businesses, NEW row, user' = [user EXCEPT ![b] = row],
               verifiedOnce \subseteq verifiedOnce', row.verified => b \in verifiedOnce'
        PROVE  VerifiedNoted'
    BY <1>a, <1>c DEF VerifiedNoted
  <1>1. ASSUME NEW r \in Requests, CreateUser(r) PROVE VerifiedNoted'
    <2>1. job[r] \in SignupJob
      BY <1>1, <1>a, JobAt DEF CreateUser
    <2>2. PICK b \in Businesses : job[r].business = b
      BY <2>1 DEF SignupJob
    <2>3. PICK row : row = [documents |-> {}, verified |-> FALSE]
      OBVIOUS
    <2>4. UNCHANGED verifiedOnce /\ (user' = user \/ user' = [user EXCEPT ![b] = row])
      BY <1>1, <2>2, <2>3 DEF CreateUser
    <2>5. ~row.verified
      BY <2>3
    <2>6. QED BY <1>b, <1>c, <2>4, <2>5
  <1>2. ASSUME NEW r \in Requests, SaveDocuments(r) PROVE VerifiedNoted'
    <2>1. job[r] \in SignupJob /\ job[r].at = "save"
      BY <1>2, <1>a, JobAt DEF SaveDocuments, At
    <2>2. PICK b \in Businesses, files \in SUBSET Documents :
             job[r].business = b /\ job[r].uploaded = files
      BY <2>1 DEF SignupJob
    <2>3. user[b] \in UserRow
      BY <1>a, <2>1, <2>2 DEF BusinessHeld, RowsFor
    <2>4. PICK row : row = [user[b] EXCEPT !.documents = files]
      OBVIOUS
    <2>5. UNCHANGED verifiedOnce /\ user' = [user EXCEPT ![b] = row]
      BY <1>2, <2>2, <2>4 DEF SaveDocuments, Named
    <2>6. row.verified = user[b].verified
      BY <2>3, <2>4 DEF UserRow
    <2>7. user[b] # Empty
      BY <2>3, NullRowsAssumption
    <2>8. row.verified => b \in verifiedOnce'
      BY <2>5, <2>6, <2>7 DEF VerifiedNoted
    <2>9. QED BY <1>c, <2>5, <2>8
  <1>3. ASSUME NEW r \in Requests, SaveVerified(r) PROVE VerifiedNoted'
    <2>1. job[r] \in AdminJob
      BY <1>3, <1>a, JobAt DEF SaveVerified
    <2>2. PICK b \in Businesses, copy \in UserRow, v \in BOOLEAN :
             job[r].business = b /\ job[r].copy = copy /\ job[r].verified = v
      BY <2>1 DEF AdminJob
    <2>3. user[b] \in UserRow /\ user[b] # Empty
      BY <1>a, <2>1, <2>2 DEF BusinessHeld, RowsFor
    <2>4. PICK row : row = Saved(user[b], copy, [copy EXCEPT !.verified = v])
      OBVIOUS
    <2>5. row.verified = (IF v = copy.verified THEN user[b].verified ELSE v)
      BY <2>3, <2>4, SavedUser
    <2>6. /\ user' = [user EXCEPT ![b] = row]
          /\ verifiedOnce' = IF v THEN verifiedOnce \union {b} ELSE verifiedOnce
      BY <1>3, <2>2, <2>4 DEF SaveVerified
    <2>7. row.verified => b \in verifiedOnce'
      <3>1. CASE v = TRUE
        BY <2>6, <3>1
      <3>2. CASE v = FALSE
        <4>1. row.verified => user[b].verified
          BY <2>5, <3>2
        <4>2. QED BY <2>3, <2>6, <3>2, <4>1 DEF VerifiedNoted
      <3>3. QED BY <3>1, <3>2
    <2>8. verifiedOnce \subseteq verifiedOnce'
      BY <2>6
    <2>9. QED BY <1>c, <2>6, <2>7, <2>8
  <1>4. CASE BusinessNext
    <2>1. \A b \in Businesses : setting[b] # Empty => user[b] # Empty
      BY DEF SignupInv
    <2>2. ASSUME NEW r \in Requests, NEW j, ReadIn(r, j) PROVE UNCHANGED <<user, verifiedOnce>>
      BY <2>2 DEF ReadIn, businessVars
    <2>3. ASSUME NEW r \in Requests,
                 \/ InsertSettings(r) \/ FailSignup(r) \/ (\E f \in Documents : UploadDocument(r, f))
                 \/ SaveSettings(r) \/ InsertPayout(r) \/ UNCHANGED businessVars
                 \/ \E b \in Businesses : UpdatePayout(r, b)
          PROVE  UNCHANGED <<user, verifiedOnce>>
      BY <2>3 DEF InsertSettings, FailSignup, UploadDocument, SaveSettings, InsertPayout,
            UpdatePayout, businessVars
    <2>4. ASSUME NEW r \in Requests, NEW b, NEW copy, NEW new, DecideKeys(r, b, copy, new)
          PROVE  UNCHANGED <<user, verifiedOnce>>
      BY <2>4 DEF DecideKeys, businessVars
    <2>5. ASSUME NEW b \in Businesses, LapseKey(b) PROVE UNCHANGED <<user, verifiedOnce>>
      BY <2>5 DEF LapseKey
    <2>6. \/ UNCHANGED <<user, verifiedOnce>>
          \/ \E r \in Requests : CreateUser(r) \/ SaveDocuments(r) \/ SaveVerified(r)
      BY <1>4, <2>1, <2>2, <2>3, <2>4, <2>5, BusinessCases
    <2>7. QED BY <1>1, <1>2, <1>3, <1>b, <2>6
  <1>5. CASE UNCHANGED businessVars
    BY <1>5, <1>b DEF businessVars
  <1>6. QED BY <1>4, <1>5, PartSteps


LEMMA ChangeFields ==
    ASSUME NEW b \in Businesses, NEW copy \in SettingRow, NEW new \in SettingRow
    PROVE  /\ Change(b, copy, new) \in SettingsJob /\ Change(b, copy, new).business = b
           /\ Change(b, copy, new).copy = copy /\ Change(b, copy, new).new = new
  BY DEF Change, SettingsJob

LEMMA KeysInvKept ==
    ASSUME Types, SignupInv, VerifiedNoted, KeysInv, [Next]_vars
    PROVE  KeysInv'
  <1>a. /\ job \in [Requests -> Jobs] /\ BusinessHeld
        /\ setting \in [Businesses -> SettingRow \union {Empty}]
        /\ shown \in [Businesses -> [test : Key, live : Key, secret : Key]]
    BY DEF Types, JobsOK, BusinessTypes
  <1>b. Done \notin Editing
    BY BusinessJobOps DEF Done, Editing
  <1>c. ASSUME NEW r \in Requests, NEW j, job[r] # Done, job' = [job EXCEPT ![r] = j],
               UNCHANGED verifiedOnce,
               j \in Editing => EditFits(j, r, Finished, verifiedOnce),
               \A b \in Businesses : setting'[b] # Empty =>
                    /\ Matching(setting'[b])
                    /\ setting'[b].livePrivate \in Finished \union {Empty}
                       \/ (j = Done /\ setting'[b].livePrivate = r),
               \A b \in Businesses : shown'[b].live # Empty => b \in verifiedOnce
        PROVE  KeysInv'
    <2>1. Finished \subseteq Finished' /\ (j = Done => r \in Finished')
      BY <1>a, <1>c DEF Finished
    <2>2. ASSUME NEW q \in Requests, job'[q] \in Editing
          PROVE  EditFits(job'[q], q, Finished, verifiedOnce)
      BY <1>a, <1>c, <2>2 DEF KeysInv
    <2>3. ASSUME NEW q \in Requests, job'[q] \in Editing
          PROVE  EditFits(job'[q], q, Finished', verifiedOnce')
      BY <1>c, <2>1, <2>2, <2>3 DEF EditFits
    <2>4. QED BY <1>c, <2>1, <2>3 DEF KeysInv
  <1>1. CASE SettingsQuiet
    <2>1. Finished \subseteq Finished'
      BY <1>1 DEF SettingsQuiet, Finished
    <2>2. ASSUME NEW q \in Requests, job'[q] \in Editing
          PROVE  EditFits(job'[q], q, Finished', verifiedOnce')
      <3>1. EditFits(job'[q], q, Finished, verifiedOnce)
        BY <1>1, <2>2 DEF SettingsQuiet, KeysInv
      <3>2. verifiedOnce \subseteq verifiedOnce'
        BY <1>1 DEF SettingsQuiet
      <3>3. QED BY <2>1, <3>1, <3>2 DEF EditFits
    <2>3. QED BY <1>1, <2>1, <2>2 DEF SettingsQuiet, KeysInv
  <1>2. ASSUME NEW r \in Requests, NEW j \in Editing, ReadIn(r, j) PROVE KeysInv'
    <2>1. /\ Begin(r, j) /\ UNCHANGED <<setting, shown, verifiedOnce>>
          /\ setting[j.business] # Empty /\ j.copy = setting[j.business]
          /\ j \in SettingsJob => \A f \in KeyFields : j.new[f] = j.copy[f]
      BY <1>2, <1>b, BusinessJobOps DEF ReadIn, Editing, businessVars
    <2>2. job[r] # Done /\ job' = [job EXCEPT ![r] = j]
      BY <2>1, JobsApart DEF Begin
    <2>3. j.business \in Businesses
      BY DEF Editing, KeysJob, SettingsJob
    <2>4. Matching(j.copy) /\ j.copy.livePrivate \in Finished \union {Empty}
      BY <2>1, <2>3 DEF KeysInv
    <2>5. j \in SettingsJob => Matching(j.new) /\ j.new.livePrivate = j.copy.livePrivate
      <3>1. j \in SettingsJob => j.new \in SettingRow /\ j.copy \in SettingRow
        BY DEF SettingsJob
      <3>2. Empty \in Key
        BY DEF Key
      <3>3. QED BY <2>1, <2>4, <3>1, <3>2, MatchingWrites
    <2>6. EditFits(j, r, Finished, verifiedOnce)
      BY <2>4, <2>5 DEF EditFits
    <2>7. QED BY <1>c, <2>1, <2>2, <2>6 DEF KeysInv
  <1>3. ASSUME NEW r \in Requests, InsertSettings(r) PROVE KeysInv'
    <2>1. PICK b \in Businesses :
                /\ setting[b] = Empty /\ setting' = [setting EXCEPT ![b] = NewSetting]
                /\ job' = [job EXCEPT ![r] = Done] /\ job[r] # Done
                /\ UNCHANGED <<inSeries, shown, lapsed, verifiedOnce>>
      BY <1>3, SettingsMade
    <2>2. Matching(NewSetting) /\ NewSetting.livePrivate = Empty
      BY DEF Matching, NewSetting, WithoutKeys
    <2>3. setting'[b] = NewSetting /\ \A x \in Businesses \ {b} : setting'[x] = setting[x]
      BY <1>a, <2>1
    <2>4. QED BY <1>b, <1>c, <2>1, <2>2, <2>3 DEF KeysInv
  <1>4. ASSUME NEW r \in Requests, SaveSettings(r) PROVE KeysInv'
    <2>1. PICK b \in Businesses, copy, new, row \in SettingRow :
                /\ job[r] \in SettingsJob /\ job[r].business = b /\ job[r].copy = copy
                /\ job[r].new = new /\ setting[b] = row
                /\ setting' = [setting EXCEPT ![b] = Saved(row, copy, new)]
                /\ shown' = [shown EXCEPT ![b] = Shown(@, r, new)]
                /\ job' = [job EXCEPT ![r] = Done] /\ job[r] # Done
                /\ UNCHANGED <<inSeries, lapsed, verifiedOnce>>
      BY <1>4, SettingsWritten
    <2>2. /\ Matching(copy) /\ copy.livePrivate \in Finished \union {Empty} /\ Matching(new)
          /\ new.livePrivate = copy.livePrivate \/ (new.livePrivate = r /\ b \in verifiedOnce)
      BY <2>1 DEF KeysInv, Editing, EditFits
    <2>3. Matching(row) /\ row.livePrivate \in Finished \union {Empty}
      BY <2>1, NullRowsAssumption DEF KeysInv
    <2>4. PICK saved : saved = Saved(row, copy, new)
      OBVIOUS
    <2>5. Matching(saved) /\ saved.livePrivate \in {row.livePrivate, new.livePrivate}
      <3>1. Empty \in Key
        BY DEF Key
      <3>2. QED BY <2>2, <2>3, <2>4, <3>1, MatchingWrites
    <2>6. setting'[b] = saved /\ \A x \in Businesses \ {b} : setting'[x] = setting[x]
      BY <1>a, <2>1, <2>4
    <2>7. saved.livePrivate \in Finished \union {Empty} \/ saved.livePrivate = r
      BY <2>2, <2>3, <2>5
    <2>8. r # copy.livePrivate
      BY <2>1, <2>2, EmptyAssumption DEF Finished
    <2>9. shown'[b].live = (IF new.livePrivate = r THEN r ELSE shown[b].live)
          /\ \A x \in Businesses \ {b} : shown'[x] = shown[x]
      BY <1>a, <2>1 DEF Shown
    <2>10. \A x \in Businesses : shown'[x].live # Empty => x \in verifiedOnce
      BY <2>2, <2>8, <2>9 DEF KeysInv
    <2>11. \A x \in Businesses : setting'[x] # Empty =>
                    /\ Matching(setting'[x])
                    /\ setting'[x].livePrivate \in Finished \union {Empty}
                       \/ setting'[x].livePrivate = r
      BY <2>5, <2>6, <2>7 DEF KeysInv
    <2>12. QED BY <1>b, <1>c, <2>1, <2>10, <2>11
  <1>5. ASSUME NEW r \in Requests, NEW b \in Businesses, NEW copy \in SettingRow,
               NEW new \in SettingRow, DecideKeys(r, b, copy, new)
        PROVE  KeysInv'
    <2>1. /\ job[r] \in KeysJob /\ job[r].business = b /\ job[r].copy = copy
          /\ UNCHANGED <<setting, shown, verifiedOnce>>
          /\ \/ new = TestKeys(copy, Empty) \/ new = TestKeys(copy, r)
             \/ new = LiveKeys(copy, r) /\ user[b].verified
      BY <1>5 DEF DecideKeys, businessVars
    <2>2. PICK j : j = Change(b, copy, new)
      OBVIOUS
    <2>3. job' = [job EXCEPT ![r] = j] /\ job[r] # Done
      BY <1>5, <2>1, <2>2, BusinessJobOps DEF DecideKeys, Continue, Done
    <2>4. Matching(copy) /\ copy.livePrivate \in Finished \union {Empty}
      BY <2>1 DEF KeysInv, Editing, EditFits
    <2>5. user[b].verified => b \in verifiedOnce
      <3>1. user[b] # Empty
        BY <1>a, <2>1 DEF BusinessHeld, RowsFor, SignupInv
      <3>2. QED BY <3>1 DEF VerifiedNoted
    <2>6. Matching(new)
          /\ (new.livePrivate = copy.livePrivate \/ (new.livePrivate = r /\ b \in verifiedOnce))
      <3>1. Empty \in Key /\ r \in Key
        BY DEF Key
      <3>2. QED BY <2>1, <2>4, <2>5, <3>1, MatchingWrites
    <2>7. j.copy = copy /\ j.new = new /\ j.business = b
      BY <2>2, ChangeFields
    <2>8. EditFits(j, r, Finished, verifiedOnce)
      BY <2>4, <2>6, <2>7 DEF EditFits
    <2>9. QED BY <1>c, <2>1, <2>3, <2>8 DEF KeysInv
  <1>6. QED BY <1>1, <1>2, <1>3, <1>4, <1>5, SettingsCases


(* One at a time: the keys in the row are those shown last, unless the     *)
(* test key has lapsed and was cleared; what a handler has read still is   *)
(* in the row.                                                             *)
ShownIn(b) ==
    /\ setting[b] = Empty => shown[b].test = Empty /\ shown[b].live = Empty
    /\ setting[b] # Empty =>
        /\ setting[b].livePrivate = shown[b].live
        /\ \/ setting[b].testPrivate = shown[b].test
           \/ setting[b].testPrivate = Empty /\ shown[b].test \in lapsed

EditCurrent(j, r, settings, past) ==
    /\ j.copy = settings[j.business]
    /\ j \in SettingsJob =>
        /\ j.new.livePrivate \in {j.copy.livePrivate, r}
        /\ \/ j.new.testPrivate \in {j.copy.testPrivate, r}
           \/ j.new.testPrivate = Empty /\ j.copy.testPrivate \in past

ShownInv ==
    inSeries =>
        /\ \A b \in Businesses : ShownIn(b)
        /\ \A r \in Requests : job[r] \in Editing => EditCurrent(job[r], r, setting, lapsed)

LEMMA EditsAlone ==
    ASSUME Alone, inSeries, NEW r \in Requests, r \in Running, NEW q \in Requests, q # r
    PROVE  job[q] \notin Editing
  <1>1. job[q] \in {Waiting, Done}
    BY DEF Alone, Running
  <1>2. QED BY <1>1, BusinessJobOps DEF Waiting, Done, Editing

LEMMA ShownInvKept ==
    ASSUME Types, Alone, SignupInv, KeysInv, ShownInv, [Next]_vars
    PROVE  ShownInv'
  <1>a. /\ job \in [Requests -> Jobs] /\ BusinessHeld /\ lapsed \subseteq Requests /\ JobsOK
        /\ setting \in [Businesses -> SettingRow \union {Empty}]
        /\ shown \in [Businesses -> [test : Key, live : Key, secret : Key]]
    BY DEF Types, JobsOK, BusinessTypes
  <1>b. Done \notin Editing
    BY BusinessJobOps DEF Done, Editing
  <1>1. CASE SettingsQuiet
    <2> SUFFICES ASSUME inSeries' PROVE ShownInv'
      BY DEF ShownInv
    <2>1. inSeries /\ setting' = setting /\ shown' = shown /\ lapsed \subseteq lapsed'
      BY <1>1 DEF SettingsQuiet
    <2>2. ASSUME NEW q \in Requests, job'[q] \in Editing
          PROVE  EditCurrent(job'[q], q, setting', lapsed')
      <3>1. EditCurrent(job'[q], q, setting, lapsed)
        BY <1>1, <2>1, <2>2 DEF SettingsQuiet, ShownInv
      <3>2. QED BY <2>1, <3>1 DEF EditCurrent
    <2>3. \A b \in Businesses : ShownIn(b)'
      BY <2>1 DEF ShownInv, ShownIn
    <2>4. QED BY <2>2, <2>3 DEF ShownInv
  <1>2. ASSUME NEW r \in Requests, NEW j, job' = [job EXCEPT ![r] = j],
               UNCHANGED <<inSeries, setting, shown, lapsed>>,
               inSeries => EditCurrent(j, r, setting, lapsed)
        PROVE  ShownInv'
    <2>1. ASSUME inSeries, NEW q \in Requests, job'[q] \in Editing
          PROVE  EditCurrent(job'[q], q, setting, lapsed)
      BY <1>a, <1>2, <2>1 DEF ShownInv
    <2>2. QED BY <1>2, <2>1 DEF ShownInv, ShownIn
  <1>3. ASSUME NEW r \in Requests, NEW j \in Editing, ReadIn(r, j) PROVE ShownInv'
    <2>1. /\ Begin(r, j) /\ UNCHANGED <<setting, shown, lapsed>>
          /\ setting[j.business] # Empty /\ j.copy = setting[j.business]
          /\ j \in SettingsJob => \A f \in KeyFields : j.new[f] = j.copy[f]
      BY <1>3, <1>b, BusinessJobOps DEF ReadIn, Editing, businessVars
    <2>2. job' = [job EXCEPT ![r] = j] /\ UNCHANGED inSeries
      BY <2>1 DEF Begin
    <2>3. EditCurrent(j, r, setting, lapsed)
      BY <2>1 DEF EditCurrent, KeyFields
    <2>4. QED BY <1>2, <2>1, <2>2, <2>3
  <1>4. ASSUME NEW r \in Requests, NEW b \in Businesses, NEW copy \in SettingRow,
               NEW new \in SettingRow, DecideKeys(r, b, copy, new)
        PROVE  ShownInv'
    <2>1. /\ job[r] \in KeysJob /\ job[r].business = b /\ job[r].copy = copy
          /\ UNCHANGED <<setting, shown, lapsed>>
          /\ \/ new = TestKeys(copy, Empty) /\ Expired(copy)
             \/ new = TestKeys(copy, r) \/ new = LiveKeys(copy, r)
      BY <1>4 DEF DecideKeys, businessVars
    <2>2. PICK j : j = Change(b, copy, new)
      OBVIOUS
    <2>3. job' = [job EXCEPT ![r] = j] /\ UNCHANGED inSeries
      BY <1>4, <2>2 DEF DecideKeys, Continue
    <2>4. j.copy = copy /\ j.new = new /\ j.business = b
      BY <2>2, ChangeFields
    <2>5. Matching(copy)
      BY <2>1 DEF KeysInv, Editing, EditFits
    <2>6. /\ new.livePrivate \in {copy.livePrivate, r}
          /\ \/ new.testPrivate \in {copy.testPrivate, r}
             \/ new.testPrivate = Empty /\ copy.testPrivate \in lapsed
      <3>1. /\ TestKeys(copy, Empty).livePrivate = copy.livePrivate
            /\ TestKeys(copy, Empty).testPrivate = Empty
            /\ TestKeys(copy, r).livePrivate = copy.livePrivate /\ TestKeys(copy, r).testPrivate = r
            /\ LiveKeys(copy, r).livePrivate = r
            /\ LiveKeys(copy, r).testPrivate = copy.testPrivate
        BY DEF TestKeys, LiveKeys, SettingRow
      <3>2. Expired(copy) => copy.testPrivate \in lapsed
        BY <2>5 DEF Expired, Matching
      <3>3. QED BY <2>1, <3>1, <3>2
    <2>7. inSeries => EditCurrent(j, r, setting, lapsed)
      <3>1. inSeries => copy = setting[b]
        BY <2>1 DEF ShownInv, Editing, EditCurrent
      <3>2. QED BY <2>4, <2>6, <3>1 DEF EditCurrent
    <2>8. QED BY <1>2, <2>1, <2>3, <2>7
  (* A row is made or written: no other handler holds it. *)
  <1>5. ASSUME NEW r \in Requests, r \in Running, job' = [job EXCEPT ![r] = Done],
               UNCHANGED <<inSeries, lapsed>>, inSeries => \A b \in Businesses : ShownIn(b)'
        PROVE  ShownInv'
    <2>1. ASSUME inSeries, NEW q \in Requests PROVE job'[q] \notin Editing
      <3>1. CASE q = r
        BY <1>a, <1>b, <1>5, <3>1
      <3>2. CASE q # r
        <4>1. job[q] \notin Editing
          BY <1>5, <2>1, <3>2, EditsAlone
        <4>2. QED BY <1>a, <1>5, <3>2, <4>1
      <3>3. QED BY <3>1, <3>2
    <2>2. QED BY <1>5, <2>1 DEF ShownInv
  <1>6. ASSUME NEW r \in Requests, InsertSettings(r) PROVE ShownInv'
    <2>1. PICK b \in Businesses :
                /\ setting[b] = Empty /\ setting' = [setting EXCEPT ![b] = NewSetting]
                /\ job' = [job EXCEPT ![r] = Done] /\ job[r] # Done
                /\ UNCHANGED <<inSeries, shown, lapsed, verifiedOnce>>
      BY <1>6, SettingsMade
    <2>2. r \in Running
      BY <1>6 DEF InsertSettings, At, Running
    <2>3. NewSetting.testPrivate = Empty /\ NewSetting.livePrivate = Empty /\ NewSetting # Empty
      BY NewSettingRow, NullRowsAssumption DEF NewSetting, WithoutKeys
    <2>4. setting'[b] = NewSetting /\ \A x \in Businesses \ {b} : setting'[x] = setting[x]
      BY <1>a, <2>1
    <2>5. inSeries => \A x \in Businesses : ShownIn(x)'
      BY <2>1, <2>3, <2>4 DEF ShownInv, ShownIn
    <2>6. QED BY <1>5, <2>1, <2>2, <2>5
  <1>7. ASSUME NEW r \in Requests, SaveSettings(r) PROVE ShownInv'
    <2>1. PICK b \in Businesses, copy, new, row \in SettingRow :
                /\ job[r] \in SettingsJob /\ job[r].business = b /\ job[r].copy = copy
                /\ job[r].new = new /\ setting[b] = row
                /\ setting' = [setting EXCEPT ![b] = Saved(row, copy, new)]
                /\ shown' = [shown EXCEPT ![b] = Shown(@, r, new)]
                /\ job' = [job EXCEPT ![r] = Done] /\ job[r] # Done
                /\ UNCHANGED <<inSeries, lapsed, verifiedOnce>>
      BY <1>7, SettingsWritten
    <2>2. r \in Running
      BY <1>7 DEF SaveSettings, At, Running
    <2>3. ASSUME inSeries PROVE \A x \in Businesses : ShownIn(x)'
      <3>1. /\ row = copy /\ new.livePrivate \in {copy.livePrivate, r}
            /\ \/ new.testPrivate \in {copy.testPrivate, r}
               \/ new.testPrivate = Empty /\ copy.testPrivate \in lapsed
        BY <2>1, <2>3 DEF ShownInv, Editing, EditCurrent
      <3>2. PICK saved : saved = Saved(row, copy, new)
        OBVIOUS
      <3>3. saved.livePrivate = new.livePrivate /\ saved.testPrivate = new.testPrivate
            /\ saved \in SettingRow
        BY <3>1, <3>2, SavedSetting
      <3>4. /\ copy.livePrivate = shown[b].live
            /\ \/ copy.testPrivate = shown[b].test
               \/ copy.testPrivate = Empty /\ shown[b].test \in lapsed
        BY <2>1, <2>3, <3>1, NullRowsAssumption DEF ShownInv, ShownIn
      <3>5. /\ shown'[b].live = (IF new.livePrivate = r THEN r ELSE shown[b].live)
            /\ shown'[b].test = (IF new.testPrivate = r THEN r ELSE shown[b].test)
            /\ \A x \in Businesses \ {b} : shown'[x] = shown[x]
        BY <1>a, <2>1 DEF Shown
      <3>6. setting'[b] = saved /\ \A x \in Businesses \ {b} : setting'[x] = setting[x]
        BY <1>a, <2>1, <3>2
      <3>7. Empty \notin lapsed /\ r # Empty
        BY <1>a, EmptyAssumption
      <3>8. saved.livePrivate = shown'[b].live
        BY <3>1, <3>3, <3>4, <3>5
      <3>9. saved.testPrivate = shown'[b].test
            \/ (saved.testPrivate = Empty /\ shown'[b].test \in lapsed)
        BY <3>1, <3>3, <3>4, <3>5, <3>7
      <3>10. ShownIn(b)'
        BY <2>1, <3>3, <3>6, <3>8, <3>9, NullRowsAssumption DEF ShownIn
      <3>11. ASSUME NEW x \in Businesses \ {b} PROVE ShownIn(x)'
        BY <2>1, <2>3, <3>5, <3>6 DEF ShownInv, ShownIn
      <3>12. QED BY <3>10, <3>11
    <2>4. QED BY <1>5, <2>1, <2>2, <2>3
  <1>8. QED BY <1>1, <1>3, <1>4, <1>6, <1>7, SettingsCases

-----------------------------------------------------------------------------
(* One at a time: old payout details are deleted before the new are in. *)

PayoutInv ==
    inSeries =>
        /\ \A b \in Businesses : \A x, y \in payouts[b] : x = y
        /\ \A r \in Requests : job[r] \in PayoutJob => payouts[job[r].business] = {}

PayoutQuiet ==
    /\ UNCHANGED <<inSeries, payouts>>
    /\ \A r \in Requests : job'[r] \in PayoutJob => job'[r] = job[r]

LEMMA PayoutInvKept ==
    ASSUME Types, Alone, SignupInv, PayoutInv, [Next]_vars
    PROVE  PayoutInv'
  <1>a. /\ job \in [Requests -> Jobs] /\ JobsOK
        /\ payouts \in [Businesses -> SUBSET Requests]
    BY DEF Types, JobsOK, BusinessTypes
  <1>b. Done \notin PayoutJob /\ Waiting \notin PayoutJob
        /\ \A j \in AdminJob \union KeysJob \union SettingsJob \union SignupJob : j \notin PayoutJob
    BY BusinessJobOps DEF Done, Waiting
  <1>1. ASSUME PayoutQuiet PROVE PayoutInv'
    BY <1>1 DEF PayoutQuiet, PayoutInv
  <1>2. ASSUME NEW r \in Requests, NEW j, j \notin PayoutJob, Begin(r, j) \/ Continue(r, j),
               UNCHANGED payouts
        PROVE  PayoutInv'
    <2>1. job' = [job EXCEPT ![r] = j] /\ inSeries' = inSeries
      BY <1>2 DEF Begin, Continue
    <2>2. PayoutQuiet
      BY <1>a, <1>2, <2>1 DEF PayoutQuiet
    <2>3. QED BY <1>1, <2>2
  <1>3. ASSUME NEW r \in Requests, NEW b \in Businesses, UpdatePayout(r, b) PROVE PayoutInv'
    <2> SUFFICES ASSUME inSeries' PROVE PayoutInv'
      BY DEF PayoutInv
    <2>1. PICK j : j = [op |-> "payout", at |-> "insert", business |-> b]
      OBVIOUS
    <2>2. Begin(r, j) /\ payouts' = [payouts EXCEPT ![b] = {}]
      BY <1>3, <2>1 DEF UpdatePayout, Deleted
    <2>3. inSeries /\ job' = [job EXCEPT ![r] = j] /\ Cardinality(Running) < 1
      BY <2>2 DEF Begin
    <2>4. \A q \in Requests : job[q] \notin PayoutJob
      BY <1>b, <2>3, RestsBefore DEF Running
    <2>5. \A q \in Requests \ {r} : job'[q] \notin PayoutJob
      BY <1>a, <2>3, <2>4
    <2>6. job'[r].business = b
      BY <1>a, <2>1, <2>3
    <2>7. payouts'[b] = {} /\ \A x \in Businesses \ {b} : payouts'[x] = payouts[x]
      BY <1>a, <2>2
    <2>8. QED BY <2>3, <2>5, <2>6, <2>7 DEF PayoutInv
  <1>4. ASSUME NEW r \in Requests, InsertPayout(r) PROVE PayoutInv'
    <2> SUFFICES ASSUME inSeries' PROVE PayoutInv'
      BY DEF PayoutInv
    <2>1. job[r] \in PayoutJob /\ r \in Running
      BY <1>4, <1>a, JobAt DEF InsertPayout
    <2>2. PICK b \in Businesses : job[r].business = b
      BY <2>1 DEF PayoutJob
    <2>3. /\ payouts' = [payouts EXCEPT ![b] = @ \union {r}]
          /\ job' = [job EXCEPT ![r] = Done] /\ inSeries
      BY <1>4, <2>2 DEF InsertPayout, Finish, Continue
    <2>4. \A q \in Requests \ {r} : job[q] \notin PayoutJob
      BY <1>b, <2>1, <2>3 DEF Alone, Running
    <2>5. \A q \in Requests : job'[q] \notin PayoutJob
      BY <1>a, <1>b, <2>3, <2>4
    <2>6. payouts[b] = {}
      BY <2>1, <2>2, <2>3 DEF PayoutInv
    <2>7. payouts'[b] = {r} /\ \A x \in Businesses \ {b} : payouts'[x] = payouts[x]
      BY <1>a, <2>3, <2>6
    <2>8. QED BY <2>3, <2>5, <2>7 DEF PayoutInv
  <1>5. CASE Framed(BusinessJobs) /\ UNCHANGED businessVars
    <2>1. PayoutJob \subseteq BusinessJobs
      BY DEF BusinessJobs
    <2>2. PayoutQuiet
      BY <1>5, <2>1 DEF PayoutQuiet, Framed, businessVars
    <2>3. QED BY <1>1, <2>2
  <1>6. ASSUME NEW r \in Requests, NEW j, ReadIn(r, j) PROVE PayoutInv'
    <2>1. j \notin PayoutJob /\ Begin(r, j) /\ UNCHANGED payouts
      BY <1>6, <1>b DEF ReadIn, businessVars
    <2>2. QED BY <1>2, <2>1
  <1>7. ASSUME NEW r \in Requests, NEW f \in Documents,
               CreateUser(r) \/ SaveDocuments(r) \/ UploadDocument(r, f)
        PROVE  PayoutInv'
    <2>1. job[r] \in SignupJob /\ UNCHANGED payouts
      BY <1>7, <1>a, JobAt DEF CreateUser, SaveDocuments, UploadDocument
    <2>2. PICK j : Continue(r, j) /\ (j = Done \/ j.op = job[r].op)
      <3>1. CASE CreateUser(r)
        <4>1. PICK step : Continue(r, Done) \/ Continue(r, [job[r] EXCEPT !.at = step])
          BY <3>1 DEF CreateUser, Finish
        <4>2. [job[r] EXCEPT !.at = step].op = job[r].op
          BY <2>1 DEF SignupJob
        <4>3. QED BY <4>1, <4>2
      <3>2. CASE SaveDocuments(r)
        <4>1. [job[r] EXCEPT !.at = "settings"].op = job[r].op
          BY <2>1 DEF SignupJob
        <4>2. QED BY <3>2, <4>1 DEF SaveDocuments
      <3>3. CASE UploadDocument(r, f)
        <4>1. PICK files, done, step :
                 Continue(r, [job[r] EXCEPT !.todo = files, !.uploaded = done, !.at = step])
          BY <3>3 DEF UploadDocument
        <4>2. [job[r] EXCEPT !.todo = files, !.uploaded = done, !.at = step].op = job[r].op
          BY <2>1 DEF SignupJob
        <4>3. QED BY <4>1, <4>2
      <3>4. QED BY <1>7, <3>1, <3>2, <3>3
    <2>3. j \notin PayoutJob
      BY <1>b, <2>1, <2>2, BusinessJobOps
    <2>4. QED BY <1>2, <2>1, <2>2, <2>3
  <1>8. ASSUME NEW r \in Requests,
               \/ InsertSettings(r) \/ SaveVerified(r) \/ SaveSettings(r)
               \/ job[r] \in KeysJob /\ Finish(r) /\ UNCHANGED businessVars
        PROVE  PayoutInv'
    <2>1. Continue(r, Done) /\ UNCHANGED payouts
      BY <1>8 DEF InsertSettings, SaveVerified, SaveSettings, Finish, businessVars
    <2>2. QED BY <1>2, <1>b, <2>1
  <1>9. ASSUME NEW r \in Requests, FailSignup(r) PROVE PayoutInv'
    <2>1. PayoutQuiet
      BY <1>9, <1>a, <1>b DEF FailSignup, Break, PayoutQuiet
    <2>2. QED BY <1>1, <2>1
  <1>10. ASSUME NEW r \in Requests, NEW b \in Businesses, NEW copy \in SettingRow,
                NEW new \in SettingRow, DecideKeys(r, b, copy, new)
         PROVE  PayoutInv'
    <2>1. Change(b, copy, new) \notin PayoutJob
      BY <1>b, ChangeJob
    <2>2. QED BY <1>2, <1>10, <2>1 DEF DecideKeys, businessVars
  <1>11. ASSUME NEW b \in Businesses, LapseKey(b) PROVE PayoutInv'
    <2>1. PayoutQuiet
      BY <1>11 DEF LapseKey, requestVars, PayoutQuiet
    <2>2. QED BY <1>1, <2>1
  <1>12. CASE BusinessNext
    <2>1. \A b \in Businesses : setting[b] # Empty => user[b] # Empty
      BY DEF SignupInv
    <2>2. Letter \in Documents
      BY DEF Documents
    <2>3. QED
      BY <1>3, <1>4, <1>6, <1>7, <1>8, <1>9, <1>10, <1>11, <1>12, <2>1, <2>2, BusinessCases
  <1>13. QED BY <1>5, <1>12, PartSteps

-----------------------------------------------------------------------------
(* A business is whole. *)

BusinessInv ==
    Types /\ Alone /\ SignupInv /\ VerifiedNoted /\ KeysInv /\ ShownInv /\ PayoutInv

LEMMA BusinessInvInit == Init => BusinessInv
  <1> SUFFICES ASSUME Init PROVE BusinessInv
    OBVIOUS
  <1>1. Types /\ Alone
    BY TypesInit, AloneInit
  <1>2. \A r \in Requests : job[r] = Waiting
    BY DEF Init, RequestsInit
  <1>3. \A r \in Requests : /\ job[r] \notin SignupJob \union KeysJob \union SettingsJob
                            /\ job[r] \notin PayoutJob
    BY <1>2, BusinessJobOps DEF Waiting
  <1>4. /\ \A b \in Businesses : user[b] # Empty => user[b].documents = {}
        /\ \A b \in Businesses : stored[b] = {} /\ payouts[b] = {}
        /\ \A b \in Businesses : setting[b] = (IF user[b] = Empty THEN Empty ELSE NewSetting)
        /\ \A b \in Businesses : shown[b] = [test |-> Empty, live |-> Empty, secret |-> Empty]
        /\ verifiedOnce = {b \in Businesses : user[b] # Empty /\ user[b].verified}
    BY DEF Init, BusinessInit
  <1>5. NewSetting # Empty /\ Matching(NewSetting) /\ NewSetting.livePrivate = Empty
        /\ NewSetting.testPrivate = Empty
    BY NewSettingRow, NullRowsAssumption DEF Matching, NewSetting, WithoutKeys
  <1>6. SignupInv
    BY <1>3, <1>4, <1>5 DEF SignupInv, PastCreate
  <1>7. VerifiedNoted
    BY <1>4 DEF VerifiedNoted
  <1>8. KeysInv
    BY <1>3, <1>4, <1>5 DEF KeysInv, Editing
  <1>9. ShownInv
    BY <1>3, <1>4, <1>5 DEF ShownInv, ShownIn, Editing
  <1>10. PayoutInv
    BY <1>3, <1>4 DEF PayoutInv
  <1>11. QED BY <1>1, <1>6, <1>7, <1>8, <1>9, <1>10 DEF BusinessInv

LEMMA BusinessInvKept == BusinessInv /\ [Next]_vars => BusinessInv'
  BY TypesKept, AloneKept, SignupKept, VerifiedNotedKept, KeysInvKept, ShownInvKept, PayoutInvKept
     DEF BusinessInv

(* However requests overlap and wherever one ends, a business has all that *)
(* its signup consists of, its keys are of one generation and its live     *)
(* keys were made once it was verified; one at a time, the keys that are   *)
(* accepted are those shown last, and there is one set of payout details.  *)
THEOREM BusinessesAreWhole == Spec => []BusinessIsWhole
  <1>1. ASSUME BusinessInv PROVE BusinessIsWhole
    <2> USE <1>1 DEF BusinessInv
    <2>1. SignupIsComplete
      <3>1. ASSUME NEW r \in Requests, PastCreate(job[r])
            PROVE  r \in Running /\ job[r].op = "signup"
        BY <3>1, BusinessJobOps DEF PastCreate, Running, Waiting, Done
      <3>2. \A b \in Businesses : faults = 0 /\ user[b] # Empty => SigningUp(b) \/ setting[b] # Empty
        BY <3>1 DEF SignupInv, SigningUp
      <3>3. \A b \in Businesses :
                setting[b] # Empty => user[b] # Empty /\ stored[b] = user[b].documents
        BY DEF SignupInv
      <3>4. QED BY <3>2, <3>3 DEF SignupIsComplete
    <2>2. KeysMatch
      BY DEF KeysInv, Matching, KeysMatch
    <2>3. ShownKeyWorks
      <3> SUFFICES ASSUME inSeries, NEW b \in Businesses, NEW k \in Requests
                   PROVE  /\ TestKeyAccepted(b, k) <=> shown[b].test = k /\ k \notin lapsed
                          /\ LiveKeyAccepted(b, k) <=> shown[b].live = k
        BY DEF ShownKeyWorks
      <3>1. k # Empty
        BY EmptyAssumption
      <3>2. ShownIn(b) /\ (setting[b] # Empty => Matching(setting[b]))
        BY DEF ShownInv, KeysInv
      <3>3. QED BY <3>1, <3>2 DEF ShownIn, Matching, TestKeyAccepted, LiveKeyAccepted, Expired
    <2>4. LiveKeyWasVerified
      BY DEF KeysInv, LiveKeyWasVerified
    <2>5. OnePayoutDetail
      <3> SUFFICES ASSUME inSeries, NEW b \in Businesses PROVE Cardinality(payouts[b]) <= 1
        BY DEF OnePayoutDetail
      <3>1. CASE payouts[b] = {}
        BY <3>1, FS_EmptySet
      <3>2. ASSUME NEW x \in payouts[b] PROVE Cardinality(payouts[b]) <= 1
        <4>1. payouts[b] = {x}
          BY <3>2 DEF PayoutInv
        <4>2. Cardinality({x}) = 1
          BY FS_Singleton
        <4>3. QED BY <4>1, <4>2
      <3>3. QED BY <3>1, <3>2
    <2>6. QED BY <2>1, <2>2, <2>3, <2>4, <2>5 DEF BusinessIsWhole
  <1>2. QED BY <1>1, BusinessInvInit, BusinessInvKept, PTL DEF Spec

-----------------------------------------------------------------------------
(* A page that has been opened is a request that was made. *)

TabsInv == ConnectedAreTold /\ \A r \in Requests : tab[r] # Empty => job[r] # Waiting

LEMMA TabSteps ==
    ASSUME Types, NoticeNext
    PROVE  \/ UNCHANGED <<tab, clients>>
           \/ \E r \in Requests : LoseTab(r) \/ CloseTab(r) \/ \E b \in Businesses : OpenTab(r, b)
           \/ UNCHANGED tab /\ \E b \in Businesses : \E failed : Emit(b, failed)
  <1>1. ASSUME NEW r \in Requests, NEW failed, Commit(r, failed) \/ EmitBalance(r, failed)
        PROVE  UNCHANGED tab /\ \E b \in Businesses : Emit(b, failed)
    <2>1. job[r] \in NoticeJobs
      BY <1>1, JobAt DEF Types, Commit, EmitBalance
    <2>2. job[r].business \in Businesses
      BY <2>1 DEF NoticeJobs
    <2>3. QED BY <1>1, <2>2 DEF Commit, EmitBalance
  <1>2. ASSUME NEW b \in Businesses, NEW failed, Heartbeat(b, failed)
        PROVE  UNCHANGED tab /\ Emit(b, failed)
    BY <1>2 DEF Heartbeat
  <1>3. ASSUME NEW r \in Requests,
               \/ \E b \in Businesses : ConfirmPayment(r, b)
               \/ Dispatch(r) \/ LogAttempt(r) \/ LogFails(r) \/ OpenWatch(r) \/ Tick(r)
               \/ CloseWatch(r) \/ \E success \in BOOLEAN : Post(r, success)
               \/ \E n \in 0..MaxTicks, s \in Statuses : Answer(r, n, s) \/ FailRead(r, n, s)
        PROVE  UNCHANGED <<tab, clients>>
    BY <1>3 DEF ConfirmPayment, Dispatch, LogAttempt, LogFails, OpenWatch, Tick, CloseWatch, Post,
          Answer, FailRead, SetWatch, noticeVars
  <1>4. IncompletePayment => UNCHANGED <<tab, clients>>
    BY DEF IncompletePayment
  <1>5. QED BY <1>1, <1>2, <1>3, <1>4 DEF NoticeNext

LEMMA TabsKept ==
    ASSUME Types, TabsInv, [Next]_vars
    PROVE  TabsInv'
  <1>a. /\ JobsOK /\ job \in [Requests -> Jobs]
        /\ tab \in [Requests -> TabRow \union {Empty}]
        /\ clients \in [Businesses -> SUBSET Requests]
    BY DEF Types, NoticeTypes, JobsOK
  <1>b. \A r \in Requests : job'[r] = Waiting => job[r] = Waiting
    <2>1. CASE Moves(NoticeJobs)
      <3>1. Framed({})
        BY <1>a, <2>1, MovesFrame, JobsApart
      <3>2. QED BY <3>1 DEF Framed
    <2>2. CASE Framed(NoticeJobs)
      BY <2>2 DEF Framed
    <2>3. QED BY <2>1, <2>2, PartSteps
  <1>1. ASSUME UNCHANGED <<tab, clients>> PROVE TabsInv'
    BY <1>1, <1>b DEF TabsInv, ConnectedAreTold
  <1>2. ASSUME NEW r \in Requests, NEW b \in Businesses, OpenTab(r, b) PROVE TabsInv'
    <2>1. tab[r] = Empty /\ \A x \in Businesses : r \notin clients[x]
      BY <1>2 DEF OpenTab, Begin, TabsInv, ConnectedAreTold
    <2>2. PICK row : row = [business |-> b, connected |-> TRUE]
      OBVIOUS
    <2>3. tab'[r] = row /\ \A q \in Requests \ {r} : tab'[q] = tab[q]
      BY <1>2, <1>a, <2>2 DEF OpenTab
    <2>4. clients'[b] = clients[b] \union {r}
          /\ \A x \in Businesses \ {b} : clients'[x] = clients[x]
      BY <1>2, <1>a DEF OpenTab
    <2>10. row \in TabRow /\ row.business = b
      BY <2>2 DEF TabRow
    <2>5. row # Empty /\ row.business = b
      BY <2>10, NullPageAssumption
    <2>6. job'[r] = Done
      BY <1>2, <1>a DEF OpenTab, Begin
    <2>7. \A q \in Requests : tab'[q] # Empty => job'[q] # Waiting
      BY <1>b, <2>3, <2>6, JobsApart DEF TabsInv
    <2>8. ConnectedAreTold'
      BY <1>a, <2>1, <2>3, <2>4, <2>5 DEF TabsInv, ConnectedAreTold
    <2>9. QED BY <2>7, <2>8 DEF TabsInv
  <1>3. ASSUME NEW r \in Requests, LoseTab(r) PROVE TabsInv'
    <2>1. PICK row \in TabRow : tab[r] = row /\ row # Empty
      BY <1>3, <1>a DEF LoseTab
    <2>2. PICK lost : lost = [row EXCEPT !.connected = FALSE]
      OBVIOUS
    <2>3. lost.business = row.business /\ ~lost.connected /\ lost \in TabRow /\ lost # Empty
      BY <2>1, <2>2, NullPageAssumption DEF TabRow
    <2>4. tab'[r] = lost /\ \A q \in Requests \ {r} : tab'[q] = tab[q]
      BY <1>3, <1>a, <2>1, <2>2 DEF LoseTab
    <2>5. UNCHANGED <<job, clients>>
      BY <1>3 DEF LoseTab, requestVars
    <2>6. QED BY <1>a, <2>1, <2>3, <2>4, <2>5 DEF TabsInv, ConnectedAreTold
  <1>4. ASSUME NEW r \in Requests, CloseTab(r) PROVE TabsInv'
    <2>1. PICK row \in TabRow : tab[r] = row /\ row # Empty
      BY <1>4, <1>a DEF CloseTab
    <2>2. PICK b \in Businesses : row.business = b
      BY <2>1 DEF TabRow
    <2>3. tab'[r] = Empty /\ \A q \in Requests \ {r} : tab'[q] = tab[q]
      BY <1>4, <1>a DEF CloseTab
    <2>4. clients'[b] = clients[b] \ {r} /\ \A x \in Businesses \ {b} : clients'[x] = clients[x]
      BY <1>4, <1>a, <2>1, <2>2 DEF CloseTab, Without
    <2>5. \A x \in Businesses \ {b} : r \notin clients[x]
      BY <2>1, <2>2 DEF TabsInv, ConnectedAreTold
    <2>6. UNCHANGED job
      BY <1>4 DEF CloseTab, requestVars
    <2>7. QED BY <1>a, <2>3, <2>4, <2>5, <2>6 DEF TabsInv, ConnectedAreTold
  <1>5. ASSUME NEW b \in Businesses, NEW failed, Emit(b, failed), UNCHANGED tab PROVE TabsInv'
    <2>1. clients'[b] = clients[b] \ failed /\ \A x \in Businesses \ {b} : clients'[x] = clients[x]
      BY <1>5, <1>a DEF Emit
    <2>2. \A r \in failed : tab[r] # Empty /\ ~tab[r].connected
      BY <1>5 DEF Emit
    <2>3. ConnectedAreTold'
      BY <1>5, <1>a, <2>1, <2>2 DEF TabsInv, ConnectedAreTold
    <2>4. QED BY <1>5, <1>b, <2>3 DEF TabsInv
  <1>6. CASE UNCHANGED noticeVars
    BY <1>1, <1>6 DEF noticeVars
  <1>7. QED BY <1>1, <1>2, <1>3, <1>4, <1>5, <1>6, PartSteps, TabSteps

-----------------------------------------------------------------------------
(* The calls of a webhook, by the step that its handler is at: none of     *)
(* those before the last has succeeded, and none of them all while it goes *)
(* on; what is not logged yet is the last one, unless something failed.    *)

CallsFit(j, calls, logged, clean) ==
    /\ Len(calls) <= MaxRetries
    /\ \A i \in 1..Len(calls) : calls[i] => i = Len(calls)
    /\ j = Waiting \/ (j \in NoticeJobs /\ j.at = "dispatch") => calls = <<>> /\ logged = <<>>
    /\ j \in NoticeJobs /\ j.at = "post" =>
        /\ Len(calls) < MaxRetries /\ \A i \in 1..Len(calls) : ~calls[i]
        /\ clean => logged = calls
    /\ j \in NoticeJobs /\ j.at = "log" =>
        /\ Len(calls) > 0
        /\ clean => calls = Append(logged, calls[Len(calls)])
    /\ j \in NoticeJobs /\ j.at = "commit" =>
        /\ clean => logged = calls
        /\ Len(calls) > 0 => calls[Len(calls)] \/ Len(calls) = MaxRetries

CallsInv == \A r \in Requests : CallsFit(job[r], delivery[r], log[r], faults = 0)

(* Calling once more, of calls that have failed.                           *)
LEMMA CallsGoOn ==
    ASSUME NEW calls \in Seq(BOOLEAN), NEW success \in BOOLEAN,
           \A i \in 1..Len(calls) : ~calls[i]
    PROVE  /\ Append(calls, success) \in Seq(BOOLEAN)
           /\ Len(Append(calls, success)) = Len(calls) + 1
           /\ Append(calls, success)[Len(calls) + 1] = success
           /\ \A i \in 1..(Len(calls) + 1) : Append(calls, success)[i] => i = Len(calls) + 1
  <1>1. /\ Append(calls, success) \in Seq(BOOLEAN)
        /\ Len(Append(calls, success)) = Len(calls) + 1
        /\ Append(calls, success)[Len(calls) + 1] = success
        /\ Len(calls) \in Nat
    OBVIOUS
  <1>2. ASSUME NEW i \in 1..(Len(calls) + 1), i # Len(calls) + 1
        PROVE  ~Append(calls, success)[i]
    <2>1. i \in 1..Len(calls)
      BY <1>1, <1>2
    <2>2. Append(calls, success)[i] = calls[i]
      BY <2>1
    <2>3. QED BY <2>1, <2>2
  <1>3. QED BY <1>1, <1>2

LEMMA CallsKept ==
    ASSUME Types, CallsInv, [Next]_vars
    PROVE  CallsInv'
  <1>a. /\ JobsOK /\ job \in [Requests -> Jobs] /\ faults \in Nat /\ MaxRetries \in Nat
        /\ delivery \in [Requests -> Seq(BOOLEAN)] /\ log \in [Requests -> Seq(BOOLEAN)]
        /\ \A r \in Requests : delivery[r] \in Seq(BOOLEAN) /\ Len(delivery[r]) \in Nat
    BY NoticeBoundsAssumption DEF Types, NoticeTypes, JobsOK
  <1>b. Done \notin NoticeJobs /\ Waiting \notin NoticeJobs /\ Waiting # Done
    BY JobsApart
  <1>c. faults' \in {faults, faults + 1}
    BY PartSteps DEF Moves, Framed
  <1>d. faults' = 0 => faults = 0
    BY <1>a, <1>c
  (* What fits still does when handlers end or something fails.            *)
  <1>e. ASSUME NEW r \in Requests, job'[r] = job[r] \/ job'[r] \notin NoticeJobs \union {Waiting},
               delivery'[r] = delivery[r], log'[r] = log[r]
        PROVE  CallsFit(job'[r], delivery'[r], log'[r], faults' = 0)
    <2>1. CallsFit(job[r], delivery[r], log[r], faults = 0)
      BY DEF CallsInv
    <2>2. QED BY <1>e, <1>b, <1>d, <2>1 DEF CallsFit
  <1>f. ASSUME NEW r \in Requests, NEW j, job' = [job EXCEPT ![r] = j],
               \A q \in Requests \ {r} : delivery'[q] = delivery[q] /\ log'[q] = log[q],
               CallsFit(j, delivery'[r], log'[r], faults' = 0)
        PROVE  CallsInv'
    <2>1. job'[r] = j /\ \A q \in Requests \ {r} : job'[q] = job[q]
      BY <1>a, <1>f
    <2>2. \A q \in Requests \ {r} : CallsFit(job'[q], delivery'[q], log'[q], faults' = 0)
      BY <1>e, <1>f, <2>1
    <2>3. QED BY <1>f, <2>1, <2>2 DEF CallsInv
  <1>g. ASSUME NEW r \in Requests, NEW step, At(r, "webhook", step)
        PROVE  /\ job[r] \in NoticeJobs /\ job[r].at = step
               /\ CallsFit(job[r], delivery[r], log[r], faults = 0)
               /\ \A at \in {"post", "log", "commit", "balance"} :
                    [job[r] EXCEPT !.at = at] \in NoticeJobs /\ [job[r] EXCEPT !.at = at].at = at
                    /\ [job[r] EXCEPT !.at = at] # Waiting
    <2>1. job[r] \in NoticeJobs /\ job[r].at = step
      BY <1>a, <1>g, JobAt
    <2>2. \A at \in {"post", "log", "commit", "balance"} :
                [job[r] EXCEPT !.at = at] \in NoticeJobs /\ [job[r] EXCEPT !.at = at].at = at
      BY <2>1 DEF NoticeJobs
    <2>3. QED BY <1>b, <2>1, <2>2 DEF CallsInv
  <1>1. ASSUME NEW r \in Requests, NEW b \in Businesses, ConfirmPayment(r, b) PROVE CallsInv'
    <2>1. PICK j : j = [op |-> "webhook", at |-> "dispatch", business |-> b]
      OBVIOUS
    <2>2. /\ job' = [job EXCEPT ![r] = j] /\ job[r] = Waiting
          /\ UNCHANGED <<delivery, log>>
      BY <1>1, <2>1 DEF ConfirmPayment, Begin, noticeVars
    <2>3. CallsFit(Waiting, delivery[r], log[r], faults = 0)
      BY <2>2 DEF CallsInv
    <2>4. j.at = "dispatch"
      BY <2>1
    <2>5. CallsFit(j, delivery'[r], log'[r], faults' = 0)
      BY <1>d, <2>2, <2>3, <2>4 DEF CallsFit
    <2>6. QED BY <1>f, <2>2, <2>5
  <1>2. ASSUME NEW r \in Requests, Dispatch(r) PROVE CallsInv'
    <2>1. /\ CallsFit(job[r], delivery[r], log[r], faults = 0)
          /\ job[r] \in NoticeJobs /\ job[r].at = "dispatch"
      BY <1>2, <1>g DEF Dispatch
    <2>2. PICK at \in {"post", "commit"} : job' = [job EXCEPT ![r] = [job[r] EXCEPT !.at = at]]
      BY <1>2 DEF Dispatch, Continue
    <2>3. PICK j : j = [job[r] EXCEPT !.at = at]
      OBVIOUS
    <2>4. j.at = at /\ j # Waiting
      BY <1>2, <1>g, <2>3 DEF Dispatch
    <2>5. UNCHANGED <<delivery, log>>
      BY <1>2 DEF Dispatch, noticeVars
    <2>6. delivery[r] = <<>> /\ log[r] = <<>>
      BY <2>1 DEF CallsFit
    <2>7. CallsFit(j, delivery'[r], log'[r], faults' = 0)
      <3>1. Len(delivery'[r]) = 0 /\ delivery'[r] = log'[r] /\ 0 < MaxRetries
        BY <2>5, <2>6, NoticeBoundsAssumption
      <3>2. \A i \in 1..Len(delivery'[r]) : FALSE
        BY <3>1
      <3>3. PICK calls : calls = delivery'[r]
        OBVIOUS
      <3>4. CallsFit(j, calls, calls, faults' = 0)
        BY <1>a, <2>2, <2>4, <3>1, <3>2, <3>3 DEF CallsFit
      <3>5. QED BY <3>1, <3>3, <3>4
    <2>8. QED BY <1>f, <2>2, <2>3, <2>5, <2>7
  <1>3. ASSUME NEW r \in Requests, NEW success \in BOOLEAN, Post(r, success) PROVE CallsInv'
    <2>1. /\ CallsFit(job[r], delivery[r], log[r], faults = 0)
          /\ job[r] \in NoticeJobs /\ job[r].at = "post"
      BY <1>3, <1>g DEF Post
    <2>2. PICK j : j = [job[r] EXCEPT !.at = "log"]
      OBVIOUS
    <2>3. /\ job' = [job EXCEPT ![r] = j] /\ UNCHANGED log
          /\ delivery' = [delivery EXCEPT ![r] = Append(@, success)]
      BY <1>3, <2>2 DEF Post, Continue
    <2>4. j.at = "log" /\ j # Waiting
      BY <1>3, <1>g, <2>2 DEF Post
    <2>5. PICK calls \in Seq(BOOLEAN) : calls = delivery[r]
      BY <1>a
    <2>6. PICK more : more = Append(calls, success)
      OBVIOUS
    <2>7. /\ Len(calls) < MaxRetries /\ \A i \in 1..Len(calls) : ~calls[i]
          /\ faults = 0 => log[r] = calls
      BY <2>1, <2>5 DEF CallsFit
    <2>8. /\ Len(more) = Len(calls) + 1 /\ more[Len(calls) + 1] = success
          /\ \A i \in 1..(Len(calls) + 1) : more[i] => i = Len(calls) + 1
      BY <2>6, <2>7, CallsGoOn
    <2>9. delivery'[r] = more /\ \A q \in Requests \ {r} : delivery'[q] = delivery[q]
      BY <1>a, <2>3, <2>5, <2>6
    <2>10. Len(more) <= MaxRetries /\ Len(more) > 0
      BY <1>a, <2>5, <2>7, <2>8
    <2>11. faults' = 0 => more = Append(log[r], more[Len(more)])
      BY <1>d, <2>6, <2>7, <2>8
    <2>12. CallsFit(j, more, log[r], faults' = 0)
      BY <2>4, <2>8, <2>10, <2>11 DEF CallsFit
    <2>13. QED BY <1>f, <2>3, <2>9, <2>12
  <1>4. ASSUME NEW r \in Requests, LogAttempt(r) \/ LogFails(r) PROVE CallsInv'
    <2>1. /\ CallsFit(job[r], delivery[r], log[r], faults = 0)
          /\ job[r] \in NoticeJobs /\ job[r].at = "log"
      BY <1>4, <1>g DEF LogAttempt, LogFails
    <2>2. PICK calls \in Seq(BOOLEAN) : calls = delivery[r]
      BY <1>a
    <2>3. PICK at \in {"post", "commit"} :
             at = IF ~calls[Len(calls)] /\ Len(calls) < MaxRetries THEN "post" ELSE "commit"
      OBVIOUS
    <2>4. PICK j : j = [job[r] EXCEPT !.at = at]
      OBVIOUS
    <2>5. AfterLog(r) = j
      BY <2>2, <2>3, <2>4 DEF AfterLog, Retries
    <2>6. /\ job' = [job EXCEPT ![r] = j] /\ UNCHANGED delivery
          /\ \/ log' = [log EXCEPT ![r] = Append(@, calls[Len(calls)])]
             \/ UNCHANGED log /\ faults' = faults + 1
      BY <1>4, <2>2, <2>5 DEF LogAttempt, LogFails, Continue, noticeVars
    <2>7. j.at = at /\ j # Waiting
      BY <1>4, <1>g, <2>4 DEF LogAttempt, LogFails
    <2>8. /\ Len(calls) <= MaxRetries /\ Len(calls) > 0
          /\ \A i \in 1..Len(calls) : calls[i] => i = Len(calls)
          /\ faults = 0 => calls = Append(log[r], calls[Len(calls)])
      BY <2>1, <2>2 DEF CallsFit
    <2>9. \A q \in Requests \ {r} : delivery'[q] = delivery[q] /\ log'[q] = log[q]
      BY <1>a, <2>6
    <2>10. faults' = 0 => log'[r] = calls
      <3>1. PICK last : last = calls[Len(calls)]
        OBVIOUS
      <3>2. CASE log' = [log EXCEPT ![r] = Append(@, last)]
        <4>1. log'[r] = Append(log[r], last)
          BY <1>a, <3>2
        <4>2. QED BY <1>d, <2>8, <3>1, <4>1
      <3>3. CASE faults' = faults + 1
        BY <1>a, <3>3
      <3>4. QED BY <2>6, <3>1, <3>2, <3>3
    <2>11. delivery'[r] = calls
      BY <2>2, <2>6
    <2>12. at = "post" => Len(calls) < MaxRetries /\ \A i \in 1..Len(calls) : ~calls[i]
      BY <2>3, <2>8
    <2>13. at = "commit" => calls[Len(calls)] \/ Len(calls) = MaxRetries
      <3>1. Len(calls) \in Nat
        OBVIOUS
      <3>2. QED BY <1>a, <2>3, <2>8, <3>1
    <2>14. CallsFit(j, calls, log'[r], faults' = 0)
      BY <2>7, <2>8, <2>10, <2>12, <2>13 DEF CallsFit
    <2>15. QED BY <1>f, <2>6, <2>9, <2>11, <2>14
  <1>5. ASSUME NEW r \in Requests, NEW failed, Commit(r, failed) \/ EmitBalance(r, failed)
        PROVE  CallsInv'
    <2>1. job[r] \in NoticeJobs /\ CallsFit(job[r], delivery[r], log[r], faults = 0)
      BY <1>5, <1>g DEF Commit, EmitBalance
    <2>2. PICK j \in {Done, [job[r] EXCEPT !.at = "balance"]} : job' = [job EXCEPT ![r] = j]
      BY <1>5 DEF Commit, EmitBalance, Finish, Continue
    <2>3. j # Waiting /\ (j \in NoticeJobs => j.at = "balance")
      BY <1>5, <1>b, <1>g, <2>2 DEF Commit, EmitBalance
    <2>4. UNCHANGED <<delivery, log>>
      BY <1>5 DEF Commit, EmitBalance
    <2>5. CallsFit(j, delivery'[r], log'[r], faults' = 0)
      BY <2>1, <2>3, <2>4 DEF CallsFit
    <2>6. QED BY <1>f, <2>2, <2>4, <2>5
  (* The pages, and the other parts of the platform. *)
  <1>6. ASSUME UNCHANGED <<delivery, log>>, Framed(NoticeJobs) PROVE CallsInv'
    <2>1. ASSUME NEW r \in Requests PROVE CallsFit(job'[r], delivery'[r], log'[r], faults' = 0)
      BY <1>6, <1>e DEF Framed
    <2>2. QED BY <2>1 DEF CallsInv
  <1>7. ASSUME NEW r \in Requests, UNCHANGED <<delivery, log>>,
               job' = job \/ job' = [job EXCEPT ![r] = Done]
        PROVE  CallsInv'
    <2>1. ASSUME NEW q \in Requests PROVE CallsFit(job'[q], delivery'[q], log'[q], faults' = 0)
      BY <1>7, <1>a, <1>b, <1>e
    <2>2. QED BY <2>1 DEF CallsInv
  <1>8. ASSUME NEW r \in Requests,
               \/ \E b \in Businesses : OpenTab(r, b)
               \/ LoseTab(r) \/ CloseTab(r) \/ OpenWatch(r) \/ Tick(r) \/ CloseWatch(r)
               \/ \E n \in 0..MaxTicks, s \in Statuses : Answer(r, n, s) \/ FailRead(r, n, s)
        PROVE  CallsInv'
    <2>1. UNCHANGED <<delivery, log>> /\ (job' = job \/ job' = [job EXCEPT ![r] = Done])
      BY <1>8 DEF OpenTab, LoseTab, CloseTab, OpenWatch, Tick, CloseWatch, Answer, FailRead,
            SetWatch, Begin, requestVars
    <2>2. QED BY <1>7, <2>1
  <1>9. ASSUME IncompletePayment \/ \E b \in Businesses : \E failed : Heartbeat(b, failed)
        PROVE  CallsInv'
    <2>1. UNCHANGED <<job, delivery, log>>
      BY <1>9 DEF IncompletePayment, Heartbeat, requestVars
    <2>2. ASSUME NEW q \in Requests PROVE CallsFit(job'[q], delivery'[q], log'[q], faults' = 0)
      BY <2>1, <1>e
    <2>3. QED BY <2>2 DEF CallsInv
  <1>10. CASE NoticeNext
    BY <1>1, <1>2, <1>3, <1>4, <1>5, <1>8, <1>9, <1>10 DEF NoticeNext
  <1>11. CASE Framed(NoticeJobs) /\ UNCHANGED noticeVars
    BY <1>6, <1>11 DEF noticeVars
  <1>12. QED BY <1>10, <1>11, PartSteps

-----------------------------------------------------------------------------
(* A poll answered before the next: a stream that was ended has no read    *)
(* under way, except one that the customer closed.                         *)

StreamFits(w) ==
    /\ \A x, y \in w.reads : x = y
    /\ w.end \in {"complete", "timeout", "error"} => w.reads = {} /\ ~w.late
    /\ w.end = "no" => ~w.late
    /\ Terminal(w.last) => w.end # "no" \/ w.first = w.last

StreamsInv == inSeries => \A r \in Requests : watch[r] # Empty => StreamFits(watch[r])

LEMMA StreamGoesOn ==
    ASSUME NEW w \in WatchRow, StreamFits(w), w.end = "no", NEW s \in Statuses
    PROVE  /\ w.reads = {} => StreamFits(TimedOut(w)) /\ StreamFits(Polling(w, s))
           /\ StreamFits(Gone(w))
  <1>1. ~w.late
    BY DEF StreamFits
  <1>2. ASSUME w.reads = {} PROVE StreamFits(TimedOut(w))
    <2>1. PICK v : v = TimedOut(w)
      OBVIOUS
    <2>2. v.reads = {} /\ v.end = "timeout" /\ v.late = w.late
      BY <1>2, <2>1 DEF TimedOut, WatchRow
    <2>3. StreamFits(v)
      BY <1>1, <2>2 DEF StreamFits
    <2>4. QED BY <2>1, <2>3
  <1>3. ASSUME w.reads = {} PROVE StreamFits(Polling(w, s))
    <2>1. PICK v : v = Polling(w, s)
      OBVIOUS
    <2>2. /\ v.reads = {<<w.ticks + 1, s>>} /\ v.end = "no" /\ v.late = w.late
          /\ v.first = w.first /\ v.last = w.last
      BY <1>3, <2>1 DEF Polling, WatchRow
    <2>3. StreamFits(v)
      BY <1>1, <2>2 DEF StreamFits
    <2>4. QED BY <2>1, <2>3
  <1>4. StreamFits(Gone(w))
    <2>1. PICK v : v = Gone(w)
      OBVIOUS
    <2>2. v.reads = w.reads /\ v.end = "gone"
      BY <2>1 DEF Gone, WatchRow
    <2>3. StreamFits(v)
      BY <2>2 DEF StreamFits
    <2>4. QED BY <2>1, <2>3
  <1>5. QED BY <1>2, <1>3, <1>4

LEMMA StreamAnswered ==
    ASSUME NEW w \in WatchRow, StreamFits(w), NEW n \in 0..MaxTicks, NEW s \in Statuses,
           <<n, s>> \in w.reads
    PROVE  /\ StreamFits(FirstTold(Taken(w, n, s), s)) /\ StreamFits(Told(Taken(w, n, s), s))
           /\ StreamFits(Failing(w, n, s))
  <1>1. w.reads \ {<<n, s>>} = {} /\ w.end \in {"no", "gone"} /\ (w.end = "no" => ~w.late)
    BY DEF StreamFits, WatchRow
  <1>2. PICK t \in WatchRow : t = Taken(w, n, s)
    BY WatchTyped
  <1>3. /\ t.reads = {} /\ t.end \in {"no", "gone"} /\ (t.end = "no" => ~t.late)
        /\ Terminal(t.last) => t.end # "no" \/ t.first = t.last
    BY <1>1, <1>2 DEF Taken, WatchRow, StreamFits
  <1>4. PICK late \in BOOLEAN : late = (t.late \/ t.end # "no")
    BY DEF WatchRow
  <1>5. t.end = "no" => ~late
    BY <1>3, <1>4
  <1>6. StreamFits(FirstTold(t, s))
    <2>1. PICK v : v = [t EXCEPT !.first = s, !.last = s, !.late = late]
      OBVIOUS
    <2>2. v.reads = {} /\ v.end = t.end /\ v.late = late /\ v.first = s /\ v.last = s
      BY <1>3, <2>1 DEF WatchRow
    <2>3. StreamFits(v)
      BY <1>3, <1>5, <2>2 DEF StreamFits
    <2>4. FirstTold(t, s) = v
      BY <1>4, <2>1 DEF FirstTold
    <2>5. QED BY <2>3, <2>4
  <1>7. StreamFits(Told(t, s))
    <2>1. CASE t.last = s
      <3>1. PICK v : v = [t EXCEPT !.late = late]
        OBVIOUS
      <3>2. v.reads = {} /\ v.end = t.end /\ v.late = late /\ v.first = t.first /\ v.last = t.last
        BY <1>3, <3>1 DEF WatchRow
      <3>3. StreamFits(v)
        BY <1>3, <1>5, <3>2 DEF StreamFits
      <3>4. Told(t, s) = v
        BY <1>4, <2>1, <3>1 DEF Told
      <3>5. QED BY <3>3, <3>4
    <2>2. CASE t.last # s
      <3>1. PICK end : end = (IF t.end = "no" /\ Terminal(s) THEN "complete" ELSE t.end)
        OBVIOUS
      <3>2. PICK v : v = [t EXCEPT !.last = s, !.late = late, !.end = end]
        OBVIOUS
      <3>3. v.reads = {} /\ v.end = end /\ v.late = late /\ v.last = s
        BY <1>3, <3>2 DEF WatchRow
      <3>4. /\ end \in {"complete", "timeout", "error", "no"} => ~late
            /\ Terminal(s) => end # "no"
        BY <1>3, <1>5, <3>1
      <3>5. StreamFits(v)
        BY <3>3, <3>4 DEF StreamFits
      <3>6. Told(t, s) = v
        BY <1>4, <2>2, <3>1, <3>2 DEF Told
      <3>7. QED BY <3>5, <3>6
    <2>3. QED BY <2>1, <2>2
  <1>8. StreamFits(Failing(w, n, s))
    <2>1. PICK end : end = (IF w.end = "no" /\ n = 0 THEN "error" ELSE w.end)
      OBVIOUS
    <2>2. PICK after \in BOOLEAN : after = (w.late \/ w.end # "no")
      BY DEF WatchRow
    <2>3. PICK v : v = [w EXCEPT !.reads = @ \ {<<n, s>>}, !.late = after, !.end = end]
      OBVIOUS
    <2>4. /\ v.reads = {} /\ v.end = end /\ v.late = after
          /\ v.first = w.first /\ v.last = w.last
      BY <1>1, <2>3 DEF WatchRow
    <2>5. /\ end \in {"complete", "timeout", "error", "no"} => ~after
          /\ end = "no" => w.end = "no"
      BY <1>1, <2>1, <2>2
    <2>6. StreamFits(v)
      BY <2>4, <2>5 DEF StreamFits
    <2>7. Failing(w, n, s) = v
      BY <2>1, <2>2, <2>3 DEF Failing
    <2>8. QED BY <2>6, <2>7
  <1>9. QED BY <1>2, <1>6, <1>7, <1>8

LEMMA StreamsKept ==
    ASSUME Types, StreamsInv, [Next]_vars
    PROVE  StreamsInv'
  <1>a. /\ NoticeTypes /\ watch \in [Requests -> WatchRow \union {Empty}]
    BY DEF Types, NoticeTypes
  <1>b. inSeries' = inSeries
    BY PartSteps DEF Moves, Framed
  <1> SUFFICES ASSUME inSeries PROVE StreamsInv'
    BY <1>b DEF StreamsInv
  <1>c. \A r \in Requests : watch[r] # Empty => StreamFits(watch[r])
    BY DEF StreamsInv
  <1>1. ASSUME UNCHANGED watch PROVE StreamsInv'
    BY <1>1, <1>c DEF StreamsInv
  <1>2. ASSUME NEW r \in Requests, NEW w, StreamFits(w), watch' = [watch EXCEPT ![r] = w]
        PROVE  StreamsInv'
    <2>1. ASSUME NEW q \in Requests, watch'[q] # Empty PROVE StreamFits(watch'[q])
      BY <1>2, <1>a, <1>c, <2>1
    <2>2. QED BY <2>1 DEF StreamsInv
  <1>3. ASSUME NEW r \in Requests, OpenWatch(r) PROVE StreamsInv'
    <2>1. PICK w : w = [ticks |-> 0, reads |-> {<<0, status>>}, first |-> Empty, last |-> Empty,
                        end |-> "no", late |-> FALSE]
      OBVIOUS
    <2>2. watch' = [watch EXCEPT ![r] = w]
      BY <1>3, <2>1 DEF OpenWatch
    <2>3. /\ w.reads = {<<0, status>>} /\ w.end = "no" /\ ~w.late /\ w.first = w.last
      BY <2>1
    <2>4. StreamFits(w)
      BY <2>3 DEF StreamFits
    <2>5. QED BY <1>2, <2>2, <2>4
  <1>4. ASSUME NEW r \in Requests, Tick(r) PROVE StreamsInv'
    <2>1. /\ watch[r] # Empty /\ watch[r].end = "no" /\ watch[r] \in WatchRow
          /\ Cardinality(watch[r].reads) < 1 /\ status \in Statuses
      BY <1>4, <1>a, WatchSteps DEF Tick, Watching
    <2>2. watch[r].reads = {}
      <3>1. SUFFICES ASSUME NEW x \in watch[r].reads PROVE FALSE
        OBVIOUS
      <3>2. watch[r].reads = {x}
        BY <1>c, <2>1, <3>1 DEF StreamFits
      <3>3. Cardinality({x}) = 1
        BY FS_Singleton
      <3>4. QED BY <2>1, <3>2, <3>3
    <2>3. StreamFits(TimedOut(watch[r])) /\ StreamFits(Polling(watch[r], status))
      BY <1>c, <2>1, <2>2, StreamGoesOn
    <2>4. \/ watch' = [watch EXCEPT ![r] = TimedOut(watch[r])]
          \/ watch' = [watch EXCEPT ![r] = Polling(watch[r], status)]
      BY <1>4, <1>a, <2>1, WatchSteps DEF SetWatch
    <2>5. QED BY <1>2, <2>3, <2>4
  <1>5. ASSUME NEW r \in Requests, CloseWatch(r) PROVE StreamsInv'
    <2>1. /\ watch[r] # Empty /\ watch[r].end = "no" /\ watch[r] \in WatchRow
          /\ status \in Statuses
      BY <1>5, <1>a, WatchSteps DEF CloseWatch, Watching
    <2>2. StreamFits(Gone(watch[r]))
      BY <1>c, <2>1, StreamGoesOn
    <2>3. watch' = [watch EXCEPT ![r] = Gone(watch[r])]
      BY <1>5, <1>a, <2>1, WatchSteps DEF SetWatch
    <2>4. QED BY <1>2, <2>2, <2>3
  <1>6. ASSUME NEW r \in Requests, NEW n \in 0..MaxTicks, NEW s \in Statuses,
               Answer(r, n, s) \/ FailRead(r, n, s)
        PROVE  StreamsInv'
    <2>1. watch[r] # Empty /\ <<n, s>> \in watch[r].reads /\ watch[r] \in WatchRow
      BY <1>6, <1>a, WatchSteps DEF Answer, FailRead
    <2>2. /\ StreamFits(FirstTold(Taken(watch[r], n, s), s))
          /\ StreamFits(Told(Taken(watch[r], n, s), s)) /\ StreamFits(Failing(watch[r], n, s))
      BY <1>c, <2>1, StreamAnswered
    <2>3. \/ watch' = [watch EXCEPT ![r] = FirstTold(Taken(watch[r], n, s), s)]
          \/ watch' = [watch EXCEPT ![r] = Told(Taken(watch[r], n, s), s)]
          \/ watch' = [watch EXCEPT ![r] = Failing(watch[r], n, s)]
      BY <1>6, <1>a, <2>1, WatchSteps DEF SetWatch
    <2>4. QED BY <1>2, <2>2, <2>3
  <1>7. ASSUME NEW r \in Requests,
               \/ \E b \in Businesses : OpenTab(r, b) \/ ConfirmPayment(r, b)
               \/ \E failed \in SUBSET Requests : Commit(r, failed) \/ EmitBalance(r, failed)
               \/ LoseTab(r) \/ CloseTab(r) \/ Dispatch(r)
               \/ \E success \in BOOLEAN : Post(r, success)
               \/ LogAttempt(r) \/ LogFails(r)
        PROVE  UNCHANGED watch
    BY <1>7 DEF OpenTab, ConfirmPayment, Commit, EmitBalance, LoseTab, CloseTab, Dispatch, Post,
          LogAttempt, LogFails, noticeVars
  <1>8. ASSUME IncompletePayment \/ \E b \in Businesses : \E failed : Heartbeat(b, failed)
        PROVE  UNCHANGED watch
    BY <1>8 DEF IncompletePayment, Heartbeat
  <1>9. CASE NoticeNext
    BY <1>1, <1>3, <1>4, <1>5, <1>6, <1>7, <1>8, <1>9 DEF NoticeNext
  <1>10. CASE UNCHANGED noticeVars
    BY <1>1, <1>10 DEF noticeVars
  <1>11. QED BY <1>9, <1>10, PartSteps

-----------------------------------------------------------------------------
(* However polls overlap: what a page was told, or is about to be told, is *)
(* what the payment was by then, and it never goes back.                   *)

NotOver(w) ==
    /\ ~Terminal(w.first) /\ ~Terminal(w.last) /\ w.end # "complete"
    /\ \A n \in 0..MaxTicks, s \in Statuses : <<n, s>> \in w.reads => ~Terminal(s)

TruthInv == ~Terminal(status) => \A r \in Requests : watch[r] # Empty => NotOver(watch[r])

LEMMA NotOverGoesOn ==
    ASSUME NEW w \in WatchRow, NotOver(w), NEW s \in Statuses, ~Terminal(s)
    PROVE  NotOver(TimedOut(w)) /\ NotOver(Polling(w, s)) /\ NotOver(Gone(w))
  <1>1. PICK v : v = TimedOut(w)
    OBVIOUS
  <1>2. v.first = w.first /\ v.last = w.last /\ v.reads = w.reads /\ v.end = "timeout"
    BY <1>1 DEF TimedOut, WatchRow
  <1>3. PICK p : p = Polling(w, s)
    OBVIOUS
  <1>4. /\ p.first = w.first /\ p.last = w.last /\ p.end = w.end
        /\ p.reads = w.reads \union {<<w.ticks + 1, s>>}
    BY <1>3 DEF Polling, WatchRow
  <1>5. PICK g : g = Gone(w)
    OBVIOUS
  <1>6. g.first = w.first /\ g.last = w.last /\ g.reads = w.reads /\ g.end = "gone"
    BY <1>5 DEF Gone, WatchRow
  <1>7. NotOver(v) /\ NotOver(g)
    BY <1>2, <1>6 DEF NotOver
  <1>8. NotOver(p)
    BY <1>4 DEF NotOver
  <1>9. QED BY <1>1, <1>3, <1>5, <1>7, <1>8

LEMMA NotOverAnswered ==
    ASSUME NEW w \in WatchRow, NotOver(w), NEW n \in 0..MaxTicks, NEW s \in Statuses,
           <<n, s>> \in w.reads
    PROVE  /\ NotOver(FirstTold(Taken(w, n, s), s)) /\ NotOver(Told(Taken(w, n, s), s))
           /\ NotOver(Failing(w, n, s))
  <1>1. ~Terminal(s)
    BY DEF NotOver
  <1>2. PICK t \in WatchRow : t = Taken(w, n, s)
    BY WatchTyped
  <1>3. /\ t.first = w.first /\ t.last = w.last /\ t.end = w.end
        /\ t.reads = w.reads \ {<<n, s>>}
    BY <1>2 DEF Taken, WatchRow
  <1>4. NotOver(t)
    BY <1>3 DEF NotOver
  <1>5. PICK f : f = FirstTold(t, s)
    OBVIOUS
  <1>6. f.first = s /\ f.last = s /\ f.reads = t.reads /\ f.end = t.end
    BY <1>5 DEF FirstTold, WatchRow
  <1>7. PICK p : p = Told(t, s)
    OBVIOUS
  <1>8. /\ p.first = t.first /\ p.last \in {t.last, s} /\ p.reads = t.reads
        /\ p.end = t.end
    BY <1>1, <1>7 DEF Told, WatchRow
  <1>9. PICK v : v = Failing(w, n, s)
    OBVIOUS
  <1>10. /\ v.first = w.first /\ v.last = w.last /\ v.reads = t.reads
         /\ v.end \in {w.end, "error"}
    BY <1>3, <1>9 DEF Failing, WatchRow
  <1>11. NotOver(f) /\ NotOver(p)
    BY <1>1, <1>4, <1>6, <1>8 DEF NotOver
  <1>12. NotOver(v)
    BY <1>3, <1>4, <1>10 DEF NotOver
  <1>13. QED BY <1>2, <1>5, <1>7, <1>9, <1>11, <1>12

LEMMA TruthKept ==
    ASSUME Types, TruthInv, [Next]_vars
    PROVE  TruthInv'
  <1>a. NoticeTypes /\ watch \in [Requests -> WatchRow \union {Empty}] /\ status \in Statuses
    BY DEF Types, NoticeTypes
  <1>b. Terminal("payment_completed") /\ Terminal("incomplete_payment")
    BY DEF Terminal
  <1>1. CASE UNCHANGED <<status, watch>>
    BY <1>1 DEF TruthInv
  <1>2. ASSUME NEW r \in Requests, NEW w, UNCHANGED status, ~Terminal(status) => NotOver(w),
               watch' = [watch EXCEPT ![r] = w]
        PROVE  TruthInv'
    BY <1>2, <1>a DEF TruthInv
  <1>3. ASSUME NEW r \in Requests, OpenWatch(r) PROVE TruthInv'
    <2>1. PICK w : w = [ticks |-> 0, reads |-> {<<0, status>>}, first |-> Empty, last |-> Empty,
                        end |-> "no", late |-> FALSE]
      OBVIOUS
    <2>2. watch' = [watch EXCEPT ![r] = w] /\ UNCHANGED status
      BY <1>3, <2>1 DEF OpenWatch
    <2>3. w.reads = {<<0, status>>} /\ w.end = "no" /\ w.first = Empty /\ w.last = Empty
      BY <2>1
    <2>4. ~Terminal(Empty)
      BY NullPageAssumption DEF Terminal, Statuses
    <2>5. ~Terminal(status) => NotOver(w)
      BY <2>3, <2>4 DEF NotOver
    <2>6. QED BY <1>2, <2>2, <2>5
  <1>4. ASSUME NEW r \in Requests, watch[r] # Empty,
               \/ Tick(r) \/ CloseWatch(r)
               \/ \E n \in 0..MaxTicks, s \in Statuses : Answer(r, n, s) \/ FailRead(r, n, s)
        PROVE  TruthInv'
    <2>1. watch[r] \in WatchRow /\ UNCHANGED status
      BY <1>4, <1>a DEF Tick, CloseWatch, SetWatch, Answer, FailRead
    <2>2. ~Terminal(status) => NotOver(watch[r])
      BY <1>4 DEF TruthInv
    <2>3. CASE Tick(r) \/ CloseWatch(r)
      <3>1. ~Terminal(status) => /\ NotOver(TimedOut(watch[r])) /\ NotOver(Gone(watch[r]))
                                 /\ NotOver(Polling(watch[r], status))
        BY <1>a, <2>1, <2>2, NotOverGoesOn
      <3>2. \/ watch' = [watch EXCEPT ![r] = TimedOut(watch[r])]
            \/ watch' = [watch EXCEPT ![r] = Polling(watch[r], status)]
            \/ watch' = [watch EXCEPT ![r] = Gone(watch[r])]
        BY <1>4, <1>a, <2>3, WatchSteps DEF SetWatch
      <3>3. QED BY <1>2, <2>1, <3>1, <3>2
    <2>4. ASSUME NEW n \in 0..MaxTicks, NEW s \in Statuses, Answer(r, n, s) \/ FailRead(r, n, s)
          PROVE  TruthInv'
      <3>1. <<n, s>> \in watch[r].reads
        BY <2>4 DEF Answer, FailRead
      <3>2. ~Terminal(status) =>
                /\ NotOver(FirstTold(Taken(watch[r], n, s), s))
                /\ NotOver(Told(Taken(watch[r], n, s), s)) /\ NotOver(Failing(watch[r], n, s))
        BY <2>1, <2>2, <3>1, NotOverAnswered
      <3>3. \/ watch' = [watch EXCEPT ![r] = FirstTold(Taken(watch[r], n, s), s)]
            \/ watch' = [watch EXCEPT ![r] = Told(Taken(watch[r], n, s), s)]
            \/ watch' = [watch EXCEPT ![r] = Failing(watch[r], n, s)]
        BY <1>4, <1>a, <2>4, WatchSteps DEF SetWatch
      <3>4. QED BY <1>2, <2>1, <3>2, <3>3
    <2>5. QED BY <1>4, <2>3, <2>4
  <1>5. ASSUME NEW r \in Requests,
               \/ \E b \in Businesses : OpenTab(r, b) \/ ConfirmPayment(r, b)
               \/ \E failed \in SUBSET Requests : Commit(r, failed) \/ EmitBalance(r, failed)
               \/ LoseTab(r) \/ CloseTab(r) \/ Dispatch(r)
               \/ \E success \in BOOLEAN : Post(r, success)
               \/ LogAttempt(r) \/ LogFails(r)
        PROVE  UNCHANGED watch /\ (UNCHANGED status \/ status' = "payment_completed")
    BY <1>5 DEF OpenTab, ConfirmPayment, Commit, EmitBalance, LoseTab, CloseTab, Dispatch, Post,
          LogAttempt, LogFails, noticeVars
  <1>6. ASSUME IncompletePayment \/ \E b \in Businesses : \E failed : Heartbeat(b, failed)
        PROVE  UNCHANGED watch /\ (UNCHANGED status \/ status' = "incomplete_payment")
    BY <1>6 DEF IncompletePayment, Heartbeat
  <1>7. CASE Terminal(status')
    BY <1>7 DEF TruthInv
  <1>8. ASSUME NEW r \in Requests,
               \/ Tick(r) \/ CloseWatch(r)
               \/ \E n \in 0..MaxTicks, s \in Statuses : Answer(r, n, s) \/ FailRead(r, n, s)
        PROVE  watch[r] # Empty
    BY <1>8 DEF Tick, CloseWatch, Watching, Answer, FailRead
  <1>9. CASE NoticeNext
    BY <1>b, <1>1, <1>3, <1>4, <1>5, <1>6, <1>7, <1>8, <1>9 DEF NoticeNext
  <1>10. CASE UNCHANGED noticeVars
    BY <1>1, <1>10 DEF noticeVars
  <1>11. QED BY <1>9, <1>10, PartSteps

-----------------------------------------------------------------------------
(* A payment is told of. *)

NoticeInv == Types /\ TabsInv /\ CallsInv /\ StreamsInv /\ TruthInv

LEMMA NoticeInvInit == Init => NoticeInv
  <1> SUFFICES ASSUME Init PROVE NoticeInv
    OBVIOUS
  <1>1. Types
    BY TypesInit
  <1>2. \A r \in Requests : /\ job[r] = Waiting /\ tab[r] = Empty /\ watch[r] = Empty
                            /\ delivery[r] = <<>> /\ log[r] = <<>>
    BY DEF Init, RequestsInit, NoticeInit
  <1>3. \A b \in Businesses : clients[b] = {}
    BY DEF Init, NoticeInit
  <1>4. TabsInv
    BY <1>2, <1>3 DEF TabsInv, ConnectedAreTold
  <1>5. ASSUME NEW calls, calls = <<>> PROVE CallsFit(Waiting, calls, calls, faults = 0)
    <2>1. Len(calls) = 0 /\ Waiting \notin NoticeJobs /\ MaxRetries \in Nat
      BY <1>5, JobsApart, NoticeBoundsAssumption
    <2>2. \A i \in 1..Len(calls) : FALSE
      BY <2>1
    <2>3. QED BY <1>5, <2>1, <2>2 DEF CallsFit
  <1>6. CallsInv
    BY <1>2, <1>5 DEF CallsInv
  <1>7. StreamsInv /\ TruthInv
    BY <1>2 DEF StreamsInv, TruthInv
  <1>8. QED BY <1>1, <1>4, <1>6, <1>7 DEF NoticeInv

LEMMA NoticeInvKept == NoticeInv /\ [Next]_vars => NoticeInv'
  BY TypesKept, TabsKept, CallsKept, StreamsKept, TruthKept DEF NoticeInv

(* For any pages, requests and failures: a merchant's page that is         *)
(* connected is among those its payments' events are written to; a webhook *)
(* is called until it succeeds or all retries are used up, and unless      *)
(* something ends early each call is logged; and no customer's page is     *)
(* told that the payment is over before it is.  With each poll answered    *)
(* before the next a stream ends once a poll has told so, unless its first *)
(* snapshot had: then it is held until it times out.                       *)
THEOREM PaymentsAreTold == Spec => []PaymentIsTold
  <1>1. ASSUME NoticeInv PROVE PaymentIsTold
    <2> USE <1>1 DEF NoticeInv
    <2>1. ConnectedAreTold
      BY DEF TabsInv
    <2>2. CalledUntilDelivered
      <3>1. ASSUME NEW r \in Requests, NEW n, n = Len(delivery[r])
            PROVE  /\ n <= MaxRetries
                   /\ \A i \in 1..n : delivery[r][i] => i = n
                   /\ At(r, "webhook", "commit") /\ faults = 0 /\ n > 0 =>
                        log[r] = delivery[r] /\ (delivery[r][n] \/ n = MaxRetries)
        <4>1. CallsFit(job[r], delivery[r], log[r], faults = 0)
          BY DEF CallsInv
        <4>2. At(r, "webhook", "commit") => job[r] \in NoticeJobs /\ job[r].at = "commit"
          BY JobAt DEF Types
        <4>3. QED BY <3>1, <4>1, <4>2 DEF CallsFit
      <3>2. QED BY <3>1 DEF CalledUntilDelivered
    <2>3. StreamEndsWhenPaid
      BY DEF StreamsInv, StreamFits, TruthInv, NotOver, Terminal, StreamEndsWhenPaid
    <2>4. QED BY <2>1, <2>2, <2>3 DEF PaymentIsTold
  <1>2. QED BY <1>1, NoticeInvInit, NoticeInvKept, PTL DEF Spec

=============================================================================
