------------------------------- MODULE Business -------------------------------
(***************************************************************************)
(* Businesses and their settings: signup (AuthUserController), API keys    *)
(* (SettingsApiKeyController, ApiKeyMiddleware), environment and general   *)
(* settings (SettingsGeneralController), the address and the secret of     *)
(* webhooks (SettingsWebhookController), payout details                    *)
(* (PayoutController) and verification by an admin (AuthAdminController).  *)
(*                                                                         *)
(* A key pair or a secret is named by the request that generates it.  Only *)
(* the hash of a private key is stored; the key itself is shown once.      *)
(***************************************************************************)
EXTENDS Requests

CONSTANTS
    Businesses,     \* accounts, by their email
    CacFiles,       \* documents a registered business uploads one by one
    Letter,         \* the shareholders' letter it uploads after them
    Empty           \* a null column, a missing row

ASSUME DocumentsAssumption == Letter \notin CacFiles
ASSUME EmptyAssumption == Empty \notin Requests

VARIABLES
    user,       \* the rows of users
    stored,     \* documents of each business in the file store
    setting,    \* the rows of business_settings
    lapsed,     \* test keys whose two hours have passed
    payouts,    \* payout details of each business that are not deleted
    shown,      \* history: the keys and secret each business was shown last
    verifiedOnce    \* history: businesses that have been verified

businessVars == <<user, stored, setting, lapsed, payouts, shown, verifiedOnce>>

Documents == CacFiles \union {Letter}
Key == Requests \union {Empty}

UserRow == [documents : SUBSET Documents, verified : BOOLEAN]

(* lapses is test_key_expires_at: whose key it is the expiry of. *)
SettingRow == [environment : {"TEST", "LIVE"}, testPublic : Key, testPrivate : Key, lapses : Key,
               livePublic : Key, livePrivate : Key, url : BOOLEAN, secret : Key]

ASSUME NullRowsAssumption == Empty \notin UserRow /\ Empty \notin SettingRow

WithoutKeys(environment) ==
    [environment |-> environment, testPublic |-> Empty, testPrivate |-> Empty, lapses |-> Empty,
     livePublic |-> Empty, livePrivate |-> Empty, url |-> FALSE, secret |-> Empty]

(* The environment is left null (a mistake, see below). *)
NewSetting_Bug == WithoutKeys(Empty)

NewSetting == WithoutKeys("TEST")

(* A business has signed up before, or has not. *)
BusinessInit ==
    /\ user \in [Businesses -> [documents : {{}}, verified : BOOLEAN] \union {Empty}]
    /\ stored = [b \in Businesses |-> {}]
    /\ setting = [b \in Businesses |-> IF user[b] = Empty THEN Empty ELSE NewSetting]
    /\ lapsed = {}
    /\ payouts = [b \in Businesses |-> {}]
    /\ shown = [b \in Businesses |-> [test |-> Empty, live |-> Empty, secret |-> Empty]]
    /\ verifiedOnce = {b \in Businesses : user[b] # Empty /\ user[b].verified}

-----------------------------------------------------------------------------
(* Conditions the steps test.  A definition named ..._Bug is never used by *)
(* the specification: it is what the next definition would be with a       *)
(* mistake, to see that the properties notice it.                          *)

(* What a signup that fails deletes: the CAC documents are noted once all  *)
(* of them are uploaded.                                                   *)
Tracked(todo, uploaded) == IF todo \intersect CacFiles = {} THEN uploaded ELSE {}

(* Only the CAC documents are kept in the row. *)
Named_Bug(uploaded) == uploaded \intersect CacFiles

Named(uploaded) == uploaded

(* The private key is replaced and the public one is not. *)
TestKeys_Bug(row, k) == [row EXCEPT !.testPrivate = k, !.lapses = k]

TestKeys(row, k) == [row EXCEPT !.testPrivate = k, !.testPublic = k, !.lapses = k]

LiveKeys(row, k) == [row EXCEPT !.livePrivate = k, !.livePublic = k]

(* The page clears whatever test key there is. *)
Expired_Bug(row) == row.lapses # Empty

Expired(row) == row.lapses # Empty /\ row.lapses \in lapsed

(* A key may be generated for any environment. *)
MayGenerate_Bug(row, account) == TRUE

MayGenerate(row, account) == row.environment = "LIVE" => account.verified

(* The details there were are kept. *)
Deleted_Bug(rows) == rows

(* update() sets is_deleted in every row of the business. *)
Deleted(rows) == {}

(* ApiKeyMiddleware and verify() take a secret key if it is the one whose  *)
(* hash is stored, and a test key if it has not lapsed.                    *)
TestKeyAccepted(b, k) ==
    setting[b] # Empty /\ setting[b].testPrivate = k /\ ~Expired(setting[b])

LiveKeyAccepted(b, k) == setting[b] # Empty /\ setting[b].livePrivate = k

-----------------------------------------------------------------------------
(* Signup. *)

Signup(r, b, files) ==
    /\ Begin(r, IF user[b] = Empty
                THEN [op |-> "signup", at |-> "create", business |-> b, todo |-> files,
                      uploaded |-> {}]
                ELSE Done)
    /\ UNCHANGED businessVars

(* Emails are unique.  A business without documents is a starter. *)
CreateUser(r) ==
    /\ At(r, "signup", "create")
    /\ LET b == job[r].business IN
       IF user[b] = Empty
       THEN /\ user' = [user EXCEPT ![b] = [documents |-> {}, verified |-> FALSE]]
            /\ Continue(r, [job[r] EXCEPT !.at = IF job[r].todo = {} THEN "settings"
                                                 ELSE "upload"])
       ELSE Finish(r) /\ UNCHANGED user
    /\ UNCHANGED <<stored, setting, lapsed, payouts, shown, verifiedOnce>>

(* The letter comes last. *)
UploadDocument(r, f) ==
    /\ At(r, "signup", "upload") /\ f \in job[r].todo
    /\ f = Letter => job[r].todo = {Letter}
    /\ stored' = [stored EXCEPT ![job[r].business] = @ \union {f}]
    /\ Continue(r, [job[r] EXCEPT !.todo = @ \ {f}, !.uploaded = @ \union {f},
                                  !.at = IF job[r].todo = {f} THEN "save" ELSE "upload"])
    /\ UNCHANGED <<user, setting, lapsed, payouts, shown, verifiedOnce>>

SaveDocuments(r) ==
    /\ At(r, "signup", "save")
    /\ user' = [user EXCEPT ![job[r].business].documents = Named(job[r].uploaded)]
    /\ Continue(r, [job[r] EXCEPT !.at = "settings"])
    /\ UNCHANGED <<stored, setting, lapsed, payouts, shown, verifiedOnce>>

InsertSettings(r) ==
    /\ At(r, "signup", "settings")
    /\ setting' = [setting EXCEPT ![job[r].business] = NewSetting]
    /\ Finish(r)
    /\ UNCHANGED <<user, stored, lapsed, payouts, shown, verifiedOnce>>

(* An upload or a save throws: the documents noted so far are deleted, the *)
(* user's row stays as it is.                                              *)
FailSignup(r) ==
    /\ \E step \in {"create", "upload", "save", "settings"} : At(r, "signup", step)
    /\ stored' = [stored EXCEPT ![job[r].business] = @ \ Tracked(job[r].todo, job[r].uploaded)]
    /\ Break(r)
    /\ UNCHANGED <<user, setting, lapsed, payouts, shown, verifiedOnce>>

-----------------------------------------------------------------------------
(* Verification by an admin. *)

VerifyUser(r, b, verified) ==
    /\ user[b] # Empty
    /\ Begin(r, [op |-> "verifyUser", at |-> "save", business |-> b, copy |-> user[b],
                 verified |-> verified])
    /\ UNCHANGED businessVars

SaveVerified(r) ==
    /\ At(r, "verifyUser", "save")
    /\ LET j == job[r] IN
       /\ user' = [user EXCEPT ![j.business] =
                      Saved(@, j.copy, [j.copy EXCEPT !.verified = j.verified])]
       /\ verifiedOnce' = IF j.verified THEN verifiedOnce \union {j.business} ELSE verifiedOnce
    /\ Finish(r)
    /\ UNCHANGED <<stored, setting, lapsed, payouts, shown>>

-----------------------------------------------------------------------------
(* Settings: each handler reads the row and saves what it changes.  The    *)
(* pages of API keys read the user's row in between.                       *)

Change(b, copy, new) ==
    [op |-> "settings", at |-> "save", business |-> b, copy |-> copy, new |-> new]

ReadForKeys(r, b, op) ==
    /\ setting[b] # Empty
    /\ Begin(r, [op |-> op, at |-> "user", business |-> b, copy |-> setting[b]])
    /\ UNCHANGED businessVars

ShowKeys(r, b) == ReadForKeys(r, b, "show")

GenerateKeys(r, b) == ReadForKeys(r, b, "generate")

(* Showing a test key that has lapsed clears it. *)
ClearLapsedKey(r) ==
    /\ At(r, "show", "user")
    /\ LET row == job[r].copy IN
       IF row.environment = "TEST" /\ Expired(row)
       THEN Continue(r, Change(job[r].business, row, TestKeys(row, Empty)))
       ELSE Finish(r)
    /\ UNCHANGED businessVars

(* Keys of the environment in the copy; they are hashed before the save. *)
MakeKeys(r) ==
    /\ At(r, "generate", "user")
    /\ LET row == job[r].copy IN
       IF MayGenerate(row, user[job[r].business])
       THEN Continue(r, Change(job[r].business, row, IF row.environment = "LIVE"
                                                   THEN LiveKeys(row, r) ELSE TestKeys(row, r)))
       ELSE Finish(r)
    /\ UNCHANGED businessVars

(* switchEnvironment asks that the account be verified for LIVE. *)
SwitchEnvironment(r, b, environment) ==
    /\ setting[b] # Empty
    /\ Begin(r, IF environment = "LIVE" => user[b].verified
                THEN Change(b, setting[b], [setting[b] EXCEPT !.environment = environment])
                ELSE Done)
    /\ UNCHANGED businessVars

(* The general settings take any environment. *)
UpdateGeneral(r, b, environment) ==
    /\ setting[b] # Empty
    /\ Begin(r, Change(b, setting[b], [setting[b] EXCEPT !.environment = environment]))
    /\ UNCHANGED businessVars

UpdateWebhook(r, b) ==
    /\ setting[b] # Empty
    /\ Begin(r, Change(b, setting[b], [setting[b] EXCEPT !.url = TRUE]))
    /\ UNCHANGED businessVars

GenerateSecret(r, b) ==
    /\ setting[b] # Empty
    /\ Begin(r, Change(b, setting[b], [setting[b] EXCEPT !.secret = r]))
    /\ UNCHANGED businessVars

(* What was generated is shown in the response. *)
Shown(old, r, new) ==
    [test |-> IF new.testPrivate = r THEN r ELSE old.test,
     live |-> IF new.livePrivate = r THEN r ELSE old.live,
     secret |-> IF new.secret = r THEN r ELSE old.secret]

SaveSettings(r) ==
    /\ At(r, "settings", "save")
    /\ LET j == job[r] IN
       /\ setting' = [setting EXCEPT ![j.business] = Saved(@, j.copy, j.new)]
       /\ shown' = [shown EXCEPT ![j.business] = Shown(@, r, j.new)]
    /\ Finish(r)
    /\ UNCHANGED <<user, stored, lapsed, payouts, verifiedOnce>>

(* TEST_KEY_TTL_HOURS have passed since the key was generated. *)
LapseKey(b) ==
    /\ setting[b] # Empty /\ setting[b].lapses \notin lapsed \union {Empty}
    /\ lapsed' = lapsed \union {setting[b].lapses}
    /\ UNCHANGED <<requestVars, user, stored, setting, payouts, shown, verifiedOnce>>

-----------------------------------------------------------------------------
(* Payout details: the old ones are deleted, and then the new inserted. *)

UpdatePayout(r, b) ==
    /\ user[b] # Empty
    /\ payouts' = [payouts EXCEPT ![b] = Deleted(@)]
    /\ Begin(r, [op |-> "payout", at |-> "insert", business |-> b])
    /\ UNCHANGED <<user, stored, setting, lapsed, shown, verifiedOnce>>

InsertPayout(r) ==
    /\ At(r, "payout", "insert")
    /\ payouts' = [payouts EXCEPT ![job[r].business] = @ \union {r}]
    /\ Finish(r)
    /\ UNCHANGED <<user, stored, setting, lapsed, shown, verifiedOnce>>

BusinessNext ==
    \/ \E r \in Requests, b \in Businesses :
        \/ \E files \in SUBSET Documents : Signup(r, b, files)
        \/ \E verified \in BOOLEAN : VerifyUser(r, b, verified)
        \/ \E environment \in {"TEST", "LIVE"} :
            SwitchEnvironment(r, b, environment) \/ UpdateGeneral(r, b, environment)
        \/ ShowKeys(r, b) \/ GenerateKeys(r, b)
        \/ UpdateWebhook(r, b) \/ GenerateSecret(r, b) \/ UpdatePayout(r, b)
    \/ \E r \in Requests :
        \/ CreateUser(r) \/ SaveDocuments(r) \/ InsertSettings(r) \/ FailSignup(r)
        \/ \E f \in Documents : UploadDocument(r, f)
        \/ SaveVerified(r) \/ ClearLapsedKey(r) \/ MakeKeys(r) \/ SaveSettings(r)
        \/ InsertPayout(r)
    \/ \E b \in Businesses : LapseKey(b)

-----------------------------------------------------------------------------
(* Properties. *)

BusinessTypes ==
    /\ user \in [Businesses -> UserRow \union {Empty}]
    /\ stored \in [Businesses -> SUBSET Documents]
    /\ setting \in [Businesses -> SettingRow \union {Empty}]
    /\ lapsed \subseteq Requests
    /\ payouts \in [Businesses -> SUBSET Requests]
    /\ shown \in [Businesses -> [test : Key, live : Key, secret : Key]]
    /\ verifiedOnce \subseteq Businesses

SigningUp(b) == \E r \in Running : job[r].op = "signup" /\ job[r].business = b

(* However signups overlap and wherever one ends: a business with settings *)
(* has the documents its row names, and no others are in the store.  If    *)
(* none ends early, every user has settings once it has signed up.         *)
SignupIsComplete ==
    \A b \in Businesses :
        /\ setting[b] # Empty => user[b] # Empty /\ stored[b] = user[b].documents
        /\ faults = 0 /\ user[b] # Empty => SigningUp(b) \/ setting[b] # Empty

(* However requests overlap, the public and the private key of a business  *)
(* and the expiry of its test key are of one generation.                   *)
KeysMatch ==
    \A b \in Businesses : setting[b] # Empty =>
        /\ setting[b].testPublic = setting[b].testPrivate
        /\ setting[b].lapses = setting[b].testPrivate
        /\ setting[b].livePublic = setting[b].livePrivate

(* One at a time: the keys that are accepted are those last shown, a test  *)
(* key until it lapses.  (The page that clears a lapsed key may clear the  *)
(* one generated meanwhile.)                                               *)
ShownKeyWorks ==
    inSeries => \A b \in Businesses, k \in Requests :
        /\ TestKeyAccepted(b, k) <=> shown[b].test = k /\ k \notin lapsed
        /\ LiveKeyAccepted(b, k) <=> shown[b].live = k

(* A live key is given only to a business that an admin has verified,      *)
(* though the general settings may have put it in the live environment.    *)
LiveKeyWasVerified ==
    \A b \in Businesses : shown[b].live # Empty => b \in verifiedOnce

(* One at a time, a business has at most one set of payout details. *)
OnePayoutDetail == inSeries => \A b \in Businesses : Cardinality(payouts[b]) <= 1
=============================================================================
