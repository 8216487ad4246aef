--------------------------- MODULE Checkout_proofs ---------------------------
(***************************************************************************)
(* For any requests at any overlap, any failures, intents, links and       *)
(* networks: the types of Checkout.tla and of what its handlers hold, whom *)
(* an address is given to, that payments to a child wallet are looked for  *)
(* where the customer pays, and that links keep their limits.              *)
(***************************************************************************)
EXTENDS Checkout, TLAPS, FiniteSetTheorems

(* What a handler holds in memory. *)
CreateJob == [op : {"create"}, at : {"insert"}, ref : References]
LinkJob == [op : {"checkout"}, at : {"insert", "count"}, link : Links, copy : Link,
            ref : References]
UpdateJob == [op : {"update"}, at : {"save"}, link : Links, copy : Link, patch : Patches]
SetupJob == [op : {"setup"}, at : {"wallet", "save", "answer"}, by : {"link", "merchant"},
             intent : Intents, net : Networks, copy : Intent,
             address : ChildWallets \union {None, Invoice}]

Jobs == {Waiting, Done} \union CreateJob \union LinkJob \union UpdateJob \union SetupJob

JobsOK == /\ job \in [Requests -> Jobs]
          /\ inSeries \in BOOLEAN /\ faults \in Nat

(* A handler between its save and its answer, or before the save, has an   *)
(* address; the intent it works on is not deleted.                         *)
SetupsOK ==
    \A r \in Requests : job[r] \in SetupJob =>
        /\ Exists(job[r].intent)
        /\ job[r].at # "wallet" => job[r].address \in ChildWallets \union {Invoice}

Types == RowsOK /\ JobsOK /\ SetupsOK

-----------------------------------------------------------------------------
(* The steps, and what the helpers make of rows and jobs. *)

LEMMA NextCases ==
    ASSUME NEW P, [Next]_vars,
           ASSUME NEW r \in Requests, NEW ref \in References, CreateIntent(r, ref) PROVE P,
           ASSUME NEW r \in Requests, NEW l \in Links, NEW ref \in References,
                  CheckoutLink(r, l, ref) PROVE P,
           ASSUME NEW r \in Requests, NEW l \in Links, NEW patch \in Patches,
                  UpdateLink(r, l, patch) PROVE P,
           ASSUME NEW r \in Requests, NEW l \in Links, DestroyLink(r, l) PROVE P,
           ASSUME NEW r \in Requests, NEW i \in Intents, NEW n \in Networks,
                  NEW by \in {"link", "merchant"}, Exists(i), Setup(r, i, n, by),
                  UNCHANGED checkoutVars PROVE P,
           ASSUME NEW r \in Requests, InsertCreated(r) PROVE P,
           ASSUME NEW r \in Requests, InsertFromLink(r) PROVE P,
           ASSUME NEW r \in Requests, CountUse(r) PROVE P,
           ASSUME NEW r \in Requests, SaveUpdate(r) PROVE P,
           ASSUME NEW r \in Requests, CreateEvmWallet(r) PROVE P,
           ASSUME NEW r \in Requests, CreateKeyWallet(r) PROVE P,
           ASSUME NEW r \in Requests, CreateInvoice(r) PROVE P,
           ASSUME NEW r \in Requests, SaveSetup(r) PROVE P,
           ASSUME NEW r \in Requests, AnswerSetup(r) PROVE P,
           ASSUME NEW r \in Requests, RefuseSetup(r) PROVE P,
           ASSUME NEW r \in Requests, BreakRequest(r) PROVE P,
           ASSUME NEW l \in Links, LinkExpires(l) PROVE P,
           ASSUME NEW i \in Intents, CompletePayment(i) PROVE P,
           ASSUME UNCHANGED vars PROVE P
    PROVE  P
  <1>1. ASSUME NEW r \in Requests, NEW ref \in References, CreateHostedCheckout(r, ref) PROVE P
    BY <1>1 DEF CreateHostedCheckout
  <1>2. ASSUME NEW r \in Requests, NEW l \in Links, NEW ref \in References,
               NEW n \in Networks, SetupFromLink(r, l, ref, n) PROVE P
    BY <1>2 DEF SetupFromLink
  <1>3. ASSUME NEW r \in Requests, NEW ref \in References, NEW n \in Networks,
               SetupFromCart(r, ref, n) \/ SetupFromGuestCart(r, ref, n) PROVE P
    BY <1>3 DEF SetupFromCart, SetupFromGuestCart, SetupByMerchant
  <1>4. QED BY <1>1, <1>2, <1>3 DEF Next, Step

(* BaseModel.save() of a link and of an intent. *)
LEMMA SavedLink ==
    ASSUME NEW row \in Link, NEW copy \in Link, NEW new \in Link
    PROVE  /\ Saved(row, copy, new) \in Link
           /\ Saved(row, copy, new).status =
                IF new.status = copy.status THEN row.status ELSE new.status
           /\ Saved(row, copy, new).used = IF new.used = copy.used THEN row.used ELSE new.used
  BY DEF Saved, Link

LEMMA SavedIntent ==
    ASSUME NEW row \in Intent, NEW copy \in Intent, NEW new \in Intent
    PROVE  /\ Saved(row, copy, new) \in Intent
           /\ Saved(row, copy, new).wallet =
                IF new.wallet = copy.wallet THEN row.wallet ELSE new.wallet
           /\ Saved(row, copy, new).net = IF new.net = copy.net THEN row.net ELSE new.net
           /\ Saved(row, copy, new).status =
                IF new.status = copy.status THEN row.status ELSE new.status
  BY DEF Saved, Intent

LEMMA PatchedLink ==
    ASSUME NEW l \in Link, NEW patch \in Patches
    PROVE  /\ Patched(l, patch) \in Link
           /\ Patched(l, patch).used = l.used
           /\ Patched(l, patch).status # l.status =>
                patch \in [status : {Patched(l, patch).status}]
  <1>1. Patched(l, patch) \in Link
    BY DEF Patched, Link, Patches
  <1>2. CASE patch \in [status : {"active", "inactive"}]
    <2>1. patch \in [status : {patch.status}]
      BY <1>2
    <2>2. Patched(l, patch).status = patch.status /\ Patched(l, patch).used = l.used
      BY <1>2 DEF Patched, Link
    <2>3. QED BY <1>1, <2>1, <2>2
  <1>3. CASE patch \in [limit : Limits] \union [expired : {FALSE}] \union [single : BOOLEAN]
    BY <1>1, <1>3 DEF Patched, Link
  <1>4. QED BY <1>2, <1>3 DEF Patches

LEMMA UsedLink ==
    ASSUME NEW l \in Link
    PROVE  /\ Used(l) \in Link
           /\ Used(l).used = l.used + 1
           /\ Used(l).status \in {l.status, "inactive"}
  <1>1. l.used + 1 \in Nat
    BY DEF Link
  <1>2. CASE l.single = TRUE
    <2>1. Used(l) = [l EXCEPT !.used = l.used + 1, !.status = "inactive"]
      BY <1>2 DEF Used
    <2>2. QED BY <1>1, <2>1 DEF Link
  <1>3. CASE l.single = FALSE
    <2>1. Used(l) = [l EXCEPT !.used = l.used + 1, !.status = l.status]
      BY <1>3 DEF Used
    <2>2. QED BY <1>1, <2>1 DEF Link
  <1>4. l.single \in BOOLEAN
    BY DEF Link
  <1>5. QED BY <1>2, <1>3, <1>4

LEMMA SetUpIntent ==
    ASSUME NEW row \in Intent, NEW n \in Networks, NEW a \in ChildWallets \union {Invoice}
    PROVE  /\ SetUp(row, n, a) \in Intent
           /\ SetUp(row, n, a).net = n
           /\ SetUp(row, n, a).wallet = IF a = Invoice THEN None ELSE a
           /\ SetUp(row, n, a).status = row.status
  BY DEF SetUp, Intent

LEMMA NewIntentRow ==
    ASSUME NEW ref \in References, NEW l \in Links \union {None}
    PROVE  /\ NewIntent(ref, l) \in Intent
           /\ NewIntent(ref, l).wallet = None /\ NewIntent(ref, l).net = None
           /\ NewIntent(ref, l).status = "created"
  BY DEF NewIntent, Intent

(* What a job is, told by its step. *)
LEMMA JobAt ==
    ASSUME JobsOK, NEW r \in Requests, NEW op, NEW step, At(r, op, step)
    PROVE  /\ op = "create" => job[r] \in CreateJob
           /\ op = "checkout" => job[r] \in LinkJob
           /\ op = "update" => job[r] \in UpdateJob
           /\ op = "setup" => job[r] \in SetupJob
           /\ job[r].at = step /\ r \in Running
  BY DEF JobsOK, Jobs, At, CreateJob, LinkJob, UpdateJob, SetupJob, Waiting, Done, Running

LEMMA JobsApart ==
    ASSUME NEW j
    PROVE  /\ j \in CreateJob => j.op = "create"
           /\ j \in LinkJob => j.op = "checkout"
           /\ j \in UpdateJob => j.op = "update"
           /\ j \in SetupJob => j.op = "setup"
           /\ Waiting.op = "waiting" /\ Done.op = "done"
  BY DEF CreateJob, LinkJob, UpdateJob, SetupJob, Waiting, Done

(* Only the job of the request that makes a step changes. *)
LEMMA BeginJob ==
    ASSUME JobsOK, NEW r \in Requests, NEW j \in Jobs, Begin(r, j)
    PROVE  /\ JobsOK' /\ job[r] = Waiting /\ UNCHANGED <<inSeries, faults>>
           /\ job' = [job EXCEPT ![r] = j]
  BY DEF Begin, JobsOK

LEMMA ContinueJob ==
    ASSUME JobsOK, NEW r \in Requests, NEW j \in Jobs, Continue(r, j)
    PROVE  /\ JobsOK' /\ UNCHANGED <<inSeries, faults>>
           /\ job' = [job EXCEPT ![r] = j]
  BY DEF Continue, JobsOK

LEMMA FinishJob ==
    ASSUME JobsOK, NEW r \in Requests, Finish(r)
    PROVE  /\ JobsOK' /\ UNCHANGED <<inSeries, faults>>
           /\ job' = [job EXCEPT ![r] = Done]
  BY ContinueJob DEF Finish, Jobs

LEMMA BreakJob ==
    ASSUME JobsOK, NEW r \in Requests, Break(r)
    PROVE  /\ JobsOK' /\ inSeries' = inSeries /\ faults' = faults + 1
           /\ job' = [job EXCEPT ![r] = Done]
  BY DEF Break, JobsOK, Jobs

LEMMA NoSetup == Waiting \notin SetupJob /\ Done \notin SetupJob
  BY JobsApart

(* The types of the variables that a step leaves alone. *)
LEMMA TypesUnchanged ==
    ASSUME Types, NEW r \in Requests, NEW j \in Jobs \ SetupJob, JobsOK',
           job' = [job EXCEPT ![r] = j], UNCHANGED <<intent, child, shown, cut, completedOn>>,
           link' \in [Links -> Link \union {None}], uses' \in [Links -> SUBSET Intents]
    PROVE  Types'
  BY DEF Types, RowsOK, SetupsOK, JobsOK, Exists

(* Rows of intents are written, but not deleted. *)
LEMMA SetupsKept ==
    ASSUME Types, NEW r \in Requests, NEW j \in Jobs, job' = [job EXCEPT ![r] = j],
           \A i \in Intents : Exists(i) => intent'[i] # None,
           j \in SetupJob =>
              /\ intent'[j.intent] # None
              /\ j.at # "wallet" => j.address \in ChildWallets \union {Invoice}
    PROVE  SetupsOK'
  <1>1. ASSUME NEW x \in Requests, job'[x] \in SetupJob
        PROVE  /\ intent'[job'[x].intent] # None
               /\ job'[x].at # "wallet" => job'[x].address \in ChildWallets \union {Invoice}
    <2>1. CASE x = r
      BY <1>1, <2>1 DEF Types, JobsOK
    <2>2. CASE x # r
      <3>1. job'[x] = job[x] /\ job[x] \in SetupJob
        BY <1>1, <2>2 DEF Types, JobsOK
      <3>2. job[x].intent \in Intents
        BY <3>1 DEF SetupJob
      <3>3. QED BY <3>1, <3>2 DEF Types, SetupsOK
    <2>3. QED BY <2>1, <2>2
  <1>2. QED BY <1>1 DEF SetupsOK, Exists

LEMMA TypesKept == Types /\ [Next]_vars => Types'
  <1> SUFFICES ASSUME Types, [Next]_vars PROVE Types'
    OBVIOUS
  <1> USE DEF Types, checkoutVars
  <1>a. JobsOK /\ RowsOK /\ SetupsOK
    OBVIOUS
  <1>b. \A i \in Intents : Exists(i) => intent[i] \in Intent
    BY DEF RowsOK, Exists
  <1>c. \A l \in Links : link[l] # None => link[l] \in Link
    BY DEF RowsOK
  <1>d. Waiting \in Jobs \ SetupJob /\ Done \in Jobs \ SetupJob
    BY NoSetup DEF Jobs
  <1>e. /\ \A j \in CreateJob \union LinkJob \union UpdateJob : j \in Jobs \ SetupJob
        /\ SetupJob \subseteq Jobs
    BY JobsApart DEF Jobs
  <1>1. ASSUME NEW r \in Requests, NEW ref \in References, CreateIntent(r, ref)
        PROVE  Types'
    <2>1. [op |-> "create", at |-> "insert", ref |-> ref] \in CreateJob
      BY DEF CreateJob
    <2>2. PICK j \in Jobs \ SetupJob : Begin(r, j)
      BY <1>1, <1>d, <1>e, <2>1 DEF CreateIntent
    <2>3. QED BY <1>1, <1>a, <2>2, BeginJob, TypesUnchanged DEF CreateIntent, RowsOK
  <1>2. ASSUME NEW r \in Requests, NEW l \in Links, NEW ref \in References,
               CheckoutLink(r, l, ref)
        PROVE  Types'
    <2>1. [op |-> "checkout", at |-> "insert", link |-> l, copy |-> link[l], ref |-> ref]
             \in LinkJob
      BY <1>2, <1>c DEF LinkJob, CheckoutLink
    <2>2. PICK j \in Jobs \ SetupJob : Begin(r, j)
      BY <1>2, <1>d, <1>e, <2>1 DEF CheckoutLink
    <2>3. QED BY <1>2, <1>a, <2>2, BeginJob, TypesUnchanged DEF CheckoutLink, RowsOK
  <1>3. ASSUME NEW r \in Requests, NEW l \in Links, NEW patch \in Patches,
               UpdateLink(r, l, patch)
        PROVE  Types'
    <2>1. [op |-> "update", at |-> "save", link |-> l, copy |-> link[l], patch |-> patch]
             \in UpdateJob
      BY <1>3, <1>c DEF UpdateJob, UpdateLink
    <2>2. PICK j \in Jobs \ SetupJob : Begin(r, j)
      BY <1>3, <1>e, <2>1 DEF UpdateLink
    <2>3. QED BY <1>3, <1>a, <2>2, BeginJob, TypesUnchanged DEF UpdateLink, RowsOK
  <1>4. ASSUME NEW r \in Requests, NEW l \in Links, DestroyLink(r, l) PROVE Types'
    <2>1. link' \in [Links -> Link \union {None}]
      BY <1>4 DEF DestroyLink, RowsOK
    <2>2. QED BY <1>4, <1>a, <1>d, <2>1, BeginJob, TypesUnchanged DEF DestroyLink, RowsOK
  <1>5. ASSUME NEW r \in Requests, NEW i \in Intents, NEW n \in Networks,
               NEW by \in {"link", "merchant"}, Exists(i), Setup(r, i, n, by),
               UNCHANGED checkoutVars
        PROVE  Types'
    <2> DEFINE j == [op |-> "setup", at |-> "wallet", by |-> by, intent |-> i, net |-> n,
                     copy |-> intent[i], address |-> None]
    <2>1. j \in SetupJob
      BY <1>5, <1>b DEF SetupJob
    <2>2. JobsOK' /\ job' = [job EXCEPT ![r] = j]
      BY <1>5, <1>a, <1>e, <2>1, BeginJob DEF Setup
    <2>3. j.intent = i /\ j.at = "wallet"
      OBVIOUS
    <2> HIDE DEF j
    <2>4. SetupsOK'
      BY <1>5, <2>2, <2>3 DEF SetupsOK, Exists, JobsOK
    <2>5. QED BY <1>5, <2>2, <2>4 DEF RowsOK
  <1>6. ASSUME NEW r \in Requests, InsertCreated(r) PROVE Types'
    <2>1. job[r].ref \in References
      BY <1>6, <1>a, JobAt DEF InsertCreated, CreateJob
    <2>2. PICK i \in Intents : InsertIntent(job[r].ref, None, i)
      BY <1>6 DEF InsertCreated
    <2>3. intent' \in [Intents -> Intent \union {None}] /\ intent'[i] # None
      BY <1>a, <2>1, <2>2, NewIntentRow, NullRowAssumption DEF InsertIntent, RowsOK
    <2>4. JobsOK' /\ job' = [job EXCEPT ![r] = Done]
      BY <1>6, <1>a, FinishJob DEF InsertCreated
    <2>5. SetupsOK'
      BY <1>d, <2>2, <2>3, <2>4, SetupsKept DEF InsertIntent, RowsOK, Exists
    <2>6. QED BY <1>6, <2>3, <2>4, <2>5 DEF InsertCreated, RowsOK
  <1>7. ASSUME NEW r \in Requests, InsertFromLink(r) PROVE Types'
    <2>1. job[r] \in LinkJob /\ job[r].ref \in References /\ job[r].link \in Links
      BY <1>7, <1>a, JobAt DEF InsertFromLink, LinkJob
    <2>2. PICK i \in Intents :
             /\ InsertIntent(job[r].ref, job[r].link, i)
             /\ uses' = [uses EXCEPT ![job[r].link] = @ \union {i}]
      BY <1>7 DEF InsertFromLink
    <2>3. intent' \in [Intents -> Intent \union {None}] /\ intent'[i] # None
      BY <1>a, <2>1, <2>2, NewIntentRow, NullRowAssumption DEF InsertIntent, RowsOK
    <2>4. [job[r] EXCEPT !.at = "count"] \in LinkJob
      BY <2>1 DEF LinkJob
    <2>5. PICK j \in Jobs \ SetupJob : Continue(r, j)
      BY <1>7, <1>e, <2>4 DEF InsertFromLink
    <2>6. JobsOK' /\ job' = [job EXCEPT ![r] = j]
      BY <1>a, <2>5, ContinueJob
    <2>7. SetupsOK'
      BY <2>2, <2>3, <2>6, SetupsKept DEF InsertIntent, RowsOK, Exists
    <2>8. uses' \in [Links -> SUBSET Intents]
      BY <2>1, <2>2 DEF RowsOK
    <2>9. QED BY <1>7, <2>3, <2>6, <2>7, <2>8 DEF InsertFromLink, RowsOK
  <1>8. ASSUME NEW r \in Requests, CountUse(r) PROVE Types'
    <2>1. job[r].link \in Links /\ job[r].copy \in Link
      BY <1>8, <1>a, JobAt DEF CountUse, LinkJob
    <2>2. link' \in [Links -> Link \union {None}]
      BY <1>8, <1>c, <2>1, SavedLink, UsedLink DEF CountUse, SaveLink, RowsOK
    <2>3. QED BY <1>8, <1>a, <1>d, <2>2, FinishJob, TypesUnchanged DEF CountUse, RowsOK
  <1>9. ASSUME NEW r \in Requests, SaveUpdate(r) PROVE Types'
    <2>1. job[r].link \in Links /\ job[r].copy \in Link /\ job[r].patch \in Patches
      BY <1>9, <1>a, JobAt DEF SaveUpdate, UpdateJob
    <2>2. link' \in [Links -> Link \union {None}]
      BY <1>9, <1>c, <2>1, SavedLink, PatchedLink DEF SaveUpdate, SaveLink, RowsOK
    <2>3. QED BY <1>9, <1>a, <1>d, <2>2, FinishJob, TypesUnchanged DEF SaveUpdate, RowsOK
  <1>f. ASSUME NEW r \in Requests, At(r, "setup", "wallet"),
               NEW a \in ChildWallets \union {Invoice}, GotAddress(r, a),
               UNCHANGED <<intent, link, shown, cut, uses, completedOn>>,
               child' \in [ChildWallets -> Networks \union {None}]
        PROVE  Types'
    <2> DEFINE j == [job[r] EXCEPT !.at = "save", !.address = a]
    <2>1. job[r] \in SetupJob
      BY <1>a, <1>f, JobAt
    <2>2. j \in SetupJob /\ j.intent = job[r].intent /\ j.address = a
      BY <2>1 DEF SetupJob
    <2>3. JobsOK' /\ job' = [job EXCEPT ![r] = j]
      BY <1>a, <1>e, <1>f, <2>2, ContinueJob DEF GotAddress
    <2> HIDE DEF j
    <2>4. SetupsOK'
      BY <1>a, <1>e, <1>f, <2>1, <2>2, <2>3, SetupsKept DEF SetupsOK, Exists
    <2>5. QED BY <1>f, <2>3, <2>4 DEF RowsOK
  <1>g. ASSUME NEW r \in Requests, At(r, "setup", "wallet"), NEW n \in Networks,
               NewWallet(r, n), UNCHANGED <<intent, link, shown, cut, uses, completedOn>>
        PROVE  Types'
    <2>1. PICK w \in ChildWallets : child' = [child EXCEPT ![w] = n] /\ GotAddress(r, w)
      BY <1>g DEF NewWallet
    <2>2. child' \in [ChildWallets -> Networks \union {None}]
      BY <2>1 DEF RowsOK
    <2>3. QED BY <1>f, <1>g, <2>1, <2>2
  <1>10. ASSUME NEW r \in Requests, CreateEvmWallet(r) PROVE Types'
    <2>1. job[r].net \in Networks
      BY <1>10 DEF CreateEvmWallet, Networks
    <2>2. CASE PaidBefore(job[r].net) = {}
      BY <1>10, <1>g, <2>1, <2>2 DEF CreateEvmWallet
    <2>3. CASE PaidBefore(job[r].net) # {}
      <3>1. PICK w \in ChildWallets : GotAddress(r, w)
        BY <1>10, <2>3 DEF CreateEvmWallet, PaidBefore
      <3>2. QED BY <1>10, <1>f, <2>3, <3>1 DEF CreateEvmWallet, RowsOK
    <2>4. QED BY <2>2, <2>3
  <1>11. ASSUME NEW r \in Requests, CreateKeyWallet(r) PROVE Types'
    <2>1. job[r].net \in Networks
      BY <1>11 DEF CreateKeyWallet, Networks
    <2>2. QED BY <1>11, <1>g, <2>1 DEF CreateKeyWallet
  <1>12. ASSUME NEW r \in Requests, CreateInvoice(r) PROVE Types'
    BY <1>12, <1>f DEF CreateInvoice, RowsOK
  <1>13. ASSUME NEW r \in Requests, SaveSetup(r) PROVE Types'
    <2> DEFINE i == job[r].intent
               j == [job[r] EXCEPT !.at = "answer"]
    <2>1. /\ job[r] \in SetupJob /\ i \in Intents /\ intent[i] \in Intent
          /\ job[r].copy \in Intent /\ job[r].net \in Networks
          /\ job[r].address \in ChildWallets \union {Invoice}
      <3>1. job[r] \in SetupJob /\ job[r].at = "save"
        BY <1>13, <1>a, JobAt DEF SaveSetup
      <3>2. QED BY <1>b, <3>1 DEF SetupJob, SetupsOK
    <2>2. /\ intent' \in [Intents -> Intent \union {None}]
          /\ \A x \in Intents : Exists(x) => intent'[x] # None
      <3>1. Saved(intent[i], job[r].copy, SetUp(job[r].copy, job[r].net, job[r].address))
               \in Intent
        BY <2>1, SetUpIntent, SavedIntent
      <3>2. intent' = [intent EXCEPT ![i] =
               Saved(@, job[r].copy, SetUp(job[r].copy, job[r].net, job[r].address))]
        BY <1>13 DEF SaveSetup
      <3>3. QED BY <2>1, <3>1, <3>2, NullRowAssumption DEF RowsOK, Exists
    <2>3. j \in SetupJob /\ j.intent = i /\ j.address = job[r].address
      BY <2>1 DEF SetupJob
    <2>4. JobsOK' /\ job' = [job EXCEPT ![r] = j]
      BY <1>13, <1>a, <1>e, <2>3, ContinueJob DEF SaveSetup
    <2> HIDE DEF j
    <2>5. SetupsOK'
      <3>1. intent'[j.intent] # None
        BY <2>1, <2>2, <2>3 DEF SetupsOK
      <3>2. QED BY <1>e, <2>1, <2>2, <2>3, <2>4, <3>1, SetupsKept
    <2>6. completedOn' \subseteq ChildWallets
      BY <1>13 DEF SaveSetup, RememberCompleted, RowsOK
    <2>7. QED BY <1>13, <2>2, <2>4, <2>5, <2>6 DEF SaveSetup, RowsOK
  <1>h. ASSUME NEW r \in Requests, job' = [job EXCEPT ![r] = Done], JobsOK',
               UNCHANGED <<intent, child, link, uses, completedOn>>,
               cut' \subseteq Intents,
               shown' \in [Intents -> ChildWallets \union {None, Invoice}]
        PROVE  Types'
    <2>1. SetupsOK'
      BY <1>d, <1>h, SetupsKept DEF Exists
    <2>2. QED BY <1>h, <2>1 DEF RowsOK
  <1>14. ASSUME NEW r \in Requests, AnswerSetup(r) PROVE Types'
    <2>1. job[r] \in SetupJob /\ job[r].at = "answer" /\ job[r].intent \in Intents
      BY <1>14, <1>a, JobAt DEF AnswerSetup, SetupJob
    <2>2. job[r].address \in ChildWallets \union {Invoice}
      BY <2>1 DEF SetupsOK
    <2>3. shown' \in [Intents -> ChildWallets \union {None, Invoice}] /\ cut' \subseteq Intents
      BY <1>14, <2>1, <2>2 DEF AnswerSetup, RowsOK
    <2>4. QED BY <1>14, <1>a, <1>h, <2>3, FinishJob DEF AnswerSetup
  <1>15. ASSUME NEW r \in Requests, RefuseSetup(r) PROVE Types'
    <2>1. job[r].intent \in Intents
      BY <1>15, <1>a, JobAt DEF RefuseSetup, SetupJob
    <2>2. cut' \subseteq Intents
      BY <1>15, <2>1 DEF RefuseSetup, RowsOK
    <2>3. QED BY <1>15, <1>a, <1>h, <2>2, FinishJob DEF RefuseSetup, RowsOK
  <1>16. ASSUME NEW r \in Requests, BreakRequest(r) PROVE Types'
    <2>1. At(r, "setup", "answer") => job[r].intent \in Intents
      BY <1>a, JobAt DEF SetupJob
    <2>2. cut' \subseteq Intents
      BY <1>16, <2>1 DEF BreakRequest, RowsOK
    <2>3. QED BY <1>16, <1>a, <1>h, <2>2, BreakJob DEF BreakRequest, RowsOK
  <1>17. ASSUME NEW l \in Links, LinkExpires(l) PROVE Types'
    <2>1. link' \in [Links -> Link \union {None}]
      BY <1>17, <1>c DEF LinkExpires, RowsOK, Link
    <2>2. QED
      BY <1>17, <2>1 DEF LinkExpires, RowsOK, JobsOK, SetupsOK, Exists, requestVars
  <1>18. ASSUME NEW i \in Intents, CompletePayment(i) PROVE Types'
    <2>1. [intent[i] EXCEPT !.status = "completed"] \in Intent
      BY <1>18, <1>b DEF CompletePayment, Intent
    <2>2. /\ intent' \in [Intents -> Intent \union {None}]
          /\ \A x \in Intents : Exists(x) => intent'[x] # None
      BY <1>18, <2>1, NullRowAssumption DEF CompletePayment, RowsOK, Exists
    <2>3. UNCHANGED job /\ JobsOK'
      BY <1>18 DEF CompletePayment, requestVars, JobsOK
    <2>4. \A r \in Requests : job[r] \in SetupJob => job[r].intent \in Intents
      BY DEF SetupJob
    <2>5. SetupsOK'
      BY <2>2, <2>3, <2>4 DEF SetupsOK, Exists
    <2>6. completedOn' \subseteq ChildWallets
      BY <1>18 DEF CompletePayment, RememberCompleted, RowsOK
    <2>7. QED BY <1>18, <2>2, <2>3, <2>5, <2>6 DEF CompletePayment, RowsOK
  <1>19. CASE UNCHANGED vars
    BY <1>19 DEF vars, requestVars, RowsOK, JobsOK, SetupsOK, Exists
  <1> QED
    BY <1>1, <1>2, <1>3, <1>4, <1>5, <1>6, <1>7, <1>8, <1>9, <1>10, <1>11, <1>12, <1>13,
       <1>14, <1>15, <1>16, <1>17, <1>18, <1>19, NextCases

LEMMA TypesInvariance == Spec => []Types
  <1>1. Init => Types
    <2> SUFFICES ASSUME Init PROVE Types
      OBVIOUS
    <2>1. \A ref \in References : NewIntent(ref, None) \in Intent
      BY NewIntentRow
    <2>2. \A single \in BOOLEAN, limit \in Limits \union {None} : NewLink(single, limit) \in Link
      BY DEF NewLink, Link
    <2>3. RowsOK
      BY <2>1, <2>2 DEF Init, RowsOK
    <2>4. job = [r \in Requests |-> Waiting] /\ JobsOK
      BY DEF Init, RequestsInit, JobsOK, Jobs
    <2>5. SetupsOK
      BY <2>4, NoSetup DEF SetupsOK
    <2>6. QED BY <2>3, <2>4, <2>5 DEF Types
  <1>2. QED BY <1>1, TypesKept, PTL DEF Spec

(* Every row keeps its type, and no use count falls below zero: the saves  *)
(* of PaymentLinkController, PaymentIntentController, PaymentSetupService  *)
(* and WalletService over rows that others have written meanwhile.         *)
THEOREM TypeCorrect == Spec => []TypeOK
  <1> DEFINE Names == disturbed \subseteq Intents \union Links
  <1>1. Init => Names
    BY DEF Init
  <1>2. Types /\ Names /\ [Next]_vars => Names'
    <2> SUFFICES ASSUME Types, Names, Next PROVE Names'
      BY DEF vars
    <2>1. Overlapped' \subseteq Intents \union Links
      BY DEF Overlapped
    <2>2. Uncounted \subseteq Links
      BY JobAt DEF Types, Uncounted, LinkJob
    <2>3. QED BY <2>1, <2>2 DEF Next
  <1>3. Types /\ Names => TypeOK
    BY DEF Types, TypeOK
  <1>4. QED BY <1>1, <1>2, <1>3, TypesInvariance, PTL DEF Spec

-----------------------------------------------------------------------------
(* Who holds an address. *)

(* The handler of r is about to save or to show the address w.             *)
Gives(r, i, w) ==
    job[r] \in SetupJob /\ job[r].at # "wallet" /\ job[r].intent = i /\ job[r].address = w

(* An intent, the customer it was shown to, or a setup of the intent.      *)
Holds(i, w) ==
    \/ Exists(i) /\ intent[i].wallet = w
    \/ shown[i] = w
    \/ \E r \in Requests : Gives(r, i, w)

(* Only addresses that exist are held, by one intent each but where one    *)
(* was paid before, and completedOn keeps what an intent was completed on. *)
HoldersInv ==
    /\ \A i \in Intents, w \in ChildWallets : Holds(i, w) => child[w] # None
    /\ \A i, j \in Intents, w \in ChildWallets :
            i # j /\ Holds(i, w) /\ Holds(j, w) => w \in completedOn
    /\ \A i \in Intents : Exists(i) /\ intent[i].status = "completed"
            /\ intent[i].wallet # None => intent[i].wallet \in completedOn

(* A step after which nobody holds what nobody has held.                   *)
LEMMA HoldersUnchanged ==
    ASSUME HoldersInv,
           \A i \in Intents, w \in ChildWallets : Holds(i, w)' => Holds(i, w),
           \A w \in ChildWallets : child[w] # None => child'[w] # None,
           completedOn \subseteq completedOn',
           \A i \in Intents : (Exists(i) /\ intent[i].status = "completed"
                /\ intent[i].wallet # None)' => intent'[i].wallet \in completedOn'
    PROVE  HoldersInv'
  BY DEF HoldersInv

(* A step after which one intent more holds one address.                   *)
LEMMA HolderAdded ==
    ASSUME HoldersInv, NEW i \in Intents, NEW w \in ChildWallets,
           \A x \in Intents, y \in ChildWallets :
                Holds(x, y)' => Holds(x, y) \/ (x = i /\ y = w),
           \A y \in ChildWallets : child[y] # None => child'[y] # None,
           child'[w] # None,
           w \in completedOn \/ child[w] = None,
           UNCHANGED <<intent, completedOn>>
    PROVE  HoldersInv'
  BY DEF HoldersInv, Exists

(* The job of one request changes, and gives nothing that was not held.    *)
LEMMA HoldsFewer ==
    ASSUME Types, NEW r \in Requests, NEW j, job' = [job EXCEPT ![r] = j],
           NEW i \in Intents, NEW w \in ChildWallets,
           j \in SetupJob /\ j.at # "wallet" /\ j.intent = i /\ j.address = w => Holds(i, w),
           UNCHANGED intent \/ ((Exists(i) /\ intent[i].wallet = w)' => Holds(i, w)),
           UNCHANGED shown \/ (shown'[i] = w => Holds(i, w)),
           Holds(i, w)'
    PROVE  Holds(i, w)
  <1>1. CASE (Exists(i) /\ intent[i].wallet = w)'
    BY <1>1 DEF Holds, Exists
  <1>2. CASE shown'[i] = w
    BY <1>2 DEF Holds
  <1>3. ASSUME NEW x \in Requests, Gives(x, i, w)'
        PROVE  Holds(i, w)
    <2>1. CASE x = r
      BY <1>3, <2>1 DEF Gives, Types, JobsOK
    <2>2. CASE x # r
      <3>1. job'[x] = job[x]
        BY <2>2 DEF Types, JobsOK
      <3>2. QED BY <1>3, <3>1 DEF Gives, Holds
    <2>3. QED BY <2>1, <2>2
  <1>4. QED BY <1>1, <1>2, <1>3 DEF Holds

LEMMA HoldersQuiet ==
    ASSUME Types, HoldersInv, NEW r \in Requests, NEW j, job' = [job EXCEPT ![r] = j],
           j \notin SetupJob \/ j.at = "wallet",
           UNCHANGED <<intent, child, completedOn>>,
           \A i \in Intents, w \in ChildWallets : shown'[i] = w => Holds(i, w)
    PROVE  HoldersInv'
  <1>1. \A i \in Intents, w \in ChildWallets : Holds(i, w)' => Holds(i, w)
    BY HoldsFewer
  <1>2. \A i \in Intents : (Exists(i) /\ intent[i].status = "completed"
            /\ intent[i].wallet # None)' => intent'[i].wallet \in completedOn'
    BY DEF HoldersInv, Exists
  <1>3. QED BY <1>1, <1>2, HoldersUnchanged

(* The steps of a request that neither store nor find an address.          *)
Quiet(r) ==
    \/ \E ref \in References : CreateIntent(r, ref)
    \/ \E l \in Links, ref \in References : CheckoutLink(r, l, ref)
    \/ \E l \in Links, patch \in Patches : UpdateLink(r, l, patch)
    \/ \E l \in Links : DestroyLink(r, l)
    \/ CountUse(r) \/ SaveUpdate(r)
    \/ AnswerSetup(r) \/ RefuseSetup(r) \/ BreakRequest(r)

LEMMA QuietStep ==
    ASSUME Types, NEW r \in Requests, Quiet(r)
    PROVE  /\ \E j \in Jobs \ SetupJob : job' = [job EXCEPT ![r] = j]
           /\ UNCHANGED <<intent, child, completedOn>>
  <1>a. Waiting \in Jobs \ SetupJob /\ Done \in Jobs \ SetupJob /\ JobsOK
    BY NoSetup DEF Jobs, Types
  <1>b. \A j \in CreateJob \union LinkJob \union UpdateJob : j \in Jobs \ SetupJob
    BY JobsApart DEF Jobs
  <1>c. \A l \in Links : link[l] # None => link[l] \in Link
    BY DEF Types, RowsOK
  <1>1. ASSUME NEW ref \in References, CreateIntent(r, ref)
        PROVE  \E j \in Jobs \ SetupJob : job' = [job EXCEPT ![r] = j]
    <2>1. [op |-> "create", at |-> "insert", ref |-> ref] \in CreateJob
      BY DEF CreateJob
    <2>2. PICK j \in Jobs \ SetupJob : Begin(r, j)
      BY <1>1, <1>a, <1>b, <2>1 DEF CreateIntent
    <2>3. QED BY <1>a, <2>2, BeginJob
  <1>2. ASSUME NEW l \in Links, NEW ref \in References, CheckoutLink(r, l, ref)
        PROVE  \E j \in Jobs \ SetupJob : job' = [job EXCEPT ![r] = j]
    <2>1. [op |-> "checkout", at |-> "insert", link |-> l, copy |-> link[l], ref |-> ref]
             \in LinkJob
      BY <1>2, <1>c DEF LinkJob, CheckoutLink
    <2>2. PICK j \in Jobs \ SetupJob : Begin(r, j)
      BY <1>2, <1>a, <1>b, <2>1 DEF CheckoutLink
    <2>3. QED BY <1>a, <2>2, BeginJob
  <1>3. ASSUME NEW l \in Links, NEW patch \in Patches, UpdateLink(r, l, patch)
        PROVE  \E j \in Jobs \ SetupJob : job' = [job EXCEPT ![r] = j]
    <2>1. [op |-> "update", at |-> "save", link |-> l, copy |-> link[l], patch |-> patch]
             \in UpdateJob
      BY <1>3, <1>c DEF UpdateJob, UpdateLink
    <2>2. PICK j \in Jobs \ SetupJob : Begin(r, j)
      BY <1>3, <1>b, <2>1 DEF UpdateLink
    <2>3. QED BY <1>a, <2>2, BeginJob
  <1>4. ASSUME \/ \E l \in Links : DestroyLink(r, l)
               \/ CountUse(r) \/ SaveUpdate(r)
               \/ AnswerSetup(r) \/ RefuseSetup(r) \/ BreakRequest(r)
        PROVE  job' = [job EXCEPT ![r] = Done]
    BY <1>4, <1>a, BeginJob, FinishJob, BreakJob
       DEF DestroyLink, CountUse, SaveUpdate, AnswerSetup, RefuseSetup, BreakRequest
  <1>5. \E j \in Jobs \ SetupJob : job' = [job EXCEPT ![r] = j]
    BY <1>1, <1>2, <1>3, <1>4, <1>a DEF Quiet
  <1>6. UNCHANGED <<intent, child, completedOn>>
    BY DEF Quiet, CreateIntent, CheckoutLink, UpdateLink, DestroyLink, CountUse, SaveUpdate,
           AnswerSetup, RefuseSetup, BreakRequest, checkoutVars
  <1>7. QED BY <1>5, <1>6

(* Only a setup's answer shows an address, and the setup had it before.    *)
LEMMA QuietShows ==
    ASSUME Types, NEW r \in Requests, Quiet(r), NEW i \in Intents, NEW w \in ChildWallets,
           shown'[i] = w
    PROVE  Holds(i, w)
  <1>1. CASE AnswerSetup(r)
    <2>1. job[r] \in SetupJob /\ job[r].at = "answer" /\ job[r].intent \in Intents
      BY <1>1, JobAt DEF Types, AnswerSetup, SetupJob
    <2>2. shown' = [shown EXCEPT ![job[r].intent] = job[r].address]
      BY <1>1 DEF AnswerSetup
    <2>3. shown[i] = w \/ Gives(r, i, w)
      BY <2>1, <2>2 DEF Types, RowsOK, Gives
    <2>4. QED BY <2>3 DEF Holds
  <1>2. CASE ~AnswerSetup(r)
    <2>1. UNCHANGED shown
      BY <1>2 DEF Quiet, CreateIntent, CheckoutLink, UpdateLink, DestroyLink, CountUse,
            SaveUpdate, RefuseSetup, BreakRequest, checkoutVars
    <2>2. QED BY <2>1 DEF Holds
  <1>3. QED BY <1>1, <1>2

LEMMA HoldersKept == Types /\ HoldersInv /\ [Next]_vars => HoldersInv'
  <1> SUFFICES ASSUME Types, HoldersInv, [Next]_vars PROVE HoldersInv'
    OBVIOUS
  <1>a. JobsOK /\ RowsOK /\ SetupsOK
    BY DEF Types
  <1>b. \A i \in Intents : Exists(i) => intent[i] \in Intent
    BY <1>a DEF RowsOK, Exists
  <1>1. ASSUME NEW r \in Requests,
               NEW j \in Jobs \ SetupJob, job' = [job EXCEPT ![r] = j],
               UNCHANGED <<intent, child, completedOn>>,
               \A i \in Intents, w \in ChildWallets : shown'[i] = w => Holds(i, w)
        PROVE  HoldersInv'
    BY <1>1, HoldersQuiet
  <1>2. ASSUME NEW r \in Requests, NEW i \in Intents, NEW n \in Networks,
               NEW by \in {"link", "merchant"}, Exists(i), Setup(r, i, n, by),
               UNCHANGED checkoutVars
        PROVE  HoldersInv'
    <2> DEFINE j == [op |-> "setup", at |-> "wallet", by |-> by, intent |-> i, net |-> n,
                     copy |-> intent[i], address |-> None]
    <2>1. job' = [job EXCEPT ![r] = j]
      <3>1. j \in SetupJob
        BY <1>2, <1>b DEF SetupJob
      <3>2. QED BY <1>2, <1>a, <3>1, BeginJob DEF Setup, Jobs
    <2>2. j.at = "wallet"
      OBVIOUS
    <2> HIDE DEF j
    <2>3. \A x \in Intents, w \in ChildWallets : shown'[x] = w => Holds(x, w)
      BY <1>2 DEF checkoutVars, Holds
    <2>4. QED BY <1>2, <2>1, <2>2, <2>3, HoldersQuiet DEF checkoutVars
  <1>3. ASSUME NEW r \in Requests, NEW j \in Jobs \ SetupJob, job' = [job EXCEPT ![r] = j],
               NEW i \in Intents, NEW ref \in References, NEW l \in Links \union {None},
               InsertIntent(ref, l, i), UNCHANGED <<child, shown, completedOn>>
        PROVE  HoldersInv'
    <2>1. intent'[i].wallet = None /\ intent'[i].status = "created"
          /\ \A x \in Intents \ {i} : intent'[x] = intent[x]
      BY <1>3, <1>a, NewIntentRow DEF InsertIntent, RowsOK
    <2>2. \A x \in Intents, w \in ChildWallets : Holds(x, w)' => Holds(x, w)
      <3>1. ASSUME NEW x \in Intents, NEW w \in ChildWallets, Holds(x, w)' PROVE Holds(x, w)
        <4>1. (Exists(x) /\ intent[x].wallet = w)' => Holds(x, w)
          BY <2>1, ChildNamesAssumption DEF Holds, Exists
        <4>2. QED BY <1>3, <3>1, <4>1, HoldsFewer
      <3>2. QED BY <3>1
    <2>3. \A x \in Intents : (Exists(x) /\ intent[x].status = "completed"
              /\ intent[x].wallet # None)' => intent'[x].wallet \in completedOn'
      BY <1>3, <2>1 DEF HoldersInv, Exists
    <2>4. QED BY <1>3, <2>2, <2>3, HoldersUnchanged
  <1>4. ASSUME NEW r \in Requests, InsertCreated(r) \/ InsertFromLink(r) PROVE HoldersInv'
    <2>1. job[r] \in CreateJob \union LinkJob
      BY <1>4, <1>a, JobAt DEF InsertCreated, InsertFromLink
    <2>2. job[r].ref \in References /\ (job[r] \in LinkJob => job[r].link \in Links)
      BY <2>1 DEF CreateJob, LinkJob
    <2>3. CASE InsertCreated(r)
      BY <1>3, <1>a, <2>2, <2>3, FinishJob, NoSetup DEF InsertCreated, Jobs
    <2>4. CASE InsertFromLink(r)
      <3>1. job[r] \in LinkJob
        BY <1>a, <2>4, JobAt DEF InsertFromLink
      <3>2. [job[r] EXCEPT !.at = "count"] \in LinkJob
        BY <3>1 DEF LinkJob
      <3>3. [job[r] EXCEPT !.at = "count"] \in Jobs \ SetupJob
        BY <3>2, JobsApart DEF Jobs
      <3>4. job' = [job EXCEPT ![r] = [job[r] EXCEPT !.at = "count"]]
        BY <1>a, <2>4, <3>3, ContinueJob DEF InsertFromLink
      <3>5. PICK i \in Intents : InsertIntent(job[r].ref, job[r].link, i)
        BY <2>4 DEF InsertFromLink
      <3>6. UNCHANGED <<child, shown, completedOn>>
        BY <2>4 DEF InsertFromLink
      <3>7. QED BY ONLY <1>3, <2>2, <3>1, <3>3, <3>4, <3>5, <3>6
    <2>5. QED BY <1>4, <2>3, <2>4
  <1>5. ASSUME NEW r \in Requests, At(r, "setup", "wallet"),
               NEW a \in ChildWallets \union {Invoice}, GotAddress(r, a),
               UNCHANGED <<intent, shown, completedOn>>,
               \A w \in ChildWallets : child[w] # None => child'[w] # None,
               a # Invoice => /\ child'[a] # None
                              /\ a \in completedOn \/ child[a] = None
        PROVE  HoldersInv'
    <2> DEFINE j == [job[r] EXCEPT !.at = "save", !.address = a]
    <2>1. job[r] \in SetupJob
      BY <1>a, <1>5, JobAt
    <2>2. j \in SetupJob /\ j.intent = job[r].intent /\ j.address = a
      BY <2>1 DEF SetupJob
    <2>3. job' = [job EXCEPT ![r] = j]
      BY <1>a, <1>5, <2>2, ContinueJob DEF GotAddress, Jobs
    <2> HIDE DEF j
    <2>4. ASSUME NEW x \in Intents, NEW y \in ChildWallets, Holds(x, y)'
          PROVE  Holds(x, y) \/ (x = job[r].intent /\ y = a)
      <3>1. CASE (Exists(x) /\ intent[x].wallet = y)' \/ shown'[x] = y
        BY <1>5, <3>1 DEF Holds, Exists
      <3>2. ASSUME NEW z \in Requests, Gives(z, x, y)'
            PROVE  Holds(x, y) \/ (x = job[r].intent /\ y = a)
        <4>1. CASE z = r
          BY <1>a, <2>2, <2>3, <3>2, <4>1 DEF Gives, JobsOK
        <4>2. CASE z # r
          <5>1. job'[z] = job[z]
            BY <1>a, <2>3, <4>2 DEF JobsOK
          <5>2. QED BY <3>2, <5>1 DEF Holds, Gives
        <4>3. QED BY <4>1, <4>2
      <3>3. QED BY <2>4, <3>1, <3>2 DEF Holds
    <2>5. job[r].intent \in Intents
      BY <2>1 DEF SetupJob
    <2>6. CASE a = Invoice
      <3>1. \A x \in Intents, y \in ChildWallets : Holds(x, y)' => Holds(x, y)
        BY <2>4, <2>6, ChildNamesAssumption
      <3>2. QED BY <1>5, <3>1, HoldersUnchanged DEF HoldersInv, Exists
    <2>7. CASE a # Invoice
      BY <1>5, <2>4, <2>5, <2>7, HolderAdded
    <2>8. QED BY <2>6, <2>7
  <1>6. ASSUME NEW r \in Requests, At(r, "setup", "wallet"), NEW n \in Networks,
               NewWallet(r, n), UNCHANGED <<intent, shown, completedOn>>
        PROVE  HoldersInv'
    <2>1. PICK w \in ChildWallets : /\ child[w] = None /\ child' = [child EXCEPT ![w] = n]
                                    /\ GotAddress(r, w)
      BY <1>6 DEF NewWallet
    <2>2. n # None
      BY ChildNamesAssumption
    <2>3. QED BY <1>5, <1>6, <1>a, <2>1, <2>2 DEF RowsOK
  <1>7. ASSUME NEW r \in Requests, CreateEvmWallet(r) PROVE HoldersInv'
    <2>1. job[r].net \in Networks
      BY <1>7 DEF CreateEvmWallet, Networks
    <2>2. CASE PaidBefore(job[r].net) = {}
      BY <1>6, <1>7, <2>1, <2>2 DEF CreateEvmWallet
    <2>3. CASE PaidBefore(job[r].net) # {}
      <3>1. PICK w \in PaidBefore(job[r].net) : GotAddress(r, w)
        BY <1>7, <2>3 DEF CreateEvmWallet
      <3>2. w \in ChildWallets /\ child[w] # None /\ w \in completedOn
        BY <2>1, <3>1, ChildNamesAssumption DEF PaidBefore, HoldersInv
      <3>3. At(r, "setup", "wallet") /\ UNCHANGED <<intent, shown, completedOn, child>>
        BY <1>7, <2>3 DEF CreateEvmWallet
      <3>4. QED BY ONLY <1>5, <3>1, <3>2, <3>3
    <2>4. QED BY <2>2, <2>3
  <1>8. ASSUME NEW r \in Requests, CreateKeyWallet(r) PROVE HoldersInv'
    <2>1. job[r].net \in Networks
      BY <1>8 DEF CreateKeyWallet, Networks
    <2>2. QED BY <1>6, <1>8, <2>1 DEF CreateKeyWallet
  <1>9. ASSUME NEW r \in Requests, CreateInvoice(r) PROVE HoldersInv'
    BY <1>5, <1>9 DEF CreateInvoice, checkoutVars
  <1>10. ASSUME NEW r \in Requests, SaveSetup(r) PROVE HoldersInv'
    <2> DEFINE i == job[r].intent
               j == [job[r] EXCEPT !.at = "answer"]
               row == Saved(intent[i], job[r].copy, SetUp(job[r].copy, job[r].net, job[r].address))
    <2>1. /\ job[r] \in SetupJob /\ job[r].at = "save" /\ i \in Intents /\ intent[i] \in Intent
          /\ job[r].copy \in Intent /\ job[r].net \in Networks
          /\ job[r].address \in ChildWallets \union {Invoice} /\ Exists(i)
      <3>1. job[r] \in SetupJob /\ job[r].at = "save"
        BY <1>10, <1>a, JobAt DEF SaveSetup
      <3>2. QED BY <1>a, <1>b, <3>1 DEF SetupJob, SetupsOK
    <2>2. /\ row.wallet = intent[i].wallet \/ row.wallet = None
             \/ row.wallet = job[r].address
      BY <2>1, SetUpIntent, SavedIntent
    <2>3. intent' = [intent EXCEPT ![i] = row]
      BY <1>10 DEF SaveSetup
    <2>4. j \in SetupJob /\ j.intent = i /\ j.address = job[r].address
      BY <2>1 DEF SetupJob
    <2>5. job' = [job EXCEPT ![r] = j]
      BY <1>10, <1>a, <2>4, ContinueJob DEF SaveSetup, Jobs
    <2> HIDE DEF j, row
    <2>6. \A x \in Intents, w \in ChildWallets : Holds(x, w)' => Holds(x, w)
      <3>1. ASSUME NEW x \in Intents, NEW w \in ChildWallets, Holds(x, w)' PROVE Holds(x, w)
        <4>1. j.intent = x /\ j.address = w => Holds(x, w)
          BY <2>1, <2>4 DEF Holds, Gives
        <4>2. (Exists(x) /\ intent[x].wallet = w)' => Holds(x, w)
          BY <1>a, <2>1, <2>2, <2>3, ChildNamesAssumption DEF Holds, Gives, Exists, RowsOK
        <4>3. UNCHANGED shown
          BY <1>10 DEF SaveSetup
        <4>4. QED BY <2>5, <3>1, <4>1, <4>2, <4>3, HoldsFewer
      <3>2. QED BY <3>1
    <2>7. UNCHANGED child /\ RememberCompleted
      BY <1>10 DEF SaveSetup
    <2>8. \A x \in Intents : intent'[x] # None /\ intent'[x].wallet # None
              => intent'[x].wallet \in ChildWallets
      BY TypesKept, NullRowAssumption DEF Types, RowsOK, Intent
    <2>9. QED BY <2>6, <2>7, <2>8, HoldersUnchanged DEF RememberCompleted, Exists
  <1>11. ASSUME NEW i \in Intents, CompletePayment(i) PROVE HoldersInv'
    <2>1. /\ UNCHANGED <<child, job, shown>> /\ RememberCompleted
          /\ intent' = [intent EXCEPT ![i].status = "completed"]
      BY <1>11 DEF CompletePayment, requestVars
    <2>2. intent[i] \in Intent
      BY <1>11, <1>b DEF CompletePayment
    <2>3. \A x \in Intents : /\ intent'[x] # None => Exists(x)
                             /\ Exists(x) => intent'[x].wallet = intent[x].wallet
      BY <1>11, <1>a, <2>1, <2>2 DEF CompletePayment, RowsOK, Intent, Exists
    <2>4. \A x \in Intents, w \in ChildWallets : Holds(x, w)' => Holds(x, w)
      BY <2>1, <2>3 DEF Holds, Gives, Exists
    <2>5. \A x \in Intents : intent'[x] # None /\ intent'[x].wallet # None
              => intent'[x].wallet \in ChildWallets
      BY TypesKept, NullRowAssumption DEF Types, RowsOK, Intent
    <2>6. QED BY <2>1, <2>4, <2>5, HoldersUnchanged DEF RememberCompleted, Exists
  <1>12. CASE UNCHANGED <<job, intent, child, shown, completedOn>>
    BY <1>12 DEF HoldersInv, Holds, Gives, Exists
  <1>13. ASSUME NEW l \in Links, LinkExpires(l) PROVE HoldersInv'
    BY <1>12, <1>13 DEF LinkExpires, requestVars
  <1>14. CASE UNCHANGED vars
    BY <1>12, <1>14 DEF vars, requestVars, checkoutVars
  <1>15. ASSUME NEW r \in Requests, Quiet(r) PROVE HoldersInv'
    <2>1. \A i \in Intents, w \in ChildWallets : shown'[i] = w => Holds(i, w)
      BY <1>15, QuietShows
    <2>2. QED BY <1>1, <1>15, <2>1, QuietStep
  <1>16. ASSUME NEW r \in Requests, ~Quiet(r)
         PROVE  /\ \A ref \in References : ~CreateIntent(r, ref)
                /\ \A l \in Links, ref \in References : ~CheckoutLink(r, l, ref)
                /\ \A l \in Links, patch \in Patches : ~UpdateLink(r, l, patch)
                /\ \A l \in Links : ~DestroyLink(r, l)
                /\ ~CountUse(r) /\ ~SaveUpdate(r)
                /\ ~AnswerSetup(r) /\ ~RefuseSetup(r) /\ ~BreakRequest(r)
    BY <1>16 DEF Quiet
  <1> QED
    BY <1>2, <1>4, <1>7, <1>8, <1>9, <1>10, <1>11, <1>13, <1>14, <1>15, <1>16, NextCases

LEMMA HoldersFirst == Init => HoldersInv
  <1> SUFFICES ASSUME Init PROVE HoldersInv
    OBVIOUS
  <1>1. \A i \in Intents : Exists(i) => intent[i].wallet = None
    BY NewIntentRow DEF Init, Exists
  <1>2. \A i \in Intents, w \in ChildWallets : ~Holds(i, w)
    BY <1>1, NoSetup, ChildNamesAssumption DEF Init, RequestsInit, Holds, Gives
  <1>3. QED BY <1>1, <1>2 DEF HoldersInv

(* However setups overlap, a child wallet is given to two intents only if  *)
(* one of its intents was completed before (WalletService.createChildWallet *)
(* gives paid EVM wallets out again, and inserts a row otherwise).         *)
THEOREM SharedAfterPaymentOnly == Spec => []SharedOnlyAfterPayment
  <1>1. Init => HoldersInv
    BY HoldersFirst
  <1>2. Types /\ HoldersInv => SharedOnlyAfterPayment
    BY DEF HoldersInv, Holds, SharedOnlyAfterPayment
  <1>3. QED BY <1>1, <1>2, HoldersKept, TypesInvariance, PTL DEF Spec

(* A link that is inactive stays so unless the merchant's own request      *)
(* activates it: updateLink and the checkout's count (PaymentLinkController *)
(* lines 302-340) save a copy that may be old.                             *)
THEOREM LinksStayInactive == Spec => DeactivationHolds
  <1> DEFINE Holding == \A l \in Links :
        link[l] # None /\ link'[l] # None /\ link[l].status = "inactive" =>
            link'[l].status = "inactive" \/ \E r \in Requests :
                At(r, "update", "save") /\ job[r].patch \in [status : {"active"}]
                /\ job'[r] = Done
  <1>1. Types /\ [Next]_vars => [Holding]_vars
    <2> SUFFICES ASSUME Types, [Next]_vars PROVE Holding
      OBVIOUS
    <2>a. RowsOK /\ JobsOK /\ \A l \in Links : link[l] # None => link[l] \in Link
      BY DEF Types, RowsOK
    <2>1. CASE UNCHANGED link
      BY <2>1
    <2>2. ASSUME NEW r \in Requests, CountUse(r) PROVE Holding
      <3>1. job[r].link \in Links /\ job[r].copy \in Link
        BY <2>2, <2>a, JobAt DEF CountUse, LinkJob
      <3>2. ASSUME NEW row \in Link, row.status = "inactive"
            PROVE  Saved(row, job[r].copy, Used(job[r].copy)).status = "inactive"
        BY <3>1, <3>2, UsedLink, SavedLink
      <3>3. QED BY <2>2, <2>a, <3>1, <3>2 DEF CountUse, SaveLink, RowsOK
    <2>3. ASSUME NEW r \in Requests, SaveUpdate(r) PROVE Holding
      <3> DEFINE new == Patched(job[r].copy, job[r].patch)
      <3>1. job[r].link \in Links /\ job[r].copy \in Link /\ job[r].patch \in Patches
        BY <2>3, <2>a, JobAt DEF SaveUpdate, UpdateJob
      <3>2. new \in Link
        BY <3>1, PatchedLink
      <3>3. At(r, "update", "save") /\ job'[r] = Done
        BY <2>3, <2>a, FinishJob DEF SaveUpdate, JobsOK
      <3>4. ASSUME NEW row \in Link, row.status = "inactive",
                   Saved(row, job[r].copy, new).status # "inactive"
            PROVE  job[r].patch \in [status : {"active"}]
        <4>1. new.status # job[r].copy.status /\ new.status # "inactive"
          BY <3>1, <3>2, <3>4, SavedLink
        <4>2. new.status = "active"
          BY <3>2, <4>1 DEF Link
        <4>3. QED BY <3>1, <4>1, <4>2, PatchedLink
      <3>5. link' = IF link[job[r].link] = None THEN link
                    ELSE [link EXCEPT ![job[r].link] = Saved(@, job[r].copy, new)]
        BY <2>3 DEF SaveUpdate, SaveLink
      <3> HIDE DEF new
      <3>6. QED BY <2>a, <3>1, <3>3, <3>4, <3>5 DEF RowsOK
    <2>4. ASSUME NEW r \in Requests, NEW l \in Links, DestroyLink(r, l) PROVE Holding
      BY <2>4, <2>a DEF DestroyLink, RowsOK
    <2>5. ASSUME NEW l \in Links, LinkExpires(l) PROVE Holding
      BY <2>5, <2>a DEF LinkExpires, RowsOK, Link
    <2> HIDE DEF Holding
    <2>6. ASSUME NEW r \in Requests, CreateEvmWallet(r) \/ CreateKeyWallet(r) \/ CreateInvoice(r)
          PROVE  UNCHANGED link
      BY <2>6 DEF CreateEvmWallet, CreateKeyWallet, CreateInvoice, checkoutVars
    <2>7. ASSUME NEW r \in Requests,
                 \/ InsertCreated(r) \/ InsertFromLink(r) \/ SaveSetup(r)
                 \/ AnswerSetup(r) \/ RefuseSetup(r) \/ BreakRequest(r)
          PROVE  UNCHANGED link
      BY <2>7 DEF InsertCreated, InsertFromLink, SaveSetup, AnswerSetup, RefuseSetup,
                  BreakRequest
    <2>8. ASSUME NEW r \in Requests,
                 \/ \E ref \in References : CreateIntent(r, ref)
                 \/ \E l \in Links, ref \in References : CheckoutLink(r, l, ref)
                 \/ \E l \in Links, patch \in Patches : UpdateLink(r, l, patch)
          PROVE  UNCHANGED link
      BY <2>8 DEF CreateIntent, CheckoutLink, UpdateLink, checkoutVars
    <2>9. ASSUME UNCHANGED checkoutVars \/ UNCHANGED vars PROVE UNCHANGED link
      BY <2>9 DEF vars, checkoutVars
    <2>10. ASSUME NEW i \in Intents, CompletePayment(i) PROVE UNCHANGED link
      BY <2>10 DEF CompletePayment
    <2>11. QED
      BY <2>1, <2>2, <2>3, <2>4, <2>5, <2>6, <2>7, <2>8, <2>9, <2>10, NextCases
  <1>2. QED BY <1>1, TypesInvariance, PTL DEF Spec, DeactivationHolds

-----------------------------------------------------------------------------
(* Handlers that are not in each other's way. *)

LEMMA JobSets ==
    ASSUME Types, NEW r \in Requests
    PROVE  /\ \A i : SetsUp(r, i) <=> job[r] \in SetupJob /\ job[r].intent = i
           /\ \A l : WorksOn(r, l) <=> job[r] \in LinkJob \union UpdateJob /\ job[r].link = l
           /\ job[r] \in LinkJob <=> job[r].op = "checkout"
           /\ job[r] \in UpdateJob <=> job[r].op = "update"
  <1>1. job[r] \in Jobs
    BY DEF Types, JobsOK
  <1>2. /\ job[r] \in SetupJob <=> job[r].op = "setup"
        /\ job[r] \in LinkJob <=> job[r].op = "checkout"
        /\ job[r] \in UpdateJob <=> job[r].op = "update"
    BY <1>1, JobsApart DEF Jobs
  <1>3. QED BY <1>2 DEF SetsUp, WorksOn

(* On an intent or a link that was left undisturbed, one handler at most.  *)
Undisturbed ==
    /\ \A i \in Intents \ disturbed : \A r, s \in Requests :
            SetsUp(r, i) /\ SetsUp(s, i) => r = s
    /\ \A l \in Links \ disturbed : \A r, s \in Requests :
            WorksOn(r, l) /\ WorksOn(s, l) => r = s

LEMMA UndisturbedKept == Undisturbed /\ [Next]_vars => Undisturbed'
  <1>1. Next => Undisturbed'
    BY DEF Next, Overlapped, Undisturbed
  <1>2. UNCHANGED vars /\ Undisturbed => Undisturbed'
    BY DEF vars, requestVars, Undisturbed, SetsUp, WorksOn
  <1>3. QED BY <1>1, <1>2

LEMMA UndisturbedFirst == Init => Undisturbed
  BY DEF Init, RequestsInit, Waiting, Undisturbed, SetsUp, WorksOn

(* What a step does to disturbed. *)
LEMMA DisturbedGrows ==
    ASSUME [Next]_vars
    PROVE  /\ disturbed \subseteq disturbed'
           /\ Next => Uncounted \subseteq disturbed'
  BY DEF Next, vars

(* Every step is one of one request, or of none. *)
OneJob(r) == \A x \in Requests \ {r} : job'[x] = job[x]

-----------------------------------------------------------------------------
(* Payments are watched. *)

Answering(i) == \E r \in Requests : SetsUp(r, i) /\ job[r].at = "answer"

WalletAt(a) == IF a \in ChildWallets THEN a ELSE None

(* What a setup holds of its intent: until it saves it has read the row as *)
(* it is, and then the row is as it saved it.                              *)
SetupFits(r, i) ==
    /\ job[r].at \in {"wallet", "save"} =>
          job[r].copy.net = intent[i].net /\ job[r].copy.wallet = intent[i].wallet
    /\ job[r].at = "answer" =>
          intent[i].net = job[r].net /\ intent[i].wallet = WalletAt(job[r].address)

Watched(i) ==
    Exists(i) =>
        /\ NetworkOfWallet(i)
        /\ i \in cut \/ Answering(i) \/ ShownIsWatched(i)
        /\ \A r \in Requests : SetsUp(r, i) => SetupFits(r, i)

(* An address that a setup holds is on the network that it asked for.      *)
AddressFits(r) ==
    job[r] \in SetupJob /\ job[r].at # "wallet" =>
        IF job[r].address \in ChildWallets
        THEN child[job[r].address] = job[r].net
        ELSE job[r].net \in FiberNetworks

Watching ==
    /\ \A i \in Intents \ disturbed : Watched(i)
    /\ \A r \in Requests : AddressFits(r)
    /\ \A i \in Intents : ~Exists(i) => shown[i] = None

(* A wallet that has been inserted stays on its network. *)
WalletsKept == \A w \in ChildWallets : child[w] # None => child'[w] = child[w]

(* A step that leaves the address of intent i alone, and its setups.       *)
LEMMA WatchedElsewhere ==
    ASSUME Types, HoldersInv, WalletsKept, NEW i \in Intents, Watched(i),
           Exists(i)' => /\ Exists(i)
                         /\ intent'[i].net = intent[i].net /\ intent'[i].wallet = intent[i].wallet,
           shown'[i] = shown[i], i \in cut => i \in cut',
           \A r \in Requests : SetsUp(r, i)' \/ SetsUp(r, i) => job'[r] = job[r]
    PROVE  Watched(i)'
  <1> SUFFICES ASSUME Exists(i)' PROVE Watched(i)'
    BY DEF Watched
  <1>1. intent[i].wallet # None =>
           intent[i].wallet \in ChildWallets /\ child[intent[i].wallet] # None
    BY DEF Types, RowsOK, Exists, Intent, HoldersInv, Holds
  <1>2. NetworkOfWallet(i)'
    BY <1>1 DEF Watched, NetworkOfWallet, WalletsKept
  <1>3. \A r \in Requests : SetsUp(r, i)' <=> SetsUp(r, i)
    BY DEF SetsUp
  <1>4. Answering(i)' <=> Answering(i)
    BY <1>3 DEF Answering
  <1>5. ShownIsWatched(i)' <=> ShownIsWatched(i)
    BY DEF ShownIsWatched
  <1>6. \A r \in Requests : SetsUp(r, i)' => SetupFits(r, i)'
    BY <1>3 DEF Watched, SetupFits
  <1>7. QED BY <1>2, <1>4, <1>5, <1>6 DEF Watched

LEMMA AddressesKept ==
    ASSUME Types, HoldersInv, WalletsKept, NEW r \in Requests, OneJob(r), AddressFits(r)',
           \A x \in Requests : AddressFits(x)
    PROVE  \A x \in Requests : AddressFits(x)'
  <1>1. ASSUME NEW x \in Requests \ {r} PROVE AddressFits(x)'
    <2>1. job'[x] = job[x]
      BY DEF OneJob
    <2>2. ASSUME job[x] \in SetupJob, job[x].at # "wallet", job[x].address \in ChildWallets
          PROVE  child[job[x].address] # None
      <3>1. job[x].intent \in Intents
        BY <2>2 DEF SetupJob
      <3>2. Holds(job[x].intent, job[x].address)
        BY <2>2 DEF Holds, Gives
      <3>3. QED BY <2>2, <3>1, <3>2 DEF HoldersInv
    <2>3. QED BY <2>1, <2>2 DEF AddressFits, WalletsKept
  <1>2. QED BY <1>1

LEMMA NoSetupJob ==
    ASSUME NEW j \in Jobs, j \notin SetupJob
    PROVE  j.op # "setup"
  BY JobsApart DEF Jobs

(* A step that writes no intent and no address, and that is of no setup.   *)
LEMMA WatchingQuiet ==
    ASSUME Types, HoldersInv, Watching, [Next]_vars, NEW r \in Requests,
           NEW j \in Jobs \ SetupJob, job' = [job EXCEPT ![r] = j], job[r] \notin SetupJob,
           UNCHANGED <<intent, child, shown, cut>>
    PROVE  Watching'
  <1>1. job'[r] = j /\ OneJob(r)
    BY DEF OneJob, Types, JobsOK
  <1>2. \A x \in Requests, i \in Intents : SetsUp(x, i)' \/ SetsUp(x, i) => x # r
    BY <1>1, NoSetupJob DEF SetsUp, Types, JobsOK
  <1>3. \A i \in Intents \ disturbed' : Watched(i)'
    BY <1>1, <1>2, WatchedElsewhere, DisturbedGrows DEF Watching, OneJob, WalletsKept, Exists
  <1>4. \A x \in Requests : AddressFits(x)'
    BY <1>1, AddressesKept DEF Watching, WalletsKept, AddressFits
  <1>5. QED BY <1>3, <1>4 DEF Watching, Exists

(* A step of a setup of intent i, which leaves the others alone.           *)
LEMMA WatchingSetup ==
    ASSUME Types, HoldersInv, Watching, [Next]_vars, NEW r \in Requests, NEW i \in Intents,
           OneJob(r), WalletsKept, AddressFits(r)',
           \A x \in Intents : SetsUp(r, x)' \/ SetsUp(r, x) => x = i,
           \A x \in Intents \ {i} : /\ intent'[x] = intent[x] /\ shown'[x] = shown[x]
                                    /\ x \in cut => x \in cut',
           Exists(i)', i \notin disturbed' => Watched(i)'
    PROVE  Watching'
  <1>1. ASSUME NEW x \in Intents \ disturbed', x # i PROVE Watched(x)'
    <2>1. \A y \in Requests : SetsUp(y, x)' \/ SetsUp(y, x) => job'[y] = job[y]
      BY <1>1 DEF OneJob
    <2>2. Watched(x)
      BY <1>1, DisturbedGrows DEF Watching
    <2>3. QED BY <1>1, <2>1, <2>2, WatchedElsewhere DEF Exists
  <1>2. \A x \in Requests : AddressFits(x)'
    BY AddressesKept DEF Watching
  <1>3. QED BY <1>1, <1>2 DEF Watching, Exists

(* On an undisturbed intent, the setup that goes on is alone before and    *)
(* after its step.                                                         *)
LEMMA SetupAlone ==
    ASSUME [Next]_vars, Undisturbed, NEW r \in Requests, NEW i \in Intents \ disturbed',
           SetsUp(r, i) \/ SetsUp(r, i)'
    PROVE  /\ SetsUp(r, i) => \A x \in Requests \ {r} : ~SetsUp(x, i)
           /\ SetsUp(r, i)' => \A x \in Requests \ {r} : ~SetsUp(x, i)'
  BY UndisturbedKept, DisturbedGrows DEF Undisturbed

LEMMA WatchingBySetup ==
    ASSUME Types, HoldersInv, Watching, Undisturbed, [Next]_vars,
           NEW r \in Requests, NEW i \in Intents, NEW n \in Networks,
           NEW by \in {"link", "merchant"}, Exists(i), Setup(r, i, n, by),
           UNCHANGED checkoutVars
    PROVE  Watching'
  <1> DEFINE j == [op |-> "setup", at |-> "wallet", by |-> by, intent |-> i, net |-> n,
                   copy |-> intent[i], address |-> None]
  <1>1. j \in SetupJob
    BY DEF Types, RowsOK, Exists, SetupJob
  <1>2. job' = [job EXCEPT ![r] = j] /\ job[r] = Waiting
    BY <1>1, BeginJob DEF Types, Setup, Jobs
  <1>3. j.at = "wallet" /\ j.copy = intent[i] /\ j.intent = i /\ j.op = "setup"
    OBVIOUS
  <1> HIDE DEF j
  <1>4. job'[r] = j /\ OneJob(r)
    BY <1>2 DEF OneJob, Types, JobsOK
  <1>5. SetsUp(r, i)' /\ \A x \in Intents : SetsUp(r, x)' \/ SetsUp(r, x) => x = i
    BY <1>2, <1>3, <1>4 DEF SetsUp, Waiting
  <1>6. UNCHANGED <<intent, child, shown, cut>> /\ WalletsKept /\ Exists(i)'
    BY DEF checkoutVars, WalletsKept, Exists
  <1>7. AddressFits(r)'
    BY <1>3, <1>4 DEF AddressFits
  <1>8. ASSUME i \notin disturbed' PROVE Watched(i)'
    <2>1. \A x \in Requests \ {r} : ~SetsUp(x, i)'
      BY <1>5, <1>8, SetupAlone
    <2>2. \A x \in Requests \ {r} : ~SetsUp(x, i)
      BY <1>4, <2>1 DEF OneJob, SetsUp
    <2>3. ~Answering(i)
      BY <1>2, <2>2 DEF Answering, SetsUp, Waiting
    <2>4. Watched(i)
      BY <1>8, DisturbedGrows DEF Watching
    <2>5. NetworkOfWallet(i)' /\ (i \in cut' \/ ShownIsWatched(i)')
      BY <1>6, <2>3, <2>4 DEF Watched, NetworkOfWallet, ShownIsWatched
    <2>6. SetupFits(r, i)'
      BY <1>3, <1>4, <1>6 DEF SetupFits
    <2>7. QED BY <2>1, <2>5, <2>6 DEF Watched
  <1>9. QED BY <1>4, <1>5, <1>6, <1>7, <1>8, WatchingSetup

LEMMA WatchingByInsert ==
    ASSUME Types, HoldersInv, Watching, [Next]_vars, NEW r \in Requests,
           NEW j \in Jobs \ SetupJob, job' = [job EXCEPT ![r] = j], job[r] \notin SetupJob,
           NEW i \in Intents, NEW ref \in References, NEW l \in Links \union {None},
           InsertIntent(ref, l, i), UNCHANGED <<child, shown, cut>>
    PROVE  Watching'
  <1>1. /\ intent'[i] \in Intent /\ intent'[i].wallet = None /\ intent'[i].net = None
        /\ \A x \in Intents \ {i} : intent'[x] = intent[x]
    BY NewIntentRow DEF InsertIntent, Types, RowsOK
  <1>2. job'[r] = j /\ OneJob(r)
    BY DEF OneJob, Types, JobsOK
  <1>3. \A x \in Requests, y \in Intents : SetsUp(x, y)' \/ SetsUp(x, y) => x # r
    BY <1>2, NoSetupJob DEF SetsUp, Types, JobsOK
  <1>4. ASSUME NEW x \in Requests PROVE ~SetsUp(x, i)'
    <2>1. ~SetsUp(x, i)
      BY JobSets DEF InsertIntent, Types, SetupsOK
    <2>2. QED BY <1>2, <1>3, <2>1 DEF OneJob, SetsUp
  <1>5. Watched(i)'
    <2>1. shown'[i] = None
      BY DEF Watching, InsertIntent
    <2>2. NetworkOfWallet(i)' /\ ShownIsWatched(i)'
      BY <1>1, <2>1, ChildNamesAssumption DEF NetworkOfWallet, ShownIsWatched
    <2>3. QED BY <1>4, <2>2 DEF Watched
  <1>6. ASSUME NEW x \in Intents \ disturbed', x # i PROVE Watched(x)'
    <2>1. Watched(x)
      BY <1>6, DisturbedGrows DEF Watching
    <2>2. QED BY <1>1, <1>2, <1>3, <1>6, <2>1, WatchedElsewhere DEF OneJob, WalletsKept, Exists
  <1>7. \A x \in Requests : AddressFits(x)'
    BY <1>2, AddressesKept DEF Watching, WalletsKept, AddressFits
  <1>8. \A x \in Intents : ~Exists(x)' => shown'[x] = None
    BY <1>1, NullRowAssumption DEF Watching, Exists
  <1>9. QED BY <1>5, <1>6, <1>7, <1>8 DEF Watching

(* A setup goes on with j, and leaves every other request alone.           *)
LEMMA SetupGoesOn ==
    ASSUME Types, NEW r \in Requests, job[r] \in SetupJob, NEW j \in Jobs,
           job' = [job EXCEPT ![r] = j],
           j \in SetupJob => j.intent = job[r].intent
    PROVE  /\ job'[r] = j /\ OneJob(r) /\ job[r].intent \in Intents
           /\ SetsUp(r, job[r].intent)
           /\ j \in SetupJob => SetsUp(r, job[r].intent)'
           /\ \A x \in Intents : SetsUp(r, x)' \/ SetsUp(r, x) => x = job[r].intent
  <1>1. job'[r] = j /\ OneJob(r)
    BY DEF OneJob, Types, JobsOK
  <1>2. j \in SetupJob => j.op = "setup"
    BY JobsApart
  <1>3. j \notin SetupJob => j.op # "setup"
    BY NoSetupJob
  <1>4. job[r].op = "setup" /\ job[r].intent \in Intents
    BY DEF SetupJob
  <1>5. QED BY <1>1, <1>2, <1>3, <1>4 DEF SetsUp

LEMMA WatchingByAddress ==
    ASSUME Types, HoldersInv, Watching, Undisturbed, [Next]_vars,
           NEW r \in Requests, At(r, "setup", "wallet"),
           NEW a \in ChildWallets \union {Invoice}, GotAddress(r, a),
           UNCHANGED <<intent, shown, cut>>, WalletsKept,
           IF a \in ChildWallets THEN child'[a] = job[r].net ELSE job[r].net \in FiberNetworks
    PROVE  Watching'
  <1> DEFINE j == [job[r] EXCEPT !.at = "save", !.address = a]
  <1>1. job[r] \in SetupJob /\ job[r].at = "wallet"
    BY JobAt DEF Types
  <1>2. /\ j \in SetupJob /\ j.intent = job[r].intent /\ j.address = a /\ j.at = "save"
        /\ j.net = job[r].net /\ j.copy = job[r].copy
    BY <1>1 DEF SetupJob
  <1>3. job' = [job EXCEPT ![r] = j] /\ j \in Jobs
    BY <1>2, ContinueJob DEF Types, GotAddress, Jobs
  <1> HIDE DEF j
  <1>4. PICK i \in Intents : job[r].intent = i
    BY <1>1 DEF SetupJob
  <1>5. /\ job'[r] = j /\ OneJob(r) /\ SetsUp(r, i) /\ SetsUp(r, i)'
        /\ \A x \in Intents : SetsUp(r, x)' \/ SetsUp(r, x) => x = i
    BY <1>1, <1>2, <1>3, <1>4, SetupGoesOn
  <1>6. Exists(i)'
    BY <1>1, <1>4 DEF Types, SetupsOK, Exists
  <1>7. AddressFits(r)'
    BY <1>2, <1>5 DEF AddressFits
  <1>8. ASSUME i \notin disturbed' PROVE Watched(i)'
    <2>1. \A x \in Requests \ {r} : ~SetsUp(x, i) /\ ~SetsUp(x, i)'
      BY <1>5, <1>8, SetupAlone
    <2>2. Watched(i) /\ ~Answering(i)
      BY <1>1, <1>8, <2>1, DisturbedGrows DEF Watching, Answering
    <2>3. intent[i].wallet # None =>
             intent[i].wallet \in ChildWallets /\ child[intent[i].wallet] # None
      BY <1>6 DEF Types, RowsOK, Exists, Intent, HoldersInv, Holds
    <2>4. NetworkOfWallet(i)' /\ (i \in cut' \/ ShownIsWatched(i)')
      BY <1>6, <2>2, <2>3 DEF Watched, NetworkOfWallet, ShownIsWatched, Exists, WalletsKept
    <2>5. SetupFits(r, i)
      BY <1>5, <1>6, <2>2 DEF Watched, Exists
    <2>6. SetupFits(r, i)'
      BY <1>1, <1>2, <1>5, <2>5 DEF SetupFits
    <2>7. QED BY <2>1, <2>4, <2>6 DEF Watched
  <1>9. QED BY <1>5, <1>6, <1>7, <1>8, WatchingSetup

(* Of the row and the copy only the address and the network matter, and on *)
(* an undisturbed intent these are the same, so the row gets the setup's.  *)
LEMMA WatchingBySave ==
    ASSUME Types, HoldersInv, Watching, Undisturbed, [Next]_vars,
           NEW r \in Requests, SaveSetup(r)
    PROVE  Watching'
  <1>a. job[r] \in SetupJob /\ job[r].at = "save"
    BY JobAt DEF Types, SaveSetup
  <1>b. PICK i \in Intents : job[r].intent = i
    BY <1>a DEF SetupJob
  <1> DEFINE j == [job[r] EXCEPT !.at = "answer"]
             row == Saved(intent[i], job[r].copy, SetUp(job[r].copy, job[r].net, job[r].address))
  <1>1. /\ job[r].copy \in Intent /\ job[r].net \in Networks
        /\ job[r].address \in ChildWallets \union {Invoice} /\ Exists(i) /\ intent[i] \in Intent
    BY <1>a, <1>b DEF SetupJob, SetupsOK, Types, RowsOK, Exists
  <1>2. /\ row \in Intent
        /\ job[r].copy.net = intent[i].net /\ job[r].copy.wallet = intent[i].wallet =>
              row.net = job[r].net /\ row.wallet = WalletAt(job[r].address)
    BY <1>1, SetUpIntent, SavedIntent, ChildNamesAssumption DEF WalletAt
  <1>3. intent' = [intent EXCEPT ![i] = row] /\ UNCHANGED <<child, shown, cut>>
    BY <1>a, <1>b DEF SaveSetup
  <1>4. j \in SetupJob /\ j.at = "answer" /\ j.intent = i /\ j.address = job[r].address
        /\ j.net = job[r].net
    BY <1>a, <1>b, <1>1 DEF SetupJob
  <1>5. job' = [job EXCEPT ![r] = j] /\ j \in Jobs
    BY <1>4, ContinueJob DEF SaveSetup, Jobs, Types
  <1> HIDE DEF j, row
  <1>6. /\ job'[r] = j /\ OneJob(r) /\ SetsUp(r, i) /\ SetsUp(r, i)'
        /\ \A x \in Intents : SetsUp(r, x)' \/ SetsUp(r, x) => x = i
    <2>1. j \in SetupJob => j.intent = job[r].intent
      BY <1>b, <1>4
    <2>2. /\ job'[r] = j /\ OneJob(r)
          /\ SetsUp(r, job[r].intent) /\ SetsUp(r, job[r].intent)'
          /\ \A x \in Intents : SetsUp(r, x)' \/ SetsUp(r, x) => x = job[r].intent
      BY ONLY <1>a, <1>4, <1>5, <2>1, Types, r \in Requests, SetupGoesOn
    <2>3. SetsUp(r, i)'
      BY <1>4, <2>2, JobsApart DEF SetsUp
    <2>4. QED BY <1>b, <2>2, <2>3
  <1>7. /\ intent'[i] = row /\ Exists(i)' /\ WalletsKept
        /\ \A x \in Intents \ {i} : intent'[x] = intent[x] /\ shown'[x] = shown[x]
    BY <1>1, <1>2, <1>3, NullRowAssumption DEF Types, RowsOK, Exists, WalletsKept
  <1>8. AddressFits(r)'
    BY <1>a, <1>3, <1>4, <1>6 DEF AddressFits, Watching
  <1>9. ASSUME i \notin disturbed' PROVE Watched(i)'
    <2>1. \A x \in Requests \ {r} : ~SetsUp(x, i) /\ ~SetsUp(x, i)'
      BY <1>6, <1>9, SetupAlone
    <2>2. SetupFits(r, i)
      BY <1>1, <1>6, <1>9, DisturbedGrows DEF Watching, Watched
    <2>3. intent'[i].net = job[r].net /\ intent'[i].wallet = WalletAt(job[r].address)
      BY <1>a, <1>2, <1>7, <2>2 DEF SetupFits
    <2>4. NetworkOfWallet(i)'
      BY <1>a, <1>1, <1>3, <2>3, ChildNamesAssumption
         DEF NetworkOfWallet, WalletAt, Watching, AddressFits
    <2>5. Answering(i)' /\ SetupFits(r, i)'
      BY <1>4, <1>6, <2>3 DEF Answering, SetupFits
    <2>6. QED BY <2>1, <2>4, <2>5 DEF Watched
  <1>10. QED BY <1>3, <1>6, <1>7, <1>8, <1>9, WatchingSetup

(* The customer is shown the address, or the setup ends without an answer  *)
(* and the intent is cut once it was saved.                                *)
LEMMA WatchingByEnd ==
    ASSUME Types, HoldersInv, Watching, Undisturbed, [Next]_vars,
           NEW r \in Requests, job[r] \in SetupJob, job' = [job EXCEPT ![r] = Done],
           UNCHANGED <<intent, child>>,
           \/ /\ job[r].at = "answer"
              /\ shown' = [shown EXCEPT ![job[r].intent] = job[r].address]
              /\ cut' = cut \ {job[r].intent}
           \/ /\ UNCHANGED shown
              /\ cut' = IF job[r].at = "answer" THEN cut \union {job[r].intent} ELSE cut
    PROVE  Watching'
  <1>1. PICK i \in Intents : job[r].intent = i
    BY DEF SetupJob
  <1>2. Done \in Jobs \ SetupJob
    BY NoSetup DEF Jobs
  <1>3. /\ job'[r] = Done /\ OneJob(r) /\ SetsUp(r, i)
        /\ \A x \in Intents : SetsUp(r, x)' \/ SetsUp(r, x) => x = i
    BY <1>1, <1>2, SetupGoesOn
  <1>4. Exists(i) /\ Exists(i)' /\ WalletsKept /\ AddressFits(r)'
    BY <1>1, <1>2, <1>3 DEF Types, SetupsOK, Exists, WalletsKept, AddressFits
  <1>5. \A x \in Intents \ {i} : shown'[x] = shown[x] /\ (x \in cut => x \in cut')
    BY <1>1 DEF Types, RowsOK
  <1>6. ASSUME i \notin disturbed' PROVE Watched(i)'
    <2>1. \A x \in Requests \ {r} : ~SetsUp(x, i)
      BY <1>3, <1>6, SetupAlone
    <2>2. \A x \in Requests : ~SetsUp(x, i)'
      BY <1>3, <2>1 DEF OneJob, SetsUp, Done
    <2>3. Watched(i) /\ SetupFits(r, i)
      BY <1>3, <1>4, <1>6, DisturbedGrows DEF Watching, Watched
    <2>4. NetworkOfWallet(i)'
      BY <1>4, <2>3 DEF Watched, NetworkOfWallet
    <2>5. i \in cut' \/ ShownIsWatched(i)'
      <3>1. CASE job[r].at = "answer" /\ shown' = [shown EXCEPT ![i] = job[r].address]
        BY <1>1, <2>3, <3>1 DEF SetupFits, WalletAt, ShownIsWatched, Types, RowsOK
      <3>2. CASE UNCHANGED shown /\ job[r].at = "answer" /\ i \in cut'
        BY <3>2
      <3>3. CASE UNCHANGED <<shown, cut>> /\ job[r].at # "answer"
        <4>1. ~Answering(i)
          BY <2>1, <3>3 DEF Answering
        <4>2. QED BY <1>4, <2>3, <3>3, <4>1 DEF Watched, ShownIsWatched
      <3>4. QED BY <1>1, <3>1, <3>2, <3>3
    <2>6. QED BY <2>2, <2>4, <2>5 DEF Watched
  <1>7. QED BY <1>3, <1>4, <1>5, <1>6, WatchingSetup

(* No job changes, and no address.                                         *)
LEMMA WatchingStill ==
    ASSUME Types, HoldersInv, Watching, [Next]_vars, UNCHANGED <<job, child, shown, cut>>,
           \A x \in Intents : /\ intent'[x] # None <=> intent[x] # None
                              /\ intent[x] # None => /\ intent'[x].wallet = intent[x].wallet
                                                     /\ intent'[x].net = intent[x].net
    PROVE  Watching'
  <1>1. \A i \in Intents \ disturbed' : Watched(i)'
    BY WatchedElsewhere, DisturbedGrows DEF Watching, WalletsKept, Exists
  <1>2. QED BY <1>1 DEF Watching, AddressFits, Exists

LEMMA WatchingByPayment ==
    ASSUME Types, HoldersInv, Watching, [Next]_vars, NEW i \in Intents, CompletePayment(i)
    PROVE  Watching'
  <1>1. intent[i] \in Intent /\ intent' = [intent EXCEPT ![i].status = "completed"]
    BY DEF CompletePayment, Exists, Types, RowsOK
  <1>2. \A x \in Intents : /\ intent'[x] # None <=> intent[x] # None
                           /\ intent[x] # None => /\ intent'[x].wallet = intent[x].wallet
                                                  /\ intent'[x].net = intent[x].net
    BY <1>1, NullRowAssumption DEF Types, RowsOK, Intent, CompletePayment, Exists
  <1>3. UNCHANGED <<job, child, shown, cut>>
    BY DEF CompletePayment, requestVars
  <1>4. QED BY <1>2, <1>3, WatchingStill

LEMMA WatchingKept == Types /\ Undisturbed /\ HoldersInv /\ Watching /\ [Next]_vars => Watching'
  <1> SUFFICES ASSUME Types, Undisturbed, HoldersInv, Watching, [Next]_vars PROVE Watching'
    OBVIOUS
  <1>a. JobsOK /\ Done \in Jobs \ SetupJob
    BY NoSetup DEF Types, Jobs
  <1>1. ASSUME NEW r \in Requests,
               \/ \E ref \in References : CreateIntent(r, ref)
               \/ \E l \in Links, ref \in References : CheckoutLink(r, l, ref)
               \/ \E l \in Links, patch \in Patches : UpdateLink(r, l, patch)
               \/ \E l \in Links : DestroyLink(r, l)
        PROVE  Watching'
    <2>1. PICK j \in Jobs \ SetupJob : job' = [job EXCEPT ![r] = j]
      BY <1>1, QuietStep DEF Quiet
    <2>2. job[r] = Waiting
      BY <1>1 DEF CreateIntent, CheckoutLink, UpdateLink, DestroyLink, Begin
    <2>3. UNCHANGED <<intent, child, shown, cut>>
      BY <1>1 DEF CreateIntent, CheckoutLink, UpdateLink, DestroyLink, checkoutVars
    <2>4. QED BY <2>1, <2>2, <2>3, NoSetup, WatchingQuiet
  <1>2. ASSUME NEW r \in Requests, NEW i \in Intents, NEW n \in Networks,
               NEW by \in {"link", "merchant"}, Exists(i), Setup(r, i, n, by),
               UNCHANGED checkoutVars
        PROVE  Watching'
    BY <1>2, WatchingBySetup
  <1>3. ASSUME NEW r \in Requests, InsertCreated(r) PROVE Watching'
    <2>1. job[r] \in CreateJob /\ job[r].ref \in References
      BY <1>3, <1>a, JobAt DEF InsertCreated, CreateJob
    <2>2. job' = [job EXCEPT ![r] = Done] /\ job[r] \notin SetupJob
      BY <1>3, <1>a, <2>1, FinishJob, JobsApart DEF InsertCreated
    <2>3. PICK i \in Intents : InsertIntent(job[r].ref, None, i)
      BY <1>3 DEF InsertCreated
    <2>4. UNCHANGED <<child, shown, cut>>
      BY <1>3 DEF InsertCreated
    <2>5. QED BY <1>a, <2>1, <2>2, <2>3, <2>4, WatchingByInsert
  <1>4. ASSUME NEW r \in Requests, InsertFromLink(r) PROVE Watching'
    <2> DEFINE j == [job[r] EXCEPT !.at = "count"]
    <2>1. job[r] \in LinkJob /\ job[r].ref \in References /\ job[r].link \in Links
      BY <1>4, <1>a, JobAt DEF InsertFromLink, LinkJob
    <2>2. j \in LinkJob
      BY <2>1 DEF LinkJob
    <2>3. job' = [job EXCEPT ![r] = j] /\ job[r] \notin SetupJob /\ j \in Jobs \ SetupJob
      BY <1>4, <1>a, <2>1, <2>2, ContinueJob, JobsApart DEF InsertFromLink, Jobs
    <2>4. PICK i \in Intents : InsertIntent(job[r].ref, job[r].link, i)
      BY <1>4 DEF InsertFromLink
    <2>5. UNCHANGED <<child, shown, cut>>
      BY <1>4 DEF InsertFromLink
    <2> HIDE DEF j
    <2>6. QED BY <2>1, <2>3, <2>4, <2>5, WatchingByInsert
  <1>5. ASSUME NEW r \in Requests, CountUse(r) \/ SaveUpdate(r) PROVE Watching'
    <2>1. job[r] \in LinkJob \union UpdateJob
      BY <1>5, <1>a, JobAt DEF CountUse, SaveUpdate
    <2>2. job' = [job EXCEPT ![r] = Done] /\ job[r] \notin SetupJob
      BY <1>5, <1>a, <2>1, FinishJob, JobsApart DEF CountUse, SaveUpdate
    <2>3. UNCHANGED <<intent, child, shown, cut>>
      BY <1>5 DEF CountUse, SaveUpdate
    <2>4. QED BY <1>a, <2>2, <2>3, WatchingQuiet
  <1>6. ASSUME NEW r \in Requests, At(r, "setup", "wallet"), NewWallet(r, job[r].net),
               UNCHANGED <<intent, shown, cut>>
        PROVE  Watching'
    <2>1. PICK w \in ChildWallets : /\ child[w] = None
                                    /\ child' = [child EXCEPT ![w] = job[r].net]
                                    /\ GotAddress(r, w)
      BY <1>6 DEF NewWallet
    <2>2. child'[w] = job[r].net /\ WalletsKept
      BY <2>1 DEF Types, RowsOK, WalletsKept
    <2>3. QED BY <1>6, <2>1, <2>2, WatchingByAddress
  <1>7. ASSUME NEW r \in Requests, CreateEvmWallet(r) PROVE Watching'
    <2>1. CASE PaidBefore(job[r].net) = {}
      BY <1>6, <1>7, <2>1 DEF CreateEvmWallet
    <2>2. CASE PaidBefore(job[r].net) # {}
      <3>1. PICK w \in PaidBefore(job[r].net) : GotAddress(r, w)
        BY <1>7, <2>2 DEF CreateEvmWallet
      <3>2. w \in ChildWallets /\ child[w] = job[r].net
        BY <3>1 DEF PaidBefore
      <3>3. At(r, "setup", "wallet") /\ UNCHANGED <<intent, shown, cut, child>>
        BY <1>7, <2>2 DEF CreateEvmWallet
      <3>4. QED BY <3>1, <3>2, <3>3, WatchingByAddress DEF WalletsKept
    <2>3. QED BY <2>1, <2>2
  <1>8. ASSUME NEW r \in Requests, CreateKeyWallet(r) PROVE Watching'
    BY <1>6, <1>8 DEF CreateKeyWallet
  <1>9. ASSUME NEW r \in Requests, CreateInvoice(r) PROVE Watching'
    BY <1>9, ChildNamesAssumption, WatchingByAddress DEF CreateInvoice, checkoutVars, WalletsKept
  <1>10. ASSUME NEW r \in Requests, SaveSetup(r) PROVE Watching'
    BY <1>10, WatchingBySave
  <1>11. ASSUME NEW r \in Requests, AnswerSetup(r) \/ RefuseSetup(r) PROVE Watching'
    <2>1. /\ job[r] \in SetupJob /\ job[r].at = "answer"
          /\ job' = [job EXCEPT ![r] = Done] /\ UNCHANGED <<intent, child>>
      BY <1>11, <1>a, JobAt, FinishJob DEF AnswerSetup, RefuseSetup
    <2>2. QED BY <1>11, <2>1, WatchingByEnd DEF AnswerSetup, RefuseSetup
  <1>12. ASSUME NEW r \in Requests, BreakRequest(r) PROVE Watching'
    <2>1. job' = [job EXCEPT ![r] = Done] /\ UNCHANGED <<intent, child, shown>>
      BY <1>12, <1>a, BreakJob DEF BreakRequest
    <2>2. CASE job[r] \in SetupJob
      <3>1. At(r, "setup", "answer") <=> job[r].at = "answer"
        BY <1>12, <2>2, JobsApart DEF At, BreakRequest, Break, Running
      <3>2. QED BY <1>12, <2>1, <2>2, <3>1, WatchingByEnd DEF BreakRequest
    <2>3. CASE job[r] \notin SetupJob
      <3>1. UNCHANGED cut
        BY <1>12, <1>a, <2>3, JobAt DEF BreakRequest
      <3>2. QED BY <1>a, <2>1, <2>3, <3>1, WatchingQuiet
    <2>4. QED BY <2>2, <2>3
  <1>13. ASSUME NEW i \in Intents, CompletePayment(i) PROVE Watching'
    BY <1>13, WatchingByPayment
  <1>14. CASE UNCHANGED <<job, intent, child, shown, cut>>
    BY <1>14, WatchingStill
  <1>15. ASSUME NEW l \in Links, LinkExpires(l) PROVE Watching'
    BY <1>14, <1>15 DEF LinkExpires, requestVars
  <1>16. CASE UNCHANGED vars
    BY <1>14, <1>16 DEF vars, requestVars, checkoutVars
  <1> QED
    BY <1>1, <1>2, <1>3, <1>4, <1>5, <1>7, <1>8, <1>9, <1>10, <1>11, <1>12, <1>13, <1>15,
       <1>16, NextCases

(* Whatever overlaps and whatever fails: as long as no two setups of one   *)
(* intent are at work at once, its child wallet is on the network of its   *)
(* currency, where the poller looks for the payment, and it is the one its *)
(* customer was shown last, but for a setup between its save and its       *)
(* answer (PaymentSetupService.createPaymentSetup, createChildWallet).     *)
THEOREM PaymentsAreWatched == Spec => []PaidWhereWatched
  <1>1. Init => Watching
    <2> SUFFICES ASSUME Init PROVE Watching
      OBVIOUS
    <2>1. \A i \in Intents : Exists(i) => intent[i].wallet = None /\ intent[i].net = None
      BY NewIntentRow DEF Init, Exists
    <2>2. \A r \in Requests : job[r] \notin SetupJob /\ \A i \in Intents : ~SetsUp(r, i)
      BY NoSetup DEF Init, RequestsInit, SetsUp, Waiting
    <2>3. \A i \in Intents : shown[i] = None
      BY DEF Init
    <2>4. \A i \in Intents : Exists(i) => NetworkOfWallet(i) /\ ShownIsWatched(i)
      BY <2>1, <2>3, ChildNamesAssumption DEF NetworkOfWallet, ShownIsWatched
    <2>5. QED BY <2>2, <2>3, <2>4 DEF Watching, Watched, AddressFits
  <1>2. Watching => PaidWhereWatched
    BY DEF Watching, Watched, PaidWhereWatched, Answering
  <1>3. QED
    BY <1>1, <1>2, WatchingKept, HoldersFirst, HoldersKept, UndisturbedFirst,
       UndisturbedKept, TypesInvariance, PTL DEF Spec

-----------------------------------------------------------------------------
(* The limits of links. *)

Counting(l) == \E r \in Requests : WorksOn(r, l) /\ job[r].op = "checkout" /\ job[r].at = "count"

Lag(l) == IF Counting(l) THEN 1 ELSE 0

(* What a checkout or an update has read of its link. *)
Fresh(r, l) ==
    /\ job[r].copy.used = link[l].used
    /\ job[r].copy.status = link[l].status
    /\ job[r].copy.limit = link[l].limit

(* The count of a link lags behind its intents only between the two saves  *)
(* of a checkout, and what a checkout or an update has read is still so.   *)
Counted(l) ==
    link[l] # None =>
        /\ Cardinality(uses[l]) <= link[l].used + Lag(l)
        /\ \A r \in Requests : WorksOn(r, l) => Fresh(r, l)

Counts ==
    /\ \A l \in Links : IsFiniteSet(uses[l])
    /\ \A r \in Requests : job[r].op = "checkout" /\ job[r].at = "insert" => Usable(job[r].copy)
    /\ \A l \in Links \ disturbed : Counted(l)

LEMMA OneMoreUse ==
    ASSUME NEW S, IsFiniteSet(S), NEW i
    PROVE  /\ IsFiniteSet(S \union {i}) /\ Cardinality(S) \in Nat
           /\ Cardinality(S \union {i}) \in Nat
           /\ Cardinality(S \union {i}) <= Cardinality(S) + 1
  BY FS_AddElement, FS_CardinalityType

(* A step that leaves a link and the requests on it alone.                 *)
LEMMA CountedElsewhere ==
    ASSUME NEW l \in Links, Counted(l), uses'[l] = uses[l],
           link'[l] # None =>
              /\ link[l] # None /\ link'[l].used = link[l].used
              /\ link'[l].status = link[l].status /\ link'[l].limit = link[l].limit,
           \A r \in Requests : WorksOn(r, l)' \/ WorksOn(r, l) => job'[r] = job[r]
    PROVE  Counted(l)'
  <1>1. \A r \in Requests : WorksOn(r, l)' <=> WorksOn(r, l)
    BY DEF WorksOn
  <1>2. Lag(l)' = Lag(l)
    BY <1>1 DEF Lag, Counting
  <1>3. QED BY <1>1, <1>2 DEF Counted, Fresh

(* A step of request r that concerns link l alone.                         *)
LEMMA CountsStep ==
    ASSUME Types, Counts, [Next]_vars, NEW r \in Requests, NEW j, NEW l \in Links,
           job' = [job EXCEPT ![r] = j],
           \A x \in Links : WorksOn(r, x)' \/ WorksOn(r, x) => x = l,
           \A x \in Links \ {l} : uses'[x] = uses[x] /\ link'[x] = link[x],
           IsFiniteSet(uses'[l]),
           j.op = "checkout" /\ j.at = "insert" => Usable(j.copy),
           l \notin disturbed' => Counted(l)'
    PROVE  Counts'
  <1>1. job'[r] = j /\ OneJob(r)
    BY DEF OneJob, Types, JobsOK
  <1>2. \A x \in Links : IsFiniteSet(uses'[x])
    BY DEF Counts
  <1>3. \A x \in Requests : job'[x].op = "checkout" /\ job'[x].at = "insert"
            => Usable(job'[x].copy)
    BY <1>1 DEF OneJob, Counts
  <1>4. ASSUME NEW x \in Links \ disturbed', x # l PROVE Counted(x)'
    <2>1. Counted(x)
      BY <1>4, DisturbedGrows DEF Counts
    <2>2. \A y \in Requests : WorksOn(y, x)' \/ WorksOn(y, x) => job'[y] = job[y]
      BY <1>1, <1>4 DEF OneJob
    <2>3. QED BY <1>4, <2>1, <2>2, CountedElsewhere
  <1>5. QED BY <1>2, <1>3, <1>4 DEF Counts, Usable

(* A step of a request that has to do with no link.                        *)
LEMMA CountsQuiet ==
    ASSUME Types, Counts, [Next]_vars, NEW r \in Requests, NEW j,
           job' = [job EXCEPT ![r] = j], j.op \notin {"checkout", "update"},
           job[r].op \notin {"checkout", "update"}, UNCHANGED uses,
           \A l \in Links : link'[l] # None => link'[l] = link[l]
    PROVE  Counts'
  <1>1. job'[r] = j /\ OneJob(r)
    BY DEF OneJob, Types, JobsOK
  <1>2. \A x \in Requests : job'[x].op = "checkout" /\ job'[x].at = "insert"
            => Usable(job'[x].copy)
    BY <1>1 DEF OneJob, Counts
  <1>3. ASSUME NEW l \in Links \ disturbed' PROVE Counted(l)'
    <2>1. Counted(l)
      BY <1>3, DisturbedGrows DEF Counts
    <2>2. \A y \in Requests : WorksOn(y, l)' \/ WorksOn(y, l) => job'[y] = job[y]
      BY <1>1 DEF OneJob, WorksOn
    <2>3. QED BY <1>3, <2>1, <2>2, CountedElsewhere
  <1>4. QED BY <1>2, <1>3 DEF Counts, Usable

LEMMA LinkAlone ==
    ASSUME [Next]_vars, Undisturbed, NEW r \in Requests, NEW l \in Links \ disturbed'
    PROVE  /\ WorksOn(r, l) => \A x \in Requests \ {r} : ~WorksOn(x, l)
           /\ WorksOn(r, l)' => \A x \in Requests \ {r} : ~WorksOn(x, l)'
  BY UndisturbedKept, DisturbedGrows DEF Undisturbed

(* A checkout or an update reads a link: on one that stays undisturbed no  *)
(* other is at work, and its count does not lag behind.                    *)
LEMMA CountsRead ==
    ASSUME Types, Counts, Undisturbed, [Next]_vars, NEW r \in Requests, NEW l \in Links,
           job[r] = Waiting, NEW j \in LinkJob \union UpdateJob, job' = [job EXCEPT ![r] = j],
           j.link = l, j.copy = link[l], j.op = "checkout" => j.at = "insert" /\ Usable(j.copy),
           UNCHANGED <<link, uses>>
    PROVE  Counts'
  <1>1. job'[r] = j /\ OneJob(r) /\ j.op \in {"checkout", "update"}
    BY JobsApart DEF OneJob, Types, JobsOK
  <1>2. WorksOn(r, l)' /\ \A x \in Links : WorksOn(r, x)' \/ WorksOn(r, x) => x = l
    BY <1>1 DEF WorksOn, Waiting
  <1>3. ASSUME l \notin disturbed' PROVE Counted(l)'
    <2>1. \A x \in Requests \ {r} : ~WorksOn(x, l)' /\ ~WorksOn(x, l)
      <3>1. \A x \in Requests \ {r} : ~WorksOn(x, l)'
        BY <1>2, <1>3, LinkAlone
      <3>2. QED BY <1>1, <3>1 DEF OneJob, WorksOn
    <2>2. ~Counting(l) /\ ~Counting(l)'
      BY <1>1, <2>1 DEF Counting, WorksOn, Waiting
    <2>3. Counted(l)
      BY <1>3, DisturbedGrows DEF Counts
    <2>4. Fresh(r, l)'
      BY <1>1 DEF Fresh
    <2>5. QED BY <2>1, <2>2, <2>3, <2>4 DEF Counted, Lag
  <1>4. \A x \in Links : IsFiniteSet(uses'[x])
    BY DEF Counts
  <1>5. QED BY <1>1, <1>2, <1>3, <1>4, CountsStep

(* The intent that a checkout inserts is within the limit that it read.    *)
LEMMA InsertWithinLimit ==
    ASSUME Types, Counts, Undisturbed, [Next]_vars, NEW r \in Requests, InsertFromLink(r)
    PROVE  \E l \in Links, i \in Intents :
              /\ WorksOn(r, l) /\ job[r] \in LinkJob /\ job[r].at = "insert"
              /\ uses' = [uses EXCEPT ![l] = @ \union {i}]
              /\ IsFiniteSet(uses'[l])
              /\ l \notin disturbed' /\ link[l] # None =>
                    /\ link[l].status = "active" /\ Fresh(r, l)
                    /\ \A x \in Requests \ {r} : ~WorksOn(x, l)
                    /\ Cardinality(uses'[l]) <= link[l].used + 1
                    /\ link[l].limit = None \/ Cardinality(uses'[l]) <= link[l].limit
  <1>1. job[r] \in LinkJob /\ job[r].at = "insert" /\ job[r].op = "checkout"
    BY JobAt, JobsApart DEF InsertFromLink, Types
  <1>2. PICK l \in Links : job[r].link = l
    BY <1>1 DEF LinkJob
  <1>3. PICK i \in Intents : uses' = [uses EXCEPT ![l] = @ \union {i}]
    BY <1>2 DEF InsertFromLink
  <1>4. WorksOn(r, l)
    BY <1>1, <1>2 DEF WorksOn
  <1>5. uses'[l] = uses[l] \union {i} /\ IsFiniteSet(uses[l])
    BY <1>3 DEF Types, RowsOK, Counts
  <1>6. /\ IsFiniteSet(uses'[l])
        /\ Cardinality(uses[l]) \in Nat /\ Cardinality(uses'[l]) \in Nat
        /\ Cardinality(uses'[l]) <= Cardinality(uses[l]) + 1
    BY <1>5, OneMoreUse
  <1>7. ASSUME l \notin disturbed', link[l] # None
        PROVE  /\ link[l].status = "active" /\ Fresh(r, l)
               /\ \A x \in Requests \ {r} : ~WorksOn(x, l)
               /\ Cardinality(uses'[l]) <= link[l].used + 1
               /\ link[l].limit = None \/ Cardinality(uses'[l]) <= link[l].limit
    <2>1. link[l] \in Link
      BY <1>7 DEF Types, RowsOK
    <2>2. Counted(l)
      BY <1>7, DisturbedGrows DEF Counts
    <2>3. Fresh(r, l)
      BY <1>4, <1>7, <2>2 DEF Counted
    <2>4. \A x \in Requests \ {r} : ~WorksOn(x, l)
      BY <1>4, <1>7, LinkAlone
    <2>5. ~Counting(l)
      BY <1>1, <2>4 DEF Counting
    <2>6. Cardinality(uses[l]) <= link[l].used
      BY <1>7, <2>1, <2>2, <2>5 DEF Counted, Lag, Link
    <2>7. Usable(job[r].copy)
      BY <1>1 DEF Counts
    <2>8. /\ link[l].status = "active"
          /\ link[l].limit = None \/ link[l].used < link[l].limit
      BY <2>3, <2>7 DEF Fresh, Usable
    <2>9. link[l].used \in Nat /\ (link[l].limit = None \/ link[l].limit \in Nat)
      BY <2>1, LimitsAssumption DEF Link
    <2>10. QED BY <1>6, <2>3, <2>4, <2>6, <2>8, <2>9
  <1>8. QED BY <1>1, <1>3, <1>4, <1>6, <1>7

LEMMA CountsByInsert ==
    ASSUME Types, Counts, Undisturbed, [Next]_vars, NEW r \in Requests, InsertFromLink(r)
    PROVE  Counts'
  <1> DEFINE j == [job[r] EXCEPT !.at = "count"]
  <1>1. PICK l \in Links, i \in Intents :
              /\ WorksOn(r, l) /\ job[r] \in LinkJob /\ job[r].at = "insert"
              /\ uses' = [uses EXCEPT ![l] = @ \union {i}]
              /\ IsFiniteSet(uses'[l])
              /\ l \notin disturbed' /\ link[l] # None =>
                    /\ Fresh(r, l) /\ \A x \in Requests \ {r} : ~WorksOn(x, l)
                    /\ Cardinality(uses'[l]) <= link[l].used + 1
    BY InsertWithinLimit
  <1>2. /\ j \in LinkJob /\ j.at = "count" /\ j.link = l /\ j.copy = job[r].copy
        /\ j.op = "checkout"
    BY <1>1 DEF LinkJob, WorksOn
  <1>3. job' = [job EXCEPT ![r] = j] /\ UNCHANGED link
    BY <1>2, ContinueJob DEF InsertFromLink, Jobs, Types
  <1> HIDE DEF j
  <1>4. job'[r] = j /\ OneJob(r)
    BY <1>3 DEF OneJob, Types, JobsOK
  <1>5. WorksOn(r, l)' /\ \A x \in Links : WorksOn(r, x)' \/ WorksOn(r, x) => x = l
    BY <1>1, <1>2, <1>4 DEF WorksOn
  <1>6. ASSUME l \notin disturbed', link[l] # None
        PROVE  /\ Cardinality(uses'[l]) <= link'[l].used + Lag(l)'
               /\ \A x \in Requests : WorksOn(x, l)' => Fresh(x, l)'
    <2>1. /\ Fresh(r, l) /\ \A x \in Requests \ {r} : ~WorksOn(x, l)
          /\ Cardinality(uses'[l]) <= link[l].used + 1
      BY <1>1, <1>6
    <2>2. Lag(l)' = 1
      BY <1>2, <1>4, <1>5 DEF Lag, Counting
    <2>3. \A x \in Requests \ {r} : ~WorksOn(x, l)'
      BY <1>4, <2>1 DEF OneJob, WorksOn
    <2>4. Fresh(r, l)'
      BY <1>2, <1>3, <1>4, <2>1 DEF Fresh
    <2>5. QED BY <1>3, <2>1, <2>2, <2>3, <2>4
  <1>7. l \notin disturbed' => Counted(l)'
    BY <1>3, <1>6 DEF Counted
  <1>8. \A x \in Links \ {l} : uses'[x] = uses[x] /\ link'[x] = link[x]
    BY <1>1, <1>3 DEF Types, RowsOK
  <1>9. QED BY <1>1, <1>2, <1>3, <1>5, <1>7, <1>8, CountsStep

(* A save writes the copy of a row that is still as it was read, so that a *)
(* count makes up for the intent, and an update leaves the count alone.    *)
LEMMA CountsBySave ==
    ASSUME Types, Counts, Undisturbed, [Next]_vars, NEW r \in Requests,
           CountUse(r) \/ SaveUpdate(r)
    PROVE  Counts'
  <1>1. job[r] \in LinkJob \union UpdateJob /\ (CountUse(r) => job[r] \in LinkJob)
        /\ (SaveUpdate(r) => job[r] \in UpdateJob)
    BY JobAt DEF Types, CountUse, SaveUpdate
  <1>2. PICK l \in Links : job[r].link = l
    BY <1>1 DEF LinkJob, UpdateJob
  <1>3. job[r].copy \in Link /\ WorksOn(r, l)
    BY <1>1, <1>2, JobSets DEF LinkJob, UpdateJob
  <1>4. job' = [job EXCEPT ![r] = Done] /\ UNCHANGED uses
    BY FinishJob DEF Types, CountUse, SaveUpdate
  <1>5. job'[r] = Done /\ OneJob(r)
    BY <1>4 DEF OneJob, Types, JobsOK
  <1>6. \A x \in Links : WorksOn(r, x)' \/ WorksOn(r, x) => x = l
    BY <1>2, <1>5 DEF WorksOn, Done
  <1>7. PICK new \in Link : /\ SaveLink(l, job[r].copy, new)
                            /\ new.used = job[r].copy.used + (IF CountUse(r) THEN 1 ELSE 0)
    <2>1. CASE CountUse(r)
      <3>1. Used(job[r].copy) \in Link /\ Used(job[r].copy).used = job[r].copy.used + 1
        BY <1>3, UsedLink
      <3>2. QED BY <1>2, <2>1, <3>1 DEF CountUse
    <2>2. CASE ~CountUse(r)
      <3>1. /\ Patched(job[r].copy, job[r].patch) \in Link
            /\ Patched(job[r].copy, job[r].patch).used = job[r].copy.used
        BY <1>1, <1>3, <2>2, PatchedLink DEF UpdateJob
      <3>2. job[r].copy.used + 0 = job[r].copy.used
        BY <1>3 DEF Link
      <3>3. QED BY <1>2, <2>2, <3>1, <3>2 DEF SaveUpdate
    <2>3. QED BY <2>1, <2>2
  <1>8. \A x \in Links \ {l} : uses'[x] = uses[x] /\ link'[x] = link[x]
    BY <1>4, <1>7 DEF SaveLink, Types, RowsOK
  <1>9. ASSUME l \notin disturbed', link'[l] # None
        PROVE  /\ Cardinality(uses'[l]) <= link'[l].used + Lag(l)'
               /\ \A x \in Requests : WorksOn(x, l)' => Fresh(x, l)'
    <2>1. link[l] # None /\ link[l] \in Link /\ link'[l] = Saved(link[l], job[r].copy, new)
      BY <1>7, <1>9 DEF SaveLink, Types, RowsOK
    <2>2. \A x \in Requests \ {r} : ~WorksOn(x, l)
      BY <1>3, <1>9, LinkAlone
    <2>3. Counted(l) /\ Fresh(r, l)
      BY <1>3, <1>9, <2>1, DisturbedGrows DEF Counts, Counted
    <2>4. Counting(l) <=> CountUse(r)
      <3>1. CountUse(r) => job[r].op = "checkout" /\ job[r].at = "count"
        BY DEF CountUse, At
      <3>2. SaveUpdate(r) => job[r].op = "update"
        BY DEF SaveUpdate, At
      <3>3. QED BY <1>3, <2>2, <3>1, <3>2 DEF Counting
    <2>5. \A x \in Requests : ~WorksOn(x, l)'
      BY <1>5, <2>2 DEF OneJob, WorksOn, Done
    <2>6. Lag(l)' = 0
      BY <2>5 DEF Lag, Counting
    <2>7. link[l].used \in Nat /\ new.used \in Nat /\ Cardinality(uses[l]) \in Nat
      BY <2>1, FS_CardinalityType DEF Link, Counts
    <2>8. link'[l].used = link[l].used + Lag(l)
      <3>1. link'[l].used = IF new.used = job[r].copy.used THEN link[l].used ELSE new.used
        BY <1>3, <2>1, SavedLink
      <3>2. job[r].copy.used = link[l].used
        BY <2>3 DEF Fresh
      <3>3. QED BY <1>7, <2>4, <2>7, <3>1, <3>2 DEF Lag
    <2>9. Cardinality(uses[l]) <= link[l].used + Lag(l)
      BY <2>1, <2>3 DEF Counted
    <2>10. QED BY <1>4, <2>5, <2>6, <2>7, <2>8, <2>9 DEF Lag
  <1>10. l \notin disturbed' => Counted(l)'
    BY <1>9 DEF Counted
  <1>11. IsFiniteSet(uses'[l]) /\ Done.op = "done"
    BY <1>4 DEF Counts, Done
  <1>12. QED BY <1>4, <1>6, <1>8, <1>10, <1>11, CountsStep

(* A checkout or an update that breaks: it has written nothing yet, or its *)
(* link is disturbed for good.                                             *)
LEMMA CountsByBreak ==
    ASSUME Types, Counts, Undisturbed, [Next]_vars, NEW r \in Requests, BreakRequest(r)
    PROVE  Counts'
  <1>1. /\ job' = [job EXCEPT ![r] = Done] /\ UNCHANGED <<link, uses>>
        /\ r \in Running /\ faults' = faults + 1 /\ Done.op = "done"
    BY BreakJob DEF BreakRequest, Types, Break, Done
  <1>2. job'[r] = Done /\ OneJob(r)
    BY <1>1 DEF OneJob, Types, JobsOK
  <1>3. CASE job[r] \in LinkJob \union UpdateJob
    <2>1. PICK l \in Links : job[r].link = l
      BY <1>3 DEF LinkJob, UpdateJob
    <2>2. WorksOn(r, l) /\ \A x \in Links : WorksOn(r, x)' \/ WorksOn(r, x) => x = l
      BY <1>1, <1>2, <1>3, <2>1, JobSets DEF WorksOn
    <2>3. ASSUME l \notin disturbed' PROVE Counted(l)'
      <3>1. \A x \in Requests \ {r} : ~WorksOn(x, l)
        BY <2>2, <2>3, LinkAlone
      <3>2. Counted(l)
        BY <2>3, DisturbedGrows DEF Counts
      <3>3. ~(job[r].op = "checkout" /\ job[r].at = "count")
        <4>1. SUFFICES ASSUME job[r].op = "checkout", job[r].at = "count"
                       PROVE  l \in disturbed'
          BY <2>3
        <4>2. At(r, "checkout", "count")
          BY <1>1, <4>1 DEF At, Running
        <4>3. faults' # faults
          BY <1>1 DEF Types, JobsOK
        <4>4. l \in Uncounted
          BY <1>2, <2>1, <4>2, <4>3 DEF Uncounted
        <4>5. Next
          BY <4>3 DEF vars, requestVars
        <4>6. QED BY <4>4, <4>5, DisturbedGrows
      <3>4. ~Counting(l) /\ \A x \in Requests : ~WorksOn(x, l)'
        BY <1>1, <1>2, <3>1, <3>3 DEF Counting, WorksOn, OneJob
      <3>5. ~Counting(l)'
        BY <3>4 DEF Counting
      <3>6. QED BY <1>1, <3>2, <3>4, <3>5 DEF Counted, Lag
    <2>4. IsFiniteSet(uses'[l])
      BY <1>1 DEF Counts
    <2>5. QED BY <1>1, <2>2, <2>3, <2>4, CountsStep
  <1>4. CASE job[r] \notin LinkJob \union UpdateJob
    <2>1. job[r].op \notin {"checkout", "update"}
      BY <1>4, JobSets
    <2>2. QED BY <1>1, <2>1, CountsQuiet
  <1>5. QED BY <1>3, <1>4

LEMMA CountsKept == Types /\ Undisturbed /\ Counts /\ [Next]_vars => Counts'
  <1> SUFFICES ASSUME Types, Undisturbed, Counts, [Next]_vars PROVE Counts'
    OBVIOUS
  <1>a. JobsOK /\ RowsOK /\ \A l \in Links : link[l] # None => link[l] \in Link
    BY DEF Types, RowsOK
  <1>b. Waiting.op = "waiting" /\ Done.op = "done" /\ Done \in Jobs
    BY DEF Waiting, Done, Jobs
  <1>c. \A j \in CreateJob \union SetupJob : j \in Jobs /\ j.op \notin {"checkout", "update"}
    BY JobsApart DEF Jobs
  <1>1. ASSUME NEW r \in Requests, NEW j \in Jobs, Begin(r, j), j.op \notin {"checkout", "update"},
               UNCHANGED uses, \A l \in Links : link'[l] # None => link'[l] = link[l]
        PROVE  Counts'
    BY <1>1, <1>a, <1>b, BeginJob, CountsQuiet
  <1>2. ASSUME NEW r \in Requests, NEW ref \in References, CreateIntent(r, ref) PROVE Counts'
    <2>1. [op |-> "create", at |-> "insert", ref |-> ref] \in CreateJob
      BY DEF CreateJob
    <2>2. PICK j \in {Done} \union CreateJob : Begin(r, j)
      BY <1>2, <2>1 DEF CreateIntent
    <2>3. QED BY <1>1, <1>2, <1>b, <1>c, <2>2 DEF CreateIntent, checkoutVars
  <1>3. ASSUME NEW r \in Requests, NEW l \in Links, NEW ref \in References,
               CheckoutLink(r, l, ref)
        PROVE  Counts'
    <2> DEFINE j == [op |-> "checkout", at |-> "insert", link |-> l, copy |-> link[l],
                     ref |-> ref]
    <2>1. CASE Usable(link[l])
      <3>1. link[l] # None /\ Begin(r, j) /\ UNCHANGED <<link, uses>>
        BY <1>3, <2>1 DEF CheckoutLink, checkoutVars
      <3>2. j \in LinkJob /\ j.link = l /\ j.copy = link[l] /\ j.at = "insert"
        BY <1>a, <3>1 DEF LinkJob
      <3> HIDE DEF j
      <3>3. job' = [job EXCEPT ![r] = j] /\ job[r] = Waiting
        BY <1>a, <3>1, <3>2, BeginJob DEF Jobs
      <3>4. QED BY <2>1, <3>1, <3>2, <3>3, CountsRead
    <2>2. CASE ~Usable(link[l])
      BY <1>1, <1>3, <1>b, <2>2 DEF CheckoutLink, checkoutVars
    <2>3. QED BY <2>1, <2>2
  <1>4. ASSUME NEW r \in Requests, NEW l \in Links, NEW patch \in Patches,
               UpdateLink(r, l, patch)
        PROVE  Counts'
    <2> DEFINE j == [op |-> "update", at |-> "save", link |-> l, copy |-> link[l],
                     patch |-> patch]
    <2>1. link[l] # None /\ Begin(r, j) /\ UNCHANGED <<link, uses>>
      BY <1>4 DEF UpdateLink, checkoutVars
    <2>2. j \in UpdateJob /\ j.link = l /\ j.copy = link[l] /\ j.op = "update"
      BY <1>a, <2>1 DEF UpdateJob
    <2> HIDE DEF j
    <2>3. job' = [job EXCEPT ![r] = j] /\ job[r] = Waiting
      BY <1>a, <2>1, <2>2, BeginJob DEF Jobs
    <2>4. QED BY <2>1, <2>2, <2>3, CountsRead
  <1>5. ASSUME NEW r \in Requests, NEW l \in Links, DestroyLink(r, l) PROVE Counts'
    <2>1. \A x \in Links : link'[x] # None => link'[x] = link[x]
      BY <1>5, <1>a DEF DestroyLink, RowsOK
    <2>2. QED BY <1>1, <1>5, <1>b, <2>1 DEF DestroyLink
  <1>6. ASSUME NEW r \in Requests, NEW i \in Intents, NEW n \in Networks,
               NEW by \in {"link", "merchant"}, Exists(i), Setup(r, i, n, by),
               UNCHANGED checkoutVars
        PROVE  Counts'
    <2> DEFINE j == [op |-> "setup", at |-> "wallet", by |-> by, intent |-> i, net |-> n,
                     copy |-> intent[i], address |-> None]
    <2>1. j \in SetupJob
      BY <1>6, <1>a DEF SetupJob, Exists, RowsOK
    <2>2. Begin(r, j)
      BY <1>6 DEF Setup
    <2> HIDE DEF j
    <2>3. QED BY <1>1, <1>6, <1>c, <2>1, <2>2 DEF checkoutVars
  <1>7. ASSUME NEW r \in Requests, NEW j, job[r] \in CreateJob \union SetupJob,
               job' = [job EXCEPT ![r] = j], j.op \notin {"checkout", "update"},
               UNCHANGED <<link, uses>>
        PROVE  Counts'
    BY <1>7, <1>c, CountsQuiet
  <1>8. ASSUME NEW r \in Requests, InsertCreated(r) \/ AnswerSetup(r) \/ RefuseSetup(r)
        PROVE  Counts'
    <2>1. job[r] \in CreateJob \union SetupJob
      BY <1>8, <1>a, JobAt DEF InsertCreated, AnswerSetup, RefuseSetup
    <2>2. job' = [job EXCEPT ![r] = Done] /\ UNCHANGED <<link, uses>>
      BY <1>8, <1>a, FinishJob DEF InsertCreated, AnswerSetup, RefuseSetup
    <2>3. QED BY <1>7, <1>b, <2>1, <2>2
  <1>9. ASSUME NEW r \in Requests,
               CreateEvmWallet(r) \/ CreateKeyWallet(r) \/ CreateInvoice(r) \/ SaveSetup(r)
        PROVE  Counts'
    <2>1. job[r] \in SetupJob
      BY <1>9, <1>a, JobAt DEF CreateEvmWallet, CreateKeyWallet, CreateInvoice, SaveSetup
    <2>2. CASE SaveSetup(r)
      <3>1. [job[r] EXCEPT !.at = "answer"] \in SetupJob
        BY <2>1 DEF SetupJob
      <3>2. job' = [job EXCEPT ![r] = [job[r] EXCEPT !.at = "answer"]]
        BY <1>a, <1>c, <2>2, <3>1, ContinueJob DEF SaveSetup
      <3>3. QED BY <1>7, <1>c, <2>1, <2>2, <3>1, <3>2 DEF SaveSetup
    <2>3. CASE CreateEvmWallet(r) \/ CreateKeyWallet(r) \/ CreateInvoice(r)
      <3>1. PICK a \in ChildWallets \union {Invoice} : GotAddress(r, a)
        BY <2>3 DEF CreateEvmWallet, CreateKeyWallet, CreateInvoice, NewWallet, PaidBefore
      <3>2. [job[r] EXCEPT !.at = "save", !.address = a] \in SetupJob
        BY <2>1 DEF SetupJob
      <3>3. job' = [job EXCEPT ![r] = [job[r] EXCEPT !.at = "save", !.address = a]]
        BY <1>a, <1>c, <3>1, <3>2, ContinueJob DEF GotAddress
      <3>4. UNCHANGED <<link, uses>>
        BY <2>3 DEF CreateEvmWallet, CreateKeyWallet, CreateInvoice, checkoutVars
      <3>5. QED BY <1>7, <1>c, <2>1, <3>2, <3>3, <3>4
    <2>4. QED BY <1>9, <2>2, <2>3
  <1>10. ASSUME NEW r \in Requests,
                InsertFromLink(r) \/ CountUse(r) \/ SaveUpdate(r) \/ BreakRequest(r)
         PROVE  Counts'
    BY <1>10, CountsByInsert, CountsBySave, CountsByBreak
  <1>11. ASSUME UNCHANGED <<job, uses>>,
                \A l \in Links : link'[l] # None =>
                    /\ link[l] # None /\ link'[l].used = link[l].used
                    /\ link'[l].status = link[l].status /\ link'[l].limit = link[l].limit
         PROVE  Counts'
    <2>1. \A l \in Links \ disturbed' : Counted(l)'
      BY <1>11, CountedElsewhere, DisturbedGrows DEF Counts
    <2>2. QED BY <1>11, <2>1 DEF Counts, Usable
  <1>12. ASSUME NEW l \in Links, LinkExpires(l) PROVE Counts'
    <2>1. /\ UNCHANGED <<job, uses>> /\ link' = [link EXCEPT ![l].expired = TRUE]
          /\ link[l] \in Link
      BY <1>12, <1>a DEF LinkExpires, requestVars
    <2>2. \A x \in Links : link'[x] # None =>
              /\ link[x] # None /\ link'[x].used = link[x].used
              /\ link'[x].status = link[x].status /\ link'[x].limit = link[x].limit
      BY <1>12, <1>a, <2>1 DEF RowsOK, Link, LinkExpires
    <2>3. QED BY <1>11, <2>1, <2>2
  <1>13. ASSUME NEW i \in Intents, CompletePayment(i) PROVE Counts'
    BY <1>11, <1>13 DEF CompletePayment, requestVars
  <1>14. CASE UNCHANGED vars
    BY <1>11, <1>14 DEF vars, requestVars, checkoutVars
  <1> QED
    BY <1>2, <1>3, <1>4, <1>5, <1>6, <1>8, <1>9, <1>10, <1>12, <1>13, <1>14, NextCases

(* A link starts no payment from a checkout that read it as expired, and   *)
(* as long as no two handlers work on it at once and no checkout breaks    *)
(* before its count, only payments while it is active and no more of them  *)
(* than its limit says, whatever the merchant does to it in between        *)
(* (PaymentLinkController.checkout saves the counter after the intent).    *)
THEOREM LinksKeepTheirLimit == Spec => CheckoutWithinLimit
  <1> DEFINE Within == \A l \in Links : uses'[l] # uses[l] =>
        /\ \E r \in Requests : /\ WorksOn(r, l) /\ job'[r] # job[r]
                               /\ ~job[r].copy.expired
        /\ l \in disturbed' \/ link[l] = None \/
            /\ link[l].status = "active"
            /\ link[l].limit = None \/ Cardinality(uses'[l]) <= link[l].limit
  <1>1. Init => Counts
    <2> SUFFICES ASSUME Init PROVE Counts
      OBVIOUS
    <2>1. \A r \in Requests : job[r].op = "waiting"
      BY DEF Init, RequestsInit, Waiting
    <2>2. \A l \in Links : uses[l] = {} /\ link[l].used = 0
      BY DEF Init, NewLink
    <2>3. IsFiniteSet({}) /\ Cardinality({}) = 0
      BY FS_EmptySet
    <2>4. \A l \in Links : Lag(l) = 0 /\ \A r \in Requests : ~WorksOn(r, l)
      BY <2>1 DEF Lag, Counting, WorksOn
    <2>5. \A l \in Links : IsFiniteSet(uses[l]) /\ Cardinality(uses[l]) = 0
      BY <2>2, <2>3, Zenon
    <2>6. QED BY <2>1, <2>2, <2>4, <2>5 DEF Counts, Counted
  <1>2. Types /\ Undisturbed /\ Counts /\ [Next]_vars => [Within]_vars
    <2> SUFFICES ASSUME Types, Undisturbed, Counts, [Next]_vars,
                        NEW l \in Links, uses'[l] # uses[l]
                 PROVE  /\ \E r \in Requests : /\ WorksOn(r, l) /\ job'[r] # job[r]
                                               /\ ~job[r].copy.expired
                        /\ l \in disturbed' \/ link[l] = None \/
                            /\ link[l].status = "active"
                            /\ link[l].limit = None \/ Cardinality(uses'[l]) <= link[l].limit
      OBVIOUS
    <2>1. PICK r \in Requests : InsertFromLink(r)
      <3>1. ASSUME NEW r \in Requests, InsertFromLink(r)
            PROVE  \E x \in Requests : InsertFromLink(x)
        BY <3>1
      <3>2. ASSUME NEW r \in Requests,
                   \/ \E ref \in References : CreateIntent(r, ref)
                   \/ \E x \in Links, ref \in References : CheckoutLink(r, x, ref)
                   \/ \E x \in Links, patch \in Patches : UpdateLink(r, x, patch)
                   \/ \E x \in Links : DestroyLink(r, x)
                   \/ InsertCreated(r) \/ CountUse(r) \/ SaveUpdate(r) \/ SaveSetup(r)
                   \/ AnswerSetup(r) \/ RefuseSetup(r) \/ BreakRequest(r)
            PROVE  FALSE
        BY <3>2 DEF CreateIntent, CheckoutLink, UpdateLink, DestroyLink, InsertCreated,
              CountUse, SaveUpdate, SaveSetup, AnswerSetup, RefuseSetup, BreakRequest,
              checkoutVars
      <3>3. ASSUME NEW r \in Requests,
                   CreateEvmWallet(r) \/ CreateKeyWallet(r) \/ CreateInvoice(r)
            PROVE  FALSE
        BY <3>3 DEF CreateEvmWallet, CreateKeyWallet, CreateInvoice, checkoutVars
      <3>4. ASSUME UNCHANGED checkoutVars \/ UNCHANGED vars PROVE FALSE
        BY <3>4 DEF vars, checkoutVars
      <3>5. ASSUME NEW x \in Links, LinkExpires(x) PROVE FALSE
        BY <3>5 DEF LinkExpires
      <3>6. ASSUME NEW i \in Intents, CompletePayment(i) PROVE FALSE
        BY <3>6 DEF CompletePayment
      <3>7. QED BY <3>1, <3>2, <3>3, <3>4, <3>5, <3>6, NextCases
    <2>2. PICK x \in Links, i \in Intents :
              /\ WorksOn(r, x) /\ job[r] \in LinkJob /\ job[r].at = "insert"
              /\ uses' = [uses EXCEPT ![x] = @ \union {i}]
              /\ x \notin disturbed' /\ link[x] # None =>
                    /\ link[x].status = "active"
                    /\ link[x].limit = None \/ Cardinality(uses'[x]) <= link[x].limit
      BY <2>1, InsertWithinLimit
    <2>3. x = l
      BY <2>2 DEF Types, RowsOK
    <2>4. ~job[r].copy.expired
      <3>1. job[r].op = "checkout"
        BY <2>2, JobSets
      <3>2. QED BY <2>2, <3>1 DEF Counts, Usable
    <2>5. [job[r] EXCEPT !.at = "count"] \in LinkJob
      BY <2>2 DEF LinkJob
    <2>6. job'[r].at = "count"
      BY <2>1, <2>2, <2>5, ContinueJob DEF InsertFromLink, Types, JobsOK, Jobs, LinkJob
    <2>7. QED BY <2>2, <2>3, <2>4, <2>6
  <1>3. QED
    BY <1>1, <1>2, CountsKept, UndisturbedFirst, UndisturbedKept, TypesInvariance, PTL
       DEF Spec, CheckoutWithinLimit
=============================================================================
