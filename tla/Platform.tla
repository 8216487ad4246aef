------------------------------- MODULE Platform -------------------------------
(***************************************************************************)
(* Accounts on the platform: wallets that sign in (Identities.tla), the    *)
(* businesses with their settings (Business.tla), passwords and sessions   *)
(* (Credentials.tla), and how they and their customers are told of a       *)
(* payment (Notices.tla), served by one process.                           *)
(***************************************************************************)
EXTENDS Identities, Credentials, Notices

vars == <<requestVars, identityVars, businessVars, credentialVars, noticeVars>>

Init == RequestsInit /\ IdentityInit /\ BusinessInit /\ CredentialInit /\ NoticeInit

BreakRequest(r) ==
    Break(r) /\ UNCHANGED <<identityVars, businessVars, credentialVars, noticeVars>>

Next ==
    \/ IdentityNext /\ UNCHANGED <<businessVars, credentialVars, noticeVars>>
    \/ BusinessNext /\ UNCHANGED <<identityVars, credentialVars, noticeVars>>
    \/ CredentialNext /\ UNCHANGED <<identityVars, noticeVars>>
    \/ NoticeNext /\ UNCHANGED <<identityVars, credentialVars>>
    \/ \E r \in Requests : BreakRequest(r)

Spec == Init /\ [][Next]_vars

(* The rows keep their types. *)
TypeOK == IdentityTypes /\ BusinessTypes /\ CredentialTypes /\ NoticeTypes

(* A signed challenge signs in once, and a provisional account can be      *)
(* signed in to again.                                                     *)
SignInWorks == ChallengeUsedOnce /\ ProvisionalHasIdentity

(* One at a time: a wallet stays with its account and signs in to that     *)
(* alone, and a password does not sign in to an account that is blocked.   *)
(* (A wallet does: verify does not ask.)                                   *)
SignInHolds == IdentityKeepsOwner /\ WalletSignsInToOwner /\ LoginRefusesBlocked

(* A business has all that its signup, its settings and its keys consist   *)
(* of, from one request each, and live keys only once it was verified.     *)
BusinessIsWhole ==
    SignupIsComplete /\ KeysMatch /\ ShownKeyWorks /\ LiveKeyWasVerified /\ OnePayoutDetail

(* Merchant and customer are told of a payment: its events go to every     *)
(* page of the merchant that is connected, the webhook is called until it  *)
(* is delivered or given up, and the customer's stream says that it is     *)
(* over only when it is, and then ends if a poll brought the news.         *)
PaymentIsTold == ConnectedAreTold /\ CalledUntilDelivered /\ StreamEndsWhenPaid
=============================================================================
