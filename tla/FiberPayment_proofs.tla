------------------------- MODULE FiberPayment_proofs -------------------------
(***************************************************************************)
(* The type invariant of FiberPayment.tla, that nothing is taken for paid  *)
(* without the node, and that settling one at a time would settle once.    *)
(***************************************************************************)
EXTENDS FiberPayment, TLAPS

(* The actions, one by one. *)
LEMMA NextCases ==
    ASSUME Next
    PROVE  \/ \E i \in Intents : PayInvoice(i)
           \/ \E i \in Intents : PassHour(i)
           \/ \E k \in Checkers, i \in Intents : CheckInvoiceStatus(k, i)
           \/ \E k \in Checkers :
                \/ SyncInvoices(k)
                \/ PickInvoice(k)
                \/ MarkExpired(k)
                \/ AskNode(k)
                \/ MarkPaid(k)
                \/ ReadIntent(k)
                \/ SaveAwaiting(k)
                \/ FailCheck(k)
           \/ CreditWallet
           \/ \E s \in Settlers :
                \/ ReconcileFiber(s)
                \/ ReadBusinessWallet(s)
                \/ SaveBusinessWallet(s)
                \/ CommitSettlement(s)
                \/ FailSettlement(s)
  BY DEF Next, CheckerStep, SettlerStep

LEMMA ValueType == Value \in Nat
  BY DEF Value

(* Every variable keeps its type: FiberInvoiceService, settleFiberPayment  *)
(* and the reconciliation command.                                         *)
THEOREM TypeCorrect == Spec => []TypeOK
  <1>1. Init => TypeOK
    BY DEF Init, TypeOK
  <1>2. TypeOK /\ [Next]_vars => TypeOK'
    <2> SUFFICES ASSUME TypeOK, [Next]_vars PROVE TypeOK'
      OBVIOUS
    <2> USE DEF TypeOK, CGoto, SGoto, CNext, invoiceVars, checkerVars, walletVars, settlerVars, seriesVars
    <2>1. ASSUME NEW i \in Intents, PayInvoice(i) PROVE TypeOK'
      BY <2>1 DEF PayInvoice
    <2>2. ASSUME NEW i \in Intents, PassHour(i) PROVE TypeOK'
      BY <2>2 DEF PassHour
    <2>3. ASSUME NEW k \in Checkers, NEW i \in Intents, CheckInvoiceStatus(k, i) PROVE TypeOK'
      BY <2>3 DEF CheckInvoiceStatus
    <2>4. ASSUME NEW k \in Checkers, SyncInvoices(k) PROVE TypeOK'
      BY <2>4 DEF SyncInvoices
    <2>5. ASSUME NEW k \in Checkers, PickInvoice(k) PROVE TypeOK'
      BY <2>5 DEF PickInvoice
    <2>6. ASSUME NEW k \in Checkers, MarkExpired(k) PROVE TypeOK'
      BY <2>6 DEF MarkExpired
    <2>7. ASSUME NEW k \in Checkers, AskNode(k) PROVE TypeOK'
      BY <2>7 DEF AskNode
    <2>8. ASSUME NEW k \in Checkers, MarkPaid(k) PROVE TypeOK'
      BY <2>8 DEF MarkPaid
    <2>9. ASSUME NEW k \in Checkers, ReadIntent(k) PROVE TypeOK'
      BY <2>9 DEF ReadIntent, AfterConfirm
    <2>10. ASSUME NEW k \in Checkers, SaveAwaiting(k) PROVE TypeOK'
      BY <2>10 DEF SaveAwaiting, AfterConfirm
    <2>11. ASSUME NEW k \in Checkers, FailCheck(k) PROVE TypeOK'
      BY <2>11 DEF FailCheck
    <2>12. CASE CreditWallet
      BY <2>12 DEF CreditWallet
    <2>13. ASSUME NEW s \in Settlers, ReconcileFiber(s) PROVE TypeOK'
      BY <2>13 DEF ReconcileFiber
    <2>14. ASSUME NEW s \in Settlers, ReadBusinessWallet(s) PROVE TypeOK'
      BY <2>14 DEF ReadBusinessWallet
    <2>15. ASSUME NEW s \in Settlers, SaveBusinessWallet(s) PROVE TypeOK'
      BY <2>15 DEF SaveBusinessWallet
    <2>16. ASSUME NEW s \in Settlers, CommitSettlement(s) PROVE TypeOK'
      <3>1. balance' \in Nat /\ ledgerSum' \in Nat
        BY <2>16, ValueType DEF CommitSettlement, NewBalance
      <3>2. QED BY <2>16, <3>1 DEF CommitSettlement
    <2>17. ASSUME NEW s \in Settlers, FailSettlement(s) PROVE TypeOK'
      BY <2>17 DEF FailSettlement
    <2>18. CASE UNCHANGED vars
      BY <2>18 DEF vars
    <2>19. QED
      BY <2>1, <2>2, <2>3, <2>4, <2>5, <2>6, <2>7, <2>8, <2>9, <2>10, <2>11, <2>12,
         <2>13, <2>14, <2>15, <2>16, <2>17, <2>18, NextCases
  <1>3. QED
    BY <1>1, <1>2, PTL DEF Spec

(* A checker past the node's answer, and a settler past the invoice's      *)
(* status, work on a payment the node confirmed.                           *)
GenuineInv ==
    /\ PaidIsGenuine
    /\ \A k \in Checkers :
         cpc[k] \in {"mark", "markTwice", "confirm", "confirmTwice", "await", "awaitTwice"}
            => nodePaid[ccur[k]]
    /\ \A s \in Settlers : spc[s] # "idle" => nodePaid[scur[s]]

(* An invoice marked paid, an intent taken for paid and a settlement go    *)
(* back to a payment the node confirmed (FiberInvoiceService lines 58-138).*)
THEOREM PaidAlwaysGenuine == Spec => []PaidIsGenuine
  <1>1. Init => GenuineInv
    <2> SUFFICES ASSUME Init PROVE GenuineInv
      OBVIOUS
    <2>1. ASSUME NEW i \in Intents,
                 invoice[i] = "paid" \/ status[i] # "created" \/ lines[i] > 0
          PROVE  nodePaid[i]
      <3>1. i \in Historical
        BY <2>1 DEF Init
      <3>2. nodePaid[i] = (i \in Historical)
        BY Zenon DEF Init
      <3>3. QED BY <3>1, <3>2
    <2>2. QED BY <2>1 DEF Init, GenuineInv, PaidIsGenuine
  <1>2. TypeOK /\ GenuineInv /\ [Next]_vars => GenuineInv'
    <2> SUFFICES ASSUME TypeOK, GenuineInv, [Next]_vars PROVE GenuineInv'
      OBVIOUS
    <2> USE DEF TypeOK, GenuineInv, PaidIsGenuine, CGoto, SGoto, CNext, invoiceVars,
                checkerVars, walletVars, settlerVars, seriesVars
    <2>1. ASSUME NEW i \in Intents, PayInvoice(i) PROVE GenuineInv'
      BY <2>1 DEF PayInvoice
    <2>2. ASSUME NEW i \in Intents, PassHour(i) PROVE GenuineInv'
      BY <2>2 DEF PassHour
    <2>3. ASSUME NEW k \in Checkers, NEW i \in Intents, CheckInvoiceStatus(k, i)
          PROVE  GenuineInv'
      BY <2>3 DEF CheckInvoiceStatus
    <2>4. ASSUME NEW k \in Checkers, SyncInvoices(k) PROVE GenuineInv'
      BY <2>4 DEF SyncInvoices
    <2>5. ASSUME NEW k \in Checkers, PickInvoice(k) PROVE GenuineInv'
      BY <2>5 DEF PickInvoice
    <2>6. ASSUME NEW k \in Checkers, MarkExpired(k) PROVE GenuineInv'
      BY <2>6 DEF MarkExpired
    <2>7. ASSUME NEW k \in Checkers, AskNode(k) PROVE GenuineInv'
      BY <2>7 DEF AskNode, KnownPaid
    <2>8. ASSUME NEW k \in Checkers, MarkPaid(k) PROVE GenuineInv'
      BY <2>8 DEF MarkPaid
    <2>9. ASSUME NEW k \in Checkers, ReadIntent(k) PROVE GenuineInv'
      BY <2>9 DEF ReadIntent, AfterConfirm
    <2>10. ASSUME NEW k \in Checkers, SaveAwaiting(k) PROVE GenuineInv'
      BY <2>10 DEF SaveAwaiting, AfterConfirm
    <2>11. ASSUME NEW k \in Checkers, FailCheck(k) PROVE GenuineInv'
      BY <2>11 DEF FailCheck
    <2>12. CASE CreditWallet
      BY <2>12 DEF CreditWallet
    <2>13. ASSUME NEW s \in Settlers, ReconcileFiber(s) PROVE GenuineInv'
      BY <2>13 DEF ReconcileFiber
    <2>14. ASSUME NEW s \in Settlers, ReadBusinessWallet(s) PROVE GenuineInv'
      BY <2>14 DEF ReadBusinessWallet
    <2>15. ASSUME NEW s \in Settlers, SaveBusinessWallet(s) PROVE GenuineInv'
      BY <2>15 DEF SaveBusinessWallet
    <2>16. ASSUME NEW s \in Settlers, CommitSettlement(s) PROVE GenuineInv'
      BY <2>16 DEF CommitSettlement
    <2>17. ASSUME NEW s \in Settlers, FailSettlement(s) PROVE GenuineInv'
      BY <2>17 DEF FailSettlement
    <2>18. CASE UNCHANGED vars
      BY <2>18 DEF vars
    <2>19. QED
      BY <2>1, <2>2, <2>3, <2>4, <2>5, <2>6, <2>7, <2>8, <2>9, <2>10, <2>11, <2>12,
         <2>13, <2>14, <2>15, <2>16, <2>17, <2>18, NextCases
  <1>3. GenuineInv => PaidIsGenuine
    BY DEF GenuineInv
  <1>4. QED
    BY <1>1, <1>2, <1>3, TypeCorrect, PTL DEF Spec

-----------------------------------------------------------------------------
(* The ledger is asked before the settlement's transaction and not in it;  *)
(* that suffices when only one settler is at work.                         *)

OneSettlerInv ==
    /\ balance <= ledgerSum /\ ledgerSum <= balance + overtaken
    /\ \A i \in Intents : lines[i] <= 1
    /\ \A s, t \in Settlers : spc[s] # "idle" /\ spc[t] # "idle" => s = t
    /\ \A s \in Settlers : spc[s] # "idle" => lines[scur[s]] = 0
    /\ \A s \in Settlers : spc[s] = "write" =>
         ssnap[s] <= ledgerSum /\ ledgerSum <= ssnap[s] + overtaken
    /\ \A s \in Settlers : spc[s] = "commit" =>
         rowLock = s /\ ssnap[s] <= ledgerSum /\ ledgerSum <= ssnap[s] + overtaken

LEMMA OneSettlerInvariant == Spec => [](inSeries => OneSettlerInv)
  <1>1. Init => (inSeries => OneSettlerInv)
    <2> SUFFICES ASSUME Init PROVE OneSettlerInv
      OBVIOUS
    <2>1. /\ \A s \in Settlers : spc[s] = "idle"
          /\ \A i \in Intents : lines[i] = 0
          /\ balance = 0 /\ ledgerSum = 0 /\ overtaken = 0
      BY DEF Init
    <2>2. QED BY <2>1 DEF OneSettlerInv
  <1>2. TypeOK /\ (inSeries => OneSettlerInv) /\ [Next]_vars => (inSeries => OneSettlerInv)'
    <2> SUFFICES ASSUME TypeOK, inSeries => OneSettlerInv, [Next]_vars, inSeries'
                 PROVE  OneSettlerInv'
      OBVIOUS
    <2>a. inSeries' = inSeries
      BY NextCases
      DEF vars, seriesVars, PayInvoice, PassHour, CheckInvoiceStatus, SyncInvoices, PickInvoice,
          MarkExpired, AskNode, MarkPaid, ReadIntent, SaveAwaiting, FailCheck, CreditWallet, ReconcileFiber,
          ReadBusinessWallet, SaveBusinessWallet, CommitSettlement, FailSettlement
    <2>b. inSeries /\ OneSettlerInv
      BY <2>a
    <2> USE <2>b DEF TypeOK, OneSettlerInv, SGoto, walletVars, settlerVars, seriesVars
    <2>1. ASSUME NEW s \in Settlers, ReconcileFiber(s) PROVE OneSettlerInv'
      <3>1. \A t \in Settlers : spc[t] = "idle"
        BY <2>1 DEF ReconcileFiber, MayRun, Settling
      <3>2. QED BY <2>1, <3>1 DEF ReconcileFiber, Unsettled
    <2>2. ASSUME NEW s \in Settlers, ReadBusinessWallet(s) PROVE OneSettlerInv'
      BY <2>2 DEF ReadBusinessWallet
    <2>3. ASSUME NEW s \in Settlers, SaveBusinessWallet(s) PROVE OneSettlerInv'
      BY <2>3 DEF SaveBusinessWallet
    <2>4. ASSUME NEW s \in Settlers, CommitSettlement(s) PROVE OneSettlerInv'
      <3>1. \A t \in Settlers : spc'[t] = "idle"
        BY <2>4 DEF CommitSettlement
      <3>2. /\ lines[scur[s]] = 0
            /\ lines' = [lines EXCEPT ![scur[s]] = lines[scur[s]] + 1]
        BY <2>4 DEF CommitSettlement
      <3>3. balance' <= ledgerSum' /\ ledgerSum' <= balance' + overtaken'
        BY <2>4, ValueType DEF CommitSettlement, NewBalance
      <3>4. QED BY <3>1, <3>2, <3>3
    <2>5. ASSUME NEW s \in Settlers, FailSettlement(s) PROVE OneSettlerInv'
      BY <2>5 DEF FailSettlement
    <2>6. CASE CreditWallet
      <3>1. /\ rowLock = None /\ UNCHANGED <<lines, rowLock, spc, scur, ssnap>>
            /\ balance' = balance + 1 /\ ledgerSum' = ledgerSum + 1
        BY <2>6 DEF CreditWallet
      <3>2. \A s \in Settlers : spc[s] # "commit"
        BY <3>1, NoneAssumption
      <3>3. CASE \E s \in Settlers : spc[s] = "write"
        <4>1. overtaken' = overtaken + 1
          BY <2>6, <3>3 DEF CreditWallet
        <4>2. QED BY <3>1, <3>2, <4>1
      <3>4. CASE ~\E s \in Settlers : spc[s] = "write"
        <4>1. overtaken' = overtaken
          BY <2>6, <3>4 DEF CreditWallet
        <4>2. QED BY <3>1, <3>2, <3>4, <4>1
      <3>5. QED BY <3>3, <3>4
    <2>7. CASE UNCHANGED <<balance, ledgerSum, lines, rowLock, spc, scur, ssnap, overtaken>>
      BY <2>7
    <2>8. QED
      BY <2>1, <2>2, <2>3, <2>4, <2>5, <2>6, <2>7, NextCases
      DEF vars, PayInvoice, PassHour, CheckInvoiceStatus, SyncInvoices, PickInvoice, MarkExpired,
          AskNode, MarkPaid, ReadIntent, SaveAwaiting, FailCheck
  <1>3. QED
    BY <1>1, <1>2, TypeCorrect, PTL DEF Spec

(* One settler at a time, whatever fails and whoever checks invoices: a    *)
(* payment is settled once (lines 56-192 of the settlement service).       *)
THEOREM SettledOnceInSeries == Spec => []SettledOnce
  <1>1. (inSeries => OneSettlerInv) => SettledOnce
    BY DEF OneSettlerInv, SettledOnce
  <1>2. QED
    BY <1>1, OneSettlerInvariant, PTL

(* One settler at a time, whatever fails and whatever is credited          *)
(* meanwhile: the wallet's balance never exceeds its ledger and falls      *)
(* short of it by at most the credits that came between a settlement's     *)
(* reading the wallet and writing it back (lines 79-134).                  *)
THEOREM WalletMatchesLedgerInSeries == Spec => []WalletMatchesLedger
  <1>1. (inSeries => OneSettlerInv) => WalletMatchesLedger
    BY DEF OneSettlerInv, WalletMatchesLedger
  <1>2. QED
    BY <1>1, OneSettlerInvariant, PTL
=============================================================================
