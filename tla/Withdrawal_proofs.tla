-------------------------- MODULE Withdrawal_proofs --------------------------
(***************************************************************************)
(* The type invariant of Withdrawal.tla; that the balance is never         *)
(* negative and a completed withdrawal was paid, for any number of calls,  *)
(* OTPs and amounts at any overlap; that an OTP pays once if calls do not  *)
(* overlap.                                                                *)
(***************************************************************************)
EXTENDS Withdrawal, FiniteSetTheorems, TLAPS

(* NextStep only ever yields a step of a call or its end. *)
LEMMA NextStepIsLabel ==
    ASSUME NEW kind, NEW step
    PROVE  NextStep(kind, step) \in Steps \union Ends
  BY DEF NextStep, ChainStep, CkbStep, FiatStep, Steps, Ends

LEMMA NoRequestType == NoRequest \in Requests
  <1>1. PICK k \in Kinds, a \in Amounts : TRUE
    BY KindsAssumption, AmountsAssumption
  <1>2. [kind |-> k, amount |-> a] \in Requests
    BY DEF Requests
  <1>3. QED BY <1>2 DEF NoRequest

(* The actions that leave the row, the copies of it and the calls alone. *)
LEMMA NextCases ==
    ASSUME Next
    PROVE  \/ \E a \in Amounts : Credit(a)
           \/ RepairCompute
           \/ RepairSave
           \/ \E o \in Otps, r \in Requests : SendWithdrawalOtp(o, r)
           \/ \E o \in Otps : Expire(o)
           \/ \E c \in Calls :
                \/ \E o \in Otps : ConfirmWithdrawal(c, o)
                \/ \E r \in Requests : AutoSettle(c, r)
                \/ MarkUsed(c)
                \/ LoadWallet(c)
                \/ SendOnChain(c)
                \/ Deduct(c)
                \/ PayoutToBank(c)
                \/ CreateWithdrawalTransaction(c)
                \/ UpdateTransactionStatus(c)
                \/ Fail(c)
  BY DEF Next, CallStep

(* A call that has compared its copy of the row with the amount and has    *)
(* not written yet; what a repair is about to write.                       *)
Comparing(c) == pc[c] \in {"send", "deduct"} => snap[c].balance >= args[c].amount

BalanceInv ==
    /\ wallet.balance >= 0
    /\ deposits >= 0
    /\ repair.row.balance >= 0
    /\ \A c \in Calls : Comparing(c)

LEMMA AmountType ==
    ASSUME TypeOK, NEW c \in Calls
    PROVE  args[c].amount \in Nat
  <1>1. args[c] \in [otp : Otps \union {NoOtp}, kind : Kinds, amount : Amounts]
    BY DEF TypeOK
  <1>2. args[c].amount \in Amounts
    BY <1>1
  <1>3. QED BY <1>2, AmountsAssumption

LEMMA LeavesType ==
    ASSUME TypeOK, NEW c \in Calls, Leaves(c)
    PROVE  paidOut' \subseteq Calls /\ paidTotal' \in Nat /\ bankTotal' \in Nat
  BY AmountType DEF TypeOK, Leaves

(* Every variable keeps its type: lines 106-839 of WithdrawalService and   *)
(* the repair command.                                                     *)
THEOREM TypeCorrect == Spec => []TypeOK
  <1>1. Init => TypeOK
    <2> SUFFICES ASSUME Init PROVE TypeOK
      OBVIOUS
    <2>1. /\ EmptyRow \in Row
          /\ NoRequest.kind \in Kinds /\ NoRequest.amount \in Amounts
      BY NoRequestType DEF EmptyRow, Row, Requests
    <2>2. wallet \in Row /\ repair \in [on : BOOLEAN, row : Row]
      BY <2>1 DEF Init, Idle
    <2>3. args \in [Calls -> [otp : Otps \union {NoOtp}, kind : Kinds, amount : Amounts]]
      BY <2>1 DEF Init
    <2>4. QED
      BY <2>1, <2>2, <2>3, NoRequestType DEF Init, TypeOK
  <1>2. TypeOK /\ [Next]_vars => TypeOK'
    <2> SUFFICES ASSUME TypeOK, [Next]_vars PROVE TypeOK'
      OBVIOUS
    <2>0. inSeries' = inSeries
      BY DEF Next, vars
    <2> USE <2>0 DEF TypeOK, Goto, history
    <2>1. ASSUME NEW a \in Amounts, Credit(a) PROVE TypeOK'
      <3>1. a \in Nat
        BY AmountsAssumption
      <3>2. QED BY <2>1, <3>1 DEF Credit, Row
    <2>2. CASE RepairCompute
      <3>1. repair' \in [on : BOOLEAN, row : Row]
        BY <2>2 DEF RepairCompute, Row
      <3>2. QED BY <2>2, <3>1 DEF RepairCompute
    <2>3. CASE RepairSave
      BY <2>3 DEF RepairSave, Idle, EmptyRow, Row
    <2>4. ASSUME NEW o \in Otps, NEW r \in Requests, SendWithdrawalOtp(o, r) PROVE TypeOK'
      BY <2>4 DEF SendWithdrawalOtp
    <2>5. ASSUME NEW o \in Otps, Expire(o) PROVE TypeOK'
      BY <2>5 DEF Expire
    <2>6. ASSUME NEW c \in Calls, NEW o \in Otps, ConfirmWithdrawal(c, o) PROVE TypeOK'
      <3>1. request[o].kind \in Kinds /\ request[o].amount \in Amounts
        BY DEF Requests
      <3>2. args' \in [Calls -> [otp : Otps \union {NoOtp}, kind : Kinds, amount : Amounts]]
        BY <2>6, <3>1 DEF ConfirmWithdrawal
      <3>3. pc' \in [Calls -> {"idle"} \union Steps \union Ends]
        BY <2>6 DEF ConfirmWithdrawal, Steps, Ends
      <3>4. QED BY <2>6, <3>2, <3>3 DEF ConfirmWithdrawal
    <2>7. ASSUME NEW c \in Calls, NEW r \in Requests, AutoSettle(c, r) PROVE TypeOK'
      <3>1. r.kind \in Kinds /\ r.amount \in Amounts
        BY DEF Requests
      <3>2. args' \in [Calls -> [otp : Otps \union {NoOtp}, kind : Kinds, amount : Amounts]]
        BY <2>7, <3>1 DEF AutoSettle
      <3>3. QED BY <2>7, <3>2 DEF AutoSettle, Steps
    <2>8. ASSUME NEW c \in Calls, MarkUsed(c) PROVE TypeOK'
      BY <2>8 DEF MarkUsed, Steps
    <2>9. ASSUME NEW c \in Calls, LoadWallet(c) PROVE TypeOK'
      <3>1. pc' \in [Calls -> {"idle"} \union Steps \union Ends]
        BY <2>9, NextStepIsLabel DEF LoadWallet, Advance, Ends
      <3>2. QED BY <2>9, <3>1 DEF LoadWallet
    <2>10. ASSUME NEW c \in Calls, SendOnChain(c) PROVE TypeOK'
      BY <2>10, NextStepIsLabel, LeavesType DEF SendOnChain, Advance
    <2>11. ASSUME NEW c \in Calls, Deduct(c) PROVE TypeOK'
      <3>1. snap[c] \in Row /\ args[c].amount \in Int
        <4>1. args[c] \in [otp : Otps \union {NoOtp}, kind : Kinds, amount : Amounts]
          OBVIOUS
        <4>2. args[c].amount \in Amounts
          BY <4>1
        <4>3. snap[c] \in Row
          OBVIOUS
        <4>4. Amounts \subseteq Nat
          BY ONLY AmountsAssumption
        <4>5. args[c].amount \in Nat
          BY ONLY <4>2, <4>4
        <4>6. QED BY ONLY <4>3, <4>5
      <3>2. Deducted(snap[c], args[c].amount) \in Row
        BY <3>1 DEF Deducted, Row
      <3>3. QED BY <2>11, <3>2, NextStepIsLabel DEF Deduct, Advance
    <2>12. ASSUME NEW c \in Calls, PayoutToBank(c) PROVE TypeOK'
      BY <2>12, NextStepIsLabel, LeavesType DEF PayoutToBank, Advance
    <2>13. ASSUME NEW c \in Calls, CreateWithdrawalTransaction(c) PROVE TypeOK'
      BY <2>13, NextStepIsLabel DEF CreateWithdrawalTransaction, SetReceipt, Advance
    <2>14. ASSUME NEW c \in Calls, UpdateTransactionStatus(c) PROVE TypeOK'
      BY <2>14, NextStepIsLabel DEF UpdateTransactionStatus, SetReceipt, Advance
    <2>15. ASSUME NEW c \in Calls, Fail(c) PROVE TypeOK'
      <3>1. paidOut' \subseteq Calls /\ paidTotal' \in Nat /\ bankTotal' \in Nat
        BY <2>15, LeavesType DEF Fail
      <3>2. writtenOff' \in Nat
        BY <2>15, AmountType DEF Fail
      <3>3. QED BY <2>15, <3>1, <3>2 DEF Fail, Ends
    <2>16. CASE UNCHANGED vars
      BY <2>16 DEF vars
    <2>17. QED
      BY <2>1, <2>2, <2>3, <2>4, <2>5, <2>6, <2>7, <2>8, <2>9, <2>10, <2>11, <2>12,
         <2>13, <2>14, <2>15, <2>16, NextCases
  <1>3. QED
    BY <1>1, <1>2, PTL DEF Spec

(* No interleaving of withdrawals, deposits and repairs writes a negative  *)
(* balance, although they overwrite each other's updates: every value      *)
(* written was compared with the amount, or is a sum of deposits.          *)
THEOREM BalanceNeverNegative == Spec => []BalanceNonNegative
  <1>1. Init => BalanceInv
    BY DEF Init, BalanceInv, Comparing, EmptyRow, Idle
  <1>2. TypeOK /\ BalanceInv /\ [Next]_vars => BalanceInv'
    <2> SUFFICES ASSUME TypeOK, BalanceInv, [Next]_vars PROVE BalanceInv'
      OBVIOUS
    <2>0. /\ wallet \in Row /\ deposits \in Nat
          /\ \A c \in Calls : snap[c] \in Row /\ args[c].amount \in Nat
          /\ pc \in [Calls -> {"idle"} \union Steps \union Ends]
      BY AmountsAssumption DEF TypeOK
    <2> USE <2>0 DEF BalanceInv, Comparing, Goto, Advance, NextStep, ChainStep, CkbStep, FiatStep
    <2>1. ASSUME NEW a \in Amounts, Credit(a) PROVE BalanceInv'
      BY <2>1, AmountsAssumption DEF Credit, Row
    <2>2. CASE RepairCompute
      BY <2>2 DEF RepairCompute
    <2>3. CASE RepairSave
      BY <2>3 DEF RepairSave, Idle, EmptyRow
    <2>4. ASSUME NEW o \in Otps, NEW r \in Requests, SendWithdrawalOtp(o, r) PROVE BalanceInv'
      BY <2>4 DEF SendWithdrawalOtp
    <2>5. ASSUME NEW o \in Otps, Expire(o) PROVE BalanceInv'
      BY <2>5 DEF Expire
    <2>6. ASSUME NEW c \in Calls, NEW o \in Otps, ConfirmWithdrawal(c, o) PROVE BalanceInv'
      BY <2>6 DEF ConfirmWithdrawal, TypeOK
    <2>7. ASSUME NEW c \in Calls, NEW r \in Requests, AutoSettle(c, r) PROVE BalanceInv'
      BY <2>7 DEF AutoSettle, TypeOK
    <2>8. ASSUME NEW c \in Calls, MarkUsed(c) PROVE BalanceInv'
      BY <2>8 DEF MarkUsed
    <2>9. ASSUME NEW c \in Calls, LoadWallet(c) PROVE BalanceInv'
      BY <2>9 DEF LoadWallet, Covered, Row, TypeOK
    <2>10. ASSUME NEW c \in Calls, SendOnChain(c) PROVE BalanceInv'
      BY <2>10 DEF SendOnChain, Leaves
    <2>11. ASSUME NEW c \in Calls, Deduct(c) PROVE BalanceInv'
      BY <2>11 DEF Deduct, Deducted, Row
    <2>12. ASSUME NEW c \in Calls, PayoutToBank(c) PROVE BalanceInv'
      BY <2>12 DEF PayoutToBank, Leaves
    <2>13. ASSUME NEW c \in Calls, CreateWithdrawalTransaction(c) PROVE BalanceInv'
      BY <2>13 DEF CreateWithdrawalTransaction, SetReceipt
    <2>14. ASSUME NEW c \in Calls, UpdateTransactionStatus(c) PROVE BalanceInv'
      BY <2>14 DEF UpdateTransactionStatus, SetReceipt
    <2>15. ASSUME NEW c \in Calls, Fail(c) PROVE BalanceInv'
      BY <2>15 DEF Fail, Leaves
    <2>16. CASE UNCHANGED vars
      BY <2>16 DEF vars
    <2>17. QED
      BY <2>1, <2>2, <2>3, <2>4, <2>5, <2>6, <2>7, <2>8, <2>9, <2>10, <2>11, <2>12,
         <2>13, <2>14, <2>15, <2>16, NextCases
  <1>3. BalanceInv => BalanceNonNegative
    BY DEF BalanceInv, BalanceNonNegative
  <1>4. QED
    BY <1>1, <1>2, <1>3, TypeCorrect, PTL DEF Spec

-----------------------------------------------------------------------------

(* An on-chain withdrawal past the transfer has been paid; a bank payout   *)
(* never gets a withdrawal transaction.                                    *)
PaidInv ==
    /\ CompletedWasPaid
    /\ \A c \in Calls :
         /\ args[c].kind = "chain" /\ pc[c] \in {"deduct", "record", "finish"} => c \in paidOut
         /\ args[c].kind = "fiat" => pc[c] \notin {"record", "finish"}

(* However withdrawals, failures and repairs interleave, a withdrawal the  *)
(* user sees as completed was paid (lines 405-519).                        *)
THEOREM CompletedAlwaysPaid == Spec => []CompletedWasPaid
  <1>1. Init => PaidInv
    BY DEF Init, PaidInv, CompletedWasPaid
  <1>2. TypeOK /\ PaidInv /\ [Next]_vars => PaidInv'
    <2> SUFFICES ASSUME TypeOK, PaidInv, [Next]_vars PROVE PaidInv'
      OBVIOUS
    <2>0. /\ pc \in [Calls -> {"idle"} \union Steps \union Ends]
          /\ receipt \in [Calls -> {"none", "pending", "processing", "completed"}]
          /\ \A c \in Calls : args[c].kind \in {"chain", "ckb", "fiat"}
      BY KindsAssumption DEF TypeOK
    <2> USE <2>0 DEF PaidInv, CompletedWasPaid, Goto, Advance, NextStep, ChainStep, CkbStep, FiatStep
    <2>1. ASSUME NEW a \in Amounts, Credit(a) PROVE PaidInv'
      BY <2>1 DEF Credit
    <2>2. CASE RepairCompute
      BY <2>2 DEF RepairCompute
    <2>3. CASE RepairSave
      BY <2>3 DEF RepairSave
    <2>4. ASSUME NEW o \in Otps, NEW r \in Requests, SendWithdrawalOtp(o, r) PROVE PaidInv'
      BY <2>4 DEF SendWithdrawalOtp
    <2>5. ASSUME NEW o \in Otps, Expire(o) PROVE PaidInv'
      BY <2>5 DEF Expire
    <2>6. ASSUME NEW c \in Calls, NEW o \in Otps, ConfirmWithdrawal(c, o) PROVE PaidInv'
      BY <2>6 DEF ConfirmWithdrawal, TypeOK
    <2>7. ASSUME NEW c \in Calls, NEW r \in Requests, AutoSettle(c, r) PROVE PaidInv'
      BY <2>7 DEF AutoSettle, TypeOK
    <2>8. ASSUME NEW c \in Calls, MarkUsed(c) PROVE PaidInv'
      BY <2>8 DEF MarkUsed
    <2>9. ASSUME NEW c \in Calls, LoadWallet(c) PROVE PaidInv'
      BY <2>9 DEF LoadWallet
    <2>10. ASSUME NEW c \in Calls, SendOnChain(c) PROVE PaidInv'
      BY <2>10 DEF SendOnChain, Leaves
    <2>11. ASSUME NEW c \in Calls, Deduct(c) PROVE PaidInv'
      BY <2>11 DEF Deduct
    <2>12. ASSUME NEW c \in Calls, PayoutToBank(c) PROVE PaidInv'
      BY <2>12 DEF PayoutToBank, Leaves
    <2>13. ASSUME NEW c \in Calls, CreateWithdrawalTransaction(c) PROVE PaidInv'
      BY <2>13 DEF CreateWithdrawalTransaction, SetReceipt
    <2>14. ASSUME NEW c \in Calls, UpdateTransactionStatus(c) PROVE PaidInv'
      BY <2>14 DEF UpdateTransactionStatus, SetReceipt
    <2>15. ASSUME NEW c \in Calls, Fail(c) PROVE PaidInv'
      BY <2>15 DEF Fail, Leaves
    <2>16. CASE UNCHANGED vars
      BY <2>16 DEF vars
    <2>17. QED
      BY <2>1, <2>2, <2>3, <2>4, <2>5, <2>6, <2>7, <2>8, <2>9, <2>10, <2>11, <2>12,
         <2>13, <2>14, <2>15, <2>16, NextCases
  <1>3. PaidInv => CompletedWasPaid
    BY DEF PaidInv
  <1>4. QED
    BY <1>1, <1>2, <1>3, TypeCorrect, PTL DEF Spec

-----------------------------------------------------------------------------
(* The OTP is read, and marked used by a later statement; that suffices    *)
(* when calls do not overlap.                                              *)

(* A call that has used up its OTP. *)
Spent(c) == pc[c] \in Steps \ {"mark"} \/ c \in paidOut

AtMostOneRuns ==
    \A c, d \in Calls : pc[c] \in Steps /\ pc[d] \in Steps => c = d

OneCallInv ==
    /\ AtMostOneRuns
    /\ \A c \in Calls : c \in paidOut => pc[c] # "idle" /\ pc[c] # "mark"
    /\ \A c \in Calls : pc[c] = "mark" => args[c].otp \in Otps
    /\ \A c \in Calls : Spent(c) /\ args[c].otp \in Otps => otp[args[c].otp] = "used"
    /\ \A c, d \in Calls : pc[c] = "mark" /\ Spent(d) => args[c].otp # args[d].otp
    /\ \A c, d \in Calls : Spent(c) /\ Spent(d) /\ args[c].otp \in Otps
                            /\ args[c].otp = args[d].otp => c = d

(* One call at a time, whatever fails: an OTP moves money once (lines      *)
(* 183-205).                                                               *)
THEOREM OtpAlwaysPaysOnceInSeries == Spec => []OtpPaysOnceInSeries
  <1>1. Init => (inSeries => OneCallInv)
    <2> SUFFICES ASSUME Init PROVE OneCallInv
      OBVIOUS
    <2>1. /\ \A c \in Calls : pc[c] = "idle"
          /\ paidOut = {}
      BY DEF Init
    <2>2. \A c \in Calls : pc[c] \notin Steps /\ pc[c] # "mark" /\ c \notin paidOut
      BY <2>1 DEF Steps
    <2>3. QED BY ONLY <2>2 DEF OneCallInv, AtMostOneRuns, Spent
  <1>2. TypeOK /\ (inSeries => OneCallInv) /\ [Next]_vars => (inSeries => OneCallInv)'
    <2> SUFFICES ASSUME TypeOK, inSeries => OneCallInv, [Next]_vars, inSeries'
                 PROVE  OneCallInv'
      OBVIOUS
    <2>a. inSeries /\ OneCallInv
      BY DEF Next, vars
    <2>0. /\ pc \in [Calls -> {"idle"} \union Steps \union Ends]
          /\ otp \in [Otps -> {"none", "open", "expired", "used"}]
          /\ \A c \in Calls : args[c].otp \in Otps \union {NoOtp}
          /\ args \in [Calls -> [otp : Otps \union {NoOtp}, kind : Kinds, amount : Amounts]]
          /\ NoOtp \notin Otps
          /\ paidOut \subseteq Calls
      BY NoOtpAssumption DEF TypeOK
    <2> USE <2>0, <2>a DEF OneCallInv, AtMostOneRuns, Spent, Goto, Advance, NextStep, ChainStep, CkbStep, FiatStep, Steps, Ends
    <2>1. ASSUME NEW a \in Amounts, Credit(a) PROVE OneCallInv'
      BY <2>1 DEF Credit
    <2>2. CASE RepairCompute
      BY <2>2 DEF RepairCompute
    <2>3. CASE RepairSave
      BY <2>3 DEF RepairSave
    <2>4. ASSUME NEW o \in Otps, NEW r \in Requests, SendWithdrawalOtp(o, r)
          PROVE  OneCallInv'
      BY <2>4 DEF SendWithdrawalOtp
    <2>5. ASSUME NEW o \in Otps, Expire(o) PROVE OneCallInv'
      BY <2>5 DEF Expire
    <2>6. ASSUME NEW c \in Calls, NEW o \in Otps, ConfirmWithdrawal(c, o) PROVE OneCallInv'
      <3>1. \A d \in Calls : pc[d] \notin Steps
        BY <2>6 DEF ConfirmWithdrawal, MayBegin, Running
      <3>2. QED BY <2>6, <3>1 DEF ConfirmWithdrawal, Accepted
    <2>7. ASSUME NEW c \in Calls, NEW r \in Requests, AutoSettle(c, r) PROVE OneCallInv'
      <3>1. \A d \in Calls : pc[d] \notin Steps
        BY <2>7 DEF AutoSettle, MayBegin, Running
      <3>2. QED BY <2>7, <3>1 DEF AutoSettle
    <2>8. ASSUME NEW c \in Calls, MarkUsed(c) PROVE OneCallInv'
      BY <2>8 DEF MarkUsed
    <2>9. ASSUME NEW c \in Calls, LoadWallet(c) PROVE OneCallInv'
      <3>1. /\ pc[c] = "load" /\ pc' = [pc EXCEPT ![c] = pc'[c]]
            /\ pc'[c] \in {"send", "deduct", "failed"}
            /\ UNCHANGED <<otp, args, paidOut>>
        BY <2>9 DEF LoadWallet
      <3>2. QED BY <3>1
    <2>10. ASSUME NEW c \in Calls, SendOnChain(c) PROVE OneCallInv'
      BY <2>10 DEF SendOnChain, Leaves
    <2>11. ASSUME NEW c \in Calls, Deduct(c) PROVE OneCallInv'
      BY <2>11 DEF Deduct
    <2>12. ASSUME NEW c \in Calls, PayoutToBank(c) PROVE OneCallInv'
      BY <2>12 DEF PayoutToBank, Leaves
    <2>13. ASSUME NEW c \in Calls, CreateWithdrawalTransaction(c) PROVE OneCallInv'
      BY <2>13 DEF CreateWithdrawalTransaction, SetReceipt
    <2>14. ASSUME NEW c \in Calls, UpdateTransactionStatus(c) PROVE OneCallInv'
      BY <2>14 DEF UpdateTransactionStatus, SetReceipt
    <2>15. ASSUME NEW c \in Calls, Fail(c) PROVE OneCallInv'
      BY <2>15 DEF Fail, Leaves
    <2>16. CASE UNCHANGED vars
      BY <2>16 DEF vars
    <2>17. QED
      BY <2>1, <2>2, <2>3, <2>4, <2>5, <2>6, <2>7, <2>8, <2>9, <2>10, <2>11, <2>12,
         <2>13, <2>14, <2>15, <2>16, NextCases
  <1>3. TypeOK /\ (inSeries => OneCallInv) => OtpPaysOnceInSeries
    <2> SUFFICES ASSUME TypeOK, OneCallInv, NEW o \in Otps
                 PROVE  Cardinality({c \in paidOut : args[c].otp = o}) <= 1
      BY DEF OtpPaysOnceInSeries, OtpPaysOnce
    <2> DEFINE P == {c \in paidOut : args[c].otp = o}
    <2>1. CASE P = {}
      BY <2>1, FS_EmptySet
    <2>2. CASE P # {}
      <3>1. PICK c \in P : TRUE
        BY <2>2
      <3>2. P = {c}
        BY <3>1 DEF OneCallInv, Spent, TypeOK
      <3>3. Cardinality({c}) = 1
        BY FS_Singleton
      <3>4. QED BY <3>2, <3>3
    <2>3. QED BY <2>1, <2>2
  <1>4. QED
    BY <1>1, <1>2, <1>3, TypeCorrect, PTL DEF Spec

-----------------------------------------------------------------------------
(* What one call at a time can pay.  Between reading the row and writing   *)
(* it, deposits may have raised the balance and nothing else has touched   *)
(* the row; what has left and is not deducted yet is the amount of the one *)
(* on-chain call about to write, what is deducted and has not left that of *)
(* the one bank payout about to be sent.                                   *)
Net == paidTotal - writtenOff

Sent(c) == pc[c] = "deduct" /\ args[c].kind = "chain"

CopyInv(c) ==
    pc[c] \in {"send", "deduct"} =>
        /\ snap[c].balance >= args[c].amount
        /\ snap[c].balance <= wallet.balance
        /\ snap[c].totalWithdrawn = wallet.totalWithdrawn

FundsInv ==
    /\ AtMostOneRuns
    /\ ~repair.on
    /\ \A c \in Calls :
        /\ CopyInv(c)
        /\ c \in paidOut => /\ pc[c] \notin {"idle", "mark", "load", "send", "payout"}
                            /\ pc[c] = "deduct" => args[c].kind = "chain"
        /\ Sent(c) => c \in paidOut /\ Net - args[c].amount + wallet.balance <= deposits
        /\ pc[c] = "payout" =>
              /\ args[c].kind = "fiat"
              /\ Net + args[c].amount + wallet.balance <= deposits
              /\ bankTotal + args[c].amount <= wallet.totalWithdrawn
        /\ pc[c] = "send" => args[c].kind = "chain"
    /\ (\A c \in Calls : ~Sent(c) /\ pc[c] # "payout") => Net + wallet.balance <= deposits
    /\ bankTotal <= wallet.totalWithdrawn

LEMMA FundsInvariant == Spec => [](inSeries => FundsInv)
  <1>1. Init => (inSeries => FundsInv)
    <2> SUFFICES ASSUME Init PROVE FundsInv
      OBVIOUS
    <2>1. /\ \A c \in Calls : pc[c] = "idle"
          /\ paidOut = {} /\ ~repair.on
          /\ wallet.balance = 0 /\ wallet.totalWithdrawn = 0 /\ deposits = 0
          /\ paidTotal = 0 /\ bankTotal = 0 /\ writtenOff = 0
      BY DEF Init, EmptyRow, Idle
    <2>2. \A c \in Calls : /\ pc[c] \notin Steps /\ c \notin paidOut
                           /\ pc[c] \notin {"send", "deduct", "payout"}
      BY <2>1 DEF Steps
    <2>3. Net + wallet.balance <= deposits /\ bankTotal <= wallet.totalWithdrawn
      BY <2>1 DEF Net
    <2>4. \A c \in Calls : CopyInv(c) /\ ~Sent(c) /\ pc[c] # "payout" /\ pc[c] # "send"
      BY <2>2 DEF CopyInv, Sent
    <2>5. QED BY <2>1, <2>2, <2>3, <2>4 DEF FundsInv, AtMostOneRuns
  <1>2. TypeOK /\ (inSeries => FundsInv) /\ [Next]_vars => (inSeries => FundsInv)'
    <2> SUFFICES ASSUME TypeOK, inSeries => FundsInv, [Next]_vars, inSeries'
                 PROVE  FundsInv'
      OBVIOUS
    <2>a. inSeries /\ FundsInv
      BY DEF Next, vars
    <2>0. /\ pc \in [Calls -> {"idle"} \union Steps \union Ends]
          /\ wallet \in Row /\ deposits \in Nat /\ snap \in [Calls -> Row]
          /\ \A c \in Calls : args[c].amount \in Nat /\ args[c].kind \in {"chain", "ckb", "fiat"}
          /\ args \in [Calls -> [otp : Otps \union {NoOtp}, kind : Kinds, amount : Amounts]]
          /\ paidOut \subseteq Calls
          /\ paidTotal \in Nat /\ bankTotal \in Nat /\ writtenOff \in Nat
      BY AmountType, KindsAssumption DEF TypeOK
    <2> USE <2>0, <2>a DEF FundsInv, AtMostOneRuns, CopyInv, Sent, Net, history, Row, Steps, Ends
    <2>1. ASSUME NEW a \in Amounts, Credit(a) PROVE FundsInv'
      <3>1. a \in Nat
        BY AmountsAssumption
      <3>2. QED BY <2>1, <3>1 DEF Credit
    <2>2. CASE RepairCompute
      BY <2>2 DEF RepairCompute
    <2>3. CASE RepairSave
      BY <2>3 DEF RepairSave
    <2>4. ASSUME NEW o \in Otps, NEW r \in Requests, SendWithdrawalOtp(o, r) PROVE FundsInv'
      BY <2>4 DEF SendWithdrawalOtp
    <2>5. ASSUME NEW o \in Otps, Expire(o) PROVE FundsInv'
      BY <2>5 DEF Expire
    <2>6. ASSUME NEW c \in Calls, NEW o \in Otps, ConfirmWithdrawal(c, o) PROVE FundsInv'
      <3>1. \A d \in Calls : pc[d] \notin Steps
        BY <2>6 DEF ConfirmWithdrawal, MayBegin, Running
      <3>2. QED BY <2>6, <3>1 DEF ConfirmWithdrawal, Goto
    <2>7. ASSUME NEW c \in Calls, NEW r \in Requests, AutoSettle(c, r) PROVE FundsInv'
      <3>1. \A d \in Calls : pc[d] \notin Steps
        BY <2>7 DEF AutoSettle, MayBegin, Running
      <3>2. QED BY <2>7, <3>1 DEF AutoSettle, Goto
    <2>8. ASSUME NEW c \in Calls, MarkUsed(c) PROVE FundsInv'
      BY <2>8 DEF MarkUsed, Goto
    <2>9. ASSUME NEW c \in Calls, LoadWallet(c) PROVE FundsInv'
      BY <2>9 DEF LoadWallet, Covered, Advance, NextStep, ChainStep, CkbStep, FiatStep, Goto
    <2>10. ASSUME NEW c \in Calls, SendOnChain(c) PROVE FundsInv'
      BY <2>10 DEF SendOnChain, Leaves, Advance, NextStep, ChainStep, CkbStep, FiatStep, Goto
    <2>11. ASSUME NEW c \in Calls, Deduct(c) PROVE FundsInv'
      <3>1. /\ \A d \in Calls : d # c => pc[d] \notin Steps
            /\ \A d \in Calls : pc'[d] = IF d = c THEN NextStep(args[c].kind, "deduct") ELSE pc[d]
            /\ NextStep(args[c].kind, "deduct") \in {"payout", "record"}
            /\ NextStep(args[c].kind, "deduct") = "payout" <=> args[c].kind = "fiat"
            /\ UNCHANGED <<history, deposits, args, snap, paidOut, repair>>
        BY <2>11 DEF Deduct, Advance, NextStep, ChainStep, CkbStep, FiatStep, Goto
      <3>2. /\ wallet'.balance = snap[c].balance - args[c].amount
            /\ wallet'.totalWithdrawn = snap[c].totalWithdrawn + args[c].amount
            /\ snap[c].balance \in Int /\ snap[c].totalWithdrawn \in Int
        BY <2>11 DEF Deduct, Deducted
      <3>3. CASE args[c].kind = "chain"
        <4>1. Net - args[c].amount + wallet.balance <= deposits
          BY <2>11, <3>3 DEF Deduct
        <4>2. Net' + wallet'.balance <= deposits'
          BY <2>11, <3>1, <3>2, <4>1 DEF Deduct
        <4>3. bankTotal' <= wallet'.totalWithdrawn
          BY <2>11, <3>1, <3>2 DEF Deduct
        <4>4. QED BY <2>11, <3>1, <3>3, <4>2, <4>3 DEF Deduct
      <3>4. CASE args[c].kind # "chain"
        <4>1. Net + wallet.balance <= deposits
          BY <2>11, <3>1, <3>4 DEF Deduct
        <4>2. Net' + args[c].amount + wallet'.balance <= deposits'
          BY <2>11, <3>1, <3>2, <4>1 DEF Deduct
        <4>3. bankTotal' + args[c].amount <= wallet'.totalWithdrawn
          BY <2>11, <3>1, <3>2 DEF Deduct
        <4>a. \A d \in Calls : d # c => pc'[d] \notin {"send", "deduct", "payout"}
          BY <3>1
        <4>b. pc[c] = "deduct" /\ pc'[c] \in {"payout", "record"}
          BY <2>11, <3>1 DEF Deduct
        <4>c. c \in paidOut => pc'[c] # "payout"
          BY <4>b, <3>4
        <4>4. \A d \in Calls :
                /\ CopyInv(d)' /\ ~Sent(d)'
                /\ d \in paidOut' => pc'[d] \notin {"idle", "mark", "load", "send", "payout", "deduct"}
                /\ pc'[d] = "payout" => d = c /\ args'[d].kind = "fiat"
                /\ pc'[d] # "send"
          BY <3>1, <4>a, <4>b, <4>c
        <4>5. AtMostOneRuns' /\ ~repair'.on
          BY <2>11, <3>1 DEF Deduct
        <4>6. Net' + wallet'.balance <= deposits'
          BY <2>11, <3>1, <3>2, <4>1 DEF Deduct
        <4>7. bankTotal' <= wallet'.totalWithdrawn
          BY <2>11, <3>1, <3>2 DEF Deduct
        <4>8. \A d \in Calls : pc'[d] = "payout" =>
                /\ Net' + args'[d].amount + wallet'.balance <= deposits'
                /\ bankTotal' + args'[d].amount <= wallet'.totalWithdrawn
          BY <4>2, <4>3, <4>4, <3>1
        <4>9. QED BY ONLY <4>4, <4>5, <4>6, <4>7, <4>8 DEF FundsInv
      <3>5. QED BY <3>3, <3>4
    <2>12. ASSUME NEW c \in Calls, PayoutToBank(c) PROVE FundsInv'
      BY <2>12 DEF PayoutToBank, Leaves, Advance, NextStep, ChainStep, CkbStep, FiatStep, Goto
    <2>13. ASSUME NEW c \in Calls, CreateWithdrawalTransaction(c) PROVE FundsInv'
      BY <2>13 DEF CreateWithdrawalTransaction, SetReceipt, Advance, NextStep, ChainStep, CkbStep, FiatStep, Goto
    <2>14. ASSUME NEW c \in Calls, UpdateTransactionStatus(c) PROVE FundsInv'
      BY <2>14 DEF UpdateTransactionStatus, SetReceipt, Advance, NextStep, ChainStep, CkbStep, FiatStep, Goto
    <2>15. ASSUME NEW c \in Calls, Fail(c) PROVE FundsInv'
      BY <2>15 DEF Fail, Leaves, Goto
    <2>16. CASE UNCHANGED vars
      BY <2>16 DEF vars
    <2>17. QED
      BY <2>1, <2>2, <2>3, <2>4, <2>5, <2>6, <2>7, <2>8, <2>9, <2>10, <2>11, <2>12,
         <2>13, <2>14, <2>15, <2>16, NextCases
  <1>3. QED
    BY <1>1, <1>2, TypeCorrect, PTL DEF Spec

(* One call at a time, only what a failed on-chain call had sent is paid   *)
(* out of nothing (lines 222-255, 405-436).                                *)
THEOREM NeverOverpaidInSeries == Spec => []NeverOverpaid
  <1>1. TypeOK /\ BalanceNonNegative /\ (inSeries => FundsInv) => NeverOverpaid
    <2> SUFFICES ASSUME TypeOK, BalanceNonNegative, inSeries, FundsInv
                 PROVE  paidTotal - writtenOff <= deposits
      BY DEF NeverOverpaid
    <2>0. /\ wallet \in Row /\ deposits \in Nat /\ snap \in [Calls -> Row]
          /\ \A c \in Calls : args[c].amount \in Nat
          /\ paidTotal \in Nat /\ writtenOff \in Nat
      BY AmountType DEF TypeOK
    <2>1. CASE \E c \in Calls : Sent(c) \/ pc[c] = "payout"
      BY <2>0, <2>1 DEF FundsInv, CopyInv, Sent, Net, BalanceNonNegative, Row
    <2>2. CASE \A c \in Calls : ~Sent(c) /\ pc[c] # "payout"
      BY <2>0, <2>2 DEF FundsInv, Net, BalanceNonNegative, Row
    <2>3. QED BY <2>1, <2>2
  <1>2. QED
    BY <1>1, TypeCorrect, BalanceNeverNegative, FundsInvariant, PTL

(* One call at a time, a bank is paid what was deducted before (lines      *)
(* 742-839).                                                               *)
THEOREM FundsAlwaysHeldInSeries == Spec => []FundsAreHeld
  <1>1. (inSeries => FundsInv) => FundsAreHeld
    BY DEF FundsInv, FundsAreHeld
  <1>2. QED
    BY <1>1, FundsInvariant, PTL
=============================================================================
