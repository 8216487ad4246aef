--------------------------- MODULE Movements_proofs ---------------------------
(***************************************************************************)
(* For any transfers, cancellations, payouts and deposits at any overlap:  *)
(* the type invariant and that no balance is negative, which need each     *)
(* other (what leaves is counted in naturals); that a completed transfer   *)
(* was handed over; that its status then follows the bank.  One at a time: *)
(* that what is given back has gone nowhere, that a business is paid to    *)
(* its bank once an interval, and that no more leaves than was deposited,  *)
(* but for what is sent on chain and not booked.                           *)
(***************************************************************************)
EXTENDS Movements, TLAPS, FiniteSetTheorems, WellFoundedInduction

(* A transfer that has compared its copy with the amount and has not       *)
(* written yet; every other copy that is written back is not negative.     *)
CopiesCover ==
    /\ \A t \in Transfers :
        /\ copy[t].balance >= 0
        /\ pc[t] = "convert" => copy[t].balance >= order[t].amount
    /\ \A k \in Cancellers :
        /\ ccopy[k].balance >= 0
        /\ cpc[k] # "idle" => of[k] \in Transfers
    /\ \A r \in Runs :
        /\ rcopy[r].balance >= 0
        /\ rpc[r] \in {"send", "deduct"} => rsnap[r].balance >= rcopy[r].balance

IInv == TypeOK /\ BalanceNonNegative /\ CopiesCover

LEMMA OrderFacts ==
    ASSUME NEW o \in OrderType
    PROVE  /\ o.from \in Wallets /\ o.to \in Wallets
           /\ o.amount \in Nat /\ o.amount > Fee /\ o.amount - Fee \in Nat
  <1>1. o.amount \in Amounts /\ o.from \in Wallets /\ o.to \in Wallets
    BY DEF OrderType
  <1>2. Fee \in Nat /\ Fee < o.amount
    BY <1>1, FeeAssumption
  <1>3. o.amount \in Nat
    BY <1>1, AmountsAssumption
  <1>4. QED BY <1>1, <1>2, <1>3

(* Writing a copy back with a smaller or larger balance. *)
LEMMA DebitedRow ==
    ASSUME NEW r \in Row, NEW a \in Int, r.balance >= a
    PROVE  Debited(r, a) \in Row /\ Debited(r, a).balance >= 0
  BY DEF Debited, Row

LEMMA DepositKeeps ==
    ASSUME IInv, NEW w \in Earning, NEW a \in Amounts, Deposit(w, a),
           UNCHANGED <<transferVars, payoutVars>>
    PROVE  IInv'
  <1>1. a \in Nat /\ w \in Wallets
    BY AmountsAssumption, EarningAssumption
  <1>2. row' \in [Wallets -> Row] /\ \A x \in Wallets : row'[x].balance >= 0
    BY <1>1 DEF IInv, TypeOK, BalanceNonNegative, Deposit, Row
  <1>3. QED
    BY <1>1, <1>2 DEF IInv, TypeOK, BalanceNonNegative, CopiesCover, Deposit,
                      TransferTypes, PayoutTypes, transferVars, payoutVars

(* The steps of a transfer's request and settlement. *)
LEMMA TransferKeeps ==
    ASSUME IInv, TransferNext, UNCHANGED payoutVars
    PROVE  IInv'
  <1> USE DEF IInv, TypeOK, TransferTypes, PayoutTypes, payoutVars, BalanceNonNegative,
              CopiesCover, Goto, SetStatus, rowVars, Labels
  <1>a. NoCopy \in Row /\ NoCopy.balance = 0
    BY DEF NoCopy, Row
  <1>b. \A t \in Transfers : order[t] \in OrderType
    OBVIOUS
  <1>c. \A t \in Transfers :
          /\ order[t].from \in Wallets /\ order[t].to \in Wallets
          /\ order[t].amount \in Nat /\ order[t].amount > Fee
          /\ Payable(t) \in Nat /\ Refund(t) \in Nat
    BY <1>b, OrderFacts, FeeAssumption DEF Payable, Refund
  <1>1. ASSUME NEW t \in Transfers, NEW o \in Orders, InitiateTransfer(t, o) PROVE IInv'
    <2>1. o \in OrderType /\ o.from \in Wallets /\ o.amount \in Nat
      BY OrdersAssumption, OrderFacts
    <2>2. order' \in [Transfers -> OrderType] /\ row[o.from] \in Row
      BY <1>1, <2>1 DEF InitiateTransfer
    <2>3. CASE Covered(row[o.from], o.amount)
      <3>1. /\ copy' = [copy EXCEPT ![t] = row[o.from]]
            /\ order' = [order EXCEPT ![t] = o]
            /\ pc' = [pc EXCEPT ![t] = "convert"]
            /\ atWork' = atWork \union {t}
        BY <1>1, <2>3 DEF InitiateTransfer, Begin
      <3>2. copy' \in [Transfers -> Row] /\ copy'[t].balance >= 0
            /\ copy'[t].balance >= order'[t].amount
        BY <2>1, <2>2, <2>3, <3>1 DEF Covered
      <3>3. \A x \in Transfers :
               /\ copy'[x].balance >= 0
               /\ pc'[x] = "convert" => copy'[x].balance >= order'[x].amount
        BY <3>1, <3>2
      <3>4. QED BY <1>1, <2>2, <3>1, <3>2, <3>3 DEF InitiateTransfer
    <2>4. CASE ~Covered(row[o.from], o.amount)
      BY <1>1, <2>1, <2>2, <2>4 DEF InitiateTransfer
    <2>5. QED BY <2>3, <2>4
  <1>2. ASSUME NEW t \in Transfers, CommitTransfer(t) PROVE IInv'
    <2>1. /\ Debited(copy[t], order[t].amount) \in Row
          /\ Debited(copy[t], order[t].amount).balance >= 0
      <3>1. copy[t] \in Row /\ copy[t].balance >= order[t].amount
        BY <1>2 DEF CommitTransfer
      <3>2. order[t].amount \in Int
        BY <1>c
      <3>3. QED BY ONLY <3>1, <3>2, DebitedRow
    <2>2. row' \in [Wallets -> Row] /\ \A w \in Wallets : row'[w].balance >= 0
      BY <1>2, <1>c, <2>1 DEF CommitTransfer
    <2>3. QED BY <1>2, <1>a, <2>2 DEF CommitTransfer
  <1>3. ASSUME NEW t \in Transfers, RollbackTransfer(t) PROVE IInv'
    BY <1>3, <1>a DEF RollbackTransfer, Fault, End
  <1>4. ASSUME NEW t \in Transfers, MarkProcessing(t) PROVE IInv'
    BY <1>4 DEF MarkProcessing
  <1>5. ASSUME NEW t \in Transfers, SettleToBank(t) PROVE IInv'
    BY <1>5, <1>c DEF SettleToBank, AcceptPayout
  <1>6. ASSUME NEW t \in Transfers, ReadRecipient(t) PROVE IInv'
    BY <1>6, <1>c DEF ReadRecipient
  <1>7. ASSUME NEW t \in Transfers, SettleToUser(t) PROVE IInv'
    <2>1. copy[t].balance + Payable(t) \in Nat
      <3>1. copy[t].balance \in Int /\ copy[t].balance >= 0
        BY DEF Row
      <3>2. QED BY <1>c, <3>1
    <2>2. row' \in [Wallets -> Row] /\ \A w \in Wallets : row'[w].balance >= 0
      <3>1. PICK v, w : v = copy[t].balance + Payable(t) /\ w = order[t].to
        OBVIOUS
      <3>2. v \in Int /\ v >= 0 /\ w \in Wallets
        BY <1>c, <2>1, <3>1
      <3>3. row' = [row EXCEPT ![w].balance = v]
        BY <1>7, <3>1 DEF SettleToUser
      <3>4. row \in [Wallets -> Row] /\ \A x \in Wallets : row[x].balance >= 0
        OBVIOUS
      <3>5. QED BY ONLY <3>2, <3>3, <3>4 DEF Row
    <2>3. QED BY <1>7, <1>a, <2>2 DEF SettleToUser
  <1>8. ASSUME NEW t \in Transfers, SettleToMerchant(t) PROVE IInv'
    BY <1>8 DEF SettleToMerchant
  <1>9. ASSUME NEW t \in Transfers, CompleteTransfer(t) PROVE IInv'
    BY <1>9 DEF CompleteTransfer, StatusAfter, End
  <1>10. ASSUME NEW t \in Transfers, FailTransfer(t) PROVE IInv'
    <2>1. left' \in Nat /\ bank' \in [Transfers -> {"none", "accepted", "success",
                                                    "failed", "reversed"}]
      <3>1. \/ left' = left /\ bank' = bank
            \/ left' = left + order[t].amount /\ bank' = [bank EXCEPT ![t] = "accepted"]
        BY <1>10 DEF FailTransfer, AcceptPayout
      <3>2. left \in Nat /\ order[t].amount \in Nat
        BY <1>c
      <3>3. left + order[t].amount \in Nat
        BY ONLY <3>2
      <3>4. QED BY <3>1, <3>3
    <2>2. status' \in [Transfers -> {"none", "pending", "processing", "completed",
                                     "failed", "cancelled"}]
      BY <1>10 DEF FailTransfer, StatusAfter
    <2>3. faults' \in Nat /\ atWork' \subseteq Transfers \union Cancellers \union Runs
      BY <1>10 DEF FailTransfer, Fault, End
    <2>4. ref' \in [Transfers -> BOOLEAN]
      <3>1. (pc[t] = "finish" /\ order[t].kind = "bank") \in BOOLEAN
        OBVIOUS
      <3>2. ref' = [ref EXCEPT ![t] = pc[t] = "finish" /\ order[t].kind = "bank"]
        BY <1>10 DEF FailTransfer
      <3>3. ref \in [Transfers -> BOOLEAN]
        OBVIOUS
      <3>4. QED BY ONLY <3>1, <3>2, <3>3, Zenon
    <2>5. /\ pc' \in [Transfers -> Labels] /\ copy' \in [Transfers -> Row]
          /\ \A x \in Transfers : /\ copy'[x].balance >= 0
                                  /\ pc'[x] = "convert" => copy'[x].balance >= order[x].amount
      BY <1>10, <1>a DEF FailTransfer
    <2>6. QED BY <1>10, <2>1, <2>2, <2>3, <2>4, <2>5 DEF FailTransfer
  <1>11. ASSUME NEW t \in Transfers, CrashTransfer(t) PROVE IInv'
    BY <1>11, <1>a DEF CrashTransfer, Fault, End
  <1>12. ASSUME NEW t \in Transfers, NEW s \in Decisions, NEW named \in BOOLEAN,
                BankDecides(t, s, named)
         PROVE IInv'
    <2>1. events' \subseteq Transfers \X Decisions \X BOOLEAN
      BY <1>12 DEF BankDecides
    <2>2. bank' \in [Transfers -> {"none", "accepted", "success", "failed", "reversed"}]
      BY <1>12 DEF BankDecides, Decisions
    <2>3. QED BY <1>12, <2>1, <2>2 DEF BankDecides
  <1>13. ASSUME NEW k \in Cancellers, NEW t \in Transfers, CancelTransfer(k, t) PROVE IInv'
    BY <1>13 DEF CancelTransfer, Begin
  <1>14. ASSUME NEW k \in Cancellers, ReadSender(k) PROVE IInv'
    <2>1. of[k] \in Transfers
      BY <1>14 DEF ReadSender
    <2>2. row[order[of[k]].from] \in Row /\ row[order[of[k]].from].balance >= 0
      BY <1>c, <2>1
    <2>3. QED BY <1>14, <2>1, <2>2 DEF ReadSender
  <1>15. ASSUME NEW k \in Cancellers, CommitCancel(k) PROVE IInv'
    <2>1. of[k] \in Transfers
      BY <1>15 DEF CommitCancel
    <2>2. 0 - Refund(of[k]) \in Int /\ ccopy[k] \in Row
          /\ ccopy[k].balance >= 0 - Refund(of[k])
      <3>1. ccopy[k].balance \in Int /\ ccopy[k].balance >= 0 /\ ccopy[k] \in Row
        BY DEF Row
      <3>2. Refund(of[k]) \in Nat
        BY <1>c, <2>1
      <3>3. QED BY <3>1, <3>2
    <2>3. /\ Debited(ccopy[k], 0 - Refund(of[k])) \in Row
          /\ Debited(ccopy[k], 0 - Refund(of[k])).balance >= 0
      BY <2>2, DebitedRow
    <2>4. row' \in [Wallets -> Row] /\ \A w \in Wallets : row'[w].balance >= 0
      BY <1>15, <1>c, <2>1, <2>3 DEF CommitCancel
    <2>5. QED BY <1>15, <1>a, <2>1, <2>4 DEF CommitCancel, End
  <1>16. ASSUME NEW k \in Cancellers, RollbackCancel(k) PROVE IInv'
    BY <1>16, <1>a DEF RollbackCancel, Fault, End
  <1>17. ASSUME NEW e \in events, HandlePaystackWebhook(e) PROVE IInv'
    <2>1. e[1] \in Transfers
      OBVIOUS
    <2>2. status' \in [Transfers -> {"none", "pending", "processing", "completed",
                                     "failed", "cancelled"}]
      BY <1>17, <2>1 DEF HandlePaystackWebhook, StatusFor
    <2>3. events' \subseteq events
      BY <1>17 DEF HandlePaystackWebhook
    <2>4. QED BY <1>17, <2>2, <2>3 DEF HandlePaystackWebhook
  <1> QED
    BY <1>1, <1>2, <1>3, <1>4, <1>5, <1>6, <1>7, <1>8, <1>9, <1>10, <1>11, <1>12, <1>13,
       <1>14, <1>15, <1>16, <1>17 DEF TransferNext

(* The steps of process:payouts. *)
LEMMA PayoutKeeps ==
    ASSUME IInv, PayoutNext, UNCHANGED transferVars
    PROVE  IInv'
  <1> USE DEF IInv, TypeOK, TransferTypes, PayoutTypes, transferVars, BalanceNonNegative,
              CopiesCover, rowVars
  <1>a. NoRow \in Row /\ NoRow.balance = 0
    BY DEF NoRow, Row
  <1>b. Business \in Wallets
    BY BusinessAssumption
  <1>c. \A r \in Runs : /\ rcopy[r] \in Row /\ rcopy[r].balance \in Nat
                      /\ rsnap[r] \in Row /\ rsnap[r].balance \in Int
    BY DEF Row
  <1>1. CASE PassInterval
    BY <1>1 DEF PassInterval
  <1>2. ASSUME NEW r \in Runs, RunPayouts(r) PROVE IInv'
    BY <1>2 DEF RunPayouts, Begin, ToStep
  <1>3. ASSUME NEW r \in Runs, LeaveBusiness(r)
        PROVE  /\ rpc' = [rpc EXCEPT ![r] = "idle"]
               /\ rcopy' \in [Runs -> Row] /\ rsnap' \in [Runs -> Row]
               /\ rday' \in [Runs -> Nat]
               /\ atWork' \subseteq Transfers \union Cancellers \union Runs
               /\ \A x \in Runs :
                    /\ rcopy'[x].balance >= 0
                    /\ rpc'[x] \in {"send", "deduct"} => rsnap'[x].balance >= rcopy'[x].balance
    BY <1>3, <1>a DEF LeaveBusiness, ToStep, End
  <1>4. ASSUME NEW r \in Runs, ReadWallets(r) PROVE IInv'
    <2>1. CASE row[Business].balance > 0
      <3>1. /\ rcopy' = [rcopy EXCEPT ![r] = row[Business]]
            /\ rpc' = [rpc EXCEPT ![r] = FirstStep]
            /\ FirstStep \in {"convert", "load", "record"}
        BY <1>4, <2>1 DEF ReadWallets, ToStep, FirstStep
      <3>2. QED BY <1>4, <2>1, <3>1, <1>b DEF ReadWallets
    <2>2. CASE ~(row[Business].balance > 0)
      BY <1>3, <1>4, <2>2 DEF ReadWallets
    <2>3. QED BY <2>1, <2>2
  <1>5. ASSUME NEW r \in Runs, EmptyWallet(r) PROVE IInv'
    <2>1. /\ Debited(rcopy[r], rcopy[r].balance) \in Row
          /\ Debited(rcopy[r], rcopy[r].balance).balance >= 0
      BY <1>c, DebitedRow
    <2>2. row' \in [Wallets -> Row] /\ \A w \in Wallets : row'[w].balance >= 0
      BY <1>5, <1>b, <2>1 DEF EmptyWallet
    <2>3. QED BY <1>5, <2>2 DEF EmptyWallet, ToStep
  <1>6. ASSUME NEW r \in Runs, PaysOut(r) PROVE left' \in Nat /\ paidOn' \in Seq(Nat)
    BY <1>6, <1>c DEF PaysOut
  <1>7. ASSUME NEW r \in Runs, SendsOnChain(r)
        PROVE  left' \in Nat /\ paidOn' \in Seq(Nat) /\ unbooked' \in Int
    BY <1>6, <1>7, <1>c DEF SendsOnChain
  <1>8. ASSUME NEW r \in Runs, ProcessBankPayout(r) PROVE IInv'
    BY <1>6, <1>8 DEF ProcessBankPayout, ToStep
  <1>9. ASSUME NEW r \in Runs, ProcessWalletPayout(r) PROVE IInv'
    <2>1. CASE LeaveBusiness(r)
      BY <1>3, <1>9, <2>1 DEF ProcessWalletPayout
    <2>2. CASE /\ Covered(row[Business], rcopy[r].balance)
               /\ rsnap' = [rsnap EXCEPT ![r] = row[Business]]
               /\ ToStep(r, "send")
               /\ UNCHANGED <<atWork, rcopy, rday>>
      BY <1>9, <2>2, <1>b DEF ProcessWalletPayout, Covered, ToStep
    <2>3. QED BY <1>9, <2>1, <2>2 DEF ProcessWalletPayout
  <1>10. ASSUME NEW r \in Runs, SendWalletPayout(r) PROVE IInv'
    BY <1>7, <1>10 DEF SendWalletPayout, ToStep
  <1>11. ASSUME NEW r \in Runs, DeductWalletPayout(r) PROVE IInv'
    <2>1. /\ Debited(rsnap[r], rcopy[r].balance) \in Row
          /\ Debited(rsnap[r], rcopy[r].balance).balance >= 0
      <3>1. rsnap[r] \in Row /\ rcopy[r].balance \in Int /\ rsnap[r].balance >= rcopy[r].balance
        BY <1>11, <1>c DEF DeductWalletPayout
      <3>2. QED BY ONLY <3>1, DebitedRow
    <2>2. row' \in [Wallets -> Row] /\ \A w \in Wallets : row'[w].balance >= 0
      BY <1>11, <1>b, <2>1 DEF DeductWalletPayout
    <2>3. unbooked' \in Int
      BY <1>11, <1>c DEF DeductWalletPayout
    <2>4. QED BY <1>3, <1>11, <2>2, <2>3 DEF DeductWalletPayout
  <1>12. ASSUME NEW r \in Runs, RecordPayout(r) PROVE IInv'
    BY <1>3, <1>12 DEF RecordPayout
  <1>13. ASSUME NEW r \in Runs, FailPayout(r) PROVE IInv'
    <2>1. left' \in Nat /\ paidOn' \in Seq(Nat) /\ unbooked' \in Int
      BY <1>6, <1>7, <1>13 DEF FailPayout
    <2>2. faults' \in Nat
      BY <1>13 DEF FailPayout, Fault
    <2>3. QED BY <1>3, <1>13, <2>1, <2>2 DEF FailPayout
  <1> QED
    BY <1>1, <1>2, <1>4, <1>5, <1>8, <1>9, <1>10, <1>11, <1>12, <1>13 DEF PayoutNext

LEMMA InitKeeps == Init => IInv
  <1> SUFFICES ASSUME Init PROVE IInv
    OBVIOUS
  <1> USE DEF Init, RowsInit, TransferInit, PayoutInit
  <1>1. NoCopy \in Row /\ NoRow \in Row /\ NoCopy.balance = 0 /\ NoRow.balance = 0
    BY DEF NoCopy, NoRow, Row
  <1>2. row \in [Wallets -> Row] /\ BalanceNonNegative
    BY DEF Row, BalanceNonNegative
  <1>3. TransferTypes
    BY <1>1, OrdersAssumption DEF TransferTypes, Labels
  <1>4. PayoutTypes
    BY <1>1 DEF PayoutTypes
  <1>5. CopiesCover
    BY <1>1 DEF CopiesCover
  <1>6. QED BY <1>2, <1>3, <1>4, <1>5 DEF IInv, TypeOK

LEMMA StepKeeps == IInv /\ [Next]_vars => IInv'
  <1>1. ASSUME IInv, UNCHANGED vars PROVE IInv'
    BY <1>1 DEF IInv, TypeOK, BalanceNonNegative, CopiesCover, TransferTypes, PayoutTypes,
                vars, rowVars, transferVars, payoutVars
  <1>2. QED BY <1>1, DepositKeeps, TransferKeeps, PayoutKeeps DEF Next

LEMMA Invariance == Spec => []IInv
  <1>1. QED BY InitKeeps, StepKeeps, PTL DEF Spec

(* Every variable keeps its type: TransferService, ProcessPayouts and the  *)
(* rows they share.                                                        *)
THEOREM TypeCorrect == Spec => []TypeOK
  <1>1. IInv => TypeOK
    BY DEF IInv
  <1>2. QED BY <1>1, Invariance, PTL

(* No balance is ever negative, although the saves of TransferService and  *)
(* ProcessPayouts overwrite each other's (TransferService lines 93-139,    *)
(* 318-346).                                                               *)
THEOREM BalanceAlwaysNonNegative == Spec => []BalanceNonNegative
  <1>1. IInv => BalanceNonNegative
    BY DEF IInv
  <1>2. QED BY <1>1, Invariance, PTL

-----------------------------------------------------------------------------
(* Settlement and the bank's events. *)

(* Where a transfer is tells what its row says; an event tells what the    *)
(* bank has decided, and may have taken back.                              *)
SettlementInv ==
    /\ CompletedWasHandedOver
    /\ \A t \in Transfers :
        /\ status[t] = "completed" => pc[t] = "over"
        /\ ref[t] => pc[t] = "over" /\ order[t].kind = "bank"
        /\ bank[t] # "none" => pc[t] \in {"finish", "over"}
        /\ pc[t] = "finish" => /\ order[t].kind = "bank" => bank[t] # "none"
                               /\ order[t].kind = "user" => t \in credited
        /\ pc[t] = "credit" => order[t].kind = "user"
    /\ \A e \in events :
        bank[e[1]] \in IF e[2] = "success" THEN {"success", "reversed"}
                                         ELSE {"failed", "reversed"}

(* A step that leaves all of this alone. *)
LEMMA SettlementUnchanged ==
    ASSUME SettlementInv, UNCHANGED <<status, ref, order, pc, bank, credited, events>>
    PROVE  SettlementInv'
  BY DEF SettlementInv, CompletedWasHandedOver

LEMMA SettlementKeeps ==
    ASSUME TypeOK, SettlementInv, TransferNext
    PROVE  SettlementInv'
  <1> USE DEF TypeOK, TransferTypes, SettlementInv, CompletedWasHandedOver, Goto, SetStatus,
              rowVars, Labels
  <1>1. ASSUME NEW t \in Transfers, NEW o \in Orders, InitiateTransfer(t, o)
        PROVE SettlementInv'
    BY <1>1 DEF InitiateTransfer
  <1>2. ASSUME NEW t \in Transfers, CommitTransfer(t) PROVE SettlementInv'
    BY <1>2 DEF CommitTransfer
  <1>3. ASSUME NEW t \in Transfers, RollbackTransfer(t) PROVE SettlementInv'
    BY <1>3 DEF RollbackTransfer
  <1>4. ASSUME NEW t \in Transfers, MarkProcessing(t) PROVE SettlementInv'
    BY <1>4 DEF MarkProcessing
  <1>5. ASSUME NEW t \in Transfers, SettleToBank(t) PROVE SettlementInv'
    <2>1. bank[t] = "none"
      BY <1>5 DEF SettleToBank
    <2>2. \A e \in events : e[1] # t /\ e[1] \in Transfers
      BY <2>1
    <2>3. bank' = [bank EXCEPT ![t] = "accepted"]
      BY <1>5 DEF SettleToBank, AcceptPayout
    <2>4. \A e \in events : bank'[e[1]] = bank[e[1]]
      BY <2>2, <2>3
    <2>5. QED BY <1>5, <2>3, <2>4 DEF SettleToBank
  <1>6. ASSUME NEW t \in Transfers, ReadRecipient(t) PROVE SettlementInv'
    BY <1>6 DEF ReadRecipient
  <1>7. ASSUME NEW t \in Transfers, SettleToUser(t) PROVE SettlementInv'
    BY <1>7 DEF SettleToUser
  <1>8. ASSUME NEW t \in Transfers, SettleToMerchant(t) PROVE SettlementInv'
    BY <1>8 DEF SettleToMerchant
  <1>9. ASSUME NEW t \in Transfers, CompleteTransfer(t) PROVE SettlementInv'
    BY <1>9 DEF CompleteTransfer, StatusAfter
  <1>10. ASSUME NEW t \in Transfers, FailTransfer(t) PROVE SettlementInv'
    <2>1. CASE UNCHANGED bank
      BY <1>10, <2>1 DEF FailTransfer, StatusAfter
    <2>2. CASE pc[t] = "settle" /\ AcceptPayout(t)
      <3>1. bank[t] = "none"
        BY <2>2
      <3>2. \A e \in events : e[1] # t /\ e[1] \in Transfers
        BY <3>1
      <3>3. bank' = [bank EXCEPT ![t] = "accepted"]
        BY <2>2 DEF AcceptPayout
      <3>4. \A e \in events : bank'[e[1]] = bank[e[1]]
        BY <3>2, <3>3
      <3>5. QED BY <1>10, <2>2, <3>3, <3>4 DEF FailTransfer, StatusAfter
    <2>3. QED BY <1>10, <2>1, <2>2 DEF FailTransfer
  <1>11. ASSUME NEW t \in Transfers, CrashTransfer(t) PROVE SettlementInv'
    BY <1>11 DEF CrashTransfer
  <1>12. ASSUME NEW t \in Transfers, NEW s \in Decisions, NEW named \in BOOLEAN,
                BankDecides(t, s, named)
         PROVE SettlementInv'
    BY <1>12 DEF BankDecides
  <1>13. ASSUME NEW k \in Cancellers, NEW t \in Transfers, CancelTransfer(k, t)
         PROVE SettlementInv'
    BY <1>13 DEF CancelTransfer
  <1>14. ASSUME NEW k \in Cancellers, ReadSender(k) PROVE SettlementInv'
    BY <1>14 DEF ReadSender
  <1>15. ASSUME NEW k \in Cancellers, CommitCancel(k) PROVE SettlementInv'
    BY <1>15 DEF CommitCancel
  <1>16. ASSUME NEW k \in Cancellers, RollbackCancel(k) PROVE SettlementInv'
    BY <1>16 DEF RollbackCancel
  <1>17. ASSUME NEW e \in events, HandlePaystackWebhook(e) PROVE SettlementInv'
    <2>1. e[1] \in Transfers /\ events' \subseteq events
      BY <1>17 DEF HandlePaystackWebhook
    <2>2. \A t \in Transfers :
             status'[t] = "completed" => status[t] = "completed" \/ (t = e[1] /\ ref[t])
      BY <1>17, <2>1 DEF HandlePaystackWebhook, Finds
    <2>3. QED BY <1>17, <2>1, <2>2 DEF HandlePaystackWebhook
  <1> QED
    BY <1>1, <1>2, <1>3, <1>4, <1>5, <1>6, <1>7, <1>8, <1>9, <1>10, <1>11, <1>12, <1>13,
       <1>14, <1>15, <1>16, <1>17 DEF TransferNext

LEMMA SettlementInvariance == Spec => []SettlementInv
  <1>1. Init => SettlementInv
    BY DEF Init, TransferInit, SettlementInv, CompletedWasHandedOver
  <1>2. TypeOK /\ SettlementInv /\ [Next]_vars => SettlementInv'
    <2>1. ASSUME SettlementInv, UNCHANGED transferVars PROVE SettlementInv'
      BY <2>1, SettlementUnchanged DEF transferVars
    <2>2. ASSUME UNCHANGED vars PROVE UNCHANGED transferVars
      BY <2>2 DEF vars
    <2>3. QED BY <2>1, <2>2, SettlementKeeps DEF Next
  <1>3. QED BY <1>1, <1>2, TypeCorrect, PTL DEF Spec

(* A transfer the user sees as completed was accepted by the bank or       *)
(* credited to its recipient, however requests, cancellations, events and  *)
(* failures interleave (TransferService lines 223-266).                    *)
THEOREM CompletedAlwaysHandedOver == Spec => []CompletedWasHandedOver
  <1>1. SettlementInv => CompletedWasHandedOver
    BY DEF SettlementInv
  <1>2. QED BY <1>1, SettlementInvariance, PTL

(* Once its settlement is over, a transfer's status is only changed by a   *)
(* cancellation under way and by the bank's events, and these never make   *)
(* it say what the bank has not decided, late or repeated as they may be   *)
(* (PayoutWebhookController lines 89-212).                                 *)
THEOREM AlwaysFollowsBank == Spec => FollowsBank
  <1> DEFINE Follows(t) ==
        \/ status'[t] = "completed" /\ bank[t] \in {"success", "reversed"}
        \/ status'[t] = "failed" /\ bank[t] \in {"failed", "reversed"}
        \/ status'[t] = "cancelled" /\ \E k \in Cancellers : cpc[k] = "commit" /\ of[k] = t
  <1>1. ASSUME TypeOK, SettlementInv, [Next]_vars, NEW t \in Transfers,
               pc[t] = "over", status'[t] # status[t]
        PROVE  Follows(t)
    <2> USE <1>1 DEF TypeOK, TransferTypes, SettlementInv, Goto, SetStatus, rowVars
    <2>1. TransferNext
      BY DEF Next, vars, transferVars
    <2>2. ASSUME NEW x \in Transfers,
                 \/ \E o \in Orders : InitiateTransfer(x, o)
                 \/ CommitTransfer(x) \/ RollbackTransfer(x) \/ MarkProcessing(x)
                 \/ SettleToBank(x) \/ ReadRecipient(x) \/ SettleToUser(x)
                 \/ SettleToMerchant(x) \/ CompleteTransfer(x) \/ FailTransfer(x)
                 \/ CrashTransfer(x)
                 \/ \E s \in Decisions, named \in BOOLEAN : BankDecides(x, s, named)
          PROVE  FALSE
      <3>1. status' = status \/ (x # t /\ \E s : SetStatus(x, s))
        BY <2>2 DEF InitiateTransfer, CommitTransfer, RollbackTransfer, MarkProcessing,
             SettleToBank, ReadRecipient, SettleToUser, SettleToMerchant, CompleteTransfer,
             FailTransfer, CrashTransfer, BankDecides
      <3>2. QED BY <3>1
    <2>3. ASSUME NEW k \in Cancellers,
                 \/ \E x \in Transfers : CancelTransfer(k, x)
                 \/ ReadSender(k) \/ CommitCancel(k) \/ RollbackCancel(k)
          PROVE  Follows(t)
      <3>1. status' = status \/ (cpc[k] = "commit" /\ SetStatus(of[k], "cancelled"))
        BY <2>3 DEF CancelTransfer, ReadSender, CommitCancel, RollbackCancel
      <3>2. QED BY <3>1
    <2>4. ASSUME NEW e \in events, HandlePaystackWebhook(e)
          PROVE  Follows(t)
      <3>1. e[1] = t /\ status'[t] = StatusFor(e[2])
        BY <2>4 DEF HandlePaystackWebhook
      <3>2. QED BY <3>1 DEF StatusFor
    <2>5. QED BY <2>1, <2>2, <2>3, <2>4 DEF TransferNext
  <1>2. TypeOK /\ SettlementInv /\ [Next]_vars =>
          [\A t \in Transfers : pc[t] = "over" /\ status'[t] # status[t] => Follows(t)]_status
    BY <1>1
  <1>3. QED BY <1>2, TypeCorrect, SettlementInvariance, PTL DEF Spec, FollowsBank

-----------------------------------------------------------------------------
(* In series. *)

(* One transfer, cancellation or run at a time; what a cancellation works  *)
(* on is over and has not been settled.                                    *)
SerialInv ==
    inSeries =>
    /\ \A x, y \in atWork : x = y
    /\ \A t \in Transfers : pc[t] \in {"convert", "mark", "settle", "credit", "finish"}
                            => t \in atWork
    /\ \A k \in Cancellers : cpc[k] \in {"read", "commit"} =>
        /\ k \in atWork
        /\ of[k] \in Transfers /\ pc[of[k]] = "over"
        /\ bank[of[k]] = "none" /\ of[k] \notin credited
    /\ \A t \in Transfers :
        /\ pc[t] \in {"idle", "convert"} => status[t] = "none"
        /\ pc[t] \in {"settle", "credit", "finish"} => status[t] = "processing"
        /\ pc[t] \in {"idle", "convert", "mark"} \/ status[t] = "pending"
           => bank[t] = "none" /\ t \notin credited
        /\ bank[t] = "accepted" => pc[t] \in {"finish", "over"}
        /\ status[t] = "cancelled" => bank[t] = "none" /\ t \notin credited

LEMMA SerialTransfer ==
    ASSUME TypeOK, SettlementInv, SerialInv, inSeries, TransferNext
    PROVE  SerialInv'
  <1> USE DEF TypeOK, TransferTypes, SettlementInv, SerialInv, Goto, SetStatus, rowVars,
              Labels, MayBegin, Begin, End
  <1>a. Transfers \intersect Cancellers = {}
    BY AtWorkAssumption
  <1>1. ASSUME NEW t \in Transfers, NEW o \in Orders, InitiateTransfer(t, o) PROVE SerialInv'
    BY <1>1 DEF InitiateTransfer
  <1>2. ASSUME NEW t \in Transfers, CommitTransfer(t) PROVE SerialInv'
    BY <1>2 DEF CommitTransfer
  <1>3. ASSUME NEW t \in Transfers, RollbackTransfer(t) PROVE SerialInv'
    BY <1>3, <1>a DEF RollbackTransfer
  <1>4. ASSUME NEW t \in Transfers, MarkProcessing(t) PROVE SerialInv'
    BY <1>4 DEF MarkProcessing
  <1>5. ASSUME NEW t \in Transfers, SettleToBank(t) PROVE SerialInv'
    BY <1>5, <1>a DEF SettleToBank, AcceptPayout
  <1>6. ASSUME NEW t \in Transfers, ReadRecipient(t) PROVE SerialInv'
    BY <1>6 DEF ReadRecipient
  <1>7. ASSUME NEW t \in Transfers, SettleToUser(t) PROVE SerialInv'
    BY <1>7, <1>a DEF SettleToUser
  <1>8. ASSUME NEW t \in Transfers, SettleToMerchant(t) PROVE SerialInv'
    BY <1>8 DEF SettleToMerchant
  <1>9. ASSUME NEW t \in Transfers, CompleteTransfer(t) PROVE SerialInv'
    BY <1>9, <1>a DEF CompleteTransfer, StatusAfter
  <1>10. ASSUME NEW t \in Transfers, FailTransfer(t) PROVE SerialInv'
    BY <1>10, <1>a DEF FailTransfer, StatusAfter, AcceptPayout
  <1>11. ASSUME NEW t \in Transfers, CrashTransfer(t) PROVE SerialInv'
    BY <1>11, <1>a DEF CrashTransfer
  <1>12. ASSUME NEW t \in Transfers, NEW s \in Decisions, NEW named \in BOOLEAN,
                BankDecides(t, s, named)
         PROVE SerialInv'
    BY <1>12 DEF BankDecides
  <1>13. ASSUME NEW k \in Cancellers, NEW t \in Transfers, CancelTransfer(k, t)
         PROVE SerialInv'
    BY <1>13 DEF CancelTransfer, Cancellable
  <1>14. ASSUME NEW k \in Cancellers, ReadSender(k) PROVE SerialInv'
    BY <1>14 DEF ReadSender
  <1>15. ASSUME NEW k \in Cancellers, CommitCancel(k) PROVE SerialInv'
    BY <1>15, <1>a DEF CommitCancel
  <1>16. ASSUME NEW k \in Cancellers, RollbackCancel(k) PROVE SerialInv'
    BY <1>16, <1>a DEF RollbackCancel
  <1>17. ASSUME NEW e \in events, HandlePaystackWebhook(e) PROVE SerialInv'
    <2>1. e[1] \in Transfers /\ events' \subseteq events
      BY <1>17 DEF HandlePaystackWebhook
    <2>2. status' = status \/ (ref[e[1]] /\ status' = [status EXCEPT ![e[1]] = StatusFor(e[2])])
      BY <1>17 DEF HandlePaystackWebhook, Finds
    <2>3. StatusFor(e[2]) \in {"completed", "failed"}
      BY DEF StatusFor
    <2>4. QED BY <1>17, <2>1, <2>2, <2>3 DEF HandlePaystackWebhook
  <1> QED
    BY <1>1, <1>2, <1>3, <1>4, <1>5, <1>6, <1>7, <1>8, <1>9, <1>10, <1>11, <1>12, <1>13,
       <1>14, <1>15, <1>16, <1>17 DEF TransferNext

LEMMA SerialPayout ==
    ASSUME SerialInv, inSeries, PayoutNext, UNCHANGED transferVars
    PROVE  SerialInv'
  <1>1. \/ UNCHANGED <<atWork, inSeries>>
        \/ \E r \in Runs : /\ (atWork = {} /\ atWork' = atWork \union {r}) \/ atWork' = atWork \ {r}
                           /\ UNCHANGED inSeries
    BY DEF PayoutNext, PassInterval, RunPayouts, ReadWallets, EmptyWallet, ProcessBankPayout,
           ProcessWalletPayout, SendWalletPayout, DeductWalletPayout, RecordPayout,
           FailPayout, LeaveBusiness, MayBegin, Begin, End, rowVars
  <1>2. CASE UNCHANGED <<atWork, inSeries>>
    BY <1>2 DEF SerialInv, transferVars
  <1>3. ASSUME NEW r \in Runs, UNCHANGED inSeries,
               (atWork = {} /\ atWork' = atWork \union {r}) \/ atWork' = atWork \ {r}
        PROVE  SerialInv'
    <2>1. r \notin Transfers /\ r \notin Cancellers
      BY AtWorkAssumption
    <2>2. QED BY <1>3, <2>1 DEF SerialInv, transferVars
  <1>4. QED BY <1>1, <1>2, <1>3

LEMMA SerialInvariance == Spec => []SerialInv
  <1>1. Init => SerialInv
    BY DEF Init, RowsInit, TransferInit, SerialInv
  <1>2. TypeOK /\ SettlementInv /\ SerialInv /\ [Next]_vars => SerialInv'
    <2> SUFFICES ASSUME TypeOK, SettlementInv, SerialInv, [Next]_vars
                 PROVE  SerialInv'
      OBVIOUS
    <2>1. inSeries' = inSeries
      BY DEF Next, vars, rowVars, Deposit, TransferNext, PayoutNext, InitiateTransfer,
             CommitTransfer, RollbackTransfer, MarkProcessing, SettleToBank, ReadRecipient,
             SettleToUser, SettleToMerchant, CompleteTransfer, FailTransfer, CrashTransfer,
             BankDecides, CancelTransfer, ReadSender, CommitCancel, RollbackCancel,
             HandlePaystackWebhook, PassInterval, RunPayouts, ReadWallets, EmptyWallet,
             ProcessBankPayout, ProcessWalletPayout, SendWalletPayout, DeductWalletPayout,
             RecordPayout, FailPayout
    <2>2. CASE ~inSeries
      BY <2>1, <2>2 DEF SerialInv
    <2>3. CASE inSeries
      <3>1. ASSUME NEW w \in Earning, NEW a \in Amounts, Deposit(w, a), UNCHANGED transferVars
            PROVE  SerialInv'
        BY <3>1 DEF Deposit, transferVars, SerialInv
      <3>2. CASE UNCHANGED vars
        BY <3>2 DEF vars, rowVars, transferVars, SerialInv
      <3>3. QED BY <2>3, <3>1, <3>2, SerialTransfer, SerialPayout DEF Next
    <2>4. QED BY <2>2, <2>3
  <1>3. QED BY <1>1, <1>2, TypeCorrect, SettlementInvariance, PTL DEF Spec

(* If requests and commands are started one at a time, what was cancelled  *)
(* and given back has neither gone to a bank nor to another user           *)
(* (TransferService lines 300-352), whatever fails or crashes.             *)
THEOREM CancelledIsKeptInSeries == Spec => []CancelledWasKept
  <1>1. SerialInv => CancelledWasKept
    BY DEF SerialInv, CancelledWasKept
  <1>2. QED BY <1>1, SerialInvariance, PTL

(* The run at work has begun in an interval that nothing was paid for yet, *)
(* unless it is about to record its own payment, the last one.             *)
PayoutInv ==
    inSeries /\ faults = 0 /\ method = "bank" =>
    /\ \A r \in Runs : rpc[r] \in {"idle", "wallet", "convert", "pay", "record"}
    /\ \A x, y \in atWork : x = y
    /\ lastPayout <= today
    /\ \A r \in Runs : rpc[r] # "idle" =>
        r \in atWork /\ lastPayout < rday[r] /\ rday[r] <= today
    /\ \A i \in 1..Len(paidOn) :
        \/ paidOn[i] <= lastPayout
        \/ \E r \in Runs : rpc[r] = "record" /\ paidOn[i] = rday[r]
    /\ PaidOncePerInterval

LEMMA PayoutBySteps ==
    ASSUME TypeOK, PayoutInv, inSeries, faults = 0, method = "bank", PayoutNext, faults' = 0,
           UNCHANGED transferVars
    PROVE  PayoutInv'
  <1> USE DEF TypeOK, PayoutTypes, PayoutInv, PaidOncePerInterval, rowVars, MayBegin, Begin,
              End, ToStep
  <1>1. CASE PassInterval
    BY <1>1 DEF PassInterval
  <1>2. ASSUME NEW r \in Runs, RunPayouts(r) PROVE PayoutInv'
    <2>1. \A x \in Runs : rpc[x] = "idle"
      BY <1>2 DEF RunPayouts
    <2>2. atWork' = {r} /\ rday' = [rday EXCEPT ![r] = today] /\ lastPayout < today
      BY <1>2 DEF RunPayouts, Due
    <2>3. rpc'[r] = "wallet" /\ \A x \in Runs \ {r} : rpc'[x] = "idle"
      BY <1>2, <2>1 DEF RunPayouts
    <2>4. \A i \in 1..Len(paidOn) : paidOn[i] <= lastPayout
      BY <2>1
    <2>5. UNCHANGED <<lastPayout, today, paidOn, method>>
      BY <1>2 DEF RunPayouts
    <2>6. \A x \in Runs : rpc'[x] # "idle" => x = r
      BY <2>3
    <2>7. rday'[r] = today
      BY <2>2
    <2>8. lastPayout \in Nat /\ today \in Nat /\ lastPayout <= today
      OBVIOUS
    <2>9. PaidOncePerInterval'
      BY <1>2, <2>5 DEF RunPayouts
    <2>10. QED BY <2>2, <2>3, <2>4, <2>5, <2>6, <2>7, <2>8, <2>9
  <1>a. ASSUME NEW r \in Runs, rpc[r] # "record", LeaveBusiness(r),
               UNCHANGED <<faults, inSeries, method, lastPayout, today, paidOn>>
        PROVE  PayoutInv'
    BY <1>a DEF LeaveBusiness
  <1>b. ASSUME NEW r \in Runs, ReadWallets(r) PROVE PayoutInv'
    <2>1. CASE row[Business].balance > 0
      BY <1>b, <2>1 DEF ReadWallets, FirstStep
    <2>2. CASE ~(row[Business].balance > 0)
      BY <1>a, <1>b, <2>2 DEF ReadWallets
    <2>3. QED BY <2>1, <2>2
  <1>3. ASSUME NEW r \in Runs, EmptyWallet(r) PROVE PayoutInv'
    BY <1>3 DEF EmptyWallet
  <1>4. ASSUME NEW r \in Runs, rpc[r] = "pay", PaysOut(r),
               rpc' = [rpc EXCEPT ![r] = "record"],
               UNCHANGED <<atWork, inSeries, method, lastPayout, today, rday>>
        PROVE  PayoutInv'
    <2>1. paidOn' = Append(paidOn, rday[r]) /\ rday[r] \in Nat /\ paidOn \in Seq(Nat)
      BY <1>4 DEF PaysOut
    <2>2. /\ Len(paidOn') = Len(paidOn) + 1
          /\ paidOn'[Len(paidOn) + 1] = rday[r]
          /\ \A i \in 1..Len(paidOn) : paidOn'[i] = paidOn[i]
      BY <2>1
    <2>3. \A x \in Runs : rpc[x] # "record"
      <3>1. ASSUME NEW x \in Runs, rpc[x] = "record" PROVE FALSE
        <4>1. x \in atWork /\ r \in atWork
          BY <1>4, <3>1
        <4>2. x = r
          BY <4>1
        <4>3. QED BY <1>4, <3>1, <4>2
      <3>2. QED BY <3>1
    <2>4. \A i \in 1..Len(paidOn) : paidOn[i] <= lastPayout /\ paidOn[i] \in Nat
      <3>1. \A i \in 1..Len(paidOn) : paidOn[i] \in Nat
        BY ONLY <2>1
      <3>2. \A i \in 1..Len(paidOn) : paidOn[i] <= lastPayout
        BY <2>3
      <3>3. QED BY <3>1, <3>2
    <2>5. lastPayout < rday[r] /\ lastPayout \in Nat
      BY <1>4
    <2>6. PaidOncePerInterval'
      BY <2>1, <2>2, <2>4, <2>5
    <2>7. rpc'[r] = "record" /\ rday' = rday
      BY <1>4
    <2>8. \A i \in 1..Len(paidOn') :
             \/ paidOn'[i] <= lastPayout'
             \/ \E x \in Runs : rpc'[x] = "record" /\ paidOn'[i] = rday'[x]
      BY <1>4, <2>1, <2>2, <2>4, <2>7
    <2>9. QED BY <1>4, <2>6, <2>8
  <1>5. ASSUME NEW r \in Runs, ProcessBankPayout(r) PROVE PayoutInv'
    BY <1>4, <1>5 DEF ProcessBankPayout
  <1>6. ASSUME NEW r \in Runs,
               ProcessWalletPayout(r) \/ SendWalletPayout(r) \/ DeductWalletPayout(r)
        PROVE  FALSE
    BY <1>6 DEF ProcessWalletPayout, SendWalletPayout, DeductWalletPayout
  <1>7. ASSUME NEW r \in Runs, RecordPayout(r) PROVE PayoutInv'
    <2>1. \A x \in Runs : rpc[x] # "idle" => x = r
      BY <1>7 DEF RecordPayout
    <2>2. lastPayout' = rday[r] /\ lastPayout < rday[r] /\ rday[r] <= today
      BY <1>7 DEF RecordPayout
    <2>3. \A i \in 1..Len(paidOn) : paidOn[i] <= rday[r]
      <3>1. \A i \in 1..Len(paidOn) : paidOn[i] \in Nat
        OBVIOUS
      <3>2. \A i \in 1..Len(paidOn) : paidOn[i] <= lastPayout \/ paidOn[i] = rday[r]
        BY <2>1
      <3>3. rday[r] \in Nat /\ lastPayout \in Nat
        OBVIOUS
      <3>4. QED BY ONLY <2>2, <3>1, <3>2, <3>3
    <2>4. QED BY <1>7, <2>1, <2>2, <2>3 DEF RecordPayout, LeaveBusiness
  <1>8. ASSUME NEW r \in Runs, FailPayout(r) PROVE FALSE
    BY <1>8 DEF FailPayout, Fault
  <1>9. QED BY <1>1, <1>2, <1>b, <1>3, <1>5, <1>6, <1>7, <1>8 DEF PayoutNext

LEMMA TransferCases ==
    ASSUME TransferNext
    PROVE  \/ /\ UNCHANGED <<atWork, inSeries, faults>>
           \/ /\ \E x \in Transfers \union Cancellers :
                    (MayBegin /\ Begin(x)) \/ End(x)
              /\ UNCHANGED inSeries
              /\ UNCHANGED faults \/ Fault
  <1>1. ASSUME NEW t \in Transfers,
               \/ \E o \in Orders : InitiateTransfer(t, o)
               \/ CompleteTransfer(t)
        PROVE  /\ UNCHANGED atWork \/ (MayBegin /\ Begin(t)) \/ End(t)
               /\ UNCHANGED <<inSeries, faults>>
    BY <1>1 DEF InitiateTransfer, CompleteTransfer
  <1>2. ASSUME NEW t \in Transfers,
               RollbackTransfer(t) \/ FailTransfer(t) \/ CrashTransfer(t)
        PROVE  End(t) /\ UNCHANGED inSeries /\ Fault
    BY <1>2 DEF RollbackTransfer, FailTransfer, CrashTransfer
  <1>3. ASSUME NEW t \in Transfers,
               \/ CommitTransfer(t) \/ MarkProcessing(t) \/ SettleToBank(t)
               \/ ReadRecipient(t) \/ SettleToUser(t) \/ SettleToMerchant(t)
               \/ \E s \in Decisions, named \in BOOLEAN : BankDecides(t, s, named)
        PROVE  UNCHANGED <<atWork, inSeries, faults>>
    BY <1>3 DEF CommitTransfer, MarkProcessing, SettleToBank, ReadRecipient, SettleToUser,
                SettleToMerchant, BankDecides, rowVars
  <1>4. ASSUME NEW k \in Cancellers,
               (\E t \in Transfers : CancelTransfer(k, t)) \/ CommitCancel(k)
        PROVE  /\ (MayBegin /\ Begin(k)) \/ End(k)
               /\ UNCHANGED <<inSeries, faults>>
    BY <1>4 DEF CancelTransfer, CommitCancel
  <1>5. ASSUME NEW k \in Cancellers, RollbackCancel(k)
        PROVE  End(k) /\ UNCHANGED inSeries /\ Fault
    BY <1>5 DEF RollbackCancel
  <1>6. ASSUME NEW k \in Cancellers, ReadSender(k)
        PROVE  UNCHANGED <<atWork, inSeries, faults>>
    BY <1>6 DEF ReadSender, rowVars
  <1>7. ASSUME NEW e \in events, HandlePaystackWebhook(e)
        PROVE  UNCHANGED <<atWork, inSeries, faults>>
    BY <1>7 DEF HandlePaystackWebhook, rowVars
  <1>8. QED BY <1>1, <1>2, <1>3, <1>4, <1>5, <1>6, <1>7 DEF TransferNext

LEMMA PayoutCases ==
    ASSUME PayoutNext
    PROVE  UNCHANGED inSeries /\ (UNCHANGED faults \/ Fault)
  <1>1. ASSUME NEW r \in Runs, FailPayout(r)
        PROVE  UNCHANGED inSeries /\ (UNCHANGED faults \/ Fault)
    BY <1>1 DEF FailPayout
  <1>2. QED
    BY <1>1 DEF PayoutNext, PassInterval, RunPayouts, ReadWallets, EmptyWallet,
                ProcessBankPayout, ProcessWalletPayout, SendWalletPayout,
                DeductWalletPayout, RecordPayout, rowVars

(* No step changes whether things are started one at a time, or takes a    *)
(* fault back.                                                             *)
LEMMA StepsInSeries ==
    ASSUME faults \in Nat, [Next]_vars, faults' = 0
    PROVE  inSeries' = inSeries /\ faults = 0
  <1>1. ASSUME UNCHANGED faults \/ Fault PROVE faults = 0
    BY <1>1 DEF Fault
  <1>2. CASE TransferNext
    BY <1>1, <1>2, TransferCases
  <1>3. CASE PayoutNext
    BY <1>1, <1>3, PayoutCases
  <1>4. CASE UNCHANGED vars
    BY <1>4 DEF vars, rowVars
  <1>5. ASSUME NEW w \in Earning, NEW a \in Amounts, Deposit(w, a)
        PROVE  inSeries' = inSeries /\ faults = 0
    BY <1>5 DEF Deposit
  <1>6. QED BY <1>2, <1>3, <1>4, <1>5 DEF Next

LEMMA MethodStays ==
    ASSUME [Next]_vars
    PROVE  method' = method
  <1>1. CASE PayoutNext
    BY <1>1 DEF PayoutNext, PassInterval, RunPayouts, ReadWallets, EmptyWallet,
                ProcessBankPayout, ProcessWalletPayout, SendWalletPayout,
                DeductWalletPayout, RecordPayout, FailPayout
  <1>2. QED BY <1>1 DEF Next, vars, payoutVars

LEMMA WorkOfTransfers ==
    ASSUME inSeries, TransferNext
    PROVE  \/ UNCHANGED atWork
           \/ \E x \in Transfers \union Cancellers :
                (atWork = {} /\ atWork' = atWork \union {x}) \/ atWork' = atWork \ {x}
  BY TransferCases DEF MayBegin, Begin, End

(* If runs and requests are started one at a time and nothing fails, a     *)
(* business is paid to its bank once an interval, whatever is credited to  *)
(* it and whatever intervals pass while a run is at work (ProcessPayouts   *)
(* lines 36-83).                                                           *)
THEOREM PaidOnceInSeries == Spec => []PaidOncePerInterval
  <1>1. Init => PayoutInv
    BY DEF Init, RowsInit, PayoutInit, PayoutInv, PaidOncePerInterval
  <1>2. TypeOK /\ PayoutInv /\ [Next]_vars => PayoutInv'
    <2> SUFFICES ASSUME TypeOK, PayoutInv, [Next]_vars, inSeries', faults' = 0,
                        method' = "bank"
                 PROVE  PayoutInv'
      BY DEF PayoutInv, PaidOncePerInterval
    <2>1. inSeries' = inSeries /\ faults = 0 /\ method = "bank"
      BY StepsInSeries, MethodStays DEF TypeOK
    <2>2. CASE PayoutNext /\ UNCHANGED transferVars
      BY <2>1, <2>2, PayoutBySteps
    <2>3. ASSUME UNCHANGED payoutVars,
                 \/ UNCHANGED atWork
                 \/ \E x \in Transfers \union Cancellers :
                      (atWork = {} /\ atWork' = atWork \union {x}) \/ atWork' = atWork \ {x}
          PROVE  PayoutInv'
      <3>1. \A x \in Transfers \union Cancellers : x \notin Runs
        BY AtWorkAssumption
      <3>2. UNCHANGED <<lastPayout, today, rpc, rday, paidOn, method>>
        BY <2>3 DEF payoutVars
      <3>3. QED BY <2>1, <2>3, <3>1, <3>2 DEF PayoutInv, PaidOncePerInterval
    <2>4. CASE TransferNext /\ UNCHANGED payoutVars
      BY <2>1, <2>3, <2>4, WorkOfTransfers
    <2>5. CASE (\E w \in Earning, a \in Amounts : Deposit(w, a)) /\ UNCHANGED payoutVars
      BY <2>3, <2>5 DEF Deposit
    <2>6. CASE UNCHANGED vars
      BY <2>3, <2>6 DEF vars, rowVars
    <2>7. QED BY <2>2, <2>4, <2>5, <2>6 DEF Next
  <1>3. PayoutInv => PaidOncePerInterval
    BY DEF PayoutInv, PaidOncePerInterval
  <1>4. QED BY <1>1, <1>2, <1>3, TypeCorrect, PTL DEF Spec

-----------------------------------------------------------------------------
(* Sums over finite sets.  What is shown of every size is shown of the set *)
(* of the numbers it holds for, which has no least one missing.            *)

LEMMA Induction ==
    ASSUME NEW T, 0 \in T, \A n \in Nat : n \in T => n + 1 \in T
    PROVE  \A n \in Nat : n \in T
  <1> SUFFICES ASSUME \E n \in Nat : n \notin T PROVE FALSE
    OBVIOUS
  <1>1. PICK R : R = {p \in Nat \X Nat : p[1] < p[2]}
    OBVIOUS
  <1>2. IsWellFoundedOn(R, Nat)
    BY <1>1, NatLessThanWellFounded DEF OpToRel
  <1>3. PICK n \in Nat \ T : \A m \in Nat \ T : <<m, n>> \notin R
    <2>1. Nat \ T \subseteq Nat /\ Nat \ T # {}
      OBVIOUS
    <2>2. QED BY <1>2, <2>1, WFMin
  <1>4. n # 0 /\ n - 1 \in Nat /\ n - 1 < n
    OBVIOUS
  <1>5. n - 1 \notin T
    BY <1>4
  <1>6. <<n - 1, n>> \in R
    BY <1>1, <1>4
  <1>7. QED BY <1>3, <1>4, <1>5, <1>6

(* The sum of f over S as the community modules compute it: g is the       *)
(* function of the subsets of S it is computed with.                       *)
SumOf(S, f) == MapThenSumSet(LAMBDA x : f[x], S)

Some(s) == CHOOSE x \in s : TRUE

Sums(S, f, g) ==
    g = [s \in SUBSET S |-> IF s = {} THEN 0 ELSE f[Some(s)] + g[s \ {Some(s)}]]

(* So far only for the subsets of up to n elements. *)
SumsUpTo(S, f, g, n) ==
    \A s \in SUBSET S : Cardinality(s) <= n =>
        g[s] = IF s = {} THEN 0 ELSE f[Some(s)] + g[s \ {Some(s)}]

LEMMA Sizes ==
    ASSUME NEW S, IsFiniteSet(S), NEW s \in SUBSET S
    PROVE  /\ Cardinality(s) \in Nat
           /\ Cardinality(s) <= 0 <=> s = {}
           /\ Cardinality(s) <= Cardinality(S)
  <1>1. IsFiniteSet(s) /\ Cardinality(s) <= Cardinality(S)
    BY FS_Subset
  <1>2. Cardinality(s) \in Nat
    BY <1>1, FS_CardinalityType
  <1>3. Cardinality(s) = 0 <=> s = {}
    BY <1>1, FS_EmptySet
  <1>4. QED BY <1>1, <1>2, <1>3

LEMMA SomeOf ==
    ASSUME NEW S, IsFiniteSet(S), NEW s \in SUBSET S, s # {}, NEW n \in Nat,
           Cardinality(s) <= n + 1
    PROVE  /\ Some(s) \in s /\ s \ {Some(s)} \in SUBSET S
           /\ Cardinality(s \ {Some(s)}) <= n
  <1>1. Some(s) \in s
    BY DEF Some
  <1>2. IsFiniteSet(s)
    BY FS_Subset
  <1>3. Cardinality(s) \in Nat
    BY <1>2, FS_CardinalityType
  <1>4. Cardinality(s \ {Some(s)}) = Cardinality(s) - 1
    BY <1>1, <1>2, FS_RemoveElement
  <1>5. QED BY <1>1, <1>3, <1>4

LEMMA SumsExist ==
    ASSUME NEW S, IsFiniteSet(S), NEW f
    PROVE  \E g : Sums(S, f, g)
  <1>1. PICK T : T = {n \in Nat : \E g : SumsUpTo(S, f, g, n)}
    OBVIOUS
  <1>2. 0 \in T
    <2>1. PICK g : g = [s \in SUBSET S |-> 0]
      OBVIOUS
    <2>2. SumsUpTo(S, f, g, 0)
      BY <2>1, Sizes DEF SumsUpTo
    <2>3. QED BY <1>1, <2>2
  <1>3. ASSUME NEW n \in Nat, n \in T PROVE n + 1 \in T
    <2>1. PICK g : SumsUpTo(S, f, g, n)
      BY <1>1, <1>3
    <2>2. PICK h : h = [s \in SUBSET S |->
                          IF s = {} THEN 0 ELSE f[Some(s)] + g[s \ {Some(s)}]]
      OBVIOUS
    <2>3. \A s \in SUBSET S : Cardinality(s) <= n => h[s] = g[s]
      BY <2>1, <2>2 DEF SumsUpTo
    <2>4. ASSUME NEW s \in SUBSET S, Cardinality(s) <= n + 1
          PROVE  h[s] = IF s = {} THEN 0 ELSE f[Some(s)] + h[s \ {Some(s)}]
      <3>1. CASE s = {}
        BY <2>2, <3>1
      <3>2. CASE s # {}
        <4>1. s \ {Some(s)} \in SUBSET S /\ Cardinality(s \ {Some(s)}) <= n
          BY <2>4, <3>2, SomeOf
        <4>2. h[s \ {Some(s)}] = g[s \ {Some(s)}]
          BY <2>3, <4>1
        <4>3. QED BY <2>2, <3>2, <4>2
      <3>3. QED BY <3>1, <3>2
    <2>5. SumsUpTo(S, f, h, n + 1)
      BY <2>4 DEF SumsUpTo
    <2>6. QED BY <1>1, <2>5
  <1>4. Cardinality(S) \in Nat /\ \A s \in SUBSET S : Cardinality(s) <= Cardinality(S)
    BY Sizes, FS_CardinalityType
  <1>5. Cardinality(S) \in T
    BY <1>2, <1>3, <1>4, Induction
  <1>6. PICK g : SumsUpTo(S, f, g, Cardinality(S))
    BY <1>1, <1>5
  <1>7. PICK h : h = [s \in SUBSET S |-> g[s]]
    OBVIOUS
  <1>8. ASSUME NEW s \in SUBSET S
        PROVE  h[s] = IF s = {} THEN 0 ELSE f[Some(s)] + h[s \ {Some(s)}]
    <2>1. s # {} => h[s \ {Some(s)}] = g[s \ {Some(s)}]
      BY <1>7
    <2>2. QED BY <1>4, <1>6, <1>7, <2>1 DEF SumsUpTo
  <1>9. Sums(S, f, h)
    BY <1>7, <1>8 DEF Sums
  <1>10. QED BY <1>9

LEMMA SumIsComputed ==
    ASSUME NEW S, IsFiniteSet(S), NEW f
    PROVE  \E g : Sums(S, f, g) /\ SumOf(S, f) = g[S]
  <1>1. PICK g : g = CHOOSE iter : Sums(S, f, iter)
    OBVIOUS
  <1>2. Sums(S, f, g)
    BY <1>1, SumsExist, Zenon
  <1>3. SumOf(S, f) = g[S]
    BY <1>1 DEF SumOf, MapThenSumSet, MapThenFoldSet, Sums, Some
  <1>4. QED BY <1>2, <1>3

(* What one value gains or loses, the sum does. *)
LEMMA SumsDiffer ==
    ASSUME NEW S, IsFiniteSet(S), NEW e \in [S -> Int], NEW f, NEW w \in S, NEW d \in Int,
           f[w] = e[w] + d, \A x \in S \ {w} : f[x] = e[x],
           NEW g, Sums(S, e, g), NEW h, Sums(S, f, h)
    PROVE  g[S] \in Int /\ h[S] = g[S] + d
  <1>1. PICK T : T = {n \in Nat : \A s \in SUBSET S : Cardinality(s) <= n =>
                        g[s] \in Int /\ h[s] = g[s] + (IF w \in s THEN d ELSE 0)}
    OBVIOUS
  <1>2. g[{}] = 0 /\ h[{}] = 0
    BY DEF Sums
  <1>3. 0 \in T
    <2>1. \A s \in SUBSET S : Cardinality(s) <= 0 =>
             g[s] \in Int /\ h[s] = g[s] + (IF w \in s THEN d ELSE 0)
      BY <1>2, Sizes
    <2>2. QED BY <1>1, <2>1
  <1>4. ASSUME NEW n \in Nat, n \in T PROVE n + 1 \in T
    <2>1. ASSUME NEW s \in SUBSET S, Cardinality(s) <= n + 1
          PROVE  g[s] \in Int /\ h[s] = g[s] + (IF w \in s THEN d ELSE 0)
      <3>1. CASE s = {}
        BY <1>2, <3>1
      <3>2. CASE s # {}
        <4>1. PICK x : x = Some(s)
          OBVIOUS
        <4>2. x \in s /\ s \ {x} \in SUBSET S /\ Cardinality(s \ {x}) <= n
          BY <2>1, <3>2, <4>1, SomeOf
        <4>3. g[s] = e[x] + g[s \ {x}] /\ h[s] = f[x] + h[s \ {x}]
          BY <3>2, <4>1 DEF Sums
        <4>4. g[s \ {x}] \in Int /\ h[s \ {x}] = g[s \ {x}] + (IF w \in s \ {x} THEN d ELSE 0)
          BY <1>1, <1>4, <4>2
        <4>5. x \in S /\ e[x] \in Int
          BY <4>2
        <4>6. CASE x = w
          BY <4>2, <4>3, <4>4, <4>5, <4>6
        <4>7. CASE x # w
          BY <4>2, <4>3, <4>4, <4>5, <4>7
        <4>8. QED BY <4>6, <4>7
      <3>3. QED BY <3>1, <3>2
    <2>2. QED BY <1>1, <2>1
  <1>5. Cardinality(S) \in T
    BY <1>3, <1>4, Induction, FS_CardinalityType
  <1>6. QED BY <1>1, <1>5, FS_CardinalityType

LEMMA SumChanges ==
    ASSUME NEW S, IsFiniteSet(S), NEW e \in [S -> Int], NEW f, NEW w \in S, NEW d \in Int,
           f[w] = e[w] + d, \A x \in S \ {w} : f[x] = e[x]
    PROVE  SumOf(S, e) \in Int /\ SumOf(S, f) = SumOf(S, e) + d
  <1>1. PICK g : Sums(S, e, g) /\ SumOf(S, e) = g[S]
    BY SumIsComputed
  <1>2. PICK h : Sums(S, f, h) /\ SumOf(S, f) = h[S]
    BY SumIsComputed
  <1>3. QED BY <1>1, <1>2, SumsDiffer

(* A sum of integers is one, of zeros it is zero, and of naturals it is    *)
(* not negative.                                                           *)
LEMMA SumOfValues ==
    ASSUME NEW S, IsFiniteSet(S), NEW e \in [S -> Int]
    PROVE  /\ SumOf(S, e) \in Int
           /\ (\A x \in S : e[x] = 0) => SumOf(S, e) = 0
           /\ (\A x \in S : e[x] >= 0) => SumOf(S, e) >= 0
  <1> DEFINE Fits(v) == /\ v \in Int
                        /\ (\A x \in S : e[x] = 0) => v = 0
                        /\ (\A x \in S : e[x] >= 0) => v >= 0
  <1>1. PICK g : Sums(S, e, g) /\ SumOf(S, e) = g[S]
    BY SumIsComputed
  <1>2. PICK T : T = {n \in Nat : \A s \in SUBSET S : Cardinality(s) <= n => Fits(g[s])}
    OBVIOUS
  <1>3. g[{}] = 0
    BY <1>1 DEF Sums
  <1>4. 0 \in T
    <2>1. \A s \in SUBSET S : Cardinality(s) <= 0 => g[s] = 0
      BY <1>3, Sizes
    <2>2. Fits(0)
      OBVIOUS
    <2>3. \A s \in SUBSET S : Cardinality(s) <= 0 => Fits(g[s])
      BY <2>1, <2>2
    <2>4. QED BY <1>2, <2>3
  <1>5. ASSUME NEW n \in Nat, n \in T PROVE n + 1 \in T
    <2>1. ASSUME NEW s \in SUBSET S, Cardinality(s) <= n + 1
          PROVE  Fits(g[s])
      <3>1. CASE s = {}
        BY <1>3, <3>1
      <3>2. CASE s # {}
        <4>1. PICK x : x = Some(s)
          OBVIOUS
        <4>2. x \in s /\ s \ {x} \in SUBSET S /\ Cardinality(s \ {x}) <= n
          BY <2>1, <3>2, <4>1, SomeOf
        <4>3. g[s] = e[x] + g[s \ {x}]
          BY <1>1, <3>2, <4>1 DEF Sums
        <4>4. Fits(g[s \ {x}])
          BY <1>2, <1>5, <4>2
        <4>5. x \in S /\ e[x] \in Int
          BY <4>2
        <4>6. QED BY <4>3, <4>4, <4>5
      <3>3. QED BY <3>1, <3>2
    <2>2. QED BY <1>2, <2>1
  <1>6. Cardinality(S) \in T
    BY <1>4, <1>5, Induction, FS_CardinalityType
  <1>7. Fits(g[S])
    BY <1>2, <1>6, FS_CardinalityType
  <1>8. QED BY <1>1, <1>7

Balances == [w \in Wallets |-> row[w].balance]

(* The wallets' total of Movements.tla is such a sum. *)
LEMMA OwnedIsSum ==
    ASSUME TypeOK
    PROVE  MapThenSumSet(LAMBDA w : row[w].balance, Wallets) = SumOf(Wallets, Balances)
  <1> DEFINE Computed(iter) ==
        iter = [s \in SUBSET Wallets |->
                  IF s = {} THEN 0 ELSE row[Some(s)].balance + iter[s \ {Some(s)}]]
  <1>1. PICK g : g = CHOOSE iter : Computed(iter)
    OBVIOUS
  <1>2. MapThenSumSet(LAMBDA w : row[w].balance, Wallets) = g[Wallets]
    BY <1>1 DEF MapThenSumSet, MapThenFoldSet, Some
  <1>3. \A s \in SUBSET Wallets : s # {} => Balances[Some(s)] = row[Some(s)].balance
    BY DEF Balances, Some
  <1>4. ASSUME NEW iter PROVE Computed(iter) <=> Sums(Wallets, Balances, iter)
    BY <1>3 DEF Sums
  <1>5. \E iter : Computed(iter)
    BY <1>4, SumsExist, WalletsAssumption
  <1> HIDE DEF Computed
  <1>6. Computed(g)
    BY <1>1, <1>5, Zenon
  <1>7. PICK h : Sums(Wallets, Balances, h) /\ SumOf(Wallets, Balances) = h[Wallets]
    BY SumIsComputed, WalletsAssumption
  <1>8. PICK b : b = Balances
    OBVIOUS
  <1>9. b \in [Wallets -> Int] /\ Sums(Wallets, b, g) /\ Sums(Wallets, b, h)
    BY <1>4, <1>6, <1>7, <1>8 DEF TypeOK, Row, Balances
  <1>10. Business \in Wallets /\ b[Business] = b[Business] + 0
    BY <1>9, BusinessAssumption
  <1>11. h[Wallets] = g[Wallets] + 0 /\ g[Wallets] \in Int
    BY <1>9, <1>10, SumsDiffer, WalletsAssumption
  <1>12. QED BY <1>2, <1>7, <1>11

-----------------------------------------------------------------------------
(* What left the platform, what the wallets hold and what transfers hold.  *)

(* What a transfer has taken from its sender and not handed on yet, or can *)
(* still give back.                                                        *)
HeldOf(t) ==
    IF pc[t] \in {"mark", "settle", "credit"} \/ (pc[t] = "over" /\ status[t] = "pending")
    THEN order[t].amount ELSE 0

Held == [t \in Transfers |-> HeldOf(t)]

Owned == SumOf(Wallets, Balances)

Owed == SumOf(Transfers, Held)

Excess == left + Owned + Owed - deposited - unbooked

(* One at a time, a copy that is written back is no more than the row,     *)
(* which only grows in between, and what is cancelled is pending.          *)
CopiesInv ==
    inSeries =>
    /\ \A t \in Transfers :
        /\ pc[t] = "convert" => copy[t].balance <= row[order[t].from].balance
        /\ pc[t] = "credit" => copy[t].balance <= row[order[t].to].balance
    /\ \A k \in Cancellers :
        /\ cpc[k] = "commit" => ccopy[k].balance <= row[order[of[k]].from].balance
        /\ cpc[k] \in {"read", "commit"} => status[of[k]] = "pending"
    /\ \A r \in Runs :
        /\ rpc[r] # "idle" => r \in atWork
        /\ rpc[r] = "convert" => rcopy[r].balance <= row[Business].balance
        /\ rpc[r] \in {"send", "deduct"} => rsnap[r].balance <= row[Business].balance

(* Nor is there too much when the bank has been paid what a run has taken. *)
MoneyInv ==
    inSeries =>
    /\ Excess <= 0
    /\ \A r \in Runs : rpc[r] = "pay" => Excess + rcopy[r].balance <= 0

(* While nothing fails, what is not booked is what a run is about to book. *)
BookInv ==
    inSeries /\ faults = 0 =>
    /\ \A r \in Runs : rpc[r] = "deduct" => unbooked = rcopy[r].balance
    /\ (\A r \in Runs : rpc[r] # "deduct") => unbooked = 0

LEMMA ValuesAreIntegers ==
    ASSUME TypeOK
    PROVE  Balances \in [Wallets -> Int] /\ Held \in [Transfers -> Int]
  <1>1. Balances \in [Wallets -> Int]
    BY DEF TypeOK, Row, Balances
  <1>2. ASSUME NEW t \in Transfers PROVE HeldOf(t) \in Int
    <2>1. order[t] \in OrderType
      BY DEF TypeOK, TransferTypes
    <2>2. QED BY <2>1, OrderFacts DEF HeldOf
  <1>3. QED BY <1>1, <1>2 DEF Held

LEMMA ExcessIsInteger ==
    ASSUME TypeOK
    PROVE  Owned \in Int /\ Owed \in Int /\ Excess \in Int
  <1>1. PICK b, h : b = Balances /\ h = Held
    OBVIOUS
  <1>2. SumOf(Wallets, b) \in Int /\ SumOf(Transfers, h) \in Int
    BY <1>1, ValuesAreIntegers, SumOfValues, WalletsAssumption, TransfersAssumption
  <1>3. Owned \in Int /\ Owed \in Int
    BY <1>1, <1>2 DEF Owned, Owed
  <1>4. QED BY <1>3 DEF Excess, TypeOK, PayoutTypes

LEMMA OwnedMoves ==
    ASSUME TypeOK, NEW w \in Wallets, NEW d \in Int,
           row'[w].balance = row[w].balance + d,
           \A x \in Wallets \ {w} : row'[x] = row[x]
    PROVE  Owned' = Owned + d
  <1>1. PICK b, c : b = Balances /\ c = Balances'
    OBVIOUS
  <1>2. b \in [Wallets -> Int]
    BY <1>1, ValuesAreIntegers
  <1>3. c[w] = b[w] + d /\ \A x \in Wallets \ {w} : c[x] = b[x]
    BY <1>1 DEF Balances
  <1>4. SumOf(Wallets, c) = SumOf(Wallets, b) + d
    BY <1>2, <1>3, SumChanges, WalletsAssumption
  <1>5. Owned' = SumOf(Wallets, c) /\ Owned = SumOf(Wallets, b)
    BY <1>1 DEF Owned
  <1>6. QED BY <1>4, <1>5

LEMMA OwedMoves ==
    ASSUME TypeOK, NEW t \in Transfers, NEW d \in Int,
           HeldOf(t)' = HeldOf(t) + d,
           \A x \in Transfers \ {t} :
                pc'[x] = pc[x] /\ status'[x] = status[x] /\ order'[x] = order[x]
    PROVE  Owed' = Owed + d
  <1>1. PICK h, c : h = Held /\ c = Held'
    OBVIOUS
  <1>2. h \in [Transfers -> Int]
    BY <1>1, ValuesAreIntegers
  <1>3. c[t] = h[t] + d
    BY <1>1 DEF Held
  <1>4. ASSUME NEW x \in Transfers \ {t} PROVE c[x] = h[x]
    BY <1>1 DEF Held, HeldOf
  <1>5. SumOf(Transfers, c) = SumOf(Transfers, h) + d
    BY <1>2, <1>3, <1>4, SumChanges, TransfersAssumption
  <1>6. Owed' = SumOf(Transfers, c) /\ Owed = SumOf(Transfers, h)
    BY <1>1 DEF Owed
  <1>7. QED BY <1>5, <1>6

LEMMA OwnedStays ==
    ASSUME UNCHANGED row PROVE UNCHANGED Owned
  <1>1. UNCHANGED Balances
    BY DEF Balances
  <1>2. QED BY <1>1 DEF Owned

LEMMA OwedStays ==
    ASSUME UNCHANGED <<pc, status, order>> PROVE UNCHANGED Owed
  <1>1. ASSUME NEW t \in Transfers PROVE UNCHANGED HeldOf(t)
    BY DEF HeldOf
  <1>2. UNCHANGED Held
    BY <1>1 DEF Held
  <1>3. QED BY <1>2 DEF Owed

NoMore == Excess' \in Int /\ Excess' <= Excess

LEMMA ExcessFalls ==
    ASSUME TypeOK, NEW d \in Int, NEW e \in Int, NEW l \in Int,
           Owned' = Owned + d, Owed' = Owed + e, left' = left + l,
           UNCHANGED <<deposited, unbooked>>, d + e + l <= 0
    PROVE  NoMore
  <1>1. /\ Owned \in Int /\ Owed \in Int /\ left \in Int /\ deposited \in Int
        /\ unbooked \in Int
    BY ExcessIsInteger DEF TypeOK, PayoutTypes
  <1>2. QED BY <1>1 DEF Excess, NoMore

(* No step of a transfer or of its cancellation makes it larger: what the  *)
(* wallets, the platform and the transfer gain, another of them loses.     *)
LEMMA TransfersKeepExcess ==
    ASSUME TypeOK, SettlementInv, SerialInv, CopiesInv, inSeries, TransferNext,
           UNCHANGED payoutVars
    PROVE  NoMore
  <1> USE DEF Goto, SetStatus
  <1>a. \A t \in Transfers :
          /\ order[t] \in OrderType /\ order[t].from \in Wallets /\ order[t].to \in Wallets
          /\ order[t].amount \in Nat /\ Payable(t) \in Int /\ Payable(t) <= order[t].amount
          /\ Refund(t) = order[t].amount
    <2> TAKE t \in Transfers
    <2>1. order[t] \in OrderType
      BY DEF TypeOK, TransferTypes
    <2>2. PICK a : a = order[t].amount
      OBVIOUS
    <2>3. a \in Nat /\ Fee \in Nat /\ order[t].from \in Wallets /\ order[t].to \in Wallets
      BY <2>1, <2>2, OrderFacts, FeeAssumption
    <2>4. Payable(t) = a - Fee /\ Refund(t) = a - Fee + Fee
      BY <2>2 DEF Payable, Refund
    <2>5. QED BY <2>1, <2>2, <2>3, <2>4
  <1>b. \A t \in Transfers : HeldOf(t) \in Int
    BY <1>a DEF HeldOf
  <1>c. left + 0 = left /\ Owned + 0 = Owned /\ Owed + 0 = Owed /\ unbooked' = unbooked
    BY ExcessIsInteger DEF TypeOK, payoutVars
  <1>d. /\ pc \in [Transfers -> Labels] /\ status \in [Transfers -> {"none", "pending",
               "processing", "completed", "failed", "cancelled"}]
        /\ row \in [Wallets -> Row] /\ copy \in [Transfers -> Row]
        /\ ccopy \in [Cancellers -> Row] /\ order \in [Transfers -> OrderType]
    BY DEF TypeOK, TransferTypes
  <1>1. ASSUME NEW t \in Transfers, NEW o \in Orders, InitiateTransfer(t, o)
        PROVE  NoMore
    <2>1. pc[t] = "idle" /\ status[t] = "none"
      BY <1>1 DEF InitiateTransfer, SerialInv
    <2>2. HeldOf(t)' = HeldOf(t) + 0
      BY <1>1, <1>d, <2>1 DEF InitiateTransfer, HeldOf
    <2>3. Owed' = Owed + 0
      BY <1>1, <1>d, <2>2, OwedMoves DEF InitiateTransfer
    <2>4. Owned' = Owned + 0
      BY <1>1, <1>c, OwnedStays DEF InitiateTransfer
    <2>5. QED BY <1>1, <1>c, <2>3, <2>4, ExcessFalls DEF InitiateTransfer
  <1>2. ASSUME NEW t \in Transfers, CommitTransfer(t) PROVE NoMore
    <2>1. PICK w, a, b : w = order[t].from /\ a = order[t].amount /\ b = copy[t].balance
      OBVIOUS
    <2>2. /\ w \in Wallets /\ a \in Nat /\ b \in Int
          /\ row[w].balance \in Int /\ b <= row[w].balance
      BY <1>2, <1>a, <1>d, <2>1 DEF CommitTransfer, CopiesInv, Row
    <2>3. row'[w].balance = b - a /\ \A x \in Wallets \ {w} : row'[x] = row[x]
      BY <1>2, <1>d, <2>1, <2>2 DEF CommitTransfer, Debited
    <2>4. Owned' = Owned + (b - a - row[w].balance)
      BY <2>2, <2>3, OwnedMoves
    <2>5. HeldOf(t) = 0 /\ HeldOf(t)' = a
      BY <1>2, <1>d, <2>1 DEF CommitTransfer, HeldOf
    <2>6. Owed' = Owed + a
      BY <1>2, <1>d, <2>2, <2>5, OwedMoves DEF CommitTransfer
    <2>7. QED BY <1>2, <1>c, <2>2, <2>4, <2>6, ExcessFalls DEF CommitTransfer
  <1>3. ASSUME NEW t \in Transfers,
               UNCHANGED <<row, left, deposited, order>>,
               HeldOf(t)' <= HeldOf(t), HeldOf(t)' \in Int,
               \A x \in Transfers \ {t} : pc'[x] = pc[x] /\ status'[x] = status[x]
        PROVE  NoMore
    <2>1. PICK e : e = HeldOf(t)' - HeldOf(t)
      OBVIOUS
    <2>2. e \in Int /\ e <= 0 /\ HeldOf(t)' = HeldOf(t) + e
      BY <1>3, <1>b, <2>1
    <2>3. Owed' = Owed + e
      BY <1>3, <2>2, OwedMoves
    <2>4. Owned' = Owned + 0
      BY <1>3, <1>c, OwnedStays
    <2>5. QED BY <1>3, <1>c, <2>2, <2>3, <2>4, ExcessFalls
  <1>4. ASSUME NEW t \in Transfers, RollbackTransfer(t) PROVE NoMore
    <2>1. HeldOf(t)' = 0 /\ HeldOf(t) = 0
      BY <1>4, <1>d DEF RollbackTransfer, SerialInv, HeldOf
    <2>2. QED BY <1>3, <1>4, <1>d, <2>1 DEF RollbackTransfer
  <1>5. ASSUME NEW t \in Transfers, MarkProcessing(t) PROVE NoMore
    <2>1. HeldOf(t)' = HeldOf(t)
      BY <1>5, <1>d DEF MarkProcessing, HeldOf
    <2>2. QED BY <1>3, <1>5, <1>b, <1>d, <2>1 DEF MarkProcessing, rowVars
  <1>6. ASSUME NEW t \in Transfers, pc[t] = "settle", AcceptPayout(t),
               UNCHANGED <<row, deposited, order>>,
               HeldOf(t)' = 0,
               \A x \in Transfers \ {t} : pc'[x] = pc[x] /\ status'[x] = status[x]
        PROVE  NoMore
    <2>1. PICK a : a = order[t].amount
      OBVIOUS
    <2>2. a \in Nat /\ left' = left + a
      BY <1>6, <1>a, <2>1 DEF AcceptPayout
    <2>3. HeldOf(t) = a /\ HeldOf(t)' = 0
      BY <1>6, <1>d, <2>1 DEF HeldOf
    <2>4. 0 - a \in Int /\ a + (0 - a) = 0
      BY <2>2
    <2>5. HeldOf(t)' = HeldOf(t) + (0 - a)
      BY <2>3, <2>4
    <2>6. Owed' = Owed + (0 - a)
      BY <1>6, <1>d, <2>4, <2>5, OwedMoves
    <2>7. Owned' = Owned + 0
      BY <1>6, <1>c, OwnedStays
    <2>8. QED BY <1>6, <1>c, <2>2, <2>4, <2>6, <2>7, ExcessFalls
  <1>7. ASSUME NEW t \in Transfers, SettleToBank(t) PROVE NoMore
    <2>1. /\ pc[t] = "settle" /\ AcceptPayout(t) /\ UNCHANGED <<row, deposited, order>>
          /\ pc' = [pc EXCEPT ![t] = "finish"] /\ status' = status
      BY <1>7 DEF SettleToBank
    <2>2. HeldOf(t)' = 0
      BY <1>d, <2>1 DEF HeldOf
    <2>3. QED BY <1>6, <1>d, <2>1, <2>2
  <1>8. ASSUME NEW t \in Transfers, ReadRecipient(t) PROVE NoMore
    <2>1. HeldOf(t)' = HeldOf(t)
      BY <1>8, <1>d DEF ReadRecipient, HeldOf
    <2>2. QED BY <1>3, <1>8, <1>b, <1>d, <2>1 DEF ReadRecipient, rowVars
  <1>9. ASSUME NEW t \in Transfers, SettleToUser(t) PROVE NoMore
    <2>1. PICK w, a, b, p : /\ w = order[t].to /\ a = order[t].amount /\ b = copy[t].balance
                            /\ p = Payable(t)
      OBVIOUS
    <2>2. /\ w \in Wallets /\ a \in Nat /\ b \in Int /\ p \in Int /\ p <= a
          /\ row[w].balance \in Int /\ b <= row[w].balance
      BY <1>9, <1>a, <1>d, <2>1 DEF SettleToUser, CopiesInv, Row
    <2>3. row'[w].balance = b + p /\ \A x \in Wallets \ {w} : row'[x] = row[x]
      BY <1>9, <1>d, <2>1, <2>2 DEF SettleToUser, Row
    <2>4. Owned' = Owned + (b + p - row[w].balance)
      BY <2>2, <2>3, OwnedMoves
    <2>5. HeldOf(t) = a /\ HeldOf(t)' = 0
      BY <1>9, <1>d, <2>1 DEF SettleToUser, HeldOf
    <2>6. Owed' = Owed + (0 - a)
      BY <1>9, <1>d, <2>2, <2>5, OwedMoves DEF SettleToUser
    <2>7. QED BY <1>9, <1>c, <2>2, <2>4, <2>6, ExcessFalls DEF SettleToUser
  <1>10. ASSUME NEW t \in Transfers, SettleToMerchant(t) PROVE NoMore
    <2>1. HeldOf(t)' = 0 /\ HeldOf(t) >= 0
      BY <1>10, <1>a, <1>d DEF SettleToMerchant, HeldOf
    <2>2. QED BY <1>3, <1>10, <1>d, <2>1 DEF SettleToMerchant, rowVars
  <1>11. ASSUME NEW t \in Transfers, CompleteTransfer(t) PROVE NoMore
    <2>1. /\ pc[t] = "finish" /\ pc' = [pc EXCEPT ![t] = "over"]
          /\ status' = [status EXCEPT ![t] = "completed"]
          /\ UNCHANGED <<row, left, deposited, order>>
      BY <1>11 DEF CompleteTransfer, StatusAfter
    <2>2. HeldOf(t)' = 0 /\ HeldOf(t) = 0
      BY <1>d, <2>1 DEF HeldOf
    <2>3. QED BY <1>3, <1>d, <2>1, <2>2
  <1>12. ASSUME NEW t \in Transfers, FailTransfer(t) PROVE NoMore
    <2>1. /\ pc' = [pc EXCEPT ![t] = "over"] /\ status' = [status EXCEPT ![t] = "failed"]
          /\ UNCHANGED <<row, deposited, order>>
          /\ UNCHANGED left \/ (pc[t] = "settle" /\ AcceptPayout(t))
      <3>1. SetStatus(t, StatusAfter(FALSE)) /\ StatusAfter(FALSE) = "failed"
        BY <1>12 DEF FailTransfer, StatusAfter
      <3>2. UNCHANGED left \/ (pc[t] = "settle" /\ AcceptPayout(t))
        BY <1>12, Zenon DEF FailTransfer
      <3>3. pc' = [pc EXCEPT ![t] = "over"] /\ UNCHANGED <<row, deposited, order>>
        BY <1>12 DEF FailTransfer
      <3>4. QED BY <3>1, <3>2, <3>3
    <2>2. HeldOf(t)' = 0 /\ HeldOf(t) >= 0
      BY <1>a, <1>d, <2>1 DEF HeldOf
    <2>3. CASE UNCHANGED left
      BY <1>3, <1>d, <2>1, <2>2, <2>3
    <2>4. CASE pc[t] = "settle" /\ AcceptPayout(t)
      BY <1>6, <1>d, <2>1, <2>2, <2>4
    <2>5. QED BY <2>1, <2>3, <2>4
  <1>13. ASSUME NEW t \in Transfers, CrashTransfer(t) PROVE NoMore
    <2>1. pc[t] = "finish" => status[t] = "processing"
      BY DEF SerialInv
    <2>2. HeldOf(t)' <= HeldOf(t) /\ HeldOf(t)' \in Int
      BY <1>13, <1>a, <1>d, <2>1 DEF CrashTransfer, HeldOf
    <2>3. QED BY <1>3, <1>13, <1>d, <2>2 DEF CrashTransfer
  <1>14. ASSUME UNCHANGED <<row, left, deposited, order, pc, status>> PROVE NoMore
    BY <1>14, <1>c, OwnedStays, OwedStays, ExcessFalls
  <1>15. ASSUME NEW t \in Transfers, NEW s \in Decisions, NEW named \in BOOLEAN,
                BankDecides(t, s, named)
         PROVE  NoMore
    BY <1>14, <1>15 DEF BankDecides, rowVars
  <1>16. ASSUME NEW k \in Cancellers,
                \/ \E t \in Transfers : CancelTransfer(k, t)
                \/ ReadSender(k) \/ RollbackCancel(k)
         PROVE  NoMore
    BY <1>14, <1>16 DEF CancelTransfer, ReadSender, RollbackCancel, rowVars
  <1>17. ASSUME NEW k \in Cancellers, CommitCancel(k) PROVE NoMore
    <2>1. PICK t : t = of[k]
      OBVIOUS
    <2>2. t \in Transfers /\ pc[t] = "over" /\ status[t] = "pending"
      BY <1>17, <2>1 DEF CommitCancel, SerialInv, CopiesInv
    <2>3. PICK w, a, b : w = order[t].from /\ a = order[t].amount /\ b = ccopy[k].balance
      OBVIOUS
    <2>4. /\ w \in Wallets /\ a \in Nat /\ b \in Int
          /\ row[w].balance \in Int /\ b <= row[w].balance /\ Refund(t) = a
      BY <1>17, <1>a, <1>d, <2>1, <2>2, <2>3 DEF CommitCancel, CopiesInv, Row
    <2>5. row'[w].balance = b - (0 - a) /\ \A x \in Wallets \ {w} : row'[x] = row[x]
      BY <1>17, <1>d, <2>1, <2>3, <2>4 DEF CommitCancel, Debited
    <2>6. Owned' = Owned + (b + a - row[w].balance)
      BY <2>4, <2>5, OwnedMoves
    <2>7. HeldOf(t) = a /\ HeldOf(t)' = 0
      BY <1>17, <1>d, <2>1, <2>2, <2>3 DEF CommitCancel, HeldOf
    <2>8. Owed' = Owed + (0 - a)
      BY <1>17, <1>d, <2>1, <2>2, <2>4, <2>7, OwedMoves DEF CommitCancel
    <2>9. QED BY <1>17, <1>c, <2>4, <2>6, <2>8, ExcessFalls DEF CommitCancel
  <1>18. ASSUME NEW e \in events, HandlePaystackWebhook(e) PROVE NoMore
    <2>1. PICK t : t = e[1]
      OBVIOUS
    <2>2. t \in Transfers
      BY <2>1 DEF TypeOK, TransferTypes
    <2>3. status' = status \/ (ref[t] /\ status' = [status EXCEPT ![t] = StatusFor(e[2])])
      BY <1>18, <2>1 DEF HandlePaystackWebhook, Finds
    <2>4. StatusFor(e[2]) # "pending"
      BY DEF StatusFor
    <2>5. UNCHANGED <<row, left, deposited, order, pc>>
      BY <1>18 DEF HandlePaystackWebhook, rowVars
    <2>6. CASE status' = status
      BY <1>14, <2>5, <2>6
    <2>7. CASE status' = [status EXCEPT ![t] = StatusFor(e[2])]
      <3>1. HeldOf(t)' <= HeldOf(t) /\ HeldOf(t)' \in Int
        BY <1>a, <1>d, <2>2, <2>4, <2>5, <2>7 DEF HeldOf
      <3>2. QED BY <1>3, <1>d, <2>2, <2>5, <2>7, <3>1
    <2>8. QED BY <2>3, <2>6, <2>7
  <1> QED
    BY <1>1, <1>2, <1>4, <1>5, <1>7, <1>8, <1>9, <1>10, <1>11, <1>12, <1>13, <1>15, <1>16,
       <1>17, <1>18 DEF TransferNext

(* Who is at work is alone. *)
LEMMA AloneAtWork ==
    ASSUME TypeOK, SerialInv, CopiesInv, inSeries, NEW x, atWork \subseteq {x}
    PROVE  /\ \A t \in Transfers : t # x => pc[t] \in {"idle", "over"}
           /\ \A k \in Cancellers : k # x => cpc[k] \in {"idle", "over"}
           /\ \A r \in Runs : r # x => rpc[r] = "idle"
  <1>1. ASSUME NEW t \in Transfers, t # x PROVE pc[t] \in {"idle", "over"}
    <2>1. t \notin atWork /\ pc[t] \in Labels
      BY <1>1 DEF TypeOK, TransferTypes
    <2>2. QED BY <2>1 DEF SerialInv, Labels
  <1>2. ASSUME NEW k \in Cancellers, k # x PROVE cpc[k] \in {"idle", "over"}
    <2>1. k \notin atWork /\ cpc[k] \in {"idle", "read", "commit", "over"}
      BY <1>2 DEF TypeOK, TransferTypes
    <2>2. QED BY <2>1 DEF SerialInv
  <1>3. QED BY <1>1, <1>2 DEF CopiesInv

(* The steps of transfers and cancellations keep CopiesInv. *)
LEMMA TransfersKeepCopies ==
    ASSUME TypeOK, SettlementInv, SerialInv, CopiesInv, inSeries, TransferNext,
           UNCHANGED payoutVars
    PROVE  CopiesInv'
  <1> USE DEF Goto, SetStatus
  <1>a. /\ pc \in [Transfers -> Labels] /\ copy \in [Transfers -> Row]
        /\ cpc \in [Cancellers -> {"idle", "read", "commit", "over"}]
        /\ ccopy \in [Cancellers -> Row] /\ order \in [Transfers -> OrderType]
        /\ row \in [Wallets -> Row] /\ of \in [Cancellers -> Transfers \union {NoTransfer}]
        /\ rpc' = rpc /\ rcopy' = rcopy /\ rsnap' = rsnap
        /\ \A t \in Transfers : t \notin Cancellers /\ t \notin Runs
        /\ \A k \in Cancellers : k \notin Runs
    BY AtWorkAssumption DEF TypeOK, TransferTypes, payoutVars
  <1>b. \A x, y \in atWork : x = y
    BY DEF SerialInv
  <1>c. \A t \in Transfers : order[t].from \in Wallets /\ order[t].to \in Wallets
    BY <1>a, OrderFacts
  <1>1. ASSUME NEW t \in Transfers,
               \/ pc[t] \in {"convert", "mark", "settle", "credit", "finish"}
               \/ atWork = {},
               \A x \in Transfers \ {t} : pc'[x] = pc[x],
               cpc' = cpc,
               pc'[t] = "convert" => copy'[t].balance <= row'[order'[t].from].balance,
               pc'[t] = "credit" => copy'[t].balance <= row'[order'[t].to].balance
        PROVE  CopiesInv'
    <2>1. atWork \subseteq {t}
      BY <1>1, <1>b DEF SerialInv
    <2>2. /\ \A x \in Transfers : x # t => pc[x] \in {"idle", "over"}
          /\ \A k \in Cancellers : k # t => cpc[k] \in {"idle", "over"}
          /\ \A r \in Runs : r # t => rpc[r] = "idle"
      BY <2>1, AloneAtWork
    <2>3. QED BY <1>1, <1>a, <2>2 DEF CopiesInv
  <1>2. ASSUME NEW t \in Transfers, NEW o \in Orders, InitiateTransfer(t, o)
        PROVE  CopiesInv'
    <2>1. o \in OrderType /\ o.from \in Wallets
      BY OrdersAssumption, OrderFacts
    <2>2. /\ atWork = {} /\ order' = [order EXCEPT ![t] = o] /\ UNCHANGED <<row, cpc>>
          /\ \/ copy' = [copy EXCEPT ![t] = row[o.from]] /\ pc' = [pc EXCEPT ![t] = "convert"]
             \/ pc' = [pc EXCEPT ![t] = "over"]
      BY <1>2 DEF InitiateTransfer, MayBegin
    <2>3. pc'[t] = "convert" => copy'[t] = row'[order'[t].from]
      BY <1>a, <2>2
    <2>4. row[o.from].balance <= row[o.from].balance
      BY <1>a, <2>1 DEF Row
    <2>5. pc'[t] = "convert" => copy'[t].balance <= row'[order'[t].from].balance
      BY <1>a, <2>2, <2>3, <2>4
    <2>6. pc'[t] # "credit" /\ \A x \in Transfers \ {t} : pc'[x] = pc[x]
      BY <1>a, <2>2
    <2>7. QED BY <1>1, <2>2, <2>5, <2>6
  <1>3. ASSUME NEW t \in Transfers, ReadRecipient(t) PROVE CopiesInv'
    <2>1. copy'[t] = row[order[t].to] /\ row[order[t].to] \in Row
      BY <1>3, <1>a, <1>c DEF ReadRecipient
    <2>2. copy'[t].balance <= row'[order'[t].to].balance
      BY <1>3, <2>1 DEF ReadRecipient, rowVars, Row
    <2>3. QED BY <1>1, <1>3, <1>a, <2>2 DEF ReadRecipient
  <1>4. ASSUME NEW t \in Transfers,
               \/ CommitTransfer(t) \/ RollbackTransfer(t) \/ MarkProcessing(t)
               \/ SettleToBank(t) \/ SettleToUser(t) \/ SettleToMerchant(t)
               \/ CompleteTransfer(t) \/ FailTransfer(t) \/ CrashTransfer(t)
        PROVE  CopiesInv'
    <2>1. pc[t] \in {"convert", "mark", "settle", "credit", "finish"} /\ cpc' = cpc
      BY <1>4 DEF CommitTransfer, RollbackTransfer, MarkProcessing, SettleToBank, SettleToUser,
                  SettleToMerchant, CompleteTransfer, FailTransfer, CrashTransfer
    <2>2. \E l \in {"mark", "settle", "finish", "over"} : pc' = [pc EXCEPT ![t] = l]
      BY <1>4 DEF CommitTransfer, RollbackTransfer, MarkProcessing, SettleToBank, SettleToUser,
                  SettleToMerchant, CompleteTransfer, FailTransfer, CrashTransfer
    <2>3. pc'[t] \notin {"convert", "credit"} /\ \A x \in Transfers \ {t} : pc'[x] = pc[x]
      BY <1>a, <2>2
    <2>4. QED BY <1>1, <2>1, <2>3
  <1>5. ASSUME NEW t \in Transfers, NEW s \in Decisions, NEW named \in BOOLEAN,
               BankDecides(t, s, named)
        PROVE  CopiesInv'
    BY <1>5, <1>a DEF BankDecides, rowVars, CopiesInv
  <1>6. ASSUME NEW k \in Cancellers,
               cpc[k] \in {"read", "commit"} \/ atWork = {},
               \A x \in Cancellers \ {k} : cpc'[x] = cpc[x],
               pc' = pc,
               cpc'[k] = "commit" => ccopy'[k].balance <= row'[order'[of'[k]].from].balance,
               cpc'[k] \in {"read", "commit"} => status'[of'[k]] = "pending"
        PROVE  CopiesInv'
    <2>1. atWork \subseteq {k}
      BY <1>6, <1>b DEF SerialInv
    <2>2. /\ \A x \in Transfers : x # k => pc[x] \in {"idle", "over"}
          /\ \A x \in Cancellers : x # k => cpc[x] \in {"idle", "over"}
          /\ \A r \in Runs : r # k => rpc[r] = "idle"
      BY <2>1, AloneAtWork
    <2>3. QED BY <1>6, <1>a, <2>2 DEF CopiesInv
  <1>7. ASSUME NEW k \in Cancellers, NEW t \in Transfers, CancelTransfer(k, t)
        PROVE  CopiesInv'
    <2>1. /\ atWork = {} /\ pc' = pc /\ status' = status
          /\ of' = [of EXCEPT ![k] = t] /\ cpc' = [cpc EXCEPT ![k] = "read"]
          /\ status[t] = "pending"
      BY <1>7 DEF CancelTransfer, MayBegin, Cancellable
    <2>2. QED BY <1>6, <1>a, <2>1
  <1>8. ASSUME NEW k \in Cancellers, ReadSender(k) PROVE CopiesInv'
    <2>1. /\ cpc[k] = "read" /\ pc' = pc /\ status' = status /\ of' = of
          /\ row' = row /\ order' = order
          /\ cpc' = [cpc EXCEPT ![k] = "commit"]
          /\ ccopy' = [ccopy EXCEPT ![k] = row[order[of[k]].from]]
      BY <1>8 DEF ReadSender, rowVars
    <2>2. of[k] \in Transfers /\ status[of[k]] = "pending"
      BY <2>1 DEF SerialInv, CopiesInv
    <2>3. row[order[of[k]].from] \in Row
      BY <1>a, <1>c, <2>2
    <2>4. ccopy'[k].balance <= row'[order'[of'[k]].from].balance
      BY <1>a, <2>1, <2>3 DEF Row
    <2>5. QED BY <1>6, <1>a, <2>1, <2>2, <2>4
  <1>9. ASSUME NEW k \in Cancellers, CommitCancel(k) \/ RollbackCancel(k) PROVE CopiesInv'
    <2>1. cpc[k] \in {"read", "commit"} /\ pc' = pc /\ cpc' = [cpc EXCEPT ![k] = "over"]
      BY <1>9 DEF CommitCancel, RollbackCancel
    <2>2. QED BY <1>6, <1>a, <2>1
  <1>10. ASSUME NEW e \in events, HandlePaystackWebhook(e) PROVE CopiesInv'
    <2>1. /\ UNCHANGED <<row, order, pc, copy, cpc, ccopy, of, atWork>>
          /\ status' = status \/ status' = [status EXCEPT ![e[1]] = StatusFor(e[2])]
      BY <1>10 DEF HandlePaystackWebhook, rowVars
    <2>2. bank[e[1]] # "none"
      BY DEF SettlementInv
    <2>3. ASSUME NEW k \in Cancellers, cpc[k] \in {"read", "commit"}
          PROVE  status'[of[k]] = "pending"
      <3>1. status[of[k]] = "pending" /\ bank[of[k]] = "none" /\ of[k] \in Transfers
        BY <2>3 DEF CopiesInv, SerialInv
      <3>2. PICK t : t = e[1]
        OBVIOUS
      <3>3. t # of[k]
        BY <2>2, <3>1, <3>2
      <3>4. status \in [Transfers -> {"none", "pending", "processing", "completed", "failed",
                                      "cancelled"}]
        BY DEF TypeOK, TransferTypes
      <3>5. status' = status \/ status' = [status EXCEPT ![t] = StatusFor(e[2])]
        BY <2>1, <3>2
      <3>6. QED BY ONLY <3>1, <3>3, <3>4, <3>5
    <2>4. QED BY <1>a, <2>1, <2>3 DEF CopiesInv
  <1> QED
    BY <1>2, <1>3, <1>4, <1>5, <1>7, <1>8, <1>9, <1>10 DEF TransferNext

(* A deposit is a gain of a wallet and of what was deposited. *)
LEMMA DepositKeepsMoney ==
    ASSUME TypeOK, SerialInv, CopiesInv, MoneyInv, inSeries, NEW w \in Earning, NEW a \in Amounts,
           Deposit(w, a), UNCHANGED <<transferVars, payoutVars>>
    PROVE  CopiesInv' /\ MoneyInv'
  <1>1. /\ w \in Wallets /\ a \in Nat
        /\ row \in [Wallets -> Row] /\ copy \in [Transfers -> Row]
        /\ ccopy \in [Cancellers -> Row] /\ rcopy \in [Runs -> Row] /\ rsnap \in [Runs -> Row]
        /\ unbooked \in Int
        /\ \A t \in Transfers : order[t].from \in Wallets /\ order[t].to \in Wallets
    BY EarningAssumption, AmountsAssumption, OrderFacts
       DEF TypeOK, TransferTypes, PayoutTypes
  <1>2. row' = [row EXCEPT ![w].balance = @ + a]
    BY DEF Deposit
  <1>3. /\ row'[w].balance = row[w].balance + a
        /\ \A x \in Wallets \ {w} : row'[x] = row[x]
        /\ \A x \in Wallets : row[x].balance \in Int /\ row'[x].balance \in Int
                              /\ row[x].balance <= row'[x].balance
    BY <1>1, <1>2 DEF Row
  <1>4. UNCHANGED <<left, atWork, pc, copy, status, order, cpc, ccopy, of, rpc, rcopy, rsnap,
                    unbooked>>
    BY DEF Deposit, transferVars, payoutVars
  <1>5. Owned' = Owned + a /\ Owed' = Owed
    BY <1>1, <1>3, <1>4, OwnedMoves, OwedStays
  <1>6. Excess' = Excess
    <2>1. deposited' = deposited + a /\ left \in Int /\ deposited \in Int
      BY DEF Deposit, TypeOK
    <2>2. QED BY <1>1, <1>4, <1>5, <2>1, ExcessIsInteger DEF Excess
  <1>7. MoneyInv'
    BY <1>4, <1>6 DEF MoneyInv
  <1>8. ASSUME NEW t \in Transfers
        PROVE  /\ pc[t] = "convert" => copy[t].balance <= row'[order[t].from].balance
               /\ pc[t] = "credit" => copy[t].balance <= row'[order[t].to].balance
    <2>1. copy[t].balance \in Int
      BY <1>1 DEF Row
    <2>2. QED BY <1>1, <1>3, <2>1 DEF CopiesInv
  <1>9. ASSUME NEW k \in Cancellers, cpc[k] = "commit", of[k] \in Transfers
        PROVE  ccopy[k].balance <= row'[order[of[k]].from].balance
    <2>1. ccopy[k].balance \in Int
      BY <1>1 DEF Row
    <2>2. QED BY <1>1, <1>3, <1>9, <2>1 DEF CopiesInv
  <1>10. ASSUME NEW r \in Runs
         PROVE  /\ rpc[r] = "convert" => rcopy[r].balance <= row'[Business].balance
                /\ rpc[r] \in {"send", "deduct"} => rsnap[r].balance <= row'[Business].balance
    <2>1. rcopy[r].balance \in Int /\ rsnap[r].balance \in Int
      BY <1>1 DEF Row
    <2>2. QED BY <1>3, <2>1, BusinessAssumption DEF CopiesInv
  <1>11. CopiesInv'
    <2>1. \A k \in Cancellers : cpc[k] = "commit" => of[k] \in Transfers
      BY DEF SerialInv
    <2>2. QED BY <1>4, <1>8, <1>9, <1>10, <2>1 DEF CopiesInv
  <1>12. QED BY <1>7, <1>11

(* A run hands on what it has taken, and nobody else is at work. *)
LEMMA PayoutKeepsMoney ==
    ASSUME TypeOK, BalanceNonNegative, SerialInv, CopiesInv, MoneyInv, inSeries, PayoutNext,
           UNCHANGED transferVars
    PROVE  CopiesInv' /\ MoneyInv'
  <1> USE DEF ToStep
  <1>a. /\ row \in [Wallets -> Row] /\ rcopy \in [Runs -> Row] /\ rsnap \in [Runs -> Row]
        /\ rpc \in [Runs -> {"idle", "wallet", "convert", "pay", "load", "send", "deduct",
                             "record"}]
        /\ \A r \in Runs : r \notin Transfers /\ r \notin Cancellers
        /\ Business \in Wallets /\ Excess \in Int /\ Owned \in Int /\ Owed \in Int
        /\ left \in Nat /\ deposited \in Nat /\ unbooked \in Int
    BY AtWorkAssumption, BusinessAssumption, ExcessIsInteger DEF TypeOK, PayoutTypes
  <1>b. UNCHANGED <<pc, copy, status, order, cpc, ccopy, of>> /\ UNCHANGED Owed
    BY OwedStays DEF transferVars
  <1>c. \A x, y \in atWork : x = y
    BY DEF SerialInv
  <1>1. ASSUME UNCHANGED <<rowVars, rpc, rcopy, rsnap, unbooked>> PROVE CopiesInv' /\ MoneyInv'
    <2>1. UNCHANGED Excess
      BY <1>1, <1>b, OwnedStays DEF rowVars, Excess
    <2>2. QED BY <1>1, <1>b, <2>1 DEF CopiesInv, MoneyInv, rowVars
  <1>2. ASSUME NEW r \in Runs, rpc[r] # "idle" \/ atWork = {},
               \A x \in Runs \ {r} : rpc'[x] = rpc[x],
               rpc'[r] # "idle" => r \in atWork',
               rpc'[r] = "convert" => rcopy'[r].balance <= row'[Business].balance,
               rpc'[r] \in {"send", "deduct"} => rsnap'[r].balance <= row'[Business].balance,
               Excess' <= 0,
               rpc'[r] = "pay" => Excess' + rcopy'[r].balance <= 0
        PROVE  CopiesInv' /\ MoneyInv'
    <2>1. atWork \subseteq {r}
      BY <1>2, <1>c DEF CopiesInv
    <2>2. /\ \A x \in Transfers : pc[x] \in {"idle", "over"}
          /\ \A k \in Cancellers : cpc[k] \in {"idle", "over"}
          /\ \A x \in Runs : x # r => rpc[x] = "idle"
      BY <1>a, <2>1, AloneAtWork
    <2>3. CopiesInv'
      BY <1>2, <1>b, <2>2 DEF CopiesInv
    <2>4. MoneyInv'
      BY <1>2, <2>2 DEF MoneyInv
    <2>5. QED BY <2>3, <2>4
  (* What no money moves in. *)
  <1>3. ASSUME NEW r \in Runs, rpc[r] # "idle" \/ atWork = {},
               UNCHANGED <<row, left, deposited, unbooked>>,
               NEW l \in {"idle", "wallet", "convert", "load", "record"},
               rpc' = [rpc EXCEPT ![r] = l],
               l # "idle" => r \in atWork',
               l = "convert" => rcopy'[r].balance <= row[Business].balance
        PROVE  CopiesInv' /\ MoneyInv'
    <2>1. Excess' = Excess
      BY <1>3, <1>b, OwnedStays DEF Excess
    <2>2. Excess' <= 0
      BY <2>1 DEF MoneyInv
    <2>3. rpc'[r] = l /\ \A x \in Runs \ {r} : rpc'[x] = rpc[x]
      BY <1>3, <1>a
    <2>4. QED BY <1>2, <1>3, <2>2, <2>3
  <1>4. ASSUME NEW r \in Runs, rpc[r] # "idle", LeaveBusiness(r),
               UNCHANGED <<row, left, deposited, unbooked>>
        PROVE  CopiesInv' /\ MoneyInv'
    BY <1>3, <1>4 DEF LeaveBusiness
  <1>5. ASSUME NEW r \in Runs, RunPayouts(r) PROVE CopiesInv' /\ MoneyInv'
    BY <1>3, <1>5 DEF RunPayouts, MayBegin, Begin
  <1>6. ASSUME NEW r \in Runs, ReadWallets(r) PROVE CopiesInv' /\ MoneyInv'
    <2>1. CASE row[Business].balance > 0
      <3>1. /\ rcopy' = [rcopy EXCEPT ![r] = row[Business]]
            /\ rpc' = [rpc EXCEPT ![r] = FirstStep] /\ atWork' = atWork
            /\ UNCHANGED <<row, left, deposited, unbooked>> /\ rpc[r] = "wallet"
            /\ FirstStep \in {"convert", "load", "record"}
        BY <1>6, <2>1 DEF ReadWallets, FirstStep
      <3>2. rcopy'[r].balance <= row[Business].balance /\ r \in atWork
        BY <1>a, <3>1 DEF Row, CopiesInv
      <3>3. QED BY <1>3, <3>1, <3>2
    <2>2. CASE ~(row[Business].balance > 0)
      BY <1>4, <1>6, <2>2 DEF ReadWallets
    <2>3. QED BY <2>1, <2>2
  <1>7. ASSUME NEW r \in Runs, EmptyWallet(r) PROVE CopiesInv' /\ MoneyInv'
    <2>1. PICK b, c : b = row[Business].balance /\ c = rcopy[r].balance
      OBVIOUS
    <2>2. b \in Int /\ c \in Int /\ c <= b /\ Excess <= 0
      BY <1>7, <1>a, <2>1 DEF EmptyWallet, CopiesInv, MoneyInv, Row
    <2>3. /\ rpc[r] = "convert" /\ UNCHANGED <<left, deposited, rcopy, atWork, unbooked>>
          /\ rpc' = [rpc EXCEPT ![r] = "pay"]
      BY <1>7 DEF EmptyWallet
    <2>4. row'[Business].balance = c - c /\ \A x \in Wallets \ {Business} : row'[x] = row[x]
      BY <1>7, <1>a, <2>1 DEF EmptyWallet, Debited
    <2>5. Owned' = Owned + (0 - b)
      BY <1>a, <2>1, <2>2, <2>4, OwnedMoves
    <2>6. Excess' = Excess - b
      BY <1>a, <1>b, <2>2, <2>3, <2>5 DEF Excess
    <2>7. b >= 0 => Excess' <= 0 /\ Excess' + c <= 0
      BY <1>a, <2>2, <2>6
    <2>8. b >= 0
      BY <1>a, <2>1 DEF BalanceNonNegative
    <2>9. QED BY <1>2, <1>a, <2>1, <2>3, <2>7, <2>8 DEF CopiesInv
  (* The bank is paid, by a run that goes on or that fails. *)
  <1>8. ASSUME NEW r \in Runs, rpc[r] = "pay", PaysOut(r),
               UNCHANGED <<row, deposited, unbooked>>,
               NEW l \in {"idle", "record"}, rpc' = [rpc EXCEPT ![r] = l],
               l # "idle" => r \in atWork'
        PROVE  CopiesInv' /\ MoneyInv'
    <2>1. PICK c : c = rcopy[r].balance
      OBVIOUS
    <2>2. c \in Int /\ Excess + c <= 0 /\ left' = left + c
      BY <1>8, <1>a, <2>1 DEF MoneyInv, Row, PaysOut
    <2>3. Excess' = Excess + c
      BY <1>8, <1>a, <1>b, <2>2, OwnedStays DEF Excess
    <2>4. Excess' <= 0
      BY <2>2, <2>3
    <2>5. rpc'[r] = l /\ \A x \in Runs \ {r} : rpc'[x] = rpc[x]
      BY <1>8, <1>a
    <2>6. QED BY <1>2, <1>8, <2>4, <2>5
  <1>9. ASSUME NEW r \in Runs, ProcessBankPayout(r) PROVE CopiesInv' /\ MoneyInv'
    <2>1. r \in atWork /\ atWork' = atWork
      BY <1>9 DEF ProcessBankPayout, CopiesInv
    <2>2. QED BY <1>8, <1>9, <2>1 DEF ProcessBankPayout
  <1>10. ASSUME NEW r \in Runs, ProcessWalletPayout(r) PROVE CopiesInv' /\ MoneyInv'
    <2>1. rpc[r] = "load" /\ UNCHANGED <<row, left, deposited, unbooked>> /\ r \in atWork
      BY <1>10 DEF ProcessWalletPayout, CopiesInv
    <2>2. CASE LeaveBusiness(r)
      BY <1>4, <2>1, <2>2
    <2>3. CASE /\ rsnap' = [rsnap EXCEPT ![r] = row[Business]]
               /\ rpc' = [rpc EXCEPT ![r] = "send"] /\ UNCHANGED atWork
      <3>1. rsnap'[r].balance <= row'[Business].balance
        BY <1>a, <2>1, <2>3 DEF Row
      <3>2. Excess' = Excess
        BY <1>b, <2>1, OwnedStays DEF Excess
      <3>3. Excess' <= 0
        BY <3>2 DEF MoneyInv
      <3>4. rpc'[r] = "send" /\ \A x \in Runs \ {r} : rpc'[x] = rpc[x]
        BY <1>a, <2>3
      <3>5. QED BY <1>2, <2>1, <2>3, <3>1, <3>3, <3>4
    <2>4. QED BY <1>10, <2>2, <2>3 DEF ProcessWalletPayout
  (* What is sent on chain is unbooked, whether the run fails or goes on. *)
  <1>11. ASSUME NEW r \in Runs, rpc[r] = "send", SendsOnChain(r), UNCHANGED <<row, deposited>>,
                NEW l \in {"idle", "deduct"}, rpc' = [rpc EXCEPT ![r] = l],
                l # "idle" => r \in atWork' /\ UNCHANGED rsnap
         PROVE  CopiesInv' /\ MoneyInv'
    <2>1. PICK c : c = rcopy[r].balance
      OBVIOUS
    <2>2. c \in Int /\ left' = left + c /\ unbooked' = unbooked + c
      BY <1>11, <1>a, <2>1 DEF SendsOnChain, PaysOut, Row
    <2>3. Excess' = Excess
      BY <1>11, <1>a, <1>b, <2>2, OwnedStays DEF Excess
    <2>4. Excess' <= 0
      BY <2>3 DEF MoneyInv
    <2>5. rpc'[r] = l /\ \A x \in Runs \ {r} : rpc'[x] = rpc[x]
      BY <1>11, <1>a
    <2>6. l # "idle" => rsnap'[r].balance <= row'[Business].balance
      BY <1>11 DEF CopiesInv
    <2>7. QED BY <1>2, <1>11, <2>4, <2>5, <2>6
  <1>12. ASSUME NEW r \in Runs, SendWalletPayout(r) PROVE CopiesInv' /\ MoneyInv'
    <2>1. r \in atWork /\ atWork' = atWork
      BY <1>12 DEF SendWalletPayout, CopiesInv
    <2>2. QED BY <1>11, <1>12, <2>1 DEF SendWalletPayout
  <1>13. ASSUME NEW r \in Runs, DeductWalletPayout(r) PROVE CopiesInv' /\ MoneyInv'
    <2>1. PICK b, c, d : /\ b = row[Business].balance /\ c = rcopy[r].balance
                         /\ d = rsnap[r].balance
      OBVIOUS
    <2>2. /\ rpc[r] = "deduct" /\ UNCHANGED <<left, deposited>> /\ unbooked' = unbooked - c
          /\ row' = [row EXCEPT ![Business] = Debited(rsnap[r], c)]
          /\ rpc' = [rpc EXCEPT ![r] = "idle"]
      BY <1>13, <2>1 DEF DeductWalletPayout, LeaveBusiness
    <2>3. b \in Int /\ c \in Int /\ d \in Int /\ d <= b /\ Excess <= 0
      BY <1>a, <2>1, <2>2 DEF CopiesInv, MoneyInv, Row
    <2>4. row'[Business].balance = d - c /\ \A x \in Wallets \ {Business} : row'[x] = row[x]
      BY <1>a, <2>1, <2>2 DEF Debited
    <2>5. Owned' = Owned + (d - c - b)
      BY <1>a, <2>1, <2>3, <2>4, OwnedMoves
    <2>6. Excess' = Excess + (d - b)
      BY <1>a, <1>b, <2>2, <2>3, <2>5 DEF Excess
    <2>7. Excess' <= 0
      BY <1>a, <2>3, <2>6
    <2>8. rpc'[r] = "idle" /\ \A x \in Runs \ {r} : rpc'[x] = rpc[x]
      BY <1>a, <2>2
    <2>9. QED BY <1>2, <2>2, <2>7, <2>8
  <1>14. ASSUME NEW r \in Runs, RecordPayout(r) PROVE CopiesInv' /\ MoneyInv'
    BY <1>4, <1>14 DEF RecordPayout
  <1>15. ASSUME NEW r \in Runs, FailPayout(r) PROVE CopiesInv' /\ MoneyInv'
    <2>1. /\ rpc[r] # "idle" /\ LeaveBusiness(r) /\ UNCHANGED <<row, deposited>>
          /\ rpc' = [rpc EXCEPT ![r] = "idle"]
      BY <1>15 DEF FailPayout, LeaveBusiness
    <2>2. CASE UNCHANGED <<left, unbooked>>
      BY <1>4, <2>1, <2>2
    <2>3. CASE rpc[r] = "pay" /\ PaysOut(r) /\ UNCHANGED unbooked
      BY <1>8, <2>1, <2>3
    <2>4. CASE rpc[r] = "send" /\ SendsOnChain(r)
      BY <1>11, <2>1, <2>4
    <2>5. QED BY <1>15, <2>2, <2>3, <2>4 DEF FailPayout
  <1>16. CASE PassInterval
    BY <1>1, <1>16 DEF PassInterval
  <1>17. QED
    BY <1>5, <1>6, <1>7, <1>9, <1>10, <1>12, <1>13, <1>14, <1>15, <1>16 DEF PayoutNext

(* A run that fails nowhere books what it has sent before it ends. *)
LEMMA PayoutKeepsBook ==
    ASSUME TypeOK, SerialInv, CopiesInv, BookInv, inSeries, faults = 0, PayoutNext, faults' = 0
    PROVE  BookInv'
  <1> USE DEF ToStep
  <1>a. /\ rcopy \in [Runs -> Row] /\ unbooked \in Int
        /\ rpc \in [Runs -> {"idle", "wallet", "convert", "pay", "load", "send", "deduct",
                             "record"}]
    BY DEF TypeOK, PayoutTypes
  <1>b. \A x, y \in Runs : rpc[x] # "idle" /\ rpc[y] # "idle" => x = y
    BY DEF SerialInv, CopiesInv
  <1>c. \A x \in Runs : atWork = {} => rpc[x] = "idle"
    BY DEF CopiesInv
  <1>1. ASSUME NEW r \in Runs, NEW l, l # "deduct", rpc[r] # "deduct",
               rpc' = [rpc EXCEPT ![r] = l], UNCHANGED unbooked,
               \A x \in Runs \ {r} : rpc[x] = "idle"
        PROVE  BookInv'
    BY <1>1, <1>a DEF BookInv
  <1>2. ASSUME NEW r \in Runs, rpc[r] # "idle"
        PROVE  \A x \in Runs \ {r} : rpc[x] = "idle"
    BY <1>2, <1>b
  <1>3. CASE PassInterval
    BY <1>3 DEF PassInterval, rowVars, BookInv
  <1>4. ASSUME NEW r \in Runs, RunPayouts(r) PROVE BookInv'
    <2>1. /\ atWork = {} /\ rpc[r] # "deduct" /\ unbooked' = unbooked
          /\ rpc' = [rpc EXCEPT ![r] = "wallet"]
      BY <1>4 DEF RunPayouts, MayBegin
    <2>2. QED BY <1>1, <1>c, <2>1
  <1>5. ASSUME NEW r \in Runs,
               \/ ReadWallets(r) \/ EmptyWallet(r) \/ ProcessBankPayout(r)
               \/ ProcessWalletPayout(r) \/ RecordPayout(r)
        PROVE  BookInv'
    <2>1. /\ rpc[r] \notin {"idle", "deduct"} /\ unbooked' = unbooked
          /\ \E l \in {"idle", "convert", "pay", "load", "send", "record"} :
                rpc' = [rpc EXCEPT ![r] = l]
      BY <1>5 DEF ReadWallets, EmptyWallet, ProcessBankPayout, ProcessWalletPayout,
                  RecordPayout, LeaveBusiness, FirstStep
    <2>2. QED BY <1>1, <1>2, <2>1
  <1>6. ASSUME NEW r \in Runs, SendWalletPayout(r) PROVE BookInv'
    <2>1. /\ rpc[r] = "send" /\ rpc' = [rpc EXCEPT ![r] = "deduct"]
          /\ unbooked' = unbooked + rcopy[r].balance /\ rcopy' = rcopy
      BY <1>6 DEF SendWalletPayout, SendsOnChain
    <2>2. \A x \in Runs \ {r} : rpc[x] = "idle"
      BY <1>2, <2>1
    <2>3. unbooked = 0 /\ rcopy[r].balance \in Int
      BY <1>a, <2>1, <2>2 DEF BookInv, Row
    <2>4. unbooked' = rcopy'[r].balance
      BY <2>1, <2>3
    <2>5. QED BY <1>a, <2>1, <2>2, <2>4 DEF BookInv
  <1>7. ASSUME NEW r \in Runs, DeductWalletPayout(r) PROVE BookInv'
    <2>1. /\ rpc[r] = "deduct" /\ rpc' = [rpc EXCEPT ![r] = "idle"]
          /\ unbooked' = unbooked - rcopy[r].balance
      BY <1>7 DEF DeductWalletPayout, LeaveBusiness
    <2>2. \A x \in Runs \ {r} : rpc[x] = "idle"
      BY <1>2, <2>1
    <2>3. unbooked' = 0
      BY <1>a, <2>1 DEF BookInv, Row
    <2>4. QED BY <1>a, <2>1, <2>2, <2>3 DEF BookInv
  <1>8. ASSUME NEW r \in Runs, FailPayout(r) PROVE FALSE
    BY <1>8 DEF FailPayout, Fault
  <1>9. QED BY <1>3, <1>4, <1>5, <1>6, <1>7, <1>8 DEF PayoutNext

LEMMA NextKeepsSeries ==
    ASSUME [Next]_vars
    PROVE  inSeries' = inSeries
  <1>1. ASSUME NEW w \in Earning, NEW a \in Amounts, Deposit(w, a) PROVE inSeries' = inSeries
    BY <1>1 DEF Deposit
  <1>2. CASE UNCHANGED vars
    BY <1>2 DEF vars, rowVars
  <1>3. QED BY <1>1, <1>2, TransferCases, PayoutCases DEF Next

(* If requests and commands are started one at a time, what left the       *)
(* platform and what the wallets hold is never more than what was          *)
(* deposited and what was sent on chain and not booked: the deduction, the *)
(* refund and the credits of TransferService (lines 93-139, 223-266,       *)
(* 300-352) and the emptying of the wallets and the payout of              *)
(* ProcessPayouts (lines 46-83) balance, whatever fails.  While nothing    *)
(* fails, no run ends with something unbooked (WithdrawalService lines     *)
(* 417-442).                                                               *)
THEOREM NeverOverpaidInSeries == Spec => []NeverOverpaid
  <1> DEFINE Inv == CopiesInv /\ MoneyInv /\ BookInv
  <1>1. Init => Inv
    <2> SUFFICES ASSUME Init PROVE Inv
      OBVIOUS
    <2>1. TypeOK
      BY InitKeeps DEF IInv
    <2>2. PICK b, h : b = Balances /\ h = Held
      OBVIOUS
    <2>3. b \in [Wallets -> Int] /\ h \in [Transfers -> Int]
      BY <2>1, <2>2, ValuesAreIntegers
    <2>4. \A w \in Wallets : b[w] = 0
      BY <2>2 DEF Init, RowsInit, Balances
    <2>5. \A t \in Transfers : h[t] = 0
      BY <2>2 DEF Init, TransferInit, Held, HeldOf
    <2>6. SumOf(Wallets, b) = 0 /\ SumOf(Transfers, h) = 0
      BY <2>3, <2>4, <2>5, SumOfValues, WalletsAssumption, TransfersAssumption
    <2>7. Excess = 0
      BY <2>2, <2>6 DEF Excess, Owned, Owed, Init, RowsInit, PayoutInit
    <2>8. QED BY <2>7 DEF Init, RowsInit, TransferInit, PayoutInit, CopiesInv, MoneyInv, BookInv
  <1>2. IInv /\ SettlementInv /\ SerialInv /\ Inv /\ [Next]_vars => Inv'
    <2> SUFFICES ASSUME IInv, SettlementInv, SerialInv, Inv, [Next]_vars PROVE Inv'
      OBVIOUS
    <2>1. TypeOK /\ BalanceNonNegative /\ inSeries' = inSeries
      BY NextKeepsSeries DEF IInv
    <2>2. CASE ~inSeries
      BY <2>1, <2>2 DEF CopiesInv, MoneyInv, BookInv
    <2>a. ASSUME faults' = 0 PROVE faults = 0
      BY <2>1, <2>a, StepsInSeries DEF TypeOK
    <2>b. ASSUME UNCHANGED <<rpc, rcopy, unbooked>> PROVE BookInv'
      BY <2>1, <2>a, <2>b DEF BookInv
    <2>3. CASE inSeries
      <3>1. CASE TransferNext /\ UNCHANGED payoutVars
        <4>1. NoMore /\ CopiesInv'
          BY <2>1, <2>3, <3>1, TransfersKeepExcess, TransfersKeepCopies
        <4>2. Excess \in Int /\ Excess' \in Int /\ Excess' <= Excess
          BY <2>1, <4>1, ExcessIsInteger DEF NoMore
        <4>3. \A r \in Runs : rcopy[r].balance \in Int
          BY <2>1 DEF TypeOK, PayoutTypes, Row
        <4>4. MoneyInv'
          BY <2>3, <3>1, <4>1, <4>2, <4>3 DEF MoneyInv, payoutVars
        <4>5. QED BY <2>b, <3>1, <4>1, <4>4 DEF payoutVars
      <3>2. CASE PayoutNext /\ UNCHANGED transferVars
        <4>1. CASE faults' # 0
          BY <2>1, <2>3, <3>2, <4>1, PayoutKeepsMoney DEF BookInv
        <4>2. CASE faults' = 0
          BY <2>1, <2>3, <2>a, <3>2, <4>2, PayoutKeepsMoney, PayoutKeepsBook
        <4>3. QED BY <4>1, <4>2
      <3>3. ASSUME NEW w \in Earning, NEW a \in Amounts, Deposit(w, a),
                   UNCHANGED <<transferVars, payoutVars>>
            PROVE  Inv'
        <4>1. CopiesInv' /\ MoneyInv'
          BY <2>1, <2>3, <3>3, DepositKeepsMoney
        <4>2. QED BY <2>b, <3>3, <4>1 DEF payoutVars
      <3>4. CASE UNCHANGED vars
        <4>1. UNCHANGED Excess
          BY <3>4, OwnedStays, OwedStays DEF Excess, vars, rowVars, transferVars, payoutVars
        <4>2. QED
          BY <2>b, <3>4, <4>1 DEF CopiesInv, MoneyInv, vars, rowVars, transferVars, payoutVars
      <3>5. QED BY <3>1, <3>2, <3>3, <3>4 DEF Next
    <2>4. QED BY <2>2, <2>3
  <1>3. IInv /\ Inv => NeverOverpaid
    <2> SUFFICES ASSUME TypeOK, CopiesInv, MoneyInv, BookInv, inSeries
                 PROVE  /\ left + MapThenSumSet(LAMBDA w : row[w].balance, Wallets)
                              <= deposited + unbooked
                        /\ faults = 0 /\ atWork = {} => unbooked = 0
      BY DEF IInv, NeverOverpaid
    <2>1. Owed >= 0
      <3>1. PICK h : h = Held
        OBVIOUS
      <3>2. h \in [Transfers -> Int] /\ \A t \in Transfers : h[t] >= 0
        BY <3>1, ValuesAreIntegers, OrderFacts DEF Held, HeldOf, TypeOK, TransferTypes
      <3>3. SumOf(Transfers, h) >= 0
        BY <3>2, SumOfValues, TransfersAssumption
      <3>4. QED BY <3>1, <3>3 DEF Owed
    <2>2. MapThenSumSet(LAMBDA w : row[w].balance, Wallets) = Owned
      BY OwnedIsSum DEF Owned
    <2>3. left + Owned <= deposited + unbooked
      BY <2>1, ExcessIsInteger DEF MoneyInv, Excess, TypeOK, PayoutTypes
    <2>4. faults = 0 /\ atWork = {} => unbooked = 0
      BY DEF CopiesInv, BookInv
    <2>5. QED BY <2>2, <2>3, <2>4
  <1>4. QED BY <1>1, <1>2, <1>3, Invariance, SettlementInvariance, SerialInvariance, PTL DEF Spec
=============================================================================
