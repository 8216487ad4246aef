---------------------- MODULE UserWalletService_proofs ----------------------
(***************************************************************************)
(* Proofs, for any set of wallets, of concurrent calls and of amounts,     *)
(* that UserWalletService keeps its invariants and implements              *)
(* WalletAccount.                                                          *)
(***************************************************************************)
EXTENDS UserWalletService, TLAPS

(* Every action of a step, so that a case analysis is written once. *)
LEMMA NextCases ==
    ASSUME NEW P, [Next]_vars,
           ASSUME NEW w \in Wallets, Provision(w) PROVE P,
           ASSUME NEW c \in Calls, NEW ws \in Queries, NEW a \in Amounts,
                  CallCredit(c, ws, a) PROVE P,
           ASSUME NEW c \in Calls, NEW w \in Wallets, NEW a \in Amounts,
                  CallDebit(c, w, a) PROVE P,
           ASSUME NEW c \in Calls, FindWallet(c) PROVE P,
           ASSUME NEW c \in Calls, LockRow(c) PROVE P,
           ASSUME NEW c \in Calls, WalletMissing(c) PROVE P,
           ASSUME NEW c \in Calls, InsufficientBalance(c) PROVE P,
           ASSUME NEW c \in Calls, UpdateRow(c) PROVE P,
           ASSUME NEW c \in Calls, InsertLedger(c) PROVE P,
           ASSUME NEW c \in Calls, Commit(c) PROVE P,
           ASSUME NEW c \in Calls, Abort(c) PROVE P,
           ASSUME UNCHANGED vars PROVE P
    PROVE P
  BY DEF Next, Progress

-----------------------------------------------------------------------------
(* Type correctness. *)

LEMMA RowTypes ==
    ASSUME NEW row \in Row, NEW a \in Int
    PROVE  /\ Account!Credited(row, a) \in Row
           /\ Account!Debited(row, a) \in Row
  BY DEF Row, Account!Row, Account!Credited, Account!Debited

LEMMA NewRowType ==
    ASSUME TypeOK, NEW c \in Calls
    PROVE  NewRow(c) \in Row
  <1>1. snap[c] \in Row /\ args[c].amount \in Int
    BY DEF TypeOK, Arguments
  <1>2. QED
    BY <1>1, RowTypes DEF NewRow

LEMMA NewLineType ==
    ASSUME TypeOK, NEW c \in Calls
    PROVE  NewLine(c) \in Account!LedgerLine
  <1>1. staged[c].balance \in Int /\ args[c].amount \in Int
    BY DEF TypeOK, Arguments, Row, Account!Row
  <1>2. QED
    BY <1>1 DEF NewLine, Account!Line, Account!LedgerLine

(* The state always has its type. *)
THEOREM TypeCorrect == Spec => []TypeOK
  <1>1. Init => TypeOK
    BY DEF Init, TypeOK, Account!Init, Statuses, EmptyRow, Row, Account!Row,
           Account!EmptyRow, Account!LedgerLine, Pcs, Arguments
  <1>2. TypeOK /\ [Next]_vars => TypeOK'
    <2> SUFFICES ASSUME TypeOK, [Next]_vars PROVE TypeOK'
      OBVIOUS
    <2> USE DEF TypeOK, Goto, Unlock, RowFree, CommitAnswer, InTrx
    <2>1. ASSUME NEW w \in Wallets, Provision(w) PROVE TypeOK'
      BY <2>1 DEF Provision, Statuses, Account!Statuses
    <2>2. ASSUME NEW c \in Calls, NEW ws \in Queries, NEW a \in Amounts,
                 CallCredit(c, ws, a)
          PROVE TypeOK'
      <3>1. [kind |-> "credit", wallets |-> ws, amount |-> a] \in Arguments
        BY AmountsAssumption, QueriesAssumption DEF Arguments
      <3>2. QED BY <2>2, <3>1 DEF CallCredit, Pcs
    <2>3. ASSUME NEW c \in Calls, NEW w \in Wallets, NEW a \in Amounts,
                 CallDebit(c, w, a)
          PROVE TypeOK'
      <3>1. [kind |-> "debit", wallets |-> {w}, amount |-> a] \in Arguments
        BY AmountsAssumption DEF Arguments
      <3>2. QED BY <2>3, <3>1 DEF CallDebit, Pcs
    <2>4. ASSUME NEW c \in Calls, FindWallet(c) PROVE TypeOK'
      <3>1. ActiveMatches(c) \subseteq Wallets
        BY DEF ActiveMatches, Arguments
      <3>2. QED BY <2>4, <3>1 DEF FindWallet, Pcs
    <2>5. ASSUME NEW c \in Calls, LockRow(c) PROVE TypeOK'
      BY <2>5 DEF LockRow, Pcs
    <2>6. ASSUME NEW c \in Calls, WalletMissing(c) PROVE TypeOK'
      BY <2>6 DEF WalletMissing, Pcs
    <2>7. ASSUME NEW c \in Calls, InsufficientBalance(c) PROVE TypeOK'
      BY <2>7 DEF InsufficientBalance, Pcs
    <2>8. ASSUME NEW c \in Calls, UpdateRow(c) PROVE TypeOK'
      BY <2>8, NewRowType DEF UpdateRow, Pcs
    <2>9. ASSUME NEW c \in Calls, InsertLedger(c) PROVE TypeOK'
      BY <2>9 DEF InsertLedger, Pcs
    <2>10. ASSUME NEW c \in Calls, Commit(c) PROVE TypeOK'
      <3>1. Append(ledger[target[c]], NewLine(c)) \in Seq(Account!LedgerLine)
        BY NewLineType
      <3>2. QED BY <2>10, <3>1 DEF Commit, Pcs
    <2>11. ASSUME NEW c \in Calls, Abort(c) PROVE TypeOK'
      BY <2>11 DEF Abort, Pcs
    <2>12. ASSUME UNCHANGED vars PROVE TypeOK'
      BY <2>12 DEF vars
    <2>13. QED
      BY <2>1, <2>2, <2>3, <2>4, <2>5, <2>6, <2>7, <2>8, <2>9, <2>10, <2>11,
         <2>12, NextCases
  <1>3. QED
    BY <1>1, <1>2, PTL DEF Spec

-----------------------------------------------------------------------------
(* What holds of a call between its first query and the end of its         *)
(* transaction.  NoStaleRead alone is not inductive: that the row written  *)
(* is the right one follows from the row read, and that it may be written  *)
(* from the checks made on the way.                                        *)

TrxInv ==
    \A c \in Calls :
        /\ pc[c] \in {"find", "lock"} \union InTrx =>
            args[c].amount \in Amounts /\ args[c].amount > 0
        /\ pc[c] = "lock" /\ args[c].kind = "credit" => status[target[c]] = "active"
        /\ pc[c] \in InTrx =>
            /\ lock[target[c]] = c
            /\ snap[c] = wallet[target[c]]
            /\ status[target[c]] = "active"
        /\ pc[c] \in {"updated", "inserted"} => Sufficient(c) /\ staged[c] = NewRow(c)

(* TrxInv is an invariant of the service. *)
THEOREM TrxInvariant == Spec => []TrxInv
  <1>1. Init => TrxInv
    BY DEF Init, TrxInv, InTrx
  <1>2. TypeOK /\ TrxInv /\ [Next]_vars => TrxInv'
    <2> SUFFICES ASSUME TypeOK, TrxInv, [Next]_vars PROVE TrxInv'
      OBVIOUS
    <2> USE DEF TypeOK, TrxInv, Goto, Unlock, RowFree, CommitAnswer, InTrx, Sufficient, NewRow
    <2>1. ASSUME NEW w \in Wallets, Provision(w) PROVE TrxInv'
      BY <2>1 DEF Provision
    <2>2. ASSUME NEW c \in Calls, NEW ws \in Queries, NEW a \in Amounts,
                 CallCredit(c, ws, a)
          PROVE TrxInv'
      BY <2>2, AmountsAssumption DEF CallCredit
    <2>3. ASSUME NEW c \in Calls, NEW w \in Wallets, NEW a \in Amounts,
                 CallDebit(c, w, a)
          PROVE TrxInv'
      BY <2>3, AmountsAssumption DEF CallDebit
    <2>4. ASSUME NEW c \in Calls, FindWallet(c) PROVE TrxInv'
      <3>1. \A w \in ActiveMatches(c) : w \in Wallets /\ status[w] = "active"
        BY DEF ActiveMatches, Arguments
      <3>2. QED BY <2>4, <3>1 DEF FindWallet
    <2>5. ASSUME NEW c \in Calls, LockRow(c) PROVE TrxInv'
      <3>1. args[c].kind \in {"credit", "debit"}
        BY DEF Arguments
      <3>2. QED BY <2>5, <3>1, NoneAssumption DEF LockRow
    <2>6. ASSUME NEW c \in Calls, WalletMissing(c) PROVE TrxInv'
      BY <2>6 DEF WalletMissing
    <2>7. ASSUME NEW c \in Calls, InsufficientBalance(c) PROVE TrxInv'
      BY <2>7 DEF InsufficientBalance
    <2>8. ASSUME NEW c \in Calls, UpdateRow(c) PROVE TrxInv'
      BY <2>8 DEF UpdateRow
    <2>9. ASSUME NEW c \in Calls, InsertLedger(c) PROVE TrxInv'
      BY <2>9 DEF InsertLedger
    <2>10. ASSUME NEW c \in Calls, Commit(c) PROVE TrxInv'
      <3>1. \A d \in Calls : d # c /\ pc[d] \in InTrx => target[d] # target[c]
        BY <2>10 DEF Commit
      <3>2. QED BY <2>10, <3>1 DEF Commit
    <2>11. ASSUME NEW c \in Calls, Abort(c) PROVE TrxInv'
      BY <2>11 DEF Abort
    <2>12. ASSUME UNCHANGED vars PROVE TrxInv'
      BY <2>12 DEF vars
    <2>13. QED
      BY <2>1, <2>2, <2>3, <2>4, <2>5, <2>6, <2>7, <2>8, <2>9, <2>10, <2>11,
         <2>12, NextCases
  <1>3. QED
    BY <1>1, <1>2, TypeCorrect, PTL DEF Spec

(* No transaction writes a row computed from a stale read. *)
THEOREM NeverStale == Spec => []NoStaleRead
  <1>1. TrxInv => NoStaleRead
    BY DEF TrxInv, NoStaleRead
  <1>2. QED
    BY <1>1, TrxInvariant, PTL

-----------------------------------------------------------------------------
(* Only Commit changes a wallet or a ledger or settles a call with its     *)
(* wallet, and it is one whole credit or one whole debit of the row as it  *)
(* is committed at that moment.                                            *)

WalletUntouched ==
    /\ UNCHANGED <<wallet, ledger>>
    /\ UNCHANGED status \/ \E w \in Wallets : Account!Open(w)
    /\ \A c \in Calls :
        /\ pc'[c] = "done" => pc[c] = "done" /\ target'[c] = target[c]
        /\ pc[c] \in {"done", "error"} => pc'[c] = pc[c]

LEMMA OnlyCommitWrites ==
    ASSUME TypeOK, [Next]_vars, \A c \in Calls : ~Commit(c)
    PROVE  WalletUntouched
  <1> USE DEF WalletUntouched, TypeOK, Goto, RowFree, CommitAnswer, InTrx
  <1>1. ASSUME NEW w \in Wallets, Provision(w) PROVE WalletUntouched
    BY <1>1 DEF Provision, Account!Open
  <1>2. ASSUME NEW c \in Calls, NEW ws \in Queries, NEW a \in Amounts,
               CallCredit(c, ws, a)
        PROVE WalletUntouched
    BY <1>2 DEF CallCredit
  <1>3. ASSUME NEW c \in Calls, NEW w \in Wallets, NEW a \in Amounts,
               CallDebit(c, w, a)
        PROVE WalletUntouched
    BY <1>3 DEF CallDebit
  <1>4. ASSUME NEW c \in Calls, FindWallet(c) PROVE WalletUntouched
    BY <1>4 DEF FindWallet
  <1>5. ASSUME NEW c \in Calls, LockRow(c) PROVE WalletUntouched
    BY <1>5 DEF LockRow
  <1>6. ASSUME NEW c \in Calls, WalletMissing(c) PROVE WalletUntouched
    BY <1>6 DEF WalletMissing
  <1>7. ASSUME NEW c \in Calls, InsufficientBalance(c) PROVE WalletUntouched
    BY <1>7 DEF InsufficientBalance
  <1>8. ASSUME NEW c \in Calls, UpdateRow(c) PROVE WalletUntouched
    BY <1>8 DEF UpdateRow
  <1>9. ASSUME NEW c \in Calls, InsertLedger(c) PROVE WalletUntouched
    BY <1>9 DEF InsertLedger
  <1>10. ASSUME NEW c \in Calls, Abort(c) PROVE WalletUntouched
    BY <1>10 DEF Abort
  <1>11. ASSUME UNCHANGED vars PROVE WalletUntouched
    BY <1>11 DEF vars
  <1>12. QED
    BY <1>1, <1>2, <1>3, <1>4, <1>5, <1>6, <1>7, <1>8, <1>9, <1>10, <1>11,
       NextCases

LEMMA CommitIsWhole ==
    ASSUME TypeOK, TrxInv, NEW c \in Calls, Commit(c)
    PROVE  LET w == target[c]
               a == args[c].amount
           IN  /\ a \in Amounts /\ a > 0
               /\ UNCHANGED status
               /\ status[w] = "active"
               /\ \/ /\ args[c].kind = "credit"
                     /\ wallet' = [wallet EXCEPT ![w] = Account!Credited(wallet[w], a)]
                     /\ ledger' = [ledger EXCEPT ![w] = Append(@,
                            Account!Line(c, "deposit", a, Account!Credited(wallet[w], a)))]
                  \/ /\ args[c].kind = "debit"
                     /\ a <= wallet[w].balance
                     /\ wallet' = [wallet EXCEPT ![w] = Account!Debited(wallet[w], a)]
                     /\ ledger' = [ledger EXCEPT ![w] = Append(@,
                            Account!Line(c, "transfer", a, Account!Debited(wallet[w], a)))]
  <1>1. /\ pc[c] = "inserted"
        /\ wallet' = [wallet EXCEPT ![target[c]] = staged[c]]
        /\ ledger' = [ledger EXCEPT ![target[c]] = Append(@, NewLine(c))]
        /\ UNCHANGED status
    BY DEF Commit
  <1>2. /\ args[c].amount \in Amounts
        /\ args[c].amount > 0
        /\ snap[c] = wallet[target[c]]
        /\ status[target[c]] = "active"
        /\ Sufficient(c)
        /\ staged[c] = NewRow(c)
    BY <1>1 DEF TrxInv, InTrx
  <1>3. /\ args[c].kind \in {"credit", "debit"}
        /\ args[c].amount \in Int
        /\ wallet[target[c]].balance \in Int
    BY DEF TypeOK, Arguments, Row, Account!Row
  <1>4. CASE args[c].kind = "credit"
    <2>1. staged[c] = Account!Credited(wallet[target[c]], args[c].amount)
      BY <1>2, <1>4 DEF NewRow
    <2>2. NewLine(c) = Account!Line(c, "deposit", args[c].amount,
                            Account!Credited(wallet[target[c]], args[c].amount))
      BY <1>4, <2>1 DEF NewLine
    <2>3. QED BY <1>1, <1>2, <1>4, <2>1, <2>2
  <1>5. CASE args[c].kind = "debit"
    <2>1. staged[c] = Account!Debited(wallet[target[c]], args[c].amount)
      BY <1>2, <1>5 DEF NewRow
    <2>2. NewLine(c) = Account!Line(c, "transfer", args[c].amount,
                            Account!Debited(wallet[target[c]], args[c].amount))
      BY <1>5, <2>1 DEF NewLine
    <2>3. args[c].amount <= wallet[target[c]].balance
      BY <1>2, <1>3, <1>5 DEF Sufficient
    <2>4. QED BY <1>1, <1>2, <1>5, <2>1, <2>2, <2>3
  <1>6. QED
    BY <1>3, <1>4, <1>5

-----------------------------------------------------------------------------
(* The money invariants. *)

LEMMA InitEmpty ==
    ASSUME Init, NEW w \in Wallets
    PROVE  /\ wallet[w].balance = 0
           /\ wallet[w].totalDeposited = 0
           /\ wallet[w].totalWithdrawn = 0
           /\ Len(ledger[w]) = 0
  <1>1. wallet[w] = Account!EmptyRow /\ ledger[w] = <<>>
    BY DEF Init, Account!Init
  <1>2. QED
    BY <1>1 DEF Account!EmptyRow

(* No sequence of calls, aborts and lost answers overdraws a wallet or     *)
(* lets its three columns disagree.                                        *)
THEOREM BalanceAlwaysSound == Spec => []BalanceIsSound
  <1>1. Init => BalanceIsSound
    <2> SUFFICES ASSUME Init, NEW w \in Wallets
                 PROVE  /\ wallet[w].balance >= 0
                        /\ wallet[w].balance = wallet[w].totalDeposited - wallet[w].totalWithdrawn
      BY DEF BalanceIsSound
    <2> QED
      BY InitEmpty
  <1>2. TypeOK /\ TrxInv /\ BalanceIsSound /\ [Next]_vars => BalanceIsSound'
    <2> SUFFICES ASSUME TypeOK, TrxInv, BalanceIsSound, [Next]_vars
                 PROVE  BalanceIsSound'
      OBVIOUS
    <2>1. CASE \A c \in Calls : ~Commit(c)
      BY <2>1, OnlyCommitWrites DEF WalletUntouched, BalanceIsSound
    <2>2. ASSUME NEW c \in Calls, Commit(c) PROVE BalanceIsSound'
      <3> DEFINE w == target[c]
                 a == args[c].amount
      <3>1. /\ w \in Wallets
            /\ a \in Int
            /\ \A v \in Wallets : /\ wallet[v].balance \in Int
                                  /\ wallet[v].totalDeposited \in Int
                                  /\ wallet[v].totalWithdrawn \in Int
            /\ DOMAIN wallet = Wallets
        BY DEF TypeOK, Arguments, Row, Account!Row
      <3>2. CASE a > 0 /\ wallet' = [wallet EXCEPT ![w] = Account!Credited(wallet[w], a)]
        BY <3>1, <3>2 DEF BalanceIsSound, Account!Credited
      <3>3. CASE /\ a > 0
                 /\ a <= wallet[w].balance
                 /\ wallet' = [wallet EXCEPT ![w] = Account!Debited(wallet[w], a)]
        BY <3>1, <3>3 DEF BalanceIsSound, Account!Debited
      <3>4. QED
        BY <2>2, <3>2, <3>3, CommitIsWhole
    <2>3. QED
      BY <2>1, <2>2
  <1>3. QED
    BY <1>1, <1>2, TypeCorrect, TrxInvariant, PTL DEF Spec

(* Appending a line that starts where the ledger ended keeps the chain. *)
LEMMA AppendKeepsChain ==
    ASSUME TypeOK, LedgerExplainsBalance, NEW w \in Wallets,
           NEW line \in Account!LedgerLine, NEW row \in Row,
           line.balanceAfter = row.balance,
           line.balanceAfter = wallet[w].balance + SignedAmount(line),
           wallet' = [wallet EXCEPT ![w] = row],
           ledger' = [ledger EXCEPT ![w] = Append(@, line)]
    PROVE  LedgerExplainsBalance'
  <1> DEFINE n == Len(ledger[w])
  <1>1. /\ \A v \in Wallets : ledger[v] \in Seq(Account!LedgerLine) /\ Len(ledger[v]) \in Nat
        /\ n \in Nat
        /\ DOMAIN wallet = Wallets
        /\ DOMAIN ledger = Wallets
    BY DEF TypeOK
  <1>2. SUFFICES ASSUME NEW v \in Wallets
        PROVE /\ wallet'[v].balance = BalanceBefore(v, Len(ledger[v]) + 1)'
              /\ \A i \in 1..Len(ledger'[v]) :
                  ledger'[v][i].balanceAfter
                    = BalanceBefore(v, i)' + SignedAmount(ledger'[v][i])
    BY DEF LedgerExplainsBalance
  <1>3. CASE v # w
    <2>1. wallet'[v] = wallet[v] /\ ledger'[v] = ledger[v]
      BY <1>1, <1>3
    <2>2. BalanceBefore(v, Len(ledger[v]) + 1)' = BalanceBefore(v, Len(ledger[v]) + 1)
      BY <1>1, <2>1 DEF BalanceBefore
    <2>3. ASSUME NEW i \in 1..Len(ledger[v])
          PROVE  BalanceBefore(v, i)' = BalanceBefore(v, i)
      BY <2>1 DEF BalanceBefore
    <2>4. /\ wallet[v].balance = BalanceBefore(v, Len(ledger[v]) + 1)
          /\ \A i \in 1..Len(ledger[v]) :
              ledger[v][i].balanceAfter = BalanceBefore(v, i) + SignedAmount(ledger[v][i])
      BY DEF LedgerExplainsBalance
    <2>5. \A i \in 1..Len(ledger'[v]) :
            ledger'[v][i].balanceAfter
              = BalanceBefore(v, i)' + SignedAmount(ledger'[v][i])
      BY <2>1, <2>3, <2>4
    <2>6. QED BY <2>1, <2>2, <2>4, <2>5
  <1>4. CASE v = w
    <2>1. /\ wallet'[v] = row
          /\ ledger'[v] = Append(ledger[w], line)
      BY <1>1, <1>4
    <2>2. /\ Len(ledger'[v]) = n + 1
          /\ ledger'[v][n + 1] = line
          /\ \A i \in 1..n : ledger'[v][i] = ledger[w][i]
      BY <1>1, <2>1
    <2>3. wallet'[v].balance = BalanceBefore(v, Len(ledger[v]) + 1)'
      <3>1. n + 2 # 1 /\ (n + 2) - 1 = n + 1 /\ (n + 1) + 1 = n + 2
        BY <1>1
      <3>2. BalanceBefore(v, Len(ledger[v]) + 1)' = line.balanceAfter
        BY <2>2, <3>1 DEF BalanceBefore
      <3>3. QED BY <2>1, <3>2
    <2>4. ASSUME NEW i \in 1..(n + 1)
          PROVE  ledger'[v][i].balanceAfter
                   = BalanceBefore(v, i)' + SignedAmount(ledger'[v][i])
      <3>1. BalanceBefore(v, i)' = BalanceBefore(w, i)
        BY <1>1, <2>2 DEF BalanceBefore
      <3>2. CASE i = n + 1
        BY <2>2, <3>1, <3>2 DEF LedgerExplainsBalance
      <3>3. CASE i \in 1..n
        BY <2>2, <3>1, <3>3 DEF LedgerExplainsBalance
      <3>4. QED BY <1>1, <3>2, <3>3
    <2>5. QED BY <2>2, <2>3, <2>4
  <1>5. QED BY <1>3, <1>4

(* Replaying a wallet's ledger gives its balance, line by line. *)
THEOREM LedgerAlwaysExplains == Spec => []LedgerExplainsBalance
  <1>1. Init => LedgerExplainsBalance
    <2> SUFFICES ASSUME Init, NEW w \in Wallets
                 PROVE  /\ wallet[w].balance = BalanceBefore(w, Len(ledger[w]) + 1)
                        /\ 1..Len(ledger[w]) = {}
      BY DEF LedgerExplainsBalance
    <2> QED
      BY InitEmpty DEF BalanceBefore
  <1>2. TypeOK /\ TrxInv /\ LedgerExplainsBalance /\ [Next]_vars => LedgerExplainsBalance'
    <2> SUFFICES ASSUME TypeOK, TrxInv, LedgerExplainsBalance, [Next]_vars
                 PROVE  LedgerExplainsBalance'
      OBVIOUS
    <2>1. CASE \A c \in Calls : ~Commit(c)
      BY <2>1, OnlyCommitWrites
      DEF WalletUntouched, LedgerExplainsBalance, BalanceBefore, SignedAmount
    <2>2. ASSUME NEW c \in Calls, Commit(c) PROVE LedgerExplainsBalance'
      <3> DEFINE w == target[c]
                 a == args[c].amount
      <3>1. /\ w \in Wallets
            /\ a \in Int
            /\ wallet[w] \in Row
            /\ wallet[w].balance \in Int
        BY DEF TypeOK, Arguments, Row, Account!Row
      <3>2. CASE /\ wallet' = [wallet EXCEPT ![w] = Account!Credited(wallet[w], a)]
                 /\ ledger' = [ledger EXCEPT ![w] = Append(@,
                        Account!Line(c, "deposit", a, Account!Credited(wallet[w], a)))]
        <4> DEFINE row == Account!Credited(wallet[w], a)
                   line == Account!Line(c, "deposit", a, row)
        <4>1. /\ row \in Row
              /\ row.balance = wallet[w].balance + a
              /\ row.balance \in Int
          BY <3>1, RowTypes DEF Account!Credited
        <4>2. /\ line \in Account!LedgerLine
              /\ line.balanceAfter = row.balance
              /\ SignedAmount(line) = a
          BY <3>1, <4>1 DEF Account!Line, Account!LedgerLine, SignedAmount
        <4>3. QED
          BY <3>1, <3>2, <4>1, <4>2, AppendKeepsChain
      <3>3. CASE /\ wallet' = [wallet EXCEPT ![w] = Account!Debited(wallet[w], a)]
                 /\ ledger' = [ledger EXCEPT ![w] = Append(@,
                        Account!Line(c, "transfer", a, Account!Debited(wallet[w], a)))]
        <4> DEFINE row == Account!Debited(wallet[w], a)
                   line == Account!Line(c, "transfer", a, row)
        <4>1. /\ row \in Row
              /\ row.balance = wallet[w].balance + (0 - a)
              /\ row.balance \in Int
          BY <3>1, RowTypes DEF Account!Debited
        <4>2. /\ line \in Account!LedgerLine
              /\ line.balanceAfter = row.balance
              /\ SignedAmount(line) = 0 - a
          BY <3>1, <4>1 DEF Account!Line, Account!LedgerLine, SignedAmount
        <4>3. QED
          BY <3>1, <3>3, <4>1, <4>2, AppendKeepsChain
      <3>4. QED
        BY <2>2, <3>2, <3>3, CommitIsWhole
    <2>3. QED
      BY <2>1, <2>2
  <1>3. QED
    BY <1>1, <1>2, TypeCorrect, TrxInvariant, PTL DEF Spec

-----------------------------------------------------------------------------
(* Outcomes. *)

LEMMA AppliedOnce ==
    ASSUME TypeOK, NEW c \in Calls, NEW w \in Wallets, NEW line,
           line.call = c,
           ledger' = [ledger EXCEPT ![w] = Append(@, line)]
    PROVE  /\ Len(ledger'[w]) = Len(ledger[w]) + 1
           /\ \A v \in Wallets, d \in Calls : \A i \in 1..Len(ledger'[v]) :
                Entry(d, v, i)' <=> \/ Entry(d, v, i)
                                    \/ d = c /\ v = w /\ i = Len(ledger[w]) + 1
           /\ \A v \in Wallets : Len(ledger[v]) \in Nat /\ Len(ledger[v]) <= Len(ledger'[v])
  <1>1. /\ \A v \in Wallets : ledger[v] \in Seq(Account!LedgerLine) /\ Len(ledger[v]) \in Nat
        /\ DOMAIN ledger = Wallets
    BY DEF TypeOK
  <1>2. /\ ledger'[w] = Append(ledger[w], line)
        /\ \A v \in Wallets : v # w => ledger'[v] = ledger[v]
    BY <1>1
  <1>3. /\ Len(ledger'[w]) = Len(ledger[w]) + 1
        /\ ledger'[w][Len(ledger[w]) + 1] = line
        /\ \A i \in 1..Len(ledger[w]) : ledger'[w][i] = ledger[w][i]
    BY <1>1, <1>2
  <1>4. ASSUME NEW v \in Wallets, NEW d \in Calls, NEW i \in 1..Len(ledger'[v])
        PROVE  Entry(d, v, i)' <=> \/ Entry(d, v, i)
                                   \/ d = c /\ v = w /\ i = Len(ledger[w]) + 1
    <2>1. CASE v # w
      BY <1>2, <2>1 DEF Entry
    <2>2. CASE v = w /\ i \in 1..Len(ledger[w])
      BY <1>1, <1>3, <2>2 DEF Entry
    <2>3. CASE v = w /\ i = Len(ledger[w]) + 1
      BY <1>1, <1>3, <2>3 DEF Entry
    <2>4. QED BY <1>1, <1>3, <2>1, <2>2, <2>3
  <1>5. \A v \in Wallets : Len(ledger[v]) \in Nat /\ Len(ledger[v]) <= Len(ledger'[v])
    BY <1>1, <1>2, <1>3
  <1>6. QED BY <1>3, <1>4, <1>5

(* A call takes effect at most once, and what it tells its caller is true. *)
THEOREM OutcomeAlwaysMatches == Spec => []OutcomeMatchesLedger
  <1>1. Init => OutcomeMatchesLedger
    <2> SUFFICES ASSUME Init
                 PROVE  /\ \A w \in Wallets : 1..Len(ledger[w]) = {}
                        /\ \A c \in Calls : pc[c] = "idle"
      BY DEF OutcomeMatchesLedger, Entry, Account!Unapplied
    <2>1. ASSUME NEW w \in Wallets PROVE 1..Len(ledger[w]) = {}
      BY InitEmpty
    <2>2. QED
      BY <2>1 DEF Init
  <1>2. TypeOK /\ TrxInv /\ OutcomeMatchesLedger /\ [Next]_vars => OutcomeMatchesLedger'
    <2> SUFFICES ASSUME TypeOK, TrxInv, OutcomeMatchesLedger, [Next]_vars
                 PROVE  OutcomeMatchesLedger'
      OBVIOUS
    <2>1. CASE \A c \in Calls : ~Commit(c)
      BY <2>1, OnlyCommitWrites
      DEF WalletUntouched, OutcomeMatchesLedger, Entry, Account!Unapplied
    <2>2. ASSUME NEW c \in Calls, Commit(c) PROVE OutcomeMatchesLedger'
      <3> DEFINE w == target[c]
                 line == NewLine(c)
      <3>1. /\ w \in Wallets
            /\ pc[c] = "inserted"
            /\ pc'[c] \in {"done", "error"}
            /\ \A d \in Calls : d # c => pc'[d] = pc[d]
            /\ target' = target
            /\ line.call = c
            /\ ledger' = [ledger EXCEPT ![w] = Append(@, line)]
        BY <2>2 DEF Commit, CommitAnswer, Goto, TypeOK, NewLine, Account!Line
      <3>2. \A v \in Wallets : \A i \in 1..Len(ledger[v]) : ~Entry(c, v, i)
        BY <3>1 DEF OutcomeMatchesLedger, Entry, Account!Unapplied
      <3>3. /\ Len(ledger'[w]) = Len(ledger[w]) + 1
            /\ \A v \in Wallets, d \in Calls : \A i \in 1..Len(ledger'[v]) :
                 Entry(d, v, i)' <=> \/ Entry(d, v, i)
                                     \/ d = c /\ v = w /\ i = Len(ledger[w]) + 1
            /\ \A v \in Wallets : Len(ledger[v]) \in Nat /\ Len(ledger[v]) <= Len(ledger'[v])
        BY <3>1, AppliedOnce
      <3>4. \A d \in Calls, v \in Wallets : \A i : Entry(d, v, i) => i \in 1..Len(ledger[v])
        BY DEF Entry
      <3>5. ASSUME NEW d \in Calls, NEW u \in Wallets, NEW v \in Wallets,
                   NEW i \in 1..Len(ledger'[u]), NEW j \in 1..Len(ledger'[v]),
                   Entry(d, u, i)', Entry(d, v, j)'
            PROVE  u = v /\ i = j
        BY <3>2, <3>3, <3>4, <3>5 DEF OutcomeMatchesLedger
      <3>6. ASSUME NEW d \in Calls, pc'[d] = "done"
            PROVE  \E i \in 1..Len(ledger'[target'[d]]) : Entry(d, target[d], i)'
        <4>1. CASE d = c
          BY <3>1, <3>3, <4>1
        <4>2. CASE d # c
          <5>1. PICK i \in 1..Len(ledger[target[d]]) : Entry(d, target[d], i)
            BY <3>1, <3>6, <4>2 DEF OutcomeMatchesLedger
          <5>2. target[d] \in Wallets /\ i \in 1..Len(ledger'[target[d]])
            BY <3>3 DEF TypeOK
          <5>3. QED BY <3>1, <3>3, <5>1, <5>2
        <4>3. QED BY <4>1, <4>2
      <3>7. ASSUME NEW d \in Calls, pc'[d] \notin {"done", "error"}
            PROVE  Account!Unapplied(d)'
        <4>1. d # c /\ pc[d] \notin {"done", "error"}
          BY <3>1, <3>7
        <4>2. \A v \in Wallets : \A i \in 1..Len(ledger[v]) : ~Entry(d, v, i)
          BY <4>1 DEF OutcomeMatchesLedger, Entry, Account!Unapplied
        <4>3. \A v \in Wallets : \A i \in 1..Len(ledger'[v]) : ~Entry(d, v, i)'
          BY <3>3, <3>4, <4>1, <4>2
        <4>4. QED BY <4>3 DEF Entry, Account!Unapplied
      <3>8. QED
        BY <3>1, <3>5, <3>6, <3>7 DEF OutcomeMatchesLedger
    <2>3. QED
      BY <2>1, <2>2
  <1>3. QED
    BY <1>1, <1>2, TypeCorrect, TrxInvariant, PTL DEF Spec

-----------------------------------------------------------------------------
(* Refinement. *)

(* A commit is one step of the account, every other step but the creation  *)
(* of a wallet is invisible: creditWallet and debitWallet are atomic.      *)
THEOREM Implements == Spec => ImplementsAccount
  <1>1. Init => Account!Init
    BY DEF Init
  <1>2. TypeOK /\ TrxInv /\ OutcomeMatchesLedger /\ [Next]_vars
          => [Account!Next]_(Account!vars)
    <2> SUFFICES ASSUME TypeOK, TrxInv, OutcomeMatchesLedger, [Next]_vars
                 PROVE  Account!Next \/ UNCHANGED <<status, wallet, ledger>>
      BY DEF Account!vars
    <2>1. CASE \A c \in Calls : ~Commit(c)
      BY <2>1, OnlyCommitWrites DEF WalletUntouched, Account!Next
    <2>2. ASSUME NEW c \in Calls, Commit(c) PROVE Account!Next
      <3> DEFINE w == target[c]
                 a == args[c].amount
      <3>1. w \in Wallets /\ Account!Unapplied(c)
        BY <2>2 DEF Commit, TypeOK, OutcomeMatchesLedger
      <3>2. a \in Amounts /\ (Account!Credit(c, w, a) \/ Account!Debit(c, w, a))
        BY <2>2, <3>1, CommitIsWhole DEF Account!Credit, Account!Debit
      <3>3. QED
        BY <3>1, <3>2 DEF Account!Next
    <2>3. QED
      BY <2>1, <2>2
  <1>3. QED
    BY <1>1, <1>2, TypeCorrect, TrxInvariant, OutcomeAlwaysMatches, PTL
    DEF Spec, ImplementsAccount, Account!Spec

=============================================================================
