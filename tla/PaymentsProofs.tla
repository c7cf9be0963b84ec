---------------------------- MODULE PaymentsProofs ----------------------------
(***************************************************************************)
(* Theorems about Payments, for every number of calls, wallets, cards and  *)
(* stations and every setting of the limits.                               *)
(***************************************************************************)
EXTENDS Payments, Sums, FiniteSetTheorems, TLAPS

USE DEF Collectors, Accounts

Deletion == \/ \E s \in Stations : DeleteStation(s)
            \/ \E c \in Cards : DeleteCard(c)
            \/ \E w \in Personal : DeleteUser(w)

(* The ways a call can move; the lemma spares the proofs below the nesting *)
(* of Next.                                                                *)
LEMMA NextCases ==
  ASSUME [Next]_vars
  PROVE  \/ \E p \in Calls, k \in Collectors, asked \in Amounts :
              RefuseCollect(p, k, asked)
         \/ \E p \in Calls, k \in Collectors, asked \in Amounts, c \in Cards :
              StartCollect(p, k, c, asked)
         \/ \E p \in Calls, a, b \in Personal, n \in Amounts :
              StartSend(p, a, b, n)
         \/ \E p \in Calls : ReadCard(p)
         \/ \E p \in Calls : Approve(p)
         \/ \E p \in Calls : Refuse(p)
         \/ \E p \in Calls : Commit(p) \/ CommitUnheard(p)
         \/ \E p \in Calls : Abort(p)
         \/ \E p \in Calls : Record(p) \/ RecordUnheard(p)
         \/ \E p \in Calls : RecordFails(p)
         \/ Deletion
         \/ Tick \/ Midnight \/ ResetStationBalances \/ Crash
         \/ UNCHANGED vars
  BY DEF Next, Start, Step, Deletion

LEMMA SourceType == \A c \in Cards : Source(c) \in Accounts
  BY CardAssumption DEF Source

LEMMA ChargeType ==
  /\ \A k \in Collectors, asked \in Amounts : Charge(k, asked) \in Charges
  /\ Amounts \subseteq Charges /\ Charges \subseteq Int
<1>1. /\ \A s \in Stations : FixedAmount[s] \in Int \cup {NoPrice}
      /\ Range(FixedAmount) = {FixedAmount[s] : s \in Stations}
  BY CollectorAssumption DEF Range
<1>2. QED
  BY <1>1, AmountAssumption DEF Charge, Charges

LEMMA GrossType == \A n \in Int : Gross(n) \in Nat /\ Gross(n) >= n /\ (n >= 0 => Gross(n) = n)
  BY DEF Gross

LEMMA ForgetType ==
  ASSUME TypeOK, NEW p \in Calls, Forget(p)
  PROVE  /\ seen' \in [Calls -> Snapshots] /\ seen'[p] = NoSnapshot
         /\ \A q \in Calls \ {p} : seen'[q] = seen[q]
  BY DEF Forget, TypeOK, NoSnapshot, Snapshots

LEMMA ReferenceType == \A p \in Calls : tick \in Nat => Reference(p) \in References
  BY DEF Reference, References, Kinds

LEMMA TypeKept == ASSUME TypeOK, [Next]_vars PROVE TypeOK'
<1> USE CardAssumption, CollectorAssumption, AmountAssumption, JobAssumption
<1> USE DEF TypeOK, rows, clock, history, InFlight, Reading, Ended, Goto
<1>1. ASSUME NEW p \in Calls, NEW k \in Collectors, NEW asked \in Amounts,
             RefuseCollect(p, k, asked)
      PROVE  TypeOK'
  BY <1>1 DEF RefuseCollect
<1>2. ASSUME NEW p \in Calls, NEW k \in Collectors, NEW asked \in Amounts,
             NEW c \in Cards, StartCollect(p, k, c, asked)
      PROVE  TypeOK'
  <2> DEFINE j == [card |-> c, from |-> Source(c), to |-> Home[k],
                   till |-> IF k \in Stations THEN k ELSE NoStation,
                   amount |-> Charge(k, asked)]
  <2>1. j \in Jobs
    BY <1>2, SourceType, ChargeType DEF StartCollect, CanCollect, Jobs
  <2>2. job' = [job EXCEPT ![p] = j]
    BY <1>2 DEF StartCollect
  <2> HIDE DEF j
  <2>3. QED
    BY <1>2, <2>1, <2>2 DEF StartCollect
<1>3. ASSUME NEW p \in Calls, NEW a \in Personal, NEW b \in Personal,
             NEW n \in Amounts, StartSend(p, a, b, n)
      PROVE  TypeOK'
  <2> DEFINE j == [card |-> NoCard, from |-> a, to |-> b,
                   till |-> NoStation, amount |-> n]
  <2>1. j \in Jobs
    BY ChargeType DEF Jobs
  <2>2. job' = [job EXCEPT ![p] = j]
    BY <1>3 DEF StartSend
  <2>3. Snapshot(a) \in Snapshots
    BY DEF Snapshot, Snapshots
  <2> HIDE DEF j
  <2>4. QED
    BY <1>3, <2>1, <2>2, <2>3 DEF StartSend
<1>4. ASSUME NEW p \in Calls, ReadCard(p) PROVE TypeOK'
  <2>1. job[p].from \in Accounts
    BY <1>4 DEF ReadCard, Jobs
  <2>2. Snapshot(job[p].from) \in Snapshots
    BY <2>1 DEF Snapshot, Snapshots
  <2>3. QED
    BY <1>4, <2>2 DEF ReadCard
<1>5. ASSUME NEW p \in Calls, Approve(p) PROVE TypeOK'
  <2>1. [seen[p] EXCEPT !.total = TotalToday(p), !.day = today] \in Snapshots
    <3>1. seen[p] \in Snapshots /\ today \in Nat
      OBVIOUS
    <3>2. TotalToday(p) \in Int
      BY <3>1 DEF TotalToday, Snapshots
    <3> HIDE DEF TypeOK
    <3>3. QED
      BY <3>1, <3>2 DEF Snapshots
  <2>2. seen' = [seen EXCEPT ![p] = [seen[p] EXCEPT !.total = TotalToday(p), !.day = today]]
    BY <1>5 DEF Approve
  <2>3. QED
    BY <1>5, <2>1, <2>2 DEF Approve
<1>6. ASSUME NEW p \in Calls, Refuse(p) PROVE TypeOK'
  BY <1>6, ForgetType DEF Refuse
<1>7. ASSUME NEW p \in Calls, Commit(p) \/ CommitUnheard(p) PROVE TypeOK'
  <2>1. Settle(p) /\ faults' \in Nat
    BY <1>7 DEF Commit, CommitUnheard, Fault
  <2>2. /\ pc[p] = "commit"
        /\ job[p].from \in Accounts /\ job[p].to \in Accounts
        /\ job[p].amount \in Int
    BY <2>1, ChargeType DEF Settle, Jobs
  <2>3. balance' \in [Accounts -> Int]
    <3>1. balance' = [balance EXCEPT ![job[p].from] = @ - job[p].amount,
                                     ![job[p].to] = @ + job[p].amount]
      BY <2>1 DEF Settle, Debit, Moved
    <3> HIDE DEF Accounts
    <3>2. QED
      BY <2>2, <3>1
  <2>4. /\ total' \in [Wallets -> Int] /\ latest' \in [Wallets -> Nat]
        /\ dailyBalance' \in [Stations -> Int] /\ spent' \in [Wallets -> Nat]
    <3>1. CASE Counted(p)
      <4>1. job[p].from \in Wallets /\ job[p].till \in Stations
        BY <3>1, <2>1 DEF Settle, CanCommit, Counted, FromWallet
      <4>2. /\ seen[p].total \in Int /\ seen[p].day \in Nat
            /\ Gross(job[p].amount) \in Nat
        BY <2>2, GrossType DEF Snapshots
      <4>3. /\ total' = [total EXCEPT ![job[p].from] =
                                       seen[p].total + job[p].amount]
            /\ latest' = [latest EXCEPT ![job[p].from] = seen[p].day]
            /\ dailyBalance' = [dailyBalance EXCEPT ![job[p].till] =
                                                     @ + job[p].amount]
            /\ spent' = [spent EXCEPT ![job[p].from] = @ + Gross(job[p].amount)]
        BY <3>1, <2>1 DEF Settle, CountForTheDay
      <4>4. QED
        BY <2>2, <4>1, <4>2, <4>3
    <3>2. CASE ~Counted(p)
      BY <3>2, <2>1 DEF Settle
    <3>3. QED
      BY <3>1, <3>2
  <2>7. /\ settledOn' \in [Calls -> Nat] /\ overlapped' \subseteq Accounts
        /\ drained' \subseteq Accounts /\ stray' \subseteq Wallets
    BY <2>1, <2>2 DEF Settle, IsStray, Counted, FromWallet
  <2>5. seen' \in [Calls -> Snapshots]
    BY <2>1, ForgetType DEF Settle
  <2>6. ref' \in [Calls -> References \cup {NoRef}]
    BY <1>7, ReferenceType DEF Commit, CommitUnheard
  <2>8. pc' \in [Calls -> {"idle"} \cup InFlight \cup Ended]
        /\ \A q \in Calls : pc'[q] \in InFlight => pc[q] \in InFlight
    BY <1>7, <2>2 DEF Commit, CommitUnheard
  <2>9. \A q \in Calls : pc'[q] = "record" => ref'[q] \in References
    BY <1>7, ReferenceType DEF Commit, CommitUnheard
  <2>10. QED
    BY <2>1, <2>3, <2>4, <2>5, <2>6, <2>7, <2>8, <2>9 DEF Settle
<1>8. ASSUME NEW p \in Calls, Abort(p) PROVE TypeOK'
  BY <1>8, ForgetType DEF Abort, Fault
<1>9. ASSUME NEW p \in Calls, Record(p) \/ RecordUnheard(p) PROVE TypeOK'
  <2>1. Write(p) /\ faults' \in Nat
    BY <1>9 DEF Record, RecordUnheard, Fault
  <2>2. [ref |-> ref[p], entry |-> Entry(p)] \in Rows
    <3>1. ref[p] \in References
      BY <1>9, <2>1 DEF Write
    <3>2. Entry(p) \in Moves
      BY <2>1 DEF Write, Entry, Moves, Jobs
    <3>3. QED
      BY <3>1, <3>2 DEF Rows
  <2>3. trx' \subseteq Rows
    BY <2>1, <2>2 DEF Write
  <2>4. QED
    BY <1>9, <2>1, <2>3 DEF Write, Record, RecordUnheard
<1>10. ASSUME NEW p \in Calls, RecordFails(p) PROVE TypeOK'
  BY <1>10 DEF RecordFails, Fault
<1>11. CASE Tick
  BY <1>11 DEF Tick
<1>12. CASE Midnight
  BY <1>12 DEF Midnight
<1>13. CASE ResetStationBalances
  BY <1>13 DEF ResetStationBalances, Fault
<1>14. CASE Crash
  BY <1>14 DEF Crash, Fault, NoSnapshot, Snapshots
<1>15. ASSUME NEW X, Delete(X), X \subseteq Stations \cup Cards \cup Wallets, trx' \subseteq trx
       PROVE  TypeOK'
  BY <1>15 DEF Delete
<1>16. CASE UNCHANGED vars
  BY <1>16 DEF vars
<1>17. ASSUME NEW w \in Personal, DeleteUser(w) PROVE TypeOK'
  <2>1. {w} \cup ({c \in Cards : Owner[c] = w} \ gone) \subseteq Stations \cup Cards \cup Wallets
    BY <1>17
  <2>2. QED
    BY <1>15, <1>17, <2>1 DEF DeleteUser
<1>18. QED
  BY NextCases, <1>1, <1>2, <1>3, <1>4, <1>5, <1>6, <1>7, <1>8, <1>9,
     <1>10, <1>11, <1>12, <1>13, <1>14, <1>15, <1>16, <1>17
     DEF Deletion, DeleteStation, DeleteCard

(* Type correctness of Payments: every variable keeps to its columns' types *)
(* and a call in flight knows what it was asked to do.                      *)
THEOREM TypeCorrect == Spec => []TypeOK
<1>1. Init => TypeOK
  BY AmountAssumption
     DEF Init, TypeOK, InFlight, Reading, Ended, NoSnapshot, Snapshots, Rows
<1>2. TypeOK /\ [Next]_vars => TypeOK'
  BY TypeKept
<1>3. QED
  BY <1>1, <1>2, PTL DEF Spec
-------------------------------------------------------------------------------
LEMMA JobType ==
  ASSUME TypeOK, NEW p \in Calls, pc[p] \in InFlight
  PROVE  /\ job[p].from \in Accounts /\ job[p].to \in Accounts
         /\ job[p].amount \in Int
<1>1. job[p] \in Jobs
  BY DEF TypeOK
<1>2. job[p].from \in Accounts /\ job[p].to \in Wallets /\ job[p].amount \in Charges
  <2> HIDE DEF Accounts
  <2>1. QED
    BY <1>1 DEF Jobs
<1>3. \A n \in Charges : n \in Int
  BY ChargeType
<1>4. job[p].to \in Accounts
  BY <1>2
<1>5. QED
  BY <1>2, <1>3, <1>4

(* What a commit does to the rows and to the history, without the records. *)
LEMMA SettleFacts ==
  ASSUME TypeOK, NEW p \in Calls, Settle(p)
  PROVE  LET w == job[p].from  n == job[p].amount IN
         /\ \A a \in Accounts \ drained' :
              balance'[a] >= balance[a] - (IF a = w THEN n ELSE 0)
         /\ Counted(p) => /\ total'[w] = seen[p].total + n
                          /\ latest'[w] = seen[p].day
                          /\ spent'[w] = spent[w] + Gross(n)
         /\ \A v \in Wallets :
              (v # w \/ ~Counted(p)) => /\ total'[v] = total[v]
                                       /\ latest'[v] = latest[v]
                                       /\ spent'[v] = spent[v]
         /\ overlapped \subseteq overlapped' /\ drained \subseteq drained'
         /\ stray \subseteq stray'
         /\ w \notin overlapped' => ~ReliedOn(w, p)
         /\ (Counted(p) /\ w \notin stray') => n >= 0 /\ seen[p].day >= today
<1>1. /\ pc[p] = "commit"
      /\ job[p].from \in Accounts /\ job[p].to \in Accounts
      /\ job[p].amount \in Int
  BY JobType DEF Settle, InFlight, Reading
<1>2. balance' = [balance EXCEPT ![job[p].from] = @ - job[p].amount,
                                 ![job[p].to] = @ + job[p].amount]
  BY DEF Settle, Debit, Moved
<1>3. \A a \in Accounts \ drained' :
        balance'[a] >= balance[a] - (IF a = job[p].from THEN job[p].amount ELSE 0)
  <2>1. balance \in [Accounts -> Int]
    BY DEF TypeOK
  <2>2. job[p].to \notin drained' => job[p].amount >= 0
    BY <1>1 DEF Settle
  <2> HIDE DEF Accounts
  <2>3. QED
    BY <1>1, <1>2, <2>1, <2>2
<1>4. /\ total \in [Wallets -> Int] /\ latest \in [Wallets -> Nat]
      /\ spent \in [Wallets -> Nat] /\ seen[p].day \in Nat /\ today \in Nat
  BY DEF TypeOK, Snapshots
<1>h. /\ overlapped \subseteq overlapped' /\ drained \subseteq drained'
      /\ stray \subseteq stray'
      /\ job[p].from \notin overlapped' => ~ReliedOn(job[p].from, p)
      /\ (Counted(p) /\ job[p].from \notin stray') =>
           job[p].amount >= 0 /\ seen[p].day >= today
  BY <1>1, <1>4 DEF Settle, IsStray
<1>5. CASE Counted(p)
  <2>1. job[p].from \in Wallets
    BY <1>5 DEF Counted, FromWallet
  <2>2. /\ total' = [total EXCEPT ![job[p].from] = seen[p].total + job[p].amount]
        /\ latest' = [latest EXCEPT ![job[p].from] = seen[p].day]
        /\ spent' = [spent EXCEPT ![job[p].from] = @ + Gross(job[p].amount)]
    BY <1>5 DEF Settle, CountForTheDay
  <2>3. QED
    BY <1>3, <1>4, <1>5, <1>h, <2>1, <2>2
<1>6. CASE ~Counted(p)
  BY <1>3, <1>6, <1>h DEF Settle
<1>7. QED
  BY <1>5, <1>6

(* A commit leaves what is undisturbed undisturbed. *)
LEMMA SettleKeepsUndisturbed ==
  ASSUME TypeOK, Undisturbed, NEW p \in Calls, Commit(p) \/ CommitUnheard(p)
  PROVE  Undisturbed'
<1> DEFINE w == job[p].from
           n == job[p].amount
<1>1. Settle(p)
  BY DEF Commit, CommitUnheard
<1>2. TypeOK'
  BY TypeKept DEF Next, Step
<1>3. /\ pc[p] = "commit" /\ w \in Accounts /\ n \in Int
      /\ today' = today /\ job' = job
      /\ \A q \in Calls \ {p} : seen'[q] = seen[q]
      /\ seen'[p] = NoSnapshot
  BY <1>1, JobType, ForgetType DEF Settle, clock, InFlight, Reading
<1>4. \A q \in Calls : pc'[q] \in Reading =>
        /\ q # p /\ pc'[q] = pc[q]
        /\ job[q].from \in Accounts
        /\ job[q].from \notin overlapped' =>
             job[q].from \notin overlapped /\ job[q].from # w
  <2>1. \A q \in Calls : pc'[q] \in Reading => q # p /\ pc'[q] = pc[q]
    BY DEF Commit, CommitUnheard, Goto, Reading, TypeOK
  <2>2. overlapped \subseteq overlapped' /\ (w \notin overlapped' => ~ReliedOn(w, p))
    BY <1>1, SettleFacts
  <2>3. QED
    BY <2>1, <2>2, JobType DEF ReliedOn, InFlight
<1>5. /\ balance \in [Accounts -> Int] /\ balance' \in [Accounts -> Int]
      /\ total \in [Wallets -> Int] /\ spent \in [Wallets -> Nat]
      /\ latest \in [Wallets -> Nat] /\ today \in Nat
      /\ Gross(n) \in Nat /\ (n >= 0 => Gross(n) = n)
      /\ \A q \in Calls : /\ seen[q].funds \in Int /\ seen[q].total \in Int
                          /\ seen[q].day \in Nat
  BY <1>2, <1>3, GrossType DEF TypeOK, Snapshots
<1>6. /\ \A a \in Accounts \ drained' : balance'[a] >= balance[a] - (IF a = w THEN n ELSE 0)
      /\ Counted(p) => /\ total'[w] = seen[p].total + n
                       /\ latest'[w] = seen[p].day
                       /\ spent'[w] = spent[w] + Gross(n)
      /\ \A v \in Wallets :
           (v # w \/ ~Counted(p)) => /\ total'[v] = total[v]
                                    /\ latest'[v] = latest[v]
                                    /\ spent'[v] = spent[v]
      /\ overlapped \subseteq overlapped' /\ drained \subseteq drained'
      /\ stray \subseteq stray'
      /\ (Counted(p) /\ w \notin stray') => n >= 0 /\ seen[p].day >= today
  BY <1>1, SettleFacts
<1>7. /\ w \notin overlapped \cup drained => n <= balance[w]
      /\ (Counted(p) /\ w \notin overlapped) =>
           /\ w \in Wallets
           /\ seen[p].total + n <= DailyLimit
           /\ seen[p].day = today => spent[w] <= seen[p].total \/ w \in stray
      /\ \A q \in Calls : seen[q].day <= today
  BY <1>3, <1>5 DEF Undisturbed, FundsStand, TotalStands, DaysStand, Reading, Counted, FromWallet
<1>d. DaysStand'
  BY <1>3, <1>5, <1>7 DEF DaysStand, NoSnapshot
<1> HIDE DEF w, n
<1>8. OverdraftNeedsCause'
  <2> SUFFICES ASSUME NEW a \in Accounts, a \notin overlapped' \cup drained'
               PROVE  balance'[a] >= 0
    BY <1>5 DEF OverdraftNeedsCause
  <2>1. balance[a] >= 0
    BY <1>5, <1>6 DEF Undisturbed, OverdraftNeedsCause
  <2>2. a = w => n <= balance[a]
    BY <1>6, <1>7
  <2>3. QED
    BY <1>3, <1>5, <1>6, <2>1, <2>2
<1>9. LimitNeedsCause'
  <2> SUFFICES ASSUME NEW v \in Wallets, v \notin overlapped' \cup stray'
               PROVE  spent'[v] <= DailyLimit
    BY <1>2, AmountAssumption DEF LimitNeedsCause, TypeOK
  <2>1. spent[v] <= DailyLimit
    BY <1>5, <1>6, AmountAssumption DEF Undisturbed, LimitNeedsCause
  <2>2. CASE v = w /\ Counted(p)
    <3>1. n >= 0 /\ seen[p].day = today
      BY <1>5, <1>6, <1>7, <2>2
    <3>2. QED
      BY <1>3, <1>5, <1>6, <1>7, <2>2, <3>1, AmountAssumption
  <2>3. CASE v # w \/ ~Counted(p)
    BY <1>6, <2>1, <2>3
  <2>4. QED
    BY <2>2, <2>3
<1>10. FundsStand'
  <2> SUFFICES ASSUME NEW q \in Calls, pc'[q] \in Reading
               PROVE  /\ job[q].from \notin overlapped' \cup drained' =>
                            seen'[q].funds <= balance'[job[q].from]
                      /\ pc'[q] = "commit" => job[q].amount <= seen'[q].funds
    BY <1>3 DEF FundsStand, Reading
  <2>1. q # p /\ seen'[q] = seen[q] /\ pc[q] = pc'[q]
    BY <1>3, <1>4
  <2>2. pc'[q] = "commit" => job[q].amount <= seen'[q].funds
    BY <2>1 DEF Undisturbed, FundsStand
  <2>3. ASSUME job[q].from \notin overlapped' \cup drained'
        PROVE  seen'[q].funds <= balance'[job[q].from]
    <3> DEFINE b == job[q].from
    <3>1. b \in Accounts /\ b # w /\ b \notin overlapped \cup drained
      BY <1>4, <1>6, <2>3
    <3>2. seen[q].funds <= balance[b]
      BY <2>1, <3>1 DEF Undisturbed, FundsStand
    <3>3. balance'[b] >= balance[b] - 0
      BY <1>6, <2>3, <3>1
    <3> HIDE DEF b, Accounts
    <3>4. balance[b] \in Int /\ balance'[b] \in Int /\ seen[q].funds \in Int
      BY <1>5, <3>1
    <3>5. seen[q].funds <= balance'[b]
      BY <3>2, <3>3, <3>4
    <3>6. QED
      BY <2>1, <3>5 DEF b
  <2>4. QED
    BY <2>2, <2>3
<1>11. TotalStands'
  <2>1. \A q \in Calls : Counted(q)' = Counted(q)
    BY <1>3 DEF Counted, IsSend, FromWallet
  <2> SUFFICES ASSUME NEW q \in Calls, pc'[q] \in Reading, Counted(q),
                      job[q].from \notin overlapped'
               PROVE  \/ /\ pc'[q] = "check"
                         /\ seen[q].total = total'[job[q].from]
                         /\ seen[q].day = latest'[job[q].from]
                      \/ /\ pc'[q] = "commit"
                         /\ seen[q].total + job[q].amount <= DailyLimit
                         /\ seen[q].day = today =>
                              spent'[job[q].from] <= seen[q].total \/ job[q].from \in stray'
    BY <1>3, <1>4, <2>1 DEF TotalStands
  <2>2. /\ job[q].from \in Wallets /\ job[q].from # w
        /\ pc[q] \in Reading /\ pc'[q] = pc[q]
        /\ job[q].from \notin overlapped
    BY <1>4 DEF Counted, FromWallet
  <2>3. QED
    BY <1>6, <2>2 DEF Undisturbed, TotalStands
<1>12. CountersStand'
  <2> SUFFICES ASSUME NEW v \in Wallets
               PROVE  /\ latest'[v] <= today
                      /\ v \notin overlapped' \cup stray' =>
                           IF latest'[v] = today THEN spent'[v] <= total'[v] ELSE spent'[v] = 0
    BY <1>3 DEF CountersStand
  <2>1. CASE v = w /\ Counted(p)
    <3>1. latest'[v] <= today
      BY <1>6, <1>7, <2>1
    <3>2. ASSUME v \notin overlapped' \cup stray'
          PROVE  latest'[v] = today /\ spent'[v] <= total'[v]
      <4>1. n >= 0 /\ seen[p].day = today
        BY <1>5, <1>6, <1>7, <2>1, <3>2
      <4>2. QED
        BY <1>3, <1>5, <1>6, <1>7, <2>1, <3>2, <4>1
    <3>3. QED
      BY <3>1, <3>2
  <2>2. CASE v # w \/ ~Counted(p)
    BY <1>5, <1>6, <2>2 DEF Undisturbed, CountersStand
  <2>3. QED
    BY <2>1, <2>2
<1>13. QED
  BY <1>8, <1>9, <1>10, <1>11, <1>12, <1>d DEF Undisturbed

(* Starting, reading, deciding and ending a call disturb no row.            *)
LEMMA QuietKeepsUndisturbed ==
  ASSUME TypeOK, Undisturbed, TypeOK', NEW p \in Calls,
         UNCHANGED <<balance, total, latest, today, spent, overlapped, drained, stray>>,
         \A q \in Calls \ {p} : pc'[q] = pc[q] /\ job'[q] = job[q] /\ seen'[q] = seen[q],
         pc'[p] \in Reading =>
           \/ /\ pc'[p] = "check"
              /\ seen'[p] = Snapshot(job'[p].from)
              /\ job'[p].from \in Accounts
           \/ /\ pc'[p] = "commit" /\ pc[p] = "check" /\ job'[p] = job[p]
              /\ Covered(p) /\ WithinLimit(p)
              /\ seen'[p] = [seen[p] EXCEPT !.total = TotalToday(p), !.day = today],
         pc'[p] \notin Reading => seen'[p] = seen[p] \/ seen'[p] = NoSnapshot
  PROVE  Undisturbed'
<1>1. OverdraftNeedsCause' /\ LimitNeedsCause' /\ CountersStand'
  BY DEF Undisturbed, OverdraftNeedsCause, LimitNeedsCause, CountersStand
<1>2. /\ balance \in [Accounts -> Int] /\ total \in [Wallets -> Int]
      /\ spent \in [Wallets -> Nat] /\ latest \in [Wallets -> Nat]
      /\ today \in Nat
      /\ \A q \in Calls : seen[q] \in Snapshots
  BY DEF TypeOK
<1>d. DaysStand'
  <2>1. seen'[p].day <= today
    <3>1. CASE seen'[p] = Snapshot(job'[p].from)
      BY <1>2, <3>1 DEF Snapshot, Undisturbed, CountersStand, TypeOK
    <3>2. CASE seen'[p] = [seen[p] EXCEPT !.total = TotalToday(p), !.day = today]
      BY <1>2, <3>2 DEF Snapshots
    <3>3. CASE seen'[p] = seen[p] \/ seen'[p] = NoSnapshot
      BY <1>2, <3>3 DEF NoSnapshot, Undisturbed, DaysStand
    <3>4. QED
      BY <3>1, <3>2, <3>3
  <2>2. QED
    BY <2>1 DEF DaysStand, Undisturbed
<1>3. CASE pc'[p] = "check"
  <2>1. /\ seen'[p] = Snapshot(job'[p].from)
        /\ job'[p].from \in Accounts
    BY <1>3 DEF Reading
  <2>2. FundsStand'
    <3>1. seen'[p].funds = balance[job'[p].from]
      BY <2>1 DEF Snapshot
    <3>2. balance[job'[p].from] <= balance[job'[p].from]
      BY <1>2, <2>1
    <3>3. QED
      BY <1>3, <3>1, <3>2 DEF FundsStand, Undisturbed, Reading
  <2>3. TotalStands'
    <3>1. job'[p].from \in Wallets => /\ seen'[p].total = total[job'[p].from]
                                     /\ seen'[p].day = latest[job'[p].from]
      BY <2>1 DEF Snapshot
    <3>2. QED
      BY <1>3, <3>1 DEF TotalStands, Undisturbed, Reading, Counted, FromWallet,
                        IsSend
  <2>4. QED
    BY <1>1, <1>d, <2>2, <2>3 DEF Undisturbed
<1>4. CASE pc'[p] = "commit"
  <2>1. /\ pc[p] = "check" /\ job'[p] = job[p]
        /\ Covered(p) /\ WithinLimit(p)
        /\ seen'[p].funds = seen[p].funds
        /\ seen'[p].total = TotalToday(p) /\ seen'[p].day = today
    BY <1>2, <1>4 DEF Reading, Snapshots
  <2>2. FundsStand'
    BY <1>4, <2>1 DEF FundsStand, Undisturbed, Reading, Covered
  <2>3. TotalStands'
    <3> SUFFICES ASSUME NEW q \in Calls, pc'[q] \in Reading, Counted(q)',
                        job'[q].from \notin overlapped
                 PROVE  \/ /\ pc'[q] = "check"
                           /\ seen'[q].total = total[job'[q].from]
                           /\ seen'[q].day = latest[job'[q].from]
                        \/ /\ pc'[q] = "commit"
                           /\ seen'[q].total + job'[q].amount <= DailyLimit
                           /\ seen'[q].day = today =>
                                spent[job'[q].from] <= seen'[q].total \/ job'[q].from \in stray
      BY DEF TotalStands
    <3>1. CASE q # p
      BY <3>1 DEF TotalStands, Undisturbed, Counted, FromWallet, IsSend
    <3>2. CASE q = p
      <4> DEFINE w == job[p].from
      <4>1. Counted(p) /\ w \in Wallets /\ w \notin overlapped
        BY <2>1, <3>2 DEF Counted, FromWallet, IsSend
      <4>2. seen[p].total = total[w] /\ seen[p].day = latest[w]
        BY <2>1, <4>1 DEF Undisturbed, TotalStands, Reading
      <4>3. TotalToday(p) + job[p].amount <= DailyLimit
        BY <2>1, <4>1 DEF WithinLimit, Counted
      <4>4. spent[w] <= TotalToday(p) \/ w \in stray
        <5>1. CASE latest[w] = today
          BY <1>2, <4>1, <4>2, <5>1 DEF TotalToday, Undisturbed, CountersStand
        <5>2. CASE latest[w] # today
          BY <1>2, <4>1, <4>2, <5>2 DEF TotalToday, Undisturbed, CountersStand
        <5>3. QED
          BY <5>1, <5>2
      <4>5. QED
        BY <1>4, <2>1, <3>2, <4>3, <4>4
    <3>3. QED
      BY <3>1, <3>2
  <2>4. QED
    BY <1>1, <1>d, <2>2, <2>3 DEF Undisturbed
<1>5. CASE pc'[p] \notin Reading
  <2>1. FundsStand'
    BY <1>5 DEF FundsStand, Undisturbed, Reading
  <2>2. TotalStands'
    BY <1>5 DEF TotalStands, Undisturbed, Reading, Counted, FromWallet, IsSend
  <2>3. QED
    BY <1>1, <1>d, <2>1, <2>2 DEF Undisturbed
<1>6. QED
  BY <1>3, <1>4, <1>5 DEF Reading

LEMMA UndisturbedKept ==
  ASSUME TypeOK, Undisturbed, [Next]_vars PROVE Undisturbed'
<1>1. TypeOK'
  BY TypeKept
<1>0. Personal \subseteq Accounts
  BY CardAssumption
<1>2. pc \in [Calls -> {"idle"} \cup InFlight \cup Ended]
      /\ job \in [Calls -> Jobs \cup {NoJob}] /\ seen \in [Calls -> Snapshots]
  BY DEF TypeOK
<1> USE DEF rows, clock, history, Goto, Reading
<1>3. ASSUME NEW p \in Calls, NEW k \in Collectors, NEW asked \in Amounts,
             RefuseCollect(p, k, asked)
      PROVE  Undisturbed'
  BY <1>1, <1>2, <1>3, QuietKeepsUndisturbed DEF RefuseCollect
<1>4. ASSUME NEW p \in Calls, NEW k \in Collectors, NEW asked \in Amounts,
             NEW c \in Cards, StartCollect(p, k, c, asked)
      PROVE  Undisturbed'
  BY <1>1, <1>2, <1>4, QuietKeepsUndisturbed DEF StartCollect
<1>5. ASSUME NEW p \in Calls, NEW a \in Personal, NEW b \in Personal,
             NEW n \in Amounts, StartSend(p, a, b, n)
      PROVE  Undisturbed'
  <2>1. /\ pc'[p] = "check" /\ job'[p].from = a
        /\ seen'[p] = Snapshot(a)
    BY <1>2, <1>5 DEF StartSend
  <2>2. QED
    BY <1>0, <1>1, <1>2, <1>5, <2>1, QuietKeepsUndisturbed DEF StartSend
<1>6. ASSUME NEW p \in Calls, ReadCard(p) PROVE Undisturbed'
  <2>1. pc'[p] = "check" /\ job'[p] = job[p] /\ seen'[p] = Snapshot(job[p].from)
    BY <1>2, <1>6 DEF ReadCard
  <2>2. job[p].from \in Accounts
    BY <1>6, JobType DEF ReadCard, InFlight
  <2>3. QED
    BY <1>1, <1>2, <1>6, <2>1, <2>2, QuietKeepsUndisturbed DEF ReadCard
<1>7. ASSUME NEW p \in Calls, Approve(p) PROVE Undisturbed'
  <2>1. /\ pc'[p] = "commit" /\ pc[p] = "check" /\ job'[p] = job[p]
        /\ seen'[p] = [seen[p] EXCEPT !.total = TotalToday(p), !.day = today]
        /\ \A q \in Calls \ {p} : seen'[q] = seen[q]
    BY <1>2, <1>7 DEF Approve
  <2>2. QED
    BY <1>1, <1>2, <1>7, <2>1, QuietKeepsUndisturbed DEF Approve
<1>8. ASSUME NEW p \in Calls, Refuse(p) PROVE Undisturbed'
  BY <1>1, <1>2, <1>8, ForgetType, QuietKeepsUndisturbed DEF Refuse
<1>9. ASSUME NEW p \in Calls, Commit(p) \/ CommitUnheard(p) PROVE Undisturbed'
  BY <1>9, SettleKeepsUndisturbed
<1>10. ASSUME NEW p \in Calls, Abort(p) PROVE Undisturbed'
  BY <1>1, <1>2, <1>10, ForgetType, QuietKeepsUndisturbed DEF Abort
<1>11. ASSUME NEW p \in Calls, Record(p) \/ RecordUnheard(p) PROVE Undisturbed'
  BY <1>1, <1>2, <1>11, QuietKeepsUndisturbed DEF Record, RecordUnheard, Write
<1>12. ASSUME NEW p \in Calls, RecordFails(p) PROVE Undisturbed'
  BY <1>1, <1>2, <1>12, QuietKeepsUndisturbed DEF RecordFails
<1> USE DEF Undisturbed, OverdraftNeedsCause, LimitNeedsCause, FundsStand,
            TotalStands, CountersStand, DaysStand, Counted, FromWallet, IsSend
<1>13. CASE Tick
  BY <1>13 DEF Tick
<1>14. CASE Midnight
  <2>1. /\ UNCHANGED <<balance, total, latest, pc, job, seen, overlapped, drained>>
        /\ today' = today + 1 /\ today \in Nat
        /\ spent' = [w \in Wallets |-> 0] /\ stray' = {}
        /\ latest \in [Wallets -> Nat]
        /\ \A q \in Calls : seen[q].day \in Nat
    BY <1>14 DEF Midnight, TypeOK, Snapshots
  <2>2. OverdraftNeedsCause' /\ FundsStand'
    BY <2>1
  <2>3. LimitNeedsCause' /\ CountersStand' /\ DaysStand'
    BY <2>1, AmountAssumption
  <2>4. \A q \in Calls : seen[q].day < today'
    BY <2>1
  <2>5. TotalStands'
    BY <2>1, <2>4
  <2>6. QED
    BY <2>2, <2>3, <2>5
<1>15. CASE ResetStationBalances
  BY <1>15 DEF ResetStationBalances
<1>16. CASE Crash
  <2>1. \A q \in Calls : pc'[q] \notin Reading /\ seen'[q] = NoSnapshot
    BY <1>2, <1>16 DEF Crash, InFlight
  <2>2. today \in Nat
    BY DEF TypeOK
  <2>3. QED
    BY <1>16, <2>1, <2>2 DEF Crash, NoSnapshot
<1>17. CASE UNCHANGED vars
  BY <1>17 DEF vars
<1>18. ASSUME NEW X, Delete(X) PROVE Undisturbed'
  BY <1>18 DEF Delete
<1>19. QED
  BY NextCases, <1>3, <1>4, <1>5, <1>6, <1>7, <1>8, <1>9, <1>10, <1>11, <1>12,
     <1>13, <1>14, <1>15, <1>16, <1>17, <1>18 DEF Deletion, DeleteStation, DeleteCard, DeleteUser

(* Overdrafts need overlapping calls or a negative amount, and excesses over *)
(* the daily limit need those or a midnight between check and commit; the    *)
(* inductive argument is that what an undisturbed call has read still holds. *)
THEOREM UndisturbedHolds == Spec => []Undisturbed
<1>1. Init => Undisturbed
  BY AmountAssumption
     DEF Init, Undisturbed, OverdraftNeedsCause, LimitNeedsCause, FundsStand,
         TotalStands, CountersStand, DaysStand, NoSnapshot, Reading
<1>2. TypeOK /\ Undisturbed /\ [Next]_vars => Undisturbed'
  BY UndisturbedKept
<1>3. QED
  BY <1>1, <1>2, TypeCorrect, PTL DEF Spec

(* No account is overdrawn but by calls that overlap on it or by a negative  *)
(* amount paid to it.                                                        *)
THEOREM NoOverdraftAlone == Spec => []OverdraftNeedsCause
<1>1. Undisturbed => OverdraftNeedsCause
  BY DEF Undisturbed
<1>2. QED
  BY <1>1, UndisturbedHolds, PTL

(* No wallet's cards spend more than the daily limit but by calls that       *)
(* overlap on it, by negative amounts or across midnight.                    *)
THEOREM LimitHoldsAlone == Spec => []LimitNeedsCause
<1>1. Undisturbed => LimitNeedsCause
  BY DEF Undisturbed
<1>2. QED
  BY <1>1, UndisturbedHolds, PTL
-------------------------------------------------------------------------------
BookKept == AnswersAreTrue /\ RowsAreMoves

(* A step that moves no money and writes no row keeps the book in order.    *)
LEMMA QuietKeepsBook ==
  ASSUME TypeOK, BookKept, NEW p \in Calls, UNCHANGED <<trx, gone, settledOn>>,
         \A q \in Calls \ {p} : pc'[q] = pc[q] /\ job'[q] = job[q],
         Settled(p) => job'[p] = job[p],
         \/ pc[p] \in {"idle", "card"} \cup Reading
              /\ pc'[p] \in {"card", "refused", "failed"} \cup Reading
         \/ pc'[p] = "failed"
  PROVE  /\ BookKept'
         /\ \A q \in Calls : Settled(q) => job'[q] = job[q]
<1>1. \A q \in Calls : Settled(q)' = Settled(q) /\ Booked(q)' = Booked(q)
  BY DEF Settled, Booked
<1>2. AnswersAreTrue'
  BY <1>1 DEF BookKept, AnswersAreTrue, Reading
<1>3. \A q \in Calls : Settled(q) => job'[q] = job[q] /\ Entry(q)' = Entry(q)
  BY DEF Entry
<1>4. RowsAreMoves'
  BY <1>1, <1>3 DEF BookKept, RowsAreMoves, TypeOK, Rows, Moves
<1>5. QED
  BY <1>2, <1>3, <1>4 DEF BookKept

(* The same when the calls do not move, or are all lost in a crash.         *)
LEMMA StillKeepsBook ==
  ASSUME TypeOK, BookKept, UNCHANGED <<trx, gone, settledOn>>,
         \A q \in Calls : Settled(q) => job'[q] = job[q],
         \A q \in Calls : pc'[q] = pc[q] \/ pc'[q] = "lost"
  PROVE  BookKept'
<1>1. \A q \in Calls :
        /\ Settled(q)' = Settled(q) /\ Booked(q)' = Booked(q)
        /\ Settled(q) => Entry(q)' = Entry(q) /\ job'[q] = job[q]
  BY DEF Settled, Booked, Entry
<1>2. AnswersAreTrue'
  BY <1>1 DEF BookKept, AnswersAreTrue, Reading
<1>3. RowsAreMoves'
  BY <1>1 DEF BookKept, RowsAreMoves, TypeOK, Rows, Moves
<1>4. QED
  BY <1>2, <1>3 DEF BookKept

(* A deletion takes no row but those of a station that is gone with them.   *)
LEMMA DeletionFacts ==
  ASSUME TypeOK,
         Deletion
  PROVE  /\ UNCHANGED <<rows, clock, swept, faults, pc, job, seen, ref, history>>
         /\ trx' \subseteq trx /\ gone \subseteq gone'
         /\ \A t \in trx \ trx' : job[t.entry.by].till \in gone'
  BY DEF Deletion, DeleteStation, DeleteCard, DeleteUser, Delete

LEMMA DeletionKeepsBook ==
  ASSUME TypeOK, BookKept, UNCHANGED <<settledOn, job, pc>>,
         trx' \subseteq trx, gone \subseteq gone',
         \A t \in trx \ trx' : job[t.entry.by].till \in gone'
  PROVE  BookKept'
<1>1. \A q \in Calls : Settled(q)' = Settled(q) /\ Entry(q)' = Entry(q)
  BY DEF Settled, Entry
<1>2. \A q \in Calls :
        /\ Booked(q)' => Booked(q)
        /\ Booked(q) => Booked(q)' \/ job[q].till \in gone'
  BY DEF Booked
<1>3. AnswersAreTrue'
  BY <1>1, <1>2 DEF BookKept, AnswersAreTrue, Reading
<1>4. RowsAreMoves'
  BY <1>1 DEF BookKept, RowsAreMoves, TypeOK, Rows, Moves
<1>5. QED
  BY <1>3, <1>4 DEF BookKept

LEMMA EntryType ==
  ASSUME TypeOK, NEW p \in Calls, pc[p] \in InFlight
  PROVE  Entry(p) \in Moves
<1>1. job[p] \in Jobs
  BY DEF TypeOK
<1>2. QED
  BY <1>1 DEF Entry, Moves, Jobs

LedgerMoves == {Entry(p) : p \in {q \in Calls : Settled(q)}}
LedgerBook == {t.entry : t \in trx}

(* Every step of Payments keeps the book in order and is a step of Ledger.  *)
LEMMA LedgerStep ==
  ASSUME TypeOK, BookKept, [Next]_vars
  PROVE  BookKept' /\ [LedgerView!Next]_LedgerView!ledgerVars
<1> DEFINE Same == UNCHANGED <<balance, LedgerMoves, LedgerBook>>
<1>a. Same => [LedgerView!Next]_LedgerView!ledgerVars
  BY DEF LedgerView!ledgerVars, LedgerMoves, LedgerBook
<1>b. ASSUME UNCHANGED <<balance, trx, settledOn>>,
             \A q \in Calls : Settled(q) => job'[q] = job[q]
      PROVE  Same
  BY <1>b DEF LedgerMoves, LedgerBook, Settled, Entry
<1>c. pc \in [Calls -> {"idle"} \cup InFlight \cup Ended]
      /\ job \in [Calls -> Jobs \cup {NoJob}]
  BY DEF TypeOK
<1> HIDE DEF Same
<1> USE DEF rows, clock, history, Goto, Reading
<1>1. ASSUME NEW p \in Calls, NEW k \in Collectors, NEW asked \in Amounts,
             RefuseCollect(p, k, asked)
      PROVE  BookKept' /\ Same
  BY <1>b, <1>c, <1>1, QuietKeepsBook DEF RefuseCollect
<1>2. ASSUME NEW p \in Calls, NEW k \in Collectors, NEW asked \in Amounts,
             NEW c \in Cards, StartCollect(p, k, c, asked)
      PROVE  BookKept' /\ Same
  <2>1. ~Settled(p)
    BY <1>2 DEF StartCollect, BookKept, AnswersAreTrue
  <2>2. QED
    BY <1>b, <1>c, <1>2, <2>1, QuietKeepsBook DEF StartCollect
<1>3. ASSUME NEW p \in Calls, NEW a \in Personal, NEW b \in Personal,
             NEW n \in Amounts, StartSend(p, a, b, n)
      PROVE  BookKept' /\ Same
  <2>1. ~Settled(p)
    BY <1>3 DEF StartSend, BookKept, AnswersAreTrue
  <2>2. QED
    BY <1>b, <1>c, <1>3, <2>1, QuietKeepsBook DEF StartSend
<1>4. ASSUME NEW p \in Calls, ReadCard(p) PROVE BookKept' /\ Same
  BY <1>b, <1>c, <1>4, QuietKeepsBook DEF ReadCard
<1>5. ASSUME NEW p \in Calls, Approve(p) PROVE BookKept' /\ Same
  BY <1>b, <1>c, <1>5, QuietKeepsBook DEF Approve
<1>6. ASSUME NEW p \in Calls, Refuse(p) PROVE BookKept' /\ Same
  <2>1. ~Settled(p)
    BY <1>6 DEF Refuse, BookKept, AnswersAreTrue
  <2>2. QED
    BY <1>b, <1>c, <1>6, <2>1, QuietKeepsBook DEF Refuse
<1>7. ASSUME NEW p \in Calls, Abort(p) PROVE BookKept' /\ Same
  BY <1>b, <1>c, <1>7, QuietKeepsBook DEF Abort
<1>8. ASSUME NEW p \in Calls, RecordFails(p) PROVE BookKept' /\ Same
  BY <1>b, <1>c, <1>8, QuietKeepsBook DEF RecordFails
<1>9. ASSUME Tick \/ Midnight \/ ResetStationBalances \/ UNCHANGED vars
      PROVE  BookKept' /\ Same
  BY <1>b, <1>9, StillKeepsBook DEF Tick, Midnight, ResetStationBalances, vars
<1>10. ASSUME Crash PROVE BookKept' /\ Same
  BY <1>b, <1>c, <1>10, StillKeepsBook DEF Crash, Settled
<1>14. ASSUME Deletion
       PROVE  BookKept' /\ LedgerView!Next
  <2>1. /\ UNCHANGED <<balance, settledOn, job, pc>>
        /\ trx' \subseteq trx /\ gone \subseteq gone'
        /\ \A t \in trx \ trx' : job[t.entry.by].till \in gone'
    BY <1>14, DeletionFacts
  <2>2. LedgerMoves' = LedgerMoves
    BY <2>1 DEF LedgerMoves, Settled, Entry
  <2>3. PICK S \in SUBSET LedgerBook : LedgerBook' = LedgerBook \ S
    <3>1. LedgerBook' \subseteq LedgerBook
      BY <2>1 DEF LedgerBook
    <3>2. LedgerBook \ LedgerBook' \in SUBSET LedgerBook
      OBVIOUS
    <3>3. LedgerBook' = LedgerBook \ (LedgerBook \ LedgerBook')
      BY <3>1
    <3>4. QED
      BY <3>2, <3>3
  <2>4. LedgerView!Strike(S)
    BY <2>1, <2>2, <2>3 DEF LedgerView!Strike, LedgerMoves, LedgerBook
  <2>5. LedgerView!Next
    <3>1. \E T \in SUBSET LedgerBook : LedgerView!Strike(T)
      BY <2>3, <2>4
    <3>2. QED
      BY <3>1 DEF LedgerView!Next, LedgerBook
  <2>6. QED
    BY <2>1, <2>5, DeletionKeepsBook
<1>11. ASSUME NEW p \in Calls, Commit(p) \/ CommitUnheard(p)
       PROVE  BookKept' /\ LedgerView!Next
  <2>1. /\ pc[p] = "commit" /\ trx' = trx /\ job' = job /\ gone' = gone
        /\ settledOn' = [settledOn EXCEPT ![p] = today]
        /\ pc' = [pc EXCEPT ![p] = "record"] \/ pc' = [pc EXCEPT ![p] = "failed"]
        /\ balance' = Moved(balance, job[p].from, job[p].to, job[p].amount)
    BY <1>11 DEF Commit, CommitUnheard, Settle, Debit
  <2>2. settledOn \in [Calls -> Nat] /\ today \in Nat /\ today > 0
    BY DEF TypeOK
  <2>3. /\ \A q \in Calls : Settled(q)' <=> (Settled(q) \/ q = p)
        /\ \A q \in Calls : Entry(q)' = Entry(q)
        /\ ~Settled(p)
    BY <2>1, <2>2 DEF Settled, Entry, BookKept, AnswersAreTrue
  <2>4. ~Booked(p)
    BY <2>3 DEF BookKept, RowsAreMoves, Booked
  <2>5. \A q \in Calls : Booked(q)' = Booked(q)
    BY <2>1 DEF Booked
  <2>6. AnswersAreTrue'
    BY <1>c, <2>1, <2>3, <2>4, <2>5 DEF BookKept, AnswersAreTrue
  <2>7. RowsAreMoves'
    BY <2>1, <2>3 DEF BookKept, RowsAreMoves, TypeOK, Rows, Moves
  <2>8. /\ Entry(p) \in Moves /\ Entry(p).by = p
        /\ Entry(p).from = job[p].from /\ Entry(p).to = job[p].to
        /\ Entry(p).amount = job[p].amount
    BY <2>1, EntryType DEF InFlight, Entry
  <2>9. LedgerMoves' = LedgerMoves \cup {Entry(p)}
    BY <2>3 DEF LedgerMoves
  <2>10. \A n \in LedgerMoves : n.by # Entry(p).by
    BY <2>3, <2>8 DEF LedgerMoves, Entry
  <2>11. Entry(p) \in LedgerView!Moves
    BY <2>8, EntryType, <2>1 DEF LedgerView!Moves, InFlight, Entry, Jobs, TypeOK
  <2>12. LedgerView!Transfer(Entry(p))
    BY <2>1, <2>8, <2>9, <2>10
       DEF LedgerView!Transfer, LedgerView!Moved, Moved, LedgerMoves, LedgerBook
  <2>13. QED
    BY <2>6, <2>7, <2>11, <2>12 DEF BookKept, LedgerView!Next
<1>12. ASSUME NEW p \in Calls, Record(p) \/ RecordUnheard(p)
       PROVE  BookKept' /\ LedgerView!Next
  <2> DEFINE t == [ref |-> ref[p], entry |-> Entry(p)]
  <2>1. /\ pc[p] = "record" /\ job' = job /\ gone' = gone /\ settledOn' = settledOn
        /\ balance' = balance /\ trx' = trx \cup {t}
        /\ pc' = [pc EXCEPT ![p] = "ok"] \/ pc' = [pc EXCEPT ![p] = "failed"]
        /\ \A u \in trx : u.ref # t.ref
    BY <1>12 DEF Record, RecordUnheard, Write, CanRecord
  <2>2. /\ \A q \in Calls : Settled(q)' = Settled(q) /\ Entry(q)' = Entry(q)
        /\ Settled(p) /\ ~Booked(p)
    BY <2>1 DEF Settled, Entry, BookKept, AnswersAreTrue
  <2>3. t.entry = Entry(p) /\ t.entry.by = p
    BY DEF Entry
  <2> HIDE DEF t
  <2>4. \A q \in Calls : Booked(q)' <=> (Booked(q) \/ q = p)
    BY <2>1, <2>3 DEF Booked
  <2>5. AnswersAreTrue'
    BY <1>c, <2>1, <2>2, <2>4 DEF BookKept, AnswersAreTrue
  <2>6. RowsAreMoves'
    <3>1. \A u \in trx : u.entry.by \in Calls /\ u.entry.by # p
      BY <2>2 DEF Booked, TypeOK, Rows, Moves
    <3>2. QED
      BY <2>1, <2>2, <2>3, <3>1 DEF BookKept, RowsAreMoves
  <2>7. Entry(p) \in LedgerMoves /\ Entry(p) \notin LedgerBook
    BY <2>2, <2>3 DEF LedgerMoves, LedgerBook, Booked
  <2>8. LedgerBook' = LedgerBook \cup {Entry(p)} /\ LedgerMoves' = LedgerMoves
    BY <2>1, <2>2, <2>3 DEF LedgerBook, LedgerMoves
  <2>9. LedgerView!Book(Entry(p))
    BY <2>1, <2>7, <2>8 DEF LedgerView!Book, LedgerMoves, LedgerBook
  <2>10. Entry(p) \in LedgerView!Moves
    BY <2>1, EntryType DEF InFlight, Moves, LedgerView!Moves
  <2>11. LedgerView!Next
    BY <2>9, <2>10 DEF LedgerView!Next, LedgerView!Book
  <2>12. QED
    BY <2>5, <2>6, <2>11 DEF BookKept
<1>13. BookKept' /\ (Same \/ LedgerView!Next)
  BY NextCases, <1>1, <1>2, <1>3, <1>4, <1>5, <1>6, <1>7, <1>8, <1>9, <1>10,
     <1>11, <1>12, <1>14
<1>15. QED
  BY <1>a, <1>13

LEMMA InitKeepsBook == Init => BookKept
  BY DEF Init, BookKept, AnswersAreTrue, RowsAreMoves, Settled, Reading

(* A row is a move that took place and no call has two; what a call answers *)
(* about its money is true, but for "failed".                               *)
THEOREM BookIsKept == Spec => [](RowsAreMoves /\ AnswersAreTrue)
<1>1. TypeOK /\ BookKept /\ [Next]_vars => BookKept'
  BY LedgerStep
<1>2. BookKept => RowsAreMoves /\ AnswersAreTrue
  BY DEF BookKept
<1>3. QED
  BY <1>1, <1>2, InitKeepsBook, TypeCorrect, PTL DEF Spec

(* The payment endpoints implement the ledger: one atomic move per call, at *)
(* most once, and a row only of a move that took place.                     *)
THEOREM PaymentsImplementLedger == Spec => ImplementsLedger
<1>1. Init => LedgerView!Init
  BY AmountAssumption DEF Init, LedgerView!Init, Settled
<1>2. TypeOK /\ BookKept /\ [Next]_vars =>
        BookKept' /\ [LedgerView!Next]_LedgerView!ledgerVars
  BY LedgerStep
<1>3. QED
  BY <1>1, <1>2, InitKeepsBook, TypeCorrect, PTL
     DEF Spec, ImplementsLedger, LedgerView!Spec
-------------------------------------------------------------------------------
(* A step sets the job of no call that has moved its money, brings nothing   *)
(* back that is gone and forgets no fault; only a commit moves money, and it *)
(* moves it today.                                                           *)
LEMMA StepFacts ==
  ASSUME TypeOK, BookKept, [Next]_vars
  PROVE  /\ \A q \in Calls : Settled(q) => job'[q] = job[q]
         /\ \A q \in Calls : pc[q] # "idle" => pc'[q] # "idle"
         /\ gone \subseteq gone'
         /\ faults' \in Nat /\ faults <= faults'
         /\ \A q \in Calls : settledOn'[q] # settledOn[q] =>
              /\ pc[q] = "commit" /\ job'[q] = job[q]
              /\ settledOn'[q] = today /\ today' = today
<1>1. pc \in [Calls -> {"idle"} \cup InFlight \cup Ended]
      /\ job \in [Calls -> Jobs \cup {NoJob}]
      /\ settledOn \in [Calls -> Nat] /\ today \in Nat \ {0} /\ faults \in Nat
  BY DEF TypeOK
<1> USE DEF rows, clock, history, Goto
<1>2. ASSUME NEW p \in Calls,
             \/ \E k \in Collectors, asked \in Amounts :
                  \/ RefuseCollect(p, k, asked)
                  \/ \E c \in Cards : StartCollect(p, k, c, asked)
             \/ \E a, b \in Personal, n \in Amounts : StartSend(p, a, b, n)
             \/ Refuse(p)
      PROVE  /\ ~Settled(p) /\ UNCHANGED <<gone, faults, settledOn>>
             /\ pc'[p] # "idle"
             /\ \A q \in Calls \ {p} : job'[q] = job[q] /\ pc'[q] = pc[q]
  <2>1. pc[p] \in {"idle", "card", "check"}
    BY <1>2 DEF RefuseCollect, StartCollect, StartSend, Refuse
  <2>2. ~Settled(p)
    BY <2>1 DEF BookKept, AnswersAreTrue, Reading
  <2>3. QED
    BY <1>1, <1>2, <2>2 DEF RefuseCollect, StartCollect, StartSend, Refuse
<1>3. ASSUME NEW p \in Calls, ReadCard(p) \/ Approve(p) \/ Abort(p) \/ RecordFails(p)
      PROVE  /\ UNCHANGED <<gone, job, settledOn>>
             /\ faults' = faults \/ faults' = faults + 1
             /\ \A q \in Calls : pc[q] # "idle" => pc'[q] # "idle"
  BY <1>1, <1>3 DEF ReadCard, Approve, Abort, RecordFails, Fault
<1>4. ASSUME NEW p \in Calls, Commit(p) \/ CommitUnheard(p)
      PROVE  /\ pc[p] = "commit" /\ UNCHANGED <<gone, job, today>>
             /\ settledOn' = [settledOn EXCEPT ![p] = today]
             /\ faults' = faults \/ faults' = faults + 1
             /\ \A q \in Calls : pc[q] # "idle" => pc'[q] # "idle"
  BY <1>1, <1>4 DEF Commit, CommitUnheard, Settle, Fault
<1>5. ASSUME NEW p \in Calls, Record(p) \/ RecordUnheard(p)
      PROVE  /\ UNCHANGED <<job, settledOn, gone>>
             /\ faults' = faults \/ faults' = faults + 1
             /\ \A q \in Calls : pc[q] # "idle" => pc'[q] # "idle"
  BY <1>1, <1>5 DEF Record, RecordUnheard, Write, Fault
<1>6. ASSUME Tick \/ Midnight \/ ResetStationBalances \/ UNCHANGED vars
      PROVE  /\ UNCHANGED <<job, settledOn, gone, pc>>
             /\ faults' = faults \/ faults' = faults + 1
  BY <1>6 DEF Tick, Midnight, ResetStationBalances, Fault, vars
<1>7. ASSUME Crash
      PROVE  /\ UNCHANGED <<settledOn, gone>>
             /\ \A q \in Calls : Settled(q) => job'[q] = job[q]
             /\ faults' = faults + 1
             /\ \A q \in Calls : pc'[q] = "idle" => pc[q] = "idle"
  BY <1>1, <1>7 DEF Crash, Fault, InFlight, Reading
<1>8. ASSUME Deletion
      PROVE  UNCHANGED <<settledOn, job, pc, faults>> /\ gone \subseteq gone'
  BY <1>8, DeletionFacts
<1>9. QED
  BY <1>1, <1>2, <1>3, <1>4, <1>5, <1>6, <1>7, <1>8, NextCases

(* What is known of references: the argument for UnbookedNeedsCause.         *)
RefsStand ==
  /\ \A t \in trx : t.ref = ref[t.entry.by]
  /\ \A q \in Calls : ~Settled(q) => ref[q] = NoRef
  /\ \A q \in Calls : Settled(q) /\ faults = 0 => ref[q] # NoRef
CauseInv == RefsStand /\ UnbookedNeedsCause

LEMMA RefsKept ==
  ASSUME TypeOK, BookKept, RefsStand, [Next]_vars
  PROVE  RefsStand' /\ \A q \in Calls : Settled(q) => ref'[q] = ref[q]
<1>1. \A t \in trx : t.entry.by \in Calls /\ Settled(t.entry.by)
  BY DEF BookKept, RowsAreMoves, TypeOK, Rows, Moves
<1>2. ref \in [Calls -> References \cup {NoRef}] /\ settledOn \in [Calls -> Nat]
      /\ today \in Nat \ {0} /\ tick \in Nat /\ faults \in Nat
  BY DEF TypeOK
<1>3. ASSUME NEW p \in Calls, Commit(p) \/ CommitUnheard(p)
      PROVE  RefsStand' /\ \A q \in Calls : Settled(q) => ref'[q] = ref[q]
  <2>1. /\ Settle(p) /\ pc[p] = "commit" /\ trx' = trx
        /\ settledOn' = [settledOn EXCEPT ![p] = today]
        /\ \/ ref' = [ref EXCEPT ![p] = Reference(p)] /\ faults' = faults
           \/ ref' = ref /\ faults' = faults + 1
    BY <1>3 DEF Commit, CommitUnheard, Settle, Fault
  <2>2. ~Settled(p)
    BY <2>1 DEF BookKept, AnswersAreTrue, Reading
  <2>3. Reference(p) # NoRef
    BY <1>2, ReferenceType, ReferenceAssumption
  <2>4. \A q \in Calls \ {p} : ref'[q] = ref[q] /\ Settled(q)' = Settled(q)
    BY <1>2, <2>1 DEF Settled
  <2>5. Settled(p)' /\ (faults' = 0 => faults = 0 /\ ref'[p] # NoRef)
    BY <1>2, <2>1, <2>3 DEF Settled
  <2>6. QED
    BY <1>1, <2>1, <2>2, <2>4, <2>5 DEF RefsStand
<1>4. ASSUME NEW p \in Calls, Record(p) \/ RecordUnheard(p)
      PROVE  RefsStand' /\ ref' = ref
  <2>1. /\ trx' = trx \cup {[ref |-> ref[p], entry |-> Entry(p)]}
        /\ ref' = ref /\ settledOn' = settledOn
        /\ faults' = faults \/ faults' = faults + 1
    BY <1>4 DEF Record, RecordUnheard, Write, history, Fault
  <2>2. QED
    BY <1>2, <2>1 DEF RefsStand, Settled, Entry
<1>5. ASSUME trx' \subseteq trx, ref' = ref, settledOn' = settledOn,
             faults' = faults \/ faults' = faults + 1
      PROVE  RefsStand' /\ ref' = ref
  BY <1>2, <1>5 DEF RefsStand, Settled
<1>6. ASSUME Deletion
      PROVE  trx' \subseteq trx /\ ref' = ref /\ settledOn' = settledOn /\ faults' = faults
  BY <1>6, DeletionFacts DEF history
<1>7. QED
  BY <1>3, <1>4, <1>5, <1>6, NextCases
     DEF RefuseCollect, StartCollect, StartSend, ReadCard, Approve, Refuse, Abort,
         RecordFails, Tick, Midnight, ResetStationBalances, Crash, vars, history, Fault

(* Without a fault, a call that fails on this step with its money moved was  *)
(* writing its row and could not.                                            *)
LEMMA FailsForCause ==
  ASSUME TypeOK, BookKept, [Next]_vars, faults' = 0, NEW p \in Calls,
         pc'[p] = "failed", pc[p] # "failed", Settled(p)'
  PROVE  pc[p] = "record" /\ ~CanRecord(p)
<1>1. pc \in [Calls -> {"idle"} \cup InFlight \cup Ended] /\ faults \in Nat
      /\ settledOn \in [Calls -> Nat]
  BY DEF TypeOK
<1> USE DEF rows, clock, history, Goto
<1>2. ~Fault
  BY <1>1 DEF Fault
<1>3. ASSUME NEW q \in Calls, Abort(q) PROVE ~(p = q)
  BY <1>3, <1>1 DEF Abort, Settled, BookKept, AnswersAreTrue, Reading
<1>4. \/ \E q \in Calls : RecordFails(q)
      \/ \E q \in Calls : Abort(q)
  BY <1>1, <1>2, NextCases, DeletionFacts
     DEF RefuseCollect, StartCollect, StartSend, ReadCard, Approve, Refuse, Commit,
         CommitUnheard, Record, RecordUnheard, Tick, Midnight,
         ResetStationBalances, Crash, vars
<1>5. QED
  BY <1>1, <1>2, <1>3, <1>4 DEF RecordFails, Abort

LEMMA CauseKept ==
  ASSUME TypeOK, BookKept, CauseInv, [Next]_vars
  PROVE  CauseInv'
<1>1. RefsStand' /\ \A q \in Calls : Settled(q) => ref'[q] = ref[q]
  BY RefsKept DEF CauseInv
<1>2. ASSUME NEW p \in Calls, pc'[p] = "failed", Settled(p)', faults' = 0
      PROVE  \/ ~IsSend(p)' /\ job'[p].till = NoStation
             \/ \E q \in Calls \ {p} : ref'[q] = ref'[p]
             \/ Named(p)' \cap gone' # {}
  <2>1. faults = 0 /\ gone \subseteq gone'
    BY <1>2, StepFacts DEF TypeOK
  <2>2. Settled(p)
    <3>1. CASE settledOn'[p] = settledOn[p]
      BY <1>2, <3>1 DEF Settled
    <3>2. CASE settledOn'[p] # settledOn[p]
      <4>1. pc[p] = "commit"
        BY <3>2, StepFacts
      <4>2. QED
        BY <1>2, <4>1, FailsForCause
    <3>3. QED
      BY <3>1, <3>2
  <2>3. /\ job'[p] = job[p] /\ ref'[p] = ref[p]
        /\ IsSend(p)' = IsSend(p) /\ Named(p)' = Named(p)
    BY <1>1, <2>2, StepFacts DEF IsSend, Named
  <2>4. ASSUME NEW q \in Calls \ {p}, ref[q] = ref[p]
        PROVE  ref'[q] = ref'[p]
    <3>1. ref[q] # NoRef
      BY <2>1, <2>2, <2>4 DEF CauseInv, RefsStand
    <3>2. Settled(q)
      BY <3>1 DEF CauseInv, RefsStand
    <3>3. QED
      BY <1>1, <2>3, <2>4, <3>2
  <2>5. CASE pc[p] = "failed"
    BY <2>1, <2>2, <2>3, <2>4, <2>5 DEF CauseInv, UnbookedNeedsCause
  <2>6. CASE pc[p] # "failed"
    <3>1. pc[p] = "record" /\ ~CanRecord(p)
      BY <1>2, <2>6, FailsForCause
    <3>2. ~Booked(p) /\ job[p] \in Jobs
      BY <3>1 DEF BookKept, AnswersAreTrue, TypeOK, InFlight
    <3>3. job[p].till \in Stations \cup {NoStation}
      BY <3>2 DEF Jobs
    <3>4. ASSUME NEW t \in trx, t.ref = ref[p]
          PROVE  \E q \in Calls \ {p} : ref'[q] = ref'[p]
      <4>1. t.entry.by \in Calls \ {p} /\ ref[t.entry.by] = ref[p]
        BY <3>2, <3>4 DEF CauseInv, RefsStand, Booked, TypeOK, Rows, Moves
      <4>2. QED
        BY <2>4, <4>1
    <3>5. QED
      BY <2>1, <2>3, <3>1, <3>3, <3>4 DEF CanRecord
  <2>7. QED
    BY <2>5, <2>6
<1>3. UnbookedNeedsCause'
  BY <1>2 DEF UnbookedNeedsCause
<1>4. QED
  BY <1>1, <1>3 DEF CauseInv

(* With no fault, money that moved and a call that says it failed have one   *)
(* of three causes: a merchant's collection, a reference that another call   *)
(* made too, or a station, card or user that was deleted meanwhile.          *)
THEOREM UnbookedHaveCause == Spec => []UnbookedNeedsCause
<1>1. Init => BookKept /\ CauseInv
  BY InitKeepsBook DEF Init, CauseInv, RefsStand, UnbookedNeedsCause, Settled
<1>2. TypeOK /\ BookKept /\ CauseInv /\ [Next]_vars => BookKept' /\ CauseInv'
  BY CauseKept, LedgerStep
<1>3. CauseInv => UnbookedNeedsCause
  BY DEF CauseInv
<1>4. QED
  BY <1>1, <1>2, <1>3, TypeCorrect, PTL DEF Spec
-------------------------------------------------------------------------------
LEMMA AccountsAreFinite == IsFiniteSet(Accounts)
  BY FiniteAssumption, FS_Union

(* A step that is no commit leaves every balance alone.                      *)
LEMMA BalanceFacts ==
  ASSUME TypeOK, [Next]_vars
  PROVE  \/ balance' = balance
         \/ \E p \in Calls : /\ Debit(p) /\ job[p].from \in Accounts
                             /\ job[p].to \in Accounts /\ job[p].amount \in Int
<1>1. ASSUME NEW p \in Calls, Commit(p) \/ CommitUnheard(p)
      PROVE  /\ Debit(p) /\ job[p].from \in Accounts
             /\ job[p].to \in Accounts /\ job[p].amount \in Int
  <2>1. pc[p] \in InFlight /\ Debit(p)
    BY <1>1 DEF Commit, CommitUnheard, Settle, InFlight, Reading
  <2>2. QED
    BY <2>1, JobType
<1>2. QED
  BY <1>1, NextCases, DeletionFacts
     DEF RefuseCollect, StartCollect, StartSend, ReadCard, Approve, Refuse, Abort,
         Record, RecordUnheard, Write, RecordFails, Tick, Midnight,
         ResetStationBalances, Crash, vars, rows

LEMMA ConservationKept ==
  ASSUME TypeOK, Conservation, [Next]_vars
  PROVE  Conservation'
<1>1. ASSUME NEW p \in Calls, Debit(p), job[p].from \in Accounts,
             job[p].to \in Accounts, job[p].amount \in Int
      PROVE  SumFunctionOnSet(balance', Accounts) = SumFunctionOnSet(balance, Accounts)
  <2> DEFINE a == job[p].from
             b == job[p].to
             n == job[p].amount
             half == [balance EXCEPT ![a] = @ - n]
             full == [half EXCEPT ![b] = @ + n]
  <2> HIDE DEF Accounts
  <2>0. /\ balance \in [Accounts -> Int]
        /\ balance' = [balance EXCEPT ![a] = @ - n, ![b] = @ + n]
    BY <1>1 DEF Debit, Moved, TypeOK
  <2>2. a \in Accounts /\ b \in Accounts /\ n \in Int
    BY <1>1
  <2> HIDE DEF a, b, n
  <2>1. balance' = full
    <3>1. \A c \in Accounts :
            balance'[c] = balance[c] - (IF c = a THEN n ELSE 0) + (IF c = b THEN n ELSE 0)
      BY <2>0, <2>2
    <3>2. \A c \in Accounts :
            full[c] = balance[c] - (IF c = a THEN n ELSE 0) + (IF c = b THEN n ELSE 0)
      BY <2>0, <2>2
    <3>3. balance' = [c \in Accounts |-> balance'[c]] /\ full = [c \in Accounts |-> full[c]]
      BY <2>0
    <3> HIDE DEF full
    <3>4. QED
      BY <3>1, <3>2, <3>3
  <2>3. half \in [Accounts -> Int] /\ full \in [Accounts -> Int]
    BY <2>0, <2>2
  <2>4. /\ half[a] = balance[a] - n /\ \A c \in Accounts \ {a} : half[c] = balance[c]
        /\ full[b] = half[b] + n /\ \A c \in Accounts \ {b} : full[c] = half[c]
    BY <2>0, <2>2, <2>3
  <2> HIDE DEF half, full
  <2>4a. \A c \in Accounts : balance[c] \in Int /\ half[c] \in Int /\ full[c] \in Int
    BY <2>0, <2>3
  <2>5. SumFunctionOnSet(half, Accounts)
          = SumFunctionOnSet(balance, Accounts) + (half[a] - balance[a])
    BY <2>2, <2>4, <2>4a, AccountsAreFinite, SumChanges
  <2>6. SumFunctionOnSet(full, Accounts)
          = SumFunctionOnSet(half, Accounts) + (full[b] - half[b])
    BY <2>2, <2>4, <2>4a, AccountsAreFinite, SumChanges
  <2>7. /\ SumFunctionOnSet(balance, Accounts) \in Int
        /\ SumFunctionOnSet(half, Accounts) \in Int
        /\ half[b] \in Int /\ balance[a] \in Int
    BY <2>2, <2>4a, AccountsAreFinite, SumType
  <2>8. QED
    BY <2>1, <2>2, <2>4, <2>5, <2>6, <2>7
<1>2. SumFunctionOnSet(balance', Accounts) = SumFunctionOnSet(balance, Accounts)
  BY <1>1, BalanceFacts
<1>3. QED
  BY <1>2 DEF Conservation

(* Money is neither made nor destroyed by the payment endpoints: whatever    *)
(* fails and whichever calls overlap, the balances add up to what they did.  *)
THEOREM MoneyIsConserved == Spec => []Conservation
<1>1. Init => Conservation
  BY DEF Init, Conservation
<1>2. TypeOK /\ Conservation /\ [Next]_vars => Conservation'
  BY ConservationKept
<1>3. QED
  BY <1>1, <1>2, TypeCorrect, PTL DEF Spec
-------------------------------------------------------------------------------
TillInv ==
  /\ TillStands
  /\ \A p \in Calls : settledOn[p] <= today /\ (Settled(p) => job[p] \in Jobs)

(* The terms of the sum are numbers, and a call that has not moved its money *)
(* adds nothing to it.                                                       *)
LEMMA PaidType ==
  ASSUME TypeOK, TillInv, NEW p \in Calls, NEW s \in Stations
  PROVE  /\ PaidSince(swept, s)[p] \in Nat
         /\ ~Settled(p) => PaidSince(swept, s)[p] = 0
<1>1. settledOn[p] \in Nat /\ swept \in Nat /\ swept > 0
  BY DEF TypeOK, TillInv, TillStands
<1>2. job[p] \in Jobs => Gross(job[p].amount) \in Nat
  BY ChargeType, GrossType DEF Jobs
<1>3. QED
  BY <1>1, <1>2 DEF PaidSince, TillInv, Settled

(* What a step does to the sum of a station, the sweep aside: only a commit  *)
(* adds to it, and what it adds is at least what the station's row gains.    *)
LEMMA PaidKept ==
  ASSUME TypeOK, BookKept, TillInv, [Next]_vars, swept' = swept, faults' = 0,
         NEW s \in Stations
  PROVE  dailyBalance'[s] <= SumFunctionOnSet(PaidSince(swept, s), Calls)'
<1> DEFINE f == PaidSince(swept, s)
           g == [q \in Calls |-> IF settledOn'[q] >= swept' /\ job'[q].till = s /\ Counted(q)'
                                 THEN Gross(job'[q].amount) ELSE 0]
<1>1. SumFunctionOnSet(f, Calls)' = SumFunctionOnSet(g, Calls)
  BY DEF PaidSince
<1>2. faults = 0 /\ dailyBalance[s] <= SumFunctionOnSet(f, Calls)
  BY StepFacts DEF TypeOK, TillInv, TillStands
<1>3. ASSUME NEW q \in Calls, settledOn'[q] = settledOn[q]
      PROVE  g[q] = f[q]
  <2>1. CASE Settled(q)
    <3>1. job'[q] = job[q]
      BY <2>1, StepFacts
    <3>2. QED
      BY <1>3, <3>1 DEF PaidSince, Counted, IsSend, FromWallet
  <2>2. CASE ~Settled(q)
    <3>1. settledOn[q] = 0 /\ swept \in Nat /\ swept > 0
      BY <2>2 DEF Settled, TypeOK, TillInv, TillStands
    <3>2. QED
      BY <1>3, <3>1 DEF PaidSince
  <2>3. QED
    BY <2>1, <2>2
<1>4. \A q \in Calls : f[q] \in Nat
  BY PaidType
<1>5. SumFunctionOnSet(f, Calls) \in Nat /\ dailyBalance[s] \in Int
  <2> HIDE DEF f
  <2>1. QED
    BY <1>4, SumType, FiniteAssumption DEF TypeOK
<1>6. CASE settledOn' = settledOn /\ dailyBalance' = dailyBalance
  <2>1. \A q \in Calls : g[q] = f[q]
    BY <1>3, <1>6
  <2> HIDE DEF f, g
  <2>2. SumFunctionOnSet(g, Calls) = SumFunctionOnSet(f, Calls)
    BY <2>1, SumsAgree, FiniteAssumption
  <2>3. QED
    BY <1>1, <1>2, <1>6, <2>2 DEF f
<1>7. ASSUME NEW p \in Calls, Commit(p) \/ CommitUnheard(p)
      PROVE  dailyBalance'[s] <= SumFunctionOnSet(f, Calls)'
  <2>1. Settle(p)
    BY <1>7 DEF Commit, CommitUnheard
  <2>2. /\ pc[p] = "commit" /\ job' = job
        /\ settledOn' = [settledOn EXCEPT ![p] = today]
    BY <2>1 DEF Settle
  <2>3. /\ ~Settled(p) /\ f[p] = 0 /\ job[p].amount \in Int
        /\ Gross(job[p].amount) \in Nat /\ job[p].amount <= Gross(job[p].amount)
    BY <2>2, PaidType, JobType, GrossType DEF BookKept, AnswersAreTrue, Reading, InFlight
  <2>4. today >= swept /\ settledOn \in [Calls -> Nat]
    BY DEF TillInv, TillStands, TypeOK
  <2>5. g[p] = IF job[p].till = s /\ Counted(p) THEN Gross(job[p].amount) ELSE 0
    BY <2>2, <2>4 DEF Counted, IsSend, FromWallet
  <2>6. dailyBalance'[s] <= dailyBalance[s] + g[p] /\ dailyBalance'[s] \in Int
    <3>1. dailyBalance \in [Stations -> Int]
      BY DEF TypeOK
    <3>2. CASE Counted(p)
      <4>1. dailyBalance' = [dailyBalance EXCEPT ![job[p].till] = @ + job[p].amount]
        BY <2>1, <3>2 DEF Settle, CountForTheDay
      <4>2. QED
        BY <2>3, <2>5, <3>1, <3>2, <4>1
    <3>3. CASE ~Counted(p)
      BY <2>1, <2>5, <3>1, <3>3 DEF Settle
    <3>4. QED
      BY <3>2, <3>3
  <2>7. \A q \in Calls \ {p} : g[q] = f[q]
    BY <1>3, <2>2, <2>4
  <2>8. g[p] \in Int
    BY <2>3, <2>5
  <2> HIDE DEF f, g
  <2>9. SumFunctionOnSet(g, Calls) = SumFunctionOnSet(f, Calls) + (g[p] - f[p])
    <3>1. \A q \in Calls : f[q] \in Int
      BY <1>4
    <3>2. QED
      BY <2>7, <2>8, <3>1, SumChanges, FiniteAssumption
  <2>10. QED
    BY <1>1, <1>2, <1>5, <2>3, <2>6, <2>8, <2>9 DEF f
<1>8. CASE ResetStationBalances
  BY <1>8 DEF ResetStationBalances, TypeOK
<1>9. QED
  BY <1>6, <1>7, <1>8, NextCases, DeletionFacts
     DEF RefuseCollect, StartCollect, StartSend, ReadCard, Approve, Refuse, Abort,
         Record, RecordUnheard, Write, RecordFails, Tick, Midnight, Crash, vars,
         rows, history

LEMMA TillKept ==
  ASSUME TypeOK, BookKept, TillInv, [Next]_vars
  PROVE  TillInv'
<1>1. /\ today \in Nat /\ today' \in Nat /\ today <= today'
      /\ swept' = swept \/ (swept' = today /\ today' = today /\ ResetStationBalances)
  <2>1. today \in Nat
    BY DEF TypeOK
  <2>2. CASE ResetStationBalances
    BY <2>1, <2>2 DEF ResetStationBalances, clock
  <2>3. CASE Midnight
    BY <2>1, <2>3 DEF Midnight
  <2>4. CASE Deletion
    BY <2>1, <2>4, DeletionFacts DEF clock
  <2>5. CASE ~ResetStationBalances /\ ~Midnight /\ ~Deletion
    <3>1. today' = today /\ swept' = swept
      BY <2>5, NextCases
         DEF RefuseCollect, StartCollect, StartSend, ReadCard, Approve, Refuse, Commit,
             CommitUnheard, Settle, Abort, Record, RecordUnheard, Write, RecordFails,
             Tick, Crash, vars, clock
    <3>2. QED
      BY <2>1, <3>1
  <2>6. QED
    BY <2>2, <2>3, <2>4, <2>5
<1>2. 0 < swept' /\ swept' <= today'
  BY <1>1 DEF TypeOK, TillInv, TillStands
<1>3. ASSUME NEW p \in Calls
      PROVE  settledOn'[p] <= today' /\ (Settled(p)' => job'[p] \in Jobs)
  <2>1. CASE settledOn'[p] = settledOn[p]
    <3>1. settledOn[p] \in Nat /\ settledOn[p] <= today /\ (Settled(p) => job[p] \in Jobs)
      BY DEF TypeOK, TillInv
    <3>2. Settled(p) => job'[p] = job[p]
      BY StepFacts
    <3>3. QED
      BY <1>1, <2>1, <3>1, <3>2 DEF Settled
  <2>2. CASE settledOn'[p] # settledOn[p]
    <3>1. /\ pc[p] = "commit" /\ job'[p] = job[p]
          /\ settledOn'[p] = today /\ today' = today
      BY <2>2, StepFacts
    <3>2. job[p] \in Jobs
      BY <3>1 DEF TypeOK, InFlight, Reading
    <3>3. QED
      BY <1>1, <3>1, <3>2
  <2>3. QED
    BY <2>1, <2>2
<1>4. ASSUME NEW s \in Stations, faults' = 0
      PROVE  dailyBalance'[s] <= SumFunctionOnSet(PaidSince(swept, s), Calls)'
  <2>1. CASE swept' = swept
    BY <1>4, <2>1, PaidKept
  <2>2. CASE ResetStationBalances
    <3> DEFINE g == [q \in Calls |->
                       IF settledOn'[q] >= swept' /\ job'[q].till = s /\ Counted(q)'
                       THEN Gross(job'[q].amount) ELSE 0]
    <3>1. SumFunctionOnSet(PaidSince(swept, s), Calls)' = SumFunctionOnSet(g, Calls)
      BY DEF PaidSince
    <3>2. dailyBalance'[s] = 0
      BY <1>4, <2>2 DEF ResetStationBalances, Fault, TypeOK
    <3>3. \A q \in Calls : g[q] \in Nat
      <4>1. ASSUME NEW q \in Calls, settledOn'[q] >= swept'
            PROVE  Gross(job'[q].amount) \in Nat
        <5>1. settledOn'[q] \in Nat /\ swept' \in Nat
          BY TypeKept DEF TypeOK
        <5>2. job'[q] \in Jobs
          BY <1>2, <1>3, <4>1, <5>1 DEF Settled
        <5>3. QED
          BY <5>2, ChargeType, GrossType DEF Jobs
      <4>2. QED
        BY <4>1
    <3> HIDE DEF g
    <3>4. SumFunctionOnSet(g, Calls) \in Nat
      BY <3>3, SumType, FiniteAssumption
    <3>5. QED
      BY <3>1, <3>2, <3>4
  <2>3. QED
    BY <1>1, <2>1, <2>2
<1>5. TillStands'
  BY <1>2, <1>4 DEF TillStands
<1>6. QED
  BY <1>3, <1>5 DEF TillInv

(* Without a fault a swept station counts the money of today and nothing     *)
(* else; the argument is the bound since the last sweep.                     *)
THEOREM TillsCountToday == Spec => []TillCountsToday
<1>1. Init => BookKept /\ TillInv
  <2> SUFFICES ASSUME Init PROVE TillInv
    BY InitKeepsBook
  <2>1. \A p \in Calls, s \in Stations : PaidSince(swept, s)[p] = 0
    BY DEF Init, PaidSince
  <2>2. ASSUME NEW s \in Stations
        PROVE  SumFunctionOnSet(PaidSince(swept, s), Calls) \in Nat
    BY <2>1, SumType, FiniteAssumption
  <2>3. QED
    BY <2>2 DEF Init, TillInv, TillStands, Settled
<1>2. TypeOK /\ BookKept /\ TillInv /\ [Next]_vars => BookKept' /\ TillInv'
  BY TillKept, LedgerStep
<1>3. TillInv => TillCountsToday
  BY DEF TillInv, TillStands, TillCountsToday
<1>4. QED
  BY <1>1, <1>2, <1>3, TypeCorrect, PTL DEF Spec
===============================================================================
