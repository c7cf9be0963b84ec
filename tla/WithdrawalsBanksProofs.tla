------------------------ MODULE WithdrawalsBanksProofs -------------------------
(***************************************************************************)
(* Theorems about Withdrawals, for every number of calls, users, wallets,  *)
(* payments and deliveries, every fee and every opening balance, and about *)
(* the accounts money is withdrawn to, in Banks, for every number of       *)
(* banks, clients, admins and requests.                                    *)
(***************************************************************************)
EXTENDS Withdrawals, Banks, Sums, FiniteSetTheorems, TLAPS

Inv == TypeOK /\ WithdrawalsStand

USE WithdrawalAssumption

LEMMA NextCases ==
  ASSUME [Next]_vars
  PROVE  \/ \E c \in Calls, u \in Persons, n \in Amounts : StartWithdraw(c, u, n)
         \/ \E c \in Calls : Refuse(c)
         \/ \E c \in Calls : ReadSum(c) \/ ReadBalance(c) \/ ReadFails(c)
         \/ \E c \in Calls : CheckFunds(c)
         \/ \E c \in Calls : Initiate(c)
         \/ \E c \in Calls : Book(c)
         \/ \E c \in Calls : BookFails(c)
         \/ \E c \in Calls : Finish(c)
         \/ \E n \in Notices : Deliver(n) \/ LookUp(n) \/ Drop(n) \/ Answer(n)
         \/ \E n \in Notices : Settle(n)
         \/ \E k \in Payments, w \in BusinessWallets, n \in Takings : Collect(k, w, n)
         \/ \E k \in Payments : WriteRow(k)
         \/ \E w \in BusinessWallets, ks \in SUBSET Ages : DeleteStation(w, ks)
         \/ \E u \in Persons : DeleteUser(u)
         \/ NextDay
         \/ Crash
         \/ UNCHANGED vars
<1>1. ASSUME NEW c \in Calls, NEW u \in Callers[c]
      PROVE  u \in Persons
  <2>1. Callers[c] \in SUBSET Persons
    OBVIOUS
  <2>2. QED
    BY <2>1
<1>2. QED
  BY <1>1 DEF Next, Step, Handle

LEMMA SumOfType ==
  ASSUME NEW f
  PROVE  /\ f \in [Ages -> Int] => SumOf(f) \in Int
         /\ f \in [Ages -> Nat] => SumOf(f) \in Nat
  BY DEF SumOf, Ages

LEMMA WithdrawableType ==
  ASSUME NEW funds \in Int, NEW recent \in Int
  PROVE  Withdrawable(funds, recent) \in Int
  BY DEF Withdrawable

LEMMA OlderType ==
  ASSUME NEW D, 0 \in D, NEW f \in [Wallets -> [Ages -> D]]
  PROVE  Older(f) \in [Wallets -> [Ages -> D]]
<1>1. \A k \in Ages : k = 0 \/ k - 1 \in Ages
  BY DEF Ages
<1>2. QED
  BY <1>1 DEF Older

LEMMA NoSnapshotType == NoSnapshot \in Snapshots
  BY DEF Snapshots, NoSnapshot

LEMMA SummedType ==
  ASSUME NEW q \in Snapshots, NEW a \in Int, NEW b \in BOOLEAN
  PROVE  [q EXCEPT !.recent = a, !.crossed = b] \in Snapshots
  BY DEF Snapshots

LEMMA BalancedType ==
  ASSUME NEW q \in Snapshots, NEW a \in Int, NEW b \in Int
  PROVE  [q EXCEPT !.recent = 0, !.allowance = a, !.promised = b] \in Snapshots
<1> DEFINE r == [q EXCEPT !.recent = 0]
<1>1. r \in Snapshots
  BY DEF Snapshots
<1>2. [r EXCEPT !.allowance = a, !.promised = b] \in Snapshots
  <2> HIDE DEF r
  <2>1. QED
    BY <1>1 DEF Snapshots
<1>3. QED
  BY <1>2

(* What is asked of a call that has asked for a transfer, or is about to.    *)
LEMMA CallFacts ==
  ASSUME Inv, NEW c \in Calls
  PROVE  /\ pc[c] \in Before \cup Relying \/ transfer[c] # "none" \/ row[c] # "none" =>
              /\ job[c] \in Jobs /\ job[c].wallet \in Wallets /\ job[c].user \in Persons
              /\ job[c].amount \in Int
         /\ row[c] # "none" => transfer[c] # "none"
         /\ pc[c] \in Relying \/ transfer[c] # "none" => job[c].amount \in Nat
         /\ pc[c] \in {"idle"} \cup Before =>
              transfer[c] = "none" /\ ref[c] = NoRef /\ row[c] = "none"
<1>1. row[c] # "none" => transfer[c] # "none"
  BY DEF Inv, WithdrawalsStand, RowsStand, RowsMatchTransfers
<1>2. \A n \in Int : n >= Minimum => n \in Nat
  OBVIOUS
<1>3. ASSUME NEW j \in Jobs
      PROVE  j.wallet \in Wallets /\ j.user \in Persons /\ j.amount \in Int
  <2>1. j.wallet \in Wallets /\ j.user \in Persons /\ j.amount \in Amounts
    BY DEF Jobs
  <2>2. QED
    BY <2>1
<1>4. pc[c] \in Relying \/ transfer[c] # "none" =>
        job[c] \in Jobs /\ job[c].amount >= Minimum
  BY DEF Inv, WithdrawalsStand, CallsStand
<1>5. /\ pc[c] \in Before => job[c] \in Jobs
      /\ pc[c] \in {"idle"} \cup Before =>
           transfer[c] = "none" /\ ref[c] = NoRef /\ row[c] = "none"
  BY DEF Inv, WithdrawalsStand, CallsStand
<1>6. QED
  BY <1>1, <1>2, <1>3, <1>4, <1>5

(* A call that only moves on before its transfer: nothing but pc, job and    *)
(* seen changes, and the call does not come to rely on anything.             *)
LEMMA EarlyKeeps ==
  ASSUME Inv, NEW c \in Calls, pc[c] \in {"idle"} \cup Before,
         NEW s \in (Before \ {"initiate"}) \cup Answers,
         pc' = [pc EXCEPT ![c] = s],
         NEW j \in Jobs \cup {NoJob}, job' = [job EXCEPT ![c] = j],
         s \in Before => j \in Jobs,
         NEW k \in Snapshots, seen' = [seen EXCEPT ![c] = k],
         faults' \in Nat,
         UNCHANGED <<books, ref, transfer, hooks, intake, day, gone, history>>
  PROVE  Inv'
<1>0. UNCHANGED <<balance, row, paidIn, paidOut, ref, transfer, hpc, acked, taking, unrowed,
                  collected, day, gone, refunds, charges, fees, overlapped, unchecked,
                  reversed, missed, cut, fresh, purged>>
  BY DEF books, hooks, intake, history, told, causes, windows
<1>1. TypeOK'
  BY <1>0 DEF Inv, TypeOK
<1>2. transfer[c] = "none" /\ row[c] = "none" /\ ref[c] = NoRef
  BY DEF Inv, WithdrawalsStand, CallsStand
<1>3. CallsStand'
  BY <1>0, <1>2 DEF Inv, TypeOK, WithdrawalsStand, CallsStand, Before, Relying, Answers
<1>4. FundsStand'
  BY <1>0 DEF Inv, TypeOK, WithdrawalsStand, FundsStand, Relying, Before, Answers
<1>5. OverdraftHasCause'
  BY <1>0 DEF Inv, WithdrawalsStand, OverdraftHasCause
<1>6. RowsStand'
  BY <1>0, <1>2 DEF Inv, TypeOK, WithdrawalsStand, RowsStand, RowsMatchTransfers,
                    RowlessHaveCause, RefundsHaveCause, NoticesStand, Twins, Found
<1>7. QED
  BY <1>1, <1>3, <1>4, <1>5, <1>6 DEF Inv, WithdrawalsStand

LEMMA StartKeeps ==
  ASSUME Inv, NEW c \in Calls, NEW u \in Persons, NEW n \in Amounts, StartWithdraw(c, u, n)
  PROVE  Inv'
<1> DEFINE j == [user |-> u, wallet |-> WalletOf[u], amount |-> n]
           s == IF WalletOf[u] \in BusinessWallets THEN "sum" ELSE "check"
<1>1. j \in Jobs
  <2>1. WalletOf[u] \in Wallets
    OBVIOUS
  <2>2. QED
    BY <2>1 DEF Jobs
<1>2. /\ pc[c] = "idle" /\ pc' = [pc EXCEPT ![c] = s]
      /\ job' = [job EXCEPT ![c] = j] /\ seen' = [seen EXCEPT ![c] = seen[c]]
      /\ seen[c] \in Snapshots /\ faults' \in Nat
      /\ UNCHANGED <<books, ref, transfer, hooks, intake, day, gone, history>>
  BY DEF StartWithdraw, Goto, Inv, TypeOK
<1>3. s \in (Before \ {"initiate"}) \cup Answers
  BY DEF Before
<1> HIDE DEF j, s
<1>4. QED
  BY <1>1, <1>2, <1>3, EarlyKeeps

LEMMA RefuseKeeps == ASSUME Inv, NEW c \in Calls, Refuse(c) PROVE Inv'
<1>1. /\ pc[c] \in Before /\ pc' = [pc EXCEPT ![c] = "refused"]
      /\ job' = [job EXCEPT ![c] = NoJob] /\ seen' = [seen EXCEPT ![c] = NoSnapshot]
      /\ NoSnapshot \in Snapshots /\ faults' \in Nat
      /\ UNCHANGED <<books, ref, transfer, hooks, intake, day, gone, history>>
  BY NoSnapshotType DEF Refuse, GiveUp, End, Inv, TypeOK, Before
<1>2. "refused" \in (Before \ {"initiate"}) \cup Answers /\ "refused" \notin Before
  BY DEF Answers, Before
<1>3. QED
  BY <1>1, <1>2, EarlyKeeps

LEMMA ReadKeeps ==
  ASSUME Inv, NEW c \in Calls, ReadSum(c) \/ ReadBalance(c) \/ ReadFails(c)
  PROVE  Inv'
<1>a. pc[c] \in Before
  BY DEF ReadSum, ReadBalance, ReadFails, Before
<1>1. job[c] \in Jobs /\ seen[c] \in Snapshots /\ job[c].wallet \in Wallets
  BY <1>a, CallFacts DEF Inv, TypeOK
<1>2. /\ \E s \in {"balance", "check"} : pc' = [pc EXCEPT ![c] = s]
      /\ job' = [job EXCEPT ![c] = job[c]] /\ faults' \in Nat
      /\ UNCHANGED <<books, ref, transfer, hooks, intake, day, gone, history>>
  BY DEF ReadSum, ReadBalance, ReadFails, Goto, Fault, Inv, TypeOK
<1>3. \E k \in Snapshots : seen' = [seen EXCEPT ![c] = k]
  <2>1. CASE ReadSum(c)
    <3> DEFINE k == [seen[c] EXCEPT !.recent = Recent(job[c].wallet),
                                    !.crossed = Unrowed(job[c].wallet)]
    <3>1. SumOf(paidIn[job[c].wallet]) \in Int /\ SumOf(paidOut[job[c].wallet]) \in Int
      BY <1>1, SumOfType DEF Inv, TypeOK
    <3>2. Recent(job[c].wallet) \in Int /\ Unrowed(job[c].wallet) \in BOOLEAN
      BY <3>1 DEF Recent, Unrowed
    <3>3. seen' = [seen EXCEPT ![c] = k]
      BY <1>1, <2>1 DEF ReadSum, Inv, TypeOK
    <3>4. k \in Snapshots
      BY <1>1, <3>2, SummedType
    <3>5. QED
      BY <3>3, <3>4
  <2>2. CASE ReadBalance(c)
    <3> DEFINE funds == balance[job[c].wallet]
               a == Withdrawable(funds, seen[c].recent)
               b == Withdrawable(funds, SumOf(fresh[job[c].wallet]))
               k == [seen[c] EXCEPT !.recent = 0, !.allowance = a, !.promised = b]
    <3>1. funds \in Int /\ seen[c].recent \in Int /\ SumOf(fresh[job[c].wallet]) \in Int
      BY <1>1, SumOfType DEF Inv, TypeOK, Snapshots
    <3>2. a \in Int /\ b \in Int
      BY <3>1, WithdrawableType
    <3>3. seen' = [seen EXCEPT ![c] = k]
      BY <2>2 DEF ReadBalance, Inv, TypeOK
    <3> HIDE DEF a, b
    <3>4. k \in Snapshots
      BY <1>1, <3>2, BalancedType
    <3>5. QED
      BY <3>3, <3>4
  <2>3. CASE ReadFails(c)
    BY <2>3, NoSnapshotType DEF ReadFails
  <2>4. QED
    BY <2>1, <2>2, <2>3
<1>4. \A s \in {"balance", "check"} : s \in (Before \ {"initiate"}) \cup Answers
  BY DEF Before
<1>5. QED
  BY <1>a, <1>1, <1>2, <1>3, <1>4, EarlyKeeps

(* A call that passes the check relies on the balance it read, or its wallet *)
(* joins the unchecked ones.                                                 *)
LEMMA CheckKeeps == ASSUME Inv, NEW c \in Calls, CheckFunds(c) PROVE Inv'
<1> DEFINE w == job[c].wallet
           k == [seen[c] EXCEPT !.funds = balance[w]]
<1>1. /\ job[c] \in Jobs /\ w \in Wallets /\ job[c].amount \in Int
      /\ seen[c] \in Snapshots /\ balance[w] \in Int /\ pc[c] = "check"
      /\ faults \in Nat
  BY CallFacts DEF CheckFunds, Inv, TypeOK, Before
<1>2. UNCHANGED <<balance, row, paidIn, paidOut, ref, transfer, hpc, acked, taking, unrowed,
                  collected, day, faults, gone, refunds, charges, fees, overlapped,
                  reversed, missed, cut, fresh, purged>>
  BY DEF CheckFunds, books, hooks, intake, told, windows
<1>3. CASE GiveUp(c, "refused") /\ UNCHANGED unchecked
  <2>1. /\ pc' = [pc EXCEPT ![c] = "refused"] /\ job' = [job EXCEPT ![c] = NoJob]
        /\ seen' = [seen EXCEPT ![c] = NoSnapshot] /\ NoSnapshot \in Snapshots
        /\ UNCHANGED <<books, ref, transfer, hooks, intake, day, gone, history>>
    BY <1>2, <1>3, NoSnapshotType DEF GiveUp, End, books, hooks, intake, history, told, causes,
                                      windows
  <2>2. "refused" \in (Before \ {"initiate"}) \cup Answers /\ "refused" \notin Before
        /\ pc[c] \in {"idle"} \cup Before
    BY <1>1 DEF Answers, Before
  <2>3. faults' \in Nat
    BY <1>1, <1>2
  <2>4. QED
    BY <2>1, <2>2, <2>3, EarlyKeeps
<1>4. ASSUME job[c].amount >= Minimum, job' = job, seen' = [seen EXCEPT ![c].funds = balance[w]],
             unchecked' \in {unchecked, unchecked \cup {w}},
             NEW s \in {"short", "initiate"}, pc' = [pc EXCEPT ![c] = s],
             (s = "initiate" /\ w \notin unchecked') => job[c].amount <= balance[w]
      PROVE  Inv'
  <2>1. k \in Snapshots /\ seen' = [seen EXCEPT ![c] = k]
    BY <1>1, <1>4 DEF Snapshots, Inv, TypeOK
  <2>2. seen'[c].funds = balance[w]
    BY <1>1, <2>1 DEF Inv, TypeOK, Snapshots
  <2> HIDE DEF k
  <2>3. TypeOK'
    <3>1. pc' \in [Calls -> {"idle", "book"} \cup Before \cup Answers]
      BY <1>4 DEF Inv, TypeOK, Before, Answers
    <3>2. seen' \in [Calls -> Snapshots]
      BY <2>1 DEF Inv, TypeOK
    <3>3. unchecked' \subseteq Wallets
      BY <1>1, <1>4 DEF Inv, TypeOK
    <3>4. QED
      BY <1>2, <1>4, <3>1, <3>2, <3>3 DEF Inv, TypeOK
  <2>4. transfer[c] = "none" /\ row[c] = "none"
    BY <1>1, CallFacts DEF Before
  <2>5. CallsStand'
    BY <1>1, <1>2, <1>4, <2>4 DEF Inv, TypeOK, WithdrawalsStand, CallsStand, Before, Relying
  <2>6. FundsStand'
    <3>1. \A d \in Calls \ {c} : seen'[d] = seen[d] /\ pc'[d] = pc[d]
      BY <1>4, <2>1 DEF Inv, TypeOK
    <3>2. balance[w] <= balance[w] + fees[w]
      BY <1>1 DEF Inv, TypeOK
    <3>3. (pc'[c] \in Relying /\ w \notin unchecked') => job[c].amount <= balance[w]
      BY <1>1, <1>4 DEF Inv, TypeOK, Relying
    <3>4. QED
      BY <1>2, <1>4, <2>2, <3>1, <3>2, <3>3 DEF Inv, WithdrawalsStand, FundsStand
  <2>7. OverdraftHasCause'
    BY <1>2, <1>4 DEF Inv, WithdrawalsStand, OverdraftHasCause
  <2>8. RowsStand'
    BY <1>1, <1>2, <1>4, <2>4 DEF Inv, TypeOK, WithdrawalsStand, RowsStand, RowsMatchTransfers,
                                  RowlessHaveCause, RefundsHaveCause, NoticesStand, Twins, Found
  <2>9. QED
    BY <2>3, <2>5, <2>6, <2>7, <2>8 DEF Inv, WithdrawalsStand
<1> HIDE DEF k
<1>5. CASE /\ job[c].amount >= Minimum /\ UNCHANGED <<job, unchecked>>
           /\ Goto(c, IF Short(c, balance[w]) THEN "short" ELSE "initiate")
           /\ seen' = [seen EXCEPT ![c].funds = balance[w]]
  <2>1. ~Short(c, balance[w]) => job[c].amount <= balance[w]
    BY <1>1 DEF Short
  <2>2. \E s \in {"short", "initiate"} : pc' = [pc EXCEPT ![c] = s]
                                         /\ (s = "initiate" => job[c].amount <= balance[w])
    BY <1>5, <2>1 DEF Goto
  <2> HIDE DEF w
  <2>3. QED
    BY <1>4, <1>5, <2>2
<1>6. CASE /\ job[c].amount >= Minimum /\ Goto(c, "initiate") /\ UNCHANGED job
           /\ seen' = [seen EXCEPT ![c].funds = balance[w]] /\ unchecked' = unchecked \cup {w}
  BY <1>4, <1>6 DEF Goto
<1>7. QED
  BY <1>3, <1>5, <1>6 DEF CheckFunds

(* A step of the rows' world in which no row, outcome, refund or delivery    *)
(* changes: calls make references, end or lose users, and nothing is undone. *)
LEMMA RowsKept ==
  ASSUME Inv,
         UNCHANGED <<row, refunds, charges, hpc>>,
         NEW c \in Calls,
         \A d \in Calls : ref'[d] = ref[d] \/ (d = c /\ transfer[c] = "none"),
         \A d \in Calls : transfer'[d] = transfer[d]
                          \/ (d = c /\ transfer[c] \notin Final /\ transfer'[c] # "none"),
         \A d \in Calls : (transfer'[d] # "none" /\ pc'[d] # "book" /\ row[d] = "none") =>
           \/ transfer[d] # "none" /\ pc[d] # "book" /\ job'[d] = job[d]
           \/ d \in cut' \/ job'[d].user \in gone'
           \/ \E e \in Calls \ {d} : ref'[e] = ref'[d] /\ row[e] # "none",
         cut \subseteq cut', gone \subseteq gone'
  PROVE  RowsStand'
<1>1. \A d \in Calls : row[d] # "none" => transfer[d] # "none" /\ ref'[d] = ref[d]
  BY DEF Inv, WithdrawalsStand, RowsStand, RowsMatchTransfers
<1>2. \A d \in Calls : transfer[d] \in Final => transfer'[d] = transfer[d] /\ ref'[d] = ref[d]
  BY DEF Final
<1>3. \A d \in Calls : row[d] \in Statuses /\ (row[d] \in Final => row[d] # "none")
  BY DEF Inv, TypeOK, Final
<1>4. \A d \in Calls : refunds[d] > 0 => row[d] # "none"
  BY <1>3 DEF Inv, TypeOK, WithdrawalsStand, RowsStand, RowsMatchTransfers
<1>5. RowsMatchTransfers'
  <2>1. ASSUME NEW d \in Calls, row[d] \in Final
        PROVE  \E e \in {d} \cup Twins(d)' : row[d] = transfer'[e]
    <3>1. PICK e \in {d} \cup Twins(d) : row[d] = transfer[e]
      BY <2>1 DEF Inv, WithdrawalsStand, RowsStand, RowsMatchTransfers
    <3>2. e \in Calls /\ transfer[e] \in Final
      BY <2>1, <3>1 DEF Twins
    <3>3. ref'[e] = ref[e] /\ ref'[d] = ref[d] /\ transfer'[e] = transfer[e]
      BY <1>1, <1>2, <1>3, <2>1, <3>2
    <3>4. QED
      BY <3>1, <3>3 DEF Twins
  <2>2. \A d \in Calls : row[d] # "none" => transfer'[d] # "none"
    BY <1>1
  <2>3. QED
    BY <2>1, <2>2 DEF Inv, WithdrawalsStand, RowsStand, RowsMatchTransfers
<1>6. RowlessHaveCause'
  <2> SUFFICES ASSUME NEW d \in Calls, transfer'[d] # "none", pc'[d] # "book", row[d] = "none"
               PROVE  \/ d \in cut' \/ job'[d].user \in gone'
                      \/ \E e \in Twins(d)' : row[e] # "none"
    BY DEF RowlessHaveCause
  <2>1. CASE transfer[d] # "none" /\ pc[d] # "book" /\ job'[d] = job[d]
    <3>1. ref'[d] = ref[d]
      BY <2>1
    <3>2. \/ d \in cut \/ job[d].user \in gone
          \/ \E e \in Twins(d) : row[e] # "none"
      BY <2>1 DEF Inv, WithdrawalsStand, RowsStand, RowlessHaveCause
    <3>3. QED
      BY <1>1, <2>1, <3>1, <3>2 DEF Twins
  <2>2. QED
    BY <2>1 DEF Twins
<1>7. RefundsHaveCause'
  <2> SUFFICES ASSUME NEW d \in Calls, refunds[d] > 0
               PROVE  \E e \in {d} \cup Twins(d)' : transfer'[e] = "FAILED"
    BY DEF RefundsHaveCause
  <2>1. PICK e \in {d} \cup Twins(d) : transfer[e] = "FAILED"
    BY DEF Inv, WithdrawalsStand, RowsStand, RefundsHaveCause
  <2>2. e \in Calls /\ transfer'[e] = "FAILED" /\ ref'[e] = ref[e] /\ ref'[d] = ref[d]
    BY <1>1, <1>2, <1>4, <2>1 DEF Twins, Final
  <2>3. QED
    BY <2>1, <2>2 DEF Twins
<1>8. NoticesStand'
  <2> SUFFICES ASSUME NEW n \in Notices
               PROVE  /\ hpc[n] \in Handling => transfer'[About[n]] \in Final
                      /\ hpc[n] = "settle" => Found(About[n])' # {}
    BY DEF NoticesStand
  <2>1. hpc[n] \in Handling => transfer[About[n]] \in Final
    BY DEF Inv, WithdrawalsStand, RowsStand, NoticesStand
  <2>2. hpc[n] = "settle" => \E d \in Found(About[n]) : TRUE
    BY DEF Inv, WithdrawalsStand, RowsStand, NoticesStand
  <2>3. About[n] \in Calls
    OBVIOUS
  <2>4. hpc[n] = "settle" => hpc[n] \in Handling
    BY DEF Handling
  <2>5. QED
    BY <1>1, <1>2, <2>1, <2>2, <2>3, <2>4 DEF Found
<1>9. QED
  BY <1>5, <1>6, <1>7, <1>8 DEF RowsStand

(* The reference is the call's own or a twin's; without an answer nothing    *)
(* lasts, and an answer that was not heard is a fault.                       *)
LEMMA InitiateKeeps == ASSUME Inv, NEW c \in Calls, Initiate(c) PROVE Inv'
<1>1. /\ pc[c] = "initiate" /\ job[c].amount >= Minimum
      /\ UNCHANGED <<balance, row, paidIn, paidOut, hpc, acked, taking, unrowed, collected, day,
                     gone, refunds, charges, fees, overlapped, unchecked, reversed, missed,
                     fresh, purged>>
  BY DEF Initiate, books, hooks, intake, told, windows, Inv, TypeOK, WithdrawalsStand,
         CallsStand, Relying
<1>2. /\ transfer[c] = "none" /\ row[c] = "none" /\ ref[c] = NoRef /\ job[c] \in Jobs
      /\ pc[c] \in {"idle"} \cup Before /\ pc[c] \in Before
  BY <1>1, CallFacts DEF Before
<1>3. CASE GiveUp(c, "failed") /\ UNCHANGED <<ref, transfer, faults, cut>>
  <2>1. /\ pc' = [pc EXCEPT ![c] = "failed"] /\ job' = [job EXCEPT ![c] = NoJob]
        /\ seen' = [seen EXCEPT ![c] = NoSnapshot] /\ NoSnapshot \in Snapshots
        /\ UNCHANGED <<books, ref, transfer, hooks, intake, day, gone, history>>
        /\ faults' \in Nat
    BY <1>1, <1>3, NoSnapshotType DEF GiveUp, End, books, hooks, intake, history, told, causes,
                                      windows, Inv, TypeOK
  <2>2. "failed" \in (Before \ {"initiate"}) \cup Answers /\ "failed" \notin Before
    BY DEF Answers, Before
  <2>3. QED
    BY <1>2, <2>1, <2>2, EarlyKeeps
<1>4. ASSUME MakeReference(c), UNCHANGED job, faults' \in Nat,
             NEW t \in {"declined", "pending"}, transfer' = [transfer EXCEPT ![c] = t],
             NEW s \in {"book", "failed"}, pc' = [pc EXCEPT ![c] = s],
             seen' = IF s = "book" THEN seen ELSE [seen EXCEPT ![c] = NoSnapshot],
             cut' = cut \/ cut' = cut \cup {c}, s = "failed" => c \in cut'
      PROVE  Inv'
  <2>1. PICK r \in Calls : ref' = [ref EXCEPT ![c] = r]
    <3>1. \A d \in Calls : ref[d] \in Calls \cup {NoRef}
      BY DEF Inv, TypeOK
    <3>2. QED
      BY <1>4, <3>1 DEF MakeReference
  <2>2. TypeOK'
    <3>1. pc' \in [Calls -> {"idle", "book"} \cup Before \cup Answers]
      BY <1>4 DEF Inv, TypeOK, Answers
    <3>2. seen' \in [Calls -> Snapshots]
      BY <1>4, NoSnapshotType DEF Inv, TypeOK
    <3>3. transfer' \in [Calls -> Transfers]
      BY <1>4 DEF Inv, TypeOK, Transfers
    <3>4. ref' \in [Calls -> Calls \cup {NoRef}] /\ cut' \subseteq Calls
      BY <1>4, <2>1 DEF Inv, TypeOK
    <3>5. QED
      BY <1>1, <1>4, <3>1, <3>2, <3>3, <3>4 DEF Inv, TypeOK
  <2>3. CallsStand'
    BY <1>1, <1>2, <1>4, <2>1 DEF Inv, TypeOK, WithdrawalsStand, CallsStand, Before, Relying
  <2>4. FundsStand'
    <3>1. \A d \in Calls \ {c} : pc'[d] = pc[d] /\ seen'[d] = seen[d]
      BY <1>4 DEF Inv, TypeOK
    <3>2. pc[c] \in Relying /\ (pc'[c] \in Relying => seen'[c] = seen[c])
      BY <1>1, <1>4 DEF Inv, TypeOK, Relying
    <3>3. QED
      BY <1>1, <1>4, <3>1, <3>2 DEF Inv, WithdrawalsStand, FundsStand
  <2>5. OverdraftHasCause'
    BY <1>1 DEF Inv, WithdrawalsStand, OverdraftHasCause
  <2>6. RowsStand'
    <3>1. \A d \in Calls : ref'[d] = ref[d] \/ (d = c /\ transfer[c] = "none")
      BY <1>2, <2>1 DEF Inv, TypeOK
    <3>2. \A d \in Calls : transfer'[d] = transfer[d]
                           \/ (d = c /\ transfer[c] \notin Final /\ transfer'[c] # "none")
      BY <1>2, <1>4 DEF Inv, TypeOK, Final
    <3>3. \A d \in Calls : (transfer'[d] # "none" /\ pc'[d] # "book" /\ row[d] = "none") =>
            \/ transfer[d] # "none" /\ pc[d] # "book" /\ job'[d] = job[d]
            \/ d \in cut'
      BY <1>4 DEF Inv, TypeOK
    <3>4. cut \subseteq cut'
      BY <1>4
    <3>5. QED
      BY <1>1, <3>1, <3>2, <3>3, <3>4, RowsKept
  <2>7. QED
    BY <2>2, <2>3, <2>4, <2>5, <2>6 DEF Inv, WithdrawalsStand
<1>5. faults \in Nat /\ faults + 1 \in Nat
  BY DEF Inv, TypeOK
<1>6. CASE /\ MakeReference(c) /\ transfer' = [transfer EXCEPT ![c] = "declined"]
           /\ Goto(c, "book") /\ UNCHANGED <<job, seen, faults, cut>>
  BY <1>4, <1>5, <1>6 DEF Goto
<1>7. CASE /\ MakeReference(c) /\ transfer' = [transfer EXCEPT ![c] = "pending"] /\ UNCHANGED job
           /\ \/ Goto(c, "book") /\ UNCHANGED <<seen, faults, cut>>
              \/ End(c, "failed") /\ Fault /\ cut' = cut \cup {c}
  <2>1. CASE Goto(c, "book") /\ UNCHANGED <<seen, faults, cut>>
    BY <1>4, <1>5, <1>7, <2>1 DEF Goto
  <2>2. CASE End(c, "failed") /\ Fault /\ cut' = cut \cup {c}
    BY <1>4, <1>5, <1>7, <2>2 DEF End, Fault
  <2>3. QED
    BY <1>7, <2>1, <2>2
<1>8. QED
  BY <1>3, <1>6, <1>7 DEF Initiate

(* The debit is covered by what the call read, unless its wallet is among the *)
(* overlapped, the unchecked or the reversed; and whoever else relies on the  *)
(* wallet is overlapped from now on.                                          *)
LEMMA BookKeeps == ASSUME Inv, NEW c \in Calls, Book(c) PROVE Inv'
<1> DEFINE w == job[c].wallet  n == job[c].amount
<1>1. /\ pc[c] = "book" /\ faults' \in Nat
      /\ balance' = [balance EXCEPT ![w] = @ - n]
      /\ row' = [row EXCEPT ![c] = "PENDING"]
      /\ overlapped' = IF ReliedOn(w, c) THEN overlapped \cup {w} ELSE overlapped
      /\ pc' = [pc EXCEPT ![c] = "ok"] \/ pc' = [pc EXCEPT ![c] = "failed"]
      /\ seen' = [seen EXCEPT ![c] = NoSnapshot]
      /\ UNCHANGED <<paidIn, job, ref, transfer, hpc, acked, taking, unrowed, collected, day,
                     gone, refunds, charges, fees, unchecked, reversed, missed, cut, fresh,
                     purged>>
  BY DEF Book, Debited, End, Fault, hooks, intake, told, windows, Inv, TypeOK
<1>2. /\ transfer[c] # "none" /\ row[c] = "none" /\ job[c] \in Jobs
      /\ w \in Wallets /\ n \in Nat
  BY <1>1, CallFacts DEF Inv, WithdrawalsStand, CallsStand, Relying
<1>3. refunds[c] = 0 /\ charges[c] = 0
  <2>1. refunds[c] \in Nat /\ charges[c] \in Nat /\ row[c] \notin Final
    BY <1>2 DEF Inv, TypeOK, Final
  <2>2. ~(refunds[c] + charges[c] > 0)
    BY <2>1 DEF Inv, WithdrawalsStand, RowsStand, RowsMatchTransfers
  <2>3. QED
    BY <2>1, <2>2
<1>4. paidOut' \in [Wallets -> [Ages -> Nat]]
  <2>1. CASE Business(c)
    <3>1. paidOut' = [paidOut EXCEPT ![w][0] = @ + n]
      BY <2>1 DEF Book
    <3>2. paidOut[w] \in [Ages -> Nat] /\ 0 \in Ages
      BY <1>2 DEF Inv, TypeOK, Ages
    <3>3. [paidOut[w] EXCEPT ![0] = @ + n] \in [Ages -> Nat]
      BY <1>2, <3>2
    <3>4. QED
      BY <1>2, <3>1, <3>3 DEF Inv, TypeOK
  <2>2. CASE ~Business(c)
    BY <2>2 DEF Book, Inv, TypeOK
  <2>3. QED
    BY <2>1, <2>2
<1> HIDE DEF w, n
<1>5. TypeOK'
  <2>1. balance' \in [Wallets -> Int]
    BY <1>1, <1>2 DEF Inv, TypeOK
  <2>2. row' \in [Calls -> Statuses] /\ overlapped' \subseteq Wallets
    BY <1>1, <1>2 DEF Inv, TypeOK, Statuses
  <2>3. pc' \in [Calls -> {"idle", "book"} \cup Before \cup Answers]
    BY <1>1 DEF Inv, TypeOK, Answers
  <2>4. seen' \in [Calls -> Snapshots]
    BY <1>1, NoSnapshotType DEF Inv, TypeOK
  <2>5. QED
    BY <1>1, <1>4, <2>1, <2>2, <2>3, <2>4 DEF Inv, TypeOK
<1>6. w \notin overlapped \cup unchecked \cup reversed => n <= balance[w] + fees[w]
  <2>1. w \notin overlapped \cup unchecked \cup reversed =>
          n <= seen[c].funds /\ seen[c].funds <= balance[w] + fees[w]
    BY <1>1 DEF Inv, WithdrawalsStand, FundsStand, Relying, w, n
  <2>2. seen[c].funds \in Int /\ balance[w] + fees[w] \in Int
    BY <1>2 DEF Inv, TypeOK, Snapshots
  <2>3. QED
    BY <1>2, <2>1, <2>2
<1>7. OverdraftHasCause'
  <2>1. \A v \in Wallets : v \notin overlapped' => v \notin overlapped
    BY <1>1
  <2>2. balance'[w] = balance[w] - n /\ balance[w] \in Int /\ fees[w] \in Int
    BY <1>1, <1>2 DEF Inv, TypeOK
  <2>3. w \notin overlapped' \cup unchecked' \cup reversed' => ~(balance'[w] + fees[w] < 0)
    BY <1>1, <1>2, <1>6, <2>1, <2>2
  <2>4. \A v \in Wallets : v # w => balance'[v] = balance[v]
    BY <1>1, <1>2 DEF Inv, TypeOK
  <2>5. QED
    BY <1>1, <2>1, <2>3, <2>4 DEF Inv, WithdrawalsStand, OverdraftHasCause
<1>8. FundsStand'
  <2>1. \A d \in Calls : pc'[d] \in Relying => d # c /\ pc'[d] = pc[d] /\ seen'[d] = seen[d]
    BY <1>1 DEF Inv, TypeOK, Relying
  <2>2. \A d \in Calls \ {c} :
          pc[d] \in Relying /\ job[d].wallet = w => w \in overlapped'
    BY <1>1 DEF ReliedOn
  <2>3. \A v : v # w => balance'[v] = balance[v]
    BY <1>1, <1>2 DEF Inv, TypeOK
  <2>4. overlapped \subseteq overlapped'
    BY <1>1
  <2>5. QED
    BY <1>1, <2>1, <2>2, <2>3, <2>4 DEF Inv, WithdrawalsStand, FundsStand
<1>9. CallsStand'
  BY <1>1, <1>2 DEF Inv, TypeOK, WithdrawalsStand, CallsStand, Before, Relying
<1>10. RowsStand'
  <2>1. \A d \in Calls : /\ d # c => row'[d] = row[d] /\ pc'[d] = pc[d]
                         /\ row'[c] = "PENDING" /\ pc'[c] # "book"
    BY <1>1 DEF Inv, TypeOK
  <2>2. RowsMatchTransfers'
    BY <1>1, <1>2, <1>3, <2>1 DEF Inv, WithdrawalsStand, RowsStand, RowsMatchTransfers, Final,
                                  Twins
  <2>3. RowlessHaveCause'
    BY <1>1, <2>1 DEF Inv, WithdrawalsStand, RowsStand, RowlessHaveCause, Twins
  <2>4. RefundsHaveCause'
    BY <1>1 DEF Inv, WithdrawalsStand, RowsStand, RefundsHaveCause, Twins
  <2>5. NoticesStand'
    <3>1. \A n2 \in Notices : Found(About[n2]) # {} => Found(About[n2])' # {}
      BY <1>1, <2>1 DEF Found
    <3>2. QED
      BY <1>1, <3>1 DEF Inv, WithdrawalsStand, RowsStand, NoticesStand
  <2>6. QED
    BY <2>2, <2>3, <2>4, <2>5 DEF RowsStand
<1>11. QED
  BY <1>5, <1>7, <1>8, <1>9, <1>10 DEF Inv, WithdrawalsStand

LEMMA BookFailsKeeps == ASSUME Inv, NEW c \in Calls, BookFails(c) PROVE Inv'
<1>1. /\ pc[c] = "book" /\ faults' \in Nat
      /\ pc' = [pc EXCEPT ![c] = "failed"]
      /\ seen' = [seen EXCEPT ![c] = NoSnapshot]
      /\ UNCHANGED <<balance, row, paidIn, paidOut, job, ref, transfer, hpc, acked, taking,
                     unrowed, collected, day, gone, refunds, charges, fees, overlapped,
                     unchecked, reversed, missed, fresh, purged>>
      /\ (~CanBook(c) /\ cut' = cut) \/ cut' = cut \cup {c}
  BY DEF BookFails, End, Fault, books, hooks, intake, told, windows, Inv, TypeOK
<1>2. TypeOK'
  <2>1. cut' \subseteq Calls
    BY <1>1 DEF Inv, TypeOK
  <2>2. pc' \in [Calls -> {"idle", "book"} \cup Before \cup Answers]
    BY <1>1 DEF Inv, TypeOK, Answers
  <2>3. seen' \in [Calls -> Snapshots]
    BY <1>1, NoSnapshotType DEF Inv, TypeOK
  <2>4. QED
    BY <1>1, <2>1, <2>2, <2>3 DEF Inv, TypeOK
<1>3. (CallsStand /\ FundsStand)'
  BY <1>1 DEF Inv, TypeOK, WithdrawalsStand, CallsStand, FundsStand, Before, Relying
<1>4. OverdraftHasCause'
  BY <1>1 DEF Inv, WithdrawalsStand, OverdraftHasCause
<1>5. RowsStand'
  <2>1. \A d \in Calls : (transfer'[d] # "none" /\ pc'[d] # "book" /\ row[d] = "none") =>
          \/ transfer[d] # "none" /\ pc[d] # "book" /\ job'[d] = job[d]
          \/ d \in cut' \/ job'[d].user \in gone'
          \/ \E e \in Calls \ {d} : ref'[e] = ref'[d] /\ row[e] # "none"
    BY <1>1 DEF CanBook, Twins, Inv, TypeOK
  <2>2. cut \subseteq cut'
    BY <1>1
  <2>3. QED
    BY <1>1, <2>1, <2>2, RowsKept
<1>6. QED
  BY <1>2, <1>3, <1>4, <1>5 DEF Inv, WithdrawalsStand

LEMMA FinishKeeps == ASSUME Inv, NEW c \in Calls, Finish(c) PROVE Inv'
<1>1. /\ transfer[c] = "pending"
      /\ \E s \in Final : transfer' = [transfer EXCEPT ![c] = s]
      /\ UNCHANGED <<balance, row, paidIn, paidOut, pc, job, seen, ref, hpc, acked, taking,
                     unrowed, collected, day, faults, gone, refunds, charges, fees,
                     overlapped, unchecked, reversed, missed, cut, fresh, purged>>
  BY DEF Finish, books, call, hooks, intake, history, told, causes, windows
<1>2. TypeOK'
  <2>1. transfer' \in [Calls -> Transfers]
    BY <1>1 DEF Inv, TypeOK, Transfers
  <2>2. QED
    BY <1>1, <2>1 DEF Inv, TypeOK
<1>3. CallsStand'
  BY <1>1 DEF Inv, TypeOK, WithdrawalsStand, CallsStand, Final
<1>4. (OverdraftHasCause /\ FundsStand)'
  BY <1>1 DEF Inv, WithdrawalsStand, OverdraftHasCause, FundsStand
<1>5. RowsStand'
  <2>1. \A d \in Calls : transfer'[d] = transfer[d]
                         \/ (d = c /\ transfer[c] \notin Final /\ transfer'[c] # "none")
    BY <1>1 DEF Inv, TypeOK, Final
  <2>2. \A d \in Calls : transfer'[d] # "none" => transfer[d] # "none"
    BY <1>1 DEF Inv, TypeOK, Final
  <2>3. QED
    BY <1>1, <2>1, <2>2, RowsKept
<1>6. QED
  BY <1>2, <1>3, <1>4, <1>5 DEF Inv, WithdrawalsStand

(* A delivery that moves on, or ends, without touching the wallet.           *)
LEMMA DeliveryKeeps ==
  ASSUME Inv, NEW n \in Notices, Deliver(n) \/ LookUp(n) \/ Drop(n) \/ Answer(n)
  PROVE  Inv'
<1> DEFINE c == About[n]
<1>1. /\ \E s \in {"lookup", "settle", "answer", "done"} :
           /\ hpc' = [hpc EXCEPT ![n] = s]
           /\ s = "settle" => Found(c) # {}
           /\ s # "done" => transfer[c] \in Final
      /\ acked' \subseteq Calls /\ missed' \subseteq Calls /\ faults' \in Nat
      /\ UNCHANGED <<balance, row, paidIn, paidOut, pc, job, seen, ref, transfer, taking, unrowed,
                     collected, day, gone, refunds, charges, fees, overlapped, unchecked,
                     reversed, cut, fresh, purged>>
  <2>1. c \in Calls
    OBVIOUS
  <2>2. hpc[n] \in Handling => transfer[c] \in Final
    BY DEF Inv, WithdrawalsStand, RowsStand, NoticesStand
  <2> HIDE DEF c
  <2>3. CASE Deliver(n)
    <3>1. transfer[c] \in Final /\ hpc' = [hpc EXCEPT ![n] = "lookup"]
      BY <2>3 DEF Deliver, Place, c
    <3>2. QED
      BY <2>3, <3>1 DEF Deliver, books, call, intake, history, told, causes, windows, Inv, TypeOK
  <2>4. CASE LookUp(n)
    <3>1. /\ transfer[c] \in Final
          /\ \/ Found(c) = {} /\ hpc' = [hpc EXCEPT ![n] = "answer"]
             \/ Found(c) # {} /\ hpc' = [hpc EXCEPT ![n] = "settle"]
      BY <2>2, <2>4 DEF LookUp, Place, Handling, c
    <3>2. missed' \subseteq Calls
      BY <2>1, <2>4 DEF LookUp, Inv, TypeOK, c
    <3>3. QED
      BY <2>4, <3>1, <3>2 DEF LookUp, books, call, intake, told, windows, Inv, TypeOK
  <2>5. CASE Drop(n)
    <3>1. transfer[c] \in Final /\ hpc' = [hpc EXCEPT ![n] = "answer"]
      BY <2>2, <2>5 DEF Drop, Place, Handling
    <3>2. missed' \subseteq Calls /\ faults' \in Nat
      BY <2>1, <2>5 DEF Drop, Fault, Inv, TypeOK, c
    <3>3. QED
      BY <2>5, <3>1, <3>2 DEF Drop, books, call, intake, told, windows, Inv, TypeOK
  <2>6. CASE Answer(n)
    <3>1. acked' \subseteq Calls /\ hpc' = [hpc EXCEPT ![n] = "done"]
      BY <2>1, <2>6 DEF Answer, Place, Inv, TypeOK, c
    <3>2. QED
      BY <2>6, <3>1 DEF Answer, books, call, intake, history, told, causes, windows, Inv, TypeOK
  <2>7. QED
    BY <2>3, <2>4, <2>5, <2>6
<1> HIDE DEF c
<1>2. TypeOK'
  BY <1>1 DEF Inv, TypeOK, Handling
<1>3. NoticesStand'
  <2>1. \A m \in Notices : m # n => hpc'[m] = hpc[m]
    BY <1>1 DEF Inv, TypeOK
  <2>2. hpc'[n] \in Handling => transfer[c] \in Final
    BY <1>1 DEF Inv, TypeOK, Handling
  <2>3. hpc'[n] = "settle" => Found(c) # {}
    BY <1>1 DEF Inv, TypeOK
  <2>4. QED
    BY <1>1, <2>1, <2>2, <2>3 DEF Inv, WithdrawalsStand, RowsStand, NoticesStand, Found, c
<1>4. (OverdraftHasCause /\ FundsStand /\ CallsStand)'
  BY <1>1 DEF Inv, WithdrawalsStand, OverdraftHasCause, FundsStand, CallsStand
<1>5. (RowsMatchTransfers /\ RowlessHaveCause /\ RefundsHaveCause)'
  BY <1>1 DEF Inv, WithdrawalsStand, RowsStand, RowsMatchTransfers, RowlessHaveCause,
              RefundsHaveCause, Twins
<1>6. QED
  BY <1>2, <1>3, <1>4, <1>5 DEF Inv, WithdrawalsStand, RowsStand

(* The fee leaves balance + fees as it was, a refund adds to it; the row     *)
(* that is written bears the reference of the transfer that ended.           *)
LEMMA SettleFacts ==
  ASSUME Inv, NEW n \in Notices, Settle(n)
  PROVE  \E d \in Calls :
           LET c == About[n]  w == job[d].wallet IN
           /\ d \in Found(c) /\ c \in Calls /\ row[d] # "none" /\ transfer[c] \in Final
           /\ hpc[n] = "settle" /\ hpc' = [hpc EXCEPT ![n] = "answer"]
           /\ row' = [row EXCEPT ![d] = transfer[c]]
           /\ \/ /\ transfer[c] = "FAILED"
                 /\ balance' = [balance EXCEPT ![w] = @ + job[d].amount]
                 /\ refunds' = [refunds EXCEPT ![d] = @ + 1]
                 /\ charges' = charges /\ fees' = fees
              \/ /\ transfer[c] # "FAILED"
                 /\ balance' = [balance EXCEPT ![w] = @ - Fee]
                 /\ charges' = [charges EXCEPT ![d] = @ + 1]
                 /\ fees' = [fees EXCEPT ![w] = @ + Fee] /\ refunds' = refunds
           /\ UNCHANGED <<paidIn, paidOut, pc, job, seen, ref, transfer, acked, taking, unrowed,
                          collected, day, faults, gone, overlapped, unchecked, reversed,
                          missed, cut, fresh, purged>>
<1>1. PICK d \in Found(About[n]) :
        /\ balance' = Settled(About[n], d)
        /\ row' = [row EXCEPT ![d] = Outcome(About[n], d)]
        /\ IF transfer[About[n]] = "FAILED"
           THEN refunds' = [refunds EXCEPT ![d] = @ + 1] /\ UNCHANGED <<charges, fees>>
           ELSE /\ charges' = [charges EXCEPT ![d] = @ + 1]
                /\ fees' = [fees EXCEPT ![job[d].wallet] = @ + Fee]
                /\ UNCHANGED refunds
  BY DEF Settle
<1>2. /\ hpc[n] = "settle" /\ hpc' = [hpc EXCEPT ![n] = "answer"]
      /\ UNCHANGED <<paidIn, paidOut, pc, job, seen, ref, transfer, acked, taking, unrowed,
                     collected, day, faults, gone, overlapped, unchecked, reversed,
                     missed, cut, fresh, purged>>
  BY DEF Settle, Place, call, intake, causes, windows
<1>3. transfer[About[n]] \in Final /\ About[n] \in Calls
  BY <1>2 DEF Inv, WithdrawalsStand, RowsStand, NoticesStand, Handling
<1>4. d \in Calls /\ row[d] # "none"
  BY <1>1 DEF Found
<1>5. CASE transfer[About[n]] = "FAILED"
  <2>1. balance' = [balance EXCEPT ![job[d].wallet] = @ + job[d].amount]
    BY <1>1, <1>5 DEF Settled
  <2>2. QED
    BY <1>1, <1>2, <1>3, <1>4, <1>5, <2>1 DEF Outcome
<1>6. CASE transfer[About[n]] # "FAILED"
  <2>1. balance' = [balance EXCEPT ![job[d].wallet] = @ - Fee]
    BY <1>1, <1>6 DEF Settled
  <2>2. QED
    BY <1>1, <1>2, <1>3, <1>4, <1>6, <2>1 DEF Outcome
<1>7. QED
  BY <1>5, <1>6

(* More money, or the same and a fee, is no harm to whoever relies on it.    *)
LEMMA FundsGrow ==
  ASSUME Inv, UNCHANGED <<pc, job, overlapped, unchecked>>,
         \A d \in Calls : pc[d] \in Relying => seen'[d] = seen[d],
         reversed \subseteq reversed',
         \A v \in Wallets : /\ balance'[v] \in Int /\ fees'[v] \in Int
                            /\ v \in reversed' \/ balance'[v] + fees'[v] >= balance[v] + fees[v]
  PROVE  (OverdraftHasCause /\ FundsStand)'
<1>1. \A v \in Wallets : balance[v] + fees[v] \in Int /\ balance'[v] + fees'[v] \in Int
  BY DEF Inv, TypeOK
<1>2. \A d \in Calls : pc[d] \in Relying =>
        job[d].wallet \in Wallets /\ seen[d].funds \in Int
  BY CallFacts DEF Inv, TypeOK, Snapshots
<1>3. OverdraftHasCause'
  BY <1>1 DEF Inv, WithdrawalsStand, OverdraftHasCause
<1>4. FundsStand'
  BY <1>1, <1>2 DEF Inv, WithdrawalsStand, FundsStand
<1>5. QED
  BY <1>3, <1>4

LEMMA SettleKeeps == ASSUME Inv, NEW n \in Notices, Settle(n) PROVE Inv'
<1> DEFINE c == About[n]
<1>1. PICK d \in Calls : LET w == job[d].wallet IN
           /\ d \in Found(c) /\ c \in Calls /\ row[d] # "none" /\ transfer[c] \in Final
           /\ hpc[n] = "settle" /\ hpc' = [hpc EXCEPT ![n] = "answer"]
           /\ row' = [row EXCEPT ![d] = transfer[c]]
           /\ \/ /\ transfer[c] = "FAILED"
                 /\ balance' = [balance EXCEPT ![w] = @ + job[d].amount]
                 /\ refunds' = [refunds EXCEPT ![d] = @ + 1]
                 /\ charges' = charges /\ fees' = fees
              \/ /\ transfer[c] # "FAILED"
                 /\ balance' = [balance EXCEPT ![w] = @ - Fee]
                 /\ charges' = [charges EXCEPT ![d] = @ + 1]
                 /\ fees' = [fees EXCEPT ![w] = @ + Fee] /\ refunds' = refunds
           /\ UNCHANGED <<paidIn, paidOut, pc, job, seen, ref, transfer, acked, taking, unrowed,
                          collected, day, faults, gone, overlapped, unchecked, reversed,
                          missed, cut, fresh, purged>>
  BY SettleFacts
<1> HIDE DEF c
<1>2. /\ job[d].wallet \in Wallets /\ job[d].amount \in Nat
      /\ ref[d] = ref[c]
  BY <1>1, CallFacts DEF Found
<1>3. /\ balance' \in [Wallets -> Int] /\ fees' \in [Wallets -> Nat]
      /\ \A v \in Wallets : balance'[v] + fees'[v] >= balance[v] + fees[v]
  <2> DEFINE w == job[d].wallet
  <2>1. w \in Wallets /\ balance \in [Wallets -> Int] /\ fees \in [Wallets -> Nat]
    BY <1>2 DEF Inv, TypeOK
  <2>2. \/ balance' = [balance EXCEPT ![w] = @ + job[d].amount] /\ fees' = fees
        \/ balance' = [balance EXCEPT ![w] = @ - Fee] /\ fees' = [fees EXCEPT ![w] = @ + Fee]
    BY <1>1
  <2> HIDE DEF w
  <2>3. QED
    BY <1>2, <2>1, <2>2
<1>4. TypeOK'
  <2>1. row' \in [Calls -> Statuses]
    BY <1>1 DEF Inv, TypeOK, Statuses
  <2>2. refunds' \in [Calls -> Nat] /\ charges' \in [Calls -> Nat]
    <3>1. refunds \in [Calls -> Nat] /\ charges \in [Calls -> Nat]
      BY DEF Inv, TypeOK
    <3>2. /\ refunds' = refunds \/ refunds' = [refunds EXCEPT ![d] = @ + 1]
          /\ charges' = charges \/ charges' = [charges EXCEPT ![d] = @ + 1]
      BY <1>1
    <3>3. QED
      BY <3>1, <3>2
  <2>3. hpc' \in [Notices -> {"free", "done"} \cup Handling]
    BY <1>1 DEF Inv, TypeOK, Handling
  <2>4. QED
    BY <1>1, <1>3, <2>1, <2>2, <2>3 DEF Inv, TypeOK
<1>5. (OverdraftHasCause /\ FundsStand)'
  BY <1>1, <1>3, FundsGrow
<1>6. \A e \in Calls : row[e] # "none" <=> row'[e] # "none"
  BY <1>1 DEF Inv, TypeOK, Final
<1>7. CallsStand'
  BY <1>1, <1>6 DEF Inv, WithdrawalsStand, CallsStand
<1>8. RowsMatchTransfers'
  <2>1. \A e \in Calls : e # d =>
          row'[e] = row[e] /\ refunds'[e] = refunds[e] /\ charges'[e] = charges[e]
    BY <1>1 DEF Inv, TypeOK
  <2>2. /\ row'[d] = transfer[c] /\ row'[d] \in Final /\ transfer[d] # "none"
        /\ refunds'[d] + charges'[d] > 0
    BY <1>1, CallFacts DEF Inv, TypeOK
  <2>3. c \in {d} \cup Twins(d)
    BY <1>1, <1>2 DEF Twins
  <2>4. \A e \in Calls : Twins(e)' = Twins(e)
    BY <1>1 DEF Twins
  <2>5. QED
    BY <1>1, <2>1, <2>2, <2>3, <2>4 DEF Inv, WithdrawalsStand, RowsStand, RowsMatchTransfers
<1>9. RowlessHaveCause'
  BY <1>1, <1>6 DEF Inv, WithdrawalsStand, RowsStand, RowlessHaveCause, Twins
<1>10. RefundsHaveCause'
  <2>1. \A e \in Calls : e # d => refunds'[e] = refunds[e]
    BY <1>1 DEF Inv, TypeOK
  <2>2. refunds'[d] = refunds[d] \/ transfer[c] = "FAILED"
    BY <1>1
  <2>3. c \in {d} \cup Twins(d)
    BY <1>1, <1>2 DEF Twins
  <2>4. \A e \in Calls : Twins(e)' = Twins(e)
    BY <1>1 DEF Twins
  <2>5. QED
    BY <1>1, <2>1, <2>2, <2>3, <2>4 DEF Inv, WithdrawalsStand, RowsStand, RefundsHaveCause
<1>11. NoticesStand'
  <2>1. \A m \in Notices : hpc'[m] = "settle" => hpc[m] = "settle"
    BY <1>1 DEF Inv, TypeOK
  <2>2. \A m \in Notices : hpc'[m] \in Handling => hpc[m] \in Handling
    BY <1>1 DEF Inv, TypeOK, Handling
  <2>3. \A m \in Notices : Found(About[m])' = Found(About[m])
    BY <1>1, <1>6 DEF Found
  <2>4. QED
    BY <1>1, <2>1, <2>2, <2>3 DEF Inv, WithdrawalsStand, RowsStand, NoticesStand
<1>12. QED
  BY <1>4, <1>5, <1>7, <1>8, <1>9, <1>10, <1>11 DEF Inv, WithdrawalsStand, RowsStand

(* What is about calls and rows alone.                                       *)
LEMMA RowsUntouched ==
  ASSUME Inv, UNCHANGED <<row, pc, job, ref, transfer, hpc, refunds, charges, cut>>,
         gone \subseteq gone'
  PROVE  (RowsStand /\ CallsStand)'
<1>1. CallsStand'
  BY DEF Inv, WithdrawalsStand, CallsStand
<1>2. RowsStand'
  BY DEF Inv, WithdrawalsStand, RowsStand, RowsMatchTransfers, RowlessHaveCause,
         RefundsHaveCause, NoticesStand, Twins, Found
<1>3. QED
  BY <1>1, <1>2

LEMMA CollectKeeps ==
  ASSUME Inv, NEW k \in Payments, NEW w \in BusinessWallets, NEW n \in Takings,
         Collect(k, w, n)
  PROVE  Inv'
<1>1. /\ w \in Wallets /\ n \in Int
      /\ taking' = [taking EXCEPT ![k] = [wallet |-> w, amount |-> n]]
      /\ unrowed' = unrowed \cup {k}
      /\ balance' = [balance EXCEPT ![w] = @ + n]
      /\ collected' = [collected EXCEPT ![w] = @ + n]
      /\ fresh' = [fresh EXCEPT ![w][0] = @ + n]
      /\ seen' = [c \in Calls |-> IF pc[c] = "balance" /\ job[c].wallet = w
                                  THEN [seen[c] EXCEPT !.crossed = TRUE] ELSE seen[c]]
      /\ reversed' = IF n < 0 THEN reversed \cup {w} ELSE reversed
      /\ UNCHANGED <<row, paidIn, paidOut, pc, job, ref, transfer, hpc, acked, day, faults, gone,
                     refunds, charges, fees, overlapped, unchecked, missed, cut, purged>>
  BY DEF Collect, hooks, told
<1>2. TypeOK'
  <2>1. fresh[w] \in [Ages -> Int] /\ 0 \in Ages
    BY <1>1 DEF Inv, TypeOK, Ages
  <2>2. [fresh[w] EXCEPT ![0] = @ + n] \in [Ages -> Int]
    BY <1>1, <2>1
  <2>3. fresh' \in [Wallets -> [Ages -> Int]]
    BY <1>1, <2>2 DEF Inv, TypeOK
  <2>4. balance' \in [Wallets -> Int] /\ collected' \in [Wallets -> Int]
    BY <1>1 DEF Inv, TypeOK
  <2>5. /\ taking' \in [Payments -> Collections \cup {NoTaking}]
        /\ unrowed' \subseteq {j \in Payments : taking'[j] # NoTaking}
    <3>1. [wallet |-> w, amount |-> n] \in Collections
      BY DEF Collections
    <3>2. [wallet |-> w, amount |-> n] # NoTaking
      BY <3>1
    <3> DEFINE t == [wallet |-> w, amount |-> n]
    <3> HIDE DEF t
    <3>3. t \in Collections /\ t # NoTaking /\ taking' = [taking EXCEPT ![k] = t]
      BY <1>1, <3>1, <3>2 DEF t
    <3>4. QED
      BY <1>1, <3>3 DEF Inv, TypeOK
  <2>6. seen' \in [Calls -> Snapshots]
    <3>1. \A q \in Snapshots : [q EXCEPT !.crossed = TRUE] \in Snapshots
      BY DEF Snapshots
    <3>2. QED
      BY <1>1, <3>1 DEF Inv, TypeOK
  <2>7. reversed' \subseteq Wallets
    BY <1>1 DEF Inv, TypeOK
  <2>8. QED
    BY <1>1, <2>3, <2>4, <2>5, <2>6, <2>7 DEF Inv, TypeOK
<1>3. (OverdraftHasCause /\ FundsStand)'
  <2>1. ASSUME NEW v \in Wallets
        PROVE  /\ balance'[v] \in Int /\ fees'[v] \in Int
               /\ v \in reversed' \/ balance'[v] + fees'[v] >= balance[v] + fees[v]
    <3>1. balance[v] \in Int /\ fees[v] \in Int /\ fees'[v] = fees[v]
      BY <1>1 DEF Inv, TypeOK
    <3>2. v # w => balance'[v] = balance[v]
      BY <1>1 DEF Inv, TypeOK
    <3>3. v = w => balance'[v] = balance[v] + n /\ (n < 0 => v \in reversed')
      BY <1>1 DEF Inv, TypeOK
    <3>4. QED
      BY <1>1, <3>1, <3>2, <3>3
  <2>2. \A d \in Calls : pc[d] \in Relying => seen'[d] = seen[d]
    BY <1>1 DEF Relying
  <2>3. reversed \subseteq reversed'
    BY <1>1
  <2>4. QED
    BY <1>1, <2>1, <2>2, <2>3, FundsGrow
<1>4. (RowsStand /\ CallsStand)'
  BY <1>1, RowsUntouched
<1>5. QED
  BY <1>2, <1>3, <1>4 DEF Inv, WithdrawalsStand

(* Steps that change no wallet, no call and no row.                          *)
LEMMA QuietKeeps ==
  ASSUME Inv, TypeOK',
         UNCHANGED <<balance, row, call, transfer, hpc, refunds, charges, fees, overlapped,
                     unchecked, reversed, cut>>,
         gone \subseteq gone'
  PROVE  Inv'
<1>1. UNCHANGED <<pc, job, seen, ref>>
  BY DEF call
<1>2. (RowsStand /\ CallsStand)'
  BY <1>1, RowsUntouched
<1>3. (OverdraftHasCause /\ FundsStand)'
  BY <1>1 DEF Inv, WithdrawalsStand, OverdraftHasCause, FundsStand
<1>4. QED
  BY <1>2, <1>3 DEF Inv, WithdrawalsStand

LEMMA TakingFacts ==
  ASSUME Inv, NEW k \in unrowed
  PROVE  /\ k \in Payments /\ taking[k] \in Collections
         /\ taking[k].wallet \in Wallets /\ taking[k].amount \in Int
<1>1. k \in Payments /\ taking[k] \in Collections
  BY DEF Inv, TypeOK
<1>2. QED
  BY <1>1 DEF Collections

LEMMA WriteRowKeeps == ASSUME Inv, NEW k \in Payments, WriteRow(k) PROVE Inv'
<1> DEFINE w == taking[k].wallet  n == taking[k].amount
<1>1. /\ k \in unrowed /\ unrowed' = unrowed \ {k} /\ paidIn' = [paidIn EXCEPT ![w][0] = @ + n]
      /\ UNCHANGED <<balance, row, paidOut, call, transfer, hooks, taking, collected, day,
                     faults, gone, history>>
  BY DEF WriteRow
<1>2. w \in Wallets /\ n \in Int
  BY <1>1, TakingFacts
<1> HIDE DEF w, n
<1>3. TypeOK'
  <2>1. paidIn[w] \in [Ages -> Int] /\ 0 \in Ages
    BY <1>2 DEF Inv, TypeOK, Ages
  <2>2. [paidIn[w] EXCEPT ![0] = @ + n] \in [Ages -> Int]
    BY <1>2, <2>1
  <2>3. paidIn' \in [Wallets -> [Ages -> Int]]
    BY <1>1, <1>2, <2>2 DEF Inv, TypeOK
  <2>4. QED
    BY <1>1, <2>3 DEF Inv, TypeOK, call, hooks, history, told, causes, windows
<1>4. QED
  BY <1>1, <1>3, QuietKeeps DEF hooks, history, told, causes

LEMMA NextDayKeeps == ASSUME Inv, NextDay PROVE Inv'
<1>1. TypeOK'
  <2>1. /\ paidIn' \in [Wallets -> [Ages -> Int]]
        /\ paidOut' \in [Wallets -> [Ages -> Nat]]
        /\ fresh' \in [Wallets -> [Ages -> Int]]
    <3>1. \A f \in [Wallets -> [Ages -> Int]] : Older(f) \in [Wallets -> [Ages -> Int]]
      <4>1. 0 \in Int
        OBVIOUS
      <4>2. QED
        BY <4>1, OlderType
    <3>2. \A f \in [Wallets -> [Ages -> Nat]] : Older(f) \in [Wallets -> [Ages -> Nat]]
      <4>1. 0 \in Nat
        OBVIOUS
      <4>2. QED
        BY <4>1, OlderType
    <3>3. QED
      BY <3>1, <3>2 DEF NextDay, Inv, TypeOK
  <2>2. day' \in Nat
    BY DEF NextDay, Inv, TypeOK
  <2>3. QED
    BY <2>1, <2>2 DEF NextDay, call, hooks, intake, told, causes, Inv, TypeOK
<1>2. QED
  BY <1>1, QuietKeeps DEF NextDay, hooks, told, causes

LEMMA DeleteKeeps ==
  ASSUME Inv,
         \/ \E w \in BusinessWallets, ks \in SUBSET Ages : DeleteStation(w, ks)
         \/ \E u \in Persons : DeleteUser(u)
  PROVE  Inv'
<1>1. ASSUME NEW w \in BusinessWallets, NEW ks \in SUBSET Ages, DeleteStation(w, ks)
      PROVE  Inv'
  <2>1. w \in Wallets
    OBVIOUS
  <2>2. [k \in Ages |-> IF k \in ks THEN 0 ELSE paidIn[w][k]] \in [Ages -> Int]
    BY <2>1 DEF Inv, TypeOK
  <2>3. paidIn' \in [Wallets -> [Ages -> Int]] /\ purged' \subseteq Wallets
    BY <1>1, <2>1, <2>2 DEF DeleteStation, Inv, TypeOK
  <2>4. TypeOK'
    BY <1>1, <2>3 DEF DeleteStation, call, hooks, intake, told, causes, Inv, TypeOK
  <2>5. QED
    BY <1>1, <2>4, QuietKeeps DEF DeleteStation, hooks, told, causes
<1>2. ASSUME NEW u \in Persons, DeleteUser(u)
      PROVE  Inv'
  <2>1. TypeOK'
    BY <1>2 DEF DeleteUser, books, call, hooks, intake, history, told, causes, windows, Inv,
                TypeOK
  <2>2. QED
    BY <1>2, <2>1, QuietKeeps DEF DeleteUser, books, hooks, history, told, causes
<1>3. QED
  BY <1>1, <1>2

LEMMA CrashKeeps == ASSUME Inv, Crash PROVE Inv'
<1> DEFINE lost == {c \in Calls : pc[c] \in Before \cup {"book"}}
<1>1. /\ pc' = [c \in Calls |-> IF c \in lost THEN "lost" ELSE pc[c]]
      /\ hpc' = [n \in Notices |-> IF hpc[n] \in Handling THEN "free" ELSE hpc[n]]
      /\ job' = [c \in Calls |-> IF pc[c] \in Before THEN NoJob ELSE job[c]]
      /\ cut' = cut \cup {c \in lost : pc[c] = "book"}
      /\ seen' \in [Calls -> Snapshots]
      /\ faults' \in Nat
      /\ UNCHANGED <<balance, row, paidIn, paidOut, ref, transfer, acked, taking, unrowed,
                     collected, day, gone, refunds, charges, fees, overlapped, unchecked,
                     reversed, missed, fresh, purged>>
  BY NoSnapshotType DEF Crash, Fault, books, intake, told, windows, Inv, TypeOK
<1>2. /\ \A c \in Calls : /\ pc'[c] \in {"idle"} \cup Answers
                          /\ pc'[c] = "idle" <=> pc[c] = "idle"
                          /\ pc[c] \notin Before => job'[c] = job[c]
                          /\ pc[c] = "book" => c \in cut'
      /\ \A n \in Notices : hpc'[n] \in {"free", "done"}
  BY <1>1 DEF Inv, TypeOK, Answers, Before, Handling
<1>3. TypeOK'
  <2>1. pc' \in [Calls -> {"idle", "book"} \cup Before \cup Answers]
    BY <1>1, <1>2
  <2>2. hpc' \in [Notices -> {"free", "done"} \cup Handling]
    BY <1>1, <1>2
  <2>3. job' \in [Calls -> Jobs \cup {NoJob}] /\ cut' \subseteq Calls
    BY <1>1 DEF Inv, TypeOK
  <2>4. QED
    BY <1>1, <2>1, <2>2, <2>3 DEF Inv, TypeOK
<1> HIDE DEF lost
<1>4. \A c \in Calls : transfer[c] # "none" => pc[c] \notin {"idle"} \cup Before
  BY CallFacts
<1>5. CallsStand'
  BY <1>1, <1>2, <1>4 DEF Inv, WithdrawalsStand, CallsStand, Relying, Before, Answers
<1>6. (OverdraftHasCause /\ FundsStand /\ NoticesStand)'
  BY <1>1, <1>2 DEF Inv, WithdrawalsStand, OverdraftHasCause, FundsStand, NoticesStand,
                    Relying, Answers, Handling
<1>7. RowlessHaveCause'
  <2>1. \A c \in Calls : transfer[c] # "none" => job'[c] = job[c]
    BY <1>2, <1>4
  <2>2. cut \subseteq cut'
    BY <1>1
  <2>3. QED
    BY <1>1, <1>2, <2>1, <2>2 DEF Inv, WithdrawalsStand, RowsStand, RowlessHaveCause, Twins
<1>8. (RowsMatchTransfers /\ RefundsHaveCause)'
  BY <1>1 DEF Inv, WithdrawalsStand, RowsStand, RowsMatchTransfers, RefundsHaveCause, Twins
<1>9. QED
  BY <1>3, <1>5, <1>6, <1>7, <1>8 DEF Inv, WithdrawalsStand, RowsStand

LEMMA StepKeeps == ASSUME Inv, [Next]_vars PROVE Inv'
<1>1. CASE UNCHANGED vars
  <2>1. TypeOK'
    BY <1>1 DEF vars, books, call, hooks, intake, history, told, causes, windows, Inv, TypeOK
  <2>2. QED
    BY <1>1, <2>1, QuietKeeps DEF vars, books, hooks, history, told, causes
<1>2. QED
  BY <1>1, NextCases, StartKeeps, RefuseKeeps, ReadKeeps, CheckKeeps,
     InitiateKeeps, BookKeeps, BookFailsKeeps, FinishKeeps, DeliveryKeeps,
     SettleKeeps, CollectKeeps, WriteRowKeeps, DeleteKeeps, NextDayKeeps, CrashKeeps

LEMMA InitHolds == Init => Inv
<1> SUFFICES ASSUME Init PROVE Inv
  OBVIOUS
<1>1. TypeOK
  BY DEF Init, TypeOK, Statuses, Transfers, Snapshots, NoSnapshot, Ages
<1>2. OverdraftHasCause
  BY DEF Init, OverdraftHasCause
<1>3. FundsStand
  BY DEF Init, FundsStand, Relying
<1>4. CallsStand
  BY DEF Init, CallsStand, Relying, Before
<1>5. RowsStand
  BY DEF Init, RowsStand, RowsMatchTransfers, RowlessHaveCause, RefundsHaveCause,
         NoticesStand, Final, Handling
<1>6. QED
  BY <1>1, <1>2, <1>3, <1>4, <1>5 DEF Inv, WithdrawalsStand

-------------------------------------------------------------------------------
(* What is held back of a business's money: RecentIsHeldBack.                *)

LEMMA WithdrawableOrder ==
  ASSUME NEW funds \in Int, NEW recent \in Int, NEW summed \in Int, summed <= recent
  PROVE  Withdrawable(funds, recent) <= Withdrawable(funds, summed)
<1>1. FeePercent * funds \in Int
  OBVIOUS
<1>2. QED
  BY <1>1 DEF Withdrawable

LEMMA UpToType ==
  ASSUME NEW f \in [Ages -> Int]
  PROVE  /\ \A k \in Ages : UpTo(f, k) \in Int
         /\ UpTo(f, 2) = SumOf(f)
  BY DEF UpTo, SumOf, Ages

(* Money of this day counts since any day.                                   *)
LEMMA UpToAdds ==
  ASSUME NEW f \in [Ages -> Int], NEW n \in Int, NEW k \in Ages
  PROVE  UpTo([f EXCEPT ![0] = @ + n], k) = UpTo(f, k) + n
  BY DEF UpTo, SumOf, Ages

(* What was collected, or had its row written, since a day of the window was  *)
(* so since the day before it when the day was a day younger.                *)
LEMMA UpToOlder ==
  ASSUME NEW f \in [Wallets -> [Ages -> Int]], NEW w \in Wallets
  PROVE  /\ UpTo(Older(f)[w], 0) = 0
         /\ UpTo(Older(f)[w], 1) = UpTo(f[w], 0)
         /\ UpTo(Older(f)[w], 2) = UpTo(f[w], 1)
         /\ SumOf(Older(f)[w]) = UpTo(f[w], 1)
  BY DEF UpTo, SumOf, Ages, Older

LEMMA OwedFacts ==
  ASSUME Inv, NEW w \in Wallets
  PROVE  /\ \A k \in Payments : OwedTo(w)[k] \in Int
         /\ Owed(w) \in Int
         /\ (\A k \in Payments : OwedTo(w)[k] >= 0) => Owed(w) >= 0
         /\ ~Unrowed(w) => Owed(w) = 0
<1> DEFINE f == OwedTo(w)
<1>1. \A k \in Payments : f[k] \in Int
  BY TakingFacts DEF OwedTo
<1>2. ~Unrowed(w) => \A k \in Payments : f[k] = 0
  BY DEF OwedTo, Unrowed
<1> HIDE DEF f
<1>3. SumFunctionOnSet(f, Payments) \in Int
  BY <1>1, SumType, FiniteAssumption
<1>4. (\A k \in Payments : f[k] >= 0) => SumFunctionOnSet(f, Payments) >= 0
  <2> SUFFICES ASSUME \A k \in Payments : f[k] >= 0
               PROVE  SumFunctionOnSet(f, Payments) >= 0
    OBVIOUS
  <2>1. \A k \in Payments : f[k] \in Nat
    BY <1>1
  <2>2. SumFunctionOnSet(f, Payments) \in Nat
    BY <2>1, SumType, FiniteAssumption
  <2>3. QED
    BY <2>2
<1>5. (\A k \in Payments : f[k] = 0) => SumFunctionOnSet(f, Payments) = 0
  BY SumOfZeros, FiniteAssumption
<1>6. QED
  BY <1>1, <1>2, <1>3, <1>4, <1>5 DEF f, Owed

(* When one payment starts or stops to be owed, what is owed changes by it.  *)
LEMMA OwedChanges ==
  ASSUME Inv, NEW w \in Wallets, NEW k \in Payments, OwedTo(w)'[k] \in Int,
         \A j \in Payments \ {k} : OwedTo(w)'[j] = OwedTo(w)[j]
  PROVE  Owed(w)' = Owed(w) + (OwedTo(w)'[k] - OwedTo(w)[k])
<1> DEFINE f == OwedTo(w)  g == OwedTo(w)'
<1>1. \A j \in Payments : f[j] \in Int
  BY OwedFacts
<1>2. Owed(w) = SumFunctionOnSet(f, Payments) /\ Owed(w)' = SumFunctionOnSet(g, Payments)
  BY DEF Owed
<1>3. g[k] \in Int /\ \A j \in Payments \ {k} : g[j] = f[j]
  OBVIOUS
<1> HIDE DEF f, g
<1>4. SumFunctionOnSet(g, Payments) = SumFunctionOnSet(f, Payments) + (g[k] - f[k])
  BY <1>1, <1>3, SumChanges, FiniteAssumption
<1>5. QED
  BY <1>2, <1>4 DEF f, g

LEMMA CoverKept ==
  ASSUME RowsCover, UNCHANGED <<paidIn, fresh, taking, unrowed>>,
         purged \subseteq purged', reversed \subseteq reversed'
  PROVE  RowsCover'
<1>1. \A w \in Wallets : OwedTo(w)' = OwedTo(w) /\ Owed(w)' = Owed(w)
  BY DEF OwedTo, Owed
<1>2. QED
  BY <1>1 DEF RowsCover

LEMMA CoverCollect ==
  ASSUME Inv, RowsCover, NEW k \in Payments, NEW w \in BusinessWallets, NEW n \in Takings,
         Collect(k, w, n)
  PROVE  RowsCover'
<1>1. /\ w \in Wallets /\ n \in Int /\ taking[k] = NoTaking
      /\ taking' = [taking EXCEPT ![k] = [wallet |-> w, amount |-> n]]
      /\ unrowed' = unrowed \cup {k}
      /\ fresh' = [fresh EXCEPT ![w][0] = @ + n]
      /\ reversed' = IF n < 0 THEN reversed \cup {w} ELSE reversed
      /\ UNCHANGED <<paidIn, purged>>
  BY DEF Collect
<1>2. k \notin unrowed /\ taking \in [Payments -> Collections \cup {NoTaking}]
  BY <1>1 DEF Inv, TypeOK
<1>3. /\ taking'[k].wallet = w /\ taking'[k].amount = n
      /\ \A j \in Payments \ {k} : taking'[j] = taking[j]
  BY <1>1, <1>2
<1>4. ASSUME NEW v \in Wallets
      PROVE  /\ \A j \in Payments \ {k} : OwedTo(v)'[j] = OwedTo(v)[j]
             /\ OwedTo(v)[k] = 0
             /\ OwedTo(v)'[k] = IF v = w THEN n ELSE 0
  BY <1>1, <1>2, <1>3 DEF OwedTo
<1>5. \A v \in Wallets : Owed(v)' = Owed(v) + (IF v = w THEN n ELSE 0) /\ Owed(v) \in Int
  <2> SUFFICES ASSUME NEW v \in Wallets
               PROVE  Owed(v)' = Owed(v) + (IF v = w THEN n ELSE 0) /\ Owed(v) \in Int
    OBVIOUS
  <2>1. OwedTo(v)'[k] \in Int
    BY <1>1, <1>4
  <2>2. Owed(v)' = Owed(v) + (OwedTo(v)'[k] - OwedTo(v)[k]) /\ Owed(v) \in Int
    BY <1>4, <2>1, OwedChanges, OwedFacts
  <2>3. QED
    BY <1>1, <1>4, <2>2
<1>6. /\ fresh[w] \in [Ages -> Int] /\ paidIn[w] \in [Ages -> Int]
      /\ fresh'[w] = [fresh[w] EXCEPT ![0] = @ + n]
      /\ \A v \in Wallets \ {w} : fresh'[v] = fresh[v]
  BY <1>1 DEF Inv, TypeOK
<1> SUFFICES ASSUME NEW v \in Wallets, v \notin purged' \cup reversed'
             PROVE  /\ \A j \in Payments : OwedTo(v)'[j] >= 0
                    /\ \A a \in Ages : fresh'[v][a] >= 0
                    /\ \A a \in Ages : UpTo(fresh'[v], a) <= UpTo(paidIn'[v], a) + Owed(v)'
  BY DEF RowsCover
<1>7. /\ v \notin purged \cup reversed /\ (v = w => n >= 0)
  BY <1>1
<1>8. /\ \A j \in Payments : OwedTo(v)[j] >= 0
      /\ \A a \in Ages : fresh[v][a] >= 0
      /\ \A a \in Ages : UpTo(fresh[v], a) <= UpTo(paidIn[v], a) + Owed(v)
  BY <1>7 DEF RowsCover
<1>9. \A j \in Payments : OwedTo(v)'[j] >= 0
  BY <1>4, <1>7, <1>8
<1>10. CASE v = w
  <2>1. \A a \in Ages : fresh'[v][a] >= 0
    BY <1>1, <1>6, <1>7, <1>8, <1>10 DEF Ages
  <2>2. \A a \in Ages : UpTo(fresh'[v], a) = UpTo(fresh[v], a) + n
    BY <1>1, <1>6, <1>10, UpToAdds
  <2>3. \A a \in Ages : UpTo(fresh[v], a) \in Int /\ UpTo(paidIn[v], a) \in Int
    BY <1>6, <1>10, UpToType
  <2>4. \A a \in Ages : UpTo(fresh'[v], a) <= UpTo(paidIn'[v], a) + Owed(v)'
    <3>1. Owed(v)' = Owed(v) + n /\ Owed(v) \in Int /\ n \in Int
      BY <1>1, <1>5, <1>10
    <3>2. \A a \in Ages : UpTo(fresh[v], a) <= UpTo(paidIn[v], a) + Owed(v)
      BY <1>8
    <3>3. paidIn' = paidIn
      BY <1>1
    <3>4. QED
      BY <2>2, <2>3, <3>1, <3>2, <3>3
  <2>5. QED
    BY <1>9, <2>1, <2>4
<1>11. CASE v # w
  BY <1>1, <1>5, <1>6, <1>8, <1>9, <1>11
<1>12. QED
  BY <1>10, <1>11

LEMMA CoverWriteRow ==
  ASSUME Inv, RowsCover, NEW k \in Payments, WriteRow(k)
  PROVE  RowsCover'
<1> DEFINE w == taking[k].wallet  n == taking[k].amount
<1>1. /\ k \in unrowed /\ unrowed' = unrowed \ {k}
      /\ paidIn' = [paidIn EXCEPT ![w][0] = @ + n]
      /\ UNCHANGED <<taking, fresh, purged, reversed>>
  BY DEF WriteRow, history, causes, windows
<1>2. w \in Wallets /\ n \in Int
  BY <1>1, TakingFacts
<1>3. ASSUME NEW v \in Wallets
      PROVE  /\ \A j \in Payments \ {k} : OwedTo(v)'[j] = OwedTo(v)[j]
             /\ OwedTo(v)[k] = IF v = w THEN n ELSE 0
             /\ OwedTo(v)'[k] = 0
  BY <1>1 DEF OwedTo
<1> HIDE DEF w, n
<1>4. \A v \in Wallets : Owed(v)' = Owed(v) - (IF v = w THEN n ELSE 0) /\ Owed(v) \in Int
  <2> SUFFICES ASSUME NEW v \in Wallets
               PROVE  Owed(v)' = Owed(v) - (IF v = w THEN n ELSE 0) /\ Owed(v) \in Int
    OBVIOUS
  <2>1. OwedTo(v)'[k] \in Int
    BY <1>3
  <2>2. Owed(v)' = Owed(v) + (OwedTo(v)'[k] - OwedTo(v)[k]) /\ Owed(v) \in Int
    BY <1>3, <2>1, OwedChanges, OwedFacts
  <2>3. QED
    BY <1>2, <1>3, <2>2
<1>5. /\ paidIn[w] \in [Ages -> Int] /\ fresh[w] \in [Ages -> Int]
      /\ paidIn'[w] = [paidIn[w] EXCEPT ![0] = @ + n]
      /\ \A v \in Wallets \ {w} : paidIn'[v] = paidIn[v]
  BY <1>1, <1>2 DEF Inv, TypeOK
<1> SUFFICES ASSUME NEW v \in Wallets, v \notin purged \cup reversed
             PROVE  /\ \A j \in Payments : OwedTo(v)'[j] >= 0
                    /\ \A a \in Ages : fresh[v][a] >= 0
                    /\ \A a \in Ages : UpTo(fresh[v], a) <= UpTo(paidIn'[v], a) + Owed(v)'
  BY <1>1 DEF RowsCover
<1>6. /\ \A j \in Payments : OwedTo(v)[j] >= 0
      /\ \A a \in Ages : fresh[v][a] >= 0
      /\ \A a \in Ages : UpTo(fresh[v], a) <= UpTo(paidIn[v], a) + Owed(v)
  BY DEF RowsCover
<1>7. \A j \in Payments : OwedTo(v)'[j] >= 0
  BY <1>3, <1>6
<1>8. CASE v = w
  <2>1. \A a \in Ages : UpTo(paidIn'[v], a) = UpTo(paidIn[v], a) + n
    BY <1>2, <1>5, <1>8, UpToAdds
  <2>2. \A a \in Ages : UpTo(fresh[v], a) \in Int /\ UpTo(paidIn[v], a) \in Int
    BY <1>5, <1>8, UpToType
  <2>3. \A a \in Ages : UpTo(fresh[v], a) <= UpTo(paidIn'[v], a) + Owed(v)'
    BY <1>2, <1>4, <1>6, <1>8, <2>1, <2>2
  <2>4. QED
    BY <1>6, <1>7, <2>3
<1>9. CASE v # w
  BY <1>4, <1>5, <1>6, <1>7, <1>9
<1>10. QED
  BY <1>8, <1>9

LEMMA CoverNextDay == ASSUME Inv, RowsCover, NextDay PROVE RowsCover'
<1>1. /\ paidIn' = Older(paidIn) /\ fresh' = Older(fresh)
      /\ UNCHANGED <<taking, unrowed, purged, reversed>>
  BY DEF NextDay, intake, causes
<1>2. \A w \in Wallets : OwedTo(w)' = OwedTo(w) /\ Owed(w)' = Owed(w)
  BY <1>1 DEF OwedTo, Owed
<1> SUFFICES ASSUME NEW w \in Wallets, w \notin purged \cup reversed
             PROVE  /\ \A k \in Payments : OwedTo(w)[k] >= 0
                    /\ \A k \in Ages : Older(fresh)[w][k] >= 0
                    /\ \A k \in Ages :
                         UpTo(Older(fresh)[w], k) <= UpTo(Older(paidIn)[w], k) + Owed(w)
  BY <1>1, <1>2 DEF RowsCover
<1>3. /\ \A k \in Payments : OwedTo(w)[k] >= 0
      /\ \A k \in Ages : fresh[w][k] >= 0
      /\ \A k \in Ages : UpTo(fresh[w], k) <= UpTo(paidIn[w], k) + Owed(w)
  BY DEF RowsCover
<1>4. Owed(w) \in Int /\ Owed(w) >= 0
  BY <1>3, OwedFacts
<1>5. \A k \in Ages : Older(fresh)[w][k] >= 0
  BY <1>3 DEF Older, Ages
<1>6. fresh \in [Wallets -> [Ages -> Int]] /\ paidIn \in [Wallets -> [Ages -> Int]]
  BY DEF Inv, TypeOK
<1>7. \A k \in Ages : UpTo(Older(fresh)[w], k) <= UpTo(Older(paidIn)[w], k) + Owed(w)
  <2>1. /\ UpTo(Older(fresh)[w], 0) = 0 /\ UpTo(Older(paidIn)[w], 0) = 0
        /\ UpTo(Older(fresh)[w], 1) = UpTo(fresh[w], 0)
        /\ UpTo(Older(paidIn)[w], 1) = UpTo(paidIn[w], 0)
        /\ UpTo(Older(fresh)[w], 2) = UpTo(fresh[w], 1)
        /\ UpTo(Older(paidIn)[w], 2) = UpTo(paidIn[w], 1)
    BY <1>6, UpToOlder
  <2>2. 0 \in Ages /\ 1 \in Ages /\ Ages = {0, 1, 2}
    BY DEF Ages
  <2>3. QED
    BY <1>3, <1>4, <2>1, <2>2
<1>8. QED
  BY <1>3, <1>5, <1>7

LEMMA CoverDelete ==
  ASSUME Inv, RowsCover, NEW w \in BusinessWallets, NEW ks \in SUBSET Ages,
         DeleteStation(w, ks)
  PROVE  RowsCover'
<1>1. /\ \A v \in Wallets \ {w} : paidIn'[v] = paidIn[v]
      /\ purged' = purged \cup {w} /\ UNCHANGED <<fresh, taking, unrowed, reversed>>
  BY DEF DeleteStation, intake, causes, Inv, TypeOK
<1>2. \A v \in Wallets : OwedTo(v)' = OwedTo(v) /\ Owed(v)' = Owed(v)
  BY <1>1 DEF OwedTo, Owed
<1>3. QED
  BY <1>1, <1>2 DEF RowsCover

(* A call that reads nothing new is promised what it was.                    *)
LEMMA PromisesQuiet ==
  ASSUME PromisesStand, RowsCover', UNCHANGED fresh,
         purged \subseteq purged', reversed \subseteq reversed', unchecked \subseteq unchecked',
         \A d \in Calls :
           \/ pc'[d] \notin {"balance", "check"} \cup Relying
           \/ pc'[d] = pc[d] /\ job'[d] = job[d] /\ seen'[d] = seen[d]
           \/ {pc[d], pc'[d]} \subseteq Relying /\ job'[d] = job[d] /\ seen'[d] = seen[d]
  PROVE  PromisesStand'
<1>1. ASSUME NEW d \in Calls, pc'[d] \in Relying, Business(d)', ~seen'[d].crossed,
             job'[d].wallet \notin unchecked' \cup purged' \cup reversed'
      PROVE  100 * job'[d].amount <= seen'[d].promised
  <2>1. pc[d] \in Relying /\ job'[d] = job[d] /\ seen'[d] = seen[d]
    BY <1>1
  <2>2. job[d].wallet \notin unchecked \cup purged \cup reversed
    BY <1>1, <2>1
  <2>3. QED
    BY <1>1, <2>1, <2>2 DEF PromisesStand, RecentIsHeldBack, Business
<1>2. ASSUME NEW d \in Calls, pc'[d] \in {"balance", "check"}, Business(d)', ~seen'[d].crossed,
             job'[d].wallet \notin purged' \cup reversed'
      PROVE  /\ pc'[d] = "balance" => SumOf(fresh'[job'[d].wallet]) <= seen'[d].recent
             /\ pc'[d] = "check" => seen'[d].allowance <= seen'[d].promised
  <2>1. pc'[d] = pc[d] /\ job'[d] = job[d] /\ seen'[d] = seen[d]
    BY <1>2 DEF Relying
  <2>2. job[d].wallet \notin purged \cup reversed
    BY <1>2, <2>1
  <2>3. QED
    BY <1>2, <2>1, <2>2 DEF PromisesStand, Business
<1>3. QED
  BY <1>1, <1>2 DEF PromisesStand, RecentIsHeldBack

(* A call that sums the rows while no payment owes one sums what was          *)
(* collected, at least; then it is promised as much as it allows itself.     *)
LEMMA ReadPromises ==
  ASSUME Inv, PromisesStand, NEW c \in Calls, ReadSum(c) \/ ReadBalance(c) \/ ReadFails(c)
  PROVE  PromisesStand'
<1> DEFINE w == job[c].wallet
<1>1. /\ job[c] \in Jobs /\ seen[c] \in Snapshots /\ w \in Wallets
      /\ UNCHANGED <<job, paidIn, fresh, taking, unrowed, purged, reversed, unchecked>>
  BY CallFacts DEF ReadSum, ReadBalance, ReadFails, Before, books, intake, history, causes,
                   windows, Inv, TypeOK
<1>2. RowsCover /\ RowsCover'
  BY <1>1, CoverKept DEF PromisesStand
<1>3. /\ \A d \in Calls \ {c} : pc'[d] = pc[d] /\ seen'[d] = seen[d]
      /\ pc'[c] \in {"balance", "check"}
  BY DEF ReadSum, ReadBalance, ReadFails, Goto, Inv, TypeOK
<1>4. /\ SumOf(paidIn[w]) \in Int /\ SumOf(paidOut[w]) \in Nat /\ SumOf(fresh[w]) \in Int
      /\ balance[w] \in Int /\ seen[c].recent \in Int
  BY <1>1, SumOfType DEF Inv, TypeOK, Snapshots
<1>5. (w \notin purged \cup reversed /\ ~Unrowed(w)) => SumOf(fresh[w]) <= Recent(w)
  <2> SUFFICES ASSUME w \notin purged \cup reversed, ~Unrowed(w)
               PROVE  SumOf(fresh[w]) <= Recent(w)
    OBVIOUS
  <2>1. 2 \in Ages
    BY DEF Ages
  <2>2. UpTo(fresh[w], 2) <= UpTo(paidIn[w], 2) + Owed(w)
    BY <1>1, <1>2, <2>1 DEF RowsCover
  <2>3. UpTo(fresh[w], 2) = SumOf(fresh[w]) /\ UpTo(paidIn[w], 2) = SumOf(paidIn[w])
    BY <1>1, UpToType DEF Inv, TypeOK
  <2>4. Owed(w) = 0
    BY <1>1, OwedFacts
  <2>5. QED
    BY <1>4, <2>2, <2>3, <2>4 DEF Recent
<1>6. (pc'[c] = "balance" /\ w \notin purged \cup reversed /\ ~seen'[c].crossed)
        => SumOf(fresh[w]) <= seen'[c].recent
  <2>1. CASE ReadSum(c)
    <3>1. seen'[c].recent = Recent(w) /\ seen'[c].crossed = Unrowed(w)
      BY <1>1, <2>1 DEF ReadSum, Inv, TypeOK, Snapshots
    <3>2. QED
      BY <1>5, <3>1
  <2>2. CASE ReadBalance(c) \/ ReadFails(c)
    BY <2>2 DEF ReadBalance, ReadFails, Goto, Inv, TypeOK
  <2>3. QED
    BY <2>1, <2>2
<1>7. (pc'[c] = "check" /\ Business(c) /\ w \notin purged \cup reversed /\ ~seen'[c].crossed)
        => seen'[c].allowance <= seen'[c].promised
  <2>1. CASE ReadSum(c)
    BY <2>1 DEF ReadSum, Goto, Inv, TypeOK
  <2>2. CASE ReadBalance(c)
    <3> DEFINE a == Withdrawable(balance[w], seen[c].recent)
               b == Withdrawable(balance[w], SumOf(fresh[w]))
               q == [seen[c] EXCEPT !.recent = 0, !.allowance = a, !.promised = b]
    <3>1. seen'[c] = q /\ pc[c] = "balance"
      BY <2>2 DEF ReadBalance, Inv, TypeOK
    <3>2. (Business(c) /\ w \notin purged \cup reversed /\ ~seen[c].crossed) => a <= b
      <4>1. (Business(c) /\ w \notin purged \cup reversed /\ ~seen[c].crossed)
              => SumOf(fresh[w]) <= seen[c].recent
        BY <3>1 DEF PromisesStand
      <4>2. QED
        BY <1>4, <4>1, WithdrawableOrder
    <3> HIDE DEF a, b
    <3>3. q.allowance = a /\ q.promised = b /\ q.crossed = seen[c].crossed
      BY <1>1 DEF Snapshots
    <3>4. QED
      BY <3>1, <3>2, <3>3
  <2>3. CASE ReadFails(c)
    BY <2>3 DEF ReadFails, Inv, TypeOK, NoSnapshot
  <2>4. QED
    BY <2>1, <2>2, <2>3
<1> HIDE DEF w
<1>8. RecentIsHeldBack'
  <2>1. \A d \in Calls : pc'[d] \in Relying => d # c
    BY <1>3 DEF Relying
  <2>2. QED
    BY <1>1, <1>3, <2>1 DEF PromisesStand, RecentIsHeldBack, Business
<1>9. ASSUME NEW d \in Calls, pc'[d] \in {"balance", "check"}, Business(d), ~seen'[d].crossed,
             job[d].wallet \notin purged \cup reversed
      PROVE  /\ pc'[d] = "balance" => SumOf(fresh[job[d].wallet]) <= seen'[d].recent
             /\ pc'[d] = "check" => seen'[d].allowance <= seen'[d].promised
  <2>1. CASE d = c
    BY <1>6, <1>7, <1>9, <2>1 DEF w
  <2>2. CASE d # c
    BY <1>3, <1>9, <2>2 DEF PromisesStand
  <2>3. QED
    BY <2>1, <2>2
<1>10. QED
  BY <1>1, <1>2, <1>8, <1>9 DEF PromisesStand, Business

LEMMA CheckPromises ==
  ASSUME Inv, PromisesStand, NEW c \in Calls, CheckFunds(c)
  PROVE  PromisesStand'
<1> DEFINE w == job[c].wallet  n == job[c].amount
<1>1. /\ pc[c] = "check" /\ job[c] \in Jobs /\ seen[c] \in Snapshots /\ n \in Int
      /\ UNCHANGED <<paidIn, fresh, taking, unrowed, purged, reversed>>
  BY CallFacts DEF CheckFunds, books, intake, windows, Before, Inv, TypeOK
<1>2. /\ \A d \in Calls \ {c} : pc'[d] = pc[d] /\ seen'[d] = seen[d] /\ job'[d] = job[d]
      /\ pc'[c] \in {"refused", "short", "initiate"}
      /\ pc'[c] = "initiate" => job'[c] = job[c] /\ seen' = [seen EXCEPT ![c].funds = balance[w]]
      /\ unchecked \subseteq unchecked'
  BY <1>1 DEF CheckFunds, GiveUp, End, Goto, Inv, TypeOK
<1>3. RowsCover'
  BY <1>1, CoverKept DEF PromisesStand
<1>4. (pc'[c] = "initiate" /\ w \notin unchecked') => 100 * n <= seen[c].allowance
  <2>1. seen[c].allowance \in Int
    BY <1>1 DEF Snapshots
  <2>2. CASE Goto(c, IF Short(c, balance[w]) THEN "short" ELSE "initiate")
    <3>1. pc'[c] = "initiate" => ~Short(c, balance[w])
      BY <2>2 DEF Goto, Inv, TypeOK
    <3>2. QED
      BY <1>1, <2>1, <3>1 DEF Short
  <2>3. CASE unchecked' = unchecked \cup {w}
    BY <2>3
  <2>4. CASE GiveUp(c, "refused")
    BY <2>4 DEF GiveUp, End, Inv, TypeOK
  <2>5. QED
    BY <2>2, <2>3, <2>4 DEF CheckFunds
<1>5. (pc'[c] = "initiate" /\ Business(c) /\ ~seen'[c].crossed
       /\ w \notin unchecked' \cup purged \cup reversed)
        => 100 * n <= seen'[c].promised
  <2>1. pc'[c] = "initiate" =>
          seen'[c].promised = seen[c].promised /\ seen'[c].crossed = seen[c].crossed
    BY <1>1, <1>2 DEF Inv, TypeOK, Snapshots
  <2>2. (Business(c) /\ ~seen[c].crossed /\ w \notin purged \cup reversed) =>
          seen[c].allowance <= seen[c].promised
    BY <1>1 DEF PromisesStand
  <2>3. seen[c].allowance \in Int /\ seen[c].promised \in Int /\ 100 * n \in Int
    BY <1>1 DEF Snapshots
  <2> HIDE DEF n, w
  <2>4. QED
    BY <1>4, <2>1, <2>2, <2>3
<1>6. RecentIsHeldBack'
  <2>1. ASSUME NEW d \in Calls, d # c, pc'[d] \in Relying, Business(d)', ~seen'[d].crossed,
               job'[d].wallet \notin unchecked' \cup purged' \cup reversed'
        PROVE  100 * job'[d].amount <= seen'[d].promised
    BY <1>1, <1>2, <2>1 DEF PromisesStand, RecentIsHeldBack, Business
  <2>2. pc'[c] \in Relying => pc'[c] = "initiate"
    BY <1>2 DEF Relying
  <2>3. QED
    BY <1>1, <1>2, <1>5, <2>1, <2>2 DEF RecentIsHeldBack, Business
<1>7. QED
  BY <1>1, <1>2, <1>3, <1>6 DEF PromisesStand, Business

LEMMA StartPromises ==
  ASSUME Inv, PromisesStand, NEW c \in Calls, NEW u \in Persons, NEW n \in Amounts,
         StartWithdraw(c, u, n)
  PROVE  PromisesStand'
<1>1. /\ UNCHANGED <<seen, paidIn, fresh, taking, unrowed, purged, reversed, unchecked>>
      /\ \A d \in Calls \ {c} : pc'[d] = pc[d] /\ job'[d] = job[d]
      /\ pc'[c] = IF WalletOf[u] \in BusinessWallets THEN "sum" ELSE "check"
      /\ job'[c].wallet = WalletOf[u]
  BY DEF StartWithdraw, Goto, books, intake, history, causes, windows, Inv, TypeOK
<1>2. RowsCover'
  BY <1>1, CoverKept DEF PromisesStand
<1>3. RecentIsHeldBack'
  BY <1>1 DEF PromisesStand, RecentIsHeldBack, Business, Relying
<1>4. QED
  BY <1>1, <1>2, <1>3 DEF PromisesStand, Business

(* The steps of calls and deliveries that read nothing new.                  *)
LEMMA OtherPromises ==
  ASSUME Inv, PromisesStand,
         \/ \E c \in Calls : Refuse(c) \/ Initiate(c) \/ Book(c) \/ BookFails(c) \/ Finish(c)
         \/ \E n \in Notices : \/ Deliver(n) \/ LookUp(n) \/ Drop(n) \/ Answer(n)
                               \/ Settle(n)
         \/ Crash
         \/ \E u \in Persons : DeleteUser(u)
         \/ UNCHANGED vars
  PROVE  PromisesStand'
<1>1. UNCHANGED <<paidIn, fresh, taking, unrowed, purged, reversed, unchecked>>
  BY DEF Refuse, Initiate, Book, BookFails, Finish, Deliver, LookUp, Drop, Answer, Settle,
         Crash, DeleteUser, vars, books, intake, history, causes, windows
<1>2. RowsCover'
  BY <1>1, CoverKept DEF PromisesStand
<1>3. ASSUME NEW c \in Calls, Refuse(c) \/ Initiate(c) \/ Book(c) \/ BookFails(c)
      PROVE  PromisesStand'
  <2>1. /\ \A d \in Calls \ {c} : pc'[d] = pc[d] /\ seen'[d] = seen[d] /\ job'[d] = job[d]
        /\ \/ pc'[c] \in {"refused", "failed", "ok"}
           \/ pc[c] = "initiate" /\ pc'[c] = "book" /\ seen'[c] = seen[c] /\ job'[c] = job[c]
    BY <1>3 DEF Refuse, Initiate, Book, BookFails, GiveUp, End, Goto, Inv, TypeOK
  <2>2. QED
    BY <1>1, <1>2, <2>1, PromisesQuiet DEF Relying
<1>4. CASE \/ \E c \in Calls : Finish(c)
           \/ \E n \in Notices : \/ Deliver(n) \/ LookUp(n) \/ Drop(n) \/ Answer(n)
                                 \/ Settle(n)
           \/ \E u \in Persons : DeleteUser(u)
           \/ UNCHANGED vars
  <2>1. UNCHANGED <<job, pc, seen>>
    BY <1>4 DEF Finish, Deliver, LookUp, Drop, Answer, Settle, DeleteUser, vars, call
  <2>2. QED
    BY <1>1, <1>2, <2>1, PromisesQuiet
<1>5. CASE Crash
  <2>1. \A d \in Calls : pc'[d] \in {"idle"} \cup Answers
    BY <1>5 DEF Crash, Inv, TypeOK, Answers, Before
  <2>2. QED
    BY <1>1, <1>2, <2>1, PromisesQuiet DEF Relying, Answers
<1>6. QED
  BY <1>3, <1>4, <1>5

LEMMA CollectPromises ==
  ASSUME Inv, PromisesStand, NEW k \in Payments, NEW w \in BusinessWallets, NEW n \in Takings,
         Collect(k, w, n)
  PROVE  PromisesStand'
<1>1. /\ w \in Wallets
      /\ fresh' = [fresh EXCEPT ![w][0] = @ + n]
      /\ seen' = [c \in Calls |-> IF pc[c] = "balance" /\ job[c].wallet = w
                                  THEN [seen[c] EXCEPT !.crossed = TRUE] ELSE seen[c]]
      /\ reversed \subseteq reversed'
      /\ UNCHANGED <<pc, job, purged, unchecked>>
  BY DEF Collect
<1>2. \A v : v # w => fresh'[v] = fresh[v]
  BY <1>1 DEF Inv, TypeOK
<1>3. RowsCover'
  BY CoverCollect DEF PromisesStand
<1>4. \A c \in Calls :
        /\ pc[c] = "balance" /\ job[c].wallet = w => seen'[c].crossed
        /\ ~(pc[c] = "balance" /\ job[c].wallet = w) => seen'[c] = seen[c]
  BY <1>1 DEF Inv, TypeOK, Snapshots
<1>5. RecentIsHeldBack'
  BY <1>1, <1>4 DEF PromisesStand, RecentIsHeldBack, Business, Relying
<1>6. ASSUME NEW c \in Calls, pc[c] \in {"balance", "check"}, Business(c), ~seen'[c].crossed,
             job[c].wallet \notin purged \cup reversed'
      PROVE  /\ pc[c] = "balance" => SumOf(fresh'[job[c].wallet]) <= seen'[c].recent
             /\ pc[c] = "check" => seen'[c].allowance <= seen'[c].promised
  <2>1. seen'[c] = seen[c] /\ (pc[c] = "balance" => job[c].wallet # w)
    BY <1>4, <1>6
  <2>2. job[c].wallet \notin purged \cup reversed
    BY <1>1, <1>6
  <2>3. QED
    BY <1>2, <1>6, <2>1, <2>2 DEF PromisesStand
<1>7. QED
  BY <1>1, <1>3, <1>5, <1>6 DEF PromisesStand, Business

LEMMA PurgePromises ==
  ASSUME Inv, PromisesStand,
         \/ \E k \in Payments : WriteRow(k)
         \/ \E w \in BusinessWallets, ks \in SUBSET Ages : DeleteStation(w, ks)
  PROVE  PromisesStand'
<1>1. RowsCover'
  BY CoverWriteRow, CoverDelete DEF PromisesStand
<1>2. /\ UNCHANGED <<pc, job, seen, fresh, reversed, unchecked>>
      /\ purged \subseteq purged'
  BY DEF WriteRow, DeleteStation, call, history, causes, windows
<1>3. QED
  BY <1>1, <1>2, PromisesQuiet

LEMMA NextDayPromises == ASSUME Inv, PromisesStand, NextDay PROVE PromisesStand'
<1>1. /\ fresh' = Older(fresh)
      /\ UNCHANGED <<pc, job, seen, purged, reversed, unchecked>>
  BY DEF NextDay, call, causes
<1>2. RowsCover /\ RowsCover'
  BY CoverNextDay DEF PromisesStand
<1>3. RecentIsHeldBack'
  BY <1>1 DEF PromisesStand, RecentIsHeldBack, Business
<1>4. ASSUME NEW c \in Calls, pc[c] = "balance", job[c].wallet \notin purged \cup reversed,
             SumOf(fresh[job[c].wallet]) <= seen[c].recent
      PROVE  SumOf(fresh'[job[c].wallet]) <= seen[c].recent
  <2> DEFINE w == job[c].wallet
  <2>1. w \in Wallets /\ seen[c].recent \in Int /\ fresh \in [Wallets -> [Ages -> Int]]
    BY <1>4, CallFacts DEF Inv, TypeOK, Snapshots, Before
  <2>2. SumOf(fresh'[w]) = fresh[w][0] + fresh[w][1]
    BY <1>1, <2>1, UpToOlder DEF UpTo
  <2>3. fresh[w][2] >= 0
    BY <1>2, <1>4, <2>1 DEF RowsCover, Ages
  <2>4. \A a \in Ages : fresh[w][a] \in Int
    BY <2>1
  <2>5. QED
    BY <1>4, <2>1, <2>2, <2>3, <2>4 DEF SumOf, Ages
<1>5. QED
  BY <1>1, <1>2, <1>3, <1>4 DEF PromisesStand, Business

LEMMA PromisesStep == ASSUME Inv, PromisesStand, [Next]_vars PROVE PromisesStand'
BY NextCases, StartPromises, ReadPromises, CheckPromises, OtherPromises,
   CollectPromises, PurgePromises, NextDayPromises

(* The inductive invariant of Withdrawals, with its types: what a call that  *)
(* nobody overlapped has read of its wallet still holds when it is booked.   *)
THEOREM WithdrawalsStandHolds == Spec => [](TypeOK /\ WithdrawalsStand)
<1>1. Inv => TypeOK /\ WithdrawalsStand
  BY DEF Inv
<1>2. QED
  BY <1>1, InitHolds, StepKeeps, PTL DEF Spec

(* TypeOK of Withdrawals: every variable keeps its type.                     *)
THEOREM TypeCorrect == Spec => []TypeOK
BY WithdrawalsStandHolds, PTL

(* RecentIsHeldBack: what a business withdraws leaves the service fee and the *)
(* last two days' money in the wallet, but for the named ways round it; a     *)
(* payment may move its money long before it writes its row.                  *)
THEOREM RecentMoneyStays == Spec => []RecentIsHeldBack
<1>1. Init => PromisesStand
  <2> SUFFICES ASSUME Init PROVE PromisesStand
    OBVIOUS
  <2>1. RowsCover
    <3>1. /\ fresh = [w \in Wallets |-> [k \in Ages |-> 0]] /\ unrowed = {} /\ paidIn = fresh
      BY DEF Init
    <3>2. \A w \in Wallets : \A k \in Payments : OwedTo(w)[k] = 0
      BY <3>1 DEF OwedTo
    <3>3. \A w \in Wallets : Owed(w) = 0
      BY <3>2, SumOfZeros, FiniteAssumption DEF Owed
    <3>4. \A w \in Wallets : \A k \in Ages : UpTo(fresh[w], k) = 0 /\ fresh[w][k] = 0
      BY <3>1 DEF UpTo, SumOf, Ages
    <3>5. QED
      BY <3>1, <3>2, <3>3, <3>4 DEF RowsCover
  <2>2. QED
    BY <2>1 DEF Init, PromisesStand, RecentIsHeldBack, Relying
<1>2. PromisesStand => RecentIsHeldBack
  BY DEF PromisesStand
<1>3. QED
  BY <1>1, <1>2, InitHolds, StepKeeps, PromisesStep, PTL DEF Spec

(* Withdrawals overdraw a wallet, beyond the processor's fees, only if one   *)
(* was let through unchecked, two overlapped, or a payment of a negative     *)
(* amount took from it.                                                      *)
THEOREM NoOverdraftAlone == Spec => []OverdraftHasCause
<1>1. Inv => OverdraftHasCause
  BY DEF Inv, WithdrawalsStand
<1>2. QED
  BY <1>1, InitHolds, StepKeeps, PTL DEF Spec

(* A row is final exactly when a webhook changed the wallet, and then it     *)
(* says how a transfer of its reference ended.                               *)
THEOREM RowsTellOfTransfers == Spec => []RowsMatchTransfers
<1>1. Inv => RowsMatchTransfers
  BY DEF Inv, WithdrawalsStand, RowsStand
<1>2. QED
  BY <1>1, InitHolds, StepKeeps, PTL DEF Spec

(* PaidOutIsDebited: what the processor has paid out is debited and not given *)
(* back, but for a fault between transfer and debit, a deleted account, and   *)
(* a call of the same millisecond: through what each delivery finds by the    *)
(* reference, in whatever order rows, transfers and deliveries come.          *)
THEOREM PaidOutAreDebited == Spec => []PaidOutIsDebited
<1>1. Inv => PaidOutIsDebited
  <2> SUFFICES ASSUME Inv, NEW c \in Calls, transfer[c] = "SUCCESSFUL", pc[c] # "book"
               PROVE  IF row[c] = "none"
                      THEN \/ c \in cut \/ job[c].user \in gone
                           \/ \E d \in Twins(c) : row[d] # "none"
                      ELSE \/ refunds[c] = 0
                           \/ \E d \in Twins(c) : transfer[d] = "FAILED"
    BY DEF PaidOutIsDebited
  <2>1. CASE row[c] = "none"
    BY <2>1 DEF Inv, WithdrawalsStand, RowsStand, RowlessHaveCause
  <2>2. CASE row[c] # "none" /\ refunds[c] # 0
    <3>1. refunds[c] > 0
      BY <2>2 DEF Inv, TypeOK
    <3>2. PICK d \in {c} \cup Twins(c) : transfer[d] = "FAILED"
      BY <3>1 DEF Inv, WithdrawalsStand, RowsStand, RefundsHaveCause
    <3>3. QED
      BY <2>2, <3>2
  <2>3. QED
    BY <2>1, <2>2
<1>2. QED
  BY <1>1, InitHolds, StepKeeps, PTL DEF Spec
-------------------------------------------------------------------------------
(* BalanceIsBooked: a step that changes no wallet leaves the rows that have  *)
(* one, their jobs, refunds and charges alone.                               *)
LEMMA StepFacts ==
  ASSUME Inv, [Next]_vars
  PROVE  \/ \E c \in Calls : Book(c)
         \/ \E n \in Notices : Settle(n)
         \/ \E k \in Payments, w \in BusinessWallets, n \in Takings : Collect(k, w, n)
         \/ /\ UNCHANGED <<balance, collected, row, refunds, charges>>
            /\ \A c \in Calls : row[c] # "none" => job'[c] = job[c]
<1>1. \A c \in Calls : row[c] # "none" => pc[c] \notin {"idle"} \cup Before
  BY CallFacts
<1>2. ASSUME NEW c \in Calls, NEW u \in Persons, NEW n \in Amounts, StartWithdraw(c, u, n)
      PROVE  /\ UNCHANGED <<balance, collected, row, refunds, charges>>
             /\ \A d \in Calls : row[d] # "none" => job'[d] = job[d]
  BY <1>1, <1>2 DEF StartWithdraw, books, intake, history, told, Inv, TypeOK
<1>3. ASSUME NEW c \in Calls, Refuse(c) \/ CheckFunds(c) \/ Initiate(c)
      PROVE  /\ UNCHANGED <<balance, collected, row, refunds, charges>>
             /\ \A d \in Calls : row[d] # "none" => job'[d] = job[d]
  <2>1. pc[c] \in Before /\ (job' = job \/ job' = [job EXCEPT ![c] = NoJob])
    BY <1>3 DEF Refuse, CheckFunds, Initiate, GiveUp, Before
  <2>2. \A d \in Calls : row[d] # "none" => job'[d] = job[d]
    BY <1>1, <2>1 DEF Inv, TypeOK
  <2>3. QED
    BY <1>3, <2>2 DEF Refuse, CheckFunds, Initiate, books, intake, history, told
<1>4. ASSUME Crash
      PROVE  /\ UNCHANGED <<balance, collected, row, refunds, charges>>
             /\ \A d \in Calls : row[d] # "none" => job'[d] = job[d]
  BY <1>1, <1>4 DEF Crash, books, intake, told
<1>5. ASSUME \/ \E c \in Calls : ReadSum(c) \/ ReadBalance(c) \/ ReadFails(c) \/ BookFails(c)
                                 \/ Finish(c)
             \/ \E n \in Notices : Deliver(n) \/ LookUp(n) \/ Drop(n) \/ Answer(n)
             \/ \E k \in Payments : WriteRow(k)
             \/ \E w \in BusinessWallets, ks \in SUBSET Ages : DeleteStation(w, ks)
             \/ \E u \in Persons : DeleteUser(u)
             \/ NextDay \/ UNCHANGED vars
      PROVE  UNCHANGED <<balance, collected, row, refunds, charges, job>>
  BY <1>5 DEF ReadSum, ReadBalance, ReadFails, BookFails, Finish, Deliver, LookUp, Drop,
              Answer, WriteRow, DeleteStation, DeleteUser, NextDay, vars, books, call, intake,
              history, told
<1>6. QED
  BY <1>2, <1>3, <1>4, <1>5, NextCases

LEMMA DrawnType ==
  ASSUME Inv, NEW w \in Wallets, NEW c \in Calls
  PROVE  Drawn(w)[c] \in Int
<1> DEFINE n == job[c].amount
<1>1. CASE row[c] = "none"
  BY <1>1 DEF Drawn
<1>2. CASE row[c] # "none"
  <2>1. n \in Int /\ refunds[c] \in Int /\ charges[c] \in Int /\ Fee \in Int
    BY <1>2, CallFacts DEF Inv, TypeOK
  <2>2. Drawn(w)[c] = IF job[c].wallet # w THEN 0 ELSE n + charges[c] * Fee - refunds[c] * n
    BY <1>2 DEF Drawn
  <2> HIDE DEF n
  <2>3. charges[c] * Fee \in Int /\ refunds[c] * n \in Int
    BY <2>1
  <2>4. QED
    BY <2>1, <2>2, <2>3
<1>3. QED
  BY <1>1, <1>2

LEMMA BookedKept ==
  ASSUME Inv, BalanceIsBooked, [Next]_vars
  PROVE  BalanceIsBooked'
<1> SUFFICES ASSUME NEW w \in Wallets
             PROVE  balance'[w] = Opening[w] + collected'[w]
                                   - SumFunctionOnSet(Drawn(w), Calls)'
  BY DEF BalanceIsBooked
<1> DEFINE f == Drawn(w)
           g == [c \in Calls |-> IF row'[c] = "none" \/ job'[c].wallet # w THEN 0
                                 ELSE job'[c].amount + charges'[c] * Fee
                                      - refunds'[c] * job'[c].amount]
           Out(h) == SumFunctionOnSet(h, Calls)
<1>1. SumFunctionOnSet(Drawn(w), Calls)' = Out(g)
  BY DEF Drawn
<1>2. balance[w] = Opening[w] + collected[w] - Out(f)
  BY DEF BalanceIsBooked
<1>3. \A c \in Calls : f[c] \in Int
  BY DrawnType
<1>4. ASSUME NEW c \in Calls, row'[c] = row[c], refunds'[c] = refunds[c],
             charges'[c] = charges[c], row[c] # "none" => job'[c] = job[c]
      PROVE  g[c] = f[c]
  BY <1>4 DEF Drawn
<1>5. /\ balance \in [Wallets -> Int] /\ collected \in [Wallets -> Int]
      /\ row \in [Calls -> Statuses] /\ refunds \in [Calls -> Nat] /\ charges \in [Calls -> Nat]
      /\ Opening[w] \in Int
  BY DEF Inv, TypeOK
<1>6. Out(f) \in Int
  <2> HIDE DEF f
  <2>1. QED
    BY <1>3, SumType, FiniteAssumption
<1>7. ASSUME \A c \in Calls : g[c] = f[c]
      PROVE  Out(g) = Out(f)
  <2> HIDE DEF f, g
  <2>1. QED
    BY <1>7, SumsAgree, FiniteAssumption
<1>8. ASSUME NEW c \in Calls, g[c] \in Int, \A d \in Calls \ {c} : g[d] = f[d]
      PROVE  Out(g) = Out(f) + (g[c] - f[c])
  <2> HIDE DEF f, g
  <2>1. QED
    BY <1>3, <1>8, SumChanges, FiniteAssumption
<1>9. CASE /\ UNCHANGED <<balance, collected, row, refunds, charges>>
           /\ \A c \in Calls : row[c] # "none" => job'[c] = job[c]
  <2>1. Out(g) = Out(f)
    BY <1>4, <1>7, <1>9
  <2>2. QED
    BY <1>1, <1>2, <1>9, <2>1
<1>10. ASSUME NEW k \in Payments, NEW v \in BusinessWallets, NEW n \in Takings, Collect(k, v, n)
       PROVE  balance'[w] = Opening[w] + collected'[w] - Out(g)
  <2>1. /\ collected' = [collected EXCEPT ![v] = @ + n]
        /\ balance' = [balance EXCEPT ![v] = @ + n]
        /\ UNCHANGED <<row, refunds, charges, job>> /\ n \in Int
    BY <1>10 DEF Collect, told
  <2>2. Out(g) = Out(f)
    BY <1>4, <1>7, <2>1
  <2> HIDE DEF f, g, Out
  <2>3. QED
    BY <1>2, <1>5, <1>6, <2>1, <2>2
<1>11. ASSUME NEW c \in Calls, Book(c)
       PROVE  balance'[w] = Opening[w] + collected'[w] - Out(g)
  <2> DEFINE n == job[c].amount
  <2>1. /\ pc[c] = "book" /\ UNCHANGED <<job, collected, refunds, charges>>
        /\ balance' = [balance EXCEPT ![job[c].wallet] = @ - n]
        /\ row' = [row EXCEPT ![c] = "PENDING"]
    BY <1>11 DEF Book, Debited, intake, told
  <2>2. row[c] = "none" /\ job[c].wallet \in Wallets /\ n \in Int
    BY <2>1, CallFacts DEF Inv, WithdrawalsStand, CallsStand, Relying
  <2>3. refunds[c] = 0 /\ charges[c] = 0
    <3>1. row[c] \notin Final
      BY <2>2 DEF Final
    <3>2. ~(refunds[c] + charges[c] > 0) /\ refunds[c] \in Nat /\ charges[c] \in Nat
      BY <1>5, <3>1 DEF Inv, WithdrawalsStand, RowsStand, RowsMatchTransfers
    <3>3. QED
      BY <3>2
  <2>4. f[c] = 0
    BY <2>2 DEF Drawn
  <2>5. g[c] = IF job[c].wallet = w THEN n + 0 * Fee - 0 * n ELSE 0
    <3>1. row'[c] = "PENDING"
      BY <1>5, <2>1
    <3>2. QED
      BY <2>1, <2>3, <3>1
  <2>6. \A d \in Calls \ {c} : g[d] = f[d]
    BY <1>4, <1>5, <2>1
  <2> HIDE DEF f, g, Out, n
  <2>7. 0 * Fee = 0 /\ 0 * n = 0
    BY <2>2
  <2>8. g[c] = (IF job[c].wallet = w THEN n ELSE 0) /\ g[c] \in Int
    BY <2>2, <2>5, <2>7
  <2>9. balance'[w] = balance[w] - (IF job[c].wallet = w THEN n ELSE 0)
    BY <1>5, <2>1, <2>2
  <2>10. Out(g) = Out(f) + (g[c] - f[c])
    BY <1>8, <2>6, <2>8
  <2>11. QED
    BY <1>2, <1>5, <1>6, <2>1, <2>2, <2>4, <2>8, <2>9, <2>10
<1>12. ASSUME NEW n \in Notices, Settle(n)
       PROVE  balance'[w] = Opening[w] + collected'[w] - Out(g)
  <2>1. PICK d \in Calls :
          /\ row[d] # "none" /\ row'[d] # "none" /\ UNCHANGED <<job, collected>>
          /\ \A e \in Calls \ {d} : row'[e] = row[e]
          /\ \/ /\ balance' = [balance EXCEPT ![job[d].wallet] = @ + job[d].amount]
                /\ refunds' = [refunds EXCEPT ![d] = @ + 1] /\ charges' = charges
             \/ /\ balance' = [balance EXCEPT ![job[d].wallet] = @ - Fee]
                /\ charges' = [charges EXCEPT ![d] = @ + 1] /\ refunds' = refunds
    BY <1>5, <1>12, SettleFacts DEF Final
  <2> DEFINE a == job[d].amount  r == refunds[d]  k == charges[d]
  <2>2. /\ job[d].wallet \in Wallets /\ a \in Int /\ Fee \in Int /\ r \in Int /\ k \in Int
    BY <1>5, <2>1, CallFacts
  <2>3. f[d] = IF job[d].wallet = w THEN a + k * Fee - r * a ELSE 0
    BY <2>1 DEF Drawn
  <2>4. \A e \in Calls \ {d} : g[e] = f[e]
    BY <1>4, <1>5, <2>1
  <2>5. /\ k * Fee \in Int /\ r * a \in Int
        /\ (r + 1) * a = r * a + a /\ (k + 1) * Fee = k * Fee + Fee
    <3> HIDE DEF a, r, k
    <3>1. QED
      BY <2>2
  <2>6. CASE /\ balance' = [balance EXCEPT ![job[d].wallet] = @ + a]
             /\ refunds' = [refunds EXCEPT ![d] = @ + 1] /\ charges' = charges
    <3>1. g[d] = IF job[d].wallet = w THEN a + k * Fee - (r + 1) * a ELSE 0
      BY <1>5, <2>1, <2>6
    <3>2. balance'[w] = balance[w] + (IF job[d].wallet = w THEN a ELSE 0)
      BY <1>5, <2>2, <2>6
    <3> HIDE DEF f, g, Out, a, r, k
    <3>3. g[d] \in Int /\ f[d] \in Int /\ g[d] - f[d] = IF job[d].wallet = w THEN -a ELSE 0
      BY <2>2, <2>3, <2>5, <3>1
    <3>4. Out(g) = Out(f) + (g[d] - f[d])
      BY <1>8, <2>4, <3>3
    <3>5. QED
      BY <1>2, <1>5, <1>6, <2>1, <2>2, <3>2, <3>3, <3>4
  <2>7. CASE /\ balance' = [balance EXCEPT ![job[d].wallet] = @ - Fee]
             /\ charges' = [charges EXCEPT ![d] = @ + 1] /\ refunds' = refunds
    <3>1. g[d] = IF job[d].wallet = w THEN a + (k + 1) * Fee - r * a ELSE 0
      BY <1>5, <2>1, <2>7
    <3>2. balance'[w] = balance[w] - (IF job[d].wallet = w THEN Fee ELSE 0)
      BY <1>5, <2>2, <2>7
    <3> HIDE DEF f, g, Out, a, r, k
    <3>3. g[d] \in Int /\ f[d] \in Int /\ g[d] - f[d] = IF job[d].wallet = w THEN Fee ELSE 0
      BY <2>2, <2>3, <2>5, <3>1
    <3>4. Out(g) = Out(f) + (g[d] - f[d])
      BY <1>8, <2>4, <3>3
    <3>5. QED
      BY <1>2, <1>5, <1>6, <2>1, <2>2, <3>2, <3>3, <3>4
  <2>8. QED
    BY <2>1, <2>6, <2>7
<1>13. QED
  BY <1>1, <1>9, <1>10, <1>11, <1>12, StepFacts

(* A wallet holds what it opened with and collected, less what the calls     *)
(* with a row have drawn from it, however often the webhooks came.           *)
THEOREM BalancesAreBooked == Spec => []BalanceIsBooked
<1>1. Init => BalanceIsBooked
  <2> SUFFICES ASSUME Init, NEW w \in Wallets
               PROVE  balance[w] = Opening[w] + collected[w]
                                    - SumFunctionOnSet(Drawn(w), Calls)
    BY DEF BalanceIsBooked
  <2>1. \A c \in Calls : Drawn(w)[c] = 0
    BY DEF Init, Drawn
  <2>2. SumFunctionOnSet(Drawn(w), Calls) = 0
    BY <2>1, SumOfZeros, FiniteAssumption
  <2>3. Opening[w] \in Int
    OBVIOUS
  <2>4. QED
    BY <2>2, <2>3 DEF Init
<1>2. Inv /\ BalanceIsBooked /\ [Next]_vars => BalanceIsBooked'
  BY BookedKept
<1>3. QED
  BY <1>1, <1>2, InitHolds, StepKeeps, PTL DEF Spec
-------------------------------------------------------------------------------
(* Banks.                                                                    *)
BanksInv == BanksTypeOK /\ BanksStand

HIDE WithdrawalAssumption
USE BanksAssumption

LEMMA BanksNextCases ==
  ASSUME [BanksNext]_banksVars
  PROVE  \/ \E a \in Admins, b \in Banks : WriteBank(a, b)
         \/ \E a \in Admins, b \in Banks : UploadBank(a, b)
         \/ \E a \in Admins, b \in Banks : SkipBank(a, b)
         \/ \E a \in Admins, bs \in SUBSET Banks : Upload(a, bs)
         \/ \E a \in Admins : ListRows(a)
         \/ \E a \in Admins : SetCache(a)
         \/ \E a \in Admins : AdminFails(a)
         \/ Expire
         \/ \E c \in Clients : GetBanks(c)
         \/ \E r \in Requests, c \in Clients, n \in Numbers : \E e \in shown[c] :
              AddBankAccount(r, c, e, n)
         \/ \E r \in Requests : MissCache(r)
         \/ \E r \in Requests : HitCache(r)
         \/ \E r \in Requests : ReadOwner(r)
         \/ \E r \in Requests : Lookup(r)
         \/ \E r \in Requests : AskFails(r)
         \/ \E r \in Requests : Save(r)
         \/ UNCHANGED banksVars
  BY DEF BanksNext

(* The list of the rows is a list, and says of each bank its own slug.       *)
LEMMA RowsListed ==
  ASSUME BanksTypeOK
  PROVE  /\ Rows \in Lists
         /\ \A e \in Rows : e.slug = e.of
<1>1. \A b \in Banks : Entry(b) \in Entries /\ Entry(b).slug = Entry(b).of
  BY DEF BanksTypeOK, Entry, Entries
<1>2. QED
  BY <1>1 DEF Rows, Lists

(* A step that leaves the clients and their accounts alone keeps what is     *)
(* said of them.                                                             *)
LEMMA ClientsKept ==
  ASSUME BanksStand, UNCHANGED clients
  PROVE  PickedIsStored' /\ NamesMatch' /\ PicksStand' /\ AsksStand'
  BY DEF BanksStand, PickedIsStored, NamesMatch, PicksStand, AsksStand, IsExempt, Wanted,
         clients

(* A step that leaves rows, cache and admins alone keeps what is said of     *)
(* the lists.                                                                *)
LEMMA StoreKept ==
  ASSUME BanksStand, UNCHANGED <<bank, store, admins, flaws>>
  PROVE  StaleListHasCause' /\ ListsStand'
<1>1. Rows' = Rows
  BY DEF Rows, Entry
<1>2. QED
  BY <1>1 DEF BanksStand, StaleListHasCause, ListsStand, store, admins

(* A row is written by an admin whose request goes on.                       *)
LEMMA WrittenKeeps ==
  ASSUME BanksInv, NEW a \in Admins, NEW b \in Banks, Write(a, b), UNCHANGED <<store, flaws>>,
         apc' = [apc EXCEPT ![a] = apc'[a]], apc'[a] \in {"list", "upload"},
         list' = [list EXCEPT ![a] = list'[a]], \A e \in list'[a] : e.slug = e.of
  PROVE  StaleListHasCause' /\ ListsStand'
<1>1. StaleListHasCause'
  BY DEF StaleListHasCause
<1>2. ASSUME NEW x \in Admins, apc'[x] = "set", x \notin behind' PROVE FALSE
  <2>1. x # a
    BY <1>2
  <2>2. apc[x] = "set"
    BY <1>2, <2>1 DEF BanksInv, BanksTypeOK
  <2>3. QED
    BY <1>2, <2>1, <2>2 DEF Write
<1>3. \A x \in Admins : \A e \in list'[x] : e.slug = e.of
  BY DEF BanksInv, BanksTypeOK, BanksStand, ListsStand
<1>4. QED
  BY <1>1, <1>2, <1>3 DEF BanksInv, BanksStand, ListsStand, store

LEMMA WriteBankKeeps ==
  ASSUME BanksInv, NEW a \in Admins, NEW b \in Banks, WriteBank(a, b)
  PROVE  BanksInv'
<1>1. BanksTypeOK'
  BY DEF WriteBank, Write, BanksInv, BanksTypeOK, store, clients
<1>2. apc' = [apc EXCEPT ![a] = apc'[a]] /\ apc'[a] = "list"
  BY DEF WriteBank, BanksInv, BanksTypeOK
<1>3. list' = [list EXCEPT ![a] = list'[a]] /\ \A e \in list'[a] : e.slug = e.of
  BY DEF WriteBank, BanksInv, BanksTypeOK, BanksStand, ListsStand
<1>4. StaleListHasCause' /\ ListsStand'
  BY <1>2, <1>3, WrittenKeeps DEF WriteBank
<1>5. QED
  BY <1>1, <1>4, ClientsKept DEF WriteBank, BanksInv, BanksStand

LEMMA UploadBankKeeps ==
  ASSUME BanksInv, NEW a \in Admins, NEW b \in Banks, UploadBank(a, b)
  PROVE  BanksInv'
<1> DEFINE e == [Entry(b) EXCEPT !.version = @ + 1]
<1>1. e \in Entries /\ e.slug = e.of
  BY DEF Entry, Entries, BanksInv, BanksTypeOK
<1>2. list' = [list EXCEPT ![a] = @ \cup {e}]
  BY DEF UploadBank
<1> HIDE DEF e
<1>3. list' \in [Admins -> Lists]
  BY <1>1, <1>2 DEF BanksInv, BanksTypeOK, Lists
<1>4. BanksTypeOK'
  BY <1>3 DEF UploadBank, Write, BanksInv, BanksTypeOK, store, clients
<1>5. apc' = [apc EXCEPT ![a] = apc'[a]] /\ apc'[a] = "upload"
  BY DEF UploadBank, BanksInv, BanksTypeOK
<1>6. list' = [list EXCEPT ![a] = list'[a]] /\ \A x \in list'[a] : x.slug = x.of
  BY <1>1, <1>2 DEF BanksInv, BanksTypeOK, BanksStand, ListsStand
<1>7. StaleListHasCause' /\ ListsStand'
  BY <1>5, <1>6, WrittenKeeps DEF UploadBank
<1>8. QED
  BY <1>4, <1>7, ClientsKept DEF UploadBank, BanksInv, BanksStand

LEMMA SkipBankKeeps ==
  ASSUME BanksInv, NEW a \in Admins, NEW b \in Banks, SkipBank(a, b)
  PROVE  BanksInv'
<1>1. BanksTypeOK'
  BY DEF SkipBank, BanksInv, BanksTypeOK, store, clients
<1>2. Rows' = Rows
  BY DEF SkipBank, Rows, Entry
<1>3. StaleListHasCause' /\ ListsStand'
  BY <1>2 DEF SkipBank, BanksInv, BanksStand, StaleListHasCause, ListsStand, store
<1>4. QED
  BY <1>1, <1>3, ClientsKept DEF SkipBank, BanksInv, BanksStand

LEMMA UploadKeeps ==
  ASSUME BanksInv, NEW a \in Admins, NEW bs \in SUBSET Banks, Upload(a, bs)
  PROVE  BanksInv'
<1>1. BanksTypeOK'
  <2>1. file' \in [Admins -> SUBSET Banks] /\ list' \in [Admins -> Lists]
    BY DEF Upload, BanksInv, BanksTypeOK, Lists
  <2>2. apc' \in [Admins -> {"idle", "upload", "list", "set"}]
    BY DEF Upload, BanksInv, BanksTypeOK
  <2>3. QED
    BY <2>1, <2>2 DEF Upload, BanksInv, BanksTypeOK, store, clients, counts
<1>2. apc'[a] = "upload" /\ list'[a] = {}
  BY DEF Upload, BanksInv, BanksTypeOK
<1>3. \A x \in Admins \ {a} : apc'[x] = apc[x] /\ list'[x] = list[x]
  BY DEF Upload, BanksInv, BanksTypeOK
<1>4. Rows' = Rows
  BY DEF Upload, Rows, Entry
<1>5. StaleListHasCause'
  BY <1>2 DEF StaleListHasCause
<1>6. ListsStand'
  BY <1>2, <1>3, <1>4 DEF Upload, BanksInv, BanksStand, ListsStand, store
<1>7. QED
  BY <1>1, <1>5, <1>6, ClientsKept DEF Upload, BanksInv, BanksStand

LEMMA ListRowsKeeps ==
  ASSUME BanksInv, NEW a \in Admins, ListRows(a)
  PROVE  BanksInv'
<1>1. BanksTypeOK'
  BY RowsListed DEF ListRows, BanksInv, BanksTypeOK, store, clients, counts
<1>2. apc'[a] = "set" /\ list'[a] = Rows
  BY DEF ListRows, BanksInv, BanksTypeOK
<1>3. \A x \in Admins \ {a} : /\ apc'[x] = apc[x] /\ list'[x] = list[x]
                              /\ x \in behind' <=> x \in behind
  BY DEF ListRows, BanksInv, BanksTypeOK
<1>4. Rows' = Rows
  BY DEF ListRows, Rows, Entry
<1>5. StaleListHasCause'
  BY <1>2 DEF StaleListHasCause
<1>6. \A x \in Admins : apc'[x] = "set" /\ x \notin behind' => list'[x] = Rows
  BY <1>2, <1>3 DEF BanksInv, BanksStand, ListsStand
<1>7. \A x \in Admins : \A e \in list'[x] : e.slug = e.of
  BY <1>2, <1>3, RowsListed DEF BanksInv, BanksStand, ListsStand
<1>8. ListsStand'
  BY <1>4, <1>6, <1>7 DEF ListRows, BanksInv, BanksStand, ListsStand, store
<1>9. QED
  BY <1>1, <1>5, <1>8, ClientsKept DEF ListRows, BanksInv, BanksStand

LEMMA SetCacheKeeps ==
  ASSUME BanksInv, NEW a \in Admins, SetCache(a)
  PROVE  BanksInv'
<1>0. /\ cached' = TRUE /\ cache' = list[a]
      /\ flaws' = (IF a \in behind THEN {"late"} ELSE {})
                  \cup (IF apc[a] = "upload" THEN {"partial"} ELSE {})
      /\ apc' = [apc EXCEPT ![a] = "idle"] /\ list' = [list EXCEPT ![a] = {}]
      /\ behind' = behind \ {a} /\ UNCHANGED <<bank, file, clients, counts>>
      /\ apc[a] \in {"set", "upload"}
  BY DEF SetCache, Cache
<1>1. BanksTypeOK'
  <2>1. list' \in [Admins -> Lists] /\ cache' \in Lists
    BY <1>0 DEF BanksInv, BanksTypeOK, Lists
  <2>2. flaws' \subseteq {"late", "partial", "uncached", "bent"}
    BY <1>0
  <2>3. QED
    BY <1>0, <2>1, <2>2 DEF BanksInv, BanksTypeOK, clients, counts
<1>2. \A x \in Admins \ {a} : /\ apc'[x] = apc[x] /\ list'[x] = list[x]
                              /\ x \in behind' <=> x \in behind
  BY <1>0 DEF BanksInv, BanksTypeOK
<1>3. apc'[a] = "idle" /\ list'[a] = {}
  BY <1>0 DEF BanksInv, BanksTypeOK
<1>4. Rows' = Rows
  BY <1>0 DEF Rows, Entry
<1>5. ASSUME flaws' \cap {"late", "partial", "uncached"} = {} PROVE cache' = Rows'
  <2>1. a \notin behind /\ apc[a] = "set"
    BY <1>0, <1>5
  <2>2. QED
    BY <1>0, <1>4, <2>1 DEF BanksInv, BanksStand, ListsStand
<1>6. StaleListHasCause'
  BY <1>5 DEF StaleListHasCause
<1>7. \A x \in Admins : apc'[x] = "set" /\ x \notin behind' => list'[x] = Rows'
  BY <1>2, <1>3, <1>4 DEF BanksInv, BanksStand, ListsStand
<1>8. \A x \in Admins : \A e \in list'[x] : e.slug = e.of
  BY <1>2, <1>3 DEF BanksInv, BanksStand, ListsStand
<1>9. \A e \in cache' : e.slug = e.of
  BY <1>0 DEF BanksInv, BanksStand, ListsStand
<1>10. ListsStand'
  BY <1>7, <1>8, <1>9 DEF ListsStand
<1>11. QED
  BY <1>0, <1>1, <1>6, <1>10, ClientsKept DEF BanksInv, BanksStand

LEMMA AdminFailsKeeps ==
  ASSUME BanksInv, NEW a \in Admins, AdminFails(a)
  PROVE  BanksInv'
<1>1. BanksTypeOK'
  <2>1. list' \in [Admins -> Lists] /\ file' \in [Admins -> SUBSET Banks]
    BY DEF AdminFails, BanksInv, BanksTypeOK, Lists
  <2>2. apc' \in [Admins -> {"idle", "upload", "list", "set"}]
    BY DEF AdminFails, BanksInv, BanksTypeOK
  <2>3. flaws' \subseteq {"late", "partial", "uncached", "bent"}
    BY DEF AdminFails, BanksInv, BanksTypeOK
  <2>4. QED
    BY <2>1, <2>2, <2>3 DEF AdminFails, BanksInv, BanksTypeOK, store, clients, counts
<1>2. \A x \in Admins \ {a} : /\ apc'[x] = apc[x] /\ list'[x] = list[x]
                              /\ x \in behind' <=> x \in behind
  BY DEF AdminFails, BanksInv, BanksTypeOK
<1>3. apc'[a] = "idle" /\ list'[a] = {}
  BY DEF AdminFails, BanksInv, BanksTypeOK
<1>4. Rows' = Rows
  BY DEF AdminFails, Rows, Entry
<1>5. cached' = cached /\ cache' = cache /\ flaws \subseteq flaws'
      /\ (cached => "uncached" \in flaws')
  BY DEF AdminFails, store
<1>6. StaleListHasCause'
  BY <1>5 DEF StaleListHasCause
<1>7. \A x \in Admins : apc'[x] = "set" /\ x \notin behind' => list'[x] = Rows'
  BY <1>2, <1>3, <1>4 DEF BanksInv, BanksStand, ListsStand
<1>8. \A x \in Admins : \A e \in list'[x] : e.slug = e.of
  BY <1>2, <1>3 DEF BanksInv, BanksStand, ListsStand
<1>9. ListsStand'
  BY <1>5, <1>7, <1>8 DEF BanksInv, BanksStand, ListsStand
<1>10. QED
  BY <1>1, <1>6, <1>9, ClientsKept DEF AdminFails, BanksInv, BanksStand

LEMMA ExpireKeeps ==
  ASSUME BanksInv, Expire
  PROVE  BanksInv'
<1>1. BanksTypeOK'
  <2>1. cache' \in Lists
    BY DEF Expire, Lists
  <2>2. QED
    BY <2>1 DEF Expire, BanksInv, BanksTypeOK, admins, clients, counts
<1>2. Rows' = Rows
  BY DEF Expire, Rows, Entry
<1>3. StaleListHasCause' /\ ListsStand'
  BY <1>2 DEF Expire, BanksInv, BanksStand, StaleListHasCause, ListsStand, admins
<1>4. QED
  BY <1>1, <1>3, ClientsKept DEF Expire, BanksInv, BanksStand

(* What a client is shown bears its own slugs unless the list is bent.       *)
LEMMA GetBanksKeeps ==
  ASSUME BanksInv, NEW c \in Clients, GetBanks(c)
  PROVE  BanksInv'
<1> DEFINE from == IF cached THEN cache ELSE Rows
           offered == {[slug |-> e.slug, of |-> e.of] : e \in from}
<1>1. from \in Lists /\ ("bent" \notin flaws => \A e \in from : e.slug = e.of)
  BY RowsListed DEF BanksInv, BanksTypeOK, BanksStand, ListsStand
<1> HIDE DEF from
<1>2. offered \subseteq Picks
  BY <1>1 DEF Lists, Entries, Picks
<1>3. "bent" \notin flaws => \A e \in offered : e.slug = e.of
  BY <1>1
<1>4. /\ shown' = [shown EXCEPT ![c] = shown'[c]]
      /\ \/ shown'[c] = offered /\ fooled' = IF "bent" \in flaws THEN fooled \cup {c} ELSE fooled
         \/ shown'[c] = {} /\ fooled' = fooled
      /\ UNCHANGED <<bank, store, admins, stage, ask, account, counts, flaws>>
  BY DEF GetBanks, from, BanksInv, BanksTypeOK
<1> HIDE DEF offered
<1>5. BanksTypeOK'
  <2>1. shown' \in [Clients -> SUBSET Picks] /\ fooled' \subseteq Clients
    BY <1>2, <1>4 DEF BanksInv, BanksTypeOK
  <2>2. QED
    BY <1>4, <2>1 DEF BanksInv, BanksTypeOK, store, admins, counts
<1>6. fooled \subseteq fooled'
  BY <1>4
<1>7. \A x \in Clients \ fooled' : \A e \in shown'[x] : e.slug = e.of
  <2>1. ASSUME NEW x \in Clients \ fooled', x # c PROVE shown'[x] = shown[x]
    BY <1>4, <2>1 DEF BanksInv, BanksTypeOK
  <2>2. c \notin fooled' => \A e \in shown'[c] : e.slug = e.of
    BY <1>3, <1>4
  <2>3. QED
    BY <1>6, <2>1, <2>2 DEF BanksInv, BanksStand, PicksStand
<1>8. PicksStand'
  BY <1>4, <1>6, <1>7 DEF BanksInv, BanksStand, PicksStand
<1>9. PickedIsStored' /\ NamesMatch' /\ AsksStand'
  BY <1>4, <1>6 DEF BanksInv, BanksStand, PickedIsStored, NamesMatch, AsksStand, IsExempt,
             Wanted
<1>10. StaleListHasCause' /\ ListsStand'
  BY <1>4, StoreKept DEF BanksInv
<1>11. QED
  BY <1>5, <1>8, <1>9, <1>10 DEF BanksInv, BanksStand

-------------------------------------------------------------------------------
(* What may be said of a request that is at place s and asks for j.          *)
Sound(s, j) ==
  /\ s \in {"idle", "cache", "owner", "lookup", "save"} /\ j \in Asks \cup {NoOne}
  /\ s # "idle" =>
       /\ j \in Asks
       /\ j.who \notin fooled => j.bank = j.meant
       /\ j.had => account[j.who] # NoAccount
       /\ s = "save" /\ <<j.bank, j.number>> \notin Exempt =>
            /\ <<j.bank, j.number>> \in Real
            /\ j.who \in Users => <<j.who, <<j.bank, j.number>>>> \in Bears

LEMMA RequestsAreSound ==
  ASSUME BanksInv, NEW r \in Requests
  PROVE  Sound(stage[r], ask[r])
  BY DEF BanksInv, BanksTypeOK, BanksStand, PicksStand, AsksStand, Sound, IsExempt, Wanted

(* A request goes where it may, and all else about the clients stays.        *)
LEMMA RequestKept ==
  ASSUME BanksInv, NEW r \in Requests, NEW s, NEW j, Sound(s, j),
         stage' = [stage EXCEPT ![r] = s], ask' = [ask EXCEPT ![r] = j],
         UNCHANGED <<account, fooled>>,
         shown' \in [Clients -> SUBSET Picks], \A c \in Clients : shown'[c] \subseteq shown[c],
         bank' = bank, store' \in BOOLEAN \X Lists, admins' = admins, writes' = writes,
         asks' \in Nat, flaws' \subseteq {"late", "partial", "uncached", "bent"}
  PROVE  BanksTypeOK' /\ PickedIsStored' /\ NamesMatch' /\ PicksStand' /\ AsksStand'
<1>1. \A q \in Requests : Sound(stage'[q], ask'[q])
  <2>1. ASSUME NEW q \in Requests, q # r PROVE stage'[q] = stage[q] /\ ask'[q] = ask[q]
    BY <2>1 DEF BanksInv, BanksTypeOK
  <2>2. stage'[r] = s /\ ask'[r] = j
    BY DEF BanksInv, BanksTypeOK
  <2>3. QED
    BY <2>1, <2>2, RequestsAreSound
<1>2. BanksTypeOK'
  <2>1. /\ stage' \in [Requests -> {"idle", "cache", "owner", "lookup", "save"}]
        /\ ask' \in [Requests -> Asks \cup {NoOne}]
        /\ \A q \in Requests : stage'[q] # "idle" => ask'[q] \in Asks
    BY <1>1 DEF Sound, BanksInv, BanksTypeOK
  <2>2. cached' \in BOOLEAN /\ cache' \in Lists
    BY DEF store
  <2>3. QED
    BY <2>1, <2>2 DEF BanksInv, BanksTypeOK, admins
<1>3. PickedIsStored' /\ NamesMatch'
  BY DEF BanksInv, BanksStand, PickedIsStored, NamesMatch
<1>4. PicksStand'
  <2>1. \A c \in Clients \ fooled' : \A e \in shown'[c] : e.slug = e.of
    BY DEF BanksInv, BanksStand, PicksStand
  <2>2. \A q \in Requests : stage'[q] # "idle" /\ ask'[q].who \notin fooled'
                           => ask'[q].bank = ask'[q].meant
    BY <1>1 DEF Sound
  <2>3. QED
    BY <2>1, <2>2 DEF PicksStand
<1>5. AsksStand'
  BY <1>1 DEF Sound, AsksStand, IsExempt, Wanted
<1>6. QED
  BY <1>2, <1>3, <1>4, <1>5

(* The same of a step that leaves the store alone.                           *)
LEMMA RequestKeeps ==
  ASSUME BanksInv, NEW r \in Requests, NEW s, NEW j, Sound(s, j),
         stage' = [stage EXCEPT ![r] = s], ask' = [ask EXCEPT ![r] = j],
         UNCHANGED <<bank, store, admins, account, fooled, writes, flaws>>,
         shown' \in [Clients -> SUBSET Picks], \A c \in Clients : shown'[c] \subseteq shown[c],
         asks' \in Nat
  PROVE  BanksInv'
<1>1. store' \in BOOLEAN \X Lists /\ flaws' \subseteq {"late", "partial", "uncached", "bent"}
  BY DEF BanksInv, BanksTypeOK, store
<1>2. BanksTypeOK' /\ PickedIsStored' /\ NamesMatch' /\ PicksStand' /\ AsksStand'
  BY <1>1, RequestKept
<1>3. QED
  BY <1>2, StoreKept DEF BanksInv, BanksStand

LEMMA AddBankAccountKeeps ==
  ASSUME BanksInv, NEW r \in Requests, NEW c \in Clients, NEW n \in Numbers, NEW e \in shown[c],
         AddBankAccount(r, c, e, n)
  PROVE  BanksInv'
<1> DEFINE j == [who |-> c, bank |-> e.slug, number |-> n, meant |-> e.of,
                 had |-> account[c] # NoAccount]
<1>1. e.slug \in Banks /\ e.of \in Banks /\ (c \notin fooled => e.slug = e.of)
  BY DEF BanksInv, BanksTypeOK, Picks, BanksStand, PicksStand
<1>2. Sound("cache", j)
  BY <1>1 DEF Sound, Asks
<1>3. ask' = [ask EXCEPT ![r] = j] /\ stage' = [stage EXCEPT ![r] = "cache"]
  BY DEF AddBankAccount, Advance
<1>4. shown' \in [Clients -> SUBSET Picks] /\ \A x \in Clients : shown'[x] \subseteq shown[x]
  BY DEF AddBankAccount, BanksInv, BanksTypeOK
<1>5. asks' \in Nat /\ UNCHANGED <<bank, store, admins, account, fooled, writes, flaws>>
  BY DEF AddBankAccount, BanksInv, BanksTypeOK
<1> HIDE DEF j
<1>6. QED
  BY <1>2, <1>3, <1>4, <1>5, RequestKeeps

(* A request that moves on with what it asks for.                            *)
LEMMA MoveKeeps ==
  ASSUME BanksInv, NEW r \in Requests, NEW s, Sound(s, ask[r]), Advance(r, s),
         UNCHANGED <<bank, store, admins, ask, account, shown, fooled, counts, flaws>>
  PROVE  BanksInv'
<1>1. ask' = [ask EXCEPT ![r] = ask[r]] /\ stage' = [stage EXCEPT ![r] = s]
  BY DEF Advance, BanksInv, BanksTypeOK
<1>2. /\ asks' \in Nat /\ shown' \in [Clients -> SUBSET Picks]
      /\ UNCHANGED <<bank, store, admins, account, fooled, writes, flaws>>
  BY DEF counts, BanksInv, BanksTypeOK
<1>3. \A x \in Clients : shown'[x] \subseteq shown[x]
  OBVIOUS
<1>4. QED
  BY <1>1, <1>2, <1>3, RequestKeeps

LEMMA MissCacheKeeps ==
  ASSUME BanksInv, NEW r \in Requests, MissCache(r)
  PROVE  BanksInv'
<1> DEFINE s == IF ask[r].who \in Firms THEN "owner" ELSE Known(r)
<1>1. Sound(s, ask[r])
  BY RequestsAreSound DEF Sound, MissCache, Known, IsExempt, Wanted
<1>2. /\ Advance(r, s)
      /\ UNCHANGED <<bank, store, admins, ask, account, shown, fooled, counts, flaws>>
  BY DEF MissCache
<1> HIDE DEF s
<1>3. QED
  BY <1>1, <1>2, MoveKeeps

LEMMA LookupKeeps ==
  ASSUME BanksInv, NEW r \in Requests, Lookup(r)
  PROVE  BanksInv'
<1>1. Sound("save", ask[r])
  BY RequestsAreSound DEF Sound, Lookup, Wanted
<1>2. QED
  BY <1>1, MoveKeeps DEF Lookup

LEMMA ReadOwnerKeeps ==
  ASSUME BanksInv, NEW r \in Requests, ReadOwner(r)
  PROVE  BanksInv'
<1> DEFINE j == [ask[r] EXCEPT !.had = account[ask[r].who] # NoAccount]
<1>1. Sound(stage[r], ask[r]) /\ stage[r] = "owner"
  BY RequestsAreSound DEF ReadOwner
<1>2. /\ j \in Asks /\ j.who = ask[r].who /\ j.bank = ask[r].bank
      /\ j.number = ask[r].number /\ j.meant = ask[r].meant
      /\ j.had => account[j.who] # NoAccount
  BY <1>1 DEF Sound, Asks
<1>3. ask' = [ask EXCEPT ![r] = j] /\ stage' = [stage EXCEPT ![r] = Known(r)]
  <2>1. ask' = [ask EXCEPT ![r].had = account[ask[r].who] # NoAccount]
    BY DEF ReadOwner
  <2>2. ask' = [ask EXCEPT ![r] = j]
    BY <2>1
  <2>3. QED
    BY <2>2 DEF ReadOwner, Advance
<1> HIDE DEF j
<1>4. Sound(Known(r), j)
  BY <1>1, <1>2 DEF Sound, Known, IsExempt, Wanted
<1>5. /\ asks' \in Nat /\ shown' \in [Clients -> SUBSET Picks]
      /\ UNCHANGED <<bank, store, admins, account, fooled, writes, flaws>>
      /\ \A x \in Clients : shown'[x] \subseteq shown[x]
  BY DEF ReadOwner, counts, BanksInv, BanksTypeOK
<1>6. QED
  BY <1>3, <1>4, <1>5, RequestKeeps

(* A request that has ended.                                                 *)
LEMMA EndedIsSound == Sound("idle", NoOne)
  BY DEF Sound

LEMMA AskFailsKeeps ==
  ASSUME BanksInv, NEW r \in Requests, AskFails(r)
  PROVE  BanksInv'
<1>1. ask' = [ask EXCEPT ![r] = NoOne] /\ stage' = [stage EXCEPT ![r] = "idle"]
  BY DEF AskFails, Leave, Advance
<1>2. /\ asks' \in Nat /\ shown' \in [Clients -> SUBSET Picks]
      /\ UNCHANGED <<bank, store, admins, account, fooled, writes, flaws>>
      /\ \A x \in Clients : shown'[x] \subseteq shown[x]
  BY DEF AskFails, counts, BanksInv, BanksTypeOK
<1>3. QED
  BY <1>1, <1>2, EndedIsSound, RequestKeeps

(* The search bends the cached list; what it says of each bank's row stays.  *)
LEMMA HitCacheKeeps ==
  ASSUME BanksInv, NEW r \in Requests, HitCache(r)
  PROVE  BanksInv'
<1> DEFINE bent(e) == [e EXCEPT !.slug = ask[r].bank]
<1>1. PICK s \in {"idle", "owner", "save"}, j \in {ask[r], NoOne} :
         /\ stage' = [stage EXCEPT ![r] = s] /\ ask' = [ask EXCEPT ![r] = j]
         /\ IF s = "idle" THEN j = NoOne ELSE j = ask[r] /\ IsExempt(r)
  BY DEF HitCache, Leave, Advance, BanksInv, BanksTypeOK
<1>2. Sound(s, j)
  <2>1. CASE s = "idle"
    BY <1>1, <2>1, EndedIsSound
  <2>2. CASE s # "idle"
    BY <1>1, <2>2, RequestsAreSound DEF HitCache, Sound, IsExempt, Wanted
  <2>3. QED
    BY <2>1, <2>2
<1>3. cached /\ cached' = cached /\ cache' = {bent(e) : e \in cache}
  BY DEF HitCache
<1>4. \A e \in cache : /\ bent(e) \in Entries
                       /\ bent(e).of = e.of /\ bent(e).version = e.version
  <2>1. ask[r].bank \in Banks
    BY DEF HitCache, BanksInv, BanksTypeOK, Asks
  <2>2. QED
    BY <2>1 DEF BanksInv, BanksTypeOK, Lists, Entries
<1> HIDE DEF bent
<1>5. cache' \in Lists
  BY <1>3, <1>4 DEF Lists
<1>6. /\ flaws' = flaws \cup {"bent"} /\ asks' \in Nat /\ store' \in BOOLEAN \X Lists
      /\ flaws' \subseteq {"late", "partial", "uncached", "bent"}
      /\ shown' \in [Clients -> SUBSET Picks] /\ \A x \in Clients : shown'[x] \subseteq shown[x]
      /\ UNCHANGED <<bank, admins, account, fooled, writes>>
  BY <1>3, <1>5 DEF HitCache, counts, store, BanksInv, BanksTypeOK
<1>7. BanksTypeOK' /\ PickedIsStored' /\ NamesMatch' /\ PicksStand' /\ AsksStand'
  BY <1>1, <1>2, <1>6, RequestKept
<1>8. {<<e.of, e.version>> : e \in cache'} = {<<e.of, e.version>> : e \in cache}
  BY <1>3, <1>4
<1>9. Rows' = Rows
  BY <1>6 DEF Rows, Entry
<1>10. StaleListHasCause'
  BY <1>3, <1>6, <1>8, <1>9 DEF BanksInv, BanksStand, StaleListHasCause, admins
<1>11. ListsStand'
  BY <1>6, <1>9 DEF BanksInv, BanksStand, ListsStand, admins
<1>12. QED
  BY <1>7, <1>10, <1>11 DEF BanksInv, BanksStand

(* What is stored is at the bank that was asked for, under a name that is    *)
(* that account's or was not looked up.                                      *)
LEMMA SaveKeeps ==
  ASSUME BanksInv, NEW r \in Requests, Save(r)
  PROVE  BanksInv'
<1> DEFINE c == ask[r].who
           new == [bank |-> ask[r].bank, number |-> ask[r].number,
                   name |-> StoredName(r), meant |-> ask[r].meant]
<1>1. Sound("save", ask[r]) /\ ask[r] \in Asks /\ c \in Clients
  BY RequestsAreSound DEF Save, Sound, Asks
<1>2. StoredName(r) \in AccountNames
  BY <1>1 DEF StoredName, Sound, AccountNames, Asks, Wanted, Accounts, BanksInv, BanksTypeOK
<1>3. new \in Accounts
  BY <1>1, <1>2 DEF Accounts, Asks
<1>4. /\ c \notin fooled => new.bank = new.meant
      /\ <<new.bank, new.number>> \notin Exempt =>
            /\ new.name = <<new.bank, new.number>> /\ <<new.bank, new.number>> \in Real
            /\ c \in Users => <<c, <<new.bank, new.number>>>> \in Bears
      /\ c \in Users /\ <<new.bank, new.number>> \in Exempt => new.name = NoName
  BY <1>1 DEF Sound, StoredName, IsExempt, Wanted, Clients
<1>5. /\ account' = account \/ account' = [account EXCEPT ![c] = new]
      /\ ask' = [ask EXCEPT ![r] = NoOne] /\ stage' = [stage EXCEPT ![r] = "idle"]
      /\ UNCHANGED <<bank, store, admins, shown, fooled, counts, flaws>>
  BY DEF Save, Leave, Advance
<1> HIDE DEF c, new
<1>6. /\ account' \in [Clients -> Accounts \cup {NoAccount}]
      /\ \A x \in Clients : account'[x] = account[x] \/ (x = c /\ account'[x] = new)
  BY <1>1, <1>3, <1>5 DEF BanksInv, BanksTypeOK
<1>7. \A q \in Requests \ {r} : stage'[q] = stage[q] /\ ask'[q] = ask[q]
  BY <1>5 DEF BanksInv, BanksTypeOK
<1>8. stage'[r] = "idle"
  BY <1>5 DEF BanksInv, BanksTypeOK
<1>9. BanksTypeOK'
  <2>1. /\ stage' \in [Requests -> {"idle", "cache", "owner", "lookup", "save"}]
        /\ ask' \in [Requests -> Asks \cup {NoOne}]
    BY <1>5 DEF BanksInv, BanksTypeOK
  <2>2. \A q \in Requests : stage'[q] # "idle" => ask'[q] \in Asks
    BY <1>7, <1>8 DEF BanksInv, BanksTypeOK
  <2>3. QED
    BY <1>5, <1>6, <2>1, <2>2 DEF BanksInv, BanksTypeOK, store, admins, counts
<1>10. PickedIsStored'
  BY <1>4, <1>5, <1>6 DEF BanksInv, BanksStand, PickedIsStored
<1>11. NamesMatch'
  BY <1>4, <1>6 DEF BanksInv, BanksStand, NamesMatch
<1>12. PicksStand'
  BY <1>5, <1>7, <1>8 DEF BanksInv, BanksStand, PicksStand
<1>13. AsksStand'
  <2>1. \A q \in Requests : stage'[q] # "idle" => ask'[q].who \in Clients
    BY <1>9 DEF BanksTypeOK, Asks
  <2>2. \A x \in Clients : account[x] # NoAccount => account'[x] # NoAccount
    BY <1>3, <1>6
  <2>3. QED
    BY <1>7, <1>8, <2>1, <2>2 DEF BanksInv, BanksStand, AsksStand, IsExempt, Wanted
<1>14. StaleListHasCause' /\ ListsStand'
  BY <1>5, StoreKept DEF BanksInv
<1>15. QED
  BY <1>9, <1>10, <1>11, <1>12, <1>13, <1>14 DEF BanksInv, BanksStand
-------------------------------------------------------------------------------
LEMMA BanksStepKeeps == ASSUME BanksInv, [BanksNext]_banksVars PROVE BanksInv'
<1>1. CASE UNCHANGED banksVars
  <2>1. BanksTypeOK'
    BY <1>1 DEF banksVars, store, admins, clients, counts, BanksInv, BanksTypeOK
  <2>2. QED
    BY <1>1, <2>1, ClientsKept, StoreKept DEF banksVars, BanksInv, BanksStand
<1>2. QED
  BY <1>1, BanksNextCases, WriteBankKeeps, UploadBankKeeps, SkipBankKeeps, UploadKeeps,
     ListRowsKeeps, SetCacheKeeps, AdminFailsKeeps, ExpireKeeps, GetBanksKeeps, AddBankAccountKeeps,
     MissCacheKeeps, HitCacheKeeps, ReadOwnerKeeps, LookupKeeps, AskFailsKeeps, SaveKeeps

LEMMA BanksInitHolds == BanksInit => BanksInv
<1> SUFFICES ASSUME BanksInit PROVE BanksInv
  OBVIOUS
<1>1. BanksTypeOK
  BY DEF BanksInit, BanksTypeOK, Lists
<1>2. BanksStand
  BY DEF BanksInit, BanksStand, StaleListHasCause, PickedIsStored, NamesMatch, ListsStand,
     PicksStand, AsksStand
<1>3. QED
  BY <1>1, <1>2 DEF BanksInv

(* TypeOK of Banks: every variable keeps its type.                           *)
THEOREM BanksTypeCorrect == BanksSpec => []BanksTypeOK
<1>1. BanksInv => BanksTypeOK
  BY DEF BanksInv
<1>2. QED
  BY <1>1, BanksInitHolds, BanksStepKeeps, PTL DEF BanksSpec

(* With no request of an admin under way, the cached list is that of the     *)
(* rows, unless the last of two overlapping requests cached an older one, it *)
(* is an upload's, or a write was not followed by its list.                  *)
THEOREM StaleListsHaveCause == BanksSpec => []StaleListHasCause
<1>1. BanksInv => StaleListHasCause
  BY DEF BanksInv, BanksStand
<1>2. QED
  BY <1>1, BanksInitHolds, BanksStepKeeps, PTL DEF BanksSpec

(* Who was shown a list that nobody had searched has their account at the    *)
(* bank they picked.                                                         *)
THEOREM PicksAreStored == BanksSpec => []PickedIsStored
<1>1. BanksInv => PickedIsStored
  BY DEF BanksInv, BanksStand
<1>2. QED
  BY <1>1, BanksInitHolds, BanksStepKeeps, PTL DEF BanksSpec

(* The name beside an account is the one it was looked up under, with the    *)
(* user's own in it, or the user's own where it is exempt, however requests  *)
(* of one client overlap.                                                    *)
THEOREM NamesAreRight == BanksSpec => []NamesMatch
<1>1. BanksInv => NamesMatch
  BY DEF BanksInv, BanksStand
<1>2. QED
  BY <1>1, BanksInitHolds, BanksStepKeeps, PTL DEF BanksSpec
===============================================================================
