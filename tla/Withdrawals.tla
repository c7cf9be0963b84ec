------------------------------ MODULE Withdrawals ------------------------------
(***************************************************************************)
(* Money that leaves for a bank: WalletService.userWithdraw,               *)
(* businessWithdraw and withdrawToBank, what a business may withdraw       *)
(* (BusinessService.getWithdrawalBalance), the transfer at the payment     *)
(* processor (BankTranferHelper.flutterwaveTransfer) and the webhook that  *)
(* tells how the transfer ended (WebhooksService.flutterWaveWebhook).      *)
(*                                                                         *)
(* The transfer is initiated BEFORE the wallet is debited and the row is   *)
(* written, and its webhook may come at any time after that.  A call, its  *)
(* transfer and its row have one name here; what joins a webhook to a row  *)
(* is the reference, which two calls of one millisecond share.             *)
(***************************************************************************)
EXTENDS Integers, FiniteSets, Functions

CONSTANTS Calls,        \* calls of the two endpoints
          Persons,      \* the users who withdraw
          Wallets,
          BusinessWallets,
          WalletOf,     \* WalletOf[u]: the wallet user u withdraws from
          Callers,      \* bound: Callers[c]: the users who can make call c
          Notices,      \* bound: the deliveries of webhooks that can occur
          About,        \* About[n]: the transfer delivery n is about
          Amounts,      \* the amounts asked for
          Minimum,      \* 100: the least one may withdraw
          FeePercent,   \* 5: serviceFeePercentage of a business
          Fee,          \* what the processor takes for a transfer
          Opening,      \* Opening[w]: the balance wallet w starts with
          Payments,     \* bound: payments collected for the businesses
          Takings,      \* their amounts; the endpoint takes any number
          NoJob, NoTaking, NoRef,
          MaxDay,       \* bound: days that pass
          MaxMishaps    \* bound: failed queries, lost answers, crashes and
                        \* deleted accounts and stations

Jobs == [user : Persons, wallet : Wallets, amount : Amounts]
Collections == [wallet : BusinessWallets, amount : Takings]
Ages == 0 .. 2

ASSUME FiniteAssumption == IsFiniteSet(Calls) /\ IsFiniteSet(Payments)
ASSUME WithdrawalAssumption ==
  /\ BusinessWallets \subseteq Wallets
  /\ WalletOf \in [Persons -> Wallets]
  /\ Callers \in [Calls -> SUBSET Persons]
  /\ About \in [Notices -> Calls]
  /\ Amounts \subseteq Int /\ Takings \subseteq Int
  /\ FeePercent \in 0 .. 100
  /\ {Minimum, Fee, MaxDay, MaxMishaps} \subseteq Nat
  /\ Opening \in [Wallets -> Nat]
  /\ NoJob \notin Jobs /\ NoTaking \notin Collections /\ NoRef \notin Calls

VARIABLES
  balance,     \* balance[w]: the balance column of wallet w
  row,         \* row[c]: the status of the row of withdrawal c, or "none"
  paidIn,      \* paidIn[w][k]: the payment rows business wallet w got k days ago
  paidOut,     \* paidOut[w][k]: its withdrawal rows of k days ago
  pc, job,     \* pc[c], job[c]: how far call c has come, and what it asks
  seen,        \* seen[c]: what call c has read; also, as history, what it is
               \* promised, and whether a payment had moved its money and not
               \* written its row at the first query, or came before the second
  ref,         \* ref[c]: the reference of call c's transfer and row: the call that
               \* was the first to make one in that millisecond
  transfer,    \* transfer[c]: the transfer at the processor
  hpc,         \* hpc[n]: how far the handling of delivery n has come
  acked,       \* the transfers with a webhook that was answered with 200
  taking,      \* taking[k]: payment k, once it has moved its money
  unrowed,     \* the payments that have moved their money and have no row
  day, faults,
  gone,        \* the users whose accounts were deleted
  collected,   \* history: what was collected for wallet w
  refunds,     \* history: how many deliveries gave the amount of row c back
  charges,     \* history: how many took a fee for it
  fees,        \* history: the processor's fees taken from wallet w
  overlapped,  \* history: wallets debited while another call relied on them
  unchecked,   \* history: wallets with a withdrawal let through unchecked
  reversed,    \* history: wallets a payment of a negative amount took money from
  missed,      \* history: transfers with a delivery that found no row or failed
  cut,         \* history: calls that a fault stopped between transfer and debit
  fresh,       \* history: fresh[w][k]: what was collected for w k days ago
  purged       \* history: wallets with payment rows that went with a station

books == <<balance, row, paidIn, paidOut>>
call == <<pc, job, seen, ref>>
hooks == <<hpc, acked>>
intake == <<taking, unrowed, collected>>
told == <<refunds, charges, fees>>
causes == <<overlapped, unchecked, reversed, missed, cut>>
windows == <<fresh, purged>>
history == <<told, causes, windows>>
vars == <<books, call, transfer, hooks, intake, day, faults, gone, history>>

Before == {"sum", "balance", "check", "initiate"}
Relying == {"initiate", "book"}
Answers == {"ok", "short", "refused", "failed", "lost"}
Final == {"SUCCESSFUL", "FAILED"}
Statuses == {"none", "PENDING"} \cup Final
Transfers == {"none", "declined", "pending"} \cup Final
Handling == {"lookup", "settle", "answer"}
Snapshots == [recent : Int, crossed : BOOLEAN, allowance : Int, promised : Int,
              funds : Int]
NoSnapshot == [recent |-> 0, crossed |-> FALSE, allowance |-> 0, promised |-> 0,
               funds |-> 0]

TypeOK ==
  /\ balance \in [Wallets -> Int]
  /\ row \in [Calls -> Statuses]
  /\ paidIn \in [Wallets -> [Ages -> Int]]
  /\ paidOut \in [Wallets -> [Ages -> Nat]]
  /\ pc \in [Calls -> {"idle", "book"} \cup Before \cup Answers]
  /\ job \in [Calls -> Jobs \cup {NoJob}]
  /\ seen \in [Calls -> Snapshots]
  /\ ref \in [Calls -> Calls \cup {NoRef}]
  /\ transfer \in [Calls -> Transfers]
  /\ hpc \in [Notices -> {"free", "done"} \cup Handling]
  /\ acked \subseteq Calls
  /\ taking \in [Payments -> Collections \cup {NoTaking}]
  /\ unrowed \subseteq {k \in Payments : taking[k] # NoTaking}
  /\ {day, faults} \subseteq Nat
  /\ gone \subseteq Persons
  /\ collected \in [Wallets -> Int]
  /\ refunds \in [Calls -> Nat] /\ charges \in [Calls -> Nat]
  /\ fees \in [Wallets -> Nat]
  /\ {overlapped, unchecked, reversed} \subseteq SUBSET Wallets
  /\ missed \subseteq Calls /\ cut \subseteq Calls
  /\ fresh \in [Wallets -> [Ages -> Int]]
  /\ purged \subseteq Wallets

Init ==
  /\ balance = Opening
  /\ row = [c \in Calls |-> "none"]
  /\ paidIn = [w \in Wallets |-> [k \in Ages |-> 0]]
  /\ paidOut = [w \in Wallets |-> [k \in Ages |-> 0]]
  /\ pc = [c \in Calls |-> "idle"]
  /\ job = [c \in Calls |-> NoJob]
  /\ seen = [c \in Calls |-> NoSnapshot]
  /\ ref = [c \in Calls |-> NoRef]
  /\ transfer = [c \in Calls |-> "none"]
  /\ hpc = [n \in Notices |-> "free"]
  /\ acked = {} /\ day = 0 /\ faults = 0 /\ gone = {}
  /\ taking = [k \in Payments |-> NoTaking] /\ unrowed = {}
  /\ collected = [w \in Wallets |-> 0]
  /\ refunds = [c \in Calls |-> 0] /\ charges = [c \in Calls |-> 0]
  /\ fees = [w \in Wallets |-> 0]
  /\ overlapped = {} /\ unchecked = {} /\ reversed = {} /\ missed = {} /\ cut = {}
  /\ fresh = paidIn /\ purged = {}

(* What a call has read goes with it. *)
End(c, answer) == /\ pc' = [pc EXCEPT ![c] = answer]
                  /\ seen' = [seen EXCEPT ![c] = NoSnapshot]

(* What a call has asked for goes too if it leaves nothing behind.          *)
GiveUp(c, answer) == End(c, answer) /\ job' = [job EXCEPT ![c] = NoJob]
Mishap == faults + Cardinality(gone) + Cardinality(purged) < MaxMishaps
Fault == Mishap /\ faults' = faults + 1
Goto(c, place) == pc' = [pc EXCEPT ![c] = place]
Business(c) == job[c].wallet \in BusinessWallets

(* A personal wallet and its bank account go with the user's account. *)
HasWallet(c) == Business(c) \/ job[c].user \notin gone
-------------------------------------------------------------------------------
(* What a business may withdraw, in hundredths. *)

SumOf(rows) == rows[0] + rows[1] + rows[2]

(* Every row of the last two days, whatever its type and status. *)
(* Mutant: the window is one day short. *)
Recent_Today(w) == paidIn[w][0] + paidOut[w][0]
Recent(w) == SumOf(paidIn[w]) + SumOf(paidOut[w])

Withdrawable(funds, recent) == 100 * funds - (FeePercent * funds + 100 * recent)
-------------------------------------------------------------------------------
(* A call, up to the transfer. *)

StartWithdraw(c, u, n) ==
  /\ pc[c] = "idle" /\ u \notin gone
  /\ job' = [job EXCEPT ![c] = [user |-> u, wallet |-> WalletOf[u], amount |-> n]]
  /\ Goto(c, IF WalletOf[u] \in BusinessWallets THEN "sum" ELSE "check")
  /\ UNCHANGED <<books, seen, ref, transfer, hooks, intake, day, faults, gone, history>>

(* The password is wrong or there is no bank account, both inputs; or a     *)
(* query before the transfer fails.                                         *)
Refuse(c) ==
  /\ pc[c] \in {"sum", "check"}
  /\ GiveUp(c, "refused")
  /\ UNCHANGED <<books, ref, transfer, hooks, intake, day, faults, gone, history>>

(* A payment has moved its money into wallet w and not written its row. *)
Unrowed(w) == \E k \in unrowed : taking[k].wallet = w

(* getWithdrawalBalance is two queries: the rows, then the wallet.  What it   *)
(* is there to leave, by the money that was collected, is noted beside it.    *)
ReadSum(c) ==
  LET w == job[c].wallet IN
  /\ pc[c] = "sum"
  /\ seen' = [seen EXCEPT ![c].recent = Recent(w), ![c].crossed = Unrowed(w)]
  /\ Goto(c, "balance")
  /\ UNCHANGED <<books, job, ref, transfer, hooks, intake, day, faults, gone, history>>

ReadBalance(c) ==
  LET funds == balance[job[c].wallet] IN
  /\ pc[c] = "balance"
  /\ seen' = [seen EXCEPT ![c] = [@ EXCEPT !.recent = 0,
       !.allowance = Withdrawable(funds, seen[c].recent),
       !.promised = Withdrawable(funds, SumOf(fresh[job[c].wallet]))]]
  /\ Goto(c, "check")
  /\ UNCHANGED <<books, job, ref, transfer, hooks, intake, day, faults, gone, history>>

(* A failed query makes it null, which the caller takes for zero. *)
ReadFails(c) ==
  /\ pc[c] \in {"sum", "balance"}
  /\ Fault
  /\ seen' = [seen EXCEPT ![c] = NoSnapshot]
  /\ Goto(c, "check")
  /\ UNCHANGED <<books, job, ref, transfer, hooks, intake, day, gone, history>>

(* withdrawToBank: the limits are compared only for an allowance that is    *)
(* neither absent, as for users, nor zero.                                  *)
Limited(c) == Business(c) /\ seen[c].allowance # 0

(* Mutant: the wallet's balance is not compared. *)
Short_AllowanceOnly(c, funds) == 100 * job[c].amount > seen[c].allowance
Short(c, funds) == \/ 100 * job[c].amount > seen[c].allowance
                   \/ job[c].amount > funds

CheckFunds(c) ==
  LET w == job[c].wallet  n == job[c].amount IN
  /\ pc[c] = "check"
  /\ \/ /\ n < Minimum \/ ~HasWallet(c)
        /\ GiveUp(c, "refused") /\ UNCHANGED unchecked
     \/ /\ n >= Minimum /\ Limited(c)
        /\ Goto(c, IF Short(c, balance[w]) THEN "short" ELSE "initiate")
        /\ seen' = [seen EXCEPT ![c].funds = balance[w]]
        /\ UNCHANGED <<job, unchecked>>
     \/ /\ n >= Minimum /\ HasWallet(c) /\ ~Limited(c)
        /\ Goto(c, "initiate")
        /\ seen' = [seen EXCEPT ![c].funds = balance[w]]
        /\ unchecked' = unchecked \cup {w} /\ UNCHANGED job
  /\ UNCHANGED <<books, ref, transfer, hooks, intake, day, faults, gone, told,
                 overlapped, reversed, missed, cut, windows>>

(* The reference of a call: its millisecond is new, or another call's.       *)
MakeReference(c) ==
  \E r \in {c} \cup ({ref[d] : d \in Calls} \ {NoRef}) : ref' = [ref EXCEPT ![c] = r]

(* Transfer.initiate: declined, or accepted and the answer heard or not.     *)
(* What decides is whether the answer has data (response.success is not      *)
(* looked at): without, the call ends before anything is written; with, the  *)
(* withdrawal is booked, declined or not.                                    *)
Initiate(c) ==
  /\ pc[c] = "initiate"
  /\ \/ GiveUp(c, "failed") /\ UNCHANGED <<ref, transfer, faults, cut>>
     \/ /\ MakeReference(c)
        /\ transfer' = [transfer EXCEPT ![c] = "declined"]
        /\ Goto(c, "book") /\ UNCHANGED <<job, seen, faults, cut>>
     \/ /\ MakeReference(c)
        /\ transfer' = [transfer EXCEPT ![c] = "pending"]
        /\ \/ Goto(c, "book") /\ UNCHANGED <<seen, faults, cut>>
           \/ End(c, "failed") /\ Fault /\ cut' = cut \cup {c}
        /\ UNCHANGED job
  /\ UNCHANGED <<books, hooks, intake, day, gone, told, overlapped, unchecked,
                 reversed, missed, windows>>
-------------------------------------------------------------------------------
(* The debit and the row, in one database transaction. *)

ReliedOn(w, c) == \E d \in Calls \ {c} : pc[d] \in Relying /\ job[d].wallet = w

Debited(c) == [balance EXCEPT ![job[c].wallet] = @ - job[c].amount]

(* The other calls whose reference was made in the same millisecond. *)
Twins(c) == {d \in Calls \ {c} : ref[d] = ref[c]}

(* The reference is unique, and the row and the wallet need the user's.      *)
CanBook(c) == job[c].user \notin gone /\ \A d \in Twins(c) : row[d] = "none"

Book(c) ==
  LET w == job[c].wallet IN
  /\ pc[c] = "book"
  /\ CanBook(c)
  /\ balance' = Debited(c)
  /\ row' = [row EXCEPT ![c] = "PENDING"]
  /\ paidOut' = IF Business(c)
                THEN [paidOut EXCEPT ![w][0] = @ + job[c].amount] ELSE paidOut
  /\ overlapped' = IF ReliedOn(w, c) THEN overlapped \cup {w} ELSE overlapped
  /\ \/ End(c, "ok") /\ UNCHANGED faults
     \/ End(c, "failed") /\ Fault
  /\ UNCHANGED <<paidIn, job, ref, transfer, hooks, intake, day, gone, told,
                 unchecked, reversed, missed, cut, windows>>

(* The error is caught and the caller told the request failed. *)
BookFails(c) ==
  /\ pc[c] = "book"
  /\ \/ ~CanBook(c) /\ UNCHANGED <<faults, cut>>
     \/ Fault /\ cut' = cut \cup {c}
  /\ End(c, "failed")
  /\ UNCHANGED <<books, job, ref, transfer, hooks, intake, day, gone, told,
                 overlapped, unchecked, reversed, missed, windows>>
-------------------------------------------------------------------------------
(* The transfer at the processor, and its webhook. *)

Finish(c) ==
  /\ transfer[c] = "pending"
  /\ \E s \in Final : transfer' = [transfer EXCEPT ![c] = s]
  /\ UNCHANGED <<books, call, hooks, intake, day, faults, gone, history>>

Place(n, place) == hpc' = [hpc EXCEPT ![n] = place]

Deliver(n) ==
  /\ hpc[n] = "free" /\ transfer[About[n]] \in Final
  /\ Place(n, "lookup")
  /\ UNCHANGED <<books, call, transfer, acked, intake, day, faults, gone, history>>

(* The row with the reference of transfer c; there is one at most.          *)
(* Mutant: the row is looked up by user and amount.                         *)
Found_SameRequest(c) == {d \in Calls : row[d] # "none" /\ job[d] = job[c]}
Found(c) == {d \in Calls : row[d] # "none" /\ ref[d] = ref[c]}

(* Without a row the destructuring throws, the error is logged and the      *)
(* webhook answered with 200.                                               *)
LookUp(n) ==
  LET c == About[n] IN
  /\ hpc[n] = "lookup"
  /\ Place(n, IF Found(c) = {} THEN "answer" ELSE "settle")
  /\ missed' = IF Found(c) = {} THEN missed \cup {c} ELSE missed
  /\ UNCHANGED <<books, call, transfer, acked, intake, day, faults, gone, told,
                 overlapped, unchecked, reversed, cut, windows>>

(* The fee of a transfer that succeeded is taken, the amount of the row of   *)
(* one that failed is given back; the row's own status is not looked at.     *)
(* Mutant: a failed transfer's amount stays with the processor. *)
Settled_NoRefund(c, d) == IF transfer[c] = "FAILED" THEN balance
                          ELSE [balance EXCEPT ![job[d].wallet] = @ - Fee]
Settled(c, d) ==
  [balance EXCEPT ![job[d].wallet] =
     IF transfer[c] = "FAILED" THEN @ + job[d].amount ELSE @ - Fee]

(* Mutants: both outcomes write the same status; the status is left alone. *)
Outcome_Successful(c, d) == "SUCCESSFUL"
Outcome_Unchanged(c, d) == row[d]
Outcome(c, d) == transfer[c]

Settle(n) ==
  LET c == About[n] IN
  /\ hpc[n] = "settle"
  /\ \E d \in Found(c) :
       /\ HasWallet(d)
       /\ balance' = Settled(c, d)
       /\ row' = [row EXCEPT ![d] = Outcome(c, d)]
       /\ IF transfer[c] = "FAILED"
          THEN refunds' = [refunds EXCEPT ![d] = @ + 1] /\ UNCHANGED <<charges, fees>>
          ELSE /\ charges' = [charges EXCEPT ![d] = @ + 1]
               /\ fees' = [fees EXCEPT ![job[d].wallet] = @ + Fee]
               /\ UNCHANGED refunds
  /\ Place(n, "answer")
  /\ UNCHANGED <<paidIn, paidOut, call, transfer, acked, intake, day, faults, gone,
                 causes, windows>>

(* A query fails, or the wallet is gone: nothing is written, the webhook is  *)
(* answered with 200.                                                        *)
Drop(n) ==
  LET c == About[n] IN
  /\ \/ hpc[n] \in {"lookup", "settle"} /\ Fault
     \/ /\ hpc[n] = "settle" /\ \E d \in Found(c) : ~HasWallet(d)
        /\ UNCHANGED faults
  /\ Place(n, "answer")
  /\ missed' = missed \cup {c}
  /\ UNCHANGED <<books, call, transfer, acked, intake, day, gone, told, overlapped,
                 unchecked, reversed, cut, windows>>

Answer(n) ==
  /\ hpc[n] = "answer"
  /\ Place(n, "done")
  /\ acked' = acked \cup {About[n]}
  /\ UNCHANGED <<books, call, transfer, intake, day, faults, gone, history>>
-------------------------------------------------------------------------------
(* Payments, days, deletions and crashes. *)

(* A payment moves its money into a business wallet ... *)
Collect(k, w, n) ==
  /\ taking[k] = NoTaking
  /\ taking' = [taking EXCEPT ![k] = [wallet |-> w, amount |-> n]]
  /\ unrowed' = unrowed \cup {k}
  /\ collected' = [collected EXCEPT ![w] = @ + n]
  /\ balance' = [balance EXCEPT ![w] = @ + n]
  /\ fresh' = [fresh EXCEPT ![w][0] = @ + n]
  /\ seen' = [c \in Calls |-> IF pc[c] = "balance" /\ job[c].wallet = w
                               THEN [seen[c] EXCEPT !.crossed = TRUE] ELSE seen[c]]
  /\ reversed' = IF n < 0 THEN reversed \cup {w} ELSE reversed
  /\ UNCHANGED <<row, paidIn, paidOut, pc, job, ref, transfer, hooks, day, faults, gone,
                 told, overlapped, unchecked, missed, cut, purged>>

(* ... and writes its row later, on this day or another, or never: the whole *)
(* of a payment is in Payments.                                              *)
WriteRow(k) ==
  LET w == taking[k].wallet  n == taking[k].amount IN
  /\ k \in unrowed /\ unrowed' = unrowed \ {k}
  /\ paidIn' = [paidIn EXCEPT ![w][0] = @ + n]
  /\ UNCHANGED <<balance, row, paidOut, call, transfer, hooks, taking, collected, day,
                 faults, gone, history>>

(* deleteStations: the rows of what a station has collected go with it (here *)
(* those of the days ks), the money stays.                                   *)
DeleteStation(w, ks) ==
  /\ Mishap /\ ks # {} /\ \A k \in ks : paidIn[w][k] # 0
  /\ paidIn' = [paidIn EXCEPT ![w] = [k \in Ages |-> IF k \in ks THEN 0 ELSE paidIn[w][k]]]
  /\ purged' = purged \cup {w}
  /\ UNCHANGED <<balance, row, paidOut, call, transfer, hooks, intake, day, faults, gone,
                 told, causes, fresh>>

(* DELETE user: its rows of withdrawals stay, with no wallet and no user. *)
DeleteUser(u) ==
  /\ u \notin gone /\ Mishap /\ gone' = gone \cup {u}
  /\ UNCHANGED <<books, call, transfer, hooks, intake, day, faults, history>>

Older(rows) == [w \in Wallets |-> [k \in Ages |-> IF k = 0 THEN 0 ELSE rows[w][k - 1]]]

NextDay ==
  /\ day < MaxDay /\ day' = day + 1
  /\ paidIn' = Older(paidIn)
  /\ paidOut' = Older(paidOut)
  /\ fresh' = Older(fresh)
  /\ UNCHANGED <<balance, row, call, transfer, hooks, intake, faults, gone, told, causes,
                 purged>>

(* The calls in flight are gone; a webhook that was not answered is         *)
(* delivered again, also one that had changed the wallet.                   *)
Crash ==
  LET lost == {c \in Calls : pc[c] \in Before \cup {"book"}} IN
  /\ lost # {} \/ \E n \in Notices : hpc[n] \in Handling
  /\ Fault
  /\ pc' = [c \in Calls |-> IF c \in lost THEN "lost" ELSE pc[c]]
  /\ seen' = [c \in Calls |-> IF c \in lost THEN NoSnapshot ELSE seen[c]]
  /\ job' = [c \in Calls |-> IF pc[c] \in Before THEN NoJob ELSE job[c]]
  /\ cut' = cut \cup {c \in lost : pc[c] = "book"}
  /\ hpc' = [n \in Notices |-> IF hpc[n] \in Handling THEN "free" ELSE hpc[n]]
  /\ UNCHANGED <<books, ref, transfer, acked, intake, day, gone, told, overlapped,
                 unchecked, reversed, missed, windows>>
-------------------------------------------------------------------------------
Step(c) == \/ Refuse(c) \/ ReadSum(c) \/ ReadBalance(c) \/ ReadFails(c)
           \/ CheckFunds(c) \/ Initiate(c) \/ Book(c) \/ BookFails(c)
Handle(n) == LookUp(n) \/ Settle(n) \/ Drop(n) \/ Answer(n)

Next ==
  \/ \E c \in Calls : \/ \E u \in Callers[c], n \in Amounts : StartWithdraw(c, u, n)
                      \/ Step(c) \/ Finish(c)
  \/ \E n \in Notices : Deliver(n) \/ Handle(n)
  \/ \E k \in Payments : \/ \E w \in BusinessWallets, n \in Takings : Collect(k, w, n)
                         \/ WriteRow(k)
  \/ \E w \in BusinessWallets, ks \in SUBSET Ages : DeleteStation(w, ks)
  \/ \E u \in Persons : DeleteUser(u)
  \/ NextDay \/ Crash

Spec == Init /\ [][Next]_vars

(* The event loop resumes every handler, and the processor delivers the      *)
(* webhook of every transfer until one delivery of it is answered.  Nothing  *)
(* is asked of the calls: they may stay where they are.                      *)
FairSpec == /\ Spec
            /\ \A n \in Notices : WF_vars(Handle(n))
            /\ \A c \in Calls :
                 WF_vars(c \notin acked /\ \E n \in Notices : About[n] = c /\ Deliver(n))
-------------------------------------------------------------------------------
(* Safety. *)

(* Beyond the processor's fees, a wallet is overdrawn only if a withdrawal   *)
(* from it was let through unchecked, or was booked while another relied on  *)
(* the balance, or a payment of a negative amount took money from it.        *)
OverdraftHasCause ==
  \A w \in Wallets :
    balance[w] + fees[w] < 0 => w \in overlapped \cup unchecked \cup reversed

(* A row tells of a transfer that was asked for, and is final exactly when a *)
(* delivery changed the wallet; then it says how a transfer of its reference *)
(* ended.                                                                    *)
RowsMatchTransfers ==
  \A c \in Calls :
    /\ row[c] # "none" => transfer[c] # "none"
    /\ row[c] \in Final <=> refunds[c] + charges[c] > 0
    /\ row[c] \in Final => \E d \in {c} \cup Twins(c) : row[c] = transfer[d]

(* What the processor has paid out is debited, and not given back, once the  *)
(* call has ended: unless a fault came between transfer and debit, the       *)
(* user's account was deleted, or a call of the same millisecond has the     *)
(* reference in its row, or a transfer that failed.                          *)
PaidOutIsDebited ==
  \A c \in Calls :
    (transfer[c] = "SUCCESSFUL" /\ pc[c] # "book") =>
      IF row[c] = "none"
      THEN \/ c \in cut \/ job[c].user \in gone
           \/ \E d \in Twins(c) : row[d] # "none"
      ELSE \/ refunds[c] = 0
           \/ \E d \in Twins(c) : transfer[d] = "FAILED"

(* What each call has drawn from wallet w: the amount of its row, less what  *)
(* deliveries gave back, and the fees they took.                             *)
Drawn(w) ==
  [c \in Calls |-> IF row[c] = "none" \/ job[c].wallet # w THEN 0
                   ELSE job[c].amount + charges[c] * Fee - refunds[c] * job[c].amount]

(* A wallet holds what it opened with and collected, less what the calls     *)
(* with a row have drawn from it.                                            *)
BalanceIsBooked ==
  \A w \in Wallets :
    balance[w] = Opening[w] + collected[w] - SumFunctionOnSet(Drawn(w), Calls)

(* business.service.ts:480: what a business withdraws leaves it the service   *)
(* fee and the money collected in the last two days, unless it was let       *)
(* through unchecked, a payment fell between the two queries or had not      *)
(* written its row at the first (it is in the balance and not in the sum), a *)
(* payment was negative, or a station was deleted with its rows.             *)
RecentIsHeldBack ==
  \A c \in Calls :
    (/\ pc[c] \in Relying /\ Business(c) /\ ~seen[c].crossed
     /\ job[c].wallet \notin unchecked \cup purged \cup reversed)
      => 100 * job[c].amount <= seen[c].promised

(* Why: the rows, and the payments that have none yet, are at least what was *)
(* collected since any day of the window, and a call has summed as much.     *)
UpTo(rows, k) == IF k = 0 THEN rows[0] ELSE IF k = 1 THEN rows[0] + rows[1] ELSE SumOf(rows)
OwedTo(w) == [k \in Payments |-> IF k \in unrowed /\ taking[k].wallet = w
                                 THEN taking[k].amount ELSE 0]
Owed(w) == SumFunctionOnSet(OwedTo(w), Payments)
RowsCover ==
  \A w \in Wallets \ (purged \cup reversed) :
    /\ \A k \in Payments : OwedTo(w)[k] >= 0
    /\ \A k \in Ages : fresh[w][k] >= 0
    /\ \A k \in Ages : UpTo(fresh[w], k) <= UpTo(paidIn[w], k) + Owed(w)
PromisesStand ==
  /\ RowsCover
  /\ \A c \in Calls :
       (/\ pc[c] \in {"balance", "check"} /\ Business(c) /\ ~seen[c].crossed
        /\ job[c].wallet \notin purged \cup reversed) =>
         /\ pc[c] = "balance" => SumOf(fresh[job[c].wallet]) <= seen[c].recent
         /\ pc[c] = "check" => seen[c].allowance <= seen[c].promised
  /\ RecentIsHeldBack

(* Why: what a call that nobody overlapped has read still holds.             *)
FundsStand ==
  \A c \in Calls :
    (pc[c] \in Relying /\ job[c].wallet \notin overlapped \cup unchecked \cup reversed) =>
      /\ job[c].amount <= seen[c].funds
      /\ seen[c].funds <= balance[job[c].wallet] + fees[job[c].wallet]
CallsStand ==
  \A c \in Calls :
    /\ pc[c] \in Before \cup Relying \/ transfer[c] # "none" => job[c] \in Jobs
    /\ pc[c] \in {"idle"} \cup Before => transfer[c] = "none" /\ ref[c] = NoRef
    /\ pc[c] \in {"idle", "book"} \cup Before => row[c] = "none"
    /\ pc[c] = "book" => transfer[c] # "none"
    /\ transfer[c] # "none" => ref[c] # NoRef
    /\ pc[c] \in Relying \/ transfer[c] # "none" => job[c].amount >= Minimum
NoticesStand ==
  \A n \in Notices :
    /\ hpc[n] \in Handling => transfer[About[n]] \in Final
    /\ hpc[n] = "settle" => Found(About[n]) # {}

(* Why: what a transfer that was accepted, or declined with data, has cost   *)
(* the wallet, at every moment after its call has ended.                     *)
RowlessHaveCause ==
  \A c \in Calls :
    (transfer[c] # "none" /\ pc[c] # "book" /\ row[c] = "none") =>
      \/ c \in cut \/ job[c].user \in gone
      \/ \E d \in Twins(c) : row[d] # "none"
RefundsHaveCause ==
  \A c \in Calls :
    refunds[c] > 0 => \E d \in {c} \cup Twins(c) : transfer[d] = "FAILED"
RowsStand == /\ RowsMatchTransfers /\ RowlessHaveCause /\ RefundsHaveCause
             /\ NoticesStand
WithdrawalsStand == OverdraftHasCause /\ RowsStand /\ FundsStand /\ CallsStand

(* The row that bears the reference of a transfer that ended becomes final,  *)
(* unless a delivery came before the row or failed.                          *)
EndedIsSettled ==
  \A c \in {About[n] : n \in Notices} :
    transfer[c] \in Final ~> (\E d \in Found(c) : row[d] \in Final) \/ c \in missed
-------------------------------------------------------------------------------
(* What the code's comments and messages say of it. *)

(* business.service.ts:480 "remove StarkPay's service fee and the money      *)
(* collected in the last 2 days": a business is told "Insufficient balance"  *)
(* only of money it has not got, or collected in the last two days.          *)
SettledMoneyIsWithdrawable ==
  \A c \in Calls :
    pc[c] = "short" => \/ 100 * job[c].amount > seen[c].promised
                       \/ job[c].amount > seen[c].funds
===============================================================================
