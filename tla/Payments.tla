------------------------------- MODULE Payments -------------------------------
(***************************************************************************)
(* PaymentService.collectPayment and PaymentService.sendPayment            *)
(* (src/src/payment/payment.service.ts), the daily reset of the stations   *)
(* (src/src/common/cron/cron.service.ts), the deletion of the stations,    *)
(* cards and users that payments refer to, and the database and process    *)
(* failures they meet.                                                     *)
(*                                                                         *)
(* The server runs many calls at once and switches between them at every   *)
(* await.  A call reads its rows, verifies the card's key and the PIN,     *)
(* checks what it READ, and only then moves the money; a last, separate    *)
(* statement writes the transaction record.  pc[p] is the place of call p  *)
(* in that sequence.                                                       *)
(***************************************************************************)
EXTENDS Integers, FiniteSets, Functions

CONSTANTS Calls,        \* calls of the two endpoints
          Wallets,      \* rows of the wallets table
          Cards,        \* rows of the cards table
          FundedCards,  \* the cards whose balance column is not null
          CardWallet,   \* CardWallet[c]: the wallet of card c
          Usable,       \* the cards that are active and have an owner
          Stations,     \* collectors that log in as a station of a business
          Merchants,    \* collectors that log in as a user
          Home,         \* Home[k]: the wallet collector k collects into
          FixedAmount,  \* FixedAmount[s]: the fixed price of station s, or NoPrice
          Personal,     \* the wallets that belong to a user, not to a business
          Owner,        \* Owner[c]: the wallet of the user who owns card c
          Amounts,      \* the amounts that are asked for; the DTOs take any number
          Cap,          \* 15000: the largest amount a collection may ask for
          DailyLimit,   \* 50000: what a wallet's cards may spend in a day
          Naira,        \* how many units of the model make one naira
          Opening,      \* Opening[a]: the balance account a starts with
          NoStation, NoCard, NoWallet, NoJob, NoPrice, NoRef,
          MaxTick,      \* bound: milliseconds that pass, midnight's included
          MaxDay,       \* bound: days that pass
          MaxMishaps    \* bound: database errors, crashes and things deleted

Collectors == Stations \cup Merchants
Accounts == Wallets \cup FundedCards
Charges == Amounts \cup (Range(FixedAmount) \ {NoPrice})

ASSUME CardAssumption ==
  /\ FundedCards \subseteq Cards
  /\ Usable \subseteq Cards
  /\ CardWallet \in [Cards -> Wallets]
  /\ Owner \in [Cards -> Wallets]
  /\ Personal \subseteq Wallets
  /\ NoCard \notin Cards
  /\ Wallets \cap Cards = {}
ASSUME CollectorAssumption ==
  /\ Home \in [Collectors -> Wallets \cup {NoWallet}]
  /\ NoWallet \notin Wallets
  /\ Stations \cap Merchants = {}
  /\ NoStation \notin Stations
  /\ FixedAmount \in [Stations -> Int \cup {NoPrice}]
ASSUME FiniteAssumption ==
  IsFiniteSet(Calls) /\ IsFiniteSet(Wallets) /\ IsFiniteSet(FundedCards)
ASSUME AmountAssumption ==
  /\ Amounts \subseteq Int
  /\ Opening \in [Accounts -> Nat]
  /\ {Cap, DailyLimit, MaxTick, MaxDay, MaxMishaps} \subseteq Nat
  /\ Naira \in Nat \ {0}

Jobs == [card : Cards \cup {NoCard}, from : Accounts, to : Wallets,
         till : Stations \cup {NoStation}, amount : Charges]
ASSUME JobAssumption == NoJob \notin Jobs

VARIABLES
  balance,      \* balance[a]: the balance column of a wallet or of a funded card
  total,        \* total[w]: wallets.totalTransactionAmountToday
  latest,       \* latest[w]: the day of wallets.latestTransactionTimestamp, 0 if null
  dailyBalance, \* dailyBalance[s]: stations.dailyBalance
  trx,          \* the rows of the transactions table
  gone,         \* the stations, cards and wallets that were deleted
  today, tick,  \* the date, and the millisecond Date.now() returns
  swept,        \* the last day on which the midnight job ran
  faults,       \* database errors and crashes so far
  pc,           \* pc[p]: how far call p has come
  job,          \* job[p]: what call p was asked to do
  seen,         \* seen[p]: what call p read of the account it will debit, and,
                \* once it has checked the limit, the total and day it goes by
  ref,          \* ref[p]: the reference call p made for its row
  settledOn,    \* history: the day call p moved its money, 0 if it has not
  spent,        \* history: the payments of wallet w's cards today, added up
  overlapped,   \* history: accounts debited while another call relied on them
  drained,      \* history: accounts that a negative amount took money from
  stray         \* history: wallets with a payment of today whose amount was
                \* negative, or which was checked on an earlier day

rows == <<balance, total, latest, dailyBalance>>
clock == <<today, tick>>
history == <<settledOn, spent, overlapped, drained, stray>>
vars == <<rows, trx, gone, clock, swept, faults, pc, job, seen, ref, history>>

Reading == {"check", "commit"}           \* between the snapshot and the commit
InFlight == {"card", "record"} \cup Reading
Ended == {"ok", "refused", "failed", "lost"}

Snapshots == [funds : Int, total : Int, day : Nat]
NoSnapshot == [funds |-> 0, total |-> 0, day |-> 0]
Kinds == {"payment", "transfer"}
Moves == [by : Calls, from : Accounts, to : Wallets, amount : Charges]
References == Kinds \X Nat
ASSUME ReferenceAssumption == NoRef \notin References
Rows == [ref : References, entry : Moves]

IsSend(p) == job[p].card = NoCard
FromWallet(p) == job[p].from \in Wallets
Settled(p) == settledOn[p] > 0
Entry(p) == [by |-> p, from |-> job[p].from, to |-> job[p].to,
             amount |-> job[p].amount]
Booked(p) == \E t \in trx : t.entry.by = p

TypeOK ==
  /\ balance \in [Accounts -> Int]
  /\ total \in [Wallets -> Int]
  /\ latest \in [Wallets -> Nat]
  /\ dailyBalance \in [Stations -> Int]
  /\ trx \subseteq Rows
  /\ gone \subseteq Stations \cup Cards \cup Wallets
  /\ today \in Nat \ {0}
  /\ tick \in Nat
  /\ swept \in Nat
  /\ faults \in Nat
  /\ pc \in [Calls -> {"idle"} \cup InFlight \cup Ended]
  /\ job \in [Calls -> Jobs \cup {NoJob}]
  /\ \A p \in Calls : /\ pc[p] \in InFlight => job[p] \in Jobs
                      /\ pc[p] = "record" => ref[p] \in References
  /\ seen \in [Calls -> Snapshots]
  /\ ref \in [Calls -> References \cup {NoRef}]
  /\ settledOn \in [Calls -> Nat]
  /\ spent \in [Wallets -> Nat]
  /\ overlapped \subseteq Accounts
  /\ drained \subseteq Accounts
  /\ stray \subseteq Wallets

Init ==
  /\ balance = Opening
  /\ total = [w \in Wallets |-> 0]
  /\ latest = [w \in Wallets |-> 0]
  /\ dailyBalance = [s \in Stations |-> 0]
  /\ trx = {} /\ gone = {}
  /\ today = 1 /\ tick = 0 /\ swept = 1 /\ faults = 0
  /\ pc = [p \in Calls |-> "idle"]
  /\ job = [p \in Calls |-> NoJob]
  /\ seen = [p \in Calls |-> NoSnapshot]
  /\ ref = [p \in Calls |-> NoRef]
  /\ settledOn = [p \in Calls |-> 0]
  /\ spent = [w \in Wallets |-> 0]
  /\ overlapped = {} /\ drained = {} /\ stray = {}
-------------------------------------------------------------------------------
(* The start of a call. *)

(* The columns of account a that a call bases its decisions on. *)
Snapshot(a) == [funds |-> balance[a],
                total |-> IF a \in Wallets THEN total[a] ELSE 0,
                day   |-> IF a \in Wallets THEN latest[a] ELSE 0]

(* card.balance if the card has one, else the balance of its wallet. *)
Source(c) == IF c \in FundedCards THEN c ELSE CardWallet[c]

(* A station with a fixed price charges it, whatever the caller asked for. *)
Charge(k, asked) ==
  IF k \in Stations /\ FixedAmount[k] # NoPrice THEN FixedAmount[k] ELSE asked

Goto(p, place) == pc' = [pc EXCEPT ![p] = place]

(* Past its commit, or its end, a call makes no use of what it read. *)
Forget(p) == seen' = [seen EXCEPT ![p] = NoSnapshot]

(* The collector can log in and has a wallet to collect into. *)
CanCollect(k) == k \notin gone /\ Home[k] # NoWallet /\ Home[k] \notin gone

(* collectPayment up to the collector's wallet: the cap is compared with the *)
(* amount asked for, then the charge and the wallet are looked up.           *)
StartCollect(p, k, c, asked) ==
  /\ pc[p] = "idle"
  /\ asked <= Cap
  /\ CanCollect(k)
  /\ job' = [job EXCEPT ![p] =
       [card |-> c, from |-> Source(c), to |-> Home[k],
        till |-> IF k \in Stations THEN k ELSE NoStation,
        amount |-> Charge(k, asked)]]
  /\ Goto(p, "card")
  /\ UNCHANGED <<rows, trx, gone, clock, swept, faults, seen, ref, history>>

RefuseCollect(p, k, asked) ==
  /\ pc[p] = "idle"
  /\ asked > Cap \/ ~CanCollect(k)
  /\ Goto(p, "refused")
  /\ UNCHANGED <<rows, trx, gone, clock, swept, faults, job, seen, ref, history>>

(* The card and the account it is charged to are there. *)
CanPay(p) == job[p].card \in Usable \ gone /\ job[p].from \notin gone

(* The card, its wallet and its owner are read in one query. *)
ReadCard(p) ==
  /\ pc[p] = "card"
  /\ CanPay(p)
  /\ seen' = [seen EXCEPT ![p] = Snapshot(job[p].from)]
  /\ Goto(p, "check")
  /\ UNCHANGED <<rows, trx, gone, clock, swept, faults, job, ref, history>>

(* sendPayment: the sender's wallet was read by the token guard, before the *)
(* handler ran; the recipient is looked up next.                            *)
StartSend(p, a, b, n) ==
  /\ pc[p] = "idle"
  /\ a \notin gone
  /\ job' = [job EXCEPT ![p] = [card |-> NoCard, from |-> a, to |-> b,
                                till |-> NoStation, amount |-> n]]
  /\ seen' = [seen EXCEPT ![p] = Snapshot(a)]
  /\ Goto(p, "check")
  /\ UNCHANGED <<rows, trx, gone, clock, swept, faults, ref, history>>
-------------------------------------------------------------------------------
(* The decision, taken on the snapshot. *)

(* Mutant: the balance check is gone. *)
Covered_Dropped(p) == TRUE
Covered(p) == job[p].amount <= seen[p].funds

(* The day's total starts again when the last payment was on another day. *)
(* Mutant: the days are compared the wrong way round. *)
TotalToday_Inverted(p) == IF seen[p].day # today THEN seen[p].total ELSE 0
TotalToday(p) == IF seen[p].day = today THEN seen[p].total ELSE 0

WithinLimit(p) ==
  (~IsSend(p) /\ FromWallet(p)) => TotalToday(p) + job[p].amount <= DailyLimit

(* The recipient of a transfer has just been looked up.  The check, and the  *)
(* new Date() that will be written, run together before the next await.      *)
Approve(p) ==
  /\ pc[p] = "check"
  /\ IsSend(p) => job[p].to \notin gone
  /\ Covered(p)
  /\ WithinLimit(p)
  /\ seen' = [seen EXCEPT ![p].total = TotalToday(p), ![p].day = today]
  /\ Goto(p, "commit")
  /\ UNCHANGED <<rows, trx, gone, clock, swept, faults, job, ref, history>>

(* The card cannot be used; or the card's key or the PIN does not match, the *)
(* recipient is unknown, or a check fails.  Key, PIN and recipient are       *)
(* inputs of the call, so any call may end here.                             *)
Refuse(p) ==
  /\ \/ pc[p] = "card" /\ ~CanPay(p)
     \/ pc[p] = "check"
  /\ job' = [job EXCEPT ![p] = NoJob] /\ Forget(p)
  /\ Goto(p, "refused")
  /\ UNCHANGED <<rows, trx, gone, clock, swept, faults, ref, history>>
-------------------------------------------------------------------------------
(* The database transaction that moves the money. *)

(* Money from a wallet's card: the payer's counters and the station's balance *)
(* are updated in the same transaction.                                       *)
Counted(p) == ~IsSend(p) /\ FromWallet(p)

(* The transaction updates rows by their ids and rolls back if one is gone.   *)
(* A merchant has no row in stations, so that update fails; a total with kobo *)
(* fails too, the column being an integer.                                    *)
CanCommit(p) ==
  /\ {job[p].from, job[p].to} \cap gone = {}
  /\ Counted(p) => job[p].till \in Stations \ gone /\ job[p].amount % Naira = 0

(* Mutant: the collector's wallet is not credited. *)
Moved_OneLeg(bal, a, b, n) == [bal EXCEPT ![a] = @ - n]
Moved(bal, a, b, n) == [bal EXCEPT ![a] = @ - n, ![b] = @ + n]

Debit(p) == balance' = Moved(balance, job[p].from, job[p].to, job[p].amount)

CountForTheDay(p) ==
  LET w == job[p].from  n == job[p].amount IN
  /\ total' = [total EXCEPT ![w] = seen[p].total + n]
  /\ latest' = [latest EXCEPT ![w] = seen[p].day]
  /\ dailyBalance' = [dailyBalance EXCEPT ![job[p].till] = @ + n]

(* A payment of a negative amount takes nothing back of what was spent. *)
Gross(n) == IF n > 0 THEN n ELSE 0

(* Another call has read account a and not yet committed or given up. *)
ReliedOn(a, p) == \E q \in Calls \ {p} : pc[q] \in Reading /\ job[q].from = a

(* The payment of wallet w's card made room under the limit, or was checked, *)
(* and dated, before the last midnight.                                      *)
IsStray(p) == Counted(p) /\ (job[p].amount < 0 \/ seen[p].day < today)

Settle(p) ==
  LET w == job[p].from IN
  /\ pc[p] = "commit"
  /\ CanCommit(p)
  /\ Debit(p)
  /\ IF Counted(p)
     THEN /\ CountForTheDay(p)
          /\ spent' = [spent EXCEPT ![w] = @ + Gross(job[p].amount)]
     ELSE UNCHANGED <<total, latest, dailyBalance, spent>>
  /\ settledOn' = [settledOn EXCEPT ![p] = today]
  /\ overlapped' = IF ReliedOn(w, p) THEN overlapped \cup {w} ELSE overlapped
  /\ drained' = IF job[p].amount < 0 THEN drained \cup {job[p].to} ELSE drained
  /\ stray' = IF IsStray(p) THEN stray \cup {w} ELSE stray
  /\ Forget(p)
  /\ UNCHANGED <<trx, gone, clock, swept, job>>

(* There is room for another error or deletion. *)
Mishap == faults + Cardinality(gone) < MaxMishaps

Fault == Mishap /\ faults' = faults + 1

(* TransactionReferenceHelper.generate: the kind and the millisecond. *)
Reference(p) == <<IF IsSend(p) THEN "transfer" ELSE "payment", tick>>

(* The call hears that the money has moved and makes a reference for its row. *)
Commit(p) ==
  /\ Settle(p)
  /\ ref' = [ref EXCEPT ![p] = Reference(p)]
  /\ Goto(p, "record") /\ UNCHANGED faults

(* Mutant: the call tries again after a lost connection. *)
CommitUnheard_Retried(p) == Settle(p) /\ Goto(p, "commit") /\ Fault /\ UNCHANGED ref

(* The database commits and the connection breaks before it says so. *)
CommitUnheard(p) == Settle(p) /\ Goto(p, "failed") /\ Fault /\ UNCHANGED ref

(* Mutant: a constraint that fails is waited for. *)
Abort_OnFaultOnly(p) ==
  /\ pc[p] = "commit"
  /\ CanCommit(p) /\ Fault
  /\ Forget(p) /\ Goto(p, "failed")
  /\ UNCHANGED <<rows, trx, gone, clock, swept, job, ref, history>>

(* The transaction rolls back: a constraint, a deadlock, a lost connection. *)
Abort(p) ==
  /\ pc[p] = "commit"
  /\ (~CanCommit(p) /\ UNCHANGED faults) \/ (CanCommit(p) /\ Fault)
  /\ Forget(p) /\ Goto(p, "failed")
  /\ UNCHANGED <<rows, trx, gone, clock, swept, job, ref, history>>
-------------------------------------------------------------------------------
(* The record of the payment, a statement of its own. *)

(* What the row of call p refers to. *)
Named(p) == IF IsSend(p) THEN {job[p].from, job[p].to}
            ELSE {job[p].card, CardWallet[job[p].card], Owner[job[p].card],
                  job[p].to, job[p].till}

(* Mutant: the millisecond alone is unique. *)
CanRecord_WithoutKind(p) ==
  /\ \A t \in trx : t.ref[2] # ref[p][2]
  /\ IsSend(p) \/ job[p].till \in Stations
  /\ Named(p) \cap gone = {}

(* The reference is unique, stationId must name a station, and every other   *)
(* row that is referred to must be there.                                    *)
CanRecord(p) == /\ \A t \in trx : t.ref # ref[p]
                /\ IsSend(p) \/ job[p].till \in Stations
                /\ Named(p) \cap gone = {}

Write(p) == /\ pc[p] = "record"
            /\ CanRecord(p)
            /\ trx' = trx \cup {[ref |-> ref[p], entry |-> Entry(p)]}
            /\ UNCHANGED <<rows, gone, clock, swept, job, seen, ref, history>>

Record(p) == Write(p) /\ Goto(p, "ok") /\ UNCHANGED faults

RecordUnheard(p) == Write(p) /\ Goto(p, "failed") /\ Fault

(* Mutant: a row that could not be written is not reported. *)
RecordFails_Silent(p) ==
  /\ pc[p] = "record"
  /\ (~CanRecord(p) /\ UNCHANGED faults) \/ (CanRecord(p) /\ Fault)
  /\ Goto(p, "ok")
  /\ UNCHANGED <<rows, trx, gone, clock, swept, job, seen, ref, history>>

RecordFails(p) ==
  /\ pc[p] = "record"
  /\ (~CanRecord(p) /\ UNCHANGED faults) \/ (CanRecord(p) /\ Fault)
  /\ Goto(p, "failed")
  /\ UNCHANGED <<rows, trx, gone, clock, swept, job, seen, ref, history>>
-------------------------------------------------------------------------------
(* Deletions.  A deleted account takes its balance with it; here it keeps the *)
(* balance it had, so that what was moved can still be added up.              *)

Delete(X) ==
  /\ X \cap gone = {}
  /\ Mishap
  /\ gone' = gone \cup X
  /\ UNCHANGED <<rows, clock, swept, faults, pc, job, seen, ref, history>>

(* BusinessService.deleteStations: the station's rows go with it. *)
DeleteStation(s) ==
  /\ Delete({s})
  /\ trx' = {t \in trx : job[t.entry.by].till # s}

(* CardService.deleteNFCCard: rows that named the card stay. *)
DeleteCard(c) == Delete({c}) /\ UNCHANGED trx

(* UserService.deleteUser: the user's wallet and cards go, the rows stay. *)
DeleteUser(w) ==
  /\ w \notin gone
  /\ Delete({w} \cup ({c \in Cards : Owner[c] = w} \ gone))
  /\ UNCHANGED trx
-------------------------------------------------------------------------------
(* Time, the midnight job and crashes. *)

Tick == /\ tick < MaxTick
        /\ tick' = tick + 1
        /\ UNCHANGED <<rows, trx, gone, today, swept, faults, pc, job, seen, ref,
                        history>>

Midnight == /\ today < MaxDay /\ tick < MaxTick
            /\ today' = today + 1
            /\ tick' = tick + 1
            /\ spent' = [w \in Wallets |-> 0] /\ stray' = {}
            /\ UNCHANGED <<rows, trx, gone, swept, faults, pc, job, seen, ref,
                           settledOn, overlapped, drained>>

(* Mutant: the job leaves the balances as they are. *)
ResetStationBalances_NoReset ==
  /\ swept < today
  /\ swept' = today
  /\ UNCHANGED <<rows, trx, gone, clock, faults, pc, job, seen, ref, history>>

(* CronService.resetStationBalances, once a day and some time after midnight; *)
(* an error is logged and the job waits for the next midnight.                *)
ResetStationBalances ==
  /\ swept < today
  /\ swept' = today
  /\ \/ /\ dailyBalance' = [s \in Stations |-> 0]
        /\ UNCHANGED faults
     \/ Fault /\ UNCHANGED dailyBalance
  /\ UNCHANGED <<balance, total, latest, trx, gone, clock, pc, job, seen, ref, history>>

(* The process stops and is started again: the calls in flight are gone. *)
Crash ==
  /\ \E p \in Calls : pc[p] \in InFlight
  /\ Fault
  /\ pc' = [p \in Calls |-> IF pc[p] \in InFlight THEN "lost" ELSE pc[p]]
  /\ job' = [p \in Calls |-> IF Settled(p) \/ pc[p] \notin InFlight
                              THEN job[p] ELSE NoJob]
  /\ seen' = [p \in Calls |-> NoSnapshot]
  /\ UNCHANGED <<rows, trx, gone, clock, swept, ref, history>>
-------------------------------------------------------------------------------
Start(p) ==
  \/ \E k \in Collectors, asked \in Amounts :
       RefuseCollect(p, k, asked) \/ \E c \in Cards : StartCollect(p, k, c, asked)
  \/ \E a, b \in Personal, n \in Amounts : StartSend(p, a, b, n)

Step(p) == \/ ReadCard(p) \/ Approve(p) \/ Refuse(p)
           \/ Commit(p) \/ CommitUnheard(p) \/ Abort(p)
           \/ Record(p) \/ RecordUnheard(p) \/ RecordFails(p)

Next == \/ \E p \in Calls : Start(p) \/ Step(p)
        \/ \E s \in Stations : DeleteStation(s)
        \/ \E c \in Cards : DeleteCard(c)
        \/ \E w \in Personal : DeleteUser(w)
        \/ Tick \/ Midnight \/ ResetStationBalances \/ Crash

Spec == Init /\ [][Next]_vars

(* The event loop resumes every call whose await is over. *)
FairSpec == Spec /\ \A p \in Calls : WF_vars(Step(p))
-------------------------------------------------------------------------------
(* Safety. *)

(* An account is overdrawn only if a call debited it while another call was *)
(* relying on an earlier reading of it, or a payment of a negative amount   *)
(* took money from its recipient: otherwise the balance check of            *)
(* collectPayment and sendPayment is enough.                                *)
OverdraftNeedsCause ==
  \A a \in Accounts : balance[a] < 0 => a \in overlapped \/ a \in drained

(* The cards of a wallet spend more than the daily limit only if calls      *)
(* overlapped on it or a payment of today was stray: otherwise the counter, *)
(* its reset on a new day and the check of collectPayment are right,        *)
(* whatever other debits, midnights, deletions and failures come between.   *)
LimitNeedsCause ==
  \A w \in Wallets : spent[w] > DailyLimit => w \in overlapped \/ w \in stray

(* Why: what an undisturbed call has read still holds when it commits.      *)
FundsStand ==
  \A p \in Calls :
    /\ pc[p] \in Reading =>
         \/ seen[p].funds <= balance[job[p].from]
         \/ job[p].from \in overlapped \/ job[p].from \in drained
    /\ pc[p] = "commit" => job[p].amount <= seen[p].funds
TotalStands ==
  \A p \in Calls :
    LET w == job[p].from IN
    (pc[p] \in Reading /\ Counted(p) /\ w \notin overlapped) =>
      \/ pc[p] = "check" /\ seen[p].total = total[w] /\ seen[p].day = latest[w]
      \/ /\ pc[p] = "commit"
         /\ seen[p].total + job[p].amount <= DailyLimit
         /\ seen[p].day = today => spent[w] <= seen[p].total \/ w \in stray
CountersStand ==
  \A w \in Wallets :
    /\ latest[w] <= today
    /\ w \in overlapped \/ w \in stray
         \/ IF latest[w] = today THEN spent[w] <= total[w] ELSE spent[w] = 0
DaysStand == \A p \in Calls : seen[p].day <= today
Undisturbed == /\ OverdraftNeedsCause /\ LimitNeedsCause
               /\ FundsStand /\ TotalStands /\ CountersStand /\ DaysStand

(* A row of the transactions table is a move of money that took place, from *)
(* the same account, to the same wallet and of the same amount, and no call *)
(* has two rows.                                                            *)
RowsAreMoves ==
  /\ \A t \in trx : Settled(t.entry.by) /\ t.entry = Entry(t.entry.by)
  /\ \A t, u \in trx : t.ref = u.ref \/ t.entry.by = u.entry.by => t = u

(* "Payment Successful" is said of a payment that moved its money and has a *)
(* row, unless its station was deleted since; a refusal, and a call that    *)
(* has not reached its commit, of one that moved nothing; a call about to   *)
(* write its row has not written it before.                                 *)
AnswersAreTrue ==
  \A p \in Calls :
    /\ pc[p] \in {"idle", "card", "refused"} \cup Reading => ~Settled(p)
    /\ pc[p] = "record" => Settled(p) /\ ~Booked(p)
    /\ pc[p] = "ok" => Settled(p) /\ (Booked(p) \/ job[p].till \in gone)

(* With no fault, a call that moved money and was then told it failed is a  *)
(* merchant's, or another call made the same reference, or something its    *)
(* row refers to was deleted.                                               *)
UnbookedNeedsCause ==
  \A p \in Calls :
    (pc[p] = "failed" /\ Settled(p) /\ faults = 0) =>
      \/ ~IsSend(p) /\ job[p].till = NoStation
      \/ \E q \in Calls \ {p} : ref[q] = ref[p]
      \/ Named(p) \cap gone # {}

(* Payments move money between accounts and neither make nor destroy it,   *)
(* whatever fails and whichever calls overlap.                             *)
Conservation ==
  SumFunctionOnSet(balance, Accounts) = SumFunctionOnSet(Opening, Accounts)

(* What the wallet card of call p paid station s since day d.              *)
PaidSince(d, s) ==
  [p \in Calls |-> IF settledOn[p] >= d /\ job[p].till = s /\ Counted(p)
                   THEN Gross(job[p].amount) ELSE 0]

(* Once the midnight job has run, a station's daily balance holds nothing  *)
(* of an earlier day: it is at most what its wallet cards paid today.      *)
TillCountsToday ==
  \A s \in Stations :
    (faults = 0 /\ swept = today)
      => dailyBalance[s] <= SumFunctionOnSet(PaidSince(today, s), Calls)

(* Why: without a fault it is at most what they paid since the last sweep. *)
TillStands ==
  /\ 0 < swept /\ swept <= today
  /\ \A s \in Stations :
       faults = 0 => dailyBalance[s] <= SumFunctionOnSet(PaidSince(swept, s), Calls)

(* What a call does is what Ledger allows: one move of money, all of it in  *)
(* one step and at most once, and a row only after the move.                *)
LedgerView ==
  INSTANCE Ledger WITH Amounts <- Charges,
                       moves <- {Entry(p) : p \in {q \in Calls : Settled(q)}},
                       book <- {t.entry : t \in trx}
ImplementsLedger == LedgerView!Spec

(* Every call that begins is answered, unless the process is lost with it.  *)
Answered == \A p \in Calls : pc[p] # "idle" ~> pc[p] \in Ended
-------------------------------------------------------------------------------
(* What the code's comments and messages say of it. *)

(* payment.service.ts:75 "handle if collection is by merchant": with no     *)
(* fault, an only call by a merchant does not end in failure.               *)
MerchantsCollect ==
  \A p \in Calls :
    (pc[p] = "failed" /\ faults = 0 /\ gone = {} /\ job[p].amount % Naira = 0
       /\ \A q \in Calls \ {p} : pc[q] = "idle")
      => IsSend(p) \/ job[p].till # NoStation
===============================================================================
