-------------------------------- MODULE Funding --------------------------------
(***************************************************************************)
(* Money that comes into a wallet: WalletService.fundWalletWithBankTransfer*)
(* and fundWalletWithCard, the charge at the payment processor, its        *)
(* webhooks (WebhooksService) and the event handler that credits the       *)
(* wallet (BankTransferEvent.handleChargeCompletedEvent).                  *)
(*                                                                         *)
(* A funding is known by its reference.  A bank reference belongs to a     *)
(* virtual account the API opened, and has a PENDING row before anybody    *)
(* can pay; a checkout reference belongs to a payment started on the       *)
(* client, and has no row.  Each notice is one delivery of a webhook; the  *)
(* processor may deliver a charge's webhook more than once and the server  *)
(* handles deliveries concurrently, each as a sequence of awaits.          *)
(*                                                                         *)
(* What is credited is the amount the webhook carries, which is what was   *)
(* paid and need not be what was asked for, to the user who has the        *)
(* webhook's email by then, who need not be the one who asked.             *)
(***************************************************************************)
EXTENDS Integers, FiniteSets, Functions

CONSTANTS Users,        \* each has one wallet
          Funders,      \* bound: the users who ask for a funding
          Emails,
          FirstEmail,   \* FirstEmail[u]: the email of u to begin with
          BankRefs,     \* references of virtual accounts, Flutterwave
          CheckoutRefs, \* references of checkouts, Paystack
          Notices,      \* bound: the deliveries of webhooks that can occur
          RefOf,        \* RefOf[n]: the charge delivery n is about
          Amounts,      \* that can be asked for; the API asks of no sign
          Payable,      \* that the processor takes
          FundCap,      \* 50000: the most one bank transfer may fund
          WalletCap,    \* 300000: the most a wallet may hold
          NoAsk, NoRecord, NoUser,
          MaxEdits,     \* bound: emails changed and accounts deleted
          MaxRepeats,   \* bound: deliveries of a webhook that was delivered before
          MaxFaults     \* bound: failed queries, lost answers and crashes

Refs == BankRefs \cup CheckoutRefs
(* The processor knows the user by the email they had when they asked.       *)
Asks == [user : Users, amount : Amounts, email : Emails]
(* A row of the database; of a user who is gone it names nobody.             *)
Records == [status : {"PENDING", "SUCCESSFUL"}, amount : Amounts \cup Payable,
            of : Users \cup {NoUser}]

ASSUME FiniteAssumption == IsFiniteSet(Refs)
ASSUME FundingAssumption ==
  /\ BankRefs \cap CheckoutRefs = {}
  /\ RefOf \in [Notices -> Refs]
  /\ Funders \subseteq Users
  /\ Amounts \subseteq Int /\ Payable \subseteq Nat \ {0}
  /\ {FundCap, WalletCap, MaxEdits, MaxRepeats, MaxFaults} \subseteq Nat
  /\ FirstEmail \in [Users -> Emails]
  /\ \A u, v \in Users : FirstEmail[u] = FirstEmail[v] => u = v
  /\ NoAsk \notin Asks /\ NoRecord \notin Records /\ NoUser \notin Users

VARIABLES
  balance,    \* balance[u]: the wallet of user u
  record,     \* record[r]: the row with reference r, or NoRecord
  rpc, ask,   \* rpc[r], ask[r]: the call that asked for the funding, and for what
  charge,     \* charge[r]: the charge at the processor
  paid,       \* paid[r]: the amount of the charge, 0 before it
  acked,      \* the charges with a webhook that was answered with 200
  hpc, known, \* hpc[n]: place of delivery n; known[n]: the status of the row it read
  found,      \* found[n]: the user it found by the email, or NoUser
  email,      \* email[u]
  gone,       \* the users who have deleted their accounts
  edits, faults,
  credits,    \* history: how often a wallet was credited for reference r
  raced,      \* history: references credited while another delivery relied on the row
  forfeited,  \* history: references with an acknowledged delivery that a fault ended
  had         \* history: had[u]: the emails u has had

calls == <<rpc, ask>>
processor == <<charge, paid, acked>>
hooks == <<hpc, known, found>>
people == <<email, gone, edits, had>>
history == <<credits, raced, forfeited>>
vars == <<balance, record, calls, processor, hooks, people, faults, history>>

Statuses == {"none", "PENDING", "SUCCESSFUL"}
Handling == {"lookup", "verify", "credit"}
Relying == {"verify", "credit"}

TypeOK ==
  /\ balance \in [Users -> Nat]
  /\ record \in [Refs -> Records \cup {NoRecord}]
  /\ rpc \in [Refs -> {"idle", "account", "record", "ok", "refused", "failed"}]
  /\ ask \in [Refs -> Asks \cup {NoAsk}]
  /\ \A r \in Refs : rpc[r] \in {"account", "record", "ok"} => ask[r] \in Asks
  /\ charge \in [Refs -> {"none", "paid", "failed"}]
  /\ paid \in [Refs -> Payable \cup {0}]
  /\ acked \subseteq Refs
  /\ hpc \in [Notices -> {"free", "done"} \cup Handling]
  /\ known \in [Notices -> Statuses]
  /\ found \in [Notices -> Users \cup {NoUser}]
  /\ email \in [Users -> Emails] /\ had \in [Users -> SUBSET Emails]
  /\ gone \subseteq Users
  /\ edits \in Nat /\ faults \in Nat
  /\ credits \in [Refs -> Nat]
  /\ raced \subseteq Refs
  /\ forfeited \subseteq Refs

Init ==
  /\ balance = [u \in Users |-> 0]
  /\ record = [r \in Refs |-> NoRecord]
  /\ rpc = [r \in Refs |-> "idle"]
  /\ ask = [r \in Refs |-> NoAsk]
  /\ charge = [r \in Refs |-> "none"] /\ paid = [r \in Refs |-> 0]
  /\ acked = {}
  /\ hpc = [n \in Notices |-> "free"]
  /\ known = [n \in Notices |-> "none"] /\ found = [n \in Notices |-> NoUser]
  /\ email = FirstEmail /\ had = [u \in Users |-> {FirstEmail[u]}]
  /\ gone = {} /\ edits = 0 /\ faults = 0
  /\ credits = [r \in Refs |-> 0]
  /\ raced = {} /\ forfeited = {}

Fault == faults < MaxFaults /\ faults' = faults + 1

Status(r) == IF record[r] = NoRecord THEN "none" ELSE record[r].status
-------------------------------------------------------------------------------
(* The calls that ask for a funding. *)

Goto(r, place) == rpc' = [rpc EXCEPT ![r] = place]
Ask(r, u, n) ==
  /\ rpc[r] = "idle" /\ u \notin gone
  /\ ask' = [ask EXCEPT ![r] = [user |-> u, amount |-> n, email |-> email[u]]]

(* The two limits of fundWalletWithBankTransfer, the second on the balance *)
(* the token guard read before the handler ran.                            *)
WithinCaps(u, n) == n <= FundCap /\ balance[u] + n <= WalletCap

(* fundWalletWithBankTransfer, also on behalf of a user by an agent. *)
AskForAccount(r, u, n) ==
  /\ r \in BankRefs /\ Ask(r, u, n)
  /\ Goto(r, IF WithinCaps(u, n) THEN "account" ELSE "refused")
  /\ UNCHANGED <<balance, record, processor, hooks, people, faults, history>>

(* VirtualAcct.create at the processor; when it fails the caller is told so. *)
OpenAccount(r) ==
  /\ rpc[r] = "account"
  /\ \/ Goto(r, "record") /\ UNCHANGED faults
     \/ Goto(r, "failed") /\ Fault
  /\ UNCHANGED <<balance, record, ask, processor, hooks, people, history>>

(* The PENDING row, then the answer with the account's number.  A user who   *)
(* is gone has no row, and the caller is told it failed.                     *)
RecordPending(r) ==
  /\ rpc[r] = "record"
  /\ \/ /\ ask[r].user \notin gone
        /\ record' = [record EXCEPT ![r] = [status |-> "PENDING", amount |-> ask[r].amount,
                                            of |-> ask[r].user]]
        /\ \/ Goto(r, "ok") /\ UNCHANGED faults
           \/ Goto(r, "failed") /\ Fault
     \/ /\ Goto(r, "failed") /\ UNCHANGED record
        /\ Fault \/ (ask[r].user \in gone /\ UNCHANGED faults)
  /\ UNCHANGED <<balance, ask, processor, hooks, people, history>>

(* fundWalletWithCard: the query is built and never sent, the answer is ok. *)
AskForCheckout(r, u, n) ==
  /\ r \in CheckoutRefs /\ Ask(r, u, n)
  /\ Goto(r, "ok")
  /\ UNCHANGED <<balance, record, processor, hooks, people, faults, history>>

(* The payer pays, what was asked for or another amount, or the processor    *)
(* declines; only an answered call told the payer where to pay.              *)
Pay(r, n) ==
  /\ rpc[r] = "ok" /\ charge[r] = "none"
  /\ \/ charge' = [charge EXCEPT ![r] = "paid"] /\ paid' = [paid EXCEPT ![r] = n]
     \/ charge' = [charge EXCEPT ![r] = "failed"] /\ UNCHANGED paid
  /\ UNCHANGED <<balance, record, calls, acked, hooks, people, faults, history>>

Edit == edits < MaxEdits /\ edits' = edits + 1

(* UserService.updateUser: no two users have one email. *)
UpdateUser(u, e) ==
  /\ Edit /\ u \notin gone
  /\ \A v \in Users \ gone : email[v] # e
  /\ email' = [email EXCEPT ![u] = e]
  /\ had' = [had EXCEPT ![u] = @ \cup {e}]
  /\ UNCHANGED <<balance, record, calls, processor, hooks, gone, faults, history>>

(* deleteUser: the wallet goes, and what was in it; the rows name nobody.    *)
DeleteUser(u) ==
  /\ Edit /\ u \notin gone
  /\ gone' = gone \cup {u}
  /\ record' = [r \in Refs |-> IF record[r] # NoRecord /\ record[r].of = u
                               THEN [record[r] EXCEPT !.of = NoUser] ELSE record[r]]
  /\ UNCHANGED <<balance, calls, processor, hooks, email, had, faults, history>>
-------------------------------------------------------------------------------
(* The webhook, from the delivery to the credit. *)

(* A handler that has returned keeps nothing of what it read. *)
Place(n, place) == hpc' = [hpc EXCEPT ![n] = place] /\ UNCHANGED <<known, found>>
Finish(n) ==
  /\ hpc' = [hpc EXCEPT ![n] = "done"]
  /\ known' = [known EXCEPT ![n] = "none"] /\ found' = [found EXCEPT ![n] = NoUser]
Ack(r) == acked' = acked \cup {r} /\ UNCHANGED <<charge, paid>>

(* The processor delivers a webhook, for the first time or once more. *)
Delivered == {n \in Notices : hpc[n] # "free"}
Repeated == Cardinality(Delivered) - Cardinality({RefOf[n] : n \in Delivered})
Deliver(n) ==
  /\ hpc[n] = "free" /\ charge[RefOf[n]] # "none"
  /\ RefOf[n] \in {RefOf[m] : m \in Delivered} => Repeated < MaxRepeats
  /\ Place(n, "lookup")
  /\ UNCHANGED <<balance, record, calls, processor, people, faults, history>>

UserOf(e) == IF \E u \in Users \ gone : email[u] = e
             THEN CHOOSE u \in Users \ gone : email[u] = e ELSE NoUser

(* The user with the charge's email is read and then, which no change of an  *)
(* email can disturb, the row with its reference.  A Paystack webhook that   *)
(* is not a charge.success is ignored; otherwise the event is emitted at     *)
(* once.                                                                     *)
LookUp(n) ==
  LET r == RefOf[n] IN
  /\ hpc[n] = "lookup"
  /\ IF r \in CheckoutRefs /\ charge[r] # "paid" THEN Finish(n)
     ELSE /\ hpc' = [hpc EXCEPT ![n] = IF r \in BankRefs THEN "verify" ELSE "credit"]
          /\ known' = [known EXCEPT ![n] = Status(r)]
          /\ found' = [found EXCEPT ![n] = UserOf(ask[r].email)]
  /\ IF r \in BankRefs THEN UNCHANGED processor ELSE Ack(r)
  /\ UNCHANGED <<balance, record, calls, people, faults, history>>

(* Mutant: the processor's answer is not looked at. *)
Verify_Unread(n) ==
  /\ hpc[n] = "verify"
  /\ Place(n, "credit") /\ Ack(RefOf[n])
  /\ UNCHANGED <<balance, record, calls, people, faults, history>>

(* CollectionAccountHelper.verifyTransaction asks the processor; only a     *)
(* charge it calls successful, of the webhook's amount, goes on: what was   *)
(* asked for is not looked at.  The webhook is answered with 200 when the   *)
(* event has been emitted, before the event is handled.                     *)
Verify(n) ==
  LET r == RefOf[n] IN
  /\ hpc[n] = "verify"
  /\ IF charge[r] = "paid" THEN Place(n, "credit") ELSE Finish(n)
  /\ Ack(r)
  /\ UNCHANGED <<balance, record, calls, people, faults, history>>

(* A failed query before the event, or a failed verification: the error is  *)
(* logged and the webhook answered with 200.                                *)
Drop(n) ==
  /\ hpc[n] \in Handling
  /\ Fault
  /\ Finish(n) /\ Ack(RefOf[n])
  /\ forfeited' = forfeited \cup {RefOf[n]}
  /\ UNCHANGED <<balance, record, calls, people, credits, raced>>

(* The row read by the webhook decides between updating and creating: a     *)
(* pending row has processorStatus "failed", its default.                   *)
(* Mutant: the processorStatus of the row is not compared. *)
Updates_AnyRow(n) == known[n] # "none"
Updates(n) == known[n] = "PENDING"

(* Creating a second row with the reference breaks its uniqueness and rolls *)
(* the credit back; without a user of that email, or with one who is gone   *)
(* by now, there is no wallet.                                              *)
(* Mutant: the row is always created.                                       *)
HasWallet(n) == found[n] # NoUser /\ found[n] \notin gone
CanCredit_CreateOnly(n) == record[RefOf[n]] = NoRecord /\ HasWallet(n)
CanCredit(n) == (Updates(n) \/ record[RefOf[n]] = NoRecord) /\ HasWallet(n)

ReliedOn(r, n) == \E m \in Notices \ {n} : hpc[m] \in Relying /\ RefOf[m] = r

(* An update leaves the amount and the user of the row as they were.         *)
(* Mutant: the row is made of what was asked for.                            *)
Settled_AsAsked(n) ==
  LET r == RefOf[n] IN
  IF Updates(n) THEN [record[r] EXCEPT !.status = "SUCCESSFUL"]
  ELSE [status |-> "SUCCESSFUL", amount |-> ask[r].amount, of |-> found[n]]
Settled(n) ==
  LET r == RefOf[n] IN
  IF Updates(n) THEN [record[r] EXCEPT !.status = "SUCCESSFUL"]
  ELSE [status |-> "SUCCESSFUL", amount |-> paid[r], of |-> found[n]]

(* handleChargeCompletedEvent: row and wallet in one database transaction. *)
Credit(n) ==
  LET r == RefOf[n] IN
  /\ hpc[n] = "credit"
  /\ CanCredit(n)
  /\ record' = [record EXCEPT ![r] = Settled(n)]
  /\ balance' = [balance EXCEPT ![found[n]] = @ + paid[r]]
  /\ credits' = [credits EXCEPT ![r] = @ + 1]
  /\ raced' = IF ReliedOn(r, n) THEN raced \cup {r} ELSE raced
  /\ Finish(n)
  /\ UNCHANGED <<calls, processor, people, faults, forfeited>>

CreditFails(n) ==
  /\ hpc[n] = "credit"
  /\ ~CanCredit(n)
  /\ Finish(n)
  /\ UNCHANGED <<balance, record, calls, processor, people, faults, history>>

(* The process stops: what it was handling is gone.  A webhook that was not *)
(* answered is delivered again by the processor, one whose event was not    *)
(* yet handled is not.                                                      *)
Crash ==
  /\ \/ \E n \in Notices : hpc[n] \in Handling
     \/ \E r \in Refs : rpc[r] \in {"account", "record"}
  /\ Fault
  /\ rpc' = [r \in Refs |-> IF rpc[r] \in {"account", "record"} THEN "failed"
                            ELSE rpc[r]]
  /\ hpc' = [n \in Notices |-> CASE hpc[n] \in {"lookup", "verify"} -> "free"
                                 [] hpc[n] = "credit" -> "done"
                                 [] OTHER -> hpc[n]]
  /\ known' = [n \in Notices |-> "none"] /\ found' = [n \in Notices |-> NoUser]
  /\ forfeited' = forfeited \cup
                    {RefOf[n] : n \in {m \in Notices : hpc[m] = "credit"}}
  /\ UNCHANGED <<balance, record, ask, processor, people, credits, raced>>
-------------------------------------------------------------------------------
Call(r) == OpenAccount(r) \/ RecordPending(r)
Handle(n) == LookUp(n) \/ Verify(n) \/ Drop(n) \/ Credit(n) \/ CreditFails(n)

Next ==
  \/ \E r \in Refs :
       \/ \E u \in Funders, a \in Amounts : AskForAccount(r, u, a) \/ AskForCheckout(r, u, a)
       \/ \E a \in Payable : Pay(r, a)
       \/ Call(r)
  \/ \E u \in Users : DeleteUser(u) \/ \E e \in Emails : UpdateUser(u, e)
  \/ \E n \in Notices : Deliver(n) \/ Handle(n)
  \/ Crash

Spec == Init /\ [][Next]_vars

(* The event loop goes on with the handlers, and the processor delivers the  *)
(* webhook of every charge until one delivery of it is answered.             *)
FairSpec ==
  /\ Spec
  /\ WF_vars(\E n \in Notices : Handle(n))
  /\ WF_vars(\E n \in Notices : RefOf[n] \notin acked /\ Deliver(n))
-------------------------------------------------------------------------------
(* Safety. *)

(* A wallet is credited more than once for a charge only if it has a row    *)
(* from the start and two deliveries of its webhook were handled at once:   *)
(* deliveries one after the other are recognised by the row's               *)
(* processorStatus, and crediting a charge without a row creates it, with a *)
(* unique reference.                                                        *)
CreditedTwiceNeedsRace == \A r \in Refs : credits[r] > 1 => r \in raced \ CheckoutRefs

(* A row is SUCCESSFUL exactly when a wallet was credited for it, and then   *)
(* the charge was paid.                                                      *)
CreditsMatchRows ==
  \A r \in Refs : /\ Status(r) = "SUCCESSFUL" <=> credits[r] > 0
                  /\ credits[r] > 0 => charge[r] = "paid"

(* What the SUCCESSFUL rows that name user u come to.                        *)
RowsOf(u) ==
  [r \in Refs |-> IF Status(r) = "SUCCESSFUL" /\ record[r].of = u
                  THEN record[r].amount ELSE 0]

(* Where the money of a bank transfer and its row may part: it was credited  *)
(* more than once, another amount was paid than the row was written for, or  *)
(* another user has come to have the email it was asked with.                *)
Astray(r) ==
  /\ r \in BankRefs /\ charge[r] = "paid"
  /\ \/ r \in raced
     \/ record[r].amount # paid[r]
     \/ \E v \in Users \ {ask[r].user} : ask[r].email \in had[v]

(* A wallet holds what its SUCCESSFUL rows come to, whatever is paid, edited *)
(* and deleted meanwhile, unless money of a bank transfer went astray that   *)
(* names the user or was asked for with an email they have had.              *)
BalanceIsRows ==
  \A u \in Users \ gone :
    \/ balance[u] = SumFunctionOnSet(RowsOf(u), Refs)
    \/ \E r \in Refs : Astray(r) /\ (record[r].of = u \/ ask[r].email \in had[u])

(* Why: what an unraced delivery has read of the row still holds; a row is   *)
(* written before anybody can pay, and names who asked until they are gone;  *)
(* who is found by an email has had it.                                      *)
DeliveriesStand ==
  \A n \in Notices :
    LET r == RefOf[n] IN
    /\ hpc[n] \in Handling => charge[r] # "none"
    /\ (hpc[n] \in Relying /\ r \notin raced) => known[n] = Status(r)
    /\ (hpc[n] \in Relying /\ r \in CheckoutRefs) => known[n] # "PENDING"
    /\ hpc[n] = "credit" => charge[r] = "paid"
    /\ (hpc[n] \in Relying /\ found[n] # NoUser) => ask[r].email \in had[found[n]]
RowsStand ==
  /\ \A u \in Users : email[u] \in had[u]
  /\ \A r \in Refs :
       /\ charge[r] # "none" => rpc[r] = "ok"
       /\ charge[r] = "paid" => paid[r] \in Payable
       /\ rpc[r] \in {"idle", "account", "record"} => record[r] = NoRecord
       /\ r \in CheckoutRefs => Status(r) # "PENDING" /\ rpc[r] \in {"idle", "ok"}
       /\ (r \in BankRefs /\ rpc[r] = "ok") =>
            /\ record[r] # NoRecord
            /\ record[r].of = ask[r].user \/ (record[r].of = NoUser /\ ask[r].user \in gone)
CreditsStand ==
  /\ CreditedTwiceNeedsRace /\ CreditsMatchRows
  /\ DeliveriesStand /\ RowsStand

(* Who asked is there under the email they asked with.                       *)
Findable(r) ==
  ask[r] # NoAsk /\ ask[r].user \notin gone /\ email[ask[r].user] = ask[r].email

(* A paid charge of a user who is there under that email from then on is    *)
(* credited, unless a fault ended a delivery that had been answered with 200.*)
PaidIsCredited ==
  \A r \in Refs :
    \/ charge[r] = "paid" ~> credits[r] > 0 \/ r \in forfeited
    \/ <>(charge[r] = "paid" /\ ~Findable(r))
===============================================================================
