---------------------------- MODULE FundingProofs -----------------------------
(***************************************************************************)
(* Theorems about Funding, for every number of users, references and       *)
(* deliveries and every setting of the caps.                               *)
(***************************************************************************)
EXTENDS Funding, Sums, FiniteSetTheorems, TLAPS

USE DEF Refs

FundingInv == TypeOK /\ CreditsStand

LEMMA NextCases ==
  ASSUME [Next]_vars
  PROVE  \/ \E r \in Refs, u \in Users, a \in Amounts :
              AskForAccount(r, u, a) \/ AskForCheckout(r, u, a)
         \/ \E r \in Refs : OpenAccount(r)
         \/ \E r \in Refs : RecordPending(r)
         \/ \E r \in Refs, a \in Payable : Pay(r, a)
         \/ \E u \in Users, e \in Emails : UpdateUser(u, e)
         \/ \E u \in Users : DeleteUser(u)
         \/ \E n \in Notices : Deliver(n)
         \/ \E n \in Notices : LookUp(n)
         \/ \E n \in Notices : Verify(n)
         \/ \E n \in Notices : Drop(n) \/ CreditFails(n)
         \/ \E n \in Notices : Credit(n)
         \/ Crash
         \/ UNCHANGED vars
  BY FundingAssumption DEF Next, Call, Handle

LEMMA StatusType ==
  ASSUME TypeOK, NEW r \in Refs
  PROVE  /\ Status(r) \in Statuses
         /\ Status(r) = "none" <=> record[r] = NoRecord
         /\ record[r] # NoRecord => record[r] \in Records /\ Status(r) = record[r].status
<1>1. record[r] # NoRecord => record[r] \in Records
  BY DEF TypeOK
<1>2. QED
  BY <1>1 DEF Status, Statuses, Records

(* A call of an account or a checkout is put only while nothing is known of *)
(* its reference, so nothing that refers to it changes.                     *)
LEMMA AskKeeps ==
  ASSUME FundingInv, NEW r \in Refs, NEW u \in Users, NEW a \in Amounts,
         AskForAccount(r, u, a) \/ AskForCheckout(r, u, a)
  PROVE  FundingInv'
<1> USE FundingAssumption
<1> DEFINE x == [user |-> u, amount |-> a, email |-> email[u]]
<1>1. /\ rpc[r] = "idle" /\ ask' = [ask EXCEPT ![r] = x]
      /\ UNCHANGED <<balance, record, charge, paid, acked, hpc, known, found, email, gone,
                     edits, had, faults, credits, raced, forfeited>>
      /\ \E s \in {"account", "refused", "ok"} :
           /\ rpc' = [rpc EXCEPT ![r] = s]
           /\ r \in CheckoutRefs => s = "ok"
           /\ s = "ok" => r \in CheckoutRefs
  BY DEF AskForAccount, AskForCheckout, Ask, Goto, processor, hooks, people, history
<1>2. x \in Asks
  BY DEF Asks, FundingInv, TypeOK
<1> HIDE DEF x
<1>3. TypeOK'
  BY <1>1, <1>2 DEF FundingInv, TypeOK
<1>4. record[r] = NoRecord /\ charge[r] = "none"
  BY <1>1 DEF FundingInv, CreditsStand, RowsStand
<1>5. CreditsStand'
  <2>0. \A q \in Refs : Status(q)' = Status(q) /\ (q # r => ask'[q] = ask[q])
    BY <1>1 DEF Status, FundingInv, TypeOK
  <2>1. RowsStand'
    BY <1>1, <1>4, <2>0 DEF FundingInv, TypeOK, CreditsStand, RowsStand
  <2>2. DeliveriesStand'
    <3>1. \A n \in Notices : hpc[n] \in Handling => RefOf[n] # r
      BY <1>4 DEF FundingInv, CreditsStand, DeliveriesStand
    <3>2. QED
      BY <1>1, <2>0, <3>1 DEF FundingInv, CreditsStand, DeliveriesStand, Handling, Relying
  <2>3. (CreditedTwiceNeedsRace /\ CreditsMatchRows)'
    BY <1>1, <2>0 DEF FundingInv, CreditsStand, CreditedTwiceNeedsRace, CreditsMatchRows
  <2>4. QED
    BY <2>1, <2>2, <2>3 DEF CreditsStand
<1>6. QED
  BY <1>3, <1>5 DEF FundingInv

LEMMA OpenAccountKeeps ==
  ASSUME FundingInv, NEW r \in Refs, OpenAccount(r)
  PROVE  FundingInv'
<1>1. /\ rpc[r] = "account" /\ faults' \in Nat
      /\ rpc' = [rpc EXCEPT ![r] = "record"] \/ rpc' = [rpc EXCEPT ![r] = "failed"]
      /\ UNCHANGED <<balance, record, ask, charge, paid, acked, hpc, known, found, email,
                     gone, edits, had, credits, raced, forfeited>>
  BY DEF OpenAccount, Goto, Fault, processor, hooks, people, history, FundingInv, TypeOK
<1>2. TypeOK'
  BY <1>1 DEF FundingInv, TypeOK
<1>0. \A q \in Refs : Status(q)' = Status(q)
  BY <1>1 DEF Status
<1>3. RowsStand'
  BY <1>0, <1>1 DEF FundingInv, TypeOK, CreditsStand, RowsStand
<1>4. DeliveriesStand'
  BY <1>0, <1>1, FundingAssumption DEF FundingInv, CreditsStand, DeliveriesStand
<1>5. (CreditedTwiceNeedsRace /\ CreditsMatchRows)'
  BY <1>0, <1>1 DEF FundingInv, CreditsStand, CreditedTwiceNeedsRace, CreditsMatchRows
<1>6. QED
  BY <1>2, <1>3, <1>4, <1>5 DEF FundingInv, CreditsStand

(* The row is written before anybody can pay, so no delivery has read it.   *)
LEMMA RecordPendingKeeps ==
  ASSUME FundingInv, NEW r \in Refs, RecordPending(r)
  PROVE  FundingInv'
<1> USE FundingAssumption
<1> DEFINE row == [status |-> "PENDING", amount |-> ask[r].amount, of |-> ask[r].user]
<1>1. /\ rpc[r] = "record" /\ faults' \in Nat
      /\ \/ rpc' = [rpc EXCEPT ![r] = "ok"] /\ record' = [record EXCEPT ![r] = row]
         \/ /\ rpc' = [rpc EXCEPT ![r] = "failed"]
            /\ record' = record \/ record' = [record EXCEPT ![r] = row]
      /\ UNCHANGED <<balance, ask, charge, paid, acked, hpc, known, found, email, gone,
                     edits, had, credits, raced, forfeited>>
  BY DEF RecordPending, Goto, Fault, processor, hooks, people, history, FundingInv, TypeOK
<1>a. row \in Records /\ row.of = ask[r].user /\ row # NoRecord
  <2>1. ask[r] \in Asks
    BY <1>1 DEF FundingInv, TypeOK
  <2>2. row \in Records
    BY <2>1 DEF Asks, Records
  <2>3. QED
    BY <2>2
<1>b. \A q \in Refs : q # r => record'[q] = record[q] /\ Status(q)' = Status(q)
  BY <1>1 DEF Status, FundingInv, TypeOK
<1>c. Status(r)' \in {"none", "PENDING"} /\ Status(r) = "none"
  BY <1>1, <1>a DEF Status, FundingInv, TypeOK, CreditsStand, RowsStand
<1> HIDE DEF row
<1>2. TypeOK'
  BY <1>1, <1>a DEF FundingInv, TypeOK
<1>3. r \notin CheckoutRefs /\ record[r] = NoRecord /\ charge[r] = "none"
  BY <1>1 DEF FundingInv, CreditsStand, RowsStand
<1>4. RowsStand'
  <2>1. rpc'[r] \in {"ok", "failed"} /\ (rpc'[r] = "ok" => record'[r] = row)
    BY <1>1 DEF FundingInv, TypeOK
  <2>2. \A q \in Refs : q # r => rpc'[q] = rpc[q]
    BY <1>1 DEF FundingInv, TypeOK
  <2>3. QED
    BY <1>1, <1>3, <1>a, <1>b, <2>1, <2>2 DEF FundingInv, CreditsStand, RowsStand
<1>5. DeliveriesStand'
  <2>1. \A n \in Notices : hpc[n] \in Handling => RefOf[n] # r
    BY <1>3 DEF FundingInv, CreditsStand, DeliveriesStand
  <2>2. QED
    BY <1>1, <1>b, <2>1 DEF FundingInv, CreditsStand, DeliveriesStand, Handling, Relying
<1>6. CreditsMatchRows'
  BY <1>1, <1>b, <1>c DEF FundingInv, TypeOK, CreditsStand, CreditsMatchRows
<1>7. CreditedTwiceNeedsRace'
  BY <1>1 DEF FundingInv, CreditsStand, CreditedTwiceNeedsRace
<1>8. QED
  BY <1>2, <1>4, <1>5, <1>6, <1>7 DEF FundingInv, CreditsStand

LEMMA PayKeeps ==
  ASSUME FundingInv, NEW r \in Refs, NEW a \in Payable, Pay(r, a)
  PROVE  FundingInv'
<1> USE FundingAssumption
<1>1. /\ rpc[r] = "ok" /\ charge[r] = "none"
      /\ \/ charge' = [charge EXCEPT ![r] = "paid"] /\ paid' = [paid EXCEPT ![r] = a]
         \/ charge' = [charge EXCEPT ![r] = "failed"] /\ paid' = paid
      /\ UNCHANGED <<balance, record, rpc, ask, acked, hpc, known, found, email, gone, edits,
                     had, faults, credits, raced, forfeited>>
  BY DEF Pay, calls, hooks, people, history
<1>2. TypeOK'
  BY <1>1 DEF FundingInv, TypeOK
<1>0. \A q \in Refs : Status(q)' = Status(q)
  BY <1>1 DEF Status
<1>3. RowsStand'
  BY <1>0, <1>1 DEF FundingInv, TypeOK, CreditsStand, RowsStand
<1>4. DeliveriesStand'
  <2>1. \A n \in Notices : hpc[n] \in Handling => RefOf[n] # r
    BY <1>1 DEF FundingInv, CreditsStand, DeliveriesStand
  <2>2. \A q \in Refs \ {r} : charge'[q] = charge[q]
    BY <1>1 DEF FundingInv, TypeOK
  <2>3. QED
    BY <1>0, <1>1, <2>1, <2>2 DEF FundingInv, CreditsStand, DeliveriesStand, Handling, Relying
<1>5. (CreditedTwiceNeedsRace /\ CreditsMatchRows)'
  BY <1>0, <1>1 DEF FundingInv, TypeOK, CreditsStand, CreditedTwiceNeedsRace, CreditsMatchRows
<1>6. QED
  BY <1>2, <1>3, <1>4, <1>5 DEF FundingInv, CreditsStand

(* A delivery that moves on, or ends, without a credit.                     *)
LEMMA HandlingKeeps ==
  ASSUME FundingInv,
         UNCHANGED <<balance, record, rpc, ask, charge, paid, email, gone, edits, had,
                     credits, raced>>,
         (TypeOK /\ DeliveriesStand)'
  PROVE  FundingInv'
<1>0. \A q \in Refs : Status(q)' = Status(q)
  BY DEF Status
<1>1. RowsStand'
  BY <1>0 DEF FundingInv, CreditsStand, RowsStand
<1>2. (CreditedTwiceNeedsRace /\ CreditsMatchRows)'
  BY <1>0 DEF FundingInv, CreditsStand, CreditedTwiceNeedsRace, CreditsMatchRows
<1>3. QED
  BY <1>1, <1>2 DEF FundingInv, CreditsStand

(* Who is found by an email is there, and has had it.                       *)
LEMMA UserOfFacts ==
  ASSUME FundingInv, NEW e \in Emails
  PROVE  /\ UserOf(e) \in Users \cup {NoUser}
         /\ UserOf(e) # NoUser => UserOf(e) \in Users /\ e \in had[UserOf(e)]
<1>1. CASE \E u \in Users \ gone : email[u] = e
  <2> DEFINE Found(u) == u \in Users \ gone /\ email[u] = e
             w == CHOOSE u : Found(u)
  <2>a. UserOf(e) = w
    BY <1>1 DEF UserOf
  <2>b. \E u : Found(u)
    BY <1>1
  <2>c. Found(w)
    <3> HIDE DEF Found
    <3>1. QED
      BY <2>b
  <2>1. UserOf(e) \in Users \ gone /\ email[UserOf(e)] = e
    BY <2>a, <2>c
  <2>2. \A u \in Users : email[u] \in had[u]
    BY DEF FundingInv, CreditsStand, RowsStand
  <2>3. QED
    BY <2>1, <2>2
<1>2. CASE ~\E u \in Users \ gone : email[u] = e
  BY <1>2 DEF UserOf
<1>3. QED
  BY <1>1, <1>2

(* What a delivery that has finished left of itself.                        *)
LEMMA FinishFacts ==
  ASSUME FundingInv, NEW n \in Notices, Finish(n)
  PROVE  /\ hpc' \in [Notices -> {"free", "done"} \cup Handling]
         /\ known' \in [Notices -> Statuses] /\ found' \in [Notices -> Users \cup {NoUser}]
         /\ hpc'[n] = "done"
         /\ \A m \in Notices \ {n} :
              hpc'[m] = hpc[m] /\ known'[m] = known[m] /\ found'[m] = found[m]
  BY DEF Finish, FundingInv, TypeOK, Statuses

(* One delivery changes, and nothing else that DeliveriesStand looks at.    *)
LEMMA OthersStand ==
  ASSUME FundingInv, NEW n \in Notices,
         UNCHANGED <<record, charge, raced, ask, had>>,
         \A m \in Notices \ {n} :
           hpc'[m] = hpc[m] /\ known'[m] = known[m] /\ found'[m] = found[m],
         LET r == RefOf[n] IN
         /\ hpc'[n] \in Handling => charge[r] # "none"
         /\ (hpc'[n] \in Relying /\ r \notin raced) => known'[n] = Status(r)
         /\ (hpc'[n] \in Relying /\ r \in CheckoutRefs) => known'[n] # "PENDING"
         /\ hpc'[n] = "credit" => charge[r] = "paid"
         /\ (hpc'[n] \in Relying /\ found'[n] # NoUser) => ask[r].email \in had[found'[n]]
  PROVE  DeliveriesStand'
<1>1. \A q \in Refs : Status(q)' = Status(q)
  BY DEF Status
<1>2. ASSUME NEW m \in Notices
      PROVE  LET r == RefOf[m] IN
             /\ hpc'[m] \in Handling => charge'[r] # "none"
             /\ (hpc'[m] \in Relying /\ r \notin raced') => known'[m] = Status(r)'
             /\ (hpc'[m] \in Relying /\ r \in CheckoutRefs) => known'[m] # "PENDING"
             /\ hpc'[m] = "credit" => charge'[r] = "paid"
             /\ (hpc'[m] \in Relying /\ found'[m] # NoUser) => ask'[r].email \in had'[found'[m]]
  <2>0. RefOf[m] \in Refs
    BY FundingAssumption
  <2>1. CASE m = n
    BY <1>1, <2>0, <2>1
  <2>2. CASE m # n
    BY <1>1, <2>0, <2>2 DEF FundingInv, CreditsStand, DeliveriesStand
  <2>3. QED
    BY <2>1, <2>2
<1>3. QED
  BY <1>2 DEF DeliveriesStand

LEMMA DeliveryKeeps ==
  ASSUME FundingInv, NEW n \in Notices,
         Deliver(n) \/ LookUp(n) \/ Verify(n) \/ Drop(n) \/ CreditFails(n)
  PROVE  FundingInv'
<1> USE FundingAssumption
<1> DEFINE r == RefOf[n]
           Still == UNCHANGED <<balance, record, rpc, ask, charge, paid, email, gone, edits,
                                had, credits, raced>>
<1>r. r \in Refs
  OBVIOUS
<1>a. acked \cup {r} \subseteq Refs /\ acked \subseteq Refs
  BY DEF FundingInv, TypeOK
<1>1. CASE Deliver(n)
  <2>1. /\ hpc[n] = "free" /\ charge[r] # "none"
        /\ hpc' = [hpc EXCEPT ![n] = "lookup"]
        /\ Still /\ UNCHANGED <<known, found, acked, faults, forfeited>>
    BY <1>1 DEF Deliver, Place, calls, processor, people, history
  <2>2. TypeOK'
    BY <2>1 DEF FundingInv, TypeOK, Handling
  <2>3. DeliveriesStand'
    <3>1. /\ hpc'[n] = "lookup"
          /\ \A m \in Notices \ {n} :
               hpc'[m] = hpc[m] /\ known'[m] = known[m] /\ found'[m] = found[m]
      BY <2>1 DEF FundingInv, TypeOK
    <3>2. QED
      BY <2>1, <3>1, OthersStand DEF Handling, Relying
  <2>4. QED
    BY <2>1, <2>2, <2>3, HandlingKeeps
<1>2. CASE LookUp(n)
  <2> DEFINE e == ask[r].email
  <2>1. /\ hpc[n] = "lookup" /\ charge[r] # "none"
        /\ Still /\ UNCHANGED <<faults, forfeited>> /\ acked' \subseteq Refs
    BY <1>2, <1>a DEF LookUp, Ack, calls, processor, people, history, FundingInv, CreditsStand,
       DeliveriesStand, Handling
  <2>2. e \in Emails
    BY <2>1, <1>r DEF FundingInv, TypeOK, CreditsStand, RowsStand, Asks
  <2>3. CASE Finish(n)
    <3>1. TypeOK'
      BY <2>1, <2>3, FinishFacts DEF FundingInv, TypeOK
    <3>2. DeliveriesStand'
      BY <2>1, <2>3, FinishFacts, OthersStand DEF Handling, Relying
    <3>3. QED
      BY <2>1, <3>1, <3>2, HandlingKeeps
  <2>4. CASE ~Finish(n)
    <3>1. /\ hpc' = [hpc EXCEPT ![n] = IF r \in BankRefs THEN "verify" ELSE "credit"]
          /\ known' = [known EXCEPT ![n] = Status(r)]
          /\ found' = [found EXCEPT ![n] = UserOf(e)]
          /\ r \in CheckoutRefs => charge[r] = "paid"
      BY <1>2, <2>4 DEF LookUp
    <3>2. UserOf(e) \in Users \cup {NoUser} /\ (UserOf(e) # NoUser => e \in had[UserOf(e)])
      BY <2>2, UserOfFacts
    <3>3. Status(r) \in Statuses
      BY <1>r, StatusType DEF FundingInv
    <3> HIDE DEF e
    <3>4. TypeOK'
      BY <2>1, <3>1, <3>2, <3>3 DEF FundingInv, TypeOK, Handling
    <3>5. /\ hpc'[n] = IF r \in BankRefs THEN "verify" ELSE "credit"
          /\ known'[n] = Status(r) /\ found'[n] = UserOf(e)
          /\ \A m \in Notices \ {n} :
               hpc'[m] = hpc[m] /\ known'[m] = known[m] /\ found'[m] = found[m]
      BY <3>1 DEF FundingInv, TypeOK
    <3>6. r \in CheckoutRefs => Status(r) # "PENDING"
      BY <1>r DEF FundingInv, CreditsStand, RowsStand
    <3>7. hpc'[n] = "credit" => charge[r] = "paid"
      BY <1>r, <3>1, <3>5
    <3>8. found'[n] # NoUser => ask[r].email \in had[found'[n]]
      BY <3>2, <3>5 DEF e
    <3>9. DeliveriesStand'
      BY <2>1, <3>5, <3>6, <3>7, <3>8, OthersStand DEF Handling, Relying
    <3>10. QED
      BY <2>1, <3>4, <3>9, HandlingKeeps
  <2>5. QED
    BY <2>3, <2>4
<1>3. CASE Verify(n)
  <2>1. /\ hpc[n] = "verify" /\ acked' \subseteq Refs
        /\ Still /\ UNCHANGED <<faults, forfeited>>
    BY <1>3, <1>a DEF Verify, Ack, calls, processor, people, history
  <2>2. CASE Finish(n)
    <3>1. TypeOK'
      BY <2>1, <2>2, FinishFacts DEF FundingInv, TypeOK
    <3>2. DeliveriesStand'
      BY <2>1, <2>2, FinishFacts, OthersStand DEF Handling, Relying
    <3>3. QED
      BY <2>1, <3>1, <3>2, HandlingKeeps
  <2>3. CASE ~Finish(n)
    <3>1. /\ hpc' = [hpc EXCEPT ![n] = "credit"] /\ UNCHANGED <<known, found>>
          /\ charge[r] = "paid"
      BY <1>3, <2>3 DEF Verify, Place
    <3>2. TypeOK'
      BY <2>1, <3>1 DEF FundingInv, TypeOK, Handling
    <3>3. hpc'[n] = "credit" /\ \A m \in Notices \ {n} : hpc'[m] = hpc[m]
      BY <3>1 DEF FundingInv, TypeOK
    <3>4. DeliveriesStand'
      <4>1. /\ r \notin raced => known[n] = Status(r)
            /\ r \in CheckoutRefs => known[n] # "PENDING"
            /\ found[n] # NoUser => ask[r].email \in had[found[n]]
        BY <2>1 DEF FundingInv, CreditsStand, DeliveriesStand, Relying
      <4>2. QED
        BY <2>1, <3>1, <3>3, <4>1, OthersStand DEF Handling, Relying
    <3>5. QED
      BY <2>1, <3>2, <3>4, HandlingKeeps
  <2>4. QED
    BY <2>2, <2>3
<1>4. CASE Drop(n) \/ CreditFails(n)
  <2>1. /\ Finish(n) /\ Still
        /\ acked' \subseteq Refs /\ forfeited' \subseteq Refs /\ faults' \in Nat
    BY <1>4, <1>a DEF Drop, CreditFails, Fault, Ack, calls, processor, people, history,
                      FundingInv, TypeOK
  <2>2. TypeOK'
    BY <2>1, FinishFacts DEF FundingInv, TypeOK
  <2>3. DeliveriesStand'
    BY <2>1, FinishFacts, OthersStand DEF Handling, Relying
  <2>4. QED
    BY <2>1, <2>2, <2>3, HandlingKeeps
<1>5. QED
  BY <1>1, <1>2, <1>3, <1>4

LEMMA AmountTypes == Amounts \cup Payable \subseteq Int /\ Payable \subseteq Nat
  BY FundingAssumption

(* What the row becomes when a wallet is credited for it.                   *)
LEMMA SettledFacts ==
  ASSUME FundingInv, NEW n \in Notices, Credit(n)
  PROVE  LET r == RefOf[n] IN
         /\ r \in Refs /\ charge[r] = "paid" /\ rpc[r] = "ok" /\ ask[r] \in Asks
         /\ paid[r] \in Payable /\ found[n] \in Users \ gone
         /\ ask[r].email \in had[found[n]]
         /\ Settled(n) \in Records /\ Settled(n).status = "SUCCESSFUL"
         /\ r \in BankRefs =>
              /\ Updates(n) /\ record[r] \in Records
              /\ Settled(n).amount = record[r].amount /\ Settled(n).of = record[r].of
         /\ r \in CheckoutRefs =>
              /\ record[r] = NoRecord
              /\ Settled(n).amount = paid[r] /\ Settled(n).of = found[n]
<1> USE FundingAssumption
<1> DEFINE r == RefOf[n]
<1>1. r \in Refs /\ hpc[n] = "credit" /\ CanCredit(n)
  BY DEF Credit
<1>2. charge[r] = "paid" /\ rpc[r] = "ok" /\ ask[r] \in Asks /\ paid[r] \in Payable
  BY <1>1 DEF FundingInv, TypeOK, CreditsStand, DeliveriesStand, RowsStand
<1>3. found[n] \in Users \ gone
  BY <1>1 DEF CanCredit, HasWallet, FundingInv, TypeOK
<1>4. ask[r].email \in had[found[n]]
  BY <1>1, <1>3 DEF FundingInv, CreditsStand, DeliveriesStand, Relying
<1>5. r \in BankRefs => record[r] \in Records /\ Updates(n)
  <2>1. r \in BankRefs => record[r] # NoRecord
    BY <1>1, <1>2 DEF FundingInv, CreditsStand, RowsStand
  <2>2. QED
    BY <1>1, <2>1 DEF CanCredit, FundingInv, TypeOK
<1>6. r \in CheckoutRefs => record[r] = NoRecord /\ ~Updates(n)
  BY <1>1 DEF FundingInv, CreditsStand, DeliveriesStand, Relying, Updates, CanCredit
<1>7. r \in BankRefs => /\ Settled(n) = [record[r] EXCEPT !.status = "SUCCESSFUL"]
                        /\ Settled(n) \in Records /\ Settled(n).status = "SUCCESSFUL"
                        /\ Settled(n).amount = record[r].amount /\ Settled(n).of = record[r].of
  BY <1>5 DEF Settled, Records
<1>8. r \in CheckoutRefs => /\ Settled(n) \in Records /\ Settled(n).status = "SUCCESSFUL"
                            /\ Settled(n).amount = paid[r] /\ Settled(n).of = found[n]
  BY <1>2, <1>3, <1>6 DEF Settled, Records
<1>9. QED
  BY <1>1, <1>2, <1>3, <1>4, <1>5, <1>6, <1>7, <1>8

(* The credit.  Whoever else relied on the row is recorded in raced; when   *)
(* nobody raced, the reading is still the row, which says no credit so far. *)
LEMMA CreditKeeps ==
  ASSUME FundingInv, NEW n \in Notices, Credit(n)
  PROVE  FundingInv'
<1> USE FundingAssumption
<1> DEFINE r == RefOf[n]  u == found[n]
<1>r. r \in Refs
  OBVIOUS
<1>1. /\ hpc[n] = "credit"
      /\ known[n] = "PENDING" \/ record[r] = NoRecord
      /\ record' = [record EXCEPT ![r] = Settled(n)]
      /\ balance' = [balance EXCEPT ![u] = @ + paid[r]]
      /\ credits' = [credits EXCEPT ![r] = @ + 1]
      /\ raced' = IF ReliedOn(r, n) THEN raced \cup {r} ELSE raced
      /\ Finish(n)
      /\ UNCHANGED <<rpc, ask, charge, paid, acked, email, gone, edits, had, faults, forfeited>>
  BY DEF Credit, CanCredit, Updates, calls, processor, people
<1>2a. /\ charge[r] = "paid" /\ rpc[r] = "ok" /\ ask[r] \in Asks /\ u \in Users
       /\ paid[r] \in Payable
       /\ Settled(n) \in Records /\ Settled(n).status = "SUCCESSFUL" /\ Settled(n) # NoRecord
       /\ r \in BankRefs => Settled(n).of = record[r].of /\ record[r] # NoRecord
       /\ r \in CheckoutRefs => record[r] = NoRecord
  BY SettledFacts
<1>2. paid[r] \in Nat
  BY <1>2a, AmountTypes
<1> HIDE DEF r, u
<1>s. Status(r)' = "SUCCESSFUL" /\ \A q \in Refs \ {r} : Status(q)' = Status(q)
  <2>1. record'[r] = Settled(n) /\ \A q \in Refs \ {r} : record'[q] = record[q]
    BY <1>1, <1>r DEF FundingInv, TypeOK
  <2>2. Settled(n) # NoRecord /\ Settled(n).status = "SUCCESSFUL"
    BY <1>2a
  <2>3. QED
    BY <2>1, <2>2 DEF Status
<1>4. TypeOK'
  <2>1. balance' \in [Users -> Nat]
    BY <1>1, <1>2, <1>2a DEF FundingInv, TypeOK
  <2>2. /\ record' \in [Refs -> Records \cup {NoRecord}] /\ credits' \in [Refs -> Nat]
        /\ raced' \subseteq Refs
    BY <1>1, <1>2, <1>2a, <1>r DEF FundingInv, TypeOK
  <2>3. QED
    BY <1>1, <2>1, <2>2, FinishFacts DEF FundingInv, TypeOK
<1>b. credits \in [Refs -> Nat]
  BY DEF FundingInv, TypeOK
<1>c. credits[r] \in Nat /\ (credits[r] > 0 => Status(r) = "SUCCESSFUL")
  <2>1. credits[r] \in Nat
    BY <1>b, <1>r
  <2>2. \A q \in Refs : credits[q] > 0 => Status(q) = "SUCCESSFUL"
    BY DEF FundingInv, CreditsStand, CreditsMatchRows
  <2>3. QED
    BY <1>r, <2>1, <2>2
<1>n. record[r] = NoRecord => Status(r) = "none"
  BY DEF Status
<1>5. r \notin raced => credits[r] = 0
  <2>1. r \notin raced => known[n] = Status(r)
    BY <1>1, <1>r DEF FundingInv, CreditsStand, DeliveriesStand, Relying, r
  <2>2. r \notin raced => Status(r) # "SUCCESSFUL"
    BY <1>1, <1>n, <2>1
  <2>3. QED
    BY <1>c, <2>2
<1>6. r \in CheckoutRefs => credits[r] = 0
  BY <1>2, <1>2a, <1>c, <1>n
<1>7. CreditedTwiceNeedsRace'
  BY <1>1, <1>5, <1>6 DEF FundingInv, TypeOK, CreditsStand, CreditedTwiceNeedsRace
<1>8. CreditsMatchRows'
  <2>1. credits'[r] > 0 /\ \A q \in Refs \ {r} : credits'[q] = credits[q]
    BY <1>1, <1>b, <1>c, <1>r
  <2>2. QED
    BY <1>1, <1>2, <1>2a, <1>s, <2>1 DEF FundingInv, CreditsStand, CreditsMatchRows
<1>9. DeliveriesStand'
  <2>1. \A m \in Notices : hpc'[m] \in Handling =>
          m # n /\ hpc'[m] = hpc[m] /\ known'[m] = known[m] /\ found'[m] = found[m]
    BY <1>1, FinishFacts DEF Handling
  <2>2. \A m \in Notices \ {n} :
          hpc[m] \in Relying /\ RefOf[m] = r => r \in raced'
    BY <1>1 DEF ReliedOn
  <2>4. \A q \in Refs : q \notin raced' => q \notin raced
    BY <1>1
  <2>5. ASSUME NEW m \in Notices
        PROVE  LET q == RefOf[m] IN
               /\ hpc'[m] \in Handling => charge'[q] # "none"
               /\ (hpc'[m] \in Relying /\ q \notin raced') => known'[m] = Status(q)'
               /\ (hpc'[m] \in Relying /\ q \in CheckoutRefs) => known'[m] # "PENDING"
               /\ hpc'[m] = "credit" => charge'[q] = "paid"
               /\ (hpc'[m] \in Relying /\ found'[m] # NoUser) =>
                    ask'[q].email \in had'[found'[m]]
    <3>1. RefOf[m] \in Refs
      OBVIOUS
    <3>2. CASE hpc'[m] \in Handling
      <4>1. m # n /\ hpc'[m] = hpc[m] /\ known'[m] = known[m] /\ found'[m] = found[m]
        BY <2>1, <3>2
      <4>2. (hpc[m] \in Relying /\ RefOf[m] \notin raced') => Status(RefOf[m])' = Status(RefOf[m])
        BY <1>s, <2>2, <3>1, <4>1
      <4>3. QED
        BY <1>1, <2>4, <3>1, <4>1, <4>2 DEF FundingInv, CreditsStand, DeliveriesStand
    <3>3. QED
      BY <3>2 DEF Handling, Relying
  <2>6. QED
    BY <2>5 DEF DeliveriesStand
<1>10. RowsStand'
  <2>1. record'[r] = Settled(n) /\ \A q \in Refs \ {r} : record'[q] = record[q]
    BY <1>1, <1>r DEF FundingInv, TypeOK
  <2>2. QED
    BY <1>1, <1>2, <1>2a, <1>r, <1>s, <2>1 DEF FundingInv, CreditsStand, RowsStand
<1>11. QED
  BY <1>4, <1>7, <1>8, <1>9, <1>10 DEF FundingInv, CreditsStand

LEMMA CrashKeeps == ASSUME FundingInv, Crash PROVE FundingInv'
<1> USE FundingAssumption
<1>1. /\ rpc' = [r \in Refs |-> IF rpc[r] \in {"account", "record"}
                                THEN "failed" ELSE rpc[r]]
      /\ hpc' = [n \in Notices |-> CASE hpc[n] \in {"lookup", "verify"} -> "free"
                                     [] hpc[n] = "credit" -> "done"
                                     [] OTHER -> hpc[n]]
      /\ known' = [n \in Notices |-> "none"] /\ found' = [n \in Notices |-> NoUser]
      /\ forfeited' \subseteq Refs /\ faults' \in Nat
      /\ UNCHANGED <<balance, record, ask, charge, paid, acked, email, gone, edits, had,
                     credits, raced>>
  BY DEF Crash, Fault, processor, people, FundingInv, TypeOK
<1>2. \A n \in Notices : hpc'[n] \in {"free", "done"}
  BY <1>1 DEF FundingInv, TypeOK, Handling
<1>3. TypeOK'
  <2>1. hpc' \in [Notices -> {"free", "done"} \cup Handling]
    BY <1>1, <1>2
  <2>2. rpc' \in [Refs -> {"idle", "account", "record", "ok", "refused", "failed"}]
    BY <1>1 DEF FundingInv, TypeOK
  <2>3. known' \in [Notices -> Statuses] /\ found' \in [Notices -> Users \cup {NoUser}]
    BY <1>1 DEF Statuses
  <2>4. QED
    BY <1>1, <2>1, <2>2, <2>3 DEF FundingInv, TypeOK
<1>4. DeliveriesStand'
  BY <1>2 DEF DeliveriesStand, Handling, Relying
<1>0. \A q \in Refs : Status(q)' = Status(q)
  BY <1>1 DEF Status
<1>5. RowsStand'
  BY <1>0, <1>1 DEF FundingInv, TypeOK, CreditsStand, RowsStand
<1>6. (CreditedTwiceNeedsRace /\ CreditsMatchRows)'
  BY <1>0, <1>1 DEF FundingInv, CreditsStand, CreditedTwiceNeedsRace, CreditsMatchRows
<1>7. QED
  BY <1>3, <1>4, <1>5, <1>6 DEF FundingInv, CreditsStand

LEMMA EditKeeps ==
  ASSUME FundingInv, NEW u \in Users, NEW e \in Emails, UpdateUser(u, e)
  PROVE  FundingInv'
<1>1. /\ email' = [email EXCEPT ![u] = e] /\ had' = [had EXCEPT ![u] = @ \cup {e}]
      /\ edits' \in Nat
      /\ UNCHANGED <<balance, record, rpc, ask, charge, paid, acked, hpc, known, found, gone,
                     faults, credits, raced, forfeited>>
  BY DEF UpdateUser, Edit, calls, processor, hooks, history, FundingInv, TypeOK
<1>2. \A v \in Users : had[v] \subseteq had'[v] /\ email'[v] \in had'[v]
  BY <1>1 DEF FundingInv, TypeOK, CreditsStand, RowsStand
<1>3. TypeOK'
  <2>1. email' \in [Users -> Emails]
    BY <1>1 DEF FundingInv, TypeOK
  <2>2. had' \in [Users -> SUBSET Emails]
    BY <1>1 DEF FundingInv, TypeOK
  <2>3. QED
    BY <1>1, <2>1, <2>2 DEF FundingInv, TypeOK
<1>0. \A q \in Refs : Status(q)' = Status(q)
  BY <1>1 DEF Status
<1>4. DeliveriesStand'
  <2>1. \A n \in Notices : RefOf[n] \in Refs /\ found[n] \in Users \cup {NoUser}
    BY FundingAssumption DEF FundingInv, TypeOK
  <2>2. QED
    BY <1>0, <1>1, <1>2, <2>1 DEF FundingInv, CreditsStand, DeliveriesStand
<1>5. RowsStand'
  BY <1>0, <1>1, <1>2 DEF FundingInv, CreditsStand, RowsStand
<1>6. (CreditedTwiceNeedsRace /\ CreditsMatchRows)'
  BY <1>0, <1>1 DEF FundingInv, CreditsStand, CreditedTwiceNeedsRace, CreditsMatchRows
<1>7. QED
  BY <1>3, <1>4, <1>5, <1>6 DEF FundingInv, CreditsStand

(* With an account its name goes from the rows, and nothing else of them.   *)
LEMMA DeletionRows ==
  ASSUME FundingInv, NEW u \in Users, DeleteUser(u), NEW r \in Refs
  PROVE  /\ Status(r)' = Status(r)
         /\ record[r] = NoRecord <=> record'[r] = NoRecord
         /\ record[r] # NoRecord =>
              /\ record'[r] \in Records /\ record'[r].amount = record[r].amount
              /\ record'[r].of = IF record[r].of = u THEN NoUser ELSE record[r].of
<1> USE FundingAssumption
<1>1. record'[r] = IF record[r] # NoRecord /\ record[r].of = u
                   THEN [record[r] EXCEPT !.of = NoUser] ELSE record[r]
  BY DEF DeleteUser
<1>2. record[r] # NoRecord => record[r] \in Records
  BY DEF FundingInv, TypeOK
<1>3. CASE record[r] # NoRecord /\ record[r].of = u
  <2>1. record'[r] = [record[r] EXCEPT !.of = NoUser] /\ record[r] \in Records
    BY <1>1, <1>2, <1>3
  <2>2. /\ record'[r] \in Records /\ record'[r].amount = record[r].amount
        /\ record'[r].of = NoUser /\ record'[r].status = record[r].status
    BY <2>1 DEF Records
  <2>3. QED
    BY <1>3, <2>2 DEF Status
<1>4. CASE ~(record[r] # NoRecord /\ record[r].of = u)
  BY <1>1, <1>2, <1>4 DEF Status
<1>5. QED
  BY <1>3, <1>4

LEMMA DeletionKeeps ==
  ASSUME FundingInv, NEW u \in Users, DeleteUser(u)
  PROVE  FundingInv'
<1>1. /\ gone' = gone \cup {u} /\ edits' \in Nat
      /\ record' \in [Refs -> Records \cup {NoRecord}]
      /\ UNCHANGED <<balance, rpc, ask, charge, paid, acked, hpc, known, found, email, had,
                     faults, credits, raced, forfeited>>
  <2>1. \A r \in Refs : record'[r] \in Records \cup {NoRecord}
    BY DeletionRows DEF FundingInv, TypeOK
  <2>2. record' = [r \in Refs |-> record'[r]]
    BY DEF DeleteUser
  <2>3. record' \in [Refs -> Records \cup {NoRecord}]
    BY <2>1, <2>2
  <2>4. edits' \in Nat
    BY DEF DeleteUser, Edit, FundingInv, TypeOK
  <2>5. QED
    BY <2>3, <2>4 DEF DeleteUser, calls, processor, hooks, history
<1>2. TypeOK'
  BY <1>1 DEF FundingInv, TypeOK
<1>0. \A q \in Refs : Status(q)' = Status(q)
  BY DeletionRows
<1>3. DeliveriesStand'
  BY <1>0, <1>1, FundingAssumption DEF FundingInv, CreditsStand, DeliveriesStand
<1>4. RowsStand'
  <2>1. \A r \in Refs : /\ record[r] = NoRecord <=> record'[r] = NoRecord
                        /\ record[r] # NoRecord =>
                             record'[r].of = IF record[r].of = u THEN NoUser ELSE record[r].of
    BY DeletionRows
  <2>2. ASSUME NEW r \in Refs, r \in BankRefs, rpc[r] = "ok"
        PROVE  /\ record'[r] # NoRecord
               /\ record'[r].of = ask[r].user \/ (record'[r].of = NoUser /\ ask[r].user \in gone')
    <3>1. /\ record[r] # NoRecord
          /\ record[r].of = ask[r].user \/ (record[r].of = NoUser /\ ask[r].user \in gone)
      BY <2>2 DEF FundingInv, CreditsStand, RowsStand
    <3>2. QED
      BY <1>1, <2>1, <3>1
  <2>3. QED
    BY <1>0, <1>1, <2>1, <2>2 DEF FundingInv, CreditsStand, RowsStand
<1>5. (CreditedTwiceNeedsRace /\ CreditsMatchRows)'
  BY <1>0, <1>1 DEF FundingInv, CreditsStand, CreditedTwiceNeedsRace, CreditsMatchRows
<1>6. QED
  BY <1>2, <1>3, <1>4, <1>5 DEF FundingInv, CreditsStand

LEMMA StepKeeps == ASSUME FundingInv, [Next]_vars PROVE FundingInv'
<1>1. CASE UNCHANGED vars
  <2>0. UNCHANGED <<balance, record, rpc, ask, charge, paid, acked, hpc, known, found, email,
                    gone, edits, had, faults, credits, raced, forfeited>>
    BY <1>1 DEF vars, calls, processor, hooks, people, history
  <2>1. TypeOK'
    BY <2>0 DEF FundingInv, TypeOK
  <2>2. \A q \in Refs : Status(q)' = Status(q)
    BY <2>0 DEF Status
  <2>3. DeliveriesStand'
    BY <2>0, <2>2, FundingAssumption DEF FundingInv, CreditsStand, DeliveriesStand
  <2>4. QED
    BY <2>0, <2>1, <2>3, HandlingKeeps
<1>2. QED
  BY <1>1, NextCases, AskKeeps, OpenAccountKeeps, RecordPendingKeeps, PayKeeps,
     EditKeeps, DeletionKeeps, DeliveryKeeps, CreditKeeps, CrashKeeps

LEMMA InitHolds == Init => FundingInv
<1> SUFFICES ASSUME Init PROVE FundingInv
  OBVIOUS
<1>1. TypeOK
  BY FundingAssumption DEF Init, TypeOK, Statuses
<1>2. CreditsStand
  BY FundingAssumption DEF Init, CreditsStand, DeliveriesStand, RowsStand,
     CreditedTwiceNeedsRace, CreditsMatchRows, Handling, Relying, Status
<1>3. QED
  BY <1>1, <1>2 DEF FundingInv

(* Every variable of Funding keeps its type and the inductive invariant      *)
(* CreditsStand holds: what an unraced delivery read of the row still holds. *)
THEOREM CreditsStandHolds == Spec => [](TypeOK /\ CreditsStand)
<1>1. FundingInv /\ [Next]_vars => FundingInv'
  BY StepKeeps
<1>2. FundingInv => TypeOK /\ CreditsStand
  BY DEF FundingInv
<1>3. QED
  BY <1>1, <1>2, InitHolds, PTL DEF Spec

(* Every variable of Funding keeps its type, for any users, references and   *)
(* deliveries.                                                               *)
THEOREM TypeCorrect == Spec => []TypeOK
BY CreditsStandHolds, PTL

(* However many deliveries a charge's webhook has, the wallet is credited    *)
(* again only when two of them were handled at once, and never again for a   *)
(* checkout.                                                                 *)
THEOREM NoDoubleCreditAlone == Spec => []CreditedTwiceNeedsRace
<1>1. CreditsStand => CreditedTwiceNeedsRace
  BY DEF CreditsStand
<1>2. QED
  BY <1>1, CreditsStandHolds, PTL

(* A row is SUCCESSFUL exactly when the wallet was credited for a charge     *)
(* that was paid.                                                            *)
THEOREM RowsTellOfCredits == Spec => []CreditsMatchRows
<1>1. CreditsStand => CreditsMatchRows
  BY DEF CreditsStand
<1>2. QED
  BY <1>1, CreditsStandHolds, PTL
-------------------------------------------------------------------------------
(* What is never undone, whatever the step.                                   *)
LEMMA StepFacts ==
  ASSUME FundingInv, [Next]_vars
  PROVE  /\ \A r \in Refs : rpc[r] = "ok" => ask'[r] = ask[r]
         /\ \A r \in Refs : charge[r] = "paid" => charge'[r] = "paid" /\ paid'[r] = paid[r]
         /\ raced \subseteq raced' /\ gone \subseteq gone'
         /\ \A u \in Users : had[u] \subseteq had'[u]
         /\ UNCHANGED balance \/ \E n \in Notices : Credit(n)
         /\ \/ UNCHANGED record
            \/ \E r \in Refs : RecordPending(r)
            \/ \E u \in Users : DeleteUser(u)
            \/ \E n \in Notices : Credit(n)
<1> DEFINE Kept == /\ \A r \in Refs : rpc[r] = "ok" => ask'[r] = ask[r]
                   /\ \A r \in Refs : charge[r] = "paid" =>
                        charge'[r] = "paid" /\ paid'[r] = paid[r]
                   /\ raced \subseteq raced' /\ gone \subseteq gone'
                   /\ \A u \in Users : had[u] \subseteq had'[u]
<1>1. ASSUME NEW q \in Refs, NEW u \in Users, NEW a \in Amounts,
             AskForAccount(q, u, a) \/ AskForCheckout(q, u, a)
      PROVE  Kept /\ UNCHANGED <<balance, record>>
  BY <1>1 DEF AskForAccount, AskForCheckout, Ask, processor, people, history, FundingInv, TypeOK
<1>2. ASSUME NEW q \in Refs, NEW a \in Payable, Pay(q, a)
      PROVE  Kept /\ UNCHANGED <<balance, record>>
  BY <1>2 DEF Pay, calls, people, history, FundingInv, TypeOK
<1>3. ASSUME NEW u \in Users, NEW e \in Emails, UpdateUser(u, e)
      PROVE  Kept /\ UNCHANGED <<balance, record>>
  BY <1>3 DEF UpdateUser, calls, processor, history, FundingInv, TypeOK
<1>4. ASSUME \E q \in Refs : OpenAccount(q)
      PROVE  Kept /\ UNCHANGED <<balance, record>>
  BY <1>4 DEF OpenAccount, processor, people, history
<1>5. ASSUME \E q \in Refs : RecordPending(q)
      PROVE  Kept /\ UNCHANGED balance
  BY <1>5 DEF RecordPending, processor, people, history
<1>6. ASSUME \E u \in Users : DeleteUser(u)
      PROVE  Kept /\ UNCHANGED balance
  BY <1>6 DEF DeleteUser, calls, processor, history
<1>7. ASSUME NEW n \in Notices,
             Deliver(n) \/ LookUp(n) \/ Verify(n) \/ Drop(n) \/ CreditFails(n)
      PROVE  Kept /\ UNCHANGED <<balance, record>>
  BY <1>7 DEF Deliver, LookUp, Verify, Drop, CreditFails, Ack, calls, processor, people, history
<1>8. ASSUME NEW n \in Notices, Credit(n)
      PROVE  Kept
  BY <1>8 DEF Credit, calls, processor, people
<1>9. ASSUME Crash PROVE Kept /\ UNCHANGED <<balance, record>>
  BY <1>9 DEF Crash, processor, people
<1>10. ASSUME UNCHANGED vars PROVE Kept /\ UNCHANGED <<balance, record>>
  BY <1>10 DEF vars, calls, processor, people, history
<1> HIDE DEF Kept
<1>11. /\ Kept
       /\ UNCHANGED balance \/ \E n \in Notices : Credit(n)
       /\ \/ UNCHANGED record
          \/ \E r \in Refs : RecordPending(r)
          \/ \E u \in Users : DeleteUser(u)
          \/ \E n \in Notices : Credit(n)
  BY <1>1, <1>2, <1>3, <1>4, <1>5, <1>6, <1>7, <1>8, <1>9, <1>10, NextCases
<1>12. QED
  BY <1>11 DEF Kept

(* A row that is there stays with its amount, and with its user until they   *)
(* are gone; without a credit it also keeps its status, and no other row     *)
(* becomes SUCCESSFUL.                                                       *)
LEMMA RowStays ==
  ASSUME FundingInv, [Next]_vars, NEW r \in Refs, record[r] # NoRecord
  PROVE  /\ record'[r] # NoRecord /\ record'[r].amount = record[r].amount
         /\ \/ record'[r].of = record[r].of
            \/ record'[r].of = NoUser /\ record[r].of \in gone'
<1>1. CASE \E q \in Refs : RecordPending(q)
  <2>1. PICK q \in Refs : RecordPending(q)
    BY <1>1
  <2>2. record[q] = NoRecord
    BY <2>1 DEF RecordPending, FundingInv, CreditsStand, RowsStand
  <2>3. record'[r] = record[r]
    BY <2>1, <2>2 DEF RecordPending, FundingInv, TypeOK
  <2>4. QED
    BY <2>3
<1>2. CASE \E u \in Users : DeleteUser(u)
  <2>1. PICK u \in Users : DeleteUser(u)
    BY <1>2
  <2>2. u \in gone'
    BY <2>1 DEF DeleteUser
  <2>3. QED
    BY <2>1, <2>2, DeletionRows, FundingAssumption
<1>3. CASE \E n \in Notices : Credit(n)
  <2>1. PICK n \in Notices : Credit(n)
    BY <1>3
  <2>2. record' = [record EXCEPT ![RefOf[n]] = Settled(n)]
    BY <2>1 DEF Credit
  <2>3. CASE RefOf[n] = r
    <3>1. /\ Settled(n) \in Records
          /\ Settled(n).amount = record[r].amount /\ Settled(n).of = record[r].of
      BY <2>1, <2>3, SettledFacts
    <3>2. record'[r] = Settled(n)
      BY <2>2, <2>3 DEF FundingInv, TypeOK
    <3>3. QED
      BY <3>1, <3>2, FundingAssumption
  <2>4. CASE RefOf[n] # r
    BY <2>2, <2>4 DEF FundingInv, TypeOK
  <2>5. QED
    BY <2>3, <2>4
<1>4. QED
  BY <1>1, <1>2, <1>3, StepFacts

LEMMA NoCreditKeepsRows ==
  ASSUME FundingInv, [Next]_vars, ~\E n \in Notices : Credit(n),
         NEW u \in Users \ gone', NEW r \in Refs
  PROVE  RowsOf(u)'[r] = RowsOf(u)[r]
<1> DEFINE Worth == IF Status(r) = "SUCCESSFUL" /\ record[r].of = u
                    THEN record[r].amount ELSE 0
<1>w. RowsOf(u)[r] = Worth /\ RowsOf(u)'[r] = Worth'
  BY DEF RowsOf
<1>1. CASE UNCHANGED record
  BY <1>1, <1>w DEF Status
<1>2. CASE \E q \in Refs : RecordPending(q)
  <2>1. PICK q \in Refs : RecordPending(q)
    BY <1>2
  <2>2. record[q] = NoRecord
    BY <2>1 DEF RecordPending, FundingInv, CreditsStand, RowsStand
  <2>3. CASE record'[q] = record[q]
    <3>1. record'[r] = record[r]
      BY <2>1, <2>3 DEF RecordPending, FundingInv, TypeOK
    <3>2. QED
      BY <1>w, <3>1 DEF Status
  <2>4. CASE record'[q] # record[q]
    <3>1. /\ record'[q].status = "PENDING"
          /\ \A p \in Refs \ {q} : record'[p] = record[p]
      BY <2>1, <2>4 DEF RecordPending, FundingInv, TypeOK
    <3>2. CASE r = q
      BY <1>w, <2>2, <2>4, <3>1, <3>2 DEF Status
    <3>3. CASE r # q
      BY <1>w, <3>1, <3>3 DEF Status
    <3>4. QED
      BY <3>2, <3>3
  <2>5. QED
    BY <2>3, <2>4
<1>3. CASE \E v \in Users : DeleteUser(v)
  <2>1. PICK v \in Users : DeleteUser(v)
    BY <1>3
  <2>2. v # u
    BY <2>1 DEF DeleteUser
  <2>3. Status(r)' = Status(r)
    BY <2>1, DeletionRows
  <2>4. CASE record[r] = NoRecord
    BY <1>w, <2>3, <2>4 DEF Status
  <2>5. CASE record[r] # NoRecord
    <3>1. /\ record'[r].amount = record[r].amount
          /\ record'[r].of = IF record[r].of = v THEN NoUser ELSE record[r].of
      BY <2>1, <2>5, DeletionRows
    <3>2. record'[r].of = u <=> record[r].of = u
      BY <2>2, <3>1, FundingAssumption
    <3>3. QED
      BY <1>w, <2>3, <3>1, <3>2
  <2>6. QED
    BY <2>4, <2>5
<1>4. QED
  BY <1>1, <1>2, <1>3, StepFacts

(* Once money of r has gone astray that user u has to do with, it stays so   *)
(* while u is there.                                                         *)
Excuses(r, u) == Astray(r) /\ (record[r].of = u \/ ask[r].email \in had[u])

LEMMA ExcusesStay ==
  ASSUME FundingInv, [Next]_vars, NEW r \in Refs, NEW u \in Users \ gone', Excuses(r, u)
  PROVE  Excuses(r, u)'
<1>1. r \in BankRefs /\ charge[r] = "paid" /\ rpc[r] = "ok" /\ record[r] # NoRecord
  BY DEF Excuses, Astray, FundingInv, CreditsStand, RowsStand
<1>2. charge'[r] = "paid" /\ paid'[r] = paid[r] /\ ask'[r] = ask[r]
  BY <1>1, StepFacts
<1>3. record'[r].amount = record[r].amount /\ (record[r].of = u => record'[r].of = u)
  BY <1>1, RowStays
<1>4. Astray(r)'
  <2>1. \A v \in Users : had[v] \subseteq had'[v]
    BY StepFacts
  <2>2. raced \subseteq raced'
    BY StepFacts
  <2>3. QED
    BY <1>1, <1>2, <1>3, <2>1, <2>2 DEF Excuses, Astray
<1>5. QED
  BY <1>2, <1>3, <1>4, StepFacts DEF Excuses

(* The credit of a charge that did not go astray, or that user u has nothing *)
(* to do with, changes the wallet of u by what the row of the charge comes   *)
(* to for u.                                                                 *)
LEMMA CreditMoves ==
  ASSUME FundingInv, NEW n \in Notices, Credit(n), NEW u \in Users \ gone,
         ~Excuses(RefOf[n], u)'
  PROVE  LET r == RefOf[n] IN
         /\ RowsOf(u)[r] = 0
         /\ RowsOf(u)'[r] = IF found[n] = u THEN paid[r] ELSE 0
<1> DEFINE r == RefOf[n]
<1>1. /\ r \in Refs /\ charge[r] = "paid" /\ rpc[r] = "ok" /\ ask[r] \in Asks
      /\ paid[r] \in Payable /\ found[n] \in Users \ gone
      /\ ask[r].email \in had[found[n]]
      /\ Settled(n) \in Records /\ Settled(n).status = "SUCCESSFUL"
      /\ Settled(n) # NoRecord
  BY SettledFacts, FundingAssumption
<1>2. /\ record'[r] = Settled(n) /\ hpc[n] = "credit"
      /\ UNCHANGED <<ask, charge, paid, had>> /\ (r \notin raced' => r \notin raced)
  BY <1>1 DEF Credit, calls, processor, people, FundingInv, TypeOK
<1>3. Status(r)' = "SUCCESSFUL"
  BY <1>1, <1>2 DEF Status
<1>w. /\ RowsOf(u)[r] = IF Status(r) = "SUCCESSFUL" /\ record[r].of = u
                        THEN record[r].amount ELSE 0
      /\ RowsOf(u)'[r] = IF Settled(n).of = u THEN Settled(n).amount ELSE 0
  BY <1>1, <1>2, <1>3 DEF RowsOf
<1>4. CASE r \in CheckoutRefs
  <2>1. record[r] = NoRecord /\ Settled(n).amount = paid[r] /\ Settled(n).of = found[n]
    BY <1>4, SettledFacts
  <2>2. Status(r) = "none"
    BY <2>1 DEF Status
  <2>3. QED
    BY <1>w, <2>1, <2>2
<1>5. CASE r \in BankRefs
  <2>1. /\ Updates(n) /\ record[r] \in Records /\ record[r] # NoRecord
        /\ Settled(n).amount = record[r].amount /\ Settled(n).of = record[r].of
    BY <1>5, SettledFacts, FundingAssumption
  <2>2. CASE ~Astray(r)'
    <3>1. /\ r \notin raced' /\ record[r].amount = paid[r]
          /\ \A v \in Users \ {ask[r].user} : ask[r].email \notin had[v]
      BY <1>1, <1>2, <1>5, <2>1, <2>2 DEF Astray
    <3>2. known[n] = Status(r)
      BY <1>1, <1>2, <3>1 DEF FundingInv, CreditsStand, DeliveriesStand, Relying
    <3>3. Status(r) = "PENDING"
      BY <2>1, <3>2 DEF Updates
    <3>4. found[n] = ask[r].user
      BY <1>1, <3>1
    <3>5. record[r].of = found[n]
      BY <1>1, <1>5, <3>4 DEF FundingInv, CreditsStand, RowsStand
    <3>6. QED
      BY <1>w, <2>1, <3>1, <3>3, <3>5
  <2>3. CASE Astray(r)'
    <3>1. Settled(n).of # u /\ ask[r].email \notin had[u]
      BY <1>1, <1>2, <2>3 DEF Excuses
    <3>2. QED
      BY <1>1, <1>w, <2>1, <3>1
  <2>4. QED
    BY <2>2, <2>3
<1>6. QED
  BY <1>1, <1>4, <1>5

LEMMA RowsType ==
  ASSUME FundingInv, NEW u \in Users, NEW r \in Refs
  PROVE  RowsOf(u)[r] \in Int
<1>1. record[r] # NoRecord => record[r].amount \in Int
  <2>1. record[r] # NoRecord => record[r] \in Records
    BY DEF FundingInv, TypeOK
  <2>2. QED
    BY <2>1, AmountTypes DEF Records
<1>2. QED
  BY <1>1 DEF RowsOf, Status

LEMMA BalanceKept ==
  ASSUME FundingInv, BalanceIsRows, [Next]_vars
  PROVE  BalanceIsRows'
<1> SUFFICES ASSUME NEW u \in Users \ gone', ~\E r \in Refs : Excuses(r, u)'
             PROVE  balance'[u] = SumFunctionOnSet(RowsOf(u), Refs)'
  BY DEF BalanceIsRows, Excuses
<1> DEFINE f == RowsOf(u)  g == RowsOf(u)'
<1>1. u \in Users \ gone
  BY StepFacts
<1>2. balance[u] = SumFunctionOnSet(f, Refs)
  <2>1. ~\E r \in Refs : Excuses(r, u)
    BY ExcusesStay
  <2>2. QED
    BY <1>1, <2>1 DEF BalanceIsRows, Excuses
<1>3. SumFunctionOnSet(RowsOf(u), Refs)' = SumFunctionOnSet(g, Refs)
  OBVIOUS
<1>4. \A r \in Refs : f[r] \in Int
  BY RowsType
<1>5. CASE ~\E n \in Notices : Credit(n)
  <2>1. \A r \in Refs : g[r] = f[r]
    BY <1>5, NoCreditKeepsRows
  <2>2. balance'[u] = balance[u]
    BY <1>5, StepFacts
  <2> HIDE DEF f, g
  <2>3. SumFunctionOnSet(g, Refs) = SumFunctionOnSet(f, Refs)
    <3> HIDE DEF Refs
    <3>1. QED
      BY <2>1, SumsAgree, FiniteAssumption
  <2>4. QED
    BY <1>2, <1>3, <2>2, <2>3 DEF g
<1>6. ASSUME NEW n \in Notices, Credit(n)
      PROVE  balance'[u] = SumFunctionOnSet(g, Refs)
  <2> DEFINE q == RefOf[n]
  <2>1. /\ q \in Refs /\ paid[q] \in Int /\ found[n] \in Users
        /\ balance' = [balance EXCEPT ![found[n]] = @ + paid[q]]
    <3>1. q \in Refs /\ paid[q] \in Payable /\ found[n] \in Users
      BY <1>6, SettledFacts
    <3>2. balance' = [balance EXCEPT ![found[n]] = @ + paid[q]]
      BY <1>6 DEF Credit
    <3>3. QED
      BY <3>1, <3>2, AmountTypes
  <2>2. f[q] = 0 /\ g[q] = IF found[n] = u THEN paid[q] ELSE 0
    BY <1>1, <1>6, <2>1, CreditMoves
  <2>3. balance'[u] = balance[u] + g[q]
    BY <1>1, <2>1, <2>2 DEF FundingInv, TypeOK
  <2>4. \A r \in Refs \ {q} : g[r] = f[r]
    <3>1. \A r \in Refs \ {q} : record'[r] = record[r]
      BY <1>6 DEF Credit, FundingInv, TypeOK
    <3>2. QED
      BY <3>1 DEF RowsOf, Status
  <2>5. g[q] \in Int
    BY <2>1, <2>2
  <2> HIDE DEF f, g
  <2>6. SumFunctionOnSet(g, Refs) = SumFunctionOnSet(f, Refs) + (g[q] - f[q])
    <3> HIDE DEF Refs, q
    <3>1. QED
      BY <1>4, <2>1, <2>4, <2>5, SumChanges, FiniteAssumption
  <2>7. QED
    BY <1>2, <2>2, <2>3, <2>5, <2>6
<1>7. QED
  BY <1>3, <1>5, <1>6

(* However its webhooks are delivered, repeated and lost, whatever is paid   *)
(* and whoever changes an email or leaves, a wallet holds what the           *)
(* SUCCESSFUL rows that name its user come to, but for users who have to do  *)
(* with a bank transfer that was credited twice, paid in another amount, or  *)
(* asked for with an email that has changed hands.                           *)
THEOREM BalancesAreRows == Spec => []BalanceIsRows
<1>1. Init => BalanceIsRows
  <2> SUFFICES ASSUME Init, NEW u \in Users
               PROVE  balance[u] = SumFunctionOnSet(RowsOf(u), Refs)
    BY DEF BalanceIsRows
  <2>1. \A r \in Refs : RowsOf(u)[r] = 0
    BY DEF Init, RowsOf, Status
  <2>2. SumFunctionOnSet(RowsOf(u), Refs) = 0
    <3> DEFINE f == RowsOf(u)
    <3>1. \A r \in Refs : f[r] = 0
      BY <2>1
    <3> HIDE DEF Refs, f
    <3>2. SumFunctionOnSet(f, Refs) = 0
      BY <3>1, SumOfZeros, FiniteAssumption
    <3>3. QED
      BY <3>2 DEF f
  <2>3. QED
    BY <2>2 DEF Init
<1>2. FundingInv /\ BalanceIsRows /\ [Next]_vars => BalanceIsRows'
  BY BalanceKept
<1>3. QED
  BY <1>1, <1>2, CreditsStandHolds, PTL DEF Spec, FundingInv
===============================================================================
