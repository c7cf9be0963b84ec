---------------------------- MODULE AccountsProofs ----------------------------
(***************************************************************************)
(* Theorems about Accounts, for every number of people, usernames, firms   *)
(* and requests.                                                           *)
(***************************************************************************)
EXTENDS Accounts, FiniteSetTheorems, TLAPS

Inv == TypeOK /\ AccountsStand

CountsOK == edits \in Nat /\ faults \in Nat

USE AccountsAssumption

LEMMA NextCases ==
  ASSUME [Next]_vars
  PROVE  \/ \E r \in Requests, j \in Sent : SignUp(r, j)
         \/ \E r \in Requests : ChooseName(r) \/ MakeWallet(r) \/ NoWalletMade(r)
         \/ \E r \in Requests : Create(r)
         \/ \E r \in Requests : Taken(r) \/ SignUpFails(r)
         \/ \E r \in Requests : Finish(r)
         \/ \E i \in Ids : FindReferrer(i) \/ Credit(i) \/ Book(i) \/ BookFails(i) \/ BonusFails(i)
         \/ \E p \in People, n \in Given : RegisterStaff(p, n)
         \/ \E i \in Ids, b \in BOOLEAN : UpdateRoles(i, b)
         \/ \E i \in Ids, n \in Given : Rename(i, n)
         \/ \E i \in Ids : DeleteUser(i)
         \/ \E r \in Requests, u \in Ids, f \in Firms : Register(r, u, f)
         \/ \E r \in Requests : ReadOwner(r)
         \/ \E r \in Requests : PushRole(r)
         \/ \E r \in Requests : Found(r)
         \/ \E r \in Requests : MakeTill(r)
         \/ \E r \in Requests : Link(r)
         \/ \E r \in Requests : RegisterFails(r)
         \/ Crash
         \/ UNCHANGED vars
  BY DEF Next
-------------------------------------------------------------------------------
(* Types. *)

LEMMA SameRequests ==
  ASSUME TypeOK, UNCHANGED <<pc, job, name, row>>, beside' \in [Requests -> SUBSET Names],
         made' \in Nat, made <= made', founded' \in Nat, founded <= founded'
  PROVE  RequestsOK'
  BY DEF TypeOK, UsersOK, BusinessesOK, RequestsOK

(* A request goes on to p with job j, name n and row w.                      *)
LEMMA OneRequest ==
  ASSUME TypeOK, NEW r \in Requests,
         NEW p \in {"idle"} \cup SigningUp \cup Registering, pc' = [pc EXCEPT ![r] = p],
         NEW j \in Jobs \cup {NoJob}, job' = [job EXCEPT ![r] = j],
         NEW n \in Names \cup {NoName}, name' = [name EXCEPT ![r] = n],
         NEW w \in Nat, row' = [row EXCEPT ![r] = w],
         beside' \in [Requests -> SUBSET Names],
         made' \in Nat, made <= made', founded' \in Nat, founded <= founded',
         p \in SigningUp => j \in SignUps,
         p \in Registering => j \in Registrations,
         p = "create" => n \in Names,
         p \in {"wallet", "finish"} => w \in 1..made',
         p \in {"till", "link"} => w \in 1..founded'
  PROVE  RequestsOK'
<1>1. \A q \in Requests \ {r} : pc'[q] = pc[q] /\ job'[q] = job[q] /\ name'[q] = name[q]
                                /\ row'[q] = row[q]
  BY DEF TypeOK, RequestsOK
<1>2. pc'[r] = p /\ job'[r] = j /\ name'[r] = n /\ row'[r] = w
  BY DEF TypeOK, RequestsOK
<1>3. \A q \in Requests :
        /\ pc'[q] \in SigningUp => job'[q] \in SignUps
        /\ pc'[q] \in Registering => job'[q] \in Registrations
        /\ pc'[q] = "create" => name'[q] \in Names
        /\ pc'[q] \in {"wallet", "finish"} => row'[q] \in 1..made'
        /\ pc'[q] \in {"till", "link"} => row'[q] \in 1..founded'
  <2>1. \A q \in Requests \ {r} :
          /\ pc[q] \in {"wallet", "finish"} => row[q] \in 1..made'
          /\ pc[q] \in {"till", "link"} => row[q] \in 1..founded'
    BY DEF TypeOK, UsersOK, BusinessesOK, RequestsOK
  <2>2. QED
    BY <1>1, <1>2, <2>1 DEF TypeOK, RequestsOK
<1>4. QED
  BY <1>3 DEF TypeOK, RequestsOK

LEMMA EndTypes ==
  ASSUME TypeOK, NEW r \in Requests, End(r),
         made' \in Nat, made <= made', founded' \in Nat, founded <= founded'
  PROVE  RequestsOK'
<1>1. beside' \in [Requests -> SUBSET Names]
  BY DEF End, TypeOK, RequestsOK
<1>2. "idle" \notin SigningUp \cup Registering /\ 0 \in Nat
  BY DEF SigningUp, Registering
<1>3. QED
  BY <1>1, <1>2, OneRequest DEF End, Goto

LEMMA CountsKept ==
  ASSUME TypeOK, UNCHANGED <<made, founded>>
  PROVE  made' \in Nat /\ made <= made' /\ founded' \in Nat /\ founded <= founded'
  BY DEF TypeOK, UsersOK, BusinessesOK

LEMMA SignUpTypes ==
  ASSUME TypeOK, NEW r \in Requests, NEW j \in Sent, SignUp(r, j)
  PROVE  TypeOK'
<1> DEFINE p == IF j.given = NoName THEN "name" ELSE "create"
<1>1. j \in SignUps /\ j.given \in Names \cup {NoName}
  BY DEF SignUps
<1>2. /\ pc' = [pc EXCEPT ![r] = p] /\ job' = [job EXCEPT ![r] = j]
      /\ name' = [name EXCEPT ![r] = j.given] /\ row' = [row EXCEPT ![r] = row[r]]
      /\ row[r] \in Nat /\ UNCHANGED <<beside, made, founded>>
  BY DEF SignUp, Goto, users, businesses, TypeOK, RequestsOK
<1>3. p \in SigningUp \ {"wallet", "finish"} /\ (p = "create" => j.given # NoName)
      /\ p \notin Registering
  BY DEF SigningUp, Registering
<1> HIDE DEF p
<1>4. RequestsOK'
  <2>1. p \in {"idle"} \cup SigningUp \cup Registering /\ j \in Jobs \cup {NoJob}
    BY <1>1, <1>3 DEF Jobs
  <2>2. beside' \in [Requests -> SUBSET Names]
    BY <1>2 DEF TypeOK, RequestsOK
  <2>3. p \notin {"till", "link"}
    BY <1>3 DEF Registering
  <2>4. QED
    BY <1>1, <1>2, <1>3, <2>1, <2>2, <2>3, CountsKept, OneRequest
<1>5. (UsersOK /\ BusinessesOK /\ BonusesOK /\ HistoryOK /\ CountsOK)'
  BY DEF SignUp, users, businesses, counts, otherHistory, TypeOK, UsersOK, BusinessesOK, BonusesOK,
         HistoryOK, CountsOK
<1>6. QED
  BY <1>4, <1>5 DEF TypeOK, CountsOK

(* A request stays where its job and row say, in SignUp's part of the code.  *)
LEMMA StepTypes ==
  ASSUME TypeOK, NEW r \in Requests, NEW p \in SigningUp \cup Registering, Goto(r, p),
         UNCHANGED <<job, name, row>>, beside' \in [Requests -> SUBSET Names],
         made' \in Nat, made <= made', founded' \in Nat, founded <= founded',
         p \in SigningUp => job[r] \in SignUps,
         p \in Registering => job[r] \in Registrations,
         p = "create" => name[r] \in Names,
         p \in {"wallet", "finish"} => row[r] \in 1..made,
         p \in {"till", "link"} => row[r] \in 1..founded
  PROVE  RequestsOK'
<1>1. /\ job' = [job EXCEPT ![r] = job[r]] /\ name' = [name EXCEPT ![r] = name[r]]
      /\ row' = [row EXCEPT ![r] = row[r]]
      /\ job[r] \in Jobs \cup {NoJob} /\ name[r] \in Names \cup {NoName} /\ row[r] \in Nat
  BY DEF TypeOK, RequestsOK
<1>2. /\ p \in {"wallet", "finish"} => row[r] \in 1..made'
      /\ p \in {"till", "link"} => row[r] \in 1..founded'
  BY DEF TypeOK, UsersOK, BusinessesOK
<1>3. QED
  BY <1>1, <1>2, OneRequest DEF Goto

LEMMA ChooseNameTypes ==
  ASSUME TypeOK, NEW r \in Requests, ChooseName(r)
  PROVE  TypeOK'
<1> DEFINE f == FirstName[job[r].who]
<1>1. job[r] \in SignUps /\ f \in FirstNames
  BY DEF ChooseName, TypeOK, RequestsOK, SignUps, SigningUp
<1>2. PICK k \in Nat : name' = [name EXCEPT ![r] = [base |-> f, n |-> k]]
  <2>1. CASE Namesakes(f) = {}
    <3>1. ASSUME Namesakes(f) = {} PROVE name' = [name EXCEPT ![r] = [base |-> f, n |-> 0]]
                                         \/ \E i \in Newest(f) : name' = [name EXCEPT ![r] = [base |-> f, n |-> user[i].name.n + 1]]
      BY DEF ChooseName
    <3>2. Newest(f) = {}
      BY <2>1 DEF Newest
    <3>3. QED
      BY <2>1, <3>1, <3>2
  <2>2. ASSUME NEW i \in Newest(f), name' = [name EXCEPT ![r] = [base |-> f, n |-> user[i].name.n + 1]]
        PROVE  \E k \in Nat : name' = [name EXCEPT ![r] = [base |-> f, n |-> k]]
    <3>1. i \in Ids /\ user[i] \in UserRows
      BY DEF Newest, Namesakes, Live, TypeOK, UsersOK
    <3>2. user[i].name.n + 1 \in Nat
      BY <3>1 DEF UserRows, Names
    <3>3. QED
      BY <2>2, <3>2
  <2>3. QED
    BY <2>1, <2>2 DEF ChooseName
<1>3. [base |-> f, n |-> k] \in Names
  BY <1>1 DEF Names
<1>4. RequestsOK'
  <2>1. /\ pc' = [pc EXCEPT ![r] = "create"] /\ job' = [job EXCEPT ![r] = job[r]]
        /\ row' = [row EXCEPT ![r] = row[r]] /\ row[r] \in Nat
        /\ UNCHANGED <<made, founded>> /\ beside' \in [Requests -> SUBSET Names]
    BY DEF ChooseName, Goto, users, businesses, TypeOK, RequestsOK
  <2>2. job[r] \in Jobs \cup {NoJob} /\ "create" \in SigningUp /\ "create" \notin Registering
    BY <1>1 DEF Jobs, SigningUp, Registering
  <2>3. QED
    BY <1>1, <1>2, <1>3, <2>1, <2>2, CountsKept, OneRequest
<1>5. (UsersOK /\ BusinessesOK /\ BonusesOK /\ HistoryOK /\ CountsOK)'
  BY DEF ChooseName, users, businesses, counts, otherHistory, TypeOK, UsersOK, BusinessesOK,
         BonusesOK, HistoryOK, CountsOK
<1>6. QED
  BY <1>4, <1>5 DEF TypeOK, CountsOK

(* A new row is of the type.                                                 *)
LEMMA NewUserTypes ==
  ASSUME TypeOK, NEW p \in People, NEW n \in Names, NEW o \in BOOLEAN, NewUser(p, n, o)
  PROVE  /\ user' \in [Ids -> UserRows \cup {NoRow}] /\ made' \in 0..MaxRows /\ made < made'
         /\ made' \in Ids /\ made' = made + 1 /\ held' \in [Ids -> SUBSET Names]
<1>1. made + 1 \in Ids /\ made \in Nat
  BY DEF NewUser, TypeOK, UsersOK, Ids
<1>2. [who |-> p, name |-> n, owner |-> o, business |-> 0] \in UserRows
  BY DEF UserRows
<1>3. QED
  BY <1>1, <1>2 DEF NewUser, TypeOK, UsersOK, HistoryOK, Ids

LEMMA UnseenTypes ==
  ASSUME TypeOK, NEW n \in Names, NEW rs, Unseen(n, rs)
  PROVE  beside' \in [Requests -> SUBSET Names]
BY DEF Unseen, TypeOK, RequestsOK

LEMMA CreateTypes ==
  ASSUME TypeOK, NEW r \in Requests, Create(r)
  PROVE  TypeOK'
<1>1. job[r] \in SignUps /\ name[r] \in Names
  BY DEF Create, TypeOK, RequestsOK, SigningUp
<1>2. job[r].who \in People /\ job[r].owner \in BOOLEAN /\ job[r].given \in Given \cup {NoName}
  BY <1>1 DEF SignUps
<1>3. /\ user' \in [Ids -> UserRows \cup {NoRow}] /\ made' \in 0..MaxRows /\ made < made'
      /\ made' \in Ids /\ made' = made + 1 /\ held' \in [Ids -> SUBSET Names]
  BY <1>1, <1>2, NewUserTypes DEF Create
<1>4. RequestsOK'
  <2>1. /\ pc' = [pc EXCEPT ![r] = "wallet"] /\ job' = [job EXCEPT ![r] = job[r]]
        /\ name' = [name EXCEPT ![r] = name[r]] /\ row' = [row EXCEPT ![r] = made']
        /\ founded' = founded /\ founded \in Nat /\ made \in Nat
    BY DEF Create, Goto, businesses, TypeOK, RequestsOK, BusinessesOK, UsersOK
  <2>2. job[r] \in Jobs \cup {NoJob} /\ "wallet" \in SigningUp /\ "wallet" \notin Registering
    BY <1>1 DEF Jobs, SigningUp, Registering
  <2>3. made' \in Nat /\ made <= made' /\ made' \in 1..made' /\ founded' \in Nat /\ founded <= founded'
    BY <1>3, <2>1
  <2>4. beside' \in [Requests -> SUBSET Names]
    BY <1>1, UnseenTypes DEF Create
  <2>5. QED
    BY <1>1, <2>1, <2>2, <2>3, <2>4, OneRequest
<1>5. odd' \subseteq Names /\ byAgent' \subseteq Ids
  BY <1>2, <1>3 DEF Create, TypeOK, HistoryOK
<1>6. (UsersOK /\ BusinessesOK /\ BonusesOK /\ HistoryOK /\ CountsOK)'
  BY <1>3, <1>5 DEF Create, businesses, counts, otherHistory, TypeOK, UsersOK, BusinessesOK,
         BonusesOK, HistoryOK, CountsOK
<1>7. QED
  BY <1>4, <1>6 DEF TypeOK, CountsOK

LEMMA GiveUpTypes ==
  ASSUME TypeOK, NEW r \in Requests, Taken(r) \/ SignUpFails(r)
  PROVE  TypeOK'
<1>1. End(r) /\ UNCHANGED <<users, businesses, bonus, edits, userHistory, otherHistory>>
      /\ faults' \in Nat
  BY DEF Taken, SignUpFails, Fault, counts, TypeOK
<1>2. RequestsOK'
  BY <1>1, CountsKept, EndTypes DEF users, businesses
<1>3. QED
  BY <1>1, <1>2 DEF users, businesses, userHistory, otherHistory, TypeOK, UsersOK, BusinessesOK,
                    BonusesOK, HistoryOK

LEMMA WalletStepTypes ==
  ASSUME TypeOK, NEW r \in Requests, MakeWallet(r) \/ NoWalletMade(r)
  PROVE  TypeOK'
<1>1. row[r] \in 1..made /\ row[r] \in Ids /\ job[r] \in SignUps
  BY DEF MakeWallet, NoWalletMade, TypeOK, RequestsOK, UsersOK, SigningUp, Ids
<1>2. UNCHANGED <<made, founded>> /\ (End(r) \/ (Goto(r, "finish") /\ UNCHANGED <<job, name, row, beside>>))
  BY DEF MakeWallet, NoWalletMade, users, businesses
<1>3. RequestsOK'
  <2>1. CASE End(r)
    BY <1>2, <2>1, CountsKept, EndTypes
  <2>2. CASE Goto(r, "finish") /\ UNCHANGED <<job, name, row, beside>>
    <3>1. "finish" \in SigningUp /\ "finish" \notin Registering /\ beside' \in [Requests -> SUBSET Names]
      BY <2>2 DEF SigningUp, Registering, TypeOK, RequestsOK
    <3>2. QED
      BY <1>1, <1>2, <2>2, <3>1, CountsKept, StepTypes
  <2>3. QED
    BY <1>2, <2>1, <2>2
<1>4. (UsersOK /\ BusinessesOK /\ BonusesOK /\ HistoryOK /\ CountsOK)'
  <2>1. CASE MakeWallet(r)
    BY <1>1, <2>1 DEF MakeWallet, businesses, counts, userHistory, otherHistory, TypeOK, UsersOK,
                      BusinessesOK, BonusesOK, HistoryOK, CountsOK
  <2>2. CASE NoWalletMade(r)
    <3>1. told' \in [Ids -> {"none", "welcome", "failed"}] /\ cut' \subseteq Ids /\ faults' \in Nat
      BY <1>1, <2>2 DEF NoWalletMade, Fault, TypeOK, HistoryOK
    <3>2. QED
      BY <2>2, <3>1 DEF NoWalletMade, users, businesses, otherHistory, TypeOK, UsersOK,
                        BusinessesOK, BonusesOK, HistoryOK, CountsOK
  <2>3. QED
    BY <2>1, <2>2
<1>5. QED
  BY <1>3, <1>4 DEF TypeOK, CountsOK

LEMMA FinishTypes ==
  ASSUME TypeOK, NEW r \in Requests, Finish(r)
  PROVE  TypeOK'
<1>1. row[r] \in Ids /\ job[r] \in SignUps
  BY DEF Finish, TypeOK, RequestsOK, UsersOK, SigningUp, Ids
<1>2. RequestsOK'
  BY CountsKept, EndTypes DEF Finish, users, businesses
<1>3. BonusesOK'
  <2> DEFINE h == [NoHandler EXCEPT !.step = "find", !.code = job[r].code]
  <2>1. h \in Handlers /\ h.step = "find"
    BY <1>1 DEF NoHandler, Handlers, SignUps
  <2>2. bonus' = bonus \/ bonus' = [bonus EXCEPT ![row[r]] = h]
    BY DEF Finish
  <2> HIDE DEF h
  <2>3. QED
    BY <1>1, <2>1, <2>2 DEF TypeOK, BonusesOK
<1>4. (UsersOK /\ BusinessesOK /\ HistoryOK /\ CountsOK)'
  BY <1>1 DEF Finish, users, businesses, counts, otherHistory, TypeOK, UsersOK, BusinessesOK,
              HistoryOK, CountsOK
<1>5. QED
  BY <1>2, <1>3, <1>4 DEF TypeOK, CountsOK

LEMMA HandlerParts ==
  ASSUME NEW h \in Handlers, NEW b \in BOOLEAN
  PROVE  /\ [h EXCEPT !.step = "done"] \in Handlers /\ [h EXCEPT !.step = "done"].step = "done"
         /\ [h EXCEPT !.near = b] \in Handlers /\ [h EXCEPT !.near = b].step = h.step
         /\ [h EXCEPT !.near = b].to = h.to
BY DEF Handlers

LEMMA HandlerTypes ==
  ASSUME TypeOK, NEW i \in Ids,
         FindReferrer(i) \/ Credit(i) \/ Book(i) \/ BookFails(i) \/ BonusFails(i)
  PROVE  TypeOK'
<1>1. bonus[i] \in Handlers /\ (bonus[i].step \in {"credit", "book"} => bonus[i].to \in Ids)
  BY DEF TypeOK, BonusesOK
<1>2. RequestsOK'
  BY CountsKept, SameRequests DEF FindReferrer, Credit, Book, BookFails, BonusFails, requests,
     users, businesses, TypeOK, RequestsOK
<1>3. BonusesOK'
  <2>1. CASE HandlerDone(i)
    BY <2>1 DEF HandlerDone, TypeOK, BonusesOK, Handlers
  <2>2. CASE FindReferrer(i) /\ ~HandlerDone(i)
    <3>1. PICK u \in Ids : bonus' = [bonus EXCEPT ![i].step = "credit", ![i].to = u]
      BY <2>2 DEF FindReferrer, Referrers, Live
    <3>2. [bonus[i] EXCEPT !.step = "credit", !.to = u] \in Handlers
      BY <1>1 DEF Handlers
    <3>3. QED
      BY <3>1, <3>2 DEF TypeOK, BonusesOK, Handlers
  <2>3. CASE Credit(i) /\ ~HandlerDone(i)
    BY <1>1, <2>3 DEF Credit, TypeOK, BonusesOK, Handlers
  <2>4. CASE Book(i)
    <3> DEFINE done == [bonus[i] EXCEPT !.step = "done"]
    <3> DEFINE near(j) == [bonus[j] EXCEPT !.near = TRUE]
    <3>1. \A j \in Ids : \/ j = i /\ bonus'[j] = done
                         \/ j # i /\ bonus'[j] = near(j)
                         \/ bonus'[j] = bonus[j]
      <4> SUFFICES ASSUME NEW j \in Ids
                   PROVE  \/ j = i /\ bonus'[j] = done
                          \/ j # i /\ bonus'[j] = near(j)
                          \/ bonus'[j] = bonus[j]
        BY Zenon
      <4>1. bonus'[j] = CASE j = i         -> done
                          [] j \in Beside(i) -> near(j)
                          [] OTHER         -> bonus[j]
        BY <2>4, Zenon DEF Book
      <4>2. j \in Beside(i) => j # i
        BY DEF Beside
      <4> HIDE DEF near, done
      <4>3. QED
        BY <4>1, <4>2
    <3>2. done \in Handlers /\ done.step = "done"
      BY <1>1, HandlerParts
    <3>3. \A j \in Ids : near(j) \in Handlers /\ near(j).step = bonus[j].step /\ near(j).to = bonus[j].to
      <4> SUFFICES ASSUME NEW j \in Ids
                   PROVE  near(j) \in Handlers /\ near(j).step = bonus[j].step /\ near(j).to = bonus[j].to
        BY Zenon
      <4>1. bonus[j] \in Handlers
        BY DEF TypeOK, BonusesOK
      <4>2. TRUE \in BOOLEAN
        BY Zenon
      <4>3. QED
        BY <4>1, <4>2, HandlerParts, Zenon
    <3>4. \A j \in Ids : bonus'[j] \in Handlers /\ (bonus'[j].step \in {"credit", "book"} => bonus'[j].to \in Ids)
      BY <3>1, <3>2, <3>3 DEF TypeOK, BonusesOK
    <3>5. bonus' = [j \in Ids |-> bonus'[j]]
      BY <2>4 DEF Book
    <3>6. QED
      BY <3>4, <3>5 DEF BonusesOK
  <2>5. QED
    BY <2>1, <2>2, <2>3, <2>4 DEF BookFails, BonusFails
<1>4. wallet' \in [Ids -> Nat \cup {NoWallet}] /\ booked' \in [Ids -> Nat] /\ unbooked' \subseteq Ids
      /\ faults' \in Nat
  <2>1. CASE FindReferrer(i) \/ BonusFails(i)
    BY <2>1 DEF FindReferrer, BonusFails, Fault, users, counts, userHistory, TypeOK, UsersOK, HistoryOK
  <2>2. CASE Credit(i)
    BY <1>1, <2>2 DEF Credit, counts, userHistory, TypeOK, UsersOK, HistoryOK
  <2>3. CASE Book(i)
    BY <1>1, <2>3 DEF Book, counts, userHistory, TypeOK, UsersOK, HistoryOK
  <2>4. CASE BookFails(i)
    BY <1>1, <2>4 DEF BookFails, Fault, users, TypeOK, UsersOK, HistoryOK
  <2>5. QED
    BY <2>1, <2>2, <2>3, <2>4
<1>5. UNCHANGED <<user, made, businesses, edits, told, byAgent, cut, odd, held, otherHistory>>
  BY DEF FindReferrer, Credit, Book, BookFails, BonusFails, users, counts, userHistory
<1>6. (UsersOK /\ BusinessesOK /\ HistoryOK /\ CountsOK)'
  BY <1>4, <1>5 DEF businesses, otherHistory, TypeOK, UsersOK, BusinessesOK, HistoryOK, CountsOK
<1>7. QED
  BY <1>2, <1>3, <1>6 DEF TypeOK, CountsOK

LEMMA RegisterStaffTypes ==
  ASSUME TypeOK, NEW p \in People, NEW n \in Given, RegisterStaff(p, n)
  PROVE  TypeOK'
<1>1. n \in Names
  OBVIOUS
<1>2. /\ user' \in [Ids -> UserRows \cup {NoRow}] /\ made' \in 0..MaxRows /\ made < made'
      /\ made' \in Ids /\ made' = made + 1 /\ held' \in [Ids -> SUBSET Names]
  BY <1>1, NewUserTypes DEF RegisterStaff
<1>3. RequestsOK'
  <2>1. beside' \in [Requests -> SUBSET Names]
    BY <1>1, UnseenTypes DEF RegisterStaff
  <2>2. made' \in Nat /\ made <= made' /\ founded' \in Nat /\ founded <= founded'
    BY <1>2 DEF RegisterStaff, businesses, TypeOK, UsersOK, BusinessesOK
  <2>3. QED
    BY <2>1, <2>2, SameRequests DEF RegisterStaff
<1>4. (UsersOK /\ BusinessesOK /\ BonusesOK /\ HistoryOK /\ CountsOK)'
  BY <1>1, <1>2 DEF RegisterStaff, businesses, counts, otherHistory, TypeOK, UsersOK,
                    BusinessesOK, BonusesOK, HistoryOK, CountsOK
<1>5. QED
  BY <1>3, <1>4 DEF TypeOK, CountsOK

LEMMA EditTypes ==
  ASSUME TypeOK, NEW i \in Ids,
         \/ \E b \in BOOLEAN : UpdateRoles(i, b)
         \/ \E n \in Given : Rename(i, n)
         \/ DeleteUser(i)
  PROVE  TypeOK'
<1>1. user[i] \in UserRows /\ UNCHANGED <<made, businesses, pc, job, name, row, bonus, faults, told,
                                           byAgent, cut, unbooked, otherHistory>>
      /\ edits' \in Nat
  BY DEF UpdateRoles, Rename, DeleteUser, Live, Edit, requests, userHistory, TypeOK, UsersOK
<1> DEFINE Kept ==
      /\ user' \in [Ids -> UserRows \cup {NoRow}] /\ wallet' \in [Ids -> Nat \cup {NoWallet}]
      /\ booked' \in [Ids -> Nat] /\ odd' \subseteq Names /\ held' \in [Ids -> SUBSET Names]
      /\ beside' \in [Requests -> SUBSET Names]
<1>2. Kept
  <2>1. ASSUME NEW b \in BOOLEAN, UpdateRoles(i, b) PROVE Kept
    <3>1. [user[i] EXCEPT !.owner = b] \in UserRows
      BY <1>1 DEF UserRows
    <3>2. QED
      BY <2>1, <3>1 DEF UpdateRoles, requests, userHistory, TypeOK, UsersOK, HistoryOK, RequestsOK
  <2>2. ASSUME NEW n \in Given, Rename(i, n) PROVE Kept
    <3>1. [user[i] EXCEPT !.name = n] \in UserRows /\ n \in Names /\ user[i].name \in Names
      BY <1>1 DEF UserRows
    <3>2. beside' \in [Requests -> SUBSET Names]
      BY <2>2, <3>1, UnseenTypes DEF Rename
    <3>3. QED
      BY <2>2, <3>1, <3>2 DEF Rename, TypeOK, UsersOK, HistoryOK
  <2>3. CASE DeleteUser(i)
    BY <1>1, <2>3 DEF DeleteUser, requests, TypeOK, UsersOK, HistoryOK, RequestsOK, UserRows
  <2>4. QED
    BY <2>1, <2>2, <2>3
<1>3. RequestsOK'
  BY <1>1, <1>2, CountsKept, SameRequests DEF businesses
<1>4. (UsersOK /\ BusinessesOK /\ BonusesOK /\ HistoryOK /\ CountsOK)'
  BY <1>1, <1>2 DEF businesses, otherHistory, TypeOK, UsersOK, BusinessesOK, BonusesOK, HistoryOK,
                    CountsOK
<1>5. QED
  BY <1>3, <1>4 DEF TypeOK, CountsOK

LEMMA RegisterTypes ==
  ASSUME TypeOK, NEW r \in Requests, NEW u \in Ids, NEW f \in Firms, Register(r, u, f)
  PROVE  TypeOK'
<1> DEFINE j == [kind |-> "register", user |-> u, firm |-> f]
<1>1. j \in Registrations /\ j \in Jobs \cup {NoJob}
  BY DEF Registrations, Jobs
<1>2. RequestsOK'
  <2>1. /\ pc' = [pc EXCEPT ![r] = "read"] /\ job' = [job EXCEPT ![r] = j]
        /\ name' = [name EXCEPT ![r] = name[r]] /\ row' = [row EXCEPT ![r] = row[r]]
        /\ name[r] \in Names \cup {NoName} /\ row[r] \in Nat
        /\ beside' \in [Requests -> SUBSET Names] /\ UNCHANGED <<made, founded>>
    BY DEF Register, Goto, users, businesses, TypeOK, RequestsOK
  <2>2. "read" \in Registering /\ "read" \notin SigningUp
    BY DEF Registering, SigningUp
  <2> HIDE DEF j
  <2>3. QED
    BY <1>1, <2>1, <2>2, CountsKept, OneRequest
<1>3. (UsersOK /\ BusinessesOK /\ BonusesOK /\ HistoryOK /\ CountsOK)'
  BY DEF Register, users, businesses, counts, userHistory, TypeOK, UsersOK, BusinessesOK,
         BonusesOK, HistoryOK, CountsOK
<1>4. QED
  BY <1>2, <1>3 DEF TypeOK, CountsOK

LEMMA RegistrationTypes ==
  ASSUME TypeOK, NEW r \in Requests, pc[r] \in Registering
  PROVE  /\ job[r] \in Registrations /\ job[r].user \in Ids /\ job[r].firm \in Firms
         /\ pc[r] \in {"till", "link"} => row[r] \in 1..founded /\ row[r] \in BusinessIds
BY DEF TypeOK, RequestsOK, BusinessesOK, Registrations, BusinessIds

LEMMA ReadOwnerTypes ==
  ASSUME TypeOK, NEW r \in Requests, ReadOwner(r)
  PROVE  TypeOK'
<1>1. job[r] \in Registrations /\ UNCHANGED <<made, founded>>
  BY RegistrationTypes DEF ReadOwner, Registering, users, businesses
<1>2. RequestsOK'
  <2>1. CASE End(r)
    BY <1>1, <2>1, CountsKept, EndTypes
  <2>2. ASSUME NEW p \in {"found", "role"}, Goto(r, p), UNCHANGED <<job, name, row, beside>>
        PROVE  RequestsOK'
    <3>1. p \in Registering /\ p \notin SigningUp /\ p \notin {"till", "link"}
          /\ beside' \in [Requests -> SUBSET Names]
      BY <2>2 DEF Registering, SigningUp, TypeOK, RequestsOK
    <3>2. QED
      BY <1>1, <2>2, <3>1, CountsKept, StepTypes DEF SigningUp
  <2>3. QED
    BY <2>1, <2>2 DEF ReadOwner
<1>3. (UsersOK /\ BusinessesOK /\ BonusesOK /\ HistoryOK /\ CountsOK)'
  BY DEF ReadOwner, users, businesses, counts, userHistory, otherHistory, TypeOK, UsersOK,
         BusinessesOK, BonusesOK, HistoryOK, CountsOK
<1>4. QED
  BY <1>2, <1>3 DEF TypeOK, CountsOK

LEMMA PushRoleTypes ==
  ASSUME TypeOK, NEW r \in Requests, PushRole(r)
  PROVE  TypeOK'
<1> DEFINE u == job[r].user
<1>1. job[r] \in Registrations /\ u \in Ids /\ UNCHANGED <<made, founded>>
  BY RegistrationTypes DEF PushRole, Registering, businesses
<1>2. RequestsOK'
  <2>1. CASE End(r)
    BY <1>1, <2>1, CountsKept, EndTypes
  <2>2. CASE Goto(r, "found") /\ UNCHANGED <<job, name, row, beside>>
    <3>1. "found" \in Registering /\ "found" \notin SigningUp
          /\ beside' \in [Requests -> SUBSET Names]
      BY <2>2 DEF Registering, SigningUp, TypeOK, RequestsOK
    <3>2. QED
      BY <1>1, <2>2, <3>1, CountsKept, StepTypes DEF SigningUp
  <2>3. QED
    BY <2>1, <2>2 DEF PushRole
<1>3. user' \in [Ids -> UserRows \cup {NoRow}]
  <2>1. CASE u \in Live
    <3>1. ASSUME NEW b \in BOOLEAN PROVE [user[u] EXCEPT !.owner = b] \in UserRows
      BY <2>1 DEF Live, TypeOK, UsersOK, UserRows
    <3>2. [user[u] EXCEPT !.owner = TRUE] \in UserRows
      BY <3>1, Zenon
    <3> DEFINE new == [user[u] EXCEPT !.owner = TRUE]
    <3>3. user' = [user EXCEPT ![u] = new]
      BY <2>1, Zenon DEF PushRole
    <3> HIDE DEF new
    <3>4. new \in UserRows
      BY <3>2 DEF new
    <3>5. QED
      BY <1>1, <3>3, <3>4 DEF TypeOK, UsersOK
  <2>2. CASE u \notin Live
    BY <2>2 DEF PushRole, TypeOK, UsersOK
  <2>3. QED
    BY <2>1, <2>2
<1>4. (UsersOK /\ BusinessesOK /\ BonusesOK /\ HistoryOK /\ CountsOK)'
  BY <1>3 DEF PushRole, businesses, counts, userHistory, otherHistory, TypeOK, UsersOK,
         BusinessesOK, BonusesOK, HistoryOK, CountsOK
<1>5. QED
  BY <1>2, <1>4 DEF TypeOK, CountsOK

LEMMA FoundTypes ==
  ASSUME TypeOK, NEW r \in Requests, Found(r)
  PROVE  TypeOK'
<1> DEFINE b == founded + 1
<1>1. job[r] \in Registrations /\ job[r].user \in Ids /\ job[r].firm \in Firms
      /\ founded \in Nat /\ UNCHANGED made
  BY RegistrationTypes DEF Found, Registering, users, TypeOK, BusinessesOK
<1>2. CASE End(r) /\ UNCHANGED <<firm, founded, founder>>
  <2>1. RequestsOK'
    BY <1>1, <1>2, CountsKept, EndTypes
  <2>2. (UsersOK /\ BusinessesOK /\ BonusesOK /\ HistoryOK /\ CountsOK)'
    BY <1>2 DEF Found, users, counts, userHistory, TypeOK, UsersOK, BusinessesOK,
                BonusesOK, HistoryOK, CountsOK
  <2>3. QED
    BY <2>1, <2>2 DEF TypeOK, CountsOK
<1>3. CASE /\ founded < MaxFounded /\ founded' = b
           /\ firm' = [firm EXCEPT ![b] = job[r].firm]
           /\ founder' = [founder EXCEPT ![b] = job[r].user]
           /\ row' = [row EXCEPT ![r] = b]
           /\ Goto(r, "till") /\ UNCHANGED <<job, name, beside>>
  <2>1. RequestsOK'
    <3>1. /\ pc' = [pc EXCEPT ![r] = "till"] /\ job' = [job EXCEPT ![r] = job[r]]
          /\ name' = [name EXCEPT ![r] = name[r]] /\ name[r] \in Names \cup {NoName}
          /\ beside' \in [Requests -> SUBSET Names] /\ job[r] \in Jobs \cup {NoJob}
          /\ made' \in Nat /\ made <= made'
      BY <1>1, <1>3 DEF Goto, TypeOK, RequestsOK, UsersOK
    <3>2. "till" \in Registering /\ "till" \notin SigningUp
      BY DEF Registering, SigningUp
    <3>3. b \in Nat /\ b \in 1..founded' /\ founded <= founded' /\ founded' \in Nat
      BY <1>1, <1>3
    <3>4. QED
      BY <1>1, <1>3, <3>1, <3>2, <3>3, OneRequest
  <2>2. b \in BusinessIds
    BY <1>1, <1>3 DEF BusinessIds
  <2>3. (UsersOK /\ BusinessesOK /\ BonusesOK /\ HistoryOK /\ CountsOK)'
    BY <1>1, <1>3, <2>2 DEF Found, users, counts, userHistory, TypeOK, UsersOK, BusinessesOK,
                BonusesOK, HistoryOK, CountsOK, BusinessIds
  <2>4. QED
    BY <2>1, <2>3 DEF TypeOK, CountsOK
<1>4. QED
  BY <1>2, <1>3 DEF Found

LEMMA MakeTillTypes ==
  ASSUME TypeOK, NEW r \in Requests, MakeTill(r)
  PROVE  TypeOK'
<1>1. /\ job[r] \in Registrations /\ row[r] \in 1..founded /\ row[r] \in BusinessIds
      /\ UNCHANGED <<made, founded>> /\ beside' \in [Requests -> SUBSET Names]
  BY RegistrationTypes DEF MakeTill, Registering, users, TypeOK, RequestsOK
<1>2. "link" \in Registering /\ "link" \notin SigningUp
  BY DEF Registering, SigningUp
<1>3. RequestsOK'
  BY <1>1, <1>2, CountsKept, StepTypes DEF MakeTill, SigningUp
<1>4. (UsersOK /\ BusinessesOK /\ BonusesOK /\ HistoryOK /\ CountsOK)'
  BY <1>1 DEF MakeTill, users, counts, userHistory, otherHistory, TypeOK, UsersOK, BusinessesOK,
              BonusesOK, HistoryOK, CountsOK
<1>5. QED
  BY <1>3, <1>4 DEF TypeOK, CountsOK

LEMMA LinkTypes ==
  ASSUME TypeOK, NEW r \in Requests, Link(r)
  PROVE  TypeOK'
<1> DEFINE u == job[r].user
<1>1. u \in Ids /\ row[r] \in BusinessIds /\ UNCHANGED <<made, founded>>
  BY RegistrationTypes DEF Link, Registering, businesses
<1>2. RequestsOK'
  BY <1>1, CountsKept, EndTypes DEF Link
<1>3. user' \in [Ids -> UserRows \cup {NoRow}]
  <2>1. u \in Live => [user[u] EXCEPT !.business = row[r]] \in UserRows
    BY <1>1 DEF Live, TypeOK, UsersOK, UserRows
  <2>2. QED
    BY <1>1, <2>1 DEF Link, TypeOK, UsersOK
<1>4. (UsersOK /\ BusinessesOK /\ BonusesOK /\ HistoryOK /\ CountsOK)'
  BY <1>3 DEF Link, businesses, counts, userHistory, otherHistory, TypeOK, UsersOK,
         BusinessesOK, BonusesOK, HistoryOK, CountsOK
<1>5. QED
  BY <1>2, <1>4 DEF TypeOK, CountsOK

LEMMA RegisterFailsTypes ==
  ASSUME TypeOK, NEW r \in Requests, RegisterFails(r)
  PROVE  TypeOK'
<1>1. pc[r] \in {"till", "link"} => row[r] \in BusinessIds
  BY RegistrationTypes DEF RegisterFails
<1>2. RequestsOK'
  BY CountsKept, EndTypes DEF RegisterFails, users, businesses
<1>3. stopped' \subseteq BusinessIds /\ faults' \in Nat
  BY <1>1 DEF RegisterFails, Fault, TypeOK, HistoryOK
<1>4. (UsersOK /\ BusinessesOK /\ BonusesOK /\ HistoryOK /\ CountsOK)'
  BY <1>3 DEF RegisterFails, users, businesses, userHistory, TypeOK, UsersOK,
         BusinessesOK, BonusesOK, HistoryOK, CountsOK
<1>5. QED
  BY <1>2, <1>4 DEF TypeOK, CountsOK

LEMMA CrashTypes ==
  ASSUME TypeOK, Crash
  PROVE  TypeOK'
<1>1. RequestsOK'
  BY DEF Crash, SigningUp, Registering, TypeOK, RequestsOK
<1>2. BonusesOK'
  <2>1. \A i \in Ids : bonus'[i] \in Handlers
                       /\ (bonus'[i].step \in {"credit", "book"} => bonus'[i].to \in Ids)
    <3> SUFFICES ASSUME NEW i \in Ids
                 PROVE  bonus'[i] \in Handlers
                        /\ (bonus'[i].step \in {"credit", "book"} => bonus'[i].to \in Ids)
      OBVIOUS
    <3> DEFINE done == [bonus[i] EXCEPT !.step = "done"]
    <3>1. done \in Handlers /\ done.step = "done" /\ bonus[i] \in Handlers
      BY DEF TypeOK, BonusesOK, Handlers
    <3>2. bonus'[i] = IF bonus[i].step = "none" THEN bonus[i] ELSE done
      BY DEF Crash
    <3> HIDE DEF done
    <3>3. QED
      BY <3>1, <3>2
  <2>2. QED
    BY <2>1 DEF Crash, BonusesOK
<1>3. cut' \subseteq Ids /\ unbooked' \subseteq Ids /\ stopped' \subseteq BusinessIds /\ faults' \in Nat
  <2>1. \A r \in Requests : /\ pc[r] \in {"wallet", "finish"} => row[r] \in Ids
                            /\ pc[r] \in {"till", "link"} => row[r] \in BusinessIds
    BY DEF TypeOK, RequestsOK, UsersOK, BusinessesOK, Ids, BusinessIds
  <2>2. QED
    BY <2>1 DEF Crash, Fault, TypeOK, HistoryOK, BonusesOK
<1>4. (UsersOK /\ BusinessesOK /\ HistoryOK /\ CountsOK)'
  BY <1>3 DEF Crash, users, businesses, TypeOK, UsersOK, BusinessesOK, HistoryOK, CountsOK
<1>5. QED
  BY <1>1, <1>2, <1>4 DEF TypeOK, CountsOK

LEMMA TypesKept ==
  ASSUME TypeOK, [Next]_vars
  PROVE  TypeOK'
<1>1. CASE UNCHANGED vars
  BY <1>1 DEF vars, users, businesses, requests, counts, userHistory, otherHistory, TypeOK, UsersOK,
              BusinessesOK, RequestsOK, BonusesOK, HistoryOK
<1>2. QED
  BY <1>1, NextCases, SignUpTypes, ChooseNameTypes, WalletStepTypes, CreateTypes, GiveUpTypes,
     FinishTypes, HandlerTypes, RegisterStaffTypes, EditTypes, RegisterTypes, ReadOwnerTypes,
     PushRoleTypes, FoundTypes, MakeTillTypes, LinkTypes, RegisterFailsTypes, CrashTypes

LEMMA InitTypes == Init => TypeOK
BY DEF Init, TypeOK, UsersOK, BusinessesOK, RequestsOK, BonusesOK, HistoryOK, Handlers, NoHandler,
       SigningUp, Registering
-------------------------------------------------------------------------------
(* What a step leaves alone. *)

(* The registrations under way are those that were, at the same place.       *)
RegistrationsGoOn ==
  \A q \in Requests : pc[q] \in Registering \/ pc'[q] \in Registering
                        => pc'[q] = pc[q] /\ job'[q] = job[q] /\ row'[q] = row[q]
(* So are the sign-ups that have a row.                                      *)
SignUpsGoOn ==
  \A q \in Requests : pc[q] \in {"wallet", "finish"} \/ pc'[q] \in {"wallet", "finish"}
                        => pc'[q] = pc[q] /\ job'[q] = job[q] /\ row'[q] = row[q]
(* No user is deleted or linked; a new one has no business.                  *)
OwnersGoOn ==
  /\ \A i \in 1..made : /\ i \in Live' <=> i \in Live
                        /\ i \in Live => user'[i].business = user[i].business
  /\ \A i \in Ids : i > made /\ i \in Live' => user'[i].business = 0

LEMMA LiveIsMade ==
  ASSUME Inv
  PROVE  \A i \in Live : i \in Ids /\ i \in 1..made
BY DEF Inv, AccountsStand, IdsStand, Live, TypeOK, UsersOK, Ids

LEMMA RegistrationsUntouched ==
  ASSUME Inv, TypeOK', RegistrationsGoOn, OwnersGoOn,
         UNCHANGED <<businesses, founder, doubled, stopped>>
  PROVE  RegistrationsStand' /\ OwnersAreWhole' /\ OrphanHasCause'
<1>1. \A q \in Requests : pc'[q] \in Registering => /\ job'[q].user \in 1..made
                                                    /\ pc'[q] = pc[q] /\ job'[q] = job[q] /\ row'[q] = row[q]
  BY DEF Inv, AccountsStand, IdsStand, RegistrationsGoOn
<1> DEFINE BusyNext(u) == {r \in Requests : pc'[r] \in Registering /\ job'[r].user = u}
<1>2. \A u : BusyNext(u) = Busy(u)
  BY <1>1 DEF Busy, RegistrationsGoOn
<1>3. RegistrationsStand'
  <2>1. ASSUME NEW q \in Requests, pc'[q] \in Registering
        PROVE  /\ pc'[q] \in {"till", "link"} => founder'[row'[q]] = job'[q].user
               /\ pc'[q] = "link" => row'[q] \in till'
               /\ job'[q].user \notin doubled' => BusyNext(job'[q].user) = {q}
               /\ pc'[q] \in Registering \ {"read"} /\ job'[q].user \in Live' \ doubled'
                    => user'[job'[q].user].business = 0
    <3>1. pc[q] = pc'[q] /\ job'[q] = job[q] /\ row'[q] = row[q] /\ job[q].user \in 1..made
      BY <1>1, <2>1
    <3>2. BusyNext(job'[q].user) = Busy(job[q].user)
      BY <1>2, <3>1
    <3> HIDE DEF BusyNext
    <3>3. QED
      BY <2>1, <3>1, <3>2 DEF Inv, AccountsStand, RegistrationsStand, OwnersGoOn, businesses
  <2>2. \A q \in Requests :
          /\ pc'[q] \in {"till", "link"} => pc'[q] \in Registering
          /\ pc'[q] = "link" => pc'[q] \in Registering
    BY DEF Registering
  <2>3. \A q \in Requests :
          /\ pc'[q] \in {"till", "link"} => founder'[row'[q]] = job'[q].user
          /\ pc'[q] = "link" => row'[q] \in till'
          /\ pc'[q] \in Registering /\ job'[q].user \notin doubled' => BusyNext(job'[q].user) = {q}
          /\ pc'[q] \in Registering \ {"read"} /\ job'[q].user \in Live' \ doubled'
               => user'[job'[q].user].business = 0
    <3> HIDE DEF BusyNext
    <3>1. QED
      BY <2>1, <2>2
  <2>4. QED
    BY <2>3 DEF RegistrationsStand, Busy
<1>4. OwnersAreWhole'
  <2> SUFFICES ASSUME NEW i \in Live', user'[i].business # 0
               PROVE  LET b == user'[i].business
                      IN  firm[b] # NoRow /\ founder[b] = i /\ b \in till
    BY DEF OwnersAreWhole, businesses
  <2>1. i \in Ids /\ made \in Nat /\ (i \in 1..made \/ i > made)
    BY DEF Live, Ids, Inv, TypeOK, UsersOK
  <2>2. i \in Live /\ user'[i].business = user[i].business
    BY <2>1 DEF OwnersGoOn
  <2>3. QED
    BY <2>2 DEF Inv, AccountsStand, OwnersAreWhole
<1>5. OrphanHasCause'
  <2> SUFFICES ASSUME NEW b \in 1..founded
               PROVE  \/ \E i \in Live' : user'[i].business = b
                      \/ \E r \in Requests : pc'[r] \in {"till", "link"} /\ row'[r] = b
                      \/ b \in stopped \/ founder[b] \in doubled \/ founder[b] \notin Live'
    BY DEF OrphanHasCause, businesses
  <2>1. CASE \E i \in Live : user[i].business = b
    BY <2>1, LiveIsMade DEF OwnersGoOn
  <2>2. CASE \E r \in Requests : pc[r] \in {"till", "link"} /\ row[r] = b
    BY <2>2 DEF RegistrationsGoOn, Registering
  <2>3. CASE b \in stopped \/ founder[b] \in doubled \/ founder[b] \notin Live
    BY <2>3 DEF OwnersGoOn, Inv, AccountsStand, IdsStand
  <2>4. QED
    BY <2>1, <2>2, <2>3 DEF Inv, AccountsStand, OrphanHasCause
<1>6. QED
  BY <1>3, <1>4, <1>5

LEMMA SignUpsUntouched ==
  ASSUME Inv, SignUpsGoOn, UNCHANGED <<told, byAgent, cut>>, Live' \subseteq Live,
         \A i \in Live' : wallet'[i] = NoWallet => wallet[i] = NoWallet
  PROVE  SignUpsStand' /\ HalfMadeHasCause'
<1>1. SignUpsStand'
  BY DEF SignUpsStand, SignUpsGoOn, Inv, AccountsStand
<1>2. HalfMadeHasCause'
  BY DEF HalfMadeHasCause, SignUpsGoOn, Inv, AccountsStand
<1>3. QED
  BY <1>1, <1>2

LEMMA IdsUntouched ==
  ASSUME Inv, RegistrationsGoOn, UNCHANGED <<made, byAgent, firm, founded, founder>>,
         \A i \in Ids : i > made => user'[i] = user[i] /\ told'[i] = told[i]
  PROVE  IdsStand'
BY DEF IdsStand, RegistrationsGoOn, Inv, AccountsStand

(* No request but r moves.                                                   *)
OthersStay(r) == \A q \in Requests \ {r} : pc'[q] = pc[q] /\ job'[q] = job[q] /\ row'[q] = row[q]

LEMMA OneMoves ==
  ASSUME TypeOK, NEW r \in Requests, NEW p, Goto(r, p),
         \/ UNCHANGED job
         \/ \E j : job' = [job EXCEPT ![r] = j],
         \/ UNCHANGED row
         \/ \E w : row' = [row EXCEPT ![r] = w]
  PROVE  OthersStay(r) /\ pc'[r] = p
BY DEF Goto, OthersStay, TypeOK, RequestsOK

LEMMA EndMoves ==
  ASSUME TypeOK, NEW r \in Requests, End(r)
  PROVE  OthersStay(r) /\ pc'[r] = "idle"
BY OneMoves DEF End

LEMMA RegistrationsStay ==
  ASSUME TypeOK, NEW r \in Requests, OthersStay(r), pc[r] \notin Registering, pc'[r] \notin Registering
  PROVE  RegistrationsGoOn
BY DEF RegistrationsGoOn, OthersStay

LEMMA SignUpsStay ==
  ASSUME TypeOK, NEW r \in Requests, OthersStay(r), pc[r] \notin {"wallet", "finish"},
         pc'[r] \notin {"wallet", "finish"}
  PROVE  SignUpsGoOn
BY DEF SignUpsGoOn, OthersStay

(* Nobody's row changes.                                                     *)
LEMMA SameUsers ==
  ASSUME Inv, UNCHANGED <<user, made>>
  PROVE  Live' = Live /\ OwnersGoOn /\ \A i \in Ids : i > made => user'[i] = user[i]
<1>1. Live' = Live
  BY DEF Live
<1>2. \A i \in Ids : i > made => i \notin Live
  BY LiveIsMade DEF Inv, TypeOK, UsersOK, Ids
<1>3. QED
  BY <1>1, <1>2 DEF OwnersGoOn

(* A row of the table is edited, its business excepted.                      *)
LEMMA EditedUser ==
  ASSUME Inv, NEW i \in Live, NEW new \in UserRows, user' = [user EXCEPT ![i] = new],
         new.business = user[i].business, UNCHANGED made
  PROVE  Live' = Live /\ OwnersGoOn /\ \A k \in Ids : k > made => user'[k] = user[k]
<1>1. new # NoRow /\ user \in [Ids -> UserRows \cup {NoRow}] /\ i \in Ids /\ i \in 1..made /\ made \in Nat
  BY LiveIsMade DEF Inv, TypeOK, UsersOK
<1>2. Live' = Live
  BY <1>1 DEF Live
<1>3. \A k \in Ids : k > made => k \notin Live
  BY LiveIsMade DEF Inv, TypeOK, UsersOK, Ids
<1>4. \A k \in Live : user'[k].business = user[k].business
  BY <1>1 DEF Live
<1>5. QED
  BY <1>1, <1>2, <1>3, <1>4 DEF OwnersGoOn, Ids

LEMMA Untouched ==
  ASSUME Inv, TypeOK', RegistrationsGoOn, SignUpsGoOn, OwnersGoOn, Live' = Live,
         UNCHANGED <<made, businesses, founder, doubled, stopped, told, byAgent, cut>>,
         \A i \in Live' : wallet'[i] = NoWallet => wallet[i] = NoWallet,
         \A i \in Ids : i > made => user'[i] = user[i]
  PROVE  AccountsStand'
BY RegistrationsUntouched, SignUpsUntouched, IdsUntouched DEF AccountsStand, businesses

LEMMA BystanderStands ==
  ASSUME Inv, TypeOK', NEW r \in Requests,
         (\E j \in Sent : SignUp(r, j)) \/ ChooseName(r) \/ Taken(r) \/ SignUpFails(r)
  PROVE  AccountsStand'
<1>1. pc[r] \notin Registering /\ pc[r] \notin {"wallet", "finish"}
  BY DEF SignUp, ChooseName, Taken, SignUpFails, Registering
<1>2. OthersStay(r) /\ pc'[r] \in {"idle", "name", "create"}
  <2>1. ASSUME NEW j \in Sent, SignUp(r, j)
        PROVE  OthersStay(r) /\ pc'[r] \in {"idle", "name", "create"}
    BY <2>1, OneMoves DEF SignUp, Inv
  <2>2. CASE ChooseName(r)
    BY <2>2, OneMoves DEF ChooseName, Inv
  <2>3. CASE Taken(r) \/ SignUpFails(r)
    BY <2>3, EndMoves DEF Taken, SignUpFails, Inv
  <2>4. QED
    BY <2>1, <2>2, <2>3
<1>3. RegistrationsGoOn /\ SignUpsGoOn
  BY <1>1, <1>2, RegistrationsStay, SignUpsStay DEF Inv, Registering
<1>4. UNCHANGED <<users, businesses, founder, doubled, stopped, told, byAgent, cut>>
  BY DEF SignUp, ChooseName, Taken, SignUpFails, userHistory, otherHistory
<1>5. QED
  BY <1>3, <1>4, SameUsers, Untouched DEF users

LEMMA HandlerStands ==
  ASSUME Inv, TypeOK', NEW i \in Ids,
         FindReferrer(i) \/ Credit(i) \/ Book(i) \/ BookFails(i) \/ BonusFails(i)
  PROVE  AccountsStand'
<1>1. UNCHANGED <<user, made, businesses, requests, founder, doubled, stopped, told, byAgent, cut>>
  BY DEF FindReferrer, Credit, Book, BookFails, BonusFails, users, userHistory, otherHistory
<1>2. RegistrationsGoOn /\ SignUpsGoOn
  BY <1>1 DEF requests, RegistrationsGoOn, SignUpsGoOn
<1>3. \A k \in Ids : wallet'[k] = NoWallet => wallet[k] = NoWallet
  <2>1. CASE UNCHANGED wallet
    BY <2>1
  <2>2. CASE Credit(i) /\ wallet' # wallet
    BY <2>2 DEF Credit, Inv, TypeOK, UsersOK
  <2>3. QED
    BY <2>1, <2>2 DEF FindReferrer, Book, BookFails, BonusFails, users
<1>4. Live' \subseteq Ids
  BY DEF Live
<1>5. QED
  BY <1>1, <1>2, <1>3, <1>4, SameUsers, Untouched

LEMMA EditStands ==
  ASSUME Inv, TypeOK', NEW i \in Ids,
         (\E b \in BOOLEAN : UpdateRoles(i, b)) \/ (\E n \in Given : Rename(i, n))
  PROVE  AccountsStand'
<1>1. i \in Live /\ user[i] \in UserRows
      /\ UNCHANGED <<made, wallet, businesses, pc, job, row, founder, doubled, stopped, told, byAgent, cut>>
  BY DEF UpdateRoles, Rename, Live, requests, userHistory, otherHistory, Inv, TypeOK, UsersOK
<1> DEFINE Edited ==
      \E new \in UserRows : user' = [user EXCEPT ![i] = new] /\ new.business = user[i].business
<1>2. Edited
  <2>1. ASSUME NEW b \in BOOLEAN, UpdateRoles(i, b) PROVE Edited
    <3> DEFINE new == [user[i] EXCEPT !.owner = b]
    <3>1. new \in UserRows /\ new.business = user[i].business
      BY <1>1 DEF UserRows
    <3>2. user' = [user EXCEPT ![i] = new]
      BY <2>1 DEF UpdateRoles
    <3> HIDE DEF new
    <3>3. QED
      BY <3>1, <3>2
  <2>2. ASSUME NEW n \in Given, Rename(i, n) PROVE Edited
    <3> DEFINE new == [user[i] EXCEPT !.name = n]
    <3>1. new \in UserRows /\ new.business = user[i].business
      BY <1>1 DEF UserRows
    <3>2. user' = [user EXCEPT ![i] = new]
      BY <2>2 DEF Rename
    <3> HIDE DEF new
    <3>3. QED
      BY <3>1, <3>2
  <2>3. QED
    BY <2>1, <2>2
<1>3. Live' = Live /\ OwnersGoOn /\ \A k \in Ids : k > made => user'[k] = user[k]
  BY <1>1, <1>2, EditedUser
<1>4. RegistrationsGoOn /\ SignUpsGoOn
  BY <1>1 DEF RegistrationsGoOn, SignUpsGoOn
<1>5. QED
  BY <1>1, <1>3, <1>4, Untouched
-------------------------------------------------------------------------------
(* What the steps of a sign-up keep. *)

(* A sign-up with a row stays one or ends; registrations see nothing of it.  *)
LEMMA AfterTheRow ==
  ASSUME Inv, TypeOK', NEW r \in Requests, pc[r] \in {"wallet", "finish"},
         OthersStay(r), pc'[r] \in {"idle", "finish"},
         UNCHANGED <<user, made, businesses, founder, doubled, stopped, byAgent>>,
         \A i \in Ids \ {row[r]} : told'[i] = told[i]
  PROVE  RegistrationsStand' /\ OwnersAreWhole' /\ OrphanHasCause' /\ IdsStand'
<1>1. RegistrationsGoOn
  BY RegistrationsStay DEF Registering, Inv
<1>2. \A i \in Ids : i > made => told'[i] = told[i]
  BY DEF Inv, TypeOK, RequestsOK, UsersOK, Ids
<1>3. QED
  BY <1>1, <1>2, SameUsers, RegistrationsUntouched, IdsUntouched DEF businesses

LEMMA MakeWalletStands ==
  ASSUME Inv, TypeOK', NEW r \in Requests, MakeWallet(r)
  PROVE  AccountsStand'
<1>1. OthersStay(r) /\ pc'[r] = "finish"
  BY OneMoves DEF MakeWallet, Inv
<1>2. /\ RegistrationsStand' /\ OwnersAreWhole' /\ OrphanHasCause' /\ IdsStand'
  BY <1>1, AfterTheRow DEF MakeWallet, userHistory, otherHistory
<1>3. /\ \A i \in Ids : wallet'[i] = NoWallet => wallet[i] = NoWallet
      /\ wallet'[row[r]] # NoWallet /\ Live' = Live /\ Live \subseteq Ids
      /\ UNCHANGED <<told, byAgent, cut, job, row>>
  BY DEF MakeWallet, Live, userHistory, Inv, TypeOK, UsersOK
<1>4. SignUpsStand'
  BY <1>1, <1>3 DEF SignUpsStand, OthersStay, MakeWallet, Inv, AccountsStand
<1>5. HalfMadeHasCause'
  BY <1>1, <1>3 DEF HalfMadeHasCause, OthersStay, MakeWallet, Inv, AccountsStand
<1>6. QED
  BY <1>2, <1>4, <1>5 DEF AccountsStand

LEMMA NoWalletMadeStands ==
  ASSUME Inv, TypeOK', NEW r \in Requests, NoWalletMade(r)
  PROVE  AccountsStand'
<1>1. OthersStay(r) /\ pc'[r] \in {"idle", "finish"} /\ row[r] \in Ids
  <2>1. ASSUME End(r) PROVE OthersStay(r) /\ pc'[r] \in {"idle", "finish"}
    BY <2>1, EndMoves DEF Inv
  <2>2. ASSUME Goto(r, "finish"), UNCHANGED <<job, name, row, beside, told>>
        PROVE  OthersStay(r) /\ pc'[r] \in {"idle", "finish"}
    BY <2>2, OneMoves DEF Inv
  <2>3. row[r] \in Ids
    BY DEF NoWalletMade, Inv, TypeOK, RequestsOK, UsersOK, Ids
  <2>4. QED
    BY <2>1, <2>2, <2>3 DEF NoWalletMade
<1>2. /\ told' = told \/ (told' = [told EXCEPT ![row[r]] = "failed"] /\ pc'[r] = "idle")
      /\ pc'[r] = "finish" => UNCHANGED <<job, row>>
      /\ cut' = cut \cup {row[r]} /\ pc[r] = "wallet"
      /\ UNCHANGED <<wallet, byAgent, user, made, businesses, founder, doubled, stopped>>
  BY <1>1, EndMoves DEF NoWalletMade, users, otherHistory, Inv
<1>3. told \in [Ids -> {"none", "welcome", "failed"}] /\ Live' = Live
  BY <1>2 DEF Inv, TypeOK, HistoryOK, Live
<1>4. /\ RegistrationsStand' /\ OwnersAreWhole' /\ OrphanHasCause' /\ IdsStand'
  BY <1>1, <1>2, <1>3, AfterTheRow
<1>5. \A i \in Ids : /\ i # row[r] => told'[i] = told[i]
                     /\ told'[i] = "welcome" => told[i] = "welcome"
  BY <1>1, <1>2, <1>3
<1>6. SignUpsStand'
  BY <1>1, <1>2, <1>3, <1>5 DEF SignUpsStand, OthersStay, Inv, AccountsStand, TypeOK, HistoryOK
<1>7. HalfMadeHasCause'
  <2> SUFFICES ASSUME NEW i \in Live
               PROVE  \/ \E q \in Requests : pc'[q] \in {"wallet", "finish"} /\ row'[q] = i
                      \/ /\ wallet[i] = NoWallet => i \in cut'
                         /\ told'[i] # "welcome" => i \in byAgent \cup cut'
                         /\ i \in byAgent => told'[i] # "welcome"
    BY <1>2, <1>3 DEF HalfMadeHasCause
  <2>1. i \in Ids /\ (i \in byAgent => told'[i] # "welcome")
    BY <1>5 DEF Live, Inv, AccountsStand, SignUpsStand
  <2>2. CASE i = row[r]
    BY <1>2, <2>1, <2>2
  <2>3. CASE i # row[r]
    BY <1>1, <1>2, <1>5, <2>1, <2>3 DEF HalfMadeHasCause, OthersStay, Inv, AccountsStand
  <2>4. QED
    BY <2>2, <2>3
<1>8. QED
  BY <1>4, <1>6, <1>7 DEF AccountsStand

LEMMA FinishStands ==
  ASSUME Inv, TypeOK', NEW r \in Requests, Finish(r)
  PROVE  AccountsStand'
<1> DEFINE answer == IF job[r].agent THEN "failed" ELSE "welcome"
<1>1. OthersStay(r) /\ pc'[r] = "idle" /\ row[r] \in Ids /\ pc[r] = "finish"
  BY EndMoves DEF Finish, Inv, TypeOK, RequestsOK, UsersOK, Ids
<1>2. /\ told' = [told EXCEPT ![row[r]] = answer]
      /\ UNCHANGED <<wallet, byAgent, cut, user, made, businesses, founder, doubled, stopped>>
  BY DEF Finish, users, otherHistory
<1>3. told \in [Ids -> {"none", "welcome", "failed"}] /\ Live' = Live
  BY <1>2 DEF Inv, TypeOK, HistoryOK, Live
<1>4. /\ RegistrationsStand' /\ OwnersAreWhole' /\ OrphanHasCause' /\ IdsStand'
  BY <1>1, <1>2, <1>3, AfterTheRow
<1>5. /\ row[r] \in byAgent <=> job[r].agent
      /\ row[r] \in Live /\ wallet[row[r]] = NoWallet => row[r] \in cut
  BY <1>1 DEF Inv, AccountsStand, SignUpsStand
<1>6. told'[row[r]] = answer /\ (answer = "welcome" <=> row[r] \notin byAgent)
      /\ \A i \in Ids \ {row[r]} : told'[i] = told[i]
  <2>1. answer = "welcome" <=> row[r] \notin byAgent
    <3>1. CASE job[r].agent
      BY <1>5, <3>1
    <3>2. CASE ~job[r].agent
      BY <1>5, <3>2
    <3>3. QED
      BY <3>1, <3>2
  <2> HIDE DEF answer
  <2>2. QED
    BY <1>1, <1>2, <1>3, <2>1
<1> HIDE DEF answer
<1>7. \A i \in byAgent : told'[i] # "welcome"
  BY <1>6 DEF Inv, AccountsStand, SignUpsStand, TypeOK, HistoryOK
<1>8. SignUpsStand'
  BY <1>1, <1>2, <1>3, <1>7 DEF SignUpsStand, OthersStay, Inv, AccountsStand
<1>9. HalfMadeHasCause'
  <2> SUFFICES ASSUME NEW i \in Live
               PROVE  \/ \E q \in Requests : pc'[q] \in {"wallet", "finish"} /\ row'[q] = i
                      \/ /\ wallet[i] = NoWallet => i \in cut
                         /\ told'[i] # "welcome" => i \in byAgent \cup cut
                         /\ i \in byAgent => told'[i] # "welcome"
    BY <1>2, <1>3 DEF HalfMadeHasCause
  <2>1. i \in Ids
    BY DEF Live
  <2>2. CASE i = row[r]
    BY <1>5, <1>6, <1>7, <2>2
  <2>3. CASE i # row[r]
    BY <1>1, <1>6, <2>1, <2>3 DEF HalfMadeHasCause, OthersStay, Inv, AccountsStand
  <2>4. QED
    BY <2>2, <2>3
<1>10. QED
  BY <1>4, <1>8, <1>9 DEF AccountsStand

(* A new row is nobody's yet.                                                *)
LEMMA NewUserStands ==
  ASSUME Inv, TypeOK', NEW p \in People, NEW n \in Names, NEW o \in BOOLEAN, NewUser(p, n, o)
  PROVE  /\ made' = made + 1 /\ made \in Nat /\ made' \in Ids /\ made' \notin Live
         /\ Live' = Live \cup {made'} /\ OwnersGoOn /\ told[made'] = "none"
         /\ \A i \in Ids : i > made' => user'[i] = user[i]
<1> DEFINE new == [who |-> p, name |-> n, owner |-> o, business |-> 0]
<1>1. /\ made' = made + 1 /\ made \in Nat /\ made' \in Ids
  BY DEF NewUser, Inv, TypeOK, UsersOK, Ids
<1>2. new \in UserRows /\ new.business = 0
  BY DEF UserRows
<1>3. user' = [user EXCEPT ![made'] = new] /\ user \in [Ids -> UserRows \cup {NoRow}]
  BY DEF NewUser, Inv, TypeOK, UsersOK
<1> HIDE DEF new
<1>4. new # NoRow
  BY <1>2
<1>5. user[made'] = NoRow /\ told[made'] = "none"
  BY <1>1 DEF Inv, AccountsStand, IdsStand
<1>6. Live' = Live \cup {made'} /\ made' \notin Live
  BY <1>1, <1>3, <1>4, <1>5 DEF Live
<1>7. \A i \in Ids : i # made' => user'[i] = user[i]
  BY <1>3
<1>8. OwnersGoOn
  <2>1. \A i \in 1..made : i # made' /\ (i \in Live => i \in Ids)
    BY <1>1 DEF Live
  <2>2. \A i \in Ids : i > made /\ i \in Live' => i = made'
    BY <1>1, <1>6, LiveIsMade
  <2>3. QED
    BY <1>1, <1>2, <1>3, <1>6, <1>7, <2>1, <2>2 DEF OwnersGoOn
<1>9. QED
  BY <1>1, <1>5, <1>6, <1>7, <1>8

LEMMA CreateStands ==
  ASSUME Inv, TypeOK', NEW r \in Requests, Create(r)
  PROVE  AccountsStand'
<1>1. /\ job[r].who \in People /\ name[r] \in Names /\ job[r].owner \in BOOLEAN
  BY DEF Create, Inv, TypeOK, RequestsOK, SigningUp, SignUps
<1>2. /\ made' = made + 1 /\ made \in Nat /\ made' \in Ids /\ made' \notin Live
      /\ Live' = Live \cup {made'} /\ OwnersGoOn /\ told[made'] = "none"
      /\ \A i \in Ids : i > made' => user'[i] = user[i]
  BY <1>1, NewUserStands DEF Create
<1>3. OthersStay(r) /\ pc[r] = "create" /\ pc'[r] = "wallet" /\ row'[r] = made'
  BY OneMoves DEF Create, Inv, TypeOK, RequestsOK
<1>4. /\ UNCHANGED <<wallet, businesses, job, told, cut, founder, doubled, stopped>>
      /\ byAgent' = IF job[r].agent THEN byAgent \cup {made'} ELSE byAgent
  BY DEF Create, otherHistory
<1>5. RegistrationsGoOn
  BY <1>3, RegistrationsStay DEF Registering, Inv
<1>6. RegistrationsStand' /\ OwnersAreWhole' /\ OrphanHasCause'
  BY <1>2, <1>4, <1>5, RegistrationsUntouched
<1>7. IdsStand'
  <2>1. \A i \in Ids : i > made' => i > made
    BY <1>2 DEF Ids
  <2>2. \A k : k \in 1..made => k \in 1..made'
    BY <1>2
  <2>3. made' \in 1..made'
    BY <1>2
  <2>4. QED
    BY <1>2, <1>4, <1>5, <2>1, <2>2, <2>3 DEF IdsStand, RegistrationsGoOn, businesses, Inv, AccountsStand
<1>8. made' \notin byAgent /\ \A q \in Requests : pc[q] \in {"wallet", "finish"} => row[q] # made'
  BY <1>2 DEF Inv, AccountsStand, IdsStand, TypeOK, RequestsOK
<1>9. made' \in byAgent' <=> job[r].agent
  BY <1>4, <1>8, Zenon
<1>10. SignUpsStand'
  <2>1. \A i \in byAgent' : told'[i] # "welcome"
    BY <1>2, <1>4 DEF Inv, AccountsStand, SignUpsStand
  <2>2. ASSUME NEW q \in Requests, pc'[q] \in {"wallet", "finish"}
        PROVE  /\ row'[q] \in byAgent' <=> job'[q].agent
               /\ pc'[q] = "finish" /\ row'[q] \in Live' /\ wallet'[row'[q]] = NoWallet => row'[q] \in cut'
    <3>1. CASE q = r
      BY <1>3, <1>4, <1>9, <3>1
    <3>2. CASE q # r
      BY <1>2, <1>3, <1>4, <1>8, <2>2, <3>2 DEF OthersStay, Inv, AccountsStand, SignUpsStand
    <3>3. QED
      BY <3>1, <3>2
  <2>3. QED
    BY <2>1, <2>2 DEF SignUpsStand
<1>11. HalfMadeHasCause'
  <2> SUFFICES ASSUME NEW i \in Live'
               PROVE  \/ \E q \in Requests : pc'[q] \in {"wallet", "finish"} /\ row'[q] = i
                      \/ /\ wallet[i] = NoWallet => i \in cut
                         /\ told[i] # "welcome" => i \in byAgent' \cup cut
                         /\ i \in byAgent' => told[i] # "welcome"
    BY <1>4 DEF HalfMadeHasCause
  <2>1. CASE i = made'
    BY <1>3, <2>1
  <2>2. CASE i # made' /\ \E q \in Requests : pc[q] \in {"wallet", "finish"} /\ row[q] = i
    BY <1>3, <2>2 DEF OthersStay
  <2>3. CASE i # made' /\ ~\E q \in Requests : pc[q] \in {"wallet", "finish"} /\ row[q] = i
    BY <1>2, <1>4, <2>3 DEF HalfMadeHasCause, Inv, AccountsStand
  <2>4. QED
    BY <2>1, <2>2, <2>3
<1>12. QED
  BY <1>6, <1>7, <1>10, <1>11 DEF AccountsStand

LEMMA RegisterStaffStands ==
  ASSUME Inv, TypeOK', NEW p \in People, NEW n \in Given, RegisterStaff(p, n)
  PROVE  AccountsStand'
<1>1. /\ made' = made + 1 /\ made \in Nat /\ made' \in Ids /\ made' \notin Live
      /\ Live' = Live \cup {made'} /\ OwnersGoOn /\ told[made'] = "none"
      /\ \A i \in Ids : i > made' => user'[i] = user[i]
  BY NewUserStands DEF RegisterStaff
<1>2. /\ UNCHANGED <<wallet, businesses, pc, job, row, told, founder, doubled, stopped>>
      /\ byAgent' = byAgent \cup {made'} /\ cut' = cut \cup {made'}
  BY DEF RegisterStaff, otherHistory
<1>3. RegistrationsGoOn
  BY <1>2 DEF RegistrationsGoOn
<1>4. RegistrationsStand' /\ OwnersAreWhole' /\ OrphanHasCause'
  BY <1>1, <1>2, <1>3, RegistrationsUntouched
<1>5. IdsStand'
  <2>1. \A i \in Ids : i > made' => i > made
    BY <1>1 DEF Ids
  <2>2. \A k : k \in 1..made => k \in 1..made'
    BY <1>1
  <2>3. made' \in 1..made'
    BY <1>1
  <2>4. QED
    BY <1>1, <1>2, <2>1, <2>2, <2>3 DEF IdsStand, businesses, Inv, AccountsStand
<1>6. made' \notin byAgent /\ \A q \in Requests : pc[q] \in {"wallet", "finish"} => row[q] # made'
  BY <1>1 DEF Inv, AccountsStand, IdsStand, TypeOK, RequestsOK
<1>7. SignUpsStand'
  BY <1>1, <1>2, <1>6 DEF SignUpsStand, Inv, AccountsStand
<1>8. HalfMadeHasCause'
  BY <1>1, <1>2, <1>6 DEF HalfMadeHasCause, Inv, AccountsStand
<1>9. QED
  BY <1>4, <1>5, <1>7, <1>8 DEF AccountsStand

LEMMA DeleteUserStands ==
  ASSUME Inv, TypeOK', NEW i \in Ids, DeleteUser(i)
  PROVE  AccountsStand'
<1>1. /\ UNCHANGED <<made, businesses, pc, job, row, told, byAgent, cut, founder, doubled, stopped>>
      /\ user' = [user EXCEPT ![i] = NoRow] /\ wallet' = [wallet EXCEPT ![i] = NoWallet]
      /\ user \in [Ids -> UserRows \cup {NoRow}] /\ wallet \in [Ids -> Nat \cup {NoWallet}] /\ i \in Live
  BY DEF DeleteUser, requests, otherHistory, Inv, TypeOK, UsersOK
<1>2. Live' = Live \ {i} /\ \A k \in Ids \ {i} : user'[k] = user[k] /\ wallet'[k] = wallet[k]
  BY <1>1 DEF Live
<1>3. RegistrationsGoOn /\ SignUpsGoOn
  BY <1>1 DEF RegistrationsGoOn, SignUpsGoOn
<1>4. SignUpsStand' /\ HalfMadeHasCause'
  BY <1>1, <1>2, <1>3, SignUpsUntouched DEF Live
<1>5. IdsStand'
  <2>1. i \in 1..made /\ made \in Nat
    BY <1>1, LiveIsMade DEF Inv, TypeOK, UsersOK
  <2>2. \A k \in Ids : k > made => user'[k] = user[k] /\ told'[k] = told[k]
    BY <1>1, <1>2, <2>1 DEF Ids
  <2>3. QED
    BY <1>1, <1>3, <2>2, IdsUntouched DEF businesses
<1>6. OwnersAreWhole'
  BY <1>1, <1>2 DEF OwnersAreWhole, businesses, Live, Inv, AccountsStand
<1>7. OrphanHasCause'
  BY <1>1, <1>2 DEF OrphanHasCause, OwnersAreWhole, businesses, Live, Inv, AccountsStand, TypeOK,
                    BusinessesOK
<1>8. RegistrationsStand'
  <2>1. \A u \in Live' : u \in Live /\ user'[u] = user[u]
    BY <1>2 DEF Live
  <2>2. QED
    BY <1>1, <2>1 DEF RegistrationsStand, Busy, businesses, Inv, AccountsStand
<1>9. QED
  BY <1>4, <1>5, <1>6, <1>7, <1>8 DEF AccountsStand
-------------------------------------------------------------------------------
(* What the steps of a registration keep. *)

(* Sign-ups see nothing of a registration.                                   *)
LEMMA BesideSignUps ==
  ASSUME Inv, NEW r \in Requests, OthersStay(r),
         pc[r] \notin {"wallet", "finish"}, pc'[r] \notin {"wallet", "finish"},
         UNCHANGED <<told, byAgent, cut, wallet>>, Live' = Live
  PROVE  SignUpsStand' /\ HalfMadeHasCause'
BY SignUpsStay, SignUpsUntouched DEF Inv

(* The registrations of the others see nothing of r, unless r registers.     *)
LEMMA OthersStand ==
  ASSUME Inv, NEW r \in Requests, OthersStay(r), pc[r] \in Registering,
         pc'[r] \in Registering => job'[r] = job[r],
         \A b \in 1..founded : founder'[b] = founder[b], till \subseteq till', doubled \subseteq doubled',
         \A u \in Live' \ doubled' :
            u \in Live /\ (user'[u].business = user[u].business \/ u = job[r].user),
         NEW q \in Requests \ {r}
  PROVE  /\ pc'[q] \in {"till", "link"} => founder'[row'[q]] = job'[q].user
         /\ pc'[q] = "link" => row'[q] \in till'
         /\ pc'[q] \in Registering /\ job'[q].user \notin doubled'
              => {p \in Requests : pc'[p] \in Registering /\ job'[p].user = job'[q].user} = {q}
         /\ pc'[q] \in Registering \ {"read"} /\ job'[q].user \in Live' \ doubled'
              => user'[job'[q].user].business = 0
<1>1. pc'[q] = pc[q] /\ job'[q] = job[q] /\ row'[q] = row[q]
  BY DEF OthersStay
<1>2. pc[q] \in {"till", "link"} => row[q] \in 1..founded
  BY DEF Inv, TypeOK, RequestsOK
<1>3. pc[q] \in Registering /\ job[q].user \notin doubled => Busy(job[q].user) = {q}
  BY DEF Inv, AccountsStand, RegistrationsStand
<1>4. pc[q] \in Registering /\ job[q].user \notin doubled => job[r].user # job[q].user
  BY <1>3 DEF Busy
<1>5. pc'[q] \in Registering /\ job'[q].user \notin doubled'
              => {p \in Requests : pc'[p] \in Registering /\ job'[p].user = job'[q].user} = {q}
  BY <1>1, <1>3, <1>4 DEF Busy, OthersStay
<1>6. QED
  BY <1>1, <1>2, <1>4, <1>5 DEF Inv, AccountsStand, RegistrationsStand

(* Alone with its user, r is the registration of the user that is left.      *)
LEMMA RegistrationsFollow ==
  ASSUME Inv, NEW r \in Requests, OthersStay(r), pc[r] \in Registering,
         pc'[r] \in Registering => job'[r] = job[r],
         \A b \in 1..founded : founder'[b] = founder[b], till \subseteq till', doubled \subseteq doubled',
         \A u \in Live' \ doubled' :
            u \in Live /\ (user'[u].business = user[u].business \/ u = job[r].user),
         pc'[r] \in {"till", "link"} => founder'[row'[r]] = job[r].user,
         pc'[r] = "link" => row'[r] \in till',
         pc'[r] \in Registering \ {"read"} /\ job[r].user \in Live' \ doubled'
              => user'[job[r].user].business = 0
  PROVE  RegistrationsStand'
<1> DEFINE BusyNext(u) == {p \in Requests : pc'[p] \in Registering /\ job'[p].user = u}
<1> DEFINE Stands(q) ==
      /\ pc'[q] \in {"till", "link"} => founder'[row'[q]] = job'[q].user
      /\ pc'[q] = "link" => row'[q] \in till'
      /\ pc'[q] \in Registering /\ job'[q].user \notin doubled' => BusyNext(job'[q].user) = {q}
      /\ pc'[q] \in Registering \ {"read"} /\ job'[q].user \in Live' \ doubled'
              => user'[job'[q].user].business = 0
<1>1. \A q \in Requests \ {r} : Stands(q)
  BY OthersStand
<1>2. Stands(r)
  <2>1. ASSUME pc'[r] \in Registering, job'[r].user \notin doubled'
        PROVE  BusyNext(job'[r].user) = {r}
    <3>1. job'[r] = job[r] /\ job[r].user \notin doubled
      BY <2>1
    <3>2. Busy(job[r].user) = {r}
      BY <3>1 DEF Inv, AccountsStand, RegistrationsStand
    <3>3. QED
      BY <2>1, <3>1, <3>2 DEF Busy, OthersStay
  <2>2. pc'[r] \in {"till", "link"} => pc'[r] \in Registering
    BY DEF Registering
  <2> HIDE DEF BusyNext
  <2>3. QED
    BY <2>1, <2>2
<1>3. \A q \in Requests : Stands(q)
  <2> HIDE DEF Stands
  <2>1. QED
    BY <1>1, <1>2
<1>4. QED
  BY <1>3 DEF RegistrationsStand, Busy

LEMMA RegisterStands ==
  ASSUME Inv, TypeOK', NEW r \in Requests, NEW u \in Ids, NEW f \in Firms, Register(r, u, f)
  PROVE  AccountsStand'
<1>1. /\ pc[r] = "idle" /\ u \in Live /\ pc' = [pc EXCEPT ![r] = "read"] /\ job'[r].user = u
      /\ OthersStay(r) /\ pc'[r] = "read" /\ u \in 1..made
      /\ UNCHANGED <<users, businesses, row, told, byAgent, cut, founder, stopped>>
  <2>1. job'[r] = [kind |-> "register", user |-> u, firm |-> f]
    BY DEF Register, Inv, TypeOK, RequestsOK
  <2>2. OthersStay(r) /\ pc'[r] = "read"
    BY OneMoves DEF Register, Inv
  <2>3. QED
    BY <2>1, <2>2, LiveIsMade DEF Register, Goto, userHistory
<1>2. doubled' = IF Busy(u) = {} THEN doubled ELSE doubled \cup {u}
  BY DEF Register
<1>3. SignUpsStand' /\ HalfMadeHasCause'
  BY <1>1, BesideSignUps, SameUsers DEF users
<1>4. IdsStand'
  BY <1>1 DEF IdsStand, OthersStay, users, businesses, Inv, AccountsStand
<1>5. OwnersAreWhole'
  BY <1>1 DEF OwnersAreWhole, Live, users, businesses, Inv, AccountsStand
<1>6. OrphanHasCause'
  <2>1. Live' = Live
    BY <1>1 DEF Live, users
  <2>2. \A q \in Requests : pc[q] \in {"till", "link"} => pc'[q] = pc[q] /\ row'[q] = row[q]
    BY <1>1 DEF OthersStay
  <2>3. doubled \subseteq doubled'
    BY <1>2
  <2>4. QED
    BY <1>1, <2>1, <2>2, <2>3 DEF OrphanHasCause, users, businesses, Inv, AccountsStand
<1>7. RegistrationsStand'
  <2> DEFINE BusyNext(w) == {p \in Requests : pc'[p] \in Registering /\ job'[p].user = w}
  <2> DEFINE Stands(q) ==
        /\ pc'[q] \in {"till", "link"} => founder'[row'[q]] = job'[q].user
        /\ pc'[q] = "link" => row'[q] \in till'
        /\ pc'[q] \in Registering /\ job'[q].user \notin doubled' => BusyNext(job'[q].user) = {q}
        /\ pc'[q] \in Registering \ {"read"} /\ job'[q].user \in Live' \ doubled'
                => user'[job'[q].user].business = 0
  <2>1. "idle" \notin Registering /\ "read" \in Registering /\ r \notin Busy(u)
    BY <1>1 DEF Registering, Busy
  <2>2. ASSUME NEW q \in Requests \ {r} PROVE Stands(q)
    <3>1. pc'[q] = pc[q] /\ job'[q] = job[q] /\ row'[q] = row[q]
      BY <1>1 DEF OthersStay
    <3>2. ASSUME pc[q] \in Registering, job[q].user \notin doubled'
          PROVE  BusyNext(job[q].user) = {q}
      <4>1. job[q].user \notin doubled /\ Busy(job[q].user) = {q}
        BY <1>2, <3>2 DEF Inv, AccountsStand, RegistrationsStand
      <4>2. job[q].user # u
        BY <1>2, <3>2, <4>1
      <4>3. QED
        BY <1>1, <4>1, <4>2 DEF Busy, OthersStay
    <3> HIDE DEF BusyNext
    <3>3. doubled \subseteq doubled' /\ Live' = Live /\ UNCHANGED <<till, founder, user>>
      BY <1>1, <1>2 DEF users, businesses, Live
    <3>4. QED
      BY <3>1, <3>2, <3>3 DEF Inv, AccountsStand, RegistrationsStand
  <2>3. Stands(r)
    <3>1. ASSUME u \notin doubled' PROVE BusyNext(u) = {r}
      <4>1. Busy(u) = {}
        BY <1>2, <3>1
      <4>2. QED
        BY <1>1, <2>1, <4>1 DEF Busy, OthersStay
    <3> HIDE DEF BusyNext
    <3>2. QED
      BY <1>1, <3>1
  <2>4. \A q \in Requests : Stands(q)
    <3> HIDE DEF Stands
    <3>1. QED
      BY <2>2, <2>3
  <2>5. QED
    BY <2>4 DEF RegistrationsStand, Busy
<1>8. QED
  BY <1>3, <1>4, <1>5, <1>6, <1>7 DEF AccountsStand

(* A registration that has no row yet goes on or ends; of the users, at most *)
(* the roles change.                                                         *)
LEMMA BeforeTheRow ==
  ASSUME Inv, TypeOK', NEW r \in Requests, OthersStay(r),
         pc[r] \in {"read", "role", "found"}, pc'[r] \in {"idle", "role", "found"},
         pc'[r] # "idle" => job'[r] = job[r],
         pc[r] = "read" /\ pc'[r] # "idle" => user[job[r].user].business = 0,
         UNCHANGED <<made, wallet, businesses, told, byAgent, cut, founder, doubled, stopped>>,
         Live' = Live, OwnersGoOn, \A i \in Ids : i > made => user'[i] = user[i]
  PROVE  AccountsStand'
<1>1. SignUpsStand' /\ HalfMadeHasCause'
  BY BesideSignUps
<1>2. \A u \in Live : user'[u].business = user[u].business
  BY LiveIsMade DEF OwnersGoOn
<1>3. RegistrationsStand'
  <2>1. pc[r] \in Registering
    BY DEF Registering
  <2>2. /\ pc[r] # "read" /\ job[r].user \in Live \ doubled => user[job[r].user].business = 0
        /\ pc'[r] \in Registering => job'[r] = job[r]
    BY <2>1 DEF Inv, AccountsStand, RegistrationsStand, Registering
  <2>3. pc'[r] \in Registering \ {"read"} /\ job[r].user \in Live' \ doubled'
              => user'[job[r].user].business = 0
    BY <1>2, <2>2 DEF Registering
  <2>4. QED
    BY <1>2, <2>1, <2>2, <2>3, RegistrationsFollow DEF businesses
<1>4. IdsStand'
  BY DEF IdsStand, OthersStay, Registering, businesses, Inv, AccountsStand
<1>5. OwnersAreWhole'
  BY <1>2 DEF OwnersAreWhole, businesses, Inv, AccountsStand
<1>6. OrphanHasCause'
  <2>1. \A q \in Requests : pc[q] \in {"till", "link"} => pc'[q] = pc[q] /\ row'[q] = row[q]
    BY DEF OthersStay
  <2>2. QED
    BY <1>2, <2>1 DEF OrphanHasCause, businesses, Inv, AccountsStand
<1>7. QED
  BY <1>1, <1>3, <1>4, <1>5, <1>6 DEF AccountsStand

LEMMA ReadOwnerStands ==
  ASSUME Inv, TypeOK', NEW r \in Requests, ReadOwner(r)
  PROVE  AccountsStand'
<1>1. UNCHANGED <<user, made, wallet, businesses, told, byAgent, cut, founder, doubled, stopped>>
      /\ pc[r] = "read"
  BY DEF ReadOwner, users, userHistory, otherHistory
<1>2. CASE End(r)
  BY <1>1, <1>2, EndMoves, SameUsers, BeforeTheRow DEF Inv
<1>3. CASE /\ user[job[r].user].business = 0 /\ UNCHANGED <<job, name, row, beside>>
           /\ Goto(r, "found") \/ Goto(r, "role")
  BY <1>1, <1>3, OneMoves, SameUsers, BeforeTheRow DEF Inv
<1>4. QED
  BY <1>2, <1>3 DEF ReadOwner

LEMMA PushRoleStands ==
  ASSUME Inv, TypeOK', NEW r \in Requests, PushRole(r)
  PROVE  AccountsStand'
<1> DEFINE u == job[r].user
<1>1. UNCHANGED <<made, wallet, businesses, told, byAgent, cut, founder, doubled, stopped>>
      /\ pc[r] = "role"
  BY DEF PushRole, userHistory, otherHistory
<1>2. CASE u \notin Live
  BY <1>1, <1>2, EndMoves, SameUsers, BeforeTheRow DEF PushRole, Inv
<1>3. CASE u \in Live
  <2> DEFINE new == [user[u] EXCEPT !.owner = TRUE]
  <2>1. user' = [user EXCEPT ![u] = new] /\ Goto(r, "found") /\ UNCHANGED job /\ UNCHANGED row
    BY <1>3, Zenon DEF PushRole
  <2>2. user[u] \in UserRows
    BY <1>3 DEF Live, Inv, TypeOK, UsersOK
  <2>3. ASSUME NEW b \in BOOLEAN
        PROVE  [user[u] EXCEPT !.owner = b] \in UserRows
               /\ [user[u] EXCEPT !.owner = b].business = user[u].business
    BY <2>2 DEF UserRows
  <2>4. new \in UserRows /\ new.business = user[u].business
    BY <2>3, Zenon
  <2> HIDE DEF new
  <2>5. Live' = Live /\ OwnersGoOn /\ \A k \in Ids : k > made => user'[k] = user[k]
    BY <1>1, <1>3, <2>1, <2>4, EditedUser
  <2>6. OthersStay(r) /\ pc'[r] = "found" /\ job' = job
    BY <2>1, OneMoves DEF Inv
  <2>7. QED
    BY <1>1, <2>5, <2>6, BeforeTheRow
<1>4. QED
  BY <1>2, <1>3

LEMMA FoundStands ==
  ASSUME Inv, TypeOK', NEW r \in Requests, Found(r)
  PROVE  AccountsStand'
<1> DEFINE b == founded + 1
<1>1. UNCHANGED <<user, made, wallet, till, told, byAgent, cut, doubled, stopped>> /\ pc[r] = "found"
  BY DEF Found, users, userHistory
<1>2. CASE End(r) /\ UNCHANGED <<firm, founded, founder>>
  BY <1>1, <1>2, EndMoves, SameUsers, BeforeTheRow DEF businesses, Inv
<1>3. CASE /\ founded < MaxFounded /\ founded' = b
           /\ firm' = [firm EXCEPT ![b] = job[r].firm]
           /\ founder' = [founder EXCEPT ![b] = job[r].user]
           /\ row' = [row EXCEPT ![r] = b]
           /\ Goto(r, "till") /\ UNCHANGED <<job, name, beside>>
  <2>1. OthersStay(r) /\ pc'[r] = "till" /\ row'[r] = b /\ job' = job
    BY <1>3, OneMoves DEF Inv, TypeOK, RequestsOK
  <2>2. /\ founded \in Nat /\ b \in BusinessIds /\ b \notin 1..founded
        /\ job[r].firm # NoRow /\ pc[r] \in Registering
    BY <1>1, <1>3, RegistrationTypes DEF Registering, Inv, TypeOK, BusinessesOK, BusinessIds
  <2>3. /\ founder'[b] = job[r].user /\ firm'[b] # NoRow
        /\ \A c \in BusinessIds \ {b} : founder'[c] = founder[c] /\ firm'[c] = firm[c]
    BY <1>3, <2>2 DEF Inv, TypeOK, BusinessesOK, HistoryOK
  <2>4. \A c : c \in 1..founded => c \in BusinessIds \ {b}
    BY <2>2 DEF Inv, TypeOK, BusinessesOK, BusinessIds
  <2>5. \A c \in 1..founded' : c = b \/ c \in 1..founded
    BY <1>3, <2>2
  <2>6. b \in 1..founded' /\ \A c : c \in 1..founded => c \in 1..founded'
    BY <1>3, <2>2
  <2>7. Live' = Live /\ OwnersGoOn
    BY <1>1, SameUsers
  <2>8. SignUpsStand' /\ HalfMadeHasCause'
    BY <1>1, <2>1, <2>7, BesideSignUps
  <2>9. IdsStand'
    <3>1. \A q \in Requests : pc'[q] \in Registering => job'[q].user \in 1..made
      BY <2>1, <2>2 DEF OthersStay, Inv, AccountsStand, IdsStand
    <3>2. \A c \in BusinessIds : c \in 1..founded' <=> firm'[c] # NoRow
      BY <2>2, <2>3, <2>4, <2>5, <2>6 DEF Inv, AccountsStand, IdsStand
    <3>3. \A c \in 1..founded' : founder'[c] \in 1..made
      BY <2>2, <2>3, <2>4, <2>5 DEF Inv, AccountsStand, IdsStand
    <3>4. QED
      BY <1>1, <3>1, <3>2, <3>3 DEF IdsStand, Inv, AccountsStand
  <2>10. RegistrationsStand'
    <3>1. job[r].user \in Live \ doubled => user[job[r].user].business = 0
      BY <1>1, <2>2 DEF Inv, AccountsStand, RegistrationsStand
    <3>2. QED
      BY <1>1, <2>1, <2>2, <2>3, <2>4, <2>7, <3>1, RegistrationsFollow DEF Registering
  <2>11. OwnersAreWhole'
    <3>1. \A i \in Live : user[i].business # 0 => user[i].business \in BusinessIds \ {b}
      <4>1. \A i \in Live : user[i].business # 0 => user[i].business \in BusinessIds
        BY DEF Live, Inv, TypeOK, UsersOK, UserRows
      <4>2. QED
        BY <2>2, <4>1 DEF Inv, AccountsStand, OwnersAreWhole, IdsStand
    <3>2. QED
      BY <1>1, <2>3, <2>7, <3>1 DEF OwnersAreWhole, Inv, AccountsStand
  <2>12. OrphanHasCause'
    <3> SUFFICES ASSUME NEW c \in 1..founded'
                 PROVE  \/ \E i \in Live : user[i].business = c
                        \/ \E q \in Requests : pc'[q] \in {"till", "link"} /\ row'[q] = c
                        \/ c \in stopped \/ founder'[c] \in doubled \/ founder'[c] \notin Live
      BY <1>1, <2>7 DEF OrphanHasCause
    <3>1. CASE c = b
      BY <2>1, <3>1
    <3>2. CASE c \in 1..founded
      <4>1. founder'[c] = founder[c]
        BY <2>3, <2>4, <3>2
      <4>2. \A q \in Requests : pc[q] \in {"till", "link"} => pc'[q] = pc[q] /\ row'[q] = row[q]
        BY <1>1, <2>1 DEF OthersStay
      <4>3. QED
        BY <3>2, <4>1, <4>2 DEF Inv, AccountsStand, OrphanHasCause
    <3>3. QED
      BY <2>5, <3>1, <3>2
  <2>13. QED
    BY <2>8, <2>9, <2>10, <2>11, <2>12 DEF AccountsStand
<1>4. QED
  BY <1>2, <1>3 DEF Found

LEMMA MakeTillStands ==
  ASSUME Inv, TypeOK', NEW r \in Requests, MakeTill(r)
  PROVE  AccountsStand'
<1>1. /\ UNCHANGED <<user, made, wallet, firm, founded, job, row, told, byAgent, cut, founder, doubled, stopped>>
      /\ pc[r] = "till" /\ till' = till \cup {row[r]} /\ pc[r] \in Registering
  BY DEF MakeTill, users, userHistory, otherHistory, Registering
<1>2. OthersStay(r) /\ pc'[r] = "link"
  BY OneMoves DEF MakeTill, Inv
<1>3. Live' = Live /\ OwnersGoOn /\ \A i \in Live : user'[i] = user[i]
  BY <1>1, SameUsers
<1>4. SignUpsStand' /\ HalfMadeHasCause'
  BY <1>1, <1>2, <1>3, BesideSignUps
<1>5. RegistrationsStand'
  <2>1. founder[row[r]] = job[r].user
        /\ (job[r].user \in Live \ doubled => user[job[r].user].business = 0)
    BY <1>1 DEF Inv, AccountsStand, RegistrationsStand
  <2>2. QED
    BY <1>1, <1>2, <1>3, <2>1, RegistrationsFollow
<1>6. IdsStand'
  BY <1>1, <1>2 DEF IdsStand, OthersStay, Inv, AccountsStand
<1>7. OwnersAreWhole'
  BY <1>1, <1>3 DEF OwnersAreWhole, Inv, AccountsStand
<1>8. OrphanHasCause'
  BY <1>1, <1>2, <1>3 DEF OrphanHasCause, OthersStay, Inv, AccountsStand
<1>9. QED
  BY <1>4, <1>5, <1>6, <1>7, <1>8 DEF AccountsStand

LEMMA LinkStands ==
  ASSUME Inv, TypeOK', NEW r \in Requests, Link(r)
  PROVE  AccountsStand'
<1> DEFINE u == job[r].user
<1> DEFINE b == row[r]
<1>1. /\ UNCHANGED <<made, wallet, businesses, told, byAgent, cut, founder, doubled, stopped>>
      /\ pc[r] = "link" /\ pc[r] \in Registering
  BY DEF Link, userHistory, otherHistory, Registering
<1>2. OthersStay(r) /\ pc'[r] = "idle"
  BY EndMoves DEF Link, Inv
<1>3. /\ b \in 1..founded /\ b \in BusinessIds /\ u \in 1..made /\ founder[b] = u /\ b \in till
      /\ u \in Live \ doubled => user[u].business = 0
  BY <1>1, RegistrationTypes DEF Inv, AccountsStand, IdsStand, RegistrationsStand
<1>4. /\ Live' = Live /\ \A i \in Live \ {u} : user'[i] = user[i]
      /\ u \in Live => user'[u].business = b
      /\ \A i \in Ids : i > made => user'[i] = user[i]
  <2>1. CASE u \notin Live
    BY <1>3, <2>1 DEF Link, Live
  <2>2. CASE u \in Live
    <3> DEFINE new == [user[u] EXCEPT !.business = b]
    <3>1. user[u] \in UserRows /\ u \in Ids /\ user \in [Ids -> UserRows \cup {NoRow}]
      BY <2>2 DEF Live, Inv, TypeOK, UsersOK
    <3>2. new \in UserRows /\ new.business = b
      BY <1>3, <3>1 DEF UserRows
    <3>3. user' = [user EXCEPT ![u] = new]
      BY <2>2 DEF Link
    <3> HIDE DEF new
    <3>4. new # NoRow
      BY <3>2
    <3>5. user'[u] = new /\ \A i \in Ids \ {u} : user'[i] = user[i]
      BY <3>1, <3>3
    <3>6. Live' = Live
      BY <2>2, <3>4, <3>5 DEF Live
    <3>7. \A i \in Ids : i > made => i # u
      BY <1>3 DEF Ids, Inv, TypeOK, UsersOK
    <3>8. QED
      BY <3>2, <3>5, <3>6, <3>7 DEF Live
  <2>3. QED
    BY <2>1, <2>2
<1>5. SignUpsStand' /\ HalfMadeHasCause'
  BY <1>1, <1>2, <1>4, BesideSignUps
<1>6. RegistrationsStand'
  BY <1>1, <1>2, <1>4, RegistrationsFollow DEF businesses, Registering
<1>7. IdsStand'
  BY <1>1, <1>2, <1>4 DEF IdsStand, OthersStay, Registering, businesses, Inv, AccountsStand
<1>8. OwnersAreWhole'
  <2>1. firm[b] # NoRow
    BY <1>3 DEF Inv, AccountsStand, IdsStand
  <2>2. QED
    BY <1>1, <1>3, <1>4, <2>1 DEF OwnersAreWhole, businesses, Inv, AccountsStand
<1>9. OrphanHasCause'
  <2> SUFFICES ASSUME NEW c \in 1..founded
               PROVE  \/ \E i \in Live : user'[i].business = c
                      \/ \E q \in Requests : pc'[q] \in {"till", "link"} /\ row'[q] = c
                      \/ c \in stopped \/ founder[c] \in doubled \/ founder[c] \notin Live
    BY <1>1, <1>4 DEF OrphanHasCause, businesses
  <2>1. CASE c = b
    BY <1>3, <1>4, <2>1
  <2>2. CASE c # b /\ \E q \in Requests : pc[q] \in {"till", "link"} /\ row[q] = c
    BY <1>2, <2>2 DEF OthersStay
  <2>3. CASE \E i \in Live : user[i].business = c
    <3>1. PICK i \in Live : user[i].business = c
      BY <2>3
    <3>2. CASE i = u
      <4>1. c # 0 /\ founder[c] = i
        BY <3>1, <3>2 DEF Inv, AccountsStand, OwnersAreWhole
      <4>2. QED
        BY <1>3, <3>1, <3>2, <4>1
    <3>3. CASE i # u
      BY <1>4, <3>1, <3>3
    <3>4. QED
      BY <3>2, <3>3
  <2>4. CASE c \in stopped \/ founder[c] \in doubled \/ founder[c] \notin Live
    BY <2>4
  <2>5. QED
    BY <2>1, <2>2, <2>3, <2>4 DEF Inv, AccountsStand, OrphanHasCause
<1>10. QED
  BY <1>5, <1>6, <1>7, <1>8, <1>9 DEF AccountsStand

LEMMA RegisterFailsStands ==
  ASSUME Inv, TypeOK', NEW r \in Requests, RegisterFails(r)
  PROVE  AccountsStand'
<1>1. /\ UNCHANGED <<user, made, wallet, businesses, told, byAgent, cut, founder, doubled>>
      /\ pc[r] \in Registering
      /\ stopped' = IF pc[r] \in {"till", "link"} THEN stopped \cup {row[r]} ELSE stopped
  BY DEF RegisterFails, users, userHistory
<1>2. OthersStay(r) /\ pc'[r] = "idle"
  BY EndMoves DEF RegisterFails, Inv
<1>3. Live' = Live /\ \A i \in Live : user'[i] = user[i]
  BY <1>1, SameUsers
<1>4. SignUpsStand' /\ HalfMadeHasCause'
  BY <1>1, <1>2, <1>3, BesideSignUps DEF Registering
<1>5. RegistrationsStand'
  BY <1>1, <1>2, <1>3, RegistrationsFollow DEF businesses, Registering
<1>6. IdsStand'
  BY <1>1, <1>2 DEF IdsStand, OthersStay, Registering, businesses, Inv, AccountsStand
<1>7. OwnersAreWhole'
  BY <1>1, <1>3 DEF OwnersAreWhole, businesses, Inv, AccountsStand
<1>8. OrphanHasCause'
  <2> SUFFICES ASSUME NEW c \in 1..founded
               PROVE  \/ \E i \in Live : user[i].business = c
                      \/ \E q \in Requests : pc'[q] \in {"till", "link"} /\ row'[q] = c
                      \/ c \in stopped' \/ founder[c] \in doubled \/ founder[c] \notin Live
    BY <1>1, <1>3 DEF OrphanHasCause, businesses
  <2>1. CASE pc[r] \in {"till", "link"} /\ row[r] = c
    BY <1>1, <2>1
  <2>2. CASE \E q \in Requests \ {r} : pc[q] \in {"till", "link"} /\ row[q] = c
    BY <1>2, <2>2 DEF OthersStay
  <2>3. QED
    BY <1>1, <2>1, <2>2 DEF Inv, AccountsStand, OrphanHasCause
<1>9. QED
  BY <1>4, <1>5, <1>6, <1>7, <1>8 DEF AccountsStand

LEMMA CrashStands ==
  ASSUME Inv, TypeOK', Crash
  PROVE  AccountsStand'
<1>1. /\ \A q \in Requests : pc'[q] = "idle"
      /\ UNCHANGED <<user, made, wallet, businesses, told, byAgent, founder, doubled>>
      /\ \A q \in Requests : /\ pc[q] \in {"wallet", "finish"} => row[q] \in cut'
                             /\ pc[q] \in {"till", "link"} => row[q] \in stopped'
      /\ cut \subseteq cut' /\ stopped \subseteq stopped' /\ "idle" \notin Registering
  BY DEF Crash, users, Registering
<1>2. Live' = Live
  BY <1>1 DEF Live
<1>3. SignUpsStand' /\ IdsStand' /\ OwnersAreWhole'
  BY <1>1, <1>2 DEF SignUpsStand, IdsStand, OwnersAreWhole, businesses, Inv, AccountsStand
<1>4. RegistrationsStand'
  BY <1>1 DEF RegistrationsStand
<1>5. HalfMadeHasCause'
  BY <1>1, <1>2 DEF HalfMadeHasCause, SignUpsStand, Inv, AccountsStand
<1>6. OrphanHasCause'
  BY <1>1, <1>2 DEF OrphanHasCause, businesses, Inv, AccountsStand
<1>7. QED
  BY <1>3, <1>4, <1>5, <1>6 DEF AccountsStand
-------------------------------------------------------------------------------
LEMMA AccountsKept ==
  ASSUME Inv, [Next]_vars
  PROVE  Inv'
<1>1. TypeOK'
  BY TypesKept DEF Inv
<1>2. CASE UNCHANGED vars
  <2>1. RegistrationsGoOn /\ SignUpsGoOn
    BY <1>2 DEF vars, requests, RegistrationsGoOn, SignUpsGoOn
  <2>2. QED
    BY <1>1, <1>2, <2>1, SameUsers, Untouched DEF vars, users, userHistory, otherHistory, Inv
<1>3. AccountsStand'
  BY <1>1, <1>2, NextCases, BystanderStands, HandlerStands, EditStands, MakeWalletStands,
     NoWalletMadeStands, FinishStands, CreateStands, RegisterStaffStands, DeleteUserStands,
     RegisterStands, ReadOwnerStands, PushRoleStands, FoundStands, MakeTillStands, LinkStands,
     RegisterFailsStands, CrashStands DEF Inv
<1>4. QED
  BY <1>1, <1>3 DEF Inv

LEMMA InitStands == Init => Inv
<1> SUFFICES ASSUME Init PROVE Inv
  OBVIOUS
<1>1. TypeOK
  BY InitTypes
<1>2. Live = {} /\ 1..founded = {} /\ byAgent = {} /\ made = 0
      /\ \A q \in Requests : pc[q] = "idle"
  BY DEF Init, Live
<1>3. IdsStand
  BY <1>2 DEF Init, IdsStand, Registering
<1>4. QED
  BY <1>1, <1>2, <1>3 DEF Inv, AccountsStand, HalfMadeHasCause, OwnersAreWhole, OrphanHasCause,
     SignUpsStand, RegistrationsStand, Registering

THEOREM AlwaysInv == Spec => []Inv
BY InitStands, AccountsKept, PTL DEF Spec

(* Users, businesses, the requests and handlers under way keep their types.  *)
THEOREM TypeCorrect == Spec => []TypeOK
<1>1. Inv => TypeOK
  BY DEF Inv
<1>2. QED
  BY <1>1, AlwaysInv, PTL

(* A row whose sign-up is over has a wallet and was welcomed, unless a query *)
(* failed, the server stopped or somebody else made it.                      *)
THEOREM HalfMadeHaveCause == Spec => []HalfMadeHasCause
<1>1. Inv => HalfMadeHasCause
  BY DEF Inv, AccountsStand
<1>2. QED
  BY <1>1, AlwaysInv, PTL

(* The business of a user is one they registered, and it has a wallet.       *)
THEOREM LinkedAreWhole == Spec => []OwnersAreWhole
<1>1. Inv => OwnersAreWhole
  BY DEF Inv, AccountsStand
<1>2. QED
  BY <1>1, AlwaysInv, PTL

(* A business nobody is linked to lost a query or its owner, or was one of   *)
(* two that its owner registered at once.                                    *)
THEOREM OrphansHaveCause == Spec => []OrphanHasCause
<1>1. Inv => OrphanHasCause
  BY DEF Inv, AccountsStand
<1>2. QED
  BY <1>1, AlwaysInv, PTL
-------------------------------------------------------------------------------
(* Usernames. *)

NamesInv == NamesStand /\ TakenNameHasCause

(* A username that somebody asked for is the one created, after the step.    *)
GivenNext(r) == /\ pc'[r] = "name" => job'[r].given = NoName
                /\ pc'[r] = "create" /\ job'[r].given # NoName => name'[r] = job'[r].given

(* The usernames that come and go are odd, and a username that is about to   *)
(* be created is still the one the generator chose.                          *)
NamesGoOn ==
  /\ odd \subseteq odd'
  /\ \A i \in Live : user[i].name \in odd' \/ (i \in Live' /\ user'[i].name = user[i].name)
  /\ \A i \in Live' : user'[i].name \in odd' \/ (i \in Live /\ user'[i].name = user[i].name)
  /\ \A r \in Requests : GivenNext(r)
  /\ \A r \in Requests : pc'[r] = "create" /\ job'[r].given = NoName =>
       /\ pc[r] = "create" /\ job[r].given = NoName /\ name'[r] = name[r]
       /\ beside[r] \subseteq beside'[r]
       /\ name[r] \in UsedNames' => name[r] \in UsedNames \cup beside'[r]

(* Irregular and UsedBefore after the step.                                  *)
IrregularNext(f) == \E n \in odd' \cup UsedNames' : /\ <<n.base, f>> \in StartsWith
                                                    /\ n \in odd' \/ n.base # f
UsedBeforeNext(n) == \A k \in 0..(n.n - 1) : [base |-> n.base, n |-> k] \in UsedNames'

LEMMA NamesNext ==
  ASSUME \A r \in Requests : GivenNext(r),
         \A r \in Requests : pc'[r] = "create" /\ job'[r].given = NoName
                               /\ ~IrregularNext(name'[r].base) => UsedBeforeNext(name'[r]),
         \A i \in Live' : ~IrregularNext(user'[i].name.base) =>
           /\ UsedBeforeNext(user'[i].name)
           /\ \A j \in Live' : j < i /\ user'[j].name.base = user'[i].name.base
                               => user'[j].name.n < user'[i].name.n,
         \A r \in Requests : pc'[r] = "create" /\ job'[r].given = NoName /\ name'[r] \in UsedNames'
                               => name'[r] \in beside'[r] \/ IrregularNext(name'[r].base)
  PROVE  NamesInv'
<1>1. NamesStand'
  BY DEF NamesStand, GivenNext, Generated, UsedBefore, UsedBeforeNext, Irregular, IrregularNext
<1>2. TakenNameHasCause'
  BY DEF TakenNameHasCause, Irregular, IrregularNext
<1>3. QED
  BY <1>1, <1>2 DEF NamesInv

LEMMA LiveRows ==
  ASSUME TypeOK
  PROVE  \A i \in Live : i \in Ids /\ user[i].name \in Names /\ user[i].name.base \in FirstNames
                         /\ user[i].name.n \in Nat /\ user[i].name \in UsedNames
BY DEF TypeOK, UsersOK, Live, UserRows, Names, UsedNames

LEMMA RegularNamesakes ==
  ASSUME NEW f \in FirstNames, ~Irregular(f)
  PROVE  \A n \in UsedNames : <<n.base, f>> \in StartsWith => n.base = f
BY DEF Irregular

(* A first name that is regular after a step was so before, ...              *)
LEMMA RegularBefore ==
  ASSUME NEW f \in FirstNames, odd \subseteq odd', UsedNames \subseteq UsedNames' \cup odd',
         ~IrregularNext(f)
  PROVE  ~Irregular(f) /\ \A n \in odd' : n.base # f
BY DEF Irregular, IrregularNext

(* ... and as long as it is, its usernames stay.                             *)
LEMMA RegularNames ==
  ASSUME TypeOK, NamesGoOn, NEW f \in FirstNames, ~IrregularNext(f)
  PROVE  /\ ~Irregular(f)
         /\ \A n \in UsedNames : n.base = f => n \in UsedNames'
         /\ \A i \in Live' : user'[i].name.base = f => i \in Live /\ user'[i].name = user[i].name
<1>1. odd \subseteq odd' /\ UsedNames \subseteq UsedNames' \cup odd'
  BY DEF NamesGoOn, UsedNames
<1>2. ~Irregular(f) /\ \A n \in odd' : n.base # f
  BY <1>1, RegularBefore
<1>3. QED
  BY <1>1, <1>2 DEF NamesGoOn

LEMMA NamesUntouched ==
  ASSUME TypeOK, TypeOK', NamesInv, NamesGoOn
  PROVE  NamesInv'
<1>1. ASSUME NEW n \in Names, ~IrregularNext(n.base), UsedBefore(n)
      PROVE  UsedBeforeNext(n)
  <2>1. n.base \in FirstNames
    BY DEF Names
  <2>2. \A k \in UsedNames : k.base = n.base => k \in UsedNames'
    BY <1>1, <2>1, RegularNames
  <2>3. QED
    BY <1>1, <2>2 DEF UsedBefore, UsedBeforeNext
<1>2. ASSUME NEW r \in Requests, pc'[r] = "create", job'[r].given = NoName
      PROVE  /\ Generated(r) /\ name'[r] = name[r] /\ name[r] \in Names
             /\ name[r].base \in FirstNames /\ beside[r] \subseteq beside'[r]
             /\ name[r] \in UsedNames' => name[r] \in UsedNames \cup beside'[r]
  BY <1>2 DEF Generated, NamesGoOn, TypeOK, RequestsOK, Names
<1>3. ASSUME NEW r \in Requests, pc'[r] = "create", job'[r].given = NoName,
             ~IrregularNext(name'[r].base)
      PROVE  UsedBeforeNext(name'[r])
  <2>1. UsedBefore(name[r])
    BY <1>2, <1>3, RegularNames DEF NamesInv, NamesStand
  <2>2. QED
    BY <1>1, <1>2, <1>3, <2>1
<1>4. ASSUME NEW i \in Live', ~IrregularNext(user'[i].name.base)
      PROVE  /\ UsedBeforeNext(user'[i].name)
             /\ \A j \in Live' : j < i /\ user'[j].name.base = user'[i].name.base
                                 => user'[j].name.n < user'[i].name.n
  <2> DEFINE f == user'[i].name.base
  <2>1. f \in FirstNames
    BY <1>4, LiveRows DEF TypeOK, UsersOK, Live, UserRows, Names
  <2>2. \A j \in Live' : user'[j].name.base = f => j \in Live /\ user'[j].name = user[j].name
    BY <1>4, <2>1, RegularNames
  <2>3. i \in Live /\ user'[i].name = user[i].name /\ ~Irregular(user[i].name.base)
    BY <1>4, <2>1, <2>2, RegularNames
  <2>4. /\ UsedBefore(user[i].name)
        /\ \A j \in Live : j < i /\ user[j].name.base = user[i].name.base
                            => user[j].name.n < user[i].name.n
    BY <2>3 DEF NamesInv, NamesStand
  <2>5. UsedBeforeNext(user'[i].name)
    BY <1>1, <1>4, <2>3, <2>4, LiveRows
  <2>6. QED
    BY <2>2, <2>3, <2>4, <2>5
<1>5. ASSUME NEW r \in Requests, pc'[r] = "create", job'[r].given = NoName,
             name'[r] \in UsedNames'
      PROVE  name'[r] \in beside'[r] \/ IrregularNext(name'[r].base)
  <2>1. CASE name[r] \in UsedNames
    <3>1. name[r] \in beside[r] \/ Irregular(name[r].base)
      BY <1>2, <1>5, <2>1 DEF NamesInv, TakenNameHasCause, Generated
    <3>2. QED
      BY <1>2, <1>5, <3>1, RegularNames
  <2>2. QED
    BY <1>2, <1>5, <2>1
<1>6. QED
  BY <1>3, <1>4, <1>5, NamesNext DEF NamesGoOn

LEMMA SameNames ==
  ASSUME TypeOK, UNCHANGED <<user, odd>>
  PROVE  /\ Live' = Live /\ UsedNames' = UsedNames
         /\ \A f : IrregularNext(f) <=> Irregular(f)
         /\ \A n : UsedBeforeNext(n) <=> UsedBefore(n)
BY DEF Live, UsedNames, Irregular, IrregularNext, UsedBefore, UsedBeforeNext

(* What generateUsername chooses is new and leaves no gap, if the first name *)
(* is regular.                                                               *)
LEMMA ChosenIsNext ==
  ASSUME TypeOK, NamesInv, NEW f \in FirstNames, ~Irregular(f), NEW k \in Nat,
         \/ Namesakes(f) = {} /\ k = 0
         \/ \E i \in Newest(f) : k = user[i].name.n + 1
  PROVE  UsedBefore([base |-> f, n |-> k]) /\ [base |-> f, n |-> k] \notin UsedNames
<1> DEFINE new == [base |-> f, n |-> k]
<1>1. \A j \in Live : user[j].name.base = f => j \in Namesakes(f)
  BY DEF Namesakes
<1>2. CASE Namesakes(f) = {} /\ k = 0
  <2>1. new \notin UsedNames
    BY <1>1, <1>2, LiveRows DEF UsedNames
  <2>2. QED
    BY <1>2, <2>1 DEF UsedBefore
<1>3. ASSUME NEW i \in Newest(f), k = user[i].name.n + 1
      PROVE  UsedBefore(new) /\ new \notin UsedNames
  <2> DEFINE m == user[i].name.n
  <2>1. i \in Live /\ i \in Ids /\ \A j \in Namesakes(f) : j <= i
    BY DEF Newest, Namesakes, Live
  <2>2. user[i].name \in UsedNames /\ user[i].name \in Names /\ m \in Nat
    BY <2>1, LiveRows
  <2>3. user[i].name.base = f
    BY <2>2, RegularNamesakes DEF Newest, Namesakes
  <2>4. user[i].name = [base |-> f, n |-> m]
    BY <2>2, <2>3 DEF Names
  <2>5. /\ UsedBefore(user[i].name)
        /\ \A j \in Live : j < i /\ user[j].name.base = f => user[j].name.n < m
    BY <2>1, <2>3 DEF NamesInv, NamesStand
  <2>6. \A j \in 0..(k - 1) : [base |-> f, n |-> j] \in UsedNames
    <3>1. \A j \in 0..(m - 1) : [base |-> f, n |-> j] \in UsedNames
      BY <2>3, <2>5 DEF UsedBefore
    <3>2. \A j \in 0..(k - 1) : j \in 0..(m - 1) \/ j = m
      BY <1>3, <2>2
    <3>3. QED
      BY <2>2, <2>4, <3>1, <3>2
  <2>7. ASSUME NEW j \in Live, user[j].name = new
        PROVE  FALSE
    <3>1. j \in Ids /\ j <= i /\ user[j].name.base = f /\ user[j].name.n = k
      BY <1>1, <2>1, <2>7, LiveRows
    <3>2. CASE j = i
      BY <1>3, <2>2, <3>1, <3>2
    <3>3. CASE j < i
      BY <1>3, <2>2, <2>5, <3>1, <3>3
    <3>4. QED
      BY <2>1, <3>1, <3>2, <3>3 DEF Ids
  <2>8. QED
    BY <2>6, <2>7 DEF UsedBefore, UsedNames
<1>4. QED
  BY <1>2, <1>3

LEMMA ChooseNameNames ==
  ASSUME TypeOK, TypeOK', NamesInv, NEW r \in Requests, ChooseName(r)
  PROVE  NamesInv'
<1> DEFINE f == FirstName[job[r].who]
<1>1. f \in FirstNames
  BY DEF ChooseName, TypeOK, RequestsOK, SignUps, SigningUp
<1>2. PICK k \in Nat :
        /\ name' = [name EXCEPT ![r] = [base |-> f, n |-> k]]
        /\ \/ Namesakes(f) = {} /\ k = 0
           \/ \E i \in Newest(f) : k = user[i].name.n + 1
  <2>1. CASE Namesakes(f) = {} /\ name' = [name EXCEPT ![r] = [base |-> f, n |-> 0]]
    BY <2>1
  <2>2. ASSUME NEW i \in Newest(f), name' = [name EXCEPT ![r] = [base |-> f, n |-> user[i].name.n + 1]]
        PROVE  \E k \in Nat : /\ name' = [name EXCEPT ![r] = [base |-> f, n |-> k]]
                              /\ \E j \in Newest(f) : k = user[j].name.n + 1
    <3> DEFINE m == user[i].name.n + 1
    <3>1. m \in Nat
      BY <2>2, LiveRows DEF Newest, Namesakes
    <3>2. name' = [name EXCEPT ![r] = [base |-> f, n |-> m]] /\ \E j \in Newest(f) : m = user[j].name.n + 1
      BY <2>2
    <3> HIDE DEF m
    <3>3. QED
      BY <3>1, <3>2
  <2>3. QED
    BY <2>1, <2>2 DEF ChooseName
<1> DEFINE new == [base |-> f, n |-> k]
<1>3. /\ UNCHANGED <<user, odd, job, beside>> /\ pc[r] = "name" /\ pc' = [pc EXCEPT ![r] = "create"]
  BY DEF ChooseName, Goto, users
<1>4. /\ \A q \in Requests \ {r} : pc'[q] = pc[q] /\ name'[q] = name[q]
      /\ name'[r] = new /\ new.base = f
  BY <1>2, <1>3 DEF TypeOK, RequestsOK
<1>5. ~Irregular(f) => UsedBefore(new) /\ new \notin UsedNames
  BY <1>1, <1>2, ChosenIsNext
<1>6. /\ Live' = Live /\ UsedNames' = UsedNames
      /\ \A g : IrregularNext(g) <=> Irregular(g)
      /\ \A n : UsedBeforeNext(n) <=> UsedBefore(n)
  BY <1>3, SameNames
<1>7. job[r].given = NoName
  BY <1>3 DEF NamesInv, NamesStand
<1> HIDE DEF f, new
<1>8. \A q \in Requests :
        /\ GivenNext(q)
        /\ pc'[q] = "create" /\ job'[q].given = NoName /\ ~IrregularNext(name'[q].base)
             => UsedBeforeNext(name'[q])
        /\ pc'[q] = "create" /\ job'[q].given = NoName /\ name'[q] \in UsedNames'
             => name'[q] \in beside'[q] \/ IrregularNext(name'[q].base)
  BY <1>3, <1>4, <1>5, <1>6, <1>7 DEF NamesInv, NamesStand, TakenNameHasCause, Generated, GivenNext
<1>9. \A i \in Live' : ~IrregularNext(user'[i].name.base) =>
           /\ UsedBeforeNext(user'[i].name)
           /\ \A j \in Live' : j < i /\ user'[j].name.base = user'[i].name.base
                               => user'[j].name.n < user'[i].name.n
  BY <1>3, <1>6 DEF NamesInv, NamesStand
<1>10. QED
  BY <1>8, <1>9, NamesNext

LEMMA NewUserNames ==
  ASSUME Inv, TypeOK', NEW p \in People, NEW n \in Names, NEW o \in BOOLEAN, NewUser(p, n, o)
  PROVE  /\ Live' = Live \cup {made'} /\ made' \in Ids /\ made' \notin Live
         /\ user'[made'].name = n /\ n \in UsedNames' /\ UsedNames' = UsedNames \cup {n}
         /\ \A i \in Live : i < made' /\ user'[i] = user[i]
<1>1. /\ made' = made + 1 /\ made \in Nat /\ made' \in Ids /\ made' \notin Live
      /\ Live' = Live \cup {made'}
  BY NewUserStands
<1>2. user'[made'] = [who |-> p, name |-> n, owner |-> o, business |-> 0]
      /\ \A i \in Ids \ {made'} : user'[i] = user[i]
  BY <1>1 DEF NewUser, Inv, TypeOK, UsersOK
<1>3. \A i \in Live : i < made' /\ user'[i] = user[i]
  BY <1>1, <1>2, LiveIsMade
<1>4. user'[made'].name = n
  BY <1>2
<1>5. UsedNames' = UsedNames \cup {n}
  BY <1>1, <1>3, <1>4 DEF UsedNames
<1>6. QED
  BY <1>1, <1>3, <1>4, <1>5

LEMMA CreateNames ==
  ASSUME Inv, TypeOK', NamesInv, NEW r \in Requests, Create(r)
  PROVE  NamesInv'
<1> DEFINE n == name[r]
<1>1. /\ job[r].who \in People /\ job[r].owner \in BOOLEAN /\ n \in Names /\ n.base \in FirstNames
      /\ pc[r] = "create" /\ n \notin UsedNames /\ UNCHANGED <<job, name>>
      /\ NewUser(job[r].who, n, job[r].owner)
  BY DEF Create, Inv, TypeOK, RequestsOK, SigningUp, SignUps, Names
<1>2. /\ Live' = Live \cup {made'} /\ made' \in Ids /\ made' \notin Live
      /\ user'[made'].name = n /\ UsedNames' = UsedNames \cup {n}
      /\ \A i \in Live : i < made' /\ user'[i] = user[i]
  BY <1>1, NewUserNames
<1>3. /\ pc'[r] = "wallet" /\ \A q \in Requests \ {r} : pc'[q] = pc[q]
      /\ \A q \in Requests \ {r} : pc[q] = "create" => beside'[q] = beside[q] \cup {n}
  BY DEF Create, Goto, Unseen, Inv, TypeOK, RequestsOK
<1>4. CASE job[r].given # NoName
  <2>1. n \in odd' /\ odd \subseteq odd'
    BY <1>1, <1>4 DEF Create, NamesInv, NamesStand
  <2>2. \A i \in Live' : user'[i].name \in odd' \/ (i \in Live /\ user'[i].name = user[i].name)
    BY <1>2, <2>1
  <2>3. \A q \in Requests : GivenNext(q)
    BY <1>1, <1>3 DEF GivenNext, NamesInv, NamesStand
  <2> HIDE DEF n
  <2>4. NamesGoOn
    BY <1>1, <1>2, <1>3, <2>1, <2>2, <2>3 DEF NamesGoOn
  <2>5. QED
    BY <2>4, NamesUntouched DEF Inv
<1>5. CASE job[r].given = NoName
  <2>1. odd' = odd
    BY <1>5 DEF Create
  <2>2. \A f \in FirstNames : ~IrregularNext(f) => ~Irregular(f)
    BY <1>2, <2>1, RegularBefore
  <2>3. \A k : UsedBefore(k) => UsedBeforeNext(k)
    BY <1>2 DEF UsedBefore, UsedBeforeNext
  <2>4. ASSUME ~Irregular(n.base)
        PROVE  /\ UsedBefore(n)
               /\ \A j \in Live : user[j].name.base = n.base => user[j].name.n < n.n
    <3>1. UsedBefore(n)
      BY <1>1, <1>5, <2>4 DEF NamesInv, NamesStand, Generated
    <3>2. ASSUME NEW j \in Live, user[j].name.base = n.base
          PROVE  user[j].name.n < n.n
      <4> DEFINE m == user[j].name
      <4>1. m \in Names /\ m \in UsedNames /\ m.n \in Nat /\ n.n \in Nat /\ UsedBefore(m)
        BY <1>1, <2>4, <3>2, LiveRows DEF Inv, NamesInv, NamesStand, Names
      <4>2. m = [base |-> n.base, n |-> m.n] /\ n = [base |-> n.base, n |-> n.n]
        BY <1>1, <3>2, <4>1 DEF Names
      <4>3. m.n # n.n
        BY <1>1, <4>1, <4>2
      <4>4. ~(n.n < m.n)
        <5>1. ASSUME n.n < m.n PROVE [base |-> m.base, n |-> n.n] \in UsedNames
          BY <4>1, <5>1 DEF UsedBefore
        <5>2. QED
          BY <1>1, <3>2, <4>2, <5>1
      <4> HIDE DEF m, n
      <4>5. m.n < n.n
        BY <4>1, <4>3, <4>4
      <4>6. QED
        BY <4>5 DEF m
    <3>3. QED
      BY <3>1, <3>2
  <2> HIDE DEF n
  <2>5. ASSUME NEW q \in Requests, pc'[q] = "create", job'[q].given = NoName
        PROVE  /\ Generated(q) /\ q # r /\ name'[q] = name[q] /\ name[q].base \in FirstNames
               /\ beside'[q] = beside[q] \cup {n}
    BY <1>1, <1>3, <2>5 DEF Generated, Inv, TypeOK, RequestsOK, Names
  <2>6. \A q \in Requests : GivenNext(q)
    BY <1>1, <1>3 DEF GivenNext, NamesInv, NamesStand
  <2>7. \A q \in Requests : pc'[q] = "create" /\ job'[q].given = NoName
                              /\ ~IrregularNext(name'[q].base) => UsedBeforeNext(name'[q])
    BY <2>2, <2>3, <2>5 DEF NamesInv, NamesStand
  <2>8. \A q \in Requests : pc'[q] = "create" /\ job'[q].given = NoName /\ name'[q] \in UsedNames'
                              => name'[q] \in beside'[q] \/ IrregularNext(name'[q].base)
    <3>1. ASSUME NEW q \in Requests, pc'[q] = "create", job'[q].given = NoName, name[q] \in UsedNames
          PROVE  name[q] \in beside[q] \/ Irregular(name[q].base)
      BY <2>5, <3>1 DEF NamesInv, TakenNameHasCause, Generated
    <3>2. QED
      BY <1>2, <2>2, <2>5, <3>1
  <2>9. ASSUME NEW i \in Live', ~IrregularNext(user'[i].name.base)
        PROVE  /\ UsedBeforeNext(user'[i].name)
               /\ \A j \in Live' : j < i /\ user'[j].name.base = user'[i].name.base
                                   => user'[j].name.n < user'[i].name.n
    <3>1. CASE i = made'
      <4>1. user'[i].name = n /\ ~Irregular(n.base)
        BY <1>1, <1>2, <2>2, <2>9, <3>1
      <4>2. UsedBeforeNext(n) /\ \A j \in Live : user[j].name.base = n.base => user[j].name.n < n.n
        BY <2>3, <2>4, <4>1
      <4>3. \A j \in Live' : j < i => j \in Live /\ user'[j] = user[j]
        BY <1>2, <3>1 DEF Ids
      <4>4. QED
        BY <4>1, <4>2, <4>3
    <3>2. CASE i \in Live
      <4>1. /\ ~Irregular(user[i].name.base) /\ user'[i] = user[i] /\ ~(made' < i)
        BY <1>2, <2>2, <2>9, <3>2, LiveRows DEF Inv, Ids
      <4>2. /\ UsedBefore(user[i].name)
            /\ \A j \in Live : j < i /\ user[j].name.base = user[i].name.base
                               => user[j].name.n < user[i].name.n
        BY <3>2, <4>1 DEF NamesInv, NamesStand
      <4>3. QED
        BY <1>2, <2>3, <4>1, <4>2
    <3>3. QED
      BY <1>2, <2>9, <3>1, <3>2
  <2>10. QED
    BY <2>6, <2>7, <2>8, <2>9, NamesNext
<1>6. QED
  BY <1>4, <1>5

(* Users keep their names, and a request that is still about to create a row *)
(* is where it was.                                                          *)
LEMMA QuietNames ==
  ASSUME TypeOK, TypeOK', NamesInv, UNCHANGED odd, Live' = Live,
         \A i \in Live : user'[i].name = user[i].name,
         \A q \in Requests : \/ UNCHANGED <<pc[q], job[q], name[q], beside[q]>>
                             \/ pc'[q] \notin {"name", "create"}
  PROVE  NamesInv'
<1>1. UsedNames' = UsedNames
  BY DEF UsedNames
<1>2. \A q \in Requests : GivenNext(q)
  BY DEF GivenNext, NamesInv, NamesStand
<1>3. NamesGoOn
  BY <1>1, <1>2 DEF NamesGoOn
<1>4. QED
  BY <1>3, NamesUntouched

LEMMA SignUpNames ==
  ASSUME TypeOK, TypeOK', NamesInv, NEW r \in Requests, NEW j \in Sent, SignUp(r, j)
  PROVE  NamesInv'
<1>1. UNCHANGED <<user, odd, beside>> /\ Live' = Live /\ UsedNames' = UsedNames
  BY DEF SignUp, users, Live, UsedNames
<1>2. /\ job'[r] = j /\ name'[r] = j.given
      /\ pc'[r] = IF j.given = NoName THEN "name" ELSE "create"
      /\ \A q \in Requests \ {r} : pc'[q] = pc[q] /\ job'[q] = job[q] /\ name'[q] = name[q]
  BY DEF SignUp, Goto, TypeOK, RequestsOK
<1>3. \A q \in Requests : GivenNext(q)
  BY <1>2 DEF GivenNext, NamesInv, NamesStand
<1>4. \A q \in Requests : pc'[q] = "create" /\ job'[q].given = NoName => q # r
  BY <1>2
<1>5. NamesGoOn
  BY <1>1, <1>2, <1>3, <1>4 DEF NamesGoOn
<1>6. QED
  BY <1>5, NamesUntouched

LEMMA RegisterStaffNames ==
  ASSUME Inv, TypeOK', NamesInv, NEW p \in People, NEW n \in Given, RegisterStaff(p, n)
  PROVE  NamesInv'
<1>1. n \in Names /\ odd' = odd \cup {n} /\ UNCHANGED <<pc, job, name>> /\ NewUser(p, n, FALSE)
  BY DEF RegisterStaff
<1>2. /\ Live' = Live \cup {made'} /\ user'[made'].name = n /\ UsedNames' = UsedNames \cup {n}
      /\ \A i \in Live : user'[i] = user[i]
  BY <1>1, NewUserNames
<1>3. \A q \in Requests : pc[q] = "create" => beside'[q] = beside[q] \cup {n}
  BY DEF RegisterStaff, Unseen
<1>4. \A q \in Requests : GivenNext(q)
  BY <1>1 DEF GivenNext, NamesInv, NamesStand
<1>5. NamesGoOn
  BY <1>1, <1>2, <1>3, <1>4 DEF NamesGoOn
<1>6. QED
  BY <1>5, NamesUntouched DEF Inv

LEMMA RenameNames ==
  ASSUME TypeOK, TypeOK', NamesInv, NEW i \in Ids, NEW n \in Given, Rename(i, n)
  PROVE  NamesInv'
<1>1. /\ i \in Live /\ odd' = odd \cup {n, user[i].name} /\ UNCHANGED <<pc, job, name>>
      /\ user' = [user EXCEPT ![i].name = n]
  BY DEF Rename
<1>2. user[i] \in UserRows /\ [user[i] EXCEPT !.name = n].name = n /\ [user[i] EXCEPT !.name = n] \in UserRows
  BY <1>1 DEF Live, TypeOK, UsersOK, UserRows
<1>3. /\ Live' = Live /\ user'[i].name = n /\ \A k \in Live \ {i} : user'[k] = user[k]
  BY <1>1, <1>2 DEF Live, TypeOK, UsersOK
<1>4. UsedNames' \subseteq UsedNames \cup {n}
  BY <1>3 DEF UsedNames
<1>5. \A q \in Requests : pc[q] = "create" => beside'[q] = beside[q] \cup {n}
  BY DEF Rename, Unseen
<1>6. \A q \in Requests : GivenNext(q)
  BY <1>1 DEF GivenNext, NamesInv, NamesStand
<1>7. NamesGoOn
  BY <1>1, <1>3, <1>4, <1>5, <1>6 DEF NamesGoOn
<1>8. QED
  BY <1>7, NamesUntouched

LEMMA DeleteUserNames ==
  ASSUME TypeOK, TypeOK', NamesInv, NEW i \in Ids, DeleteUser(i)
  PROVE  NamesInv'
<1>1. /\ odd' = odd \cup {user[i].name} /\ UNCHANGED <<pc, job, name, beside>>
      /\ user' = [user EXCEPT ![i] = NoRow]
  BY DEF DeleteUser, requests
<1>2. Live' = Live \ {i} /\ \A k \in Live' : user'[k] = user[k]
  BY <1>1 DEF Live, TypeOK, UsersOK
<1>3. UsedNames' \subseteq UsedNames
  BY <1>2 DEF UsedNames
<1>4. \A q \in Requests : GivenNext(q)
  BY <1>1 DEF GivenNext, NamesInv, NamesStand
<1>5. NamesGoOn
  BY <1>1, <1>2, <1>3, <1>4 DEF NamesGoOn
<1>6. QED
  BY <1>5, NamesUntouched

(* An edited row keeps the name.                                             *)
LEMMA EditKeepsName ==
  ASSUME TypeOK, NEW i \in Live, NEW new \in UserRows, new.name = user[i].name,
         user' = [user EXCEPT ![i] = new]
  PROVE  Live' = Live /\ \A k \in Live : user'[k].name = user[k].name
BY DEF TypeOK, UsersOK, Live

LEMMA RowsKeepNames ==
  ASSUME TypeOK,
         \/ UNCHANGED user
         \/ \E i \in Ids, b \in BOOLEAN : UpdateRoles(i, b)
         \/ \E r \in Requests : PushRole(r) \/ Link(r)
  PROVE  Live' = Live /\ \A k \in Live : user'[k].name = user[k].name
<1>1. CASE UNCHANGED user
  BY <1>1 DEF Live
<1>2. ASSUME NEW i \in Live, NEW b \in BOOLEAN, user' = [user EXCEPT ![i].owner = b]
      PROVE  Live' = Live /\ \A k \in Live : user'[k].name = user[k].name
  <2> DEFINE new == [user[i] EXCEPT !.owner = b]
  <2>1. new \in UserRows /\ new.name = user[i].name
    BY DEF Live, TypeOK, UsersOK, UserRows
  <2>2. user' = [user EXCEPT ![i] = new]
    BY <1>2
  <2> HIDE DEF new
  <2>3. QED
    BY <2>1, <2>2, EditKeepsName
<1>3. ASSUME NEW i \in Live, NEW b \in BusinessIds, user' = [user EXCEPT ![i].business = b]
      PROVE  Live' = Live /\ \A k \in Live : user'[k].name = user[k].name
  <2> DEFINE new == [user[i] EXCEPT !.business = b]
  <2>1. new \in UserRows /\ new.name = user[i].name
    BY DEF Live, TypeOK, UsersOK, UserRows
  <2>2. user' = [user EXCEPT ![i] = new]
    BY <1>3
  <2> HIDE DEF new
  <2>3. QED
    BY <2>1, <2>2, EditKeepsName
<1>4. ASSUME NEW i \in Ids, NEW b \in BOOLEAN, UpdateRoles(i, b)
      PROVE  Live' = Live /\ \A k \in Live : user'[k].name = user[k].name
  BY <1>2, <1>4 DEF UpdateRoles
<1>5. ASSUME NEW r \in Requests, PushRole(r)
      PROVE  Live' = Live /\ \A k \in Live : user'[k].name = user[k].name
  <2>1. TRUE \in BOOLEAN
    OBVIOUS
  <2>2. CASE job[r].user \in Live
    BY <1>2, <1>5, <2>1, <2>2 DEF PushRole
  <2>3. CASE job[r].user \notin Live
    BY <1>1, <1>5, <2>3 DEF PushRole
  <2>4. QED
    BY <2>2, <2>3
<1>6. ASSUME NEW r \in Requests, Link(r)
      PROVE  Live' = Live /\ \A k \in Live : user'[k].name = user[k].name
  <2>1. row[r] \in BusinessIds
    BY <1>6, RegistrationTypes DEF Link, Registering
  <2>2. CASE job[r].user \in Live
    BY <1>3, <1>6, <2>1, <2>2 DEF Link
  <2>3. CASE job[r].user \notin Live
    BY <1>1, <1>6, <2>3 DEF Link
  <2>4. QED
    BY <2>2, <2>3
<1>7. QED
  BY <1>1, <1>4, <1>5, <1>6

(* The requests but r keep what they know of a username to be created.       *)
LEMMA OtherNames ==
  ASSUME TypeOK, NEW r \in Requests,
         \/ End(r)
         \/ \E p \in {"finish", "read", "role", "found", "till", "link"} : Goto(r, p),
         End(r) \/ UNCHANGED <<name, beside>>,
         End(r) \/ UNCHANGED job \/ \E j : job' = [job EXCEPT ![r] = j]
  PROVE  \A q \in Requests : \/ UNCHANGED <<pc[q], job[q], name[q], beside[q]>>
                             \/ pc'[q] \notin {"name", "create"}
BY DEF End, Goto, TypeOK, RequestsOK

LEMMA NamesKept ==
  ASSUME Inv, Inv', NamesInv, [Next]_vars
  PROVE  NamesInv'
<1> USE DEF Inv
<1> DEFINE Quiet == \A q \in Requests : \/ UNCHANGED <<pc[q], job[q], name[q], beside[q]>>
                                        \/ pc'[q] \notin {"name", "create"}
<1> DEFINE Keeps == Live' = Live /\ \A k \in Live : user'[k].name = user[k].name
<1>1. ASSUME Quiet, Keeps, UNCHANGED odd PROVE NamesInv'
  BY <1>1, QuietNames
<1>2. ASSUME NEW r \in Requests, Taken(r) \/ SignUpFails(r) \/ MakeWallet(r) \/ NoWalletMade(r)
                                 \/ Finish(r) \/ ReadOwner(r) \/ Found(r) \/ MakeTill(r) \/ RegisterFails(r)
      PROVE  NamesInv'
  <2>1. UNCHANGED <<user, odd>>
    BY <1>2 DEF Taken, SignUpFails, MakeWallet, NoWalletMade, Finish, ReadOwner, Found, MakeTill,
                RegisterFails, users, userHistory
  <2>2. Quiet
    BY <1>2, OtherNames DEF Taken, SignUpFails, MakeWallet, NoWalletMade, Finish, ReadOwner, Found,
                            MakeTill, RegisterFails
  <2>3. QED
    BY <1>1, <2>1, <2>2, RowsKeepNames
<1>3. ASSUME NEW r \in Requests, PushRole(r) \/ Link(r)
      PROVE  NamesInv'
  <2>1. Quiet /\ UNCHANGED odd
    BY <1>3, OtherNames DEF PushRole, Link, userHistory
  <2>2. QED
    BY <1>1, <1>3, <2>1, RowsKeepNames
<1>4. ASSUME NEW r \in Requests, NEW u \in Ids, NEW f \in Firms, Register(r, u, f)
      PROVE  NamesInv'
  <2>1. Quiet /\ UNCHANGED <<user, odd>>
    BY <1>4, OtherNames DEF Register, users, userHistory
  <2>2. QED
    BY <1>1, <2>1, RowsKeepNames
<1>5. ASSUME NEW i \in Ids, FindReferrer(i) \/ Credit(i) \/ Book(i) \/ BookFails(i) \/ BonusFails(i)
      PROVE  NamesInv'
  <2>1. UNCHANGED <<requests, user, odd>>
    BY <1>5 DEF FindReferrer, Credit, Book, BookFails, BonusFails, users, userHistory
  <2>2. QED
    BY <1>1, <2>1, RowsKeepNames DEF requests
<1>6. ASSUME NEW i \in Ids, NEW b \in BOOLEAN, UpdateRoles(i, b)
      PROVE  NamesInv'
  <2>1. UNCHANGED <<requests, odd>>
    BY <1>6 DEF UpdateRoles, userHistory
  <2>2. QED
    BY <1>1, <1>6, <2>1, RowsKeepNames DEF requests
<1>7. CASE Crash
  <2>1. Quiet /\ UNCHANGED <<user, odd>>
    BY <1>7 DEF Crash, users
  <2>2. QED
    BY <1>1, <2>1, RowsKeepNames
<1>8. CASE UNCHANGED vars
  BY <1>1, <1>8, RowsKeepNames DEF vars, requests, users, userHistory
<1> HIDE DEF Quiet, Keeps
<1>9. QED
  BY NextCases, <1>2, <1>3, <1>4, <1>5, <1>6, <1>7, <1>8, SignUpNames, ChooseNameNames, CreateNames,
     RegisterStaffNames, RenameNames, DeleteUserNames

LEMMA InitNames == Init => NamesInv
<1>1. Init => Live = {} /\ \A q \in Requests : pc[q] = "idle"
  BY DEF Init, Live
<1>2. QED
  BY <1>1 DEF NamesInv, NamesStand, TakenNameHasCause, Generated

(* Whoever leaves the choice of a username to the generator is told that it  *)
(* is taken only if somebody was quicker, or somebody chose or gave up a     *)
(* username of that first name.                                              *)
THEOREM TakenNamesHaveCause == Spec => []TakenNameHasCause
<1>1. NamesInv => TakenNameHasCause
  BY DEF NamesInv
<1>2. QED
  BY <1>1, AlwaysInv, InitNames, NamesKept, PTL DEF Spec
-------------------------------------------------------------------------------
(* Referral bonuses. *)

BonusInv == RowsStand /\ HandlersStand /\ BonusesAreBooked /\ BonusesStand

LEMMA IdsFinite ==
  ASSUME NEW S \in SUBSET Ids
  PROVE  IsFiniteSet(S) /\ Cardinality(S) \in Nat
<1>1. 1 \in Int /\ MaxRows \in Int
  OBVIOUS
<1>2. IsFiniteSet(Ids)
  BY <1>1, FS_Interval DEF Ids
<1>3. QED
  BY <1>2, FS_Subset, FS_CardinalityType

LEMMA OneMore ==
  ASSUME NEW S \in SUBSET Ids, NEW h \in Ids \ S
  PROVE  Cardinality(S \cup {h}) = Cardinality(S) + 1
BY IdsFinite, FS_AddElement

LEMMA OneLess ==
  ASSUME NEW S \in SUBSET Ids, NEW h \in S
  PROVE  Cardinality(S \ {h}) = Cardinality(S) - 1
BY IdsFinite, FS_RemoveElement

LEMMA NoLess ==
  ASSUME NEW T \in SUBSET Ids, NEW S \in SUBSET T
  PROVE  Cardinality(S) <= Cardinality(T)
BY IdsFinite, FS_Subset

LEMMA BonusTypes ==
  ASSUME TypeOK
  PROVE  /\ wallet \in [Ids -> Nat \cup {NoWallet}] /\ booked \in [Ids -> Nat]
         /\ bonus \in [Ids -> Handlers] /\ held \in [Ids -> SUBSET Names]
         /\ made \in Nat /\ 1..made \subseteq Ids /\ Live \subseteq Ids
         /\ \A r \in Requests : HasRow(r) => row[r] \in 1..made
BY DEF TypeOK, UsersOK, BonusesOK, HistoryOK, RequestsOK, HasRow, Live, Ids

(* After a step, the handlers that book for i are S, those that have paid i  *)
(* at least P.                                                               *)
LEMMA AccountOf ==
  ASSUME TypeOK, TypeOK', NEW i \in Ids, BonusInv,
         UNCHANGED <<wallet[i], booked[i]>>, unbooked \subseteq unbooked',
         Booking(i)' = Booking(i), Paid(i) \subseteq Paid(i)', wallet'[i] \in Nat
  PROVE  /\ wallet'[i] >= booked'[i] + Cardinality(Booking(i)')
         /\ i \notin unbooked' => wallet'[i] = booked'[i] + Cardinality(Booking(i)')
         /\ wallet'[i] <= Cardinality(Paid(i)')
<1>1. Paid(i)' \in SUBSET Ids
  BY DEF Paid
<1>2. Cardinality(Paid(i)) <= Cardinality(Paid(i)') /\ Cardinality(Paid(i)) \in Nat
      /\ Cardinality(Paid(i)') \in Nat
  BY <1>1, NoLess, IdsFinite
<1>3. /\ wallet[i] >= booked[i] + Cardinality(Booking(i))
      /\ i \notin unbooked => wallet[i] = booked[i] + Cardinality(Booking(i))
      /\ wallet[i] <= Cardinality(Paid(i))
  BY DEF BonusInv, BonusesAreBooked, BonusesStand
<1>4. QED
  BY <1>2, <1>3

LEMMA BonusesNext ==
  ASSUME RowsStand', HandlersStand',
         \A i \in Ids : wallet'[i] \in Nat =>
           /\ wallet'[i] >= booked'[i] + Cardinality(Booking(i)')
           /\ i \notin unbooked' => wallet'[i] = booked'[i] + Cardinality(Booking(i)')
           /\ wallet'[i] <= Cardinality(Paid(i)')
  PROVE  BonusInv'
BY DEF BonusInv, BonusesAreBooked, BonusesStand

(* Nothing about bonuses changes.                                            *)
LEMMA QuietBonuses ==
  ASSUME TypeOK, TypeOK', BonusInv, UNCHANGED <<wallet, booked, bonus, held, unbooked, made>>,
         Live' = Live, \A i \in Live : user'[i].name = user[i].name,
         \A r \in Requests : HasRow(r)' => /\ HasRow(r) /\ row'[r] = row[r]
                                           /\ pc'[r] = "wallet" => pc[r] = "wallet"
  PROVE  BonusInv'
<1>1. RowsStand'
  BY DEF RowsStand, BonusInv, HasRow
<1>2. HandlersStand'
  BY DEF HandlersStand, BonusInv
<1>3. BonusesAreBooked' /\ BonusesStand'
  BY DEF BonusesAreBooked, Booking, BonusesStand, Paid, BonusInv
<1>4. QED
  BY <1>1, <1>2, <1>3 DEF BonusInv

LEMMA MakeWalletBonuses ==
  ASSUME TypeOK, TypeOK', BonusInv, NEW r \in Requests, MakeWallet(r)
  PROVE  BonusInv'
<1> DEFINE w == row[r]
<1>1. /\ w \in Live /\ w \in Ids /\ wallet[w] = NoWallet /\ wallet'[w] = 0
      /\ \A i \in Ids \ {w} : wallet'[i] = wallet[i]
      /\ UNCHANGED <<booked, bonus, held, unbooked, made, row, user>> /\ Live' = Live
      /\ pc'[r] = "finish" /\ HasRow(r) /\ \A q \in Requests \ {r} : pc'[q] = pc[q]
  BY BonusTypes DEF MakeWallet, Goto, HasRow, userHistory, Live, TypeOK, RequestsOK, BonusInv, RowsStand
<1>2. RowsStand'
  <2>1. \A q \in Requests : HasRow(q)' <=> HasRow(q)
    BY <1>1 DEF HasRow
  <2>2. ASSUME NEW q \in Requests, HasRow(q)
        PROVE  /\ bonus'[row'[q]].step = "none"
               /\ \A s \in Requests \ {q} : HasRow(s)' => row'[s] # row'[q]
               /\ pc'[q] = "wallet" => wallet'[row'[q]] = NoWallet
    BY <1>1, <2>1, <2>2, BonusTypes DEF BonusInv, RowsStand
  <2>3. /\ \A i \in Ids : i > made => bonus'[i].step = "none" /\ booked'[i] = 0
        /\ \A i \in Live : user'[i].name \in held'[i]
        /\ \A i \in Ids \ Live : wallet'[i] = NoWallet
    BY <1>1 DEF BonusInv, RowsStand
  <2>4. QED
    BY <1>1, <2>1, <2>2, <2>3 DEF RowsStand
<1>3. HandlersStand'
  BY <1>1, BonusTypes DEF BonusInv, HandlersStand
<1>4. Booking(w)' = {} /\ booked'[w] = 0
  BY <1>1 DEF Booking, BonusInv, HandlersStand
<1>5. ASSUME NEW i \in Ids, wallet'[i] \in Nat
      PROVE  /\ wallet'[i] >= booked'[i] + Cardinality(Booking(i)')
             /\ i \notin unbooked' => wallet'[i] = booked'[i] + Cardinality(Booking(i)')
             /\ wallet'[i] <= Cardinality(Paid(i)')
  <2>1. CASE i = w
    BY <1>1, <1>4, <2>1, FS_EmptySet, IdsFinite DEF Paid
  <2>2. CASE i # w
    BY <1>1, <1>5, <2>2, AccountOf DEF Booking, Paid
  <2>3. QED
    BY <2>1, <2>2
<1>6. QED
  BY <1>2, <1>3, <1>5, BonusesNext

(* A new row has no bonus yet.                                               *)
LEMMA NewUserBonuses ==
  ASSUME Inv, TypeOK', BonusInv, NEW p \in People, NEW n \in Names, NEW o \in BOOLEAN,
         NewUser(p, n, o), UNCHANGED <<wallet, booked, bonus, unbooked>>,
         \A r \in Requests : HasRow(r)' => \/ HasRow(r) /\ row'[r] = row[r] /\ pc'[r] = pc[r]
                                           \/ row'[r] = made',
         \A q, r \in Requests : HasRow(q)' /\ HasRow(r)' /\ row'[q] = made' /\ row'[r] = made'
                                  => q = r
  PROVE  BonusInv'
<1>1. /\ Live' = Live \cup {made'} /\ made' \in Ids /\ made' \notin Live /\ made' = made + 1
      /\ user'[made'].name = n /\ \A i \in Live : i < made' /\ user'[i] = user[i]
  BY NewUserNames, NewUserStands
<1>2. held'[made'] = {n} /\ \A i \in Ids \ {made'} : held'[i] = held[i]
  BY <1>1, BonusTypes DEF NewUser, Inv
<1>3. /\ made \in Nat /\ Live \subseteq Ids /\ 1..made \subseteq Ids /\ made' \notin 1..made
      /\ \A r \in Requests : HasRow(r) => row[r] \in 1..made
  BY <1>1, BonusTypes DEF Inv
<1>4. wallet[made'] = NoWallet /\ booked[made'] = 0 /\ bonus[made'].step = "none"
  BY <1>1, <1>3 DEF BonusInv, RowsStand
<1>5. RowsStand'
  <2>1. ASSUME NEW r \in Requests, HasRow(r)'
        PROVE  /\ bonus'[row'[r]].step = "none"
               /\ \A q \in Requests \ {r} : HasRow(q)' => row'[q] # row'[r]
               /\ pc'[r] = "wallet" => wallet'[row'[r]] = NoWallet
    BY <1>3, <1>4, <2>1 DEF BonusInv, RowsStand
  <2>2. \A i \in Ids : i > made' => bonus'[i].step = "none" /\ booked'[i] = 0
    BY <1>1, <1>3 DEF BonusInv, RowsStand, Ids
  <2>3. \A i \in Live' : user'[i].name \in held'[i]
    BY <1>1, <1>2, <1>3 DEF BonusInv, RowsStand
  <2>4. \A i \in Ids \ Live' : wallet'[i] = NoWallet
    BY <1>1 DEF BonusInv, RowsStand
  <2>5. QED
    BY <2>1, <2>2, <2>3, <2>4 DEF RowsStand
<1>6. HandlersStand'
  <2>1. ASSUME NEW h \in Ids, bonus[h].step \in {"credit", "book"}
        PROVE  LET i == bonus[h].to IN
                 /\ i \in 1..made' /\ i # h /\ bonus[h].code \in held'[i]
                 /\ i \in Live' => wallet[i] # NoWallet
    BY <1>1, <1>2, <1>3, <2>1 DEF BonusInv, HandlersStand
  <2>2. \A i \in Live' : wallet[i] = NoWallet => booked[i] = 0
    BY <1>1, <1>4 DEF BonusInv, HandlersStand
  <2>3. QED
    BY <2>1, <2>2 DEF HandlersStand
<1>7. ASSUME NEW i \in Ids, wallet'[i] \in Nat
      PROVE  /\ wallet'[i] >= booked'[i] + Cardinality(Booking(i)')
             /\ i \notin unbooked' => wallet'[i] = booked'[i] + Cardinality(Booking(i)')
             /\ wallet'[i] <= Cardinality(Paid(i)')
  <2>1. i # made' /\ held'[i] = held[i]
    BY <1>2, <1>4, <1>7
  <2>2. Booking(i)' = Booking(i) /\ Paid(i)' = Paid(i)
    BY <2>1 DEF Booking, Paid
  <2>3. QED
    BY <1>7, <2>2, AccountOf DEF Inv
<1>8. QED
  BY <1>5, <1>6, <1>7, BonusesNext

LEMMA CreateBonuses ==
  ASSUME Inv, TypeOK', BonusInv, NEW r \in Requests, Create(r)
  PROVE  BonusInv'
<1>1. job[r].who \in People /\ job[r].owner \in BOOLEAN /\ name[r] \in Names
      /\ NewUser(job[r].who, name[r], job[r].owner)
  BY DEF Create, Inv, TypeOK, RequestsOK, SigningUp, SignUps
<1>2. UNCHANGED <<wallet, booked, bonus, unbooked>>
  BY DEF Create
<1>3. /\ row'[r] = made' /\ \A q \in Requests \ {r} : pc'[q] = pc[q] /\ row'[q] = row[q]
  BY DEF Create, Goto, Inv, TypeOK, RequestsOK
<1>4. made' \notin 1..made
  BY <1>1, NewUserStands
<1>5. \A q \in Requests : HasRow(q)' => \/ HasRow(q) /\ row'[q] = row[q] /\ pc'[q] = pc[q]
                                        \/ row'[q] = made' /\ q = r
  BY <1>3 DEF HasRow
<1>6. \A q \in Requests : HasRow(q)' /\ row'[q] = made' => q = r
  BY <1>4, <1>5, BonusTypes DEF Inv
<1>7. QED
  BY <1>1, <1>2, <1>5, <1>6, NewUserBonuses

LEMMA RegisterStaffBonuses ==
  ASSUME Inv, TypeOK', BonusInv, NEW p \in People, NEW n \in Given, RegisterStaff(p, n)
  PROVE  BonusInv'
<1>1. /\ n \in Names /\ FALSE \in BOOLEAN /\ NewUser(p, n, FALSE)
      /\ UNCHANGED <<wallet, booked, bonus, unbooked, pc, row>>
  BY DEF RegisterStaff
<1>2. made' \notin 1..made
  <2>1. made' = made + 1 /\ made \in Nat
    BY <1>1, NewUserStands, Zenon
  <2>2. QED
    BY <2>1
<1>3. \A q \in Requests : HasRow(q)' <=> HasRow(q)
  BY <1>1 DEF HasRow
<1>4. \A q \in Requests : HasRow(q)' => row'[q] # made'
  BY <1>1, <1>2, <1>3, BonusTypes DEF Inv
<1>5. QED
  BY <1>1, <1>3, <1>4, NewUserBonuses

LEMMA FinishBonuses ==
  ASSUME TypeOK, TypeOK', BonusInv, NEW r \in Requests, Finish(r)
  PROVE  BonusInv'
<1> DEFINE w == row[r]
<1>1. /\ HasRow(r) /\ w \in 1..made /\ w \in Ids /\ bonus[w].step = "none" /\ made \in Nat
  BY BonusTypes DEF Finish, HasRow, BonusInv, RowsStand
<1>2. /\ UNCHANGED <<wallet, booked, held, unbooked, made, user>> /\ Live' = Live
  BY DEF Finish, users, Live
<1>3. /\ \A h \in Ids \ {w} : bonus'[h] = bonus[h]
      /\ bonus'[w].step \in {"none", "find"}
  BY <1>1, BonusTypes DEF Finish, NoHandler
<1>4. \A q \in Requests : HasRow(q)' => HasRow(q) /\ q # r /\ row'[q] = row[q] /\ pc'[q] = pc[q]
  BY DEF Finish, End, Goto, HasRow, TypeOK, RequestsOK
<1>5. RowsStand'
  <2>1. ASSUME NEW q \in Requests, HasRow(q)'
        PROVE  /\ bonus'[row'[q]].step = "none"
               /\ \A s \in Requests \ {q} : HasRow(s)' => row'[s] # row'[q]
               /\ pc'[q] = "wallet" => wallet'[row'[q]] = NoWallet
    BY <1>1, <1>2, <1>3, <1>4, <2>1, BonusTypes DEF BonusInv, RowsStand
  <2>2. /\ \A i \in Ids : i > made => bonus'[i].step = "none" /\ booked'[i] = 0
        /\ \A i \in Live : user'[i].name \in held'[i]
        /\ \A i \in Ids \ Live : wallet'[i] = NoWallet
    BY <1>1, <1>2, <1>3 DEF BonusInv, RowsStand
  <2>3. QED
    BY <1>2, <2>1, <2>2 DEF RowsStand
<1>6. HandlersStand'
  BY <1>2, <1>3 DEF HandlersStand, BonusInv
<1>7. ASSUME NEW i \in Ids
      PROVE  Booking(i)' = Booking(i) /\ Paid(i) \subseteq Paid(i)'
  BY <1>1, <1>2, <1>3 DEF Booking, Paid
<1>8. QED
  BY <1>2, <1>5, <1>6, <1>7, AccountOf, BonusesNext

(* The handler of i moves on; nothing of the requests and the users changes. *)
HandlerMoves(i) ==
  /\ bonus[i].step # "none" /\ bonus'[i].step # "none" /\ bonus'[i].code = bonus[i].code
  /\ \A h \in Ids \ {i} : /\ bonus'[h].step = bonus[h].step /\ bonus'[h].to = bonus[h].to
                          /\ bonus'[h].code = bonus[h].code
  /\ UNCHANGED <<user, made, held, requests>>

LEMMA HandlerRows ==
  ASSUME TypeOK, BonusInv, NEW i \in Ids, HandlerMoves(i),
         \A k \in Ids : k > made => booked'[k] = 0,
         \A k \in Ids : wallet[k] = NoWallet => wallet'[k] = NoWallet
  PROVE  RowsStand' /\ Live' = Live /\ i \in 1..made
<1>1. Live' = Live /\ \A q \in Requests : HasRow(q)' <=> HasRow(q)
  BY DEF HandlerMoves, Live, HasRow, requests
<1>2. i \in 1..made
  BY BonusTypes DEF HandlerMoves, BonusInv, RowsStand, Ids
<1>3. ASSUME NEW q \in Requests, HasRow(q)
      PROVE  /\ bonus'[row'[q]].step = "none"
             /\ \A s \in Requests \ {q} : HasRow(s)' => row'[s] # row'[q]
             /\ pc'[q] = "wallet" => wallet'[row'[q]] = NoWallet
  BY <1>1, <1>3, BonusTypes DEF HandlerMoves, requests, BonusInv, RowsStand
<1>4. /\ \A k \in Ids : k > made' => bonus'[k].step = "none" /\ booked'[k] = 0
      /\ \A k \in Live' : user'[k].name \in held'[k]
      /\ \A k \in Ids \ Live' : wallet'[k] = NoWallet
  BY <1>1, <1>2, BonusTypes DEF HandlerMoves, BonusInv, RowsStand
<1>5. QED
  BY <1>1, <1>2, <1>3, <1>4 DEF RowsStand

(* A handler that pays nothing now, or no longer.                            *)
LEMMA DoneBonuses ==
  ASSUME TypeOK, TypeOK', BonusInv, NEW i \in Ids, HandlerMoves(i), HandlerDone(i),
         bonus[i].step \in {"find", "credit"}, UNCHANGED <<wallet, booked, unbooked>>
  PROVE  BonusInv'
<1>1. bonus'[i].step = "done"
  BY BonusTypes DEF HandlerDone, Handlers
<1>2. RowsStand' /\ Live' = Live
  BY HandlerRows, BonusTypes DEF BonusInv, RowsStand
<1>3. HandlersStand'
  BY <1>1, <1>2 DEF HandlerMoves, BonusInv, HandlersStand
<1>4. ASSUME NEW k \in Ids
      PROVE  Booking(k)' = Booking(k) /\ Paid(k) \subseteq Paid(k)'
  BY <1>1 DEF HandlerMoves, Booking, Paid
<1>5. QED
  BY <1>2, <1>3, <1>4, AccountOf, BonusesNext

LEMMA FindReferrerBonuses ==
  ASSUME Inv, TypeOK', BonusInv, NEW i \in Ids, FindReferrer(i)
  PROVE  BonusInv'
<1> USE DEF Inv
<1>1. bonus[i] \in Handlers /\ UNCHANGED <<wallet, booked, unbooked, user, made, held, requests>>
  BY BonusTypes DEF FindReferrer, users, userHistory
<1>2. CASE HandlerDone(i)
  <2>1. HandlerMoves(i)
    BY <1>1, <1>2, BonusTypes DEF HandlerMoves, HandlerDone, FindReferrer, Handlers
  <2>2. QED
    BY <1>1, <1>2, <2>1, DoneBonuses DEF FindReferrer
<1>3. ASSUME NEW u \in Referrers(i) \ {i}, wallet[u] # NoWallet,
             bonus' = [bonus EXCEPT ![i].step = "credit", ![i].to = u]
      PROVE  BonusInv'
  <2>1. u \in Live /\ u \in Ids /\ u \in 1..made /\ bonus[i].code \in held[u]
    BY LiveIsMade DEF Referrers, BonusInv, RowsStand
  <2>2. /\ bonus'[i].step = "credit" /\ bonus'[i].to = u /\ bonus'[i].code = bonus[i].code
        /\ \A h \in Ids \ {i} : bonus'[h] = bonus[h]
    BY <1>1, <1>3, BonusTypes DEF Handlers
  <2>3. HandlerMoves(i)
    BY <1>1, <2>2 DEF HandlerMoves, FindReferrer
  <2>4. RowsStand' /\ Live' = Live
    BY <1>1, <2>3, HandlerRows DEF BonusInv, RowsStand
  <2>5. HandlersStand'
    <3>1. ASSUME NEW h \in Ids, bonus'[h].step \in {"credit", "book"}
          PROVE  LET k == bonus'[h].to IN
                   /\ k \in 1..made /\ k # h /\ bonus'[h].code \in held[k]
                   /\ k \in Live => wallet[k] # NoWallet
      <4>1. CASE h = i
        BY <1>3, <2>1, <2>2, <4>1
      <4>2. CASE h # i
        BY <2>2, <3>1, <4>2 DEF BonusInv, HandlersStand
      <4>3. QED
        BY <4>1, <4>2
    <3>2. QED
      BY <1>1, <2>4, <3>1 DEF BonusInv, HandlersStand
  <2>6. ASSUME NEW k \in Ids
        PROVE  Booking(k)' = Booking(k) /\ Paid(k) \subseteq Paid(k)'
    BY <1>1, <2>2 DEF Booking, Paid, FindReferrer
  <2>7. QED
    BY <1>1, <2>4, <2>5, <2>6, AccountOf, BonusesNext
<1>4. QED
  BY <1>2, <1>3 DEF FindReferrer

LEMMA BonusFailsBonuses ==
  ASSUME TypeOK, TypeOK', BonusInv, NEW i \in Ids, BonusFails(i)
  PROVE  BonusInv'
<1>1. /\ UNCHANGED <<wallet, booked, unbooked, user, made, held, requests>> /\ HandlerDone(i)
      /\ bonus[i].step \in {"find", "credit"}
  BY DEF BonusFails, users, userHistory
<1>2. HandlerMoves(i)
  BY <1>1, BonusTypes DEF HandlerMoves, HandlerDone, Handlers
<1>3. QED
  BY <1>1, <1>2, DoneBonuses

LEMMA CreditBonuses ==
  ASSUME TypeOK, TypeOK', BonusInv, NEW i \in Ids, Credit(i)
  PROVE  BonusInv'
<1>0. PICK u : u = bonus[i].to
  OBVIOUS
<1>1. /\ bonus[i] \in Handlers /\ UNCHANGED <<booked, unbooked, user, made, held, requests>>
      /\ bonus[i].step = "credit" /\ u \in 1..made /\ u \in Ids /\ u # i
      /\ bonus[i].code \in held[u] /\ (u \in Live => wallet[u] # NoWallet)
  BY <1>0, BonusTypes DEF Credit, userHistory, BonusInv, HandlersStand
<1>2. CASE HandlerDone(i) /\ UNCHANGED wallet
  <2>1. HandlerMoves(i)
    BY <1>1, <1>2, BonusTypes DEF HandlerMoves, HandlerDone, Handlers
  <2>2. QED
    BY <1>1, <1>2, <2>1, DoneBonuses
<1>3. CASE /\ wallet[u] \in Nat /\ wallet' = [wallet EXCEPT ![u] = @ + 1]
           /\ bonus' = [bonus EXCEPT ![i].step = "book"]
  <2>1. /\ bonus'[i].step = "book" /\ bonus'[i].to = u /\ bonus'[i].code = bonus[i].code
        /\ \A h \in Ids \ {i} : bonus'[h] = bonus[h]
    BY <1>0, <1>1, <1>3, BonusTypes DEF Handlers
  <2>2. /\ wallet'[u] = wallet[u] + 1 /\ \A k \in Ids \ {u} : wallet'[k] = wallet[k]
    BY <1>1, <1>3, BonusTypes
  <2>3. HandlerMoves(i)
    BY <1>1, <2>1 DEF HandlerMoves
  <2>4. RowsStand' /\ Live' = Live
    BY <1>1, <1>3, <2>2, <2>3, HandlerRows DEF BonusInv, RowsStand
  <2>5. HandlersStand'
    <3>1. ASSUME NEW h \in Ids, bonus'[h].step \in {"credit", "book"}
          PROVE  LET k == bonus'[h].to IN
                   /\ k \in 1..made /\ k # h /\ bonus'[h].code \in held[k]
                   /\ k \in Live => wallet'[k] # NoWallet
      <4>1. CASE h = i
        BY <1>1, <1>3, <2>1, <2>2, <4>1
      <4>2. CASE h # i
        BY <1>3, <2>1, <2>2, <3>1, <4>2, BonusTypes DEF BonusInv, HandlersStand
      <4>3. QED
        BY <4>1, <4>2
    <3>2. \A k \in Live : wallet'[k] = NoWallet => booked[k] = 0
      BY <1>1, <1>3, <2>2, BonusTypes DEF BonusInv, HandlersStand
    <3>3. QED
      BY <1>1, <2>4, <3>1, <3>2 DEF HandlersStand
  <2>6. Booking(u)' = Booking(u) \cup {i} /\ i \notin Booking(u)
    BY <1>0, <1>1, <2>1 DEF Booking
  <2>7. Paid(u) \cup {i} \subseteq Paid(u)' /\ i \notin Paid(u)
    BY <1>0, <1>1, <2>1 DEF Paid
  <2>8. ASSUME NEW k \in Ids \ {u}
        PROVE  Booking(k)' = Booking(k) /\ Paid(k) \subseteq Paid(k)'
    BY <1>0, <1>1, <2>1 DEF Booking, Paid
  <2>9. /\ wallet'[u] >= booked'[u] + Cardinality(Booking(u)')
        /\ u \notin unbooked' => wallet'[u] = booked'[u] + Cardinality(Booking(u)')
        /\ wallet'[u] <= Cardinality(Paid(u)')
    <3>1. Booking(u) \in SUBSET Ids /\ Paid(u) \in SUBSET Ids /\ Paid(u)' \in SUBSET Ids
      BY DEF Booking, Paid
    <3>2. /\ Cardinality(Booking(u)') = Cardinality(Booking(u)) + 1 /\ Cardinality(Booking(u)) \in Nat
      BY <2>6, <3>1, OneMore, IdsFinite
    <3>3. /\ Cardinality(Paid(u)) + 1 <= Cardinality(Paid(u)') /\ Cardinality(Paid(u)) \in Nat
          /\ Cardinality(Paid(u)') \in Nat
      <4>1. Paid(u) \cup {i} \in SUBSET (Paid(u)')
        BY <2>7
      <4>2. Cardinality(Paid(u) \cup {i}) = Cardinality(Paid(u)) + 1
        BY <2>7, <3>1, OneMore
      <4>3. Cardinality(Paid(u) \cup {i}) <= Cardinality(Paid(u)')
        BY <3>1, <4>1, NoLess
      <4>4. QED
        BY <3>1, <4>2, <4>3, IdsFinite
    <3>4. /\ wallet[u] >= booked[u] + Cardinality(Booking(u))
          /\ u \notin unbooked => wallet[u] = booked[u] + Cardinality(Booking(u))
          /\ wallet[u] <= Cardinality(Paid(u))
      BY <1>1, <1>3 DEF BonusInv, BonusesAreBooked, BonusesStand
    <3>5. booked[u] \in Nat /\ booked'[u] = booked[u] /\ unbooked' = unbooked
      BY <1>1, BonusTypes
    <3>6. QED
      BY <1>3, <2>2, <3>2, <3>3, <3>4, <3>5
  <2>10. ASSUME NEW k \in Ids \ {u}, wallet'[k] \in Nat
         PROVE  /\ wallet'[k] >= booked'[k] + Cardinality(Booking(k)')
                /\ k \notin unbooked' => wallet'[k] = booked'[k] + Cardinality(Booking(k)')
                /\ wallet'[k] <= Cardinality(Paid(k)')
    <3>1. k \in Ids /\ UNCHANGED <<wallet[k], booked[k]>> /\ unbooked \subseteq unbooked'
      BY <1>1, <2>2
    <3>2. Booking(k)' = Booking(k) /\ Paid(k) \subseteq Paid(k)'
      BY <2>8
    <3>3. QED
      BY <2>10, <3>1, <3>2, AccountOf
  <2>11. QED
    BY <2>4, <2>5, <2>9, <2>10, BonusesNext
<1>4. QED
  BY <1>0, <1>2, <1>3 DEF Credit

LEMMA BookBonuses ==
  ASSUME TypeOK, TypeOK', BonusInv, NEW i \in Ids, Book(i)
  PROVE  BonusInv'
<1>0. PICK u : u = bonus[i].to
  OBVIOUS
<1>1. /\ bonus[i] \in Handlers /\ UNCHANGED <<wallet, unbooked, user, made, held, requests>>
      /\ bonus[i].step = "book" /\ u \in 1..made /\ u \in Ids /\ u # i /\ u \in Live
      /\ bonus[i].code \in held[u] /\ wallet[u] # NoWallet
  BY <1>0, BonusTypes DEF Book, userHistory, BonusInv, HandlersStand
<1>2. booked'[u] = booked[u] + 1 /\ \A k \in Ids \ {u} : booked'[k] = booked[k]
  BY <1>0, <1>1, BonusTypes DEF Book
<1>3. ASSUME NEW h \in Ids
      PROVE  /\ bonus'[h].to = bonus[h].to /\ bonus'[h].code = bonus[h].code
             /\ bonus'[h].step = IF h = i THEN "done" ELSE bonus[h].step
  <2> DEFINE done == [bonus[i] EXCEPT !.step = "done"]
  <2> DEFINE near == [bonus[h] EXCEPT !.near = TRUE]
  <2>1. bonus'[h] = CASE h = i         -> done
                      [] h \in Beside(i) -> near
                      [] OTHER         -> bonus[h]
    BY Zenon DEF Book
  <2>2. h \in Beside(i) => h # i
    BY DEF Beside
  <2>3. done.to = bonus[i].to /\ done.code = bonus[i].code /\ done.step = "done"
    BY <1>1 DEF Handlers
  <2>4. near.to = bonus[h].to /\ near.code = bonus[h].code /\ near.step = bonus[h].step
    BY BonusTypes DEF Handlers
  <2> HIDE DEF done, near
  <2>5. CASE h = i
    BY <2>1, <2>2, <2>3, <2>5
  <2>6. CASE h # i
    BY <2>1, <2>4, <2>6
  <2>7. QED
    BY <2>5, <2>6
<1>4. HandlerMoves(i)
  BY <1>1, <1>3 DEF HandlerMoves
<1>5. RowsStand' /\ Live' = Live
  <2>1. \A k \in Ids : k > made => booked'[k] = 0
    BY <1>1, <1>2, BonusTypes DEF BonusInv, RowsStand
  <2>2. QED
    BY <1>1, <1>4, <2>1, HandlerRows
<1>6. HandlersStand'
  <2>1. ASSUME NEW h \in Ids, bonus'[h].step \in {"credit", "book"}
        PROVE  LET k == bonus'[h].to IN
                 /\ k \in 1..made /\ k # h /\ bonus'[h].code \in held[k]
                 /\ k \in Live => wallet[k] # NoWallet
    <3>1. h # i /\ bonus'[h].step = bonus[h].step
      BY <1>3, <2>1
    <3>2. QED
      BY <1>3, <2>1, <3>1 DEF BonusInv, HandlersStand
  <2>2. \A k \in Live : wallet[k] = NoWallet => k # u /\ booked'[k] = 0
    BY <1>1, <1>2, BonusTypes DEF BonusInv, HandlersStand
  <2>3. QED
    BY <1>1, <1>5, <2>1, <2>2 DEF HandlersStand
<1>7. Booking(u)' = Booking(u) \ {i} /\ i \in Booking(u)
  BY <1>0, <1>1, <1>3 DEF Booking
<1>8. \A k \in Ids : Paid(k) \subseteq Paid(k)'
  BY <1>0, <1>1, <1>3 DEF Paid
<1>9. \A k \in Ids \ {u} : Booking(k)' = Booking(k)
  BY <1>0, <1>1, <1>3 DEF Booking
<1>10. ASSUME NEW k \in Ids \ {u}, wallet'[k] \in Nat
       PROVE  /\ wallet'[k] >= booked'[k] + Cardinality(Booking(k)')
              /\ k \notin unbooked' => wallet'[k] = booked'[k] + Cardinality(Booking(k)')
              /\ wallet'[k] <= Cardinality(Paid(k)')
  <2>1. k \in Ids /\ UNCHANGED <<wallet[k], booked[k]>> /\ unbooked \subseteq unbooked'
    BY <1>1, <1>2
  <2>2. Booking(k)' = Booking(k) /\ Paid(k) \subseteq Paid(k)'
    BY <1>8, <1>9
  <2>3. QED
    BY <1>10, <2>1, <2>2, AccountOf
<1>11. ASSUME wallet'[u] \in Nat
       PROVE  /\ wallet'[u] >= booked'[u] + Cardinality(Booking(u)')
              /\ u \notin unbooked' => wallet'[u] = booked'[u] + Cardinality(Booking(u)')
              /\ wallet'[u] <= Cardinality(Paid(u)')
  <2>1. Booking(u) \in SUBSET Ids /\ Paid(u) \in SUBSET (Paid(u)') /\ Paid(u)' \in SUBSET Ids
    BY <1>0, <1>1, <1>8 DEF Booking, Paid
  <2>2. /\ Cardinality(Booking(u)') = Cardinality(Booking(u)) - 1 /\ Cardinality(Booking(u)) \in Nat
    BY <1>7, <2>1, OneLess, IdsFinite
  <2>3. /\ Cardinality(Paid(u)) <= Cardinality(Paid(u)') /\ Cardinality(Paid(u)) \in Nat
        /\ Cardinality(Paid(u)') \in Nat
    BY <2>1, NoLess, IdsFinite
  <2>4. /\ wallet[u] >= booked[u] + Cardinality(Booking(u))
        /\ u \notin unbooked => wallet[u] = booked[u] + Cardinality(Booking(u))
        /\ wallet[u] <= Cardinality(Paid(u)) /\ wallet[u] \in Nat /\ wallet'[u] = wallet[u]
    BY <1>1, <1>11 DEF BonusInv, BonusesAreBooked, BonusesStand
  <2>5. booked[u] \in Nat /\ unbooked' = unbooked
    BY <1>1, BonusTypes
  <2>6. QED
    BY <1>2, <2>2, <2>3, <2>4, <2>5
<1>12. QED
  BY <1>5, <1>6, <1>10, <1>11, BonusesNext

LEMMA BookFailsBonuses ==
  ASSUME TypeOK, TypeOK', BonusInv, NEW i \in Ids, BookFails(i)
  PROVE  BonusInv'
<1>0. PICK u : u = bonus[i].to
  OBVIOUS
<1>1. /\ bonus[i] \in Handlers /\ UNCHANGED <<wallet, booked, user, made, held, requests>>
      /\ bonus[i].step = "book" /\ u \in 1..made /\ u \in Ids /\ u # i
      /\ HandlerDone(i) /\ unbooked' = unbooked \cup {u}
  BY <1>0, BonusTypes DEF BookFails, users, BonusInv, HandlersStand
<1>2. /\ bonus'[i].step = "done" /\ bonus'[i].to = u /\ bonus'[i].code = bonus[i].code
      /\ \A h \in Ids \ {i} : bonus'[h] = bonus[h]
  BY <1>0, <1>1, BonusTypes DEF HandlerDone, Handlers
<1>3. HandlerMoves(i)
  BY <1>1, <1>2 DEF HandlerMoves
<1>4. RowsStand' /\ Live' = Live
  BY <1>1, <1>3, HandlerRows DEF BonusInv, RowsStand
<1>5. HandlersStand'
  BY <1>1, <1>2, <1>4 DEF BonusInv, HandlersStand
<1>6. Booking(u)' = Booking(u) \ {i} /\ i \in Booking(u)
  BY <1>0, <1>1, <1>2 DEF Booking
<1>7. \A k \in Ids : Paid(k) \subseteq Paid(k)'
  BY <1>0, <1>1, <1>2 DEF Paid
<1>8. \A k \in Ids \ {u} : Booking(k)' = Booking(k)
  BY <1>0, <1>1, <1>2 DEF Booking
<1>9. ASSUME NEW k \in Ids \ {u}, wallet'[k] \in Nat
      PROVE  /\ wallet'[k] >= booked'[k] + Cardinality(Booking(k)')
             /\ k \notin unbooked' => wallet'[k] = booked'[k] + Cardinality(Booking(k)')
             /\ wallet'[k] <= Cardinality(Paid(k)')
  <2>1. k \in Ids /\ UNCHANGED <<wallet[k], booked[k]>> /\ unbooked \subseteq unbooked'
    BY <1>1
  <2>2. Booking(k)' = Booking(k) /\ Paid(k) \subseteq Paid(k)'
    BY <1>7, <1>8
  <2>3. QED
    BY <1>9, <2>1, <2>2, AccountOf
<1>10. ASSUME wallet'[u] \in Nat
       PROVE  /\ wallet'[u] >= booked'[u] + Cardinality(Booking(u)')
              /\ u \notin unbooked' => wallet'[u] = booked'[u] + Cardinality(Booking(u)')
              /\ wallet'[u] <= Cardinality(Paid(u)')
  <2>1. Booking(u) \in SUBSET Ids /\ Paid(u) \in SUBSET (Paid(u)') /\ Paid(u)' \in SUBSET Ids
    BY <1>0, <1>1, <1>7 DEF Booking, Paid
  <2>2. /\ Cardinality(Booking(u)') = Cardinality(Booking(u)) - 1 /\ Cardinality(Booking(u)) \in Nat
    BY <1>6, <2>1, OneLess, IdsFinite
  <2>3. /\ Cardinality(Paid(u)) <= Cardinality(Paid(u)') /\ Cardinality(Paid(u)) \in Nat
        /\ Cardinality(Paid(u)') \in Nat
    BY <2>1, NoLess, IdsFinite
  <2>4. /\ wallet[u] >= booked[u] + Cardinality(Booking(u))
        /\ wallet[u] <= Cardinality(Paid(u)) /\ wallet[u] \in Nat /\ wallet'[u] = wallet[u]
    BY <1>1, <1>10 DEF BonusInv, BonusesAreBooked, BonusesStand
  <2>5. booked[u] \in Nat /\ booked'[u] = booked[u] /\ u \in unbooked'
    BY <1>1, BonusTypes
  <2>6. QED
    BY <2>2, <2>3, <2>4, <2>5
<1>11. QED
  BY <1>4, <1>5, <1>9, <1>10, BonusesNext

LEMMA RenameBonuses ==
  ASSUME TypeOK, TypeOK', BonusInv, NEW i \in Ids, NEW n \in Given, Rename(i, n)
  PROVE  BonusInv'
<1>1. /\ i \in Live /\ held' = [held EXCEPT ![i] = @ \cup {n}]
      /\ UNCHANGED <<wallet, booked, bonus, unbooked, made, pc, row>>
      /\ user' = [user EXCEPT ![i].name = n]
  BY DEF Rename
<1>2. [user[i] EXCEPT !.name = n].name = n /\ [user[i] EXCEPT !.name = n] \in UserRows
  BY <1>1 DEF Live, TypeOK, UsersOK, UserRows
<1>3. /\ Live' = Live /\ user'[i].name = n /\ \A k \in Live \ {i} : user'[k] = user[k]
  BY <1>1, <1>2 DEF Live, TypeOK, UsersOK
<1>4. /\ held'[i] = held[i] \cup {n} /\ \A k \in Ids \ {i} : held'[k] = held[k]
  BY <1>1, BonusTypes
<1>5. RowsStand'
  BY <1>1, <1>3, <1>4, BonusTypes DEF RowsStand, BonusInv, HasRow
<1>6. HandlersStand'
  BY <1>1, <1>3, <1>4, BonusTypes DEF HandlersStand, BonusInv
<1>7. ASSUME NEW k \in Ids
      PROVE  Booking(k)' = Booking(k) /\ Paid(k) \subseteq Paid(k)'
  BY <1>1, <1>4 DEF Booking, Paid
<1>8. QED
  BY <1>1, <1>5, <1>6, <1>7, AccountOf, BonusesNext

LEMMA DeleteUserBonuses ==
  ASSUME TypeOK, TypeOK', BonusInv, NEW i \in Ids, DeleteUser(i)
  PROVE  BonusInv'
<1>1. /\ UNCHANGED <<held, bonus, unbooked, made, pc, row>>
      /\ user' = [user EXCEPT ![i] = NoRow]
      /\ wallet' = [wallet EXCEPT ![i] = NoWallet] /\ booked' = [booked EXCEPT ![i] = 0]
  BY DEF DeleteUser, requests
<1>2. Live' = Live \ {i} /\ \A k \in Live' : user'[k] = user[k]
  BY <1>1 DEF Live, TypeOK, UsersOK
<1>3. /\ wallet'[i] = NoWallet /\ booked'[i] = 0
      /\ \A k \in Ids \ {i} : wallet'[k] = wallet[k] /\ booked'[k] = booked[k]
  BY <1>1, BonusTypes
<1>4. RowsStand'
  BY <1>1, <1>2, <1>3, BonusTypes DEF RowsStand, BonusInv, HasRow
<1>5. HandlersStand'
  BY <1>1, <1>2, <1>3, BonusTypes DEF HandlersStand, BonusInv
<1>6. ASSUME NEW k \in Ids
      PROVE  Booking(k)' = Booking(k) /\ Paid(k) \subseteq Paid(k)'
  BY <1>1 DEF Booking, Paid
<1>7. \A k \in Ids : wallet'[k] \in Nat => UNCHANGED <<wallet[k], booked[k]>>
  BY <1>3
<1>8. QED
  BY <1>1, <1>4, <1>5, <1>6, <1>7, AccountOf, BonusesNext

LEMMA CrashBonuses ==
  ASSUME TypeOK, TypeOK', BonusInv, Crash
  PROVE  BonusInv'
<1>1. /\ UNCHANGED <<user, made, wallet, booked, held>> /\ Live' = Live
      /\ \A r \in Requests : pc'[r] = "idle" /\ ~HasRow(r)'
  BY DEF Crash, users, Live, HasRow
<1>2. ASSUME NEW h \in Ids
      PROVE  /\ bonus'[h].step = IF bonus[h].step = "none" THEN "none" ELSE "done"
             /\ bonus'[h].code = bonus[h].code
  <2>1. bonus'[h] = IF bonus[h].step = "none" THEN bonus[h] ELSE [bonus[h] EXCEPT !.step = "done"]
    BY DEF Crash
  <2> DEFINE done == [bonus[h] EXCEPT !.step = "done"]
  <2>2. done.step = "done" /\ done.code = bonus[h].code
    BY BonusTypes DEF Handlers
  <2> HIDE DEF done
  <2>3. bonus'[h] = IF bonus[h].step = "none" THEN bonus[h] ELSE done
    BY <2>1 DEF done
  <2>4. QED
    BY <2>2, <2>3
<1>3. RowsStand'
  BY <1>1, <1>2 DEF RowsStand, BonusInv
<1>4. HandlersStand'
  BY <1>1, <1>2 DEF HandlersStand, BonusInv
<1>5. ASSUME NEW k \in Ids, wallet'[k] \in Nat
      PROVE  /\ wallet'[k] >= booked'[k] + Cardinality(Booking(k)')
             /\ k \notin unbooked' => wallet'[k] = booked'[k] + Cardinality(Booking(k)')
             /\ wallet'[k] <= Cardinality(Paid(k)')
  <2>1. Booking(k)' = {} /\ Cardinality({}) = 0
    BY <1>2, FS_EmptySet DEF Booking
  <2>2. Booking(k) \in SUBSET Ids /\ Paid(k) \in SUBSET (Paid(k)') /\ Paid(k)' \in SUBSET Ids
    BY <1>1, <1>2 DEF Booking, Paid
  <2>3. /\ Cardinality(Booking(k)) \in Nat /\ Cardinality(Paid(k)) \in Nat
        /\ Cardinality(Paid(k)) <= Cardinality(Paid(k)') /\ Cardinality(Paid(k)') \in Nat
    BY <2>2, IdsFinite, NoLess
  <2>4. k \notin unbooked' => k \notin unbooked /\ Booking(k) = {}
    BY DEF Crash, Booking
  <2>5. /\ wallet[k] >= booked[k] + Cardinality(Booking(k))
        /\ k \notin unbooked => wallet[k] = booked[k] + Cardinality(Booking(k))
        /\ wallet[k] <= Cardinality(Paid(k)) /\ wallet[k] \in Nat
        /\ wallet'[k] = wallet[k] /\ booked'[k] = booked[k] /\ booked[k] \in Nat
    BY <1>1, <1>5, BonusTypes DEF BonusInv, BonusesAreBooked, BonusesStand
  <2>6. /\ Cardinality(Booking(k)') = 0
        /\ k \notin unbooked' => k \notin unbooked /\ Cardinality(Booking(k)) = 0
    BY <2>1, <2>4, Zenon
  <2>7. QED
    BY <2>3, <2>5, <2>6
<1>6. QED
  BY <1>3, <1>4, <1>5, BonusesNext

(* Nothing about bonuses changes: the steps before a sign-up has its row and *)
(* those of registrations.                                                   *)
LEMMA QuietSteps ==
  ASSUME Inv, TypeOK', BonusInv,
         \/ \E r \in Requests, j \in Sent : SignUp(r, j)
         \/ \E r \in Requests : ChooseName(r) \/ NoWalletMade(r) \/ Taken(r) \/ SignUpFails(r)
         \/ \E i \in Ids, b \in BOOLEAN : UpdateRoles(i, b)
         \/ \E r \in Requests, u \in Ids, f \in Firms : Register(r, u, f)
         \/ \E r \in Requests : \/ ReadOwner(r) \/ PushRole(r) \/ Found(r) \/ MakeTill(r)
                                \/ Link(r) \/ RegisterFails(r)
         \/ UNCHANGED vars
  PROVE  BonusInv'
<1> USE DEF Inv
<1> DEFINE Still == \A q \in Requests : HasRow(q)' => /\ HasRow(q) /\ row'[q] = row[q]
                                                      /\ pc'[q] = "wallet" => pc[q] = "wallet"
<1> DEFINE Kept == UNCHANGED <<wallet, booked, bonus, held, unbooked, made>>
<1>1. Kept
  BY DEF SignUp, ChooseName, NoWalletMade, Taken, SignUpFails, UpdateRoles, Register, ReadOwner, PushRole,
         Found, MakeTill, Link, RegisterFails, users, userHistory, vars
<1>2. Live' = Live /\ \A k \in Live : user'[k].name = user[k].name
  <2>1. CASE UNCHANGED user
    BY <2>1, RowsKeepNames
  <2>2. CASE (\E i \in Ids, b \in BOOLEAN : UpdateRoles(i, b)) \/ \E r \in Requests : PushRole(r) \/ Link(r)
    BY <2>2, RowsKeepNames
  <2>3. QED
    BY <2>1, <2>2 DEF SignUp, ChooseName, NoWalletMade, Taken, SignUpFails, Register, ReadOwner,
                      Found, MakeTill, RegisterFails, users, vars
<1>3. ASSUME NEW r \in Requests, OthersStay(r), pc'[r] \notin {"wallet", "finish"} PROVE Still
  BY <1>3 DEF OthersStay, HasRow
<1>4. ASSUME NEW r \in Requests, End(r) PROVE Still
  BY <1>3, <1>4, EndMoves
<1>5. ASSUME NEW r \in Requests, NEW p \in {"name", "create", "read", "role", "found", "till", "link"},
             Goto(r, p), UNCHANGED job \/ \E j : job' = [job EXCEPT ![r] = j],
             UNCHANGED row \/ \E w : row' = [row EXCEPT ![r] = w]
      PROVE  Still
  BY <1>3, <1>5, OneMoves
<1>6. Still
  <2>1. ASSUME NEW r \in Requests, NEW j \in Sent, SignUp(r, j) PROVE Still
    BY <1>5, <2>1 DEF SignUp
  <2>2. ASSUME NEW r \in Requests, ChooseName(r) PROVE Still
    BY <1>5, <2>2 DEF ChooseName
  <2>3. ASSUME NEW r \in Requests, NoWalletMade(r) PROVE Still
    <3>1. CASE End(r)
      BY <1>4, <3>1
    <3>2. CASE Goto(r, "finish") /\ UNCHANGED row
      BY <2>3, <3>2 DEF NoWalletMade, Goto, HasRow, TypeOK, RequestsOK
    <3>3. QED
      BY <2>3, <3>1, <3>2 DEF NoWalletMade
  <2>4. ASSUME NEW r \in Requests, Taken(r) \/ SignUpFails(r) \/ Link(r) \/ RegisterFails(r) PROVE Still
    BY <1>4, <2>4 DEF Taken, SignUpFails, Link, RegisterFails
  <2>5. ASSUME NEW r \in Requests, ReadOwner(r) \/ PushRole(r) \/ Found(r) \/ MakeTill(r) PROVE Still
    BY <1>4, <1>5, <2>5 DEF ReadOwner, PushRole, Found, MakeTill
  <2>6. ASSUME NEW r \in Requests, NEW u \in Ids, NEW f \in Firms, Register(r, u, f) PROVE Still
    BY <1>5, <2>6 DEF Register
  <2>7. CASE (\E i \in Ids, b \in BOOLEAN : UpdateRoles(i, b)) \/ UNCHANGED vars
    BY <2>7 DEF UpdateRoles, vars, requests, HasRow
  <2> HIDE DEF Still
  <2>8. QED
    BY <2>1, <2>2, <2>3, <2>4, <2>5, <2>6, <2>7
<1>7. QED
  BY <1>1, <1>2, <1>6, QuietBonuses

LEMMA BonusesKept ==
  ASSUME Inv, Inv', BonusInv, [Next]_vars
  PROVE  BonusInv'
<1>1. TypeOK /\ TypeOK'
  BY DEF Inv
<1>2. QED
  BY <1>1, NextCases, QuietSteps, MakeWalletBonuses, CreateBonuses, RegisterStaffBonuses, FinishBonuses,
     FindReferrerBonuses, CreditBonuses, BookBonuses, BookFailsBonuses, BonusFailsBonuses,
     RenameBonuses, DeleteUserBonuses, CrashBonuses

LEMMA InitBonuses == Init => BonusInv
<1> SUFFICES ASSUME Init PROVE BonusInv
  OBVIOUS
<1>1. /\ Live = {} /\ \A r \in Requests : ~HasRow(r)
      /\ \A i \in Ids : wallet[i] = NoWallet /\ booked[i] = 0 /\ bonus[i].step = "none"
  BY DEF Init, Live, HasRow, NoHandler
<1>2. QED
  BY <1>1 DEF BonusInv, RowsStand, HandlersStand, BonusesAreBooked, BonusesStand

LEMMA AlwaysBonuses == Spec => []BonusInv
BY AlwaysInv, InitBonuses, BonusesKept, PTL DEF Spec

(* The bonuses a wallet was credited with are those written as rows and      *)
(* those a handler is about to write, but for rows that could not be written.*)
THEOREM CreditedAreBooked == Spec => []BonusesAreBooked
<1>1. BonusInv => BonusesAreBooked
  BY DEF BonusInv
<1>2. QED
  BY <1>1, AlwaysBonuses, PTL

(* A wallet gets at most one bonus for each other user who has signed up     *)
(* with a username its owner has had.                                        *)
THEOREM BonusesAreEarned == Spec => []BonusIsEarned
<1>1. ASSUME TypeOK, BonusInv PROVE BonusIsEarned
  <2> SUFFICES ASSUME NEW i \in Ids, wallet[i] \in Nat
               PROVE  wallet[i] <= Cardinality({h \in Ids \ {i} : bonus[h].code \in held[i]})
    BY DEF BonusIsEarned
  <2> DEFINE all == {h \in Ids \ {i} : bonus[h].code \in held[i]}
  <2>1. all \in SUBSET Ids /\ Paid(i) \in SUBSET all
    BY DEF Paid
  <2>2. /\ Cardinality(Paid(i)) <= Cardinality(all) /\ Cardinality(Paid(i)) \in Nat
        /\ Cardinality(all) \in Nat
    BY <2>1, NoLess, IdsFinite
  <2>3. wallet[i] <= Cardinality(Paid(i))
    BY <1>1 DEF BonusInv, BonusesStand
  <2>4. QED
    BY <2>2, <2>3
<1>2. QED
  BY <1>1, TypeCorrect, AlwaysBonuses, PTL
===============================================================================
