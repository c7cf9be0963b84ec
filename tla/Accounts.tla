------------------------------- MODULE Accounts -------------------------------
(***************************************************************************)
(* How accounts come to be: AuthService.signUp and registerUser with the   *)
(* username generator, WalletService.createWallet and the referral event,  *)
(* AdminService.registerStaff and updateStaffRoles, the username edit of   *)
(* UserService.updateUser, deleteUser, and                                 *)
(* BusinessService.registerBusiness.                                       *)
(*                                                                         *)
(* None of these runs in a transaction: each is a sequence of queries,     *)
(* other requests run between any two of them, a query may fail and the    *)
(* server may stop.  The code a sign-up mails is in module Codes, the card *)
(* it may attach in module Cards.                                          *)
(***************************************************************************)
EXTENDS Integers, FiniteSets

CONSTANTS People,       \* one phone number and one email each
          FirstNames,
          FirstName,    \* FirstName[p]: the first name p signs up with
          StartsWith,   \* pairs <<x, y>>: the first name x begins with y
          Given,        \* bound: the usernames that are asked for
          Referrals,    \* bound: the referral codes that are sent
          Sent,         \* bound: the sign-ups that are sent
          Firms,        \* one email and one phone number each
          Requests,     \* bound: the requests handled at once
          NoRow, NoName, NoWallet, NoJob,
          Kinds,        \* bound: the endpoints that are called
          MaxRows,      \* bound: the users ever created
          MaxFounded,   \* bound: the businesses ever created
          MaxEdits,     \* bound: renames, deletions, changes of roles
          MaxFaults     \* bound: failed queries and crashes

Ids == 1..MaxRows
BusinessIds == 1..MaxFounded

(* A username: a first name, and the number after '_' (0 if there is none). *)
Names == [base : FirstNames, n : Nat]
(* The row's `business' is 0 for a user without one. *)
UserRows == [who : People, name : Names, owner : BOOLEAN, business : {0} \cup BusinessIds]

SignUps == [kind : {"signUp"}, who : People, given : Given \cup {NoName},
            code : Referrals \cup {NoName}, owner : BOOLEAN, card : BOOLEAN,
            agent : BOOLEAN]
Registrations == [kind : {"register"}, user : Ids, firm : Firms]
Jobs == SignUps \cup Registrations

(* The handler of a sign-up's referral event. *)
Handlers == [step : {"none", "find", "credit", "book", "done"}, code : Referrals \cup {NoName},
             to : {0} \cup Ids, near : BOOLEAN]

ASSUME AccountsAssumption ==
  /\ FirstName \in [People -> FirstNames]
  /\ StartsWith \subseteq FirstNames \X FirstNames
  /\ \A f \in FirstNames : <<f, f>> \in StartsWith
  /\ Given \subseteq Names /\ Referrals \subseteq Names /\ Sent \subseteq SignUps
  /\ MaxRows \in Nat /\ MaxFounded \in Nat /\ MaxEdits \in Nat /\ MaxFaults \in Nat
  /\ NoRow \notin UserRows /\ NoRow \notin Firms
  /\ NoName \notin Names /\ NoWallet \notin Nat /\ NoJob \notin Jobs

VARIABLES
  user,     \* user[i]: the i-th row of users created
  made,     \* how many were created
  wallet,   \* wallet[i]: the referral bonuses on the user's wallet
  booked,   \* booked[i]: the REFERRAL_BONUS rows with the user as recipient
  firm,     \* firm[b]: the b-th row of businesses created
  founded,  \* how many were created
  till,     \* the businesses with a wallet
  pc, job,  \* the requests
  name,     \* name[r]: the username a sign-up is about to create
  row,      \* row[r]: the row the request has created
  bonus,    \* bonus[i]: the handler of the referral event of the sign-up of i
  edits, faults,
  told,     \* history: told[i]: how the sign-up of i was answered
  byAgent,  \* history: the users an agent or an admin has registered
  cut,      \* history: the users whose sign-up lost a query or was stopped
  odd,      \* history: the usernames that somebody chose or gave up
  beside,   \* history: beside[r]: the usernames created since name[r] was chosen
  held,     \* history: held[i]: the usernames the user has had
  unbooked, \* history: the referrers a bonus of whom was not written as a row
  founder,  \* history: founder[b]: who registered the business
  doubled,  \* history: the users with two registrations under way at once
  stopped   \* history: the businesses whose registration lost a query or was stopped

users == <<user, made, wallet, booked>>
businesses == <<firm, founded, till>>
requests == <<pc, job, name, row, beside>>
counts == <<edits, faults>>
userHistory == <<told, byAgent, cut, odd, held, unbooked>>
otherHistory == <<founder, doubled, stopped>>
vars == <<users, businesses, requests, bonus, counts, userHistory, otherHistory>>

SigningUp == {"name", "create", "wallet", "finish"}
Registering == {"read", "role", "found", "till", "link"}

NoHandler == [step |-> "none", code |-> NoName, to |-> 0, near |-> FALSE]

UsersOK ==
  /\ user \in [Ids -> UserRows \cup {NoRow}] /\ made \in 0..MaxRows
  /\ wallet \in [Ids -> Nat \cup {NoWallet}] /\ booked \in [Ids -> Nat]
BusinessesOK ==
  /\ firm \in [BusinessIds -> Firms \cup {NoRow}] /\ founded \in 0..MaxFounded
  /\ till \subseteq BusinessIds
RequestsOK ==
  /\ pc \in [Requests -> {"idle"} \cup SigningUp \cup Registering]
  /\ job \in [Requests -> Jobs \cup {NoJob}]
  /\ name \in [Requests -> Names \cup {NoName}]
  /\ row \in [Requests -> Nat]
  /\ beside \in [Requests -> SUBSET Names]
  /\ \A r \in Requests : /\ pc[r] \in SigningUp => job[r] \in SignUps
                         /\ pc[r] \in Registering => job[r] \in Registrations
                         /\ pc[r] = "create" => name[r] \in Names
                         /\ pc[r] \in {"wallet", "finish"} => row[r] \in 1..made
                         /\ pc[r] \in {"till", "link"} => row[r] \in 1..founded
BonusesOK ==
  /\ bonus \in [Ids -> Handlers]
  /\ \A i \in Ids : bonus[i].step \in {"credit", "book"} => bonus[i].to \in Ids
HistoryOK ==
  /\ told \in [Ids -> {"none", "welcome", "failed"}]
  /\ byAgent \subseteq Ids /\ cut \subseteq Ids /\ unbooked \subseteq Ids
  /\ odd \subseteq Names /\ held \in [Ids -> SUBSET Names]
  /\ founder \in [BusinessIds -> Ids \cup {0}] /\ doubled \subseteq Ids
  /\ stopped \subseteq BusinessIds
TypeOK == /\ UsersOK /\ BusinessesOK /\ RequestsOK /\ BonusesOK /\ HistoryOK
          /\ edits \in Nat /\ faults \in Nat

Init ==
  /\ user = [i \in Ids |-> NoRow] /\ made = 0
  /\ wallet = [i \in Ids |-> NoWallet] /\ booked = [i \in Ids |-> 0]
  /\ firm = [b \in BusinessIds |-> NoRow] /\ founded = 0 /\ till = {}
  /\ pc = [r \in Requests |-> "idle"] /\ job = [r \in Requests |-> NoJob]
  /\ name = [r \in Requests |-> NoName] /\ row = [r \in Requests |-> 0]
  /\ bonus = [i \in Ids |-> NoHandler]
  /\ edits = 0 /\ faults = 0
  /\ told = [i \in Ids |-> "none"] /\ byAgent = {} /\ cut = {} /\ unbooked = {}
  /\ odd = {} /\ beside = [r \in Requests |-> {}] /\ held = [i \in Ids |-> {}]
  /\ founder = [b \in BusinessIds |-> 0] /\ doubled = {} /\ stopped = {}

-------------------------------------------------------------------------------
Goto(r, place) == pc' = [pc EXCEPT ![r] = place]
(* The request is answered; what it had read is gone. *)
End(r) == /\ Goto(r, "idle")
          /\ job' = [job EXCEPT ![r] = NoJob]
          /\ name' = [name EXCEPT ![r] = NoName]
          /\ row' = [row EXCEPT ![r] = 0]
          /\ beside' = [beside EXCEPT ![r] = {}]
Fault == faults < MaxFaults /\ faults' = faults + 1
Edit == edits < MaxEdits /\ edits' = edits + 1

Live == {i \in Ids : user[i] # NoRow}
UsedNames == {user[i].name : i \in Live}
Signed == {user[i].who : i \in Live}
-------------------------------------------------------------------------------
(* Sign-up, by oneself or by an agent. *)

(* An agent registers customers only; the role is looked at before anything  *)
(* is read.                                                                  *)
SignUp(r, j) ==
  /\ pc[r] = "idle" /\ "signUp" \in Kinds
  /\ ~(j.agent /\ j.owner)
  /\ job' = [job EXCEPT ![r] = j]
  /\ name' = [name EXCEPT ![r] = j.given]
  /\ Goto(r, IF j.given = NoName THEN "name" ELSE "create")
  /\ UNCHANGED <<users, businesses, row, beside, bonus, counts, told, byAgent, cut, odd,
                 held, unbooked, otherHistory>>

(* The users whose username begins with the first name. *)
Namesakes(f) == {i \in Live : <<user[i].name.base, f>> \in StartsWith}

(* The newest of them.  Mutant: the oldest. *)
Newest_Oldest(f) == {i \in Namesakes(f) : \A j \in Namesakes(f) : i <= j}
Newest(f) == {i \in Namesakes(f) : \A j \in Namesakes(f) : j <= i}

(* generateUsername: the first name, with the newest's number plus one.      *)
ChooseName(r) ==
  LET f == FirstName[job[r].who]
      take(n) == name' = [name EXCEPT ![r] = [base |-> f, n |-> n]]
  IN
  /\ pc[r] = "name"
  /\ \/ Namesakes(f) = {} /\ take(0)
     \/ \E i \in Newest(f) : take(user[i].name.n + 1)
  /\ Goto(r, "create")
  /\ UNCHANGED <<users, businesses, job, row, beside, bonus, counts, told, byAgent, cut,
                 odd, held, unbooked, otherHistory>>

(* The sign-ups of rs that are about to create their row do not see n. *)
Unseen(n, rs) ==
  beside' = [q \in Requests |-> IF q \in rs /\ pc[q] = "create" THEN beside[q] \cup {n} ELSE {}]

(* A new row of p. *)
NewUser(p, n, isOwner) ==
  LET i == made + 1 IN
  /\ made < MaxRows
  /\ made' = i
  /\ user' = [user EXCEPT ![i] = [who |-> p, name |-> n, owner |-> isOwner, business |-> 0]]
  /\ held' = [held EXCEPT ![i] = {n}]

(* users.create: the phone number, the email and the username are unique. *)
Create(r) ==
  LET j == job[r] IN
  /\ pc[r] = "create"
  /\ j.who \notin Signed /\ name[r] \notin UsedNames
  /\ NewUser(j.who, name[r], j.owner) /\ Unseen(name[r], Requests \ {r})
  /\ row' = [row EXCEPT ![r] = made']
  /\ odd' = IF j.given = NoName THEN odd ELSE odd \cup {j.given}
  /\ byAgent' = IF j.agent THEN byAgent \cup {made'} ELSE byAgent
  /\ Goto(r, "wallet")
  /\ UNCHANGED <<wallet, booked, businesses, job, name, bonus, counts, told, cut,
                 unbooked, otherHistory>>

(* "This Username (Phone Number, Email) is already taken". *)
Taken(r) ==
  /\ pc[r] = "create"
  /\ job[r].who \in Signed \/ name[r] \in UsedNames
  /\ End(r)
  /\ UNCHANGED <<users, businesses, bonus, counts, userHistory, otherHistory>>

(* A query before the row is there fails: the sign-up is answered with an    *)
(* error.                                                                    *)
SignUpFails(r) ==
  /\ pc[r] \in {"name", "create"}
  /\ Fault /\ End(r)
  /\ UNCHANGED <<users, businesses, bonus, edits, userHistory, otherHistory>>

(* Mutant: the card is attached before the wallet is there. *)
MakeWallet_CardFirst(r) ==
  /\ pc[r] = "wallet" /\ row[r] \in Live
  /\ IF job[r].card
     THEN End(r) /\ told' = [told EXCEPT ![row[r]] = "failed"] /\ UNCHANGED wallet
     ELSE /\ wallet' = [wallet EXCEPT ![row[r]] = 0]
          /\ Goto(r, "finish") /\ UNCHANGED <<job, name, row, beside, told>>
  /\ UNCHANGED <<user, made, booked, businesses, bonus, counts, byAgent, cut, odd,
                 held, unbooked, otherHistory>>
MakeWallet(r) ==
  /\ pc[r] = "wallet" /\ row[r] \in Live
  /\ wallet' = [wallet EXCEPT ![row[r]] = 0]
  /\ Goto(r, "finish")
  /\ UNCHANGED <<user, made, booked, businesses, job, name, row, beside, bonus, counts,
                 userHistory, otherHistory>>

(* createWallet swallows its error.  With a card the missing wallet's id is  *)
(* read, and the sign-up is answered with an error; without, it goes on.     *)
NoWalletMade(r) ==
  /\ pc[r] = "wallet"
  /\ \/ row[r] \notin Live /\ UNCHANGED faults
     \/ row[r] \in Live /\ Fault
  /\ cut' = cut \cup {row[r]}
  /\ IF job[r].card
     THEN End(r) /\ told' = [told EXCEPT ![row[r]] = "failed"]
     ELSE Goto(r, "finish") /\ UNCHANGED <<job, name, row, beside, told>>
  /\ UNCHANGED <<users, businesses, bonus, edits, byAgent, odd, held,
                 unbooked, otherHistory>>

(* The code is asked for (an error there is caught), the referral event is   *)
(* emitted, the token signed and the sign-up answered.  registerUser then    *)
(* reads the id where signUp does not put it: the agent is told of an error  *)
(* and no userHistory row is ever written.                                   *)
Finish(r) ==
  LET i == row[r] IN
  /\ pc[r] = "finish"
  /\ bonus' = IF job[r].code = NoName THEN bonus
              ELSE [bonus EXCEPT ![i] = [NoHandler EXCEPT !.step = "find", !.code = job[r].code]]
  /\ told' = [told EXCEPT ![i] = IF job[r].agent THEN "failed" ELSE "welcome"]
  /\ End(r)
  /\ UNCHANGED <<users, businesses, counts, byAgent, cut, odd, held,
                 unbooked, otherHistory>>
-------------------------------------------------------------------------------
(* handleReferralCodeValidatedEvent, for the sign-up of user i. *)

HandlerDone(i) == bonus' = [bonus EXCEPT ![i].step = "done"]
Referrers(i) == {u \in Live : user[u].name = bonus[i].code}

(* A code that is nobody's, one's own, or of a user without a wallet pays    *)
(* nothing (the second and third by an error that is caught).                *)
FindReferrer(i) ==
  /\ bonus[i].step = "find"
  /\ \/ \E u \in Referrers(i) \ {i} :
          /\ wallet[u] # NoWallet
          /\ bonus' = [bonus EXCEPT ![i].step = "credit", ![i].to = u]
     \/ /\ \A u \in Referrers(i) \ {i} : wallet[u] = NoWallet
        /\ HandlerDone(i)
  /\ UNCHANGED <<users, businesses, requests, counts, userHistory, otherHistory>>

(* The wallet is credited before the row is written.  Mutant: none is. *)
Credit_NoRow(i) ==
  LET u == bonus[i].to IN
  /\ bonus[i].step = "credit"
  /\ wallet[u] \in Nat /\ wallet' = [wallet EXCEPT ![u] = @ + 1]
  /\ HandlerDone(i)
  /\ UNCHANGED <<user, made, booked, businesses, requests, counts, userHistory,
                 otherHistory>>
Credit(i) ==
  LET u == bonus[i].to IN
  /\ bonus[i].step = "credit"
  /\ \/ wallet[u] \in Nat /\ wallet' = [wallet EXCEPT ![u] = @ + 1]
                          /\ bonus' = [bonus EXCEPT ![i].step = "book"]
     \/ wallet[u] = NoWallet /\ HandlerDone(i) /\ UNCHANGED wallet
  /\ UNCHANGED <<user, made, booked, businesses, requests, counts, userHistory,
                 otherHistory>>

(* Handlers whose reference may be of the same millisecond as that of i. *)
Beside(i) == {j \in Ids \ {i} : bonus[j].step = "book"}

(* Mutant: the event is handled again. *)
Book_Again(i) ==
  LET u == bonus[i].to IN
  /\ bonus[i].step = "book" /\ u \in Live /\ booked[u] < 3
  /\ booked' = [booked EXCEPT ![u] = @ + 1]
  /\ bonus' = [bonus EXCEPT ![i].step = "credit"]
  /\ UNCHANGED <<user, made, wallet, businesses, requests, counts, userHistory,
                 otherHistory>>
Book(i) ==
  LET u == bonus[i].to IN
  /\ bonus[i].step = "book" /\ u \in Live
  /\ booked' = [booked EXCEPT ![u] = @ + 1]
  /\ bonus' = [j \in Ids |-> CASE j = i         -> [bonus[i] EXCEPT !.step = "done"]
                               [] j \in Beside(i) -> [bonus[j] EXCEPT !.near = TRUE]
                               [] OTHER         -> bonus[j]]
  /\ UNCHANGED <<user, made, wallet, businesses, requests, counts, userHistory,
                 otherHistory>>

(* The row is not written: its reference is taken, the referrer is gone or   *)
(* the query fails.  The error is caught and the credit stays.               *)
BookFails(i) ==
  /\ bonus[i].step = "book"
  /\ \/ (bonus[i].near \/ bonus[i].to \notin Live) /\ UNCHANGED faults
     \/ Fault
  /\ HandlerDone(i)
  /\ unbooked' = unbooked \cup {bonus[i].to}
  /\ UNCHANGED <<users, businesses, requests, edits, told, byAgent, cut, odd,
                 held, otherHistory>>

(* A query before the credit fails: no bonus is paid. *)
BonusFails(i) ==
  /\ bonus[i].step \in {"find", "credit"}
  /\ Fault /\ HandlerDone(i)
  /\ UNCHANGED <<users, businesses, requests, edits, userHistory, otherHistory>>
-------------------------------------------------------------------------------
(* What admins and users do to rows in one query each. *)

(* registerStaff: no wallet, and a username of the admin's choice. *)
RegisterStaff(p, n) ==
  /\ "staff" \in Kinds
  /\ p \notin Signed /\ n \notin UsedNames
  /\ NewUser(p, n, FALSE) /\ Unseen(n, Requests)
  /\ odd' = odd \cup {n}
  /\ byAgent' = byAgent \cup {made'} /\ cut' = cut \cup {made'}
  /\ UNCHANGED <<wallet, booked, businesses, pc, job, name, row, bonus, counts, told, unbooked,
                 otherHistory>>

(* updateStaffRoles replaces the roles of any user. *)
UpdateRoles(i, isOwner) ==
  /\ "roles" \in Kinds
  /\ i \in Live /\ Edit
  /\ user' = [user EXCEPT ![i].owner = isOwner]
  /\ UNCHANGED <<made, wallet, booked, businesses, requests, bonus, faults,
                 userHistory, otherHistory>>

(* updateUser with a username; a taken one is refused. *)
Rename(i, n) ==
  /\ "rename" \in Kinds
  /\ i \in Live /\ n \notin UsedNames /\ Edit
  /\ user' = [user EXCEPT ![i].name = n]
  /\ odd' = odd \cup {n, user[i].name}
  /\ held' = [held EXCEPT ![i] = @ \cup {n}]
  /\ Unseen(n, Requests)
  /\ UNCHANGED <<made, wallet, booked, businesses, pc, job, name, row, bonus, faults, told,
                 byAgent, cut, unbooked, otherHistory>>

(* deleteUser: the wallet and the rows about the user go with it, the        *)
(* business stays.                                                           *)
DeleteUser(i) ==
  /\ "delete" \in Kinds
  /\ i \in Live /\ Edit
  /\ user' = [user EXCEPT ![i] = NoRow]
  /\ wallet' = [wallet EXCEPT ![i] = NoWallet]
  /\ booked' = [booked EXCEPT ![i] = 0]
  /\ odd' = odd \cup {user[i].name}
  /\ UNCHANGED <<made, businesses, requests, bonus, faults, told, byAgent, cut,
                 held, unbooked, otherHistory>>
-------------------------------------------------------------------------------
(* registerBusiness; the guard has seen the role. *)

Busy(u) == {r \in Requests : pc[r] \in Registering /\ job[r].user = u}

Register(r, u, f) ==
  /\ pc[r] = "idle" /\ "register" \in Kinds
  /\ u \in Live /\ user[u].owner
  /\ job' = [job EXCEPT ![r] = [kind |-> "register", user |-> u, firm |-> f]]
  /\ Goto(r, "read")
  /\ doubled' = IF Busy(u) = {} THEN doubled ELSE doubled \cup {u}
  /\ UNCHANGED <<users, businesses, name, row, beside, bonus, counts, userHistory, founder,
                 stopped>>

(* "User not found", or "You have already registered a business".  Mutant:   *)
(* the second is not said.                                                   *)
ReadOwner_Unchecked(r) ==
  LET u == job[r].user IN
  /\ pc[r] = "read"
  /\ \/ u \notin Live /\ End(r)
     \/ /\ u \in Live
        /\ Goto(r, IF user[u].owner THEN "found" ELSE "role")
        /\ UNCHANGED <<job, name, row, beside>>
  /\ UNCHANGED <<users, businesses, bonus, counts, userHistory, otherHistory>>
ReadOwner(r) ==
  LET u == job[r].user IN
  /\ pc[r] = "read"
  /\ \/ (u \in Live => user[u].business # 0) /\ End(r)
     \/ /\ u \in Live /\ user[u].business = 0
        /\ Goto(r, IF user[u].owner THEN "found" ELSE "role")
        /\ UNCHANGED <<job, name, row, beside>>
  /\ UNCHANGED <<users, businesses, bonus, counts, userHistory, otherHistory>>

(* The role an admin has taken away meanwhile is given back. *)
PushRole(r) ==
  LET u == job[r].user IN
  /\ pc[r] = "role"
  /\ IF u \in Live
     THEN /\ user' = [user EXCEPT ![u].owner = TRUE]
          /\ Goto(r, "found") /\ UNCHANGED <<job, name, row, beside>>
     ELSE End(r) /\ UNCHANGED user
  /\ UNCHANGED <<made, wallet, booked, businesses, bonus, counts, userHistory,
                 otherHistory>>

(* businesses.create: the email and the phone number are unique.  Mutant: no *)
(* wallet is made.                                                           *)
Found_NoTill(r) ==
  LET b == founded + 1 IN
  /\ pc[r] = "found"
  /\ IF \E c \in BusinessIds : firm[c] = job[r].firm
     THEN End(r) /\ UNCHANGED <<firm, founded, founder>>
     ELSE /\ founded < MaxFounded /\ founded' = b
          /\ firm' = [firm EXCEPT ![b] = job[r].firm]
          /\ founder' = [founder EXCEPT ![b] = job[r].user]
          /\ row' = [row EXCEPT ![r] = b]
          /\ Goto(r, "link") /\ UNCHANGED <<job, name, beside>>
  /\ UNCHANGED <<users, till, bonus, counts, userHistory, doubled, stopped>>
Found(r) ==
  LET b == founded + 1 IN
  /\ pc[r] = "found"
  /\ IF \E c \in BusinessIds : firm[c] = job[r].firm
     THEN End(r) /\ UNCHANGED <<firm, founded, founder>>
     ELSE /\ founded < MaxFounded /\ founded' = b
          /\ firm' = [firm EXCEPT ![b] = job[r].firm]
          /\ founder' = [founder EXCEPT ![b] = job[r].user]
          /\ row' = [row EXCEPT ![r] = b]
          /\ Goto(r, "till") /\ UNCHANGED <<job, name, beside>>
  /\ UNCHANGED <<users, till, bonus, counts, userHistory, doubled, stopped>>

MakeTill(r) ==
  /\ pc[r] = "till"
  /\ till' = till \cup {row[r]}
  /\ Goto(r, "link")
  /\ UNCHANGED <<users, firm, founded, job, name, row, beside, bonus, counts, userHistory,
                 otherHistory>>

(* After the code is asked for, the owner's row is written; a user deleted   *)
(* meanwhile cannot be.                                                      *)
Link(r) ==
  LET u == job[r].user IN
  /\ pc[r] = "link"
  /\ user' = IF u \in Live THEN [user EXCEPT ![u].business = row[r]] ELSE user
  /\ End(r)
  /\ UNCHANGED <<made, wallet, booked, businesses, bonus, counts, userHistory,
                 otherHistory>>

(* A query fails; what the earlier ones wrote stays. *)
RegisterFails(r) ==
  /\ pc[r] \in Registering
  /\ Fault /\ End(r)
  /\ stopped' = IF pc[r] \in {"till", "link"} THEN stopped \cup {row[r]} ELSE stopped
  /\ UNCHANGED <<users, businesses, bonus, edits, userHistory, founder, doubled>>
-------------------------------------------------------------------------------
(* The server stops: what requests and handlers had in memory is gone. *)
Crash ==
  /\ Fault
  /\ pc' = [r \in Requests |-> "idle"] /\ job' = [r \in Requests |-> NoJob]
  /\ name' = [r \in Requests |-> NoName] /\ row' = [r \in Requests |-> 0]
  /\ beside' = [r \in Requests |-> {}]
  /\ bonus' = [i \in Ids |-> IF bonus[i].step = "none" THEN bonus[i]
                             ELSE [bonus[i] EXCEPT !.step = "done"]]
  /\ cut' = cut \cup {row[r] : r \in {q \in Requests : pc[q] \in {"wallet", "finish"}}}
  /\ unbooked' = unbooked \cup {bonus[i].to : i \in {k \in Ids : bonus[k].step = "book"}}
  /\ stopped' = stopped \cup {row[r] : r \in {q \in Requests : pc[q] \in {"till", "link"}}}
  /\ UNCHANGED <<users, businesses, edits, told, byAgent, odd, held, founder,
                 doubled>>

Next ==
  \/ \E r \in Requests :
       \/ \E j \in Sent : SignUp(r, j)
       \/ \E u \in Ids, f \in Firms : Register(r, u, f)
       \/ ChooseName(r) \/ Create(r) \/ Taken(r) \/ SignUpFails(r)
       \/ MakeWallet(r) \/ NoWalletMade(r) \/ Finish(r)
       \/ ReadOwner(r) \/ PushRole(r) \/ Found(r) \/ MakeTill(r) \/ Link(r) \/ RegisterFails(r)
  \/ \E i \in Ids : FindReferrer(i) \/ Credit(i) \/ Book(i) \/ BookFails(i) \/ BonusFails(i)
  \/ \E p \in People, n \in Given : RegisterStaff(p, n)
  \/ \E i \in Ids : \/ \E isOwner \in BOOLEAN : UpdateRoles(i, isOwner)
                    \/ \E n \in Given : Rename(i, n)
                    \/ DeleteUser(i)
  \/ Crash

Spec == Init /\ [][Next]_vars

-------------------------------------------------------------------------------
(* A username that follows no rule of the generator for f: somebody chose or *)
(* gave it up, or it is of a longer first name.                              *)
Irregular(f) == \E n \in odd \cup UsedNames : /\ <<n.base, f>> \in StartsWith
                                              /\ n \in odd \/ n.base # f

(* Whoever leaves the choice of a username to generateUsername is not told   *)
(* that it is taken, unless somebody created it between the look at the      *)
(* newest namesake and the creation, or a username beginning with the first  *)
(* name was chosen by hand, given up, or is of a longer first name.          *)
TakenNameHasCause ==
  \A r \in Requests :
    (pc[r] = "create" /\ job[r].given = NoName /\ name[r] \in UsedNames)
      => name[r] \in beside[r] \/ Irregular(name[r].base)

(* A row whose sign-up is over has a wallet and was welcomed, unless a query *)
(* failed, the server stopped or an agent or an admin made it.  Sign-up has  *)
(* no transaction, so this is all that keeps a person from being told of an  *)
(* error and then that the email is taken; an agent is always told so.       *)
HalfMadeHasCause ==
  \A i \in Live :
    \/ \E r \in Requests : pc[r] \in {"wallet", "finish"} /\ row[r] = i
    \/ /\ wallet[i] = NoWallet => i \in cut
       /\ told[i] # "welcome" => i \in byAgent \cup cut
       /\ i \in byAgent => told[i] # "welcome"

(* The handlers that have credited i and have the row still to write.        *)
Booking(i) == {h \in Ids : bonus[h].step = "book" /\ bonus[h].to = i}

(* The referral bonuses a wallet was credited with are written as rows of    *)
(* the referrer or about to be, unless one of them could not be written:     *)
(* handleReferralCodeValidatedEvent credits first and writes the row later.  *)
BonusesAreBooked ==
  \A i \in Ids : wallet[i] \in Nat =>
    LET due == booked[i] + Cardinality(Booking(i))
    IN wallet[i] >= due /\ (i \notin unbooked => wallet[i] = due)

(* A wallet gets no more referral bonuses than other users have signed up    *)
(* with a username its owner has had as their referral code, however         *)
(* sign-ups are repeated, names pass from one user to another and handlers   *)
(* run late.                                                                 *)
BonusIsEarned ==
  \A i \in Ids : wallet[i] \in Nat =>
    wallet[i] <= Cardinality({h \in Ids \ {i} : bonus[h].code \in held[i]})

(* The business a user is linked to is the one they registered and has a     *)
(* wallet: every collection and withdrawal reads business.wallets[0].        *)
OwnersAreWhole ==
  \A i \in Live : LET b == user[i].business IN
    b # 0 => firm[b] # NoRow /\ founder[b] = i /\ b \in till

(* A business that is linked to nobody once its registration is over lost a  *)
(* query to a failure or a stop, or its owner, or the owner registered twice *)
(* at once: its email is taken for good and its owner is told so.            *)
OrphanHasCause ==
  \A b \in 1..founded :
    \/ \E i \in Live : user[i].business = b
    \/ \E r \in Requests : pc[r] \in {"till", "link"} /\ row[r] = b
    \/ b \in stopped \/ founder[b] \in doubled \/ founder[b] \notin Live

(* Why: ids are not used twice, ...                                          *)
IdsStand ==
  /\ \A i \in Ids : i > made => user[i] = NoRow /\ told[i] = "none"
  /\ byAgent \subseteq 1..made
  /\ \A r \in Requests : pc[r] \in Registering => job[r].user \in 1..made
  /\ \A b \in BusinessIds : b \in 1..founded <=> firm[b] # NoRow
  /\ \A b \in 1..founded : founder[b] \in 1..made
(* ... a sign-up under way knows whose it is and what it has left undone, ... *)
SignUpsStand ==
  /\ \A i \in byAgent : told[i] # "welcome"
  /\ \A r \in Requests :
       /\ pc[r] \in {"wallet", "finish"} => (row[r] \in byAgent <=> job[r].agent)
       /\ pc[r] = "finish" /\ row[r] \in Live /\ wallet[row[r]] = NoWallet => row[r] \in cut
(* ... and so does a registration: alone, it writes over no other.           *)
RegistrationsStand ==
  \A r \in Requests : LET u == job[r].user IN
    /\ pc[r] \in {"till", "link"} => founder[row[r]] = u
    /\ pc[r] = "link" => row[r] \in till
    /\ pc[r] \in Registering /\ u \notin doubled => Busy(u) = {r}
    /\ pc[r] \in Registering \ {"read"} /\ u \in Live \ doubled => user[u].business = 0
(* ... while nothing odd has happened to a first name, its usernames are     *)
(* numbered from 0 without a gap, in the order they were created, ...        *)
Generated(r) == pc[r] = "create" /\ job[r].given = NoName
UsedBefore(n) == \A k \in 0..(n.n - 1) : [base |-> n.base, n |-> k] \in UsedNames
NamesStand ==
  /\ \A r \in Requests :
       /\ pc[r] = "name" => job[r].given = NoName
       /\ pc[r] = "create" /\ job[r].given # NoName => name[r] = job[r].given
       /\ Generated(r) /\ ~Irregular(name[r].base) => UsedBefore(name[r])
  /\ \A i \in Live : ~Irregular(user[i].name.base) =>
       /\ UsedBefore(user[i].name)
       /\ \A j \in Live : j < i /\ user[j].name.base = user[i].name.base
                           => user[j].name.n < user[i].name.n
(* ... a referral event is handled once, and what is not yet paid or booked  *)
(* is for a user with a wallet, who had the code as a username.              *)
HasRow(r) == pc[r] \in {"wallet", "finish"}
Paid(i) == {h \in Ids \ {i} : bonus[h].code \in held[i] /\ bonus[h].step \in {"book", "done"}}
RowsStand ==
  /\ \A r \in Requests : HasRow(r) =>
       /\ bonus[row[r]].step = "none"
       /\ \A q \in Requests \ {r} : HasRow(q) => row[q] # row[r]
       /\ pc[r] = "wallet" => wallet[row[r]] = NoWallet
  /\ \A i \in Ids : i > made => bonus[i].step = "none" /\ booked[i] = 0
  /\ \A i \in Live : user[i].name \in held[i]
  /\ \A i \in Ids \ Live : wallet[i] = NoWallet
HandlersStand ==
  /\ \A h \in Ids : LET i == bonus[h].to IN
       bonus[h].step \in {"credit", "book"} =>
         /\ i \in 1..made /\ i # h /\ bonus[h].code \in held[i]
         /\ i \in Live => wallet[i] # NoWallet
  /\ \A i \in Live : wallet[i] = NoWallet => booked[i] = 0
BonusesStand == \A i \in Ids : wallet[i] \in Nat => wallet[i] <= Cardinality(Paid(i))
AccountsStand == /\ HalfMadeHasCause /\ OwnersAreWhole /\ OrphanHasCause
                 /\ IdsStand /\ SignUpsStand /\ RegistrationsStand
===============================================================================
