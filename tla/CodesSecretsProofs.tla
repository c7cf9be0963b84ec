--------------------------- MODULE CodesSecretsProofs --------------------------
(***************************************************************************)
(* Theorems about Codes, for every number of users, codes and requests,    *)
(* every set of endpoints and every lifetime, and about the Secrets that   *)
(* codes reset, for every number of them.                                  *)
(*                                                                         *)
(* A step either leaves the otp column alone, or issues, expires or takes  *)
(* a code.  Stale says what a write to the column may do to a request that *)
(* is still waiting; the lemmas about single actions establish it, and     *)
(* OthersStand carries the waiting requests over.                          *)
(***************************************************************************)
EXTENDS Codes, Secrets, TLAPS

CodesInv == TypeOK /\ CodesStand

(* What a step may do to the rows that request q has read. *)
Stale(q) ==
  \A u \in Users :
    \/ otp'[u] = otp[u]
    \/ otp'[u] \notin Entries
    \/ otp'[u].serial \in crossed' \/ ~Reading(q, u)

(* Histories and mails only grow. *)
Grows ==
  /\ \A s \in Serials : issued[s] \in Issues => issued'[s] = issued[s]
  /\ \A s \in Serials : used[s] > 0 => used'[s] > 0
  /\ raced \subseteq raced' /\ crossed \subseteq crossed' /\ twins \subseteq twins'

LEMMA EntryFields ==
  ASSUME NEW x \in Entries
  PROVE  x.serial \in Serials /\ x.code \in Codes /\ x.use \in Uses
  BY DEF Entries

LEMMA OthersStand ==
  ASSUME CodesInv, TypeOK', Grows, NEW q \in Requests, Stale(q),
         pc'[q] = pc[q], job'[q] = job[q], got'[q] = got[q]
  PROVE  ReadStands(q)' /\ FirstStands(q)' /\ RightRow(q)'
<1>1. TypeOK /\ ReadStands(q) /\ FirstStands(q) /\ RightRow(q)
  BY DEF CodesInv, CodesStand, ReadsStand, WrongRowNeedsTwins
<1>2. RightRow(q)'
  BY <1>1 DEF RightRow, Grows
<1>3. ASSUME pc[q] \in Checking
      PROVE  /\ job[q].typed \in Serials /\ issued[job[q].typed] \in Issues
             /\ issued'[job[q].typed] = issued[job[q].typed]
  BY <1>1, <1>3 DEF TypeOK, CheckJobs, ReadStands, Grows
<1>4. ASSUME pc[q] \in Taking \cup {"apply"}
      PROVE  /\ got[q].who \in Users /\ got[q].entry \in Entries
             /\ got[q].entry.serial \in Serials
             /\ issued[got[q].entry.serial] \in Issues
             /\ issued'[got[q].entry.serial] = issued[got[q].entry.serial]
  BY <1>1, <1>4, EntryFields DEF TypeOK, ReadStands, IsOf, Grows
<1>5. Taking \cup {"apply"} \subseteq Checking
  BY DEF Checking, Taking
<1>6. ReadStands(q)'
  <2>1. (pc[q] \in Checking => /\ issued[job[q].typed] \in Issues
                               /\ issued[job[q].typed].to = job[q].user
                               /\ job[q].target \in TargetsOf(job[q].kind))'
    BY <1>1, <1>3 DEF ReadStands
  <2>2. (pc[q] \in Taking \cup {"apply"} =>
           /\ IsOf(got[q].entry, got[q].who)
           /\ got[q].entry.use = UseOf(job[q].kind)
           /\ got[q].entry.code = Digits(q))'
    BY <1>1, <1>3, <1>4, <1>5 DEF ReadStands, IsOf, Digits
  <2>3. (pc[q] \in Taking =>
           LET w == got[q].who IN
           otp[w] \in Entries => otp[w].serial \in {got[q].entry.serial} \cup crossed)'
    <3>1. SUFFICES ASSUME pc[q] \in Taking, otp'[got[q].who] \in Entries
                   PROVE  otp'[got[q].who].serial \in {got[q].entry.serial} \cup crossed'
      OBVIOUS
    <3>2. Reading(q, got[q].who) /\ got[q].who \in Users
      BY <3>1, <1>4 DEF Reading
    <3>3. CASE otp'[got[q].who] = otp[got[q].who]
      BY <3>1, <3>2, <3>3, <1>1 DEF ReadStands, Grows
    <3>4. QED
      BY <3>1, <3>2, <3>3 DEF Stale
  <2>4. (pc[q] = "apply" => used[got[q].entry.serial] > 0)'
    BY <1>1, <1>4 DEF ReadStands, Grows
  <2>5. (/\ pc[q] \in Asking /\ job[q].use = "PHONE" => job[q].at = FirstPhone[job[q].user]
         /\ pc[q] \notin Checking => got[q] = Nothing)'
    BY <1>1 DEF ReadStands
  <2>6. QED
    BY <2>1, <2>2, <2>3, <2>4, <2>5 DEF ReadStands
<1>7. FirstStands(q)'
  <2>1. (pc[q] \in {"find", "apply"} \cup Taking /\ job[q].kind = "twoFactor"
           => got[q].first \in Users)'
    BY <1>1 DEF FirstStands
  <2>2. ASSUME pc[q] \in Checking, got[q].first \in Users, otp'[got[q].first] \in Entries,
               otp'[got[q].first].serial \notin crossed'
        PROVE  /\ otp'[got[q].first].code = issued'[job[q].typed].code
               /\ pc[q] = "apply" => got[q].first # got[q].who
    <3>1. Reading(q, got[q].first)
      BY <2>2 DEF Reading
    <3>2. otp'[got[q].first] = otp[got[q].first]
      BY <3>1, <2>2 DEF Stale
    <3>3. QED
      BY <3>2, <2>2, <1>1, <1>3 DEF FirstStands, Digits, Grows
  <2>3. (pc[q] \in Checking /\ got[q].first \in Users =>
           \E s \in Serials : /\ issued[s] \in Issues /\ issued[s].to = got[q].first
                              /\ issued[s].code = Digits(q))'
    BY <1>1, <1>3 DEF FirstStands, Digits, Grows
  <2>4. QED
    BY <2>1, <2>2, <2>3 DEF FirstStands, Digits
<1>8. QED
  BY <1>2, <1>6, <1>7

(* A request that is answered waits for nothing. *)
LEMMA IdleStands ==
  ASSUME NEW q \in Requests, pc'[q] \in {"idle"}, got'[q] = Nothing
  PROVE  ReadStands(q)' /\ FirstStands(q)' /\ RightRow(q)'
<1>1. pc'[q] \notin Checking /\ pc'[q] \notin Asking /\ pc'[q] \notin Taking \cup {"apply"}
  BY DEF Checking, Asking, Taking
<1>2. QED
  BY <1>1 DEF ReadStands, FirstStands, RightRow, Taking

(* The books are as before when no column and no history changes but flags   *)
(* that are taken back.                                                      *)
LEMMA BooksStand ==
  ASSUME CodesInv, flags' \subseteq flags,
         UNCHANGED <<otp, secret, issued, count, fate, used, raced, crossed, twins>>
  PROVE  (/\ UsedTwiceNeedsRace /\ WipedNeedsCause /\ FlagsWereEarned
          /\ IssuesStand /\ RowsStand)'
<1>1. (UsedTwiceNeedsRace /\ WipedNeedsCause)'
  BY DEF CodesInv, CodesStand, UsedTwiceNeedsRace, WipedNeedsCause
<1>2. FlagsWereEarned'
  <2>1. ASSUME NEW u \in Users
        PROVE  Deserved(u)'
    <3>1. Deserved(u)
      BY DEF CodesInv, CodesStand, FlagsWereEarned
    <3>2. QED
      BY <3>1 DEF Deserved, Earned
  <2>2. QED
    BY <2>1 DEF FlagsWereEarned
<1>3. (IssuesStand /\ RowsStand)'
  BY DEF CodesInv, CodesStand, IssuesStand, RowsStand, IsOf
<1>4. QED
  BY <1>1, <1>2, <1>3

(* The queue of requests that are about to accept a code does not grow. *)
LEMMA TakersStand ==
  ASSUME CodesInv, UNCHANGED <<used, raced>>,
         \A q \in Requests : pc'[q] = "clear" => pc[q] = "clear" /\ got'[q] = got[q]
  PROVE  TakesStand'
  BY DEF CodesInv, CodesStand, TakesStand

LEMMA Assembled ==
  ASSUME TypeOK', TakesStand',
         (/\ UsedTwiceNeedsRace /\ WipedNeedsCause /\ FlagsWereEarned
          /\ IssuesStand /\ RowsStand)',
         \A q \in Requests : ReadStands(q)' /\ FirstStands(q)' /\ RightRow(q)'
  PROVE  CodesInv'
  BY DEF CodesInv, CodesStand, ReadsStand, WrongRowNeedsTwins

(* A request that ends, or goes on to another place where it waits for       *)
(* nothing, disturbs nobody.                                                 *)
LEMMA QuietKeeps ==
  ASSUME CodesInv, TypeOK', NEW r \in Requests,
         flags' \subseteq flags, UNCHANGED <<otp, secret, mail, history>>,
         \A q \in Requests \ {r} : pc'[q] = pc[q] /\ job'[q] = job[q] /\ got'[q] = got[q],
         pc'[r] # "clear",
         ReadStands(r)' /\ FirstStands(r)' /\ RightRow(r)'
  PROVE  CodesInv'
<1>1. Grows
  BY DEF mail, history, Grows
<1>2. ASSUME NEW q \in Requests
      PROVE  ReadStands(q)' /\ FirstStands(q)' /\ RightRow(q)'
  <2>1. CASE q = r
    BY <2>1
  <2>2. CASE q # r
    <3>1. Stale(q)
      BY DEF Stale
    <3>2. QED
      BY <1>1, <2>2, <3>1, OthersStand
  <2>3. QED
    BY <2>1, <2>2
<1>3. TakesStand'
  <2>1. \A q \in Requests : pc'[q] = "clear" => pc[q] = "clear" /\ got'[q] = got[q]
    OBVIOUS
  <2>2. QED
    BY <2>1, TakersStand DEF history
<1>4. QED
  BY <1>2, <1>3, BooksStand, Assembled DEF mail, history

LEMMA EndType ==
  ASSUME TypeOK, NEW r \in Requests, End(r)
  PROVE  /\ pc' \in [Requests -> {"idle"} \cup Asking \cup Checking]
         /\ job' \in [Requests -> Jobs \cup {NoJob}]
         /\ \A q \in Requests : /\ pc'[q] \in Asking => job'[q] \in AskJobs
                                /\ pc'[q] \in Checking => job'[q] \in CheckJobs
         /\ got' \in [Requests -> Reads]
         /\ \A q \in Requests : pc'[q] \in Taking \cup {"apply"} =>
              got'[q].who \in Users /\ got'[q].entry \in Entries
         /\ pc'[r] = "idle" /\ got'[r] = Nothing
         /\ \A q \in Requests \ {r} : pc'[q] = pc[q] /\ job'[q] = job[q] /\ got'[q] = got[q]
<1>1. Nothing \in Reads
  BY DEF Nothing, Reads
<1>2. "idle" \notin Asking /\ "idle" \notin Checking /\ "idle" \notin Taking \cup {"apply"}
  BY DEF Asking, Checking, Taking
<1>3. QED
  BY <1>1, <1>2 DEF TypeOK, End, Goto

(* A request is answered and nothing else changes but emails and flags.      *)
LEMMA EndKeeps ==
  ASSUME CodesInv, NEW r \in Requests, End(r), flags' \subseteq flags,
         email' \in [Users -> Addresses], businessEmail' \in [Owners -> Addresses],
         now' \in Nat, faults' \in Nat, UNCHANGED <<otp, secret, mail, history>>
  PROVE  CodesInv'
<1>1. TypeOK /\ pc'[r] = "idle" /\ got'[r] = Nothing
  BY EndType DEF CodesInv
<1>2. TypeOK'
  BY <1>1, EndType DEF TypeOK, mail, history
<1>3. ReadStands(r)' /\ FirstStands(r)' /\ RightRow(r)'
  BY <1>1, IdleStands
<1>4. QED
  BY <1>1, <1>2, <1>3, EndType, QuietKeeps

LEMMA MailFits ==
  ASSUME TypeOK, NEW k \in Asks, NEW u \in Users, NEW m \in Mail(k, u)
  PROVE  /\ m.use \in Uses /\ m.about \in Addresses /\ m.at \in Addresses
         /\ m.use = "PHONE" => m.at = FirstPhone[u]
<1>1. /\ email[u] \in Addresses /\ FirstPhone[u] \in Addresses
      /\ u \in Owners => businessEmail[u] \in Addresses
      /\ Emails \subseteq Addresses /\ Phones \subseteq Addresses
  BY CodesAssumption DEF TypeOK, Addresses
<1>2. QED
  BY <1>1 DEF Mail, Asks, Uses

LEMMA AskKeeps ==
  ASSUME CodesInv, NEW r \in Requests, NEW k \in Asks, NEW u \in Users, Ask(r, k, u)
  PROVE  CodesInv'
<1>1. PICK m \in Mail(k, u) :
        job' = [job EXCEPT ![r] = [kind |-> k, user |-> u, use |-> m.use,
                                   about |-> m.about, at |-> m.at]]
  BY DEF Ask
<1>2. /\ pc[r] = "idle" /\ pc' \in {[pc EXCEPT ![r] = "update"], [pc EXCEPT ![r] = "issue"]}
      /\ UNCHANGED <<otp, email, businessEmail, flags, secret, got, issued, count, now,
                     faults, fate, used, raced, crossed, twins>>
  BY DEF Ask, Goto, columns, mail, history
<1>3. TypeOK
  BY DEF CodesInv
<1>4. /\ job'[r] \in AskJobs
      /\ job'[r].use = "PHONE" => job'[r].at = FirstPhone[job'[r].user]
  BY <1>1, <1>3, MailFits DEF AskJobs, TypeOK
<1>5. /\ pc'[r] \in Asking /\ pc'[r] \notin Checking /\ pc'[r] # "clear"
      /\ pc'[r] \notin Taking \cup {"apply"} /\ got'[r] = Nothing
  <2>1. got[r] = Nothing
    BY <1>2 DEF CodesInv, CodesStand, ReadsStand, ReadStands, Checking, Taking
  <2>2. QED
    BY <1>2, <1>3, <2>1 DEF TypeOK, Asking, Checking, Taking
<1>6. TypeOK'
  <2>1. pc' \in [Requests -> {"idle"} \cup Asking \cup Checking]
    BY <1>2, <1>3 DEF TypeOK, Asking
  <2>2. job' \in [Requests -> Jobs \cup {NoJob}]
    BY <1>1, <1>3, <1>4 DEF TypeOK, Jobs
  <2>3. \A q \in Requests \ {r} : pc'[q] = pc[q] /\ job'[q] = job[q]
    BY <1>1, <1>2, <1>3 DEF TypeOK
  <2>4. QED
    BY <1>2, <1>3, <1>4, <1>5, <2>1, <2>2, <2>3 DEF TypeOK
<1>7. ReadStands(r)' /\ FirstStands(r)' /\ RightRow(r)'
  BY <1>4, <1>5 DEF ReadStands, FirstStands, RightRow, Checking
<1>8. \A q \in Requests \ {r} : pc'[q] = pc[q] /\ job'[q] = job[q] /\ got'[q] = got[q]
  BY <1>1, <1>2, <1>3 DEF TypeOK
<1>9. QED
  BY <1>2, <1>5, <1>6, <1>7, <1>8, QuietKeeps DEF mail, history

LEMMA UpdateEmailKeeps ==
  ASSUME CodesInv, NEW r \in Requests, UpdateEmail(r)
  PROVE  CodesInv'
<1>1. /\ pc[r] = "update" /\ pc' = [pc EXCEPT ![r] = "issue"]
      /\ email' = [email EXCEPT ![job[r].user] = job[r].at] /\ flags' \subseteq flags
      /\ UNCHANGED <<otp, businessEmail, secret, job, got, issued, count, now,
                     faults, fate, used, raced, crossed, twins>>
  BY DEF UpdateEmail, Goto, mail, history
<1>2. /\ TypeOK /\ ReadStands(r)
      /\ job[r] \in AskJobs /\ job[r].at \in Addresses
  BY <1>1 DEF CodesInv, CodesStand, ReadsStand, TypeOK, Asking, AskJobs
<1>3. /\ pc[r] \in Asking /\ pc'[r] = "issue" /\ pc'[r] \in Asking
      /\ pc'[r] \notin Checking /\ pc[r] \notin Checking /\ pc'[r] \notin Taking \cup {"apply"}
  BY <1>1, <1>2 DEF TypeOK, Asking, Checking, Taking
<1>4. TypeOK'
  <2>1. pc' \in [Requests -> {"idle"} \cup Asking \cup Checking]
    BY <1>1, <1>2 DEF TypeOK, Asking
  <2>2. email' \in [Users -> Addresses]
    BY <1>1, <1>2 DEF TypeOK
  <2>3. \A q \in Requests \ {r} : pc'[q] = pc[q]
    BY <1>1, <1>2 DEF TypeOK
  <2>4. QED
    BY <1>1, <1>2, <1>3, <2>1, <2>2, <2>3 DEF TypeOK
<1>5. ReadStands(r)' /\ FirstStands(r)' /\ RightRow(r)'
  BY <1>1, <1>2, <1>3 DEF ReadStands, FirstStands, RightRow, Checking
<1>6. \A q \in Requests \ {r} : pc'[q] = pc[q] /\ job'[q] = job[q] /\ got'[q] = got[q]
  BY <1>1, <1>2 DEF TypeOK
<1>7. QED
  BY <1>1, <1>3, <1>4, <1>5, <1>6, QuietKeeps DEF mail, history

LEMMA UpdateBusinessKeeps ==
  ASSUME CodesInv, NEW r \in Requests, UpdateBusiness(r)
  PROVE  CodesInv'
<1>1. /\ pc[r] = "finish" /\ flags' \subseteq flags
      /\ businessEmail' = [businessEmail EXCEPT ![job[r].user] = job[r].at]
      /\ UNCHANGED <<otp, secret, mail, history, email, now, faults>>
  BY DEF UpdateBusiness
<1>2. TypeOK /\ job[r].at \in Addresses
  BY <1>1 DEF CodesInv, TypeOK, Asking, AskJobs
<1>3. /\ businessEmail' \in [Owners -> Addresses] /\ email' \in [Users -> Addresses]
      /\ now' \in Nat /\ faults' \in Nat
  BY <1>1, <1>2 DEF TypeOK
<1>4. QED
  BY <1>1, <1>3, EndKeeps DEF UpdateBusiness

LEMMA RefuseKeeps ==
  ASSUME CodesInv, NEW r \in Requests, Refuse(r)
  PROVE  CodesInv'
<1>1. End(r) /\ UNCHANGED <<otp, email, businessEmail, flags, secret, mail, now, faults, history>>
  BY DEF Refuse, columns
<1>2. /\ businessEmail' \in [Owners -> Addresses] /\ email' \in [Users -> Addresses]
      /\ now' \in Nat /\ faults' \in Nat
  BY <1>1 DEF CodesInv, TypeOK
<1>3. QED
  BY <1>1, <1>2, EndKeeps

LEMMA FailKeeps ==
  ASSUME CodesInv, NEW r \in Requests, Fail(r)
  PROVE  CodesInv'
<1>1. End(r) /\ UNCHANGED <<otp, email, businessEmail, flags, secret, mail, now, history>>
  BY DEF Fail, columns
<1>2. /\ businessEmail' \in [Owners -> Addresses] /\ email' \in [Users -> Addresses]
      /\ now' \in Nat /\ faults' \in Nat
  BY <1>1, CodesAssumption DEF CodesInv, TypeOK, Fail, Fault
<1>3. QED
  BY <1>1, <1>2, EndKeeps

(* A request goes on to write its business's email. *)
LEMMA FinishType ==
  ASSUME TypeOK, NEW r \in Requests, pc[r] = "issue",
         Goto(r, "finish"), UNCHANGED <<job, got>>
  PROVE  /\ pc' \in [Requests -> {"idle"} \cup Asking \cup Checking]
         /\ \A q \in Requests : /\ pc'[q] \in Asking => job'[q] \in AskJobs
                                /\ pc'[q] \in Checking => job'[q] \in CheckJobs
         /\ \A q \in Requests : pc'[q] \in Taking \cup {"apply"} =>
              got'[q].who \in Users /\ got'[q].entry \in Entries
         /\ pc'[r] = "finish"
         /\ \A q \in Requests \ {r} : pc'[q] = pc[q] /\ job'[q] = job[q] /\ got'[q] = got[q]
<1>1. /\ "finish" \in Asking /\ "finish" \notin Checking
      /\ "finish" \notin Taking \cup {"apply"} /\ "issue" \in Asking
  BY DEF Asking, Checking, Taking
<1>2. QED
  BY <1>1 DEF TypeOK, Goto

LEMMA FinishStands ==
  ASSUME CodesInv, NEW r \in Requests, pc[r] = "issue", pc'[r] = "finish",
         UNCHANGED <<job, got>>
  PROVE  ReadStands(r)' /\ FirstStands(r)' /\ RightRow(r)'
<1>1. ReadStands(r)
  BY DEF CodesInv, CodesStand, ReadsStand
<1>2. /\ pc'[r] \notin Checking /\ pc[r] \notin Checking /\ pc[r] \in Asking
      /\ pc'[r] \notin Taking \cup {"apply"}
  BY DEF Asking, Checking, Taking
<1>3. QED
  BY <1>1, <1>2 DEF ReadStands, FirstStands, RightRow, Checking

LEMMA IssueFailsKeeps ==
  ASSUME CodesInv, NEW r \in Requests, IssueFails(r)
  PROVE  CodesInv'
<1>1. /\ pc[r] = "issue" /\ faults' \in Nat
      /\ UNCHANGED <<otp, email, businessEmail, flags, secret, mail, now, history>>
  BY CodesAssumption DEF IssueFails, Fault, columns, CodesInv, TypeOK
<1>2. CASE End(r)
  <2>1. /\ businessEmail' \in [Owners -> Addresses] /\ email' \in [Users -> Addresses]
        /\ now' \in Nat
    BY <1>1 DEF CodesInv, TypeOK
  <2>2. QED
    BY <1>1, <1>2, <2>1, EndKeeps
<1>3. CASE Goto(r, "finish") /\ UNCHANGED <<job, got>>
  <2>1. TypeOK'
    BY <1>1, <1>3, FinishType DEF CodesInv, TypeOK, mail, history
  <2>2. /\ pc'[r] = "finish"
        /\ \A q \in Requests \ {r} : pc'[q] = pc[q] /\ job'[q] = job[q] /\ got'[q] = got[q]
    BY <1>1, <1>3, FinishType DEF CodesInv
  <2>3. ReadStands(r)' /\ FirstStands(r)' /\ RightRow(r)'
    BY <1>1, <1>3, <2>2, FinishStands
  <2>4. QED
    BY <1>1, <2>1, <2>2, <2>3, QuietKeeps
<1>4. QED
  BY <1>2, <1>3 DEF IssueFails

LEMMA CheckKeeps ==
  ASSUME CodesInv, NEW r \in Requests, NEW k \in Checks, NEW u \in Users,
         NEW s \in Serials, NEW a \in Addresses \cup Stations \cup {NoTarget},
         Check(r, k, u, s, a)
  PROVE  CodesInv'
<1>1. /\ pc[r] = "idle" /\ pc' \in {[pc EXCEPT ![r] = "first"], [pc EXCEPT ![r] = "find"]}
      /\ issued[s] \in Issues /\ issued[s].to = u /\ a \in TargetsOf(k)
      /\ job' = [job EXCEPT ![r] = [kind |-> k, user |-> u, typed |-> s, target |-> a]]
      /\ k = "twoFactor" => pc' = [pc EXCEPT ![r] = "first"]
      /\ UNCHANGED <<otp, email, businessEmail, flags, secret, got, issued, count, now,
                     faults, fate, used, raced, crossed, twins>>
  BY DEF Check, Goto, columns, mail, history
<1>2. TypeOK /\ got[r] = Nothing
  BY <1>1 DEF CodesInv, CodesStand, ReadsStand, ReadStands, Checking, Taking
<1>3. job'[r] = [kind |-> k, user |-> u, typed |-> s, target |-> a] /\ job'[r] \in CheckJobs
  BY <1>1, <1>2 DEF TypeOK, CheckJobs
<1>4. /\ pc'[r] \in {"first", "find"} /\ pc'[r] \in Checking /\ pc'[r] \notin Asking
      /\ pc'[r] \notin Taking \cup {"apply"} /\ got'[r] = Nothing
      /\ k = "twoFactor" => pc'[r] = "first"
  BY <1>1, <1>2 DEF TypeOK, Asking, Checking, Taking
<1>5. \A q \in Requests \ {r} : pc'[q] = pc[q] /\ job'[q] = job[q] /\ got'[q] = got[q]
  BY <1>1, <1>2 DEF TypeOK
<1>6. TypeOK'
  <2>1. pc' \in [Requests -> {"idle"} \cup Asking \cup Checking]
    BY <1>1, <1>2 DEF TypeOK, Checking
  <2>2. job' \in [Requests -> Jobs \cup {NoJob}]
    BY <1>1, <1>2, <1>3 DEF TypeOK, Jobs
  <2>3. QED
    BY <1>1, <1>2, <1>3, <1>4, <1>5, <2>1, <2>2 DEF TypeOK
<1>7. ReadStands(r)' /\ FirstStands(r)' /\ RightRow(r)'
  <2>1. NoUser \notin Users
    BY CodesAssumption
  <2>2. QED
    BY <1>1, <1>3, <1>4, <2>1
       DEF ReadStands, FirstStands, RightRow, Nothing, Taking
<1>8. QED
  BY <1>1, <1>4, <1>5, <1>6, <1>7, QuietKeeps DEF mail, history

LEMMA FirstKeeps ==
  ASSUME CodesInv, NEW r \in Requests, First(r)
  PROVE  CodesInv'
<1>1. /\ pc[r] = "first"
      /\ UNCHANGED <<otp, email, businessEmail, flags, secret, mail, now, faults, history>>
  BY DEF First, columns
<1>2. TypeOK /\ ReadStands(r) /\ FirstStands(r)
  BY DEF CodesInv, CodesStand, ReadsStand
<1>3. CASE End(r)
  <2>1. /\ businessEmail' \in [Owners -> Addresses] /\ email' \in [Users -> Addresses]
        /\ now' \in Nat /\ faults' \in Nat
    BY <1>1, <1>2 DEF TypeOK
  <2>2. QED
    BY <1>1, <1>3, <2>1, EndKeeps
<1>4. ASSUME NEW u \in Holders(r), got' = [got EXCEPT ![r].first = u], Goto(r, "find"),
             UNCHANGED job
      PROVE  CodesInv'
  <2>1. /\ pc' = [pc EXCEPT ![r] = "find"] /\ pc'[r] = "find"
        /\ "find" \in Checking /\ "first" \in Checking /\ "find" \notin Asking
        /\ "find" \notin Taking \cup {"apply"}
    BY <1>2, <1>4 DEF Goto, TypeOK, Checking, Asking, Taking
  <2>2. /\ u \in Users /\ otp[u] \in Entries /\ otp[u].code = Digits(r)
    BY DEF Holders
  <2>3. got'[r] \in Reads /\ got'[r].first = u
    BY <1>2, <1>4, <2>2 DEF TypeOK, Reads
  <2>4. \A q \in Requests \ {r} : pc'[q] = pc[q] /\ job'[q] = job[q] /\ got'[q] = got[q]
    BY <1>2, <1>4, <2>1 DEF TypeOK
  <2>5. TypeOK'
    <3>1. pc' \in [Requests -> {"idle"} \cup Asking \cup Checking]
      BY <1>2, <2>1 DEF TypeOK
    <3>2. got' \in [Requests -> Reads]
      BY <1>2, <1>4, <2>3 DEF TypeOK
    <3>3. QED
      BY <1>1, <1>2, <1>4, <2>1, <2>4, <3>1, <3>2 DEF TypeOK, mail, history
  <2>6. /\ otp[u].serial \in Serials /\ issued[otp[u].serial] \in Issues
        /\ issued[otp[u].serial].to = u /\ issued[otp[u].serial].code = Digits(r)
    BY <2>2, EntryFields DEF CodesInv, CodesStand, RowsStand, IsOf
  <2>7. ReadStands(r)' /\ FirstStands(r)' /\ RightRow(r)'
    BY <1>1, <1>2, <1>4, <2>1, <2>2, <2>3, <2>6
       DEF ReadStands, FirstStands, RightRow, Digits, Taking, mail
  <2>8. QED
    BY <1>1, <2>1, <2>4, <2>5, <2>7, QuietKeeps
<1>5. QED
  BY <1>3, <1>4 DEF First

LEMMA EarnedGrows ==
  ASSUME Grows, NEW u \in Users, NEW use, NEW s \in Earned(u, use)
  PROVE  s \in Earned(u, use)' /\ issued'[s] = issued[s]
  BY DEF Earned, Grows

LEMMA DeservedGrows ==
  ASSUME Grows, NEW u \in Users, Deserved(u), flags' \subseteq flags, secret'[u] = secret[u]
  PROVE  Deserved(u)'
<1>1. (<<"phone", u>> \in flags => \E s \in Earned(u, "PHONE") : issued[s].at = FirstPhone[u])'
  BY EarnedGrows DEF Deserved
<1>2. (/\ <<"email", u>> \in flags => \E s \in Serials : s \in Earned(u, "EMAIL")
       /\ <<"business", u>> \in flags => \E s \in Serials : s \in Earned(u, "EMAIL"))'
  BY EarnedGrows DEF Deserved
<1>3. (<<"twoFactor", u>> \in flags =>
         \E w \in Users : \E s \in Earned(w, "TWO_FACTOR") : w = u \/ s \in twins)'
  BY EarnedGrows DEF Deserved, Grows
<1>4. (secret[u] # 0 => secret[u] \in Earned(u, "RESET"))'
  BY EarnedGrows DEF Deserved
<1>5. QED
  BY <1>1, <1>2, <1>3, <1>4 DEF Deserved

(* A row that is emptied deceives nobody who has read it.                    *)
LEMMA EmptiedStale ==
  ASSUME TypeOK, NEW w \in Users, NEW e, e \notin Entries, otp' = [otp EXCEPT ![w] = e],
         NEW q \in Requests
  PROVE  Stale(q)
  BY DEF TypeOK, Stale

LEMMA FindKeeps ==
  ASSUME CodesInv, NEW r \in Requests, Find(r)
  PROVE  CodesInv'
<1>1. /\ pc[r] = "find"
      /\ UNCHANGED <<otp, email, businessEmail, flags, secret, job, issued, count, now,
                     faults, fate, used, crossed, twins>>
  BY DEF Find, columns, mail
<1>2. TypeOK /\ ReadStands(r) /\ FirstStands(r) /\ IssuesStand /\ RowsStand /\ TakesStand
  BY DEF CodesInv, CodesStand, ReadsStand
<1>3. /\ "find" \in Checking /\ "refuse" \in Checking /\ Taking \subseteq Checking
      /\ "refuse" \notin Taking \cup {"apply"} /\ "find" \notin Taking \cup {"apply"}
      /\ Checking \cap Asking = {}
  BY DEF Checking, Taking, Asking
<1>4. job[r] \in CheckJobs /\ job[r].typed \in Serials /\ issued[job[r].typed] \in Issues
  BY <1>1, <1>2, <1>3 DEF TypeOK, CheckJobs, ReadStands
<1>5. CASE Goto(r, "refuse") /\ UNCHANGED <<got, raced>>
  <2>1. /\ pc' = [pc EXCEPT ![r] = "refuse"] /\ pc'[r] = "refuse"
        /\ pc' \in [Requests -> {"idle"} \cup Asking \cup Checking]
    BY <1>2, <1>3, <1>5 DEF Goto, TypeOK
  <2>2. \A q \in Requests \ {r} : pc'[q] = pc[q] /\ job'[q] = job[q] /\ got'[q] = got[q]
    BY <1>1, <1>2, <1>5, <2>1 DEF TypeOK
  <2>3. TypeOK'
    BY <1>1, <1>2, <1>3, <1>4, <1>5, <2>1, <2>2 DEF TypeOK
  <2>4. ReadStands(r)' /\ FirstStands(r)' /\ RightRow(r)'
    BY <1>1, <1>2, <1>3, <1>5, <2>1 DEF ReadStands, FirstStands, RightRow, Digits, Taking
  <2>5. QED
    BY <1>1, <1>5, <2>1, <2>2, <2>3, <2>4, QuietKeeps DEF mail, history
<1>6. ASSUME NEW w \in Holders(r),
             got' = [got EXCEPT ![r] = [who |-> w, entry |-> otp[w], first |-> @.first]],
             Goto(r, CASE ~Fits(otp[w], r)            -> "refuse"
                       [] Fits(otp[w], r) /\ now > otp[w].expires -> "expire"
                       [] OTHER                       -> "clear"),
             raced' = IF Fits(otp[w], r) /\ now <= otp[w].expires
                         /\ \E q \in Requests : /\ pc[q] = "clear"
                                                /\ got[q].entry.serial = otp[w].serial
                      THEN raced \cup {otp[w].serial} ELSE raced
      PROVE  CodesInv'
  <2>1. /\ w \in Users /\ otp[w] \in Entries /\ otp[w].code = Digits(r)
        /\ otp[w].serial \in Serials /\ otp[w].expires \in Nat /\ now \in Nat
        /\ IsOf(otp[w], w) /\ used[otp[w].serial] = 0
    BY <1>2 DEF Holders, Entries, TypeOK, RowsStand
  <2>2. /\ pc'[r] \in {"refuse", "expire", "clear"} /\ pc'[r] \in Checking
        /\ pc'[r] \in Taking => Fits(otp[w], r)
        /\ pc'[r] = "clear" => Fits(otp[w], r) /\ now <= otp[w].expires
        /\ \A q \in Requests \ {r} : pc'[q] = pc[q]
        /\ pc' \in [Requests -> {"idle"} \cup Asking \cup Checking]
    BY <1>2, <1>6, <2>1 DEF Goto, TypeOK, Taking, Checking
  <2>3. /\ got'[r].who = w /\ got'[r].entry = otp[w] /\ got'[r].first = got[r].first
        /\ got'[r] \in Reads /\ got' \in [Requests -> Reads]
        /\ \A q \in Requests \ {r} : got'[q] = got[q]
    <3>1. got \in [Requests -> Reads] /\ got[r] \in Reads
      BY <1>2 DEF TypeOK
    <3>3. got'[r] = [who |-> w, entry |-> otp[w], first |-> got[r].first]
      BY <1>6, <3>1
    <3>4. got'[r] \in Reads
      BY <2>1, <3>1, <3>3 DEF Reads
    <3>5. \A q \in Requests \ {r} : got'[q] = got[q]
      BY <1>6, <3>1
    <3>6. got' \in [Requests -> Reads]
      BY <1>6, <3>1, <3>4, <3>5
    <3>7. QED
      BY <3>3, <3>4, <3>5, <3>6
  <2>4. raced \subseteq raced' /\ raced' \subseteq Serials
    BY <1>2, <1>6, <2>1 DEF TypeOK
  <2>5. TypeOK'
    BY <1>1, <1>2, <1>3, <1>4, <2>1, <2>2, <2>3, <2>4 DEF TypeOK
  <2>6. Grows
    BY <1>1, <2>4 DEF Grows
  <2>7. ReadStands(r)'
    BY <1>1, <1>2, <1>3, <2>1, <2>2, <2>3 DEF ReadStands, IsOf, Digits, Fits, Taking
  <2>8. FirstStands(r)'
    BY <1>1, <1>2, <1>3, <2>2, <2>3 DEF FirstStands, Digits, Taking
  <2>9. RightRow(r)'
    <3>1. /\ issued[otp[w].serial] \in Issues /\ issued[otp[w].serial].to = w
          /\ issued[otp[w].serial].code = issued[job[r].typed].code
          /\ issued[job[r].typed].to = job[r].user
      BY <1>1, <1>2, <1>3, <2>1 DEF IsOf, Digits, ReadStands
    <3>2. w # job[r].user => job[r].typed \in twins
      BY <1>2, <1>4, <2>1, <3>1 DEF IssuesStand
    <3>3. QED
      BY <1>1, <2>3, <3>2 DEF RightRow
  <2>10. TakesStand'
    <3>1. SUFFICES ASSUME NEW p \in Requests, pc'[p] = "clear"
                   PROVE  LET s == got'[p].entry.serial IN
                          /\ used'[s] > 0 => s \in raced'
                          /\ \A q \in Requests \ {p} :
                               pc'[q] = "clear" /\ got'[q].entry.serial = s => s \in raced'
      BY DEF TakesStand
    <3>2. CASE p = r
      BY <1>1, <1>6, <2>1, <2>2, <2>3, <3>1, <3>2
    <3>3. CASE p # r
      BY <1>1, <1>2, <1>6, <2>1, <2>2, <2>3, <2>4, <3>1, <3>3 DEF TakesStand
    <3>4. QED
      BY <3>2, <3>3
  <2>11. ASSUME NEW q \in Requests
         PROVE  ReadStands(q)' /\ FirstStands(q)' /\ RightRow(q)'
    <3>1. CASE q = r
      BY <2>7, <2>8, <2>9, <3>1
    <3>2. CASE q # r
      <4>1. Stale(q) /\ pc'[q] = pc[q] /\ job'[q] = job[q] /\ got'[q] = got[q]
        BY <1>1, <2>2, <2>3, <3>2 DEF Stale
      <4>2. QED
        BY <4>1, <2>5, <2>6, OthersStand
    <3>3. QED
      BY <3>1, <3>2
  <2>12. (UsedTwiceNeedsRace /\ WipedNeedsCause)'
    BY <1>1, <2>4 DEF CodesInv, CodesStand, UsedTwiceNeedsRace, WipedNeedsCause
  <2>13. (FlagsWereEarned /\ IssuesStand /\ RowsStand)'
    BY <1>1, <2>6, DeservedGrows
       DEF CodesInv, CodesStand, FlagsWereEarned, IssuesStand, RowsStand, IsOf
  <2>14. QED
    BY <2>5, <2>10, <2>11, <2>12, <2>13, Assembled
<1>7. QED
  BY <1>5, <1>6 DEF Find

LEMMA ExpireKeeps ==
  ASSUME CodesInv, NEW r \in Requests, Expire(r)
  PROVE  CodesInv'
<1>1. /\ pc[r] = "expire" /\ End(r)
      /\ UNCHANGED <<email, businessEmail, flags, secret, mail, now, faults,
                     used, raced, crossed, twins>>
  BY DEF Expire
<1>2. TypeOK /\ ReadStands(r) /\ got[r].who \in Users
  BY <1>1 DEF CodesInv, CodesStand, ReadsStand, TypeOK, Taking
<1>3. /\ businessEmail' \in [Owners -> Addresses] /\ email' \in [Users -> Addresses]
      /\ now' \in Nat /\ faults' \in Nat
  BY <1>1, <1>2 DEF TypeOK
<1>4. CASE UNCHANGED <<otp, fate>>
  BY <1>1, <1>3, <1>4, EndKeeps DEF history
<1>5. ASSUME ~\E u \in Users \ {got[r].who} : otp[u] = Blank,
             otp' = [otp EXCEPT ![got[r].who] = Blank],
             fate' = FateAfter(r, got[r].who, "expired")
      PROVE  CodesInv'
  <2>1. Blank \notin Entries /\ Blank # NoRow
    BY CodesAssumption
  <2>2. TypeOK'
    <3>1. otp' \in [Users -> Entries \cup {Blank, NoRow}]
      BY <1>2, <1>5 DEF TypeOK
    <3>2. \A u, w \in Users : otp'[u] = Blank /\ otp'[w] = Blank => u = w
      BY <1>2, <1>5 DEF TypeOK
    <3>3. fate' \in [Serials -> Fates]
      BY <1>2, <1>5 DEF TypeOK, FateAfter, Fates
    <3>4. QED
      BY <1>1, <1>2, <3>1, <3>2, <3>3, EndType DEF TypeOK, mail
  <2>3. Grows
    BY <1>1 DEF Grows, mail
  <2>4. ASSUME NEW q \in Requests
        PROVE  ReadStands(q)' /\ FirstStands(q)' /\ RightRow(q)'
    <3>1. CASE q = r
      BY <1>1, <1>2, <3>1, EndType, IdleStands
    <3>2. CASE q # r
      <4>1. Stale(q)
        BY <1>2, <1>5, <2>1, EmptiedStale
      <4>2. pc'[q] = pc[q] /\ job'[q] = job[q] /\ got'[q] = got[q]
        BY <1>1, <1>2, <3>2, EndType
      <4>3. QED
        BY <4>1, <4>2, <2>2, <2>3, OthersStand
    <3>3. QED
      BY <3>1, <3>2
  <2>5. TakesStand'
    <3>1. \A q \in Requests : pc'[q] = "clear" => pc[q] = "clear" /\ got'[q] = got[q]
      BY <1>1, <1>2, EndType
    <3>2. QED
      BY <1>1, <3>1, TakersStand
  <2>6. WipedNeedsCause'
    <3>1. SUFFICES ASSUME NEW s \in Serials, fate'[s] = "wiped"
                   PROVE  s \in crossed' \cup twins'
      BY DEF WipedNeedsCause
    <3>2. CASE fate[s] = "wiped"
      BY <1>1, <3>2 DEF CodesInv, CodesStand, WipedNeedsCause
    <3>3. CASE got[r].who \in Holding(s) /\ got[r].entry.serial # s
      BY <1>1, <1>2, <3>3 DEF ReadStands, Holding, Taking
    <3>4. QED
      BY <1>5, <3>1, <3>2, <3>3 DEF FateAfter
  <2>7. (UsedTwiceNeedsRace /\ IssuesStand)'
    BY <1>1 DEF CodesInv, CodesStand, UsedTwiceNeedsRace, IssuesStand, mail
  <2>8. RowsStand'
    BY <1>1, <1>2, <1>5, <2>1 DEF CodesInv, CodesStand, RowsStand, IsOf, mail, TypeOK
  <2>9. FlagsWereEarned'
    BY <1>1, <2>3, DeservedGrows DEF CodesInv, CodesStand, FlagsWereEarned
  <2>10. QED
    BY <2>2, <2>4, <2>5, <2>6, <2>7, <2>8, <2>9, Assembled
<1>6. QED
  BY <1>4, <1>5 DEF Expire

LEMMA ClearKeeps ==
  ASSUME CodesInv, NEW r \in Requests, Clear(r)
  PROVE  CodesInv'
<1> DEFINE s == got[r].entry.serial
           w == got[r].who
<1>1. /\ pc[r] = "clear" /\ pc' = [pc EXCEPT ![r] = "apply"]
      /\ otp' = [otp EXCEPT ![w] = NoRow] /\ fate' = FateAfter(r, w, "used")
      /\ used' = [used EXCEPT ![s] = @ + 1]
      /\ UNCHANGED <<email, businessEmail, flags, secret, job, got, mail, now, faults,
                     raced, crossed, twins>>
  BY DEF Clear, Goto
<1>2. TypeOK /\ ReadStands(r) /\ FirstStands(r) /\ RightRow(r) /\ TakesStand
  BY DEF CodesInv, CodesStand, ReadsStand, WrongRowNeedsTwins
<1>3. /\ w \in Users /\ s \in Serials /\ IsOf(got[r].entry, w)
  BY <1>1, <1>2, EntryFields DEF TypeOK, ReadStands, Taking
<1>4. NoRow \notin Entries /\ Blank # NoRow
  BY CodesAssumption
<1>5. /\ pc'[r] = "apply" /\ "apply" \in Checking /\ "clear" \in Checking
      /\ "apply" \notin Taking /\ "apply" \notin Asking /\ "clear" \in Taking
      /\ \A q \in Requests \ {r} : pc'[q] = pc[q]
      /\ pc' \in [Requests -> {"idle"} \cup Asking \cup Checking]
  BY <1>1, <1>2 DEF TypeOK, Checking, Taking, Asking
<1>6. /\ used' \in [Serials -> Nat] /\ used'[s] = used[s] + 1 /\ used'[s] > 0
      /\ \A t \in Serials \ {s} : used'[t] = used[t]
  BY <1>1, <1>2, <1>3 DEF TypeOK
<1>7. TypeOK'
  <2>1. otp' \in [Users -> Entries \cup {Blank, NoRow}]
    BY <1>1, <1>2 DEF TypeOK
  <2>2. \A u, v \in Users : otp'[u] = Blank /\ otp'[v] = Blank => u = v
    BY <1>1, <1>2, <1>4 DEF TypeOK
  <2>3. fate' \in [Serials -> Fates]
    BY <1>1, <1>2 DEF TypeOK, FateAfter, Fates
  <2>4. \A q \in Requests : /\ pc'[q] \in Asking => job'[q] \in AskJobs
                            /\ pc'[q] \in Checking => job'[q] \in CheckJobs
    BY <1>1, <1>2, <1>5 DEF TypeOK
  <2>5. \A q \in Requests : pc'[q] \in Taking \cup {"apply"} =>
          got'[q].who \in Users /\ got'[q].entry \in Entries
    BY <1>1, <1>2, <1>5 DEF TypeOK
  <2>6. QED
    BY <1>1, <1>2, <1>5, <1>6, <2>1, <2>2, <2>3, <2>4, <2>5 DEF TypeOK, mail
<1>8. Grows
  BY <1>1, <1>2, <1>6 DEF Grows, mail, TypeOK
<1>9. ReadStands(r)' /\ FirstStands(r)' /\ RightRow(r)'
  <2>1. ReadStands(r)'
    BY <1>1, <1>2, <1>3, <1>5, <1>6 DEF ReadStands, IsOf, Digits, mail
  <2>2. RightRow(r)'
    BY <1>1, <1>2, <1>5 DEF RightRow
  <2>3. FirstStands(r)'
    <3>1. ASSUME got[r].first \in Users, otp'[got[r].first] \in Entries,
                 otp'[got[r].first].serial \notin crossed
          PROVE  otp'[got[r].first].code = Digits(r) /\ got[r].first # w
      <4>1. got[r].first # w /\ otp'[got[r].first] = otp[got[r].first]
        BY <1>1, <1>2, <1>3, <1>4, <3>1 DEF TypeOK
      <4>2. QED
        BY <1>1, <1>2, <1>5, <3>1, <4>1 DEF FirstStands
    <3>2. Digits(r)' = Digits(r)
      BY <1>1 DEF Digits, mail
    <3>3. QED
      BY <1>1, <1>2, <1>5, <3>1, <3>2 DEF FirstStands, mail
  <2>4. QED
    BY <2>1, <2>2, <2>3
<1>10. ASSUME NEW q \in Requests
       PROVE  ReadStands(q)' /\ FirstStands(q)' /\ RightRow(q)'
  <2>1. CASE q = r
    BY <1>9, <2>1
  <2>2. CASE q # r
    <3>1. Stale(q)
      BY <1>1, <1>2, <1>3, <1>4, EmptiedStale
    <3>2. QED
      BY <1>1, <1>5, <1>7, <1>8, <2>2, <3>1, OthersStand
  <2>3. QED
    BY <2>1, <2>2
<1>11. TakesStand'
  <2>1. SUFFICES ASSUME NEW p \in Requests, pc'[p] = "clear"
                 PROVE  LET t == got'[p].entry.serial IN
                        /\ used'[t] > 0 => t \in raced'
                        /\ \A q \in Requests \ {p} :
                             pc'[q] = "clear" /\ got'[q].entry.serial = t => t \in raced'
    BY DEF TakesStand
  <2>2. p # r /\ pc[p] = "clear" /\ got'[p] = got[p] /\ got[p].entry.serial \in Serials
    BY <1>1, <1>2, <1>5, <2>1, EntryFields DEF TypeOK, Taking
  <2>3. CASE got[p].entry.serial = s
    BY <1>1, <1>2, <1>5, <2>1, <2>2, <2>3 DEF TakesStand
  <2>4. CASE got[p].entry.serial # s
    BY <1>1, <1>2, <1>5, <1>6, <2>1, <2>2, <2>4 DEF TakesStand
  <2>5. QED
    BY <2>3, <2>4
<1>12. UsedTwiceNeedsRace'
  <2>1. SUFFICES ASSUME NEW t \in Serials, used'[t] > 1
                 PROVE  t \in raced
    BY <1>1 DEF UsedTwiceNeedsRace
  <2>2. CASE t = s
    <3>1. used[s] > 0
      BY <1>2, <1>3, <1>6, <2>1, <2>2 DEF TypeOK
    <3>2. QED
      BY <1>1, <1>2, <2>2, <3>1 DEF TakesStand
  <2>3. CASE t # s
    BY <1>6, <2>1, <2>3 DEF CodesInv, CodesStand, UsedTwiceNeedsRace
  <2>4. QED
    BY <2>2, <2>3
<1>13. WipedNeedsCause'
  <2>1. SUFFICES ASSUME NEW t \in Serials, fate'[t] = "wiped"
                 PROVE  t \in crossed' \cup twins'
    BY DEF WipedNeedsCause
  <2>2. CASE fate[t] = "wiped"
    BY <1>1, <2>2 DEF CodesInv, CodesStand, WipedNeedsCause
  <2>3. CASE w \in Holding(t) /\ s # t
    BY <1>1, <1>2, <2>3 DEF ReadStands, Holding, Taking
  <2>4. QED
    BY <1>1, <2>1, <2>2, <2>3 DEF FateAfter
<1>14. FlagsWereEarned'
  BY <1>1, <1>8, DeservedGrows DEF CodesInv, CodesStand, FlagsWereEarned
<1>15. IssuesStand'
  <2>1. IssuesStand /\ s <= count
    BY <1>3 DEF CodesInv, CodesStand, IssuesStand, IsOf
  <2>2. \A t \in Serials : t > count => used'[t] = 0
    <3>1. \A t \in Serials : t > count => t # s
      BY <1>2, <1>3, <2>1 DEF TypeOK, Serials
    <3>2. QED
      BY <1>6, <2>1, <3>1 DEF IssuesStand
  <2>3. QED
    BY <1>1, <2>1, <2>2 DEF IssuesStand, mail
<1>16. RowsStand'
  <2>1. SUFFICES ASSUME NEW u \in Users, otp'[u] \in Entries
                 PROVE  IsOf(otp'[u], u) /\ used'[otp'[u].serial] = 0
    BY <1>1 DEF RowsStand, IsOf, mail
  <2>2. u # w /\ otp'[u] = otp[u] /\ IsOf(otp[u], u) /\ used[otp[u].serial] = 0
    BY <1>1, <1>2, <1>3, <1>4, <2>1 DEF CodesInv, CodesStand, RowsStand, TypeOK
  <2>3. otp[u].serial # s /\ otp[u].serial \in Serials
    BY <1>3, <2>1, <2>2, EntryFields DEF IsOf
  <2>4. QED
    BY <1>6, <2>2, <2>3
<1>17. QED
  BY <1>7, <1>10, <1>11, <1>12, <1>13, <1>14, <1>15, <1>16, Assembled

(* Two rows with the digits of one code: both codes are twins. *)
LEMMA TwinsFound ==
  ASSUME IssuesStand, NEW s \in Serials, NEW t \in Serials,
         issued[s] \in Issues, issued[t] \in Issues,
         issued[s].code = issued[t].code, issued[s].to # issued[t].to
  PROVE  s \in twins /\ t \in twins
  BY DEF IssuesStand

(* The flag or the secret that an accepted code is for is its user's. *)
LEMMA ApplyDeserved ==
  ASSUME CodesInv, NEW r \in Requests, Apply(r), NEW u \in Users
  PROVE  Deserved(u)'
<1> DEFINE k == job[r].kind
           s == got[r].entry.serial
           w == got[r].who
<1>1. /\ pc[r] = "apply" /\ flags' = flags \cup Flag(r)
      /\ secret' = CASE k = "resetPin"     -> [secret EXCEPT ![w] = s]
                     [] k = "resetStation" -> [secret EXCEPT ![job[r].target] = s]
                     [] OTHER              -> secret
      /\ UNCHANGED <<mail, used, raced, crossed, twins>>
  BY DEF Apply
<1>2. TypeOK /\ ReadStands(r) /\ FirstStands(r) /\ IssuesStand /\ Deserved(u)
  BY DEF CodesInv, CodesStand, ReadsStand, FlagsWereEarned
<1>3. "apply" \in Checking /\ "apply" \in Taking \cup {"apply"}
  BY DEF Checking
<1>4. /\ w \in Users /\ s \in Serials /\ used[s] > 0
      /\ issued[s] \in Issues /\ issued[s].to = w /\ issued[s].use = UseOf(k)
      /\ issued[s].code = Digits(r)
  BY <1>1, <1>2, <1>3, EntryFields DEF TypeOK, ReadStands, IsOf
<1>5. Grows
  BY <1>1 DEF Grows, mail
<1>6. /\ issued' = issued
      /\ \A t \in Serials, v \in Users, use \in Uses :
           t = s /\ v = w /\ use = UseOf(k) => t \in Earned(v, use)'
  BY <1>1, <1>4 DEF Earned, mail
<1>7. (<<"phone", u>> \in flags => \E t \in Earned(u, "PHONE") : issued[t].at = FirstPhone[u])'
  <2>1. CASE <<"phone", u>> \in flags
    BY <1>2, <1>5, <2>1, EarnedGrows DEF Deserved
  <2>2. CASE <<"phone", u>> \in Flag(r)
    <3>1. k = "verifyPhone" /\ w = u
      BY <2>2 DEF Flag
    <3>2. UseOf(k) = "PHONE" /\ "PHONE" \in Uses /\ issued[s].at = FirstPhone[w]
      BY <1>2, <1>4, <3>1 DEF UseOf, Uses, IssuesStand
    <3>3. QED
      BY <1>4, <1>6, <3>1, <3>2
  <2>3. QED
    BY <1>1, <2>1, <2>2
<1>8. (<<"email", u>> \in flags => \E t \in Serials : t \in Earned(u, "EMAIL"))'
  <2>1. CASE <<"email", u>> \in flags
    BY <1>2, <1>5, <2>1, EarnedGrows DEF Deserved
  <2>2. CASE <<"email", u>> \in Flag(r)
    BY <1>4, <1>6, <2>2 DEF Flag, UseOf, Uses
  <2>3. QED
    BY <1>1, <2>1, <2>2
<1>9. (<<"business", u>> \in flags => \E t \in Serials : t \in Earned(u, "EMAIL"))'
  <2>1. CASE <<"business", u>> \in flags
    BY <1>2, <1>5, <2>1, EarnedGrows DEF Deserved
  <2>2. CASE <<"business", u>> \in Flag(r)
    BY <1>4, <1>6, <2>2 DEF Flag, UseOf, Uses
  <2>3. QED
    BY <1>1, <2>1, <2>2
<1>10. (<<"twoFactor", u>> \in flags =>
          \E v \in Users : \E t \in Earned(v, "TWO_FACTOR") : v = u \/ t \in twins)'
  <2>1. CASE <<"twoFactor", u>> \in flags
    BY <1>2, <1>5, <2>1, EarnedGrows DEF Deserved, Grows
  <2>2. CASE <<"twoFactor", u>> \in Flag(r)
    <3>1. k = "twoFactor" /\ got[r].first = u
      BY <2>2 DEF Flag
    <3>2. PICK t \in Serials : /\ issued[t] \in Issues /\ issued[t].to = u
                               /\ issued[t].code = Digits(r)
      BY <1>1, <1>2, <1>3, <3>1 DEF FirstStands
    <3>3. w = u \/ s \in twins
      BY <1>2, <1>4, <3>2, TwinsFound
    <3>4. UseOf(k) = "TWO_FACTOR" /\ "TWO_FACTOR" \in Uses
      BY <3>1 DEF UseOf, Uses
    <3>5. QED
      BY <1>1, <1>4, <1>6, <3>3, <3>4
  <2>3. QED
    BY <1>1, <2>1, <2>2
<1>11. (secret[u] # 0 => secret[u] \in Earned(u, "RESET"))'
  <2>1. CASE secret'[u] = secret[u]
    BY <1>2, <1>5, <2>1, EarnedGrows DEF Deserved
  <2>2. CASE k = "resetPin" /\ w = u
    <3>1. secret'[u] = s /\ UseOf(k) = "RESET" /\ "RESET" \in Uses
      BY <1>1, <1>2, <2>2 DEF TypeOK, UseOf, Uses
    <3>2. QED
      BY <1>4, <1>6, <2>2, <3>1
  <2>3. secret'[u] = secret[u] \/ (k = "resetPin" /\ w = u)
    <3>1. CASE k = "resetPin"
      BY <1>1, <1>2, <3>1 DEF TypeOK
    <3>2. CASE k = "resetStation"
      <4>1. job[r].target # u
        BY <1>1, <1>2, <1>3, <3>2, CodesAssumption DEF ReadStands, TargetsOf
      <4>2. QED
        BY <1>1, <1>2, <3>2, <4>1 DEF TypeOK
    <3>3. CASE k \notin {"resetPin", "resetStation"}
      BY <1>1, <3>3
    <3>4. QED
      BY <3>1, <3>2, <3>3
  <2>4. QED
    BY <2>1, <2>2, <2>3
<1>12. QED
  BY <1>7, <1>8, <1>9, <1>10, <1>11 DEF Deserved

LEMMA ApplyKeeps ==
  ASSUME CodesInv, NEW r \in Requests, Apply(r)
  PROVE  CodesInv'
<1> DEFINE k == job[r].kind
           s == got[r].entry.serial
           f == got[r].first
<1>1. /\ pc[r] = "apply" /\ flags' = flags \cup Flag(r) /\ End(r)
      /\ \/ email' = email
         \/ k \in Edits /\ email' = [email EXCEPT ![job[r].user] = job[r].target]
      /\ \/ UNCHANGED <<otp, fate>>
         \/ k = "twoFactor" /\ otp' = [otp EXCEPT ![f] = NoRow] /\ fate' = FateAfter(r, f, "wiped")
      /\ UNCHANGED <<businessEmail, mail, now, faults, used, raced, crossed, twins>>
  BY DEF Apply
<1>2. TypeOK /\ ReadStands(r) /\ FirstStands(r) /\ IssuesStand /\ RowsStand
  BY DEF CodesInv, CodesStand, ReadsStand
<1>3. "apply" \in Checking /\ "apply" \in Taking \cup {"apply"} /\ "apply" # "clear"
  BY DEF Checking
<1>4. /\ got[r].who \in Users /\ s \in Serials /\ job[r] \in CheckJobs
      /\ issued[s] \in Issues /\ issued[s].to = got[r].who
      /\ issued[s].code = Digits(r)
  BY <1>1, <1>2, <1>3, EntryFields DEF TypeOK, ReadStands, IsOf
<1>5. NoRow \notin Entries /\ NoRow # Blank
  BY CodesAssumption
<1>6. k = "twoFactor" => f \in Users
  BY <1>1, <1>2, <1>3 DEF FirstStands
<1>7. TypeOK'
  <2>1. /\ otp' \in [Users -> Entries \cup {Blank, NoRow}]
        /\ \A u, v \in Users : otp'[u] = Blank /\ otp'[v] = Blank => u = v
        /\ fate' \in [Serials -> Fates]
    <3>1. CASE UNCHANGED <<otp, fate>>
      BY <1>2, <3>1 DEF TypeOK
    <3>2. CASE otp' = [otp EXCEPT ![f] = NoRow] /\ fate' = FateAfter(r, f, "wiped")
      BY <1>2, <1>5, <3>2 DEF TypeOK, FateAfter, Fates
    <3>3. QED
      BY <1>1, <3>1, <3>2
  <2>2. email' \in [Users -> Addresses]
    <3>1. k \in Edits => job[r].target \in Addresses
      BY <1>1, <1>2, <1>3 DEF ReadStands, TargetsOf, Edits, Addresses
    <3>2. QED
      BY <1>1, <1>2, <3>1 DEF TypeOK
  <2>3. flags' \subseteq Flags
    <3>1. Flag(r) \subseteq Flags
      BY <1>4, <1>6 DEF Flag, Flags
    <3>2. QED
      BY <1>1, <1>2, <3>1 DEF TypeOK
  <2>4. secret' \in [Users \cup Stations -> Serials \cup {0}]
    BY <1>2, <1>4 DEF TypeOK, Apply
  <2>5. QED
    BY <1>1, <1>2, <2>1, <2>2, <2>3, <2>4, EndType DEF TypeOK, mail
<1>8. Grows
  BY <1>1 DEF Grows, mail
<1>9. ASSUME NEW q \in Requests
      PROVE  ReadStands(q)' /\ FirstStands(q)' /\ RightRow(q)'
  <2>1. CASE q = r
    BY <1>1, <1>2, <2>1, EndType, IdleStands
  <2>2. CASE q # r
    <3>1. Stale(q)
      BY <1>1, <1>2, <1>5, <1>6, EmptiedStale DEF Stale
    <3>2. pc'[q] = pc[q] /\ job'[q] = job[q] /\ got'[q] = got[q]
      BY <1>1, <1>2, <2>2, EndType
    <3>3. QED
      BY <1>7, <1>8, <3>1, <3>2, OthersStand
  <2>3. QED
    BY <2>1, <2>2
<1>10. TakesStand'
  <2>1. \A q \in Requests : pc'[q] = "clear" => pc[q] = "clear" /\ got'[q] = got[q]
    BY <1>1, <1>2, EndType
  <2>2. QED
    BY <1>1, <2>1, TakersStand
<1>11. WipedNeedsCause'
  <2>1. SUFFICES ASSUME NEW t \in Serials, fate'[t] = "wiped"
                 PROVE  t \in crossed' \cup twins'
    BY DEF WipedNeedsCause
  <2>2. CASE fate[t] = "wiped"
    BY <1>1, <2>2 DEF CodesInv, CodesStand, WipedNeedsCause
  <2>3. CASE k = "twoFactor" /\ f \in Holding(t)
    <3>1. /\ f \in Users /\ otp[f] \in Entries /\ otp[f].serial = t
          /\ issued[t] \in Issues /\ issued[t].to = f /\ issued[t].code = otp[f].code
      BY <1>2, <2>3 DEF Holding, RowsStand, IsOf
    <3>2. CASE t \notin crossed
      <4>1. otp[f].code = Digits(r) /\ f # got[r].who
        BY <1>1, <1>2, <1>3, <3>1, <3>2 DEF FirstStands
      <4>2. t \in twins
        BY <1>2, <1>4, <3>1, <4>1, TwinsFound
      <4>3. QED
        BY <1>1, <4>2
    <3>3. QED
      BY <1>1, <3>2
  <2>4. QED
    BY <1>1, <2>1, <2>2, <2>3 DEF FateAfter
<1>12. (UsedTwiceNeedsRace /\ IssuesStand)'
  BY <1>1 DEF CodesInv, CodesStand, UsedTwiceNeedsRace, IssuesStand, mail
<1>13. RowsStand'
  <2>1. \A u \in Users : otp'[u] \in Entries => otp'[u] = otp[u]
    BY <1>1, <1>2, <1>5 DEF TypeOK
  <2>2. QED
    BY <1>1, <1>2, <2>1 DEF RowsStand, IsOf, mail
<1>14. FlagsWereEarned'
  BY ApplyDeserved DEF FlagsWereEarned
<1>15. QED
  BY <1>7, <1>9, <1>10, <1>11, <1>12, <1>13, <1>14, Assembled

LEMMA IssueKeeps ==
  ASSUME CodesInv, NEW r \in Requests, Issue(r)
  PROVE  CodesInv'
<1> DEFINE u == job[r].user
           s == count + 1
<1>1. PICK k \in Codes :
        /\ otp' = [otp EXCEPT ![u] = [code |-> k, expires |-> now + Lifetime,
                                      use |-> job[r].use, about |-> job[r].about,
                                      serial |-> s]]
        /\ issued' = [issued EXCEPT ![s] = [to |-> u, at |-> job[r].at,
                                            use |-> job[r].use, code |-> k]]
        /\ twins' = IF TwinsOf(u, k) = {} THEN twins
                    ELSE twins \cup TwinsOf(u, k) \cup {s}
  BY DEF Issue
<1>2. /\ pc[r] = "issue" /\ count < MaxIssued /\ count' = s
      /\ fate' = [t \in Serials |-> CASE t = s -> "live"
                                      [] t # s /\ u \in Holding(t) -> "replaced"
                                      [] OTHER -> fate[t]]
      /\ crossed' = IF \E q \in Requests : Reading(q, u) THEN crossed \cup {s} ELSE crossed
      /\ End(r) \/ (Goto(r, "finish") /\ UNCHANGED <<job, got>>)
      /\ UNCHANGED <<email, businessEmail, flags, secret, now, faults, used, raced>>
  BY DEF Issue
<1>3. TypeOK /\ ReadStands(r) /\ IssuesStand /\ RowsStand
  BY DEF CodesInv, CodesStand, ReadsStand
<1>4. /\ s \in Serials /\ u \in Users /\ job[r] \in AskJobs /\ issued[s] \notin Issues
      /\ used[s] = 0 /\ count \in Nat
      /\ job[r].use = "PHONE" => job[r].at = FirstPhone[u]
  BY <1>2, <1>3, CodesAssumption
     DEF TypeOK, Serials, AskJobs, IssuesStand, ReadStands, Asking
<1> DEFINE x == [code |-> k, expires |-> now + Lifetime, use |-> job[r].use,
                 about |-> job[r].about, serial |-> s]
           i == [to |-> u, at |-> job[r].at, use |-> job[r].use, code |-> k]
<1>5. x \in Entries /\ i \in Issues
  BY <1>3, <1>4, CodesAssumption DEF TypeOK, AskJobs, Entries, Issues
<1>6. /\ otp'[u] = x /\ \A v \in Users \ {u} : otp'[v] = otp[v]
      /\ otp' \in [Users -> Entries \cup {Blank, NoRow}]
      /\ issued'[s] = i /\ \A t \in Serials \ {s} : issued'[t] = issued[t]
      /\ issued' \in [Serials -> Issues \cup {NoIssue}]
  BY <1>1, <1>3, <1>4, <1>5 DEF TypeOK
<1>7. /\ TwinsOf(u, k) \subseteq Serials /\ twins \subseteq twins' /\ twins' \subseteq Serials
      /\ crossed \subseteq crossed' /\ crossed' \subseteq Serials
  BY <1>1, <1>2, <1>3, <1>4 DEF TwinsOf, TypeOK
<1>8. /\ pc' \in [Requests -> {"idle"} \cup Asking \cup Checking]
      /\ job' \in [Requests -> Jobs \cup {NoJob}]
      /\ \A q \in Requests : /\ pc'[q] \in Asking => job'[q] \in AskJobs
                             /\ pc'[q] \in Checking => job'[q] \in CheckJobs
      /\ got' \in [Requests -> Reads]
      /\ \A q \in Requests : pc'[q] \in Taking \cup {"apply"} =>
           got'[q].who \in Users /\ got'[q].entry \in Entries
      /\ pc'[r] # "clear"
      /\ \A q \in Requests \ {r} : pc'[q] = pc[q] /\ job'[q] = job[q] /\ got'[q] = got[q]
  <2>1. CASE End(r)
    BY <1>3, <2>1, EndType
  <2>2. CASE Goto(r, "finish") /\ UNCHANGED <<job, got>>
    <3>1. job' \in [Requests -> Jobs \cup {NoJob}] /\ got' \in [Requests -> Reads]
      BY <1>3, <2>2 DEF TypeOK
    <3>2. QED
      BY <1>2, <1>3, <2>2, <3>1, FinishType
  <2>3. QED
    BY <1>2, <2>1, <2>2
<1>9. TypeOK'
  <2>1. \A v, w \in Users : otp'[v] = Blank /\ otp'[w] = Blank => v = w
    <3>1. Blank \notin Entries
      BY CodesAssumption
    <3>2. QED
      BY <1>3, <1>5, <1>6, <3>1 DEF TypeOK
  <2>2. fate' \in [Serials -> Fates]
    BY <1>2, <1>3 DEF TypeOK, Fates
  <2>3. count' \in 0..MaxIssued
    BY <1>2, <1>4, CodesAssumption
  <2>4. QED
    BY <1>2, <1>3, <1>6, <1>7, <1>8, <2>1, <2>2, <2>3 DEF TypeOK
<1>10. Grows
  BY <1>2, <1>4, <1>6, <1>7 DEF Grows
<1>11. ASSUME NEW q \in Requests
       PROVE  ReadStands(q)' /\ FirstStands(q)' /\ RightRow(q)'
  <2>1. CASE q = r
    <3>1. CASE End(r)
      BY <1>3, <2>1, <3>1, EndType, IdleStands
    <3>2. CASE Goto(r, "finish") /\ UNCHANGED <<job, got>>
      BY <1>2, <1>3, <2>1, <3>2, FinishType, FinishStands
    <3>3. QED
      BY <1>2, <3>1, <3>2
  <2>2. CASE q # r
    <3>1. Stale(q)
      BY <1>2, <1>4, <1>6 DEF Stale
    <3>2. QED
      BY <1>8, <1>9, <1>10, <2>2, <3>1, OthersStand
  <2>3. QED
    BY <2>1, <2>2
<1>12. TakesStand'
  <2>1. \A q \in Requests : pc'[q] = "clear" => pc[q] = "clear" /\ got'[q] = got[q]
    BY <1>8
  <2>2. QED
    BY <1>2, <2>1, TakersStand
<1>13. WipedNeedsCause'
  <2>1. \A t \in Serials : fate'[t] = "wiped" => fate[t] = "wiped"
    BY <1>2
  <2>2. QED
    BY <1>7, <2>1 DEF CodesInv, CodesStand, WipedNeedsCause
<1>14. UsedTwiceNeedsRace'
  BY <1>2 DEF CodesInv, CodesStand, UsedTwiceNeedsRace
<1>15. FlagsWereEarned'
  BY <1>2, <1>10, DeservedGrows DEF CodesInv, CodesStand, FlagsWereEarned
<1>16. RowsStand'
  <2>1. SUFFICES ASSUME NEW v \in Users, otp'[v] \in Entries
                 PROVE  /\ issued'[otp'[v].serial] \in Issues
                        /\ issued'[otp'[v].serial].to = v
                        /\ issued'[otp'[v].serial].use = otp'[v].use
                        /\ issued'[otp'[v].serial].code = otp'[v].code
                        /\ used'[otp'[v].serial] = 0
    BY DEF RowsStand, IsOf
  <2>2. CASE v = u
    BY <1>2, <1>4, <1>5, <1>6, <2>2
  <2>3. CASE v # u
    <3>1. otp'[v] = otp[v] /\ otp[v].serial \in Serials /\ otp[v].serial # s
      BY <1>3, <1>4, <1>6, <2>1, <2>3, EntryFields DEF RowsStand, IsOf
    <3>2. QED
      BY <1>2, <1>3, <1>6, <2>1, <3>1 DEF RowsStand, IsOf
  <2>4. QED
    BY <2>2, <2>3
<1>17. IssuesStand'
  <2>1. \A t \in Serials : /\ issued'[t] \in Issues <=> t <= count'
                           /\ t > count' => used'[t] = 0
    <3>1. \A t \in Serials : (t <= count' <=> t <= count \/ t = s) /\ (t > count' => t > count)
      BY <1>2, <1>4 DEF Serials
    <3>2. QED
      BY <1>2, <1>3, <1>5, <1>6, <3>1 DEF IssuesStand
  <2>2. \A t \in Serials : issued'[t] \in Issues /\ issued'[t].use = "PHONE" =>
                             issued'[t].at = FirstPhone[issued'[t].to]
    BY <1>3, <1>4, <1>6 DEF IssuesStand
  <2>3. ASSUME NEW a \in Serials, NEW b \in Serials,
               issued'[a] \in Issues, issued'[b] \in Issues,
               issued'[a].code = issued'[b].code, issued'[a].to # issued'[b].to
        PROVE  a \in twins'
    <3>1. CASE a # s /\ b # s
      BY <1>3, <1>6, <1>7, <2>3, <3>1, TwinsFound
    <3>2. CASE a = s /\ b # s
      BY <1>1, <1>6, <2>3, <3>2 DEF TwinsOf
    <3>3. CASE a # s /\ b = s
      BY <1>1, <1>6, <2>3, <3>3 DEF TwinsOf
    <3>4. QED
      BY <2>3, <3>1, <3>2, <3>3
  <2>4. QED
    BY <2>1, <2>2, <2>3 DEF IssuesStand
<1>18. QED
  BY <1>9, <1>11, <1>12, <1>13, <1>14, <1>15, <1>16, <1>17, Assembled

LEMMA CrashKeeps ==
  ASSUME CodesInv, Crash
  PROVE  CodesInv'
<1>1. /\ pc' = [r \in Requests |-> "idle"] /\ job' = [r \in Requests |-> NoJob]
      /\ got' = [r \in Requests |-> Nothing] /\ faults' \in Nat
      /\ UNCHANGED <<otp, email, businessEmail, flags, secret, mail, now, history>>
  BY DEF Crash, columns, Fault, CodesInv, TypeOK
<1>2. TypeOK'
  <2>1. Nothing \in Reads
    BY DEF Nothing, Reads
  <2>2. "idle" \notin Asking /\ "idle" \notin Checking /\ "idle" \notin Taking \cup {"apply"}
    BY DEF Asking, Checking, Taking
  <2>3. QED
    BY <1>1, <2>1, <2>2 DEF CodesInv, TypeOK, mail, history
<1>3. \A q \in Requests : ReadStands(q)' /\ FirstStands(q)' /\ RightRow(q)'
  BY <1>1, IdleStands
<1>4. TakesStand'
  BY <1>1 DEF TakesStand
<1>5. QED
  BY <1>1, <1>2, <1>3, <1>4, BooksStand, Assembled DEF mail, history

(* Time passes, or nothing at all happens. *)
LEMMA TickKeeps ==
  ASSUME CodesInv, Tick \/ UNCHANGED vars
  PROVE  CodesInv'
<1>1. /\ now' \in Nat
      /\ UNCHANGED <<otp, email, businessEmail, flags, secret, pc, job, got, mail, faults, history>>
  BY DEF Tick, vars, columns, requests, CodesInv, TypeOK
<1>2. TypeOK'
  BY <1>1 DEF CodesInv, TypeOK, mail, history
<1>3. ASSUME NEW q \in Requests
      PROVE  ReadStands(q)' /\ FirstStands(q)' /\ RightRow(q)'
  BY <1>1, <1>2, OthersStand DEF Stale, Grows, mail, history
<1>4. TakesStand'
  BY <1>1, TakersStand DEF history
<1>5. QED
  BY <1>1, <1>2, <1>3, <1>4, BooksStand, Assembled DEF mail, history
-------------------------------------------------------------------------------
LEMMA InitHolds == Init => CodesInv
<1> SUFFICES ASSUME Init PROVE CodesInv
  OBVIOUS
<1>1. NoRow \notin Entries /\ NoRow # Blank /\ NoIssue \notin Issues
  BY CodesAssumption
<1>2. TypeOK
  <2>1. Nothing \in Reads
    BY DEF Nothing, Reads
  <2>2. "idle" \notin Asking /\ "idle" \notin Checking /\ "idle" \notin Taking \cup {"apply"}
    BY DEF Asking, Checking, Taking
  <2>3. email \in [Users -> Addresses] /\ businessEmail \in [Owners -> Addresses]
    BY CodesAssumption DEF Init, Addresses
  <2>4. QED
    BY <1>1, <2>1, <2>2, <2>3, CodesAssumption DEF Init, TypeOK, Fates
<1>3. IssuesStand /\ RowsStand
  BY <1>1 DEF Init, IssuesStand, RowsStand, Serials
<1>4. ReadsStand /\ TakesStand /\ WrongRowNeedsTwins
  BY DEF Init, ReadsStand, ReadStands, FirstStands, TakesStand, WrongRowNeedsTwins, RightRow,
         Checking, Asking, Taking, Nothing
<1>5. UsedTwiceNeedsRace /\ WipedNeedsCause /\ FlagsWereEarned
  BY DEF Init, UsedTwiceNeedsRace, WipedNeedsCause, FlagsWereEarned, Deserved
<1>6. QED
  BY <1>2, <1>3, <1>4, <1>5 DEF CodesInv, CodesStand

LEMMA StepKeeps == CodesInv /\ [Next]_vars => CodesInv'
<1> SUFFICES ASSUME CodesInv, [Next]_vars PROVE CodesInv'
  OBVIOUS
<1>1. ASSUME NEW r \in Requests, NEW k \in Kinds \cap Asks, NEW u \in Users, Ask(r, k, u)
      PROVE  CodesInv'
  BY <1>1, AskKeeps
<1>2. ASSUME NEW r \in Requests, NEW k \in Kinds \cap Checks, NEW u \in Users,
             NEW s \in Serials, NEW a \in Addresses \cup Stations \cup {NoTarget},
             Check(r, k, u, s, a)
      PROVE  CodesInv'
  BY <1>2, CheckKeeps
<1>3. ASSUME NEW r \in Requests, Step(r)
      PROVE  CodesInv'
  BY <1>3, UpdateEmailKeeps, IssueKeeps, IssueFailsKeeps, UpdateBusinessKeeps, FirstKeeps,
     FindKeeps, RefuseKeeps, ExpireKeeps, ClearKeeps, ApplyKeeps, FailKeeps DEF Step
<1>4. QED
  BY <1>1, <1>2, <1>3, CrashKeeps, TickKeeps DEF Next

(* The books of the codes always stand: every row holds a code of its user   *)
(* that nobody has used yet, and whatever a request has read is still so or  *)
(* was overwritten while it waited.                                          *)
THEOREM CodesStandHolds == Spec => [](TypeOK /\ CodesStand)
<1>1. Init => CodesInv
  BY InitHolds
<1>2. CodesInv /\ [Next]_vars => CodesInv'
  BY StepKeeps
<1>3. QED
  BY <1>1, <1>2, PTL DEF Spec, CodesInv

(* Rows, mails and requests keep their types. *)
THEOREM TypeCorrect == Spec => []TypeOK
BY CodesStandHolds, PTL

(* A code is accepted once, unless two requests found it at once. *)
THEOREM AcceptedOnce == Spec => []UsedTwiceNeedsRace
<1>1. TypeOK /\ CodesStand => UsedTwiceNeedsRace
  BY DEF CodesStand
<1>2. QED
  BY <1>1, CodesStandHolds, PTL

(* A live code is not wiped, unless somebody was at the row or has its digits. *)
THEOREM WipesHaveCause == Spec => []WipedNeedsCause
<1>1. TypeOK /\ CodesStand => WipedNeedsCause
  BY DEF CodesStand
<1>2. QED
  BY <1>1, CodesStandHolds, PTL

(* A code changes its own user's row, unless another user has its digits. *)
THEOREM RowsAreRight == Spec => []WrongRowNeedsTwins
<1>1. TypeOK /\ CodesStand => WrongRowNeedsTwins
  BY DEF CodesStand
<1>2. QED
  BY <1>1, CodesStandHolds, PTL

(* What a row says is verified, enabled or reset was earned with a code. *)
THEOREM FlagsAreEarned == Spec => []FlagsWereEarned
<1>1. TypeOK /\ CodesStand => FlagsWereEarned
  BY DEF CodesStand
<1>2. QED
  BY <1>1, CodesStandHolds, PTL
-------------------------------------------------------------------------------
(* Secrets.                                                                  *)
SecretsInv == SecretsTypeOK /\ SecretsStand

HIDE CodesAssumption
USE SecretsAssumption

LEMMA SecretsNextCases ==
  ASSUME [SecretsNext]_secretsVars
  PROVE  \/ \E r \in Handlers, b \in Businesses, x \in SecretRows, old, new \in Words :
              Change(r, x, b, old, new)
         \/ \E r \in Handlers, b \in Businesses, x \in SecretRows, new \in Words :
              Reset(r, x, b, new)
         \/ \E r \in Handlers, b \in Businesses, s \in StationRows,
               old, new \in Words \cup {NoWord}, t \in Terms \cup {NoTerms} :
              Update(r, s, b, old, new, t)
         \/ \E r \in Handlers, b \in Businesses, s \in StationRows : Delete(r, s, b)
         \/ \E r \in Handlers, s \in StationRows, new \in Words, t \in Terms : Create(r, s, new, t)
         \/ \E r \in Handlers : Read(r)
         \/ \E r \in Handlers : Verify(r)
         \/ \E r \in Handlers : Replace(r)
         \/ \E r \in Handlers : Insert(r)
         \/ \E r \in Handlers : Remove(r)
         \/ \E r \in Handlers : Fails(r)
         \/ UNCHANGED secretsVars
  BY DEF SecretsNext

(* A request that is asked has seen what the row has.                        *)
LEMMA AskedKeeps ==
  ASSUME SecretsInv,
         NEW r \in Handlers, NEW j \in Changes, Begin(r, j), NEW s \in {"read", "write"},
         stage' = [stage EXCEPT ![r] = s],
         s = "read" /\ j.new # NoWord => j.old # NoWord,
         s = "write" => j.kind \in {"reset", "create"},
         j.kind = "create" => j.on \in StationRows
  PROVE  SecretsInv'
<1>1. /\ stage[r] = "idle" /\ jobs' = jobs + 1
      /\ change' = [change EXCEPT ![r] = j] /\ during' = [during EXCEPT ![r] = {word[j.on]}]
      /\ UNCHANGED <<word, terms, born, read>>
  BY DEF Begin, secrets
<1>2. j.on \in SecretRows /\ word[j.on] \in Words \cup {NoWord}
  BY DEF Changes, SecretsInv, SecretsTypeOK
<1>3. SecretsTypeOK'
  BY <1>1, <1>2 DEF SecretsInv, SecretsTypeOK
<1>4. SeenStands'
  BY <1>1, <1>2 DEF SecretsInv, SecretsTypeOK, SecretsStand, SeenStands
<1>5. PresentedWasCurrent'
  BY <1>1 DEF SecretsInv, SecretsTypeOK, SecretsStand, PresentedWasCurrent
<1>6. QED
  BY <1>3, <1>4, <1>5 DEF SecretsInv, SecretsStand

LEMMA JobType ==
  ASSUME NEW k \in {"change", "update", "reset", "delete", "create"}, NEW x \in SecretRows,
         NEW b \in Businesses, NEW old \in Words \cup {NoWord}, NEW new \in Words \cup {NoWord},
         NEW t \in Terms \cup {NoTerms}
  PROVE  /\ Job(k, x, b, old, new, t) \in Changes
         /\ Job(k, x, b, old, new, t).kind = k /\ Job(k, x, b, old, new, t).on = x
         /\ Job(k, x, b, old, new, t).old = old /\ Job(k, x, b, old, new, t).new = new
  BY DEF Job, Changes

LEMMA ChangeKeeps ==
  ASSUME SecretsInv,
         NEW r \in Handlers, NEW x \in SecretRows, NEW b \in Businesses, NEW old \in Words,
         NEW new \in Words, Change(r, x, b, old, new)
  PROVE  SecretsInv'
<1> DEFINE j == Job("change", x, b, old, new, NoTerms)
<1>1. j \in Changes /\ j.old = old /\ j.kind = "change"
  BY JobType
<1>2. Begin(r, j) /\ stage' = [stage EXCEPT ![r] = "read"]
  BY DEF Change, Move
<1> HIDE DEF j
<1>3. QED
  BY <1>1, <1>2, AskedKeeps

LEMMA ResetKeeps ==
  ASSUME SecretsInv,
         NEW r \in Handlers, NEW x \in SecretRows, NEW b \in Businesses,
         NEW new \in Words, Reset(r, x, b, new)
  PROVE  SecretsInv'
<1> DEFINE j == Job("reset", x, b, NoWord, new, NoTerms)
<1>1. j \in Changes /\ j.kind = "reset"
  BY JobType
<1>2. Begin(r, j) /\ stage' = [stage EXCEPT ![r] = "write"]
  BY DEF Reset, Move
<1> HIDE DEF j
<1>3. QED
  BY <1>1, <1>2, AskedKeeps

LEMMA UpdateKeeps ==
  ASSUME SecretsInv,
         NEW r \in Handlers, NEW s \in StationRows, NEW b \in Businesses,
         NEW old \in Words \cup {NoWord}, NEW new \in Words \cup {NoWord},
         NEW t \in Terms \cup {NoTerms}, Update(r, s, b, old, new, t)
  PROVE  SecretsInv'
<1> DEFINE j == Job("update", s, b, old, new, t)
<1>1. j \in Changes /\ j.old = old /\ j.new = new /\ j.kind = "update"
  BY JobType DEF SecretRows
<1>2. Begin(r, j) /\ stage' = [stage EXCEPT ![r] = "read"] /\ (new # NoWord => old # NoWord)
  BY DEF Update, Move
<1> HIDE DEF j
<1>3. QED
  BY <1>1, <1>2, AskedKeeps

LEMMA DeleteKeeps ==
  ASSUME SecretsInv,
         NEW r \in Handlers, NEW s \in StationRows, NEW b \in Businesses,
         Delete(r, s, b)
  PROVE  SecretsInv'
<1> DEFINE j == Job("delete", s, b, NoWord, NoWord, NoTerms)
<1>1. j \in Changes /\ j.new = NoWord /\ j.kind = "delete"
  BY JobType DEF SecretRows
<1>2. Begin(r, j) /\ stage' = [stage EXCEPT ![r] = "read"]
  BY DEF Delete, Move
<1> HIDE DEF j
<1>3. QED
  BY <1>1, <1>2, AskedKeeps

LEMMA CreateKeeps ==
  ASSUME SecretsInv,
         NEW r \in Handlers, NEW s \in StationRows, NEW new \in Words, NEW t \in Terms,
         Create(r, s, new, t)
  PROVE  SecretsInv'
<1> DEFINE j == Job("create", s, OwnerOf[s], NoWord, new, t)
<1>1. j \in Changes /\ j.kind = "create" /\ j.on = s
  BY JobType DEF SecretRows
<1>2. Begin(r, j) /\ stage' = [stage EXCEPT ![r] = "write"]
  BY DEF Create, Move
<1> HIDE DEF j
<1>3. QED
  BY <1>1, <1>2, AskedKeeps

(* A request that ends without writing.                                      *)
LEMMA FinishKeeps ==
  ASSUME SecretsInv, NEW r \in Handlers, Finish(r), UNCHANGED <<secrets, jobs, during>>
  PROVE  SecretsInv'
<1>1. SecretsTypeOK'
  BY DEF SecretsInv, SecretsTypeOK, Finish, Move, secrets
<1>2. SecretsStand'
  BY DEF SecretsInv, SecretsTypeOK, SecretsStand, SeenStands, PresentedWasCurrent, Finish, Move,
         secrets
<1>3. QED
  BY <1>1, <1>2 DEF SecretsInv

LEMMA ReadKeeps == ASSUME SecretsInv, NEW r \in Handlers, Read(r) PROVE SecretsInv'
<1> DEFINE j == change[r]
<1>1. CASE Finish(r)
  BY <1>1, FinishKeeps DEF Read
<1>2. CASE ~Finish(r)
  <2>1. /\ stage[r] = "read" /\ read' = [read EXCEPT ![r] = word[j.on]]
        /\ stage' = [stage EXCEPT ![r] =
                       IF j.old # NoWord /\ j.new # NoWord THEN "verify" ELSE "write"]
        /\ UNCHANGED <<word, terms, born, change, jobs, during>>
    BY <1>2 DEF Read, Move, secrets
  <2>2. j \in Changes /\ word[j.on] \in Words \cup {NoWord}
    BY <2>1 DEF SecretsInv, SecretsTypeOK, Changes
  <2>3. SecretsTypeOK'
    BY <2>1, <2>2 DEF SecretsInv, SecretsTypeOK
  <2>4. SeenStands'
    BY <2>1 DEF SecretsInv, SecretsTypeOK, SecretsStand, SeenStands
  <2>5. PresentedWasCurrent'
    BY <2>1 DEF SecretsInv, SecretsTypeOK, SecretsStand, SeenStands, PresentedWasCurrent
  <2>6. QED
    BY <2>3, <2>4, <2>5 DEF SecretsInv, SecretsStand
<1>3. QED
  BY <1>1, <1>2

LEMMA VerifyKeeps == ASSUME SecretsInv, NEW r \in Handlers, Verify(r) PROVE SecretsInv'
<1>1. CASE Finish(r)
  BY <1>1, FinishKeeps DEF Verify
<1>2. CASE ~Finish(r)
  <2>1. /\ stage[r] = "verify" /\ read[r] = change[r].old
        /\ stage' = [stage EXCEPT ![r] = "write"]
        /\ UNCHANGED <<word, terms, born, change, read, jobs, during>>
    BY <1>2 DEF Verify, Move, secrets
  <2>2. change[r].old \in during[r]
    BY <2>1 DEF SecretsInv, SecretsStand, SeenStands
  <2>3. SecretsTypeOK'
    BY <2>1 DEF SecretsInv, SecretsTypeOK
  <2>4. SeenStands' /\ PresentedWasCurrent'
    BY <2>1, <2>2 DEF SecretsInv, SecretsTypeOK, SecretsStand, SeenStands, PresentedWasCurrent
  <2>5. QED
    BY <2>3, <2>4 DEF SecretsInv, SecretsStand
<1>3. QED
  BY <1>1, <1>2

(* The row of x becomes w: whoever is at work on it sees it.                 *)
LEMMA RowKeeps ==
  ASSUME SecretsInv, NEW r \in Handlers, Finish(r),
         NEW x \in SecretRows, NEW w \in Words \cup {NoWord},
         word' = [word EXCEPT ![x] = w],
         Seen(x, w) \/ (w = NoWord /\ during' = during),
         terms' \in [StationRows -> Terms \cup {NoTerms}], born' \subseteq StationRows,
         jobs' = jobs
  PROVE  SecretsInv'
<1>1. during' \in [Handlers -> SUBSET (Words \cup {NoWord})]
  BY DEF SecretsInv, SecretsTypeOK, Seen
<1>2. SecretsTypeOK'
  BY <1>1 DEF SecretsInv, SecretsTypeOK, Finish, Move
<1>3. \A q \in Handlers : during[q] \subseteq during'[q]
  BY DEF Seen, SecretsInv, SecretsTypeOK
<1>4. \A q \in Handlers \ {r} :
         stage'[q] = stage[q] /\ change'[q] = change[q] /\ read'[q] = read[q]
  BY DEF Finish, Move, SecretsInv, SecretsTypeOK
<1>5. stage'[r] = "idle"
  BY DEF Finish, Move, SecretsInv, SecretsTypeOK
<1>6. \A q \in Handlers : stage[q] # "idle" => word'[change[q].on] \in during'[q] \cup {NoWord}
  <2> SUFFICES ASSUME NEW q \in Handlers, stage[q] # "idle"
               PROVE  word'[change[q].on] \in during'[q] \cup {NoWord}
    OBVIOUS
  <2>1. change[q].on \in SecretRows
    BY DEF SecretsInv, SecretsTypeOK, Changes
  <2>2. CASE change[q].on = x
    BY <2>1, <2>2 DEF Seen, SecretsInv, SecretsTypeOK
  <2>3. CASE change[q].on # x
    BY <2>1, <2>3, <1>3 DEF SecretsInv, SecretsTypeOK, SecretsStand, SeenStands
  <2>4. QED
    BY <2>2, <2>3
<1>7. SeenStands'
  BY <1>3, <1>4, <1>5, <1>6 DEF SecretsInv, SecretsStand, SeenStands
<1>8. PresentedWasCurrent'
  BY <1>3, <1>4, <1>5 DEF SecretsInv, SecretsStand, PresentedWasCurrent
<1>9. QED
  BY <1>2, <1>7, <1>8 DEF SecretsInv, SecretsStand

LEMMA WriteKeeps == ASSUME SecretsInv, NEW r \in Handlers, Replace(r) PROVE SecretsInv'
<1> DEFINE x == change[r].on  w == After(r).word
<1>1. change[r] \in Changes /\ x \in SecretRows
  BY DEF Replace, SecretsInv, SecretsTypeOK, Changes
<1>2. w \in Words \cup {NoWord}
  BY <1>1 DEF After, Changes, SecretsInv, SecretsTypeOK
<1>3. terms' \in [StationRows -> Terms \cup {NoTerms}]
  BY <1>1 DEF Replace, After, Changes, SecretsInv, SecretsTypeOK
<1>4. /\ Finish(r) /\ word' = [word EXCEPT ![x] = w] /\ Seen(x, w)
      /\ born' \subseteq StationRows /\ jobs' = jobs
  BY DEF Replace, SecretsInv, SecretsTypeOK
<1> HIDE DEF x, w
<1>5. QED
  BY <1>1, <1>2, <1>3, <1>4, RowKeeps

LEMMA InsertKeeps == ASSUME SecretsInv, NEW r \in Handlers, Insert(r) PROVE SecretsInv'
<1> DEFINE x == change[r].on  w == change[r].new
<1>1. change[r] \in Changes /\ x \in SecretRows /\ w \in Words \cup {NoWord}
  BY DEF Insert, SecretsInv, SecretsTypeOK, Changes
<1>x. x \in StationRows
  BY DEF Insert, SecretsInv, SecretsStand, SeenStands
<1>2. /\ terms' \in [StationRows -> Terms \cup {NoTerms}]
      /\ born' \subseteq StationRows
  BY <1>1, <1>x DEF Insert, Changes, SecretsInv, SecretsTypeOK
<1>3. Finish(r) /\ word' = [word EXCEPT ![x] = w] /\ Seen(x, w) /\ jobs' = jobs
  BY DEF Insert
<1> HIDE DEF x, w
<1>4. QED
  BY <1>1, <1>2, <1>3, RowKeeps

LEMMA RemoveKeeps == ASSUME SecretsInv, NEW r \in Handlers, Remove(r) PROVE SecretsInv'
<1> DEFINE x == change[r].on
<1>1. change[r] \in Changes /\ x \in SecretRows
  BY DEF Remove, SecretsInv, SecretsTypeOK, Changes
<1>2. /\ Finish(r) /\ word' = [word EXCEPT ![x] = NoWord] /\ during' = during /\ jobs' = jobs
      /\ born' \subseteq StationRows
      /\ terms' \in [StationRows -> Terms \cup {NoTerms}]
  BY DEF Remove, SecretsInv, SecretsTypeOK
<1> HIDE DEF x
<1>3. QED
  BY <1>1, <1>2, RowKeeps

LEMMA SecretsStepKeeps == ASSUME SecretsInv, [SecretsNext]_secretsVars PROVE SecretsInv'
<1>1. CASE UNCHANGED secretsVars
  BY <1>1 DEF secretsVars, secrets, SecretsInv, SecretsTypeOK, SecretsStand, SeenStands,
              PresentedWasCurrent
<1>2. ASSUME NEW r \in Handlers, Fails(r) PROVE SecretsInv'
  BY <1>2, FinishKeeps DEF Fails
<1>3. QED
  BY <1>1, <1>2, SecretsNextCases, ChangeKeeps, ResetKeeps, UpdateKeeps, DeleteKeeps, CreateKeeps,
     ReadKeeps, VerifyKeeps, WriteKeeps, InsertKeeps, RemoveKeeps

LEMMA SecretsInitHolds == ASSUME SecretsInit PROVE SecretsInv
<1>1. SecretsTypeOK
  BY DEF SecretsInit, SecretsTypeOK, SecretRows
<1>2. SecretsStand
  BY DEF SecretsInit, SecretsStand, SeenStands, PresentedWasCurrent
<1>3. QED
  BY <1>1, <1>2 DEF SecretsInv

(* SecretsTypeOK: every variable of Secrets keeps its type.                  *)
THEOREM SecretsTypeCorrect == SecretsSpec => []SecretsTypeOK
<1>1. SecretsInv => SecretsTypeOK
  BY DEF SecretsInv
<1>2. QED
  BY <1>1, SecretsInitHolds, SecretsStepKeeps, PTL DEF SecretsSpec

(* A pin or password is changed only by who presents one that the row has    *)
(* had since the request began, however many requests overlap.               *)
THEOREM PresentedIsCurrent == SecretsSpec => []PresentedWasCurrent
<1>1. SecretsInv => PresentedWasCurrent
  BY DEF SecretsInv, SecretsStand
<1>2. QED
  BY <1>1, SecretsInitHolds, SecretsStepKeeps, PTL DEF SecretsSpec
===============================================================================
