--------------------------------- MODULE Codes ---------------------------------
(***************************************************************************)
(* One-time codes: OtpHelper.generateOtp and verifyOtp, and the endpoints  *)
(* of AuthService, UserService, BusinessService and CardService that ask   *)
(* for a code or act on one.                                               *)
(*                                                                         *)
(* A user row has one otp column for codes of every use.  It holds the     *)
(* code with its expiry, its use and the address it is about; a code is    *)
(* looked up among all rows by its digits.  A request is a sequence of     *)
(* queries, and other requests run between any two of them.                *)
(***************************************************************************)
EXTENDS Integers

CONSTANTS Users,
          Owners,     \* the users with a business, one each
          Stations,
          Codes,      \* the six digits
          Emails, Phones,
          Hyphenated, \* the addresses with a '-'
          FirstEmail, FirstPhone, FirstBusinessEmail,
          Requests,   \* bound: the requests handled at once
          NoRow, Blank, NoJob, NoUser, NoTarget, NoIssue, Cut,
          Lifetime,   \* OTP_EXPIRATION_IN_MINUTES
          Kinds,      \* bound: the endpoints that are called
          MaxIssued,  \* bound: the codes that are issued
          MaxTime,    \* bound: minutes that pass
          MaxFaults   \* bound: failed queries and crashes

Addresses == Emails \cup Phones
Serials == 1..MaxIssued

(* "CARD" stands for the codes to attach and to disable a card, "RESET" for  *)
(* those of pins, passwords and stations, mailed or sent by SMS.             *)
Uses == {"PHONE", "EDIT_PHONE", "EMAIL", "RESET", "TWO_FACTOR", "CARD"}
Asks == {"resendPhone", "resendEmail", "initReset", "sendPhone", "cardCode",
         "twoFactorCode", "resendBusiness", "updateUser", "updateBusiness"}
Checks == {"verifyPhone", "verifyEmail", "verifyBusiness", "resetPin", "resetStation",
           "editEmail", "editPhone", "card", "twoFactor"}
Edits == {"editEmail", "editPhone"}

(* What a column holds; the serial number of the code is history. *)
Entries == [code : Codes, expires : Nat, use : Uses, about : Addresses,
            serial : Serials]
(* A code that was mailed: to whom, where, and for what. *)
Issues == [to : Users, at : Addresses, use : Uses, code : Codes]
(* An ask of a code for a use, about an address and to be mailed to one; a  *)
(* check of a mailed code, of an edit to an address or of a station.        *)
AskJobs == [kind : Asks, user : Users, use : Uses, about : Addresses, at : Addresses]
CheckJobs == [kind : Checks, user : Users, typed : Serials,
              target : Addresses \cup Stations \cup {NoTarget}]
Jobs == AskJobs \cup CheckJobs
(* What a check has found: the row with the code, and for a sign-in's second *)
(* step the row it found before.                                            *)
Reads == [who : Users \cup {NoUser}, entry : Entries \cup {NoRow},
          first : Users \cup {NoUser}]

ASSUME CodesAssumption ==
  /\ Owners \subseteq Users
  /\ FirstEmail \in [Users -> Emails]
  /\ FirstPhone \in [Users -> Phones]
  /\ FirstBusinessEmail \in [Owners -> Emails]
  /\ MaxIssued \in Nat /\ Lifetime \in Nat /\ MaxTime \in Nat /\ MaxFaults \in Nat
  /\ {NoRow, Blank} \cap Entries = {} /\ NoRow # Blank
  /\ NoJob \notin Jobs /\ NoIssue \notin Issues /\ NoUser \notin Users
  /\ Cut \notin Addresses /\ NoTarget \notin Addresses \cup Stations
  /\ Stations \cap (Users \cup Addresses) = {}

VARIABLES
  otp,           \* otp[u]: the otp column: an entry, Blank (the empty text) or NoRow
  email,         \* email[u]: users.email
  businessEmail, \* businessEmail[u]: businesses.email
  flags,         \* what the rows say is verified or enabled, of whom
  secret,        \* secret[x]: the reset a pin or a station's pin is from
  pc, job, got,  \* the requests, and what each has read
  issued,        \* issued[s]: the code with serial number s
  count,         \* how many codes were issued
  now, faults,
  fate,          \* history: fate[s]: what became of code s
  used,          \* history: used[s]: how often code s was accepted
  raced,         \* history: codes that two requests took for good at once
  crossed,       \* history: codes issued to a user while a request had read the row
  twins          \* history: codes with the digits of a code of another user

columns == <<otp, email, businessEmail, flags, secret>>
requests == <<pc, job, got>>
mail == <<issued, count>>
history == <<fate, used, raced, crossed, twins>>
vars == <<columns, requests, mail, now, faults, history>>

Flags == {"phone", "email", "business", "twoFactor"} \X Users
Fates == {"none", "live", "used", "replaced", "expired", "wiped"}
Taking == {"clear", "expire"}
Asking == {"update", "issue", "finish"}
Checking == {"first", "find", "refuse", "apply"} \cup Taking

TypeOK ==
  /\ otp \in [Users -> Entries \cup {Blank, NoRow}]
  /\ \A u, w \in Users : otp[u] = Blank /\ otp[w] = Blank => u = w
  /\ email \in [Users -> Addresses]
  /\ businessEmail \in [Owners -> Addresses]
  /\ flags \subseteq Flags
  /\ secret \in [Users \cup Stations -> Serials \cup {0}]
  /\ pc \in [Requests -> {"idle"} \cup Asking \cup Checking]
  /\ job \in [Requests -> Jobs \cup {NoJob}]
  /\ \A r \in Requests : /\ pc[r] \in Asking => job[r] \in AskJobs
                         /\ pc[r] \in Checking => job[r] \in CheckJobs
  /\ got \in [Requests -> Reads]
  /\ \A r \in Requests : pc[r] \in Taking \cup {"apply"} =>
       got[r].who \in Users /\ got[r].entry \in Entries
  /\ count \in 0..MaxIssued
  /\ issued \in [Serials -> Issues \cup {NoIssue}]
  /\ now \in Nat /\ faults \in Nat
  /\ fate \in [Serials -> Fates]
  /\ used \in [Serials -> Nat]
  /\ raced \subseteq Serials /\ crossed \subseteq Serials /\ twins \subseteq Serials

Nothing == [who |-> NoUser, entry |-> NoRow, first |-> NoUser]

Init ==
  /\ otp = [u \in Users |-> NoRow]
  /\ email = FirstEmail
  /\ businessEmail = FirstBusinessEmail
  /\ flags = {}
  /\ secret = [x \in Users \cup Stations |-> 0]
  /\ pc = [r \in Requests |-> "idle"]
  /\ job = [r \in Requests |-> NoJob]
  /\ got = [r \in Requests |-> Nothing]
  /\ issued = [s \in Serials |-> NoIssue]
  /\ count = 0 /\ now = 0 /\ faults = 0
  /\ fate = [s \in Serials |-> "none"]
  /\ used = [s \in Serials |-> 0]
  /\ raced = {} /\ crossed = {} /\ twins = {}

-------------------------------------------------------------------------------
Goto(r, place) == pc' = [pc EXCEPT ![r] = place]
(* The request is answered; what it had read is gone. *)
End(r) == /\ Goto(r, "idle")
          /\ job' = [job EXCEPT ![r] = NoJob]
          /\ got' = [got EXCEPT ![r] = Nothing]
Fault == faults < MaxFaults /\ faults' = faults + 1

(* The codes an endpoint may generate for user u: the use, the address it is *)
(* about and the address it is mailed to.                                    *)
Mail(k, u) ==
  LET m(use, about, at) == [use |-> use, about |-> about, at |-> at]
      mine == email[u]
  IN CASE k = "resendPhone"   -> {m("PHONE", mine, FirstPhone[u])}
       [] k = "resendEmail"   -> {m("EMAIL", mine, mine)}
       [] k = "initReset"     -> {m("RESET", mine, mine)}
       [] k = "sendPhone"     -> {m("EDIT_PHONE", FirstPhone[u], a) : a \in Phones}
       [] k = "cardCode"      -> {m("CARD", mine, mine)}
       [] k = "twoFactorCode" -> {m("TWO_FACTOR", mine, mine)}
       [] k = "resendBusiness" /\ u \in Owners ->
            {m("EMAIL", businessEmail[u], businessEmail[u])}
       [] k = "updateUser"    ->
            {m("EMAIL", mine, a) : a \in {b \in Emails : b # mine \/ <<"email", u>> \notin flags}}
       [] k = "updateBusiness" /\ u \in Owners -> {m("EMAIL", a, a) : a \in Emails}
       [] OTHER -> {}

Ask(r, k, u) ==
  /\ pc[r] = "idle"
  /\ \E m \in Mail(k, u) :
       job' = [job EXCEPT ![r] = [kind |-> k, user |-> u, use |-> m.use,
                                  about |-> m.about, at |-> m.at]]
  /\ Goto(r, IF k = "updateUser" THEN "update" ELSE "issue")
  /\ UNCHANGED <<columns, got, mail, now, faults, history>>

(* updateUser writes the new email before it asks for the code; an email is  *)
(* unique.                                                                   *)
UpdateEmail(r) ==
  LET u == job[r].user IN
  /\ pc[r] = "update"
  /\ \A w \in Users \ {u} : email[w] # job[r].at
  /\ email' = [email EXCEPT ![u] = job[r].at]
  /\ flags' = flags \ {<<"email", u>>}
  /\ Goto(r, "issue")
  /\ UNCHANGED <<otp, businessEmail, secret, job, got, mail, now, faults, history>>

(* Of two codes with the same text only one is issued: the generator draws   *)
(* again.  The text holds the expiry and the address, not just the digits.   *)
SameText(x, y) == /\ x.code = y.code /\ x.expires = y.expires
                  /\ x.use = y.use /\ x.about = y.about
Fresh(x) == \A u \in Users : otp[u] \in Entries => ~SameText(x, otp[u])
Holding(s) == {u \in Users : otp[u] \in Entries /\ otp[u].serial = s}

(* A request that has read the row of u and has yet to write it. *)
Reading(r, u) == \/ pc[r] \in Taking /\ got[r].who = u
                 \/ pc[r] \in Checking /\ got[r].first = u

(* The earlier codes of other users with these digits. *)
TwinsOf(u, code) == {s \in Serials : /\ issued[s] \in Issues
                                     /\ issued[s].to # u /\ issued[s].code = code}

(* generateOtp: the code overwrites the one the row holds, whatever its use. *)
Issue(r) ==
  LET u == job[r].user  s == count + 1 IN
  /\ pc[r] = "issue"
  /\ count < MaxIssued
  /\ \E k \in Codes :
       LET x == [code |-> k, expires |-> now + Lifetime, use |-> job[r].use,
                 about |-> job[r].about, serial |-> s]
       IN /\ Fresh(x)
          /\ otp' = [otp EXCEPT ![u] = x]
          /\ issued' = [issued EXCEPT ![s] = [to |-> u, at |-> job[r].at,
                                              use |-> job[r].use, code |-> k]]
          /\ twins' = IF TwinsOf(u, k) = {} THEN twins
                      ELSE twins \cup TwinsOf(u, k) \cup {s}
  /\ count' = s
  /\ fate' = [t \in Serials |-> CASE t = s -> "live"
                                  [] t # s /\ u \in Holding(t) -> "replaced"
                                  [] OTHER -> fate[t]]
  /\ crossed' = IF \E q \in Requests : Reading(q, u) THEN crossed \cup {s} ELSE crossed
  /\ IF job[r].kind = "updateBusiness" THEN Goto(r, "finish") /\ UNCHANGED <<job, got>>
     ELSE End(r)
  /\ UNCHANGED <<email, businessEmail, flags, secret, now, faults, used, raced>>

(* The query that saves the code fails; the error is caught, so the request  *)
(* goes on and mails no code.                                                *)
IssueFails(r) ==
  /\ pc[r] = "issue"
  /\ Fault
  /\ IF job[r].kind = "updateBusiness" THEN Goto(r, "finish") /\ UNCHANGED <<job, got>>
     ELSE End(r)
  /\ UNCHANGED <<columns, mail, now, history>>

(* updateBusiness writes the new email after it has mailed the code. *)
UpdateBusiness(r) ==
  LET u == job[r].user IN
  /\ pc[r] = "finish"
  /\ \A w \in Owners \ {u} : businessEmail[w] # job[r].at
  /\ businessEmail' = [businessEmail EXCEPT ![u] = job[r].at]
  /\ flags' = flags \ {<<"business", u>>}
  /\ End(r)
  /\ UNCHANGED <<otp, email, secret, mail, now, faults, history>>
-------------------------------------------------------------------------------
(* Checks of a code the user was mailed. *)

(* What an edit is to become; the station whose pin is reset. *)
TargetsOf(k) == CASE k = "editEmail"    -> Emails
                  [] k = "editPhone"    -> Phones
                  [] k = "resetStation" -> Stations
                  [] OTHER              -> {NoTarget}

Check(r, k, u, s, a) ==
  /\ pc[r] = "idle"
  /\ issued[s] \in Issues /\ issued[s].to = u
  /\ a \in TargetsOf(k) \ {email[u]}
  /\ job' = [job EXCEPT ![r] = [kind |-> k, user |-> u, typed |-> s, target |-> a]]
  /\ Goto(r, IF k = "twoFactor" THEN "first" ELSE "find")
  /\ UNCHANGED <<columns, got, mail, now, faults, history>>

Digits(r) == issued[job[r].typed].code

(* Mutant: the first row that holds any code. *)
Holders_Any(r) == {u \in Users : otp[u] \in Entries}
Holders(r) == {u \in Users : otp[u] \in Entries /\ otp[u].code = Digits(r)}

(* The sign-in's second step looks the code up itself before it verifies it. *)
First(r) ==
  /\ pc[r] = "first"
  /\ \/ \E u \in Holders(r) : got' = [got EXCEPT ![r].first = u] /\ Goto(r, "find")
                              /\ UNCHANGED job
     \/ Holders(r) = {} /\ End(r)
  /\ UNCHANGED <<columns, mail, now, faults, history>>

UseOf(k) == CASE k = "verifyPhone" -> "PHONE"
              [] k \in {"verifyEmail", "verifyBusiness", "editEmail"} -> "EMAIL"
              [] k \in {"resetPin", "resetStation"} -> "RESET"
              [] k = "editPhone" -> "EDIT_PHONE"
              [] k = "card" -> "CARD"
              [] k = "twoFactor" -> "TWO_FACTOR"

(* The fourth field of the column, split at '-'. *)
Field(a) == IF a \in Hyphenated THEN Cut ELSE a

(* Mutant: a code serves any use. *)
Fits_AnyUse(x, r) == job[r].kind \in Edits => Field(x.about) = job[r].target
Fits(x, r) == /\ x.use = UseOf(job[r].kind)
              /\ job[r].kind \in Edits => Field(x.about) = job[r].target

(* verifyOtp: the first row with the digits is the user's. *)
Find(r) ==
  /\ pc[r] = "find"
  /\ \/ \E w \in Holders(r) :
          /\ got' = [got EXCEPT ![r] = [who |-> w, entry |-> otp[w], first |-> @.first]]
          /\ Goto(r, CASE ~Fits(otp[w], r)            -> "refuse"
                       [] Fits(otp[w], r) /\ now > otp[w].expires -> "expire"
                       [] OTHER                       -> "clear")
          /\ raced' = IF Fits(otp[w], r) /\ now <= otp[w].expires
                         /\ \E q \in Requests : /\ pc[q] = "clear"
                                                /\ got[q].entry.serial = otp[w].serial
                      THEN raced \cup {otp[w].serial} ELSE raced
     \/ Holders(r) = {} /\ Goto(r, "refuse") /\ UNCHANGED <<got, raced>>
  /\ UNCHANGED <<columns, job, mail, now, faults, fate, used, crossed, twins>>

(* "This OTP is invalid."  Mutant: a code that did not fit is taken away. *)
Refuse_Clears(r) ==
  /\ pc[r] = "refuse"
  /\ otp' = [u \in Users |-> IF u = got[r].who THEN NoRow ELSE otp[u]]
  /\ fate' = [s \in Serials |-> IF got[r].who \in Holding(s) THEN "wiped" ELSE fate[s]]
  /\ End(r)
  /\ UNCHANGED <<email, businessEmail, flags, secret, mail, now, faults,
                 used, raced, crossed, twins>>
Refuse(r) ==
  /\ pc[r] = "refuse"
  /\ End(r)
  /\ UNCHANGED <<columns, mail, now, faults, history>>

(* What becomes of the code in the row of w when request r empties it. *)
FateAfter(r, w, mine) ==
  [s \in Serials |-> CASE w \notin Holding(s)         -> fate[s]
                       [] w \in Holding(s) /\ got[r].entry.serial = s -> mine
                       [] OTHER                       -> "wiped"]

(* The column is unique: only one row at a time can be blank. *)
Expire(r) ==
  LET w == got[r].who IN
  /\ pc[r] = "expire"
  /\ IF \E u \in Users \ {w} : otp[u] = Blank THEN UNCHANGED <<otp, fate>>
     ELSE /\ otp' = [otp EXCEPT ![w] = Blank]
          /\ fate' = FateAfter(r, w, "expired")
  /\ End(r)
  /\ UNCHANGED <<email, businessEmail, flags, secret, mail, now, faults,
                 used, raced, crossed, twins>>

(* The code is accepted.  Mutant: it stays in the row. *)
Clear_Keeps(r) ==
  /\ pc[r] = "clear"
  /\ used' = [used EXCEPT ![got[r].entry.serial] = @ + 1]
  /\ Goto(r, "apply")
  /\ UNCHANGED <<columns, job, got, mail, now, faults, fate, raced, crossed, twins>>
Clear(r) ==
  LET w == got[r].who IN
  /\ pc[r] = "clear"
  /\ otp' = [otp EXCEPT ![w] = NoRow]
  /\ fate' = FateAfter(r, w, "used")
  /\ used' = [used EXCEPT ![got[r].entry.serial] = @ + 1]
  /\ Goto(r, "apply")
  /\ UNCHANGED <<email, businessEmail, flags, secret, job, got, mail, now, faults,
                 raced, crossed, twins>>

Flag(r) ==
  LET k == job[r].kind IN
  CASE k = "verifyPhone" -> {<<"phone", got[r].who>>}
    [] k = "verifyEmail" -> {<<"email", got[r].who>>}
    [] k = "verifyBusiness" /\ got[r].who \in Owners -> {<<"business", got[r].who>>}
    [] k = "twoFactor" -> {<<"twoFactor", got[r].first>>}
    [] OTHER -> {}

(* What the endpoint does with an accepted code.  An edit is of the user who *)
(* is signed in, and an edited phone number is written as the email.  The    *)
(* card's endpoints go on in CardService.                                    *)
Apply(r) ==
  LET k == job[r].kind  u == job[r].user  s == got[r].entry.serial IN
  /\ pc[r] = "apply"
  /\ flags' = flags \cup Flag(r)
  /\ secret' = CASE k = "resetPin"     -> [secret EXCEPT ![got[r].who] = s]
                 [] k = "resetStation" -> [secret EXCEPT ![job[r].target] = s]
                 [] OTHER              -> secret
  /\ IF k \in Edits /\ \A w \in Users \ {u} : email[w] # job[r].target
     THEN email' = [email EXCEPT ![u] = job[r].target] ELSE UNCHANGED email
  /\ IF k = "twoFactor"
     THEN /\ otp' = [otp EXCEPT ![got[r].first] = NoRow]
          /\ fate' = FateAfter(r, got[r].first, "wiped")
     ELSE UNCHANGED <<otp, fate>>
  /\ End(r)
  /\ UNCHANGED <<businessEmail, mail, now, faults, used, raced, crossed, twins>>

(* A query fails and the request is answered with an error; or an email or a *)
(* business email is taken.                                                  *)
Fail(r) ==
  /\ pc[r] # "idle"
  /\ \/ Fault
     \/ /\ UNCHANGED faults
        /\ \/ pc[r] = "update" /\ \E w \in Users \ {job[r].user} : email[w] = job[r].at
           \/ pc[r] = "finish" /\ \E w \in Owners \ {job[r].user} :
                                     businessEmail[w] = job[r].at
  /\ End(r)
  /\ UNCHANGED <<columns, mail, now, history>>

(* The process stops: the requests it was handling are gone. *)
Crash ==
  /\ \E r \in Requests : pc[r] # "idle"
  /\ Fault
  /\ pc' = [r \in Requests |-> "idle"]
  /\ job' = [r \in Requests |-> NoJob]
  /\ got' = [r \in Requests |-> Nothing]
  /\ UNCHANGED <<columns, mail, now, history>>

Tick ==
  /\ now < MaxTime
  /\ now' = now + 1
  /\ UNCHANGED <<columns, requests, mail, faults, history>>
-------------------------------------------------------------------------------
Step(r) == \/ UpdateEmail(r) \/ Issue(r) \/ IssueFails(r) \/ UpdateBusiness(r)
           \/ First(r) \/ Find(r) \/ Refuse(r) \/ Expire(r) \/ Clear(r) \/ Apply(r)
           \/ Fail(r)

Next ==
  \/ \E r \in Requests :
       \/ \E k \in Kinds \cap Asks, u \in Users : Ask(r, k, u)
       \/ \E k \in Kinds \cap Checks, u \in Users, s \in Serials,
             a \in Addresses \cup Stations \cup {NoTarget} : Check(r, k, u, s, a)
       \/ Step(r)
  \/ Crash \/ Tick

Spec == Init /\ [][Next]_vars
-------------------------------------------------------------------------------
(* Safety. *)

(* A code is accepted once, unless two requests found it at once: a check    *)
(* that follows an accepted one finds the column empty.                      *)
UsedTwiceNeedsRace == \A s \in Serials : used[s] > 1 => s \in raced

(* A code that was neither used, replaced by a newer one nor expired leaves  *)
(* the row only if it was issued while another request was between reading   *)
(* that row and writing it, or if somebody else has the same digits.         *)
WipedNeedsCause == \A s \in Serials : fate[s] = "wiped" => s \in crossed \cup twins

(* What the code of one user's mail changes is in that user's row, unless    *)
(* another user was issued the same digits.                                  *)
RightRow(r) ==
  (pc[r] \in Taking \cup {"apply"} /\ got[r].who # job[r].user) => job[r].typed \in twins
WrongRowNeedsTwins == \A r \in Requests : RightRow(r)

(* Whatever a row says is verified, enabled or reset, a code for that use    *)
(* and of that user was accepted; the phone number's was sent to that number.*)
Earned(u, use) == {s \in Serials : /\ issued[s] \in Issues /\ used[s] > 0
                                   /\ issued[s].to = u /\ issued[s].use = use}
Deserved(u) ==
  /\ <<"phone", u>> \in flags => \E s \in Earned(u, "PHONE") : issued[s].at = FirstPhone[u]
  /\ <<"email", u>> \in flags => \E s \in Serials : s \in Earned(u, "EMAIL")
  /\ <<"business", u>> \in flags => \E s \in Serials : s \in Earned(u, "EMAIL")
  /\ <<"twoFactor", u>> \in flags =>
       \E w \in Users : \E s \in Earned(w, "TWO_FACTOR") : w = u \/ s \in twins
  /\ secret[u] # 0 => secret[u] \in Earned(u, "RESET")
FlagsWereEarned == \A u \in Users : Deserved(u)

(* Why: serial numbers are given out in order, and two users with the same   *)
(* digits are known; ...                                                     *)
IssuesStand ==
  \A s \in Serials :
    /\ issued[s] \in Issues <=> s <= count
    /\ s > count => used[s] = 0
    /\ issued[s] \in Issues /\ issued[s].use = "PHONE" =>
         issued[s].at = FirstPhone[issued[s].to]
    /\ \A t \in Serials :
         (/\ issued[s] \in Issues /\ issued[t] \in Issues
          /\ issued[s].code = issued[t].code /\ issued[s].to # issued[t].to) => s \in twins
(* ... what a row holds was issued to its user and not yet accepted; ...     *)
IsOf(x, u) == LET i == issued[x.serial] IN
              i \in Issues /\ i.to = u /\ i.use = x.use /\ i.code = x.code
RowsStand == \A u \in Users : otp[u] \in Entries => IsOf(otp[u], u) /\ used[otp[u].serial] = 0
(* ... what a request has read was issued so, and any newer code in that row *)
(* came while the request had read it; ...                                   *)
ReadStands(r) ==
  /\ pc[r] \in Asking /\ job[r].use = "PHONE" => job[r].at = FirstPhone[job[r].user]
  /\ pc[r] \notin Checking => got[r] = Nothing
  /\ pc[r] \in Checking => /\ issued[job[r].typed] \in Issues
                           /\ issued[job[r].typed].to = job[r].user
                           /\ job[r].target \in TargetsOf(job[r].kind)
  /\ pc[r] \in Taking \cup {"apply"} =>
       /\ IsOf(got[r].entry, got[r].who)
       /\ got[r].entry.use = UseOf(job[r].kind)
       /\ got[r].entry.code = Digits(r)
  /\ pc[r] \in Taking =>
       LET w == got[r].who IN
       otp[w] \in Entries => otp[w].serial \in {got[r].entry.serial} \cup crossed
  /\ pc[r] = "apply" => used[got[r].entry.serial] > 0
(* ... and so for the row a sign-in found first; ...                         *)
FirstStands(r) ==
  LET u == got[r].first IN
  /\ pc[r] \in {"find", "apply"} \cup Taking /\ job[r].kind = "twoFactor" => u \in Users
  /\ pc[r] \in Checking /\ u \in Users =>
       \E s \in Serials : /\ issued[s] \in Issues /\ issued[s].to = u
                          /\ issued[s].code = Digits(r)
  /\ pc[r] \in Checking /\ u \in Users /\ otp[u] \in Entries /\ otp[u].serial \notin crossed =>
       otp[u].code = Digits(r) /\ (pc[r] = "apply" => u # got[r].who)
ReadsStand == \A r \in Requests : ReadStands(r) /\ FirstStands(r)
(* ... and two requests that are to accept one code have raced.              *)
TakesStand ==
  \A r \in Requests :
    pc[r] = "clear" =>
      LET s == got[r].entry.serial IN
      /\ used[s] > 0 => s \in raced
      /\ \A q \in Requests \ {r} : pc[q] = "clear" /\ got[q].entry.serial = s => s \in raced
CodesStand == /\ UsedTwiceNeedsRace /\ WipedNeedsCause /\ WrongRowNeedsTwins
              /\ FlagsWereEarned
              /\ IssuesStand /\ RowsStand /\ ReadsStand /\ TakesStand
===============================================================================
