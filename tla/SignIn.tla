--------------------------------- MODULE SignIn ---------------------------------
(***************************************************************************)
(* Signing in and staying signed in: the sign-ins of AuthService, their    *)
(* guard against guessing (loginGuard), the refresh token a row holds      *)
(* (updateRefreshToken, refreshTokens) and the switch of the second factor *)
(* (enableTwoFactorAuth, completeTwoFactorAuthentication...).              *)
(*                                                                         *)
(* Each request reads the row of its user or station ONCE, before its      *)
(* handler or at its start, and decides everything on that reading; its    *)
(* updates follow one by one with hashing in between.                      *)
(***************************************************************************)
EXTENDS Integers

CONSTANTS Users, Stations,
          Calls,      \* bound: the requests handled at once
          MaxBegun,   \* bound: the requests in all
          Limit,      \* 5: the sequential attempts that lock a user
          Window,     \* 10 minutes: how long
          Absent,
          MaxSecrets, \* bound: the authenticator secrets that are made
          MaxTime,    \* bound: time that passes; a token is known by when it is signed
          MaxFaults   \* bound: failed queries and crashes

Principals == Users \cup Stations
Times == 1 .. MaxTime + 1
Secrets == 0 .. MaxSecrets

(* "console" is the sign-in of an administrator or of a business, which *)
(* always ends in a second factor.                                      *)
SignIns == {"pin", "password", "console"}
Kinds == SignIns \cup {"station", "refresh", "toggleApp", "toggleMail", "app", "mail"}
Factors == {"off", "app", "mail"}

ASSUME SignInAssumption ==
  /\ Users \cap Stations = {}
  /\ Limit \in Nat \ {0} /\ Window \in Nat \ {0}
  /\ MaxBegun \in Nat /\ MaxSecrets \in Nat /\ MaxTime \in Nat /\ MaxFaults \in Nat
  /\ Absent \notin Principals

VARIABLES
  count, last,    \* users.numberOfSequentialLoginAttempts and lastLoginAttempt
  factor, secret, \* users.twoFactorEnabled with its type, and twoFactorSecret; 0 is null
  stored,         \* stored[x]: the token of the refreshToken column, 0 if none
  pc, job, seen, begun, \* the requests, and the row each has read
  given,          \* given[x]: the refresh tokens the clients of x were answered with
  made, now, faults,
  tries,          \* history: attempts let through since the last rest or success
  held,           \* history: held[x]: the last token that was answered, 0 if none
  confirmed,      \* history: the secret a token of which enabled the second factor
  disturbed       \* history: what requests of x at once have upset

guard == <<count, last>>
second == <<factor, secret, made, confirmed>>
tokens == <<stored, given, held>>
requests == <<pc, job, seen>>
vars == <<guard, second, tokens, requests, begun, now, faults, tries, disturbed>>

Jobs == [kind : Kinds, who : Principals \cup {Absent}, token : Times \cup {0}]
Rows == [count : Nat, last : Nat, factor : Factors, secret : Secrets,
         stored : Times \cup {0}]
NoJob == [kind |-> "pin", who |-> Absent, token |-> 0]
NoRow == [count |-> 0, last |-> 0, factor |-> "off", secret |-> 0, stored |-> 0]
Places == {"idle", "guard", "reset", "verify", "recount", "clear", "store",
           "secret", "off", "enable", "answer", "locked"}
Matters == {"guard", "factor", "token"}

TypeOK ==
  /\ count \in [Users -> Nat] /\ last \in [Users -> Nat]
  /\ factor \in [Users -> Factors] /\ secret \in [Users -> Secrets]
  /\ stored \in [Principals -> Times \cup {0}]
  /\ pc \in [Calls -> Places]
  /\ job \in [Calls -> Jobs]
  /\ \A p \in Calls : pc[p] # "idle" =>
       job[p].who \in IF job[p].kind = "station" THEN Stations
                      ELSE IF job[p].kind = "refresh" THEN Principals ELSE Users
  /\ seen \in [Calls -> Rows]
  /\ begun \in Nat
  /\ given \in [Principals -> SUBSET Times]
  /\ made \in Secrets /\ now \in Times /\ faults \in Nat
  /\ tries \in [Users -> Nat]
  /\ held \in [Principals -> Times \cup {0}]
  /\ confirmed \in [Users -> Secrets]
  /\ disturbed \subseteq Matters \X Principals

Init ==
  /\ count = [u \in Users |-> 0] /\ last = [u \in Users |-> 0]
  /\ factor = [u \in Users |-> "off"] /\ secret = [u \in Users |-> 0]
  /\ stored = [x \in Principals |-> 0]
  /\ pc = [p \in Calls |-> "idle"]
  /\ job = [p \in Calls |-> NoJob] /\ seen = [p \in Calls |-> NoRow]
  /\ given = [x \in Principals |-> {}]
  /\ made = 0 /\ begun = 0 /\ now = 1 /\ faults = 0
  /\ tries = [u \in Users |-> 0]
  /\ held = [x \in Principals |-> 0]
  /\ confirmed = [u \in Users |-> 0]
  /\ disturbed = {}
-------------------------------------------------------------------------------
Goto(p, place) == pc' = [pc EXCEPT ![p] = place] /\ UNCHANGED <<job, seen>>
(* The request is answered; what it had read is gone. *)
End(p) == /\ pc' = [pc EXCEPT ![p] = "idle"]
          /\ job' = [job EXCEPT ![p] = NoJob]
          /\ seen' = [seen EXCEPT ![p] = NoRow]
Fault == faults < MaxFaults /\ faults' = faults + 1
Who(p) == job[p].who

(* The row a sign-in looks up, or the strategy of a guard has looked up: the *)
(* columns a request of kind k decides on.                                   *)
Switches == {"toggleApp", "toggleMail"}
RowOf(k, x) ==
  CASE k \in SignIns  -> [NoRow EXCEPT !.count = count[x], !.last = last[x],
                                       !.factor = factor[x]]
    [] k \in Switches -> [NoRow EXCEPT !.factor = factor[x]]
    [] k = "app"      -> [NoRow EXCEPT !.secret = secret[x]]
    [] k = "refresh"  -> [NoRow EXCEPT !.stored = stored[x]]
    [] OTHER          -> NoRow

FirstPlace(k, row) ==
  CASE k \in SignIns -> "guard"
    [] k = "toggleApp" -> IF row.factor = "off" THEN "secret" ELSE "off"
    [] k = "toggleMail" -> "off"
    [] OTHER -> "verify"

(* A request that changes nothing of the row is not begun: a code by mail is *)
(* asked for in Codes.                                                       *)
Begin(p, k, x, t) ==
  /\ pc[p] = "idle"
  /\ begun < MaxBegun /\ begun' = begun + 1
  /\ k = "station" => x \in Stations
  /\ k \notin {"station", "refresh"} => x \in Users
  /\ k = "toggleMail" => factor[x] # "off"
  /\ IF k = "refresh" THEN t \in given[x] ELSE t = 0
  /\ job' = [job EXCEPT ![p] = [kind |-> k, who |-> x, token |-> t]]
  /\ seen' = [seen EXCEPT ![p] = RowOf(k, x)]
  /\ pc' = [pc EXCEPT ![p] = FirstPlace(k, RowOf(k, x))]
  /\ UNCHANGED <<guard, second, tokens, now, faults, tries, disturbed>>
-------------------------------------------------------------------------------
(* The guard against guessing. *)

Others(p) == {q \in Calls \ {p} : Who(q) = Who(p)}

(* Request q relies on what it has read of the attempts. *)
Counting(q) == pc[q] \in {"guard", "reset"}
UpsetCount(p) ==
  disturbed' = IF \E q \in Others(p) : Counting(q)
               THEN disturbed \cup {<<"guard", Who(p)>>} ELSE disturbed

(* Mutant: one more attempt before the user is tired. *)
Tired_OffByOne(p) == seen[p].count > Limit
Tired(p) == seen[p].count >= Limit
Locked(p) == Tired(p) /\ now - seen[p].last < Window

Attempt(u) == /\ count' = [count EXCEPT ![u] = @ + 1]
              /\ last' = [last EXCEPT ![u] = now]

(* loginGuard refuses. *)
Lock(p) ==
  /\ pc[p] = "guard" /\ Locked(p)
  /\ Goto(p, "locked")
  /\ UNCHANGED <<guard, second, tokens, begun, now, faults, tries, disturbed>>

(* loginGuard counts the attempt and lets it through. *)
Allow(p) ==
  LET u == Who(p) IN
  /\ pc[p] = "guard" /\ ~Locked(p)
  /\ Attempt(u)
  /\ tries' = [tries EXCEPT ![u] = IF now - last[u] >= Window THEN 1 ELSE @ + 1]
  /\ UpsetCount(p)
  /\ Goto(p, IF Tired(p) THEN "reset" ELSE "verify")
  /\ UNCHANGED <<second, tokens, begun, now, faults>>

(* The window is over: the count starts again, without this attempt.         *)
Reset(p) ==
  /\ pc[p] = "reset"
  /\ count' = [count EXCEPT ![Who(p)] = 0]
  /\ UpsetCount(p)
  /\ Goto(p, "verify")
  /\ UNCHANGED <<last, second, tokens, begun, now, faults, tries>>

(* The pin, device, password or token is wrong, an input.  A wrong pin calls *)
(* the guard once more, a wrong device does not.                             *)
Reject(p) ==
  /\ pc[p] = "verify"
  /\ End(p) \/ (job[p].kind = "pin" /\ Goto(p, "recount"))
  /\ UNCHANGED <<guard, second, tokens, begun, now, faults, tries, disturbed>>

(* The guard with the same reading as before: it cannot refuse now, for time *)
(* has only gone on.                                                         *)
Recount(p) ==
  /\ pc[p] = "recount"
  /\ Attempt(Who(p))
  /\ UpsetCount(p)
  /\ End(p)
  /\ UNCHANGED <<second, tokens, begun, now, faults, tries>>

(* A sign-in that needs no second factor succeeds: no attempts. *)
Clear(p) ==
  /\ pc[p] = "clear"
  /\ count' = [count EXCEPT ![Who(p)] = 0]
  /\ tries' = [tries EXCEPT ![Who(p)] = 0]
  /\ UpsetCount(p)
  /\ Goto(p, "store")
  /\ UNCHANGED <<last, second, tokens, begun, now, faults>>
-------------------------------------------------------------------------------
(* What an accepted pin, password or token leads to. *)

(* The refresh token is compared with the one in the row that was read. *)
Matches(p) == job[p].kind = "refresh" => job[p].token = seen[p].stored

(* The token is signed here; a second one of the same time is the same. *)
Sign(p, place) == /\ job' = [job EXCEPT ![p].token = now]
                  /\ pc' = [pc EXCEPT ![p] = place]
                  /\ UNCHANGED seen

Accept(p) ==
  LET k == job[p].kind  f == seen[p].factor IN
  /\ pc[p] = "verify"
  /\ Matches(p)
  /\ k = "app" => seen[p].secret # 0
  /\ \/ k \in {"pin", "password"} /\ f = "off" /\ Sign(p, "clear")
     \/ k = "console" /\ f = "off" /\ Goto(p, "secret")
     \/ k \in SignIns /\ f # "off" /\ End(p)
     \/ k \in {"station", "refresh", "app", "mail"} /\ Sign(p, "store")
  /\ UNCHANGED <<guard, second, tokens, begun, now, faults, tries, disturbed>>

(* A token that is stored and still to be answered. *)
Answering(q) == pc[q] \in {"enable", "answer"}

(* updateRefreshToken: whatever the column holds by now.  Mutant: a refresh  *)
(* answers with a new token and leaves the old one in the row.               *)
Store_KeepsOld(p) ==
  LET x == Who(p) IN
  /\ pc[p] = "store"
  /\ stored' = IF job[p].kind = "refresh" THEN stored
               ELSE [stored EXCEPT ![x] = job[p].token]
  /\ disturbed' = IF \E q \in Others(p) : Answering(q)
                  THEN disturbed \cup {<<"token", x>>}
                  ELSE disturbed \ {<<"token", x>>}
  /\ Goto(p, IF job[p].kind \in {"app", "mail"} THEN "enable" ELSE "answer")
  /\ UNCHANGED <<guard, second, given, held, begun, now, faults, tries>>
Store(p) ==
  LET x == Who(p) IN
  /\ pc[p] = "store"
  /\ stored' = [stored EXCEPT ![x] = job[p].token]
  /\ disturbed' = IF \E q \in Others(p) : Answering(q)
                  THEN disturbed \cup {<<"token", x>>}
                  ELSE disturbed \ {<<"token", x>>}
  /\ Goto(p, IF job[p].kind \in {"app", "mail"} THEN "enable" ELSE "answer")
  /\ UNCHANGED <<guard, second, given, held, begun, now, faults, tries>>

Answer(p) ==
  LET x == Who(p) IN
  /\ pc[p] = "answer"
  /\ given' = [given EXCEPT ![x] = @ \cup {job[p].token}]
  /\ held' = [held EXCEPT ![x] = job[p].token]
  /\ End(p)
  /\ UNCHANGED <<guard, second, stored, begun, now, faults, tries, disturbed>>
-------------------------------------------------------------------------------
(* The second factor. *)

(* Request q is to change the second factor on what it has read. *)
Switching(q) == /\ pc[q] \in Places \ {"idle", "locked", "answer"}
                /\ job[q].kind \in {"console", "toggleApp", "toggleMail", "app", "mail"}
UpsetFactor(p) ==
  disturbed' = IF \E q \in Others(p) : Switching(q)
               THEN disturbed \cup {<<"factor", Who(p)>>} ELSE disturbed

(* A new secret, shown or mailed; it counts once a token of it is confirmed. *)
MakeSecret(p) ==
  /\ pc[p] = "secret" /\ made < MaxSecrets
  /\ made' = made + 1
  /\ secret' = [secret EXCEPT ![Who(p)] = made']
  /\ UpsetFactor(p)
  /\ End(p)
  /\ UNCHANGED <<guard, factor, confirmed, tokens, begun, now, faults, tries>>

(* Mutant: only the secret is cleared. *)
TurnOff_SecretOnly(p) ==
  /\ pc[p] = "off"
  /\ secret' = [secret EXCEPT ![Who(p)] = 0]
  /\ UpsetFactor(p)
  /\ End(p)
  /\ UNCHANGED <<guard, factor, made, confirmed, tokens, begun, now, faults, tries>>

(* enableTwoFactorAuth for a user who had it. *)
TurnOff(p) ==
  /\ pc[p] = "off"
  /\ factor' = [factor EXCEPT ![Who(p)] = "off"]
  /\ secret' = [secret EXCEPT ![Who(p)] = 0]
  /\ UpsetFactor(p)
  /\ End(p)
  /\ UNCHANGED <<guard, made, confirmed, tokens, begun, now, faults, tries>>

(* The token of the second factor was right: it is on from now on. *)
Enable(p) ==
  LET u == Who(p) IN
  /\ pc[p] = "enable"
  /\ factor' = [factor EXCEPT ![u] = job[p].kind]
  /\ confirmed' = [confirmed EXCEPT ![u] = IF job[p].kind = "app" THEN seen[p].secret ELSE @]
  /\ UpsetFactor(p)
  /\ Goto(p, "answer")
  /\ UNCHANGED <<guard, secret, made, tokens, begun, now, faults, tries>>
-------------------------------------------------------------------------------
(* Time, failed queries and crashes. *)

(* A token that was stored and will not be answered. *)
Unheard(S) == disturbed' = disturbed \cup {<<"token", Who(p)>> : p \in {q \in S : Answering(q)}}

Dismiss(p) ==
  /\ pc[p] = "locked"
  /\ End(p)
  /\ UNCHANGED <<guard, second, tokens, begun, now, faults, tries, disturbed>>

Fail(p) ==
  /\ pc[p] \notin {"idle", "locked"}
  /\ Fault
  /\ Unheard({p})
  /\ End(p)
  /\ UNCHANGED <<guard, second, tokens, begun, now, tries>>

Crash ==
  /\ \E p \in Calls : pc[p] # "idle"
  /\ Fault
  /\ Unheard(Calls)
  /\ pc' = [p \in Calls |-> "idle"]
  /\ job' = [p \in Calls |-> NoJob]
  /\ seen' = [p \in Calls |-> NoRow]
  /\ UNCHANGED <<guard, second, tokens, begun, now, tries>>

Tick ==
  /\ now <= MaxTime
  /\ now' = now + 1
  /\ UNCHANGED <<guard, second, tokens, requests, begun, faults, tries, disturbed>>
-------------------------------------------------------------------------------
Step(p) == \/ Lock(p) \/ Allow(p) \/ Reset(p) \/ Reject(p) \/ Recount(p) \/ Clear(p)
           \/ Accept(p) \/ Store(p) \/ Answer(p)
           \/ MakeSecret(p) \/ TurnOff(p) \/ Enable(p) \/ Dismiss(p) \/ Fail(p)

Next ==
  \/ \E p \in Calls :
       \/ \E k \in Kinds, x \in Principals, t \in Times \cup {0} : Begin(p, k, x, t)
       \/ Step(p)
  \/ Crash \/ Tick

Spec == Init /\ [][Next]_vars
-------------------------------------------------------------------------------
(* Safety. *)

(* The guard lets Limit attempts through between two rests of the window,    *)
(* and one more at the start, which is not counted, unless attempts of one   *)
(* user overlapped.                                                          *)
GuessesAreBounded ==
  \A u \in Users : tries[u] <= Limit + 1 \/ <<"guard", u>> \in disturbed

(* When nothing of x is being served, the token in its row is the one that   *)
(* was answered last, so staying signed in works, unless a later token was   *)
(* stored before an earlier one was answered, or a token never was.          *)
HeldIsStored ==
  \A x \in Principals :
    (\A p \in Calls : Who(p) = x => ~Answering(p)) =>
      stored[x] = held[x] \/ <<"token", x>> \in disturbed

(* A user whose second factor is an app can use it: the row holds the secret *)
(* a token of which was confirmed, unless requests that change the second    *)
(* factor overlapped.                                                        *)
AppIsUsable ==
  \A u \in Users :
    factor[u] = "app" => \/ secret[u] # 0 /\ secret[u] = confirmed[u]
                         \/ <<"factor", u>> \in disturbed

(* Why: what a request that nobody disturbed has read still holds, ...       *)
CountStands ==
  /\ \A u \in Users :
       <<"guard", u>> \notin disturbed => tries[u] <= count[u] + 1
  /\ \A p \in Calls :
       (Counting(p) /\ <<"guard", Who(p)>> \notin disturbed) =>
         IF pc[p] = "guard" THEN seen[p].count = count[Who(p)] /\ seen[p].last = last[Who(p)]
         ELSE tries[Who(p)] <= 1
TokenStands ==
  \A p, q \in Calls :
    (Answering(p) /\ Who(q) = Who(p) /\ <<"token", Who(p)>> \notin disturbed) =>
      stored[Who(p)] = job[p].token /\ (Answering(q) => q = p)
FactorStands ==
  \A p \in Calls :
    (Switching(p) /\ <<"factor", Who(p)>> \notin disturbed) =>
      /\ pc[p] = "secret" => factor[Who(p)] = "off"
      /\ job[p].kind = "app" => seen[p].secret = secret[Who(p)]
      /\ job[p].kind = "console" => seen[p].factor = factor[Who(p)]
      /\ pc[p] \in {"store", "enable"} /\ job[p].kind = "app" => seen[p].secret # 0
(* ... and a place in the code is one of its handler's.                      *)
PlacesStand ==
  \A p \in Calls :
    LET k == job[p].kind IN
    /\ pc[p] = "idle" => job[p] = NoJob
    /\ pc[p] \in {"guard", "reset", "locked", "recount", "clear"} => k \in SignIns
    /\ pc[p] = "secret" => k \in {"console", "toggleApp"}
    /\ pc[p] = "off" => k \in Switches
    /\ pc[p] = "enable" => k \in {"app", "mail"}
    /\ pc[p] \in {"clear", "store", "enable", "answer"} => job[p].token # 0
SignInStands == /\ GuessesAreBounded /\ HeldIsStored /\ AppIsUsable
                /\ CountStands /\ TokenStands /\ FactorStands /\ PlacesStand
===============================================================================
