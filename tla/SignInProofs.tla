----------------------------- MODULE SignInProofs ------------------------------
(***************************************************************************)
(* Theorems about SignIn, for every number of users, stations and requests *)
(* at once, every limit and every window.                                  *)
(***************************************************************************)
EXTENDS SignIn, TLAPS

SignInInv == TypeOK /\ SignInStands

LEMMA NextCases ==
  ASSUME [Next]_vars
  PROVE  \/ \E p \in Calls, k \in Kinds, x \in Principals, t \in Times \cup {0} :
              Begin(p, k, x, t)
         \/ \E p \in Calls : Lock(p)
         \/ \E p \in Calls : Allow(p)
         \/ \E p \in Calls : Reset(p)
         \/ \E p \in Calls : Reject(p)
         \/ \E p \in Calls : Recount(p)
         \/ \E p \in Calls : Clear(p)
         \/ \E p \in Calls : Accept(p)
         \/ \E p \in Calls : Store(p)
         \/ \E p \in Calls : Answer(p)
         \/ \E p \in Calls : MakeSecret(p)
         \/ \E p \in Calls : TurnOff(p)
         \/ \E p \in Calls : Enable(p)
         \/ \E p \in Calls : Dismiss(p)
         \/ \E p \in Calls : Fail(p)
         \/ Crash
         \/ Tick
         \/ UNCHANGED vars
  BY DEF Next, Step

(* A request that has not ended is somebody's, and a sign-in is a user's. *)
LEMMA WhoIs ==
  ASSUME TypeOK, PlacesStand, NEW p \in Calls, pc[p] # "idle"
  PROVE  /\ Who(p) \in Principals
         /\ job[p].kind \notin {"station", "refresh"} => Who(p) \in Users
         /\ job[p] \in Jobs /\ seen[p] \in Rows
         /\ pc[p] \in {"guard", "reset", "recount", "clear", "secret", "off", "enable"} =>
              Who(p) \in Users
  BY DEF TypeOK, PlacesStand, Who, Principals, SignIns, Switches

(* What a request reads of a row is of the row's type. *)
LEMMA RowType ==
  ASSUME TypeOK, NEW k \in Kinds, NEW x \in Principals,
         k \notin {"station", "refresh"} => x \in Users
  PROVE  RowOf(k, x) \in Rows
<1>0. NoRow \in Rows
  BY SignInAssumption DEF Rows, NoRow, Factors, Secrets
<1>1. CASE k \in SignIns
  <2>1. x \in Users
    BY <1>1 DEF SignIns
  <2>2. RowOf(k, x) = [NoRow EXCEPT !.count = count[x], !.last = last[x], !.factor = factor[x]]
    BY <1>1 DEF RowOf, SignIns, Switches
  <2>3. count[x] \in Nat /\ last[x] \in Nat /\ factor[x] \in Factors
    BY <2>1 DEF TypeOK
  <2>4. QED
    BY <1>0, <2>2, <2>3 DEF Rows
<1>2. CASE k \in Switches
  <2>1. x \in Users /\ k \notin SignIns
    BY <1>2 DEF Switches, SignIns
  <2>2. RowOf(k, x) = [NoRow EXCEPT !.factor = factor[x]] /\ factor[x] \in Factors
    BY <1>2, <2>1 DEF RowOf, TypeOK, SignIns, Switches
  <2>3. QED
    BY <1>0, <2>2 DEF Rows
<1>3. CASE k = "app"
  <2>1. x \in Users
    BY <1>3
  <2>2. RowOf(k, x) = [NoRow EXCEPT !.secret = secret[x]] /\ secret[x] \in Secrets
    BY <1>3, <2>1 DEF RowOf, TypeOK, Switches, SignIns
  <2>3. QED
    BY <1>0, <2>2 DEF Rows
<1>4. CASE k = "refresh"
  <2>1. RowOf(k, x) = [NoRow EXCEPT !.stored = stored[x]] /\ stored[x] \in Times \cup {0}
    BY <1>4 DEF RowOf, TypeOK, Switches, SignIns
  <2>2. QED
    BY <1>0, <2>1 DEF Rows
<1>5. CASE k \in {"station", "mail"}
  BY <1>0, <1>5 DEF RowOf, Switches, SignIns
<1>6. QED
  BY <1>1, <1>2, <1>3, <1>4, <1>5 DEF Kinds, Switches
-------------------------------------------------------------------------------
(* The type invariant and the places. *)

LEMMA StartOK == Init => TypeOK /\ PlacesStand
<1> SUFFICES ASSUME Init PROVE TypeOK /\ PlacesStand
  OBVIOUS
<1>1. NoJob \in Jobs /\ NoRow \in Rows
  BY SignInAssumption DEF NoJob, Jobs, Kinds, SignIns, NoRow, Rows, Factors, Secrets
<1>2. 1 \in Times /\ 0 \in Secrets
  BY SignInAssumption DEF Times, Secrets
<1>3. TypeOK
  BY <1>1, <1>2 DEF Init, TypeOK, Factors, Places
<1>4. PlacesStand
  BY DEF Init, PlacesStand
<1>5. QED
  BY <1>3, <1>4

LEMMA BeginOK ==
  ASSUME TypeOK, PlacesStand, NEW p \in Calls, NEW k \in Kinds,
         NEW x \in Principals, NEW t \in Times \cup {0}, Begin(p, k, x, t)
  PROVE  TypeOK' /\ PlacesStand'
<1>1. k \notin {"station", "refresh"} => x \in Users
  BY DEF Begin
<1>2. RowOf(k, x) \in Rows /\ [kind |-> k, who |-> x, token |-> t] \in Jobs
  BY <1>1, RowType DEF Jobs
<1>3. FirstPlace(k, RowOf(k, x)) \in {"guard", "secret", "off", "verify"}
  BY DEF FirstPlace
<1>4. TypeOK'
  <2>1. /\ pc' = [pc EXCEPT ![p] = FirstPlace(k, RowOf(k, x))]
        /\ job' = [job EXCEPT ![p] = [kind |-> k, who |-> x, token |-> t]]
        /\ seen' = [seen EXCEPT ![p] = RowOf(k, x)]
        /\ begun' = begun + 1
        /\ k = "station" => x \in Stations
    BY DEF Begin
  <2>2. /\ pc' \in [Calls -> Places] /\ begun' \in Nat
        /\ job' \in [Calls -> Jobs] /\ seen' \in [Calls -> Rows]
    BY <1>2, <1>3, <2>1 DEF TypeOK, Places
  <2>3. \A q \in Calls : pc'[q] # "idle" =>
          job'[q].who \in IF job'[q].kind = "station" THEN Stations
                          ELSE IF job'[q].kind = "refresh" THEN Principals ELSE Users
    BY <1>1, <2>1 DEF TypeOK
  <2>4. QED
    BY <2>2, <2>3 DEF Begin, TypeOK, guard, second, tokens
<1>5. PlacesStand'
  <2>1. CASE k \in SignIns
    BY <2>1, <1>2 DEF Begin, TypeOK, PlacesStand, FirstPlace, SignIns, Switches
  <2>2. CASE k = "toggleApp"
    BY <2>2, <1>2 DEF Begin, TypeOK, PlacesStand, FirstPlace, SignIns, Switches
  <2>3. CASE k = "toggleMail"
    BY <2>3, <1>2 DEF Begin, TypeOK, PlacesStand, FirstPlace, SignIns, Switches
  <2>4. CASE k \notin SignIns \cup Switches
    BY <2>4, <1>2 DEF Begin, TypeOK, PlacesStand, FirstPlace, SignIns, Switches
  <2>5. QED
    BY <2>1, <2>2, <2>3, <2>4 DEF Switches
<1>6. QED
  BY <1>4, <1>5

(* The places of one request, and what it had read when it ends. *)
LEMMA GotoOK ==
  ASSUME TypeOK, PlacesStand, NEW p \in Calls, pc[p] # "idle", NEW place \in Places,
         \/ End(p)
         \/ /\ Goto(p, place)
            /\ LET k == job[p].kind IN
               /\ place # "idle"
               /\ place \in {"guard", "reset", "locked", "recount", "clear"} => k \in SignIns
               /\ place = "secret" => k \in {"console", "toggleApp"}
               /\ place = "off" => k \in Switches
               /\ place = "enable" => k \in {"app", "mail"}
               /\ place \in {"clear", "store", "enable", "answer"} => job[p].token # 0
  PROVE  /\ pc' \in [Calls -> Places]
         /\ job' \in [Calls -> Jobs] /\ seen' \in [Calls -> Rows]
         /\ \A q \in Calls : pc'[q] # "idle" =>
              job'[q].who \in IF job'[q].kind = "station" THEN Stations
                              ELSE IF job'[q].kind = "refresh" THEN Principals ELSE Users
         /\ PlacesStand'
<1>1. NoJob \in Jobs /\ NoRow \in Rows /\ "idle" \in Places
  BY SignInAssumption DEF NoJob, Jobs, Kinds, SignIns, NoRow, Rows, Factors, Secrets, Places
<1>2. CASE End(p)
  BY <1>1, <1>2 DEF TypeOK, PlacesStand, End
<1>3. CASE Goto(p, place)
  BY <1>3 DEF TypeOK, PlacesStand, Goto, End
<1>4. QED
  BY <1>2, <1>3

LEMMA UpsetOK ==
  ASSUME TypeOK, NEW p \in Calls, Who(p) \in Principals,
         UpsetCount(p) \/ UpsetFactor(p)
  PROVE  disturbed' \subseteq Matters \X Principals
  BY DEF TypeOK, UpsetCount, UpsetFactor, Matters

LEMMA UnheardOK ==
  ASSUME TypeOK, PlacesStand, NEW S \in SUBSET Calls, Unheard(S)
  PROVE  disturbed' \subseteq Matters \X Principals
  BY WhoIs DEF TypeOK, Unheard, Answering, Matters
-------------------------------------------------------------------------------
(* What a step leaves alone: each part of the invariant survives a step that *)
(* keeps its columns and in which no request starts to rely on them.         *)

LEMMA CountKept ==
  ASSUME SignInInv, UNCHANGED <<count, last, tries>>,
         \A u \in Users : <<"guard", u>> \in disturbed => <<"guard", u>> \in disturbed',
         \A q \in Calls : Counting(q)' =>
           /\ pc'[q] = pc[q] /\ job'[q].who = job[q].who /\ seen'[q] = seen[q]
  PROVE  (GuessesAreBounded /\ CountStands)'
<1>1. GuessesAreBounded'
  BY DEF SignInInv, SignInStands, GuessesAreBounded
<1>2. ASSUME NEW q \in Calls, Counting(q)', (<<"guard", Who(q)>> \notin disturbed)'
      PROVE  (IF pc[q] = "guard"
              THEN seen[q].count = count[Who(q)] /\ seen[q].last = last[Who(q)]
              ELSE tries[Who(q)] <= 1)'
  <2>1. Counting(q) /\ Who(q)' = Who(q) /\ pc[q] # "idle"
    BY <1>2 DEF Counting, Who
  <2>2. Who(q) \in Users
    BY <2>1, WhoIs DEF Counting, SignInInv, SignInStands
  <2>3. QED
    BY <1>2, <2>1, <2>2 DEF SignInInv, SignInStands, CountStands
<1>3. CountStands'
  BY <1>2 DEF SignInInv, SignInStands, CountStands
<1>4. QED
  BY <1>1, <1>3

LEMMA TokenKept ==
  ASSUME SignInInv, UNCHANGED <<stored, held>>,
         \A x \in Principals : <<"token", x>> \in disturbed => <<"token", x>> \in disturbed',
         \A q \in Calls : Answering(q)' => Answering(q) /\ job'[q] = job[q],
         \A q \in Calls : Answering(q) =>
           \/ Answering(q)' /\ job'[q] = job[q]
           \/ <<"token", Who(q)>> \in disturbed'
  PROVE  (HeldIsStored /\ TokenStands)'
<1>1. \A q \in Calls : Answering(q) => Who(q) \in Principals
  BY WhoIs DEF Answering, SignInInv, SignInStands
<1>2. TokenStands'
  BY <1>1 DEF SignInInv, SignInStands, TokenStands, Who
<1>3. HeldIsStored'
  BY <1>1 DEF SignInInv, SignInStands, HeldIsStored, Who
<1>4. QED
  BY <1>2, <1>3

LEMMA FactorKept ==
  ASSUME SignInInv, UNCHANGED <<factor, secret, confirmed>>,
         \A u \in Users : <<"factor", u>> \in disturbed => <<"factor", u>> \in disturbed',
         \A q \in Calls : Switching(q)' =>
           /\ Switching(q) /\ seen'[q] = seen[q]
           /\ job'[q].who = job[q].who /\ job'[q].kind = job[q].kind
           /\ pc'[q] = "secret" =>
                pc[q] = "secret" \/ (job[q].kind = "console" /\ seen[q].factor = "off")
           /\ pc'[q] \in {"store", "enable"} /\ job[q].kind = "app" =>
                pc[q] \in {"store", "enable"} \/ seen[q].secret # 0
  PROVE  (AppIsUsable /\ FactorStands)'
<1>1. AppIsUsable'
  BY DEF SignInInv, SignInStands, AppIsUsable
<1>2. \A q \in Calls : Switching(q) => Who(q) \in Users
  BY WhoIs DEF Switching, SignInInv, SignInStands
<1>3. FactorStands'
  BY <1>2 DEF SignInInv, SignInStands, FactorStands, Who
<1>4. QED
  BY <1>1, <1>3
-------------------------------------------------------------------------------
(* The actions. *)

LEMMA Begins ==
  ASSUME SignInInv, NEW p \in Calls, NEW k \in Kinds, NEW x \in Principals,
         NEW t \in Times \cup {0}, Begin(p, k, x, t)
  PROVE  SignInInv'
<1>1. TypeOK' /\ PlacesStand'
  BY BeginOK DEF SignInInv, SignInStands
<1>2. /\ UNCHANGED <<guard, second, tokens, tries, disturbed>>
      /\ pc[p] = "idle" /\ pc'[p] = FirstPlace(k, RowOf(k, x))
      /\ job'[p] = [kind |-> k, who |-> x, token |-> t] /\ seen'[p] = RowOf(k, x)
      /\ k \notin {"station", "refresh"} => x \in Users
      /\ \A q \in Calls \ {p} : pc'[q] = pc[q] /\ job'[q] = job[q] /\ seen'[q] = seen[q]
  BY DEF Begin, SignInInv, TypeOK
<1>3. (GuessesAreBounded /\ CountStands)'
  <2>1. GuessesAreBounded'
    BY <1>2 DEF guard, SignInInv, SignInStands, GuessesAreBounded
  <2>2. ASSUME Counting(p)'
        PROVE  /\ pc'[p] = "guard" /\ x \in Users
               /\ seen'[p].count = count[x] /\ seen'[p].last = last[x]
    <3>1. k \in SignIns /\ pc'[p] = "guard"
      BY <1>2, <2>2 DEF Counting, FirstPlace, SignIns
    <3>2. x \in Users
      BY <1>2, <3>1 DEF SignIns
    <3>3. RowOf(k, x) = [NoRow EXCEPT !.count = count[x], !.last = last[x], !.factor = factor[x]]
      BY <3>1 DEF RowOf, SignIns, Switches
    <3>4. QED
      BY <1>2, <3>1, <3>2, <3>3 DEF NoRow
  <2>3. CountStands'
    BY <1>2, <2>2 DEF guard, SignInInv, SignInStands, CountStands, Counting, Who
  <2>4. QED
    BY <2>1, <2>3
<1>4. ~Answering(p) /\ ~Answering(p)'
  BY <1>2 DEF Answering, FirstPlace, SignIns
<1>5. (HeldIsStored /\ TokenStands)'
  <2>1. \A q \in Calls : Answering(q)' <=> Answering(q)
    BY <1>2, <1>4 DEF Answering
  <2>2. \A q \in Calls : Answering(q) => job'[q] = job[q]
    BY <1>2, <1>4
  <2>3. QED
    BY <1>2, <2>1, <2>2, TokenKept DEF tokens
<1>6. (AppIsUsable /\ FactorStands)'
  <2>1. AppIsUsable'
    BY <1>2 DEF second, SignInInv, SignInStands, AppIsUsable
  <2>2. Switching(p)' =>
          /\ x \in Users
          /\ pc'[p] = "secret" => factor[x] = "off"
          /\ k = "app" => seen'[p].secret = secret[x]
          /\ k = "console" => seen'[p].factor = factor[x]
          /\ ~(pc'[p] \in {"store", "enable"})
    <3>1. Switching(p)' => x \in Users /\ k \in {"console", "toggleApp", "toggleMail", "app", "mail"}
      BY <1>2 DEF Switching
    <3>2. CASE k = "console"
      BY <1>2, <3>1, <3>2 DEF RowOf, SignIns, Switches, NoRow, FirstPlace
    <3>3. CASE k \in Switches
      BY <1>2, <3>1, <3>3 DEF RowOf, SignIns, Switches, NoRow, FirstPlace
    <3>4. CASE k = "app"
      BY <1>2, <3>1, <3>4 DEF RowOf, SignIns, Switches, NoRow, FirstPlace
    <3>5. CASE k = "mail"
      BY <1>2, <3>1, <3>5 DEF FirstPlace, SignIns
    <3>6. QED
      BY <3>1, <3>2, <3>3, <3>4, <3>5 DEF Switches
  <2>3. ASSUME NEW q \in Calls \ {p}
        PROVE  /\ Switching(q)' <=> Switching(q)
               /\ Who(q)' = Who(q)
    BY <1>2 DEF Switching, Who
  <2>4. FactorStands'
    BY <1>2, <2>2, <2>3 DEF second, SignInInv, SignInStands, FactorStands, Who
  <2>5. QED
    BY <2>1, <2>4
<1>7. QED
  BY <1>1, <1>3, <1>5, <1>6 DEF SignInInv, SignInStands

(* A step that moves one request on or ends it, and touches no row. *)
LEMMA Quiet ==
  ASSUME SignInInv, NEW p \in Calls, Lock(p) \/ Reject(p) \/ Dismiss(p)
  PROVE  SignInInv'
<1>1. /\ pc[p] # "idle" /\ ~Answering(p)
      /\ UNCHANGED <<guard, second, tokens, begun, now, faults, tries, disturbed>>
      /\ \E place \in {"locked", "recount"} :
           /\ End(p) \/ Goto(p, place)
           /\ job[p].kind \in SignIns \/ End(p)
  BY DEF Lock, Reject, Dismiss, Answering, SignInInv, SignInStands, PlacesStand, SignIns
<1>2. PICK place \in {"locked", "recount"} : /\ End(p) \/ Goto(p, place)
                                             /\ job[p].kind \in SignIns \/ End(p)
  BY <1>1
<1>3. TypeOK' /\ PlacesStand'
  <2>1. place \in Places
    BY DEF Places
  <2>2. QED
    BY <1>1, <1>2, <2>1, GotoOK
       DEF SignInInv, SignInStands, TypeOK, guard, second, tokens
<1>4. /\ pc'[p] \in {"idle", "locked", "recount"}
      /\ pc'[p] # "idle" => job'[p] = job[p] /\ seen'[p] = seen[p]
      /\ \A q \in Calls \ {p} : pc'[q] = pc[q] /\ job'[q] = job[q] /\ seen'[q] = seen[q]
  BY <1>2 DEF End, Goto, SignInInv, TypeOK
<1>5. (GuessesAreBounded /\ CountStands)'
  BY <1>1, <1>4, CountKept DEF Counting, guard
<1>6. (HeldIsStored /\ TokenStands)'
  <2>1. ~Answering(p)'
    BY <1>4 DEF Answering
  <2>2. \A q \in Calls \ {p} : Answering(q)' <=> Answering(q)
    BY <1>4 DEF Answering
  <2>3. QED
    BY <1>1, <1>4, <2>1, <2>2, TokenKept DEF tokens
<1>7. (AppIsUsable /\ FactorStands)'
  <2>1. ~Switching(p)'
    <3>1. pc'[p] \in {"idle", "locked"} \/ (pc'[p] = "recount" /\ job[p].kind = "pin")
      BY <1>4 DEF Lock, Reject, Dismiss, Goto, End, SignInInv, TypeOK
    <3>2. QED
      BY <1>4, <3>1 DEF Switching
  <2>2. \A q \in Calls \ {p} : Switching(q)' => Switching(q)
    BY <1>4 DEF Switching
  <2>3. QED
    BY <1>1, <1>4, <2>1, <2>2, FactorKept DEF second
<1>8. QED
  BY <1>3, <1>5, <1>6, <1>7 DEF SignInInv, SignInStands

(* One request moves on, or ends: the others stay where they are. *)
LEMMA OneMoves ==
  ASSUME SignInInv, NEW p \in Calls, NEW place \in Places, Goto(p, place) \/ End(p)
  PROVE  /\ \A q \in Calls \ {p} : pc'[q] = pc[q] /\ job'[q] = job[q] /\ seen'[q] = seen[q]
         /\ \/ pc'[p] = place /\ job'[p] = job[p] /\ seen'[p] = seen[p]
            \/ pc'[p] = "idle"
  BY DEF Goto, End, SignInInv, TypeOK

(* What an update of the attempts leaves to show: the user it is for. *)
LEMMA CountChanged ==
  ASSUME SignInInv, NEW p \in Calls, NEW u \in Users, u = Who(p), UpsetCount(p),
         \A v \in Users \ {u} : count'[v] = count[v] /\ last'[v] = last[v] /\ tries'[v] = tries[v],
         \A q \in Calls \ {p} : pc'[q] = pc[q] /\ job'[q] = job[q] /\ seen'[q] = seen[q],
         <<"guard", u>> \notin disturbed' => tries'[u] <= count'[u] + 1 /\ tries'[u] <= Limit + 1,
         Counting(p)' => /\ pc'[p] = "reset" /\ Who(p)' = u
                         /\ <<"guard", u>> \notin disturbed' => tries'[u] <= 1
  PROVE  (GuessesAreBounded /\ CountStands)'
<1>1. \A v \in Users \ {u} : <<"guard", v>> \in disturbed' <=> <<"guard", v>> \in disturbed
  BY DEF UpsetCount
<1>2. \A q \in Calls \ {p} : (Counting(q) /\ Who(q) = u) => <<"guard", u>> \in disturbed'
  BY DEF UpsetCount, Others
<1>3. \A q \in Calls : Counting(q) => Who(q) \in Users
  BY WhoIs DEF Counting, SignInInv, SignInStands
<1>4. GuessesAreBounded'
  BY <1>1 DEF SignInInv, SignInStands, GuessesAreBounded
<1>5. (\A v \in Users : <<"guard", v>> \notin disturbed => tries[v] <= count[v] + 1)'
  BY <1>1 DEF SignInInv, SignInStands, CountStands
<1>6. ASSUME NEW q \in Calls \ {p}, Counting(q)', (<<"guard", Who(q)>> \notin disturbed)'
      PROVE  (IF pc[q] = "guard"
              THEN seen[q].count = count[Who(q)] /\ seen[q].last = last[Who(q)]
              ELSE tries[Who(q)] <= 1)'
  <2>1. Counting(q) /\ Who(q)' = Who(q)
    BY <1>6 DEF Counting, Who
  <2>2. Who(q) \in Users \ {u}
    BY <1>2, <1>3, <1>6, <2>1
  <2>3. <<"guard", Who(q)>> \notin disturbed
    BY <1>1, <1>6, <2>1, <2>2
  <2>4. IF pc[q] = "guard"
        THEN seen[q].count = count[Who(q)] /\ seen[q].last = last[Who(q)]
        ELSE tries[Who(q)] <= 1
    BY <2>1, <2>3 DEF SignInInv, SignInStands, CountStands
  <2>5. QED
    BY <2>1, <2>2, <2>4
<1>7. CountStands'
  BY <1>5, <1>6 DEF CountStands
<1>8. QED
  BY <1>4, <1>7

(* An update of the attempts touches neither the tokens nor the second factor. *)
LEMMA CountOnly ==
  ASSUME SignInInv, NEW p \in Calls, pc[p] \in {"guard", "reset", "recount", "clear"},
         UpsetCount(p), UNCHANGED <<second, tokens>>,
         NEW place \in {"reset", "verify", "store"}, Goto(p, place) \/ End(p)
  PROVE  (HeldIsStored /\ TokenStands /\ AppIsUsable /\ FactorStands)'
<1>1. \A q \in Calls \ {p} : pc'[q] = pc[q] /\ job'[q] = job[q] /\ seen'[q] = seen[q]
  BY OneMoves DEF Places
<1>2. \/ pc'[p] = place /\ job'[p] = job[p] /\ seen'[p] = seen[p]
      \/ pc'[p] = "idle"
  BY OneMoves DEF Places
<1>3. disturbed \subseteq disturbed'
  BY DEF UpsetCount
<1>4. (HeldIsStored /\ TokenStands)'
  <2>1. ~Answering(p) /\ ~Answering(p)'
    BY <1>2 DEF Answering
  <2>2. \A q \in Calls \ {p} : Answering(q)' <=> Answering(q)
    BY <1>1 DEF Answering
  <2>3. QED
    BY <1>1, <1>3, <2>1, <2>2, TokenKept DEF tokens
<1>5. (AppIsUsable /\ FactorStands)'
  <2>1. job[p].kind \in SignIns
    BY DEF SignInInv, SignInStands, PlacesStand
  <2>2. Switching(p)' => /\ Switching(p) /\ seen'[p] = seen[p] /\ job'[p] = job[p]
                         /\ pc'[p] # "secret" /\ job[p].kind # "app"
    BY <1>2, <2>1 DEF Switching, Places, SignIns
  <2>3. \A q \in Calls \ {p} : Switching(q)' => Switching(q)
    BY <1>1 DEF Switching
  <2>4. QED
    BY <1>1, <1>3, <2>2, <2>3, FactorKept DEF second
<1>6. QED
  BY <1>4, <1>5

LEMMA Allows ==
  ASSUME SignInInv, NEW p \in Calls, Allow(p)
  PROVE  SignInInv'
<1> DEFINE u == Who(p)
           place == IF Tired(p) THEN "reset" ELSE "verify"
<1>1. /\ pc[p] = "guard" /\ ~Locked(p) /\ Attempt(u) /\ UpsetCount(p) /\ Goto(p, place)
      /\ tries' = [tries EXCEPT ![u] = IF now - last[u] >= Window THEN 1 ELSE @ + 1]
      /\ UNCHANGED <<second, tokens, begun, now, faults>>
  BY DEF Allow
<1>2. u \in Users /\ u \in Principals /\ seen[p] \in Rows /\ job[p].kind \in SignIns
  BY <1>1, WhoIs DEF SignInInv, SignInStands, PlacesStand
<1>3. place \in Places
  BY DEF Places
<1>4. TypeOK' /\ PlacesStand'
  <2>1. /\ pc' \in [Calls -> Places] /\ PlacesStand'
        /\ job' \in [Calls -> Jobs] /\ seen' \in [Calls -> Rows]
        /\ \A q \in Calls : pc'[q] # "idle" =>
             job'[q].who \in IF job'[q].kind = "station" THEN Stations
                             ELSE IF job'[q].kind = "refresh" THEN Principals ELSE Users
    BY <1>1, <1>2, <1>3, GotoOK DEF SignInInv, SignInStands
  <2>2. /\ count' \in [Users -> Nat] /\ last' \in [Users -> Nat] /\ tries' \in [Users -> Nat]
    BY <1>1, <1>2 DEF SignInInv, TypeOK, Attempt, Times
  <2>3. disturbed' \subseteq Matters \X Principals
    BY <1>1, <1>2, UpsetOK DEF SignInInv
  <2>4. QED
    BY <1>1, <2>1, <2>2, <2>3 DEF SignInInv, TypeOK, second, tokens
<1>5. (HeldIsStored /\ TokenStands /\ AppIsUsable /\ FactorStands)'
  BY <1>1, CountOnly
<1>6. (GuessesAreBounded /\ CountStands)'
  <2>1. \A q \in Calls \ {p} : pc'[q] = pc[q] /\ job'[q] = job[q] /\ seen'[q] = seen[q]
    BY <1>1, <1>3, OneMoves
  <2>2. pc'[p] = place /\ Who(p)' = u
    BY <1>1 DEF Goto, Who, SignInInv, TypeOK
  <2>3. \A v \in Users \ {u} : count'[v] = count[v] /\ last'[v] = last[v] /\ tries'[v] = tries[v]
    BY <1>1 DEF Attempt, SignInInv, TypeOK
  <2>4. /\ count'[u] = count[u] + 1
        /\ tries'[u] = IF now - last[u] >= Window THEN 1 ELSE tries[u] + 1
    BY <1>1, <1>2 DEF Attempt, SignInInv, TypeOK
  <2>5. ASSUME <<"guard", u>> \notin disturbed'
        PROVE  /\ tries[u] <= count[u] + 1
               /\ seen[p].count = count[u] /\ seen[p].last = last[u]
    BY <1>1, <1>2, <2>5 DEF UpsetCount, Counting, SignInInv, SignInStands, CountStands
  <2>6. /\ count[u] \in Nat /\ last[u] \in Nat /\ tries[u] \in Nat /\ now \in Nat
        /\ Limit \in Nat /\ Window \in Nat
    BY <1>2, SignInAssumption DEF SignInInv, TypeOK, Times
  <2>7. <<"guard", u>> \notin disturbed' => tries'[u] <= count'[u] + 1 /\ tries'[u] <= Limit + 1
    BY <1>1, <2>4, <2>5, <2>6 DEF Locked, Tired
  <2>8. Counting(p)' => /\ pc'[p] = "reset"
                        /\ <<"guard", u>> \notin disturbed' => tries'[u] <= 1
    <3>1. Counting(p)' => pc'[p] = "reset" /\ Tired(p)
      BY <2>2 DEF Counting
    <3>2. <<"guard", u>> \notin disturbed' /\ Tired(p) => tries'[u] <= 1
      BY <1>1, <2>4, <2>5, <2>6 DEF Locked
    <3>3. QED
      BY <3>1, <3>2
  <2>9. QED
    BY <1>1, <1>2, <2>1, <2>2, <2>3, <2>7, <2>8, CountChanged
<1>7. QED
  BY <1>4, <1>5, <1>6 DEF SignInInv, SignInStands

(* The updates that never raise what the guard let through over the count. *)
LEMMA Counts ==
  ASSUME SignInInv, NEW p \in Calls, Reset(p) \/ Recount(p) \/ Clear(p)
  PROVE  SignInInv'
<1> DEFINE u == Who(p)
<1>1. /\ pc[p] \in {"reset", "recount", "clear"} /\ UpsetCount(p)
      /\ UNCHANGED <<second, tokens, begun, now, faults>>
      /\ \E place \in {"verify", "store"} : /\ Goto(p, place) \/ End(p)
                                            /\ place = "store" => job[p].token # 0
  BY DEF Reset, Recount, Clear, SignInInv, SignInStands, PlacesStand
<1>2. PICK place \in {"verify", "store"} : /\ Goto(p, place) \/ End(p)
                                           /\ place = "store" => job[p].token # 0
  BY <1>1
<1>3. u \in Users /\ u \in Principals /\ place \in Places
  BY <1>1, WhoIs DEF SignInInv, SignInStands, Places, Principals
<1>4. /\ \A v \in Users \ {u} : count'[v] = count[v] /\ last'[v] = last[v] /\ tries'[v] = tries[v]
      /\ count' \in [Users -> Nat] /\ last' \in [Users -> Nat] /\ tries' \in [Users -> Nat]
      /\ \/ count'[u] = 0 /\ tries'[u] = 0
         \/ pc[p] = "reset" /\ count'[u] = 0 /\ tries'[u] = tries[u]
         \/ count'[u] = count[u] + 1 /\ tries'[u] = tries[u]
  BY <1>1, <1>3 DEF Reset, Recount, Clear, Attempt, SignInInv, TypeOK, Times
<1>5. TypeOK' /\ PlacesStand'
  <2>1. /\ pc' \in [Calls -> Places] /\ PlacesStand'
        /\ job' \in [Calls -> Jobs] /\ seen' \in [Calls -> Rows]
        /\ \A q \in Calls : pc'[q] # "idle" =>
             job'[q].who \in IF job'[q].kind = "station" THEN Stations
                             ELSE IF job'[q].kind = "refresh" THEN Principals ELSE Users
    BY <1>1, <1>2, <1>3, GotoOK DEF SignInInv, SignInStands
  <2>2. disturbed' \subseteq Matters \X Principals
    BY <1>1, <1>3, UpsetOK DEF SignInInv
  <2>3. QED
    BY <1>1, <1>4, <2>1, <2>2 DEF SignInInv, TypeOK, second, tokens
<1>6. (HeldIsStored /\ TokenStands /\ AppIsUsable /\ FactorStands)'
  BY <1>1, <1>2, CountOnly
<1>7. (GuessesAreBounded /\ CountStands)'
  <2>1. /\ \A q \in Calls \ {p} : pc'[q] = pc[q] /\ job'[q] = job[q] /\ seen'[q] = seen[q]
        /\ pc'[p] = place \/ pc'[p] = "idle"
    BY <1>2, <1>3, OneMoves
  <2>2. ASSUME <<"guard", u>> \notin disturbed'
        PROVE  /\ tries[u] <= count[u] + 1 /\ tries[u] <= Limit + 1
               /\ pc[p] = "reset" => tries[u] <= 1
    BY <1>1, <1>3, <2>2
       DEF UpsetCount, Counting, SignInInv, SignInStands, CountStands, GuessesAreBounded
  <2>3. count[u] \in Nat /\ tries[u] \in Nat /\ Limit \in Nat
    BY <1>3, SignInAssumption DEF SignInInv, TypeOK
  <2>4. <<"guard", u>> \notin disturbed' => tries'[u] <= count'[u] + 1 /\ tries'[u] <= Limit + 1
    BY <1>4, <2>2, <2>3
  <2>5. ~Counting(p)'
    BY <2>1 DEF Counting
  <2>6. QED
    BY <1>1, <1>3, <1>4, <2>1, <2>4, <2>5, CountChanged
<1>8. QED
  BY <1>5, <1>6, <1>7 DEF SignInInv, SignInStands

LEMMA Accepts ==
  ASSUME SignInInv, NEW p \in Calls, Accept(p)
  PROVE  SignInInv'
<1>1. /\ pc[p] = "verify" /\ UNCHANGED <<guard, second, tokens, begun, now, faults, tries, disturbed>>
      /\ \A q \in Calls \ {p} : pc'[q] = pc[q] /\ job'[q] = job[q] /\ seen'[q] = seen[q]
  BY DEF Accept, Sign, Goto, End, SignInInv, TypeOK
<1>2. job[p] \in Jobs /\ now \in Times /\ now # 0
  BY DEF SignInInv, TypeOK, Times
<1>3. \/ pc'[p] = "idle" /\ job'[p] = NoJob /\ seen'[p] = NoRow
      \/ /\ seen'[p] = seen[p]
         /\ job'[p] \in Jobs /\ job'[p].who = job[p].who /\ job'[p].kind = job[p].kind
         /\ pc'[p] \in {"clear", "store"} => job'[p].token # 0
         /\ \/ pc'[p] = "clear" /\ job[p].kind \in {"pin", "password"}
            \/ pc'[p] = "secret" /\ job[p].kind = "console" /\ seen[p].factor = "off"
            \/ /\ pc'[p] = "store" /\ job[p].kind \in {"station", "refresh", "app", "mail"}
               /\ job[p].kind = "app" => seen[p].secret # 0
  <2>1. CASE End(p)
    BY <2>1 DEF End, SignInInv, TypeOK
  <2>2. CASE Sign(p, "clear") /\ job[p].kind \in {"pin", "password"}
    BY <1>2, <2>2 DEF Sign, SignInInv, TypeOK, Jobs
  <2>3. CASE Sign(p, "store") /\ job[p].kind \in {"station", "refresh", "app", "mail"}
    BY <1>2, <2>3 DEF Accept, Sign, SignInInv, TypeOK, Jobs
  <2>4. CASE Goto(p, "secret") /\ job[p].kind = "console" /\ seen[p].factor = "off"
    BY <1>2, <2>4 DEF Goto, SignInInv, TypeOK
  <2>5. QED
    BY <2>1, <2>2, <2>3, <2>4 DEF Accept
<1>4. TypeOK' /\ PlacesStand'
  <2>1. NoJob \in Jobs /\ NoRow \in Rows
    BY SignInAssumption DEF NoJob, Jobs, Kinds, SignIns, NoRow, Rows, Factors, Secrets
  <2>2. job' \in [Calls -> Jobs] /\ seen' \in [Calls -> Rows] /\ pc' \in [Calls -> Places]
    <3>1. job'[p] \in Jobs /\ seen'[p] \in Rows /\ pc'[p] \in Places
      BY <1>3, <2>1 DEF SignInInv, TypeOK, Places
    <3>2. \A f \in {job', seen', pc'} : f = [q \in Calls |-> f[q]]
      BY DEF Accept, Sign, Goto, End, SignInInv, TypeOK
    <3>3. QED
      BY <1>1, <3>1, <3>2 DEF SignInInv, TypeOK
  <2>3. \A q \in Calls : pc'[q] # "idle" =>
          job'[q].who \in IF job'[q].kind = "station" THEN Stations
                          ELSE IF job'[q].kind = "refresh" THEN Principals ELSE Users
    BY <1>1, <1>3 DEF SignInInv, TypeOK
  <2>4. PlacesStand'
    BY <1>1, <1>3 DEF SignInInv, SignInStands, PlacesStand, SignIns
  <2>5. QED
    BY <1>1, <2>2, <2>3, <2>4 DEF SignInInv, TypeOK, guard, second, tokens
<1>5. (GuessesAreBounded /\ CountStands)'
  <2>1. ~Counting(p)'
    BY <1>3 DEF Counting
  <2>2. QED
    BY <1>1, <2>1, CountKept DEF Counting, guard
<1>6. (HeldIsStored /\ TokenStands)'
  <2>1. ~Answering(p) /\ ~Answering(p)'
    BY <1>1, <1>3 DEF Answering
  <2>2. \A q \in Calls \ {p} : Answering(q)' <=> Answering(q)
    BY <1>1 DEF Answering
  <2>3. QED
    BY <1>1, <2>1, <2>2, TokenKept DEF tokens
<1>7. (AppIsUsable /\ FactorStands)'
  <2>1. Switching(p)' => /\ Switching(p) /\ seen'[p] = seen[p]
                         /\ job'[p].who = job[p].who /\ job'[p].kind = job[p].kind
                         /\ pc'[p] = "secret" => job[p].kind = "console" /\ seen[p].factor = "off"
                         /\ pc'[p] \in {"store", "enable"} /\ job[p].kind = "app" =>
                              seen[p].secret # 0
    BY <1>1, <1>3 DEF Switching, Places
  <2>2. \A q \in Calls \ {p} : Switching(q)' => Switching(q)
    BY <1>1 DEF Switching
  <2>3. QED
    BY <1>1, <2>1, <2>2, FactorKept DEF second
<1>8. QED
  BY <1>4, <1>5, <1>6, <1>7 DEF SignInInv, SignInStands

(* A token stored over one that is still to be answered upsets it; one that  *)
(* is stored when no other is on its way makes up for what was lost before.  *)
LEMMA Stores ==
  ASSUME SignInInv, NEW p \in Calls, Store(p)
  PROVE  SignInInv'
<1> DEFINE x == Who(p)
           place == IF job[p].kind \in {"app", "mail"} THEN "enable" ELSE "answer"
<1>1. /\ pc[p] = "store" /\ Goto(p, place)
      /\ stored' = [stored EXCEPT ![x] = job[p].token]
      /\ disturbed' = IF \E q \in Others(p) : Answering(q)
                      THEN disturbed \cup {<<"token", x>>} ELSE disturbed \ {<<"token", x>>}
      /\ UNCHANGED <<guard, second, given, held, begun, now, faults, tries>>
  BY DEF Store
<1>2. x \in Principals /\ job[p] \in Jobs /\ place \in Places /\ job[p].token # 0
  BY <1>1, WhoIs DEF SignInInv, SignInStands, PlacesStand, Places
<1>3. /\ \A q \in Calls \ {p} : pc'[q] = pc[q] /\ job'[q] = job[q] /\ seen'[q] = seen[q]
      /\ pc'[p] = place /\ job'[p] = job[p] /\ seen'[p] = seen[p]
  BY <1>1 DEF Goto, SignInInv, TypeOK
<1>4. TypeOK' /\ PlacesStand'
  <2>1. /\ pc' \in [Calls -> Places] /\ PlacesStand'
        /\ job' \in [Calls -> Jobs] /\ seen' \in [Calls -> Rows]
        /\ \A q \in Calls : pc'[q] # "idle" =>
             job'[q].who \in IF job'[q].kind = "station" THEN Stations
                             ELSE IF job'[q].kind = "refresh" THEN Principals ELSE Users
    BY <1>1, <1>2, GotoOK DEF SignInInv, SignInStands
  <2>2. stored' \in [Principals -> Times \cup {0}]
    BY <1>1, <1>2 DEF SignInInv, TypeOK, Jobs
  <2>3. disturbed' \subseteq Matters \X Principals
    BY <1>1, <1>2 DEF SignInInv, TypeOK, Matters
  <2>4. QED
    BY <1>1, <2>1, <2>2, <2>3 DEF SignInInv, TypeOK, guard, second
<1>5. (GuessesAreBounded /\ CountStands)'
  BY <1>1, <1>3, CountKept DEF Counting, guard
<1>6. (AppIsUsable /\ FactorStands)'
  <2>1. Switching(p)' => Switching(p) /\ pc'[p] # "secret"
    BY <1>1, <1>3 DEF Switching, Places
  <2>2. \A q \in Calls \ {p} : Switching(q)' => Switching(q)
    BY <1>3 DEF Switching
  <2>3. QED
    BY <1>1, <1>3, <2>1, <2>2, FactorKept DEF second
<1>7. (HeldIsStored /\ TokenStands)'
  <2>1. /\ ~Answering(p) /\ Answering(p)'
        /\ \A q \in Calls : Who(q)' = Who(q)
        /\ \A q \in Calls \ {p} : Answering(q)' <=> Answering(q)
    BY <1>1, <1>3 DEF Answering, Who
  <2>2. /\ \A y \in Principals \ {x} : stored'[y] = stored[y]
        /\ stored'[x] = job[p].token
    BY <1>1, <1>2 DEF SignInInv, TypeOK
  <2>3. \A y : y # x => (<<"token", y>> \in disturbed' <=> <<"token", y>> \in disturbed)
    BY <1>1
  <2>4. HeldIsStored'
    BY <1>1, <2>1, <2>2, <2>3 DEF SignInInv, SignInStands, HeldIsStored
  <2>5. <<"token", x>> \notin disturbed' => \A q \in Calls \ {p} : Who(q) = x => ~Answering(q)
    BY <1>1 DEF Others
  <2>6. \A q \in Calls : Answering(q) => Who(q) \in Principals
    BY WhoIs DEF Answering, SignInInv, SignInStands
  <2>7. ASSUME NEW q \in Calls, NEW r \in Calls, Answering(q)', Who(r)' = Who(q)',
               (<<"token", Who(q)>> \notin disturbed)'
        PROVE  (stored[Who(q)] = job[q].token /\ (Answering(r) => r = q))'
    <3>1. CASE Who(q) = x
      BY <1>3, <2>1, <2>2, <2>5, <2>7, <3>1
    <3>2. CASE Who(q) # x
      <4>1. q # p /\ Answering(q) /\ Who(q) \in Principals \ {x} /\ r # p
        BY <2>1, <2>6, <2>7, <3>2
      <4>2. stored[Who(q)] = job[q].token /\ (Answering(r) => r = q)
        BY <2>1, <2>3, <2>7, <3>2, <4>1 DEF SignInInv, SignInStands, TokenStands
      <4>3. QED
        BY <1>3, <2>1, <2>2, <4>1, <4>2
    <3>3. QED
      BY <3>1, <3>2
  <2>8. TokenStands'
    BY <2>7 DEF TokenStands
  <2>9. QED
    BY <2>4, <2>8
<1>8. QED
  BY <1>4, <1>5, <1>6, <1>7 DEF SignInInv, SignInStands

LEMMA Answers ==
  ASSUME SignInInv, NEW p \in Calls, Answer(p)
  PROVE  SignInInv'
<1> DEFINE x == Who(p)
<1>1. /\ pc[p] = "answer" /\ End(p)
      /\ given' = [given EXCEPT ![x] = @ \cup {job[p].token}]
      /\ held' = [held EXCEPT ![x] = job[p].token]
      /\ UNCHANGED <<guard, second, stored, begun, now, faults, tries, disturbed>>
  BY DEF Answer
<1>2. x \in Principals /\ job[p] \in Jobs /\ Answering(p)
  BY <1>1, WhoIs DEF SignInInv, SignInStands, Answering
<1>3. /\ \A q \in Calls \ {p} : pc'[q] = pc[q] /\ job'[q] = job[q] /\ seen'[q] = seen[q]
      /\ pc'[p] = "idle"
  BY <1>1 DEF End, SignInInv, TypeOK
<1>4. TypeOK' /\ PlacesStand'
  <2>1. /\ pc' \in [Calls -> Places] /\ PlacesStand'
        /\ job' \in [Calls -> Jobs] /\ seen' \in [Calls -> Rows]
        /\ \A q \in Calls : pc'[q] # "idle" =>
             job'[q].who \in IF job'[q].kind = "station" THEN Stations
                             ELSE IF job'[q].kind = "refresh" THEN Principals ELSE Users
    BY <1>1, GotoOK DEF SignInInv, SignInStands, Places
  <2>2. job[p].token \in Times
    BY <1>1, <1>2 DEF Jobs, SignInInv, SignInStands, PlacesStand
  <2>3. held' \in [Principals -> Times \cup {0}] /\ given' \in [Principals -> SUBSET Times]
    BY <1>1, <1>2, <2>2 DEF SignInInv, TypeOK
  <2>4. QED
    BY <1>1, <2>1, <2>3 DEF SignInInv, TypeOK, guard, second
<1>5. (GuessesAreBounded /\ CountStands)'
  BY <1>1, <1>3, CountKept DEF Counting, guard
<1>6. (AppIsUsable /\ FactorStands)'
  <2>1. ~Switching(p)'
    BY <1>3 DEF Switching
  <2>2. \A q \in Calls \ {p} : Switching(q)' => Switching(q)
    BY <1>3 DEF Switching
  <2>3. QED
    BY <1>1, <1>3, <2>1, <2>2, FactorKept DEF second
<1>7. (HeldIsStored /\ TokenStands)'
  <2>1. /\ ~Answering(p)'
        /\ \A q \in Calls \ {p} : (Answering(q)' <=> Answering(q)) /\ Who(q)' = Who(q)
    BY <1>3 DEF Answering, Who
  <2>2. /\ \A y \in Principals \ {x} : held'[y] = held[y]
        /\ held'[x] = job[p].token
    BY <1>1, <1>2 DEF SignInInv, TypeOK
  <2>3. <<"token", x>> \notin disturbed =>
          /\ stored[x] = job[p].token
          /\ \A q \in Calls \ {p} : Who(q) = x => ~Answering(q)
    BY <1>2 DEF SignInInv, SignInStands, TokenStands
  <2>4. HeldIsStored'
    BY <1>1, <1>2, <2>1, <2>2, <2>3 DEF SignInInv, SignInStands, HeldIsStored
  <2>5. TokenStands'
    BY <1>1, <1>3, <2>1 DEF SignInInv, SignInStands, TokenStands
  <2>6. QED
    BY <2>4, <2>5
<1>8. QED
  BY <1>4, <1>5, <1>6, <1>7 DEF SignInInv, SignInStands

(* What a switch of the second factor leaves to show: the user it is for. *)
LEMMA FactorChanged ==
  ASSUME SignInInv, NEW p \in Calls, NEW u \in Users, u = Who(p), UpsetFactor(p),
         \A v \in Users \ {u} : /\ factor'[v] = factor[v] /\ secret'[v] = secret[v]
                                /\ confirmed'[v] = confirmed[v],
         \A q \in Calls \ {p} : pc'[q] = pc[q] /\ job'[q] = job[q] /\ seen'[q] = seen[q],
         ~Switching(p)',
         <<"factor", u>> \notin disturbed' /\ factor'[u] = "app" =>
           secret'[u] # 0 /\ secret'[u] = confirmed'[u]
  PROVE  (AppIsUsable /\ FactorStands)'
<1>1. \A v \in Users \ {u} : <<"factor", v>> \in disturbed' <=> <<"factor", v>> \in disturbed
  BY DEF UpsetFactor
<1>2. \A q \in Calls \ {p} : (Switching(q) /\ Who(q) = u) => <<"factor", u>> \in disturbed'
  BY DEF UpsetFactor, Others
<1>3. \A q \in Calls : Switching(q) => Who(q) \in Users
  BY WhoIs DEF Switching, SignInInv, SignInStands
<1>4. AppIsUsable'
  BY <1>1 DEF SignInInv, SignInStands, AppIsUsable
<1>5. ASSUME NEW q \in Calls, Switching(q)', (<<"factor", Who(q)>> \notin disturbed)'
      PROVE  /\ q # p /\ Switching(q) /\ Who(q)' = Who(q) /\ Who(q) \in Users \ {u}
             /\ <<"factor", Who(q)>> \notin disturbed
  <2>1. q # p /\ Switching(q) /\ Who(q)' = Who(q)
    BY <1>5 DEF Switching, Who
  <2>2. Who(q) \in Users \ {u}
    BY <1>2, <1>3, <1>5, <2>1
  <2>3. QED
    BY <1>1, <1>5, <2>1, <2>2
<1>6. ASSUME NEW q \in Calls, Switching(q)', (<<"factor", Who(q)>> \notin disturbed)'
      PROVE  /\ pc'[q] = "secret" => factor'[Who(q)'] = "off"
             /\ job'[q].kind = "app" => seen'[q].secret = secret'[Who(q)']
             /\ job'[q].kind = "console" => seen'[q].factor = factor'[Who(q)']
             /\ pc'[q] \in {"store", "enable"} /\ job'[q].kind = "app" => seen'[q].secret # 0
  <2>1. /\ pc'[q] = pc[q] /\ job'[q] = job[q] /\ seen'[q] = seen[q] /\ Who(q)' = Who(q)
        /\ factor'[Who(q)] = factor[Who(q)] /\ secret'[Who(q)] = secret[Who(q)]
    BY <1>5, <1>6
  <2>2. Switching(q) /\ <<"factor", Who(q)>> \notin disturbed
    BY <1>5, <1>6
  <2>3. QED
    BY <2>1, <2>2 DEF SignInInv, SignInStands, FactorStands
<1>7. FactorStands'
  BY <1>6 DEF FactorStands
<1>8. QED
  BY <1>4, <1>7

LEMMA SwitchesFactor ==
  ASSUME SignInInv, NEW p \in Calls, MakeSecret(p) \/ TurnOff(p) \/ Enable(p)
  PROVE  SignInInv'
<1> DEFINE u == Who(p)
<1>1. /\ pc[p] \in {"secret", "off", "enable"} /\ UpsetFactor(p)
      /\ UNCHANGED <<guard, tokens, begun, now, faults, tries>>
      /\ End(p) \/ (pc[p] = "enable" /\ Goto(p, "answer"))
  BY DEF MakeSecret, TurnOff, Enable
<1>2. u \in Users /\ u \in Principals /\ job[p] \in Jobs /\ seen[p] \in Rows
  BY <1>1, WhoIs DEF SignInInv, SignInStands, Principals
<1>3. /\ \A q \in Calls \ {p} : pc'[q] = pc[q] /\ job'[q] = job[q] /\ seen'[q] = seen[q]
      /\ \/ pc[p] = "enable" /\ pc'[p] = "answer" /\ job'[p] = job[p]
         \/ pc[p] # "enable" /\ pc'[p] = "idle"
  BY DEF MakeSecret, TurnOff, Enable, Goto, End, SignInInv, TypeOK
<1>4. /\ factor' \in [Users -> Factors] /\ secret' \in [Users -> Secrets]
      /\ confirmed' \in [Users -> Secrets] /\ made' \in Secrets
      /\ \A v \in Users \ {u} : /\ factor'[v] = factor[v] /\ secret'[v] = secret[v]
                                /\ confirmed'[v] = confirmed[v]
  <2>1. CASE MakeSecret(p)
    <3>1. made' \in Secrets /\ made' = made + 1
      BY <2>1, SignInAssumption DEF MakeSecret, Secrets, SignInInv, TypeOK
    <3>2. QED
      BY <1>2, <2>1, <3>1 DEF MakeSecret, SignInInv, TypeOK
  <2>2. CASE TurnOff(p)
    <3>1. 0 \in Secrets
      BY SignInAssumption DEF Secrets
    <3>2. QED
      BY <1>2, <2>2, <3>1 DEF TurnOff, SignInInv, TypeOK, Factors
  <2>3. CASE Enable(p)
    <3>1. job[p].kind \in Factors /\ seen[p].secret \in Secrets
      BY <1>2, <2>3 DEF Enable, SignInInv, SignInStands, PlacesStand, Factors, Rows
    <3>2. QED
      BY <1>2, <2>3, <3>1 DEF Enable, SignInInv, TypeOK
  <2>4. QED
    BY <2>1, <2>2, <2>3
<1>5. TypeOK' /\ PlacesStand'
  <2>1. /\ pc' \in [Calls -> Places] /\ PlacesStand'
        /\ job' \in [Calls -> Jobs] /\ seen' \in [Calls -> Rows]
        /\ \A q \in Calls : pc'[q] # "idle" =>
             job'[q].who \in IF job'[q].kind = "station" THEN Stations
                             ELSE IF job'[q].kind = "refresh" THEN Principals ELSE Users
    <3>1. pc[p] = "enable" => job[p].token # 0
      BY DEF SignInInv, SignInStands, PlacesStand
    <3>2. "answer" \in Places
      BY DEF Places
    <3>3. QED
      BY <1>1, <3>1, <3>2, GotoOK DEF SignInInv, SignInStands
  <2>2. disturbed' \subseteq Matters \X Principals
    BY <1>1, <1>2, UpsetOK DEF SignInInv
  <2>3. QED
    BY <1>1, <1>4, <2>1, <2>2 DEF SignInInv, TypeOK, guard, tokens
<1>6. disturbed \subseteq disturbed'
  BY <1>1 DEF UpsetFactor
<1>7. (GuessesAreBounded /\ CountStands)'
  <2>1. \A q \in Calls : Counting(q)' => q # p
    BY <1>3 DEF Counting
  <2>2. QED
    BY <1>1, <1>3, <1>6, <2>1, CountKept DEF guard
<1>8. (HeldIsStored /\ TokenStands)'
  <2>1. \A q \in Calls : Answering(q)' <=> Answering(q)
    BY <1>1, <1>3 DEF Answering
  <2>2. \A q \in Calls : Answering(q) => job'[q] = job[q]
    BY <1>1, <1>3 DEF Answering
  <2>3. QED
    BY <1>1, <1>6, <2>1, <2>2, TokenKept DEF tokens
<1>9. (AppIsUsable /\ FactorStands)'
  <2>1. ~Switching(p)'
    BY <1>3 DEF Switching
  <2>2. ASSUME <<"factor", u>> \notin disturbed', factor'[u] = "app"
        PROVE  secret'[u] # 0 /\ secret'[u] = confirmed'[u]
    <3>1. <<"factor", u>> \notin disturbed
      BY <1>6, <2>2
    <3>2. CASE MakeSecret(p)
      <4>1. Switching(p)
        BY <3>2 DEF MakeSecret, Switching, Places, SignInInv, SignInStands, PlacesStand
      <4>2. factor[u] = "off"
        BY <3>1, <3>2, <4>1 DEF MakeSecret, SignInInv, SignInStands, FactorStands
      <4>3. QED
        BY <2>2, <3>2, <4>2 DEF MakeSecret
    <3>3. CASE TurnOff(p)
      BY <1>2, <2>2, <3>3 DEF TurnOff, SignInInv, TypeOK
    <3>4. CASE Enable(p)
      <4>1. job[p].kind = "app" /\ confirmed'[u] = seen[p].secret /\ secret'[u] = secret[u]
        BY <1>2, <2>2, <3>4 DEF Enable, SignInInv, TypeOK
      <4>2. Switching(p) /\ pc[p] = "enable"
        BY <3>4, <4>1 DEF Enable, Switching, Places
      <4>3. seen[p].secret = secret[u] /\ seen[p].secret # 0
        BY <3>1, <4>1, <4>2 DEF SignInInv, SignInStands, FactorStands
      <4>4. QED
        BY <4>1, <4>3
    <3>5. QED
      BY <3>2, <3>3, <3>4
  <2>3. QED
    BY <1>1, <1>2, <1>3, <1>4, <2>1, <2>2, FactorChanged
<1>10. QED
  BY <1>5, <1>7, <1>8, <1>9 DEF SignInInv, SignInStands

(* A failed query ends one request, a crash all of them; a token that was    *)
(* stored for one of them is never answered.                                 *)
LEMMA Fails ==
  ASSUME SignInInv, NEW p \in Calls, Fail(p)
  PROVE  SignInInv'
<1>1. /\ pc[p] # "idle" /\ End(p) /\ Unheard({p}) /\ faults' = faults + 1
      /\ UNCHANGED <<guard, second, tokens, begun, now, tries>>
  BY DEF Fail, Fault
<1>2. /\ \A q \in Calls \ {p} : pc'[q] = pc[q] /\ job'[q] = job[q] /\ seen'[q] = seen[q]
      /\ pc'[p] = "idle"
  BY <1>1 DEF End, SignInInv, TypeOK
<1>3. TypeOK' /\ PlacesStand'
  <2>1. /\ pc' \in [Calls -> Places] /\ PlacesStand'
        /\ job' \in [Calls -> Jobs] /\ seen' \in [Calls -> Rows]
        /\ \A q \in Calls : pc'[q] # "idle" =>
             job'[q].who \in IF job'[q].kind = "station" THEN Stations
                             ELSE IF job'[q].kind = "refresh" THEN Principals ELSE Users
    BY <1>1, GotoOK DEF SignInInv, SignInStands, Places
  <2>2. disturbed' \subseteq Matters \X Principals
    BY <1>1, UnheardOK DEF SignInInv, SignInStands
  <2>3. QED
    BY <1>1, <2>1, <2>2 DEF SignInInv, TypeOK, guard, second, tokens
<1>4. disturbed \subseteq disturbed' /\ (Answering(p) => <<"token", Who(p)>> \in disturbed')
  BY <1>1 DEF Unheard
<1>5. (GuessesAreBounded /\ CountStands)'
  <2>1. \A q \in Calls : Counting(q)' => q # p
    BY <1>2 DEF Counting
  <2>2. QED
    BY <1>1, <1>2, <1>4, <2>1, CountKept DEF guard
<1>6. (HeldIsStored /\ TokenStands)'
  <2>1. /\ ~Answering(p)'
        /\ \A q \in Calls \ {p} : Answering(q)' <=> Answering(q)
    BY <1>2 DEF Answering
  <2>2. QED
    BY <1>1, <1>2, <1>4, <2>1, TokenKept DEF tokens
<1>7. (AppIsUsable /\ FactorStands)'
  <2>1. /\ ~Switching(p)'
        /\ \A q \in Calls \ {p} : Switching(q)' => Switching(q)
    BY <1>2 DEF Switching
  <2>2. QED
    BY <1>1, <1>2, <1>4, <2>1, FactorKept DEF second
<1>8. QED
  BY <1>3, <1>5, <1>6, <1>7 DEF SignInInv, SignInStands

LEMMA Crashes ==
  ASSUME SignInInv, Crash
  PROVE  SignInInv'
<1>1. /\ \A q \in Calls : pc'[q] = "idle" /\ job'[q] = NoJob
      /\ Unheard(Calls) /\ faults' = faults + 1
      /\ UNCHANGED <<guard, second, tokens, begun, now, tries>>
  BY DEF Crash, Fault
<1>2. TypeOK' /\ PlacesStand'
  <2>1. NoJob \in Jobs /\ NoRow \in Rows /\ "idle" \in Places
    BY SignInAssumption DEF NoJob, Jobs, Kinds, SignIns, NoRow, Rows, Factors, Secrets, Places
  <2>2. pc' \in [Calls -> Places] /\ job' \in [Calls -> Jobs] /\ seen' \in [Calls -> Rows]
    BY <2>1 DEF Crash
  <2>3. disturbed' \subseteq Matters \X Principals
    BY <1>1, UnheardOK DEF SignInInv, SignInStands
  <2>4. TypeOK'
    BY <1>1, <2>2, <2>3 DEF SignInInv, TypeOK, guard, second, tokens
  <2>5. PlacesStand'
    BY <1>1 DEF PlacesStand
  <2>6. QED
    BY <2>4, <2>5
<1>3. /\ disturbed \subseteq disturbed'
      /\ \A q \in Calls : Answering(q) => <<"token", Who(q)>> \in disturbed'
  BY <1>1 DEF Unheard
<1>4. \A q \in Calls : ~Counting(q)' /\ ~Answering(q)' /\ ~Switching(q)'
  BY <1>1 DEF Counting, Answering, Switching
<1>5. (GuessesAreBounded /\ CountStands)'
  BY <1>1, <1>3, <1>4, CountKept DEF guard
<1>6. (HeldIsStored /\ TokenStands)'
  BY <1>1, <1>3, <1>4, TokenKept DEF tokens
<1>7. (AppIsUsable /\ FactorStands)'
  BY <1>1, <1>3, <1>4, FactorKept DEF second
<1>8. QED
  BY <1>2, <1>5, <1>6, <1>7 DEF SignInInv, SignInStands

(* Time passes, or nothing happens. *)
LEMMA Ticks ==
  ASSUME SignInInv, Tick \/ UNCHANGED vars
  PROVE  SignInInv'
<1>1. /\ UNCHANGED <<guard, second, tokens, requests, begun, faults, tries, disturbed>>
      /\ now' \in Times
  BY SignInAssumption DEF Tick, vars, SignInInv, TypeOK, Times
<1>2. TypeOK'
  BY <1>1 DEF SignInInv, TypeOK, guard, second, tokens, requests
<1>3. PlacesStand'
  BY <1>1 DEF SignInInv, SignInStands, PlacesStand, requests
<1>4. (GuessesAreBounded /\ CountStands)'
  BY <1>1, CountKept DEF guard, requests
<1>5. (HeldIsStored /\ TokenStands)'
  BY <1>1, TokenKept DEF tokens, requests, Answering
<1>6. (AppIsUsable /\ FactorStands)'
  BY <1>1, FactorKept DEF second, requests, Switching
<1>7. QED
  BY <1>2, <1>3, <1>4, <1>5, <1>6 DEF SignInInv, SignInStands
-------------------------------------------------------------------------------
(* The theorems. *)

LEMMA Starts == Init => SignInInv
<1> SUFFICES ASSUME Init PROVE SignInInv
  OBVIOUS
<1>1. TypeOK /\ PlacesStand
  BY StartOK
<1>2. \A q \in Calls : ~Counting(q) /\ ~Answering(q) /\ ~Switching(q)
  BY DEF Init, Counting, Answering, Switching
<1>3. GuessesAreBounded /\ CountStands
  BY <1>2, SignInAssumption DEF Init, GuessesAreBounded, CountStands
<1>4. HeldIsStored /\ TokenStands
  BY <1>2 DEF Init, HeldIsStored, TokenStands
<1>5. AppIsUsable /\ FactorStands
  BY <1>2 DEF Init, AppIsUsable, FactorStands
<1>6. QED
  BY <1>1, <1>3, <1>4, <1>5 DEF SignInInv, SignInStands

(* The state is of its types, and what a request that nobody disturbed has   *)
(* read still holds when it is acted on, with everything that follows.       *)
THEOREM SignInStandsHolds == Spec => [](TypeOK /\ SignInStands)
<1>1. SignInInv /\ [Next]_vars => SignInInv'
  <2> SUFFICES ASSUME SignInInv, [Next]_vars PROVE SignInInv'
    OBVIOUS
  <2>1. ASSUME NEW p \in Calls, NEW k \in Kinds, NEW x \in Principals,
               NEW t \in Times \cup {0}, Begin(p, k, x, t)
        PROVE  SignInInv'
    BY <2>1, Begins
  <2>2. ASSUME NEW p \in Calls, Lock(p) \/ Reject(p) \/ Dismiss(p) PROVE SignInInv'
    BY <2>2, Quiet
  <2>3. ASSUME NEW p \in Calls, Allow(p) PROVE SignInInv'
    BY <2>3, Allows
  <2>4. ASSUME NEW p \in Calls, Reset(p) \/ Recount(p) \/ Clear(p) PROVE SignInInv'
    BY <2>4, Counts
  <2>5. ASSUME NEW p \in Calls, Accept(p) PROVE SignInInv'
    BY <2>5, Accepts
  <2>6. ASSUME NEW p \in Calls, Store(p) PROVE SignInInv'
    BY <2>6, Stores
  <2>7. ASSUME NEW p \in Calls, Answer(p) PROVE SignInInv'
    BY <2>7, Answers
  <2>8. ASSUME NEW p \in Calls, MakeSecret(p) \/ TurnOff(p) \/ Enable(p) PROVE SignInInv'
    BY <2>8, SwitchesFactor
  <2>9. ASSUME NEW p \in Calls, Fail(p) PROVE SignInInv'
    BY <2>9, Fails
  <2>10. QED
    BY <2>1, <2>2, <2>3, <2>4, <2>5, <2>6, <2>7, <2>8, <2>9, Crashes, Ticks, NextCases
<1>2. QED
  BY <1>1, Starts, PTL DEF Spec, SignInInv

(* Counters, tokens, second factors and requests keep their types. *)
THEOREM TypeCorrect == Spec => []TypeOK
BY SignInStandsHolds, PTL

(* Between two rests of the window no more than Limit + 1 attempts at the    *)
(* pin or password of a user are let through, unless two of them overlapped. *)
THEOREM GuessesBounded == Spec => []GuessesAreBounded
<1>1. SignInStands => GuessesAreBounded
  BY DEF SignInStands
<1>2. QED
  BY <1>1, SignInStandsHolds, PTL

(* Whoever was answered a refresh token last can use it, unless storing and  *)
(* answering two of them crossed or an answer was lost.                      *)
THEOREM TokensWork == Spec => []HeldIsStored
<1>1. SignInStands => HeldIsStored
  BY DEF SignInStands
<1>2. QED
  BY <1>1, SignInStandsHolds, PTL

(* Nobody is left with an authenticator app as the second factor and without *)
(* the secret it was confirmed with, unless switches of it overlapped.       *)
THEOREM AppsWork == Spec => []AppIsUsable
<1>1. SignInStands => AppIsUsable
  BY DEF SignInStands
<1>2. QED
  BY <1>1, SignInStandsHolds, PTL
===============================================================================
