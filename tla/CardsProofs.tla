------------------------------ MODULE CardsProofs ------------------------------
(***************************************************************************)
(* Theorems about Cards, for any users, cards and requests.                *)
(***************************************************************************)
EXTENDS Cards, TLAPS

CardsInv == TypeOK /\ CardsStand

LEMMA NextCases ==
  ASSUME [Next]_vars
  PROVE  \/ \E c \in Cards : Create(c)
         \/ \E p \in Calls, k \in Kinds, x \in Users, c \in Cards, b \in BOOLEAN :
              Begin(p, k, x, c, b)
         \/ \E p \in Calls : Step(p)
         \/ \E x \in Users : DeleteUser(x)
         \/ Crash
         \/ UNCHANGED vars
  BY DEF Next

(* What a history tells after one more row. *)
LEMMA Told ==
  ASSUME NEW h \in Seq(Entries), NEW e \in Entries
  PROVE  /\ TellsAttached(Append(h, e)) <=>
              (e.action = "ATTACH" \/ (TellsAttached(h) /\ e.action # "DETTACH"))
         /\ TellsActive(Append(h, e)) <=>
              (e.action \in {"ATTACH", "ENABLE"} \/ (TellsActive(h) /\ e.action # "DISABLE"))
<1> DEFINE g == Append(h, e)
           n == Len(h)
<1>1. n \in Nat /\ DOMAIN h = 1..n /\ DOMAIN g = 1..(n + 1) /\ g[n + 1] = e
  OBVIOUS
<1>2. \A i \in 1..n : g[i] = h[i]
  OBVIOUS
<1> HIDE DEF g, n
<1>3. \A i \in 1..(n + 1) : i \in 1..n \/ i = n + 1
  BY <1>1
<1>4. \A i \in 1..n : n + 1 > i /\ i \in 1..(n + 1)
  BY <1>1
<1>5. n + 1 \in 1..(n + 1) /\ \A i \in 1..(n + 1) : ~(i > n + 1)
  BY <1>1
<1>6. TellsAttached(g) <=> (e.action = "ATTACH" \/ (TellsAttached(h) /\ e.action # "DETTACH"))
  BY <1>1, <1>2, <1>3, <1>4, <1>5 DEF TellsAttached
<1>7. TellsActive(g) <=> (e.action \in {"ATTACH", "ENABLE"} \/ (TellsActive(h) /\ e.action # "DISABLE"))
  BY <1>1, <1>2, <1>3, <1>4, <1>5 DEF TellsActive
<1>8. QED
  BY <1>6, <1>7 DEF g
-------------------------------------------------------------------------------
(* Types. *)

LEMMA Jobbed ==
  ASSUME TypeOK, NEW p \in Calls, pc[p] # "idle"
  PROVE  /\ job[p] \in Jobs /\ Card(p) \in Cards /\ User(p) \in Users /\ Kind(p) \in Kinds
         /\ job[p].on \in BOOLEAN /\ Entry(p) \in Entries /\ Entry(p).action = ActionOf(p)
         /\ User(p) # NoUser
<1>1. job[p] \in Jobs
  BY DEF TypeOK
<1>2. QED
  BY <1>1, CardsAssumption
     DEF Jobs, Card, User, Kind, ActionOf, Kinds, Attaches, Switches, CardActions, Entry,
         Entries, Author

(* What is left of a history when a user's rows are struck out of it.        *)
LEMMA StruckTyped ==
  ASSUME TypeOK, NEW x \in Users, NEW c \in Cards
  PROVE  [i \in 1..Len(log[c]) |-> IF log[c][i].by = x THEN Gone ELSE log[c][i]] \in Seq(Entries)
<1>1. log[c] \in Seq(Entries) /\ Len(log[c]) \in Nat
  BY DEF TypeOK
<1>2. Gone \in Entries
  BY DEF Gone, Entries
<1>3. \A i \in 1..Len(log[c]) : log[c][i] \in Entries
  BY <1>1
<1>4. QED
  BY <1>1, <1>2, <1>3

LEMMA Typed ==
  ASSUME TypeOK, [Next]_vars PROVE TypeOK'
<1> USE DEF TypeOK
<1>1. ASSUME NEW c \in Cards, Create(c) PROVE TypeOK'
  BY <1>1 DEF Create, Rows, requests, history
<1>2. ASSUME NEW p \in Calls, NEW k \in Kinds, NEW x \in Users, NEW c \in Cards,
             NEW b \in BOOLEAN, Begin(p, k, x, c, b)
      PROVE  TypeOK'
  <2>1. [kind |-> k, user |-> x, card |-> c, on |-> b] \in Jobs
    BY DEF Jobs
  <2>2. FirstPlace(k) \in Serving
    BY DEF FirstPlace, Serving
  <2>3. overlapped' \subseteq Cards
    BY <1>2 DEF Begin
  <2>4. QED
    BY <1>2, <2>1, <2>2, <2>3 DEF Begin, table
<1>3. ASSUME NEW p \in Calls, Step(p) PROVE TypeOK'
  <2> DEFINE c == Card(p)
  <2>1. pc[p] # "idle"
    BY <1>3 DEF Step, Check, Read, Deny, NoSuchColumn, NotFound, Attach, Remove, Switch,
                Delete, Log, NotLogged, Mail, Fail, Serves, Serving
  <2>2. c \in Cards /\ User(p) \in Users /\ job[p].on \in BOOLEAN /\ Entry(p) \in Entries
    BY <2>1, Jobbed
  <2>3. ASSUME Check(p) \/ Read(p) \/ Deny(p) \/ NoSuchColumn(p) \/ NotFound(p) \/ NotLogged(p)
        PROVE  TypeOK'
    BY <2>3 DEF Check, Read, Deny, NoSuchColumn, NotFound, NotLogged, Goto, Serving, Ended,
                table, history
  <2>4. ASSUME Attach(p) PROVE TypeOK'
    <3>1. [owner |-> User(p), active |-> TRUE] \in Rows
      BY <2>2 DEF Rows
    <3>2. QED
      BY <2>2, <2>4, <3>1 DEF Attach, Wrote, Goto, Serving
  <2>5. ASSUME Remove(p) PROVE TypeOK'
    <3>1. row[c] \in Rows
      BY <2>2, <2>5 DEF Remove, There
    <3>2. [row[c] EXCEPT !.owner = NoUser] \in Rows
      BY <3>1 DEF Rows
    <3>3. row' \in [Cards -> Rows \cup {NoRow}]
      BY <2>2, <2>5, <3>2 DEF Remove
    <3>4. QED
      BY <2>2, <2>5, <3>3 DEF Remove, Wrote, Goto, Serving
  <2>6. ASSUME Switch(p) PROVE TypeOK'
    <3>1. row[c] \in Rows
      BY <2>2, <2>6 DEF Switch, There
    <3>2. [row[c] EXCEPT !.active = job[p].on] \in Rows
      BY <2>2, <3>1 DEF Rows
    <3>3. row' \in [Cards -> Rows \cup {NoRow}]
      BY <2>2, <2>6, <3>2 DEF Switch
    <3>4. QED
      BY <2>2, <2>6, <3>3 DEF Switch, Wrote, Goto, Serving
  <2>7. ASSUME Delete(p) PROVE TypeOK'
    BY <2>2, <2>7 DEF Delete, Wrote, Goto, Serving
  <2>8. ASSUME Log(p) PROVE TypeOK'
    <3>1. log' \in [Cards -> Seq(Entries)]
      BY <2>2, <2>8 DEF Log
    <3>2. QED
      BY <2>2, <2>8, <3>1 DEF Log, Goto, Serving, Ended
  <2>9. ASSUME Mail(p) PROVE TypeOK'
    BY <2>2, <2>9 DEF Mail, Goto, Ended, table
  <2>10. ASSUME Fail(p) PROVE TypeOK'
    <3>1. unlogged' \subseteq Cards
      BY <2>2, <2>10 DEF Fail, Unlog
    <3>2. QED
      BY <2>1, <2>10, <3>1 DEF Fail, Fault, Goto, Ended, table
  <2>11. QED
    BY <1>3, <2>3, <2>4, <2>5, <2>6, <2>7, <2>8, <2>9, <2>10 DEF Step
<1>4. ASSUME Crash PROVE TypeOK'
  <2>1. \A q \in Calls : pc[q] = "log" => Card(q) \in Cards
    BY Jobbed
  <2>2. unlogged' \subseteq Cards
    BY <1>4, <2>1 DEF Crash, Unlog
  <2>3. pc' \in [Calls -> {"idle"} \cup Serving \cup Ended]
    BY <1>4 DEF Crash, Ended
  <2>4. \A q \in Calls : pc'[q] # "idle" => job'[q] \in Jobs
    BY <1>4 DEF Crash, Serves, Serving
  <2>5. QED
    BY <1>4, <2>2, <2>3, <2>4 DEF Crash, Fault, table
<1>5. ASSUME UNCHANGED vars PROVE TypeOK'
  BY <1>5 DEF vars, table, requests, history
<1>6. ASSUME NEW x \in Users, DeleteUser(x) PROVE TypeOK'
  <2>1. log' \in [Cards -> Seq(Entries)]
    BY <1>6, StruckTyped DEF DeleteUser
  <2>2. overlapped' \subseteq Cards
    <3>1. \A q \in Calls : Serves(q) => Card(q) \in Cards
      BY Jobbed DEF Serves, Serving
    <3>2. QED
      BY <1>6, <3>1 DEF DeleteUser
  <2>3. QED
    BY <1>6, <2>1, <2>2 DEF DeleteUser, requests
<1>7. QED
  BY <1>1, <1>2, <1>3, <1>4, <1>5, <1>6, NextCases
-------------------------------------------------------------------------------
(* The invariant card by card and request by request. *)

CardStands(c) ==
  /\ (c \notin overlapped \cup unlogged /\ There(c)
      /\ ~\E p \in Calls : pc[p] = "log" /\ Card(p) = c) => Tells(c, log[c])
  /\ (c \notin overlapped \cup taken \cup stripped /\ holder[c] # NoUser) =>
       There(c) /\ row[c].owner = holder[c]
  /\ (c \notin overlapped /\ c \in off) => ~Active(c)
  /\ c \in strayed => c \in overlapped
  /\ c \notin made => row[c] = NoRow /\ log[c] = <<>>

UntoldAt(p) ==
  (p \in wrote /\ pc[p] \in {"refused", "failed"}) =>
    Kind(p) \in {"agentAttach", "signUp", "delete"} \/ Card(p) \in overlapped
ReadingAt(p) ==
  (pc[p] = "write" /\ Card(p) \notin overlapped) =>
    /\ Kind(p) \in {"attach", "agentAttach"} => Unattached(Card(p))
    /\ Kind(p) \in Switches => OwnCard(p)
WriteAt(p) ==
  (pc[p] \in {"log", "mail"} /\ Card(p) \notin overlapped) =>
    /\ pc[p] = "log" =>
         /\ There(Card(p)) <=> Kind(p) # "delete"
         /\ There(Card(p)) /\ Card(p) \notin unlogged =>
              Tells(Card(p), Append(log[Card(p)], Entry(p)))
         /\ Kind(p) \in Switches => (Active(Card(p)) <=> job[p].on)
    /\ Kind(p) \in Attaches => OwnCard(p)
PlaceAt(p) ==
  /\ pc[p] # "idle" => Card(p) \in made
  /\ pc[p] \in {"idle", "check", "read", "write"} => p \notin wrote
  /\ pc[p] = "check" => Kind(p) \in {"attach", "agentAttach"}
  /\ pc[p] = "read" => Kind(p) \in Switches
  /\ Serves(p) /\ Card(p) \notin overlapped => User(p) \notin left
CallStands(p) == UntoldAt(p) /\ ReadingAt(p) /\ WriteAt(p) /\ PlaceAt(p)

LEMMA Parts ==
  TypeOK => (CardsStand <=> /\ AloneStand
                            /\ \A c \in Cards : CardStands(c)
                            /\ \A p \in Calls : CallStands(p))
<1> SUFFICES ASSUME TypeOK
             PROVE  CardsStand <=> /\ AloneStand
                                   /\ \A c \in Cards : CardStands(c)
                                   /\ \A p \in Calls : CallStands(p)
  OBVIOUS
<1>1. (HistoryTells /\ AnswersStand /\ StrayNeedsOverlap
       /\ \A c \in Cards \ made : row[c] = NoRow /\ log[c] = <<>>)
        <=> \A c \in Cards : CardStands(c)
  BY DEF TypeOK, HistoryTells, AnswersStand, StrayNeedsOverlap, CardStands
<1>2. UntoldNeedsCause <=> \A p \in Calls : UntoldAt(p)
  BY DEF TypeOK, UntoldNeedsCause, UntoldAt
<1>3. ReadingsStand <=> \A p \in Calls : ReadingAt(p)
  BY DEF ReadingsStand, ReadingAt
<1>4. WritesStand <=> \A p \in Calls : WriteAt(p)
  BY DEF WritesStand, WriteAt
<1>5. PlacesStand <=> /\ \A c \in Cards \ made : row[c] = NoRow /\ log[c] = <<>>
                      /\ \A p \in Calls : PlaceAt(p)
  BY DEF PlacesStand, PlaceAt
<1>6. QED
  BY <1>1, <1>2, <1>3, <1>4, <1>5 DEF CardsStand, CallStands

LEMMA PartsNext ==
  ASSUME TypeOK', AloneStand', \A c \in Cards : CardStands(c)', \A p \in Calls : CallStands(p)'
  PROVE  CardsStand'
<1>1. (TypeOK => (CardsStand <=> /\ AloneStand
                                 /\ \A c \in Cards : CardStands(c)
                                 /\ \A p \in Calls : CallStands(p)))'
  BY Parts, PTL
<1>2. QED
  BY <1>1

(* A step of request p leaves other cards and other requests alone. *)
Frame(p) ==
  /\ Serves(p)
  /\ UNCHANGED <<made, left, job, overlapped>>
  /\ \A q \in Calls \ {p} : pc'[q] = pc[q] /\ (q \in wrote' <=> q \in wrote)
  /\ \A d \in Cards \ {Card(p)} :
       /\ row'[d] = row[d] /\ log'[d] = log[d] /\ holder'[d] = holder[d]
       /\ d \in off' <=> d \in off
       /\ d \in strayed' <=> d \in strayed
       /\ d \in taken' <=> d \in taken
       /\ d \in stripped' <=> d \in stripped
       /\ d \in unlogged' <=> d \in unlogged

(* So what it may disturb is what holds of itself and of its card. *)
LEMMA Local ==
  ASSUME TypeOK, TypeOK', CardsStand, NEW p \in Calls, Frame(p),
         CardStands(Card(p))', CallStands(p)'
  PROVE  CardsStand'
<1>1. /\ AloneStand
      /\ \A c \in Cards : CardStands(c)
      /\ \A q \in Calls : CallStands(q)
  BY Parts
<1>2. pc[p] # "idle" /\ Card(p)' = Card(p) /\ \A q \in Calls : Card(q)' = Card(q)
  BY DEF Frame, Serves, Serving, Card
<1>3. AloneStand'
  <2>1. \A q \in Calls : Serves(q)' => Serves(q)
    BY DEF Frame, Serves
  <2>2. QED
    BY <1>1, <1>2, <2>1 DEF AloneStand, Frame
<1>4. ASSUME NEW d \in Cards PROVE CardStands(d)'
  <2>1. CASE d = Card(p)
    BY <2>1, <1>2
  <2>2. CASE d # Card(p)
    <3>1. CardStands(d)
      BY <1>1
    <3>2. /\ There(d)' = There(d) /\ Attached(d)' = Attached(d) /\ Active(d)' = Active(d)
          /\ Tells(d, log[d])' = Tells(d, log[d])
      BY <2>2 DEF Frame, There, Attached, Active, Tells
    <3>3. (\E q \in Calls : pc'[q] = "log" /\ Card(q)' = d)
            <=> \E q \in Calls : pc[q] = "log" /\ Card(q) = d
      BY <1>2, <2>2 DEF Frame
    <3>4. QED
      BY <2>2, <3>1, <3>2, <3>3 DEF CardStands, Frame
  <2>3. QED
    BY <2>1, <2>2
<1>5. ASSUME NEW q \in Calls PROVE CallStands(q)'
  <2>1. CASE q = p
    BY <2>1
  <2>2. CASE q # p
    <3>1. /\ CallStands(q) /\ pc'[q] = pc[q] /\ (q \in wrote' <=> q \in wrote)
          /\ Kind(q)' = Kind(q) /\ User(q)' = User(q) /\ job'[q] = job[q]
          /\ Entry(q)' = Entry(q) /\ overlapped' = overlapped /\ made' = made
          /\ left' = left /\ Serves(q)' = Serves(q)
      BY <1>1, <2>2 DEF Frame, Kind, User, ActionOf, Entry, Author, Serves
    <3>2. UntoldAt(q)' /\ PlaceAt(q)'
      BY <1>2, <3>1 DEF CallStands, UntoldAt, PlaceAt
    <3>3. CASE pc[q] \notin {"write", "log", "mail"}
      BY <3>1, <3>2, <3>3 DEF CallStands, ReadingAt, WriteAt
    <3>4. CASE Card(q) \in overlapped
      BY <1>2, <3>1, <3>2, <3>4 DEF CallStands, ReadingAt, WriteAt
    <3>5. CASE pc[q] \in {"write", "log", "mail"} /\ Card(q) \notin overlapped
      <4>1. Serves(q) /\ Serves(p)
        BY <3>5 DEF Serves, Serving, Frame
      <4>2. Card(q) # Card(p)
        BY <1>1, <2>2, <3>5, <4>1 DEF AloneStand
      <4>3. Card(q) \in Cards
        BY <3>5, Jobbed
      <4>4. /\ row'[Card(q)] = row[Card(q)] /\ log'[Card(q)] = log[Card(q)]
            /\ Card(q) \in unlogged' <=> Card(q) \in unlogged
        BY <4>2, <4>3 DEF Frame
      <4>5. ReadingAt(q)'
        BY <1>2, <3>1, <4>4 DEF CallStands, ReadingAt, Unattached, OwnCard, There
      <4>6. WriteAt(q)'
        BY <1>2, <3>1, <4>4
           DEF CallStands, WriteAt, OwnCard, There, Tells, Attached, Active
      <4>7. QED
        BY <3>2, <4>5, <4>6 DEF CallStands
    <3>6. QED
      BY <3>3, <3>4, <3>5
  <2>3. QED
    BY <2>1, <2>2
<1>6. QED
  BY <1>3, <1>4, <1>5, PartsNext
-------------------------------------------------------------------------------
(* Steps that write nothing. *)

LEMMA Quiet ==
  ASSUME CardsInv, TypeOK', NEW p \in Calls,
         Check(p) \/ Read(p) \/ Deny(p) \/ NoSuchColumn(p) \/ NotFound(p) \/ NotLogged(p)
  PROVE  CardsInv'
<1> DEFINE c == Card(p)
<1>1. /\ Serves(p) /\ pc[p] # "mail" /\ UNCHANGED <<table, job, faults, history>>
      /\ pc'[p] \in {"write", "refused", "failed"}
      /\ \A q \in Calls \ {p} : pc'[q] = pc[q]
      /\ pc[p] = "log" => NotLogged(p)
  BY DEF CardsInv, TypeOK, Check, Read, Deny, NoSuchColumn, NotFound, NotLogged, Goto, Serves,
         Serving, table, history
<1>2. Frame(p)
  BY <1>1 DEF Frame, table, history
<1>3. /\ c \in Cards /\ CardStands(c) /\ CallStands(p) /\ pc[p] # "idle"
      /\ c' = c /\ Kind(p)' = Kind(p) /\ User(p)' = User(p)
  BY <1>1, Parts, Jobbed DEF CardsInv, Serves, Serving, Card, Kind, User
<1>4. CardStands(c)'
  <2>1. /\ There(c)' = There(c) /\ Attached(c)' = Attached(c) /\ Active(c)' = Active(c)
        /\ Tells(c, log[c])' = Tells(c, log[c])
    BY <1>1, <1>3 DEF table, There, Attached, Active, Tells
  <2>2. (c \notin overlapped /\ There(c) /\ ~\E q \in Calls : pc'[q] = "log" /\ Card(q)' = c)
          => ~\E q \in Calls : pc[q] = "log" /\ Card(q) = c
    <3>1. \A q \in Calls \ {p} : pc'[q] = pc[q] /\ Card(q)' = Card(q)
      BY <1>1 DEF Card
    <3>2. pc[p] = "log" /\ c \notin overlapped => ~There(c)
      BY <1>1, <1>3, CardsAssumption, Jobbed
         DEF NotLogged, CanLog, Author, CallStands, PlaceAt, CardsInv, TypeOK
    <3>3. QED
      BY <3>1, <3>2
  <2>3. QED
    BY <1>1, <1>3, <2>1, <2>2 DEF CardStands, table, history
<1>5. CallStands(p)'
  <2>1. pc'[p] = "write" => (Check(p) /\ Unattached(c)) \/ (Read(p) /\ OwnCard(p))
    BY <1>1 DEF CardsInv, TypeOK, Check, Read, Deny, NoSuchColumn, NotFound, NotLogged, Goto
  <2>2. Unattached(c)' = Unattached(c) /\ OwnCard(p)' = OwnCard(p)
    BY <1>1, <1>3 DEF table, Unattached, OwnCard, There
  <2>3. ReadingAt(p)'
    BY <1>1, <1>3, <2>1, <2>2
       DEF CallStands, PlaceAt, ReadingAt, Check, Read, Switches, history
  <2>4. UntoldAt(p)'
    <3>1. CASE pc[p] = "log"
      <4>1. c \notin overlapped => ~There(c)
        BY <1>1, <1>3, <3>1, CardsAssumption, Jobbed
           DEF NotLogged, CanLog, Author, CallStands, PlaceAt, CardsInv, TypeOK
      <4>2. QED
        BY <1>1, <1>3, <3>1, <4>1 DEF CallStands, WriteAt, UntoldAt, history
    <3>2. CASE pc[p] # "log"
      BY <1>1, <1>3, <3>2 DEF CallStands, PlaceAt, UntoldAt, history, Serves, Serving
    <3>3. QED
      BY <3>1, <3>2
  <2>5. WriteAt(p)' /\ PlaceAt(p)'
    <3>1. CASE pc[p] = "log"
      <4>1. pc'[p] = "failed" /\ ~Serves(p)'
        BY <1>1, <3>1 DEF NotLogged, Goto, CardsInv, TypeOK, Serves, Serving
      <4>2. QED
        BY <1>1, <1>3, <4>1 DEF CallStands, PlaceAt, WriteAt, table
    <3>2. CASE pc[p] # "log"
      BY <1>1, <1>3, <3>2 DEF CallStands, PlaceAt, WriteAt, table, history, Serves, Serving
    <3>3. QED
      BY <3>1, <3>2
  <2>6. QED
    BY <2>3, <2>4, <2>5 DEF CallStands
<1>6. QED
  BY <1>2, <1>3, <1>4, <1>5, Local DEF CardsInv
-------------------------------------------------------------------------------
(* Steps that write to a card: the history lacks one row until it is logged. *)

LEMMA Owing ==
  ASSUME CardsInv, NEW p \in Calls, pc[p] = "write", Card(p) \notin overlapped \cup unlogged,
         There(Card(p))
  PROVE  Tells(Card(p), log[Card(p)]) /\ log[Card(p)] \in Seq(Entries)
<1>1. CardStands(Card(p)) /\ AloneStand /\ Card(p) \in Cards
  BY Parts, Jobbed DEF CardsInv
<1>2. ~\E q \in Calls : pc[q] = "log" /\ Card(q) = Card(p)
  BY <1>1 DEF AloneStand, Serves, Serving
<1>3. QED
  BY <1>1, <1>2 DEF CardStands, CardsInv, TypeOK

LEMMA Writing ==
  ASSUME CardsInv, TypeOK', NEW p \in Calls,
         Attach(p) \/ Remove(p) \/ Switch(p) \/ Delete(p)
  PROVE  /\ Frame(p) /\ pc[p] = "write" /\ pc'[p] = "log" /\ p \in wrote'
         /\ Card(p) \in Cards /\ CardStands(Card(p)) /\ CallStands(p)
         /\ Card(p)' = Card(p) /\ Kind(p)' = Kind(p) /\ User(p)' = User(p)
         /\ job'[p] = job[p] /\ Entry(p)' = Entry(p) /\ Entry(p) \in Entries
         /\ Entry(p).action = ActionOf(p)
         /\ User(p) \in Users /\ User(p) # NoUser /\ job[p].on \in BOOLEAN
         /\ There(Card(p)) /\ row[Card(p)] \in Rows
         /\ UNCHANGED <<made, left, overlapped, unlogged, faults>>
         /\ PlaceAt(p)' /\ ReadingAt(p)' /\ UntoldAt(p)'
<1>1. pc[p] = "write" /\ pc'[p] = "log" /\ There(Card(p)) /\ job' = job
      /\ UNCHANGED <<made, left, overlapped, unlogged, faults>> /\ wrote' = wrote \cup {p}
  BY DEF CardsInv, TypeOK, Attach, Remove, Switch, Delete, Wrote, Goto
<1>2. /\ Card(p) \in Cards /\ User(p) \in Users /\ User(p) # NoUser
      /\ job[p].on \in BOOLEAN /\ Entry(p) \in Entries /\ Entry(p).action = ActionOf(p)
  BY <1>1, Jobbed DEF CardsInv
<1>3. /\ Card(p)' = Card(p) /\ Kind(p)' = Kind(p) /\ User(p)' = User(p) /\ job'[p] = job[p]
      /\ Entry(p)' = Entry(p)
  BY <1>1 DEF Card, Kind, User, ActionOf, Entry, Author
<1>4. Frame(p)
  BY <1>1, <1>2
     DEF CardsInv, TypeOK, Frame, Serves, Serving, Attach, Remove, Switch, Delete, Wrote, Goto
<1>5. CardStands(Card(p)) /\ CallStands(p)
  BY <1>2, Parts DEF CardsInv
<1>6. PlaceAt(p)' /\ ReadingAt(p)' /\ UntoldAt(p)'
  BY <1>1, <1>3, <1>5 DEF CallStands, PlaceAt, ReadingAt, UntoldAt, Serves, Serving
<1>7. row[Card(p)] \in Rows
  BY <1>1, <1>2 DEF CardsInv, TypeOK, There
<1>8. QED
  BY <1>1, <1>2, <1>3, <1>4, <1>5, <1>6, <1>7

LEMMA Attaching ==
  ASSUME CardsInv, TypeOK', NEW p \in Calls, Attach(p)
  PROVE  CardsInv'
<1> DEFINE c == Card(p)
<1>1. /\ Frame(p) /\ pc[p] = "write" /\ pc'[p] = "log" /\ c \in Cards
      /\ CardStands(c) /\ CallStands(p) /\ c' = c /\ Kind(p)' = Kind(p) /\ User(p)' = User(p)
      /\ User(p) \in Users /\ User(p) # NoUser
      /\ Entry(p)' = Entry(p) /\ Entry(p) \in Entries /\ Entry(p).action = ActionOf(p)
      /\ UNCHANGED <<made, overlapped, unlogged>>
      /\ PlaceAt(p)' /\ ReadingAt(p)' /\ UntoldAt(p)'
  BY Writing
<1>2. /\ row'[c] = [owner |-> User(p), active |-> TRUE]
      /\ log' = log /\ holder' = holder /\ strayed' = strayed /\ c \notin off'
      /\ stripped' = stripped
      /\ c \in taken' <=> (c \in taken \/ (Kind(p) = "signUp" /\ Attached(c)))
      /\ Kind(p) \in Attaches
  BY <1>1 DEF Attach, CardsInv, TypeOK
<1>3. There(c)' /\ Attached(c)' /\ Active(c)'
  <2>1. row'[c] \in Rows
    BY <1>1, <1>2 DEF Rows
  <2>2. row'[c] # NoRow
    BY <2>1, CardsAssumption
  <2>3. QED
    BY <1>1, <1>2, <2>2 DEF There, Attached, Active
<1>4. ActionOf(p) = "ATTACH"
  BY <1>2 DEF ActionOf, Attaches, Switches
<1>5. log[c] \in Seq(Entries)
  BY <1>1 DEF CardsInv, TypeOK
<1>6. Tells(c, Append(log[c], Entry(p)))'
  BY <1>1, <1>2, <1>3, <1>4, <1>5, Told DEF Tells
<1>7. WriteAt(p)'
  <2>1. OwnCard(p)'
    BY <1>1, <1>2, <1>3 DEF OwnCard
  <2>2. Kind(p) # "delete" /\ Kind(p) \notin Switches
    BY <1>2 DEF Attaches, Switches
  <2>3. QED
    BY <1>1, <1>2, <1>3, <1>6, <2>1, <2>2 DEF WriteAt
<1>8. CardStands(c)'
  <2>1. \E q \in Calls : pc'[q] = "log" /\ Card(q)' = c
    BY <1>1
  <2>2. (c \notin overlapped \cup taken' \cup stripped /\ holder[c] # NoUser) => FALSE
    <3>1. CASE Kind(p) = "signUp"
      BY <1>1, <1>2, <3>1 DEF CardStands, Attached
    <3>2. CASE Kind(p) # "signUp"
      BY <1>1, <1>2, <3>2 DEF CardStands, CallStands, ReadingAt, Unattached, Attaches
    <3>3. QED
      BY <3>1, <3>2
  <2>3. c \in made
    BY <1>1 DEF CallStands, PlaceAt
  <2>4. QED
    BY <1>1, <1>2, <2>1, <2>2, <2>3 DEF CardStands
<1>9. QED
  BY <1>1, <1>7, <1>8, Local DEF CardsInv, CallStands

LEMMA Removing ==
  ASSUME CardsInv, TypeOK', NEW p \in Calls, Remove(p)
  PROVE  CardsInv'
<1> DEFINE c == Card(p)
<1>1. /\ Frame(p) /\ pc[p] = "write" /\ pc'[p] = "log" /\ c \in Cards
      /\ CardStands(c) /\ CallStands(p) /\ c' = c /\ Kind(p)' = Kind(p) /\ User(p)' = User(p)
      /\ User(p) \in Users /\ User(p) # NoUser /\ There(c) /\ row[c] \in Rows
      /\ Entry(p)' = Entry(p) /\ Entry(p) \in Entries /\ Entry(p).action = ActionOf(p)
      /\ UNCHANGED <<made, overlapped, unlogged>>
      /\ PlaceAt(p)' /\ ReadingAt(p)' /\ UntoldAt(p)'
  BY Writing
<1>2. /\ row'[c] = [row[c] EXCEPT !.owner = NoUser] /\ row'[c] \in Rows
      /\ log' = log /\ strayed' = strayed /\ taken' = taken /\ off' = off
      /\ holder'[c] = IF holder[c] = User(p) THEN NoUser ELSE holder[c]
      /\ stripped \subseteq stripped'
      /\ row[c].owner \notin {NoUser, User(p)} => c \in stripped'
      /\ Kind(p) = "remove"
  BY <1>1 DEF Remove, CardsInv, TypeOK, Rows
<1>3. row'[c].owner = NoUser /\ row'[c].active = row[c].active
  BY <1>1, <1>2 DEF Rows
<1>4. There(c)' /\ ~Attached(c)' /\ Active(c)' = Active(c)
  BY <1>1, <1>2, <1>3, CardsAssumption DEF There, Attached, Active
<1>5. ActionOf(p) = "DETTACH"
  BY <1>2 DEF ActionOf, Attaches, Switches
<1>6. (c \notin overlapped \cup unlogged) => Tells(c, Append(log[c], Entry(p)))'
  <2> SUFFICES ASSUME c \notin overlapped \cup unlogged
               PROVE  Tells(c, Append(log[c], Entry(p)))'
    OBVIOUS
  <2>1. Tells(c, log[c]) /\ log[c] \in Seq(Entries)
    BY <1>1, Owing
  <2>2. /\ ~TellsAttached(Append(log[c], Entry(p)))
        /\ TellsActive(Append(log[c], Entry(p))) <=> TellsActive(log[c])
    BY <1>1, <1>5, <2>1, Told
  <2>3. QED
    BY <1>1, <1>2, <1>4, <1>5, <2>1, <2>2 DEF Tells
<1>7. WriteAt(p)'
  BY <1>1, <1>2, <1>4, <1>6 DEF WriteAt, Attaches, Switches
<1>8. CardStands(c)'
  <2>1. \E q \in Calls : pc'[q] = "log" /\ Card(q)' = c
    BY <1>1
  <2>3. (c \notin overlapped \cup taken \cup stripped') => holder'[c] = NoUser
    BY <1>1, <1>2, CardsAssumption DEF CardStands
  <2>4. c \in made
    BY <1>1 DEF CallStands, PlaceAt
  <2>5. QED
    BY <1>1, <1>2, <1>4, <2>1, <2>3, <2>4 DEF CardStands
<1>9. QED
  BY <1>1, <1>7, <1>8, Local DEF CardsInv, CallStands

LEMMA Switching ==
  ASSUME CardsInv, TypeOK', NEW p \in Calls, Switch(p)
  PROVE  CardsInv'
<1> DEFINE c == Card(p)
           on == job[p].on
<1>1. /\ Frame(p) /\ pc[p] = "write" /\ pc'[p] = "log" /\ c \in Cards
      /\ CardStands(c) /\ CallStands(p) /\ c' = c /\ Kind(p)' = Kind(p) /\ User(p)' = User(p)
      /\ There(c) /\ row[c] \in Rows /\ on \in BOOLEAN /\ on' = on
      /\ Entry(p)' = Entry(p) /\ Entry(p) \in Entries /\ Entry(p).action = ActionOf(p)
      /\ UNCHANGED <<made, overlapped, unlogged>>
      /\ PlaceAt(p)' /\ ReadingAt(p)' /\ UntoldAt(p)'
  BY Writing
<1>2. /\ row'[c] = [row[c] EXCEPT !.active = on]
      /\ log' = log /\ holder' = holder /\ taken' = taken /\ stripped' = stripped
      /\ c \in off' <=> (c \in off /\ ~on)
      /\ c \in strayed' <=> (c \in strayed \/ row[c].owner # User(p))
      /\ Kind(p) \in Switches
  BY <1>1 DEF Switch, CardsInv, TypeOK
<1>3. /\ row'[c].owner = row[c].owner
      /\ row'[c].active = on /\ row'[c] \in Rows
  BY <1>1, <1>2 DEF Rows
<1>4. There(c)' /\ Attached(c)' = Attached(c) /\ Active(c)' = on
  BY <1>1, <1>2, <1>3, CardsAssumption DEF There, Attached, Active
<1>5. ActionOf(p) = IF on THEN "ENABLE" ELSE "DISABLE"
  BY <1>2 DEF ActionOf, Attaches, Switches
<1>6. (c \notin overlapped \cup unlogged) => Tells(c, Append(log[c], Entry(p)))'
  <2> SUFFICES ASSUME c \notin overlapped \cup unlogged
               PROVE  Tells(c, Append(log[c], Entry(p)))'
    OBVIOUS
  <2>1. Tells(c, log[c]) /\ log[c] \in Seq(Entries)
    BY <1>1, Owing
  <2>2. /\ TellsAttached(Append(log[c], Entry(p))) <=> TellsAttached(log[c])
        /\ TellsActive(Append(log[c], Entry(p))) <=> on
    BY <1>1, <1>5, <2>1, Told
  <2>3. QED
    BY <1>1, <1>2, <1>4, <2>1, <2>2 DEF Tells
<1>7. WriteAt(p)'
  BY <1>1, <1>2, <1>4, <1>6 DEF WriteAt, Attaches, Switches
<1>8. CardStands(c)'
  <2>1. \E q \in Calls : pc'[q] = "log" /\ Card(q)' = c
    BY <1>1
  <2>2. c \notin overlapped => row[c].owner = User(p)
    BY <1>1, <1>2 DEF CallStands, ReadingAt, OwnCard
  <2>3. c \in made
    BY <1>1 DEF CallStands, PlaceAt
  <2>4. QED
    BY <1>1, <1>2, <1>3, <1>4, <2>1, <2>2, <2>3 DEF CardStands
<1>9. QED
  BY <1>1, <1>7, <1>8, Local DEF CardsInv, CallStands

LEMMA Deleting ==
  ASSUME CardsInv, TypeOK', NEW p \in Calls, Delete(p)
  PROVE  CardsInv'
<1> DEFINE c == Card(p)
<1>1. /\ Frame(p) /\ pc[p] = "write" /\ pc'[p] = "log" /\ c \in Cards
      /\ CardStands(c) /\ CallStands(p) /\ c' = c /\ Kind(p)' = Kind(p) /\ User(p)' = User(p)
      /\ UNCHANGED <<made, overlapped, unlogged>>
      /\ PlaceAt(p)' /\ ReadingAt(p)' /\ UntoldAt(p)'
  BY Writing
<1>2. /\ row'[c] = NoRow /\ log'[c] = <<>> /\ holder'[c] = NoUser /\ c \notin off'
      /\ strayed' = strayed /\ taken' = taken /\ Kind(p) = "delete"
  BY <1>1 DEF Delete, CardsInv, TypeOK
<1>3. ~There(c)' /\ ~Attached(c)' /\ ~Active(c)'
  BY <1>1, <1>2 DEF There, Attached, Active
<1>4. WriteAt(p)'
  BY <1>1, <1>2, <1>3 DEF WriteAt, Attaches, Switches
<1>5. CardStands(c)'
  BY <1>1, <1>2, <1>3 DEF CardStands
<1>6. QED
  BY <1>1, <1>4, <1>5, Local DEF CardsInv, CallStands
-------------------------------------------------------------------------------
(* The history row and the answer. *)

LEMMA Logging ==
  ASSUME CardsInv, TypeOK', NEW p \in Calls, Log(p)
  PROVE  CardsInv'
<1> DEFINE c == Card(p)
<1>1. /\ Serves(p) /\ pc[p] = "log" /\ pc'[p] \in {"ok", "mail"} /\ There(c) /\ c \in Cards
      /\ \A q \in Calls \ {p} : pc'[q] = pc[q]
      /\ log' = [log EXCEPT ![c] = Append(@, Entry(p))]
      /\ UNCHANGED <<row, made, left, job, faults, holder, strayed, overlapped, taken, stripped,
                     unlogged, wrote>>
      /\ c \in off' => c \in off \/ (Kind(p) \in Switches /\ ~job[p].on)
      /\ \A d \in Cards \ {c} : d \in off' <=> d \in off
      /\ pc'[p] = "mail" => Kind(p) \notin Switches
  BY Jobbed DEF CardsInv, TypeOK, Log, CanLog, Goto, Serves, Serving
<1>2. /\ Frame(p) /\ CardStands(c) /\ CallStands(p)
      /\ c' = c /\ Kind(p)' = Kind(p) /\ User(p)' = User(p)
  BY <1>1, Parts DEF CardsInv, TypeOK, Frame, Card, Kind, User
<1>3. /\ There(c)' = There(c) /\ Attached(c)' = Attached(c) /\ Active(c)' = Active(c)
      /\ OwnCard(p)' = OwnCard(p)
      /\ log'[c] = Append(log[c], Entry(p))
  BY <1>1, <1>2 DEF CardsInv, TypeOK, There, Attached, Active, OwnCard
<1>4. CardStands(c)'
  <2>1. (c \notin overlapped \cup unlogged) => Tells(c, log[c])'
    <3>1. (c \notin overlapped \cup unlogged) => Tells(c, Append(log[c], Entry(p)))
      BY <1>1, <1>2 DEF CallStands, WriteAt
    <3>2. QED
      BY <1>2, <1>3, <3>1 DEF Tells
  <2>2. (c \notin overlapped /\ c \in off') => ~Active(c)
    BY <1>1, <1>2 DEF CardStands, CallStands, WriteAt
  <2>3. c \in made
    BY <1>1, <1>2 DEF CallStands, PlaceAt
  <2>4. QED
    BY <1>1, <1>2, <1>3, <2>1, <2>2, <2>3 DEF CardStands
<1>5. CallStands(p)'
  BY <1>1, <1>2, <1>3 DEF CallStands, UntoldAt, ReadingAt, WriteAt, PlaceAt
<1>6. QED
  BY <1>2, <1>4, <1>5, Local DEF CardsInv

LEMMA Mailing ==
  ASSUME CardsInv, TypeOK', NEW p \in Calls, Mail(p)
  PROVE  CardsInv'
<1> DEFINE c == Card(p)
<1>1. /\ Serves(p) /\ pc[p] = "mail" /\ pc'[p] \in {"ok", "failed"} /\ c \in Cards
      /\ User(p) \in Users /\ \A q \in Calls \ {p} : pc'[q] = pc[q]
      /\ UNCHANGED <<table, job, faults, off, strayed, overlapped, taken, stripped, unlogged, wrote>>
      /\ \A d \in Cards \ {c} : holder'[d] = holder[d]
      /\ holder'[c] = IF Kind(p) = "attach" THEN User(p) ELSE holder[c]
      /\ pc'[p] = "failed" => Kind(p) \in {"agentAttach", "signUp"}
  BY Jobbed DEF CardsInv, TypeOK, Mail, Nameless, Goto, Serves, Serving
<1>2. /\ Frame(p) /\ CardStands(c) /\ CallStands(p)
      /\ c' = c /\ Kind(p)' = Kind(p) /\ User(p)' = User(p)
  BY <1>1, Parts DEF CardsInv, TypeOK, Frame, table, Card, Kind, User
<1>3. /\ There(c)' = There(c) /\ Attached(c)' = Attached(c) /\ Active(c)' = Active(c)
      /\ Tells(c, log[c])' = Tells(c, log[c])
  BY <1>1, <1>2 DEF table, There, Attached, Active, Tells
<1>4. CardStands(c)'
  <2>1. (\E q \in Calls : pc'[q] = "log" /\ Card(q)' = c)
          <=> \E q \in Calls : pc[q] = "log" /\ Card(q) = c
    BY <1>1 DEF Card
  <2>2. (c \notin overlapped /\ Kind(p) = "attach") => There(c) /\ row[c].owner = User(p)
    BY <1>1, <1>2 DEF CallStands, WriteAt, OwnCard, Attaches
  <2>3. QED
    BY <1>1, <1>2, <1>3, <2>1, <2>2 DEF CardStands, table
<1>5. CallStands(p)'
  BY <1>1, <1>2 DEF CallStands, UntoldAt, ReadingAt, WriteAt, PlaceAt, table
<1>6. QED
  BY <1>2, <1>4, <1>5, Local DEF CardsInv

LEMMA Failing ==
  ASSUME CardsInv, TypeOK', NEW p \in Calls, Fail(p)
  PROVE  CardsInv'
<1> DEFINE c == Card(p)
<1>1. /\ Serves(p) /\ pc'[p] = "broken" /\ c \in Cards
      /\ \A q \in Calls \ {p} : pc'[q] = pc[q]
      /\ UNCHANGED <<table, job, holder, off, strayed, overlapped, taken, stripped, wrote>>
      /\ unlogged' = unlogged \cup IF pc[p] = "log" THEN {c} ELSE {}
  BY Jobbed DEF CardsInv, TypeOK, Fail, Unlog, Goto, Serves, Serving
<1>2. /\ Frame(p) /\ CardStands(c) /\ CallStands(p)
      /\ c' = c /\ Kind(p)' = Kind(p) /\ User(p)' = User(p)
  BY <1>1, Parts DEF CardsInv, TypeOK, Frame, table, Card, Kind, User
<1>3. /\ There(c)' = There(c) /\ Attached(c)' = Attached(c) /\ Active(c)' = Active(c)
      /\ Tells(c, log[c])' = Tells(c, log[c])
  BY <1>1, <1>2 DEF table, There, Attached, Active, Tells
<1>4. CardStands(c)'
  <2>1. c \notin unlogged' =>
          ((\E q \in Calls : pc'[q] = "log" /\ Card(q)' = c)
             <=> \E q \in Calls : pc[q] = "log" /\ Card(q) = c)
    BY <1>1 DEF Card
  <2>2. QED
    BY <1>1, <1>2, <1>3, <2>1 DEF CardStands, table
<1>5. CallStands(p)'
  BY <1>1, <1>2 DEF CallStands, UntoldAt, ReadingAt, WriteAt, PlaceAt, table, Serves, Serving
<1>6. QED
  BY <1>2, <1>4, <1>5, Local DEF CardsInv
-------------------------------------------------------------------------------
(* The other steps. *)

LEMMA Creating ==
  ASSUME CardsInv, TypeOK', NEW c \in Cards, Create(c)
  PROVE  CardsInv'
<1>1. /\ c \notin made /\ made' = made \cup {c}
      /\ row'[c] = [owner |-> NoUser, active |-> FALSE]
      /\ \A d \in Cards \ {c} : row'[d] = row[d]
      /\ UNCHANGED <<log, left, pc, job, faults, holder, off, strayed, overlapped, taken, stripped,
                     unlogged, wrote>>
  BY DEF CardsInv, TypeOK, Create, requests, history
<1>2. /\ AloneStand /\ \A d \in Cards : CardStands(d)
      /\ \A q \in Calls : CallStands(q)
  BY Parts DEF CardsInv
<1>3. \A q \in Calls : Card(q)' = Card(q) /\ Kind(q)' = Kind(q) /\ User(q)' = User(q)
                       /\ Entry(q)' = Entry(q) /\ Serves(q)' = Serves(q)
  BY <1>1 DEF Card, Kind, User, ActionOf, Entry, Author, Serves
<1>4. AloneStand'
  BY <1>1, <1>2, <1>3 DEF AloneStand, Serves
<1>5. ASSUME NEW d \in Cards PROVE CardStands(d)'
  <2>1. (\E q \in Calls : pc'[q] = "log" /\ Card(q)' = d)
          <=> \E q \in Calls : pc[q] = "log" /\ Card(q) = d
    BY <1>1, <1>3
  <2>2. CASE d # c
    <3>1. /\ There(d)' = There(d) /\ Attached(d)' = Attached(d) /\ Active(d)' = Active(d)
          /\ Tells(d, log[d])' = Tells(d, log[d])
      BY <1>1, <2>2 DEF There, Attached, Active, Tells
    <3>2. QED
      BY <1>1, <1>2, <2>1, <2>2, <3>1 DEF CardStands
  <2>3. CASE d = c
    <3>1. CardStands(c) /\ row[c] = NoRow /\ log[c] = <<>>
      BY <1>1, <1>2 DEF CardStands
    <3>2. ~Attached(c)' /\ ~Active(c)' /\ ~There(c)
      BY <1>1, <3>1 DEF Attached, Active, There
    <3>3. ~TellsAttached(<<>>) /\ ~TellsActive(<<>>)
      BY DEF TellsAttached, TellsActive
    <3>4. Tells(c, log[c])'
      BY <1>1, <3>1, <3>2, <3>3 DEF Tells
    <3>5. QED
      BY <1>1, <2>3, <3>1, <3>2, <3>4 DEF CardStands
  <2>4. QED
    BY <2>2, <2>3
<1>6. ASSUME NEW q \in Calls PROVE CallStands(q)'
  <2>1. CallStands(q)
    BY <1>2
  <2>2. UntoldAt(q)' /\ PlaceAt(q)'
    BY <1>1, <1>3, <2>1 DEF CallStands, UntoldAt, PlaceAt
  <2>3. CASE pc[q] = "idle"
    BY <1>1, <2>2, <2>3 DEF CallStands, ReadingAt, WriteAt
  <2>4. CASE pc[q] # "idle"
    <3>1. Card(q) # c /\ Card(q) \in Cards
      BY <1>1, <2>1, <2>4, Jobbed DEF CallStands, PlaceAt, CardsInv
    <3>2. row'[Card(q)] = row[Card(q)]
      BY <1>1, <3>1
    <3>3. QED
      BY <1>1, <1>3, <2>1, <2>2, <3>2
         DEF CallStands, ReadingAt, WriteAt, Unattached, OwnCard, There, Tells, Attached, Active
  <2>5. QED
    BY <2>3, <2>4
<1>7. QED
  BY <1>4, <1>5, <1>6, PartsNext DEF CardsInv

LEMMA Beginning ==
  ASSUME CardsInv, TypeOK', NEW p \in Calls, NEW k \in Kinds, NEW x \in Users,
         NEW c \in Cards, NEW b \in BOOLEAN, Begin(p, k, x, c, b)
  PROVE  CardsInv'
<1>1. /\ pc[p] = "idle" /\ c \in made /\ x \notin left
      /\ job'[p] = [kind |-> k, user |-> x, card |-> c, on |-> b] /\ pc'[p] = FirstPlace(k)
      /\ \A q \in Calls \ {p} : pc'[q] = pc[q] /\ job'[q] = job[q]
      /\ overlapped \subseteq overlapped'
      /\ (\E q \in Calls : Serves(q) /\ Card(q) = c) => c \in overlapped'
      /\ UNCHANGED <<row, made, log, left, faults, holder, off, strayed, taken, stripped, unlogged,
                     wrote>>
  BY DEF CardsInv, TypeOK, Begin, table
<1>2. /\ AloneStand /\ \A d \in Cards : CardStands(d)
      /\ \A q \in Calls : CallStands(q)
  BY Parts DEF CardsInv
<1>3. Card(p)' = c /\ Kind(p)' = k /\ User(p)' = x
  BY <1>1 DEF Card, Kind, User
<1>4. /\ pc'[p] \in {"check", "read", "write"}
      /\ pc'[p] = "check" => k \in {"attach", "agentAttach"}
      /\ pc'[p] = "read" => k \in Switches
      /\ pc'[p] = "write" => k \notin {"attach", "agentAttach"} \cup Switches
  BY <1>1 DEF FirstPlace, Switches
<1>5. \A q \in Calls \ {p} :
        /\ Card(q)' = Card(q) /\ Kind(q)' = Kind(q) /\ User(q)' = User(q)
        /\ Entry(q)' = Entry(q) /\ Serves(q)' = Serves(q) /\ job'[q] = job[q]
  BY <1>1 DEF Card, Kind, User, ActionOf, Entry, Author, Serves
<1>6. AloneStand'
  BY <1>1, <1>2, <1>3, <1>5 DEF AloneStand
<1>7. ASSUME NEW d \in Cards PROVE CardStands(d)'
  <2>1. (\E q \in Calls : pc'[q] = "log" /\ Card(q)' = d)
          <=> \E q \in Calls : pc[q] = "log" /\ Card(q) = d
    BY <1>1, <1>4, <1>5
  <2>2. /\ There(d)' = There(d) /\ Attached(d)' = Attached(d) /\ Active(d)' = Active(d)
        /\ Tells(d, log[d])' = Tells(d, log[d])
    BY <1>1 DEF There, Attached, Active, Tells
  <2>3. QED
    BY <1>1, <1>2, <2>1, <2>2 DEF CardStands
<1>8. CallStands(p)'
  <2>1. p \notin wrote
    BY <1>1, <1>2 DEF CallStands, PlaceAt
  <2>3. QED
    BY <1>1, <1>3, <1>4, <2>1 DEF CallStands, UntoldAt, ReadingAt, WriteAt, PlaceAt
<1>9. ASSUME NEW q \in Calls \ {p} PROVE CallStands(q)'
  <2>1. CallStands(q)
    BY <1>2
  <2>2. UntoldAt(q)' /\ PlaceAt(q)'
    BY <1>1, <1>5, <2>1 DEF CallStands, UntoldAt, PlaceAt
  <2>3. /\ There(Card(q))' = There(Card(q)) /\ Active(Card(q))' = Active(Card(q))
        /\ Unattached(Card(q))' = Unattached(Card(q)) /\ OwnCard(q)' = OwnCard(q)
        /\ Tells(Card(q), Append(log[Card(q)], Entry(q)))'
             = Tells(Card(q), Append(log[Card(q)], Entry(q)))
    BY <1>1, <1>5 DEF There, Attached, Active, Unattached, OwnCard, Tells
  <2>4. QED
    BY <1>1, <1>5, <2>1, <2>2, <2>3 DEF CallStands, ReadingAt, WriteAt
<1>10. QED
  BY <1>6, <1>7, <1>8, <1>9, PartsNext DEF CardsInv

LEMMA Crashing ==
  ASSUME CardsInv, TypeOK', Crash PROVE CardsInv'
<1>1. /\ UNCHANGED <<row, made, log, left, job, holder, off, strayed, overlapped, taken, stripped,
                     wrote>>
      /\ \A q \in Calls : pc'[q] = IF Serves(q) THEN "lost" ELSE pc[q]
      /\ unlogged' = unlogged \cup {Card(q) : q \in {r \in Calls : pc[r] = "log"}}
  BY DEF CardsInv, TypeOK, Crash, Unlog, table
<1>2. /\ \A d \in Cards : CardStands(d)
      /\ \A q \in Calls : CallStands(q)
  BY Parts DEF CardsInv
<1>3. \A q \in Calls : /\ ~Serves(q)' /\ Card(q)' = Card(q) /\ Kind(q)' = Kind(q)
                       /\ pc'[q] \notin Serving
  BY <1>1 DEF Serves, Serving, Card, Kind
<1>4. AloneStand'
  BY <1>3 DEF AloneStand
<1>5. ASSUME NEW d \in Cards PROVE CardStands(d)'
  <2>1. d \notin unlogged' => ~\E q \in Calls : pc[q] = "log" /\ Card(q) = d
    BY <1>1
  <2>2. /\ There(d)' = There(d) /\ Attached(d)' = Attached(d) /\ Active(d)' = Active(d)
        /\ Tells(d, log[d])' = Tells(d, log[d])
    BY <1>1 DEF There, Attached, Active, Tells
  <2>3. QED
    BY <1>1, <1>2, <2>1, <2>2 DEF CardStands
<1>6. ASSUME NEW q \in Calls PROVE CallStands(q)'
  <2>1. CallStands(q) /\ (pc'[q] = pc[q] \/ (Serves(q) /\ pc'[q] = "lost"))
    BY <1>1, <1>2
  <2>2. UntoldAt(q)' /\ PlaceAt(q)'
    BY <1>1, <1>3, <2>1 DEF CallStands, UntoldAt, PlaceAt, Serves, Serving
  <2>3. QED
    BY <1>3, <2>2 DEF CallStands, ReadingAt, WriteAt, Serving
<1>7. QED
  BY <1>4, <1>5, <1>6, PartsNext DEF CardsInv

(* A user leaves: cards they had are gone with their histories, other cards  *)
(* have lost no more than history rows.                                      *)
LEMMA Leaving ==
  ASSUME CardsInv, TypeOK', NEW x \in Users, DeleteUser(x) PROVE CardsInv'
<1>1. /\ UNCHANGED <<made, pc, job, faults, strayed, taken, stripped, wrote>>
      /\ left' = left \cup {x}
      /\ \A d \in Cards : /\ row'[d] = IF Has(x, d) THEN NoRow ELSE row[d]
                          /\ Has(x, d) => log'[d] = <<>>
                          /\ ~Has(x, d) /\ ~WroteOf(x, d) => log'[d] = log[d]
                          /\ ~Has(x, d) /\ WroteOf(x, d) => d \in unlogged'
                          /\ holder'[d] = IF holder[d] = x THEN NoUser ELSE holder[d]
                          /\ d \in off' <=> d \in off /\ ~Has(x, d)
      /\ unlogged \subseteq unlogged' /\ overlapped \subseteq overlapped'
      /\ \A q \in Calls : Serves(q) /\ (User(q) = x \/ Has(x, Card(q)))
                            => Card(q) \in overlapped'
  BY DEF CardsInv, TypeOK, DeleteUser, requests
<1>2. /\ AloneStand /\ \A d \in Cards : CardStands(d)
      /\ \A q \in Calls : CallStands(q)
  BY Parts DEF CardsInv
<1>3. \A q \in Calls : /\ Card(q)' = Card(q) /\ Kind(q)' = Kind(q) /\ User(q)' = User(q)
                       /\ Entry(q)' = Entry(q) /\ Serves(q)' = Serves(q) /\ job'[q] = job[q]
  BY <1>1 DEF Card, Kind, User, ActionOf, Entry, Author, Serves
<1>4. AloneStand'
  BY <1>1, <1>2, <1>3 DEF AloneStand
<1>5. ASSUME NEW d \in Cards PROVE CardStands(d)'
  <2>1. (\E q \in Calls : pc'[q] = "log" /\ Card(q)' = d)
          <=> \E q \in Calls : pc[q] = "log" /\ Card(q) = d
    BY <1>1, <1>3
  <2>2. CASE Has(x, d)
    <3>1. ~There(d)' /\ ~Active(d)' /\ row'[d] = NoRow /\ log'[d] = <<>> /\ d \notin off'
      BY <1>1, <2>2 DEF There, Active
    <3>2. (d \notin overlapped \cup taken \cup stripped) => holder'[d] = NoUser
      BY <1>1, <1>2, <2>2 DEF CardStands, Has
    <3>3. QED
      BY <1>1, <1>2, <3>1, <3>2 DEF CardStands
  <2>3. CASE ~Has(x, d)
    <3>1. row'[d] = row[d] /\ There(d)' = There(d) /\ Attached(d)' = Attached(d)
          /\ Active(d)' = Active(d) /\ (d \in off' <=> d \in off)
      BY <1>1, <2>3 DEF There, Attached, Active
    <3>2. d \notin unlogged' => log'[d] = log[d] /\ Tells(d, log[d])' = Tells(d, log[d])
      BY <1>1, <2>3, <3>1 DEF Tells
    <3>3. d \notin made => row'[d] = NoRow /\ log'[d] = <<>>
      <4>1. d \notin made => row[d] = NoRow /\ log[d] = <<>>
        BY <1>2 DEF CardStands
      <4>2. log[d] = <<>> => ~WroteOf(x, d)
        BY DEF WroteOf
      <4>3. QED
        BY <1>1, <2>3, <3>1, <4>1, <4>2
    <3>4. QED
      BY <1>1, <1>2, <2>1, <3>1, <3>2, <3>3 DEF CardStands
  <2>4. QED
    BY <2>2, <2>3
<1>6. ASSUME NEW q \in Calls PROVE CallStands(q)'
  <2>1. CallStands(q)
    BY <1>2
  <2>2. UntoldAt(q)' /\ PlaceAt(q)'
    BY <1>1, <1>3, <2>1 DEF CallStands, UntoldAt, PlaceAt
  <2>3. CASE pc[q] \notin {"write", "log", "mail"} \/ Card(q) \in overlapped'
    BY <1>1, <1>3, <2>2, <2>3 DEF CallStands, ReadingAt, WriteAt
  <2>4. CASE pc[q] \in {"write", "log", "mail"} /\ Card(q) \notin overlapped'
    <3>1. Serves(q) /\ ~Has(x, Card(q)) /\ Card(q) \in Cards
      BY <1>1, <2>4, Jobbed DEF Serves, Serving, CardsInv
    <3>2. row'[Card(q)] = row[Card(q)]
          /\ (Card(q) \notin unlogged' => log'[Card(q)] = log[Card(q)])
      BY <1>1, <3>1
    <3>3. ReadingAt(q)'
      BY <1>1, <1>3, <2>1, <3>2 DEF CallStands, ReadingAt, Unattached, OwnCard, There
    <3>4. WriteAt(q)'
      BY <1>1, <1>3, <2>1, <3>2 DEF CallStands, WriteAt, OwnCard, There, Tells, Attached, Active
    <3>5. QED
      BY <2>2, <3>3, <3>4 DEF CallStands
  <2>5. QED
    BY <2>3, <2>4
<1>7. QED
  BY <1>4, <1>5, <1>6, PartsNext DEF CardsInv

LEMMA Stuttering ==
  ASSUME CardsInv, UNCHANGED vars PROVE CardsInv'
<1>1. UNCHANGED <<row, made, log, left, pc, job, faults, holder, off, strayed, overlapped, taken,
                  stripped, unlogged, wrote>>
  BY DEF vars, table, requests, history
<1>2. TypeOK'
  BY <1>1 DEF CardsInv, TypeOK
<1>3. AnswersStand' /\ StrayNeedsOverlap' /\ UntoldNeedsCause'
  BY <1>1 DEF CardsInv, CardsStand, AnswersStand, StrayNeedsOverlap,
              UntoldNeedsCause, There, Attached, Active, Card, Kind
<1>4. HistoryTells'
  BY <1>1 DEF CardsInv, CardsStand, HistoryTells, Tells, There, Attached, Active, Card
<1>5. AloneStand' /\ PlacesStand'
  BY <1>1 DEF CardsInv, CardsStand, AloneStand, PlacesStand, Serves, Card, Kind, User
<1>6. ReadingsStand'
  BY <1>1 DEF CardsInv, CardsStand, ReadingsStand, Unattached, OwnCard, There, Card, Kind, User
<1>7. WritesStand'
  BY <1>1 DEF CardsInv, CardsStand, WritesStand, Tells, There, Attached, Active, OwnCard,
              ActionOf, Entry, Author, Card, Kind, User
<1>8. QED
  BY <1>2, <1>3, <1>4, <1>5, <1>6, <1>7 DEF CardsInv, CardsStand

LEMMA Starting == Init => CardsInv
<1> SUFFICES ASSUME Init PROVE CardsInv
  OBVIOUS
<1>1. TypeOK
  BY CardsAssumption DEF Init, TypeOK
<1>2. \A c \in Cards : ~There(c) /\ ~Attached(c) /\ ~Active(c)
  BY DEF Init, There, Attached, Active
<1>3. \A p \in Calls : pc[p] = "idle" /\ ~Serves(p)
  BY DEF Init, Serves, Serving
<1>4. QED
  BY <1>1, <1>2, <1>3
     DEF CardsInv, CardsStand, HistoryTells, AnswersStand, StrayNeedsOverlap,
         UntoldNeedsCause, AloneStand, ReadingsStand, WritesStand, PlacesStand, Init
-------------------------------------------------------------------------------
(* The state is of its types, and a request on a card that no other request  *)
(* was on still finds what it has checked, with everything that follows.     *)
THEOREM CardsStandHolds == Spec => [](TypeOK /\ CardsStand)
<1>1. CardsInv /\ [Next]_vars => CardsInv'
  <2> SUFFICES ASSUME CardsInv, [Next]_vars PROVE CardsInv'
    OBVIOUS
  <2>0. TypeOK'
    BY Typed DEF CardsInv
  <2>1. ASSUME NEW c \in Cards, Create(c) PROVE CardsInv'
    BY <2>0, <2>1, Creating
  <2>2. ASSUME NEW p \in Calls, NEW k \in Kinds, NEW x \in Users, NEW c \in Cards,
               NEW b \in BOOLEAN, Begin(p, k, x, c, b)
        PROVE  CardsInv'
    BY <2>0, <2>2, Beginning
  <2>3. ASSUME NEW p \in Calls, Step(p) PROVE CardsInv'
    <3>1. ASSUME Check(p) \/ Read(p) \/ Deny(p) \/ NoSuchColumn(p) \/ NotFound(p) \/ NotLogged(p)
          PROVE  CardsInv'
      BY <2>0, <3>1, Quiet
    <3>2. QED
      BY <2>0, <2>3, <3>1, Attaching, Removing, Switching, Deleting, Logging, Mailing, Failing
         DEF Step
  <2>4. ASSUME Crash PROVE CardsInv'
    BY <2>0, <2>4, Crashing
  <2>5. ASSUME UNCHANGED vars PROVE CardsInv'
    BY <2>5, Stuttering
  <2>6. ASSUME NEW x \in Users, DeleteUser(x) PROVE CardsInv'
    BY <2>0, <2>6, Leaving
  <2>7. QED
    BY <2>1, <2>2, <2>3, <2>4, <2>5, <2>6, NextCases
<1>2. QED
  BY <1>1, Starting, PTL DEF Spec, CardsInv

(* Cards, histories and requests keep their types. *)
THEOREM TypeCorrect == Spec => []TypeOK
BY CardsStandHolds, PTL

(* The history of a card tells who has it and whether it is on, but for      *)
(* overlapping requests and history rows lost to a fault or with the account *)
(* of who wrote them.                                                        *)
THEOREM HistoriesTell == Spec => []HistoryTells
<1>1. CardsStand => HistoryTells
  BY DEF CardsStand
<1>2. QED
  BY <1>1, CardsStandHolds, PTL

(* A user who was told that a card is attached, or disabled, still has it    *)
(* so, but for overlapping requests, sign-ups with that card, and users who  *)
(* remove another's.                                                         *)
THEOREM AnswersAreKept == Spec => []AnswersStand
<1>1. CardsStand => AnswersStand
  BY DEF CardsStand
<1>2. QED
  BY <1>1, CardsStandHolds, PTL

(* Nobody but its user, or an agent with the user's code, switches a card on *)
(* or off, unless it changed hands between the check and the write.          *)
THEOREM StraysOverlap == Spec => []StrayNeedsOverlap
<1>1. CardsStand => StrayNeedsOverlap
  BY DEF CardsStand
<1>2. QED
  BY <1>1, CardsStandHolds, PTL

(* A request that is told it failed left the card as it was, but for the     *)
(* causes the property names.                                                *)
THEOREM FailuresAreTold == Spec => []UntoldNeedsCause
<1>1. CardsStand => UntoldNeedsCause
  BY DEF CardsStand
<1>2. QED
  BY <1>1, CardsStandHolds, PTL
===============================================================================
