--------------------------------- MODULE Cards ---------------------------------
(***************************************************************************)
(* NFC cards: CardService, the check of CardIsUnattached and the cards of  *)
(* a sign-up.  A card is a row that names its user and the wallet it is    *)
(* charged to; what is done to it is written to its history in a query of  *)
(* its own.  Nothing that was read of a card is looked at again when it is *)
(* written.  A user who deletes the account takes the cards they have and  *)
(* the history rows they wrote, on whatever card, with them.               *)
(*                                                                         *)
(* The wallet of a card is not modelled: an attachment writes the one the  *)
(* client names, whoever's it is.                                          *)
(***************************************************************************)
EXTENDS Sequences, Integers

CONSTANTS Users, Cards,
          Calls,     \* bound: the requests
          NoUser, NoRow, NoJob,
          MaxFaults  \* bound: failed queries and mails, and crashes

(* "signUp" is the card of a sign-up, the agent's kinds act for a user. *)
Attaches == {"attach", "agentAttach", "signUp"}
Switches == {"update", "agentDisable"}
Kinds == Attaches \cup Switches \cup {"remove", "delete"}
CardActions == {"ATTACH", "DETTACH", "ENABLE", "DISABLE", "DELETE"}

Rows == [owner : Users \cup {NoUser}, active : BOOLEAN]
(* A history row names who did it; agents and staff keep their accounts.     *)
(* Where one has gone with its writer its place stays empty.                 *)
Entries == [action : CardActions \cup {"GONE"}, by : Users \cup {NoUser}]
Gone == [action |-> "GONE", by |-> NoUser]
(* on: what a switch of the card asks for. *)
Jobs == [kind : Kinds, user : Users, card : Cards, on : BOOLEAN]

ASSUME CardsAssumption ==
  /\ NoUser \notin Users /\ NoRow \notin Rows /\ NoJob \notin Jobs
  /\ MaxFaults \in Nat

VARIABLES
  row,        \* row[c]: the row of card c, NoRow before it is made and after it is deleted
  made,       \* the cards that were created
  log,        \* log[c]: its history rows, oldest first
  left,       \* the users who have deleted their accounts
  pc, job,    \* the requests
  faults,
  holder,     \* history: holder[c]: who was last told that c is attached, and has not removed it
  off,        \* history: the cards whose user was told they are disabled, until they are enabled
  strayed,    \* history: cards that were switched by one who was not their user
  overlapped, \* history: cards with two requests at once, an account's deletion being one
  taken,      \* history: cards a sign-up attached though they had a user
  stripped,   \* history: cards that were removed by one who was not their user
  unlogged,   \* history: cards with a history row that was not written, or went with its writer
  wrote       \* history: the requests that wrote to their card

table == <<row, made, log, left>>
requests == <<pc, job>>
history == <<holder, off, strayed, overlapped, taken, stripped, unlogged, wrote>>
vars == <<table, requests, faults, history>>

Serving == {"check", "read", "write", "log", "mail"}
Ended == {"ok", "refused", "failed", "broken", "lost"}  \* broken: failed, by a fault

TypeOK ==
  /\ row \in [Cards -> Rows \cup {NoRow}]
  /\ made \subseteq Cards
  /\ log \in [Cards -> Seq(Entries)]
  /\ left \subseteq Users
  /\ pc \in [Calls -> {"idle"} \cup Serving \cup Ended]
  /\ job \in [Calls -> Jobs \cup {NoJob}]
  /\ \A p \in Calls : pc[p] # "idle" => job[p] \in Jobs
  /\ faults \in Nat
  /\ holder \in [Cards -> Users \cup {NoUser}]
  /\ off \subseteq Cards /\ strayed \subseteq Cards /\ overlapped \subseteq Cards
  /\ taken \subseteq Cards /\ stripped \subseteq Cards /\ unlogged \subseteq Cards
  /\ wrote \subseteq Calls

Init ==
  /\ row = [c \in Cards |-> NoRow]
  /\ made = {} /\ left = {}
  /\ log = [c \in Cards |-> <<>>]
  /\ pc = [p \in Calls |-> "idle"] /\ job = [p \in Calls |-> NoJob]
  /\ faults = 0
  /\ holder = [c \in Cards |-> NoUser]
  /\ off = {} /\ strayed = {} /\ overlapped = {} /\ taken = {} /\ stripped = {}
  /\ unlogged = {} /\ wrote = {}
-------------------------------------------------------------------------------
There(c) == row[c] # NoRow
Attached(c) == There(c) /\ row[c].owner # NoUser
Active(c) == There(c) /\ row[c].active
Kind(p) == job[p].kind
Card(p) == job[p].card
User(p) == job[p].user
Serves(p) == pc[p] \in Serving

Goto(p, place) == pc' = [pc EXCEPT ![p] = place] /\ UNCHANGED job
Fault == faults < MaxFaults /\ faults' = faults + 1

(* A new card is nobody's and not active. *)
Create(c) ==
  /\ c \notin made
  /\ made' = made \cup {c}
  /\ row' = [row EXCEPT ![c] = [owner |-> NoUser, active |-> FALSE]]
  /\ UNCHANGED <<log, left, requests, faults, history>>

FirstPlace(k) == CASE k \in {"attach", "agentAttach"} -> "check"
                   [] k \in Switches -> "read"
                   [] OTHER -> "write"

(* A request of a user, or about one, who has an account; a sign-up is the   *)
(* first that is heard of its user.  Any card may be named to be removed.    *)
(* An update that only names a card changes nothing that is kept here.       *)
Begin(p, k, x, c, b) ==
  /\ pc[p] = "idle"
  /\ c \in made /\ x \notin left
  /\ k = "signUp" => \A q \in Calls : pc[q] # "idle" => job[q].user # x
  /\ b => k = "update"
  /\ job' = [job EXCEPT ![p] = [kind |-> k, user |-> x, card |-> c, on |-> b]]
  /\ pc' = [pc EXCEPT ![p] = FirstPlace(k)]
  /\ overlapped' = IF \E q \in Calls : Serves(q) /\ Card(q) = c
                   THEN overlapped \cup {c} ELSE overlapped
  /\ UNCHANGED <<table, faults, holder, off, strayed, taken, stripped, unlogged, wrote>>

(* CardIsUnattached.  Mutant: a card somebody has passes. *)
Unattached_Any(c) == There(c)
Unattached(c) == There(c) /\ row[c].owner = NoUser
Check(p) ==
  /\ pc[p] = "check"
  /\ Goto(p, IF Unattached(Card(p)) THEN "write" ELSE "refused")
  /\ UNCHANGED <<table, faults, history>>

(* The card a switch finds has to be the user's.  Mutant: any card will do. *)
OwnCard_Any(p) == There(Card(p))
OwnCard(p) == There(Card(p)) /\ row[Card(p)].owner = User(p)
Read(p) ==
  /\ pc[p] = "read"
  /\ Goto(p, IF OwnCard(p) THEN "write" ELSE "refused")
  /\ UNCHANGED <<table, faults, history>>

(* A wrong pin, or for the agent's switch a wrong code; the code of the      *)
(* agent's attachment is verified and its outcome is not looked at, but the  *)
(* agent may name nobody, or send a pin that is compared with none.          *)
Deny(p) ==
  /\ pc[p] = "read" \/ (pc[p] = "write" /\ Kind(p) \in {"attach", "agentAttach"})
  /\ Goto(p, "refused")
  /\ UNCHANGED <<table, faults, history>>

(* An update that was sent with the pin writes it too: there is no such column. *)
NoSuchColumn(p) ==
  /\ pc[p] = "write" /\ Kind(p) = "update"
  /\ Goto(p, "failed")
  /\ UNCHANGED <<table, faults, history>>
-------------------------------------------------------------------------------
(* The writes, each of one row by its number alone. *)

Wrote(p) == Goto(p, "log") /\ wrote' = wrote \cup {p}

(* There is no such card, or no such wallet or user for an attachment.       *)
NotFound(p) ==
  /\ pc[p] = "write" /\ (~There(Card(p)) \/ Kind(p) \in Attaches)
  /\ Goto(p, "failed")
  /\ UNCHANGED <<table, faults, history>>

Attach(p) ==
  LET c == Card(p)  x == User(p) IN
  /\ pc[p] = "write" /\ Kind(p) \in Attaches /\ There(c) /\ x \notin left
  /\ row' = [row EXCEPT ![c] = [owner |-> x, active |-> TRUE]]
  /\ off' = off \ {c}
  /\ taken' = IF Kind(p) = "signUp" /\ Attached(c) THEN taken \cup {c} ELSE taken
  /\ Wrote(p)
  /\ UNCHANGED <<made, log, left, faults, holder, strayed, overlapped, stripped, unlogged>>

(* The state of the card stays.  Nobody asks whose it is.                    *)
Remove(p) ==
  LET c == Card(p) IN
  /\ pc[p] = "write" /\ Kind(p) = "remove" /\ There(c)
  /\ row' = [row EXCEPT ![c].owner = NoUser]
  /\ holder' = [holder EXCEPT ![c] = IF @ = User(p) THEN NoUser ELSE @]
  /\ stripped' = IF row[c].owner \notin {NoUser, User(p)} THEN stripped \cup {c} ELSE stripped
  /\ Wrote(p)
  /\ UNCHANGED <<made, log, left, faults, off, strayed, overlapped, taken, unlogged>>

Switch(p) ==
  LET c == Card(p) IN
  /\ pc[p] = "write" /\ Kind(p) \in Switches /\ There(c)
  /\ row' = [row EXCEPT ![c].active = job[p].on]
  /\ off' = IF job[p].on THEN off \ {c} ELSE off
  /\ strayed' = IF row[c].owner # User(p) THEN strayed \cup {c} ELSE strayed
  /\ Wrote(p)
  /\ UNCHANGED <<made, log, left, faults, holder, overlapped, taken, stripped, unlogged>>

(* The history goes with the card. *)
Delete(p) ==
  LET c == Card(p) IN
  /\ pc[p] = "write" /\ Kind(p) = "delete" /\ There(c)
  /\ row' = [row EXCEPT ![c] = NoRow]
  /\ log' = [log EXCEPT ![c] = <<>>]
  /\ holder' = [holder EXCEPT ![c] = NoUser]
  /\ off' = off \ {c}
  /\ Wrote(p)
  /\ UNCHANGED <<made, left, faults, strayed, overlapped, taken, stripped, unlogged>>

(* deleteUser, one query: the rows of the user's cards go with the user's,   *)
(* their histories with them, and so do the history rows the user wrote.     *)
Has(x, c) == There(c) /\ row[c].owner = x
WroteOf(x, c) == \E i \in DOMAIN log[c] : log[c][i].by = x
DeleteUser(x) ==
  /\ x \notin left /\ left' = left \cup {x}
  /\ row' = [c \in Cards |-> IF Has(x, c) THEN NoRow ELSE row[c]]
  /\ log' = [c \in Cards |->
              IF Has(x, c) THEN <<>>
              ELSE IF WroteOf(x, c)
              THEN [i \in 1..Len(log[c]) |-> IF log[c][i].by = x THEN Gone ELSE log[c][i]]
              ELSE log[c]]
  /\ unlogged' = unlogged \cup {c \in Cards : ~Has(x, c) /\ WroteOf(x, c)}
  /\ overlapped' = overlapped \cup
       {Card(q) : q \in {r \in Calls : Serves(r) /\ (User(r) = x \/ Has(x, Card(r)))}}
  /\ holder' = [c \in Cards |-> IF holder[c] = x THEN NoUser ELSE holder[c]]
  /\ off' = {c \in off : ~Has(x, c)}
  /\ UNCHANGED <<made, requests, faults, strayed, taken, stripped, wrote>>
-------------------------------------------------------------------------------
(* The history row, the mail and the answer. *)

ActionOf(p) == CASE Kind(p) \in Attaches -> "ATTACH"
                 [] Kind(p) = "remove" -> "DETTACH"
                 [] Kind(p) \in Switches -> IF job[p].on THEN "ENABLE" ELSE "DISABLE"
                 [] OTHER -> "DELETE"

(* A history row names the user, but for what agents and staff do.           *)
Author(p) == IF Kind(p) \in {"attach", "signUp", "remove", "update"} THEN User(p) ELSE NoUser
Entry(p) == [action |-> ActionOf(p), by |-> Author(p)]
CanLog(p) == There(Card(p)) /\ Author(p) \notin left

(* A row about a card that is gone, or by a user who is, breaks the foreign  *)
(* key.  Mutant: the disabling of a card is not written.                     *)
Log_NoDisable(p) ==
  LET c == Card(p) IN
  /\ pc[p] = "log" /\ CanLog(p)
  /\ log' = IF ActionOf(p) = "DISABLE" THEN log
            ELSE [log EXCEPT ![c] = Append(@, Entry(p))]
  /\ off' = IF Kind(p) \in Switches /\ ~job[p].on THEN off \cup {c} ELSE off
  /\ Goto(p, IF Kind(p) \in Switches THEN "ok" ELSE "mail")
  /\ UNCHANGED <<row, made, left, faults, holder, strayed, overlapped, taken, stripped, unlogged,
                 wrote>>
Log(p) ==
  LET c == Card(p) IN
  /\ pc[p] = "log" /\ CanLog(p)
  /\ log' = [log EXCEPT ![c] = Append(@, Entry(p))]
  /\ off' = IF Kind(p) \in Switches /\ ~job[p].on THEN off \cup {c} ELSE off
  /\ Goto(p, IF Kind(p) \in Switches THEN "ok" ELSE "mail")
  /\ UNCHANGED <<row, made, left, faults, holder, strayed, overlapped, taken, stripped, unlogged,
                 wrote>>
NotLogged(p) ==
  /\ pc[p] = "log" /\ ~CanLog(p)
  /\ Goto(p, "failed")
  /\ UNCHANGED <<table, faults, history>>

(* The mail greets the user by a name that an agent's attachment and a       *)
(* sign-up do not pass on: it throws, and the attached card is reported as   *)
(* failed, which a sign-up does not look at.                                 *)
Nameless_All == Attaches  \* mutant: no attachment does
Nameless == {"agentAttach", "signUp"}
Mail(p) ==
  /\ pc[p] = "mail"
  /\ holder' = IF Kind(p) = "attach" THEN [holder EXCEPT ![Card(p)] = User(p)] ELSE holder
  /\ Goto(p, IF Kind(p) \in Nameless THEN "failed" ELSE "ok")
  /\ UNCHANGED <<table, faults, off, strayed, overlapped, taken, stripped, unlogged, wrote>>

(* What was written for a request of S has no history row. *)
Unlog(S) == unlogged' = unlogged \cup {Card(p) : p \in {q \in S : pc[q] = "log"}}

Fail(p) ==
  /\ Serves(p)
  /\ Fault
  /\ Unlog({p})
  /\ Goto(p, "broken")
  /\ UNCHANGED <<table, holder, off, strayed, overlapped, taken, stripped, wrote>>

Crash ==
  /\ \E p \in Calls : Serves(p)
  /\ Fault
  /\ Unlog(Calls)
  /\ pc' = [p \in Calls |-> IF Serves(p) THEN "lost" ELSE pc[p]]
  /\ UNCHANGED <<table, job, holder, off, strayed, overlapped, taken, stripped, wrote>>
-------------------------------------------------------------------------------
Step(p) == \/ Check(p) \/ Read(p) \/ Deny(p) \/ NoSuchColumn(p)
           \/ NotFound(p) \/ Attach(p) \/ Remove(p) \/ Switch(p) \/ Delete(p)
           \/ Log(p) \/ NotLogged(p) \/ Mail(p) \/ Fail(p)

Next ==
  \/ \E c \in Cards : Create(c)
  \/ \E p \in Calls :
       \/ \E k \in Kinds, x \in Users, c \in Cards, b \in BOOLEAN : Begin(p, k, x, c, b)
       \/ Step(p)
  \/ \E x \in Users : DeleteUser(x)
  \/ Crash

Spec == Init /\ [][Next]_vars
-------------------------------------------------------------------------------
(* Safety. *)

(* What a history says: attached and not detached since, switched on or      *)
(* attached and not switched off since.                                      *)
TellsAttached(h) ==
  \E i \in DOMAIN h : /\ h[i].action = "ATTACH"
                      /\ \A j \in DOMAIN h : j > i => h[j].action # "DETTACH"
TellsActive(h) ==
  \E i \in DOMAIN h : /\ h[i].action \in {"ATTACH", "ENABLE"}
                      /\ \A j \in DOMAIN h : j > i => h[j].action # "DISABLE"

Tells(c, h) == (Attached(c) <=> TellsAttached(h)) /\ (Active(c) <=> TellsActive(h))

(* The history of a card nobody is busy with tells what its row holds,       *)
(* unless requests on it overlapped or a row of it was lost to a fault or    *)
(* with the account of who wrote it: who attaches a card, removes it and     *)
(* leaves takes the two rows along, and the card stays active.               *)
HistoryTells ==
  \A c \in Cards \ (overlapped \cup unlogged) :
    (There(c) /\ ~\E p \in Calls : pc[p] = "log" /\ Card(p) = c) => Tells(c, log[c])

(* A user who was told that a card is attached has it, and a card whose user *)
(* was told that it is disabled is, until one of them or support changes it  *)
(* or the user leaves, unless requests overlapped, somebody signed up with   *)
(* that card, or another user removed it, which nobody forbids.              *)
AnswersStand ==
  \A c \in Cards \ overlapped :
    /\ holder[c] # NoUser /\ c \notin taken \cup stripped => There(c) /\ row[c].owner = holder[c]
    /\ c \in off => ~Active(c)

(* Only its user, or an agent with the user's code, switches a card on or    *)
(* off, unless it changed hands between the check and the write.             *)
StrayNeedsOverlap == strayed \subseteq overlapped

(* Who is told that a request failed finds the card as it was, but for a     *)
(* failed query or mail, overlapping requests, a deletion, and an attachment *)
(* by an agent or a sign-up.                                                 *)
UntoldNeedsCause ==
  \A p \in wrote :
    pc[p] \in {"refused", "failed"} =>
      Kind(p) \in {"agentAttach", "signUp", "delete"} \/ Card(p) \in overlapped

(* Why: a request on a card that no other request was on still finds what it *)
(* has checked, and the history lacks just the row it is about to write.     *)
AloneStand ==
  \A p, q \in Calls :
    (Serves(p) /\ Serves(q) /\ Card(p) = Card(q) /\ Card(p) \notin overlapped) => p = q
ReadingsStand ==
  \A p \in Calls : (pc[p] = "write" /\ Card(p) \notin overlapped) =>
    /\ Kind(p) \in {"attach", "agentAttach"} => Unattached(Card(p))
    /\ Kind(p) \in Switches => OwnCard(p)
WritesStand ==
  \A p \in Calls : (pc[p] \in {"log", "mail"} /\ Card(p) \notin overlapped) =>
    /\ pc[p] = "log" =>
         /\ There(Card(p)) <=> Kind(p) # "delete"
         /\ There(Card(p)) /\ Card(p) \notin unlogged =>
              Tells(Card(p), Append(log[Card(p)], Entry(p)))
         /\ Kind(p) \in Switches => (Active(Card(p)) <=> job[p].on)
    /\ Kind(p) \in Attaches => OwnCard(p)
PlacesStand ==
  /\ \A c \in Cards \ made : row[c] = NoRow /\ log[c] = <<>>
  /\ \A p \in Calls :
       /\ pc[p] # "idle" => Card(p) \in made
       /\ pc[p] \in {"idle", "check", "read", "write"} => p \notin wrote
       /\ pc[p] = "check" => Kind(p) \in {"attach", "agentAttach"}
       /\ pc[p] = "read" => Kind(p) \in Switches
       /\ Serves(p) /\ Card(p) \notin overlapped => User(p) \notin left
CardsStand ==
  /\ HistoryTells /\ AnswersStand /\ StrayNeedsOverlap /\ UntoldNeedsCause
  /\ AloneStand /\ ReadingsStand /\ WritesStand /\ PlacesStand
===============================================================================
