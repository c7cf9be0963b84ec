-------------------------------- MODULE Ledger --------------------------------
(***************************************************************************)
(* What the payment endpoints promise, with none of their steps: a call    *)
(* moves its money at most once and in one step, and what is written in    *)
(* the transactions table is a move that took place.  Payments.tla is      *)
(* shown to implement this specification.                                  *)
(***************************************************************************)
EXTENDS Integers

CONSTANTS Calls,      \* the requests to move money
          Accounts,   \* wallets, and cards that hold a balance of their own
          Amounts     \* the amounts a request can be for

VARIABLES balance,    \* balance[a]: what account a holds
          moves,      \* the moves of money that took place
          book        \* the moves the transactions table knows of

ledgerVars == <<balance, moves, book>>

Moves == [by : Calls, from : Accounts, to : Accounts, amount : Amounts]

(* The balances after amount n went from account a to account b. *)
Moved(bal, a, b, n) == [bal EXCEPT ![a] = @ - n, ![b] = @ + n]

Init == /\ balance \in [Accounts -> Int]
        /\ moves = {}
        /\ book = {}

(* A call moves its money, all of it and only if it has not done so before. *)
Transfer(m) == /\ \A n \in moves : n.by # m.by
               /\ balance' = Moved(balance, m.from, m.to, m.amount)
               /\ moves' = moves \cup {m}
               /\ UNCHANGED book

(* A move is written down, after the money has moved. *)
Book(m) == /\ m \in moves
           /\ m \notin book
           /\ book' = book \cup {m}
           /\ UNCHANGED <<balance, moves>>

(* What is written may be struck out; the money stays where it went. *)
Strike(S) == /\ S \subseteq book
             /\ book' = book \ S
             /\ UNCHANGED <<balance, moves>>

Next == \/ \E m \in Moves : Transfer(m) \/ Book(m)
        \/ \E S \in SUBSET book : Strike(S)

Spec == Init /\ [][Next]_ledgerVars
===============================================================================
