--------------------------------- MODULE Banks ---------------------------------
(***************************************************************************)
(* The list of banks and the accounts money is withdrawn to: uploadBanks,  *)
(* addBank and updateBank of AdminService, getBanks and addBankAccount of  *)
(* UserService and addBankAccount of BusinessService.                      *)
(*                                                                         *)
(* The list is kept in the rows and in a cache in the server's memory that *)
(* hands out the very objects it holds; the cache forgets it after a       *)
(* while.  Writing a row, listing the rows and caching the list are three  *)
(* steps, and requests run between any two of them.                        *)
(***************************************************************************)
EXTENDS Integers

CONSTANTS Banks,        \* the slugs
          Seeded,       \* those the seeder has left in the database
          Users, Firms, \* who has a bank account; a firm's is added by its owner
          Numbers,      \* account numbers
          Sent,         \* bound: pairs of a client and a number that is asked for
          Exempt,       \* pairs of a bank and a number that are not looked up
          Real,         \* those the lookup finds an account for
          Bears,        \* pairs of a user and one of these, if the account's name
                        \* has the user's first and last name in it
          Admins,       \* bound: the admins' requests handled at once
          Requests,     \* bound: the clients' requests handled at once
          NoAccount, NoOne, NoName,
          MaxWrites,    \* bound: rows admins write or try to
          MaxAsks       \* bound: bank accounts asked for

Clients == Users \cup Firms

(* What a list says of a bank: a slug, and whose row the rest is, as it was. *)
Entries == [slug : Banks, of : Banks, version : Nat]
Lists == SUBSET Entries
(* What a client picks from: a slug, and the bank it is shown for. *)
Picks == [slug : Banks, of : Banks]
(* The name of an account: that of the account that was looked up, or NoName *)
(* where it is put together from the names of the user.                      *)
AccountNames == (Banks \X Numbers) \cup {NoName}
Accounts == [bank : Banks, number : Numbers, name : AccountNames, meant : Banks]
(* A request for an account: of whom, what it says, the bank that was picked *)
(* and whether the client had an account when that was read.                 *)
Asks == [who : Clients, bank : Banks, number : Numbers, meant : Banks, had : BOOLEAN]

ASSUME BanksAssumption ==
  /\ Seeded \subseteq Banks /\ Exempt \subseteq Banks \X Numbers
  /\ Sent \subseteq Clients \X Numbers
  /\ Real \subseteq Banks \X Numbers /\ Bears \subseteq Users \X Real
  /\ Users \cap Firms = {}
  /\ MaxWrites \in Nat /\ MaxAsks \in Nat
  /\ NoAccount \notin Accounts /\ NoOne \notin Asks
  /\ NoName \notin Banks \X Numbers

VARIABLES
  bank,     \* bank[b]: the version of the row of b, 0 if there is none
  cached,   \* does the cache hold a list?
  cache,    \* that list, or {}
  apc,      \* apc[a]: where an admin's request is
  file,     \* file[a]: the banks of an upload yet to be written
  list,     \* list[a]: the list it is about to cache
  stage,    \* stage[r]: where a client's request for a bank account is
  ask,      \* ask[r]: what it asks for
  account,  \* account[c]: the bank account of c
  shown,    \* shown[c]: the list c has on the screen
  writes, asks,
  behind,   \* history: the admins' requests whose list misses another's write
  flaws,    \* history: what has become of the list since, or when, it was cached
  fooled    \* history: the clients who were shown a list that was bent

store == <<cached, cache>>
admins == <<apc, file, list, behind>>
clients == <<stage, ask, account, shown, fooled>>
counts == <<writes, asks>>
banksVars == <<bank, store, admins, clients, counts, flaws>>

BanksTypeOK ==
  /\ bank \in [Banks -> Nat]
  /\ cached \in BOOLEAN /\ cache \in Lists
  /\ apc \in [Admins -> {"idle", "upload", "list", "set"}]
  /\ file \in [Admins -> SUBSET Banks]
  /\ list \in [Admins -> Lists]
  /\ stage \in [Requests -> {"idle", "cache", "owner", "lookup", "save"}]
  /\ ask \in [Requests -> Asks \cup {NoOne}]
  /\ \A r \in Requests : stage[r] # "idle" => ask[r] \in Asks
  /\ account \in [Clients -> Accounts \cup {NoAccount}]
  /\ shown \in [Clients -> SUBSET Picks]
  /\ writes \in Nat /\ asks \in Nat
  /\ behind \subseteq Admins /\ fooled \subseteq Clients
  /\ flaws \subseteq {"late", "partial", "uncached", "bent"}

BanksInit ==
  /\ bank = [b \in Banks |-> IF b \in Seeded THEN 1 ELSE 0]
  /\ cached = FALSE /\ cache = {}
  /\ apc = [a \in Admins |-> "idle"] /\ file = [a \in Admins |-> {}]
  /\ list = [a \in Admins |-> {}]
  /\ stage = [r \in Requests |-> "idle"] /\ ask = [r \in Requests |-> NoOne]
  /\ account = [c \in Clients |-> NoAccount] /\ shown = [c \in Clients |-> {}]
  /\ writes = 0 /\ asks = 0
  /\ behind = {} /\ flaws = {} /\ fooled = {}

-------------------------------------------------------------------------------
Entry(b) == [slug |-> b, of |-> b, version |-> bank[b]]
Rows == {Entry(b) : b \in {x \in Banks : bank[x] > 0}}

(* A row is written: requests that are past their list do not see it. *)
Write(a, b) ==
  /\ writes < MaxWrites /\ writes' = writes + 1
  /\ bank' = [bank EXCEPT ![b] = @ + 1]
  /\ behind' = behind \cup {x \in Admins \ {a} : apc[x] \in {"set", "upload"}}

(* addBank creates a row, refusing a slug that is there; updateBank writes   *)
(* one that is.  The logo was uploaded before.                               *)
WriteBank(a, b) ==
  /\ apc[a] = "idle"
  /\ Write(a, b)
  /\ apc' = [apc EXCEPT ![a] = "list"]
  /\ UNCHANGED <<store, file, list, clients, asks, flaws>>

(* Mutant: the list is read before the row is written. *)
ListRows_Old(a) ==
  /\ apc[a] = "list"
  /\ list' = [list EXCEPT ![a] = {IF e.version > 1 THEN [e EXCEPT !.version = @ - 1] ELSE e
                                    : e \in Rows}]
  /\ behind' = behind \ {a}
  /\ apc' = [apc EXCEPT ![a] = "set"]
  /\ UNCHANGED <<bank, store, file, clients, counts, flaws>>
ListRows(a) ==
  /\ apc[a] = "list"
  /\ list' = [list EXCEPT ![a] = Rows]
  /\ behind' = behind \ {a}
  /\ apc' = [apc EXCEPT ![a] = "set"]
  /\ UNCHANGED <<bank, store, file, clients, counts, flaws>>

(* uploadBanks creates or updates the row of each bank of a file, and caches *)
(* what it has written.                                                      *)
Upload(a, bs) ==
  /\ apc[a] = "idle" /\ bs # {} /\ writes < MaxWrites
  /\ file' = [file EXCEPT ![a] = bs]
  /\ list' = [list EXCEPT ![a] = {}]
  /\ apc' = [apc EXCEPT ![a] = "upload"]
  /\ UNCHANGED <<bank, store, behind, clients, counts, flaws>>

UploadBank(a, b) ==
  /\ apc[a] = "upload" /\ b \in file[a]
  /\ Write(a, b)
  /\ list' = [list EXCEPT ![a] = @ \cup {[Entry(b) EXCEPT !.version = @ + 1]}]
  /\ file' = [file EXCEPT ![a] = @ \ {b}]
  /\ UNCHANGED <<store, apc, clients, asks, flaws>>

(* A row that cannot be created is left out of the list. *)
SkipBank(a, b) ==
  /\ apc[a] = "upload" /\ b \in file[a]
  /\ writes < MaxWrites /\ writes' = writes + 1
  /\ file' = [file EXCEPT ![a] = @ \ {b}]
  /\ UNCHANGED <<bank, store, apc, list, behind, clients, asks, flaws>>

Cache(a, of) ==
  /\ cached' = TRUE /\ cache' = of
  /\ flaws' = (IF a \in behind THEN {"late"} ELSE {})
              \cup (IF apc[a] = "upload" THEN {"partial"} ELSE {})
  /\ apc' = [apc EXCEPT ![a] = "idle"]
  /\ list' = [list EXCEPT ![a] = {}]
  /\ behind' = behind \ {a}
  /\ UNCHANGED <<bank, file, clients, counts>>

SetCache(a) ==
  /\ apc[a] = "set" \/ (apc[a] = "upload" /\ file[a] = {})
  /\ Cache(a, list[a])

(* A query fails, or the server's answer to it is lost: what was written     *)
(* stays and is not cached.                                                  *)
AdminFails(a) ==
  /\ apc[a] # "idle"
  /\ flaws' = IF ~cached THEN flaws ELSE flaws \cup {"uncached"}
  /\ apc' = [apc EXCEPT ![a] = "idle"]
  /\ file' = [file EXCEPT ![a] = {}] /\ list' = [list EXCEPT ![a] = {}]
  /\ behind' = behind \ {a}
  /\ UNCHANGED <<bank, store, clients, counts>>

Expire ==
  /\ cached
  /\ cached' = FALSE /\ cache' = {} /\ flaws' = {}
  /\ UNCHANGED <<bank, admins, clients, counts>>
-------------------------------------------------------------------------------
(* getBanks: the cached list, or else the rows.  With a name to look for the *)
(* list starts empty and is never filled.  The client leaves it with a pick.  *)
GetBanks(c) ==
  /\ shown[c] = {} /\ asks < MaxAsks
  /\ \/ /\ shown' = [shown EXCEPT ![c] = {[slug |-> e.slug, of |-> e.of] :
                                           e \in IF cached THEN cache ELSE Rows}]
        /\ fooled' = IF "bent" \in flaws THEN fooled \cup {c} ELSE fooled
     \/ shown' = [shown EXCEPT ![c] = {}] /\ UNCHANGED fooled
  /\ UNCHANGED <<bank, store, admins, stage, ask, account, counts, flaws>>

Advance(r, place) == stage' = [stage EXCEPT ![r] = place]
Leave(r) == Advance(r, "idle") /\ ask' = [ask EXCEPT ![r] = NoOne]

(* An account at a bank that was picked off the list; the token's guard has  *)
(* read the user with their account.                                         *)
AddBankAccount(r, c, e, n) ==
  /\ stage[r] = "idle" /\ asks < MaxAsks /\ asks' = asks + 1
  /\ <<c, n>> \in Sent /\ e \in shown[c] /\ bank[e.slug] > 0
  /\ ask' = [ask EXCEPT ![r] = [who |-> c, bank |-> e.slug, number |-> n, meant |-> e.of,
                                had |-> account[c] # NoAccount]]
  /\ shown' = [shown EXCEPT ![c] = {}]
  /\ Advance(r, "cache")
  /\ UNCHANGED <<bank, store, admins, account, fooled, writes, flaws>>

Wanted(r) == <<ask[r].bank, ask[r].number>>
IsExempt(r) == Wanted(r) \in Exempt

(* Where a request goes once it has what it needs to know about its owner. *)
Known(r) == IF IsExempt(r) THEN "save" ELSE "lookup"

(* Nobody has cached the list: the row of the bank is read. *)
MissCache(r) ==
  /\ stage[r] = "cache" /\ ~cached
  /\ Advance(r, IF ask[r].who \in Firms THEN "owner" ELSE Known(r))
  /\ UNCHANGED <<bank, store, admins, ask, account, shown, fooled, counts, flaws>>

(* The list is cached: the search for the bank writes the slug asked for     *)
(* into every object of the list and finds none.  An account that must be    *)
(* looked up is then refused, since the bank's code is read of no bank.      *)
HitCache(r) ==
  /\ stage[r] = "cache" /\ cached
  /\ cache' = {[e EXCEPT !.slug = ask[r].bank] : e \in cache}
  /\ flaws' = flaws \cup {"bent"}
  /\ IF IsExempt(r)
     THEN Advance(r, IF ask[r].who \in Firms THEN "owner" ELSE "save") /\ UNCHANGED ask
     ELSE Leave(r)
  /\ UNCHANGED <<bank, cached, admins, account, shown, fooled, counts>>

(* The business is read with its account. *)
ReadOwner(r) ==
  /\ stage[r] = "owner"
  /\ ask' = [ask EXCEPT ![r].had = account[ask[r].who] # NoAccount]
  /\ Advance(r, Known(r))
  /\ UNCHANGED <<bank, store, admins, account, shown, fooled, counts, flaws>>

(* A business' account must only be found.  The name of a user's must have   *)
(* the user's first name and last name somewhere in it, so that another's    *)
(* account with such a name passes too; nobody's name changes after sign-up. *)
Lookup(r) ==
  /\ stage[r] = "lookup" /\ Wanted(r) \in Real
  /\ ask[r].who \in Users => <<ask[r].who, Wanted(r)>> \in Bears
  /\ Advance(r, "save") /\ UNCHANGED ask
  /\ UNCHANGED <<bank, store, admins, account, shown, fooled, counts, flaws>>

(* The account cannot be found, its name lacks the user's, the user has      *)
(* none, or the lookup or a query of the request fails.                      *)
AskFails(r) ==
  /\ stage[r] # "idle"
  /\ Leave(r)
  /\ UNCHANGED <<bank, store, admins, account, shown, fooled, counts, flaws>>

(* The name that is stored: one that was looked up, else the user's own; a   *)
(* business' account that is replaced without a lookup keeps the name it     *)
(* had.  Mutant: so does a user's.                                           *)
StoredName_Kept(r) ==
  LET c == ask[r].who IN
  CASE ~IsExempt(r) -> Wanted(r)
    [] IsExempt(r) /\ ask[r].had -> account[c].name
    [] OTHER -> NoName
StoredName(r) ==
  LET c == ask[r].who IN
  CASE ~IsExempt(r) -> Wanted(r)
    [] IsExempt(r) /\ c \in Firms /\ ask[r].had -> account[c].name
    [] OTHER -> NoName

(* Created or updated, as it was read; an account created meanwhile makes    *)
(* the creation fail.  Mutant: at the bank the cached object names.          *)
Save_Found(r) ==
  LET c == ask[r].who IN
  /\ stage[r] = "save"
  /\ \E e \in (IF ~cached THEN {Entry(ask[r].bank)} ELSE cache) :
       account' = [account EXCEPT ![c] = [bank |-> e.of, number |-> ask[r].number,
                                          name |-> StoredName(r), meant |-> ask[r].meant]]
  /\ Leave(r)
  /\ UNCHANGED <<bank, store, admins, shown, fooled, counts, flaws>>
Save(r) ==
  LET c == ask[r].who IN
  /\ stage[r] = "save"
  /\ account' = IF ~ask[r].had /\ account[c] # NoAccount THEN account
                ELSE [account EXCEPT ![c] = [bank |-> ask[r].bank, number |-> ask[r].number,
                                             name |-> StoredName(r), meant |-> ask[r].meant]]
  /\ Leave(r)
  /\ UNCHANGED <<bank, store, admins, shown, fooled, counts, flaws>>
-------------------------------------------------------------------------------
BanksNext ==
  \/ \E a \in Admins :
       \/ \E b \in Banks : WriteBank(a, b) \/ UploadBank(a, b) \/ SkipBank(a, b)
       \/ \E bs \in SUBSET Banks : Upload(a, bs)
       \/ ListRows(a) \/ SetCache(a) \/ AdminFails(a)
  \/ Expire
  \/ \E c \in Clients : GetBanks(c)
  \/ \E r \in Requests :
       \/ \E c \in Clients, n \in Numbers : \E e \in shown[c] : AddBankAccount(r, c, e, n)
       \/ MissCache(r) \/ HitCache(r) \/ ReadOwner(r) \/ Lookup(r) \/ AskFails(r) \/ Save(r)

BanksSpec == BanksInit /\ [][BanksNext]_banksVars

-------------------------------------------------------------------------------
(* The list in the cache has the rows as they are, unless a request that     *)
(* writes rows is under way, another one wrote after the list was read, the  *)
(* list is an upload's or a write could not be followed by its list: what    *)
(* the last of two overlapping admins caches may be older than the rows.     *)
StaleListHasCause ==
  cached /\ {<<e.of, e.version>> : e \in cache} # {<<e.of, e.version>> : e \in Rows}
    => \/ \E a \in Admins : apc[a] # "idle"
       \/ flaws \cap {"late", "partial", "uncached"} # {}

(* A bank account is at the bank its owner picked off the list, unless they  *)
(* were shown a list after somebody had asked for an account while it was    *)
(* cached: addBankAccount's search writes the slug of one request into the   *)
(* list every other client is shown.                                         *)
PickedIsStored ==
  \A c \in Clients \ fooled : account[c] # NoAccount => account[c].bank = account[c].meant

(* The name beside an account is the one that very account was looked up     *)
(* under, and has a user's own in it, however requests of one client overlap *)
(* and whatever they had read; a user's that is exempt bears their own name. *)
(* Only a business' that is exempt may bear the name of an account it had    *)
(* before.  Whose the account is nobody asks: two users' names may be found  *)
(* in one account's.                                                         *)
NamesMatch ==
  \A c \in Clients : account[c] # NoAccount =>
    LET at == <<account[c].bank, account[c].number>> IN
    /\ at \notin Exempt => account[c].name = at /\ at \in Real
                           /\ (c \in Users => <<c, at>> \in Bears)
    /\ c \in Users /\ at \in Exempt => account[c].name = NoName

(* Why: a list that nobody wrote behind is that of the rows; it says of each *)
(* bank its own slug until it is bent in the cache, so clients who were not  *)
(* fooled ask for the bank they mean; who replaces an account had one, and   *)
(* the name of one that is not exempt has been looked up before it is saved. *)
ListsStand ==
  /\ \A a \in Admins : apc[a] = "set" /\ a \notin behind => list[a] = Rows
  /\ \A a \in Admins : \A e \in list[a] : e.slug = e.of
  /\ "bent" \notin flaws => \A e \in cache : e.slug = e.of
PicksStand ==
  /\ \A c \in Clients \ fooled : \A e \in shown[c] : e.slug = e.of
  /\ \A r \in Requests : stage[r] # "idle" /\ ask[r].who \notin fooled
                           => ask[r].bank = ask[r].meant
AsksStand ==
  \A r \in Requests : LET c == ask[r].who IN
    /\ stage[r] # "idle" /\ ask[r].had => account[c] # NoAccount
    /\ stage[r] = "save" /\ ~IsExempt(r) =>
         Wanted(r) \in Real /\ (c \in Users => <<c, Wanted(r)>> \in Bears)
BanksStand ==
  /\ StaleListHasCause /\ PickedIsStored /\ NamesMatch
  /\ ListsStand /\ PicksStand /\ AsksStand
===============================================================================
