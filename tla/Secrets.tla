-------------------------------- MODULE Secrets --------------------------------
(***************************************************************************)
(* Pins, passwords and stations: changePin and changePassword of           *)
(* UserService; createStation, updateStation, deleteStations,              *)
(* changeStationPassword and completeStationPasswordReset of               *)
(* BusinessService; resetPin and resetPassword of AuthService.             *)
(*                                                                         *)
(* A change reads the row, verifies the old secret against the hash it has *)
(* read, hashes the new one (both take a while) and writes it by the row's *)
(* id: other requests run in between.  A reset's code is in module Codes.  *)
(***************************************************************************)
EXTENDS Integers

CONSTANTS UserRows,   \* a pin or a password of a user: one row each
          StationRows,
          Businesses,
          OwnerOf,    \* OwnerOf[s]: the business that creates station s
          Words,      \* the pins and passwords
          Terms,      \* what a station's row says besides: name, type, amount
          FirstWord,  \* the one every user has signed up with
          Handlers,   \* bound: the requests handled at once
          NoWord, NoTerms, NoChange,
          MaxJobs     \* bound: requests in all

SecretRows == UserRows \cup StationRows

(* What a request asks for: of which row, for whom, the secret it presents,  *)
(* the new one and the new terms (NoWord and NoTerms where it says nothing). *)
Changes == [kind : {"change", "update", "reset", "delete", "create"}, on : SecretRows,
            by : Businesses, old : Words \cup {NoWord}, new : Words \cup {NoWord},
            terms : Terms \cup {NoTerms}]

ASSUME SecretsAssumption ==
  /\ UserRows \cap StationRows = {}
  /\ OwnerOf \in [StationRows -> Businesses]
  /\ FirstWord \in Words
  /\ NoWord \notin Words /\ NoTerms \notin Terms /\ NoChange \notin Changes
  /\ MaxJobs \in Nat

VARIABLES
  word,    \* word[x]: the secret whose hash the row of x has, or NoWord
  terms,   \* terms[s]: the other columns of station s, NoTerms without a row
  born,    \* the stations that were created: ids are not used twice
  stage,   \* stage[r]: where request r is
  change,  \* change[r]: what it asks for
  read,    \* read[r]: the secret of the row r has read
  jobs,    \* how many requests there were
  during   \* history: during[r]: the secrets the row has had since r began

secrets == <<word, terms, born>>
secretsVars == <<secrets, stage, change, read, jobs, during>>

SecretsTypeOK ==
  /\ word \in [SecretRows -> Words \cup {NoWord}]
  /\ terms \in [StationRows -> Terms \cup {NoTerms}]
  /\ born \subseteq StationRows
  /\ stage \in [Handlers -> {"idle", "read", "verify", "write"}]
  /\ change \in [Handlers -> Changes \cup {NoChange}]
  /\ \A r \in Handlers : stage[r] # "idle" => change[r] \in Changes
  /\ read \in [Handlers -> Words \cup {NoWord}]
  /\ jobs \in Nat
  /\ during \in [Handlers -> SUBSET (Words \cup {NoWord})]

SecretsInit ==
  /\ word = [x \in SecretRows |-> IF x \in UserRows THEN FirstWord ELSE NoWord]
  /\ terms = [s \in StationRows |-> NoTerms] /\ born = {}
  /\ stage = [r \in Handlers |-> "idle"] /\ change = [r \in Handlers |-> NoChange]
  /\ read = [r \in Handlers |-> NoWord]
  /\ jobs = 0
  /\ during = [r \in Handlers |-> {}]

-------------------------------------------------------------------------------
Move(r, place) == stage' = [stage EXCEPT ![r] = place]
Finish(r) == /\ Move(r, "idle")
             /\ change' = [change EXCEPT ![r] = NoChange]
             /\ read' = [read EXCEPT ![r] = NoWord]
There == UserRows \cup {s \in StationRows : terms[s] # NoTerms}
Begin(r, j) == /\ stage[r] = "idle" /\ jobs < MaxJobs /\ jobs' = jobs + 1
               /\ change' = [change EXCEPT ![r] = j]
               /\ during' = [during EXCEPT ![r] = {word[j.on]}]
               /\ UNCHANGED <<secrets, read>>
Job(k, x, b, old, new, t) ==
  [kind |-> k, on |-> x, by |-> b, old |-> old, new |-> new, terms |-> t]

(* changePin, changePassword, changeStationPassword; the reset of either     *)
(* once its code was verified has a new secret at hand and nothing to read.  *)
Change(r, x, b, old, new) ==
  Begin(r, Job("change", x, b, old, new, NoTerms)) /\ Move(r, "read")
Reset(r, x, b, new) ==
  /\ x \in There
  /\ Begin(r, Job("reset", x, b, NoWord, new, NoTerms)) /\ Move(r, "write")

(* updateStation: a new pin and the current one come together, and differ.   *)
Update(r, s, b, old, new, t) ==
  /\ (new # NoWord) <=> (old # NoWord)
  /\ new # NoWord => old # new
  /\ Begin(r, Job("update", s, b, old, new, t)) /\ Move(r, "read")

Delete(r, s, b) == Begin(r, Job("delete", s, b, NoWord, NoWord, NoTerms)) /\ Move(r, "read")

(* createStation has nothing to read. *)
Create(r, s, new, t) ==
  Begin(r, Job("create", s, OwnerOf[s], NoWord, new, t)) /\ Move(r, "write")

(* The row is read; updateStation and deleteStations look for one of the     *)
(* business' own.                                                            *)
Read(r) ==
  LET j == change[r] IN
  /\ stage[r] = "read"
  /\ IF j.on \in There /\ (j.kind \in {"update", "delete"} => OwnerOf[j.on] = j.by)
     THEN /\ read' = [read EXCEPT ![r] = word[j.on]]
          /\ Move(r, IF j.old # NoWord /\ j.new # NoWord THEN "verify" ELSE "write")
          /\ UNCHANGED change
     ELSE Finish(r)
  /\ UNCHANGED <<secrets, jobs, during>>

(* Mutant: only a user's secret is verified. *)
Verify_Users(r) ==
  /\ stage[r] = "verify"
  /\ IF read[r] = change[r].old \/ change[r].on \in StationRows
     THEN Move(r, "write") /\ UNCHANGED <<change, read>> ELSE Finish(r)
  /\ UNCHANGED <<secrets, jobs, during>>
Verify(r) ==
  /\ stage[r] = "verify"
  /\ IF read[r] = change[r].old
     THEN Move(r, "write") /\ UNCHANGED <<change, read>> ELSE Finish(r)
  /\ UNCHANGED <<secrets, jobs, during>>

(* What the row becomes: a column the request says nothing of is left as it  *)
(* is in the row.                                                            *)
After(r) ==
  LET x == change[r].on IN
  [word |-> IF change[r].new # NoWord THEN change[r].new ELSE word[x],
   terms |-> IF change[r].terms # NoTerms \/ x \in UserRows
             THEN change[r].terms ELSE terms[x]]

(* The requests on x see its secret become w. *)
Seen(x, w) ==
  during' = [q \in Handlers |-> IF stage[q] # "idle" /\ change[q].on = x THEN during[q] \cup {w}
                                ELSE during[q]]

Replace(r) ==
  LET x == change[r].on IN
  /\ stage[r] = "write" /\ change[r].kind \in {"change", "update", "reset"} /\ x \in There
  /\ word' = [word EXCEPT ![x] = After(r).word]
  /\ terms' = [s \in StationRows |-> IF s = x THEN After(r).terms ELSE terms[s]]
  /\ Seen(x, After(r).word)
  /\ Finish(r)
  /\ UNCHANGED <<born, jobs>>

Insert(r) ==
  LET s == change[r].on IN
  /\ stage[r] = "write" /\ change[r].kind = "create" /\ s \notin born
  /\ born' = born \cup {s}
  /\ word' = [word EXCEPT ![s] = change[r].new]
  /\ terms' = [terms EXCEPT ![s] = change[r].terms]
  /\ Seen(s, change[r].new)
  /\ Finish(r)
  /\ UNCHANGED jobs

Remove(r) ==
  LET s == change[r].on IN
  /\ stage[r] = "write" /\ change[r].kind = "delete" /\ s \in There
  /\ word' = [word EXCEPT ![s] = NoWord]
  /\ terms' = [terms EXCEPT ![s] = NoTerms]
  /\ Finish(r)
  /\ UNCHANGED <<born, jobs, during>>

(* The row is gone, a station of the name is there, or a query fails. *)
Fails(r) ==
  /\ stage[r] # "idle"
  /\ Finish(r)
  /\ UNCHANGED <<secrets, jobs, during>>

SecretsNext ==
  \/ \E r \in Handlers, b \in Businesses :
       \/ \E x \in SecretRows, old, new \in Words : Change(r, x, b, old, new)
       \/ \E x \in SecretRows, new \in Words : Reset(r, x, b, new)
       \/ \E s \in StationRows, t \in Terms \cup {NoTerms} :
            \E old, new \in Words \cup {NoWord} : Update(r, s, b, old, new, t)
       \/ \E s \in StationRows : Delete(r, s, b)
       \/ \E s \in StationRows, new \in Words, t \in Terms :
            b = OwnerOf[s] /\ Create(r, s, new, t)
  \/ \E r \in Handlers : Read(r) \/ Verify(r) \/ Replace(r) \/ Insert(r) \/ Remove(r) \/ Fails(r)

SecretsSpec == SecretsInit /\ [][SecretsNext]_secretsVars

-------------------------------------------------------------------------------
(* A change of a secret goes through only with one the row has had since the *)
(* request began: whoever presents a pin that a reset or another change had  *)
(* replaced before is refused, however requests overlap.  (One that was      *)
(* verified before a reset and is written after it undoes the reset.)        *)
PresentedWasCurrent ==
  \A r \in Handlers : stage[r] = "write" /\ change[r].kind \in {"change", "update"}
                      /\ change[r].new # NoWord => change[r].old \in during[r]

(* Why: a request has seen what the row has, and has read what it has seen.  *)
SeenStands ==
  \A r \in Handlers : LET j == change[r] IN
    /\ stage[r] # "idle" => word[j.on] \in during[r] \cup {NoWord}
    /\ stage[r] = "verify" => read[r] \in during[r] \cup {NoWord} /\ j.old # NoWord
    /\ stage[r] = "read" /\ j.new # NoWord => j.old # NoWord
    /\ stage[r] # "idle" /\ j.kind = "create" => j.on \in StationRows
SecretsStand == PresentedWasCurrent /\ SeenStands
===============================================================================
