------------------------------ MODULE AccountStore ------------------------------
(***************************************************************************)
(* Accounts in their store: a signed-in user's first visit creates one,    *)
(* the dashboard and routed requests change it.  Every change reads the    *)
(* whole account and writes the whole account back without a lock.  Redis  *)
(* keeps an account under the hash of its router key, with a pointer from  *)
(* the user to it, written at the same time.  Without Redis all accounts   *)
(* are one file: every write loads it, replaces one account and saves it.  *)
(***************************************************************************)
EXTENDS Naturals

CONSTANTS
  Tasks,          \* bound: requests in flight
  Users, Keys,    \* users, router keys
  Stores,         \* the stores the router may be started with: redis, file
  MaxTasks        \* bound: requests

ASSUME AccountStoreAssumption ==
  MaxTasks \in Nat /\ "none" \notin Keys /\ Stores \subseteq {"redis", "file"}

VARIABLES
  store,       \* where the accounts are
  accounts,    \* router key -> the account stored under its hash
  pointer,     \* user -> the router key of the dashboard's account, or none: the one the
               \* pointer leads to, or in the file the user's first
  tasks,       \* task -> the request it serves
  started,     \* requests so far
  issued,      \* history: <<user, key>> handed out
  told,        \* history: router key -> what its owner was told is stored
  overlapped   \* history: the keys two changes of which were in flight together, in
               \* the file all keys if two changes of any were

accountVars == <<store, accounts, pointer, tasks, started, issued, told, overlapped>>

Names == 0..MaxTasks
Support == {"unknown", "supported", "unsupported"}
Sources == {"runtime", "probe", "user"}
Rank == [runtime |-> 3, probe |-> 4, user |-> 5]

(* A capability of the active model, as a user, a probe or a routed attempt
   reported it; none is one nobody has reported. *)
Capability == [value : Support, source : Sources \cup {"none"}]
NoCapability == [value |-> "unknown", source |-> "none"]

(* name stands for the account's settings, secret for a provider's key or quota
   (0 is none), each by the number of the request that set it. *)
Account == [there : BOOLEAN, owner : Users \cup {"none"}, name : Names, secret : Names,
            capability : Capability]
NoAccount == [there |-> FALSE, owner |-> "none", name |-> 0, secret |-> 0,
              capability |-> NoCapability]

(* The file as a request has loaded it. *)
File == [accounts : [Keys -> Account], first : [Users -> Keys \cup {"none"}]]
NoFile == [accounts |-> [k \in Keys |-> NoAccount], first |-> [u \in Users |-> "none"]]

Task ==
  [pc : {"free", "pointer", "record", "body", "read", "write"},
   op : {"none", "create", "rename", "provide", "withdraw", "declare", "detect", "health"},
   user : Users \cup {"none"}, key : Keys \cup {"none"}, copy : Account,
   left : SUBSET {"record", "pointer", "load", "save"},   \* what is left of its write
   value : Support, source : Sources, file : File]

FreeTask == [pc |-> "free", op |-> "none", user |-> "none", key |-> "none",
             copy |-> NoAccount, left |-> {}, value |-> "unknown", source |-> "user",
             file |-> NoFile]

AccountsTypeOK ==
  /\ store \in Stores
  /\ accounts \in [Keys -> Account] /\ pointer \in [Users -> Keys \cup {"none"}]
  /\ tasks \in [Tasks -> Task] /\ started \in 0..MaxTasks
  /\ issued \subseteq Users \X Keys
  /\ told \in [Keys -> [name : Names, secret : Names, declared : Support \cup {"none"}]]
  /\ overlapped \subseteq Keys

AccountsInit ==
  /\ store \in Stores
  /\ accounts = [k \in Keys |-> NoAccount] /\ pointer = [u \in Users |-> "none"]
  /\ tasks = [t \in Tasks |-> FreeTask] /\ started = 0
  /\ issued = {} /\ told = [k \in Keys |-> [name |-> 0, secret |-> 0, declared |-> "none"]]
  /\ overlapped = {}
-----------------------------------------------------------------------------
Begins(t, task) ==
  /\ tasks[t].pc = "free" /\ started < MaxTasks
  /\ started' = started + 1
  /\ tasks' = [tasks EXCEPT ![t] = task]

Moves(t, task) == tasks' = [tasks EXCEPT ![t] = task]

(* POST /api/accounts: an account is made unless the user has one. *)
Visit(t, u) ==
  /\ Begins(t, [FreeTask EXCEPT !.pc = "pointer", !.op = "create", !.user = u])
  /\ UNCHANGED <<store, accounts, pointer, issued, told, overlapped>>

(* getAccountForUser reads the pointer, then the account it leads to ... *)
ReadPointer(t) ==
  LET key == pointer[tasks[t].user] IN
  /\ store = "redis" /\ tasks[t].pc = "pointer"
  /\ Moves(t, [tasks[t] EXCEPT !.pc = IF key = "none" THEN "body" ELSE "record", !.key = key])
  /\ UNCHANGED <<store, accounts, pointer, started, issued, told, overlapped>>

ReadOwn(t) ==
  LET key == tasks[t].key IN
  /\ tasks[t].pc = "record"
  /\ IF accounts[key].there
     THEN Moves(t, FreeTask) /\ issued' = issued \cup {<<tasks[t].user, key>>}
     ELSE Moves(t, [tasks[t] EXCEPT !.pc = "body", !.key = "none"]) /\ UNCHANGED issued
  /\ UNCHANGED <<store, accounts, pointer, started, told, overlapped>>

(* ... or looks for the user's first account in the file. *)
FindOwn(t) ==
  LET key == pointer[tasks[t].user] IN
  /\ store = "file" /\ tasks[t].pc = "pointer"
  /\ IF key = "none"
     THEN Moves(t, [tasks[t] EXCEPT !.pc = "body"]) /\ UNCHANGED issued
     ELSE Moves(t, FreeTask) /\ issued' = issued \cup {<<tasks[t].user, key>>}
  /\ UNCHANGED <<store, accounts, pointer, started, told, overlapped>>

(* Router keys are random and never made twice. *)
Taken ==
  {tasks[t].key : t \in Tasks} \cup {k \in Keys : accounts[k].there}
    \cup {k \in Keys : \E u \in Users : <<u, k>> \in issued}

Writing == IF store = "redis" THEN {"record", "pointer"} ELSE {"load"}

Writers == {t \in Tasks : tasks[t].pc \in {"read", "write"}}

CreateAccount(t) ==
  /\ tasks[t].pc = "body"
  /\ \E k \in Keys \ Taken :
       Moves(t, [tasks[t] EXCEPT !.pc = "write", !.key = k, !.left = Writing,
                  !.copy = [NoAccount EXCEPT !.there = TRUE, !.owner = tasks[t].user]])
  /\ overlapped' = IF store = "redis" \/ Writers = {} THEN overlapped ELSE Keys
  /\ UNCHANGED <<store, accounts, pointer, started, issued, told>>
-----------------------------------------------------------------------------
(* Changes of a stored account: the dashboard's by its router key, the outcome of
   an attempt or of a probe by the key's hash. *)

Changing(k) == {t \in Tasks : tasks[t].key = k /\ tasks[t].op # "create"}

(* What a change that begins now may lose: changes of its account, and in the file
   every account being written. *)
Overlapping(k) ==
  CASE store = "redis" /\ Changing(k) # {} -> {k}
    [] store = "file" /\ Writers # {} -> Keys
    [] OTHER -> {}

Change(t, k, op, value, source) ==
  /\ \E u \in Users : <<u, k>> \in issued
  /\ Begins(t, [FreeTask EXCEPT !.pc = "read", !.op = op, !.key = k,
                                !.value = value, !.source = source])
  /\ overlapped' = overlapped \cup Overlapping(k)
  /\ UNCHANGED <<store, accounts, pointer, issued, told>>

Rename(t, k) == Change(t, k, "rename", "unknown", "user")

Provide(t, k) == Change(t, k, "provide", "unknown", "user")

Withdraw(t, k) == Change(t, k, "withdraw", "unknown", "user")

(* The owner saves the model's catalog with a capability of their own. *)
Declare(t, k) ==
  \E value \in Support \ {"unknown"} : Change(t, k, "declare", value, "user")

(* The probes of a model have been answered. *)
Detect(t, k) == \E value \in Support : Change(t, k, "detect", value, "probe")

(* A routed attempt has been answered: the health of the model, then what the
   answer showed of its capabilities, are changes one after the other. *)
Attempted(t, k) ==
  \/ Change(t, k, "health", "unknown", "runtime")
  \/ \E value \in Support : Change(t, k, "detect", value, "runtime")

(* Mutant: the latest report wins, whoever made it. *)
MergedLatest(current, value, source) ==
  IF current.source # "none" /\ value = "unknown" /\ current.value # "unknown" /\ source # "user"
  THEN current
  ELSE [value |-> value, source |-> source]

(* updateProviderModelCapabilitiesByHash: a better source stays, and unknown does
   not replace what is known. *)
Merged(current, value, source) ==
  IF \/ current.source # "none" /\ Rank[current.source] > Rank[source]
     \/ current.source # "none" /\ value = "unknown" /\ current.value # "unknown"
        /\ source # "user"
  THEN current
  ELSE [value |-> value, source |-> source]

(* What a change makes of the account it read: updateAccountSettings, the setters
   of keys and quotas, setProviderModelCatalog and
   updateProviderModelCapabilitiesByHash; the health of a model is not part of
   Account. *)
Changed(task, account) ==
  CASE task.op = "rename" -> [account EXCEPT !.name = started]
    [] task.op = "provide" -> [account EXCEPT !.secret = started]
    [] task.op = "withdraw" -> [account EXCEPT !.secret = 0]
    [] task.op = "declare" -> [account EXCEPT !.capability =
                                 [value |-> task.value, source |-> "user"]]
    [] task.op = "detect" -> [account EXCEPT !.capability =
                                Merged(@, task.value, task.source)]
    [] task.op = "health" -> account

ReadAccount(t) ==
  /\ tasks[t].pc = "read"
  /\ LET account == accounts[tasks[t].key] IN
       Moves(t, IF account.there
                THEN [tasks[t] EXCEPT !.pc = "write", !.copy = Changed(tasks[t], account),
                                      !.left = Writing]
                ELSE FreeTask)
  /\ UNCHANGED <<store, accounts, pointer, started, issued, told, overlapped>>
-----------------------------------------------------------------------------
(* writeStoredAccount sends its writes together; they arrive in any order. *)

RecordKey(task) == task.key

WriteRecord(t) ==
  /\ tasks[t].pc = "write" /\ "record" \in tasks[t].left
  /\ accounts' = [accounts EXCEPT ![RecordKey(tasks[t])] = tasks[t].copy]
  /\ Moves(t, [tasks[t] EXCEPT !.left = @ \ {"record"}])
  /\ UNCHANGED <<store, pointer, started, issued, told, overlapped>>

WritePointer(t) ==
  /\ tasks[t].pc = "write" /\ "pointer" \in tasks[t].left
  /\ pointer' = [pointer EXCEPT ![tasks[t].copy.owner] = tasks[t].key]
  /\ Moves(t, [tasks[t] EXCEPT !.left = @ \ {"pointer"}])
  /\ UNCHANGED <<store, accounts, started, issued, told, overlapped>>

(* Without Redis: the file is loaded once more, the account is replaced in it or put
   behind the others, and all of it is saved. *)
LoadFile(t) ==
  /\ tasks[t].pc = "write" /\ "load" \in tasks[t].left
  /\ Moves(t, [tasks[t] EXCEPT !.left = {"save"},
                               !.file = [accounts |-> accounts, first |-> pointer]])
  /\ UNCHANGED <<store, accounts, pointer, started, issued, told, overlapped>>

SaveFile(t) ==
  LET task == tasks[t] IN
  /\ task.pc = "write" /\ "save" \in task.left
  /\ accounts' = [task.file.accounts EXCEPT ![RecordKey(task)] = task.copy]
  /\ pointer' = [task.file.first EXCEPT ![task.copy.owner] = IF @ = "none" THEN task.key ELSE @]
  /\ Moves(t, [task EXCEPT !.left = {}, !.file = NoFile])
  /\ UNCHANGED <<store, started, issued, told, overlapped>>

Acknowledge(t) ==
  LET task == tasks[t] IN
  /\ task.pc = "write" /\ task.left = {}
  /\ Moves(t, FreeTask)
  /\ issued' = IF task.op = "create" THEN issued \cup {<<task.user, task.key>>} ELSE issued
  /\ told' = CASE task.op = "rename" -> [told EXCEPT ![task.key].name = task.copy.name]
               [] task.op \in {"provide", "withdraw"} ->
                    [told EXCEPT ![task.key].secret = task.copy.secret]
               [] task.op = "declare" -> [told EXCEPT ![task.key].declared = task.value]
               [] OTHER -> told
  /\ UNCHANGED <<store, accounts, pointer, started, overlapped>>

AccountsNext ==
  \E t \in Tasks :
    \/ \E u \in Users : Visit(t, u)
    \/ \E k \in Keys :
         \/ Rename(t, k) \/ Provide(t, k) \/ Withdraw(t, k)
         \/ Declare(t, k) \/ Detect(t, k) \/ Attempted(t, k)
    \/ ReadPointer(t) \/ ReadOwn(t) \/ FindOwn(t) \/ CreateAccount(t) \/ ReadAccount(t)
    \/ WriteRecord(t) \/ WritePointer(t) \/ LoadFile(t) \/ SaveFile(t) \/ Acknowledge(t)
-----------------------------------------------------------------------------
(* In the file nothing is promised once two writes of any accounts, also of different
   users, have overlapped: the later one saves the file as it was before the earlier. *)
Exact == store = "redis" \/ overlapped = {}

(* Every router key that was handed out opens its owner's account, and once
   nobody writes, the dashboard's account is one of the user's; without two
   changes in flight together an account holds every change its owner was told
   is stored, and no probe or attempt has replaced what the owner declared
   (createAccount, writeStoredAccount, updateProviderModelCapabilitiesByHash).  Redis
   keeps the first two whatever overlaps; the file keeps nothing then. *)
AccountsKept ==
  /\ Exact => \A grant \in issued :
       /\ accounts[grant[2]].there /\ accounts[grant[2]].owner = grant[1]
       /\ (\A t \in Tasks : tasks[t].pc # "write") => <<grant[1], pointer[grant[1]]>> \in issued
  /\ \A k \in Keys \ overlapped : Changing(k) = {} =>
       /\ accounts[k].name = told[k].name /\ accounts[k].secret = told[k].secret
       /\ told[k].declared # "none" =>
            accounts[k].capability = [value |-> told[k].declared, source |-> "user"]
=============================================================================
