------------------------------- MODULE SyncLoop -------------------------------
(***************************************************************************)
(* The background loops of app/main.py and the synchronizations they and   *)
(* the administrator run: accounts of three providers, each read from its  *)
(* provider, compared with its rows and committed, with an error recorded  *)
(* on the account when that fails (services.py, ovh_services.py,           *)
(* atw_services.py).  RecordCache has what happens inside a Cloudflare     *)
(* account; here an account holds a set of zones or services.              *)
(***************************************************************************)
EXTENDS Naturals

CONSTANTS
    Cloudflare, Atw, Ovh,  \* the accounts of each provider
    User,                  \* sessions of web requests
    Service,               \* what accounts can hold
    MaxChanges,            \* bound on changes at the providers and of the accounts
    MaxRequests,           \* bound on requests to synchronize
    MaxFaults              \* bound on failing steps of the program itself

ASSUME ConstantsAssumption ==
    MaxChanges \in Nat /\ MaxRequests \in Nat /\ MaxFaults \in Nat

Account == Cloudflare \cup Atw \cup Ovh
Loop == {"main", "ovh"}
Session == Loop \cup User
Stage == {"cloudflare", "atw", "ovh"}
Of(stage) == CASE stage = "cloudflare" -> Cloudflare [] stage = "atw" -> Atw
               [] stage = "ovh" -> Ovh

VARIABLES
    remote,    \* what each provider lists for an account
    answers,   \* the accounts whose provider answers
    readable,  \* the accounts whose stored credentials can be decrypted
    present,   \* the accounts that have a row
    known,     \* the accounts that have or had a row
    stored,    \* the rows of an account's zones or services
    error,     \* the accounts with a last_sync_error
    run,       \* what each session is doing
    changes, requests, faults

outside == <<remote, answers, readable>>
rows == <<present, known, stored, error>>
bounds == <<changes, requests, faults>>
vars == <<outside, rows, run, bounds>>

\* broken: a statement failed outside the handler that rolls back.
Idle == [at |-> "idle", stage |-> "none", todo |-> {}, account |-> "none", hadError |-> FALSE,
         got |-> {}, found |-> {}, broken |-> FALSE]
RunState ==
    [at : {"idle", "next", "setup", "read", "commit", "notify", "record",
           "dead"},
     stage : Stage \cup {"none"}, todo : SUBSET Account, account : Account \cup {"none"},
     hadError : BOOLEAN, got : SUBSET Service, found : SUBSET Service, broken : BOOLEAN]

\* A new installation; every provider lists all there can be.
Init ==
    /\ remote = [a \in Account |-> Service]
    /\ answers = Account /\ readable = {}
    /\ present = {} /\ known = {}
    /\ stored = [a \in Account |-> {}] /\ error = {}
    /\ run = [c \in Session |-> Idle]
    /\ changes = 0 /\ requests = 0 /\ faults = 0

-----------------------------------------------------------------------------
(* The providers and the administrator.                                    *)

Change == changes < MaxChanges /\ changes' = changes + 1
Request == requests < MaxRequests /\ requests' = requests + 1
Fault == faults < MaxFaults /\ faults' = faults + 1
Move(c, r) == run' = [run EXCEPT ![c] = r]

ListingChanges(a) ==
    /\ Change
    /\ \E listing \in SUBSET Service \ {remote[a]} : remote' = [remote EXCEPT ![a] = listing]
    /\ UNCHANGED <<answers, readable, rows, run, requests, faults>>

AnswersChange(a) ==
    /\ Change
    /\ answers' = IF a \in answers THEN answers \ {a} ELSE answers \cup {a}
    /\ UNCHANGED <<remote, readable, rows, run, requests, faults>>

AccountRemoved(a) ==
    /\ Change
    /\ a \in present /\ present' = present \ {a}
    /\ stored' = [stored EXCEPT ![a] = {}] /\ error' = error \ {a}
    /\ UNCHANGED <<outside, known, run, requests, faults>>

\* Variant: the session keeps the account it had.
BeginWithoutAccount(r, a) == [r EXCEPT !.at = "setup", !.hadError = a \in error]

Begin(r, a) == [r EXCEPT !.at = "setup", !.account = a, !.hadError = a \in error]

\* Adding verifies the credentials, commits the account and synchronizes it.
AccountAdded(c, a) ==
    /\ Request
    /\ run[c].at = "idle" /\ a \notin known /\ a \in answers
    /\ present' = present \cup {a} /\ known' = known \cup {a}
    /\ readable' = readable \cup {a}
    /\ Move(c, Begin(Idle, a))
    /\ UNCHANGED <<remote, answers, stored, error, changes, faults>>

SyncRequested(c, a) ==
    /\ Request
    /\ run[c].at = "idle" /\ a \in present
    /\ Move(c, Begin(Idle, a))
    /\ UNCHANGED <<outside, rows, changes, faults>>

-----------------------------------------------------------------------------
(* The loops: sleep, then one account after the other.                     *)

Selected(stage) == [Idle EXCEPT !.at = "next", !.stage = stage, !.todo = present \cap Of(stage)]

Select(l) ==
    /\ run[l].at = "idle"
    /\ Move(l, Selected(IF l = "main" THEN "cloudflare" ELSE "ovh"))
    /\ UNCHANGED <<outside, rows, bounds>>

Load(l, a) ==
    /\ run[l].at = "next" /\ a \in run[l].todo /\ ~run[l].broken
    /\ LET rest == [run[l] EXCEPT !.todo = @ \ {a}]
       IN  Move(l, IF a \in present THEN Begin(rest, a) ELSE rest)
    /\ UNCHANGED <<outside, rows, bounds>>

SelectNext(l) ==
    /\ run[l].at = "next" /\ run[l].todo = {} /\ run[l].stage = "cloudflare" /\ ~run[l].broken
    /\ Move(l, Selected("atw"))
    /\ UNCHANGED <<outside, rows, bounds>>

RoundEnds(l) ==
    /\ run[l].at = "next" /\ run[l].todo = {} /\ run[l].stage # "cloudflare"
    /\ Move(l, Idle)
    /\ UNCHANGED <<outside, rows, bounds>>

\* The selects and gets of the loop are in no try: an error there ends its task.
LoopEnds(l) ==
    /\ \/ run[l].at = "idle"
       \/ run[l].at = "next" /\ (run[l].todo # {} \/ run[l].stage = "cloudflare")
    /\ IF run[l].broken THEN UNCHANGED faults ELSE Fault
    /\ Move(l, [Idle EXCEPT !.at = "dead"])
    /\ UNCHANGED <<outside, rows, changes, requests>>

-----------------------------------------------------------------------------
(* One synchronization.                                                    *)

\* The loop swallows what is raised and goes on; a request is over.
Returned(c, broken) ==
    IF c \in Loop THEN [Idle EXCEPT !.at = "next", !.stage = run[c].stage, !.todo = run[c].todo,
                                    !.broken = broken]
                  ELSE Idle

\* Before the try: decrypting the credentials and reading the proxy.
SetupRaises(c) ==
    /\ run[c].at = "setup"
    /\ \/ run[c].account \notin readable /\ UNCHANGED faults /\ Move(c, Returned(c, FALSE))
       \/ Fault /\ \E broken \in BOOLEAN : Move(c, Returned(c, broken))
    /\ UNCHANGED <<outside, rows, changes, requests>>

Fetch(c) ==
    /\ run[c].at = "setup" /\ run[c].account \in readable \cap answers
    /\ Move(c, [run[c] EXCEPT !.at = "read", !.got = remote[run[c].account]])
    /\ UNCHANGED <<outside, rows, bounds>>

Read(c) ==
    /\ run[c].at = "read"
    /\ Move(c, [run[c] EXCEPT !.at = "commit", !.found = stored[run[c].account]])
    /\ UNCHANGED <<outside, rows, bounds>>

\* Variant: nothing of the commit needs the account's row.
CommitAllowedWithoutRow(c) ==
    (run[c].got \ run[c].found) \cap stored[run[c].account] = {}

\* The account's last_synced_at is updated and new rows refer to it; what is not among
\* the rows found is inserted, where it may be by now.
CommitAllowed(c) ==
    /\ run[c].account \in present
    /\ (run[c].got \ run[c].found) \cap stored[run[c].account] = {}

\* The reminders of an OVH account follow the commit.
Stored(c) == IF run[c].account \in Ovh
             THEN [run[c] EXCEPT !.at = "notify", !.got = {}, !.found = {}, !.hadError = FALSE]
             ELSE Returned(c, FALSE)

\* Variant: the error is cleared only in the object that was loaded.
CommitKeepsError(c) ==
    /\ run[c].at = "commit" /\ CommitAllowed(c)
    /\ LET a == run[c].account
       IN  stored' = [stored EXCEPT ![a] = (@ \ (run[c].found \ run[c].got))
                                             \cup (run[c].got \ run[c].found)]
    /\ Move(c, Stored(c))
    /\ UNCHANGED <<outside, present, known, error, bounds>>

\* Clearing the error is written only if there was one when the account was loaded.
Commit(c) ==
    /\ run[c].at = "commit" /\ CommitAllowed(c)
    /\ LET a == run[c].account
       IN  /\ stored' = [stored EXCEPT ![a] = (@ \ (run[c].found \ run[c].got))
                                                \cup (run[c].got \ run[c].found)]
           /\ error' = IF run[c].hadError THEN error \ {a} ELSE error
    /\ Move(c, Stored(c))
    /\ UNCHANGED <<outside, present, known, bounds>>

\* The reminders of an OVH account are inside its try.
Notify(c) ==
    /\ run[c].at = "notify"
    /\ Move(c, Returned(c, FALSE))
    /\ UNCHANGED <<outside, rows, bounds>>

\* Inside the try: the provider, the database at the commit, or anything else fails.  An
\* update of a row that another session deleted is refused if it would change something.
Raises(c) ==
    /\ \/ /\ run[c].at = "setup" /\ UNCHANGED faults
          /\ run[c].account \in readable \ answers
       \/ /\ run[c].at = "commit" /\ UNCHANGED faults
          /\ ~CommitAllowed(c) \/ (run[c].got \cap run[c].found) \ stored[run[c].account] # {}
       \/ run[c].at \in {"read", "commit", "notify"} /\ Fault
    /\ Move(c, [run[c] EXCEPT !.at = "record", !.got = {}, !.found = {}, !.hadError = FALSE])
    /\ UNCHANGED <<outside, rows, changes, requests>>

\* The account is looked up again; the error is a column of its row.
Record(c) ==
    /\ run[c].at = "record"
    /\ error' = error \cup ({run[c].account} \cap present)
    /\ Move(c, Returned(c, FALSE))
    /\ UNCHANGED <<outside, present, known, stored, bounds>>

RecordRaises(c) ==
    /\ Fault
    /\ run[c].at = "record"
    /\ \E broken \in BOOLEAN : Move(c, Returned(c, broken))
    /\ UNCHANGED <<outside, rows, changes, requests>>

\* The process ends and is started again, with new loops.
Restart ==
    /\ Fault
    /\ run' = [c \in Session |-> Idle]
    /\ UNCHANGED <<outside, rows, changes, requests>>

\* It is started again with another key.
KeyReplaced ==
    /\ Change
    /\ run' = [c \in Session |-> Idle]
    /\ readable' = {}
    /\ UNCHANGED <<remote, answers, rows, requests, faults>>

-----------------------------------------------------------------------------
Environment ==
    \/ \E a \in Account : ListingChanges(a) \/ AnswersChange(a) \/ AccountRemoved(a)
    \/ \E c \in User, a \in Account : AccountAdded(c, a) \/ SyncRequested(c, a)
    \/ Restart \/ KeyReplaced

Sync(c) ==
    \/ SetupRaises(c) \/ Fetch(c) \/ Read(c) \/ Commit(c) \/ Notify(c)
    \/ Raises(c) \/ Record(c) \/ RecordRaises(c)

LoopStep(l) ==
    \/ Select(l) \/ SelectNext(l) \/ RoundEnds(l) \/ LoopEnds(l)
    \/ \E a \in Account : Load(l, a)
    \/ Sync(l)

Next ==
    \/ Environment
    \/ \E l \in Loop : LoopStep(l)
    \/ \E c \in User : Sync(c)

Spec == Init /\ [][Next]_vars

\* A task that lives goes on: every await of it has a timeout.
Fairness ==
    /\ \A l \in Loop : WF_vars(LoopStep(l))
    /\ \A c \in User : WF_vars(Sync(c))

FairSpec == Spec /\ Fairness

-----------------------------------------------------------------------------
(* Properties.                                                             *)

\* Every variable keeps its type, a synchronization is about an account, and only an
\* account that has a row has an error.
TypeOK ==
    /\ remote \in [Account -> SUBSET Service]
    /\ answers \in SUBSET Account /\ readable \in SUBSET Account
    /\ present \in SUBSET known /\ known \in SUBSET Account
    /\ stored \in [Account -> SUBSET Service]
    /\ error \in SUBSET present
    /\ run \in [Session -> RunState]
    /\ changes \in 0..MaxChanges /\ requests \in 0..MaxRequests /\ faults \in 0..MaxFaults
    /\ \A c \in Session :
         run[c].at \in {"setup", "read", "commit", "notify", "record"} =>
           run[c].account \in Account

\* A removed account leaves no services behind, and no synchronization of it that is
\* still under way brings any back.
NothingWithoutAccount == \A a \in Account \ present : stored[a] = {}

LoopOf(a) == IF a \in Ovh THEN "ovh" ELSE "main"

\* Once providers, requests and faults settle, an account whose loop lives and whose
\* credentials are readable agrees with its provider and shows no error, or shows one if
\* the provider does not answer, whatever happens to other accounts.
Settles ==
    <>[](\A a \in present \cap readable : run[LoopOf(a)].at # "dead" =>
           IF a \in answers THEN stored[a] = remote[a] /\ a \notin error ELSE a \in error)

=============================================================================
