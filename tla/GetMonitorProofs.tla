--------------------------- MODULE GetMonitorProofs ---------------------------
(***************************************************************************)
(* Proofs about GetMonitor, for any records, sessions and bounds: its      *)
(* types, and that a recorded failure was delivered, whatever overlaps;    *)
(* and, if one session does everything, that alerts are deduplicated and   *)
(* that switching off leaves nothing behind.                               *)
(***************************************************************************)
EXTENDS GetMonitor, TLAPS

Handling == {"store", "notify", "read", "send", "commit"}

\* What holds of one session and depends on nothing but itself and what was told.
RunOK(q, t) ==
    /\ q \in RunState
    /\ q.at \in {"edit", "form"} => q.item \in Item
    /\ q.at \in Handling => q.item \in Item /\ q.checks[q.item] \in Health
    /\ q.at = "commit" /\ q.checks[q.item] = "failure" => q.item \in t
    /\ q.batch /\ q.at # "inspect" => \A i \in q.todo : q.checks[i] # "none"

\* The rest of the state.
OthersOK ==
    /\ world \in [Item -> Health]
    /\ present \in SUBSET Rec
    /\ enabled \in [Rec -> SUBSET Route]
    /\ result \in [Item -> Health \cup {"none"}] /\ state \in [Item -> Health \cup {"none"}]
    /\ bot \in BOOLEAN
    /\ changes \in 0..MaxChanges /\ switches \in 0..MaxSwitches /\ faults \in 0..MaxFaults
    /\ told \in SUBSET Item

IInv ==
    /\ OthersOK
    /\ run \in [Session -> RunState]
    /\ \A c \in Session : RunOK(run[c], told)
    /\ RecordedFailureWasDelivered

USE ConstantsAssumption

-----------------------------------------------------------------------------
(* The invariant follows a failure from the chat to the stored state.      *)

LEMMA IdleOK == ASSUME NEW t PROVE RunOK(Idle, t)
BY DEF RunOK, Idle, RunState, Handling, Item, Route, Health

LEMMA InitIInv == Init => IInv
<1> SUFFICES ASSUME Init PROVE IInv
    OBVIOUS
<1> USE DEF Init
<1>1. OthersOK
  <2>1. enabled \in [Rec -> SUBSET Route]
    BY DEF Switching, Route
  <2>2. /\ result \in [Item -> Health \cup {"none"}]
        /\ state \in [Item -> Health \cup {"none"}]
    OBVIOUS
  <2>3. changes \in 0..MaxChanges /\ switches \in 0..MaxSwitches /\ faults \in 0..MaxFaults
    OBVIOUS
  <2>4. QED
    BY <2>1, <2>2, <2>3 DEF OthersOK
<1>2. run \in [Session -> RunState] /\ \A c \in Session : RunOK(run[c], told)
  <2>1. RunOK(Idle, told) /\ Idle \in RunState
    BY IdleOK DEF RunOK
  <2>2. QED
    BY <2>1
<1>3. RecordedFailureWasDelivered
    BY DEF RecordedFailureWasDelivered
<1>4. QED
    BY <1>1, <1>2, <1>3 DEF IInv

LEMMA IInvGivesTypeOK == IInv => TypeOK
BY DEF IInv, OthersOK, TypeOK, RunOK, Handling

\* One session moves, and what was told stays told.
LEMMA OneMoves ==
    ASSUME IInv, NEW c \in Session, NEW q, RunOK(q, told'), Move(c, q),
           told \subseteq told', OthersOK', RecordedFailureWasDelivered'
    PROVE  IInv'
<1>1. run' = [run EXCEPT ![c] = q] /\ run' \in [Session -> RunState]
    BY DEF Move, IInv, RunOK
<1>2. ASSUME NEW d \in Session PROVE RunOK(run'[d], told')
  <2>1. CASE d = c
    BY <1>1, <2>1 DEF IInv
  <2>2. CASE d # c
    <3>1. run'[d] = run[d] /\ RunOK(run[d], told)
      BY <1>1, <2>2 DEF IInv
    <3>2. QED
      BY <3>1 DEF RunOK
  <2>3. QED
    BY <2>1, <2>2
<1>3. QED
    BY <1>1, <1>2 DEF IInv

\* One session moves, and nothing but the counters changes.
LEMMA OnlyMoves ==
    ASSUME IInv, NEW c \in Session, NEW q, RunOK(q, told), Move(c, q),
           UNCHANGED <<world, table, bot, changes, told>>,
           switches' \in 0..MaxSwitches, faults' \in 0..MaxFaults
    PROVE  IInv'
<1>1. UNCHANGED <<world, present, enabled, result, state, bot, changes, told>>
    BY DEF table
<1>2. OthersOK' /\ RecordedFailureWasDelivered'
    BY <1>1 DEF OthersOK, IInv, RecordedFailureWasDelivered
<1>3. QED
    BY <1>1, <1>2, OneMoves

\* Clearing keeps the type and adds nothing.
LEMMA ClearedOnlyForgets ==
    ASSUME NEW f \in [Item -> Health \cup {"none"}], NEW I
    PROVE  /\ Cleared(f, I) \in [Item -> Health \cup {"none"}]
           /\ \A i \in Item : Cleared(f, I)[i] \in {f[i], "none"}
           /\ \A i \in Item : i \in I => Cleared(f, I)[i] = "none"
BY DEF Cleared

-----------------------------------------------------------------------------
(* Every action keeps the invariant.                                       *)

LEMMA EnvironmentIInv == ASSUME IInv, Environment PROVE IInv'
<1>1. OthersOK /\ UNCHANGED <<run, told, switches, faults>>
    BY DEF Environment, EndpointChanges, RecordDeleted, BotSaved, BotRemoved, IInv
<1>2. changes' \in 0..MaxChanges
  <2>1. changes < MaxChanges /\ changes' = changes + 1
    BY Zenon DEF Environment, EndpointChanges, RecordDeleted, BotSaved, BotRemoved, Change
  <2>2. QED
    BY <1>1, <2>1 DEF OthersOK
<1>3. /\ state' \in [Item -> Health \cup {"none"}]
      /\ \A i \in Item : state'[i] \in {state[i], "none"}
      /\ result' \in [Item -> Health \cup {"none"}]
  <2>1. CASE UNCHANGED <<result, state>>
    BY <1>1, <2>1 DEF OthersOK
  <2>2. CASE \E r \in Rec : RecordDeleted(r)
    BY <1>1, <2>2, ClearedOnlyForgets DEF RecordDeleted, OthersOK
  <2>3. CASE BotRemoved
    BY <1>1, <2>3 DEF BotRemoved, OthersOK
  <2>4. QED
    BY <2>1, <2>2, <2>3 DEF Environment, EndpointChanges, BotSaved, table
<1>4. /\ present' \in SUBSET Rec /\ bot' \in BOOLEAN /\ enabled' = enabled
      /\ world' \in [Item -> Health]
    BY <1>1 DEF Environment, EndpointChanges, RecordDeleted, BotSaved, BotRemoved, OthersOK,
                table, Health
<1>5. OthersOK'
    BY <1>1, <1>2, <1>3, <1>4 DEF OthersOK
<1>6. RecordedFailureWasDelivered'
    BY <1>1, <1>3 DEF IInv, RecordedFailureWasDelivered
<1>7. QED
    BY <1>1, <1>5, <1>6 DEF IInv

LEMMA RequestIInv ==
    ASSUME IInv, NEW c \in Request, NEW r \in Rec, ToggleStart(c, r) \/ FormStart(c, r)
    PROVE  IInv'
<1>0. c \in Session /\ OthersOK
    BY DEF Session, IInv
<1>1. PICK at \in {"edit", "form"}, want \in SUBSET Route : RequestStart(c, r, at, want)
  <2>1. CASE ToggleStart(c, r)
    <3>1. enabled[r] \cup {"get"} \in SUBSET Route
      BY <1>0 DEF OthersOK, Route
    <3>2. QED
      BY <2>1, <3>1 DEF ToggleStart
  <2>2. CASE FormStart(c, r)
    <3>1. PICK get \in BOOLEAN, direct \in BOOLEAN :
            RequestStart(c, r, "form", {rt \in Route : get /\ (rt = "direct" => direct)})
      BY <2>2, Zenon DEF FormStart
    <3>2. {rt \in Route : get /\ (rt = "direct" => direct)} \in SUBSET Route
      OBVIOUS
    <3>3. QED
      BY <3>1, <3>2
  <2>3. QED
    BY <2>1, <2>2
<1> DEFINE q == [Idle EXCEPT !.at = at, !.item = <<r, "get">>, !.seen = enabled[r],
                             !.want = want]
<1>2. RunOK(q, told)
  <2>1. enabled[r] \in SUBSET Route
    BY <1>0 DEF OthersOK
  <2>2. <<r, "get">> \in Item
    BY DEF Item, Route
  <2>3. QED
    BY <2>1, <2>2 DEF RunOK, Idle, RunState, Handling, Health
<1>3. /\ Move(c, q) /\ UNCHANGED <<world, table, bot, changes, told, faults>>
      /\ switches' \in 0..MaxSwitches
    BY <1>0, <1>1 DEF RequestStart, OthersOK
<1> HIDE DEF q
<1>4. QED
    BY <1>0, <1>2, <1>3, OnlyMoves DEF OthersOK

LEMMA EditCommitIInv == ASSUME IInv, NEW c \in Session, EditCommit(c) PROVE IInv'
<1> DEFINE old == run[c]
           r == old.item[1]
           off == IF old.at = "edit" /\ old.want # {} THEN {} ELSE {r} \X (Route \ old.want)
           q == [Idle EXCEPT !.at = "next",
                             !.todo = {r} \X (IF old.at = "form" THEN old.want
                                              ELSE old.want \cap {"get"})]
<1>0. OthersOK /\ old \in RunState /\ r \in Rec
    BY DEF IInv, RunOK, EditCommit, Item
<1>1. /\ Move(c, q) /\ UNCHANGED <<world, present, bot, changes, switches, faults, told>>
      /\ enabled' = [enabled EXCEPT ![r] = Merge(@, old.seen, old.want)]
      /\ result' = Cleared(result, off) /\ state' = Cleared(state, off)
    BY DEF EditCommit, bounds
<1>2. RunOK(q, told)
  <2>1. {r} \X (IF old.at = "form" THEN old.want ELSE old.want \cap {"get"}) \in SUBSET Item
    BY <1>0 DEF Item, RunState
  <2>2. QED
    BY <2>1 DEF RunOK, Idle, RunState, Handling, Health
<1>3. /\ state' \in [Item -> Health \cup {"none"}]
      /\ \A i \in Item : state'[i] \in {state[i], "none"}
      /\ result' \in [Item -> Health \cup {"none"}]
    BY <1>0, <1>1, ClearedOnlyForgets DEF OthersOK
<1>4. enabled' \in [Rec -> SUBSET Route]
    BY <1>0, <1>1 DEF OthersOK, Merge
<1>5. OthersOK' /\ RecordedFailureWasDelivered'
    BY <1>0, <1>1, <1>3, <1>4 DEF OthersOK, IInv, RecordedFailureWasDelivered
<1> HIDE DEF q
<1>6. QED
    BY <1>1, <1>2, <1>5, OneMoves

LEMMA CronBeginIInv == ASSUME IInv, NEW c \in Cron, CronBegin(c) PROVE IInv'
<1> DEFINE items == {i \in Item : i[1] \in present /\ i[2] \in enabled[i[1]]}
           q == [Idle EXCEPT !.at = "inspect", !.batch = TRUE, !.todo = items, !.txn = TRUE]
<1>1. RunOK(q, told)
    BY DEF RunOK, Idle, RunState, Handling, Health
<1>2. Move(c, q) /\ UNCHANGED <<world, table, bot, changes, switches, faults, told>>
    BY DEF CronBegin, bounds
<1> HIDE DEF q
<1>3. QED
    BY <1>1, <1>2, OnlyMoves DEF IInv, OthersOK, Session

LEMMA InspectAllIInv ==
    ASSUME IInv, NEW c \in Session, NEW B \in SUBSET Item, InspectAll(c, B)
    PROVE  IInv'
<1> DEFINE seen == [i \in Item |-> IF i \in B THEN "broken"
                                   ELSE IF i \in run[c].todo THEN world[i] ELSE "none"]
           q == [run[c] EXCEPT !.at = "next", !.checks = seen]
<1>0. OthersOK /\ run[c] \in RunState
    BY DEF IInv
<1>1. seen \in [Item -> Health \cup {"none", "broken"}]
    BY <1>0 DEF OthersOK
<1>2. RunOK(q, told)
  <2> HIDE DEF seen
  <2>1. q \in RunState /\ q.at = "next" /\ q.checks = seen /\ q.todo = run[c].todo
    BY <1>0, <1>1 DEF RunState
  <2>2. \A i \in q.todo : seen[i] # "none"
    BY <1>0, <2>1 DEF seen, RunState, OthersOK, Health
  <2>3. QED
    BY <2>1, <2>2 DEF RunOK, Handling
<1>3. Move(c, q) /\ UNCHANGED <<world, table, bot, changes, switches, told>>
    BY DEF InspectAll
<1>4. faults' \in 0..MaxFaults
  <2>1. faults' = faults \/ (faults < MaxFaults /\ faults' = faults + 1)
    BY DEF InspectAll, Fault
  <2>2. QED
    BY <1>0, <2>1 DEF OthersOK
<1> HIDE DEF q
<1>5. QED
    BY <1>0, <1>2, <1>3, <1>4, OnlyMoves DEF OthersOK

LEMMA NextItemIInv ==
    ASSUME IInv, NEW c \in Session, NEW i \in Item,
           Take(c, i) \/ InspectOne(c, i) \/ GiveUp(c, i)
    PROVE  IInv'
<1>0. /\ OthersOK /\ run[c] \in RunState /\ RunOK(run[c], told) /\ world[i] \in Health
      /\ run[c].at = "next" /\ i \in run[c].todo
    BY DEF IInv, OthersOK, Take, InspectOne, GiveUp, Turn
<1>1. PICK q : RunOK(q, told) /\ Move(c, q)
  <2>1. CASE Take(c, i)
    <3> DEFINE q == [run[c] EXCEPT !.at = "store", !.item = i, !.todo = @ \ {i}]
    <3>1. run[c].checks[i] \in Health
      BY <1>0, <2>1 DEF Take, RunOK, RunState
    <3>2. /\ q \in RunState /\ q.at = "store" /\ q.item = i /\ q.checks = run[c].checks
          /\ q.todo \subseteq run[c].todo /\ q.batch = run[c].batch
      BY <1>0 DEF RunState
    <3>3. Move(c, q)
      BY <2>1 DEF Take
    <3> HIDE DEF q
    <3>4. RunOK(q, told)
      BY <1>0, <3>1, <3>2 DEF RunOK, Handling
    <3>5. QED
      BY <3>3, <3>4
  <2>2. CASE InspectOne(c, i)
    <3> DEFINE q == [run[c] EXCEPT !.at = "store", !.item = i, !.todo = @ \ {i},
                                   !.checks[i] = world[i]]
    <3>1. /\ q \in RunState /\ q.at = "store" /\ q.item = i /\ q.checks[i] = world[i]
          /\ ~q.batch
      BY <1>0, <2>2 DEF RunState, InspectOne
    <3>2. Move(c, q)
      BY <2>2 DEF InspectOne
    <3> HIDE DEF q
    <3>3. RunOK(q, told)
      BY <1>0, <3>1 DEF RunOK, Handling
    <3>4. QED
      BY <3>2, <3>3
  <2>3. CASE GiveUp(c, i)
    <3> DEFINE q == [run[c] EXCEPT !.todo = @ \ {i}, !.item = i, !.txn = FALSE,
                                   !.expired = @ \/ run[c].txn]
    <3>1. (run[c].expired \/ run[c].txn) \in BOOLEAN
      OBVIOUS
    <3>2. /\ q \in RunState /\ q.at = "next" /\ q.checks = run[c].checks
          /\ q.todo \subseteq run[c].todo /\ q.batch = run[c].batch
      BY <1>0, <3>1 DEF RunState
    <3>3. Move(c, q)
      BY <2>3 DEF GiveUp
    <3> HIDE DEF q
    <3>4. RunOK(q, told)
      BY <1>0, <3>2 DEF RunOK, Handling
    <3>5. QED
      BY <3>3, <3>4
  <2>4. QED
    BY <2>1, <2>2, <2>3
<1>2. UNCHANGED <<world, table, bot, changes, switches, faults, told>>
    BY DEF Take, InspectOne, GiveUp, bounds
<1>3. QED
    BY <1>0, <1>1, <1>2, OnlyMoves DEF OthersOK

LEMMA FinishIInv == ASSUME IInv, NEW c \in Session, Finish(c) PROVE IInv'
BY IdleOK, OnlyMoves DEF Finish, bounds, IInv, OthersOK

LEMMA StoreIInv == ASSUME IInv, NEW c \in Session, Store(c) PROVE IInv'
<1> DEFINE q == [run[c] EXCEPT !.at = "notify", !.txn = FALSE]
<1>0. /\ OthersOK /\ run[c] \in RunState /\ RunOK(run[c], told)
      /\ run[c].item \in Item /\ run[c].checks[run[c].item] \in Health
    BY DEF IInv, Store, RunOK, Handling
<1>1. RunOK(q, told)
  <2>1. /\ q \in RunState /\ q.at = "notify" /\ q.item = run[c].item
        /\ q.checks = run[c].checks /\ q.todo = run[c].todo /\ q.batch = run[c].batch
    BY <1>0 DEF RunState
  <2> HIDE DEF q
  <2>2. QED
    BY <1>0, <2>1 DEF RunOK, Handling, Store
<1>2. /\ Move(c, q)
      /\ UNCHANGED <<world, present, enabled, state, bot, changes, switches, faults, told>>
      /\ result' = [result EXCEPT ![run[c].item] = run[c].checks[run[c].item]]
    BY DEF Store, bounds
<1>3. OthersOK' /\ RecordedFailureWasDelivered'
    BY <1>0, <1>2 DEF OthersOK, IInv, RecordedFailureWasDelivered
<1> HIDE DEF q
<1>4. QED
    BY <1>1, <1>2, <1>3, OneMoves

LEMMA NotifyBeginIInv == ASSUME IInv, NEW c \in Session, NotifyBegin(c) PROVE IInv'
<1> DEFINE at == IF bot THEN "read" ELSE "next"
           q == [run[c] EXCEPT !.at = at, !.txn = TRUE]
<1>0. OthersOK /\ run[c] \in RunState /\ RunOK(run[c], told) /\ run[c].at = "notify"
    BY DEF IInv, NotifyBegin
<1>1. RunOK(q, told)
  <2>1. /\ q \in RunState /\ q.at \in {"read", "next"} /\ q.item = run[c].item
        /\ q.checks = run[c].checks /\ q.todo = run[c].todo /\ q.batch = run[c].batch
    BY <1>0 DEF RunState
  <2> HIDE DEF q
  <2>2. QED
    BY <1>0, <2>1 DEF RunOK, Handling
<1>2. Move(c, q) /\ UNCHANGED <<world, table, bot, changes, switches, faults, told>>
    BY DEF NotifyBegin, bounds
<1> HIDE DEF q
<1>3. QED
    BY <1>0, <1>1, <1>2, OnlyMoves DEF OthersOK

\* Where no message is due for a failure, it is recorded, hence delivered, already.
LEMMA ReadStateIInv == ASSUME IInv, NEW c \in Session, ReadState(c) PROVE IInv'
<1> DEFINE i == run[c].item
           at == IF Message(state[i], run[c].checks[i]) THEN "send" ELSE "commit"
           q == [run[c] EXCEPT !.old = state[i], !.at = at]
<1>0. /\ OthersOK /\ run[c] \in RunState /\ RunOK(run[c], told)
      /\ i \in Item /\ run[c].checks[i] \in Health /\ state[i] \in Health \cup {"none"}
    BY DEF IInv, ReadState, RunOK, Handling, OthersOK
<1>1. at = "commit" /\ run[c].checks[i] = "failure" => i \in told
    BY <1>0 DEF Message, IInv, RecordedFailureWasDelivered
<1>2. at \in {"send", "commit"}
    OBVIOUS
<1>3. RunOK(q, told)
  <2> HIDE DEF at
  <2>1. /\ q \in RunState /\ q.at = at /\ q.item = i
        /\ q.checks = run[c].checks /\ q.todo = run[c].todo /\ q.batch = run[c].batch
    BY <1>0, <1>2 DEF RunState
  <2> HIDE DEF q
  <2>2. run[c].at = "read"
    BY DEF ReadState
  <2>3. QED
    BY <1>0, <1>1, <1>2, <2>1, <2>2 DEF RunOK, Handling
<1>4. Move(c, q) /\ UNCHANGED <<world, table, bot, changes, switches, faults, told>>
    BY DEF ReadState, bounds
<1> HIDE DEF q
<1>5. QED
    BY <1>0, <1>3, <1>4, OnlyMoves DEF OthersOK

\* A failure gets to the commit only with an answer, which only a delivery has.
LEMMA SendIInv ==
    ASSUME IInv, NEW c \in Session, NEW delivered \in BOOLEAN, NEW answered \in BOOLEAN,
           Send(c, delivered, answered)
    PROVE  IInv'
<1> DEFINE i == run[c].item
           at == IF answered THEN "commit" ELSE "next"
           q == [run[c] EXCEPT !.at = at]
<1>0. /\ OthersOK /\ run[c] \in RunState /\ RunOK(run[c], told)
      /\ i \in Item /\ run[c].checks[i] \in Health /\ run[c].at = "send"
    BY DEF IInv, Send, RunOK, Handling
<1>1. /\ told' = IF delivered /\ run[c].checks[i] = "failure" THEN told \cup {i} ELSE told
      /\ answered => delivered
      /\ Move(c, q) /\ UNCHANGED <<world, table, bot, changes, switches>>
    BY DEF Send
<1>2. at \in {"commit", "next"}
      /\ (at = "commit" /\ run[c].checks[i] = "failure" => i \in told')
    BY <1>1
<1>3. RunOK(q, told')
  <2> HIDE DEF at
  <2>1. /\ q \in RunState /\ q.at = at /\ q.item = i
        /\ q.checks = run[c].checks /\ q.todo = run[c].todo /\ q.batch = run[c].batch
    BY <1>0, <1>2 DEF RunState
  <2> HIDE DEF q
  <2>2. QED
    BY <1>0, <1>2, <2>1 DEF RunOK, Handling
<1>4. told \subseteq told' /\ told' \in SUBSET Item
    BY <1>0, <1>1 DEF OthersOK
<1>5. faults' \in 0..MaxFaults
  <2>1. faults' = faults \/ (faults < MaxFaults /\ faults' = faults + 1)
    BY DEF Send, Fault
  <2>2. QED
    BY <1>0, <2>1 DEF OthersOK
<1>6. OthersOK' /\ RecordedFailureWasDelivered'
    BY <1>0, <1>1, <1>4, <1>5 DEF OthersOK, IInv, RecordedFailureWasDelivered, table
<1> HIDE DEF q
<1>7. QED
    BY <1>1, <1>3, <1>4, <1>6, OneMoves

LEMMA NotifyCommitIInv == ASSUME IInv, NEW c \in Session, NotifyCommit(c) PROVE IInv'
<1> DEFINE i == run[c].item
           q == [run[c] EXCEPT !.at = "next", !.txn = FALSE]
<1>0. /\ OthersOK /\ run[c] \in RunState /\ RunOK(run[c], told) /\ run[c].at = "commit"
      /\ i \in Item /\ run[c].checks[i] \in Health
    BY DEF IInv, NotifyCommit, RunOK, Handling
<1>1. RunOK(q, told)
  <2>1. /\ q \in RunState /\ q.at = "next"
        /\ q.checks = run[c].checks /\ q.todo = run[c].todo /\ q.batch = run[c].batch
    BY <1>0 DEF RunState
  <2> HIDE DEF q
  <2>2. QED
    BY <1>0, <2>1 DEF RunOK, Handling
<1>2. /\ Move(c, q)
      /\ UNCHANGED <<world, present, enabled, result, bot, changes, switches, faults, told>>
      /\ state' = state \/ state' = [state EXCEPT ![i] = run[c].checks[i]]
    BY DEF NotifyCommit, bounds
<1>3. run[c].checks[i] = "failure" => i \in told
    BY <1>0 DEF RunOK
<1>4. OthersOK'
    BY <1>0, <1>2 DEF OthersOK
<1>5. RecordedFailureWasDelivered'
    BY <1>0, <1>2, <1>3 DEF OthersOK, IInv, RecordedFailureWasDelivered
<1> HIDE DEF q
<1>6. QED
    BY <1>1, <1>2, <1>4, <1>5, OneMoves

LEMMA AbortOK == ASSUME IInv, NEW c \in Session, Abort(c), run[c].at # "inspect"
                 PROVE  \E q : RunOK(q, told) /\ Move(c, q)
<1> DEFINE on == [run[c] EXCEPT !.at = "next", !.txn = FALSE, !.expired = TRUE]
<1>1. run[c] \in RunState /\ RunOK(run[c], told)
    BY DEF IInv
<1>2. /\ on \in RunState /\ on.at = "next" /\ on.checks = run[c].checks
      /\ on.todo = run[c].todo /\ on.batch = run[c].batch
    BY <1>1 DEF RunState
<1>3. RunOK(on, told) \/ ~run[c].batch
  <2> HIDE DEF on
  <2>1. QED
    BY <1>1, <1>2 DEF RunOK, Handling
<1>4. CASE run[c].batch
    BY <1>3, <1>4 DEF Abort
<1>5. CASE ~run[c].batch
    BY <1>5, IdleOK DEF Abort
<1>6. QED
    BY <1>4, <1>5

LEMMA StopIInv ==
    ASSUME IInv, NEW c \in Session, Rejected(c) \/ StepFails(c) \/ ProcessEnds(c)
    PROVE  IInv'
<1>0. OthersOK
    BY DEF IInv
<1>1. PICK q : RunOK(q, told) /\ Move(c, q)
  <2>1. CASE ProcessEnds(c)
    BY <2>1, IdleOK DEF ProcessEnds
  <2>2. CASE Rejected(c) \/ StepFails(c)
    BY <2>2, AbortOK DEF Rejected, StepFails
  <2>3. QED
    BY <2>1, <2>2
<1>2. UNCHANGED <<world, table, bot, changes, switches, told>>
    BY DEF Rejected, StepFails, ProcessEnds, bounds
<1>3. faults' \in 0..MaxFaults
  <2>1. faults' = faults \/ (faults < MaxFaults /\ faults' = faults + 1)
    BY Zenon DEF Rejected, StepFails, ProcessEnds, Fault, bounds
  <2>2. QED
    BY <1>0, <2>1 DEF OthersOK
<1>4. QED
    BY <1>0, <1>1, <1>2, <1>3, OnlyMoves DEF OthersOK

LEMMA StepIInv == ASSUME IInv, NEW c \in Session, Step(c) PROVE IInv'
BY EditCommitIInv, InspectAllIInv, NextItemIInv, StoreIInv, NotifyBeginIInv, ReadStateIInv,
   SendIInv, NotifyCommitIInv, StopIInv, FinishIInv, Zenon DEF Step

LEMMA NextIInv == ASSUME IInv, [Next]_vars PROVE IInv'
<1>1. CASE Next
    BY <1>1, EnvironmentIInv, RequestIInv, CronBeginIInv, StepIInv DEF Next
<1>2. CASE UNCHANGED vars
    BY <1>2 DEF vars, table, bounds, IInv, OthersOK, RecordedFailureWasDelivered
<1>3. QED
    BY <1>1, <1>2

LEMMA Inductive == Spec => []IInv
<1>1. Init => IInv
    BY InitIInv
<1>2. IInv /\ [Next]_vars => IInv'
    BY NextIInv
<1>3. QED
    BY <1>1, <1>2, PTL DEF Spec

-----------------------------------------------------------------------------
(* For all sessions and interleavings.                                     *)

\* Whatever overlaps or fails, every variable keeps its type, and what a session stores
\* and announces is a result of its own inspection (store_record_result).
THEOREM TypeCorrect == Spec => []TypeOK
BY Inductive, IInvGivesTypeOK, PTL

\* Whatever overlaps, fails or is lost, notify_http_result records as announced only a
\* failure whose message was delivered.
THEOREM FailuresRecordedAreDelivered == Spec => []RecordedFailureWasDelivered
<1>1. IInv => RecordedFailureWasDelivered
    BY DEF IInv
<1>2. QED
    BY <1>1, Inductive, PTL

-----------------------------------------------------------------------------
(* If one session does everything.                                         *)

SoleSession == \A c, d \in Session : c = d

\* What a session of GET checks knows of a row stays true: the switches it has loaded,
\* that what it has to do is switched on, and that a failure it sends is not recorded.
KnowsTheRow(q, on, st) ==
    /\ q.at \in {"edit", "form"} =>
         /\ q.seen = on[q.item[1]] /\ q.todo = {}
         /\ q.at = "form" => q.want \in Switching
         /\ q.at = "edit" => q.want = {} \/ q.want = q.seen \cup {"get"}
    /\ \A i \in q.todo : i[2] \in on[i[1]]
    /\ q.at \in Handling => q.item[2] \in on[q.item[1]]
    /\ q.at = "send" /\ q.checks[q.item] = "failure" => st[q.item] # "failure"

SInv ==
    /\ \A r \in Rec : enabled[r] \in Switching
    /\ NothingLeftWhenOff
    /\ \A c \in Session : KnowsTheRow(run[c], enabled, state)

LEMMA InitSInv == Init => SInv
BY DEF Init, SInv, NothingLeftWhenOff, KnowsTheRow, Idle, Handling, Item

\* The sole session moves, and the switches stay.
LEMMA SoleMoves ==
    ASSUME IInv, SInv, SoleSession, NEW c \in Session, NEW q, Move(c, q),
           KnowsTheRow(q, enabled, state'), enabled' = enabled, NothingLeftWhenOff'
    PROVE  SInv'
<1>1. \A d \in Session : run'[d] = q
    BY DEF SoleSession, Move, IInv
<1>2. QED
    BY <1>1 DEF SInv

LEMMA SoleEnvironment == ASSUME IInv, SInv, Environment PROVE SInv'
<1>1. /\ UNCHANGED <<run, enabled>>
      /\ \A i \in Item : state'[i] \in {state[i], "none"} /\ result'[i] \in {result[i], "none"}
  <2>1. CASE UNCHANGED <<result, state>>
    BY <2>1 DEF Environment, EndpointChanges, RecordDeleted, BotSaved, BotRemoved, table
  <2>2. CASE \E r \in Rec : RecordDeleted(r)
    BY <2>2, ClearedOnlyForgets DEF RecordDeleted, IInv, OthersOK
  <2>3. CASE BotRemoved
    BY <2>3 DEF BotRemoved
  <2>4. QED
    BY <2>1, <2>2, <2>3 DEF Environment, EndpointChanges, BotSaved, table
<1>2. NothingLeftWhenOff'
    BY <1>1 DEF SInv, NothingLeftWhenOff
<1>3. ASSUME NEW c \in Session PROVE KnowsTheRow(run[c], enabled, state')
  <2>1. run[c].at \in Handling => run[c].item \in Item
    BY DEF IInv, RunOK
  <2>2. QED
    BY <1>1, <2>1 DEF SInv, KnowsTheRow, Handling
<1>4. QED
    BY <1>1, <1>2, <1>3 DEF SInv

LEMMA SoleRequest ==
    ASSUME IInv, SInv, SoleSession, NEW c \in Request, NEW r \in Rec,
           ToggleStart(c, r) \/ FormStart(c, r)
    PROVE  SInv'
<1>1. PICK at, want :
        /\ RequestStart(c, r, at, want)
        /\ \/ at = "edit" /\ (want = {} \/ want = enabled[r] \cup {"get"})
           \/ at = "form" /\ want \in Switching
  <2>1. CASE ToggleStart(c, r)
    BY <2>1 DEF ToggleStart
  <2>2. CASE FormStart(c, r)
    <3>1. PICK get \in BOOLEAN, direct \in BOOLEAN :
            RequestStart(c, r, "form", {rt \in Route : get /\ (rt = "direct" => direct)})
      BY <2>2, Zenon DEF FormStart
    <3>2. {rt \in Route : get /\ (rt = "direct" => direct)} \in Switching
      BY DEF Route, Switching
    <3>3. QED
      BY <3>1, <3>2
  <2>3. QED
    BY <2>1, <2>2
<1> DEFINE q == [Idle EXCEPT !.at = at, !.item = <<r, "get">>, !.seen = enabled[r],
                             !.want = want]
<1>2. KnowsTheRow(q, enabled, state)
    BY <1>1 DEF KnowsTheRow, Idle, Handling
<1>3. Move(c, q) /\ UNCHANGED <<enabled, result, state>> /\ c \in Session
    BY <1>1 DEF RequestStart, table, Session
<1>4. NothingLeftWhenOff'
    BY <1>3 DEF SInv, NothingLeftWhenOff
<1> HIDE DEF q
<1>5. QED
    BY <1>2, <1>3, <1>4, SoleMoves

\* Merging into the row that was loaded gives what the request wants.
LEMMA MergeUnchanged ==
    ASSUME NEW seen \in SUBSET Route, NEW want \in SUBSET Route
    PROVE  Merge(seen, seen, want) = want
BY DEF Merge

LEMMA SoleEditCommit == ASSUME IInv, SInv, SoleSession, NEW c \in Session, EditCommit(c)
                        PROVE  SInv'
<1> DEFINE old == run[c]
           r == old.item[1]
           off == IF old.at = "edit" /\ old.want # {} THEN {} ELSE {r} \X (Route \ old.want)
           q == [Idle EXCEPT !.at = "next",
                             !.todo = {r} \X (IF old.at = "form" THEN old.want
                                              ELSE old.want \cap {"get"})]
<1>1. /\ OthersOK /\ old \in RunState /\ r \in Rec /\ old.at \in {"edit", "form"}
      /\ KnowsTheRow(old, enabled, state)
    BY DEF IInv, RunOK, EditCommit, Item, SInv
<1>2. /\ Move(c, q)
      /\ enabled' = [enabled EXCEPT ![r] = Merge(@, old.seen, old.want)]
      /\ result' = Cleared(result, off) /\ state' = Cleared(state, off)
    BY DEF EditCommit
<1>3. enabled' = [enabled EXCEPT ![r] = old.want] /\ old.want \in Switching
  <2>1. enabled[r] = old.seen /\ old.seen \in SUBSET Route /\ old.want \in SUBSET Route
    BY <1>1 DEF KnowsTheRow, RunState
  <2>2. old.want \in Switching
    BY <1>1, <2>1 DEF KnowsTheRow, SInv, Switching
  <2>3. QED
    BY <1>2, <2>1, <2>2, MergeUnchanged
<1>4. \A x \in Rec : enabled'[x] \in Switching
    BY <1>1, <1>3 DEF SInv, OthersOK
<1>5. NothingLeftWhenOff'
  <2> SUFFICES ASSUME NEW i \in Item, i[2] \notin enabled'[i[1]]
               PROVE  result'[i] = "none" /\ state'[i] = "none"
    BY DEF NothingLeftWhenOff
  <2>1. /\ \A j \in Item : state'[j] \in {state[j], "none"} /\ result'[j] \in {result[j], "none"}
        /\ \A j \in Item : j \in off => state'[j] = "none" /\ result'[j] = "none"
    BY <1>1, <1>2, ClearedOnlyForgets DEF OthersOK
  <2>2. i[1] \in Rec /\ i[2] \in Route /\ i = <<i[1], i[2]>>
    BY DEF Item
  <2>3. CASE i[1] = r /\ i[2] \in enabled[r]
    <3>1. i[2] \notin old.want
      BY <1>1, <1>3, <2>3 DEF OthersOK
    <3>2. ~(old.at = "edit" /\ old.want # {})
      BY <1>1, <2>3, <3>1 DEF KnowsTheRow
    <3>3. i \in off
      BY <2>2, <2>3, <3>1, <3>2
    <3>4. QED
      BY <2>1, <3>3
  <2>4. CASE i[2] \notin enabled[i[1]]
    BY <2>1, <2>4 DEF SInv, NothingLeftWhenOff
  <2>5. CASE i[1] # r
    BY <1>1, <1>3, <2>2, <2>4, <2>5 DEF OthersOK
  <2>6. QED
    BY <2>3, <2>4, <2>5
<1>6. KnowsTheRow(q, enabled', state')
  <2>1. /\ q.at = "next"
        /\ q.todo = {r} \X (IF old.at = "form" THEN old.want ELSE old.want \cap {"get"})
    BY DEF Idle
  <2>2. \A i \in q.todo : i[1] = r /\ i[2] \in old.want
    BY <2>1
  <2>3. \A i \in q.todo : i[2] \in enabled'[i[1]]
    BY <1>1, <1>3, <2>2 DEF OthersOK
  <2> HIDE DEF q
  <2>4. QED
    BY <2>1, <2>3 DEF KnowsTheRow, Handling
<1>7. \A d \in Session : run'[d] = q
    BY <1>2 DEF SoleSession, Move, IInv
<1> HIDE DEF q
<1>8. QED
    BY <1>4, <1>5, <1>6, <1>7 DEF SInv

\* A session goes on with what is left to do, about an item that is switched on.
LEMMA GoesOn ==
    ASSUME NEW p, NEW q, NEW on, NEW st, NEW stNext,
           KnowsTheRow(p, on, st), q.todo \subseteq p.todo,
           q.at \notin {"edit", "form"},
           q.at \in Handling => q.item \in p.todo \/ (p.at \in Handling /\ q.item = p.item),
           q.at = "send" /\ q.checks[q.item] = "failure" => stNext[q.item] # "failure"
    PROVE  KnowsTheRow(q, on, stNext)
BY DEF KnowsTheRow

LEMMA SoleBatch ==
    ASSUME IInv, SInv, SoleSession, NEW c \in Session,
           \/ c \in Cron /\ CronBegin(c)
           \/ \E B \in SUBSET Item : InspectAll(c, B)
           \/ \E i \in Item : Take(c, i) \/ InspectOne(c, i) \/ GiveUp(c, i)
           \/ Finish(c)
    PROVE  SInv'
<1>0. run[c] \in RunState /\ KnowsTheRow(run[c], enabled, state)
    BY DEF IInv, SInv
<1>1. UNCHANGED <<enabled, result, state>>
    BY Zenon DEF CronBegin, InspectAll, Take, InspectOne, GiveUp, Finish, table
<1>2. NothingLeftWhenOff'
    BY <1>1 DEF SInv, NothingLeftWhenOff
<1>3. PICK q : Move(c, q) /\ KnowsTheRow(q, enabled, state)
  <2>1. CASE CronBegin(c)
    <3> DEFINE items == {i \in Item : i[1] \in present /\ i[2] \in enabled[i[1]]}
               q == [Idle EXCEPT !.at = "inspect", !.batch = TRUE, !.todo = items,
                                 !.txn = TRUE]
    <3>1. KnowsTheRow(q, enabled, state)
      BY DEF KnowsTheRow, Idle, Handling
    <3>2. Move(c, q)
      BY <2>1 DEF CronBegin
    <3> HIDE DEF q
    <3>3. QED
      BY <3>1, <3>2
  <2>2. ASSUME NEW B \in SUBSET Item, InspectAll(c, B)
        PROVE  \E q : Move(c, q) /\ KnowsTheRow(q, enabled, state)
    <3> DEFINE seen == [i \in Item |-> IF i \in B THEN "broken"
                                       ELSE IF i \in run[c].todo THEN world[i] ELSE "none"]
               q == [run[c] EXCEPT !.at = "next", !.checks = seen]
    <3>1. q.at = "next" /\ q.todo = run[c].todo
      BY <1>0 DEF RunState
    <3>2. Move(c, q)
      BY <2>2 DEF InspectAll
    <3> HIDE DEF q
    <3>3. KnowsTheRow(q, enabled, state)
      BY <1>0, <3>1, GoesOn DEF Handling
    <3>4. QED
      BY <3>2, <3>3
  <2>3. ASSUME NEW i \in Item, Take(c, i)
        PROVE  \E q : Move(c, q) /\ KnowsTheRow(q, enabled, state)
    <3> DEFINE q == [run[c] EXCEPT !.at = "store", !.item = i, !.todo = @ \ {i}]
    <3>1. /\ q.at = "store" /\ q.item = i /\ q.todo \subseteq run[c].todo
          /\ i \in run[c].todo /\ Move(c, q)
      BY <1>0, <2>3 DEF RunState, Take, Turn
    <3> HIDE DEF q
    <3>2. KnowsTheRow(q, enabled, state)
      BY <1>0, <3>1, GoesOn
    <3>3. QED
      BY <3>1, <3>2
  <2>4. ASSUME NEW i \in Item, InspectOne(c, i)
        PROVE  \E q : Move(c, q) /\ KnowsTheRow(q, enabled, state)
    <3> DEFINE q == [run[c] EXCEPT !.at = "store", !.item = i, !.todo = @ \ {i},
                                   !.checks[i] = world[i]]
    <3>1. /\ q.at = "store" /\ q.item = i /\ q.todo \subseteq run[c].todo
          /\ i \in run[c].todo /\ Move(c, q)
      BY <1>0, <2>4 DEF RunState, InspectOne, Turn
    <3> HIDE DEF q
    <3>2. KnowsTheRow(q, enabled, state)
      BY <1>0, <3>1, GoesOn
    <3>3. QED
      BY <3>1, <3>2
  <2>5. ASSUME NEW i \in Item, GiveUp(c, i)
        PROVE  \E q : Move(c, q) /\ KnowsTheRow(q, enabled, state)
    <3> DEFINE q == [run[c] EXCEPT !.todo = @ \ {i}, !.item = i, !.txn = FALSE,
                                   !.expired = @ \/ run[c].txn]
    <3>1. q.at = "next" /\ q.todo \subseteq run[c].todo /\ Move(c, q)
      BY <1>0, <2>5 DEF RunState, GiveUp, Turn
    <3> HIDE DEF q
    <3>2. KnowsTheRow(q, enabled, state)
      BY <1>0, <3>1, GoesOn DEF Handling
    <3>3. QED
      BY <3>1, <3>2
  <2>6. CASE Finish(c)
    <3>1. KnowsTheRow(Idle, enabled, state)
      BY DEF KnowsTheRow, Idle, Handling
    <3>2. QED
      BY <2>6, <3>1 DEF Finish
  <2>7. QED
    BY <2>1, <2>2, <2>3, <2>4, <2>5, <2>6, Zenon
<1>4. QED
    BY <1>1, <1>2, <1>3, SoleMoves

LEMMA SoleStores ==
    ASSUME IInv, SInv, SoleSession, NEW c \in Session, Store(c) \/ NotifyCommit(c)
    PROVE  SInv'
<1> DEFINE i == run[c].item
           q == [run[c] EXCEPT !.at = IF Store(c) THEN "notify" ELSE "next", !.txn = FALSE]
<1>0. /\ OthersOK /\ run[c] \in RunState /\ KnowsTheRow(run[c], enabled, state)
      /\ run[c].at \in Handling /\ i \in Item
    BY DEF IInv, SInv, Store, NotifyCommit, RunOK, Handling
<1>1. i[2] \in enabled[i[1]]
    BY <1>0 DEF KnowsTheRow
<1>2. /\ enabled' = enabled
      /\ \A j \in Item : j # i => result'[j] = result[j] /\ state'[j] = state[j]
    BY <1>0 DEF Store, NotifyCommit, OthersOK
<1>3. NothingLeftWhenOff'
    BY <1>1, <1>2 DEF SInv, NothingLeftWhenOff
<1>4. Move(c, q)
  <2>1. CASE Store(c)
    BY <2>1 DEF Store
  <2>2. CASE NotifyCommit(c)
    <3>1. ~Store(c)
      BY <2>2 DEF NotifyCommit, Store
    <3>2. QED
      BY <2>2, <3>1 DEF NotifyCommit
  <2>3. QED
    BY <2>1, <2>2
<1>5. /\ q.at \in {"notify", "next"} /\ q.todo = run[c].todo /\ q.item = i
    BY <1>0 DEF RunState
<1> HIDE DEF q
<1>6. KnowsTheRow(q, enabled, state')
    BY <1>0, <1>5, GoesOn DEF Handling
<1>7. QED
    BY <1>2, <1>3, <1>4, <1>6, SoleMoves

LEMMA SoleNotifies ==
    ASSUME IInv, SInv, SoleSession, NEW c \in Session,
           \/ NotifyBegin(c) \/ ReadState(c)
           \/ \E delivered, answered \in BOOLEAN : Send(c, delivered, answered)
    PROVE  SInv'
<1> DEFINE i == run[c].item
<1>0. /\ run[c] \in RunState /\ KnowsTheRow(run[c], enabled, state)
      /\ run[c].at \in Handling
    BY DEF IInv, SInv, NotifyBegin, ReadState, Send, Handling
<1>1. UNCHANGED <<enabled, result, state>>
    BY Zenon DEF NotifyBegin, ReadState, Send, table
<1>2. NothingLeftWhenOff'
    BY <1>1 DEF SInv, NothingLeftWhenOff
<1>3. PICK at, q :
        /\ Move(c, q) /\ q.at = at /\ at \in {"read", "next", "send", "commit"}
        /\ q.todo = run[c].todo /\ q.item = i /\ q.checks = run[c].checks
        /\ at = "send" => Message(state[i], run[c].checks[i])
  <2>1. CASE NotifyBegin(c)
    <3> DEFINE at == IF bot THEN "read" ELSE "next"
               q == [run[c] EXCEPT !.at = at, !.txn = TRUE]
    <3>1. /\ Move(c, q) /\ q.at = at /\ at \in {"read", "next"}
          /\ q.todo = run[c].todo /\ q.item = i /\ q.checks = run[c].checks
      BY <1>0, <2>1 DEF NotifyBegin, RunState
    <3> HIDE DEF at, q
    <3>2. QED
      BY <3>1
  <2>2. CASE ReadState(c)
    <3> DEFINE at == IF Message(state[i], run[c].checks[i]) THEN "send" ELSE "commit"
               q == [run[c] EXCEPT !.old = state[i], !.at = at]
    <3>1. /\ Move(c, q) /\ q.at = at /\ at \in {"send", "commit"}
          /\ q.todo = run[c].todo /\ q.item = i /\ q.checks = run[c].checks
          /\ at = "send" => Message(state[i], run[c].checks[i])
      BY <1>0, <2>2 DEF ReadState, RunState
    <3> HIDE DEF at, q
    <3>2. QED
      BY <3>1
  <2>3. ASSUME NEW delivered \in BOOLEAN, NEW answered \in BOOLEAN,
               Send(c, delivered, answered)
        PROVE  \E at, q :
                 /\ Move(c, q) /\ q.at = at /\ at \in {"read", "next", "send", "commit"}
                 /\ q.todo = run[c].todo /\ q.item = i /\ q.checks = run[c].checks
                 /\ at = "send" => Message(state[i], run[c].checks[i])
    <3> DEFINE at == IF answered THEN "commit" ELSE "next"
               q == [run[c] EXCEPT !.at = at]
    <3>1. /\ Move(c, q) /\ q.at = at /\ at \in {"next", "commit"}
          /\ q.todo = run[c].todo /\ q.item = i /\ q.checks = run[c].checks
      BY <1>0, <2>3 DEF Send, RunState
    <3> HIDE DEF at, q
    <3>2. QED
      BY <3>1
  <2>4. QED
    BY <2>1, <2>2, <2>3, Zenon
<1>4. q.at = "send" /\ q.checks[q.item] = "failure" => state'[q.item] # "failure"
    BY <1>1, <1>3 DEF Message
<1>5. KnowsTheRow(q, enabled, state')
    BY <1>0, <1>3, <1>4, GoesOn
<1>6. QED
    BY <1>1, <1>2, <1>3, <1>5, SoleMoves

LEMMA SoleStops ==
    ASSUME IInv, SInv, SoleSession, NEW c \in Session,
           Rejected(c) \/ StepFails(c) \/ ProcessEnds(c)
    PROVE  SInv'
<1> DEFINE on == [run[c] EXCEPT !.at = "next", !.txn = FALSE, !.expired = TRUE]
<1>0. run[c] \in RunState /\ KnowsTheRow(run[c], enabled, state)
    BY DEF IInv, SInv
<1>1. UNCHANGED <<enabled, result, state>>
    BY Zenon DEF Rejected, StepFails, ProcessEnds, table
<1>2. NothingLeftWhenOff'
    BY <1>1 DEF SInv, NothingLeftWhenOff
<1>3. Move(c, on) \/ Move(c, Idle)
    BY DEF Rejected, StepFails, ProcessEnds, Abort
<1>4. on.at = "next" /\ on.todo = run[c].todo
    BY <1>0 DEF RunState
<1>5. KnowsTheRow(on, enabled, state')
  <2> HIDE DEF on
  <2>1. QED
    BY <1>0, <1>4, GoesOn DEF Handling
<1>6. KnowsTheRow(Idle, enabled, state')
    BY DEF KnowsTheRow, Idle, Handling
<1> HIDE DEF on
<1>7. QED
    BY <1>1, <1>2, <1>3, <1>5, <1>6, SoleMoves

LEMMA SoleNext == ASSUME IInv, SInv, SoleSession, [Next]_vars PROVE SInv'
<1>1. ASSUME NEW c \in Session, Step(c) PROVE SInv'
    BY <1>1, SoleEditCommit, SoleBatch, SoleStores, SoleNotifies, SoleStops, Zenon DEF Step
<1>2. ASSUME NEW c \in Cron, CronBegin(c) PROVE SInv'
    BY <1>2, SoleBatch DEF Session
<1>3. CASE Next
    BY <1>1, <1>2, <1>3, SoleEnvironment, SoleRequest, Zenon DEF Next
<1>4. CASE UNCHANGED vars
    BY <1>4 DEF vars, table, SInv, NothingLeftWhenOff
<1>5. QED
    BY <1>3, <1>4

LEMMA SoleInductive == SoleSession => (Spec => []SInv)
<1> SUFFICES ASSUME SoleSession PROVE Spec => []SInv
    OBVIOUS
<1>1. Init => SInv
    BY InitSInv
<1>2. IInv /\ SInv /\ [Next]_vars => SInv'
    BY SoleNext
<1>3. QED
    BY <1>1, <1>2, Inductive, PTL DEF Spec

\* If a single session checks and edits, switching a route off leaves neither its result
\* nor its state behind (toggle_http_check, update_record), and no check adds one later.
THEOREM SoleSessionLeavesNothing == SoleSession => (Spec => []NothingLeftWhenOff)
<1> SUFFICES ASSUME SoleSession PROVE Spec => []NothingLeftWhenOff
    OBVIOUS
<1>1. SInv => NothingLeftWhenOff
    BY DEF SInv
<1>2. QED
    BY <1>1, SoleInductive, PTL

\* If a single session checks and edits, the direct route is on only along with the
\* regular one, although each handler writes only what differs from the row it loaded.
THEOREM SoleSessionDirectFollowsGet == SoleSession => (Spec => []DirectFollowsGet)
<1> SUFFICES ASSUME SoleSession PROVE Spec => []DirectFollowsGet
    OBVIOUS
<1>1. IInv /\ SInv => DirectFollowsGet
    BY DEF IInv, OthersOK, SInv, Switching, DirectFollowsGet
<1>2. QED
    BY <1>1, Inductive, SoleInductive, PTL

\* If a single session checks and edits, notify_http_result delivers no failure that is
\* recorded as announced already.
THEOREM SoleSessionDeduplicates == SoleSession => (Spec => AlertsAreDeduplicated)
<1> SUFFICES ASSUME SoleSession PROVE Spec => AlertsAreDeduplicated
    OBVIOUS
<1>1. SInv => \A c \in Session, answered \in BOOLEAN :
                Send(c, TRUE, answered) /\ run[c].checks[run[c].item] = "failure"
                  => state[run[c].item] # "failure"
    BY DEF Send, SInv, KnowsTheRow
<1>2. QED
    BY <1>1, SoleInductive, PTL DEF AlertsAreDeduplicated

-----------------------------------------------------------------------------
(* The refinement: a session that does everything implements the channel.  *)

Failing(q) == q.at = "send" /\ q.checks[q.item] = "failure"
InFlight ==
    {<<run[c].item, "failure">> : c \in
       {d \in Session : run[d].at = "send" /\ run[d].checks[run[d].item] = "failure"}}

LEMMA SoleInFlight ==
    ASSUME SoleSession, NEW c \in Session
    PROVE  /\ Failing(run[c]) => InFlight = {<<run[c].item, "failure">>}
           /\ ~Failing(run[c]) => InFlight = {}
           /\ Failing(run'[c]) => InFlight' = {<<run'[c].item, "failure">>}
           /\ ~Failing(run'[c]) => InFlight' = {}
BY DEF SoleSession, InFlight, Failing

LEMMA Stutters ==
    ASSUME UNCHANGED <<state, told>>, InFlight' = InFlight
    PROVE  UNCHANGED Channel!vars
BY DEF Channel!vars, InFlight

\* A transaction forgets states or records healthy ones and failures that were told.
LEMMA Records ==
    ASSUME IInv, IInv', told' = told, InFlight' = InFlight,
           \A i \in Item : state'[i] \notin {state[i], "none"} =>
             InFlight = {} /\ (state'[i] = "failure" => i \in told)
    PROVE  Channel!Record
<1>1. state' \in [Item -> Health \cup {"none"}]
    BY DEF IInv, OthersOK
<1>2. ASSUME NEW i \in Item
      PROVE  \/ state'[i] \in {state[i], "none"} \cup {"healthy"}
             \/ <<i, state'[i]>> \in told \X {"failure"}
    BY <1>1 DEF Health
<1>3. ASSUME NEW i \in Item, state'[i] # state[i] PROVE <<i, state'[i]>> \notin InFlight
  <2>1. CASE state'[i] = "none"
    BY <2>1 DEF InFlight
  <2>2. CASE InFlight = {}
    BY <2>2
  <2>3. QED
    BY <1>3, <2>1, <2>2
<1>4. QED
    BY <1>1, <1>2, <1>3 DEF Channel!Record, InFlight

LEMMA InitMaps == Init => Channel!Init
BY DEF Init, Idle, Channel!Init

\* Steps that touch neither states nor messages.
LEMMA QuietSteps ==
    ASSUME SoleSession, IInv, NEW c \in Session,
           \/ \E r \in Rec : ToggleStart(c, r) \/ FormStart(c, r)
           \/ CronBegin(c) \/ Finish(c) \/ NotifyBegin(c) \/ Store(c)
           \/ \E B \in SUBSET Item : InspectAll(c, B)
           \/ \E i \in Item : Take(c, i) \/ InspectOne(c, i) \/ GiveUp(c, i)
           \/ Rejected(c) \/ StepFails(c)
    PROVE  UNCHANGED Channel!vars
<1>1. run \in [Session -> RunState] /\ run[c] \in RunState
    BY DEF IInv
<1>2. UNCHANGED <<state, told>>
    BY Zenon DEF ToggleStart, FormStart, RequestStart, CronBegin, Finish, NotifyBegin, Store,
                 InspectAll, Take, InspectOne, GiveUp, Rejected, StepFails, table
<1>3. run[c].at # "send"
    BY DEF ToggleStart, FormStart, RequestStart, CronBegin, Finish, NotifyBegin, Store,
           InspectAll, Take, InspectOne, GiveUp, Turn, Rejected, StepFails
<1>4. run'[c].at # "send"
  <2>1. ASSUME NEW r \in Rec, ToggleStart(c, r) \/ FormStart(c, r) PROVE run'[c].at # "send"
    <3>1. PICK at, want : (at = "edit" \/ at = "form") /\ RequestStart(c, r, at, want)
      BY <2>1, Zenon DEF ToggleStart, FormStart
    <3>2. QED
      BY <1>1, <3>1 DEF RequestStart, Move, Idle
  <2>2. CASE CronBegin(c) \/ Finish(c) \/ NotifyBegin(c) \/ Store(c)
    <3>1. CASE CronBegin(c)
      BY <1>1, <3>1 DEF CronBegin, Move, Idle
    <3>2. CASE Finish(c)
      BY <1>1, <3>2 DEF Finish, Move, Idle
    <3>3. CASE NotifyBegin(c)
      BY <1>1, <3>3 DEF NotifyBegin, Move, RunState
    <3>4. CASE Store(c)
      BY <1>1, <3>4 DEF Store, Move, RunState
    <3>5. QED
      BY <2>2, <3>1, <3>2, <3>3, <3>4
  <2>3. ASSUME NEW B \in SUBSET Item, InspectAll(c, B) PROVE run'[c].at # "send"
    BY <1>1, <2>3 DEF InspectAll, Move, RunState
  <2>4. ASSUME NEW i \in Item, Take(c, i) \/ InspectOne(c, i) \/ GiveUp(c, i)
        PROVE  run'[c].at # "send"
    <3>1. CASE Take(c, i)
      BY <1>1, <3>1 DEF Take, Move, RunState
    <3>2. CASE InspectOne(c, i)
      BY <1>1, <3>2 DEF InspectOne, Move, RunState
    <3>3. CASE GiveUp(c, i)
      BY <1>1, <3>3 DEF GiveUp, Turn, Move, RunState
    <3>4. QED
      BY <2>4, <3>1, <3>2, <3>3
  <2>5. CASE Rejected(c) \/ StepFails(c)
    <3>1. Abort(c)
      BY <2>5 DEF Rejected, StepFails
    <3>2. CASE run[c].batch
      BY <1>1, <3>1, <3>2 DEF Abort, Move, RunState
    <3>3. CASE ~run[c].batch
      BY <1>1, <3>1, <3>3 DEF Abort, Move, Idle
    <3>4. QED
      BY <3>2, <3>3
  <2>6. QED
    BY <2>1, <2>2, <2>3, <2>4, <2>5, Zenon
<1>5. InFlight = {} /\ InFlight' = {}
    BY <1>3, <1>4, SoleInFlight DEF Failing
<1>6. QED
    BY <1>2, <1>5, Stutters

LEMMA ReadStateMaps ==
    ASSUME SoleSession, IInv, NEW c \in Session, ReadState(c)
    PROVE  UNCHANGED Channel!vars \/ \E i \in Item : Channel!Begin(i, "failure")
<1> DEFINE at == IF Message(state[run[c].item], run[c].checks[run[c].item])
                 THEN "send" ELSE "commit"
<1>1. /\ run \in [Session -> RunState] /\ run[c] \in RunState /\ run[c].item \in Item
      /\ run[c].at = "read" /\ UNCHANGED <<state, told>>
    BY DEF ReadState, IInv, RunOK, Handling, table
<1>2. run'[c].item = run[c].item /\ run'[c].checks = run[c].checks /\ run'[c].at = at
    BY <1>1 DEF ReadState, Move, RunState
<1>3. InFlight = {}
    BY <1>1, SoleInFlight DEF Failing
<1>4. CASE ~Failing(run'[c])
    BY <1>1, <1>3, <1>4, SoleInFlight, Stutters
<1>5. CASE Failing(run'[c])
  <2>1. PICK i \in Item : i = run[c].item
    BY <1>1
  <2>2. InFlight' = {<<i, "failure">>}
    BY <1>2, <1>5, <2>1, SoleInFlight
  <2>3. state[i] # "failure"
    BY <1>2, <1>5, <2>1 DEF Failing, Message
  <2>4. Channel!Begin(i, "failure")
    BY <1>1, <1>3, <2>2, <2>3 DEF Channel!Begin, InFlight
  <2>5. QED
    BY <2>4
<1>6. QED
    BY <1>4, <1>5

LEMMA SendMaps ==
    ASSUME SoleSession, IInv, SInv, NEW c \in Session,
           NEW delivered \in BOOLEAN, NEW answered \in BOOLEAN, Send(c, delivered, answered)
    PROVE  UNCHANGED Channel!vars \/ \E i \in Item : Channel!End(i, "failure", delivered)
<1>1. /\ run \in [Session -> RunState] /\ run[c] \in RunState /\ run[c].item \in Item
      /\ run[c].at = "send" /\ state' = state /\ KnowsTheRow(run[c], enabled, state)
    BY DEF Send, IInv, SInv, RunOK, Handling, table
<1>2. /\ run'[c].at # "send"
      /\ told' = IF delivered /\ run[c].checks[run[c].item] = "failure"
                 THEN told \cup {run[c].item} ELSE told
    BY <1>1 DEF Send, Move, RunState
<1>3. InFlight' = {}
    BY <1>2, SoleInFlight DEF Failing
<1>4. CASE ~Failing(run[c])
  <2>1. InFlight = {} /\ told' = told
    BY <1>1, <1>2, <1>4, SoleInFlight DEF Failing
  <2>2. QED
    BY <1>1, <1>3, <2>1, Stutters
<1>5. CASE Failing(run[c])
  <2>1. PICK i \in Item : i = run[c].item
    BY <1>1
  <2>2. InFlight = {<<i, "failure">>} /\ state[i] # "failure"
    BY <1>1, <1>5, <2>1, SoleInFlight DEF Failing, KnowsTheRow
  <2>3. told' = IF delivered THEN told \cup {i} ELSE told
    BY <1>2, <1>5, <2>1 DEF Failing
  <2>4. told' \X {"failure"} = IF delivered THEN (told \X {"failure"}) \cup {<<i, "failure">>}
                               ELSE told \X {"failure"}
    BY <2>3
  <2>5. Channel!End(i, "failure", delivered)
    BY <1>1, <1>3, <2>2, <2>4 DEF Channel!End, InFlight
  <2>6. QED
    BY <2>5
<1>6. QED
    BY <1>4, <1>5

LEMMA ProcessEndsMaps ==
    ASSUME SoleSession, IInv, NEW c \in Session, ProcessEnds(c)
    PROVE  UNCHANGED Channel!vars \/ \E i \in Item : Channel!End(i, "failure", FALSE)
<1>1. run \in [Session -> RunState] /\ Move(c, Idle) /\ UNCHANGED <<state, told>>
    BY DEF ProcessEnds, IInv, table
<1>2. InFlight' = {}
    BY <1>1, SoleInFlight DEF Failing, Move, Idle
<1>3. CASE ~Failing(run[c])
    BY <1>1, <1>2, <1>3, SoleInFlight, Stutters
<1>4. CASE Failing(run[c])
  <2>1. PICK i \in Item : i = run[c].item
    BY <1>4 DEF Failing, IInv, RunOK, Handling
  <2>2. Channel!End(i, "failure", FALSE)
    BY <1>1, <1>2, <1>4, <2>1, SoleInFlight DEF Channel!End, InFlight
  <2>3. QED
    BY <2>2
<1>5. QED
    BY <1>3, <1>4

LEMMA RecordSteps ==
    ASSUME SoleSession, IInv, IInv', NEW c \in Session, EditCommit(c) \/ NotifyCommit(c)
    PROVE  Channel!Record
<1>1. /\ run \in [Session -> RunState] /\ run[c] \in RunState /\ RunOK(run[c], told)
      /\ run[c].at # "send" /\ told' = told /\ OthersOK
    BY DEF EditCommit, NotifyCommit, IInv
<1>2. run'[c].at # "send"
  <2>1. CASE EditCommit(c)
    BY <1>1, <2>1 DEF EditCommit, Move, Idle
  <2>2. CASE NotifyCommit(c)
    BY <1>1, <2>2 DEF NotifyCommit, Move, RunState
  <2>3. QED
    BY <2>1, <2>2
<1>3. InFlight = {} /\ InFlight' = {}
    BY <1>1, <1>2, SoleInFlight DEF Failing
<1>4. ASSUME NEW i \in Item, state'[i] \notin {state[i], "none"}
      PROVE  state'[i] = "failure" => i \in told
  <2>1. CASE EditCommit(c)
    BY <1>1, <1>4, <2>1, ClearedOnlyForgets DEF EditCommit, OthersOK
  <2>2. CASE NotifyCommit(c)
    BY <1>1, <1>4, <2>2 DEF NotifyCommit, OthersOK, RunOK
  <2>3. QED
    BY <2>1, <2>2
<1>5. QED
    BY <1>1, <1>3, <1>4, Records

LEMMA EnvironmentMaps ==
    ASSUME IInv, IInv', Environment
    PROVE  Channel!Record
<1>1. told' = told /\ run' = run
    BY DEF Environment, EndpointChanges, RecordDeleted, BotSaved, BotRemoved
<1>2. \A i \in Item : state'[i] \in {state[i], "none"}
  <2>1. CASE UNCHANGED state
    BY <2>1
  <2>2. CASE \E r \in Rec : RecordDeleted(r)
    BY <2>2, ClearedOnlyForgets DEF RecordDeleted, IInv, OthersOK
  <2>3. CASE BotRemoved
    BY <2>3 DEF BotRemoved
  <2>4. QED
    BY <2>1, <2>2, <2>3 DEF Environment, EndpointChanges, BotSaved, table
<1>3. InFlight' = InFlight
    BY <1>1 DEF InFlight
<1>4. QED
    BY <1>1, <1>2, <1>3, Records

LEMMA StepMaps ==
    ASSUME SoleSession, IInv, IInv', SInv, [Next]_vars
    PROVE  [Channel!Next]_(Channel!vars)
<1>0. "failure" \in Health /\ FALSE \in BOOLEAN
    BY DEF Health
<1>1. CASE Environment
    BY <1>1, EnvironmentMaps DEF Channel!Next
<1>2. ASSUME NEW c \in Request, NEW r \in Rec, ToggleStart(c, r) \/ FormStart(c, r)
      PROVE  UNCHANGED Channel!vars
    BY <1>2, QuietSteps DEF Session
<1>3. ASSUME NEW c \in Cron, CronBegin(c) PROVE UNCHANGED Channel!vars
    BY <1>3, QuietSteps DEF Session
<1>4. ASSUME NEW c \in Session, Step(c) PROVE Channel!Next \/ UNCHANGED Channel!vars
  <2>1. CASE EditCommit(c) \/ NotifyCommit(c)
    BY <2>1, RecordSteps DEF Channel!Next
  <2>2. CASE ReadState(c)
    BY <1>0, <2>2, ReadStateMaps, Zenon DEF Channel!Next
  <2>3. ASSUME NEW delivered \in BOOLEAN, NEW answered \in BOOLEAN,
               Send(c, delivered, answered)
        PROVE  Channel!Next \/ UNCHANGED Channel!vars
    BY <1>0, <2>3, SendMaps, Zenon DEF Channel!Next
  <2>4. CASE ProcessEnds(c)
    BY <1>0, <2>4, ProcessEndsMaps, Zenon DEF Channel!Next
  <2>5. CASE \/ \E B \in SUBSET Item : InspectAll(c, B)
             \/ \E i \in Item : Take(c, i) \/ InspectOne(c, i) \/ GiveUp(c, i)
             \/ Finish(c) \/ NotifyBegin(c) \/ Store(c) \/ Rejected(c) \/ StepFails(c)
    BY <2>5, QuietSteps, Zenon
  <2>6. QED
    BY <1>4, <2>1, <2>2, <2>3, <2>4, <2>5, Zenon DEF Step
<1>5. CASE UNCHANGED vars
    BY <1>5 DEF vars, table, Channel!vars
<1>6. QED
    BY <1>1, <1>2, <1>3, <1>4, <1>5, Zenon DEF Next

\* If a single session checks and edits, it implements the channel: for all records and
\* bounds, whatever is lost, fails, is switched or forgotten.
THEOREM SoleSessionImplementsChannel == SoleSession => (Spec => ImplementsChannel)
<1> SUFFICES ASSUME SoleSession PROVE Spec => ImplementsChannel
    OBVIOUS
<1>1. IInv /\ IInv' /\ SInv /\ [Next]_vars => [Channel!Next]_(Channel!vars)
    BY StepMaps
<1>2. QED
    BY <1>1, InitMaps, Inductive, SoleInductive, PTL DEF Spec, ImplementsChannel, Channel!Spec

=============================================================================
