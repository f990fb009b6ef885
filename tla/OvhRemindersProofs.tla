-------------------------- MODULE OvhRemindersProofs --------------------------
(***************************************************************************)
(* Theorems about OvhReminders, for all services, facts, thresholds and    *)
(* bounds: type correctness, the window a reminder names, and, for         *)
(* synchronizations that do not overlap, the refinement of AlertChannel.   *)
(***************************************************************************)
EXTENDS OvhReminders, TLAPS

-----------------------------------------------------------------------------
(* Arithmetic: the quotient of an instant, and the days up to one.         *)

LEMMA ProductMonotonic ==
    ASSUME NEW a \in Int, NEW b \in Int, a <= b, NEW n \in Nat PROVE a * n <= b * n
<1>1. PICK d \in Nat : b = a + d
  <2>1. b - a \in Nat /\ b = a + (b - a)
    OBVIOUS
  <2>2. QED
    BY <2>1
<1>2. b * n = a * n + d * n
    BY <1>1
<1>3. d * n \in Nat /\ a * n \in Int
    BY <1>1
<1>4. QED
    BY <1>2, <1>3

\* The quotient q of x brackets it.
LEMMA Quotient ==
    ASSUME NEW x \in Int, NEW n \in Nat \ {0}
    PROVE  /\ x \div n \in Int
           /\ n * (x \div n) <= x /\ x < n * ((x \div n) + 1)
BY SMT

LEMMA DateIsAnInstant ==
    ASSUME NEW end \in Nat, NEW n \in Nat \ {0} PROVE end \div n \in 0..end
<1> DEFINE q == end \div n
<1>1. q \in Int /\ n * q <= end /\ end < n * (q + 1)
    BY Quotient
<1> HIDE DEF q
<1>2. q >= 0
  <2>1. SUFFICES ASSUME q + 1 <= 0 PROVE FALSE
    BY <1>1
  <2>2. (q + 1) * n <= 0 * n
    BY <1>1, <2>1, ProductMonotonic
  <2>3. n * (q + 1) = (q + 1) * n /\ 0 * n = 0
    BY <1>1
  <2>4. QED
    BY <1>1, <2>2, <2>3
<1>3. q <= end
  <2>1. q * 1 <= q * n
    BY <1>1, <1>2, ProductMonotonic
  <2>2. q * n = n * q /\ q * 1 = q
    BY <1>1
  <2>3. QED
    BY <1>1, <2>1, <2>2
<1>4. QED
    BY <1>1, <1>2, <1>3 DEF q

\* Rounding up: an end is within v days of an instant exactly if the days say so.
LEMMA DaysCount ==
    ASSUME NEW end \in Int, NEW at \in Int, NEW v \in Int, Day \in Nat \ {0}
    PROVE  Days(end, at) <= v <=> end - at <= v * Day
<1> DEFINE q == (at - end) \div Day
<1>1. q \in Int /\ Day * q <= at - end /\ at - end < Day * (q + 1)
    BY Quotient
<1>2. Days(end, at) = -q
    BY DEF Days
<1> HIDE DEF q
<1>3. Day * q = q * Day /\ Day * (q + 1) = (q + 1) * Day
    BY <1>1
<1>4. ASSUME -q <= v PROVE end - at <= v * Day
  <2>1. (-v) * Day <= q * Day
    BY <1>1, <1>4, ProductMonotonic
  <2>2. (-v) * Day = -(v * Day) /\ v * Day \in Int
    OBVIOUS
  <2>3. QED
    BY <1>1, <1>3, <2>1, <2>2
<1>5. ASSUME ~(-q <= v) PROVE ~(end - at <= v * Day)
  <2>1. (q + 1) * Day <= (-v) * Day
    BY <1>1, <1>5, ProductMonotonic
  <2>2. (-v) * Day = -(v * Day) /\ v * Day \in Int
    OBVIOUS
  <2>3. QED
    BY <1>1, <1>3, <2>1, <2>2
<1>6. QED
    BY <1>1, <1>2, <1>4, <1>5

-----------------------------------------------------------------------------
(* Rows and keys.                                                          *)

\* A stage is the tightest of the thresholds that have been reached.
LEMMA StageIsTightest ==
    ASSUME NEW days \in Int
    PROVE  LET reached == {v \in Thresholds : days <= v}
           IN  /\ reached = {} => Stage(days) = 0
               /\ reached # {} => /\ Stage(days) \in reached
                                  /\ \A w \in reached : Stage(days) <= w
<1> DEFINE reached == {v \in Thresholds : days <= v}
<1>1. CASE reached = {}
    BY <1>1 DEF Stage
<1>2. CASE reached # {}
  <2>1. \E v \in reached : \A w \in reached : v <= w
    BY <1>2, ThresholdsAssumption
  <2>2. Stage(days) = CHOOSE v \in reached : \A w \in reached : v <= w
    BY <1>2 DEF Stage
  <2> HIDE DEF reached
  <2>3. QED
    BY <1>2, <2>1, <2>2 DEF reached
<1>3. QED
    BY <1>1, <1>2

LEMMA EndsAtAnInstant == ASSUME NEW row \in Row PROVE EndsAt(row) \in Instant
BY DEF EndsAt, Row

LEMMA NoKeyIsNone == NoKey \notin Key
BY DEF NoKey, Key

LEMMA KeyTypes ==
    ASSUME NEW row \in Row, NEW at \in Nat
    PROVE  ReminderKey(row, at) \in Key \cup {NoKey}
<1> DEFINE end == EndsAt(row)
           stage == IF end = Never THEN 0 ELSE Stage(Days(end, at))
           date == IF end = Never THEN Never ELSE end \div Day
<1>1. end \in Instant /\ Day \in Nat \ {0} /\ Thresholds \subseteq Nat \ {0} /\ Latest \in Nat
    BY EndsAtAnInstant, ConstantsAssumption
<1>2. stage \in Thresholds \cup {0}
  <2>1. CASE end = Never
    BY <2>1
  <2>2. CASE end # Never
    <3>1. Days(end, at) \in Int
      BY <1>1, Quotient DEF Days, Instant, Never
    <3>2. Stage(Days(end, at)) \in Thresholds \cup {0}
      BY <3>1, StageIsTightest
    <3>3. QED
      BY <2>2, <3>2
  <2>3. QED
    BY <2>1, <2>2
<1>3. date \in Instant
  <2>1. CASE end = Never
    BY <2>1 DEF Instant
  <2>2. CASE end # Never
    <3>1. end \in 0..Latest
      BY <1>1, <2>2 DEF Instant
    <3>2. end \div Day \in 0..end
      BY <1>1, <3>1, DateIsAnInstant
    <3>3. QED
      BY <1>1, <2>2, <3>1, <3>2 DEF Instant
  <2>3. QED
    BY <2>1, <2>2
<1>4. ReminderKey(row, at) =
        IF row.cancelled THEN [kind |-> "cancellation", date |-> date, stage |-> stage]
        ELSE IF row.renew = "manual" /\ stage # 0
             THEN [kind |-> "expiry", date |-> date, stage |-> stage] ELSE NoKey
    BY DEF ReminderKey
<1> HIDE DEF end, stage, date
<1>5. \A kind \in {"cancellation", "expiry"} :
        [kind |-> kind, date |-> date, stage |-> stage] \in Key
    BY <1>2, <1>3 DEF Key
<1>6. QED
    BY <1>4, <1>5

LEMMA NormalizedTypes ==
    ASSUME NEW info \in Info, NEW billing \in Billing, NEW policy \in BOOLEAN
    PROVE  Normalized(info, billing, policy) \in Row
<1>1. /\ info.expires \in Instant /\ info.deletes \in BOOLEAN
      /\ billing.expires \in Instant /\ billing.deletes \in BOOLEAN
      /\ billing.ends \in Instant
    BY DEF Info, Billing
<1> DEFINE expires == IF info.expires # Never THEN info.expires ELSE billing.expires
           cancelled == policy \/ IF info.renew # "none" THEN info.deletes
                                                         ELSE billing.deletes
           told == IF info.renew # "none" THEN info.renew ELSE billing.renew
           mode == IF info.mode # "none" THEN info.mode ELSE billing.mode
           renew == IF told \in Decided THEN told
                    ELSE IF mode \in Decided THEN mode ELSE "unknown"
           ends == IF billing.ends # Never THEN billing.ends
                   ELSE IF cancelled THEN expires ELSE Never
<1>2. expires \in Instant /\ renew \in Renewal /\ cancelled \in BOOLEAN
    BY <1>1 DEF Decided, Renewal
<1>3. ends \in Instant
    BY <1>1, <1>2 DEF Instant
<1>4. Normalized(info, billing, policy) =
        [expires |-> expires, renew |-> renew, cancelled |-> cancelled, ends |-> ends]
    BY DEF Normalized
<1> HIDE DEF expires, renew, told, mode, cancelled, ends
<1>5. QED
    BY <1>2, <1>3, <1>4 DEF Row

LEMMA BlankIsTyped ==
    /\ Blank \in Row /\ NoInfo \in Info /\ NoBilling \in Billing
    /\ NothingRead \in [Id -> Row] /\ NothingWritten \in [Id -> Key \cup {NoKey}]
<1>1. Never \in Instant /\ "unknown" \in Renewal
    BY DEF Instant, Renewal
<1>2. Blank \in Row /\ NoInfo \in Info /\ NoBilling \in Billing
    BY <1>1 DEF Blank, Row, NoInfo, Info, NoBilling, Billing, Answer
<1>3. QED
    BY <1>2 DEF NothingRead, NothingWritten

LEMMA IdleIsTyped == Idle \in RunState
BY BlankIsTyped DEF Idle, RunState

-----------------------------------------------------------------------------
(* The inductive invariant: types, and what a run holds.                   *)

\* A reminder that is being sent has a key; a reminder that will be written was heard.
RunOK(r, told) ==
    /\ r.at = "send" => r.id \in Id /\ ReminderKey(r.got[r.id], r.clock) \in Key
    /\ \A i \in Id : r.writes[i] # NoKey => <<i, r.writes[i]>> \in told

OthersOK ==
    /\ now \in 0..Horizon
    /\ remote \in [Service -> Fact] /\ listed \in SUBSET Service
    /\ rows \in SUBSET Id /\ state \in [Id -> Key \cup {NoKey}]
    /\ bot \in BOOLEAN
    /\ changes \in 0..MaxChanges /\ faults \in 0..MaxFaults
    /\ heard \in SUBSET (Id \X Key) /\ settled \in SUBSET (Id \X Key \X Row)

IInv ==
    /\ OthersOK
    /\ run \in [Session -> RunState]
    /\ \A c \in Session : RunOK(run[c], heard)

LEMMA IInvImpliesTypeOK == IInv => TypeOK
BY DEF IInv, OthersOK, RunOK, TypeOK, Due

LEMMA IdleIsOK == ASSUME NEW told PROVE RunOK(Idle, told)
BY DEF RunOK, Idle, NothingWritten

\* What one session does to its run, while the history of messages only grows.
LEMMA Moves ==
    ASSUME run \in [Session -> RunState], \A d \in Session : RunOK(run[d], heard),
           heard \subseteq heard', NEW c \in Session, NEW r, Move(c, r),
           r \in RunState, RunOK(r, heard')
    PROVE  /\ run' \in [Session -> RunState]
           /\ \A d \in Session : RunOK(run'[d], heard')
<1>1. run' = [run EXCEPT ![c] = r]
    BY DEF Move
<1>2. run' \in [Session -> RunState]
    BY <1>1
<1>3. ASSUME NEW d \in Session PROVE RunOK(run'[d], heard')
  <2>1. CASE d = c
    BY <1>1, <2>1
  <2>2. CASE d # c
    <3>1. run'[d] = run[d]
      BY <1>1, <2>2
    <3>2. QED
      BY <3>1 DEF RunOK
  <2>3. QED
    BY <2>1, <2>2
<1>4. QED
    BY <1>2, <1>3

LEMMA Counted ==
    /\ ConstantsAssumption
    /\ OthersOK /\ Change => changes' \in 0..MaxChanges
    /\ OthersOK /\ Fault => faults' \in 0..MaxFaults
    /\ OthersOK /\ UNCHANGED faults => faults' \in 0..MaxFaults
BY ConstantsAssumption DEF ConstantsAssumption, OthersOK, Change, Fault

LEMMA InitIInv == Init => IInv
<1> SUFFICES ASSUME Init PROVE IInv
    OBVIOUS
<1>1. OthersOK
    BY ConstantsAssumption, BlankIsTyped DEF Init, OthersOK, ConstantsAssumption
<1>2. run = [c \in Session |-> Idle]
    BY DEF Init
<1>3. QED
    BY <1>1, <1>2, IdleIsTyped, IdleIsOK DEF IInv

LEMMA EnvironmentKeeps == ASSUME IInv, Environment PROVE IInv'
<1>1. run' = run /\ heard' = heard
    BY DEF Environment, Tick, BotSaved, BotRemoved, ListingChanges, FactsChange, history
<1>2. OthersOK'
  <2>1. CASE Tick
    BY <2>1, ConstantsAssumption DEF IInv, OthersOK, Tick, history, ConstantsAssumption
  <2>2. CASE BotSaved
    BY <2>2, Counted DEF IInv, OthersOK, BotSaved, history
  <2>3. CASE BotRemoved
    BY <2>3, Counted, BlankIsTyped DEF IInv, OthersOK, BotRemoved
  <2>4. ASSUME NEW s \in Service, ListingChanges(s) PROVE OthersOK'
    BY <2>4, Counted DEF IInv, OthersOK, ListingChanges, history
  <2>5. ASSUME NEW s \in Service, NEW f \in Fact, FactsChange(s, f) PROVE OthersOK'
    BY <2>5, Counted DEF IInv, OthersOK, FactsChange, history
  <2>6. QED
    BY <2>1, <2>2, <2>3, <2>4, <2>5 DEF Environment
<1>3. QED
    BY <1>1, <1>2 DEF IInv

LEMMA ListKeeps ==
    ASSUME IInv, NEW c \in Session, NEW joined \in SUBSET Server, NEW alone \in SUBSET Server,
           NEW informed \in SUBSET Id, List(c, joined, alone, informed)
    PROVE  IInv'
<1> DEFINE ids == (listed \X {"service"}) \cup (alone \X {"dedicated"})
           Got(i) == LET info == IF i \in informed THEN remote[i[1]].info ELSE NoInfo
                     IN  IF i[2] = "service"
                         THEN Normalized(info, remote[i[1]].billing, remote[i[1]].policy)
                         ELSE Normalized(info, NoBilling, FALSE)
           got == [i \in Id |-> IF i \in ids THEN Got(i) ELSE Blank]
           r == [Idle EXCEPT !.at = "store", !.ids = ids, !.got = got]
<1>1. ids \in SUBSET Id
    BY DEF IInv, OthersOK, Id
<1>2. ASSUME NEW i \in Id PROVE Got(i) \in Row
  <2>1. i[1] \in Service
    BY ConstantsAssumption DEF Id, ConstantsAssumption
  <2>2. remote[i[1]] \in Fact
    BY <2>1 DEF IInv, OthersOK
  <2>3. /\ remote[i[1]].info \in Info /\ remote[i[1]].billing \in Billing
        /\ remote[i[1]].policy \in BOOLEAN
    BY <2>2, ConstantsAssumption DEF ConstantsAssumption
  <2>4. QED
    BY <2>3, NormalizedTypes, BlankIsTyped
<1>3. got \in [Id -> Row]
    BY <1>2, BlankIsTyped
<1>4. Move(c, r) /\ UNCHANGED <<world, rows, state, history>> /\ faults' \in 0..MaxFaults
    BY Counted DEF List, IInv
<1>5. r \in RunState /\ r.at = "store" /\ r.writes = NothingWritten
  <2> HIDE DEF ids, got
  <2>1. QED
    BY <1>1, <1>3, IdleIsTyped DEF RunState, Idle
<1> HIDE DEF r
<1>6. RunOK(r, heard')
    BY <1>5 DEF RunOK, NothingWritten
<1>7. OthersOK'
    BY <1>4 DEF IInv, OthersOK, world, history
<1>8. QED
    BY <1>4, <1>5, <1>6, <1>7, Moves DEF IInv, history

LEMMA StoreKeeps == ASSUME IInv, NEW c \in Session, Store(c) PROVE IInv'
<1> DEFINE r == [run[c] EXCEPT !.at = "notify"]
<1>1. run[c] \in RunState /\ RunOK(run[c], heard) /\ heard' = heard
    BY DEF IInv, Store
<1>2. Move(c, r) /\ r \in RunState /\ r.at = "notify" /\ r.writes = run[c].writes
    BY <1>1 DEF Store, RunState
<1>3. run[c].ids \in SUBSET Id
    BY <1>1 DEF RunState
<1>4. OthersOK'
    BY <1>3, Counted DEF IInv, OthersOK, Store, world
<1> HIDE DEF r
<1>5. RunOK(r, heard')
    BY <1>1, <1>2 DEF RunOK
<1>6. QED
    BY <1>1, <1>2, <1>4, <1>5, Moves DEF IInv

LEMMA NotifyBeginKeeps == ASSUME IInv, NEW c \in Session, NotifyBegin(c) PROVE IInv'
<1> DEFINE r == [run[c] EXCEPT !.at = "next", !.todo = run[c].ids, !.clock = now]
<1>1. run[c] \in RunState /\ RunOK(run[c], heard) /\ heard' = heard /\ now \in Nat
    BY ConstantsAssumption DEF IInv, OthersOK, NotifyBegin, history, ConstantsAssumption
<1>2. r \in RunState /\ r.at = "next" /\ r.writes = run[c].writes
    BY <1>1 DEF RunState
<1>3. Move(c, r) \/ Move(c, Idle)
    BY DEF NotifyBegin
<1>4. OthersOK'
    BY DEF IInv, OthersOK, NotifyBegin, world, history
<1> HIDE DEF r
<1>5. RunOK(r, heard')
    BY <1>1, <1>2 DEF RunOK
<1>6. QED
    BY <1>1, <1>2, <1>3, <1>4, <1>5, IdleIsTyped, IdleIsOK, Moves DEF IInv

LEMMA NotifyReadKeeps ==
    ASSUME IInv, NEW c \in Session, NEW i \in Id, NotifyRead(c, i) PROVE IInv'
<1> DEFINE r == [run[c] EXCEPT !.todo = @ \ {i}]
           drops == IF state[i] = NoKey THEN r.drops ELSE r.drops \cup {i}
           p == [r EXCEPT !.drops = drops]
           q == [r EXCEPT !.at = "send", !.id = i, !.old = state[i]]
<1>1. /\ run[c] \in RunState /\ RunOK(run[c], heard) /\ heard' = heard
      /\ run[c].at = "next" /\ state[i] \in Key \cup {NoKey}
    BY DEF IInv, OthersOK, NotifyRead, history
<1>2. run[c].got[i] \in Row /\ run[c].clock \in Nat
    BY <1>1 DEF RunState
<1>3. Due(c, i) \in Key \cup {NoKey}
    BY <1>2, KeyTypes DEF Due
<1>4. r \in RunState /\ r.at = "next" /\ r.writes = run[c].writes
    BY <1>1 DEF RunState
<1>5. p \in RunState /\ p.at = "next" /\ p.writes = run[c].writes
    BY <1>1 DEF RunState
<1>6. /\ q \in RunState /\ q.id = i /\ q.got = run[c].got
      /\ q.clock = run[c].clock /\ q.writes = run[c].writes
    BY <1>1 DEF RunState
<1>7. Move(c, r) \/ Move(c, p) \/ (Due(c, i) # NoKey /\ Move(c, q))
    BY DEF NotifyRead
<1>8. OthersOK'
    BY DEF IInv, OthersOK, NotifyRead, world, history
<1> HIDE DEF r, p, q
<1>9. RunOK(r, heard') /\ RunOK(p, heard')
    BY <1>1, <1>4, <1>5 DEF RunOK
<1>10. Due(c, i) # NoKey => RunOK(q, heard')
    BY <1>1, <1>3, <1>6 DEF RunOK, Due
<1>11. QED
    BY <1>1, <1>4, <1>5, <1>6, <1>7, <1>8, <1>9, <1>10, Moves DEF IInv

LEMMA SendKeeps ==
    ASSUME IInv, NEW c \in Session, NEW delivered \in BOOLEAN, NEW answered \in BOOLEAN,
           Send(c, delivered, answered)
    PROVE  IInv'
<1> DEFINE i == run[c].id
           key == Due(c, i)
           inserts == IF run[c].old = NoKey THEN run[c].inserts \cup {i} ELSE run[c].inserts
           r == [run[c] EXCEPT !.at = "next", !.id = "none", !.old = NoKey]
           q == [r EXCEPT !.writes[i] = key, !.inserts = inserts]
<1>1. /\ run[c] \in RunState /\ RunOK(run[c], heard) /\ i \in Id /\ key \in Key
    BY DEF IInv, Send, RunOK, Due
<1>2. r \in RunState /\ r.at = "next" /\ r.writes = run[c].writes
    BY <1>1 DEF RunState
<1>3. /\ q \in RunState /\ q.at = "next"
      /\ q.writes = [run[c].writes EXCEPT ![i] = key]
  <2>1. inserts \in SUBSET Id /\ run[c].writes \in [Id -> Key \cup {NoKey}]
    BY <1>1 DEF RunState
  <2> HIDE DEF i, key, inserts
  <2>2. q.at = "next" /\ q.writes = [run[c].writes EXCEPT ![i] = key]
    BY <1>1 DEF RunState
  <2>3. q \in RunState
    BY <1>1, <2>1 DEF RunState
  <2>4. QED
    BY <2>2, <2>3
<1>4. \/ ~answered /\ Move(c, r)
      \/ answered /\ Move(c, q) /\ <<i, key>> \in heard'
  <2>1. CASE ~answered
    BY <2>1 DEF Send
  <2>2. CASE answered
    <3>1. heard' = heard \cup {<<i, key>>}
      BY <2>2 DEF Send
    <3>2. Move(c, q)
      BY <2>2 DEF Send
    <3>3. QED
      BY <2>2, <3>1, <3>2
  <2>3. QED
    BY <2>1, <2>2
<1>5. heard \subseteq heard' /\ heard' \in SUBSET (Id \X Key)
      /\ settled' \in SUBSET (Id \X Key \X Row)
    BY <1>1 DEF Send, IInv, OthersOK, RunState
<1>6. OthersOK'
    BY <1>5, Counted DEF IInv, OthersOK, Send, world
<1>7. RunOK(r, heard')
  <2> HIDE DEF r
  <2>1. QED
    BY <1>1, <1>2, <1>5 DEF RunOK
<1>8. <<i, key>> \in heard' => RunOK(q, heard')
  <2>1. run[c].writes \in [Id -> Key \cup {NoKey}]
    BY <1>1 DEF RunState
  <2> HIDE DEF q, key, i
  <2>2. QED
    BY <1>1, <1>3, <1>5, <2>1 DEF RunOK
<1> HIDE DEF r, q
<1>9. QED
    BY <1>2, <1>3, <1>4, <1>5, <1>6, <1>7, <1>8, Moves DEF IInv

LEMMA NotifyCommitKeeps == ASSUME IInv, NEW c \in Session, NotifyCommit(c) PROVE IInv'
<1>1. run[c].writes \in [Id -> Key \cup {NoKey}] /\ heard' = heard /\ Move(c, Idle)
    BY DEF IInv, RunState, NotifyCommit, history
<1>2. state' \in [Id -> Key \cup {NoKey}]
    BY <1>1 DEF IInv, OthersOK, NotifyCommit
<1>3. OthersOK'
    BY <1>2 DEF IInv, OthersOK, NotifyCommit, world, history
<1>4. QED
    BY <1>1, <1>3, IdleIsTyped, IdleIsOK, Moves DEF IInv

LEMMA RunFailsKeeps == ASSUME IInv, NEW c \in Session, RunFails(c) PROVE IInv'
<1>1. heard' = heard /\ Move(c, Idle)
    BY DEF RunFails
<1>2. OthersOK'
    BY Counted DEF IInv, OthersOK, RunFails, world
<1>3. QED
    BY <1>1, <1>2, IdleIsTyped, IdleIsOK, Moves DEF IInv

LEMMA NextKeeps == ASSUME IInv, [Next]_vars PROVE IInv'
<1>1. ASSUME NEW c \in Session, Sync(c) PROVE IInv'
    BY <1>1, ListKeeps DEF Sync
<1>2. ASSUME NEW c \in Session, Step(c) PROVE IInv'
    BY <1>2, StoreKeeps, NotifyBeginKeeps, NotifyReadKeeps, SendKeeps, NotifyCommitKeeps,
       RunFailsKeeps, Zenon DEF Step
<1>3. CASE UNCHANGED vars
    BY <1>3 DEF vars, world, history, IInv, OthersOK
<1>4. QED
    BY <1>1, <1>2, <1>3, EnvironmentKeeps, Zenon DEF Next

LEMMA Inductive == Spec => []IInv
BY InitIInv, NextKeeps, PTL DEF Spec

\* Whatever the facts, thresholds and bounds, all variables keep their types: in
\* particular no run sends a message about a service that needs none.
THEOREM TypeCorrect == Spec => []TypeOK
BY Inductive, IInvImpliesTypeOK, PTL

\* Counting days up and taking the first threshold that is reached
\* (ovh_notification_threshold) always names the tightest documented window, at every
\* boundary of every window.
THEOREM RemindersNameTheirWindow == Spec => []RemindsOfTightestWindow
<1>1. ASSUME IInv, NEW c \in Session, run[c].at = "send",
             NEW end, end = EndsAt(run[c].got[run[c].id]), NEW key, key = Due(c, run[c].id),
             NEW windows, windows = IF end = Never THEN {} ELSE Windows(end, run[c].clock)
      PROVE  IF windows = {} THEN key.kind = "cancellation" /\ key.stage = 0
             ELSE key.stage \in windows /\ \A w \in windows : key.stage <= w
  <2> DEFINE row == run[c].got[run[c].id]
             at == run[c].clock
             days == Days(end, at)
             reached == {v \in Thresholds : days <= v}
             stage == IF end = Never THEN 0 ELSE Stage(days)
             date == IF end = Never THEN Never ELSE end \div Day
  <2>1. row \in Row /\ at \in Nat /\ key \in Key
    BY <1>1 DEF IInv, RunOK, RunState, Due
  <2>2. end \in Instant /\ Day \in Nat \ {0} /\ Thresholds \subseteq Nat \ {0} /\ Latest \in Nat
    BY <1>1, <2>1, EndsAtAnInstant, ConstantsAssumption
  <2>3. key # NoKey
    BY <2>1, NoKeyIsNone
  <2>4. key = IF row.cancelled THEN [kind |-> "cancellation", date |-> date, stage |-> stage]
              ELSE IF row.renew = "manual" /\ stage # 0
                   THEN [kind |-> "expiry", date |-> date, stage |-> stage] ELSE NoKey
    BY <1>1 DEF Due, ReminderKey
  <2>5. key.stage = stage /\ (stage = 0 => key.kind = "cancellation")
    <3> HIDE DEF stage, date, row
    <3>1. QED
      BY <2>3, <2>4
  <2>6. CASE end = Never
    BY <1>1, <2>5, <2>6
  <2>7. CASE end # Never
    <3>1. end \in Int /\ at \in Int /\ days \in Int
      BY <2>1, <2>2, <2>7, Quotient DEF Days, Instant
    <3>2. \A v \in Thresholds : days <= v <=> end - at <= v * Day
      BY <2>2, <3>1, DaysCount
    <3>3. windows = {v \in Thresholds : end - at <= v * Day}
      BY <1>1, <2>7 DEF Windows
    <3>4. reached = windows
      BY <3>2, <3>3
    <3>5. /\ reached = {} => stage = 0
          /\ reached # {} => stage \in reached /\ \A w \in reached : stage <= w
      BY <2>7, <3>1, StageIsTightest
    <3> HIDE DEF reached, stage
    <3>6. QED
      BY <2>5, <3>4, <3>5
  <2>8. QED
    BY <2>6, <2>7
<1>2. IInv => RemindsOfTightestWindow
    BY <1>1 DEF RemindsOfTightestWindow
<1>3. QED
    BY <1>2, Inductive, PTL

-----------------------------------------------------------------------------
(* The refinement: synchronizations that do not overlap implement the      *)
(* channel.                                                                *)

SoleSession == \A c, d \in Session : c = d

InFlight ==
    {<<run[c].id, Due(c, run[c].id)>> : c \in {d \in Session : run[d].at = "send"}}

\* What is being sent is not recorded.
Unrecorded ==
    \A c \in Session : run[c].at = "send" =>
      state[run[c].id] # ReminderKey(run[c].got[run[c].id], run[c].clock)

LEMMA SoleInFlight ==
    ASSUME SoleSession, NEW c \in Session
    PROVE  /\ run[c].at = "send" => InFlight = {<<run[c].id, Due(c, run[c].id)>>}
           /\ run[c].at # "send" => InFlight = {}
           /\ run'[c].at = "send" => InFlight' = {<<run'[c].id, Due(c, run[c].id)'>>}
           /\ run'[c].at # "send" => InFlight' = {}
BY DEF SoleSession, InFlight, Due

LEMMA Stutters ==
    ASSUME UNCHANGED <<state, heard>>, InFlight' = InFlight
    PROVE  UNCHANGED Channel!vars
BY DEF Channel!vars, InFlight

\* Steps after which nothing is being sent.
LEMMA NothingSent ==
    ASSUME IInv, NEW c \in Session,
           \/ Sync(c) \/ Store(c) \/ NotifyBegin(c) \/ NotifyCommit(c) \/ RunFails(c)
           \/ \E delivered, answered \in BOOLEAN : Send(c, delivered, answered)
    PROVE  run'[c].at # "send"
<1>1. run \in [Session -> RunState] /\ run[c] \in RunState
    BY DEF IInv
<1>2. CASE Sync(c)
  <2>1. PICK ids, got : Move(c, [Idle EXCEPT !.at = "store", !.ids = ids, !.got = got])
    BY <1>2, Zenon DEF Sync, List
  <2>2. QED
    BY <1>1, <2>1 DEF Move, Idle
<1>3. CASE Store(c)
    BY <1>1, <1>3 DEF Store, Move, RunState
<1>4. CASE NotifyBegin(c)
    BY <1>1, <1>4 DEF NotifyBegin, Move, RunState, Idle
<1>5. CASE NotifyCommit(c) \/ RunFails(c)
    BY <1>1, <1>5 DEF NotifyCommit, RunFails, Move, Idle
<1>6. ASSUME NEW delivered \in BOOLEAN, NEW answered \in BOOLEAN, Send(c, delivered, answered)
      PROVE  run'[c].at # "send"
    BY <1>1, <1>6 DEF Send, Move, RunState
<1>7. QED
    BY <1>2, <1>3, <1>4, <1>5, <1>6, Zenon

\* What reading one service's reminder does to the run.
LEMMA Reads ==
    ASSUME IInv, NEW c \in Session, NEW i \in Id, NotifyRead(c, i)
    PROVE  /\ run[c].at = "next" /\ UNCHANGED <<state, heard>>
           /\ \/ run'[c].at # "send"
              \/ /\ run'[c].id = i /\ run'[c].got = run[c].got
                 /\ run'[c].clock = run[c].clock
                 /\ state[i] # Due(c, i) /\ Due(c, i) \in Key
<1> DEFINE r == [run[c] EXCEPT !.todo = @ \ {i}]
           drops == IF state[i] = NoKey THEN r.drops ELSE r.drops \cup {i}
           p == [r EXCEPT !.drops = drops]
           q == [r EXCEPT !.at = "send", !.id = i, !.old = state[i]]
<1>1. run \in [Session -> RunState] /\ run[c] \in RunState /\ run[c].at = "next"
    BY DEF IInv, NotifyRead
<1>2. r.at = "next" /\ p.at = "next"
    BY <1>1 DEF RunState
<1>3. q.id = i /\ q.got = run[c].got /\ q.clock = run[c].clock
    BY <1>1 DEF RunState
<1>4. run[c].got[i] \in Row /\ run[c].clock \in Nat
    BY <1>1 DEF RunState
<1>5. Due(c, i) \in Key \cup {NoKey}
    BY <1>4, KeyTypes DEF Due
<1>6. Move(c, r) \/ Move(c, p) \/ (Due(c, i) # NoKey /\ state[i] # Due(c, i) /\ Move(c, q))
    BY DEF NotifyRead
<1>7. UNCHANGED <<state, heard>>
    BY DEF NotifyRead, history
<1> HIDE DEF r, p, q
<1>8. ASSUME NEW x, Move(c, x) PROVE run'[c] = x
    BY <1>1, <1>8 DEF Move
<1>9. QED
    BY <1>1, <1>2, <1>3, <1>5, <1>6, <1>7, <1>8

LEMMA UnrecordedNext ==
    ASSUME SoleSession, IInv, Unrecorded, [Next]_vars PROVE Unrecorded'
<1>1. CASE Environment
  <2>1. run' = run /\ \A i \in Id : state'[i] \in {state[i], NoKey}
    BY <1>1 DEF Environment, Tick, BotSaved, BotRemoved, ListingChanges, FactsChange,
                NothingWritten, IInv, OthersOK
  <2>2. QED
    BY <2>1, NoKeyIsNone DEF Unrecorded, IInv, RunOK
<1>2. ASSUME NEW c \in Session, run'[c].at # "send" PROVE Unrecorded'
    BY <1>2 DEF Unrecorded, SoleSession
<1>3. ASSUME NEW c \in Session, NEW i \in Id, NotifyRead(c, i) PROVE Unrecorded'
    BY <1>3, Reads DEF Unrecorded, SoleSession, Due
<1>4. ASSUME NEW c \in Session, Sync(c) \/ Step(c) PROVE Unrecorded'
    BY <1>2, <1>3, <1>4, NothingSent, Zenon DEF Step
<1>5. CASE UNCHANGED vars
    BY <1>5 DEF vars, Unrecorded
<1>6. QED
    BY <1>1, <1>4, <1>5, Zenon DEF Next

LEMMA SoleInductive == SoleSession => (Spec => []Unrecorded)
<1> SUFFICES ASSUME SoleSession PROVE Spec => []Unrecorded
    OBVIOUS
<1>1. Init => Unrecorded
    BY DEF Init, Unrecorded, Idle
<1>2. IInv /\ Unrecorded /\ [Next]_vars => Unrecorded'
    BY UnrecordedNext
<1>3. QED
    BY <1>1, <1>2, Inductive, PTL DEF Spec

\* A transaction that forgets reminders or records those that were heard.
LEMMA Records ==
    ASSUME IInv, IInv', heard' = heard, InFlight' = InFlight,
           \A i \in Id : state'[i] \notin {state[i], NoKey} =>
             InFlight = {} /\ <<i, state'[i]>> \in heard
    PROVE  Channel!Record
<1>1. state' \in [Id -> Key \cup {NoKey}]
    BY DEF IInv, OthersOK
<1>2. ASSUME NEW i \in Id
      PROVE  state'[i] \in {state[i], NoKey} \cup {} \/ <<i, state'[i]>> \in heard
    OBVIOUS
<1>3. InFlight \subseteq Id \X Key
    BY DEF InFlight, IInv, RunOK, Due
<1>4. ASSUME NEW i \in Id, state'[i] # state[i] PROVE <<i, state'[i]>> \notin InFlight
  <2>1. CASE state'[i] = NoKey
    BY <1>3, <2>1, NoKeyIsNone
  <2>2. CASE state'[i] # NoKey
    BY <1>4, <2>2
  <2>3. QED
    BY <2>1, <2>2
<1>5. QED
    BY <1>1, <1>2, <1>4 DEF Channel!Record, InFlight

LEMMA InitMaps == Init => Channel!Init
BY DEF Init, Idle, NothingWritten, Channel!Init

LEMMA EnvironmentMaps ==
    ASSUME IInv, IInv', Environment PROVE Channel!Record
<1>1. heard' = heard /\ run' = run
    BY DEF Environment, Tick, BotSaved, BotRemoved, ListingChanges, FactsChange, history
<1>2. \A i \in Id : state'[i] \in {state[i], NoKey}
    BY DEF Environment, Tick, BotSaved, BotRemoved, ListingChanges, FactsChange, NothingWritten
<1>3. InFlight' = InFlight
    BY <1>1 DEF InFlight, Due
<1>4. QED
    BY <1>1, <1>2, <1>3, Records

LEMMA QuietSteps ==
    ASSUME SoleSession, IInv, NEW c \in Session, Sync(c) \/ NotifyBegin(c)
    PROVE  UNCHANGED Channel!vars
<1>1. run[c].at # "send" /\ UNCHANGED <<state, heard>>
    BY DEF Sync, List, NotifyBegin, history
<1>2. run'[c].at # "send"
    BY NothingSent
<1>3. QED
    BY <1>1, <1>2, SoleInFlight, Stutters

LEMMA RecordSteps ==
    ASSUME SoleSession, IInv, IInv', NEW c \in Session, Store(c) \/ NotifyCommit(c)
    PROVE  Channel!Record
<1>1. run[c].at # "send" /\ heard' = heard
    BY DEF Store, NotifyCommit, history
<1>2. run'[c].at # "send"
    BY NothingSent
<1>3. InFlight = {} /\ InFlight' = {}
    BY <1>1, <1>2, SoleInFlight
<1>4. ASSUME NEW i \in Id, state'[i] \notin {state[i], NoKey} PROVE <<i, state'[i]>> \in heard
  <2>1. CASE Store(c)
    BY <1>4, <2>1 DEF Store
  <2>2. CASE NotifyCommit(c)
    BY <1>4, <2>2 DEF NotifyCommit, Writes, IInv, RunOK
  <2>3. QED
    BY <2>1, <2>2
<1>5. QED
    BY <1>1, <1>3, <1>4, Records

LEMMA ReadMaps ==
    ASSUME SoleSession, IInv, NEW c \in Session, NEW i \in Id, NotifyRead(c, i)
    PROVE  UNCHANGED Channel!vars \/ \E k \in Key : Channel!Begin(i, k)
<1>1. run[c].at = "next" /\ UNCHANGED <<state, heard>>
    BY Reads
<1>2. InFlight = {}
    BY <1>1, SoleInFlight
<1>3. CASE run'[c].at # "send"
    BY <1>1, <1>2, <1>3, SoleInFlight, Stutters
<1>4. CASE run'[c].at = "send"
  <2>1. /\ run'[c].id = i /\ state[i] # Due(c, i)
        /\ Due(c, run[c].id)' = Due(c, i) /\ Due(c, i) \in Key
    BY <1>4, Reads DEF Due
  <2>2. PICK k \in Key : k = Due(c, i)
    BY <2>1
  <2>3. InFlight' = {<<i, k>>} /\ state[i] # k
    BY <1>4, <2>1, <2>2, SoleInFlight
  <2>4. Channel!Begin(i, k)
    BY <1>1, <1>2, <2>3 DEF Channel!Begin, InFlight
  <2>5. QED
    BY <2>4
<1>5. QED
    BY <1>3, <1>4

LEMMA EndMaps ==
    ASSUME SoleSession, IInv, Unrecorded, NEW c \in Session, run[c].at = "send",
           run'[c].at # "send", state' = state, NEW arrives \in BOOLEAN,
           heard' = IF arrives THEN heard \cup {<<run[c].id, Due(c, run[c].id)>>} ELSE heard
    PROVE  \E i \in Id, k \in Key : Channel!End(i, k, arrives)
<1>1. PICK i \in Id, k \in Key : i = run[c].id /\ k = Due(c, i)
    BY DEF IInv, RunOK, Due
<1>2. InFlight = {<<i, k>>} /\ InFlight' = {} /\ state[i] # k
    BY <1>1, SoleInFlight DEF Unrecorded, Due
<1>3. heard' = IF arrives THEN heard \cup {<<i, k>>} ELSE heard
    BY <1>1
<1>4. Channel!End(i, k, arrives)
    BY <1>2, <1>3 DEF Channel!End, InFlight
<1>5. QED
    BY <1>4

LEMMA StepMaps ==
    ASSUME SoleSession, IInv, IInv', Unrecorded, [Next]_vars
    PROVE  [Channel!Next]_(Channel!vars)
<1>1. CASE Environment
    BY <1>1, EnvironmentMaps DEF Channel!Next
<1>2. ASSUME NEW c \in Session, Sync(c) \/ NotifyBegin(c) PROVE UNCHANGED Channel!vars
    BY <1>2, QuietSteps
<1>3. ASSUME NEW c \in Session, Store(c) \/ NotifyCommit(c) PROVE Channel!Next
    BY <1>3, RecordSteps DEF Channel!Next
<1>4. ASSUME NEW c \in Session, NEW i \in Id, NotifyRead(c, i)
      PROVE  Channel!Next \/ UNCHANGED Channel!vars
    BY <1>4, ReadMaps, Zenon DEF Channel!Next
<1>5. ASSUME NEW c \in Session, NEW delivered \in BOOLEAN, NEW answered \in BOOLEAN,
             Send(c, delivered, answered)
      PROVE  Channel!Next
  <2>1. run'[c].at # "send"
    BY <1>5, NothingSent
  <2>2. /\ run[c].at = "send" /\ state' = state
        /\ heard' = IF delivered THEN heard \cup {<<run[c].id, Due(c, run[c].id)>>} ELSE heard
    BY <1>5 DEF Send
  <2>3. QED
    BY <2>1, <2>2, EndMaps, Zenon DEF Channel!Next
<1>6. ASSUME NEW c \in Session, RunFails(c) PROVE Channel!Next \/ UNCHANGED Channel!vars
  <2>1. run'[c].at # "send" /\ state' = state /\ heard' = heard
    BY <1>6, NothingSent DEF RunFails
  <2>2. CASE run[c].at = "send"
    <3>1. FALSE \in BOOLEAN
      OBVIOUS
    <3>2. \E i \in Id, k \in Key : Channel!End(i, k, FALSE)
      BY <2>1, <2>2, <3>1, EndMaps
    <3>3. QED
      BY <3>1, <3>2, Zenon DEF Channel!Next
  <2>3. CASE run[c].at # "send"
    BY <2>1, <2>3, SoleInFlight, Stutters
  <2>4. QED
    BY <2>2, <2>3
<1>7. CASE UNCHANGED vars
    BY <1>7 DEF vars, history, Channel!vars, Due
<1>8. QED
    BY <1>1, <1>2, <1>3, <1>4, <1>5, <1>6, <1>7, Zenon DEF Next, Step

\* Synchronizations that do not overlap implement the channel: whatever OVH answers,
\* whatever is lost, fails or is removed, no reminder goes out while it is recorded and
\* none is recorded that the chat has not received (notify_ovh_expirations).
THEOREM SoleSessionImplementsChannel == SoleSession => (Spec => ImplementsChannel)
<1> SUFFICES ASSUME SoleSession PROVE Spec => ImplementsChannel
    OBVIOUS
<1>1. IInv /\ IInv' /\ Unrecorded /\ [Next]_vars => [Channel!Next]_(Channel!vars)
    BY StepMaps
<1>2. QED
    BY <1>1, InitMaps, Inductive, SoleInductive, PTL DEF Spec, ImplementsChannel, Channel!Spec

-----------------------------------------------------------------------------
(* Reminders that were answered: the key of unchanged data only ever moves *)
(* on, so that one that is no longer recorded is never due again.          *)

\* The instant a run's reminders are about, and what will be recorded for a row once the
\* run has committed.
ClockOf(r, at) == IF r.at \in {"next", "send"} THEN r.clock ELSE at
Pending(r, recorded, i) ==
    IF r.writes[i] # NoKey THEN r.writes[i] ELSE IF i \in r.drops THEN NoKey ELSE recorded[i]

\* Each row of the listing is handled once, at an instant that has been.
HandledOnce(r, at) ==
    /\ r.at \in {"next", "send"} => r.clock <= at /\ r.todo \subseteq r.ids
    /\ r.at \in {"idle", "store", "notify"} => r.writes = NothingWritten /\ r.drops = {}
    /\ \A i \in r.todo : r.writes[i] = NoKey /\ i \notin r.drops
    /\ r.at = "send" => /\ r.id \in r.ids \ r.todo
                        /\ r.writes[r.id] = NoKey /\ r.id \notin r.drops

\* An answered reminder is recorded, or will be, or can be due no more.
Kept(r, recorded, at, m) ==
    /\ \E t \in Nat : t <= ClockOf(r, at) /\ ReminderKey(m[3], t) = m[2]
    /\ \/ Pending(r, recorded, m[1]) = m[2]
       \/ \A t \in Nat : t >= ClockOf(r, at) => ReminderKey(m[3], t) # m[2]
    /\ r.at \in {"notify", "next", "send"} => m[1] \in r.ids /\ m[3] = r.got[m[1]]

AnsweredKept ==
    \A c \in Session :
      HandledOnce(run[c], now) /\ \A m \in settled : Kept(run[c], state, now, m)

\* The days up to an end only get fewer.
LEMMA DaysPass ==
    ASSUME NEW end \in Int, NEW t \in Nat, NEW u \in Nat, t <= u
    PROVE  Days(end, t) \in Int /\ Days(end, u) \in Int /\ Days(end, u) <= Days(end, t)
<1>1. Day \in Nat \ {0}
    BY ConstantsAssumption
<1>2. Days(end, t) \in Int /\ Days(end, u) \in Int
    BY <1>1, Quotient DEF Days
<1>3. PICK days \in Int : days = Days(end, t)
    BY <1>2
<1>4. end - t <= days * Day
    BY <1>1, <1>3, DaysCount
<1>5. days * Day \in Int
    BY <1>1
<1>6. end - u <= days * Day
    BY <1>4, <1>5
<1>7. Days(end, u) <= days
    BY <1>1, <1>6, DaysCount
<1>8. QED
    BY <1>2, <1>3, <1>7

\* The same stage before and after is the stage in between.
LEMMA StageBetween ==
    ASSUME NEW a \in Int, NEW b \in Int, NEW d \in Int, d <= b, b <= a, Stage(a) = Stage(d)
    PROVE  Stage(b) = Stage(a)
<1> DEFINE Reached(days) == {v \in Thresholds : days <= v}
<1>1. \A v \in Thresholds : v \in Nat \ {0}
    BY ConstantsAssumption
<1>2. Reached(a) \subseteq Reached(b) /\ Reached(b) \subseteq Reached(d)
    BY <1>1
<1>3. \A days \in Int :
        /\ Reached(days) = {} => Stage(days) = 0
        /\ Reached(days) # {} => /\ Stage(days) \in Reached(days)
                                 /\ \A w \in Reached(days) : Stage(days) <= w
    BY StageIsTightest
<1>4. \A days \in Int : Reached(days) \subseteq Thresholds
    OBVIOUS
<1> HIDE DEF Reached
<1>5. CASE Reached(d) = {}
    BY <1>2, <1>3, <1>5
<1>6. CASE Reached(d) # {}
  <2>1. Stage(a) \in Nat \ {0}
    BY <1>1, <1>3, <1>4, <1>6
  <2>2. Reached(a) # {}
    BY <1>3, <2>1
  <2>3. Stage(a) \in Reached(b) /\ \A w \in Reached(b) : Stage(a) <= w
    BY <1>2, <1>3, <1>6, <2>2
  <2>4. Stage(b) \in Reached(b) /\ Stage(b) <= Stage(a)
    BY <1>3, <2>3
  <2>5. Stage(b) \in Nat
    BY <1>1, <1>4, <2>4
  <2>6. QED
    BY <2>1, <2>3, <2>4, <2>5
<1>7. QED
    BY <1>5, <1>6

\* A key that was due and is not can be due no more, as long as the row's data stay.
LEMMA KeysDoNotReturn ==
    ASSUME NEW row \in Row, NEW first \in Nat, NEW at \in Nat, first <= at,
           ReminderKey(row, first) # ReminderKey(row, at)
    PROVE  \A t \in Nat : t >= at => ReminderKey(row, t) # ReminderKey(row, first)
<1> SUFFICES ASSUME NEW t \in Nat, t >= at, ReminderKey(row, t) = ReminderKey(row, first)
             PROVE  FALSE
    OBVIOUS
<1> DEFINE end == EndsAt(row)
           StageAt(u) == IF end = Never THEN 0 ELSE Stage(Days(end, u))
           date == IF end = Never THEN Never ELSE end \div Day
<1>1. \A u \in Nat :
        ReminderKey(row, u) =
          IF row.cancelled THEN [kind |-> "cancellation", date |-> date, stage |-> StageAt(u)]
          ELSE IF row.renew = "manual" /\ StageAt(u) # 0
               THEN [kind |-> "expiry", date |-> date, stage |-> StageAt(u)] ELSE NoKey
    BY DEF ReminderKey
<1>2. end \in Int
    BY EndsAtAnInstant, ConstantsAssumption DEF Instant, Never
<1>3. StageAt(t) = StageAt(first) => StageAt(at) = StageAt(first)
  <2>1. CASE end = Never
    BY <2>1
  <2>2. CASE end # Never
    <3>1. /\ Days(end, first) \in Int /\ Days(end, at) \in Int /\ Days(end, t) \in Int
          /\ Days(end, t) <= Days(end, at) /\ Days(end, at) <= Days(end, first)
      BY <1>2, DaysPass
    <3>2. QED
      BY <2>2, <3>1, StageBetween
  <2>3. QED
    BY <2>1, <2>2
<1> HIDE DEF StageAt, date, end
<1>4. CASE row.cancelled
    BY <1>1, <1>3, <1>4
<1>5. CASE ~row.cancelled /\ row.renew = "manual"
  <2>1. CASE StageAt(first) = 0
    <3>1. StageAt(t) = 0
      BY <1>1, <1>5, <2>1 DEF NoKey
    <3>2. QED
      BY <1>1, <1>3, <1>5, <2>1, <3>1
  <2>2. CASE StageAt(first) # 0
    <3>1. StageAt(t) = StageAt(first)
      BY <1>1, <1>5, <2>2 DEF NoKey
    <3>2. QED
      BY <1>1, <1>3, <1>5, <2>2, <3>1
  <2>3. QED
    BY <2>1, <2>2
<1>6. CASE ~row.cancelled /\ row.renew # "manual"
    BY <1>1, <1>6
<1>7. QED
    BY <1>4, <1>5, <1>6

LEMMA SoleAnswered ==
    ASSUME SoleSession, NEW c \in Session, HandledOnce(run'[c], now'),
           \A m \in settled' : Kept(run'[c], state', now', m)
    PROVE  AnsweredKept'
BY DEF SoleSession, AnsweredKept

\* What one session has, by type.
LEMMA Held ==
    ASSUME IInv, AnsweredKept, NEW c \in Session
    PROVE  /\ run \in [Session -> RunState] /\ run[c] \in RunState /\ now \in Nat
           /\ HandledOnce(run[c], now)
           /\ \A m \in settled : /\ Kept(run[c], state, now, m)
                                 /\ m[1] \in Id /\ m[2] \in Key /\ m[3] \in Row
           /\ \A r : Move(c, r) => run'[c] = r
<1>1. run \in [Session -> RunState] /\ run[c] \in RunState
    BY DEF IInv
<1>2. now \in Nat /\ settled \in SUBSET (Id \X Key \X Row)
    BY ConstantsAssumption DEF IInv, OthersOK
<1>3. \A m \in settled : m[1] \in Id /\ m[2] \in Key /\ m[3] \in Row
    BY <1>2
<1>4. \A r : Move(c, r) => run'[c] = r
    BY <1>1 DEF Move
<1>5. QED
    BY <1>1, <1>2, <1>3, <1>4 DEF AnsweredKept

\* Time only helps.
LEMMA KeptLater ==
    ASSUME NEW r \in RunState, NEW recorded, NEW at \in Nat, NEW later \in Nat, at <= later,
           NEW m, Kept(r, recorded, at, m)
    PROVE  Kept(r, recorded, later, m)
<1>1. ClockOf(r, at) \in Nat /\ ClockOf(r, later) \in Nat /\ ClockOf(r, at) <= ClockOf(r, later)
    BY DEF ClockOf, RunState
<1>2. PICK t \in Nat : t <= ClockOf(r, at) /\ ReminderKey(m[3], t) = m[2]
    BY DEF Kept
<1>3. t <= ClockOf(r, later)
    BY <1>1, <1>2
<1>4. \A u \in Nat : u >= ClockOf(r, later) => u >= ClockOf(r, at)
    BY <1>1
<1>5. QED
    BY <1>2, <1>3, <1>4 DEF Kept

LEMMA EnvironmentAnswers ==
    ASSUME SoleSession, IInv, AnsweredKept, Environment PROVE AnsweredKept'
<1> SUFFICES ASSUME NEW c \in Session PROVE AnsweredKept'
    BY DEF AnsweredKept
<1>1. run' = run
    BY DEF Environment, Tick, BotSaved, BotRemoved, ListingChanges, FactsChange
<1>2. CASE Tick
  <2>1. now' = now + 1 /\ UNCHANGED <<state, settled>>
    BY <1>2 DEF Tick, history
  <2>2. now' \in Nat /\ now <= now'
    BY <2>1, Held
  <2>3. run[c].clock \in Nat
    BY Held DEF RunState
  <2>4. HandledOnce(run[c], now')
    <3>1. HandledOnce(run[c], now) /\ now \in Nat
      BY Held
    <3>2. QED
      BY <2>2, <2>3, <3>1 DEF HandledOnce
  <2>5. \A m \in settled : Kept(run[c], state, now', m)
    BY <2>2, Held, KeptLater
  <2>6. QED
    BY <1>1, <2>1, <2>4, <2>5, SoleAnswered
<1>3. CASE BotRemoved
  <2>1. now' = now /\ settled' = {}
    BY <1>3 DEF BotRemoved
  <2>2. QED
    BY <1>1, <2>1, Held, SoleAnswered
<1>4. ASSUME UNCHANGED <<now, state, settled>> PROVE AnsweredKept'
    BY <1>1, <1>4, Held, SoleAnswered
<1>5. QED
    BY <1>2, <1>3, <1>4 DEF Environment, BotSaved, ListingChanges, FactsChange, history

LEMMA ListAnswers ==
    ASSUME SoleSession, IInv, AnsweredKept, NEW c \in Session, Sync(c) PROVE AnsweredKept'
<1>1. PICK ids, got : Move(c, [Idle EXCEPT !.at = "store", !.ids = ids, !.got = got])
    BY Zenon DEF Sync, List
<1>2. run[c].at = "idle" /\ UNCHANGED <<now, state, settled>>
    BY Zenon DEF Sync, List, world, history
<1>3. run[c].writes = NothingWritten /\ run[c].drops = {}
    BY <1>2, Held DEF HandledOnce
<1>4. /\ run'[c].at = "store" /\ run'[c].writes = NothingWritten
      /\ run'[c].drops = {} /\ run'[c].todo = {}
    BY <1>1, Held DEF Idle
<1>5. HandledOnce(run'[c], now')
    BY <1>4 DEF HandledOnce
<1>6. ASSUME NEW m \in settled PROVE Kept(run'[c], state, now, m)
  <2>1. Kept(run[c], state, now, m)
    BY Held
  <2>2. /\ ClockOf(run'[c], now) = ClockOf(run[c], now)
        /\ Pending(run'[c], state, m[1]) = Pending(run[c], state, m[1])
    BY <1>2, <1>3, <1>4 DEF ClockOf, Pending
  <2>3. QED
    BY <1>4, <2>1, <2>2 DEF Kept
<1>7. QED
    BY <1>2, <1>5, <1>6, SoleAnswered

LEMMA StoreAnswers ==
    ASSUME SoleSession, IInv, AnsweredKept, NEW c \in Session, Store(c) PROVE AnsweredKept'
<1>1. /\ run[c].at = "store" /\ now' = now
      /\ settled' = {m \in settled : m[1] \in run[c].ids /\ m[3] = run[c].got[m[1]]}
      /\ state' = [i \in Id |-> IF i \in run[c].ids THEN state[i] ELSE NoKey]
    BY DEF Store, world
<1>2. run'[c] = [run[c] EXCEPT !.at = "notify"]
    BY Held DEF Store
<1>3. /\ run'[c].at = "notify" /\ run'[c].ids = run[c].ids /\ run'[c].got = run[c].got
      /\ run'[c].writes = run[c].writes /\ run'[c].drops = run[c].drops
      /\ run'[c].todo = run[c].todo
    BY <1>2, Held DEF RunState
<1>4. HandledOnce(run'[c], now')
    BY <1>1, <1>3, Held DEF HandledOnce
<1>5. ASSUME NEW m \in settled' PROVE Kept(run'[c], state', now, m)
  <2>1. /\ Kept(run[c], state, now, m) /\ m[1] \in Id
        /\ m[1] \in run[c].ids /\ m[3] = run[c].got[m[1]]
    BY <1>1, Held
  <2>2. /\ ClockOf(run'[c], now) = ClockOf(run[c], now)
        /\ Pending(run'[c], state', m[1]) = Pending(run[c], state, m[1])
    BY <1>1, <1>3, <2>1 DEF ClockOf, Pending
  <2>3. QED
    BY <1>3, <2>1, <2>2 DEF Kept
<1>6. QED
    BY <1>1, <1>4, <1>5, SoleAnswered

LEMMA NotifyBeginAnswers ==
    ASSUME SoleSession, IInv, AnsweredKept, NEW c \in Session, NotifyBegin(c)
    PROVE  AnsweredKept'
<1>1. /\ run[c].at = "notify" /\ UNCHANGED <<now, state, settled>> /\ now \in Nat
    BY Held DEF NotifyBegin, world, history
<1>2. run[c].writes = NothingWritten /\ run[c].drops = {}
    BY <1>1, Held DEF HandledOnce
<1>3. \/ run'[c] = Idle
      \/ run'[c] = [run[c] EXCEPT !.at = "next", !.todo = run[c].ids, !.clock = now]
    BY Held DEF NotifyBegin
<1>4. CASE run'[c] = Idle
  <2>1. /\ run'[c].at = "idle" /\ run'[c].writes = NothingWritten
        /\ run'[c].drops = {} /\ run'[c].todo = {}
    BY <1>4 DEF Idle
  <2>2. HandledOnce(run'[c], now)
    BY <2>1 DEF HandledOnce
  <2>3. \A m \in settled : Kept(run'[c], state, now, m)
    BY <1>1, <1>2, <2>1, Held DEF Kept, ClockOf, Pending
  <2>4. QED
    BY <1>1, <2>2, <2>3, SoleAnswered
<1>5. CASE run'[c] = [run[c] EXCEPT !.at = "next", !.todo = run[c].ids, !.clock = now]
  <2>1. /\ run'[c].at = "next" /\ run'[c].ids = run[c].ids /\ run'[c].got = run[c].got
        /\ run'[c].writes = NothingWritten /\ run'[c].drops = {}
        /\ run'[c].todo = run[c].ids /\ run'[c].clock = now /\ run[c].ids \subseteq Id
    BY <1>2, <1>5, Held DEF RunState
  <2>2. HandledOnce(run'[c], now)
    BY <1>1, <2>1 DEF HandledOnce, NothingWritten
  <2>3. \A m \in settled : Kept(run'[c], state, now, m)
    BY <1>1, <1>2, <2>1, Held DEF Kept, ClockOf, Pending
  <2>4. QED
    BY <1>1, <2>2, <2>3, SoleAnswered
<1>6. QED
    BY <1>3, <1>4, <1>5

\* An answered reminder whose key is due no more at the run's instant is due no more at all.
LEMMA NotDueAgain ==
    ASSUME IInv, AnsweredKept, NEW c \in Session, run[c].at \in {"next", "send"},
           NEW m \in settled, Due(c, m[1]) # m[2]
    PROVE  \A t \in Nat : t >= run[c].clock => ReminderKey(m[3], t) # m[2]
<1>1. /\ Kept(run[c], state, now, m) /\ m[3] \in Row /\ m[3] = run[c].got[m[1]]
      /\ run[c].clock \in Nat
    BY Held DEF Kept, RunState
<1>2. PICK t \in Nat : t <= run[c].clock /\ ReminderKey(m[3], t) = m[2]
    BY <1>1 DEF Kept, ClockOf
<1>3. ReminderKey(m[3], run[c].clock) # m[2]
    BY <1>1 DEF Due
<1>4. QED
    BY <1>1, <1>2, <1>3, KeysDoNotReturn

LEMMA NotifyReadAnswers ==
    ASSUME SoleSession, IInv, AnsweredKept, NEW c \in Session, NEW i \in Id, NotifyRead(c, i)
    PROVE  AnsweredKept'
<1> DEFINE r == run'[c]
<1>1. /\ run[c].at = "next" /\ i \in run[c].todo /\ UNCHANGED <<now, state, settled>>
      /\ HandledOnce(run[c], now)
    BY Held DEF NotifyRead, world, history
<1>2. /\ r.at \in {"next", "send"} /\ r.ids = run[c].ids /\ r.got = run[c].got
      /\ r.clock = run[c].clock /\ r.writes = run[c].writes
      /\ r.todo = run[c].todo \ {i} /\ (r.at = "send" => r.id = i)
      /\ \/ r.drops = run[c].drops
         \/ Due(c, i) = NoKey /\ r.at = "next" /\ r.drops = run[c].drops \cup {i}
  <2> DEFINE p == [run[c] EXCEPT !.todo = @ \ {i}]
             q == [p EXCEPT !.drops = IF state[i] = NoKey THEN @ ELSE @ \cup {i}]
             s == [p EXCEPT !.at = "send", !.id = i, !.old = state[i]]
  <2>1. r = p \/ (Due(c, i) = NoKey /\ r = q) \/ r = s
    BY Held DEF NotifyRead
  <2>2. CASE r = p
    BY <1>1, <2>2, Held DEF RunState
  <2>3. CASE Due(c, i) = NoKey /\ r = q
    BY <1>1, <2>3, Held DEF RunState
  <2>4. CASE r = s
    BY <1>1, <2>4, Held DEF RunState
  <2>5. QED
    BY <2>1, <2>2, <2>3, <2>4
<1> HIDE DEF r
<1>3. HandledOnce(r, now)
    BY <1>1, <1>2 DEF HandledOnce
<1>4. ASSUME NEW m \in settled PROVE Kept(r, state, now, m)
  <2>1. Kept(run[c], state, now, m) /\ m[2] \in Key /\ ClockOf(r, now) = run[c].clock
    BY <1>2, Held DEF ClockOf
  <2>2. CASE Pending(r, state, m[1]) = Pending(run[c], state, m[1])
    BY <1>1, <1>2, <2>1, <2>2 DEF Kept, ClockOf
  <2>3. CASE Pending(r, state, m[1]) # Pending(run[c], state, m[1])
    <3>1. m[1] = i /\ Due(c, i) = NoKey
      BY <1>2, <2>3 DEF Pending
    <3>2. Due(c, m[1]) # m[2]
      BY <2>1, <3>1, NoKeyIsNone
    <3>3. \A t \in Nat : t >= run[c].clock => ReminderKey(m[3], t) # m[2]
      BY <1>1, <3>2, NotDueAgain
    <3>4. QED
      BY <1>1, <1>2, <2>1, <3>3 DEF Kept, ClockOf
  <2>4. QED
    BY <2>2, <2>3
<1>5. QED
    BY <1>1, <1>3, <1>4, SoleAnswered DEF r

\* What is being sent has not been answered before.
LEMMA SendIsNew ==
    ASSUME IInv, Unrecorded, AnsweredKept, NEW c \in Session, run[c].at = "send"
    PROVE  <<run[c].id, Due(c, run[c].id), run[c].got[run[c].id]>> \notin settled
<1> SUFFICES ASSUME NEW m \in settled,
                    m = <<run[c].id, Due(c, run[c].id), run[c].got[run[c].id]>>
             PROVE  FALSE
    OBVIOUS
<1>1. m[1] = run[c].id /\ m[2] = Due(c, run[c].id) /\ m[3] = run[c].got[run[c].id]
    OBVIOUS
<1>2. Kept(run[c], state, now, m) /\ HandledOnce(run[c], now) /\ run[c].clock \in Nat
    BY Held DEF RunState
<1>3. Pending(run[c], state, m[1]) = state[m[1]]
    BY <1>1, <1>2 DEF HandledOnce, Pending
<1>4. state[m[1]] # m[2] /\ ReminderKey(m[3], run[c].clock) = m[2]
    BY <1>1 DEF Unrecorded, Due
<1>5. QED
    BY <1>2, <1>3, <1>4 DEF Kept, ClockOf

LEMMA SendAnswers ==
    ASSUME SoleSession, IInv, AnsweredKept, NEW c \in Session,
           NEW delivered \in BOOLEAN, NEW answered \in BOOLEAN, Send(c, delivered, answered)
    PROVE  AnsweredKept'
<1> DEFINE i == run[c].id
           key == Due(c, i)
           row == run[c].got[i]
           r == run'[c]
<1>1. /\ run[c].at = "send" /\ UNCHANGED <<now, state>>
      /\ settled' = IF answered THEN settled \cup {<<i, key, row>>} ELSE settled
    BY DEF Send, world
<1>2. /\ HandledOnce(run[c], now) /\ run[c].clock \in Nat /\ i \in Id /\ key \in Key
      /\ run[c].writes \in [Id -> Key \cup {NoKey}]
    BY <1>1, Held DEF IInv, RunOK, Due, RunState
<1>3. /\ r.at = "next" /\ r.ids = run[c].ids /\ r.got = run[c].got /\ r.clock = run[c].clock
      /\ r.todo = run[c].todo /\ r.drops = run[c].drops
      /\ r.writes = IF answered THEN [run[c].writes EXCEPT ![i] = key] ELSE run[c].writes
  <2> DEFINE inserts == IF run[c].old = NoKey THEN run[c].inserts \cup {i} ELSE run[c].inserts
             p == [run[c] EXCEPT !.at = "next", !.id = "none", !.old = NoKey]
             q == [p EXCEPT !.writes[i] = key, !.inserts = inserts]
  <2>1. r = IF answered THEN q ELSE p
    BY Held DEF Send
  <2> HIDE DEF inserts, key, i, r
  <2>2. CASE answered
    BY <2>1, <2>2, Held DEF RunState
  <2>3. CASE ~answered
    BY <2>1, <2>3, Held DEF RunState
  <2>4. QED
    BY <2>2, <2>3
<1>4. i \notin run[c].todo /\ i \in run[c].ids
    BY <1>1, <1>2 DEF HandledOnce
<1>5. HandledOnce(r, now)
  <2> HIDE DEF i, key, row, r
  <2>1. \A j \in run[c].todo : r.writes[j] = run[c].writes[j]
    BY <1>2, <1>3, <1>4
  <2>2. QED
    BY <1>1, <1>2, <1>3, <2>1 DEF HandledOnce
<1>6. ASSUME NEW m \in settled' PROVE Kept(r, state, now, m)
  <2>1. ClockOf(r, now) = run[c].clock /\ ClockOf(run[c], now) = run[c].clock
    BY <1>1, <1>3 DEF ClockOf
  <2>2. CASE answered /\ m = <<i, key, row>>
    <3>1. m[1] = i /\ m[2] = key /\ m[3] = row
      BY <2>2
    <3>2. ReminderKey(m[3], run[c].clock) = m[2]
      BY <3>1 DEF Due
    <3>3. Pending(r, state, m[1]) = m[2]
      <4>1. r.writes[i] = key /\ key # NoKey
        BY <1>2, <1>3, <2>2, NoKeyIsNone
      <4>2. QED
        BY <3>1, <4>1 DEF Pending
    <3>4. QED
      BY <1>2, <1>3, <1>4, <2>1, <3>1, <3>2, <3>3 DEF Kept
  <2>3. CASE m \in settled /\ Due(c, m[1]) # m[2]
    <3>1. Kept(run[c], state, now, m)
      BY <2>3, Held
    <3>2. \A t \in Nat : t >= run[c].clock => ReminderKey(m[3], t) # m[2]
      BY <1>1, <2>3, NotDueAgain
    <3>3. QED
      BY <1>1, <1>3, <2>1, <3>1, <3>2 DEF Kept
  <2>4. CASE m \in settled /\ Due(c, m[1]) = m[2]
    <3>1. Kept(run[c], state, now, m) /\ m[1] \in Id
      BY <2>4, Held
    <3>2. Pending(run[c], state, m[1]) = m[2] => Pending(r, state, m[1]) = m[2]
      <4>1. r.writes[m[1]] = run[c].writes[m[1]] \/ r.writes[m[1]] = m[2]
        BY <1>2, <1>3, <2>4, <3>1
      <4>2. m[2] # NoKey
        BY <2>4, Held, NoKeyIsNone
      <4>3. QED
        BY <1>3, <4>1, <4>2 DEF Pending
    <3>3. QED
      BY <1>1, <1>3, <2>1, <3>1, <3>2 DEF Kept
  <2>5. QED
    BY <1>1, <2>2, <2>3, <2>4
<1>7. QED
    BY <1>1, <1>5, <1>6, SoleAnswered

LEMMA EndAnswers ==
    ASSUME SoleSession, IInv, AnsweredKept, NEW c \in Session, NotifyCommit(c) \/ RunFails(c)
    PROVE  AnsweredKept'
<1>1. run'[c] = Idle /\ now' = now /\ now \in Nat
    BY Held DEF NotifyCommit, RunFails, world
<1>2. /\ run'[c].at = "idle" /\ run'[c].writes = NothingWritten
      /\ run'[c].drops = {} /\ run'[c].todo = {}
    BY <1>1 DEF Idle
<1>3. HandledOnce(run'[c], now')
    BY <1>2 DEF HandledOnce
<1>4. CASE RunFails(c)
  <2>1. settled' = {}
    BY <1>4 DEF RunFails
  <2>2. QED
    BY <1>3, <2>1, SoleAnswered
<1>5. CASE NotifyCommit(c)
  <2>1. /\ run[c].at = "next" /\ settled' = settled
        /\ \A i \in Id : state'[i] = Pending(run[c], state, i)
    BY <1>5 DEF NotifyCommit, history, Writes, Pending
  <2>2. ASSUME NEW m \in settled PROVE Kept(run'[c], state', now', m)
    <3>1. /\ Kept(run[c], state, now, m) /\ m[1] \in Id
          /\ run[c].clock \in Nat /\ run[c].clock <= now
      BY <2>1, Held DEF HandledOnce, RunState
    <3>2. Pending(run'[c], state', m[1]) = Pending(run[c], state, m[1])
      BY <1>2, <2>1, <3>1 DEF Pending, NothingWritten
    <3>3. ClockOf(run'[c], now') = now /\ ClockOf(run[c], now) = run[c].clock
      BY <1>1, <1>2, <2>1 DEF ClockOf
    <3>4. PICK t \in Nat : t <= run[c].clock /\ ReminderKey(m[3], t) = m[2]
      BY <3>1, <3>3 DEF Kept
    <3>5. t <= now /\ \A u \in Nat : u >= now => u >= run[c].clock
      BY <1>1, <3>1, <3>4
    <3>6. QED
      BY <1>2, <3>1, <3>2, <3>3, <3>4, <3>5 DEF Kept
  <2>3. QED
    BY <1>3, <2>1, <2>2, SoleAnswered
<1>6. QED
    BY <1>4, <1>5

LEMMA AnsweredNext ==
    ASSUME SoleSession, IInv, AnsweredKept, [Next]_vars PROVE AnsweredKept'
<1>1. ASSUME NEW c \in Session, Step(c) PROVE AnsweredKept'
    BY <1>1, StoreAnswers, NotifyBeginAnswers, NotifyReadAnswers, SendAnswers, EndAnswers,
       Zenon DEF Step
<1>2. CASE UNCHANGED vars
    BY <1>2 DEF vars, world, history, AnsweredKept
<1>3. QED
    BY <1>1, <1>2, EnvironmentAnswers, ListAnswers, Zenon DEF Next

\* Synchronizations that do not overlap repeat no answered reminder: as long as the same
\* data are stored for a service and no run fails, each window is announced once, whatever
\* hour the loop comes round at and however the days round (notify_ovh_expirations).
THEOREM SoleSessionRepeatsNothing == SoleSession => (Spec => RepeatsOnlyAfterCause)
<1> SUFFICES ASSUME SoleSession PROVE Spec => RepeatsOnlyAfterCause
    OBVIOUS
<1>1. Init => AnsweredKept
    BY DEF Init, AnsweredKept, HandledOnce, Idle
<1>2. IInv /\ AnsweredKept /\ [Next]_vars => AnsweredKept'
    BY AnsweredNext
<1>3. IInv /\ Unrecorded /\ AnsweredKept =>
        [\A c \in Session, answered \in BOOLEAN :
           LET i == run[c].id
           IN  Send(c, TRUE, answered) => <<i, Due(c, i), run[c].got[i]>> \notin settled]_vars
    BY SendIsNew DEF Send
<1>4. QED
    BY <1>1, <1>2, <1>3, Inductive, SoleInductive, PTL DEF Spec, RepeatsOnlyAfterCause

=============================================================================
