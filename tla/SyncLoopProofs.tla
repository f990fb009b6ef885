---------------------------- MODULE SyncLoopProofs ----------------------------
(***************************************************************************)
(* Proofs about SyncLoop, for any accounts, services, requests and bounds: *)
(* its types, and that a removed account leaves no services behind.        *)
(***************************************************************************)
EXTENDS SyncLoop, TLAPS

USE ConstantsAssumption

Inside == {"setup", "read", "commit", "notify", "record"}

RunOK(r) == r \in RunState /\ (r.at \in Inside => r.account \in Account)

IInv == TypeOK /\ NothingWithoutAccount

\* The rows and what is outside.
RowsOK ==
    /\ remote \in [Account -> SUBSET Service]
    /\ answers \in SUBSET Account /\ readable \in SUBSET Account
    /\ present \in SUBSET known /\ known \in SUBSET Account
    /\ stored \in [Account -> SUBSET Service]
    /\ error \in SUBSET present

CountsOK ==
    /\ changes \in 0..MaxChanges /\ requests \in 0..MaxRequests /\ faults \in 0..MaxFaults

LEMMA TypeParts == TypeOK <=> /\ RowsOK /\ CountsOK /\ run \in [Session -> RunState]
                              /\ \A c \in Session : RunOK(run[c])
BY DEF TypeOK, RowsOK, CountsOK, RunOK, Inside

LEMMA IdleOK == RunOK(Idle) /\ RunOK([Idle EXCEPT !.at = "dead"])
BY DEF RunOK, Idle, RunState, Stage, Inside

LEMMA InitIInv == Init => IInv
<1> SUFFICES ASSUME Init PROVE IInv
    OBVIOUS
<1>1. RowsOK /\ NothingWithoutAccount
    BY DEF Init, RowsOK, NothingWithoutAccount
<1>2. CountsOK
    BY DEF Init, CountsOK
<1>3. run \in [Session -> RunState] /\ \A c \in Session : RunOK(run[c])
  <2>1. RunOK(Idle) /\ Idle \in RunState
    BY IdleOK DEF RunOK
  <2>2. QED
    BY <2>1 DEF Init
<1>4. QED
    BY <1>1, <1>2, <1>3, TypeParts DEF IInv

\* One session moves; the rows may change as long as they stay in order.
LEMMA OneMoves ==
    ASSUME IInv, NEW c \in Session, NEW r, RunOK(r), Move(c, r),
           RowsOK', CountsOK', NothingWithoutAccount'
    PROVE  IInv'
<1>1. run' \in [Session -> RunState] /\ \A d \in Session : RunOK(run'[d])
    BY TypeParts DEF IInv, Move, RunOK
<1>2. TypeOK'
    BY <1>1 DEF TypeOK, RowsOK, CountsOK, RunOK, Inside
<1>3. QED
    BY <1>2 DEF IInv

\* One session moves, and nothing but the counts changes.
LEMMA OnlyMoves ==
    ASSUME IInv, NEW c \in Session, NEW r, RunOK(r), Move(c, r),
           UNCHANGED <<outside, rows>>, CountsOK'
    PROVE  IInv'
<1>1. UNCHANGED <<remote, answers, readable, present, known, stored, error>>
    BY DEF outside, rows
<1>2. RowsOK /\ NothingWithoutAccount
    BY TypeParts DEF IInv
<1>3. RowsOK' /\ NothingWithoutAccount'
    BY <1>1, <1>2 DEF RowsOK, NothingWithoutAccount
<1>4. QED
    BY <1>3, OneMoves

\* Counters that stay, or one that a guard bounds.
LEMMA CountsStay == ASSUME CountsOK, UNCHANGED bounds PROVE CountsOK'
BY DEF CountsOK, bounds

LEMMA ChangeCounts == ASSUME CountsOK, Change, UNCHANGED <<requests, faults>> PROVE CountsOK'
BY DEF CountsOK, Change

LEMMA RequestCounts == ASSUME CountsOK, Request, UNCHANGED <<changes, faults>> PROVE CountsOK'
BY DEF CountsOK, Request

LEMMA FaultCounts ==
    ASSUME CountsOK, UNCHANGED faults \/ Fault, UNCHANGED <<changes, requests>>
    PROVE  CountsOK'
BY DEF CountsOK, Fault

\* A session begins a synchronization, or returns from one.
LEMMA BeginOK == ASSUME NEW r, RunOK(r), NEW a \in Account PROVE RunOK(Begin(r, a))
<1> DEFINE q == Begin(r, a)
<1>1. (a \in error) \in BOOLEAN
    OBVIOUS
<1>2. q \in RunState /\ q.account = a
    BY <1>1 DEF RunOK, Begin, RunState
<1>3. QED
    BY <1>2 DEF RunOK

LEMMA ReturnedOK ==
    ASSUME NEW c \in Session, RunOK(run[c]), NEW broken \in BOOLEAN
    PROVE  RunOK(Returned(c, broken))
<1> DEFINE q == [Idle EXCEPT !.at = "next", !.stage = run[c].stage, !.todo = run[c].todo,
                             !.broken = broken]
<1>1. q \in RunState /\ q.at = "next"
    BY DEF RunOK, Idle, RunState
<1>2. RunOK(q)
    BY <1>1 DEF RunOK, Inside
<1>3. QED
    BY <1>2, IdleOK DEF Returned

-----------------------------------------------------------------------------
LEMMA EnvironmentIInv == ASSUME IInv, Environment PROVE IInv'
<1>0. RowsOK /\ CountsOK /\ NothingWithoutAccount /\ run \in [Session -> RunState]
      /\ \A c \in Session : RunOK(run[c])
    BY TypeParts DEF IInv
<1>1. ASSUME NEW a \in Account, ListingChanges(a) \/ AnswersChange(a) \/ AccountRemoved(a)
      PROVE  IInv'
  <2>1. CountsOK' /\ run' = run
    <3>1. Change /\ UNCHANGED <<requests, faults>> /\ run' = run
      BY <1>1, Zenon DEF ListingChanges, AnswersChange, AccountRemoved
    <3>2. QED
      BY <1>0, <3>1, ChangeCounts
  <2>2. RowsOK' /\ NothingWithoutAccount'
    <3>1. CASE ListingChanges(a)
      BY <1>0, <3>1 DEF ListingChanges, rows, RowsOK, NothingWithoutAccount
    <3>2. CASE AnswersChange(a)
      BY <1>0, <3>2 DEF AnswersChange, rows, RowsOK, NothingWithoutAccount
    <3>3. CASE AccountRemoved(a)
      BY <1>0, <3>3 DEF AccountRemoved, outside, RowsOK, NothingWithoutAccount
    <3>4. QED
      BY <1>1, <3>1, <3>2, <3>3
  <2>3. QED
    BY <1>0, <2>1, <2>2 DEF IInv, TypeOK, RowsOK, CountsOK, RunOK, Inside
<1>2. ASSUME NEW c \in User, NEW a \in Account, AccountAdded(c, a) \/ SyncRequested(c, a)
      PROVE  IInv'
  <2>1. RunOK(Begin(Idle, a)) /\ Move(c, Begin(Idle, a)) /\ c \in Session
    BY <1>2, IdleOK, BeginOK DEF AccountAdded, SyncRequested, Session
  <2>2. CountsOK'
    <3>1. Request /\ UNCHANGED <<changes, faults>>
      BY <1>2, Zenon DEF AccountAdded, SyncRequested
    <3>2. QED
      BY <1>0, <3>1, RequestCounts
  <2>3. RowsOK' /\ NothingWithoutAccount'
    BY <1>0, <1>2 DEF AccountAdded, SyncRequested, outside, rows, RowsOK, NothingWithoutAccount
  <2>4. QED
    BY <2>1, <2>2, <2>3, OneMoves
<1>3. CASE Restart
  <2>1. CountsOK'
    BY <1>0, <1>3, FaultCounts DEF Restart
  <2>2. RowsOK' /\ NothingWithoutAccount'
    BY <1>0, <1>3 DEF Restart, outside, rows, RowsOK, NothingWithoutAccount
  <2>3. run' \in [Session -> RunState] /\ \A c \in Session : RunOK(run'[c])
    <3>1. RunOK(Idle) /\ Idle \in RunState
      BY IdleOK DEF RunOK
    <3>2. QED
      BY <1>3, <3>1 DEF Restart
  <2>4. QED
    BY <2>1, <2>2, <2>3 DEF IInv, TypeOK, RowsOK, CountsOK, RunOK, Inside
<1>4. CASE KeyReplaced
  <2>1. CountsOK'
    BY <1>0, <1>4, ChangeCounts DEF KeyReplaced
  <2>2. RowsOK' /\ NothingWithoutAccount'
    BY <1>0, <1>4 DEF KeyReplaced, rows, RowsOK, NothingWithoutAccount
  <2>3. run' \in [Session -> RunState] /\ \A c \in Session : RunOK(run'[c])
    <3>1. RunOK(Idle) /\ Idle \in RunState
      BY IdleOK DEF RunOK
    <3>2. QED
      BY <1>4, <3>1 DEF KeyReplaced
  <2>4. QED
    BY <2>1, <2>2, <2>3 DEF IInv, TypeOK, RowsOK, CountsOK, RunOK, Inside
<1>5. QED
    BY <1>1, <1>2, <1>3, <1>4 DEF Environment

LEMMA LoopIInv ==
    ASSUME IInv, NEW l \in Loop,
           \/ Select(l) \/ SelectNext(l) \/ RoundEnds(l) \/ LoopEnds(l)
           \/ \E a \in Account : Load(l, a)
    PROVE  IInv'
<1>0. RowsOK /\ CountsOK /\ l \in Session /\ run[l] \in RunState /\ RunOK(run[l])
    BY TypeParts DEF IInv, Session
<1>1. UNCHANGED <<outside, rows>>
    BY Zenon DEF Select, SelectNext, RoundEnds, LoopEnds, Load
<1>2. CountsOK'
  <2>1. CASE LoopEnds(l)
    <3>1. (UNCHANGED faults \/ Fault) /\ UNCHANGED <<changes, requests>>
      BY <2>1, Zenon DEF LoopEnds
    <3>2. QED
      BY <1>0, <3>1, FaultCounts
  <2>2. CASE Select(l) \/ SelectNext(l) \/ RoundEnds(l) \/ \E a \in Account : Load(l, a)
    <3>1. UNCHANGED bounds
      BY <2>2, Zenon DEF Select, SelectNext, RoundEnds, Load
    <3>2. QED
      BY <1>0, <3>1, CountsStay
  <2>3. QED
    BY <2>1, <2>2
<1>3. ASSUME NEW stage \in Stage PROVE RunOK(Selected(stage))
  <2>1. present \cap Of(stage) \in SUBSET Account
    BY <1>0 DEF RowsOK
  <2>2. QED
    BY <2>1 DEF Selected, RunOK, Idle, RunState, Inside
<1>4. ASSUME NEW a \in Account, Load(l, a) PROVE \E r : RunOK(r) /\ Move(l, r)
  <2> DEFINE rest == [run[l] EXCEPT !.todo = @ \ {a}]
  <2>1. rest \in RunState /\ rest.at = "next"
    BY <1>0, <1>4 DEF Load, RunState
  <2>2. RunOK(rest)
    BY <2>1 DEF RunOK, Inside
  <2>3. RunOK(Begin(rest, a))
    BY <2>2, BeginOK
  <2>4. QED
    BY <1>4, <2>2, <2>3 DEF Load
<1>5. PICK r : RunOK(r) /\ Move(l, r)
  <2>1. CASE Select(l) \/ SelectNext(l)
    BY <1>3, <2>1 DEF Select, SelectNext, Stage
  <2>2. CASE RoundEnds(l) \/ LoopEnds(l)
    BY <2>2, IdleOK DEF RoundEnds, LoopEnds
  <2>3. QED
    BY <1>4, <2>1, <2>2
<1>6. QED
    BY <1>0, <1>1, <1>2, <1>5, OnlyMoves

\* Everything a synchronization does but its two commits.
LEMMA SyncIInv ==
    ASSUME IInv, NEW c \in Session,
           SetupRaises(c) \/ Fetch(c) \/ Read(c) \/ Notify(c) \/ Raises(c) \/ RecordRaises(c)
    PROVE  IInv'
<1>0. RowsOK /\ CountsOK /\ run[c] \in RunState /\ RunOK(run[c])
    BY TypeParts DEF IInv
<1>1. UNCHANGED <<outside, rows>>
    BY Zenon DEF SetupRaises, Fetch, Read, Notify, Raises, RecordRaises
<1>2. CountsOK'
  <2>1. (UNCHANGED faults \/ Fault) /\ UNCHANGED <<changes, requests>>
    BY Zenon DEF SetupRaises, Fetch, Read, Notify, Raises, RecordRaises, bounds
  <2>2. QED
    BY <1>0, <2>1, FaultCounts
<1>3. PICK r : RunOK(r) /\ Move(c, r)
  <2>1. CASE SetupRaises(c) \/ Notify(c) \/ RecordRaises(c)
    <3>1. PICK broken \in BOOLEAN : Move(c, Returned(c, broken))
      BY <2>1, Zenon DEF SetupRaises, Notify, RecordRaises
    <3>2. QED
      BY <1>0, <3>1, ReturnedOK
  <2>2. CASE Fetch(c)
    <3> DEFINE r == [run[c] EXCEPT !.at = "read", !.got = remote[run[c].account]]
    <3>1. run[c].account \in Account
      BY <1>0, <2>2 DEF Fetch, RunOK, Inside
    <3>2. RunOK(r)
      BY <1>0, <3>1 DEF RowsOK, RunOK, RunState
    <3>3. Move(c, r)
      BY <2>2 DEF Fetch
    <3>4. QED
      BY <3>2, <3>3
  <2>3. CASE Read(c)
    <3> DEFINE r == [run[c] EXCEPT !.at = "commit", !.found = stored[run[c].account]]
    <3>1. run[c].account \in Account
      BY <1>0, <2>3 DEF Read, RunOK, Inside
    <3>2. RunOK(r)
      BY <1>0, <3>1 DEF RowsOK, RunOK, RunState
    <3>3. Move(c, r)
      BY <2>3 DEF Read
    <3>4. QED
      BY <3>2, <3>3
  <2>4. CASE Raises(c)
    <3> DEFINE r == [run[c] EXCEPT !.at = "record", !.got = {}, !.found = {},
                                   !.hadError = FALSE]
    <3>1. run[c].at \in Inside
      BY <2>4 DEF Raises, Inside
    <3>2. RunOK(r)
      BY <1>0, <3>1 DEF RunOK, RunState
    <3>3. Move(c, r)
      BY <2>4 DEF Raises
    <3>4. QED
      BY <3>2, <3>3
  <2>5. QED
    BY <2>1, <2>2, <2>3, <2>4
<1>4. QED
    BY <1>1, <1>2, <1>3, OnlyMoves

\* The commits write only to an account that is there.
LEMMA CommitIInv == ASSUME IInv, NEW c \in Session, Commit(c) PROVE IInv'
<1> DEFINE a == run[c].account
<1>0. /\ RowsOK /\ CountsOK /\ NothingWithoutAccount /\ run[c] \in RunState /\ RunOK(run[c])
      /\ a \in Account /\ a \in present
    BY TypeParts DEF IInv, Commit, CommitAllowed, RunOK, Inside
<1>1. stored' = [stored EXCEPT ![a] = (@ \ (run[c].found \ run[c].got))
                                        \cup (run[c].got \ run[c].found)]
      /\ error' \in {error, error \ {a}}
      /\ UNCHANGED <<remote, answers, readable, present, known>> /\ UNCHANGED bounds
    BY DEF Commit, outside
<1>2. run[c].got \in SUBSET Service /\ run[c].found \in SUBSET Service
    BY <1>0 DEF RunState
<1>3. RowsOK' /\ NothingWithoutAccount'
    BY <1>0, <1>1, <1>2 DEF RowsOK, NothingWithoutAccount
<1>4. RunOK(Stored(c))
  <2> DEFINE r == [run[c] EXCEPT !.at = "notify", !.got = {}, !.found = {},
                                 !.hadError = FALSE]
  <2>1. RunOK(r)
    BY <1>0 DEF RunOK, RunState
  <2>2. QED
    BY <1>0, <2>1, ReturnedOK DEF Stored
<1>5. CountsOK' /\ Move(c, Stored(c))
    BY <1>0, <1>1, CountsStay DEF Commit
<1>6. QED
    BY <1>3, <1>4, <1>5, OneMoves

LEMMA RecordIInv == ASSUME IInv, NEW c \in Session, Record(c) PROVE IInv'
<1>0. RowsOK /\ CountsOK /\ NothingWithoutAccount /\ RunOK(run[c])
    BY TypeParts DEF IInv
<1>1. /\ error' = error \cup ({run[c].account} \cap present)
      /\ UNCHANGED <<remote, answers, readable, present, known, stored>> /\ UNCHANGED bounds
    BY DEF Record, outside
<1>2. RowsOK' /\ NothingWithoutAccount'
    BY <1>0, <1>1 DEF RowsOK, NothingWithoutAccount
<1>3. CountsOK' /\ Move(c, Returned(c, FALSE)) /\ RunOK(Returned(c, FALSE))
    BY <1>0, <1>1, CountsStay, ReturnedOK DEF Record
<1>4. QED
    BY <1>2, <1>3, OneMoves

LEMMA NextIInv == ASSUME IInv, [Next]_vars PROVE IInv'
<1>1. ASSUME NEW c \in Session, Sync(c) PROVE IInv'
    BY <1>1, SyncIInv, CommitIInv, RecordIInv, Zenon DEF Sync
<1>2. ASSUME NEW l \in Loop, LoopStep(l) PROVE IInv'
  <2>1. CASE Sync(l)
    BY <1>1, <2>1 DEF Session
  <2>2. CASE ~Sync(l)
    BY <1>2, <2>2, LoopIInv, Zenon DEF LoopStep
  <2>3. QED
    BY <2>1, <2>2
<1>3. CASE Next
    BY <1>1, <1>2, <1>3, EnvironmentIInv DEF Next, Session
<1>4. CASE UNCHANGED vars
    BY <1>4 DEF vars, outside, rows, bounds, IInv, TypeOK, NothingWithoutAccount
<1>5. QED
    BY <1>3, <1>4

LEMMA Inductive == Spec => []IInv
<1>1. Init => IInv
    BY InitIInv
<1>2. IInv /\ [Next]_vars => IInv'
    BY NextIInv
<1>3. QED
    BY <1>1, <1>2, PTL DEF Spec

\* However loops, requests, restarts and failures interleave, every variable keeps its
\* type and a session works on an account (sync_account and its two counterparts).
THEOREM TypeCorrect == Spec => []TypeOK
<1>1. IInv => TypeOK
    BY DEF IInv
<1>2. QED
    BY <1>1, Inductive, PTL

\* A removed account has no services, although synchronizations of it may still be about
\* to commit what its provider listed.
THEOREM RemovedLeavesNothing == Spec => []NothingWithoutAccount
<1>1. IInv => NothingWithoutAccount
    BY DEF IInv
<1>2. QED
    BY <1>1, Inductive, PTL

=============================================================================
