---------------------------- MODULE BatchManager ----------------------------
(***************************************************************************)
(* The calendar's BatchManager with its clock.  Every request task and the *)
(* batch loop share one mutex; get_ready_batches reads Instant::now()      *)
(* before it takes the mutex, so stamps can be added, and batches opened,  *)
(* between the two.  The clock counts milliseconds in arbitrary units.     *)
(***************************************************************************)
EXTENDS Integers, Sequences, Functions

CONSTANTS
  Stamps, Modes, MaxPending,   \* as in BatchQueue
  Window,                      \* Window[m] = mode.window_ms()
  MaxClock                     \* bound on the clock

ASSUME ManagerAssumption ==
  /\ Modes \subseteq Nat
  /\ MaxPending \in Nat \ {0}
  /\ Window \in [Modes -> Nat \ {0}]
  /\ MaxClock \in Nat

VARIABLES
  pending,      \* BatchManagerInner.pending
  batchStart,   \* BatchManagerInner.batch_start, NoStart where there is no entry
  ready,        \* result of the last get_ready_batches
  clock,        \* Instant::now()
  pollNow,      \* get_ready_batches' local `now`, NotPolling outside a call
  addedAt       \* when each stamp was last pushed (history)

managerVars == <<pending, batchStart, ready, clock, pollNow, addedAt>>

NoStart == -1
NotPolling == -1

Queued == UNION {Range(pending[m]) : m \in Modes}

InitManager ==
  /\ pending = [m \in Modes |-> <<>>]
  /\ batchStart = [m \in Modes |-> NoStart]
  /\ ready = [m \in Modes |-> <<>>]
  /\ clock = 0
  /\ pollNow = NotPolling
  /\ addedAt = [s \in Stamps |-> 0]

-----------------------------------------------------------------------------

(* Bound: a batch is opened only while its window still ends before the    *)
(* clock's last tick.                                                      *)
WithinHorizon(m) == clock + Window[m] <= MaxClock

(* The pending limit of add_digest. *)
HasRoom(m) == Len(pending[m]) < MaxPending

(* The first stamp of a mode starts its timer; the slip restarts the timer *)
(* with every stamp.                                                       *)
StartTimerAlways(m) == [batchStart EXCEPT ![m] = clock]
StartTimer(m) == IF pending[m] = <<>>
                   THEN [batchStart EXCEPT ![m] = clock]
                   ELSE batchStart

(* add_digest, accepted: under the lock, check the limit, start the timer  *)
(* for the first stamp, push.  Callers never add a stamp still queued:     *)
(* submit_stamp adds a fresh id, the batch loop what it took out.          *)
AddDigest(s, m) ==
  /\ s \notin Queued
  /\ WithinHorizon(m)
  /\ HasRoom(m)
  /\ batchStart' = StartTimer(m)
  /\ pending' = [pending EXCEPT ![m] = Append(@, s)]
  /\ addedAt' = [addedAt EXCEPT ![s] = clock]
  /\ UNCHANGED <<ready, clock, pollNow>>

(* get_ready_batches before the lock: `let now = Instant::now()`. *)
BeginPoll ==
  /\ pollNow = NotPolling
  /\ pollNow' = clock
  /\ UNCHANGED <<pending, batchStart, ready, clock, addedAt>>

(* Instant::duration_since, which is zero when start is the later one. *)
Elapsed(start) == IF pollNow >= start THEN pollNow - start ELSE 0

(* The modes whose window is over at the poll's `now`; the slip is off by  *)
(* one.                                                                    *)
DueEarly == {m \in Modes : /\ batchStart[m] # NoStart
                           /\ Elapsed(batchStart[m]) + 1 >= Window[m]}
Due == {m \in Modes : /\ batchStart[m] # NoStart
                      /\ Elapsed(batchStart[m]) >= Window[m]}

(* The timers a poll leaves; the slip clears the whole map.                *)
TimersAfterPollCleared == [m \in Modes |-> NoStart]
TimersAfterPoll == [m \in Modes |-> IF m \in Due THEN NoStart ELSE batchStart[m]]

(* The queues a poll leaves; the slip drains every mode, due or not. *)
QueuesAfterPollDrained == [m \in Modes |-> <<>>]
QueuesAfterPoll == [m \in Modes |-> IF m \in Due THEN <<>> ELSE pending[m]]

(* get_ready_batches under the lock. *)
GetReadyBatches ==
  /\ pollNow # NotPolling
  /\ ready' = [m \in Modes |-> IF m \in Due THEN pending[m] ELSE <<>>]
  /\ pending' = QueuesAfterPoll
  /\ batchStart' = TimersAfterPoll
  /\ pollNow' = NotPolling
  /\ UNCHANGED <<clock, addedAt>>

Tick ==
  /\ clock < MaxClock
  /\ clock' = clock + 1
  /\ UNCHANGED <<pending, batchStart, ready, pollNow, addedAt>>

NextManager ==
  \/ \E s \in Stamps, m \in Modes : AddDigest(s, m)
  \/ BeginPoll
  \/ GetReadyBatches
  \/ Tick

(* Time passes and the batch loop keeps polling on its 100 ms interval.    *)
(* Nothing obliges a client to submit.                                     *)
ManagerFairness ==
  /\ WF_managerVars(Tick)
  /\ WF_managerVars(BeginPoll)
  /\ WF_managerVars(GetReadyBatches)

ManagerSpec == InitManager /\ [][NextManager]_managerVars
FairManagerSpec == ManagerSpec /\ ManagerFairness

-----------------------------------------------------------------------------

(* Type invariant: each variable has the shape of the Rust field or local  *)
(* it stands for, queues never exceed MAX_PENDING_PER_MODE.                *)
TypeOK ==
  /\ pending \in [Modes -> Seq(Stamps)]
  /\ \A m \in Modes : Len(pending[m]) <= MaxPending
  /\ batchStart \in [Modes -> Nat \cup {NoStart}]
  /\ ready \in [Modes -> Seq(Stamps)]
  /\ clock \in Nat
  /\ pollNow \in Nat \cup {NotPolling}
  /\ addedAt \in [Stamps -> Nat]

(* A mode has a running timer exactly when its queue is non-empty.  The    *)
(* timer is set only for the first stamp and cleared only by the poll that *)
(* takes the queue; were the two to drift apart, a queue without a timer   *)
(* would never be committed.                                               *)
TimerIffPending ==
  \A m \in Modes : batchStart[m] # NoStart <=> pending[m] # <<>>

(* The timer of a mode is the moment its oldest queued stamp arrived, and  *)
(* no queued stamp is older than its mode's timer.                         *)
TimerIsOldest ==
  \A m \in Modes : pending[m] # <<>> =>
    /\ batchStart[m] = addedAt[pending[m][1]]
    /\ \A i \in DOMAIN pending[m] : addedAt[pending[m][i]] >= batchStart[m]

(* Neither the sample taken by a poll in progress nor a timer nor a push   *)
(* is ahead of the clock.                                                  *)
NotAhead ==
  /\ pollNow <= clock
  /\ \A m \in Modes : batchStart[m] <= clock
  /\ \A s \in Stamps : addedAt[s] <= clock

(* The inductive invariant the theorems of ServiceProofs rest on. *)
ManagerInv == TypeOK /\ TimerIffPending /\ TimerIsOldest /\ NotAhead

(* The oldest stamp of the batch a poll returns has waited the window, and *)
(* no stamp the poll leaves was overdue when it read the clock.            *)
NotEarly(m) == ready'[m] # <<>> => clock - addedAt[ready'[m][1]] >= Window[m]
NoneOverdue(m) ==
  \A i \in DOMAIN pending'[m] : pollNow - addedAt[pending'[m][i]] < Window[m]

(* A poll cuts a batch when its window is over, neither before nor a poll  *)
(* too late, whatever was added between its clock reading and its lock.    *)
CutOnTime == [][GetReadyBatches => \A m \in Modes : NotEarly(m) /\ NoneOverdue(m)]_managerVars

(* Every queued stamp is eventually handed to the batch loop. *)
EveryStampHandedOver ==
  \A s \in Stamps : (s \in Queued) ~> (s \notin Queued)

(* The untimed queue this module implements. *)
BQ == INSTANCE BatchQueue
        WITH batchOpen <- {m \in Modes : batchStart[m] # NoStart}

(* Every step of the timed manager is a step of the untimed queue. *)
ImplementsQueue == BQ!Spec

=============================================================================
