----------------------------- MODULE WatcherProofs -----------------------------
(***************************************************************************)
(* Proofs about Watcher, for any contents and sizes, any number of polls   *)
(* and of changes.                                                         *)
(***************************************************************************)
EXTENDS Watcher, TLAPS

Polling == {"stat", "statted", "sleep"}

\* The polls that agreed so far are fewer than would have ended the polling.
PollInv == pc \in Polling => steady = 0 \/ steady < StableReads - 1

\* A settle that sees, or has been told of, a missing file is one in which the
\* file was missing.
GoneInv ==
    /\ pc # "none" /\ file = Absent => wasGone
    /\ pc \in {"statted", "done reading"} /\ seen = Absent => wasGone

Inv == TypeOK /\ PollInv /\ GoneInv

-----------------------------------------------------------------------------
\* What is not there is no content.
LEMMA GoneIsNoContent == Absent \notin Contents
  BY OutcomesDiffer

\* It holds when the watch begins.
LEMMA InitInv == ASSUME Init PROVE Inv
<1>1. /\ event \in BOOLEAN /\ timer \in BOOLEAN /\ stopped \in BOOLEAN
      /\ wasGone \in BOOLEAN /\ dropped \in BOOLEAN
  BY Zenon DEF Init
<1>2. /\ file \in Files /\ access \in Access
  BY Accesses DEF Init, Files
<1>3. lastSize \in Int /\ steady \in 0..StableReads /\ changes \in 0..MaxChanges
  BY Bounds DEF Init
<1>4. pc = "none" /\ seen = Error /\ last = Unreported
  BY DEF Init
<1>5. QED
  BY <1>1, <1>2, <1>3, <1>4 DEF Inv, TypeOK, PollInv, GoneInv, Polling

\* The change of the file is what makes `wasGone` true.
LEMMA ChangeInv == ASSUME Inv, Change PROVE Inv'
<1>1. TypeOK'
  <2>1. file' \in Files /\ access' \in Access
    BY DEF Change, Inv, TypeOK, Files
  <2>2. changes' \in 0..MaxChanges
    <3>1. changes \in 0..MaxChanges /\ changes < MaxChanges /\ changes' = changes + 1
      BY DEF Change, Inv, TypeOK
    <3>2. QED
      BY <3>1, Bounds
  <2>3. wasGone' \in BOOLEAN /\ event' \in BOOLEAN
    BY Zenon DEF Change
  <2>4. QED
    BY <2>1, <2>2, <2>3 DEF Change, Inv, TypeOK, poll
<1>2. PollInv'
  BY DEF Change, Inv, PollInv, poll
<1>3. GoneInv'
  BY DEF Change, Inv, GoneInv
<1>4. QED
  BY <1>1, <1>2, <1>3 DEF Inv

\* A settle starts with no polls, on the file there is.
LEMMA TimerInv == ASSUME Inv, TimerFires PROVE Inv'
<1>1. TypeOK'
  <2>1. (wasGone' = (file = Absent) \/ wasGone' = wasGone) => wasGone' \in BOOLEAN
    BY Zenon DEF Inv, TypeOK
  <2>2. wasGone' = (file = Absent) \/ wasGone' = wasGone
    BY Zenon DEF TimerFires
  <2>3. lastSize' \in Int /\ steady' \in 0..StableReads
    <3>1. CASE pc = "none"
      <4>1. lastSize' = -1 /\ steady' = 0
        BY <3>1 DEF TimerFires
      <4>2. QED
        BY <4>1, Bounds
    <3>2. CASE pc # "none"
      BY <3>2 DEF TimerFires, Inv, TypeOK, poll
    <3>3. QED
      BY <3>1, <3>2
  <2>4. QED
    BY <2>1, <2>2, <2>3 DEF TimerFires, Inv, TypeOK, disk
<1>2. PollInv'
  BY DEF TimerFires, Inv, PollInv, Polling, poll
<1>3. GoneInv'
  BY DEF TimerFires, Inv, GoneInv, disk
<1>4. QED
  BY <1>1, <1>2, <1>3 DEF Inv

\* The code after a stat polls on while the size moves, and no longer than that.
LEMMA AfterStatInv == ASSUME Inv, AfterStat PROVE Inv'
<1>1. steady \in Nat /\ StableReads \in Nat /\ StableReads > 0
      /\ (steady = 0 \/ steady < StableReads - 1)
  BY Bounds DEF AfterStat, Inv, TypeOK, PollInv, Polling
<1>2. CASE seen \in Contents /\ SizeOf[seen] = lastSize
  <2>1. /\ steady' = steady + 1 /\ UNCHANGED <<lastSize, last>>
        /\ pc' = IF Steady(steady') THEN "read" ELSE "sleep"
    BY <1>2 DEF AfterStat
  <2>2. steady' \in 0..StableReads /\ PollInv'
    BY <1>1, <2>1 DEF Steady, PollInv, Polling
  <2>3. QED
    BY <2>1, <2>2 DEF AfterStat, Inv, TypeOK, GoneInv, disk
<1>3. CASE seen \in Contents /\ SizeOf[seen] # lastSize
  BY <1>1, <1>3, Sizes DEF AfterStat, Inv, TypeOK, PollInv, GoneInv, Polling, disk
<1>4. CASE seen \notin Contents
  BY <1>1, <1>4 DEF AfterStat, Inv, TypeOK, PollInv, GoneInv, Polling, disk, poll
<1>5. QED
  BY <1>2, <1>3, <1>4

\* Every other step of a settle keeps it.
LEMMA SettleInv == ASSUME Inv, Settle PROVE Inv'
<1> USE DEF Inv, TypeOK, PollInv, GoneInv, Polling, Files, disk, poll
<1>1. CASE StatReturns
  BY <1>1 DEF StatReturns, Absent, Error
<1>2. CASE AfterStat
  BY <1>2, AfterStatInv
<1>3. CASE Wakes
  BY <1>3 DEF Wakes
<1>4. CASE ReadReturns
  BY <1>4 DEF ReadReturns, Absent, Error
<1>5. CASE AfterRead
  BY <1>5 DEF AfterRead, MeansGone
<1>6. QED
  BY <1>1, <1>2, <1>3, <1>4, <1>5 DEF Settle

\* Every step keeps it.
LEMMA NextInv == ASSUME Inv, [Next]_vars PROVE Inv'
<1>1. CASE Event
  BY <1>1 DEF Event, Rearmed, Inv, TypeOK, PollInv, GoneInv, disk, poll
<1>2. CASE Stop
  BY <1>2 DEF Stop, Inv, TypeOK, PollInv, GoneInv, disk, poll
<1>3. CASE UNCHANGED vars
  BY <1>3 DEF vars, Inv, TypeOK, PollInv, GoneInv, disk, poll
<1>4. QED
  BY <1>1, <1>2, <1>3, ChangeInv, TimerInv, SettleInv DEF Next

\* It is an invariant.
LEMMA InvHolds == Spec => []Inv
  BY InitInv, NextInv, PTL DEF Spec

\* Only the code after a stat or a read changes what was reported.
LEMMA Reporters ==
    ASSUME [Next]_vars, last' # last
    PROVE  AfterStat \/ AfterRead
  BY DEF Next, vars, Change, Event, TimerFires, Settle, StatReturns, Wakes, ReadReturns, Stop

-----------------------------------------------------------------------------
\* The watcher's variables keep their types (watcher.ts:91-110): among them the
\* number of polls that agreed, which never passes the number asked for.
THEOREM TypeCorrect == Spec => []TypeOK
<1>1. ASSUME Inv PROVE TypeOK
  BY <1>1 DEF Inv
<1>2. QED
  BY <1>1, InvHolds, PTL

\* A deletion is reported only if the file was missing during the settle that
\* reports it, whatever fails and whatever happens between its calls
\* (watcher.ts:142-147, 164-171).
THEOREM ReportedDeletionsAreReal == Spec => DeletionsAreReal
<1>1. ASSUME Inv, [Next]_vars, last # Absent, last' = Absent PROVE wasGone
  <2>1. CASE AfterStat
    BY <1>1, <2>1, GoneIsNoContent DEF AfterStat, MeansGone, Inv, GoneInv
  <2>2. CASE AfterRead
    BY <1>1, <2>2, GoneIsNoContent DEF AfterRead, MeansGone, Inv, GoneInv
  <2>3. QED
    BY <1>1, <2>1, <2>2, Reporters
<1>2. ASSUME Inv, [Next]_vars
      PROVE  [last # Absent /\ last' = Absent => wasGone]_vars
  BY <1>1, <1>2
<1>3. QED
  BY <1>2, InvHolds, PTL DEF Spec, DeletionsAreReal

\* After stop() nothing is reported but a missing file, however far the settles
\* that were running had come (watcher.ts:160-171, 196-206).
THEOREM StopSilences == Spec => StoppedIsSilent
<1>1. ASSUME [Next]_vars, stopped, last' # last PROVE last' = Absent
  <2>1. CASE AfterStat
    BY <1>1, <2>1 DEF AfterStat
  <2>2. CASE AfterRead
    BY <1>1, <2>2 DEF AfterRead, StillWatching
  <2>3. QED
    BY <1>1, <2>1, <2>2, Reporters
<1>2. ASSUME [Next]_vars PROVE [stopped /\ last' # last => last' = Absent]_vars
  BY <1>1, <1>2
<1>3. QED
  BY <1>2, PTL DEF Spec, StoppedIsSilent
=============================================================================
