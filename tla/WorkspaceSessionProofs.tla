------------------------ MODULE WorkspaceSessionProofs ------------------------
(***************************************************************************)
(* Proofs about an open workspace.  WorkspaceSession: for any logs and any *)
(* number of overlapping flushes, close() leaves no timer, and a close     *)
(* nothing failed under leaves in the folder what the device had once the  *)
(* files on the way are in place, but for the two ways flushes lose some.  *)
(* Blobs: whatever writes overlap, what was written reads back.            *)
(***************************************************************************)
EXTENDS WorkspaceSession, Blobs, SequenceTheorems, NaturalsInduction, WellFoundedInduction,
        TLAPS

JobStates == [pc : {"idle", "stat", "listing", "listed", "copying"}, log : 1..Len(Logs), end : Nat]

LEMMA LogFacts ==
    /\ Len(Logs) \in Nat /\ Len(Logs) >= 1 /\ Data \in LogSet
    /\ \A i \in 1..Len(Logs) : Logs[i] \in LogSet
<1>1. Len(Logs) \in Nat /\ Len(Logs) >= 1
  BY SessionConstants, EmptySeq
<1> QED
  BY <1>1 DEF LogSet, Data

\* A nonempty set of naturals has a least element.
LEMMA LeastOf ==
    ASSUME NEW T \in SUBSET Nat, T # {}
    PROVE  Min(T) \in T /\ \A k \in T : Min(T) <= k
<1> DEFINE R == OpToRel(<, Nat)
<1>1. IsWellFoundedOn(R, Nat)
  BY NatLessThanWellFounded
<1>2. \A k, n \in Nat : k < n => <<k, n>> \in R
  BY Zenon DEF OpToRel
<1> HIDE DEF R
<1>3. PICK n \in T : \A k \in T : ~(<<k, n>> \in R)
  BY <1>1, WFMin
<1>4. \A k \in T : n <= k
  <2> SUFFICES ASSUME NEW k \in T
               PROVE  n <= k
    OBVIOUS
  <2>1. ~(k < n)
    BY <1>2, <1>3, Zenon
  <2> QED
    BY <2>1
<1> QED
  BY <1>4 DEF Min

LEMMA LargerOf ==
    ASSUME NEW a \in Nat, NEW b \in Nat
    PROVE  Max({a, b}) = IF a >= b THEN a ELSE b
<1>1. PICK m \in {a, b} : \A y \in {a, b} : m >= y
  BY SMT
<1>2. Max({a, b}) \in {a, b} /\ \A y \in {a, b} : Max({a, b}) >= y
  BY <1>1 DEF Max
<1> QED
  BY <1>2

-----------------------------------------------------------------------------
(* Types, and what a flush may have seen. *)

Types ==
    /\ len \in [LogSet -> Nat] /\ held \in [LogSet -> Nat] /\ capLen \in [LogSet -> Nat]
    /\ taken \in [LogSet -> Nat] /\ writing \subseteq LogSet /\ raced \subseteq LogSet
    /\ covered \in [LogSet -> Nat] /\ atClose \in [LogSet -> Nat] /\ requested \in [LogSet -> Nat]
    /\ returning \in Nat /\ faults \in 0..MaxFaults /\ cut \subseteq LogSet
    /\ jobs \in [Jobs -> JobStates]
    /\ folder \in {"here", "moved", "back"}
    /\ stage \in {"open", "flushing", "logsClosed", "captureClosed", "closed"}

\* Nothing is asked for, captured or covered that the log does not have.
WithinLog ==
    /\ \A l \in LogSet : /\ held[l] <= len[l] /\ capLen[l] <= len[l]
                         /\ taken[l] <= held[l] /\ taken[l] <= capLen[l] /\ covered[l] <= taken[l]
                         /\ requested[l] <= len[l] /\ atClose[l] <= len[l]
                         /\ writer => held[l] = len[l]
    /\ \A j \in Jobs : jobs[j].pc = "copying" => jobs[j].end <= len[Logs[jobs[j].log]]
    /\ reading \in 0..len[Data]
    /\ peer => ~writer

\* close() flushes once, with the timer off, and no flush copies when it has returned.
Shutting ==
    /\ stage # "open" => ~timer
    /\ stage # "flushing" => jobs[Closing].pc = "idle"
    /\ stage = "closed" => \A j \in Jobs : jobs[j].pc \in {"idle", "stat"}

\* What Advance makes of a flush: the next log that is not left out, or nothing.
LEMMA Advances ==
    ASSUME Types, NEW j \in Jobs, NEW i \in 1..(Len(Logs) + 1), Advance(j, i)
    PROVE  \E job \in JobStates :
             /\ jobs' = [jobs EXCEPT ![j] = job]
             /\ \/ /\ job.pc = "idle"
                   /\ stage = "closed" \/ \A k \in i..Len(Logs) : Gapped(Logs[k])
                \/ /\ job.pc = "listing" /\ stage # "closed" /\ job.log \in i..Len(Logs)
                   /\ \A k \in i..(job.log - 1) : Gapped(Logs[k])
<1> DEFINE left == {k \in i..Len(Logs) : ~Gapped(Logs[k])}
           job == [pc |-> "listing", log |-> Min(left), end |-> 0]
<1>0. Len(Logs) \in Nat /\ Len(Logs) >= 1
  BY LogFacts
<1>1. CASE left = {} \/ stage = "closed"
  <2>1. Idle \in JobStates /\ Idle.pc = "idle"
    BY <1>0 DEF Idle, JobStates
  <2>2. jobs' = [jobs EXCEPT ![j] = Idle]
    BY <1>1 DEF Advance
  <2>3. stage = "closed" \/ \A k \in i..Len(Logs) : Gapped(Logs[k])
    BY <1>1
  <2> QED
    BY <2>1, <2>2, <2>3
<1>2. CASE ~(left = {} \/ stage = "closed")
  <2>1. jobs' = [jobs EXCEPT ![j] = job]
    BY <1>2 DEF Advance
  <2>2. left \in SUBSET Nat
    BY <1>0
  <2>3. Min(left) \in left /\ \A k \in left : Min(left) <= k
    BY <1>2, <2>2, LeastOf
  <2>4. job \in JobStates /\ job.pc = "listing" /\ job.log = Min(left)
    BY <1>0, <2>3 DEF JobStates
  <2>5. Min(left) \in i..Len(Logs)
    BY <2>3
  <2>6. \A k \in i..(Min(left) - 1) : Gapped(Logs[k])
    <3> SUFFICES ASSUME NEW k \in i..(Min(left) - 1), ~Gapped(Logs[k])
                 PROVE  FALSE
      OBVIOUS
    <3>1. k \in i..Len(Logs) /\ k < Min(left)
      BY <1>0, <2>5
    <3> QED
      BY <2>3, <2>5, <3>1
  <2> HIDE DEF job, left
  <2> QED
    BY <1>2, <2>1, <2>4, <2>5, <2>6
<1> QED
  BY <1>1, <1>2

Inv == Types /\ WithinLog /\ Shutting

LEMMA InitInv == Init => Inv
<1> SUFFICES ASSUME Init
             PROVE  Inv
  OBVIOUS
<1>1. PICK n \in 0..(IF local THEN MaxLen[Data] ELSE 0) :
        /\ len = [NoBlocks EXCEPT ![Data] = n]
        /\ \E h \in 0..n : held = [NoBlocks EXCEPT ![Data] = h]
  BY DEF Init
<1>2. PICK h \in 0..n : held = [NoBlocks EXCEPT ![Data] = h]
  BY <1>1
<1>3. n \in Nat /\ h \in Nat /\ h <= n /\ (writer => n = 0 /\ h = 0)
  BY <1>1, <1>2, LogFacts, SessionConstants DEF Init
<1>4. /\ len \in [LogSet -> Nat] /\ held \in [LogSet -> Nat] /\ NoBlocks \in [LogSet -> Nat]
      /\ \A l \in LogSet : held[l] <= len[l] /\ NoBlocks[l] <= len[l]
      /\ writer => \A l \in LogSet : held[l] = len[l]
  <2>1. \A l \in LogSet : len[l] = (IF l = Data THEN n ELSE 0) /\ held[l] = (IF l = Data THEN h ELSE 0)
    BY <1>1, <1>2 DEF NoBlocks
  <2>2. len \in [LogSet -> Nat] /\ held \in [LogSet -> Nat] /\ NoBlocks \in [LogSet -> Nat]
    BY <1>1, <1>2, <1>3 DEF NoBlocks
  <2> QED
    BY <1>3, <2>1, <2>2 DEF NoBlocks
<1>5. Idle \in JobStates /\ Idle.pc = "idle" /\ Closing \in Jobs /\ 0 \in 0..len[Data]
  BY <1>4, LogFacts DEF Idle, JobStates, Jobs
<1>6. Types
  BY <1>4, <1>5, SessionConstants DEF Init, Types
<1>7. WithinLog
  BY <1>4, <1>5 DEF Init, WithinLog
<1> QED
  BY <1>5, <1>6, <1>7 DEF Inv, Init, Shutting

\* What is in the folder was in the capture.
LEMMA GivesTaken ==
    ASSUME Inv, NEW l \in LogSet
    PROVE  \A n \in Gives(l) : n \in Nat /\ n <= taken[l]
  BY DEF Gives, Inv, Types, WithinLog

\* Where the capture replica grows, or its files come into the folder, no flush moves on.
LEMMA CopyStepInv ==
    ASSUME Inv, NEW l \in LogSet, CopyStep(l)
    PROVE  Inv'
<1>1. /\ UNCHANGED <<len, held, returning, reading, jobs, requested, raced, cut, stage, atClose,
                      folder, faults>>
      /\ (writer' <=> writer) /\ (peer' <=> peer) /\ (timer' <=> timer)
      /\ writing' \in {writing \cup {l}, writing \ {l}}
  BY DEF CopyStep, Upgrade, Accept, FilesWritten, logVars, closeVars
<1>2. /\ capLen' \in [LogSet -> Nat] /\ taken' \in [LogSet -> Nat] /\ covered' \in [LogSet -> Nat]
      /\ \A k \in LogSet : /\ capLen'[k] <= len[k] /\ taken'[k] <= held[k]
                           /\ taken'[k] <= capLen'[k] /\ covered'[k] <= taken'[k]
  <2>1. CASE Upgrade(l)
    <3>1. capLen' = [capLen EXCEPT ![l] = len[l]] /\ UNCHANGED <<taken, covered>>
      BY <2>1 DEF Upgrade
    <3> QED
      BY <3>1 DEF Inv, Types, WithinLog
  <2>2. CASE Accept(l)
    <3>1. /\ taken' = [taken EXCEPT ![l] = @ + 1] /\ UNCHANGED <<capLen, covered>>
          /\ taken[l] < held[l] /\ taken[l] < capLen[l]
      BY <2>2 DEF Accept
    <3> QED
      BY <3>1 DEF Inv, Types, WithinLog
  <2>3. CASE FilesWritten(l)
    <3>1. PICK n \in Gives(l) : covered' = [covered EXCEPT ![l] = n] /\ UNCHANGED <<capLen, taken>>
      BY <2>3 DEF FilesWritten
    <3>2. n \in Nat /\ n <= taken[l]
      BY GivesTaken
    <3> QED
      BY <3>1, <3>2 DEF Inv, Types, WithinLog
  <2> QED
    BY <2>1, <2>2, <2>3 DEF CopyStep
<1>3. Types'
  BY <1>1, <1>2 DEF Inv, Types
<1>4. WithinLog'
  BY <1>1, <1>2 DEF Inv, WithinLog
<1>5. Shutting'
  BY <1>1 DEF Inv, Shutting
<1> QED
  BY <1>3, <1>4, <1>5 DEF Inv

LEMMA FileFailsInv ==
    ASSUME Inv, NEW l \in LogSet, FileFails(l)
    PROVE  Inv'
<1>1. /\ UNCHANGED <<len, held, returning, reading, capLen, taken, requested, raced, stage, atClose,
                      folder>>
      /\ (writer' <=> writer) /\ (peer' <=> peer) /\ (timer' <=> timer)
      /\ writing' = writing \ {l} /\ cut' = cut \cup {l}
  BY DEF FileFails, logVars, closeVars
<1>2. faults' \in 0..MaxFaults
  <2>1. (faults < MaxFaults /\ faults' = faults + 1) \/ faults' = faults
    BY DEF FileFails
  <2>2. faults \in 0..MaxFaults /\ MaxFaults \in Nat
    BY SessionConstants DEF Inv, Types
  <2> QED
    BY <2>1, <2>2
<1>3. covered' \in [LogSet -> Nat] /\ \A k \in LogSet : covered'[k] <= taken[k]
  <2>1. PICK m \in Gives(l) : \E n \in {m} \cup covered[l]..m : covered' = [covered EXCEPT ![l] = n]
    BY DEF FileFails
  <2>2. PICK n \in {m} \cup covered[l]..m : covered' = [covered EXCEPT ![l] = n]
    BY <2>1
  <2>3. m \in Nat /\ m <= taken[l] /\ covered[l] \in Nat /\ taken[l] \in Nat
    BY GivesTaken DEF Inv, Types
  <2>4. n \in Nat /\ n <= taken[l]
    BY <2>2, <2>3
  <2> QED
    BY <2>2, <2>4 DEF Inv, Types, WithinLog
<1>4. Idle \in JobStates /\ Idle.pc = "idle"
  BY LogFacts DEF Idle, JobStates
<1>5. PICK rejected \in SUBSET Copying(l) :
        jobs' = [j \in Jobs |-> IF j \in rejected THEN Idle ELSE jobs[j]]
  BY DEF FileFails
<1>6. jobs' \in [Jobs -> JobStates] /\ \A j \in Jobs : jobs'[j] = jobs[j] \/ jobs'[j] = Idle
  BY <1>4, <1>5 DEF Inv, Types
<1>7. Types'
  BY <1>1, <1>2, <1>3, <1>6 DEF Inv, Types
<1>8. WithinLog'
  BY <1>1, <1>3, <1>4, <1>6 DEF Inv, WithinLog
<1>9. Shutting'
  BY <1>1, <1>4, <1>6 DEF Inv, Shutting, Jobs
<1> QED
  BY <1>7, <1>8, <1>9 DEF Inv

LEMMA NextInv == Inv /\ [Next]_vars => Inv'
<1> SUFFICES ASSUME Inv, [Next]_vars
             PROVE  Inv'
  OBVIOUS
<1>0. /\ Len(Logs) \in Nat /\ Len(Logs) >= 1 /\ Data \in LogSet
      /\ \A i \in 1..Len(Logs) : Logs[i] \in LogSet
      /\ Closing \in Jobs /\ Closing \notin Background /\ MaxFaults \in Nat
  BY LogFacts, SessionConstants DEF Jobs
<1>20. \A j \in Jobs : /\ jobs[j] \in JobStates /\ jobs[j].end \in Nat
                      /\ jobs[j].log \in 1..Len(Logs) /\ jobs[j].log + 1 \in 1..(Len(Logs) + 1)
                      /\ Logs[jobs[j].log] \in LogSet
  <2>1. \A j \in Jobs : jobs[j] \in JobStates
    BY DEF Inv, Types
  <2> QED
    BY <1>0, <2>1 DEF JobStates
<1>1. ASSUME NEW l \in LogSet, AppendBlock(l) PROVE Inv'
  <2>0. /\ UNCHANGED <<reading, jobs, capLen, taken, writing, covered, requested, raced, cut, stage, atClose, folder, faults>>
        /\ (writer' <=> writer) /\ (peer' <=> peer) /\ (timer' <=> timer)
        /\ len' = [len EXCEPT ![l] = @ + 1] /\ held' = [held EXCEPT ![l] = @ + 1]
        /\ returning' = IF l = Data THEN returning + 1 ELSE returning
    BY <1>1 DEF AppendBlock, logVars, copyVars, closeVars
  <2>4. len' \in [LogSet -> Nat] /\ \A k \in LogSet : len'[k] = IF k = l THEN len[k] + 1 ELSE len[k]
    BY <2>0 DEF Inv, Types
  <2>5. held' \in [LogSet -> Nat] /\ \A k \in LogSet : held'[k] = IF k = l THEN held[k] + 1 ELSE held[k]
    BY <2>0 DEF Inv, Types
  <2>1. Types'
    BY <2>0, <2>4, <2>5 DEF Inv, Types
  <2>2. WithinLog'
    <3>1. \A k \in LogSet : len[k] <= len'[k]
      BY <2>4 DEF Inv, Types
    <3>2. ASSUME NEW j \in Jobs, jobs'[j].pc = "copying"
          PROVE  jobs'[j].end <= len'[Logs[jobs'[j].log]]
      <4> DEFINE k == Logs[jobs[j].log]
      <4>1. jobs[j].end <= len[k] /\ jobs' = jobs
        BY <2>0, <3>2 DEF Inv, WithinLog
      <4>2. len[k] <= len'[k] /\ len[k] \in Nat /\ len'[k] \in Nat /\ jobs[j].end \in Nat
        BY <1>20, <2>4, <3>1 DEF Inv, Types
      <4> QED
        BY <4>1, <4>2
    <3>3. reading' \in 0..len'[Data]
      BY <1>0, <2>0, <2>4, <3>1 DEF Inv, Types, WithinLog
    <3> QED
      BY <2>0, <2>4, <2>5, <3>1, <3>2, <3>3 DEF Inv, Types, WithinLog
  <2>3. Shutting'
    BY <1>0, <2>0 DEF Inv, Types, Shutting
  <2> QED
    BY <2>1, <2>2, <2>3 DEF Inv
<1>2. ASSUME NEW l \in LogSet, Announce(l) PROVE Inv'
  <2>0. /\ UNCHANGED <<held, returning, reading, jobs, capLen, taken, writing, covered, requested, raced, cut, stage, atClose, folder, faults>>
        /\ (writer' <=> writer) /\ (peer' <=> peer) /\ (timer' <=> timer)
        /\ peer /\ len' = [len EXCEPT ![l] = @ + 1]
    BY <1>2 DEF Announce, logVars, copyVars, closeVars
  <2>4. len' \in [LogSet -> Nat] /\ \A k \in LogSet : len'[k] = IF k = l THEN len[k] + 1 ELSE len[k]
    BY <2>0 DEF Inv, Types
  <2>1. Types'
    BY <2>0, <2>4 DEF Inv, Types
  <2>2. WithinLog'
    <3>1. \A k \in LogSet : len[k] <= len'[k]
      BY <2>4 DEF Inv, Types
    <3>2. ASSUME NEW j \in Jobs, jobs'[j].pc = "copying"
          PROVE  jobs'[j].end <= len'[Logs[jobs'[j].log]]
      <4> DEFINE k == Logs[jobs[j].log]
      <4>1. jobs[j].end <= len[k] /\ jobs' = jobs
        BY <2>0, <3>2 DEF Inv, WithinLog
      <4>2. len[k] <= len'[k] /\ len[k] \in Nat /\ len'[k] \in Nat /\ jobs[j].end \in Nat
        BY <1>20, <2>4, <3>1 DEF Inv, Types
      <4> QED
        BY <4>1, <4>2
    <3>3. reading' \in 0..len'[Data]
      BY <1>0, <2>0, <2>4, <3>1 DEF Inv, Types, WithinLog
    <3> QED
      BY <2>0, <2>4, <3>1, <3>2, <3>3 DEF Inv, Types, WithinLog
  <2>3. Shutting'
    BY <1>0, <2>0 DEF Inv, Types, Shutting
  <2> QED
    BY <2>1, <2>2, <2>3 DEF Inv
<1>3. ASSUME NEW l \in LogSet, Fetch(l) PROVE Inv'
  <2>0. /\ UNCHANGED <<len, returning, reading, jobs, capLen, taken, writing, covered, requested, raced, cut, stage, atClose, folder, faults>>
        /\ (writer' <=> writer) /\ (peer' <=> peer) /\ (timer' <=> timer)
        /\ peer /\ held[l] < len[l] /\ held' = [held EXCEPT ![l] = @ + 1]
    BY <1>3 DEF Fetch, logVars, copyVars, closeVars
  <2>4. held' \in [LogSet -> Nat] /\ \A k \in LogSet : held'[k] = IF k = l THEN held[k] + 1 ELSE held[k]
    BY <2>0 DEF Inv, Types
  <2>1. Types'
    BY <2>0, <2>4 DEF Inv, Types
  <2>2. WithinLog'
    BY <1>0, <1>20, <2>0, <2>4 DEF Inv, Types, WithinLog
  <2>3. Shutting'
    BY <1>0, <2>0 DEF Inv, Types, Shutting
  <2> QED
    BY <2>1, <2>2, <2>3 DEF Inv
<1>4. ASSUME NEW l \in LogSet, CopyStep(l) PROVE Inv'
  BY <1>4, CopyStepInv
<1>5. CASE WriteReturns
  <2>0. /\ UNCHANGED <<len, held, reading, jobs, capLen, taken, writing, covered, requested, raced, cut, stage, atClose, folder, faults>>
        /\ (writer' <=> writer) /\ (peer' <=> peer)
        /\ returning > 0 /\ returning' = returning - 1
        /\ timer' => timer \/ stage = "open"
    BY <1>5 DEF WriteReturns, logVars, copyVars, closeVars, Scheduled
  <2>1. Types'
    BY <1>0, <2>0 DEF Inv, Types
  <2>2. WithinLog'
    BY <1>0, <1>20, <2>0 DEF Inv, Types, WithinLog
  <2>3. Shutting'
    BY <1>0, <2>0 DEF Inv, Types, Shutting
  <2> QED
    BY <2>1, <2>2, <2>3 DEF Inv
<1>6. CASE Entries \/ EntriesReturn
  <2>0. /\ UNCHANGED <<len, held, returning, jobs, capLen, taken, writing, covered, requested, raced, cut, stage, atClose, folder, faults>>
        /\ (writer' <=> writer) /\ (peer' <=> peer) /\ (timer' <=> timer)
        /\ reading' \in {0, held[Data], len[Data]}
    BY <1>6 DEF Entries, EntriesReturn, logVars, copyVars, closeVars, Readable
  <2>1. Types'
    BY <1>0, <2>0 DEF Inv, Types
  <2>2. WithinLog'
    BY <1>0, <1>20, <2>0 DEF Inv, Types, WithinLog
  <2>3. Shutting'
    BY <1>0, <2>0 DEF Inv, Types, Shutting
  <2> QED
    BY <2>1, <2>2, <2>3 DEF Inv
<1>7. CASE PeerComesOrGoes
  <2>0. /\ UNCHANGED <<len, held, returning, reading, jobs, capLen, taken, writing, covered, requested, raced, cut, stage, atClose, folder, faults>>
        /\ (writer' <=> writer) /\ (timer' <=> timer)
        /\ ~writer
    BY <1>7 DEF PeerComesOrGoes, logVars, copyVars, closeVars
  <2>1. Types'
    BY <1>0, <2>0 DEF Inv, Types
  <2>2. WithinLog'
    BY <1>0, <1>20, <2>0 DEF Inv, Types, WithinLog
  <2>3. Shutting'
    BY <1>0, <2>0 DEF Inv, Types, Shutting
  <2> QED
    BY <2>1, <2>2, <2>3 DEF Inv
<1>17. CASE MoveFolder
  <2>0. /\ UNCHANGED <<len, held, returning, reading, jobs, capLen, taken, writing, covered, requested, raced, cut, stage, atClose>>
        /\ (writer' <=> writer) /\ (peer' <=> peer) /\ (timer' <=> timer)
        /\ faults < MaxFaults /\ faults' = faults + 1 /\ folder' = "moved"
    BY <1>17 DEF MoveFolder, logVars, copyVars, closeVars
  <2>1. Types'
    BY <1>0, <2>0 DEF Inv, Types
  <2>2. WithinLog'
    BY <1>0, <1>20, <2>0 DEF Inv, Types, WithinLog
  <2>3. Shutting'
    BY <1>0, <2>0 DEF Inv, Types, Shutting
  <2> QED
    BY <2>1, <2>2, <2>3 DEF Inv
<1>8. ASSUME NEW j \in Background, TimerFires(j) \/ FlushStore(j) PROVE Inv'
  <2>0. /\ UNCHANGED <<len, held, returning, reading, capLen, taken, writing, covered, requested, raced, cut, stage, atClose, folder, faults>>
        /\ (writer' <=> writer) /\ (peer' <=> peer)
        /\ j \in Jobs /\ j # Closing /\ jobs[j].pc = "idle" /\ jobs' = [jobs EXCEPT ![j].pc = "stat"]
        /\ timer' => timer
    BY <1>0, <1>8 DEF TimerFires, FlushStore, logVars, copyVars, closeVars, Start, Jobs
  <2>1. Types'
    BY <1>0, <2>0 DEF Inv, Types, JobStates
  <2>2. WithinLog'
    BY <1>0, <1>20, <2>0 DEF Inv, Types, WithinLog
  <2>3. Shutting'
    BY <1>0, <2>0 DEF Inv, Types, Shutting, JobStates
  <2> QED
    BY <2>1, <2>2, <2>3 DEF Inv
<1>9. CASE Close
  <2>0. /\ UNCHANGED <<len, held, returning, reading, capLen, taken, writing, covered, requested, raced, cut, folder, faults>>
        /\ (writer' <=> writer) /\ (peer' <=> peer)
        /\ jobs' = [jobs EXCEPT ![Closing].pc = "stat"] /\ stage' = "flushing" /\ ~timer'
        /\ atClose' \in {len, atClose}
    BY <1>9 DEF Close, logVars, copyVars, closeVars, Start
  <2>1. Types'
    BY <1>0, <2>0 DEF Inv, Types, JobStates
  <2>2. WithinLog'
    <3>1. \A j \in Jobs : jobs'[j].pc = "copying" => jobs'[j] = jobs[j]
      BY <1>0, <1>20, <2>0 DEF Inv, Types, JobStates
    <3>2. \A l \in LogSet : atClose'[l] <= len[l]
      BY <2>0 DEF Inv, Types, WithinLog
    <3> QED
      BY <1>0, <1>20, <2>0, <3>1, <3>2 DEF Inv, Types, WithinLog
  <2>3. Shutting'
    BY <1>0, <2>0 DEF Inv, Types, Shutting, JobStates
  <2> QED
    BY <2>1, <2>2, <2>3 DEF Inv
<1>10. CASE CloseLogs
  <2>0. /\ UNCHANGED <<len, held, returning, reading, jobs, capLen, taken, writing, covered, requested, raced, cut, atClose, folder, faults>>
        /\ (writer' <=> writer) /\ (timer' <=> timer)
        /\ ~peer' /\ stage = "flushing" /\ stage' = "logsClosed" /\ jobs[Closing].pc = "idle"
    BY <1>10 DEF CloseLogs, logVars, copyVars, closeVars
  <2>1. Types'
    BY <1>0, <2>0 DEF Inv, Types
  <2>2. WithinLog'
    BY <1>0, <1>20, <2>0 DEF Inv, Types, WithinLog
  <2>3. Shutting'
    BY <1>0, <2>0 DEF Inv, Types, Shutting
  <2> QED
    BY <2>1, <2>2, <2>3 DEF Inv
<1>11. CASE CloseCapture \/ CloseStore
  <2>0. /\ UNCHANGED <<len, held, returning, reading, capLen, taken, writing, covered, raced, cut,
                        atClose, folder, faults>>
        /\ (writer' <=> writer) /\ (peer' <=> peer) /\ (timer' <=> timer)
        /\ stage \in {"logsClosed", "captureClosed"} /\ stage' \in {"captureClosed", "closed"}
        /\ requested' = [l \in LogSet |-> IF Copying(l) # {} /\ writer THEN taken[l] ELSE requested[l]]
        /\ jobs' = [j \in Jobs |->
                      IF jobs[j].pc \in {"listing", "listed", "copying"} THEN Idle ELSE jobs[j]]
    BY <1>11 DEF CloseCapture, CloseStore, Abort, logVars, copyVars, closeVars
  <2>1. Idle \in JobStates /\ Idle.pc = "idle"
    BY <1>0 DEF Idle, JobStates
  <2>2. jobs' \in [Jobs -> JobStates] /\ \A j \in Jobs : jobs'[j].pc \in {"idle", "stat"}
    BY <2>0, <2>1 DEF Inv, Types, JobStates
  <2>3. \A j \in Jobs : jobs[j].pc = "idle" => jobs'[j].pc = "idle"
    BY <2>0
  <2>7. /\ requested' \in [LogSet -> Nat]
        /\ \A l \in LogSet : requested'[l] <= len[l]
    BY <2>0 DEF Inv, Types, WithinLog
  <2>4. Types'
    BY <2>0, <2>2, <2>7 DEF Inv, Types
  <2>5. WithinLog'
    BY <2>0, <2>2, <2>7 DEF Inv, Types, WithinLog
  <2>6. Shutting'
    BY <1>0, <2>0, <2>2, <2>3 DEF Inv, Types, Shutting
  <2> QED
    BY <2>4, <2>5, <2>6 DEF Inv
<1>12. ASSUME NEW j \in Jobs, CallFails(j) PROVE Inv'
  <2>0. /\ UNCHANGED <<len, held, returning, reading, capLen, taken, writing, covered, requested,
                        raced, cut, stage, atClose, folder>>
        /\ (writer' <=> writer) /\ (peer' <=> peer) /\ (timer' <=> timer)
        /\ jobs[j].pc \in {"listing", "listed"} /\ jobs' = [jobs EXCEPT ![j] = Idle]
        /\ faults < MaxFaults /\ faults' = faults + 1
    BY <1>12 DEF CallFails, logVars, copyVars, closeVars
  <2>1. Idle \in JobStates /\ Idle.pc = "idle"
    BY <1>0 DEF Idle, JobStates
  <2>3. Types'
    BY <1>0, <2>0, <2>1 DEF Inv, Types
  <2>4. WithinLog'
    BY <2>0, <2>1 DEF Inv, Types, WithinLog
  <2>5. Shutting'
    BY <1>0, <2>0, <2>1 DEF Inv, Types, Shutting
  <2> QED
    BY <2>3, <2>4, <2>5 DEF Inv
<1>18. ASSUME NEW l \in LogSet, FileFails(l) PROVE Inv'
  BY <1>18, FileFailsInv
<1>13. ASSUME NEW j \in Jobs, Stat(j) PROVE Inv'
  <2>1. UNCHANGED <<logVars, returning, reading, timer, copyVars, stage, atClose, folder, faults>>
    BY <1>13 DEF Stat
  <2>2. \E job \in JobStates :
            jobs' = [jobs EXCEPT ![j] = job] /\ job.pc # "copying"
                /\ (job.pc = "idle" \/ (job.pc = "listing" /\ stage # "closed"))
    <3>1. CASE folder = "moved"
      <4>1. Idle \in JobStates /\ Idle.pc = "idle"
        BY <1>0 DEF Idle, JobStates
      <4> QED
        BY <1>13, <3>1, <4>1 DEF Stat, Inv, Types
    <3>2. CASE folder # "moved"
      <4>1. Advance(j, 1)
        BY <1>13, <3>2 DEF Stat
      <4> QED
        BY <1>0, <4>1, Advances DEF Inv
    <3> QED
      BY <3>1, <3>2
  <2>3. PICK job \in JobStates :
            jobs' = [jobs EXCEPT ![j] = job] /\ job.pc # "copying"
                /\ (job.pc = "idle" \/ (job.pc = "listing" /\ stage # "closed"))
    BY <2>2
  <2>4. Types'
    BY <2>1, <2>2, <2>3 DEF Inv, Types, logVars, copyVars
  <2>5. WithinLog'
    BY <2>1, <2>3 DEF Inv, Types, WithinLog, logVars, copyVars
  <2>6. Shutting'
    BY <1>0, <1>13, <2>1, <2>3 DEF Inv, Types, Shutting, Stat
  <2> QED
    BY <2>4, <2>5, <2>6 DEF Inv
<1>14. ASSUME NEW j \in Jobs, List(j) PROVE Inv'
  <2>0. /\ UNCHANGED <<len, held, returning, reading, capLen, taken, writing, covered, requested,
                        cut, stage, atClose, faults>>
        /\ (writer' <=> writer) /\ (peer' <=> peer) /\ (timer' <=> timer)
        /\ jobs[j].pc = "listing" /\ jobs' = [jobs EXCEPT ![j].pc = "listed"]
        /\ folder' \in {"here", "moved", "back"}
        /\ raced' \in {raced, raced \cup {Logs[jobs[j].log]}}
    BY <1>14 DEF List, logVars, closeVars, Inv, Types
  <2>1. Types'
    BY <1>20, <2>0 DEF Inv, Types, JobStates
  <2>2. WithinLog'
    <3>1. \A i \in Jobs : jobs'[i].pc = "copying" => jobs'[i] = jobs[i]
      BY <1>20, <2>0 DEF Inv, Types, JobStates
    <3> QED
      BY <1>0, <1>20, <2>0, <3>1 DEF Inv, Types, WithinLog
  <2>3. Shutting'
    BY <1>0, <2>0 DEF Inv, Types, Shutting, JobStates
  <2> QED
    BY <2>1, <2>2, <2>3 DEF Inv
<1>19. ASSUME NEW j \in Jobs, Decide(j) PROVE Inv'
  <2> DEFINE l == Logs[jobs[j].log]
  <2>0. /\ jobs[j] \in JobStates /\ l \in LogSet /\ jobs[j].pc = "listed"
        /\ jobs[j].log + 1 \in 1..(Len(Logs) + 1)
    BY <1>20, <1>19 DEF Decide
  <2>1. UNCHANGED <<logVars, returning, reading, timer, capLen, taken, writing, covered, raced, cut,
                    stage, atClose, folder, faults>>
    BY <1>19 DEF Decide
  <2>2. /\ requested' \in [LogSet -> Nat]
        /\ \A k \in LogSet : requested'[k] <= len[k]
        /\ \E job \in JobStates :
            /\ jobs' = [jobs EXCEPT ![j] = job]
            /\ \/ job.pc = "idle"
               \/ job.pc = "listing" /\ stage # "closed"
               \/ job.pc = "copying" /\ job.log = jobs[j].log /\ job.end = len[l]
    <3>1. CASE capLen[l] >= len[l]
      <4>1. Advance(j, jobs[j].log + 1) /\ UNCHANGED requested
        BY <1>19, <3>1 DEF Decide
      <4> QED
        BY <2>0, <4>1, Advances DEF Inv, Types, WithinLog
    <3>2. CASE ~(capLen[l] >= len[l])
      <4>1. /\ jobs' = [jobs EXCEPT ![j] = [jobs[j] EXCEPT !.pc = "copying", !.end = len[l]]]
            /\ requested' = [requested EXCEPT ![l] =
                                IF writer THEN Max({requested[l], len[l]}) ELSE requested[l]]
        BY <1>19, <2>0, <3>2 DEF Decide, Requested, Inv, Types
      <4>2. Max({requested[l], len[l]}) = IF requested[l] >= len[l] THEN requested[l] ELSE len[l]
        BY <2>0, LargerOf DEF Inv, Types
      <4>3. requested' \in [LogSet -> Nat] /\ \A k \in LogSet : requested'[k] <= len[k]
        BY <2>0, <4>1, <4>2 DEF Inv, Types, WithinLog
      <4>4. [jobs[j] EXCEPT !.pc = "copying", !.end = len[l]] \in JobStates
        BY <2>0 DEF JobStates, Inv, Types
      <4> QED
        BY <2>0, <4>1, <4>3, <4>4 DEF Inv, Types, JobStates
    <3> QED
      BY <3>1, <3>2
  <2>3. PICK job \in JobStates :
            /\ jobs' = [jobs EXCEPT ![j] = job]
            /\ \/ job.pc = "idle"
               \/ job.pc = "listing" /\ stage # "closed"
               \/ job.pc = "copying" /\ job.log = jobs[j].log /\ job.end = len[l]
    BY <2>2
  <2>4. Types'
    BY <2>1, <2>2, <2>3 DEF Inv, Types, logVars
  <2>5. WithinLog'
    <3>1. ASSUME NEW i \in Jobs, jobs'[i].pc = "copying"
          PROVE  jobs'[i].end <= len[Logs[jobs'[i].log]]
      <4>1. CASE i = j
        <5>1. jobs'[i] = job /\ len[l] \in Nat
          BY <2>0, <2>3, <4>1 DEF Inv, Types
        <5> QED
          BY <2>3, <3>1, <5>1
      <4>2. CASE i # j
        <5>1. jobs'[i] = jobs[i]
          BY <2>3, <4>2 DEF Inv, Types
        <5> QED
          BY <3>1, <5>1 DEF Inv, WithinLog
      <4> QED
        BY <4>1, <4>2
    <3> QED
      BY <2>1, <2>2, <3>1 DEF Inv, Types, WithinLog, logVars
  <2>6. Shutting'
    BY <1>0, <2>0, <2>1, <2>3 DEF Inv, Types, Shutting
  <2> QED
    BY <2>4, <2>5, <2>6 DEF Inv
<1>15. ASSUME NEW j \in Jobs, CopyDone(j) PROVE Inv'
  <2>0. /\ jobs[j] \in JobStates /\ jobs[j].pc = "copying"
        /\ jobs[j].log + 1 \in 1..(Len(Logs) + 1)
    BY <1>20, <1>15 DEF CopyDone
  <2>1. UNCHANGED <<logVars, returning, reading, timer, copyVars, stage, atClose, folder, faults>>
    BY <1>15 DEF CopyDone
  <2>3. \E job \in JobStates :
            jobs' = [jobs EXCEPT ![j] = job] /\ job.pc # "copying"
                /\ (job.pc = "idle" \/ (job.pc = "listing" /\ stage # "closed"))
    <3>1. Advance(j, jobs[j].log + 1)
      BY <1>15 DEF CopyDone
    <3> QED
      BY <2>0, <3>1, Advances DEF Inv
  <2>4. PICK job \in JobStates :
            jobs' = [jobs EXCEPT ![j] = job] /\ job.pc # "copying"
                /\ (job.pc = "idle" \/ (job.pc = "listing" /\ stage # "closed"))
    BY <2>3
  <2>5. Types'
    BY <2>0, <2>1, <2>3, <2>4 DEF Inv, Types, logVars, copyVars
  <2>6. WithinLog'
    BY <2>0, <2>1, <2>4 DEF Inv, Types, WithinLog, logVars, copyVars
  <2>7. Shutting'
    BY <1>0, <2>0, <2>1, <2>4 DEF Inv, Types, Shutting
  <2> QED
    BY <2>5, <2>6, <2>7 DEF Inv
<1>16. CASE UNCHANGED vars
  BY <1>16 DEF Inv, Types, WithinLog, Shutting, vars
<1> QED
  BY <1>1, <1>2, <1>3, <1>4, <1>5, <1>6, <1>7, <1>8, <1>9, <1>10, <1>11, <1>12, <1>13, <1>14,
     <1>15, <1>16, <1>17, <1>18, <1>19 DEF Next, JobStep, CloseStep

Flags == writer \in BOOLEAN /\ local \in BOOLEAN /\ peer \in BOOLEAN /\ timer \in BOOLEAN /\ capture \in BOOLEAN

LEMMA FlagsKeep == Flags /\ [Next]_vars => Flags'
<1> SUFFICES ASSUME Flags, [Next]_vars
             PROVE  Flags'
  OBVIOUS
<1> USE DEF Flags, logVars, copyVars, closeVars
<1>1. ASSUME NEW l \in LogSet, AppendBlock(l) \/ Announce(l) \/ Fetch(l) \/ CopyStep(l) \/ FileFails(l)
      PROVE  Flags'
  BY <1>1 DEF AppendBlock, Announce, Fetch, CopyStep, Upgrade, Accept, FilesWritten, FileFails
<1>2. CASE Entries \/ EntriesReturn \/ MoveFolder \/ UNCHANGED vars
  BY <1>2 DEF Entries, EntriesReturn, MoveFolder, vars
<1>3. CASE WriteReturns
  BY <1>3 DEF WriteReturns, Scheduled
<1>4. CASE PeerComesOrGoes
  BY <1>4 DEF PeerComesOrGoes
<1>5. CASE Close \/ CloseStep
  BY <1>5 DEF Close, CloseStep, CloseLogs, CloseCapture, CloseStore, Abort
<1>6. ASSUME NEW j \in Jobs, Stat(j) \/ List(j) \/ Decide(j) \/ CopyDone(j)
      PROVE  Flags'
  BY <1>6 DEF Stat, List, Decide, CopyDone, Advance
<1>7. ASSUME NEW j, TimerFires(j) \/ FlushStore(j) \/ CallFails(j)
      PROVE  Flags'
  BY <1>7 DEF TimerFires, FlushStore, CallFails
<1> QED
  BY <1>1, <1>2, <1>3, <1>4, <1>5, <1>6, <1>7 DEF Next, JobStep

LEMMA Invariance == Spec => []Inv
  BY InitInv, NextInv, PTL DEF Spec

-----------------------------------------------------------------------------
(* What a close that nothing fails under leaves in the folder. *)

\* The capture has what a log was asked for, or a flush still asks it for that much.
Kept(l) ==
    \/ taken[l] >= requested[l]
    \/ \E j \in Jobs : /\ jobs[j].pc = "copying" /\ Logs[jobs[j].log] = l
                       /\ jobs[j].end = requested[l]

\* The flush of close() is past the log with index i.
Passed(i) ==
    /\ stage # "open"
    /\ \/ jobs[Closing].pc = "idle"
       \/ jobs[Closing].pc \in {"listing", "listed", "copying"} /\ i < jobs[Closing].log

\* The capture has the length the log had when close() was called.
Known(l) == capLen[l] >= atClose[l]

\* What the capture took is in the folder, or on the way, or files were renamed over
\* each other.
Placed(l) == covered[l] >= taken[l] \/ l \in writing \/ l \in raced

CopyInv ==
    writer /\ faults = 0 =>
        /\ folder = "here" /\ cut = {}
        /\ \A l \in LogSet : Kept(l) /\ Placed(l)
        /\ \A i \in 1..Len(Logs) : Passed(i) => Known(Logs[i])
        /\ stage # "open" /\ jobs[Closing].pc = "copying" =>
               jobs[Closing].end >= atClose[Logs[jobs[Closing].log]]

LEMMA CopyInit == Init => CopyInv
<1> SUFFICES ASSUME Init, writer
             PROVE  CopyInv
  BY DEF CopyInv
<1>1. Inv
  BY InitInv
<1>2. \A l \in LogSet : covered[l] = taken[l] /\ taken[l] = requested[l] /\ taken[l] \in Nat
  BY <1>1 DEF Inv, Types, WithinLog, Init
<1> QED
  BY <1>2 DEF CopyInv, Init, Kept, Placed, Passed

\* Steps that leave the flushes and the folder alone.
LEMMA Undisturbed ==
    ASSUME CopyInv, UNCHANGED <<jobs, copyVars, stage, atClose, folder, faults>>, writer' <=> writer
    PROVE  CopyInv'
  BY DEF CopyInv, Kept, Placed, Passed, Known, copyVars

\* The capture grows.
LEMMA Grows ==
    ASSUME Inv, Inv', CopyInv, NEW l \in LogSet, Upgrade(l) \/ Accept(l)
    PROVE  CopyInv'
<1>1. /\ UNCHANGED <<jobs, covered, requested, raced, cut, stage, atClose, folder, faults>>
      /\ (writer' <=> writer) /\ writing' = writing \cup {l}
      /\ \A k \in LogSet : capLen[k] <= capLen'[k] /\ taken[k] <= taken'[k]
      /\ \A k \in LogSet \ {l} : taken'[k] = taken[k]
  BY DEF Upgrade, Accept, logVars, closeVars, Inv, Types, WithinLog
<1> SUFFICES ASSUME writer, faults = 0
             PROVE  /\ \A k \in LogSet : Kept(k)' /\ Placed(k)'
                    /\ \A i \in 1..Len(Logs) : Passed(i)' => Known(Logs[i])'
  BY <1>1 DEF CopyInv
<1>2. ASSUME NEW k \in LogSet PROVE Kept(k)' /\ Placed(k)'
  <2>1. /\ taken[k] \in Nat /\ taken'[k] \in Nat /\ requested[k] \in Nat /\ Kept(k) /\ Placed(k)
    BY DEF CopyInv, Inv, Types
  <2> QED
    BY <1>1, <2>1 DEF Kept, Placed
<1>3. ASSUME NEW i \in 1..Len(Logs), Passed(i)' PROVE Known(Logs[i])'
  <2>1. Logs[i] \in LogSet /\ Known(Logs[i])
    BY <1>1, <1>3, LogFacts DEF CopyInv, Passed
  <2>2. capLen[Logs[i]] <= capLen'[Logs[i]] /\ atClose'[Logs[i]] = atClose[Logs[i]]
    BY <1>1, <2>1
  <2>3. capLen[Logs[i]] \in Nat /\ capLen'[Logs[i]] \in Nat /\ atClose[Logs[i]] \in Nat
    BY <2>1 DEF Inv, Types
  <2> QED
    BY <2>1, <2>2, <2>3 DEF Known
<1> QED
  BY <1>2, <1>3

\* The files are in place.
LEMMA Written ==
    ASSUME Inv, Inv', CopyInv, NEW l \in LogSet, FilesWritten(l)
    PROVE  CopyInv'
<1>1. /\ UNCHANGED <<jobs, capLen, taken, requested, raced, cut, stage, atClose, folder, faults>>
      /\ (writer' <=> writer) /\ writing' = writing \ {l}
  BY DEF FilesWritten, logVars, closeVars
<1>2. PICK n \in Gives(l) : covered' = [covered EXCEPT ![l] = n]
  BY DEF FilesWritten
<1> SUFFICES ASSUME writer, faults = 0, NEW k \in LogSet
             PROVE  Placed(k)'
  BY <1>1 DEF CopyInv, Kept, Passed, Known
<1>3. CASE k # l
  BY <1>1, <1>2, <1>3 DEF CopyInv, Placed, Inv, Types
<1>4. CASE k = l
  <2>1. folder = "here" /\ cut = {}
    BY DEF CopyInv
  <2>2. l \in raced \/ n = taken[l]
    BY <2>1 DEF Gives
  <2> QED
    BY <1>1, <1>2, <1>4, <2>2 DEF Placed, Inv, Types
<1> QED
  BY <1>3, <1>4

\* A flush that begins copies nothing yet.
LEMMA Started ==
    ASSUME Inv, CopyInv, NEW j \in Jobs, jobs[j].pc = "idle",
           jobs' = [jobs EXCEPT ![j].pc = "stat"],
           UNCHANGED <<copyVars, folder, faults>>, writer' <=> writer,
           j = Closing \/ UNCHANGED <<stage, atClose>>
    PROVE  CopyInv'
<1>0. jobs[j] \in JobStates /\ Closing \in Jobs
  BY DEF Inv, Types, Jobs
<1>1. \A i \in Jobs : jobs[i].pc = "copying" => jobs'[i] = jobs[i]
  BY DEF Inv, Types
<1>2. jobs'[j].pc = "stat" /\ \A i \in Jobs : i # j => jobs'[i] = jobs[i]
  BY <1>0 DEF Inv, Types, JobStates
<1>3. \A l \in LogSet : (Kept(l) => Kept(l)') /\ (Placed(l) => Placed(l)')
  BY <1>1 DEF Kept, Placed, copyVars
<1>4. CASE j = Closing
  BY <1>2, <1>3, <1>4 DEF CopyInv, Passed, copyVars
<1>5. CASE j # Closing
  <2>1. jobs'[Closing] = jobs[Closing] /\ UNCHANGED <<stage, atClose>>
    BY <1>0, <1>2, <1>5
  <2> QED
    BY <1>3, <2>1 DEF CopyInv, Passed, Known, copyVars
<1> QED
  BY <1>4, <1>5

\* A flush that moves on from a log it does not copy any more.
LEMMA MovedOn ==
    ASSUME Inv, CopyInv, writer, faults = 0, NEW j \in Jobs, NEW i \in 1..(Len(Logs) + 1),
           Advance(j, i), UNCHANGED <<stage, atClose, copyVars, folder, faults>>, writer' <=> writer,
           j = Closing => stage = "flushing" /\ \A k \in 1..(i - 1) : Known(Logs[k]),
           jobs[j].pc = "copying" =>
               taken[Logs[jobs[j].log]] >= jobs[j].end
    PROVE  CopyInv'
<1>0. Len(Logs) \in Nat /\ Len(Logs) >= 1 /\ Closing \in Jobs
  BY LogFacts DEF Jobs
<1>1. \A k \in 1..Len(Logs) : ~Gapped(Logs[k])
  BY LogFacts DEF Gapped, Inv, Types, WithinLog
<1>2. PICK job \in JobStates :
            /\ jobs' = [jobs EXCEPT ![j] = job]
            /\ \/ job.pc = "idle" /\ (stage = "closed" \/ \A k \in i..Len(Logs) : Gapped(Logs[k]))
               \/ /\ job.pc = "listing" /\ stage # "closed" /\ job.log \in i..Len(Logs)
                  /\ \A k \in i..(job.log - 1) : Gapped(Logs[k])
  BY Advances DEF Inv
<1>3. jobs'[j] = job /\ \A k \in Jobs : k # j => jobs'[k] = jobs[k]
  BY <1>2 DEF Inv, Types
<1>5. ASSUME NEW k \in 1..Len(Logs), Passed(k)'
      PROVE  Known(Logs[k])
  <2>1. CASE j # Closing
    BY <1>0, <1>3, <1>5, <2>1 DEF CopyInv, Passed
  <2>2. CASE j = Closing /\ k < i
    BY <1>0, <2>2
  <2>3. CASE j = Closing /\ k >= i
    <3>1. k \in i..Len(Logs) /\ ~Gapped(Logs[k])
      BY <1>0, <1>1, <2>3
    <3>2. job.pc = "listing" /\ k < job.log /\ job.log \in i..Len(Logs)
      BY <1>2, <1>3, <1>5, <2>3, <3>1 DEF Passed
    <3>3. k \in i..(job.log - 1)
      BY <1>0, <3>1, <3>2
    <3> QED
      BY <1>2, <3>1, <3>2, <3>3
  <2> QED
    BY <1>0, <2>1, <2>2, <2>3
<1>6. ASSUME NEW l \in LogSet PROVE Kept(l)' /\ Placed(l)'
  <2>1. Kept(l) /\ Placed(l)
    BY DEF CopyInv
  <2>2. CASE taken[l] >= requested[l]
    BY <2>1, <2>2 DEF Kept, Placed, copyVars
  <2>3. ASSUME NEW g \in Jobs, jobs[g].pc = "copying", Logs[jobs[g].log] = l,
               jobs[g].end = requested[l]
        PROVE  Kept(l)' /\ Placed(l)'
    <3>1. CASE g = j
      BY <2>1, <2>3, <3>1 DEF Kept, Placed, copyVars
    <3>2. CASE g # j
      BY <1>3, <2>1, <2>3, <3>2 DEF Kept, Placed, copyVars
    <3> QED
      BY <3>1, <3>2
  <2> QED
    BY <2>1, <2>2, <2>3 DEF Kept
<1>7. jobs'[Closing].pc = "copying" => jobs'[Closing] = jobs[Closing]
  BY <1>0, <1>2, <1>3
<1>8. stage' # "open" /\ jobs'[Closing].pc = "copying" =>
         jobs'[Closing].end >= atClose'[Logs[jobs'[Closing].log]]
  BY <1>7 DEF CopyInv
<1>9. \A k \in 1..Len(Logs) : Passed(k)' => Known(Logs[k])'
  BY <1>5 DEF Known, copyVars
<1> QED
  BY <1>6, <1>8, <1>9 DEF CopyInv, copyVars

\* What the flush of close() has passed before it is done with a log.
LEMMA PassedBefore ==
    ASSUME Inv, CopyInv, writer, faults = 0,
           jobs[Closing].pc \in {"listing", "listed", "copying"}
    PROVE  stage = "flushing" /\ \A k \in 1..(jobs[Closing].log - 1) : Known(Logs[k])
<1>1. stage = "flushing"
  BY DEF Inv, Shutting
<1>2. jobs[Closing] \in JobStates /\ Len(Logs) \in Nat
  BY LogFacts DEF Inv, Types, Jobs
<1>3. \A k \in 1..(jobs[Closing].log - 1) : k \in 1..Len(Logs) /\ Passed(k)
  BY <1>1, <1>2 DEF Passed, JobStates
<1> QED
  BY <1>1, <1>3 DEF CopyInv

LEMMA ListKeeps ==
    ASSUME Inv, CopyInv, NEW j \in Jobs, List(j)
    PROVE  CopyInv'
<1>1. /\ UNCHANGED <<capLen, taken, writing, covered, requested, cut, stage, atClose, faults>>
      /\ (writer' <=> writer) /\ (folder = "here" => folder' = "here")
      /\ jobs[j].pc = "listing" /\ jobs' = [jobs EXCEPT ![j].pc = "listed"]
      /\ raced \subseteq raced'
  BY DEF List, logVars, closeVars
<1>2. jobs[j] \in JobStates /\ Closing \in Jobs
  BY DEF Inv, Types, Jobs
<1>3. /\ \A i \in Jobs : jobs[i].pc = "copying" => jobs'[i] = jobs[i]
      /\ \A i \in Jobs : i # j => jobs'[i] = jobs[i]
      /\ jobs'[j].pc = "listed" /\ jobs'[j].log = jobs[j].log
  BY <1>1, <1>2 DEF Inv, Types, JobStates
<1>4. \A l \in LogSet : (Kept(l) => Kept(l)') /\ (Placed(l) => Placed(l)')
  BY <1>1, <1>3 DEF Kept, Placed
<1>5. \A i \in 1..Len(Logs) : (Passed(i)' => Passed(i)) /\ (Known(Logs[i]) => Known(Logs[i])')
  BY <1>1, <1>2, <1>3 DEF Passed, Known
<1>6. jobs'[Closing].pc = "copying" => jobs'[Closing] = jobs[Closing]
  BY <1>2, <1>3
<1>7. stage' # "open" /\ jobs'[Closing].pc = "copying" =>
         jobs[Closing].pc = "copying" /\ UNCHANGED <<stage, atClose>> /\ jobs'[Closing] = jobs[Closing]
  BY <1>1, <1>6
<1> QED
  BY <1>1, <1>4, <1>5, <1>7 DEF CopyInv

\* Decide: what is not copied is known already; what is, is asked for to its end.
LEMMA DecideKeeps ==
    ASSUME Inv, Inv', CopyInv, NEW j \in Jobs, Decide(j)
    PROVE  CopyInv'
<1> DEFINE n == jobs[j].log
           l == Logs[n]
<1>1. /\ UNCHANGED <<len, capLen, taken, writing, covered, raced, cut, stage, atClose, faults, folder>>
      /\ (writer' <=> writer) /\ jobs[j].pc = "listed"
  BY DEF Decide, logVars
<1> SUFFICES ASSUME writer, faults = 0
             PROVE  CopyInv'
  BY <1>1 DEF CopyInv
<1>3. /\ jobs[j] \in JobStates /\ n \in 1..Len(Logs) /\ n + 1 \in 1..(Len(Logs) + 1)
      /\ l \in LogSet /\ Len(Logs) \in Nat /\ Closing \in Jobs
  <2>1. jobs[j] \in JobStates
    BY DEF Inv, Types
  <2> QED
    BY <2>1, LogFacts DEF JobStates, Jobs
<1>4. j = Closing => stage = "flushing" /\ \A k \in 1..(n - 1) : Known(Logs[k])
  BY <1>1, PassedBefore
<1>7. /\ len[l] \in Nat /\ capLen[l] \in Nat /\ requested[l] \in Nat /\ atClose[l] \in Nat
      /\ requested[l] <= len[l] /\ atClose[l] <= len[l]
  BY <1>3 DEF Inv, Types, WithinLog
<1>5. CASE capLen[l] >= len[l]
  <2>1. Advance(j, n + 1) /\ UNCHANGED requested
    BY <1>5 DEF Decide
  <2>2. Known(l)
    BY <1>5, <1>7 DEF Known
  <2>3. j = Closing => stage = "flushing" /\ \A k \in 1..(n + 1 - 1) : Known(Logs[k])
    <3> SUFFICES ASSUME j = Closing, NEW k \in 1..(n + 1 - 1)
                 PROVE  stage = "flushing" /\ Known(Logs[k])
      BY <1>4
    <3>1. k = n \/ k \in 1..(n - 1)
      BY <1>3
    <3> QED
      BY <1>4, <2>2, <3>1
  <2>4. UNCHANGED <<stage, atClose, copyVars, folder, faults>>
    BY <1>1, <2>1 DEF copyVars
  <2> QED
    BY <1>1, <1>3, <2>1, <2>3, <2>4, MovedOn
<1>6. CASE ~(capLen[l] >= len[l])
  <2>1. /\ jobs' = [jobs EXCEPT ![j] = [jobs[j] EXCEPT !.pc = "copying", !.end = len[l]]]
        /\ requested' = [requested EXCEPT ![l] = Max({requested[l], len[l]})]
    BY <1>3, <1>6 DEF Decide, Requested, Inv, Types
  <2>2. Max({requested[l], len[l]}) = len[l]
    BY <1>7, LargerOf
  <2>3. /\ \A k \in Jobs : k # j => jobs'[k] = jobs[k]
        /\ jobs'[j].pc = "copying" /\ jobs'[j].log = n /\ jobs'[j].end = len[l]
    BY <1>3, <2>1 DEF Inv, Types, JobStates
  <2>4. \A k \in LogSet : requested'[k] = IF k = l THEN len[l] ELSE requested[k]
    BY <1>3, <2>1, <2>2 DEF Inv, Types
  <2>5. ASSUME NEW k \in LogSet PROVE Kept(k)' /\ Placed(k)'
    <3>0. Kept(k) /\ Placed(k)
      BY DEF CopyInv
    <3>1. CASE k = l
      BY <1>1, <2>3, <2>4, <3>0, <3>1 DEF Kept, Placed
    <3>2. CASE k # l
      BY <1>1, <2>3, <2>4, <3>0, <3>2 DEF Kept, Placed
    <3> QED
      BY <3>1, <3>2
  <2>6. ASSUME NEW k \in 1..Len(Logs), Passed(k)'
        PROVE  Known(Logs[k])'
    <3>1. Passed(k)
      <4>1. CASE j = Closing
        BY <1>1, <1>3, <2>3, <2>6, <4>1 DEF Passed
      <4>2. CASE j # Closing
        BY <1>1, <1>3, <2>3, <2>6, <4>2 DEF Passed
      <4> QED
        BY <4>1, <4>2
    <3> QED
      BY <1>1, <3>1 DEF CopyInv, Known
  <2>7. stage' # "open" /\ jobs'[Closing].pc = "copying" =>
           jobs'[Closing].end >= atClose'[Logs[jobs'[Closing].log]]
    <3>1. CASE j = Closing
      BY <1>1, <1>7, <2>3, <3>1
    <3>2. CASE j # Closing
      BY <1>1, <1>3, <2>3, <3>2 DEF CopyInv
    <3> QED
      BY <3>1, <3>2
  <2>8. folder' = "here" /\ cut' = {}
    BY <1>1 DEF CopyInv
  <2> QED
    BY <2>5, <2>6, <2>7, <2>8 DEF CopyInv
<1> QED
  BY <1>5, <1>6

\* CopyDone: the capture has what was asked for, so it knows as much.
LEMMA CopyDoneKeeps ==
    ASSUME Inv, CopyInv, NEW j \in Jobs, CopyDone(j)
    PROVE  CopyInv'
<1> DEFINE n == jobs[j].log
           l == Logs[n]
<1>1. /\ UNCHANGED <<stage, atClose, copyVars, folder, faults>> /\ (writer' <=> writer)
      /\ jobs[j].pc = "copying" /\ Advance(j, n + 1) /\ jobs[j].end <= taken[l]
  BY DEF CopyDone, logVars
<1> SUFFICES ASSUME writer, faults = 0
             PROVE  CopyInv'
  BY <1>1 DEF CopyInv
<1>3. /\ jobs[j] \in JobStates /\ n \in 1..Len(Logs) /\ n + 1 \in 1..(Len(Logs) + 1)
      /\ l \in LogSet /\ Len(Logs) \in Nat /\ jobs[j].end \in Nat
  <2>1. jobs[j] \in JobStates
    BY DEF Inv, Types
  <2> QED
    BY <2>1, LogFacts DEF JobStates
<1>4. j = Closing => stage = "flushing" /\ \A k \in 1..(n + 1 - 1) : Known(Logs[k])
  <2> SUFFICES ASSUME j = Closing, NEW k \in 1..(n + 1 - 1)
               PROVE  stage = "flushing" /\ Known(Logs[k])
    BY <1>1, PassedBefore
  <2>1. stage = "flushing" /\ \A i \in 1..(n - 1) : Known(Logs[i])
    BY <1>1, PassedBefore
  <2>2. Known(l)
    <3>1. jobs[j].end >= atClose[l]
      BY <1>1, <2>1 DEF CopyInv
    <3> QED
      BY <1>1, <1>3, <3>1 DEF Known, Inv, Types, WithinLog
  <2>3. k = n \/ k \in 1..(n - 1)
    BY <1>3
  <2> QED
    BY <2>1, <2>2, <2>3
<1>5. taken[l] >= jobs[j].end
  BY <1>1, <1>3 DEF Inv, Types
<1> QED
  BY <1>1, <1>3, <1>4, <1>5, MovedOn

LEMMA CopyNext ==
    ASSUME Inv, Inv', CopyInv, [Next]_vars
    PROVE  CopyInv'
<1>0. Closing \in Jobs /\ Closing \notin Background /\ Background \subseteq Jobs
  BY SessionConstants DEF Jobs
<1>1. ASSUME NEW l \in LogSet, AppendBlock(l) \/ Announce(l) \/ Fetch(l)
      PROVE  CopyInv'
  <2>1. UNCHANGED <<jobs, copyVars, stage, atClose, folder, faults>> /\ (writer' <=> writer)
    BY <1>1 DEF AppendBlock, Announce, Fetch, logVars, copyVars, closeVars
  <2> QED
    BY <2>1, Undisturbed
<1>2. CASE WriteReturns \/ Entries \/ EntriesReturn \/ PeerComesOrGoes \/ UNCHANGED vars
  <2>1. UNCHANGED <<jobs, copyVars, stage, atClose, folder, faults>> /\ (writer' <=> writer)
    BY <1>2 DEF WriteReturns, Entries, EntriesReturn, PeerComesOrGoes, vars, logVars, copyVars, closeVars
  <2> QED
    BY <2>1, Undisturbed
<1>3. CASE MoveFolder
  BY <1>3, SessionConstants DEF MoveFolder, CopyInv, Inv, Types
<1>4. ASSUME NEW j \in Background, TimerFires(j) \/ FlushStore(j)
      PROVE  CopyInv'
  <2>1. /\ jobs[j].pc = "idle" /\ jobs' = [jobs EXCEPT ![j].pc = "stat"] /\ j \in Jobs
        /\ UNCHANGED <<copyVars, folder, faults, stage, atClose>>
        /\ (writer' <=> writer)
    BY <1>0, <1>4 DEF TimerFires, FlushStore, Start, logVars, closeVars
  <2> QED
    BY <2>1, Started
<1>5. CASE Close
  <2>1. /\ jobs[Closing].pc = "idle" /\ jobs' = [jobs EXCEPT ![Closing].pc = "stat"]
        /\ UNCHANGED <<copyVars, folder, faults>> /\ (writer' <=> writer)
    BY <1>5 DEF Close, Start, logVars
  <2> QED
    BY <1>0, <2>1, Started
<1>6. CASE CloseLogs
  <2>1. /\ UNCHANGED <<jobs, copyVars, folder, faults, atClose>>
        /\ (writer' <=> writer) /\ stage = "flushing" /\ jobs[Closing].pc = "idle"
    BY <1>6 DEF CloseLogs, logVars
  <2>2. \A i \in 1..Len(Logs) : Passed(i)
    BY <2>1 DEF Passed
  <2> QED
    BY <2>1, <2>2 DEF CopyInv, Kept, Placed, Known, copyVars
<1>7. CASE CloseCapture \/ CloseStore
  <2>1. /\ UNCHANGED <<capLen, taken, writing, covered, raced, cut, folder, faults, atClose>>
        /\ (writer' <=> writer) /\ stage \in {"logsClosed", "captureClosed"}
        /\ requested' = [l \in LogSet |-> IF Copying(l) # {} /\ writer THEN taken[l] ELSE requested[l]]
        /\ jobs' = [j \in Jobs |->
                      IF jobs[j].pc \in {"listing", "listed", "copying"} THEN Idle ELSE jobs[j]]
    BY <1>7 DEF CloseCapture, CloseStore, Abort, logVars
  <2>2. jobs[Closing].pc = "idle" /\ \A i \in 1..Len(Logs) : Passed(i)
    BY <2>1 DEF Passed, Inv, Shutting
  <2>3. ASSUME writer, NEW l \in LogSet, Kept(l)
        PROVE  Kept(l)'
    <3>1. CASE Copying(l) # {}
      BY <2>1, <2>3, <3>1 DEF Kept, Inv, Types
    <3>2. CASE Copying(l) = {}
      BY <2>1, <2>3, <3>2 DEF Kept, Copying, Calling
    <3> QED
      BY <3>1, <3>2
  <2>4. jobs'[Closing].pc = "idle"
    BY <1>0, <2>1, <2>2
  <2> QED
    BY <2>1, <2>2, <2>3, <2>4 DEF CopyInv, Placed, Known
<1>8. ASSUME NEW j \in Jobs, CallFails(j)
      PROVE  CopyInv'
  BY <1>8, SessionConstants DEF CallFails, CopyInv, Inv, Types
<1>9. ASSUME NEW l \in LogSet, FileFails(l)
      PROVE  CopyInv'
  BY <1>9, SessionConstants DEF FileFails, CopyInv, Inv, Types, logVars
<1>10. ASSUME NEW j \in Jobs, Stat(j)
      PROVE  CopyInv'
  <2>1. /\ UNCHANGED <<copyVars, folder, faults, stage, atClose>>
        /\ (writer' <=> writer) /\ jobs[j].pc = "stat"
        /\ folder # "moved" => Advance(j, 1)
    BY <1>10 DEF Stat, logVars
  <2> SUFFICES ASSUME writer, faults = 0
               PROVE  CopyInv'
    BY <2>1 DEF CopyInv
  <2>2. Advance(j, 1) /\ 1 \in 1..(Len(Logs) + 1)
    BY <2>1, LogFacts DEF CopyInv
  <2>3. j = Closing => stage = "flushing" /\ \A k \in 1..(1 - 1) : Known(Logs[k])
    BY <2>1 DEF Inv, Shutting
  <2> QED
    BY <2>1, <2>2, <2>3, MovedOn
<1> QED
  BY <1>1, <1>2, <1>3, <1>4, <1>5, <1>6, <1>7, <1>8, <1>9, <1>10, ListKeeps, DecideKeeps,
     CopyDoneKeeps, Grows, Written
  DEF Next, JobStep, CopyStep, CloseStep

-----------------------------------------------------------------------------
(* The theorems. *)

\* The variables of WorkspaceSession keep their types, and the folder never holds more of
\* a log than its capture took, nor that more than the device holds.
THEOREM TypeCorrect == Spec => []TypeOK
<1>1. Spec => []Flags
  <2>1. Init => Flags
    BY DEF Init, Flags
  <2> QED
    BY <2>1, FlagsKeep, PTL DEF Spec
<1>2. Flags /\ Inv => TypeOK
  BY LogFacts DEF Flags, Inv, Types, WithinLog, TypeOK, JobStates
<1> QED
  BY <1>1, <1>2, Invariance, PTL

\* close() clears the timer before anything else and no write arms it again
\* (scheduleFlush, packages/workspace/src/index.ts:610-621): no timer fires on closed
\* logs, whatever writes are still returning.
THEOREM NoLateTimer == Spec => []ClosedHasNoTimer
<1>1. Inv => ClosedHasNoTimer
  BY DEF Inv, Shutting, ClosedHasNoTimer
<1> QED
  BY <1>1, Invariance, PTL

\* close() flushes every log (index.ts:753-779 over flushLogToDir): with no failure and
\* no move of the folder, what the writing device had when it was called is in the
\* folder once the files under way are, but for a log whose flushes numbered their files
\* over each other's or whose capture had run ahead; for any logs and overlapping flushes.
THEOREM CloseIsComplete == Spec => []CloseLeavesCopy
<1>1. Inv /\ CopyInv => CloseLeavesCopy
  <2> SUFFICES ASSUME Inv, CopyInv, stage = "closed", writer, faults = 0, NEW l \in LogSet
               PROVE  covered[l] >= atClose[l] \/ l \in writing \/ l \in raced \/ Overran(l)
    BY DEF CloseLeavesCopy
  <2>1. \A j \in Jobs : jobs[j].pc # "copying"
    BY DEF Inv, Shutting
  <2>2. taken[l] >= requested[l] /\ Placed(l)
    BY <2>1 DEF CopyInv, Kept
  <2>3. PICK i \in 1..Len(Logs) : l = Logs[i]
    BY DEF LogSet
  <2>4. capLen[l] >= atClose[l]
    BY <2>3 DEF CopyInv, Passed, Known, Inv, Shutting
  <2>5. /\ covered[l] \in Nat /\ requested[l] \in Nat /\ atClose[l] \in Nat /\ taken[l] \in Nat
        /\ capLen[l] \in Nat
    BY DEF Inv, Types
  <2> QED
    BY <2>2, <2>4, <2>5 DEF Placed, Overran
<1>2. Spec => [](Inv /\ CopyInv)
  <2>1. Init => Inv /\ CopyInv
    BY InitInv, CopyInit
  <2>2. Inv /\ CopyInv /\ [Next]_vars => (Inv /\ CopyInv)'
    BY NextInv, CopyNext
  <2> QED
    BY <2>1, <2>2, PTL DEF Spec
<1> QED
  BY <1>1, <1>2, PTL

-----------------------------------------------------------------------------
(* Blobs.  The pieces of a content that a reference, or a write under way,  *)
(* names are in the log where it says, each up to the next.                 *)

Off(n) == n * ChunkBytes
Cut(c, n) == IF n < Len(c) THEN n ELSE Len(c)

Piece(c, i) == SubSeq(c, Off(i - 1) + 1, Cut(c, Off(i)))

Pieces(c, chunks) ==
    \A i \in 1..Len(chunks) :
        /\ chunks[i] \in 1..Len(log) /\ Off(i - 1) < Len(c)
        /\ log[chunks[i]].plaintext = Piece(c, i)

Blocks == [key : {K0}, plaintext : Seq(Nat)]

Referenced(ref) ==
    /\ ref.id \in Contents /\ ref.size = Len(ref.id) /\ ref.chunks \in Seq(Nat)
    /\ Pieces(ref.id, ref.chunks) /\ Len(ref.id) <= Off(Len(ref.chunks))

Writes ==
    [on : BOOLEAN, content : Contents \cup {<<>>}, offset : Nat, chunks : Seq(Nat), appended : Nat]

\* The block that is being appended, if there is one, holds the next piece.
Progresses(w) ==
    /\ w.on =>
         /\ w.content \in Contents /\ w.offset = Off(Len(w.chunks)) /\ Pieces(w.content, w.chunks)
         /\ w.appended # None =>
              /\ w.appended \in 1..Len(log) /\ w.offset < Len(w.content)
              /\ log[w.appended].plaintext = Piece(w.content, Len(w.chunks) + 1)
    /\ ~w.on => w.appended = None /\ w.content = <<>>

BlobsTypes ==
    /\ log \in Seq(Blocks) /\ Len(log) <= MaxBlocks /\ DOMAIN seen = Contents
    /\ write \in [Slots -> Writes] /\ crashes \in 0..MaxCrashes

BlobsInv ==
    /\ BlobsTypes
    /\ \A s \in Slots : Progresses(write[s])
    /\ \A ref \in refs : Referenced(ref)
    /\ \A c \in Contents : seen[c] # NoRef => Referenced(seen[c])

LEMMA OffFacts ==
    /\ Off(0) = 0 /\ ChunkBytes \in Nat /\ ChunkBytes > 0
    /\ \A n \in Nat : Off(n) \in Nat /\ Off(n + 1) = Off(n) + ChunkBytes
<1>1. ChunkBytes \in Nat /\ ChunkBytes > 0
  BY SizesAssumption
<1>2. \A n \in Nat : Off(n) \in Nat /\ Off(n + 1) = Off(n) + ChunkBytes
  BY <1>1 DEF Off
<1> QED
  BY <1>1, <1>2 DEF Off

LEMMA ContentFacts ==
    ASSUME NEW c \in Contents
    PROVE  /\ c \in Seq(Nat) /\ Len(c) \in Nat
           /\ \A n \in Nat : Cut(c, n) \in Nat /\ Cut(c, n) <= n /\ Cut(c, n) <= Len(c)
           /\ \A n \in Nat : Cut(c, n) = n \/ Cut(c, n) = Len(c)
<1>1. c \in Seq(Nat) /\ Len(c) \in Nat
  BY ContentsAssumption
<1> QED
  BY <1>1 DEF Cut

\* A piece is a sequence of bytes, and not an empty one.
LEMMA PieceFacts ==
    ASSUME NEW c \in Contents, NEW i \in Nat, Off(i) < Len(c)
    PROVE  Piece(c, i + 1) \in Seq(Nat)
<1> DEFINE m == Off(i) + 1
           n == Cut(c, Off(i + 1))
<1>0. Off(i) \in Nat /\ Off(i + 1) \in Nat /\ (i + 1) - 1 = i
  BY OffFacts
<1>1. m \in Int /\ n \in Int /\ 1 <= m /\ n <= Len(c) /\ c \in Seq(Nat)
  <2>1. c \in Seq(Nat) /\ n \in Nat /\ n <= Len(c)
    BY <1>0, ContentFacts
  <2> QED
    BY <1>0, <2>1
<1>2. \A j \in m..n : c[j] \in Nat
  BY <1>1
<1>3. Piece(c, i + 1) = SubSeq(c, m, n)
  BY <1>0 DEF Piece
<1> HIDE DEF m, n
<1>4. SubSeq(c, m, n) \in Seq(Nat)
  BY <1>1, <1>2, SubSeqProperties, Zenon
<1> QED
  BY <1>3, <1>4

\* The pieces of a content one after the other are the content.
LEMMA PiecesJoin ==
    ASSUME NEW c \in Contents, NEW parts \in Seq(Seq(Nat)),
           \A i \in 1..Len(parts) : Off(i - 1) < Len(c) /\ parts[i] = Piece(c, i),
           Len(c) <= Off(Len(parts))
    PROVE  FlattenSeq(parts) = c
<1> DEFINE n == Len(parts)
<1>0. n \in Nat /\ c \in Seq(Nat) /\ Len(c) \in Nat
  BY ContentFacts
<1>1. CASE n = 0
  <2>1. parts = <<>> /\ Len(c) = 0
    BY <1>0, <1>1, OffFacts, EmptySeq
  <2>2. c = <<>>
    BY <1>0, <2>1, EmptySeq
  <2> QED
    BY <2>1, <2>2 DEF FlattenSeq
<1>2. CASE n # 0
  <2> DEFINE Body(q) == [i \in 1..n |-> IF i = 1 THEN parts[i] ELSE q[i - 1] \o parts[i]]
             h == [i \in 1..n |-> SubSeq(c, 1, Cut(c, Off(i)))]
             flat == CHOOSE q : q = Body(q)
  <2>1. FlattenSeq(parts) = flat[n]
    BY <1>2 DEF FlattenSeq
  <2>2. ASSUME NEW i \in 1..n
        PROVE  h[i] = IF i = 1 THEN parts[i] ELSE h[i - 1] \o parts[i]
    <3>1. CASE i = 1
      <4>1. parts[1] = SubSeq(c, Off(0) + 1, Cut(c, Off(1))) /\ Off(0) + 1 = 1
        <5>1. parts[1] = Piece(c, 1)
          BY <3>1
        <5>2. Piece(c, 1) = SubSeq(c, Off(0) + 1, Cut(c, Off(1)))
          BY DEF Piece
        <5>3. Off(0) + 1 = 1
          BY OffFacts
        <5> QED
          BY <5>1, <5>2, <5>3
      <4>2. h[1] = SubSeq(c, 1, Cut(c, Off(1)))
        BY <3>1
      <4> HIDE DEF h
      <4> QED
        BY <3>1, <4>1, <4>2
    <3>2. CASE i # 1
      <4> DEFINE a == Off(i - 1)
                 b == Cut(c, Off(i))
      <4>1. i - 1 \in 1..n /\ i - 1 \in Nat /\ i \in Nat
        BY <1>0, <3>2
      <4>2. a \in Nat /\ a < Len(c) /\ Off(i) = a + ChunkBytes /\ Off(i) \in Nat
        BY <4>1, OffFacts
      <4>3. a <= b /\ b <= Len(c) /\ b \in Nat
        <5> DEFINE o == Off(i)
        <5>1. o \in Nat /\ a <= o /\ a < Len(c) /\ a \in Nat
          BY <4>2, OffFacts
        <5>2. b = IF o < Len(c) THEN o ELSE Len(c)
          BY DEF Cut
        <5> HIDE DEF o, a, b
        <5> QED
          BY <1>0, <5>1, <5>2
      <4>4. h[i - 1] = SubSeq(c, 1, a) /\ h[i] = SubSeq(c, 1, b) /\ parts[i] = SubSeq(c, a + 1, b)
        <5>1. Cut(c, a) = a
          BY <1>0, <4>2 DEF Cut
        <5> QED
          BY <4>1, <5>1 DEF Piece
      <4> HIDE DEF a, b, h
      <4>5. SubSeq(c, 1, a) \o SubSeq(c, a + 1, b) = SubSeq(c, 1, b)
        <5>1. 1 \in 1..(Len(c) + 1) /\ a \in (1 - 1)..Len(c) /\ b \in a..Len(c)
          BY <1>0, <4>2, <4>3
        <5> QED
          BY <1>0, <5>1, ConcatAdjacentSubSeq
      <4> QED
        BY <3>2, <4>4, <4>5
    <3> QED
      BY <3>1, <3>2
  <2>3. h = Body(h)
    BY <2>2
  <2> HIDE DEF h
  <2>4. flat = Body(flat)
    BY <2>3
  <2> HIDE DEF flat
  <2>5. \A i \in 1..n : flat[i] = IF i = 1 THEN parts[i] ELSE flat[i - 1] \o parts[i]
    <3>1. \A i \in 1..n : flat[i] = Body(flat)[i]
      BY <2>4
    <3> QED
      BY <3>1
  <2>6. \A i \in 1..n : flat[i] = h[i]
    <3> DEFINE T == {i \in 1..n : flat[i] # h[i]}
    <3> SUFFICES ASSUME T # {}
                 PROVE  FALSE
      OBVIOUS
    <3>1. T \in SUBSET Nat
      OBVIOUS
    <3>2. PICK i \in T : \A j \in T : i <= j
      BY <3>1, LeastOf
    <3>3. i \in 1..n /\ flat[i] # h[i] /\ i - 1 \notin T
      <4>1. i \in 1..n /\ flat[i] # h[i]
        BY <3>2
      <4>2. i \in Nat /\ ~(i <= i - 1)
        BY <1>0, <4>1
      <4> HIDE DEF T
      <4> QED
        BY <3>2, <4>1, <4>2
    <3>4. CASE i = 1
      BY <2>2, <2>5, <3>3, <3>4
    <3>5. CASE i # 1
      <4>1. i - 1 \in 1..n /\ flat[i - 1] = h[i - 1]
        BY <1>0, <3>3, <3>5
      <4> QED
        BY <2>2, <2>5, <3>3, <3>5, <4>1
    <3> QED
      BY <3>4, <3>5
  <2>7. h[n] = c
    <3>1. Cut(c, Off(n)) = Len(c)
      BY <1>0, OffFacts DEF Cut
    <3>2. n \in 1..n
      BY <1>0, <1>2
    <3> QED
      BY <1>0, <3>1, <3>2, SubSeqFull DEF h
  <2> QED
    BY <1>0, <1>2, <2>1, <2>6, <2>7
<1> QED
  BY <1>1, <1>2

\* What is referenced reads back, with the key and only with it.
LEMMA ReferencedReadsBack ==
    ASSUME NEW ref, log \in Seq(Blocks), Referenced(ref)
    PROVE  /\ Range(ref.chunks) \subseteq DOMAIN log
           /\ ReadBlob(ref, K0) = ref.id
           /\ \A k \in Keys \ {K0} : ref.size > 0 => ReadBlob(ref, k) = Failed
<1> DEFINE n == Len(ref.chunks)
           blocks == [i \in DOMAIN ref.chunks |-> log[ref.chunks[i]]]
           parts == [i \in DOMAIN blocks |-> blocks[i].plaintext]
<1>1. DOMAIN ref.chunks = 1..n /\ n \in Nat /\ ref.id \in Contents /\ ref.size = Len(ref.id)
      /\ Len(ref.id) <= Off(n)
  BY DEF Referenced
<1>2. \A i \in 1..n : /\ ref.chunks[i] \in 1..Len(log) /\ Off(i - 1) < Len(ref.id)
                      /\ log[ref.chunks[i]].plaintext = Piece(ref.id, i)
  BY DEF Referenced, Pieces
<1>3. \A i \in 1..n : blocks[i] = log[ref.chunks[i]] /\ blocks[i] \in Blocks
  BY <1>1, <1>2
<1>4. parts \in Seq(Seq(Nat)) /\ Len(parts) = n /\ \A i \in 1..n : parts[i] = Piece(ref.id, i)
  <2>1. parts = [i \in 1..n |-> blocks[i].plaintext]
    BY <1>1
  <2>2. \A i \in 1..n : blocks[i].plaintext \in Seq(Nat) /\ blocks[i].plaintext = Piece(ref.id, i)
    BY <1>2, <1>3 DEF Blocks
  <2> HIDE DEF parts, blocks
  <2>3. parts \in [1..n -> Seq(Nat)]
    BY <2>1, <2>2
  <2> QED
    BY <1>1, <2>1, <2>2, <2>3
<1>5. DOMAIN blocks = 1..n
  BY <1>1
<1>6. FlattenSeq(parts) = ref.id
  <2> HIDE DEF parts
  <2> QED
    BY <1>1, <1>2, <1>4, PiecesJoin
<1>7. \A k : ReadBlob(ref, k) =
        IF (\E i \in 1..n : blocks[i].key # k) \/ Len(ref.id) # ref.size \/ ref.id # ref.id
        THEN Failed ELSE ref.id
  <2>1. \A k : ReadBlob(ref, k) =
          IF (\E i \in DOMAIN blocks : ~Opens(blocks[i], k))
             \/ Len(FlattenSeq(parts)) # ref.size \/ FlattenSeq(parts) # ref.id
          THEN Failed ELSE FlattenSeq(parts)
    BY DEF ReadBlob
  <2> HIDE DEF parts, blocks
  <2> QED
    BY <1>5, <1>6, <2>1 DEF Opens
<1> HIDE DEF blocks
<1>8. \A i \in 1..n : blocks[i].key = K0
  BY <1>3 DEF Blocks
<1>9. ReadBlob(ref, K0) = ref.id
  BY <1>1, <1>7, <1>8
<1>10. ASSUME NEW k \in Keys \ {K0}, ref.size > 0
       PROVE  ReadBlob(ref, k) = Failed
  <2>1. n # 0
    <3>1. Len(ref.id) \in Nat /\ Len(ref.id) > 0
      BY <1>1, <1>10, ContentFacts
    <3>2. Off(0) = 0
      BY OffFacts
    <3> HIDE DEF n
    <3> QED
      BY <1>1, <3>1, <3>2
  <2>2. 1 \in 1..n
    BY <1>1, <2>1
  <2> QED
    BY <1>7, <1>8, <1>10, <2>2
<1>11. Range(ref.chunks) \subseteq DOMAIN log
  BY <1>1, <1>2 DEF Range
<1> QED
  BY <1>9, <1>10, <1>11

-----------------------------------------------------------------------------
\* The log only grows.
LogGrows == Len(log) <= Len(log)' /\ \A i \in 1..Len(log) : log'[i] = log[i]

LEMMA PiecesStay ==
    ASSUME log \in Seq(Blocks), log' \in Seq(Blocks), LogGrows,
           NEW c, NEW chunks, Pieces(c, chunks)
    PROVE  Pieces(c, chunks)'
<1>1. Len(log) \in Nat /\ Len(log)' \in Nat
  OBVIOUS
<1> QED
  BY <1>1 DEF Pieces, LogGrows

LEMMA ReferencedStays ==
    ASSUME log \in Seq(Blocks), log' \in Seq(Blocks), LogGrows, NEW ref, Referenced(ref)
    PROVE  Referenced(ref)'
BY PiecesStay DEF Referenced

LEMMA ProgressStays ==
    ASSUME log \in Seq(Blocks), log' \in Seq(Blocks), LogGrows, NEW w, Progresses(w)
    PROVE  Progresses(w)'
<1>1. Len(log) \in Nat /\ Len(log)' \in Nat
  OBVIOUS
<1> QED
  BY <1>1, PiecesStay DEF Progresses, LogGrows

LEMMA NoWriteProgresses == NoWrite \in Writes /\ Progresses(NoWrite) /\ Progresses(NoWrite)'
  BY EmptySeq DEF NoWrite, Writes, Progresses, None

\* One slot goes on while the log stays.
LEMMA SlotGoesOn ==
    ASSUME BlobsInv, NEW s \in Slots, NEW w \in Writes, write' = [write EXCEPT ![s] = w],
           UNCHANGED <<log, crashes>>, Progresses(w)
    PROVE  /\ write' \in [Slots -> Writes] /\ \A t \in Slots : Progresses(write[t])'
           /\ \A ref : Referenced(ref) => Referenced(ref)'
<1>1. \A t \in Slots : write'[t] = IF t = s THEN w ELSE write[t]
  BY DEF BlobsInv, BlobsTypes
<1>2. \A t \in Slots : Progresses(write'[t])
  BY <1>1 DEF BlobsInv
<1>3. \A v : Progresses(v) => Progresses(v)'
  BY DEF Progresses, Pieces
<1> QED
  BY <1>2, <1>3 DEF BlobsInv, BlobsTypes, Referenced, Pieces, Progresses

LEMMA BlobsBegin == BlobsInit => BlobsInv
<1> SUFFICES ASSUME BlobsInit
             PROVE  BlobsInv
  OBVIOUS
<1>1. write \in [Slots -> Writes] /\ \A s \in Slots : write[s] = NoWrite
  BY NoWriteProgresses DEF BlobsInit
<1>2. log \in Seq(Blocks) /\ Len(log) = 0 /\ MaxBlocks \in Nat /\ MaxCrashes \in Nat
  BY BlobsBounds, EmptySeq DEF BlobsInit
<1>3. DOMAIN seen = Contents /\ \A c \in Contents : seen[c] = NoRef
  BY DEF BlobsInit
<1>4. BlobsTypes
  BY <1>1, <1>2, <1>3 DEF BlobsTypes, BlobsInit
<1> QED
  BY <1>1, <1>3, <1>4, NoWriteProgresses DEF BlobsInv, BlobsInit

LEMMA BeginInv ==
    ASSUME BlobsInv, NEW s \in Slots, NEW c \in Contents, Begin(s, c)
    PROVE  BlobsInv'
<1>0. PICK w : w = [NoWrite EXCEPT !.on = TRUE, !.content = c]
  OBVIOUS
<1>1. /\ w.on = TRUE /\ w.content = c /\ w.offset = 0 /\ w.chunks = <<>> /\ w.appended = None
      /\ w \in Writes
  BY <1>0, EmptySeq DEF NoWrite, None, Writes
<1>2. Len(w.chunks) = 0
  BY <1>1
<1>3. Progresses(w)
  <2>1. Pieces(w.content, w.chunks)
    BY <1>2 DEF Pieces
  <2> QED
    BY <1>1, <1>2, <2>1, OffFacts DEF Progresses
<1>4. write' = [write EXCEPT ![s] = w] /\ UNCHANGED <<log, seen, refs, crashes>>
  BY <1>0 DEF Begin
<1>5. /\ write' \in [Slots -> Writes] /\ \A t \in Slots : Progresses(write[t])'
      /\ \A ref : Referenced(ref) => Referenced(ref)'
  BY <1>1, <1>3, <1>4, SlotGoesOn
<1> QED
  BY <1>4, <1>5 DEF BlobsInv, BlobsTypes

LEMMA FailsInv ==
    ASSUME BlobsInv, NEW s \in Slots, AppendFails(s)
    PROVE  BlobsInv'
<1>1. write' = [write EXCEPT ![s] = NoWrite] /\ UNCHANGED <<log, seen, refs, crashes>>
  BY DEF AppendFails
<1>2. /\ write' \in [Slots -> Writes] /\ \A t \in Slots : Progresses(write[t])'
      /\ \A ref : Referenced(ref) => Referenced(ref)'
  BY <1>1, NoWriteProgresses, SlotGoesOn
<1> QED
  BY <1>1, <1>2 DEF BlobsInv, BlobsTypes

\* A slot in which such a write is.
LEMMA SlotProgresses ==
    ASSUME NEW t, NEW u, write'[t] = u, Progresses(u)'
    PROVE  Progresses(write[t])'
BY DEF Progresses, Pieces

\* The chunk goes in where the log ends, whoever else has appended.
LEMMA AppendInv ==
    ASSUME BlobsInv, NEW s \in Slots, AppendChunk(s)
    PROVE  BlobsInv'
<1>0. PICK w : w = write[s]
  OBVIOUS
<1> DEFINE i == Len(w.chunks)
           b == Seal(ChunkOf(w), K0)
           grown == Append(log, b)
           v == [w EXCEPT !.appended = Len(grown)]
<1>1. /\ w \in Writes /\ w.on /\ w.offset < Len(w.content) /\ Progresses(w)
      /\ log \in Seq(Blocks) /\ Len(log) < MaxBlocks /\ Len(log) \in Nat
      /\ log' = grown /\ UNCHANGED <<seen, refs, crashes>>
  BY <1>0 DEF BlobsInv, BlobsTypes, AppendChunk, Loops
<1>2. write' = [write EXCEPT ![s] = v]
  BY <1>0, <1>1 DEF AppendChunk, BlobsInv, BlobsTypes
<1>3. w.content \in Contents /\ i \in Nat /\ w.offset = Off(i) /\ Pieces(w.content, w.chunks)
  BY <1>1 DEF Progresses, Writes
<1>4. ChunkOf(w) = Piece(w.content, i + 1) /\ ChunkOf(w) \in Seq(Nat)
  <2>1. Off(i + 1) = Off(i) + ChunkBytes /\ (i + 1) - 1 = i /\ Off(i) < Len(w.content)
    <3> HIDE DEF i
    <3> QED
      BY <1>1, <1>3, OffFacts
  <2>2. ChunkOf(w) = SubSeq(w.content, Off(i) + 1, Cut(w.content, Off(i + 1)))
    BY <1>3, <2>1 DEF ChunkOf, Cut
  <2>3. Piece(w.content, i + 1) = SubSeq(w.content, Off(i) + 1, Cut(w.content, Off(i + 1)))
    BY <2>1 DEF Piece
  <2> QED
    BY <1>3, <2>1, <2>2, <2>3, PieceFacts
<1>5. b \in Blocks /\ b.plaintext = ChunkOf(w)
  BY <1>4 DEF Seal, Blocks
<1>6. /\ v.on = w.on /\ v.content = w.content /\ v.offset = w.offset /\ v.chunks = w.chunks
      /\ v.appended = Len(grown) /\ v \in Writes
  <2>1. Len(grown) \in Nat
    <3> HIDE DEF b
    <3> QED
      BY <1>1, <1>5
  <2> HIDE DEF grown
  <2> QED
    BY <1>1, <2>1 DEF Writes
<1>7. /\ grown \in Seq(Blocks) /\ Len(grown) = Len(log) + 1 /\ grown[Len(log) + 1] = b
      /\ \A j \in 1..Len(log) : grown[j] = log[j]
  <2> HIDE DEF b
  <2> QED
    BY <1>1, <1>5, AppendProperties
<1>14. PICK new : new = v
  OBVIOUS
<1> HIDE DEF grown, b, v, i
<1>8. log' \in Seq(Blocks) /\ LogGrows /\ Len(log') <= MaxBlocks
  BY <1>1, <1>7, BlobsBounds DEF LogGrows
<1>9. Pieces(w.content, w.chunks)'
  BY <1>1, <1>3, <1>8, PiecesStay
<1>10. Progresses(new)'
  <2>1. /\ new.on = w.on /\ new.content = w.content /\ new.offset = w.offset
        /\ new.chunks = w.chunks
        /\ new.appended \in 1..Len(log') /\ log'[new.appended].plaintext = Piece(w.content, i + 1)
    <3>1. new.appended = Len(log) + 1 /\ Len(log') = Len(log) + 1 /\ log'[Len(log) + 1] = b
      BY <1>1, <1>6, <1>7, <1>14
    <3>2. log'[new.appended].plaintext = Piece(w.content, i + 1)
      BY <1>4, <1>5, <3>1
    <3>3. new.appended \in 1..Len(log')
      BY <1>1, <3>1
    <3> QED
      BY <1>6, <1>14, <3>2, <3>3
  <2> QED
    BY <1>1, <1>3, <1>9, <2>1 DEF Progresses, i
<1>11. \A t \in Slots : Progresses(write[t])'
  <2> SUFFICES ASSUME NEW t \in Slots
               PROVE  Progresses(write[t])'
    OBVIOUS
  <2>1. PICK u : u = write[t]
    OBVIOUS
  <2>2. write'[t] = IF t = s THEN new ELSE u
    BY <1>2, <1>14, <2>1 DEF BlobsInv, BlobsTypes
  <2>3. Progresses(u)'
    BY <1>1, <1>8, <2>1, ProgressStays DEF BlobsInv
  <2> QED
    BY <1>10, <2>2, <2>3, SlotProgresses
<1>12. write' \in [Slots -> Writes]
  BY <1>2, <1>6 DEF BlobsInv, BlobsTypes
<1>13. \A ref : Referenced(ref) => Referenced(ref)'
  BY <1>1, <1>8, ReferencedStays
<1> QED
  BY <1>1, <1>8, <1>11, <1>12, <1>13 DEF BlobsInv, BlobsTypes

LEMMA ReturnsInv ==
    ASSUME BlobsInv, NEW s \in Slots, AppendReturns(s)
    PROVE  BlobsInv'
<1>0. PICK w : w = write[s]
  OBVIOUS
<1> DEFINE i == Len(w.chunks)
           more == Append(w.chunks, w.appended)
           v == [w EXCEPT !.chunks = more, !.offset = w.offset + ChunkBytes, !.appended = None]
<1>1. /\ w \in Writes /\ Progresses(w) /\ w.appended # None
      /\ UNCHANGED <<log, seen, refs, crashes>>
  BY <1>0 DEF BlobsInv, BlobsTypes, AppendReturns
<1>2. write' = [write EXCEPT ![s] = v]
  BY <1>0, <1>1 DEF AppendReturns, IndexOf, BlobsInv, BlobsTypes
<1>3. /\ w.on /\ w.content \in Contents /\ w.offset = Off(i) /\ Pieces(w.content, w.chunks)
      /\ w.appended \in 1..Len(log) /\ w.offset < Len(w.content)
      /\ log[w.appended].plaintext = Piece(w.content, i + 1)
      /\ i \in Nat /\ w.chunks \in Seq(Nat) /\ w.appended \in Nat
  BY <1>1 DEF Progresses, Writes
<1>4. /\ more \in Seq(Nat) /\ Len(more) = i + 1 /\ more[i + 1] = w.appended
      /\ \A j \in 1..i : more[j] = w.chunks[j]
  <2> QED
    BY <1>3, AppendProperties
<1>5. /\ v.on /\ v.content = w.content /\ v.offset = Off(i + 1) /\ v.chunks = more
      /\ v.appended = None /\ v \in Writes
  <2>1. w.offset + ChunkBytes = Off(i + 1) /\ Off(i + 1) \in Nat
    <3> HIDE DEF i
    <3> QED
      BY <1>3, OffFacts
  <2> HIDE DEF more, i
  <2> QED
    BY <1>1, <1>3, <1>4, <2>1 DEF Writes, None
<1> HIDE DEF v, more, i
<1>6. Pieces(w.content, more)
  <2> SUFFICES ASSUME NEW j \in 1..(i + 1)
               PROVE  /\ more[j] \in 1..Len(log) /\ Off(j - 1) < Len(w.content)
                      /\ log[more[j]].plaintext = Piece(w.content, j)
    BY <1>4 DEF Pieces
  <2>1. CASE j \in 1..i
    BY <1>3, <1>4, <2>1 DEF Pieces, i
  <2>2. CASE j = i + 1
    <3>1. (i + 1) - 1 = i
      BY <1>3
    <3> QED
      BY <1>3, <1>4, <2>2, <3>1
  <2> QED
    BY <1>3, <2>1, <2>2
<1>7. Progresses(v)
  BY <1>3, <1>4, <1>5, <1>6 DEF Progresses
<1>8. /\ write' \in [Slots -> Writes] /\ \A t \in Slots : Progresses(write[t])'
      /\ \A ref : Referenced(ref) => Referenced(ref)'
  BY <1>1, <1>2, <1>5, <1>7, SlotGoesOn
<1> QED
  BY <1>1, <1>8 DEF BlobsInv, BlobsTypes

LEMMA ReturnInv ==
    ASSUME BlobsInv, NEW s \in Slots, Return(s)
    PROVE  BlobsInv'
<1>0. PICK w : w = write[s]
  OBVIOUS
<1>9. PICK ref : ref = RefOf(w)
  OBVIOUS
<1>1. /\ w \in Writes /\ Progresses(w) /\ w.on /\ ~(w.offset < Len(w.content))
      /\ seen' = [seen EXCEPT ![w.content] = ref] /\ refs' = refs \cup {ref}
      /\ write' = [write EXCEPT ![s] = NoWrite] /\ UNCHANGED <<log, crashes>>
  BY <1>0, <1>9 DEF BlobsInv, BlobsTypes, Return, Loops
<1>2. Referenced(ref)
  <2>1. /\ ref.id = w.content /\ ref.size = Len(w.content) /\ ref.chunks = w.chunks
    BY <1>9 DEF RefOf
  <2>2. w.content \in Contents /\ w.chunks \in Seq(Nat) /\ w.offset = Off(Len(w.chunks))
        /\ Pieces(w.content, w.chunks) /\ w.offset \in Nat
    BY <1>1 DEF Progresses, Writes
  <2>3. Len(w.content) <= Off(Len(w.chunks))
    BY <1>1, <2>2, ContentFacts
  <2> QED
    BY <2>1, <2>2, <2>3 DEF Referenced
<1>3. /\ write' \in [Slots -> Writes] /\ \A t \in Slots : Progresses(write[t])'
      /\ \A r : Referenced(r) => Referenced(r)'
  BY <1>1, NoWriteProgresses, SlotGoesOn
<1>4. \A r \in refs' : Referenced(r)'
  BY <1>1, <1>2, <1>3 DEF BlobsInv
<1>5. DOMAIN seen' = Contents /\ \A c \in Contents : seen'[c] = ref \/ seen'[c] = seen[c]
  BY <1>1 DEF BlobsInv, BlobsTypes
<1>6. \A c \in Contents : (seen[c] # NoRef => Referenced(seen[c]))'
  <2> SUFFICES ASSUME NEW c \in Contents, seen'[c] # NoRef
               PROVE  Referenced(seen[c])'
    OBVIOUS
  <2>1. PICK r : r = seen'[c]
    OBVIOUS
  <2>2. Referenced(r)
    BY <1>2, <1>5, <2>1 DEF BlobsInv
  <2>3. Referenced(r)'
    BY <1>3, <2>2
  <2> QED
    BY <2>1, <2>3 DEF Referenced, Pieces
<1> QED
  BY <1>1, <1>3, <1>4, <1>5, <1>6 DEF BlobsInv, BlobsTypes

LEMMA CrashInv ==
    ASSUME BlobsInv, Crash
    PROVE  BlobsInv'
<1>1. /\ write' = [s \in Slots |-> NoWrite] /\ seen' = [c \in Contents |-> NoRef]
      /\ UNCHANGED <<log, refs>> /\ crashes' \in 0..MaxCrashes
  BY BlobsBounds DEF Crash, BlobsInv, BlobsTypes
<1>2. write' \in [Slots -> Writes] /\ \A s \in Slots : write'[s] = NoWrite
  BY <1>1, NoWriteProgresses
<1>3. \A s \in Slots : Progresses(write[s])'
  BY <1>2, NoWriteProgresses DEF Progresses, Pieces
<1>4. \A ref \in refs' : Referenced(ref)'
  BY <1>1 DEF BlobsInv, Referenced, Pieces
<1> QED
  BY <1>1, <1>2, <1>3, <1>4 DEF BlobsInv, BlobsTypes

LEMMA BlobsStep == BlobsInv /\ [BlobsNext]_blobVars => BlobsInv'
<1> SUFFICES ASSUME BlobsInv, [BlobsNext]_blobVars
             PROVE  BlobsInv'
  OBVIOUS
<1>1. ASSUME NEW s \in Slots, \/ \E c \in Contents : Begin(s, c)
                              \/ AppendChunk(s) \/ AppendReturns(s) \/ AppendFails(s) \/ Return(s)
      PROVE  BlobsInv'
  BY <1>1, BeginInv, AppendInv, ReturnsInv, FailsInv, ReturnInv
<1>2. CASE Crash
  BY <1>2, CrashInv
<1>3. CASE UNCHANGED blobVars
  BY <1>3 DEF blobVars, BlobsInv, BlobsTypes, Progresses, Referenced, Pieces
<1> QED
  BY <1>1, <1>2, <1>3 DEF BlobsNext

\* The types of Blobs (packages/workspace/src/blobs.ts): every block of the log is sealed,
\* and an append under way has a block, for any contents and any overlapping writes.
THEOREM BlobTypes == BlobsSpec => []BlobsTypeOK
<1>1. BlobsInv => BlobsTypeOK
  <2> SUFFICES ASSUME BlobsInv
               PROVE  BlobsTypeOK
    OBVIOUS
  <2>1. Len(log) \in Nat /\ \A i \in DOMAIN log : log[i] \in Blocks
    BY DEF BlobsInv, BlobsTypes
  <2>2. \A s \in Slots : write[s].appended \in 0..Len(log) /\ write[s].content \in Contents \cup {<<>>}
    <3> SUFFICES ASSUME NEW s \in Slots
                 PROVE  write[s].appended \in 0..Len(log) /\ write[s].content \in Contents \cup {<<>>}
      OBVIOUS
    <3>1. write[s] \in Writes /\ Progresses(write[s])
      BY DEF BlobsInv, BlobsTypes
    <3> QED
      BY <2>1, <3>1 DEF Writes, Progresses, None
  <2> QED
    BY <2>1, <2>2, KeysAssumption DEF BlobsInv, BlobsTypes, BlobsTypeOK, Blocks
<1> QED
  BY <1>1, BlobsBegin, BlobsStep, PTL DEF BlobsSpec

\* writeBlob and readBlob (blobs.ts): for content of any length, in chunks of any size,
\* with any number of writes that overlap, fail or are interrupted, every reference that
\* was handed out or is cached reads back as its content, and only with the key.
THEOREM BlobsReadBack == BlobsSpec => []RefsReadBack
<1>1. BlobsInv => RefsReadBack
  <2> SUFFICES ASSUME BlobsInv, NEW ref \in Refs
               PROVE  /\ Range(ref.chunks) \subseteq DOMAIN log
                      /\ ReadBlob(ref, K0) = ref.id
                      /\ \A k \in Keys \ {K0} : ref.size > 0 => ReadBlob(ref, k) = Failed
    BY DEF RefsReadBack
  <2>1. Referenced(ref) /\ log \in Seq(Blocks)
    BY DEF BlobsInv, BlobsTypes, Refs
  <2> QED
    BY <2>1, ReferencedReadsBack
<1> QED
  BY <1>1, BlobsBegin, BlobsStep, PTL DEF BlobsSpec
=============================================================================
