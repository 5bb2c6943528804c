--------------------------- MODULE WorkspaceSession ---------------------------
(***************************************************************************)
(* One open workspace in its process (packages/workspace/src/index.ts over *)
(* packages/p2p-runtime/src/runtime.node.ts): writes arm a debounced flush *)
(* of every log into the folder, flushes can also be asked for, and        *)
(* close() flushes once more before it takes the runtime down.             *)
(*                                                                         *)
(* A flush of one log is what matters of TransportForm between flushes:    *)
(* which length it asks for, how far the capture replica is upgraded and   *)
(* filled meanwhile, that the files of what it took come later, and        *)
(* whether flushes numbered theirs from one listing.                       *)
(***************************************************************************)
EXTENDS Integers, Sequences, FiniteSets, FiniteSetsExt

CONSTANTS
    Logs,         \* the logs in flush order: data, key delivery, blobs
    Background,   \* flushStore calls of timers and clients that can overlap
    Closing,      \* the flushStore call of close()
    MaxLen,       \* bound: blocks of each log
    MaxFaults     \* bound: failures of the file system, moves of the folder

LogSet == {Logs[i] : i \in 1..Len(Logs)}
Data == Logs[1]
Jobs == Background \cup {Closing}

ASSUME SessionConstants ==
    /\ Logs \in Seq(LogSet) /\ Logs # <<>> /\ Closing \notin Background
    /\ MaxLen \in [LogSet -> Nat] /\ MaxFaults \in Nat

VARIABLES
    writer,      \* this device created the logs; any other only replicates them
    local,       \* such a device without a swarm, which replicates nothing
    len,         \* length of each log
    held,        \* its contiguousLength
    peer,        \* a peer is connected
    returning,   \* writes that have appended and not returned
    reading,     \* how far the entries() call under way reads, 0 if none is
    timer,       \* flushTimer is armed
    jobs,        \* flushStore calls: [pc, log (an index of Logs), end]
    capLen,      \* length of each log's capture replica
    taken,       \* the blocks it has
    writing,     \* logs with files on the way into the folder
    covered,     \* what the folder's transport form of each log covers
    capture,     \* captureStore # null
    folder,      \* "here", "moved", or "back": moved and made again
    stage,       \* how far close() has come
    faults,
    atClose,     \* history of a writer: what each log had when close() was called
    requested,   \* history of a writer: how far flushes have asked for each log, or got
    raced,       \* history: logs numbered while other files of them were on the way
    cut          \* history: logs that had a file fail

vars == <<writer, local, len, held, peer, returning, reading, timer, jobs, capLen, taken, writing,
          covered, capture, folder, stage, faults, atClose, requested, raced, cut>>

logVars == <<writer, local, len, held, peer>>
copyVars == <<capLen, taken, writing, covered, requested, raced, cut>>
closeVars == <<capture, stage, atClose>>

Idle == [pc |-> "idle", log |-> 1, end |-> 0]

NoBlocks == [l \in LogSet |-> 0]

\* The data log starts out empty, or on a device that replicates nothing as
\* hydrateLogFromDir left it: a folder that lacks a message, or has a damaged
\* one, makes a log whose length is known and whose tail is not.  The capture
\* replica is rebuilt from the same files.
Init ==
    /\ writer \in BOOLEAN /\ local \in BOOLEAN /\ peer = FALSE
    /\ local => ~writer
    /\ \E n \in 0..(IF local THEN MaxLen[Data] ELSE 0) :
          /\ len = [NoBlocks EXCEPT ![Data] = n]
          /\ \E h \in 0..n : held = [NoBlocks EXCEPT ![Data] = h]
    /\ returning = 0 /\ reading = 0 /\ timer = FALSE
    /\ jobs = [j \in Jobs |-> Idle]
    /\ capLen = len /\ taken = held /\ covered = held /\ writing = {}
    /\ capture = FALSE /\ folder = "here" /\ stage = "open" /\ faults = 0
    /\ atClose = NoBlocks /\ requested = len /\ raced = {} /\ cut = {}

-----------------------------------------------------------------------------
(* The logs. *)

LogsOpen == stage \in {"open", "flushing"}

\* The append of write(), of writeBlob() or of a key delivery.  Nothing stops
\* one while close() flushes.
AppendBlock(l) ==
    /\ writer /\ LogsOpen
    /\ len[l] < MaxLen[l]
    /\ len' = [len EXCEPT ![l] = @ + 1] /\ held' = [held EXCEPT ![l] = @ + 1]
    /\ returning' = IF l = Data THEN returning + 1 ELSE returning
    /\ UNCHANGED <<writer, local, peer, reading, timer, jobs, copyVars, closeVars, folder, faults>>

\* Not arming while a flush runs; arming whatever close() has done.
ScheduledWhenQuiet == timer \/ (stage = "open" /\ \A j \in Jobs : jobs[j].pc = "idle")
ScheduledAlways == TRUE

\* scheduleFlush(): write() calls it, writeBlob() and invite() do not.
Scheduled == timer \/ stage = "open"

WriteReturns ==
    /\ returning > 0
    /\ returning' = returning - 1
    /\ timer' = Scheduled
    /\ UNCHANGED <<logVars, reading, jobs, copyVars, closeVars, folder, faults>>

PeerComesOrGoes ==
    /\ ~writer /\ ~local /\ LogsOpen
    /\ peer' = ~peer
    /\ UNCHANGED <<writer, local, len, held, returning, reading, timer, jobs, copyVars, closeVars,
                   folder, faults>>

\* A peer announces a block the device does not hold.
Announce(l) ==
    /\ peer /\ len[l] < MaxLen[l]
    /\ len' = [len EXCEPT ![l] = @ + 1]
    /\ UNCHANGED <<writer, local, held, peer, returning, reading, timer, jobs, copyVars, closeVars,
                   folder, faults>>

\* A read of a block downloads it: entries(), readBlob().
Fetch(l) ==
    /\ peer /\ held[l] < len[l]
    /\ held' = [held EXCEPT ![l] = @ + 1]
    /\ UNCHANGED <<writer, local, len, peer, returning, reading, timer, jobs, copyVars, closeVars,
                   folder, faults>>

\* Reading to the log's length wherever the device is.
LengthKnown == len[Data]

\* A local-only device reads what it holds contiguously, for nobody can supply
\* the rest; any other reads all there is and waits for what it lacks.
Readable == IF local THEN held[Data] ELSE len[Data]

Entries ==
    /\ stage = "open" /\ reading = 0
    /\ reading' = Readable
    /\ UNCHANGED <<logVars, returning, timer, jobs, copyVars, closeVars, folder, faults>>

\* The last block has come, or the log was closed and get() rejects.
EntriesReturn ==
    /\ reading > 0
    /\ held[Data] >= reading \/ ~LogsOpen
    /\ reading' = 0
    /\ UNCHANGED <<logVars, returning, timer, jobs, copyVars, closeVars, folder, faults>>

MoveFolder ==
    /\ faults < MaxFaults /\ folder = "here"
    /\ faults' = faults + 1 /\ folder' = "moved"
    /\ UNCHANGED <<logVars, returning, reading, timer, jobs, copyVars, closeVars>>

-----------------------------------------------------------------------------
(* flushStore(). *)

Start(j) ==
    /\ jobs[j].pc = "idle"
    /\ jobs' = [jobs EXCEPT ![j].pc = "stat"]

TimerFires(j) ==
    /\ timer /\ stage = "open"
    /\ Start(j)
    /\ timer' = FALSE
    /\ UNCHANGED <<logVars, returning, reading, copyVars, closeVars, folder, faults>>

\* A client flushes before it shares the folder.
FlushStore(j) ==
    /\ stage = "open"
    /\ Start(j)
    /\ UNCHANGED <<logVars, returning, reading, timer, copyVars, closeVars, folder, faults>>

GappedOrFull(l) == LogsOpen /\ held[l] <= len[l]

\* A log with a gap is left out.  A closed log reports no length, so no gap.
Gapped(l) == LogsOpen /\ held[l] < len[l]

\* The loop moves on to the first log from index i with no gap.  A runtime
\* that is still open, even closing, opens its capture store again.
Advance(j, i) ==
    LET left == {k \in i..Len(Logs) : ~Gapped(Logs[k])} IN
    IF left = {} \/ stage = "closed"
    THEN /\ jobs' = [jobs EXCEPT ![j] = Idle]
         /\ UNCHANGED capture
    ELSE /\ jobs' = [jobs EXCEPT ![j] = [pc |-> "listing", log |-> Min(left), end |-> 0]]
         /\ capture' = TRUE

\* Only a folder that is in place is written to.
Stat(j) ==
    /\ jobs[j].pc = "stat"
    /\ IF folder = "moved"
       THEN jobs' = [jobs EXCEPT ![j] = Idle] /\ UNCHANGED capture
       ELSE Advance(j, 1)
    /\ UNCHANGED <<logVars, returning, reading, timer, copyVars, stage, atClose, folder, faults>>

\* Calls of flushLogToDir for a log that have listed its directory.
Calling(l) == {j \in Jobs : jobs[j].pc \in {"listed", "copying"} /\ Logs[jobs[j].log] = l}

Copying(l) == {j \in Calling(l) : jobs[j].pc = "copying"}

\* flushLogToDir makes the directory and numbers its files from what is there,
\* whatever other calls, or the files of one that is over, are about to add.
List(j) ==
    LET l == Logs[jobs[j].log] IN
    /\ jobs[j].pc = "listing"
    /\ jobs' = [jobs EXCEPT ![j].pc = "listed"]
    /\ folder' = IF folder = "moved" THEN "back" ELSE folder
    /\ raced' = IF Calling(l) # {} \/ l \in writing THEN raced \cup {l} ELSE raced
    /\ UNCHANGED <<logVars, returning, reading, timer, capLen, taken, writing, covered, requested,
                   cut, closeVars, faults>>

RequestedInclusive(l) == len[l] + 1

\* download({start: 0, end}).
Requested(l) == len[l]

\* A capture of the log's length has nothing to get; else the blocks up to that
\* length are asked for.
Decide(j) ==
    LET l == Logs[jobs[j].log] IN
    /\ jobs[j].pc = "listed"
    /\ IF capLen[l] >= len[l]
       THEN Advance(j, jobs[j].log + 1) /\ UNCHANGED requested
       ELSE /\ jobs' = [jobs EXCEPT ![j].pc = "copying", ![j].end = Requested(l)]
            /\ requested' = [requested EXCEPT ![l] = IF writer THEN Max({@, Requested(l)}) ELSE @]
            /\ UNCHANGED capture
    /\ UNCHANGED <<logVars, returning, reading, timer, capLen, taken, writing, covered, raced, cut,
                   stage, atClose, folder, faults>>

\* While a copy runs the replica follows the log's length, whatever the copy
\* asked for.  The message that says so is to be written too.
Upgrade(l) ==
    /\ Copying(l) # {} /\ capLen[l] < len[l]
    /\ capLen' = [capLen EXCEPT ![l] = len[l]]
    /\ writing' = writing \cup {l}
    /\ UNCHANGED <<logVars, returning, reading, timer, jobs, taken, covered, requested, raced, cut,
                   closeVars, folder, faults>>

\* The capture takes a block that was asked for.
Accept(l) ==
    /\ \E j \in Copying(l) : taken[l] < jobs[j].end
    /\ taken[l] < held[l] /\ taken[l] < capLen[l]
    /\ taken' = [taken EXCEPT ![l] = @ + 1]
    /\ writing' = writing \cup {l}
    /\ UNCHANGED <<logVars, returning, reading, timer, jobs, capLen, covered, requested, raced, cut,
                   closeVars, folder, faults>>

\* What a log's files give once they are all in place: what the capture took.
\* A directory made after the folder moved lacks the messages before, no reader
\* gets past a message that is lost, and files renamed over each other (see
\* TransportForm) may leave any part of it.
Gives(l) ==
    IF folder = "back" THEN {covered[l]}
    ELSE IF l \in raced THEN 0..taken[l]
    ELSE IF l \in cut THEN {covered[l]} ELSE {taken[l]}

\* The taps that were running are through, whatever has become of the flush.
FilesWritten(l) ==
    /\ l \in writing /\ folder # "moved"
    /\ writing' = writing \ {l}
    /\ \E n \in Gives(l) : covered' = [covered EXCEPT ![l] = n]
    /\ UNCHANGED <<logVars, returning, reading, timer, jobs, capLen, taken, requested, raced, cut,
                   closeVars, folder, faults>>

\* A file cannot be written (in a folder that has moved, say).  Those before it
\* are.  A flush that waits for the capture may reject, or not.
FileFails(l) ==
    /\ l \in writing
    /\ \/ faults < MaxFaults /\ faults' = faults + 1
       \/ folder = "moved" /\ UNCHANGED faults
    /\ cut' = cut \cup {l} /\ writing' = writing \ {l}
    /\ \E m \in Gives(l) : \E n \in {m} \cup covered[l]..m : covered' = [covered EXCEPT ![l] = n]
    /\ \E rejected \in SUBSET Copying(l) :
          jobs' = [j \in Jobs |-> IF j \in rejected THEN Idle ELSE jobs[j]]
    /\ UNCHANGED <<logVars, returning, reading, timer, capLen, taken, requested, raced, closeVars,
                   folder>>

\* Every block up to the end is in the capture; nobody waits for the files.
CopyDone(j) ==
    /\ jobs[j].pc = "copying"
    /\ jobs[j].end <= taken[Logs[jobs[j].log]]
    /\ Advance(j, jobs[j].log + 1)
    /\ UNCHANGED <<logVars, returning, reading, timer, copyVars, stage, atClose, folder, faults>>

\* A directory cannot be made or listed, a store not opened: flushStore rejects
\* and whoever called it carries on.
CallFails(j) ==
    /\ faults < MaxFaults /\ faults' = faults + 1
    /\ jobs[j].pc \in {"listing", "listed"}
    /\ jobs' = [jobs EXCEPT ![j] = Idle]
    /\ UNCHANGED <<logVars, returning, reading, timer, copyVars, closeVars, folder>>

-----------------------------------------------------------------------------
(* close(). *)

Close ==
    /\ stage = "open"
    /\ stage' = "flushing" /\ timer' = FALSE
    /\ Start(Closing)
    /\ atClose' = IF writer THEN len ELSE atClose
    /\ UNCHANGED <<logVars, returning, reading, copyVars, capture, folder, faults>>

\* runtime.close(), once the flush has returned or thrown: the logs, the swarm.
CloseLogs ==
    /\ stage = "flushing" /\ jobs[Closing].pc = "idle"
    /\ stage' = "logsClosed" /\ peer' = FALSE
    /\ UNCHANGED <<writer, local, len, held, returning, reading, timer, jobs, copyVars, capture,
                   atClose, folder, faults>>

\* A store that closes takes the sessions of every flush with it.  What the
\* capture took by then is written all the same.
Abort ==
    /\ jobs' = [j \in Jobs |->
                  IF jobs[j].pc \in {"listing", "listed", "copying"} THEN Idle ELSE jobs[j]]
    /\ requested' = [l \in LogSet |-> IF Copying(l) # {} /\ writer THEN taken[l] ELSE requested[l]]
    /\ UNCHANGED <<logVars, returning, reading, timer, capLen, taken, writing, covered, raced, cut,
                   atClose, folder, faults>>

CloseCapture ==
    /\ stage = "logsClosed"
    /\ stage' = "captureClosed" /\ capture' = FALSE
    /\ Abort

CloseStore ==
    /\ stage = "captureClosed"
    /\ stage' = "closed"
    /\ Abort /\ UNCHANGED capture

JobStep(j) == Stat(j) \/ List(j) \/ Decide(j) \/ CopyDone(j)
CopyStep(l) == Upgrade(l) \/ Accept(l) \/ FilesWritten(l)
CloseStep == CloseLogs \/ CloseCapture \/ CloseStore

Next ==
    \/ \E l \in LogSet : AppendBlock(l) \/ Announce(l) \/ Fetch(l) \/ CopyStep(l) \/ FileFails(l)
    \/ WriteReturns \/ Entries \/ EntriesReturn \/ PeerComesOrGoes \/ MoveFolder \/ Close \/ CloseStep
    \/ \E j \in Background : TimerFires(j) \/ FlushStore(j)
    \/ \E j \in Jobs : JobStep(j) \/ CallFails(j)

Spec == Init /\ [][Next]_vars

\* The event loop runs timers, continuations and the in-process replication.
\* Nobody has to write, connect, read or close.
FairSpec ==
    /\ Spec
    /\ WF_vars(WriteReturns) /\ WF_vars(EntriesReturn) /\ WF_vars(CloseStep)
    /\ WF_vars(\E j \in Background : TimerFires(j))
    /\ \A j \in Jobs : WF_vars(JobStep(j))
    /\ \A l \in LogSet : WF_vars(Upgrade(l)) /\ WF_vars(Accept(l)) /\ WF_vars(FilesWritten(l))

-----------------------------------------------------------------------------
(* Properties. *)

TypeOK ==
    /\ {writer, local, peer} \subseteq BOOLEAN /\ timer \in BOOLEAN /\ capture \in BOOLEAN
    /\ {len, held, capLen, taken, covered, atClose, requested} \subseteq [LogSet -> Nat]
    /\ \A l \in LogSet : /\ {held[l], capLen[l], requested[l]} \subseteq 0..len[l]
                         /\ taken[l] <= held[l] /\ taken[l] <= capLen[l] /\ covered[l] <= taken[l]
    /\ returning \in Nat /\ reading \in 0..len[Data] /\ faults \in 0..MaxFaults
    /\ {writing, raced, cut} \subseteq SUBSET LogSet
    /\ jobs \in [Jobs -> [pc : {"idle", "stat", "listing", "listed", "copying"},
                          log : 1..Len(Logs), end : Nat]]
    /\ folder \in {"here", "moved", "back"}
    /\ stage \in {"open", "flushing", "logsClosed", "captureClosed", "closed"}

\* A capture that has run ahead of every flush: an append during a flush.
Overran(l) == capLen[l] > requested[l]

\* What close() leaves in the folder, on the device that writes: all it had
\* when close() was called, once the files that close() did not wait for are in
\* place, unless flushes renamed files over each other or the capture had been
\* taken past what any flush asked for.
CloseLeavesCopy ==
    stage = "closed" /\ writer /\ faults = 0 =>
        \A l \in LogSet :
            covered[l] >= atClose[l] \/ l \in writing \/ l \in raced \/ Overran(l)

\* "So a late timer cannot write to a closed log": no timer is pending once
\* close() has run, though writes may still be returning.
ClosedHasNoTimer == stage # "open" => ~timer

\* "The folder trails the log by seconds instead of by a session": a write is
\* in the folder some time later without anyone closing the workspace, unless
\* flushes of the log have raced or its capture has run ahead.
WritesReachFolder ==
    \A n \in 1..MaxLen[Data] :
        len[Data] >= n /\ writer ~>
            \/ covered[Data] >= n
            \/ stage # "open" \/ faults > 0 \/ Data \in raced \/ Overran(Data)

\* Where no block can be missing or be announced meanwhile, close() returns
\* whatever fails and whatever other flushes are doing.
CloseReturns == (writer \/ local) /\ stage # "open" ~> stage = "closed"

\* "A local-only log must not wait": where no block can come from anyone,
\* entries() returns, though the folder it was hydrated from was damaged.
EntriesSettle == (writer \/ local) /\ reading > 0 ~> reading = 0
=============================================================================
