---------------------------- MODULE TransportForm ----------------------------
(***************************************************************************)
(* The transport form of one log (packages/p2p-runtime/src/                *)
(* transport-form.ts).  A flush replicates the main log into a persistent  *)
(* capture replica and writes every message the capture accepts to a       *)
(* numbered file; hydration replays the files into another core.           *)
(*                                                                         *)
(* A block is its index: the log is append-only, so an index names one     *)
(* content for ever.  A message keeps what decides whether a reader        *)
(* accepts it.  Temp files are not state, no reader lists one: a message   *)
(* is being written or is committed.                                       *)
(*                                                                         *)
(* Nothing orders two calls of flushLogToDir, and a call awaits the        *)
(* download, which Hypercore answers once the capture has the blocks, not  *)
(* its taps, which then still have to write and rename: a call may list    *)
(* the folder while another runs, or while files of one that has returned  *)
(* or thrown are being written.                                            *)
(***************************************************************************)
EXTENDS Integers, Sequences, FiniteSets, FiniteSetsExt, SequencesExt

CONSTANTS
    Flushers,    \* calls of flushLogToDir for this log that can overlap
    MaxName,     \* the largest file name SEQ_RE accepts (999999 in the code)
    MaxLen,      \* bound: appends to the main log
    MaxFaults    \* bound: process deaths and failed file writes

ASSUME ConstantsOK ==
    Flushers # {} /\ MaxName \in Nat /\ MaxLen \in Nat /\ MaxFaults \in Nat

VARIABLES
    mainLen,     \* length of the main log (this device's working store)
    cap,         \* the capture replica, on disk
    verify,      \* cap.core.verify: the taps around it, innermost first
    files,       \* committed files of the folder
    writes,      \* tap invocations whose file is not renamed into place yet
    flush,       \* the local state of each flush
    reader,      \* the core of a device that hydrates copies of the folder
    lost,        \* history: a message in flight, or a rebuild, was cut short
    raced,       \* history: a call numbered its files while others were on the way
    faults       \* process deaths and failed writes so far

vars == <<mainLen, cap, verify, files, writes, flush, reader, lost, raced, faults>>

-----------------------------------------------------------------------------
(* Messages and the cores that verify them. *)

Cores == [len : Nat, blocks : SUBSET Nat]
EmptyCore == [len |-> 0, blocks |-> {}]

\* An upgrade from one length to another (none when they are equal), at most
\* one block, and `needs`, the blocks the reader it was built for had applied.
Messages == [from : Nat, to : Nat, blocks : SUBSET Nat, needs : SUBSET Nat]

\* "Each proof is shaped for a reader that has applied exactly the preceding
\* messages."
Verifies(core, m) ==
    /\ IF m.from < m.to THEN core.len = m.from ELSE m.to <= core.len
    /\ m.needs \subseteq core.blocks

Applied(core, m) ==
    [len |-> IF m.from < m.to THEN m.to ELSE core.len,
     blocks |-> core.blocks \cup m.blocks]

\* What a main log of length n may send a replica in state `core`: the upgrade,
\* a block it lacks (the protocol chooses which), or both in one message.
Sendable(core, n) ==
    {m \in [from : {core.len}, to : {core.len, n}, needs : {core.blocks},
            blocks : {{}} \cup {{i} : i \in (0..(n - 1)) \ core.blocks}] :
        /\ \A i \in m.blocks : i < m.to
        /\ m.from < m.to \/ m.blocks # {}}

-----------------------------------------------------------------------------
(* The folder: a set of numbered messages. *)

Files == [name : Nat, msg : Messages]

\* The numbering this code had before.
NextSeqByCount(names) == Cardinality(names)

NextSeq(names) == IF names = {} THEN 0 ELSE Max(names) + 1

\* A name of more than SEQ_WIDTH digits is ignored like any other name.
ListSeqFiles(fs) == {x \in fs : x.name <= MaxName}

NamesOf(fs) == {x.name : x \in fs}

Oldest(fs) == CHOOSE x \in fs : \A y \in fs : x.name <= y.name

Unverified(core, x) == Applied(core, x.msg)

\* One file: a message that does not verify is skipped.
ReplayFile(core, x) == IF Verifies(core, x.msg) THEN Applied(core, x.msg) ELSE core

\* What the file of that number, if there is one, makes of a core.
ReplayNumber(fs, n) ==
    LET numbered == {x \in fs : x.name = n} IN
    [core \in Cores |->
        IF numbered = {} THEN core ELSE ReplayFile(core, CHOOSE x \in numbered : TRUE)]

\* The core once the files numbered below n are replayed, in ascending order.
Replay(start, fs) ==
    LET replay[n \in Nat] ==
          IF n = 0 THEN start ELSE ReplayNumber(fs, n - 1)[replay[n - 1]]
    IN replay

\* Every file that is listed.
ReplayInto(start, fs) ==
    LET listed == ListSeqFiles(fs) IN Replay(start, listed)[NextSeq(NamesOf(listed))]

-----------------------------------------------------------------------------
Init ==
    /\ mainLen = 0 /\ cap = EmptyCore /\ verify = <<>>
    /\ files = {} /\ writes = {}
    /\ flush = [f \in Flushers |->
          [pc |-> "idle", existing |-> FALSE, seq |-> 0, end |-> 0,
           orig |-> <<>>, todo |-> {}]]
    /\ reader = EmptyCore /\ lost = FALSE /\ raced = FALSE /\ faults = 0

\* The writer appends a block; appends do not wait for a flush.
AppendBlock ==
    /\ mainLen < MaxLen
    /\ mainLen' = mainLen + 1
    /\ UNCHANGED <<cap, verify, files, writes, flush, reader, lost, raced, faults>>

\* The local state of one flush changes.
Becomes(f, state) == flush' = [flush EXCEPT ![f] = state]

\* Flushes that hold a session on the capture core.
Holding == {f \in Flushers : flush[f].pc \in {"replay", "replicate", "failed"}}

\* No tap of the call that f stood for before can run any more: f stands for a
\* new one.  (A call that comes earlier is another member of Flushers.)
Available(f) ==
    /\ flush[f].pc = "idle" /\ f \notin ToSet(verify)
    /\ \A g \in Holding : f \notin ToSet(flush[g].orig)
    /\ \A w \in writes : f \notin ToSet(Tail(w.taps))

\* Files on the way that a listing does not show.
Unlisted(f) == writes # {} \/ \E g \in Flushers \ {f} : flush[g].pc # "idle"

\* flushLogToDir is called: its listing fixes the numbering.
List(f) ==
    /\ Available(f)
    /\ raced' = (raced \/ Unlisted(f))
    /\ LET names == NamesOf(ListSeqFiles(files)) IN
       Becomes(f, [flush[f] EXCEPT
          !.seq = NextSeq(names), !.existing = (names # {}), !.end = 0,
          !.pc = IF mainLen = 0 THEN "idle" ELSE "listed"])
    /\ UNCHANGED <<mainLen, cap, verify, files, writes, reader, lost, faults>>

\* Nothing to capture: return.  Otherwise tap verify and start replicating.
Decide(f) ==
    \/ /\ cap.len >= mainLen
       /\ Becomes(f, [flush[f] EXCEPT !.pc = "idle"])
       /\ UNCHANGED verify
    \/ /\ cap.len < mainLen
       /\ Becomes(f, [flush[f] EXCEPT !.pc = "replicate", !.orig = verify,
                                      !.end = mainLen])
       /\ verify' = Append(verify, f)

\* cap.ready(): a lost capture replica is rebuilt from the folder first.
OpenCapture(f) ==
    /\ flush[f].pc = "listed"
    /\ IF cap.len = 0 /\ flush[f].existing
       THEN /\ Becomes(f, [flush[f] EXCEPT !.pc = "replay",
                                           !.todo = ListSeqFiles(files)])
            /\ UNCHANGED verify
       ELSE Decide(f)
    /\ UNCHANGED <<mainLen, cap, files, writes, reader, lost, raced, faults>>

Rebuild(f) ==
    /\ flush[f].pc = "replay"
    /\ \/ /\ flush[f].todo # {}
          /\ cap' = ReplayFile(cap, Oldest(flush[f].todo))
          /\ Becomes(f, [flush[f] EXCEPT !.todo = @ \ {Oldest(@)}])
          /\ UNCHANGED verify
       \/ /\ flush[f].todo = {}
          /\ Decide(f)
          /\ UNCHANGED cap
    /\ UNCHANGED <<mainLen, files, writes, reader, lost, raced, faults>>

\* The number is read but only advanced after an await.
NumberLate(tap) == UNCHANGED flush

\* `const mySeq = seq++`, before any await.
Number(tap) == Becomes(tap, [flush[tap] EXCEPT !.seq = @ + 1])

\* The capture accepts a message over f's streams.  The innermost tap numbers
\* it in the same step; its file is written later, many in flight.
Accept(f) ==
    /\ flush[f].pc = "replicate"
    /\ \E m \in Sendable(cap, mainLen) :
        /\ cap' = Applied(cap, m)
        /\ IF verify = <<>>
           THEN UNCHANGED <<writes, flush>>
           ELSE /\ writes' = writes \cup {[via |-> f, late |-> FALSE, taps |-> verify,
                                           msg |-> m, name |-> flush[Head(verify)].seq]}
                /\ Number(Head(verify))
    /\ UNCHANGED <<mainLen, verify, files, reader, lost, raced, faults>>

\* writeFile of the temp name, then rename over whatever had the name.  An
\* outer tap numbers the message again when the inner one returns.
Commit(w) ==
    /\ files' = {x \in files : x.name # w.name}
                    \cup {[name |-> w.name, msg |-> w.msg]}
    /\ IF Len(w.taps) = 1
       THEN /\ writes' = writes \ {w}
            /\ UNCHANGED flush
       ELSE LET outer == w.taps[2] IN
            /\ writes' = (writes \ {w}) \cup
                  {[w EXCEPT !.taps = Tail(w.taps), !.name = flush[outer].seq]}
            /\ Number(outer)
    /\ UNCHANGED <<mainLen, cap, verify, reader, lost, raced, faults>>

\* The finally blocks.  The core object, and with it every tap, goes away with
\* its last session.
Restored(f) == IF Holding = {f} THEN <<>> ELSE flush[f].orig

\* The files of a call that is over are written all the same.
Released(f) == {IF w.via = f THEN [w EXCEPT !.late = TRUE] ELSE w : w \in writes}

Over(f) ==
    /\ verify' = Restored(f) /\ writes' = Released(f)
    /\ Becomes(f, [flush[f] EXCEPT !.pc = "idle"])
    /\ UNCHANGED <<mainLen, cap, files, reader, lost, raced, faults>>

DownloadedPastEnd(f) == 0..flush[f].end \subseteq cap.blocks
UpgradedToEnd(f) == flush[f].end <= cap.len

\* download({start: 0, end}).done(): the capture has every block.
Downloaded(f) == 0..(flush[f].end - 1) \subseteq cap.blocks

FlushDone(f) ==
    /\ flush[f].pc = "replicate"
    /\ Downloaded(f)
    /\ Over(f)

\* A write or rename rejects (disk full, folder moved): the capture has the
\* message, the folder does not.  Whether the rejected verify fails the download
\* is Hypercore's; that it does not leave it waiting for ever is assumed.
WriteFails(w) ==
    /\ faults < MaxFaults
    /\ faults' = faults + 1
    /\ lost' = TRUE
    /\ writes' = writes \ {w}
    /\ \/ ~w.late /\ flush[w.via].pc = "replicate"
          /\ Becomes(w.via, [flush[w.via] EXCEPT !.pc = "failed"])
       \/ UNCHANGED flush
    /\ UNCHANGED <<mainLen, cap, verify, files, reader, raced>>

\* The flush rejects.
FlushThrows(f) == flush[f].pc = "failed" /\ Over(f)

\* The process dies (or exits with a flush in flight) and starts again.  Main
\* log, capture replica and committed files are on disk.
Crash ==
    /\ faults < MaxFaults
    /\ faults' = faults + 1
    /\ lost' = (lost \/ writes # {} \/ \E f \in Flushers : flush[f].pc = "replay")
    /\ flush' = [f \in Flushers |->
          [flush[f] EXCEPT !.pc = "idle", !.todo = {}]]
    /\ verify' = <<>> /\ writes' = {}
    /\ UNCHANGED <<mainLen, cap, files, reader, raced>>

\* The capture store is a cache: it may be deleted between two runs of the
\* program, so with nothing under way (a death before it is Crash).
LoseCapture ==
    /\ writes = {} /\ \A f \in Flushers : flush[f].pc = "idle"
    /\ cap # EmptyCore
    /\ cap' = EmptyCore
    /\ lost' = FALSE
    /\ UNCHANGED <<mainLen, verify, files, writes, flush, reader, raced, faults>>

\* Another device opens a copy of the folder.  A copy may be taken at any
\* moment, and what is torn, tampered with or not synced yet in it does not
\* verify, which is the same as not being there: over any number of copies the
\* device replays any committed file next.
HydrateFile ==
    /\ \E x \in ListSeqFiles(files) : reader' = ReplayFile(reader, x)
    /\ UNCHANGED <<mainLen, cap, verify, files, writes, flush, lost, raced, faults>>

FlushStep(f) ==
    OpenCapture(f) \/ Rebuild(f) \/ Accept(f) \/ FlushDone(f) \/ FlushThrows(f)

Next ==
    \/ AppendBlock \/ Crash \/ LoseCapture \/ HydrateFile
    \/ \E f \in Flushers : List(f) \/ FlushStep(f)
    \/ \E w \in writes : Commit(w) \/ WriteFails(w)

Spec == Init /\ [][Next]_vars

\* A flush that was called keeps running: the event loop runs its callbacks
\* and the in-process replication answers every request.  Nothing obliges
\* anyone to append, to call a flush or to copy the folder.
FairSpec ==
    /\ Spec
    /\ \A f \in Flushers : WF_vars(FlushStep(f))
    /\ WF_vars(\E w \in writes : Commit(w))
-----------------------------------------------------------------------------
(* Properties. *)

Progress == {"idle", "listed", "replay", "replicate", "failed"}

FlushStates ==
    [pc : Progress, existing : BOOLEAN, seq : Nat, end : Nat, orig : Seq(Flushers),
     todo : SUBSET Files]

TapWrites ==
    [via : Flushers, late : BOOLEAN, taps : Seq(Flushers) \ {<<>>}, name : Nat,
     msg : Messages]

\* The types of the variables.
TypeOK ==
    /\ mainLen \in Nat /\ cap \in Cores /\ reader \in Cores
    /\ verify \in Seq(Flushers)
    /\ files \subseteq Files
    /\ \A w \in writes : w \in TapWrites
    /\ flush \in [Flushers -> FlushStates]
    /\ lost \in BOOLEAN /\ raced \in BOOLEAN /\ faults \in Nat

\* "Committed files are never rewritten, renamed, or deleted": a file name
\* keeps its message whatever calls, deaths and rebuilds follow.
CommittedFilesStay == [][files \subseteq files']_files

\* The least of it: calls that run keep each other's files, with none of a call
\* that is over being written.
RunningCallsKeepFiles ==
    [][(\E w \in writes : w.late) \/ files \subseteq files']_<<files, writes>>

\* A name keeps its message until a call numbers its files from a listing that misses
\* others: nothing else, no death, failed write, rebuild or hole in the numbering,
\* makes a flush give out a number that is taken.
SettledFilesStay == [][raced' \/ files \subseteq files']_<<files, raced>>

\* The prefix a core has, and the one an empty device recovers from a complete
\* copy of the folder.
Prefix[core \in Cores] ==
    Max({n \in 0..core.len : 0..(n - 1) \subseteq core.blocks})

Covered == Prefix[ReplayInto(EmptyCore, files)]

\* "What makes the folder a complete, portable copy [...] call it explicitly before
\* sharing the folder": barring faults, the range a flush asked the capture for
\* (the log's length when it started) is in the folder when it returns.
ReturnedIsCovered ==
    faults = 0 => \A f \in Flushers : flush[f].pc = "idle" => flush[f].end <= Covered

\* It is once the files that were still being written then are in place, whatever
\* order they come in, and stays recoverable, until numberings have raced.
DownloadedRangeCovered ==
    ~raced /\ (\A w \in writes : ~w.late) => ReturnedIsCovered

\* "Its length is exactly what previous flushes have written": with nothing being
\* written, the capture claims nothing that replaying the folder does not give,
\* through crashes, rebuilds and re-captures, unless a message in flight was lost
\* or numberings have raced.
CaptureWithinFolder ==
    writes = {} /\ ~lost /\ ~raced =>
        LET core == ReplayInto(EmptyCore, files)
        IN cap.len <= core.len /\ cap.blocks \subseteq core.blocks

\* "Valid but possibly stale": whatever part of the folder a device has
\* replayed, in any number of copies, its core is one the log went through.
CopyValid ==
    /\ reader.len <= mainLen
    /\ reader.blocks \subseteq 0..(reader.len - 1)

\* A flush that was called returns or throws.
FlushReturns ==
    \A f \in Flushers : flush[f].pc # "idle" ~> flush[f].pc = "idle"

\* The folder is a portable copy of the log.
Folder == INSTANCE PortableFolder WITH length <- mainLen, covered <- Covered
FolderSpec == Folder!Spec
=============================================================================
