-------------------------------- MODULE Watcher --------------------------------
(***************************************************************************)
(* watchWorkingTree for one path (packages/workspace/src/watcher.ts): file *)
(* system events are debounced, the file is polled until its size is       *)
(* steady, read, and reported unless it is what was reported last.  Paths  *)
(* share nothing but stop().                                               *)
(*                                                                         *)
(* A file system call takes its result in one step and the code after its  *)
(* await runs in a later one: the file may change in between.              *)
(***************************************************************************)
EXTENDS Integers

CONSTANTS
    Contents,      \* what the file may hold
    SizeOf,        \* its size: an edit in place keeps it
    Access,        \* what happens to its permissions: "ok", "no read", "no stat"
    StableReads,   \* polls that must agree on the size
    MaxChanges     \* bound: changes of the file or of its permissions

\* What a path may be besides a readable file, and what a call may return.
Absent == "absent"
Directory == "directory"
Error == "error"
Unreported == "unreported"

ASSUME OutcomesDiffer == {Absent, Directory, Error, Unreported} \cap Contents = {}
ASSUME Sizes == SizeOf \in [Contents -> Nat]
ASSUME Accesses == "ok" \in Access /\ Access \subseteq {"ok", "no read", "no stat"}
ASSUME Bounds == StableReads \in Nat \ {0} /\ MaxChanges \in Nat

VARIABLES
    file,       \* the path now: a content, Absent or Directory
    access,     \* its permissions now
    event,      \* the host has an event for the path to deliver
    timer,      \* a timer for the path is armed
    pc,         \* its settle: none, stat, statted, sleep, read, done reading
    seen,       \* the result of that settle's last file system call
    lastSize, steady,
    last,       \* lastDigest: what was reported last
    stopped,
    changes,
    wasGone,    \* history: the file was missing at some time in this settle
    dropped     \* history: an event fell into a running settle

vars == <<file, access, event, timer, pc, seen, lastSize, steady, last, stopped,
          changes, wasGone, dropped>>

disk == <<file, access, changes>>
poll == <<lastSize, steady>>

Init ==
    /\ file \in Contents \cup {Absent} /\ access = "ok" /\ changes = 0
    /\ event = FALSE /\ timer = FALSE /\ pc = "none" /\ seen = Error
    /\ lastSize = -1 /\ steady = 0
    /\ last = Unreported /\ stopped = FALSE
    /\ wasGone = FALSE /\ dropped = FALSE

-----------------------------------------------------------------------------
\* An editor or a sync client: writes (in place, or a rename into place),
\* removals, a directory in the file's stead, permissions.
Change ==
    /\ changes < MaxChanges
    /\ changes' = changes + 1
    /\ \/ /\ file' \in (Contents \cup {Absent, Directory}) \ {file}
          /\ UNCHANGED access
       \/ /\ access' \in Access \ {access}
          /\ UNCHANGED file
    /\ event' = TRUE
    /\ wasGone' = (wasGone \/ file' = Absent)
    /\ UNCHANGED <<timer, pc, seen, poll, last, stopped, dropped>>

\* Ignoring the events of a path that is being settled.
RearmedWhenIdle == ~stopped /\ pc = "none"
Rearmed == ~stopped

\* The host's callback: schedule().
Event ==
    /\ event
    /\ event' = FALSE
    /\ timer' = Rearmed
    /\ UNCHANGED <<disk, pc, seen, poll, last, stopped, wasGone, dropped>>

\* The timer fires: settle(), unless one is running.
TimerFires ==
    /\ timer
    /\ timer' = FALSE
    /\ IF pc = "none"
       THEN /\ pc' = "stat" /\ lastSize' = -1 /\ steady' = 0
            /\ wasGone' = (file = Absent)
            /\ UNCHANGED dropped
       ELSE /\ dropped' = TRUE
            /\ UNCHANGED <<pc, poll, wasGone>>
    /\ UNCHANGED <<disk, event, seen, last, stopped>>

StatReturns ==
    /\ pc = "stat"
    /\ pc' = "statted"
    /\ seen' = IF access = "no stat" THEN Error ELSE file
    /\ UNCHANGED <<disk, event, timer, poll, last, stopped, wasGone, dropped>>

\* Any failure taken for a removal.
GoneOrError(result) == result \in {Absent, Error}

\* Only ENOENT means gone.
MeansGone(result) == result = Absent

Steady(polls) == polls >= StableReads - 1

\* After a stat: a missing file is reported, whatever stop() has done.
AfterStat ==
    /\ pc = "statted"
    /\ IF seen \in Contents
       THEN /\ IF SizeOf[seen] = lastSize
               THEN /\ steady' = steady + 1
                    /\ pc' = IF Steady(steady') THEN "read" ELSE "sleep"
                    /\ UNCHANGED lastSize
               ELSE steady' = 0 /\ lastSize' = SizeOf[seen] /\ pc' = "sleep"
            /\ UNCHANGED last
       ELSE /\ pc' = "none"
            /\ last' = IF MeansGone(seen) THEN Absent ELSE last
            /\ UNCHANGED poll
    /\ UNCHANGED <<disk, event, timer, seen, stopped, wasGone, dropped>>

Wakes ==
    /\ pc = "sleep"
    /\ pc' = IF stopped THEN "none" ELSE "stat"
    /\ UNCHANGED <<disk, event, timer, seen, poll, last, stopped, wasGone, dropped>>

ReadReturns ==
    /\ pc = "read"
    /\ pc' = "done reading"
    /\ seen' = IF access = "ok" /\ file # Directory THEN file ELSE Error
    /\ UNCHANGED <<disk, event, timer, poll, last, stopped, wasGone, dropped>>

\* Reporting whether or not stop() was called during the read.
AlsoStopped == TRUE

StillWatching == ~stopped

AfterRead ==
    /\ pc = "done reading"
    /\ pc' = "none"
    /\ last' = IF StillWatching /\ MeansGone(seen) THEN Absent
               ELSE IF StillWatching /\ seen \in Contents THEN seen ELSE last
    /\ UNCHANGED <<disk, event, timer, seen, poll, stopped, wasGone, dropped>>

Stop ==
    /\ ~stopped
    /\ stopped' = TRUE /\ timer' = FALSE
    /\ UNCHANGED <<disk, event, pc, seen, poll, last, wasGone, dropped>>

Settle == StatReturns \/ AfterStat \/ Wakes \/ ReadReturns \/ AfterRead

Next == Change \/ Event \/ TimerFires \/ Settle \/ Stop

Spec == Init /\ [][Next]_vars

\* Events are delivered, timers fire and file system calls return.
FairSpec == Spec /\ WF_vars(Event) /\ WF_vars(TimerFires) /\ WF_vars(Settle)

-----------------------------------------------------------------------------
(* Properties. *)

Files == Contents \cup {Absent, Directory}

TypeOK ==
    /\ file \in Files /\ access \in Access
    /\ event \in BOOLEAN /\ timer \in BOOLEAN /\ stopped \in BOOLEAN
    /\ wasGone \in BOOLEAN /\ dropped \in BOOLEAN
    /\ pc \in {"none", "stat", "statted", "sleep", "read", "done reading"}
    /\ seen \in Files \cup {Error} /\ last \in Contents \cup {Absent, Unreported}
    /\ lastSize \in Int /\ steady \in 0..StableReads /\ changes \in 0..MaxChanges

\* "A read failure must never be reported as a deletion": a report of a
\* deletion means the file was missing while it was being settled.
DeletionsAreReal == [][last # Absent /\ last' = Absent => wasGone]_vars

\* Once stop() has returned no content is reported, though a read was under way; the
\* loop asks `stopped` after its sleep and the read after its return.  A stat does not
\* ask: the report of a missing file may still come.
StoppedIsSilent == [][stopped /\ last' # last => last' = Absent]_vars

Reported == last = file

\* Once the file is left alone its content is what was reported last, unless
\* an event came while an earlier one was still being settled.
QuietFileReported ==
    <>[](Reported \/ changes = 0 \/ stopped \/ dropped \/ access # "ok" \/ file = Directory)
=============================================================================
