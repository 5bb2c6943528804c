------------------------------ MODULE SharedChild ------------------------------
(***************************************************************************)
(* The one child process the macOS app keeps for all its workspaces:       *)
(* sharedTransport() and closeSharedTransport() (packages/workspace/src/   *)
(* ipc/remote.macos.ts), the transport that subscribes to the native       *)
(* module's events (p2p-runtime/src/ipc/transport.macos.ts), and that      *)
(* module (apps/macos/native/P2PRuntimeModule.mm), whose methods run one   *)
(* after the other on a queue of its own.  An exit event does not say      *)
(* whose exit it is: every subscribed transport hears it.                  *)
(***************************************************************************)
EXTENDS Sequences, FiniteSets

CONSTANTS
    Callers,     \* callers of createWorkspace and openWorkspace
    Transports,  \* the transports they may make, and so the spawns
    None

ASSUME NoneIsNoTransport == None \notin Transports

VARIABLES
    shared, spawning,  \* the transport kept, and the one being spawned
    waits,       \* the transport whose spawn each caller awaits
    subscribed,  \* transports that hear the module's events
    closed,      \* transports whose child is known to be gone
    call,        \* each spawn call: none, asked, launched, failed, refused, over
    closing,     \* transports whose close() is under way
    queue,       \* calls the native module has not run yet
    task,        \* the child the module holds in _task, named by its transport
    child,       \* each child: none, running, ended, reaped (its handler ran)
    exits,       \* exit events that have not reached JavaScript
    timers,      \* close() calls whose two seconds are running
    torn         \* closeSharedTransport() has been called

vars == <<shared, spawning, waits, subscribed, closed, call, closing, queue,
          task, child, exits, timers, torn>>
native == <<task, child, exits, timers>>

Init ==
    /\ shared = None /\ spawning = None
    /\ waits = [c \in Callers |-> None]
    /\ subscribed = {} /\ closed = {} /\ closing = {}
    /\ call = [t \in Transports |-> "none"]
    /\ queue = <<>> /\ task = None
    /\ child = [t \in Transports |-> "none"]
    /\ exits = {} /\ timers = {} /\ torn = FALSE

-----------------------------------------------------------------------------
(* JavaScript. *)

Reusable == shared # None /\ shared \notin closed

\* Looking at the transport kept only.
MustSpawnAlone == ~Reusable

\* A transport that can be used is returned at once, and a spawn under way is
\* shared: only otherwise is a child asked for.
MustSpawn == ~Reusable /\ spawning = None

\* createWorkspace and openWorkspace ask for the transport, which subscribes
\* before it asks for a child.
AskAndSpawn(c, t) ==
    /\ waits[c] = None /\ MustSpawn /\ call[t] = "none"
    /\ spawning' = t
    /\ waits' = [waits EXCEPT ![c] = t]
    /\ subscribed' = subscribed \cup {t}
    /\ call' = [call EXCEPT ![t] = "asked"]
    /\ queue' = Append(queue, [op |-> "spawn", on |-> t])
    /\ UNCHANGED <<shared, closed, closing, native, torn>>

AskAndShare(c) ==
    /\ waits[c] = None /\ ~Reusable /\ spawning # None
    /\ waits' = [waits EXCEPT ![c] = spawning]
    /\ UNCHANGED <<shared, spawning, subscribed, closed, call, closing, queue, native, torn>>

\* A failed spawn left where the next caller finds it.
KeptSpawning(t) == IF call[t] = "launched" THEN None ELSE spawning

\* Success or failure, the next caller is not to await this spawn.
ClearedSpawning(t) == None

\* The answer to the spawn arrives, and everyone awaiting it goes on.
SpawnReturns(t) ==
    /\ call[t] \in {"launched", "failed", "refused"}
    /\ spawning' = ClearedSpawning(t)
    /\ shared' = IF call[t] = "launched" THEN t ELSE shared
    /\ waits' = [c \in Callers |-> IF waits[c] = t THEN None ELSE waits[c]]
    /\ call' = [call EXCEPT ![t] = IF @ = "refused" THEN "refused over" ELSE "over"]
    /\ UNCHANGED <<subscribed, closed, closing, queue, native, torn>>

\* Listeners told, and the transport left as it was.
NobodyMarked == {}

\* An exit event marks every transport that hears it.
Told == subscribed

ExitArrives(t) ==
    /\ t \in exits
    /\ exits' = exits \ {t}
    /\ closed' = closed \cup Told
    /\ subscribed' = {}
    /\ UNCHANGED <<shared, spawning, waits, call, closing, queue, task, child, timers, torn>>

\* closeSharedTransport(): forget both, and close the one that was kept.
TearDown ==
    /\ ~torn \/ shared # None \/ spawning # None
    /\ torn' = TRUE
    /\ shared' = None /\ spawning' = None
    /\ IF Reusable
       THEN /\ closing' = closing \cup {shared}
            /\ queue' = Append(queue, [op |-> "close", on |-> shared])
       ELSE UNCHANGED <<closing, queue>>
    /\ UNCHANGED <<waits, subscribed, closed, call, native>>

\* Waiting for the close, or not, the transport is closed once it is answered.
CloseReturns(t) ==
    /\ t \in closing /\ \A i \in DOMAIN queue : queue[i] # [op |-> "close", on |-> t]
    /\ closing' = closing \ {t}
    /\ subscribed' = subscribed \ {t}
    /\ closed' = closed \cup {t}
    /\ UNCHANGED <<shared, spawning, waits, call, queue, native, torn>>

-----------------------------------------------------------------------------
(* The native module. *)

TaskRuns == task # None /\ child[task] = "running"

\* spawn: refused while the child held runs, and otherwise launched or not.
RunSpawn(t) ==
    /\ queue # <<>> /\ Head(queue) = [op |-> "spawn", on |-> t] /\ call[t] = "asked"
    /\ queue' = Tail(queue)
    /\ \/ /\ TaskRuns
          /\ call' = [call EXCEPT ![t] = "refused"]
          /\ UNCHANGED <<task, child>>
       \/ /\ ~TaskRuns
          /\ task' = t
          /\ \/ /\ child' = [child EXCEPT ![t] = "running"]
                /\ call' = [call EXCEPT ![t] = "launched"]
             \/ /\ call' = [call EXCEPT ![t] = "failed"]
                /\ UNCHANGED child
    /\ UNCHANGED <<shared, spawning, waits, subscribed, closed, closing, exits, timers, torn>>

\* close: end the input of a running child, give it two seconds, and answer.
RunClose(t) ==
    /\ queue # <<>> /\ Head(queue) = [op |-> "close", on |-> t]
    /\ queue' = Tail(queue)
    /\ timers' = IF TaskRuns THEN timers \cup {t} ELSE timers
    /\ UNCHANGED <<shared, spawning, waits, subscribed, closed, call, closing,
                   task, child, exits, torn>>

\* The two seconds are over: whatever child is held by now is terminated.
TimerFires(t) ==
    /\ t \in timers
    /\ timers' = timers \ {t}
    /\ child' = IF TaskRuns THEN [child EXCEPT ![task] = "ended"] ELSE child
    /\ UNCHANGED <<shared, spawning, waits, subscribed, closed, call, closing,
                   queue, task, exits, torn>>

\* A child crashes, or ends with its input.
Ends(t) ==
    /\ child[t] = "running"
    /\ child' = [child EXCEPT ![t] = "ended"]
    /\ UNCHANGED <<shared, spawning, waits, subscribed, closed, call, closing,
                   queue, task, exits, timers, torn>>

\* The termination handler sends the event if anyone listens.
Reaped(t) ==
    /\ child[t] = "ended"
    /\ child' = [child EXCEPT ![t] = "reaped"]
    /\ exits' = IF subscribed # {} THEN exits \cup {t} ELSE exits
    /\ UNCHANGED <<shared, spawning, waits, subscribed, closed, call, closing,
                   queue, task, timers, torn>>

Next ==
    \/ TearDown
    \/ \E c \in Callers : AskAndShare(c) \/ \E t \in Transports : AskAndSpawn(c, t)
    \/ \E t \in Transports :
          \/ SpawnReturns(t) \/ ExitArrives(t) \/ CloseReturns(t)
          \/ RunSpawn(t) \/ RunClose(t) \/ TimerFires(t) \/ Ends(t) \/ Reaped(t)

Spec == Init /\ [][Next]_vars

-----------------------------------------------------------------------------
(* Properties. *)

TypeOK ==
    /\ shared \in Transports \cup {None} /\ spawning \in Transports \cup {None}
    /\ waits \in [Callers -> Transports \cup {None}]
    /\ subscribed \subseteq Transports /\ closed \subseteq Transports
    /\ closing \subseteq Transports /\ timers \subseteq Transports
    /\ call \in [Transports ->
                   {"none", "asked", "launched", "failed", "refused", "refused over", "over"}]
    /\ queue \in Seq([op : {"spawn", "close"}, on : Transports])
    /\ task \in Transports \cup {None} /\ exits \subseteq Transports
    /\ child \in [Transports -> {"none", "running", "ended", "reaped"}]
    /\ torn \in BOOLEAN

\* "Concurrent opens must not race into two spawns": however opens, crashes
\* and failed launches fall, the module never refuses a child, unless the
\* shared transport has been torn down.
NoSpawnRefused == ~torn => \A t \in Transports : call[t] \notin {"refused", "refused over"}

\* A crashed child costs one slow operation: the transport that callers are
\* given has a child that runs, or its end is on the way to being noticed.
EndIsNoticed ==
    Reusable => child[shared] \in {"running", "ended"} \/ shared \in exits

\* Nobody is made to await a spawn that has been answered already.
SpawningIsUnderWay ==
    spawning # None => call[spawning] \in {"asked", "launched", "failed", "refused"}
=============================================================================
