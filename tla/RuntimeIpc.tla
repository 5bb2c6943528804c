------------------------------ MODULE RuntimeIpc ------------------------------
(***************************************************************************)
(* A runtime in a child process (packages/p2p-runtime/src/ipc): the        *)
(* parent's SpawnedRuntime with its log handles (parent.ts), the child's   *)
(* dispatcher and log table (child.ts), and the two pipes (framing.ts,     *)
(* transport.node.ts).  A read takes the lines that have arrived together: *)
(* the child handles those of one chunk in turn and different chunks       *)
(* concurrently; the parent takes a whole chunk before what awaits one of  *)
(* its replies goes on.                                                    *)
(*                                                                         *)
(* A call is its id, a log handle the call that opened it.  did, getBlock, *)
(* joinTopic and leaveTopic change nothing here: they are "ask" (what the  *)
(* runtime does with topics is NodeRuntime's).                             *)
(***************************************************************************)
EXTENDS Integers, Sequences, FiniteSets

CONSTANTS
    Logs,       \* keys of the logs
    NoLog,      \* of a call that is about no log
    MaxCalls,   \* bound: calls the parent makes
    MaxBlocks   \* bound: blocks a peer adds

ASSUME LogsAssumption == NoLog \notin Logs
ASSUME CallsAssumption == MaxCalls \in Nat
ASSUME BlocksAssumption == MaxBlocks \in Nat

CallIds == 1..MaxCalls
NoCall == 0
NoObject == -1

VARIABLES
    writable,   \* the logs this runtime writes; peers write the others
    \* the parent
    made,       \* nextId - 1
    method, log, via,   \* of each call: what it asks, of which log, by which handle
    settled,    \* of each call: unmade, pending, resolved, rejected
    value,      \* of a resolved append: the length it returned
    ready,      \* _ready
    exited,     \* transport.closed: the exit was seen
    known,      \* _length of each handle
    logs,       \* the parent's table: the handle of a log
    \* the pipes
    toChild, toParent, ended,
    \* the child
    up,         \* the process
    feeds,      \* the chunks being handled, each from its current request on
    begun,      \* requests whose dispatch waits for the runtime
    result,     \* of each call: the length Hypercore's append returned
    runtime,    \* `runtime`: none or open
    table,      \* logs in the child's table
    subscribed, \* those whose appends are sent to the parent
    visited,    \* those the shutdown has come to
    cleared,    \* the shutdown cleared the table
    shut,       \* logs whose NodeLog is closed
    len,        \* blocks of each log, more than it had at the start
    missed      \* history: logs that grew before they had a handle to tell

requests == <<writable, made, method, log, via>>
answers == <<settled, value, ready, exited, known, logs>>
child == <<runtime, table, subscribed, visited, cleared, shut>>
vars == <<requests, answers, toChild, toParent, ended, up, feeds, begun, result, child,
          len, missed>>

Init ==
    /\ writable \in SUBSET Logs
    /\ made = 0
    /\ method = [i \in CallIds |-> "none"]
    /\ log = [i \in CallIds |-> NoLog]
    /\ via = [i \in CallIds |-> NoCall]
    /\ settled = [i \in CallIds |-> "unmade"]
    /\ value = [i \in CallIds |-> 0]
    /\ ready = FALSE /\ exited = FALSE
    /\ known = [i \in CallIds |-> NoObject]
    /\ logs = [k \in Logs |-> NoCall]
    /\ toChild = <<>> /\ toParent = <<>> /\ ended = FALSE
    /\ up = TRUE /\ feeds = {} /\ begun = {}
    /\ result = [i \in CallIds |-> 0]
    /\ runtime = "none" /\ table = {} /\ subscribed = {}
    /\ visited = {} /\ cleared = FALSE /\ shut = {}
    /\ len = [k \in Logs |-> 0]
    /\ missed = {}

-----------------------------------------------------------------------------
(* The parent: what the app calls. *)

\* __rpc: a request gets the next id and waits for its reply.  Nothing is called
\* once close() has ended the pipe.
Rpc(m, k, h) ==
    /\ made < MaxCalls
    /\ ready \/ ~exited
    /\ ~ended
    /\ made' = made + 1 /\ UNCHANGED writable
    /\ method' = [method EXCEPT ![made + 1] = m]
    /\ log' = [log EXCEPT ![made + 1] = k]
    /\ via' = [via EXCEPT ![made + 1] = h]
    /\ settled' = [settled EXCEPT ![made + 1] = "pending"]
    /\ toChild' = Append(toChild, made + 1)
    /\ UNCHANGED <<value, ready, exited, known, logs, toParent, ended, up, feeds, begun,
                   result, child, len, missed>>

\* createRuntime: ready() is the first call, and the app has no runtime before
\* it returns.
Ready == made = 0 /\ Rpc("init", NoLog, NoCall)

\* createLog, or openLog of a log that has no handle.
OpenLog(k) == ready /\ logs[k] = NoCall /\ Rpc("openLog", k, NoCall)

\* append() and close() of the handle h.
OnHandle(h) ==
    /\ ready /\ known[h] # NoObject
    /\ \/ log[h] \in writable /\ Rpc("appendBlock", log[h], h)
       \/ Rpc("closeLog", log[h], h)

Ask == ready /\ \E k \in Logs : Rpc("ask", k, NoCall)

\* close(), which the app calls once: the shutdown call, and once it is settled, the end of the pipe.
CloseRuntime ==
    \/ /\ ready /\ \A i \in CallIds : method[i] # "shutdown"
       /\ Rpc("shutdown", NoLog, NoCall)
    \/ /\ ~ended /\ \E i \in CallIds : /\ method[i] = "shutdown"
                                       /\ settled[i] \in {"resolved", "rejected"}
       /\ ended' = TRUE
       /\ UNCHANGED <<requests, answers, toChild, toParent, up, feeds, begun, result, child,
                      len, missed>>

\* The event handler: the last length of a chunk stays.
LastOf(chunk, Test(_)) ==
    LET at == {n \in DOMAIN chunk : Test(chunk[n])} IN
    IF at = {} THEN {} ELSE {chunk[CHOOSE n \in at : \A o \in at : o <= n]}

IsEvent(r, k) == r.kind = "append" /\ r.log = k
IsReply(r, m, ok) == r.kind = "reply" /\ method[r.call] = m /\ r.ok = ok /\
                     settled[r.call] = "pending"

\* Events reach the handles that were in the table before the chunk; then the
\* calls that were answered go on: openLog makes its handle and puts it in the
\* table, append() overwrites the length of its own.
ParentReads ==
    \E n \in 1..Len(toParent) :
      LET chunk == SubSeq(toParent, 1, n)
          Replies == {r \in {chunk[o] : o \in 1..n} :
                        r.kind = "reply" /\ settled[r.call] = "pending"}
          Opened(k) == LastOf(chunk, LAMBDA r : IsReply(r, "openLog", TRUE) /\ log[r.call] = k)
          Appended(h) == LastOf(chunk, LAMBDA r : /\ IsReply(r, "appendBlock", TRUE)
                                                  /\ via[r.call] = h)
          Heard(k) == LastOf(chunk, LAMBDA r : IsEvent(r, k))
      IN
      /\ toParent' = SubSeq(toParent, n + 1, Len(toParent))
      /\ settled' = [i \in CallIds |->
            IF \E r \in Replies : r.call = i /\ r.ok THEN "resolved"
            ELSE IF \E r \in Replies : r.call = i /\ ~r.ok THEN "rejected"
            ELSE settled[i]]
      /\ value' = [i \in CallIds |->
            IF \E r \in Replies : r.call = i
            THEN (CHOOSE r \in Replies : r.call = i).length ELSE value[i]]
      /\ ready' = (ready \/ \E r \in Replies : method[r.call] = "init" /\ r.ok)
      /\ known' = [h \in CallIds |->
            IF \E r \in Replies : r.call = h /\ method[h] = "openLog" /\ r.ok
            THEN value'[h]
            ELSE IF known[h] = NoObject THEN NoObject
            ELSE IF Appended(h) # {} THEN (CHOOSE r \in Appended(h) : TRUE).length
            ELSE IF logs[log[h]] = h /\ Heard(log[h]) # {}
                 THEN (CHOOSE r \in Heard(log[h]) : TRUE).length
            ELSE known[h]]
      /\ logs' = [k \in Logs |->
            IF Opened(k) # {} THEN (CHOOSE r \in Opened(k) : TRUE).call ELSE logs[k]]
      /\ missed' = missed \cup
            {k \in Logs : Heard(k) # {} /\ (logs[k] = NoCall \/ Opened(k) # {})}
      /\ UNCHANGED <<requests, exited, toChild, ended, up, feeds, begun, result, child, len>>

\* Only noting that the runtime is no longer ready.
ExitNoted ==
    /\ ~up /\ ~exited
    /\ exited' = TRUE /\ ready' = FALSE
    /\ UNCHANGED <<requests, settled, value, known, logs, toChild, toParent, ended, up, feeds,
                   begun, result, child, len, missed>>

\* The transport's exit handler rejects every call that waits.
ExitSeen ==
    /\ ~up /\ ~exited
    /\ exited' = TRUE /\ ready' = FALSE
    /\ settled' = [i \in CallIds |->
            IF settled[i] = "pending" THEN "rejected" ELSE settled[i]]
    /\ UNCHANGED <<requests, value, known, logs, toChild, toParent, ended, up, feeds, begun,
                   result, child, len, missed>>

-----------------------------------------------------------------------------
(* The child. *)

\* feed(): the complete lines of a chunk.
ChildReads ==
    /\ up
    /\ \E n \in 1..Len(toChild) :
        /\ feeds' = feeds \cup {SubSeq(toChild, 1, n)}
        /\ toChild' = SubSeq(toChild, n + 1, Len(toChild))
    /\ UNCHANGED <<requests, answers, toParent, ended, up, begun, result, child, len, missed>>

\* The request at the head of f is answered, and the next of its chunk is up.
Reply(f, ok, n) ==
    /\ toParent' = Append(toParent, [kind |-> "reply", call |-> Head(f), ok |-> ok,
                                     log |-> log[Head(f)], length |-> n])
    /\ feeds' = (feeds \ {f}) \cup (IF Len(f) > 1 THEN {Tail(f)} ELSE {})
    /\ begun' = begun \ {Head(f)}
    /\ UNCHANGED <<requests, answers, toChild, ended, up, missed>>

Throws(f) == Reply(f, FALSE, 0) /\ UNCHANGED <<result, child, len>>

Waits(f) ==
    /\ begun' = begun \cup {Head(f)}
    /\ UNCHANGED <<requests, answers, toChild, toParent, ended, up, feeds, result, len,
                   missed>>

Dispatch(f, m) ==
    up /\ Head(f) \notin begun /\ method[Head(f)] = m
Resumes(f, m) == up /\ Head(f) \in begun /\ method[Head(f)] = m

\* requireRuntime() and the table, asked before the first await.
Refused(m, k) ==
    \/ m \in {"openLog", "ask"} /\ runtime = "none"
    \/ m = "appendBlock" /\ k \notin table

\* A request begins: it throws, or is answered at once, or waits for the
\* runtime.  closeLog stops the events of the log before it closes it.
Begin(f) ==
    \E m \in {"init", "openLog", "appendBlock", "closeLog", "ask"} :
      LET k == log[Head(f)] IN
      /\ Dispatch(f, m)
      /\ \/ Refused(m, k) /\ Throws(f)
         \/ /\ m = "closeLog" /\ k \notin table
            /\ Reply(f, TRUE, 0) /\ UNCHANGED <<result, child, len>>
         \/ /\ m = "closeLog" /\ k \in table
            /\ Waits(f)
            /\ subscribed' = subscribed \ {k}
            /\ UNCHANGED <<runtime, table, visited, cleared, shut>>
         \/ m # "closeLog" /\ ~Refused(m, k) /\ Waits(f) /\ UNCHANGED child

\* createRuntime returns, or fails.
FinishInit(f) ==
    /\ Resumes(f, "init")
    /\ \/ /\ Reply(f, TRUE, 0) /\ runtime' = "open"
          /\ UNCHANGED <<result, table, subscribed, visited, cleared, shut, len>>
       \/ Throws(f)

\* runtime.openLog returns; track() follows the log if the table lacks it.  The
\* runtime has one NodeLog of a log, a closed one included.
FinishOpen(f) ==
    LET k == log[Head(f)] IN
    /\ Resumes(f, "openLog")
    /\ \/ /\ Reply(f, TRUE, len[k])
          /\ table' = table \cup {k}
          /\ subscribed' = IF k \in table THEN subscribed ELSE subscribed \cup {k}
          /\ UNCHANGED <<result, runtime, visited, cleared, shut, len>>
       \/ Throws(f)

\* Telling the length the log had before.
GrownFrom(k) ==
    IF k \in subscribed
    THEN Append(toParent, [kind |-> "append", call |-> NoCall, ok |-> TRUE, log |-> k,
                           length |-> len[k]])
    ELSE toParent

\* A log that grows tells the parent, if it is subscribed.
Grown(k) ==
    IF k \in subscribed
    THEN Append(toParent, [kind |-> "append", call |-> NoCall, ok |-> TRUE, log |-> k,
                           length |-> len[k] + 1])
    ELSE toParent

\* Hypercore appends, or refuses: the block and its event.
AppendBlock(f) ==
    LET k == log[Head(f)] IN
    /\ Resumes(f, "appendBlock") /\ result[Head(f)] = 0
    /\ \/ /\ k \notin shut
          /\ len' = [len EXCEPT ![k] = @ + 1]
          /\ result' = [result EXCEPT ![Head(f)] = len[k] + 1]
          /\ toParent' = Grown(k)
          /\ UNCHANGED <<requests, answers, toChild, ended, up, feeds, begun, child, missed>>
       \/ Throws(f)

\* The length of the log when an append is answered, and the one it returned.
LengthNow(i) == len[log[i]]
AppendResult(i) == result[i]

\* append() returned: appends of a log return in the order of their blocks.
FinishAppend(f) ==
    LET i == Head(f) IN
    /\ Resumes(f, "appendBlock") /\ result[i] # 0
    /\ \A j \in begun : log[j] = log[i] /\ result[j] # 0 => result[i] <= result[j]
    /\ Reply(f, TRUE, AppendResult(i))
    /\ UNCHANGED <<result, child, len>>

FinishAsk(f) ==
    /\ Resumes(f, "ask")
    /\ \E ok \in BOOLEAN : Reply(f, ok, 0)
    /\ UNCHANGED <<result, child, len>>

\* close() of the NodeLog, which the runtime keeps, and the table forgets it; a close
\* that is refused leaves it there, its events stopped.
FinishCloseLog(f) ==
    LET k == log[Head(f)] IN
    /\ Resumes(f, "closeLog")
    /\ \/ /\ Reply(f, TRUE, 0)
          /\ shut' = shut \cup {k} /\ table' = table \ {k}
          /\ UNCHANGED <<result, runtime, subscribed, visited, cleared, len>>
       \/ Throws(f)

Shutting(f) ==
    /\ Dispatch(f, "shutdown") \/ Resumes(f, "shutdown")
    /\ ~cleared
    /\ begun' = begun \cup {Head(f)}
    /\ UNCHANGED <<requests, answers, toChild, toParent, ended, up, feeds, result, runtime,
                   len, missed>>

\* shutdown: each log of the table in turn stops its events and is closed ...
ShutLog(f) ==
    /\ Shutting(f)
    /\ \E k \in table \ visited :
        /\ shut' = shut \cup visited
        /\ visited' = visited \cup {k}
        /\ subscribed' = subscribed \ {k}
    /\ UNCHANGED <<table, cleared>>

\* ... the table is cleared ...
ClearTable(f) ==
    /\ Shutting(f) /\ table \subseteq visited
    /\ shut' = shut \cup visited /\ table' = {} /\ cleared' = TRUE
    /\ UNCHANGED <<subscribed, visited>>

\* ... and the runtime closes with every log it has.
FinishShutdown(f) ==
    /\ Resumes(f, "shutdown") /\ cleared
    /\ runtime' = "none" /\ shut' = Logs
    /\ Reply(f, TRUE, 0)
    /\ UNCHANGED <<result, table, subscribed, visited, cleared, len>>

\* A block arrives from a peer.
Replicated(k) ==
    /\ up /\ runtime = "open" /\ k \notin writable \cup shut /\ len[k] < MaxBlocks
    /\ len' = [len EXCEPT ![k] = @ + 1]
    /\ toParent' = Grown(k)
    /\ UNCHANGED <<requests, answers, toChild, ended, up, feeds, begun, result, child, missed>>

\* The process ends with its input, or by an error; what it has not written out
\* is lost.
Exit ==
    /\ up /\ up' = FALSE
    /\ \E n \in 0..Len(toParent) : toParent' = SubSeq(toParent, 1, n)
    /\ UNCHANGED <<requests, answers, toChild, ended, feeds, begun, result, child, len, missed>>

Handle(f) ==
    \/ Begin(f) \/ FinishInit(f) \/ FinishOpen(f) \/ AppendBlock(f) \/ FinishAppend(f)
    \/ FinishCloseLog(f) \/ ShutLog(f) \/ ClearTable(f) \/ FinishShutdown(f)

Next ==
    \/ Ready \/ Ask \/ CloseRuntime \/ ParentReads \/ ExitSeen
    \/ \E k \in Logs : OpenLog(k) \/ Replicated(k)
    \/ \E h \in CallIds : OnHandle(h)
    \/ ChildReads \/ Exit
    \/ \E f \in feeds : Handle(f) \/ FinishAsk(f)

Spec == Init /\ [][Next]_vars

\* Both processes run what is ready, an ended input ends the child and its exit
\* is seen.  An "ask" (getBlock of a block no peer has) need not be answered.
FairSpec ==
    /\ Spec
    /\ WF_vars(ParentReads) /\ WF_vars(ChildReads) /\ WF_vars(ExitSeen)
    /\ WF_vars(ended /\ toChild = <<>> /\ Exit)
    /\ \A i \in CallIds :
        WF_vars(\E f \in feeds : Head(f) = i /\ Handle(f))

-----------------------------------------------------------------------------
(* Properties. *)

Methods == {"init", "openLog", "appendBlock", "closeLog", "ask", "shutdown"}
Line == [kind : {"reply", "append"}, call : CallIds \cup {NoCall}, ok : BOOLEAN,
         log : Logs \cup {NoLog}, length : Nat]

TypeOK ==
    /\ writable \subseteq Logs
    /\ made \in 0..MaxCalls
    /\ method \in [CallIds -> Methods \cup {"none"}]
    /\ log \in [CallIds -> Logs \cup {NoLog}]
    /\ via \in [CallIds -> CallIds \cup {NoCall}]
    /\ settled \in [CallIds -> {"unmade", "pending", "resolved", "rejected"}]
    /\ value \in [CallIds -> Nat]
    /\ ready \in BOOLEAN /\ exited \in BOOLEAN /\ ended \in BOOLEAN /\ up \in BOOLEAN
    /\ known \in [CallIds -> Nat \cup {NoObject}]
    /\ logs \in [Logs -> CallIds \cup {NoCall}]
    /\ toChild \in Seq(CallIds) /\ toParent \in Seq(Line)
    /\ feeds \subseteq Seq(CallIds) /\ begun \subseteq CallIds
    /\ result \in [CallIds -> Nat]
    /\ runtime \in {"none", "open"} /\ cleared \in BOOLEAN
    /\ table \subseteq Logs /\ subscribed \subseteq Logs /\ visited \subseteq Logs
    /\ shut \subseteq Logs /\ missed \subseteq Logs
    /\ len \in [Logs -> Nat]

Appends(k) == {i \in CallIds : method[i] = "appendBlock" /\ log[i] = k /\
                               settled[i] = "resolved"}

\* "Append a single block.  Returns the new length": what an append of the child
\* returned tells its block, no two of them the same one (blobs.ts takes the
\* block's index from it).
AppendsNumberBlocks ==
    \A k \in Logs : \A i, j \in Appends(k) :
        /\ value[i] \in 1..len[k]
        /\ value[i] = value[j] => i = j

\* Two openLog calls of one log, made before either is answered, make two handles.
HandlesOf(k) == {h \in CallIds : log[h] = k /\ known[h] # NoObject}

\* When nothing is under way, the only handle of a log has the log's length, if
\* the child still sends it the log's events and the log did not grow before
\* there was a handle.
LengthSettles ==
    up /\ toParent = <<>> /\ toChild = <<>> /\ feeds = {} =>
        \A k \in subscribed \ missed : \A h \in CallIds :
            HandlesOf(k) = {h} => known[h] = len[k]

AskWaits == \E f \in feeds : Head(f) \in begun /\ method[Head(f)] = "ask"

\* If no question waits for a peer for ever, every call is settled: by its
\* answer, or, when the child ends, by its exit, even one that was sent to a
\* child that had ended already.
CallsSettle ==
    []<>~AskWaits => \A i \in CallIds : settled[i] = "pending" ~> settled[i] # "pending"
=============================================================================
