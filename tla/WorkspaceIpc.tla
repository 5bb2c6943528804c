----------------------------- MODULE WorkspaceIpc -----------------------------
(***************************************************************************)
(* Workspaces in a child process (packages/workspace/src/ipc): the parent  *)
(* has a RemoteWorkspace for each (remote-base.ts), the child a table of   *)
(* workspaces by handle (child.ts, child-bin.ts), and lines of JSON go     *)
(* between them.  A reader takes the lines that have arrived together: the *)
(* child handles the requests of one chunk in turn and those of different  *)
(* chunks concurrently, the parent handles a chunk before anything that    *)
(* awaits one of its replies runs.  A part of a line is as good as none.   *)
(*                                                                         *)
(* Of a workspace this keeps what close() is about: how many entries it    *)
(* has and for how many a flush of a close has run.  What such a flush     *)
(* leaves in the folder is WorkspaceSession's and TransportForm's matter.  *)
(***************************************************************************)
EXTENDS Integers, Sequences, FiniteSets, FiniteSetsExt, SequencesExt

CONSTANTS
    MaxCalls,   \* bound: requests the parent makes
    MaxWs,      \* bound: workspaces opened
    MaxLen      \* bound: entries up to which peers add to a workspace

ASSUME IpcConstants == MaxCalls \in Nat /\ MaxWs \in Nat /\ MaxLen \in Nat

Handles == 1..MaxWs
NoHandle == 0
NoObject == -1

VARIABLES
    calls,      \* parent: every request made, and how it was settled
    known,      \* parent: _length of each RemoteWorkspace, or NoObject
    listening,  \* parent: workspaces with working-tree listeners
    toChild,    \* requests (indexes of calls) the child has not read
    toParent,   \* replies and events the parent has not read
    up,         \* the child: running, ending (its stdin has ended), gone
    feeds,      \* child: the chunks being handled, each from its current request
    begun,      \* child: requests whose dispatch has begun
    table,      \* child: handles in `workspaces`
    watchers,   \* child: handles in `watchers`
    state,      \* each workspace: none, open, closed (close() was called), down
    len,        \* its entries
    flushed,    \* the entries a close has flushed: it began with them and did not fail
    closing,    \* calls of Workspace.close() that have not returned
    acked,      \* history: entries whose write was answered before close()
    missed,     \* history: workspaces that changed before they had an object
    late,       \* history: workspaces whose watcher was started during close()
    failed,     \* history: workspaces that had a flush of a close fail
    cut         \* history: the child died or ran out of time

parent == <<calls, known, listening>>
control == <<up, table, watchers, closing, state>>
entries == <<len, flushed, acked>>
history == <<missed, late, failed, cut>>
vars == <<parent, toChild, toParent, feeds, begun, control, entries, history>>

Init ==
    /\ calls = <<>> /\ listening = {}
    /\ known = [w \in Handles |-> NoObject]
    /\ toChild = <<>> /\ toParent = <<>>
    /\ up = "running" /\ feeds = {} /\ begun = {}
    /\ table = {} /\ watchers = {} /\ closing = {}
    /\ state = [w \in Handles |-> "none"]
    /\ len = [w \in Handles |-> 0] /\ flushed = len /\ acked = len
    /\ missed = {} /\ late = {} /\ failed = {} /\ cut = FALSE

-----------------------------------------------------------------------------
(* The parent. *)

\* Every object numbering its own requests, and rpcOnce always sending id 1.
NextIdOfObject(w) ==
    IF w = NoHandle THEN 1
    ELSE 1 + Cardinality({i \in DOMAIN calls : calls[i].ws = w})

\* nextRequestId is shared by all objects and by rpcOnce.
NextRequestId(w) == Len(calls) + 1

Call(m, w) ==
    /\ up = "running" /\ Len(calls) < MaxCalls
    /\ calls' = Append(calls, [method |-> m, ws |-> w, id |-> NextRequestId(w),
                               settled |-> "pending", by |-> 0])
    /\ toChild' = Append(toChild, Len(calls) + 1)
    /\ UNCHANGED <<known, toParent, feeds, begun, control, entries, history>>

\* createWorkspace or openWorkspace, over a child that is up.
OpenWorkspace == Call("open", NoHandle) /\ UNCHANGED listening

\* write(), close(), or a call that only asks (entries, list, status, flush,
\* invite): the answer to an ask may have to wait for a peer.
Request(w) ==
    /\ known[w] # NoObject
    /\ \E m \in {"write", "close", "ask"} : Call(m, w)
    /\ UNCHANGED listening

\* watchWorkingTree: the first listener starts the watcher, the last stops it.
Listen(w) ==
    /\ known[w] # NoObject
    /\ IF w \in listening
       THEN Call("unwatch", w) /\ listening' = listening \ {w}
       ELSE Call("watch", w) /\ listening' = listening \cup {w}

\* Keeping the first of several lengths.
FirstHeard(lengths) == Min(lengths)

\* Lengths are sent in the order they were reached.
Heard(lengths) == Max(lengths)

\* A chunk is read.  Events reach the objects there were before it; a reply
\* settles whatever waits for its id; then the awaits run, and a workspace
\* that was opened gets its object.
ParentReads ==
    \E k \in 1..Len(toParent) :
      LET chunk == {toParent[n] : n \in 1..k}
          replies == {r \in chunk : r.kind = "reply"}
          Answer(i) == {r \in replies : calls[r.call].id = calls[i].id}
          Lengths(w) == {r.length : r \in {e \in chunk \ replies : e.ws = w}}
          Opened(w) == {r \in replies : r.ok /\ r.ws = w /\ calls[r.call].method = "open"}
      IN
      /\ toParent' = SubSeq(toParent, k + 1, Len(toParent))
      /\ calls' = [i \in DOMAIN calls |->
            IF calls[i].settled # "pending" \/ Answer(i) = {} THEN calls[i]
            ELSE LET r == CHOOSE r \in Answer(i) : TRUE IN
                 [calls[i] EXCEPT !.settled = IF r.ok THEN "resolved" ELSE "rejected",
                                  !.by = r.call]]
      /\ known' = [w \in Handles |->
            IF Opened(w) # {} THEN (CHOOSE r \in Opened(w) : TRUE).length
            ELSE IF known[w] # NoObject /\ Lengths(w) # {} THEN Heard(Lengths(w))
            ELSE known[w]]
      /\ missed' = missed \cup
            {w \in Handles : known[w] = NoObject /\ Lengths(w) # {}}
      /\ UNCHANGED <<listening, toChild, feeds, begun, control, entries, late, failed, cut>>

-----------------------------------------------------------------------------
(* The child. *)

ChildReads ==
    /\ up # "gone"
    /\ \E k \in 1..Len(toChild) :
        /\ feeds' = feeds \cup {SubSeq(toChild, 1, k)}
        /\ toChild' = SubSeq(toChild, k + 1, Len(toChild))
    /\ UNCHANGED <<parent, toParent, begun, control, entries, history>>

\* A request that throws ends the loop over its chunk.
RestUnlessThrown(f, ok) == IF ok /\ Len(f) > 1 THEN {Tail(f)} ELSE {}

\* handle() answers a request that throws like any other.
Rest(f, ok) == IF Len(f) > 1 THEN {Tail(f)} ELSE {}

Reply(i, ok, w) ==
    [kind |-> "reply", call |-> i, ok |-> ok, ws |-> w,
     length |-> IF w = NoHandle THEN 0 ELSE len'[w]]

\* Request i, at the head of chunk f, is answered, after the events in `sent`.
Answered(f, ok, w, sent) ==
    /\ toParent' = toParent \o sent \o <<Reply(Head(f), ok, w)>>
    /\ feeds' = (feeds \ {f}) \cup Rest(f, ok)
    /\ begun' = begun \cup {Head(f)}

\* The change event, from a workspace that still has its listeners.
Changed(w) ==
    IF state[w] = "open"
    THEN <<[kind |-> "change", call |-> 0, ok |-> TRUE, ws |-> w, length |-> len'[w]]>>
    ELSE <<>>

\* Workspace.close(), up to its first await.
Closing(ws) == [w \in Handles |-> IF w \in ws /\ state[w] = "open" THEN "closed" ELSE state[w]]

WatchersKept(w) == watchers
WatchersWithout(w) == watchers \ {w}

\* wsWatch and wsClose, up to its first await.
BeginWatch(f, w) ==
    /\ Answered(f, TRUE, w, <<>>)
    /\ watchers' = watchers \cup {w}
    /\ late' = IF state[w] = "open" THEN late ELSE late \cup {w}
    /\ UNCHANGED <<up, table, closing, state>>

BeginUnwatch(f, w) ==
    /\ Answered(f, TRUE, w, <<>>)
    /\ watchers' = watchers \ {w}
    /\ UNCHANGED <<up, table, closing, state, late>>

BeginClose(f, w) ==
    /\ begun' = begun \cup {Head(f)}
    /\ watchers' = WatchersWithout(w)
    /\ closing' = closing \cup {[ws |-> w, feed |-> f, stage |-> "flush", end |-> 0]}
    /\ state' = Closing({w})
    /\ UNCHANGED <<feeds, toParent, up, table, late>>

\* The dispatch of the request at the head of a chunk begins.
Begin(f) ==
    LET call == calls[Head(f)]
        w == call.ws
    IN
    /\ up # "gone" /\ Head(f) \notin begun
    /\ UNCHANGED <<parent, toChild, entries, missed, failed, cut>>
    /\ CASE call.method # "open" /\ w \notin table ->
              Answered(f, FALSE, NoHandle, <<>>) /\ UNCHANGED <<control, late>>
         [] call.method = "watch" /\ w \in table -> BeginWatch(f, w)
         [] call.method = "unwatch" /\ w \in table -> BeginUnwatch(f, w)
         [] call.method = "close" /\ w \in table -> BeginClose(f, w)
         [] OTHER -> /\ begun' = begun \cup {Head(f)}
                     /\ UNCHANGED <<feeds, toParent, control, late>>

Running(f, m) == up # "gone" /\ Head(f) \in begun /\ calls[Head(f)].method = m

NextHandle == 1 + Cardinality({w \in Handles : state[w] # "none"})

\* Workspace.create or open returns and is tracked, or it throws.  An opened
\* workspace may have entries already.
FinishOpen(f) ==
    /\ Running(f, "open")
    /\ \/ /\ NextHandle <= MaxWs
          /\ table' = table \cup {NextHandle}
          /\ state' = [state EXCEPT ![NextHandle] = "open"]
          /\ \E n \in 0..1 : len' = [len EXCEPT ![NextHandle] = n]
          /\ Answered(f, TRUE, NextHandle, <<>>)
       \/ UNCHANGED <<table, state, len>> /\ Answered(f, FALSE, NoHandle, <<>>)
    /\ UNCHANGED <<parent, toChild, up, watchers, closing, flushed, acked, history>>

\* The append of a write, its change event and its answer, or it throws.  Until
\* the runtime is down an append may succeed, whatever close() has done.
FinishWrite(f) ==
    LET w == calls[Head(f)].ws IN
    /\ Running(f, "write")
    /\ \/ /\ state[w] # "down"
          /\ len' = [len EXCEPT ![w] = @ + 1]
          /\ Answered(f, TRUE, w, Changed(w))
          /\ acked' = IF state[w] = "open" THEN [acked EXCEPT ![w] = len'[w]] ELSE acked
       \/ UNCHANGED <<len, acked>> /\ Answered(f, FALSE, NoHandle, <<>>)
    /\ UNCHANGED <<parent, toChild, control, flushed, history>>

FinishAsk(f) ==
    /\ Running(f, "ask")
    /\ UNCHANGED <<parent, toChild, control, entries, history>>
    /\ \E ok \in BOOLEAN : Answered(f, ok, calls[Head(f)].ws, <<>>)

\* An entry is replicated from a peer.
Replicate(w) ==
    /\ up # "gone" /\ state[w] \in {"open", "closed"} /\ len[w] < MaxLen
    /\ len' = [len EXCEPT ![w] = @ + 1]
    /\ toParent' = toParent \o Changed(w)
    /\ UNCHANGED <<parent, toChild, feeds, begun, control, flushed, acked, history>>

\* close() flushes: what the workspace has now is asked for, unless another
\* close has taken the runtime down.
BeginFlush(c) ==
    /\ up # "gone" /\ c.stage = "flush"
    /\ closing' = (closing \ {c}) \cup
          {IF state[c.ws] = "down" THEN [c EXCEPT !.stage = "runtime"]
           ELSE [c EXCEPT !.stage = "copy", !.end = len[c.ws]]}
    /\ UNCHANGED <<parent, toChild, toParent, feeds, begun, up, table, watchers, state,
                   entries, history>>

\* Another close of w has come to runtime.close(), which closes the stores of
\* every flush.
Overtaken(w) ==
    state[w] = "down" \/ \E c \in closing : c.ws = w /\ c.stage = "runtime"

\* The flush returns, or it fails, which close() swallows.
EndFlush(c) ==
    /\ up # "gone" /\ c.stage = "copy"
    /\ closing' = (closing \ {c}) \cup {[c EXCEPT !.stage = "runtime"]}
    /\ \/ /\ flushed' = [flushed EXCEPT ![c.ws] = Max({@, c.end})]
          /\ UNCHANGED failed
       \/ /\ failed' = IF Overtaken(c.ws) THEN failed ELSE failed \cup {c.ws}
          /\ UNCHANGED flushed
    /\ UNCHANGED <<parent, toChild, toParent, feeds, begun, up, table, watchers, state,
                   len, acked, missed, late, cut>>

\* runtime.close() returns; wsClose removes the handle and answers.
CloseReturns(c) ==
    /\ up # "gone" /\ c.stage = "runtime"
    /\ closing' = closing \ {c}
    /\ state' = [state EXCEPT ![c.ws] = "down"]
    /\ UNCHANGED entries
    /\ IF c.feed = <<>>
       THEN UNCHANGED <<table, toParent, feeds, begun>>
       ELSE table' = table \ {c.ws} /\ Answered(c.feed, TRUE, c.ws, <<>>)
    /\ UNCHANGED <<parent, toChild, up, watchers, history>>

\* Leaving to wsClose what it is closing already.
HeldIdle == {w \in table : state[w] = "open"}
Held == table

\* stdin ends: closeAll().
InputEnds ==
    /\ up = "running" /\ toChild = <<>>
    /\ up' = "ending"
    /\ watchers' = {} /\ table' = {}
    /\ closing' = closing \cup 
          {[ws |-> w, feed |-> <<>>, stage |-> "flush", end |-> 0] : w \in Held}
    /\ state' = Closing(Held)
    /\ UNCHANGED <<parent, toChild, toParent, feeds, begun, entries, history>>

\* The process ends; what it has not written out is lost.
Dies ==
    /\ up' = "gone"
    /\ \E k \in 0..Len(toParent) : toParent' = SubSeq(toParent, 1, k)
    /\ UNCHANGED <<parent, toChild, feeds, begun, table, watchers, closing, state,
                   entries, missed, late, failed>>

\* Every close that closeAll() called has returned, or five seconds are over.
Exit ==
    /\ up = "ending" /\ Dies
    /\ \/ (\A c \in closing : c.feed # <<>>) /\ UNCHANGED cut
       \/ cut' = TRUE

Crash == up = "running" /\ Dies /\ cut' = TRUE

Dispatch(f) == Begin(f) \/ FinishOpen(f) \/ FinishWrite(f)

Next ==
    \/ OpenWorkspace \/ ParentReads \/ ChildReads \/ InputEnds \/ Exit \/ Crash
    \/ \E w \in Handles : Request(w) \/ Listen(w) \/ Replicate(w)
    \/ \E f \in feeds : Dispatch(f) \/ FinishAsk(f)
    \/ \E c \in closing : BeginFlush(c) \/ EndFlush(c) \/ CloseReturns(c)

Spec == Init /\ [][Next]_vars

\* Both processes run what is ready.  Nobody has to call, to end the child's
\* input or to die, and what may wait for a peer, asks and closes, need not end.
FairSpec ==
    /\ Spec
    /\ WF_vars(ParentReads) /\ WF_vars(ChildReads)
    /\ \A i \in 1..MaxCalls :
        WF_vars(\E f \in feeds : Head(f) = i /\ Dispatch(f))

-----------------------------------------------------------------------------
(* Properties. *)

Chunks == {f \in UNION {[1..n -> DOMAIN calls] : n \in 1..MaxCalls} : IsInjective(f)}

TypeOK ==
    /\ \A i \in DOMAIN calls :
        /\ calls[i].ws \in Handles \cup {NoHandle}
        /\ calls[i].settled \in {"pending", "resolved", "rejected"}
    /\ known \in [Handles -> {NoObject} \cup Nat]
    /\ listening \subseteq Handles
    /\ up \in {"running", "ending", "gone"}
    /\ table \subseteq {w \in Handles : state[w] # "none"}
    /\ watchers \subseteq {w \in Handles : state[w] # "none"}
    /\ feeds \subseteq Chunks /\ begun \subseteq DOMAIN calls
    /\ state \in [Handles -> {"none", "open", "closed", "down"}]
    /\ \A w \in Handles : flushed[w] <= len[w] /\ acked[w] <= len[w]

\* "The collision unrepresentable rather than merely unlikely": on a shared
\* child every call is settled by the answer to itself.
AnswersAreOwn ==
    \A i \in DOMAIN calls : calls[i].settled # "pending" => calls[i].by = i

\* Once the parent has read what was sent, an open workspace's length is that of
\* the living child, unless it changed before there was an object to tell.
LengthFollows ==
    toParent = <<>> /\ up # "gone" =>
        \A w \in Handles : known[w] # NoObject /\ state[w] = "open" =>
            known[w] = len[w] \/ w \in missed

\* Closing a workspace stops its watcher, unless it is started during the close.
WatcherStops == watchers \subseteq table \cup late

\* "A child whose parent goes away flushes its workspace into the folder before
\* exiting": if there was time, a flush that began with all that was answered has
\* ended before the child does, or one has failed, whichever closes overlap.
ExitFlushesAll ==
    up = "gone" /\ ~cut => \A w \in Handles : flushed[w] >= acked[w] \/ w \in failed

Waits ==
    \E f \in feeds : Head(f) \in begun /\ calls[Head(f)].method \in {"ask", "close"}

\* If nothing waits for a peer for ever, every call is settled while the child
\* is up: a settled call stays so and no more than MaxCalls are made, so that each
\* is settled if again and again none is pending.
CallsSettle ==
    []<>~Waits => []<>(up # "running" \/ \A i \in DOMAIN calls : calls[i].settled # "pending")
=============================================================================
