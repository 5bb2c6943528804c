-------------------------- MODULE WorkspaceIpcProofs --------------------------
(***************************************************************************)
(* Proofs about WorkspaceIpc, for any number of calls, workspaces and      *)
(* entries: answers reach their own calls, closing a workspace stops its   *)
(* watcher, the parent's lengths follow the child's, and a child that had  *)
(* the time exits after every workspace's flush.                           *)
(***************************************************************************)
EXTENDS WorkspaceIpc, SequenceTheorems, FiniteSetTheorems, WellFoundedInduction, TLAPS

-----------------------------------------------------------------------------
(* The inductive invariant. *)

Methods == {"open", "write", "close", "ask", "watch", "unwatch"}
CallRecords == [method : Methods, ws : Handles \cup {NoHandle}, id : Nat,
                settled : {"pending", "resolved", "rejected"}, by : Nat]
Lines == [kind : {"reply", "change"}, call : Nat, ok : BOOLEAN,
          ws : Handles \cup {NoHandle}, length : Nat]
Closings == [ws : Handles, feed : Seq(Nat), stage : {"flush", "copy", "runtime"}, end : Nat]

Exists(w) == state[w] # "none"

\* The parent's calls are numbered in the order they are made, and name
\* workspaces that exist.
ParentInv ==
    /\ calls \in Seq(CallRecords)
    /\ \A i \in 1..Len(calls) :
        /\ calls[i].id = i
        /\ IF calls[i].method = "open" THEN calls[i].ws = NoHandle
           ELSE calls[i].ws \in Handles /\ Exists(calls[i].ws)
        /\ calls[i].settled # "pending" => calls[i].by = i
    /\ \A w \in Handles : known[w] # NoObject => Exists(w)

\* What is in the pipes and in the child's hands are calls that were made.
Made(f) == f \in Seq(Nat) /\ f # <<>> /\ \A n \in 1..Len(f) : f[n] \in 1..Len(calls)

\* A line is about calls that were made and workspaces that exist.
Sound(x) ==
    /\ x.kind = "reply" => x.call \in 1..Len(calls)
    /\ x.ws # NoHandle => Exists(x.ws)

PipesInv ==
    /\ toChild \in Seq(Nat) /\ \A n \in 1..Len(toChild) : toChild[n] \in 1..Len(calls)
    /\ \A f \in feeds : Made(f)
    /\ toParent \in Seq(Lines)
    /\ \A n \in 1..Len(toParent) : Sound(toParent[n])

\* Handles are given out in turn.
TablesInv ==
    /\ up \in {"running", "ending", "gone"}
    /\ state \in [Handles -> {"none", "open", "closed", "down"}]
    /\ \E n \in 0..MaxWs : {w \in Handles : Exists(w)} = 1..n
    /\ table \subseteq {w \in Handles : Exists(w)}
    /\ watchers \subseteq table \cup late
    /\ late \subseteq Handles /\ missed \subseteq Handles

\* Nothing but a late watch turns the watcher of a workspace that is closing on.
ClosingInv ==
    /\ closing \subseteq Closings
    /\ \A c \in closing :
        /\ state[c.ws] \in {"closed", "down"}
        /\ c.ws \in watchers => c.ws \in late
        /\ c.feed # <<>> => Made(c.feed) /\ calls[Head(c.feed)].method = "close"

\* What was acknowledged has been flushed, or the flush failed.
Safe(w) == acked[w] <= flushed[w] \/ w \in failed

\* What is acknowledged and not safe is in a workspace that is open, or in one
\* with a close that has still to flush, or that flushes all of it.
FoldersInv ==
    /\ len \in [Handles -> Nat] /\ flushed \in [Handles -> Nat] /\ acked \in [Handles -> Nat]
    /\ \A w \in Handles :
        /\ acked[w] <= len[w] /\ flushed[w] <= len[w]
        /\ state[w] = "none" => acked[w] = 0 /\ flushed[w] = 0
        /\ state[w] = "down" => Safe(w)
        /\ up = "running" /\ state[w] \in {"open", "closed"} => w \in table
        /\ up = "ending" /\ state[w] = "open" =>
            Safe(w) /\ \A i \in 1..Len(calls) : calls[i].ws # w
        /\ up = "ending" /\ state[w] = "closed" =>
            \/ Safe(w)
            \/ \E c \in closing : c.ws = w /\ c.feed = <<>> /\ c.stage # "runtime"
    /\ \A c \in closing :
        /\ c.end <= len[c.ws]
        /\ c.stage = "copy" => acked[c.ws] <= c.end
        /\ c.stage = "runtime" => Safe(c.ws)

\* Where the change events and the opening of a workspace are among lines q.
ChangesIn(q, w) == {n \in 1..Len(q) : q[n].kind = "change" /\ q[n].ws = w}
Opens(x, w) == x.kind = "reply" /\ x.ok /\ x.ws = w /\ calls[x.call].method = "open"
OpensIn(q, w) == {n \in 1..Len(q) : Opens(q[n], w)}

\* The last change event tells the length l.
LastTells(q, l, w) ==
    \E n \in ChangesIn(q, w) : q[n].length = l /\ \A m \in ChangesIn(q, w) : m <= n

\* The parent, with lines q to read, will come to know the length l of w.
Follows(q, l, w) ==
    /\ ~Exists(w) => ChangesIn(q, w) = {} /\ OpensIn(q, w) = {}
    /\ known[w] # NoObject => OpensIn(q, w) = {}
    /\ \A m, n \in OpensIn(q, w) : m = n
    /\ \A n \in ChangesIn(q, w) : q[n].length <= l
    /\ state[w] = "open" =>
        \/ LastTells(q, l, w)
        \/ ChangesIn(q, w) = {} /\ (w \in missed \/ known[w] = l)
        \/ /\ ChangesIn(q, w) = {} /\ known[w] = NoObject
           /\ \A n \in OpensIn(q, w) : q[n].length = l

LengthsInv == up # "gone" => \A w \in Handles : Follows(toParent, len[w], w)

Inv ==
    ParentInv /\ PipesInv /\ TablesInv /\ ClosingInv /\ FoldersInv /\ LengthsInv

-----------------------------------------------------------------------------
(* Lines that are added. *)

LEMMA HandleFacts ==
    MaxWs \in Nat /\ NoHandle \notin Handles /\ \A w \in Handles : w \in Nat
  BY IpcConstants DEF Handles, NoHandle

\* What stays of a pipe when its first k elements are read.
LEMMA ReadRest ==
    ASSUME NEW S, NEW q \in Seq(S), NEW k \in 1..Len(q)
    PROVE  /\ SubSeq(q, k + 1, Len(q)) \in Seq(S)
           /\ Len(SubSeq(q, k + 1, Len(q))) = Len(q) - k
           /\ \A i \in 1..(Len(q) - k) : SubSeq(q, k + 1, Len(q))[i] = q[k + i]
<1> DEFINE n == Len(q)
           m == k + 1
<1>1. n \in Nat /\ k \in Int /\ 1 <= k /\ k <= n
  OBVIOUS
<1>2. m \in Int /\ n \in Int /\ m = k + 1
  BY <1>1
<1>3. ASSUME NEW i \in m..n
      PROVE  q[i] \in S
  <2>1. i \in 1..Len(q)
    BY <1>1
  <2> HIDE DEF n, m
  <2> QED
    BY <2>1, ElementOfSeq
<1> DEFINE p == SubSeq(q, m, n)
<1> HIDE DEF n, m
<1>4. /\ p \in Seq(S) /\ Len(p) = (IF m <= n THEN n - m + 1 ELSE 0)
      /\ \A i \in 1..(n - m + 1) : p[i] = q[m + i - 1]
  BY <1>2, <1>3, SubSeqProperties
<1> HIDE DEF p
<1>5. Len(p) = n - k
  BY <1>1, <1>2, <1>4
<1>6. ASSUME NEW i \in 1..(n - k)
      PROVE  p[i] = q[k + i]
  <2>1. i \in 1..(n - m + 1) /\ m + i - 1 = k + i
    BY <1>1, <1>2
  <2> QED
    BY <1>4, <2>1
<1> QED
  BY <1>4, <1>5, <1>6 DEF p, n, m

\* Where changes and openings are once a line is added.
LEMMA AddedLine ==
    ASSUME NEW q \in Seq(Lines), NEW x \in Lines, NEW w
    PROVE  /\ ChangesIn(Append(q, x), w) =
                IF x.kind = "change" /\ x.ws = w THEN ChangesIn(q, w) \cup {Len(q) + 1}
                ELSE ChangesIn(q, w)
           /\ OpensIn(Append(q, x), w) =
                IF Opens(x, w) THEN OpensIn(q, w) \cup {Len(q) + 1} ELSE OpensIn(q, w)
<1> DEFINE p == Append(q, x)
<1>1. /\ Len(q) \in Nat /\ Len(p) = Len(q) + 1
      /\ \A n \in 1..Len(q) : p[n] = q[n]
      /\ p[Len(q) + 1] = x
  BY AppendProperties
<1>2. \A n : n \in 1..Len(p) <=> n \in 1..Len(q) \/ n = Len(q) + 1
  BY <1>1
<1> HIDE DEF p
<1>3. ChangesIn(p, w) = IF x.kind = "change" /\ x.ws = w THEN ChangesIn(q, w) \cup {Len(q) + 1}
                        ELSE ChangesIn(q, w)
  BY <1>1, <1>2 DEF ChangesIn
<1>4. OpensIn(p, w) = IF Opens(x, w) THEN OpensIn(q, w) \cup {Len(q) + 1} ELSE OpensIn(q, w)
  BY <1>1, <1>2 DEF OpensIn
<1> QED
  BY <1>3, <1>4 DEF p

\* A line that is nothing to w.
LEMMA OtherLine ==
    ASSUME NEW q \in Seq(Lines), NEW x \in Lines, NEW l, NEW w \in Handles,
           Follows(q, l, w), ~(x.kind = "change" /\ x.ws = w), ~Opens(x, w)
    PROVE  Follows(Append(q, x), l, w)
<1>1. /\ ChangesIn(Append(q, x), w) = ChangesIn(q, w)
      /\ OpensIn(Append(q, x), w) = OpensIn(q, w)
  BY AddedLine
<1>2. \A n \in ChangesIn(q, w) \cup OpensIn(q, w) : Append(q, x)[n] = q[n]
  BY AppendProperties DEF ChangesIn, OpensIn
<1> QED
  BY <1>1, <1>2 DEF Follows, LastTells

\* The event of a change.
LEMMA ChangeLine ==
    ASSUME NEW q \in Seq(Lines), NEW x \in Lines, NEW l \in Nat, NEW w \in Handles,
           Follows(q, l, w), Exists(w), x.kind = "change", x.ws = w, x.length = l + 1
    PROVE  Follows(Append(q, x), l + 1, w)
<1>1. /\ ChangesIn(Append(q, x), w) = ChangesIn(q, w) \cup {Len(q) + 1}
      /\ OpensIn(Append(q, x), w) = OpensIn(q, w)
  BY AddedLine DEF Opens
<1>2. /\ \A n \in ChangesIn(q, w) : Append(q, x)[n] = q[n] /\ n <= Len(q) + 1
      /\ Append(q, x)[Len(q) + 1] = x
  BY AppendProperties DEF ChangesIn
<1>3. LastTells(Append(q, x), l + 1, w)
  <2>1. Len(q) + 1 \in ChangesIn(Append(q, x), w) /\ Len(q) + 1 <= Len(q) + 1
    BY <1>1
  <2> QED
    BY <1>1, <1>2, <2>1 DEF LastTells
<1>4. \A n \in ChangesIn(q, w) \cup {Len(q) + 1} : Append(q, x)[n].length <= l + 1
  <2>1. \A n \in ChangesIn(q, w) : q[n] \in Lines /\ q[n].length <= l
    BY DEF Follows, ChangesIn
  <2>2. \A n \in ChangesIn(q, w) : q[n].length <= l + 1
    BY <2>1 DEF Lines
  <2>3. x.length <= l + 1
    OBVIOUS
  <2> QED
    BY <1>2, <2>2, <2>3
<1> QED
  BY <1>1, <1>3, <1>4 DEF Follows

\* A workspace whose listeners are gone grows without a word.
LEMMA GrowsSilently ==
    ASSUME NEW q \in Seq(Lines), NEW l \in Nat, NEW w \in Handles,
           Follows(q, l, w), state[w] # "open"
    PROVE  Follows(q, l + 1, w)
<1>1. \A n \in ChangesIn(q, w) : q[n] \in Lines /\ q[n].length <= l
  BY DEF Follows, ChangesIn
<1>2. \A n \in ChangesIn(q, w) : q[n].length <= l + 1
  BY <1>1 DEF Lines
<1> QED
  BY <1>2 DEF Follows

-----------------------------------------------------------------------------
(* What steps of the child have in common. *)

\* Workspaces are neither made nor lost.
SameHandles == \A w \in Handles : Exists(w)' <=> Exists(w)

LEMMA ParentKept ==
    ASSUME ParentInv, UNCHANGED <<calls, known>>, \A w \in Handles : Exists(w) => Exists(w)'
    PROVE  ParentInv'
  BY DEF ParentInv

\* Adding sound lines.
LEMMA AddSound ==
    ASSUME NEW q \in Seq(Lines), \A n \in 1..Len(q) : Sound(q[n]), NEW x \in Lines, Sound(x)
    PROVE  /\ Append(q, x) \in Seq(Lines)
           /\ \A n \in 1..Len(Append(q, x)) : Sound(Append(q, x)[n])
<1> DEFINE p == Append(q, x)
<1>1. /\ p \in Seq(Lines) /\ Len(p) = Len(q) + 1 /\ Len(q) \in Nat
      /\ \A n \in 1..Len(q) : p[n] = q[n]
      /\ p[Len(q) + 1] = x
  BY AppendProperties
<1>2. \A n \in 1..Len(p) : n \in 1..Len(q) \/ n = Len(q) + 1
  BY <1>1
<1> HIDE DEF p
<1>3. \A n \in 1..Len(p) : Sound(p[n])
  BY <1>1, <1>2
<1> QED
  BY <1>1, <1>3 DEF p

LEMMA PipesKept ==
    ASSUME PipesInv, UNCHANGED <<calls, toChild>>, \A w \in Handles : Exists(w) => Exists(w)',
           \A g \in feeds' : Made(g),
           toParent' \in Seq(Lines), \A n \in 1..Len(toParent') : Sound(toParent'[n])
    PROVE  PipesInv'
<1>1. \A n \in 1..Len(toParent') : toParent'[n] \in Lines
  BY ElementOfSeq
<1>2. \A n \in 1..Len(toParent') : Sound(toParent[n])'
  BY <1>1 DEF Sound, Lines
<1>3. \A g \in feeds' : Made(g)'
  BY DEF Made
<1> QED
  BY <1>2, <1>3 DEF PipesInv

\* The chunks that are left when the request at the head of f is answered.
LEMMA RestMade ==
    ASSUME NEW f, Made(f), NEW ok
    PROVE  /\ \A g \in Rest(f, ok) : Made(g)
           /\ Head(f) \in 1..Len(calls) /\ Head(f) \in Nat
<1>1. f \in Seq(Nat) /\ f # <<>> /\ Len(f) \in Nat /\ Len(f) >= 1
  BY EmptySeq DEF Made
<1>2. Head(f) = f[1]
  BY <1>1
<1>3. ASSUME Len(f) > 1
      PROVE  Made(Tail(f))
  <2> DEFINE t == Tail(f)
  <2>1. t \in Seq(Nat) /\ Len(t) = Len(f) - 1 /\ \A i \in 1..Len(t) : t[i] = f[i + 1]
    BY <1>1, HeadTailProperties
  <2> HIDE DEF t
  <2>2. t # <<>>
    BY <1>1, <1>3, <2>1
  <2>3. \A i \in 1..Len(t) : i + 1 \in 1..Len(f)
    BY <1>1, <2>1
  <2>4. Made(t)
    BY <2>1, <2>2, <2>3 DEF Made
  <2> QED
    BY <2>4 DEF t
<1>4. f[1] \in 1..Len(calls)
  BY <1>1 DEF Made
<1>5. \A g \in Rest(f, ok) : Made(g)
  BY <1>3 DEF Rest
<1> QED
  BY <1>2, <1>4, <1>5

\* A call is answered.
LEMMA Answers ==
    ASSUME PipesInv, UNCHANGED <<calls, toChild>>, \A w \in Handles : Exists(w) => Exists(w)',
           NEW f, Made(f), NEW ok \in BOOLEAN, NEW w \in Handles \cup {NoHandle},
           w # NoHandle => Exists(w), len' \in [Handles -> Nat],
           Answered(f, ok, w, <<>>)
    PROVE  /\ PipesInv'
           /\ Reply(Head(f), ok, w) \in Lines
           /\ toParent' = Append(toParent, Reply(Head(f), ok, w))
<1> DEFINE r == Reply(Head(f), ok, w)
<1>1. \A g \in feeds' : Made(g)
  BY RestMade DEF PipesInv, Answered
<1>2. Head(f) \in 1..Len(calls) /\ Head(f) \in Nat
  BY RestMade
<1>3. r \in Lines /\ Sound(r)
  BY <1>2 DEF Reply, Lines, NoHandle, Sound
<1>4. toParent' = Append(toParent, r)
  <2>1. toParent \in Seq(Lines)
    BY DEF PipesInv
  <2>2. toParent' = (toParent \o <<>>) \o <<r>>
    BY DEF Answered
  <2> HIDE DEF r
  <2> QED
    BY <1>3, <2>1, <2>2, ConcatEmptySeq, AppendIsConcat
<1> HIDE DEF r
<1>5. toParent' \in Seq(Lines) /\ \A n \in 1..Len(toParent') : Sound(toParent'[n])
  BY <1>3, <1>4, AddSound DEF PipesInv
<1>6. PipesInv'
  BY <1>1, <1>5, PipesKept
<1> QED
  BY <1>3, <1>4, <1>6 DEF r

\* What the parent will come to know of w, in a step that leaves the parent alone.
LEMMA FollowsFrom ==
    ASSUME UNCHANGED <<calls, known>>, missed \subseteq missed', NEW w \in Handles,
           Exists(w)' <=> Exists(w), state'[w] = "open" => state[w] = "open",
           Follows(toParent', len'[w], w)
    PROVE  Follows(toParent, len[w], w)'
<1> DEFINE q == toParent' l == len'[w]
<1>1. OpensIn(toParent, w)' = OpensIn(q, w) /\ ChangesIn(toParent, w)' = ChangesIn(q, w)
  BY DEF OpensIn, Opens, ChangesIn
<1>2. LastTells(toParent, len[w], w)' <=> LastTells(q, l, w)
  BY <1>1 DEF LastTells
<1> QED
  BY <1>1, <1>2 DEF Follows

\* A step that tells the parent nothing of lengths.
LEMMA LengthsKept ==
    ASSUME PipesInv, LengthsInv, UNCHANGED <<calls, known, len>>, missed \subseteq missed',
           up' # "gone" => up # "gone", SameHandles,
           \A w \in Handles : state'[w] = "open" => state[w] = "open",
           \/ toParent' = toParent
           \/ \E r \in Lines : /\ r.kind = "reply" /\ toParent' = Append(toParent, r)
                               /\ ~(r.ok /\ calls[r.call].method = "open")
    PROVE  LengthsInv'
<1> SUFFICES ASSUME up' # "gone", NEW w \in Handles
             PROVE  Follows(toParent, len[w], w)'
  BY DEF LengthsInv
<1>1. Follows(toParent, len[w], w) /\ toParent \in Seq(Lines)
  BY DEF LengthsInv, PipesInv
<1>2. Follows(toParent', len[w], w)
  <2>1. CASE toParent' = toParent
    BY <1>1, <2>1
  <2>2. ASSUME NEW r \in Lines, r.kind = "reply", toParent' = Append(toParent, r),
               ~(r.ok /\ calls[r.call].method = "open")
        PROVE  Follows(toParent', len[w], w)
    BY <1>1, <2>2, OtherLine DEF Opens
  <2> QED
    BY <2>1, <2>2
<1> QED
  BY <1>2, FollowsFrom DEF SameHandles

\* A step that leaves what workspaces have flushed to others.
LEMMA FoldersKept ==
    ASSUME FoldersInv, UNCHANGED <<calls, entries, failed, up, state, table, closing>>
    PROVE  FoldersInv'
  BY DEF FoldersInv, Safe, entries

LEMMA TablesKept ==
    ASSUME TablesInv, SameHandles,
           up' \in {"running", "ending", "gone"},
           state' \in [Handles -> {"none", "open", "closed", "down"}],
           table' \subseteq table, watchers' \subseteq table' \cup late',
           late' \subseteq Handles, missed' \subseteq Handles
    PROVE  TablesInv'
<1>1. {w \in Handles : Exists(w)'} = {w \in Handles : Exists(w)}
  BY DEF SameHandles
<1>2. \E n \in 0..MaxWs : {w \in Handles : Exists(w)'} = 1..n
  BY <1>1 DEF TablesInv
<1> QED
  BY <1>1, <1>2 DEF TablesInv

\* A step that starts no close and stops no watcher.
LEMMA ClosingKept ==
    ASSUME ClosingInv, UNCHANGED <<calls, closing, state, watchers, late>>
    PROVE  ClosingInv'
<1>1. \A c \in closing : Made(c.feed)' <=> Made(c.feed)
  BY DEF Made
<1> QED
  BY <1>1 DEF ClosingInv

-----------------------------------------------------------------------------
(* The steps of the child. *)

\* An ask is answered.
LEMMA AskKeeps ==
    ASSUME Inv, NEW f \in feeds, FinishAsk(f)
    PROVE  Inv'
<1> USE DEF Inv
<1>1. PICK ok \in BOOLEAN : Answered(f, ok, calls[Head(f)].ws, <<>>)
  BY DEF FinishAsk
<1>2. UNCHANGED <<calls, known, toChild, control, entries, history>> /\ calls[Head(f)].method = "ask"
  BY DEF FinishAsk, parent, Running
<1>3. Made(f) /\ Head(f) \in 1..Len(calls)
  BY RestMade DEF PipesInv
<1> DEFINE w == calls[Head(f)].ws
<1>4. w \in Handles /\ Exists(w)
  BY <1>2, <1>3 DEF ParentInv
<1>5. SameHandles /\ \A v \in Handles : Exists(v) => Exists(v)'
  BY <1>2 DEF SameHandles, Exists, control
<1>6. len' \in [Handles -> Nat]
  BY <1>2 DEF FoldersInv, entries
<1>7. /\ PipesInv' /\ Reply(Head(f), ok, w) \in Lines
      /\ toParent' = Append(toParent, Reply(Head(f), ok, w))
  BY <1>1, <1>2, <1>3, <1>4, <1>5, <1>6, Answers
<1>8. LengthsInv'
  BY <1>2, <1>5, <1>7, LengthsKept DEF Reply, control, entries, history
<1>9. TablesInv' /\ ClosingInv' /\ FoldersInv' /\ ParentInv'
  BY <1>2, <1>5, TablesKept, ClosingKept, FoldersKept, ParentKept
  DEF control, entries, history, TablesInv
<1> QED
  BY <1>7, <1>8, <1>9

\* The ways in which a dispatch begins.
LEMMA BeginCases ==
    ASSUME NEW f, Begin(f)
    PROVE  LET w == calls[Head(f)].ws IN
           /\ up # "gone" /\ UNCHANGED <<parent, toChild, entries, missed, failed, cut>>
           /\ \/ Answered(f, FALSE, NoHandle, <<>>) /\ UNCHANGED <<control, late>>
              \/ calls[Head(f)].method = "watch" /\ w \in table /\ BeginWatch(f, w)
              \/ calls[Head(f)].method = "unwatch" /\ w \in table /\ BeginUnwatch(f, w)
              \/ calls[Head(f)].method = "close" /\ w \in table /\ BeginClose(f, w)
              \/ UNCHANGED <<feeds, toParent, control, late>>
  BY DEF Begin

\* A request to an unknown handle is refused at once.
LEMMA RefusalKeeps ==
    ASSUME Inv, NEW f, Made(f), UNCHANGED <<parent, toChild, entries, missed, failed, cut, control, late>>,
           Answered(f, FALSE, NoHandle, <<>>)
    PROVE  Inv'
<1> USE DEF Inv
<1>1. SameHandles /\ \A v \in Handles : Exists(v) => Exists(v)'
  BY DEF SameHandles, Exists, control
<1>2. len' \in [Handles -> Nat]
  BY DEF FoldersInv, entries
<1>3. UNCHANGED <<calls, known, toChild>>
  BY DEF parent
<1>4. /\ PipesInv' /\ Reply(Head(f), FALSE, NoHandle) \in Lines
      /\ toParent' = Append(toParent, Reply(Head(f), FALSE, NoHandle))
  BY <1>1, <1>2, <1>3, Answers
<1>5. LengthsInv'
  BY <1>1, <1>3, <1>4, LengthsKept DEF Reply, control, entries
<1>6. TablesInv' /\ ClosingInv' /\ FoldersInv' /\ ParentInv'
  BY <1>1, <1>3, TablesKept, ClosingKept, FoldersKept, ParentKept
  DEF control, entries, TablesInv
<1> QED
  BY <1>4, <1>5, <1>6

\* The watcher of a workspace is turned on or off: one that is closing is late.
LEMMA WatchKeeps ==
    ASSUME Inv, NEW f, Made(f), UNCHANGED <<parent, toChild, entries, missed, failed, cut>>,
           NEW w \in table, calls[Head(f)].ws = w, calls[Head(f)].method \in {"watch", "unwatch"},
           BeginWatch(f, w) \/ BeginUnwatch(f, w)
    PROVE  Inv'
<1> USE DEF Inv
<1>1. /\ Answered(f, TRUE, w, <<>>) /\ UNCHANGED <<up, table, closing, state>>
      /\ \/ watchers' = watchers \cup {w} /\ late' = IF state[w] = "open" THEN late ELSE late \cup {w}
         \/ watchers' = watchers \ {w} /\ late' = late
  BY DEF BeginWatch, BeginUnwatch
<1>2. SameHandles /\ \A v \in Handles : Exists(v) => Exists(v)'
  BY <1>1 DEF SameHandles, Exists
<1>3. len' \in [Handles -> Nat] /\ w \in Handles /\ Exists(w)
  BY DEF FoldersInv, TablesInv, entries
<1>4. UNCHANGED <<calls, known, toChild>>
  BY DEF parent
<1>5. /\ PipesInv' /\ Reply(Head(f), TRUE, w) \in Lines
      /\ toParent' = Append(toParent, Reply(Head(f), TRUE, w))
  BY <1>1, <1>2, <1>3, <1>4, Answers
<1>6. LengthsInv'
  BY <1>1, <1>2, <1>4, <1>5, LengthsKept DEF Reply, entries
<1>7. TablesInv'
  BY <1>1, <1>2, <1>3, TablesKept DEF TablesInv
<1>8. ClosingInv'
  <2>1. \A c \in closing : Made(c.feed)' <=> Made(c.feed)
    BY <1>4 DEF Made
  <2>2. \A c \in closing : c.ws \in watchers' => c.ws \in late'
    BY <1>1 DEF ClosingInv
  <2> QED
    BY <1>1, <1>4, <2>1, <2>2 DEF ClosingInv
<1>9. FoldersInv' /\ ParentInv'
  BY <1>1, <1>2, <1>4, FoldersKept, ParentKept
<1> QED
  BY <1>5, <1>6, <1>7, <1>8, <1>9

\* wsClose stops the watcher, and Workspace.close() begins.
LEMMA BeginCloseKeeps ==
    ASSUME Inv, up # "gone", NEW f, Made(f), UNCHANGED <<parent, toChild, entries, missed, failed, cut>>,
           NEW w \in table, calls[Head(f)].method = "close", BeginClose(f, w)
    PROVE  Inv'
<1> USE DEF Inv
<1> DEFINE d == [ws |-> w, feed |-> f, stage |-> "flush", end |-> 0]
<1>1. /\ watchers' = watchers \ {w} /\ closing' = closing \cup {d}
      /\ state' = Closing({w}) /\ UNCHANGED <<feeds, toParent, up, table, late>>
  BY DEF BeginClose, WatchersWithout
<1>2. w \in Handles /\ Exists(w)
  BY DEF TablesInv
<1>3. /\ state' \in [Handles -> {"none", "open", "closed", "down"}]
      /\ \A v \in Handles : v # w => state'[v] = state[v]
      /\ state'[w] = IF state[w] = "open" THEN "closed" ELSE state[w]
  BY <1>1 DEF Closing, TablesInv
<1>4. SameHandles /\ \A v \in Handles : Exists(v) => Exists(v)'
  BY <1>3 DEF SameHandles, Exists
<1>5. UNCHANGED <<calls, known, toChild>>
  BY DEF parent
<1>6. PipesInv'
  BY <1>1, <1>4, <1>5, PipesKept DEF PipesInv
<1>7. LengthsInv'
  BY <1>1, <1>3, <1>4, <1>5, LengthsKept DEF entries
<1>8. TablesInv'
  BY <1>1, <1>3, <1>4, TablesKept DEF TablesInv
<1>9. ClosingInv'
  <2>1. d \in Closings
    BY <1>2 DEF Closings, Made
  <2>2. \A c \in closing : Made(c.feed)' <=> Made(c.feed)
    BY <1>5 DEF Made
  <2>3. Made(d.feed)'
    BY <1>5 DEF Made
  <2>4. \A c \in closing : state'[c.ws] \in {"closed", "down"}
    BY <1>3 DEF ClosingInv, Closings
  <2>5. state'[w] \in {"closed", "down"}
    BY <1>2, <1>3 DEF TablesInv, Exists
  <2>6. \A c \in closing' : c \in closing \/ c = d
    BY <1>1
  <2> HIDE DEF d
  <2>7. d.ws = w /\ d.feed = f
    BY DEF d
  <2> QED
    BY <1>1, <1>5, <2>1, <2>2, <2>3, <2>4, <2>5, <2>6, <2>7 DEF ClosingInv
<1>10. FoldersInv'
  <2>1. d.stage = "flush" /\ d.end = 0 /\ d.ws = w
    OBVIOUS
  <2> HIDE DEF d
  <2>2. UNCHANGED <<len, flushed, acked, failed, calls>> /\ \A v \in Handles : Safe(v)' <=> Safe(v)
    BY DEF entries, parent, Safe
  <2>3. \A v \in Handles :
            /\ state'[v] = "none" => state[v] = "none"
            /\ state'[v] = "down" => state[v] = "down"
            /\ state'[v] = "open" => state[v] = "open"
            /\ state'[v] = "closed" => state[v] \in {"open", "closed"}
    BY <1>3
  <2>4. \A v \in Handles : up = "ending" /\ state'[v] = "closed" =>
            \/ Safe(v)
            \/ \E c \in closing' : c.ws = v /\ c.feed = <<>> /\ c.stage # "runtime"
    BY <1>1, <2>3 DEF FoldersInv
  <2>5. \A c \in closing' : /\ c.end <= len[c.ws]
                            /\ c.stage = "copy" => acked[c.ws] <= c.end
                            /\ c.stage = "runtime" => Safe(c.ws)
    BY <1>1, <1>2, <2>1 DEF FoldersInv
  <2>6. \A c \in closing' : c.ws \in Handles
    BY <1>1, <1>2, <2>1 DEF ClosingInv, Closings
  <2> QED
    BY <1>1, <2>2, <2>3, <2>4, <2>5, <2>6 DEF FoldersInv
<1> QED
  BY <1>4, <1>5, <1>6, <1>7, <1>8, <1>9, <1>10, ParentKept

LEMMA BeginKeeps ==
    ASSUME Inv, NEW f \in feeds, Begin(f)
    PROVE  Inv'
<1> DEFINE w == calls[Head(f)].ws
<1>1. Made(f)
  BY DEF Inv, PipesInv
<1>2. up # "gone" /\ UNCHANGED <<parent, toChild, entries, missed, failed, cut>>
  BY BeginCases
<1>3. CASE Answered(f, FALSE, NoHandle, <<>>) /\ UNCHANGED <<control, late>>
  BY <1>1, <1>2, <1>3, RefusalKeeps
<1>4. CASE calls[Head(f)].method = "watch" /\ w \in table /\ BeginWatch(f, w)
  BY <1>1, <1>2, <1>4, WatchKeeps
<1>5. CASE calls[Head(f)].method = "unwatch" /\ w \in table /\ BeginUnwatch(f, w)
  BY <1>1, <1>2, <1>5, WatchKeeps
<1>6. CASE calls[Head(f)].method = "close" /\ w \in table /\ BeginClose(f, w)
  BY <1>1, <1>2, <1>6, BeginCloseKeeps
<1>7. CASE UNCHANGED <<feeds, toParent, control, late>>
  <2> USE DEF Inv
  <2>1. SameHandles /\ \A v \in Handles : Exists(v) => Exists(v)'
    BY <1>7 DEF SameHandles, Exists, control
  <2>2. UNCHANGED <<calls, known, toChild>>
    BY <1>2 DEF parent
  <2>3. PipesInv'
    BY <1>7, <2>1, <2>2, PipesKept DEF PipesInv
  <2>4. LengthsInv'
    BY <1>2, <1>7, <2>1, <2>2, LengthsKept DEF control, entries
  <2>5. TablesInv' /\ ClosingInv' /\ FoldersInv' /\ ParentInv'
    BY <1>2, <1>7, <2>1, <2>2, TablesKept, ClosingKept, FoldersKept, ParentKept
    DEF control, entries, TablesInv
  <2> QED
    BY <2>3, <2>4, <2>5
<1> QED
  BY <1>3, <1>4, <1>5, <1>6, <1>7, BeginCases

\* A chunk is read from the pipe.
LEMMA ChildReadsKeeps ==
    ASSUME Inv, ChildReads
    PROVE  Inv'
<1> USE DEF Inv
<1>1. PICK k \in 1..Len(toChild) :
        /\ feeds' = feeds \cup {SubSeq(toChild, 1, k)}
        /\ toChild' = SubSeq(toChild, k + 1, Len(toChild))
  BY DEF ChildReads
<1>2. UNCHANGED <<parent, toParent, begun, control, entries, history>>
  BY DEF ChildReads
<1>3. /\ toChild \in Seq(Nat) /\ Len(toChild) \in Nat
      /\ \A n \in 1..Len(toChild) : toChild[n] \in Nat /\ toChild[n] \in 1..Len(calls)
  BY ElementOfSeq DEF PipesInv
<1>4. Made(SubSeq(toChild, 1, k))
  <2> DEFINE p == SubSeq(toChild, 1, k)
  <2>1. \A i \in 1..k : toChild[i] \in Nat
    BY <1>3
  <2>2. p \in Seq(Nat) /\ Len(p) = k /\ \A i \in 1..k : p[i] = toChild[i]
    BY <1>3, <2>1, SubSeqProperties
  <2> HIDE DEF p
  <2>3. p # <<>>
    BY <2>2, EmptySeq
  <2>4. ASSUME NEW n \in 1..Len(p)
        PROVE  p[n] \in 1..Len(calls)
    <3>1. n \in 1..k /\ n \in 1..Len(toChild)
      BY <1>3, <2>2
    <3> QED
      BY <1>3, <2>2, <3>1
  <2>5. Made(p)
    BY <2>2, <2>3, <2>4 DEF Made
  <2> QED
    BY <2>5 DEF p
<1>5. toChild' \in Seq(Nat) /\ \A n \in 1..Len(toChild') : toChild'[n] \in 1..Len(calls)
  <2> DEFINE p == SubSeq(toChild, k + 1, Len(toChild))
  <2>2. /\ p \in Seq(Nat) /\ Len(p) = Len(toChild) - k
        /\ \A i \in 1..(Len(toChild) - k) : p[i] = toChild[k + i]
    BY <1>3, ReadRest
  <2>3. toChild' = p
    BY <1>1
  <2> HIDE DEF p
  <2>4. ASSUME NEW n \in 1..Len(p)
        PROVE  p[n] \in 1..Len(calls)
    <3>1. n \in 1..(Len(toChild) - k) /\ k + n \in 1..Len(toChild)
      BY <1>3, <2>2
    <3> QED
      BY <1>3, <2>2, <3>1
  <2> QED
    BY <2>2, <2>3, <2>4
<1>6. UNCHANGED <<calls, known>> /\ SameHandles /\ \A v \in Handles : Exists(v) => Exists(v)'
  BY <1>2 DEF parent, SameHandles, Exists, control
<1>7. PipesInv'
  <2>1. \A g \in feeds' : Made(g)'
    <3>1. \A g \in feeds' : Made(g)
      BY <1>1, <1>4 DEF PipesInv
    <3> QED
      BY <1>6, <3>1 DEF Made
  <2>2. \A n \in 1..Len(toParent) : Sound(toParent[n])'
    BY <1>2 DEF PipesInv, Sound, Exists, parent, control
  <2> QED
    BY <1>2, <1>5, <1>6, <2>1, <2>2 DEF PipesInv
<1>8. LengthsInv'
  BY <1>2, <1>6, LengthsKept DEF control, entries, history
<1>9. TablesInv' /\ ClosingInv' /\ FoldersInv' /\ ParentInv'
  BY <1>2, <1>6, TablesKept, ClosingKept, FoldersKept, ParentKept
  DEF control, entries, history, TablesInv
<1> QED
  BY <1>7, <1>8, <1>9

LEMMA LengthsFrom ==
    ASSUME UNCHANGED <<calls, known>>, missed \subseteq missed', SameHandles,
           \A w \in Handles : state'[w] = "open" => state[w] = "open",
           \A w \in Handles : Follows(toParent', len'[w], w)
    PROVE  LengthsInv'
  BY FollowsFrom DEF LengthsInv, SameHandles

\* A workspace grows by an entry, and tells so if it has its listeners.
LEMMA Grows ==
    ASSUME PipesInv, LengthsInv, FoldersInv, up # "gone", NEW w \in Handles, Exists(w),
           len' = [len EXCEPT ![w] = @ + 1]
    PROVE  /\ toParent \o Changed(w) \in Seq(Lines)
           /\ \A n \in 1..Len(toParent \o Changed(w)) : Sound((toParent \o Changed(w))[n])
           /\ \A v \in Handles : Follows(toParent \o Changed(w), len'[v], v)
<1>1. /\ toParent \in Seq(Lines) /\ \A n \in 1..Len(toParent) : Sound(toParent[n])
      /\ \A v \in Handles : Follows(toParent, len[v], v) /\ len[v] \in Nat
  BY DEF PipesInv, LengthsInv, FoldersInv
<1>2. len'[w] = len[w] + 1 /\ \A v \in Handles : v # w => len'[v] = len[v]
  BY DEF FoldersInv
<1> DEFINE x == [kind |-> "change", call |-> 0, ok |-> TRUE, ws |-> w, length |-> len'[w]]
<1>3. CASE state[w] = "open"
  <2>1. x \in Lines /\ Sound(x) /\ x.kind = "change" /\ x.ws = w /\ x.length = len[w] + 1
    BY <1>1, <1>2, HandleFacts DEF Lines, Sound
  <2>2. Changed(w) = <<x>>
    BY <1>3 DEF Changed
  <2> HIDE DEF x
  <2>3. toParent \o Changed(w) = Append(toParent, x)
    BY <1>1, <2>1, <2>2, AppendIsConcat
  <2>4. /\ Append(toParent, x) \in Seq(Lines)
        /\ \A n \in 1..Len(Append(toParent, x)) : Sound(Append(toParent, x)[n])
    BY <1>1, <2>1, AddSound
  <2>5. Follows(Append(toParent, x), len[w] + 1, w)
    BY <1>1, <2>1, ChangeLine
  <2>6. \A v \in Handles : v # w => Follows(Append(toParent, x), len[v], v)
    BY <1>1, <2>1, OtherLine DEF Opens
  <2> QED
    BY <1>2, <2>3, <2>4, <2>5, <2>6
<1>4. CASE state[w] # "open"
  <2>1. toParent \o Changed(w) = toParent
    BY <1>1, <1>4, ConcatEmptySeq DEF Changed
  <2>2. Follows(toParent, len[w] + 1, w)
    BY <1>1, <1>4, GrowsSilently
  <2> QED
    BY <1>1, <1>2, <2>1, <2>2
<1> QED
  BY <1>3, <1>4

LEMMA ReplicateKeeps ==
    ASSUME Inv, NEW w \in Handles, Replicate(w)
    PROVE  Inv'
<1> USE DEF Inv
<1>1. /\ up # "gone" /\ state[w] \in {"open", "closed"}
      /\ len' = [len EXCEPT ![w] = @ + 1] /\ toParent' = toParent \o Changed(w)
      /\ UNCHANGED <<calls, known, toChild, feeds, control, flushed, acked, history>>
  BY DEF Replicate, parent
<1>2. Exists(w) /\ SameHandles /\ \A v \in Handles : Exists(v) => Exists(v)'
  BY <1>1 DEF SameHandles, Exists, control
<1>3. /\ toParent' \in Seq(Lines) /\ \A n \in 1..Len(toParent') : Sound(toParent'[n])
      /\ \A v \in Handles : Follows(toParent', len'[v], v)
  BY <1>1, <1>2, Grows
<1>4. PipesInv'
  BY <1>1, <1>2, <1>3, PipesKept DEF PipesInv
<1>5. LengthsInv'
  BY <1>1, <1>2, <1>3, LengthsFrom DEF control, history
<1>6. FoldersInv'
  <2>1. \A v \in Handles : len[v] \in Nat /\ len'[v] \in Nat /\ len[v] <= len'[v]
    BY <1>1 DEF FoldersInv
  <2>2. \A v \in Handles : /\ acked[v] <= len'[v] /\ flushed[v] <= len'[v]
                           /\ Safe(v)' <=> Safe(v)
    BY <1>1, <2>1 DEF FoldersInv, Safe, history
  <2>3. \A c \in closing : c.ws \in Handles /\ c.end \in Nat /\ c.end <= len'[c.ws]
    BY <2>1 DEF FoldersInv, ClosingInv, Closings
  <2> QED
    BY <1>1, <2>1, <2>2, <2>3 DEF FoldersInv, control
<1>7. TablesInv' /\ ClosingInv' /\ ParentInv'
  BY <1>1, <1>2, TablesKept, ClosingKept, ParentKept DEF control, history, TablesInv
<1> QED
  BY <1>4, <1>5, <1>6, <1>7

\* A write appends and is answered, or throws.
LEMMA WriteKeeps ==
    ASSUME Inv, NEW f \in feeds, FinishWrite(f)
    PROVE  Inv'
<1> USE DEF Inv
<1> DEFINE w == calls[Head(f)].ws
<1>1. /\ up # "gone" /\ calls[Head(f)].method = "write"
      /\ UNCHANGED <<calls, known, toChild, control, flushed, history>>
  BY DEF FinishWrite, Running, parent
<1>2. Made(f) /\ Head(f) \in 1..Len(calls)
  BY RestMade DEF PipesInv
<1>3. w \in Handles /\ Exists(w)
  BY <1>1, <1>2 DEF ParentInv
<1>4. SameHandles /\ \A v \in Handles : Exists(v) => Exists(v)'
  BY <1>1 DEF SameHandles, Exists, control
<1>5. TablesInv' /\ ClosingInv' /\ ParentInv'
  BY <1>1, <1>4, TablesKept, ClosingKept, ParentKept DEF control, history, TablesInv
<1>6. CASE UNCHANGED <<len, acked>> /\ Answered(f, FALSE, NoHandle, <<>>)
  <2>1. /\ PipesInv' /\ Reply(Head(f), FALSE, NoHandle) \in Lines
        /\ toParent' = Append(toParent, Reply(Head(f), FALSE, NoHandle))
    BY <1>1, <1>2, <1>4, <1>6, Answers DEF FoldersInv
  <2>2. LengthsInv'
    BY <1>1, <1>4, <1>6, <2>1, LengthsKept DEF Reply, control, history
  <2>3. FoldersInv'
    BY <1>1, <1>6, FoldersKept DEF control, entries, history
  <2> QED
    BY <1>5, <2>1, <2>2, <2>3
<1>7. CASE /\ state[w] # "down"
           /\ len' = [len EXCEPT ![w] = @ + 1]
           /\ Answered(f, TRUE, w, Changed(w))
           /\ acked' = IF state[w] = "open" THEN [acked EXCEPT ![w] = len'[w]] ELSE acked
  <2> DEFINE q == toParent \o Changed(w)
             r == Reply(Head(f), TRUE, w)
  <2>1. /\ q \in Seq(Lines) /\ \A n \in 1..Len(q) : Sound(q[n])
        /\ \A v \in Handles : Follows(q, len'[v], v)
    BY <1>1, <1>3, <1>7, Grows
  <2>2. len' \in [Handles -> Nat] /\ len'[w] = len[w] + 1 /\ \A v \in Handles : len[v] <= len'[v]
    BY <1>3, <1>7 DEF FoldersInv
  <2>3. r \in Lines /\ Sound(r) /\ r.kind = "reply" /\ r.call = Head(f)
    BY <1>2, <1>3, <2>2, RestMade DEF Reply, Lines, Sound, NoHandle
  <2>4. toParent' = Append(q, r) /\ \A g \in feeds' : Made(g)
    <3>1. toParent' = q \o <<r>>
      BY <1>7 DEF Answered
    <3>2. \A g \in feeds' : Made(g)
      BY <1>2, <1>7, RestMade DEF Answered, PipesInv
    <3> HIDE DEF q, r
    <3> QED
      BY <2>1, <2>3, <3>1, <3>2, AppendIsConcat
  <2> HIDE DEF q, r
  <2>5. /\ toParent' \in Seq(Lines) /\ \A n \in 1..Len(toParent') : Sound(toParent'[n])
    BY <2>1, <2>3, <2>4, AddSound
  <2>6. \A v \in Handles : Follows(toParent', len'[v], v)
    BY <1>1, <2>1, <2>3, <2>4, OtherLine DEF Opens
  <2>7. PipesInv'
    BY <1>1, <1>4, <2>4, <2>5, PipesKept
  <2>8. LengthsInv'
    BY <1>1, <1>4, <2>6, LengthsFrom DEF control, history
  <2>9. FoldersInv'
    <3>1. acked' \in [Handles -> Nat] /\ \A v \in Handles : acked'[v] <= len'[v]
      BY <1>7, <2>2 DEF FoldersInv
    <3>2. \A v \in Handles : state[v] # "open" => acked'[v] = acked[v]
      BY <1>7 DEF FoldersInv
    <3>3. up = "ending" => state[w] # "open"
      BY <1>2, <1>3 DEF FoldersInv
    <3>4. state[w] # "none" /\ \A v \in Handles : v # w => acked'[v] = acked[v]
      BY <1>3, <1>7 DEF FoldersInv, Exists
    <3>5. \A c \in closing : c.ws \in Handles /\ state[c.ws] # "open" /\ c.end \in Nat
      BY DEF ClosingInv, Closings
    <3>6. UNCHANGED <<calls, up, state, table, closing, flushed, failed>>
      BY <1>1 DEF control, history
    <3> HIDE DEF w
    <3>7. \A v \in Handles : up = "ending" /\ state[v] = "open" => acked'[v] = acked[v]
      BY <3>3, <3>4
    <3>8. \A v \in Handles : acked'[v] = acked[v] => (Safe(v)' <=> Safe(v))
      BY <3>6 DEF Safe
    <3>9. \A v \in Handles : flushed[v] <= len'[v]
      BY <2>2 DEF FoldersInv
    <3>10. \A c \in closing : c.end <= len'[c.ws]
      BY <2>2, <3>5 DEF FoldersInv
    <3>11. \A v \in Handles : state[v] = "none" => acked'[v] = 0 /\ flushed[v] = 0
      BY <3>2 DEF FoldersInv
    <3>12. \A v \in Handles : /\ state[v] = "down" => Safe(v)'
                              /\ up = "ending" /\ state[v] = "open" => Safe(v)'
                              /\ up = "ending" /\ state[v] = "closed" =>
                                  \/ Safe(v)'
                                  \/ \E c \in closing : c.ws = v /\ c.feed = <<>>
                                                        /\ c.stage # "runtime"
      BY <3>2, <3>7, <3>8 DEF FoldersInv
    <3>13. \A c \in closing : /\ c.stage = "copy" => acked'[c.ws] <= c.end
                              /\ c.stage = "runtime" => Safe(c.ws)'
      BY <3>2, <3>5, <3>8 DEF FoldersInv
    <3> QED
      BY <2>2, <3>1, <3>5, <3>6, <3>7, <3>9, <3>10, <3>11, <3>12, <3>13 DEF FoldersInv
  <2> QED
    BY <1>5, <2>7, <2>8, <2>9
<1> QED
  BY <1>6, <1>7 DEF FinishWrite

\* The larger of two numbers.
LEMMA LargerOf ==
    ASSUME NEW a \in Nat, NEW b \in Nat
    PROVE  Max({a, b}) \in {a, b} /\ Max({a, b}) >= a /\ Max({a, b}) >= b
<1> DEFINE m == IF a >= b THEN a ELSE b
<1>1. m \in {a, b} /\ \A y \in {a, b} : m >= y
  OBVIOUS
<1>2. \A x \in {a, b} : (\A y \in {a, b} : x >= y) => x = m
  OBVIOUS
<1> HIDE DEF m
<1>3. Max({a, b}) = m
  BY <1>1, <1>2 DEF Max
<1> QED
  BY <1>1, <1>3

\* A close goes on to its next stage.
LEMMA StageKeeps ==
    ASSUME Inv, NEW c \in closing, NEW d \in Closings, d.ws = c.ws, d.feed = c.feed,
           closing' = (closing \ {c}) \cup {d},
           UNCHANGED <<parent, toChild, toParent, feeds, begun, up, table, watchers, state, len,
                       acked, missed, late, cut>>,
           flushed' \in [Handles -> Nat],
           \A v \in Handles : flushed'[v] <= len[v] /\ (Safe(v) => Safe(v)'),
           \A v \in Handles : v # c.ws => flushed'[v] = flushed[v],
           d.end <= len[c.ws],
           d.stage = "copy" => acked[c.ws] <= d.end,
           d.stage = "runtime" => Safe(c.ws)'
    PROVE  Inv'
<1> USE DEF Inv
<1>1. c \in Closings /\ state[c.ws] \in {"closed", "down"} /\ c.ws \in Handles
  BY DEF ClosingInv, Closings
<1>2. SameHandles /\ \A v \in Handles : Exists(v) => Exists(v)'
  BY DEF SameHandles, Exists
<1>3. UNCHANGED <<calls, known>>
  BY DEF parent
<1>4. PipesInv'
  BY <1>2, <1>3, PipesKept DEF PipesInv
<1>5. LengthsInv'
  BY <1>2, <1>3, <1>4, LengthsKept
<1>6. TablesInv' /\ ParentInv'
  BY <1>2, <1>3, TablesKept, ParentKept DEF TablesInv
<1>7. ClosingInv'
  <2>1. \A e \in closing' : \E b \in closing : e.ws = b.ws /\ e.feed = b.feed /\ e \in Closings
    BY DEF ClosingInv
  <2>2. \A b \in closing : Made(b.feed)' <=> Made(b.feed)
    BY <1>3 DEF Made
  <2> QED
    BY <1>3, <2>1, <2>2 DEF ClosingInv
<1>8. FoldersInv'
  <2>1. \A v \in Handles : up = "ending" /\ state[v] = "closed" =>
            \/ Safe(v)'
            \/ \E e \in closing' : e.ws = v /\ e.feed = <<>> /\ e.stage # "runtime"
    <3> SUFFICES ASSUME NEW v \in Handles, up = "ending", state[v] = "closed", ~Safe(v)'
                 PROVE  \E e \in closing' : e.ws = v /\ e.feed = <<>> /\ e.stage # "runtime"
      OBVIOUS
    <3>1. PICK b \in closing : b.ws = v /\ b.feed = <<>> /\ b.stage # "runtime"
      BY DEF FoldersInv
    <3>2. CASE b # c
      BY <3>1, <3>2
    <3>3. CASE b = c
      BY <3>1, <3>3
    <3> QED
      BY <3>2, <3>3
  <2>2. \A e \in closing : e.ws \in Handles
    BY DEF ClosingInv, Closings
  <2>3. \A e \in closing' : /\ e.end <= len[e.ws]
                            /\ e.stage = "copy" => acked[e.ws] <= e.end
                            /\ e.stage = "runtime" => Safe(e.ws)'
    BY <2>2 DEF FoldersInv
  <2>4. \A v \in Handles : state[v] = "none" => acked[v] = 0 /\ flushed'[v] = 0
    BY <1>1 DEF FoldersInv
  <2> QED
    BY <1>3, <2>1, <2>3, <2>4 DEF FoldersInv
<1> QED
  BY <1>4, <1>5, <1>6, <1>7, <1>8

\* close() begins to flush what the workspace has.
LEMMA BeginFlushKeeps ==
    ASSUME Inv, NEW c \in closing, BeginFlush(c)
    PROVE  Inv'
<1> USE DEF Inv
<1>1. /\ c \in Closings /\ c.ws \in Handles /\ c.stage = "flush" /\ c.end <= len[c.ws]
      /\ acked[c.ws] <= len[c.ws] /\ \A v \in Handles : len[v] \in Nat /\ flushed[v] <= len[v]
  BY DEF ClosingInv, Closings, FoldersInv, BeginFlush
<1>2. UNCHANGED <<parent, toChild, toParent, feeds, begun, up, table, watchers, state, len,
                  flushed, acked, missed, late, failed, cut>>
  BY DEF BeginFlush, entries, history
<1>3. flushed' \in [Handles -> Nat] /\ \A v \in Handles : Safe(v)' <=> Safe(v)
  BY <1>2 DEF FoldersInv, Safe
<1>4. CASE state[c.ws] = "down"
  <2> DEFINE d == [c EXCEPT !.stage = "runtime"]
  <2>1. closing' = (closing \ {c}) \cup {d}
    BY <1>4 DEF BeginFlush
  <2>2. /\ d \in Closings /\ d.ws = c.ws /\ d.feed = c.feed /\ d.stage = "runtime"
        /\ d.end = c.end
    BY <1>1 DEF Closings
  <2>3. Safe(c.ws)'
    BY <1>1, <1>3, <1>4 DEF FoldersInv
  <2> HIDE DEF d
  <2> QED
    BY <1>1, <1>2, <1>3, <2>1, <2>2, <2>3, StageKeeps
<1>5. CASE state[c.ws] # "down"
  <2> DEFINE d == [c EXCEPT !.stage = "copy", !.end = len[c.ws]]
  <2>1. closing' = (closing \ {c}) \cup {d}
    BY <1>5 DEF BeginFlush
  <2>2. /\ d \in Closings /\ d.ws = c.ws /\ d.feed = c.feed /\ d.stage = "copy"
        /\ d.end = len[c.ws]
    BY <1>1 DEF Closings
  <2>3. d.end <= len[c.ws] /\ acked[c.ws] <= d.end
    BY <1>1, <2>2
  <2> HIDE DEF d
  <2> QED
    BY <1>1, <1>2, <1>3, <2>1, <2>2, <2>3, StageKeeps
<1> QED
  BY <1>4, <1>5

\* The flush of a close ends, or fails: if another close made it fail, that one
\* has flushed.
LEMMA EndFlushKeeps ==
    ASSUME Inv, NEW c \in closing, EndFlush(c)
    PROVE  Inv'
<1> USE DEF Inv
<1>1. /\ c \in Closings /\ c.ws \in Handles /\ c.end \in Nat /\ c.stage = "copy"
      /\ c.end <= len[c.ws] /\ acked[c.ws] <= c.end
      /\ \A v \in Handles : /\ len[v] \in Nat /\ flushed[v] \in Nat /\ acked[v] \in Nat
                            /\ flushed[v] <= len[v]
  BY DEF ClosingInv, Closings, FoldersInv, EndFlush
<1> DEFINE d == [c EXCEPT !.stage = "runtime"]
<1>2. /\ closing' = (closing \ {c}) \cup {d}
      /\ UNCHANGED <<parent, toChild, toParent, feeds, begun, up, table, watchers, state, len,
                     acked, missed, late, cut>>
  BY DEF EndFlush
<1>3. d \in Closings /\ d.ws = c.ws /\ d.feed = c.feed /\ d.stage = "runtime" /\ d.end = c.end
  BY <1>1 DEF Closings
<1> HIDE DEF d
<1>4. CASE flushed' = [flushed EXCEPT ![c.ws] = Max({@, c.end})] /\ UNCHANGED failed
  <2> DEFINE m == Max({flushed[c.ws], c.end})
  <2>1. m \in Nat /\ m <= len[c.ws] /\ m >= flushed[c.ws] /\ m >= c.end
    BY <1>1, LargerOf
  <2>2. flushed' = [flushed EXCEPT ![c.ws] = m]
    BY <1>4
  <2> HIDE DEF m
  <2>3. /\ flushed' \in [Handles -> Nat] /\ flushed'[c.ws] = m
        /\ \A v \in Handles : v # c.ws => flushed'[v] = flushed[v]
    BY <1>1, <2>1, <2>2 DEF FoldersInv
  <2>4. Safe(c.ws)'
    BY <1>1, <1>2, <2>1, <2>3 DEF Safe
  <2>5. \A v \in Handles : flushed'[v] <= len[v] /\ (Safe(v) => Safe(v)')
    BY <1>1, <1>2, <1>4, <2>1, <2>3, <2>4 DEF Safe
  <2> QED
    BY <1>1, <1>2, <1>3, <2>3, <2>4, <2>5, StageKeeps
<1>5. CASE /\ failed' = IF Overtaken(c.ws) THEN failed ELSE failed \cup {c.ws}
           /\ UNCHANGED flushed
  <2>1. \A v \in Handles : Safe(v) => Safe(v)'
    BY <1>2, <1>5 DEF Safe
  <2>2. Overtaken(c.ws) => Safe(c.ws)
    BY <1>1 DEF Overtaken, FoldersInv
  <2>3. Safe(c.ws)'
    <3>1. CASE Overtaken(c.ws)
      BY <1>1, <2>1, <2>2, <3>1
    <3>2. CASE ~Overtaken(c.ws)
      BY <1>5, <3>2 DEF Safe
    <3> QED
      BY <3>1, <3>2
  <2>4. flushed' \in [Handles -> Nat]
    BY <1>5 DEF FoldersInv
  <2> QED
    BY <1>1, <1>2, <1>3, <1>5, <2>1, <2>3, <2>4, StageKeeps
<1> QED
  BY <1>4, <1>5 DEF EndFlush

\* The runtime of a workspace is down, and wsClose answers.
LEMMA CloseReturnsKeeps ==
    ASSUME Inv, NEW c \in closing, CloseReturns(c)
    PROVE  Inv'
<1> USE DEF Inv
<1>1. /\ up # "gone" /\ c.stage = "runtime" /\ closing' = closing \ {c}
      /\ state' = [state EXCEPT ![c.ws] = "down"]
      /\ UNCHANGED <<parent, toChild, up, watchers, entries, history>>
      /\ IF c.feed = <<>> THEN UNCHANGED <<table, toParent, feeds>>
         ELSE table' = table \ {c.ws} /\ Answered(c.feed, TRUE, c.ws, <<>>)
  BY DEF CloseReturns
<1>2. /\ c.ws \in Handles /\ state[c.ws] \in {"closed", "down"}
      /\ c.ws \in watchers => c.ws \in late
      /\ c.feed # <<>> => Made(c.feed) /\ calls[Head(c.feed)].method = "close"
  BY DEF ClosingInv, Closings
<1>3. /\ state' \in [Handles -> {"none", "open", "closed", "down"}] /\ state'[c.ws] = "down"
      /\ \A v \in Handles : v # c.ws => state'[v] = state[v]
  BY <1>1, <1>2 DEF TablesInv
<1>4. SameHandles /\ Exists(c.ws) /\ \A v \in Handles : Exists(v) => Exists(v)'
  BY <1>2, <1>3 DEF SameHandles, Exists
<1>5. UNCHANGED <<calls, known, len, acked, flushed, missed, late, failed>>
  BY <1>1 DEF parent, entries, history
<1>6. PipesInv' /\ LengthsInv'
  <2>1. CASE c.feed = <<>>
    BY <1>1, <1>3, <1>4, <1>5, <2>1, PipesKept, LengthsKept DEF PipesInv
  <2>2. CASE c.feed # <<>>
    <3>1. /\ PipesInv' /\ Reply(Head(c.feed), TRUE, c.ws) \in Lines
          /\ toParent' = Append(toParent, Reply(Head(c.feed), TRUE, c.ws))
      BY <1>1, <1>2, <1>4, <1>5, <2>2, Answers DEF FoldersInv
    <3> QED
      BY <1>1, <1>2, <1>3, <1>4, <1>5, <2>2, <3>1, LengthsKept DEF Reply
  <2> QED
    BY <2>1, <2>2
<1>7. TablesInv'
  <2>1. watchers' \subseteq table' \cup late'
    BY <1>1, <1>2, <1>5 DEF TablesInv
  <2>2. table' \subseteq table
    BY <1>1
  <2>3. /\ up' \in {"running", "ending", "gone"} /\ late' \subseteq Handles
        /\ missed' \subseteq Handles
    BY <1>1, <1>5 DEF TablesInv
  <2> QED
    BY <1>3, <1>4, <2>1, <2>2, <2>3, TablesKept
<1>8. ClosingInv'
  <2>1. \A b \in closing : Made(b.feed)' <=> Made(b.feed)
    BY <1>5 DEF Made
  <2>2. \A b \in closing : b.ws \in Handles /\ state'[b.ws] \in {"closed", "down"}
    BY <1>3 DEF ClosingInv, Closings
  <2> QED
    BY <1>1, <1>5, <2>1, <2>2 DEF ClosingInv
<1>9. FoldersInv'
  <2>1. Safe(c.ws) /\ \A v \in Handles : Safe(v)' <=> Safe(v)
    BY <1>1, <1>5 DEF FoldersInv, Safe
  <2>2. \A v \in Handles : up = "ending" /\ state'[v] = "closed" =>
            \/ Safe(v)
            \/ \E e \in closing' : e.ws = v /\ e.feed = <<>> /\ e.stage # "runtime"
    BY <1>1, <1>3 DEF FoldersInv
  <2>3. \A v \in Handles : up = "running" /\ state'[v] \in {"open", "closed"} => v \in table'
    BY <1>1, <1>3 DEF FoldersInv
  <2>4. \A v \in Handles : /\ state'[v] = "down" => Safe(v)
                           /\ state'[v] = "none" => state[v] = "none"
    BY <1>3, <2>1 DEF FoldersInv
  <2>5. \A v \in Handles : up = "ending" /\ state'[v] = "open" =>
            Safe(v) /\ \A i \in 1..Len(calls) : calls[i].ws # v
    BY <1>3 DEF FoldersInv
  <2>6. \A e \in closing' : e \in closing /\ e.ws \in Handles
    BY <1>1 DEF ClosingInv, Closings
  <2> QED
    BY <1>1, <1>5, <2>1, <2>2, <2>3, <2>4, <2>5, <2>6 DEF FoldersInv
<1>10. ParentInv'
  BY <1>4, <1>5, ParentKept
<1> QED
  BY <1>6, <1>7, <1>8, <1>9, <1>10

\* The child's input ends: every workspace of the table is closed.
LEMMA InputEndsKeeps ==
    ASSUME Inv, InputEnds
    PROVE  Inv'
<1> USE DEF Inv
<1> DEFINE Ends(w) == [ws |-> w, feed |-> <<>>, stage |-> "flush", end |-> 0]
<1>1. /\ up = "running" /\ up' = "ending" /\ watchers' = {} /\ table' = {}
      /\ closing' = closing \cup {Ends(w) : w \in table}
      /\ state' = Closing(table)
      /\ UNCHANGED <<parent, toChild, toParent, feeds, begun, entries, history>>
  BY DEF InputEnds, Held
<1>2. /\ state' \in [Handles -> {"none", "open", "closed", "down"}]
      /\ \A v \in Handles :
            state'[v] = IF v \in table /\ state[v] = "open" THEN "closed" ELSE state[v]
  BY <1>1 DEF Closing, TablesInv
<1>3. \A v \in Handles : state[v] \in {"open", "closed"} => v \in table
  BY <1>1 DEF FoldersInv
<1>4. SameHandles /\ \A v \in Handles : Exists(v) => Exists(v)'
  BY <1>2 DEF SameHandles, Exists
<1>5. UNCHANGED <<calls, known, len, acked, flushed, missed, late, failed>>
  BY <1>1 DEF parent, entries, history
<1>6. PipesInv'
  BY <1>1, <1>4, <1>5, PipesKept DEF PipesInv
<1>7. LengthsInv'
  BY <1>1, <1>2, <1>4, <1>5, LengthsKept
<1>8. TablesInv' /\ ParentInv'
  BY <1>1, <1>2, <1>4, <1>5, TablesKept, ParentKept DEF TablesInv
<1>9. table \subseteq Handles /\ \A w \in table : Exists(w)
  BY DEF TablesInv
<1>10. ClosingInv'
  <2>1. \A b \in closing : Made(b.feed)' <=> Made(b.feed)
    BY <1>5 DEF Made
  <2>2. \A w \in table : /\ Ends(w) \in Closings /\ Ends(w).feed = <<>>
                         /\ state'[Ends(w).ws] \in {"closed", "down"}
    BY <1>2, <1>9, EmptySeq DEF Closings, TablesInv, Exists
  <2>3. \A b \in closing : b \in Closings /\ state'[b.ws] \in {"closed", "down"}
    BY <1>2 DEF ClosingInv, Closings
  <2>4. \A b \in closing' : b \in closing \/ \E w \in table : b = Ends(w)
    BY <1>1
  <2> HIDE DEF Ends
  <2> QED
    BY <1>1, <1>5, <2>1, <2>2, <2>3, <2>4 DEF ClosingInv
<1>11. FoldersInv'
  <2>1. \A v \in Handles : state'[v] # "open"
    BY <1>2, <1>3
  <2>2. \A v \in Handles : state'[v] = "closed" => v \in table /\ Ends(v) \in closing'
    BY <1>1, <1>2, <1>3
  <2>3. \A v \in Handles : state'[v] = "closed" =>
            \E e \in closing' : e.ws = v /\ e.feed = <<>> /\ e.stage # "runtime"
    BY <2>2
  <2>4. \A v \in Handles : Ends(v).end = 0 /\ Ends(v).stage = "flush" /\ Ends(v).ws = v
    OBVIOUS
  <2>5. \A e \in closing' : e \in closing \/ \E w \in table : e = Ends(w)
    BY <1>1
  <2>6. \A v \in Handles : Safe(v)' <=> Safe(v)
    BY <1>5 DEF Safe
  <2> HIDE DEF Ends
  <2>7. \A e \in closing' : /\ e.ws \in Handles /\ e.end <= len[e.ws]
                            /\ e.stage = "copy" => acked[e.ws] <= e.end
                            /\ e.stage = "runtime" => Safe(e.ws)
    BY <1>9, <2>4, <2>5 DEF FoldersInv, ClosingInv, Closings
  <2>8. \A v \in Handles : /\ state'[v] = "none" => state[v] = "none"
                           /\ state'[v] = "down" => state[v] = "down"
    BY <1>2
  <2> QED
    BY <1>1, <1>5, <2>1, <2>3, <2>6, <2>7, <2>8 DEF FoldersInv
<1> QED
  BY <1>6, <1>7, <1>8, <1>10, <1>11

\* The next handle is one nobody had.
LEMMA HandleIsFresh ==
    ASSUME TablesInv, NextHandle <= MaxWs
    PROVE  /\ NextHandle \in Handles /\ ~Exists(NextHandle)
           /\ \E n \in 0..MaxWs : {w \in Handles : Exists(w)} \cup {NextHandle} = 1..n
<1>1. PICK n \in 0..MaxWs : {w \in Handles : Exists(w)} = 1..n
  BY DEF TablesInv
<1>2. n \in Nat /\ Cardinality(1..n) = n
  BY <1>1, HandleFacts, FS_Interval
<1>3. NextHandle = n + 1
  <2>1. {w \in Handles : state[w] # "none"} = 1..n
    BY <1>1 DEF Exists
  <2>2. NextHandle = 1 + Cardinality(1..n)
    BY <2>1, Zenon DEF NextHandle
  <2> QED
    BY <1>2, <2>2
<1>4. n + 1 \in Handles /\ n + 1 \in 0..MaxWs
  BY <1>2, <1>3, HandleFacts DEF Handles
<1>5. ~(n + 1 \in 1..n) /\ (1..n) \cup {n + 1} = 1..(n + 1)
  BY <1>2
<1>6. ~Exists(n + 1)
  BY <1>1, <1>4, <1>5
<1> QED
  BY <1>1, <1>3, <1>4, <1>5, <1>6

\* A workspace is opened and tracked, or the request throws.
LEMMA OpenKeeps ==
    ASSUME Inv, NEW f \in feeds, FinishOpen(f)
    PROVE  Inv'
<1> USE DEF Inv
<1>1. /\ up # "gone" /\ calls[Head(f)].method = "open"
      /\ UNCHANGED <<calls, known, toChild, up, watchers, closing, flushed, acked, missed, late, failed>>
  BY DEF FinishOpen, Running, parent, history
<1>2. Made(f) /\ Head(f) \in 1..Len(calls) /\ Head(f) \in Nat
  BY RestMade DEF PipesInv
<1>3. CASE UNCHANGED <<table, state, len>> /\ Answered(f, FALSE, NoHandle, <<>>)
  <2>1. SameHandles /\ \A v \in Handles : Exists(v) => Exists(v)'
    BY <1>3 DEF SameHandles, Exists
  <2>2. len' \in [Handles -> Nat]
    BY <1>3 DEF FoldersInv
  <2>3. /\ PipesInv' /\ Reply(Head(f), FALSE, NoHandle) \in Lines
        /\ toParent' = Append(toParent, Reply(Head(f), FALSE, NoHandle))
    BY <1>1, <1>2, <1>3, <2>1, <2>2, Answers
  <2>4. LengthsInv'
    BY <1>1, <1>3, <2>1, <2>3, LengthsKept DEF Reply
  <2>5. TablesInv' /\ ClosingInv' /\ ParentInv' /\ FoldersInv'
    BY <1>1, <1>3, <2>1, TablesKept, ClosingKept, ParentKept, FoldersKept DEF TablesInv, entries
  <2> QED
    BY <2>3, <2>4, <2>5
<1>4. ASSUME NEW h, h = NextHandle, h <= MaxWs, NEW n \in 0..1,
             table' = table \cup {h}, state' = [state EXCEPT ![h] = "open"],
             len' = [len EXCEPT ![h] = n],
             Answered(f, TRUE, h, <<>>)
      PROVE  Inv'
  <2>1. /\ h \in Handles /\ ~Exists(h)
        /\ \E m \in 0..MaxWs : {w \in Handles : Exists(w)} \cup {h} = 1..m
    BY <1>4, HandleIsFresh
  <2>2. /\ state' \in [Handles -> {"none", "open", "closed", "down"}] /\ state'[h] = "open"
        /\ \A v \in Handles : v # h => state'[v] = state[v]
    BY <1>4, <2>1 DEF TablesInv
  <2>3. Exists(h)' /\ \A v \in Handles : v # h => (Exists(v)' <=> Exists(v))
    BY <2>1, <2>2 DEF Exists
  <2>4. /\ len' \in [Handles -> Nat] /\ len'[h] = n /\ n \in Nat
        /\ acked[h] = 0 /\ flushed[h] = 0
        /\ \A v \in Handles : v # h => len'[v] = len[v]
    BY <1>4, <2>1 DEF FoldersInv, Exists
  <2> DEFINE r == Reply(Head(f), TRUE, h)
  <2>5. /\ r \in Lines /\ r.kind = "reply" /\ r.call = Head(f) /\ r.ws = h /\ r.ok
        /\ r.length = len'[h]
    BY <1>2, <2>1, <2>4, HandleFacts DEF Reply, Lines, NoHandle
  <2>6. toParent \in Seq(Lines) /\ toParent' = Append(toParent, r)
    <3>1. toParent \in Seq(Lines)
      BY DEF PipesInv
    <3>2. toParent' = (toParent \o <<>>) \o <<r>>
      BY <1>4 DEF Answered
    <3> HIDE DEF r
    <3> QED
      BY <2>5, <3>1, <3>2, ConcatEmptySeq, AppendIsConcat
  <2> HIDE DEF r
  <2>7. /\ toParent' \in Seq(Lines) /\ Len(toParent') = Len(toParent) + 1 /\ Len(toParent) \in Nat
        /\ \A m \in 1..Len(toParent) : toParent'[m] = toParent[m] /\ toParent[m] \in Lines
        /\ toParent'[Len(toParent) + 1] = r
    BY <2>5, <2>6, AppendProperties, ElementOfSeq
  <2>8. PipesInv'
    <3>1. \A g \in feeds' : Made(g)
      BY <1>2, <1>4, RestMade DEF PipesInv, Answered
    <3>2. \A g \in feeds' : Made(g)'
      BY <1>1, <3>1 DEF Made
    <3>3. ASSUME NEW m \in 1..Len(toParent')
          PROVE  Sound(toParent[m])'
      <4>1. CASE m \in 1..Len(toParent)
        <5>1. toParent'[m] = toParent[m] /\ toParent[m] \in Lines /\ Sound(toParent[m])
          BY <2>7, <4>1 DEF PipesInv
        <5> QED
          BY <1>1, <2>3, <5>1 DEF Sound, Lines
      <4>2. CASE m = Len(toParent) + 1
        BY <1>1, <1>2, <2>3, <2>5, <2>7, <4>2 DEF Sound
      <4> QED
        BY <2>7, <4>1, <4>2
    <3> QED
      BY <1>1, <2>7, <3>2, <3>3 DEF PipesInv
  <2>9. LengthsInv'
    <3> SUFFICES ASSUME NEW v \in Handles
                 PROVE  Follows(toParent, len[v], v)'
      BY DEF LengthsInv
    <3>1. Follows(toParent, len[v], v)
      BY <1>1 DEF LengthsInv
    <3>2. CASE v # h
      <4>1. Follows(toParent', len'[v], v)
        BY <2>4, <2>5, <2>6, <3>1, <3>2, OtherLine DEF Opens
      <4> QED
        BY <1>1, <2>2, <2>3, <3>2, <4>1, FollowsFrom
    <3>3. CASE v = h
      <4>1. /\ ChangesIn(toParent, h) = {} /\ OpensIn(toParent, h) = {} /\ known[h] = NoObject
        BY <2>1, <3>1, <3>3 DEF Follows, ParentInv
      <4>2. ChangesIn(toParent', h) = {} /\ OpensIn(toParent', h) \subseteq {Len(toParent) + 1}
        BY <2>5, <2>6, <4>1, AddedLine
      <4>3. ChangesIn(toParent, h)' = {} /\ OpensIn(toParent, h)' \subseteq {Len(toParent) + 1}
        BY <1>1, <4>2 DEF ChangesIn, OpensIn, Opens
      <4>4. \A m \in OpensIn(toParent, h)' : toParent'[m].length = len'[h]
        BY <2>5, <2>7, <4>3
      <4> QED
        BY <1>1, <2>3, <3>3, <4>1, <4>3, <4>4 DEF Follows
    <3> QED
      BY <3>2, <3>3
  <2>10. TablesInv'
    <3>1. {w \in Handles : Exists(w)'} = {w \in Handles : Exists(w)} \cup {h}
      BY <2>1, <2>3
    <3> QED
      BY <1>1, <1>4, <2>1, <2>2, <3>1 DEF TablesInv
  <2>11. \A c \in closing : c.ws \in Handles /\ c.ws # h
    BY <2>1 DEF ClosingInv, Closings, Exists
  <2>12. ClosingInv'
    <3>1. \A b \in closing : Made(b.feed)' <=> Made(b.feed)
      BY <1>1 DEF Made
    <3> QED
      BY <1>1, <2>2, <2>11, <3>1 DEF ClosingInv
  <2>13. ParentInv'
    BY <1>1, <2>3, ParentKept
  <2>14. FoldersInv'
    <3>1. \A i \in 1..Len(calls) : calls[i].ws # h
      BY <2>1, HandleFacts DEF ParentInv
    <3>2. \A v \in Handles : Safe(v)' <=> Safe(v)
      BY <1>1 DEF Safe
    <3>3. Safe(h) /\ acked[h] <= len'[h] /\ flushed[h] <= len'[h] /\ h \in table'
      BY <1>4, <2>4 DEF Safe
    <3>4. \A v \in Handles : v # h =>
            /\ acked[v] <= len'[v] /\ flushed[v] <= len'[v]
            /\ state'[v] = "none" => acked[v] = 0 /\ flushed[v] = 0
            /\ state'[v] = "down" => Safe(v)
            /\ up = "running" /\ state'[v] \in {"open", "closed"} => v \in table'
            /\ up = "ending" /\ state'[v] = "open" =>
                Safe(v) /\ \A i \in 1..Len(calls) : calls[i].ws # v
            /\ up = "ending" /\ state'[v] = "closed" =>
                \/ Safe(v)
                \/ \E c \in closing : c.ws = v /\ c.feed = <<>> /\ c.stage # "runtime"
      BY <1>4, <2>2, <2>4 DEF FoldersInv
    <3>5. \A c \in closing : /\ c.end <= len'[c.ws]
                             /\ c.stage = "copy" => acked[c.ws] <= c.end
                             /\ c.stage = "runtime" => Safe(c.ws)
      BY <2>4, <2>11 DEF FoldersInv
    <3>6. flushed' \in [Handles -> Nat] /\ acked' \in [Handles -> Nat]
      BY <1>1 DEF FoldersInv
    <3> QED
      BY <1>1, <2>2, <2>4, <2>11, <3>1, <3>2, <3>3, <3>4, <3>5, <3>6 DEF FoldersInv
  <2> QED
    BY <2>8, <2>9, <2>10, <2>12, <2>13, <2>14
<1> QED
  BY <1>3, <1>4 DEF FinishOpen

-----------------------------------------------------------------------------
(* The end of the child. *)

\* What the child had written before it died, the parent may still read.
LEMMA DiesKeeps ==
    ASSUME Inv, Dies
    PROVE  Inv'
<1> USE DEF Inv
<1>1. up' = "gone" /\ UNCHANGED <<calls, known, toChild, feeds, table, watchers, closing, state,
                                  entries, missed, late, failed>>
  BY DEF Dies, parent
<1>2. PICK k \in 0..Len(toParent) : toParent' = SubSeq(toParent, 1, k)
  BY DEF Dies
<1>3. toParent \in Seq(Lines) /\ Len(toParent) \in Nat
      /\ \A n \in 1..Len(toParent) : toParent[n] \in Lines /\ Sound(toParent[n])
  BY ElementOfSeq DEF PipesInv
<1>4. SameHandles /\ \A v \in Handles : Exists(v) => Exists(v)'
  BY <1>1 DEF SameHandles, Exists
<1>5. toParent' \in Seq(Lines) /\ \A n \in 1..Len(toParent') : Sound(toParent'[n])
  <2> DEFINE p == SubSeq(toParent, 1, k)
  <2>1. k \in Int /\ \A n \in 1..k : n \in 1..Len(toParent)
    BY <1>3
  <2>2. p \in Seq(Lines) /\ Len(p) = k /\ \A n \in 1..k : p[n] = toParent[n]
    BY <1>3, <2>1, SubSeqProperties
  <2>3. toParent' = p
    BY <1>2
  <2> HIDE DEF p
  <2> QED
    BY <1>3, <2>1, <2>2, <2>3
<1>6. PipesInv'
  BY <1>1, <1>4, <1>5, PipesKept DEF PipesInv
<1>7. LengthsInv'
  BY <1>1 DEF LengthsInv
<1>8. TablesInv' /\ ClosingInv' /\ ParentInv'
  BY <1>1, <1>4, TablesKept, ClosingKept, ParentKept DEF TablesInv
<1>9. FoldersInv'
  <2>1. UNCHANGED <<len, flushed, acked, failed>> /\ \A v \in Handles : Safe(v)' <=> Safe(v)
    BY <1>1 DEF entries, Safe
  <2>2. \A c \in closing : c.ws \in Handles
    BY DEF ClosingInv, Closings
  <2> QED
    BY <1>1, <2>1, <2>2 DEF FoldersInv
<1> QED
  BY <1>6, <1>7, <1>8, <1>9

-----------------------------------------------------------------------------
(* The steps of the parent. *)

\* A call is made and sent.
LEMMA CallKeeps ==
    ASSUME Inv, NEW m \in Methods, NEW w, Call(m, w),
           IF m = "open" THEN w = NoHandle ELSE w \in Handles /\ Exists(w)
    PROVE  Inv'
<1> USE DEF Inv
<1> DEFINE id == Len(calls) + 1
           c == [method |-> m, ws |-> w, id |-> id, settled |-> "pending", by |-> 0]
<1>1. /\ up = "running" /\ calls' = Append(calls, c) /\ toChild' = Append(toChild, id)
      /\ UNCHANGED <<known, toParent, feeds, control, entries, missed, late, failed>>
  BY DEF Call, NextRequestId, history
<1>2. /\ calls \in Seq(CallRecords) /\ Len(calls) \in Nat /\ id \in Nat /\ c \in CallRecords
      /\ toChild \in Seq(Nat) /\ Len(toChild) \in Nat
      /\ \A n \in 1..Len(toChild) : toChild[n] \in 1..Len(calls)
  BY DEF ParentInv, PipesInv, CallRecords
<1>3. /\ c.id = id /\ c.settled = "pending" /\ c.method = m /\ c.ws = w
  OBVIOUS
<1> HIDE DEF c
<1>4. /\ calls' \in Seq(CallRecords) /\ Len(calls') = id /\ calls'[id] = c
      /\ \A i \in 1..Len(calls) : calls'[i] = calls[i]
  BY <1>1, <1>2, AppendProperties
<1>5. /\ toChild' \in Seq(Nat) /\ Len(toChild') = Len(toChild) + 1
      /\ \A n \in 1..Len(toChild) : toChild'[n] = toChild[n]
      /\ toChild'[Len(toChild) + 1] = id
  BY <1>1, <1>2, AppendProperties
<1>6. SameHandles /\ \A v \in Handles : Exists(v) => Exists(v)'
  BY <1>1 DEF SameHandles, Exists, control
<1>7. ParentInv'
  <2>1. ASSUME NEW i \in 1..Len(calls')
        PROVE  /\ calls'[i].id = i
               /\ IF calls'[i].method = "open" THEN calls'[i].ws = NoHandle
                  ELSE calls'[i].ws \in Handles /\ Exists(calls[i].ws)'
               /\ calls'[i].settled # "pending" => calls'[i].by = i
    <3>1. CASE i \in 1..Len(calls)
      <4>1. calls'[i] = calls[i]
        BY <1>4, <3>1
      <4> QED
        BY <1>1, <3>1, <4>1 DEF ParentInv, Exists, control
    <3>2. CASE i = id
      <4>1. calls'[i] = c
        BY <1>4, <3>2
      <4> QED
        BY <1>1, <1>3, <3>2, <4>1 DEF Exists, control
    <3> QED
      BY <1>2, <1>4, <3>1, <3>2
  <2>2. \A v \in Handles : known'[v] # NoObject => Exists(v)'
    BY <1>1, <1>6 DEF ParentInv
  <2> QED
    BY <1>4, <2>1, <2>2 DEF ParentInv
<1>8. \A f : Made(f) => Made(f)'
  BY <1>2, <1>4 DEF Made
<1>9. PipesInv'
  <2>1. \A n \in 1..Len(toChild') : toChild'[n] \in 1..Len(calls')
    <3> SUFFICES ASSUME NEW n \in 1..Len(toChild')
                 PROVE  toChild'[n] \in 1..Len(calls')
      OBVIOUS
    <3>1. n \in 1..Len(toChild) \/ n = Len(toChild) + 1
      BY <1>2, <1>5
    <3>2. ASSUME n \in 1..Len(toChild)
          PROVE  toChild'[n] \in 1..Len(calls')
      <4>1. toChild'[n] = toChild[n] /\ toChild[n] \in 1..Len(calls)
        BY <1>2, <1>5, <3>2
      <4>2. Len(calls') = Len(calls) + 1
        BY <1>4
      <4> HIDE DEF id
      <4> QED
        BY <1>2, <4>1, <4>2
    <3>3. id \in 1..Len(calls')
      BY <1>2, <1>4
    <3> QED
      BY <1>5, <3>1, <3>2, <3>3
  <2>2. \A n \in 1..Len(toParent) : Sound(toParent[n])'
    BY <1>1, <1>2, <1>4 DEF PipesInv, Sound, Exists, control
  <2> QED
    BY <1>1, <1>5, <1>8, <2>1, <2>2 DEF PipesInv
<1>10. LengthsInv'
  <2> SUFFICES ASSUME NEW v \in Handles
               PROVE  Follows(toParent, len[v], v)'
    BY DEF LengthsInv
  <2>1. Follows(toParent, len[v], v)
    BY <1>1 DEF LengthsInv
  <2>2. ASSUME NEW n \in 1..Len(toParent), toParent[n].kind = "reply"
        PROVE  calls'[toParent[n].call] = calls[toParent[n].call]
    BY <1>4, <2>2 DEF PipesInv, Sound
  <2>3. OpensIn(toParent, v)' = OpensIn(toParent, v) /\ ChangesIn(toParent, v)' = ChangesIn(toParent, v)
    BY <1>1, <2>2 DEF OpensIn, Opens, ChangesIn
  <2>4. LastTells(toParent, len[v], v)' <=> LastTells(toParent, len[v], v)
    BY <1>1, <2>3 DEF LastTells, entries
  <2> QED
    BY <1>1, <1>6, <2>1, <2>3, <2>4 DEF Follows, SameHandles, control, entries
<1>11. TablesInv'
  BY <1>1, <1>6, TablesKept DEF TablesInv, control
<1>12. ClosingInv'
  <2>1. ASSUME NEW e \in closing, e.feed # <<>>
        PROVE  Made(e.feed)' /\ calls'[Head(e.feed)].method = "close"
    <3>1. Made(e.feed) /\ calls[Head(e.feed)].method = "close"
      BY <2>1 DEF ClosingInv
    <3>2. Head(e.feed) \in 1..Len(calls)
      BY <3>1, RestMade
    <3>3. Made(e.feed)'
      <4>1. closing' = closing
        BY <1>1 DEF control
      <4> QED
        BY <1>2, <1>4, <3>1 DEF Made
    <3> QED
      BY <1>4, <3>1, <3>2, <3>3
  <2> QED
    BY <1>1, <2>1 DEF ClosingInv, control
<1>13. FoldersInv'
  <2>1. UNCHANGED <<len, flushed, acked, failed, up, state, table, closing>>
    BY <1>1 DEF control, entries
  <2>2. \A v \in Handles : Safe(v)' <=> Safe(v)
    BY <2>1 DEF Safe
  <2>3. \A e \in closing : e.ws \in Handles
    BY DEF ClosingInv, Closings
  <2> QED
    BY <1>1, <2>1, <2>2, <2>3 DEF FoldersInv
<1> QED
  BY <1>7, <1>9, <1>10, <1>11, <1>12, <1>13

LEMMA OpenWorkspaceKeeps ==
    ASSUME Inv, OpenWorkspace
    PROVE  Inv'
  BY CallKeeps DEF OpenWorkspace, Methods

LEMMA RequestKeeps ==
    ASSUME Inv, NEW w \in Handles, Request(w) \/ Listen(w)
    PROVE  Inv'
<1>1. Exists(w)
  BY DEF Request, Listen, Inv, ParentInv
<1>2. PICK m \in {"write", "close", "ask", "watch", "unwatch"} : Call(m, w)
  BY DEF Request, Listen
<1> QED
  BY <1>1, <1>2, CallKeeps DEF Methods

\* A chunk of k lines is read, and the rest of the lines stay.
LEMMA LinesRead ==
    ASSUME PipesInv, NEW k \in 1..Len(toParent),
           toParent' = SubSeq(toParent, k + 1, Len(toParent))
    PROVE  /\ toParent' \in Seq(Lines) /\ Len(toParent) \in Nat /\ Len(toParent') = Len(toParent) - k
           /\ \A n \in 1..Len(toParent) : toParent[n] \in Lines /\ Sound(toParent[n])
           /\ \A n \in 1..Len(toParent') :
                k + n \in 1..Len(toParent) /\ toParent'[n] = toParent[k + n]
<1>1. /\ toParent \in Seq(Lines) /\ Len(toParent) \in Nat /\ k \in Nat
      /\ \A n \in 1..Len(toParent) : toParent[n] \in Lines /\ Sound(toParent[n])
  BY ElementOfSeq DEF PipesInv
<1> DEFINE p == SubSeq(toParent, k + 1, Len(toParent))
<1>3. /\ p \in Seq(Lines) /\ Len(p) = Len(toParent) - k
      /\ \A i \in 1..(Len(toParent) - k) : p[i] = toParent[k + i]
  BY <1>1, ReadRest
<1>4. toParent' = p
  OBVIOUS
<1> HIDE DEF p
<1>5. \A n \in 1..(Len(toParent) - k) : k + n \in 1..Len(toParent)
  BY <1>1
<1> QED
  BY <1>1, <1>3, <1>4, <1>5

\* What the parent still comes to know of w, having read k of the lines q.
LEMMA ReadOn ==
    ASSUME NEW q, NEW p, NEW k \in Nat, Len(q) \in Nat, Len(p) = Len(q) - k, Len(p) \in Nat,
           \A n \in 1..Len(p) : k + n \in 1..Len(q) /\ p[n] = q[k + n],
           NEW w
    PROVE  /\ \A n : n \in ChangesIn(p, w) <=> n \in 1..Len(p) /\ k + n \in ChangesIn(q, w)
           /\ \A n : n \in OpensIn(p, w) <=> n \in 1..Len(p) /\ k + n \in OpensIn(q, w)
  BY DEF ChangesIn, OpensIn

\* The last length heard is the one they all reach.
LEMMA HeardLast ==
    ASSUME NEW S, NEW l \in S, l \in Nat, \A y \in S : y \in Nat /\ y <= l
    PROVE  Heard(S) = l
<1>1. \A x \in S : (\A y \in S : x >= y) => x = l
  OBVIOUS
<1>2. \A y \in S : l >= y
  OBVIOUS
<1> QED
  BY <1>1, <1>2 DEF Heard, Max

\* The parent reads a chunk: answers settle their own calls, and what it then
\* knows of a workspace with what it has still to read is the workspace's length.
LEMMA ParentReadsKeeps ==
    ASSUME Inv, ParentReads
    PROVE  Inv'
<1> USE DEF Inv
<1> DEFINE chunk(k) == {toParent[n] : n \in 1..k}
           replies(k) == {r \in chunk(k) : r.kind = "reply"}
           Answer(k, i) == {r \in replies(k) : calls[r.call].id = calls[i].id}
           Told(k, w) == {r.length : r \in {e \in chunk(k) \ replies(k) : e.ws = w}}
           Opened(k, w) == {r \in replies(k) : r.ok /\ r.ws = w /\ calls[r.call].method = "open"}
           Settled(k, i) ==
               IF calls[i].settled # "pending" \/ Answer(k, i) = {} THEN calls[i]
               ELSE LET r == CHOOSE r \in Answer(k, i) : TRUE IN
                    [calls[i] EXCEPT !.settled = IF r.ok THEN "resolved" ELSE "rejected",
                                     !.by = r.call]
           Knows(k, w) ==
               IF Opened(k, w) # {} THEN (CHOOSE r \in Opened(k, w) : TRUE).length
               ELSE IF known[w] # NoObject /\ Told(k, w) # {} THEN Heard(Told(k, w))
               ELSE known[w]
<1>1. PICK k \in 1..Len(toParent) :
        /\ toParent' = SubSeq(toParent, k + 1, Len(toParent))
        /\ calls' = [i \in DOMAIN calls |-> Settled(k, i)]
        /\ known' = [w \in Handles |-> Knows(k, w)]
        /\ missed' = missed \cup {w \in Handles : known[w] = NoObject /\ Told(k, w) # {}}
        /\ UNCHANGED <<toChild, feeds, control, entries, late, failed>>
  BY DEF ParentReads
<1>2. /\ toParent' \in Seq(Lines) /\ Len(toParent) \in Nat /\ Len(toParent') = Len(toParent) - k
      /\ \A n \in 1..Len(toParent) : toParent[n] \in Lines /\ Sound(toParent[n])
      /\ \A n \in 1..Len(toParent') :
            k + n \in 1..Len(toParent) /\ toParent'[n] = toParent[k + n]
  BY <1>1, LinesRead
<1>3. \A n \in 1..k : n \in 1..Len(toParent)
  BY <1>2
<1>4. \A r \in replies(k) : r \in Lines /\ Sound(r) /\ r.call \in 1..Len(calls) /\ calls[r.call].id = r.call
  BY <1>2, <1>3 DEF Sound, ParentInv
<1>5. \A w : Opened(k, w) # {} <=> \E n \in OpensIn(toParent, w) : n \in 1..k
  BY <1>3 DEF OpensIn, Opens
<1>6. \A w : \A r \in Opened(k, w) : \E n \in OpensIn(toParent, w) : n \in 1..k /\ r = toParent[n]
  BY <1>3 DEF OpensIn, Opens
<1>7. \A w : \A l : l \in Told(k, w) <=> \E n \in ChangesIn(toParent, w) : n \in 1..k /\ l = toParent[n].length
  <2>1. \A n \in 1..k : toParent[n] \in chunk(k) \ replies(k) <=> toParent[n].kind = "change"
    BY <1>2, <1>3 DEF Lines
  <2> QED
    BY <1>3, <2>1 DEF ChangesIn
<1>8. SameHandles /\ \A v \in Handles : Exists(v) => Exists(v)'
  BY <1>1 DEF SameHandles, Exists, control
<1>9. Len(calls) \in Nat /\ DOMAIN calls = 1..Len(calls) /\ \A i \in 1..Len(calls) : calls[i] \in CallRecords
  BY ElementOfSeq, LenProperties DEF ParentInv
<1>10. ASSUME NEW i \in 1..Len(calls)
       PROVE  /\ Settled(k, i) \in CallRecords
              /\ Settled(k, i).id = calls[i].id /\ Settled(k, i).ws = calls[i].ws
              /\ Settled(k, i).method = calls[i].method
              /\ Settled(k, i).settled # "pending" => Settled(k, i).by = i
  <2>1. CASE calls[i].settled # "pending" \/ Answer(k, i) = {}
    BY <1>9, <2>1 DEF ParentInv
  <2>2. CASE ~(calls[i].settled # "pending" \/ Answer(k, i) = {})
    <3>1. PICK r \in Answer(k, i) :
            Settled(k, i) = [calls[i] EXCEPT !.settled = IF r.ok THEN "resolved" ELSE "rejected",
                                             !.by = r.call]
      BY <2>2
    <3>2. r.call = i /\ r.ok \in BOOLEAN
      BY <1>4 DEF ParentInv, Lines
    <3> HIDE DEF Settled
    <3> DEFINE how == IF r.ok THEN "resolved" ELSE "rejected"
    <3>3. how \in {"pending", "resolved", "rejected"}
      OBVIOUS
    <3> HIDE DEF how
    <3>4. calls[i] \in CallRecords /\ i \in Nat /\ Settled(k, i) = [calls[i] EXCEPT !.settled = how, !.by = i]
      BY <1>9, <3>1, <3>2 DEF how
    <3> QED
      BY <3>3, <3>4 DEF CallRecords
  <2> QED
    BY <2>1, <2>2
<1>11. /\ calls' \in Seq(CallRecords) /\ Len(calls') = Len(calls)
       /\ \A i \in 1..Len(calls) : calls'[i] = Settled(k, i)
  <2> HIDE DEF Settled
  <2>1. calls' \in [1..Len(calls) -> CallRecords]
    BY <1>1, <1>9, <1>10
  <2>2. calls' \in Seq(CallRecords)
    BY <1>9, <2>1, SeqDef
  <2>3. Len(calls') = Len(calls)
    BY <1>9, <2>1, <2>2, LenProperties
  <2> QED
    BY <1>1, <1>9, <2>2, <2>3
<1> HIDE DEF Settled, Answer
<1>12. \A w \in Handles : known'[w] = Knows(k, w)
  BY <1>1
<1>13. \A w \in Handles : Opened(k, w) # {} => Exists(w)
  BY <1>4, HandleFacts DEF Sound
<1> HIDE DEF chunk, replies, Told, Opened
<1>14. ParentInv'
  <2>1. \A w \in Handles : known'[w] # NoObject => Exists(w)'
    BY <1>8, <1>12, <1>13 DEF ParentInv
  <2>2. \A i \in 1..Len(calls) :
            IF calls'[i].method = "open" THEN calls'[i].ws = NoHandle
            ELSE calls'[i].ws \in Handles /\ Exists(calls[i].ws)'
    BY <1>8, <1>10, <1>11 DEF ParentInv, Exists, SameHandles
  <2> QED
    BY <1>10, <1>11, <2>1, <2>2 DEF ParentInv
<1>15. PipesInv'
  <2>1. \A n \in 1..Len(toParent') : Sound(toParent[n])'
    BY <1>1, <1>2, <1>11 DEF Sound, Exists, control
  <2>2. \A f \in feeds' : Made(f)'
    BY <1>1, <1>11 DEF PipesInv, Made
  <2> QED
    BY <1>1, <1>2, <1>11, <2>1, <2>2 DEF PipesInv
<1>16. TablesInv'
  BY <1>1, <1>8, TablesKept DEF TablesInv, control
<1>17. ClosingInv'
  <2>1. \A c \in closing : Made(c.feed)' <=> Made(c.feed)
    BY <1>11 DEF Made
  <2>2. ASSUME NEW c \in closing, c.feed # <<>>
        PROVE  calls'[Head(c.feed)].method = "close"
    <3>1. Head(c.feed) \in 1..Len(calls) /\ calls[Head(c.feed)].method = "close"
      BY <2>2, RestMade DEF ClosingInv
    <3> QED
      BY <1>10, <1>11, <3>1
  <2> QED
    BY <1>1, <2>1, <2>2 DEF ClosingInv, control
<1>18. FoldersInv'
  <2>1. \A i \in 1..Len(calls) : calls'[i].ws = calls[i].ws
    BY <1>10, <1>11
  <2>2. UNCHANGED <<len, flushed, acked, failed, up, state, table, closing>>
    BY <1>1 DEF control, entries
  <2>3. \A w \in Handles : Safe(w)' <=> Safe(w)
    BY <2>2 DEF Safe
  <2>4. \A c \in closing : c.ws \in Handles
    BY DEF ClosingInv, Closings
  <2> QED
    BY <1>11, <2>1, <2>2, <2>3, <2>4 DEF FoldersInv
<1>19. ASSUME up # "gone", NEW w \in Handles
       PROVE  Follows(toParent, len[w], w)'
  <2> DEFINE q == toParent p == toParent' l == len[w]
  <2>1. Follows(q, l, w) /\ l \in Nat /\ k \in Nat /\ Len(p) \in Nat
    BY <1>2, <1>19 DEF LengthsInv, FoldersInv
  <2>2. /\ \A n : n \in ChangesIn(p, w) <=> n \in 1..Len(p) /\ k + n \in ChangesIn(q, w)
        /\ \A n : n \in OpensIn(p, w) <=> n \in 1..Len(p) /\ k + n \in OpensIn(q, w)
    BY <1>2, <2>1, ReadOn
  <2>3. ChangesIn(toParent, w)' = ChangesIn(p, w) /\ OpensIn(toParent, w)' = OpensIn(p, w)
    <3>1. \A n \in 1..Len(p) : p[n].kind = "reply" =>
            calls'[p[n].call].method = calls[p[n].call].method
      BY <1>2, <1>10, <1>11 DEF Sound
    <3> QED
      BY <3>1 DEF ChangesIn, OpensIn, Opens
  <2>4. UNCHANGED <<len, state>>
    BY <1>1 DEF control, entries
  <2>5. /\ known[w] # NoObject => OpensIn(q, w) = {}
        /\ \A m, n \in OpensIn(q, w) : m = n
        /\ \A n \in ChangesIn(q, w) : q[n].length <= l
        /\ ~Exists(w) => ChangesIn(q, w) = {} /\ OpensIn(q, w) = {}
    BY <2>1 DEF Follows
  <2>6. Opened(k, w) # {} => OpensIn(p, w) = {}
    <3>1. ASSUME NEW n \in OpensIn(q, w), n \in 1..k, NEW m \in OpensIn(p, w)
          PROVE  FALSE
      <4>1. k + m \in OpensIn(q, w) /\ m \in 1..Len(p)
        BY <2>2
      <4>2. k + m = n
        BY <2>5, <4>1
      <4> QED
        BY <2>1, <3>1, <4>1, <4>2
    <3> QED
      BY <1>5, <3>1
  <2>7. known'[w] # NoObject => OpensIn(p, w) = {}
    BY <1>12, <2>2, <2>5, <2>6
  <2>8. \A m, n \in OpensIn(p, w) : m = n
    <3>1. ASSUME NEW m \in OpensIn(p, w), NEW n \in OpensIn(p, w)
          PROVE  m = n
      BY <1>2, <2>2, <2>5
    <3> QED
      BY <3>1
  <2>9. \A n \in ChangesIn(p, w) : p[n].length <= l
    BY <1>2, <2>2, <2>5
  <2>10. ~Exists(w) => ChangesIn(p, w) = {} /\ OpensIn(p, w) = {}
    BY <2>2, <2>5
  <2>11. ASSUME state[w] = "open"
         PROVE  \/ LastTells(p, l, w)
                \/ ChangesIn(p, w) = {} /\ (w \in missed' \/ known'[w] = l)
                \/ /\ ChangesIn(p, w) = {} /\ known'[w] = NoObject
                   /\ \A n \in OpensIn(p, w) : p[n].length = l
    <3>1. CASE LastTells(q, l, w)
      <4>1. PICK n \in ChangesIn(q, w) : q[n].length = l /\ \A m \in ChangesIn(q, w) : m <= n
        BY <3>1 DEF LastTells
      <4>2. n \in 1..Len(q)
        BY DEF ChangesIn
      <4>3. CASE n \in 1..k
        <5>1. ChangesIn(p, w) = {}
          <6>1. \A m \in 1..Len(p) : ~(k + m <= n)
            BY <2>1, <4>3
          <6> QED
            BY <2>2, <4>1, <6>1 DEF ChangesIn
        <5>2. l \in Told(k, w) /\ \A y \in Told(k, w) : y \in Nat /\ y <= l
          <6>1. l \in Told(k, w)
            BY <1>7, <4>1, <4>3
          <6>2. \A m \in ChangesIn(q, w) : q[m].length \in Nat
            BY <1>2 DEF ChangesIn, Lines
          <6>3. \A y \in Told(k, w) : y \in Nat /\ y <= l
            BY <1>7, <2>5, <6>2
          <6> QED
            BY <6>1, <6>3
        <5>3. CASE known[w] = NoObject
          BY <1>1, <5>1, <5>2, <5>3
        <5>4. CASE known[w] # NoObject
          <6>1. Opened(k, w) = {}
            BY <1>5, <2>5, <5>4
          <6>2. Heard(Told(k, w)) = l
            BY <2>1, <5>2, HeardLast
          <6> QED
            BY <1>12, <5>1, <5>2, <5>4, <6>1, <6>2
        <5> QED
          BY <5>3, <5>4
      <4>4. CASE n \notin 1..k
        <5>1. n - k \in 1..Len(p) /\ k + (n - k) = n
          BY <1>2, <4>2, <4>4
        <5>2. n - k \in ChangesIn(p, w) /\ p[n - k].length = l
          BY <1>2, <2>2, <4>1, <5>1
        <5>3. \A m \in ChangesIn(p, w) : m <= n - k
          BY <1>2, <2>2, <4>1, <4>2
        <5> QED
          BY <5>2, <5>3 DEF LastTells
      <4> QED
        BY <4>3, <4>4
    <3>2. CASE ChangesIn(q, w) = {} /\ w \in missed
      BY <1>1, <2>2, <3>2
    <3>3. CASE ChangesIn(q, w) = {} /\ known[w] = l
      <4>1. ChangesIn(p, w) = {} /\ Told(k, w) = {}
        BY <1>7, <2>2, <3>3
      <4>2. Opened(k, w) = {}
        <5>1. known[w] # NoObject
          BY <2>1, <3>3 DEF NoObject
        <5> QED
          BY <1>5, <2>5, <5>1
      <4> QED
        BY <1>12, <3>3, <4>1, <4>2
    <3>4. CASE /\ ChangesIn(q, w) = {} /\ known[w] = NoObject
               /\ \A n \in OpensIn(q, w) : q[n].length = l
      <4>1. ChangesIn(p, w) = {}
        BY <2>2, <3>4
      <4>2. CASE Opened(k, w) = {}
        <5>1. known'[w] = NoObject
          BY <1>12, <3>4, <4>2
        <5>2. ASSUME NEW n \in OpensIn(p, w)
              PROVE  p[n].length = l
          <6>1. n \in 1..Len(p) /\ k + n \in OpensIn(q, w)
            BY <2>2
          <6> QED
            BY <1>2, <3>4, <6>1
        <5> QED
          BY <4>1, <5>1, <5>2
      <4>3. CASE Opened(k, w) # {}
        <5>1. PICK r \in Opened(k, w) : known'[w] = r.length
          BY <1>12, <4>3
        <5>2. r.length = l
          BY <1>6, <3>4
        <5> QED
          BY <4>1, <5>1, <5>2
      <4> QED
        BY <4>2, <4>3
    <3> QED
      BY <2>1, <2>11, <3>1, <3>2, <3>3, <3>4 DEF Follows
  <2>12. LastTells(toParent, len[w], w)' <=> LastTells(p, l, w)
    BY <2>3, <2>4 DEF LastTells
  <2> HIDE DEF q, p, l
  <2>13. p = toParent' /\ l = len[w]
    BY DEF p, l
  <2> QED
    BY <1>8, <2>3, <2>4, <2>7, <2>8, <2>9, <2>10, <2>11, <2>12, <2>13 DEF Follows, SameHandles
<1>20. LengthsInv'
  BY <1>1, <1>19 DEF LengthsInv, control
<1> QED
  BY <1>14, <1>15, <1>16, <1>17, <1>18, <1>20

-----------------------------------------------------------------------------
(* The theorems. *)

LEMMA InitInv == Init => Inv
<1> SUFFICES ASSUME Init
             PROVE  Inv
  OBVIOUS
<1> USE HandleFacts DEF Init
<1>1. ParentInv
  BY EmptySeq DEF ParentInv
<1>2. PipesInv
  BY EmptySeq DEF PipesInv
<1>3. TablesInv
  <2>1. {w \in Handles : Exists(w)} = 1..0 /\ 0 \in 0..MaxWs
    BY DEF Exists
  <2> QED
    BY <2>1 DEF TablesInv
<1>4. ClosingInv /\ FoldersInv
  BY DEF ClosingInv, FoldersInv
<1>5. LengthsInv
  <2>1. Len(toParent) = 0
    BY EmptySeq
  <2>2. \A w \in Handles : ChangesIn(toParent, w) = {} /\ OpensIn(toParent, w) = {}
    BY <2>1 DEF ChangesIn, OpensIn
  <2> QED
    BY <2>2 DEF LengthsInv, Follows
<1> QED
  BY <1>1, <1>2, <1>3, <1>4, <1>5 DEF Inv

LEMMA NextInv == Inv /\ [Next]_vars => Inv'
<1> SUFFICES ASSUME Inv, [Next]_vars
             PROVE  Inv'
  OBVIOUS
<1>1. CASE OpenWorkspace
  BY <1>1, OpenWorkspaceKeeps
<1>2. CASE ParentReads
  BY <1>2, ParentReadsKeeps
<1>3. CASE ChildReads
  BY <1>3, ChildReadsKeeps
<1>4. CASE InputEnds
  BY <1>4, InputEndsKeeps
<1>5. CASE Exit \/ Crash
  BY <1>5, DiesKeeps DEF Exit, Crash
<1>6. ASSUME NEW w \in Handles, Request(w) \/ Listen(w) \/ Replicate(w)
      PROVE  Inv'
  BY <1>6, RequestKeeps, ReplicateKeeps
<1>7. ASSUME NEW f \in feeds, Dispatch(f) \/ FinishAsk(f)
      PROVE  Inv'
  BY <1>7, BeginKeeps, OpenKeeps, WriteKeeps, AskKeeps DEF Dispatch
<1>8. ASSUME NEW c \in closing, BeginFlush(c) \/ EndFlush(c) \/ CloseReturns(c)
      PROVE  Inv'
  BY <1>8, BeginFlushKeeps, EndFlushKeeps, CloseReturnsKeeps
<1>9. CASE UNCHANGED vars
  <2>1. UNCHANGED <<calls, known, toChild, toParent, up, feeds, table, watchers, state,
                    len, flushed, closing, acked, missed, late, failed>>
    BY <1>9 DEF vars, parent, control, entries, history
  <2>2. SameHandles /\ \A v \in Handles : Exists(v) => Exists(v)'
    BY <2>1 DEF SameHandles, Exists
  <2> USE DEF Inv
  <2>3. PipesInv'
    BY <2>1, <2>2, PipesKept DEF PipesInv
  <2>4. LengthsInv'
    BY <2>1, <2>2, <2>3, LengthsKept
  <2>5. TablesInv' /\ ClosingInv' /\ ParentInv'
    BY <2>1, <2>2, TablesKept, ClosingKept, ParentKept DEF TablesInv
  <2>6. FoldersInv'
    BY <2>1, FoldersKept DEF entries
  <2> QED
    BY <2>3, <2>4, <2>5, <2>6
<1> QED
  BY <1>1, <1>2, <1>3, <1>4, <1>5, <1>6, <1>7, <1>8, <1>9 DEF Next

LEMMA Invariance == Spec => []Inv
<1> QED
  BY InitInv, NextInv, PTL DEF Spec

\* Calls of every workspace on a shared child are settled by the answers to them:
\* the ids of remote-base.ts never meet, whoever asks.
THEOREM AnswersReachTheirCalls == Spec => []AnswersAreOwn
<1>1. Inv => AnswersAreOwn
  <2> SUFFICES ASSUME Inv
               PROVE  AnswersAreOwn
    OBVIOUS
  <2>1. DOMAIN calls = 1..Len(calls)
    BY LenProperties DEF Inv, ParentInv
  <2> QED
    BY <2>1 DEF Inv, ParentInv, AnswersAreOwn
<1> QED
  BY <1>1, Invariance, PTL

\* The length a RemoteWorkspace shows, once the parent has read what the child
\* wrote, is that of the workspace: change events and the reply to the opening
\* (child.ts) tell it, in whatever chunks they are read.
THEOREM LengthsAreFollowed == Spec => []LengthFollows
<1>1. Inv => LengthFollows
  <2> SUFFICES ASSUME Inv, toParent = <<>>, up # "gone", NEW w \in Handles,
                      known[w] # NoObject, state[w] = "open"
               PROVE  known[w] = len[w] \/ w \in missed
    BY DEF LengthFollows
  <2>1. Len(toParent) = 0
    BY EmptySeq
  <2>2. ChangesIn(toParent, w) = {}
    BY <2>1 DEF ChangesIn
  <2> QED
    BY <2>2 DEF Inv, LengthsInv, Follows, LastTells
<1> QED
  BY <1>1, Invariance, PTL

\* wsClose and closeAll() leave no watcher behind for a handle they take from
\* the table, but one started while they wait.
THEOREM WatchersStop == Spec => []WatcherStops
<1>1. Inv => WatcherStops
  BY DEF Inv, TablesInv, WatcherStops
<1> QED
  BY <1>1, Invariance, PTL

\* Nothing is flushed once the process is gone.
LEMMA GoneStays ==
    ASSUME up = "gone", [Next]_vars
    PROVE  UNCHANGED <<flushed, acked, failed, cut>>
<1>1. CASE OpenWorkspace \/ ParentReads \/ ChildReads \/ InputEnds \/ Exit \/ Crash
  BY <1>1 DEF OpenWorkspace, Call, ParentReads, ChildReads, InputEnds, Exit, Crash, Dies, entries, history
<1>2. ASSUME NEW w \in Handles, Request(w) \/ Listen(w) \/ Replicate(w)
      PROVE  UNCHANGED <<flushed, acked, failed, cut>>
  BY <1>2 DEF Request, Listen, Replicate, Call, entries, history
<1>3. ASSUME NEW f \in feeds, Dispatch(f) \/ FinishAsk(f)
      PROVE  UNCHANGED <<flushed, acked, failed, cut>>
  BY <1>3, BeginCases DEF Dispatch, FinishOpen, FinishWrite, FinishAsk, Running, entries, history
<1>4. ASSUME NEW c \in closing, BeginFlush(c) \/ EndFlush(c) \/ CloseReturns(c)
      PROVE  UNCHANGED <<flushed, acked, failed, cut>>
  BY <1>4 DEF BeginFlush, EndFlush, CloseReturns
<1>5. CASE UNCHANGED vars
  BY <1>5 DEF vars, entries, history
<1> QED
  BY <1>1, <1>2, <1>3, <1>4, <1>5 DEF Next

\* Only the end of the process ends it.
LEMMA GoneByEnding ==
    ASSUME up # "gone", up' = "gone", [Next]_vars
    PROVE  Exit \/ Crash
<1>1. ASSUME OpenWorkspace \/ ParentReads \/ ChildReads \/ InputEnds
      PROVE  FALSE
  BY <1>1 DEF OpenWorkspace, Call, ParentReads, ChildReads, InputEnds, control
<1>2. ASSUME NEW w \in Handles, Request(w) \/ Listen(w) \/ Replicate(w)
      PROVE  FALSE
  BY <1>2 DEF Request, Listen, Replicate, Call, control
<1>3. ASSUME NEW f \in feeds, FinishOpen(f) \/ FinishWrite(f) \/ FinishAsk(f)
      PROVE  FALSE
  BY <1>3 DEF FinishOpen, FinishWrite, FinishAsk, control
<1>4. ASSUME NEW f \in feeds, Begin(f)
      PROVE  FALSE
  BY <1>4, BeginCases DEF BeginWatch, BeginUnwatch, BeginClose, control
<1>5. ASSUME NEW c \in closing, BeginFlush(c) \/ EndFlush(c) \/ CloseReturns(c)
      PROVE  FALSE
  BY <1>5 DEF BeginFlush, EndFlush, CloseReturns
<1>6. ASSUME UNCHANGED vars
      PROVE  FALSE
  BY <1>6 DEF vars, control
<1> QED
  BY <1>1, <1>2, <1>3, <1>4, <1>5, <1>6 DEF Next, Dispatch

\* A child whose input ends, and which has the five seconds it gives itself
\* (child-bin.ts), exits after a flush of every acknowledged write, or after one
\* that failed of itself: closeAll() waits for a close of each workspace, and a
\* flush cut short by another close of it was not needed any more.
THEOREM ExitLeavesAll == Spec => []ExitFlushesAll
<1>1. Init => ExitFlushesAll
  BY DEF Init, ExitFlushesAll
<1>2. Inv /\ ExitFlushesAll /\ [Next]_vars => ExitFlushesAll'
  <2> SUFFICES ASSUME Inv, ExitFlushesAll, [Next]_vars, up' = "gone", ~cut', NEW w \in Handles
               PROVE  flushed'[w] >= acked'[w] \/ w \in failed'
    BY DEF ExitFlushesAll
  <2>1. CASE up = "gone"
    BY <2>1, GoneStays DEF ExitFlushesAll
  <2>2. CASE up # "gone"
    <3>1. Exit \/ Crash
      BY <2>2, GoneByEnding
    <3>2. up = "ending" /\ \A c \in closing : c.feed # <<>>
      BY <3>1 DEF Exit, Crash
    <3>3. UNCHANGED <<flushed, acked, failed>>
      BY <3>1 DEF Exit, Crash, Dies, entries
    <3>4. state[w] \in {"none", "open", "closed", "down"} /\ acked[w] \in Nat /\ flushed[w] \in Nat
      BY DEF Inv, FoldersInv, TablesInv
    <3>5. Safe(w)
      BY <3>2, <3>4 DEF Inv, FoldersInv, Safe
    <3> QED
      BY <3>3, <3>4, <3>5 DEF Safe
  <2> QED
    BY <2>1, <2>2
<1> QED
  BY <1>1, <1>2, Invariance, PTL DEF Spec

-----------------------------------------------------------------------------
(* Types. *)

\* Requests are sent, read and handled in the order of their numbers.
Run(f) == \A n \in 1..Len(f) : f[n] = f[1] + n - 1

NumberedInv ==
    /\ Len(calls) <= MaxCalls /\ begun \subseteq 1..Len(calls)
    /\ \A n \in 1..Len(toChild) : toChild[n] = Len(calls) - Len(toChild) + n
    /\ \A f \in feeds : Run(f)
    /\ \A c \in closing : c.feed # <<>> => Run(c.feed)

ObjectsInv ==
    /\ known \in [Handles -> {NoObject} \cup Nat] /\ listening \subseteq Handles
    /\ \A w \in late : Exists(w)

\* What is left of a chunk is a run, too.
LEMMA RestRuns ==
    ASSUME NEW f, Made(f), Run(f), NEW ok, NEW g \in Rest(f, ok)
    PROVE  Run(g)
<1>1. f \in Seq(Nat) /\ f # <<>> /\ Len(f) \in Nat
  BY DEF Made
<1>2. g = Tail(f) /\ Len(f) > 1
  BY DEF Rest
<1>3. Len(g) = Len(f) - 1 /\ \A n \in 1..Len(g) : g[n] = f[n + 1]
  BY <1>1, <1>2, HeadTailProperties
<1>4. ASSUME NEW n \in 1..Len(g)
      PROVE  g[n] = g[1] + n - 1
  <2>1. 1 \in 1..Len(g) /\ n + 1 \in 1..Len(f) /\ 1 + 1 \in 1..Len(f) /\ 1 \in 1..Len(f)
    BY <1>1, <1>2, <1>3
  <2>2. g[n] = f[n + 1] /\ g[1] = f[1 + 1] /\ f[1] \in Nat
    BY <1>1, <1>3, <2>1 DEF Made
  <2>3. f[n + 1] = f[1] + (n + 1) - 1 /\ f[1 + 1] = f[1] + (1 + 1) - 1
    BY <2>1 DEF Run
  <2> QED
    BY <2>2, <2>3
<1> QED
  BY <1>4 DEF Run

\* The request at the head of a run is answered.
LEMMA AnswersNumbered ==
    ASSUME Inv, NumberedInv, NEW f, Made(f), Run(f), NEW ok, NEW w, NEW sent,
           Answered(f, ok, w, sent), UNCHANGED <<calls, toChild>>, closing' \subseteq closing
    PROVE  NumberedInv'
<1>1. feeds' = (feeds \ {f}) \cup Rest(f, ok) /\ begun' = begun \cup {Head(f)}
  BY DEF Answered
<1>2. Head(f) \in 1..Len(calls)
  BY RestMade
<1>3. \A g \in feeds' : Run(g)
  BY <1>1, RestRuns DEF NumberedInv
<1> QED
  BY <1>1, <1>2, <1>3 DEF NumberedInv

\* A step that leaves requests alone.
LEMMA NumberedKept ==
    ASSUME NumberedInv, UNCHANGED <<calls, toChild, feeds, begun>>,
           \A c \in closing' : c.feed # <<>> => Run(c.feed)
    PROVE  NumberedInv'
  BY DEF NumberedInv

LEMMA ReadsNumbered ==
    ASSUME Inv, NumberedInv, ChildReads
    PROVE  NumberedInv'
<1>1. PICK k \in 1..Len(toChild) :
        /\ feeds' = feeds \cup {SubSeq(toChild, 1, k)}
        /\ toChild' = SubSeq(toChild, k + 1, Len(toChild))
  BY DEF ChildReads
<1>2. UNCHANGED <<calls, begun, closing>>
  BY DEF ChildReads, parent, control
<1>3. /\ toChild \in Seq(Nat) /\ Len(toChild) \in Nat /\ Len(calls) \in Nat
      /\ \A n \in 1..Len(toChild) : toChild[n] \in Nat
  BY ElementOfSeq DEF Inv, PipesInv, ParentInv
<1>4. Run(SubSeq(toChild, 1, k))
  <2> DEFINE p == SubSeq(toChild, 1, k)
  <2>1. \A i \in 1..k : toChild[i] \in Nat /\ i \in 1..Len(toChild)
    BY <1>3
  <2>2. Len(p) = k /\ \A i \in 1..k : p[i] = toChild[i]
    BY <1>3, <2>1, SubSeqProperties
  <2> HIDE DEF p
  <2>3. ASSUME NEW n \in 1..Len(p)
        PROVE  p[n] = p[1] + n - 1
    <3>1. n \in 1..k /\ 1 \in 1..k
      BY <2>2
    <3>2. toChild[n] = Len(calls) - Len(toChild) + n /\ toChild[1] = Len(calls) - Len(toChild) + 1
      BY <2>1, <3>1 DEF NumberedInv
    <3> QED
      BY <1>3, <2>2, <3>1, <3>2
  <2> QED
    BY <2>3 DEF Run, p
<1>5. \A n \in 1..Len(toChild') : toChild'[n] = Len(calls) - Len(toChild') + n
  <2> DEFINE p == SubSeq(toChild, k + 1, Len(toChild))
  <2>2. /\ p \in Seq(Nat) /\ Len(p) = Len(toChild) - k
        /\ \A i \in 1..(Len(toChild) - k) : p[i] = toChild[k + i]
    BY <1>3, ReadRest
  <2>3. toChild' = p
    BY <1>1
  <2> HIDE DEF p
  <2>4. ASSUME NEW n \in 1..Len(p)
        PROVE  p[n] = Len(calls) - Len(p) + n
    <3>1. n \in 1..(Len(toChild) - k) /\ k + n \in 1..Len(toChild)
      BY <1>3, <2>2
    <3>2. p[n] = toChild[k + n] /\ toChild[k + n] = Len(calls) - Len(toChild) + (k + n)
      BY <2>2, <3>1 DEF NumberedInv
    <3> QED
      BY <1>3, <2>2, <3>2
  <2> QED
    BY <2>3, <2>4
<1>6. \A f \in feeds' : Run(f)
  BY <1>1, <1>4 DEF NumberedInv
<1> QED
  BY <1>2, <1>5, <1>6 DEF NumberedInv

LEMMA CallNumbered ==
    ASSUME Inv, NumberedInv, NEW m, NEW w, Call(m, w)
    PROVE  NumberedInv'
<1> DEFINE c == [method |-> m, ws |-> w, id |-> NextRequestId(w), settled |-> "pending", by |-> 0]
<1>1. /\ calls' = Append(calls, c) /\ toChild' = Append(toChild, Len(calls) + 1)
      /\ Len(calls) < MaxCalls /\ UNCHANGED <<feeds, begun, closing>>
  BY DEF Call, control
<1>2. /\ Len(calls) \in Nat /\ toChild \in Seq(Nat) /\ Len(toChild) \in Nat
  BY DEF Inv, ParentInv, PipesInv
<1> HIDE DEF c
<1>3. Len(calls') = Len(calls) + 1
  BY <1>1 DEF Inv, ParentInv
<1>4. /\ Len(toChild') = Len(toChild) + 1 /\ toChild'[Len(toChild) + 1] = Len(calls) + 1
      /\ \A n \in 1..Len(toChild) : toChild'[n] = toChild[n]
  BY <1>1, <1>2, AppendProperties
<1>5. ASSUME NEW n \in 1..Len(toChild')
      PROVE  toChild'[n] = Len(calls') - Len(toChild') + n
  <2>1. CASE n \in 1..Len(toChild)
    <3>1. toChild'[n] = Len(calls) - Len(toChild) + n
      BY <1>4, <2>1 DEF NumberedInv
    <3> QED
      BY <1>2, <1>3, <1>4, <3>1
  <2>2. CASE n = Len(toChild) + 1
    BY <1>2, <1>3, <1>4, <2>2
  <2> QED
    BY <1>2, <1>4, <2>1, <2>2
<1>6. begun' \subseteq 1..Len(calls') /\ Len(calls') <= MaxCalls
  BY <1>1, <1>2, <1>3, IpcConstants DEF NumberedInv
<1> QED
  BY <1>1, <1>5, <1>6 DEF NumberedInv

\* Every step keeps the requests numbered.
LEMMA NextNumbered == Inv /\ NumberedInv /\ [Next]_vars => NumberedInv'
<1> SUFFICES ASSUME Inv, NumberedInv, [Next]_vars
             PROVE  NumberedInv'
  OBVIOUS
<1>1. ASSUME NEW m, NEW w, Call(m, w)
      PROVE  NumberedInv'
  BY <1>1, CallNumbered
<1>2. CASE ParentReads
  <2>1. UNCHANGED <<toChild, feeds, begun, closing>> /\ DOMAIN calls' = DOMAIN calls
    BY <1>2 DEF ParentReads, control
  <2>2. calls \in Seq(CallRecords) /\ calls' \in Seq(CallRecords)
    BY <1>2, ParentReadsKeeps DEF Inv, ParentInv
  <2>3. Len(calls) \in Nat /\ Len(calls') \in Nat /\ 1..Len(calls') = 1..Len(calls)
    BY <2>1, <2>2, LenProperties
  <2>4. Len(calls') = Len(calls)
    BY <2>3
  <2> QED
    BY <2>1, <2>4 DEF NumberedInv
<1>3. CASE ChildReads
  BY <1>3, ReadsNumbered
<1>4. CASE InputEnds
  <2>1. UNCHANGED <<calls, toChild, feeds, begun>>
    BY <1>4 DEF InputEnds, parent
  <2>2. \A c \in closing' : c \in closing \/ c.feed = <<>>
    BY <1>4 DEF InputEnds
  <2> QED
    BY <2>1, <2>2, NumberedKept DEF NumberedInv
<1>5. CASE Exit \/ Crash
  BY <1>5, NumberedKept DEF Exit, Crash, Dies, parent, NumberedInv
<1>6. ASSUME NEW w \in Handles, Replicate(w)
      PROVE  NumberedInv'
  BY <1>6, NumberedKept DEF Replicate, parent, control, NumberedInv
<1>7. ASSUME NEW f \in feeds, FinishOpen(f) \/ FinishWrite(f) \/ FinishAsk(f)
      PROVE  NumberedInv'
  <2>1. UNCHANGED <<calls, toChild, closing>>
    BY <1>7 DEF FinishOpen, FinishWrite, FinishAsk, parent, control
  <2>2. \E ok, w, sent : Answered(f, ok, w, sent)
    BY <1>7 DEF FinishOpen, FinishWrite, FinishAsk
  <2>3. Made(f) /\ Run(f)
    BY DEF Inv, PipesInv, NumberedInv
  <2> QED
    BY <2>1, <2>2, <2>3, AnswersNumbered
<1>8. ASSUME NEW f \in feeds, Begin(f)
      PROVE  NumberedInv'
  <2> DEFINE w == calls[Head(f)].ws
  <2>1. Made(f) /\ Run(f) /\ Head(f) \in 1..Len(calls)
    BY RestMade DEF Inv, PipesInv, NumberedInv
  <2>2. /\ UNCHANGED <<calls, toChild>>
        /\ \/ Answered(f, FALSE, NoHandle, <<>>) /\ UNCHANGED closing
           \/ BeginWatch(f, w) \/ BeginUnwatch(f, w) \/ BeginClose(f, w)
           \/ UNCHANGED <<feeds, closing>> /\ begun' = begun \cup {Head(f)}
    BY <1>8 DEF Begin, parent, control
  <2> HIDE DEF w
  <2>3. CASE Answered(f, FALSE, NoHandle, <<>>) /\ UNCHANGED closing
    BY <2>1, <2>2, <2>3, AnswersNumbered
  <2>4. CASE BeginWatch(f, w) \/ BeginUnwatch(f, w)
    <3>1. Answered(f, TRUE, w, <<>>) /\ UNCHANGED closing
      BY <2>4 DEF BeginWatch, BeginUnwatch
    <3> QED
      BY <2>1, <2>2, <3>1, AnswersNumbered
  <2>5. CASE BeginClose(f, w)
    <3>1. \A c \in closing' : c.feed # <<>> => Run(c.feed)
      BY <2>1, <2>5 DEF BeginClose, NumberedInv
    <3>2. UNCHANGED <<calls, toChild, feeds>> /\ begun' = begun \cup {Head(f)}
      BY <2>2, <2>5 DEF BeginClose
    <3> QED
      BY <2>1, <3>1, <3>2 DEF NumberedInv
  <2>6. CASE UNCHANGED <<feeds, closing>> /\ begun' = begun \cup {Head(f)}
    BY <2>1, <2>2, <2>6 DEF NumberedInv
  <2> QED
    BY <2>2, <2>3, <2>4, <2>5, <2>6
<1>9. ASSUME NEW c \in closing, BeginFlush(c) \/ EndFlush(c)
      PROVE  NumberedInv'
  <2>1. UNCHANGED <<calls, toChild, feeds, begun>>
    BY <1>9 DEF BeginFlush, EndFlush, parent
  <2>2. PICK d \in {[c EXCEPT !.stage = "runtime"],
                    [c EXCEPT !.stage = "copy", !.end = len[c.ws]]} :
            closing' = (closing \ {c}) \cup {d}
    BY <1>9 DEF BeginFlush, EndFlush
  <2>3. c \in Closings
    BY DEF Inv, ClosingInv
  <2>4. d.feed = c.feed
    BY <2>3 DEF Closings
  <2> QED
    BY <2>1, <2>2, <2>4, NumberedKept DEF NumberedInv
<1>10. ASSUME NEW c \in closing, CloseReturns(c)
       PROVE  NumberedInv'
  <2>1. UNCHANGED <<calls, toChild>> /\ closing' = closing \ {c}
    BY <1>10 DEF CloseReturns, parent
  <2>2. CASE c.feed = <<>>
    BY <1>10, <2>1, <2>2, NumberedKept DEF CloseReturns, NumberedInv
  <2>3. CASE c.feed # <<>>
    <3>1. Made(c.feed) /\ Run(c.feed) /\ Answered(c.feed, TRUE, c.ws, <<>>)
      BY <1>10, <2>3 DEF CloseReturns, Inv, ClosingInv, NumberedInv
    <3> QED
      BY <2>1, <3>1, AnswersNumbered
  <2> QED
    BY <2>2, <2>3
<1>11. CASE UNCHANGED vars
  BY <1>11, NumberedKept DEF vars, parent, control, NumberedInv
<1> QED
  BY <1>1, <1>2, <1>3, <1>4, <1>5, <1>6, <1>7, <1>8, <1>9, <1>10, <1>11
  DEF Next, OpenWorkspace, Request, Listen, Dispatch

\* Among the numbers a sequence gives to some of its first k places there is a
\* largest one.
LEMMA LargestGiven ==
    ASSUME NEW g, NEW k \in Nat, NEW D \in SUBSET (1..k), D # {}, \A n \in D : g[n] \in Nat
    PROVE  \E d \in D : \A n \in D : g[n] <= g[d]
<1> DEFINE First(m) == {n \in D : n <= m}
           HasLargest(m) == \E d \in First(m) : \A n \in First(m) : g[n] <= g[d]
           Bad == {m \in Nat : First(m) # {} /\ ~HasLargest(m)}
           R == OpToRel(<, Nat)
<1>0. \A n \in D : n \in Nat /\ n >= 1 /\ n <= k
  OBVIOUS
<1>1. SUFFICES ASSUME k \in Bad
               PROVE  FALSE
  <2>1. \A n : n \in First(k) <=> n \in D
    BY <1>0
  <2>2. HasLargest(k)
    BY <1>1, <2>1
  <2> QED
    BY <2>1, <2>2
<1>2. IsWellFoundedOn(R, Nat)
  BY NatLessThanWellFounded
<1>3. \A i, j \in Nat : i < j => <<i, j>> \in R
  BY Zenon DEF OpToRel
<1> HIDE DEF R
<1>4. PICK m \in Bad : \A i \in Bad : ~(<<i, m>> \in R)
  <2> DEFINE T == Bad
  <2>1. T \subseteq Nat /\ T # {}
    BY <1>1
  <2> HIDE DEF T, Bad
  <2>2. \E m \in T : \A i \in T : ~(<<i, m>> \in R)
    BY <1>2, <2>1, WFMin
  <2> QED
    BY <2>2 DEF T
<1>5. m \in Nat /\ First(m) # {} /\ ~HasLargest(m) /\ m # 0
  <2>1. \A n \in D : n \in Nat /\ n >= 1
    OBVIOUS
  <2>2. m \in Nat /\ First(m) # {} /\ ~HasLargest(m)
    BY <1>4
  <2>3. ASSUME m = 0
        PROVE  First(m) = {}
    <3>1. \A n \in D : ~(n <= 0)
      BY <2>1
    <3> HIDE DEF Bad
    <3> QED
      BY <2>3, <3>1
  <2> HIDE DEF First, HasLargest
  <2> QED
    BY <2>2, <2>3
<1>6. m - 1 \in Nat /\ m - 1 \notin Bad
  <2>1. m \in Nat /\ m - 1 \in Nat /\ m - 1 < m
    BY <1>5
  <2>2. <<m - 1, m>> \in R
    BY <1>3, <2>1
  <2>3. \A j : <<j, m>> \in R => j \notin Bad
    <3> DEFINE T == Bad
    <3>1. \A i \in T : ~(<<i, m>> \in R)
      BY <1>4
    <3> HIDE DEF T, Bad
    <3> QED
      BY <3>1, Zenon DEF T
  <2> HIDE DEF Bad
  <2> QED
    BY <2>1, <2>2, <2>3
<1>7. \A n : n \in First(m) <=> n \in First(m - 1) \/ (n = m /\ m \in D)
  <2>1. m \in Nat
    BY <1>5
  <2>2. \A n \in Nat : n <= m <=> n <= m - 1 \/ n = m
    BY <2>1
  <2>3. \A n \in D : n <= m <=> n <= m - 1 \/ n = m
    BY <1>0, <2>2
  <2>4. \A x, n : n \in First(x) <=> n \in D /\ n <= x
    OBVIOUS
  <2>5. m <= m
    BY <2>1
  <2> HIDE DEF First
  <2> QED
    BY <2>3, <2>4, <2>5
<1>8. \A n \in First(m) : g[n] \in Nat
  OBVIOUS
<1>9. First(m - 1) = {} \/ HasLargest(m - 1)
  BY <1>6
<1> HIDE DEF First, Bad
<1>10. CASE First(m - 1) = {}
  BY <1>5, <1>7, <1>8, <1>10
<1>11. ASSUME NEW d \in First(m - 1), \A n \in First(m - 1) : g[n] <= g[d]
       PROVE  FALSE
  <2>1. CASE m \in D /\ g[d] <= g[m]
    <3>1. m \in First(m)
      BY <1>7, <2>1
    <3>2. \A n \in First(m) : g[n] <= g[m]
      BY <1>7, <1>8, <1>11, <2>1, <3>1
    <3> QED
      BY <1>5, <3>1, <3>2
  <2>2. CASE ~(m \in D /\ g[d] <= g[m])
    <3>1. d \in First(m)
      BY <1>7
    <3>2. \A n \in First(m) : g[n] <= g[d]
      BY <1>7, <1>8, <1>11, <2>2, <3>1
    <3> QED
      BY <1>5, <3>1, <3>2
  <2> QED
    BY <2>1, <2>2
<1> QED
  BY <1>9, <1>10, <1>11

\* What a read chunk tells is a length.
LEMMA ReadsObjects ==
    ASSUME Inv, ObjectsInv, ParentReads
    PROVE  known' \in [Handles -> {NoObject} \cup Nat]
<1> DEFINE chunk(k) == {toParent[n] : n \in 1..k}
           replies(k) == {r \in chunk(k) : r.kind = "reply"}
           Told(k, w) == {r.length : r \in {e \in chunk(k) \ replies(k) : e.ws = w}}
           Opened(k, w) == {r \in replies(k) : r.ok /\ r.ws = w /\ calls[r.call].method = "open"}
           Knows(k, w) ==
               IF Opened(k, w) # {} THEN (CHOOSE r \in Opened(k, w) : TRUE).length
               ELSE IF known[w] # NoObject /\ Told(k, w) # {} THEN Heard(Told(k, w))
               ELSE known[w]
<1>1. PICK k \in 1..Len(toParent) : known' = [w \in Handles |-> Knows(k, w)]
  BY DEF ParentReads
<1>2. \A n \in 1..Len(toParent) : toParent[n] \in Lines
  BY ElementOfSeq DEF Inv, PipesInv
<1>3. k \in Nat /\ \A n \in 1..k : toParent[n] \in Lines /\ toParent[n].length \in Nat
  <2>1. Len(toParent) \in Nat
    BY DEF Inv, PipesInv
  <2>2. \A n \in 1..k : n \in 1..Len(toParent)
    BY <2>1
  <2> QED
    BY <1>2, <2>1, <2>2 DEF Lines
<1>4. ASSUME NEW w \in Handles
      PROVE  Knows(k, w) \in {NoObject} \cup Nat
  <2>1. CASE Opened(k, w) # {}
    <3> DEFINE r == CHOOSE r \in Opened(k, w) : TRUE
    <3>1. r \in Opened(k, w)
      BY <2>1
    <3>2. \A x \in Opened(k, w) : x.length \in Nat
      BY <1>3
    <3> HIDE DEF Opened, r
    <3>3. r.length \in Nat
      BY <3>1, <3>2
    <3> QED
      BY <2>1, <3>3 DEF r
  <2>2. CASE Opened(k, w) = {} /\ known[w] # NoObject /\ Told(k, w) # {}
    <3> DEFINE D == {n \in 1..k : toParent[n] \in chunk(k) \ replies(k) /\ toParent[n].ws = w}
               g == [n \in 1..k |-> toParent[n].length]
    <3>1. \A l : l \in Told(k, w) <=> \E n \in D : l = g[n]
      OBVIOUS
    <3>2. D \in SUBSET (1..k) /\ D # {} /\ \A n \in D : g[n] \in Nat
      BY <1>3, <2>2
    <3> HIDE DEF D, g
    <3>3. PICK d \in D : \A n \in D : g[n] <= g[d]
      BY <1>3, <3>2, LargestGiven
    <3>4. /\ g[d] \in Told(k, w) /\ g[d] \in Nat
          /\ \A y \in Told(k, w) : y \in Nat /\ y <= g[d]
      BY <3>1, <3>2, <3>3
    <3> HIDE DEF Told
    <3>5. Heard(Told(k, w)) = g[d]
      BY <3>4, HeardLast
    <3> QED
      BY <2>2, <3>4, <3>5
  <2>3. CASE Opened(k, w) = {} /\ ~(known[w] # NoObject /\ Told(k, w) # {})
    <3> HIDE DEF Opened, Told
    <3> QED
      BY <2>3 DEF ObjectsInv
  <2> HIDE DEF Knows, Opened, Told
  <2> QED
    BY <2>1, <2>2, <2>3
<1> HIDE DEF Knows
<1> QED
  BY <1>1, <1>4

\* Every step keeps what the parent knows and the watchers as they should be.
LEMMA NextObjects == Inv /\ ObjectsInv /\ [Next]_vars => ObjectsInv'
<1> SUFFICES ASSUME Inv, ObjectsInv, [Next]_vars
             PROVE  ObjectsInv'
  OBVIOUS
<1> USE DEF ObjectsInv
<1>0. /\ state \in [Handles -> {"none", "open", "closed", "down"}]
      /\ late \subseteq Handles /\ \A w \in table : w \in Handles /\ Exists(w)
  BY DEF Inv, TablesInv
<1>1. CASE OpenWorkspace
  BY <1>1 DEF OpenWorkspace, Call, control, history, Exists
<1>2. CASE ParentReads
  BY <1>2, ReadsObjects DEF ParentReads, control, Exists
<1>3. CASE ChildReads
  BY <1>3 DEF ChildReads, parent, control, history, Exists
<1>4. CASE InputEnds
  BY <1>0, <1>4 DEF InputEnds, Closing, parent, history, Exists
<1>5. CASE Exit \/ Crash
  BY <1>5 DEF Exit, Crash, Dies, parent, Exists
<1>6. ASSUME NEW w \in Handles, Request(w) \/ Listen(w)
      PROVE  ObjectsInv'
  BY <1>6 DEF Request, Listen, Call, control, history, Exists
<1>7. ASSUME NEW w \in Handles, Replicate(w)
      PROVE  ObjectsInv'
  BY <1>7 DEF Replicate, parent, control, history, Exists
<1>8. ASSUME NEW f \in feeds, FinishOpen(f)
      PROVE  ObjectsInv'
  <2>1. UNCHANGED <<parent, late>>
    BY <1>8 DEF FinishOpen, history
  <2>2. state' = state \/ \E h : state' = [state EXCEPT ![h] = "open"]
    BY <1>8 DEF FinishOpen
  <2>3. \A v \in Handles : Exists(v) => Exists(v)'
    BY <1>0, <2>2 DEF Exists
  <2> QED
    BY <1>0, <2>1, <2>3 DEF parent
<1>9. ASSUME NEW f \in feeds, FinishWrite(f) \/ FinishAsk(f)
      PROVE  ObjectsInv'
  BY <1>9 DEF FinishWrite, FinishAsk, parent, control, history, Exists
<1>10. ASSUME NEW f \in feeds, Begin(f)
       PROVE  ObjectsInv'
  <2> DEFINE w == calls[Head(f)].ws
  <2>1. UNCHANGED parent
    BY <1>10 DEF Begin
  <2>2. \/ UNCHANGED <<state, late>>
        \/ w \in table /\ (BeginWatch(f, w) \/ BeginUnwatch(f, w) \/ BeginClose(f, w))
    BY <1>10 DEF Begin, control
  <2> HIDE DEF w
  <2>3. CASE UNCHANGED <<state, late>>
    BY <2>1, <2>3 DEF parent, Exists
  <2>4. CASE w \in table /\ (BeginWatch(f, w) \/ BeginUnwatch(f, w))
    BY <1>0, <2>1, <2>4 DEF BeginWatch, BeginUnwatch, parent, Exists
  <2>5. CASE BeginClose(f, w)
    BY <1>0, <2>1, <2>5 DEF BeginClose, Closing, parent, Exists
  <2> QED
    BY <2>2, <2>3, <2>4, <2>5
<1>11. ASSUME NEW c \in closing, BeginFlush(c) \/ EndFlush(c)
       PROVE  ObjectsInv'
  BY <1>11 DEF BeginFlush, EndFlush, parent, history, Exists
<1>12. ASSUME NEW c \in closing, CloseReturns(c)
       PROVE  ObjectsInv'
  BY <1>0, <1>12 DEF CloseReturns, parent, history, Exists
<1>13. CASE UNCHANGED vars
  BY <1>13 DEF vars, parent, control, history, Exists
<1> QED
  BY <1>1, <1>2, <1>3, <1>4, <1>5, <1>6, <1>7, <1>8, <1>9, <1>10, <1>11, <1>12, <1>13
  DEF Next, Dispatch

\* The variables of both processes and the pipes have their types, for any number
\* of calls and workspaces: what is read of the requests is a run of their numbers.
THEOREM TypeCorrect == Spec => []TypeOK
<1>1. Init => NumberedInv /\ ObjectsInv
  BY IpcConstants DEF Init, NumberedInv, ObjectsInv, NoObject, Handles
<1>2. Inv /\ NumberedInv /\ ObjectsInv => TypeOK
  <2> SUFFICES ASSUME Inv, NumberedInv, ObjectsInv
               PROVE  TypeOK
    OBVIOUS
  <2>1. /\ calls \in Seq(CallRecords) /\ Len(calls) \in Nat /\ DOMAIN calls = 1..Len(calls)
        /\ \A i \in 1..Len(calls) : calls[i] \in CallRecords
    BY ElementOfSeq, LenProperties DEF Inv, ParentInv
  <2>2. \A i \in DOMAIN calls : /\ calls[i].ws \in Handles \cup {NoHandle}
                                /\ calls[i].settled \in {"pending", "resolved", "rejected"}
    BY <2>1 DEF CallRecords
  <2>3. /\ table \subseteq {w \in Handles : Exists(w)}
        /\ watchers \subseteq {w \in Handles : Exists(w)}
    BY DEF Inv, TablesInv, ObjectsInv
  <2>4. ASSUME NEW f \in feeds
        PROVE  f \in Chunks
    <3> DEFINE n == Len(f)
    <3>1. /\ f \in Seq(Nat) /\ f # <<>> /\ n \in Nat /\ n >= 1
          /\ \A i \in 1..n : f[i] \in 1..Len(calls)
      BY EmptySeq DEF Inv, PipesInv, Made
    <3>2. f = [i \in 1..n |-> f[i]] /\ DOMAIN f = 1..n
      BY <3>1, LenProperties
    <3> HIDE DEF n
    <3>3. \A i \in 1..n : f[i] = f[1] + i - 1
      BY DEF NumberedInv, Run, n
    <3>4. f[1] \in Nat /\ f[1] >= 1 /\ f[n] \in Nat /\ f[n] <= Len(calls)
      BY <2>1, <3>1
    <3>5. n <= MaxCalls
      <4>1. f[n] = f[1] + n - 1 /\ Len(calls) <= MaxCalls
        BY <3>1, <3>3 DEF NumberedInv
      <4> QED
        BY <2>1, <3>1, <3>4, <4>1, IpcConstants
    <3>6. f \in [1..n -> DOMAIN calls]
      BY <2>1, <3>1, <3>2
    <3>7. IsInjective(f)
      <4>1. \A i, j \in 1..n : f[i] = f[j] => i = j
        BY <3>3, <3>4
      <4> QED
        BY <3>2, <4>1 DEF IsInjective
    <3>8. n \in 1..MaxCalls
      BY <3>1, <3>5, IpcConstants
    <3> QED
      BY <3>6, <3>7, <3>8 DEF Chunks
  <2>5. \A w \in Handles : flushed[w] <= len[w] /\ acked[w] <= len[w]
    BY DEF Inv, FoldersInv
  <2> QED
    BY <2>1, <2>2, <2>3, <2>4, <2>5
    DEF TypeOK, Inv, TablesInv, NumberedInv, ObjectsInv, Exists
<1> QED
  BY <1>1, <1>2, Invariance, NextNumbered, NextObjects, PTL DEF Spec
=============================================================================
