--------------------------- MODULE RuntimeIpcProofs ---------------------------
(***************************************************************************)
(* Proofs about RuntimeIpc, for any number of calls, logs and blocks: an   *)
(* append answers with its own block's number, and the length of a log's   *)
(* only handle comes to be the log's.                                      *)
(***************************************************************************)
EXTENDS RuntimeIpc, SequenceTheorems, WellFoundedInduction, TLAPS

-----------------------------------------------------------------------------
(* The inductive invariant. *)

\* Calls the child has in hand: not read, or in a chunk it is at.
Asked(i) ==
    \/ \E n \in 1..Len(toChild) : toChild[n] = i
    \/ \E f \in feeds : \E n \in 1..Len(f) : f[n] = i

\* A call is in one place, and what is waited for is the head of a chunk.
HandsInv ==
    /\ \A m, n \in 1..Len(toChild) : toChild[m] = toChild[n] => m = n
    /\ \A f \in feeds : f # <<>> /\ \A m, n \in 1..Len(f) : f[m] = f[n] => m = n
    /\ \A f, g \in feeds : \A m \in 1..Len(f), n \in 1..Len(g) : f[m] = g[n] => f = g
    /\ \A f \in feeds : \A m \in 1..Len(f), n \in 1..Len(toChild) : f[m] # toChild[n]
    /\ \A i \in CallIds : Asked(i) => i <= made
    /\ begun \subseteq {Head(f) : f \in feeds}

RepliesIn(q) == {n \in 1..Len(q) : q[n].kind = "reply"}
RepliesTo(q, i) == {n \in RepliesIn(q) : q[n].call = i}

\* A call is answered once, and settled after that.
LinesInv ==
    /\ \A n \in RepliesIn(toParent) :
        /\ toParent[n].call \in 1..made /\ ~Asked(toParent[n].call)
        /\ RepliesTo(toParent, toParent[n].call) = {n}
    /\ up => \A i \in CallIds : Asked(i) \/ RepliesTo(toParent, i) # {} => settled[i] = "pending"
    /\ \A i \in CallIds : i > made =>
        method[i] = "none" /\ settled[i] = "unmade" /\ known[i] = NoObject /\ result[i] = 0
    /\ \A i \in CallIds : method[i] \in {"openLog", "appendBlock", "closeLog"} => log[i] \in Logs

\* Appends of k that Hypercore has done and the child has still to answer.
InFlight(k) ==
    {i \in begun : method[i] = "appendBlock" /\ log[i] = k /\ result[i] # 0}

\* What an append returned is the number of its block, and the last block of a
\* log is that of an append in flight, if there is one.
AppendsInv ==
    /\ \A i \in CallIds :
        /\ method[i] = "appendBlock" => log[i] \in writable /\ via[i] \in HandlesOf(log[i])
        /\ result[i] # 0 =>
            /\ method[i] = "appendBlock" /\ result[i] <= len[log[i]]
            /\ i \in begun \/ ~Asked(i)
        /\ settled[i] = "resolved" /\ method[i] = "appendBlock" =>
            value[i] = result[i] /\ result[i] # 0
    /\ \A i, j \in CallIds :
        log[i] = log[j] /\ result[i] = result[j] /\ result[i] # 0 => i = j
    /\ \A n \in RepliesIn(toParent) : method[toParent[n].call] = "appendBlock" =>
        IF toParent[n].ok
        THEN toParent[n].length = result[toParent[n].call] /\ toParent[n].length # 0
        ELSE result[toParent[n].call] = 0
    /\ \A k \in Logs : InFlight(k) # {} => \E i \in InFlight(k) : result[i] = len[k]

\* Among lines q: those that open k, the events of k, the appends to k.
OpensIn(q, k) ==
    {n \in RepliesIn(q) : q[n].ok /\ method[q[n].call] = "openLog" /\ log[q[n].call] = k}
EventsIn(q, k) == {n \in 1..Len(q) : IsEvent(q[n], k)}
AppendsIn(q, k) ==
    {n \in RepliesIn(q) : q[n].ok /\ method[q[n].call] = "appendBlock" /\ log[q[n].call] = k}

\* The handles of k there are or will be.
Objects(k) == HandlesOf(k) \cup {toParent[n].call : n \in OpensIn(toParent, k)}

\* n is the last of the lines ns of q, and tells the length l.
LastTells(q, n, ns, l) == n \in ns /\ q[n].length = l /\ \A m \in ns : m <= n

\* The only handle h of k comes to know the length l from lines q.
Follows(q, h, k, l) ==
    \/ InFlight(k) # {}
    \/ \E n \in AppendsIn(q, k) : LastTells(q, n, AppendsIn(q, k) \cup EventsIn(q, k), l)
    \/ AppendsIn(q, k) = {} /\ \E n \in EventsIn(q, k) : LastTells(q, n, EventsIn(q, k), l)
    \/ /\ AppendsIn(q, k) = {} /\ EventsIn(q, k) = {}
       /\ \/ known[h] = l
          \/ known[h] = NoObject /\ \A n \in OpensIn(q, k) : q[n].length = l

HandlesInv ==
    /\ \A h \in CallIds : known[h] # NoObject =>
        method[h] = "openLog" /\ log[h] \in Logs /\ settled[h] # "pending"
    /\ \A k \in Logs :
        \/ logs[k] \in HandlesOf(k)
        \/ logs[k] = NoCall /\ HandlesOf(k) = {}
    /\ up => \A k \in Logs :
        Objects(k) = {} => k \notin subscribed /\ EventsIn(toParent, k) = {}

LengthsInv ==
    up => \A k \in subscribed \ missed : \A h \in CallIds :
        Objects(k) = {h} => Follows(toParent, h, k, len[k])

Inv == TypeOK /\ HandsInv /\ LinesInv /\ AppendsInv /\ HandlesInv /\ LengthsInv

-----------------------------------------------------------------------------
(* Types. *)

LEMMA CallFacts == NoCall \notin CallIds /\ \A i \in CallIds : i \in Nat
  BY CallsAssumption DEF CallIds, NoCall

\* The head of a chunk is a call that was made, and the child has it in hand.
LEMMA HeadFacts ==
    ASSUME TypeOK, HandsInv, NEW f \in feeds
    PROVE  /\ f \in Seq(CallIds) /\ Len(f) \in Nat /\ Len(f) >= 1
           /\ Head(f) = f[1] /\ Head(f) \in CallIds /\ Asked(Head(f)) /\ Head(f) <= made
<1>1. f \in Seq(CallIds) /\ f # <<>>
  BY DEF TypeOK, HandsInv
<1>2. Len(f) \in Nat /\ Len(f) >= 1
  BY <1>1, EmptySeq
<1>3. Head(f) = f[1] /\ f[1] \in CallIds
  BY <1>1, <1>2
<1>4. Asked(f[1])
  BY <1>2 DEF Asked
<1> QED
  BY <1>1, <1>2, <1>3, <1>4 DEF HandsInv

LEMMA TailSeq ==
    ASSUME NEW S, NEW f \in Seq(S), Len(f) > 1
    PROVE  Tail(f) \in Seq(S)
<1>1. f # <<>>
  BY EmptySeq
<1> QED
  BY <1>1, HeadTailProperties

LEMMA SubSeqSeq ==
    ASSUME NEW S, NEW s \in Seq(S), NEW m \in Nat, m >= 1, NEW n \in 0..Len(s)
    PROVE  SubSeq(s, m, n) \in Seq(S)
<1>1. Len(s) \in Nat /\ n \in Int /\ m \in Int
  OBVIOUS
<1>2. \A i \in m..n : i \in 1..Len(s)
  BY <1>1
<1>3. \A i \in m..n : s[i] \in S
  BY <1>2, ElementOfSeq
<1> QED
  BY <1>1, <1>3, SubSeqProperties

LEMMA RpcTypes ==
    ASSUME TypeOK, NEW m \in Methods, NEW k \in Logs \cup {NoLog}, NEW h \in CallIds \cup {NoCall},
           Rpc(m, k, h)
    PROVE  TypeOK' /\ made + 1 \in CallIds
<1>1. made + 1 \in CallIds /\ made' = made + 1 /\ made' \in 0..MaxCalls
  BY CallsAssumption DEF Rpc, TypeOK, CallIds
<1>2. toChild' \in Seq(CallIds)
  BY <1>1, AppendProperties DEF Rpc, TypeOK
<1> QED
  BY <1>1, <1>2 DEF Rpc, TypeOK, child

\* The types of what a reply changes.
LEMMA ReplyTypes ==
    ASSUME TypeOK, HandsInv, NEW f \in feeds, NEW ok \in BOOLEAN, NEW n \in Nat, Reply(f, ok, n)
    PROVE  /\ toParent' \in Seq(Line) /\ feeds' \subseteq Seq(CallIds) /\ begun' \subseteq CallIds
           /\ UNCHANGED <<requests, answers, toChild, ended, up, missed>>
<1> DEFINE r == [kind |-> "reply", call |-> Head(f), ok |-> ok, log |-> log[Head(f)], length |-> n]
<1>1. r \in Line
  BY HeadFacts DEF TypeOK, Line
<1>2. toParent' = Append(toParent, r)
  BY DEF Reply
<1> HIDE DEF r
<1>3. toParent' \in Seq(Line)
  BY <1>1, <1>2, AppendProperties DEF TypeOK
<1>4. ASSUME NEW g \in feeds'
      PROVE  g \in Seq(CallIds)
  <2>1. CASE g \in feeds
    BY <2>1 DEF TypeOK
  <2>2. CASE Len(f) > 1 /\ g = Tail(f)
    BY <2>2, TailSeq, HeadFacts
  <2> QED
    BY <2>1, <2>2 DEF Reply
<1> QED
  BY <1>3, <1>4 DEF Reply, TypeOK

LEMMA GrownTypes ==
    ASSUME TypeOK, NEW k \in Logs
    PROVE  Grown(k) \in Seq(Line)
<1> DEFINE r == [kind |-> "append", call |-> NoCall, ok |-> TRUE, log |-> k, length |-> len[k] + 1]
<1>1. r \in Line /\ toParent \in Seq(Line)
  BY DEF TypeOK, Line
<1>2. Grown(k) = IF k \in subscribed THEN Append(toParent, r) ELSE toParent
  BY DEF Grown
<1> HIDE DEF r
<1> QED
  BY <1>1, <1>2, AppendProperties

-----------------------------------------------------------------------------
(* A chunk of the parent. *)

LEMMA LeastOf ==
    ASSUME NEW T \in SUBSET Nat, T # {}
    PROVE  \E n \in T : \A k \in T : n <= k
<1> DEFINE R == OpToRel(<, Nat)
<1>1. IsWellFoundedOn(R, Nat)
  BY NatLessThanWellFounded
<1>2. \A k, n \in Nat : k < n => <<k, n>> \in R
  BY Zenon DEF OpToRel
<1> HIDE DEF R
<1>3. PICK n \in T : \A k \in T : ~(<<k, n>> \in R)
  BY <1>1, WFMin
<1>4. ASSUME NEW k \in T
      PROVE  n <= k
  <2>1. k \in Nat /\ n \in Nat
    OBVIOUS
  <2>2. ~(k < n)
    BY <1>2, <1>3, <2>1, Zenon
  <2> QED
    BY <2>1, <2>2
<1> QED
  BY <1>4

LEMMA LastOne ==
    ASSUME NEW n \in Nat, NEW S \in SUBSET (1..n), S # {}
    PROVE  \E m \in S : \A o \in S : o <= m
<1> DEFINE T == {n - o : o \in S}
<1>1. T \in SUBSET Nat /\ T # {}
  <2>1. \A o \in S : n - o \in Nat
    OBVIOUS
  <2> QED
    BY <2>1
<1>2. PICK t \in T : \A u \in T : t <= u
  BY <1>1, LeastOf
<1>3. PICK m \in S : t = n - m
  BY <1>2
<1>4. ASSUME NEW o \in S
      PROVE  o <= m
  <2>1. n - m <= n - o
    BY <1>2, <1>3
  <2> QED
    BY <2>1
<1> QED
  BY <1>4

\* Of the first n lines: answers to appends through h, events of k, openings of k.
ReadAppends(n, h) ==
    {o \in 1..n : IsReply(toParent[o], "appendBlock", TRUE) /\ via[toParent[o].call] = h}
ReadEvents(n, k) == {o \in 1..n : IsEvent(toParent[o], k)}
ReadOpens(n, k) ==
    {o \in 1..n : IsReply(toParent[o], "openLog", TRUE) /\ log[toParent[o].call] = k}

\* What the answers among the first n lines make of call i.
SettledBy(n, i) ==
    \/ \E o \in RepliesTo(toParent, i) :
        /\ o <= n /\ settled[i] = "pending"
        /\ settled'[i] = IF toParent[o].ok THEN "resolved" ELSE "rejected"
        /\ value'[i] = toParent[o].length
    \/ /\ \A o \in RepliesTo(toParent, i) : o <= n => settled[i] # "pending"
       /\ settled'[i] = settled[i] /\ value'[i] = value[i]

\* What the first n lines make of the length of handle h.
KnownBy(n, h) ==
    \/ /\ \E o \in RepliesTo(toParent, h) : o <= n /\ settled[h] = "pending" /\ toParent[o].ok
       /\ method[h] = "openLog" /\ known'[h] = value'[h]
    \/ /\ ~(\E o \in RepliesTo(toParent, h) : o <= n /\ settled[h] = "pending" /\ toParent[o].ok)
          \/ method[h] # "openLog"
       /\ known[h] = NoObject /\ known'[h] = NoObject
    \/ /\ known[h] # NoObject
       /\ \E o \in ReadAppends(n, h) :
            known'[h] = toParent[o].length /\ \A p \in ReadAppends(n, h) : p <= o
    \/ /\ known[h] # NoObject /\ ReadAppends(n, h) = {} /\ logs[log[h]] = h
       /\ \E o \in ReadEvents(n, log[h]) :
            known'[h] = toParent[o].length /\ \A p \in ReadEvents(n, log[h]) : p <= o
    \/ /\ known[h] # NoObject /\ known'[h] = known[h] /\ ReadAppends(n, h) = {}
       /\ logs[log[h]] # h \/ ReadEvents(n, log[h]) = {}

\* The first n lines are read.
ReadTo(n) ==
    /\ toParent' = SubSeq(toParent, n + 1, Len(toParent))
    /\ settled' = [i \in CallIds |-> settled'[i]] /\ value' = [i \in CallIds |-> value'[i]]
    /\ known' = [i \in CallIds |-> known'[i]] /\ logs' = [k \in Logs |-> logs'[k]]
    /\ \A i \in CallIds : SettledBy(n, i) /\ KnownBy(n, i)
    /\ \A k \in Logs :
        \/ ReadOpens(n, k) = {} /\ logs'[k] = logs[k]
        \/ \E o \in ReadOpens(n, k) : logs'[k] = toParent[o].call
    /\ missed' = missed \cup {k \in Logs : /\ ReadEvents(n, k) # {}
                                           /\ logs[k] = NoCall \/ ReadOpens(n, k) # {}}
    /\ ready' \in BOOLEAN
    /\ UNCHANGED <<requests, exited, toChild, ended, up, feeds, begun, result, child, len>>

LEMMA ReadFacts ==
    ASSUME TypeOK, LinesInv, ParentReads
    PROVE  \E n \in 1..Len(toParent) : ReadTo(n)
<1> DEFINE chunk(n) == SubSeq(toParent, 1, n)
           Replies(n) == {r \in {chunk(n)[o] : o \in 1..n} :
                            r.kind = "reply" /\ settled[r.call] = "pending"}
           Opened(n, k) ==
               LastOf(chunk(n), LAMBDA r : IsReply(r, "openLog", TRUE) /\ log[r.call] = k)
           Appended(n, h) ==
               LastOf(chunk(n), LAMBDA r : IsReply(r, "appendBlock", TRUE) /\ via[r.call] = h)
           Heard(n, k) == LastOf(chunk(n), LAMBDA r : IsEvent(r, k))
<1>1. PICK n \in 1..Len(toParent) :
      /\ toParent' = SubSeq(toParent, n + 1, Len(toParent))
      /\ settled' = [i \in CallIds |->
            IF \E r \in Replies(n) : r.call = i /\ r.ok THEN "resolved"
            ELSE IF \E r \in Replies(n) : r.call = i /\ ~r.ok THEN "rejected"
            ELSE settled[i]]
      /\ value' = [i \in CallIds |->
            IF \E r \in Replies(n) : r.call = i
            THEN (CHOOSE r \in Replies(n) : r.call = i).length ELSE value[i]]
      /\ ready' = (ready \/ \E r \in Replies(n) : method[r.call] = "init" /\ r.ok)
      /\ known' = [h \in CallIds |->
            IF \E r \in Replies(n) : r.call = h /\ method[h] = "openLog" /\ r.ok
            THEN value'[h]
            ELSE IF known[h] = NoObject THEN NoObject
            ELSE IF Appended(n, h) # {} THEN (CHOOSE r \in Appended(n, h) : TRUE).length
            ELSE IF logs[log[h]] = h /\ Heard(n, log[h]) # {}
                 THEN (CHOOSE r \in Heard(n, log[h]) : TRUE).length
            ELSE known[h]]
      /\ logs' = [k \in Logs |->
            IF Opened(n, k) # {} THEN (CHOOSE r \in Opened(n, k) : TRUE).call ELSE logs[k]]
      /\ missed' = missed \cup
            {k \in Logs : Heard(n, k) # {} /\ (logs[k] = NoCall \/ Opened(n, k) # {})}
      /\ UNCHANGED <<requests, exited, toChild, ended, up, feeds, begun, result, child, len>>
  BY DEF ParentReads
<1>2. /\ toParent \in Seq(Line) /\ Len(toParent) \in Nat /\ n \in Nat
      /\ \A o \in 1..n : o \in 1..Len(toParent) /\ toParent[o] \in Line
  BY ElementOfSeq DEF TypeOK
<1>3. DOMAIN chunk(n) = 1..n /\ \A o \in 1..n : chunk(n)[o] = toParent[o]
  <2> DEFINE p == SubSeq(toParent, 1, n)
  <2>1. p \in Seq(Line) /\ Len(p) = n /\ \A o \in 1..n : p[o] = toParent[o]
    BY <1>2, SubSeqProperties
  <2> HIDE DEF p
  <2>2. DOMAIN p = 1..n
    BY <2>1, LenProperties
  <2> QED
    BY <2>1, <2>2 DEF p
<1> HIDE DEF chunk
<1>4. \A r : r \in Replies(n) <=>
        \E o \in 1..n : r = toParent[o] /\ r.kind = "reply" /\ settled[r.call] = "pending"
  BY <1>3
<1>5. \A k : /\ Opened(n, k) = {} <=> ReadOpens(n, k) = {}
             /\ ReadOpens(n, k) # {} => \E o \in ReadOpens(n, k) : Opened(n, k) = {toParent[o]}
  <2> SUFFICES ASSUME NEW k
               PROVE  /\ Opened(n, k) = {} <=> ReadOpens(n, k) = {}
                      /\ ReadOpens(n, k) # {} =>
                            \E o \in ReadOpens(n, k) : Opened(n, k) = {toParent[o]}
    OBVIOUS
  <2> DEFINE S == {o \in DOMAIN chunk(n) : IsReply(chunk(n)[o], "openLog", TRUE)
                                           /\ log[chunk(n)[o].call] = k}
  <2>1. S = ReadOpens(n, k)
    BY <1>3 DEF ReadOpens
  <2>2. Opened(n, k) = IF S = {} THEN {} ELSE {chunk(n)[CHOOSE o \in S : \A p \in S : p <= o]}
    BY DEF LastOf
  <2> HIDE DEF S
  <2>3. S # {} => \E o \in S : \A p \in S : p <= o
    BY <1>2, <2>1, LastOne DEF ReadOpens
  <2>4. S \subseteq 1..n
    BY <2>1 DEF ReadOpens
  <2> QED
    BY <1>3, <2>1, <2>2, <2>3, <2>4
<1>6. \A h : /\ Appended(n, h) = {} <=> ReadAppends(n, h) = {}
             /\ ReadAppends(n, h) # {} =>
                    \E o \in ReadAppends(n, h) : /\ Appended(n, h) = {toParent[o]}
                                                 /\ \A p \in ReadAppends(n, h) : p <= o
  <2> SUFFICES ASSUME NEW h
               PROVE  /\ Appended(n, h) = {} <=> ReadAppends(n, h) = {}
                      /\ ReadAppends(n, h) # {} =>
                            \E o \in ReadAppends(n, h) : /\ Appended(n, h) = {toParent[o]}
                                                         /\ \A p \in ReadAppends(n, h) : p <= o
    OBVIOUS
  <2> DEFINE S == {o \in DOMAIN chunk(n) : IsReply(chunk(n)[o], "appendBlock", TRUE)
                                           /\ via[chunk(n)[o].call] = h}
  <2>1. S = ReadAppends(n, h)
    BY <1>3 DEF ReadAppends
  <2>2. Appended(n, h) = IF S = {} THEN {} ELSE {chunk(n)[CHOOSE o \in S : \A p \in S : p <= o]}
    BY DEF LastOf
  <2> HIDE DEF S
  <2>3. S # {} => \E o \in S : \A p \in S : p <= o
    BY <1>2, <2>1, LastOne DEF ReadAppends
  <2>4. S \subseteq 1..n
    BY <2>1 DEF ReadAppends
  <2> QED
    BY <1>3, <2>1, <2>2, <2>3, <2>4
<1>7. \A k : /\ Heard(n, k) = {} <=> ReadEvents(n, k) = {}
             /\ ReadEvents(n, k) # {} =>
                    \E o \in ReadEvents(n, k) : /\ Heard(n, k) = {toParent[o]}
                                                /\ \A p \in ReadEvents(n, k) : p <= o
  <2> SUFFICES ASSUME NEW k
               PROVE  /\ Heard(n, k) = {} <=> ReadEvents(n, k) = {}
                      /\ ReadEvents(n, k) # {} =>
                            \E o \in ReadEvents(n, k) : /\ Heard(n, k) = {toParent[o]}
                                                        /\ \A p \in ReadEvents(n, k) : p <= o
    OBVIOUS
  <2> DEFINE S == {o \in DOMAIN chunk(n) : IsEvent(chunk(n)[o], k)}
  <2>1. S = ReadEvents(n, k)
    BY <1>3 DEF ReadEvents
  <2>2. Heard(n, k) = IF S = {} THEN {} ELSE {chunk(n)[CHOOSE o \in S : \A p \in S : p <= o]}
    BY DEF LastOf
  <2> HIDE DEF S
  <2>3. S # {} => \E o \in S : \A p \in S : p <= o
    BY <1>2, <2>1, LastOne DEF ReadEvents
  <2>4. S \subseteq 1..n
    BY <2>1 DEF ReadEvents
  <2> QED
    BY <1>3, <2>1, <2>2, <2>3, <2>4
<1> HIDE DEF Opened, Appended, Heard, Replies
<1>8. \A i \in CallIds : \A r : r \in Replies(n) /\ r.call = i <=>
        \E o \in RepliesTo(toParent, i) : o <= n /\ settled[i] = "pending" /\ r = toParent[o]
  BY <1>2, <1>4 DEF RepliesTo, RepliesIn
<1>9. \A i \in CallIds : \A o, p \in RepliesTo(toParent, i) : o = p
  BY DEF LinesInv, RepliesTo
<1>10. ASSUME NEW i \in CallIds
       PROVE  SettledBy(n, i)
  <2>1. /\ settled'[i] = IF \E r \in Replies(n) : r.call = i /\ r.ok THEN "resolved"
                         ELSE IF \E r \in Replies(n) : r.call = i /\ ~r.ok THEN "rejected"
                         ELSE settled[i]
        /\ value'[i] = IF \E r \in Replies(n) : r.call = i
                       THEN (CHOOSE r \in Replies(n) : r.call = i).length ELSE value[i]
    BY <1>1
  <2>2. CASE \E o \in RepliesTo(toParent, i) : o <= n /\ settled[i] = "pending"
    <3>1. PICK o \in RepliesTo(toParent, i) : o <= n /\ settled[i] = "pending"
      BY <2>2
    <3>2. \A r : r \in Replies(n) /\ r.call = i <=> r = toParent[o]
      BY <1>8, <1>9, <3>1
    <3>3. (CHOOSE r \in Replies(n) : r.call = i) = toParent[o]
      BY <3>2
    <3> QED
      BY <2>1, <3>1, <3>2, <3>3 DEF SettledBy
  <2>3. CASE ~\E o \in RepliesTo(toParent, i) : o <= n /\ settled[i] = "pending"
    <3>1. \A r \in Replies(n) : r.call # i
      BY <1>8, <2>3
    <3> QED
      BY <2>1, <2>3, <3>1 DEF SettledBy
  <2> QED
    BY <2>2, <2>3
<1>11. ASSUME NEW h \in CallIds
       PROVE  KnownBy(n, h)
  <2> DEFINE Now == \E r \in Replies(n) : r.call = h /\ method[h] = "openLog" /\ r.ok
  <2>1. known'[h] =
            IF Now THEN value'[h]
            ELSE IF known[h] = NoObject THEN NoObject
            ELSE IF Appended(n, h) # {} THEN (CHOOSE r \in Appended(n, h) : TRUE).length
            ELSE IF logs[log[h]] = h /\ Heard(n, log[h]) # {}
                 THEN (CHOOSE r \in Heard(n, log[h]) : TRUE).length
            ELSE known[h]
    BY <1>1
  <2>2. Now <=> /\ \E o \in RepliesTo(toParent, h) :
                        o <= n /\ settled[h] = "pending" /\ toParent[o].ok
                /\ method[h] = "openLog"
    BY <1>8
  <2> HIDE DEF Now
  <2>3. CASE Now
    BY <2>1, <2>2, <2>3 DEF KnownBy
  <2>4. CASE ~Now /\ known[h] = NoObject
    BY <2>1, <2>2, <2>4 DEF KnownBy
  <2>5. CASE ~Now /\ known[h] # NoObject /\ ReadAppends(n, h) # {}
    <3>1. PICK o \in ReadAppends(n, h) : /\ Appended(n, h) = {toParent[o]}
                                         /\ \A p \in ReadAppends(n, h) : p <= o
      BY <1>6, <2>5
    <3>2. known'[h] = toParent[o].length
      BY <2>1, <2>5, <3>1
    <3> QED
      BY <2>5, <3>1, <3>2 DEF KnownBy
  <2>6. CASE /\ ~Now /\ known[h] # NoObject /\ ReadAppends(n, h) = {}
             /\ logs[log[h]] = h /\ ReadEvents(n, log[h]) # {}
    <3>1. PICK o \in ReadEvents(n, log[h]) : /\ Heard(n, log[h]) = {toParent[o]}
                                             /\ \A p \in ReadEvents(n, log[h]) : p <= o
      BY <1>7, <2>6
    <3>2. Appended(n, h) = {}
      BY <1>6, <2>6
    <3>3. known'[h] = toParent[o].length
      BY <2>1, <2>6, <3>1, <3>2
    <3> QED
      BY <2>6, <3>1, <3>3 DEF KnownBy
  <2>7. CASE /\ ~Now /\ known[h] # NoObject /\ ReadAppends(n, h) = {}
             /\ ~(logs[log[h]] = h /\ ReadEvents(n, log[h]) # {})
    <3>1. known'[h] = known[h]
      BY <1>6, <1>7, <2>1, <2>7
    <3> QED
      BY <2>7, <3>1 DEF KnownBy
  <2> QED
    BY <2>3, <2>4, <2>5, <2>6, <2>7
<1>12. ASSUME NEW k \in Logs
       PROVE  \/ ReadOpens(n, k) = {} /\ logs'[k] = logs[k]
              \/ \E o \in ReadOpens(n, k) : logs'[k] = toParent[o].call
  <2>1. logs'[k] = IF Opened(n, k) # {} THEN (CHOOSE r \in Opened(n, k) : TRUE).call ELSE logs[k]
    BY <1>1
  <2>2. CASE ReadOpens(n, k) = {}
    BY <1>5, <2>1, <2>2
  <2>3. CASE ReadOpens(n, k) # {}
    <3>1. PICK o \in ReadOpens(n, k) : Opened(n, k) = {toParent[o]}
      BY <1>5, <2>3
    <3> QED
      BY <2>1, <3>1
  <2> QED
    BY <2>2, <2>3
<1>13. missed' = missed \cup {k \in Logs : /\ ReadEvents(n, k) # {}
                                           /\ logs[k] = NoCall \/ ReadOpens(n, k) # {}}
  BY <1>1, <1>5, <1>7
<1>14. ready' \in BOOLEAN
  BY <1>1 DEF TypeOK
<1>15. /\ settled' = [i \in CallIds |-> settled'[i]] /\ value' = [i \in CallIds |-> value'[i]]
       /\ known' = [i \in CallIds |-> known'[i]] /\ logs' = [k \in Logs |-> logs'[k]]
  BY <1>1
<1> QED
  BY <1>1, <1>10, <1>11, <1>12, <1>13, <1>14, <1>15 DEF ReadTo

\* Every step keeps the types.
LEMMA ReadTypes ==
    ASSUME TypeOK, LinesInv, ParentReads
    PROVE  TypeOK'
<1>0. PICK n \in 1..Len(toParent) : ReadTo(n)
  BY ReadFacts
<1>1. /\ toParent' = SubSeq(toParent, n + 1, Len(toParent))
      /\ settled' = [i \in CallIds |-> settled'[i]] /\ value' = [i \in CallIds |-> value'[i]]
      /\ known' = [i \in CallIds |-> known'[i]] /\ logs' = [k \in Logs |-> logs'[k]]
      /\ \A i \in CallIds : SettledBy(n, i) /\ KnownBy(n, i)
      /\ \A k \in Logs :
          \/ ReadOpens(n, k) = {} /\ logs'[k] = logs[k]
          \/ \E o \in ReadOpens(n, k) : logs'[k] = toParent[o].call
      /\ missed' = missed \cup {k \in Logs : /\ ReadEvents(n, k) # {}
                                             /\ logs[k] = NoCall \/ ReadOpens(n, k) # {}}
      /\ ready' \in BOOLEAN
      /\ UNCHANGED <<requests, exited, toChild, ended, up, feeds, begun, result, child, len>>
  BY <1>0 DEF ReadTo
<1>2. /\ toParent \in Seq(Line) /\ Len(toParent) \in Nat /\ n \in Nat
      /\ \A o \in 1..Len(toParent) : toParent[o] \in Line
      /\ \A o \in 1..n : o \in 1..Len(toParent)
  BY ElementOfSeq DEF TypeOK
<1>3. toParent' \in Seq(Line)
  BY <1>1, <1>2, SubSeqSeq
<1>4. ASSUME NEW i \in CallIds
      PROVE  /\ settled'[i] \in {"unmade", "pending", "resolved", "rejected"} /\ value'[i] \in Nat
             /\ known'[i] \in Nat \cup {NoObject}
  <2>1. settled'[i] \in {"unmade", "pending", "resolved", "rejected"} /\ value'[i] \in Nat
    <3>1. \A o \in RepliesTo(toParent, i) : toParent[o].length \in Nat
      BY <1>2 DEF RepliesTo, RepliesIn, Line
    <3> QED
      BY <1>1, <3>1 DEF SettledBy, TypeOK
  <2>2. \A o \in ReadAppends(n, i) \cup ReadEvents(n, log[i]) : toParent[o].length \in Nat
    BY <1>2 DEF ReadAppends, ReadEvents, Line
  <2>3. KnownBy(n, i)
    BY <1>1
  <2>4. known'[i] \in Nat \cup {NoObject}
    BY <2>1, <2>2, <2>3 DEF KnownBy, TypeOK
  <2> QED
    BY <2>1, <2>4
<1>5. /\ settled' \in [CallIds -> {"unmade", "pending", "resolved", "rejected"}]
      /\ value' \in [CallIds -> Nat] /\ known' \in [CallIds -> Nat \cup {NoObject}]
  BY <1>1, <1>4
<1>6. ASSUME NEW k \in Logs
      PROVE  logs'[k] \in CallIds \cup {NoCall}
  <2>1. \A o \in ReadOpens(n, k) : toParent[o].call \in CallIds \cup {NoCall}
    BY <1>2 DEF ReadOpens, Line
  <2> QED
    BY <1>1, <1>6, <2>1 DEF TypeOK
<1>7. logs' \in [Logs -> CallIds \cup {NoCall}]
  BY <1>1, <1>6
<1>8. missed' \subseteq Logs
  BY <1>1 DEF TypeOK
<1> QED
  BY <1>1, <1>3, <1>5, <1>7, <1>8 DEF TypeOK, requests, child

LEMMA HandleTypes ==
    ASSUME TypeOK, HandsInv, LinesInv, NEW f \in feeds, Handle(f) \/ FinishAsk(f)
    PROVE  TypeOK'
<1> DEFINE k == log[Head(f)]
<1>1. /\ Head(f) \in CallIds /\ Head(f) <= made
      /\ \A i \in CallIds : log[i] \in Logs \cup {NoLog} /\ result[i] \in Nat
      /\ \A j \in Logs : len[j] \in Nat
  BY HeadFacts DEF TypeOK
<1>2. ASSUME NEW ok \in BOOLEAN, NEW n \in Nat, Reply(f, ok, n), UNCHANGED <<result, len>>,
             runtime' \in {"none", "open"}, cleared' \in BOOLEAN, table' \subseteq Logs,
             subscribed' \subseteq Logs, visited' \subseteq Logs, shut' \subseteq Logs
      PROVE  TypeOK'
  <2>1. /\ toParent' \in Seq(Line) /\ feeds' \subseteq Seq(CallIds) /\ begun' \subseteq CallIds
        /\ UNCHANGED <<requests, answers, toChild, ended, up, missed>>
    BY <1>2, ReplyTypes
  <2> QED
    BY <1>2, <2>1 DEF TypeOK, requests, answers
<1>3. ASSUME Throws(f)
      PROVE  TypeOK'
  BY <1>2, <1>3 DEF Throws, child, TypeOK
<1>4. ASSUME Waits(f), UNCHANGED <<runtime, table, visited, cleared, shut>>, subscribed' \subseteq subscribed
      PROVE  TypeOK'
  BY <1>1, <1>4 DEF Waits, TypeOK, requests, answers
<1>5. ASSUME Begin(f)
      PROVE  TypeOK'
  <2>1. PICK m \in {"init", "openLog", "appendBlock", "closeLog", "ask"} :
            \/ Throws(f)
            \/ Reply(f, TRUE, 0) /\ UNCHANGED <<result, child, len>>
            \/ /\ Waits(f) /\ subscribed' = subscribed \ {k}
               /\ UNCHANGED <<runtime, table, visited, cleared, shut>>
            \/ Waits(f) /\ UNCHANGED child
    BY <1>5 DEF Begin
  <2>2. CASE Reply(f, TRUE, 0) /\ UNCHANGED <<result, child, len>>
    BY <1>2, <2>2 DEF TypeOK, child
  <2>3. CASE Waits(f) /\ UNCHANGED child
    BY <1>4, <2>3 DEF child
  <2> QED
    BY <1>3, <1>4, <2>1, <2>2, <2>3
<1>6. ASSUME FinishInit(f)
      PROVE  TypeOK'
  BY <1>2, <1>3, <1>6 DEF FinishInit, TypeOK
<1>7. method[Head(f)] \in {"openLog", "appendBlock", "closeLog"} => k \in Logs
  BY <1>1 DEF LinesInv
<1> HIDE DEF k
<1>8. ASSUME FinishOpen(f)
      PROVE  TypeOK'
  <2>1. CASE Throws(f)
    BY <1>3, <2>1
  <2>2. CASE /\ Reply(f, TRUE, len[k]) /\ table' = table \cup {k}
             /\ subscribed' = IF k \in table THEN subscribed ELSE subscribed \cup {k}
             /\ UNCHANGED <<result, runtime, visited, cleared, shut, len>>
    <3>1. k \in Logs
      BY <1>7, <1>8 DEF FinishOpen, Resumes
    <3> QED
      BY <1>1, <1>2, <2>2, <3>1 DEF TypeOK
  <2> QED
    BY <1>8, <2>1, <2>2 DEF FinishOpen, k
<1>9. ASSUME AppendBlock(f)
      PROVE  TypeOK'
  <2>1. CASE Throws(f)
    BY <1>3, <2>1
  <2>2. CASE /\ len' = [len EXCEPT ![k] = @ + 1]
             /\ result' = [result EXCEPT ![Head(f)] = len[k] + 1]
             /\ toParent' = Grown(k)
             /\ UNCHANGED <<requests, answers, toChild, ended, up, feeds, begun, child, missed>>
    <3>1. k \in Logs
      BY <1>7, <1>9 DEF AppendBlock, Resumes
    <3>2. toParent' \in Seq(Line)
      BY <2>2, <3>1, GrownTypes
    <3>3. len' \in [Logs -> Nat] /\ result' \in [CallIds -> Nat]
      BY <1>1, <2>2, <3>1 DEF TypeOK
    <3> QED
      BY <2>2, <3>2, <3>3 DEF TypeOK, requests, answers, child
  <2> QED
    BY <1>9, <2>1, <2>2 DEF AppendBlock, k
<1>10. ASSUME FinishAppend(f) \/ FinishAsk(f)
       PROVE  TypeOK'
  <2>1. PICK ok \in BOOLEAN, n \in Nat : Reply(f, ok, n) /\ UNCHANGED <<result, child, len>>
    <3>1. result[Head(f)] \in Nat /\ 0 \in Nat
      BY <1>1
    <3> QED
      BY <1>10, <3>1 DEF FinishAppend, FinishAsk, AppendResult
  <2> QED
    BY <1>2, <2>1 DEF TypeOK, child
<1>11. ASSUME FinishCloseLog(f)
       PROVE  TypeOK'
  <2>1. k \in Logs
    BY <1>7, <1>11 DEF FinishCloseLog, Resumes
  <2>2. CASE Throws(f)
    BY <1>2, <2>2 DEF Throws, TypeOK, child
  <2>3. CASE /\ Reply(f, TRUE, 0) /\ shut' = shut \cup {k} /\ table' = table \ {k}
             /\ UNCHANGED <<result, runtime, subscribed, visited, cleared, len>>
    BY <1>2, <2>1, <2>3 DEF TypeOK
  <2> QED
    BY <1>11, <2>2, <2>3 DEF FinishCloseLog, k
<1>12. ASSUME ShutLog(f) \/ ClearTable(f)
       PROVE  TypeOK'
  <2>1. /\ begun' = begun \cup {Head(f)} /\ runtime' = runtime /\ cleared' \in BOOLEAN
        /\ table' \subseteq Logs /\ subscribed' \subseteq Logs /\ visited' \subseteq Logs
        /\ shut' \subseteq Logs
        /\ UNCHANGED <<requests, answers, toChild, toParent, ended, up, feeds, result, len, missed>>
    BY <1>12 DEF ShutLog, ClearTable, Shutting, TypeOK
  <2> QED
    BY <1>1, <2>1 DEF TypeOK, requests, answers
<1>13. ASSUME FinishShutdown(f)
       PROVE  TypeOK'
  BY <1>2, <1>13 DEF FinishShutdown, TypeOK
<1> QED
  BY <1>5, <1>6, <1>8, <1>9, <1>10, <1>11, <1>12, <1>13 DEF Handle

LEMMA TypeNext ==
    ASSUME TypeOK, HandsInv, LinesInv, HandlesInv, [Next]_vars
    PROVE  TypeOK'
<1>1. ASSUME NEW m \in Methods, NEW k \in Logs \cup {NoLog}, NEW h \in CallIds \cup {NoCall},
             Rpc(m, k, h)
      PROVE  TypeOK'
  BY <1>1, RpcTypes
<1>2. CASE Ready \/ Ask \/ CloseRuntime
  <2>1. ASSUME ended' = TRUE,
               UNCHANGED <<requests, answers, toChild, toParent, up, feeds, begun, result, child,
                           len, missed>>
        PROVE  TypeOK'
    BY <2>1 DEF TypeOK, requests, answers, child
  <2> QED
    BY <1>1, <1>2, <2>1 DEF Ready, Ask, CloseRuntime, Methods
<1>3. ASSUME NEW k \in Logs, OpenLog(k)
      PROVE  TypeOK'
  BY <1>1, <1>3 DEF OpenLog, Methods
<1>4. ASSUME NEW h \in CallIds, OnHandle(h)
      PROVE  TypeOK'
  BY <1>1, <1>4 DEF OnHandle, Methods, TypeOK
<1>5. CASE ParentReads
  BY <1>5, ReadTypes
<1>6. CASE ExitSeen
  <2>1. settled' \in [CallIds -> {"unmade", "pending", "resolved", "rejected"}]
    BY <1>6 DEF ExitSeen, TypeOK
  <2> QED
    BY <1>6, <2>1 DEF ExitSeen, TypeOK, requests, child
<1>7. CASE ChildReads
  <2>1. PICK n \in 1..Len(toChild) : /\ feeds' = feeds \cup {SubSeq(toChild, 1, n)}
                                     /\ toChild' = SubSeq(toChild, n + 1, Len(toChild))
    BY <1>7 DEF ChildReads
  <2>2. toChild \in Seq(CallIds) /\ Len(toChild) \in Nat /\ n \in Nat
    BY DEF TypeOK
  <2>3. SubSeq(toChild, 1, n) \in Seq(CallIds) /\ SubSeq(toChild, n + 1, Len(toChild)) \in Seq(CallIds)
    BY <2>2, SubSeqSeq
  <2> QED
    BY <1>7, <2>1, <2>3 DEF ChildReads, TypeOK, requests, answers, child
<1>8. CASE Exit
  <2>1. PICK n \in 0..Len(toParent) : toParent' = SubSeq(toParent, 1, n)
    BY <1>8 DEF Exit
  <2>2. toParent' \in Seq(Line)
    BY <2>1, SubSeqSeq DEF TypeOK
  <2> QED
    BY <1>8, <2>2 DEF Exit, TypeOK, requests, answers, child
<1>9. ASSUME NEW k \in Logs, Replicated(k)
      PROVE  TypeOK'
  <2>1. toParent' \in Seq(Line) /\ len' \in [Logs -> Nat]
    BY <1>9, GrownTypes DEF Replicated, TypeOK
  <2> QED
    BY <1>9, <2>1 DEF Replicated, TypeOK, requests, answers, child
<1>10. ASSUME NEW f \in feeds, Handle(f) \/ FinishAsk(f)
       PROVE  TypeOK'
  BY <1>10, HandleTypes
<1>11. CASE UNCHANGED vars
  BY <1>11 DEF vars, TypeOK, requests, answers, child
<1> QED
  BY <1>2, <1>3, <1>4, <1>5, <1>6, <1>7, <1>8, <1>9, <1>10, <1>11 DEF Next

-----------------------------------------------------------------------------
(* The child's hands and the lines it sends. *)

\* Where lines are, once one is added.
LEMMA OneMore ==
    ASSUME NEW q, NEW p, NEW x, Len(q) \in Nat, Len(p) = Len(q) + 1,
           \A n \in 1..Len(q) : p[n] = q[n], p[Len(q) + 1] = x
    PROVE  /\ RepliesIn(p) = IF x.kind = "reply" THEN RepliesIn(q) \cup {Len(q) + 1}
                             ELSE RepliesIn(q)
           /\ \A i : RepliesTo(p, i) =
                IF x.kind = "reply" /\ x.call = i THEN RepliesTo(q, i) \cup {Len(q) + 1}
                ELSE RepliesTo(q, i)
           /\ \A k : EventsIn(p, k) =
                IF IsEvent(x, k) THEN EventsIn(q, k) \cup {Len(q) + 1} ELSE EventsIn(q, k)
           /\ \A k : OpensIn(p, k) =
                IF x.kind = "reply" /\ x.ok /\ method[x.call] = "openLog" /\ log[x.call] = k
                THEN OpensIn(q, k) \cup {Len(q) + 1} ELSE OpensIn(q, k)
           /\ \A k : AppendsIn(p, k) =
                IF x.kind = "reply" /\ x.ok /\ method[x.call] = "appendBlock" /\ log[x.call] = k
                THEN AppendsIn(q, k) \cup {Len(q) + 1} ELSE AppendsIn(q, k)
<1>2. \A n : n \in 1..Len(p) <=> n \in 1..Len(q) \/ n = Len(q) + 1
  OBVIOUS
<1>3. \A n : n \in RepliesIn(p) <=>
        n \in RepliesIn(q) \/ (n = Len(q) + 1 /\ x.kind = "reply")
  BY <1>2 DEF RepliesIn
<1>4. \A n \in RepliesIn(q) : p[n] = q[n]
  BY DEF RepliesIn
<1>5. RepliesIn(p) = IF x.kind = "reply" THEN RepliesIn(q) \cup {Len(q) + 1} ELSE RepliesIn(q)
  BY <1>3
<1>6. \A i : RepliesTo(p, i) =
                IF x.kind = "reply" /\ x.call = i THEN RepliesTo(q, i) \cup {Len(q) + 1}
                ELSE RepliesTo(q, i)
  BY <1>3, <1>4 DEF RepliesTo
<1>7. \A k : EventsIn(p, k) =
                IF IsEvent(x, k) THEN EventsIn(q, k) \cup {Len(q) + 1} ELSE EventsIn(q, k)
  BY <1>2 DEF EventsIn
<1>8. \A k : OpensIn(p, k) =
                IF x.kind = "reply" /\ x.ok /\ method[x.call] = "openLog" /\ log[x.call] = k
                THEN OpensIn(q, k) \cup {Len(q) + 1} ELSE OpensIn(q, k)
  BY <1>3, <1>4 DEF OpensIn
<1>9. \A k : AppendsIn(p, k) =
                IF x.kind = "reply" /\ x.ok /\ method[x.call] = "appendBlock" /\ log[x.call] = k
                THEN AppendsIn(q, k) \cup {Len(q) + 1} ELSE AppendsIn(q, k)
  BY <1>3, <1>4 DEF AppendsIn
<1> QED
  BY <1>5, <1>6, <1>7, <1>8, <1>9

LEMMA AddedLine ==
    ASSUME NEW q \in Seq(Line), NEW x \in Line
    PROVE  LET p == Append(q, x) IN
           /\ p \in Seq(Line) /\ Len(q) \in Nat /\ Len(p) = Len(q) + 1
           /\ \A n \in 1..Len(q) : p[n] = q[n]
           /\ p[Len(q) + 1] = x
           /\ RepliesIn(p) = IF x.kind = "reply" THEN RepliesIn(q) \cup {Len(q) + 1}
                             ELSE RepliesIn(q)
           /\ \A i : RepliesTo(p, i) =
                IF x.kind = "reply" /\ x.call = i THEN RepliesTo(q, i) \cup {Len(q) + 1}
                ELSE RepliesTo(q, i)
           /\ \A k : EventsIn(p, k) =
                IF IsEvent(x, k) THEN EventsIn(q, k) \cup {Len(q) + 1} ELSE EventsIn(q, k)
           /\ \A k : OpensIn(p, k) =
                IF x.kind = "reply" /\ x.ok /\ method[x.call] = "openLog" /\ log[x.call] = k
                THEN OpensIn(q, k) \cup {Len(q) + 1} ELSE OpensIn(q, k)
           /\ \A k : AppendsIn(p, k) =
                IF x.kind = "reply" /\ x.ok /\ method[x.call] = "appendBlock" /\ log[x.call] = k
                THEN AppendsIn(q, k) \cup {Len(q) + 1} ELSE AppendsIn(q, k)
<1> DEFINE p == Append(q, x)
<1>1. /\ p \in Seq(Line) /\ Len(q) \in Nat /\ Len(p) = Len(q) + 1
      /\ \A n \in 1..Len(q) : p[n] = q[n]
      /\ p[Len(q) + 1] = x
  BY AppendProperties
<1> HIDE DEF p
<1> SUFFICES /\ p \in Seq(Line) /\ Len(q) \in Nat /\ Len(p) = Len(q) + 1
             /\ \A n \in 1..Len(q) : p[n] = q[n]
             /\ p[Len(q) + 1] = x
             /\ RepliesIn(p) = IF x.kind = "reply" THEN RepliesIn(q) \cup {Len(q) + 1}
                               ELSE RepliesIn(q)
             /\ \A i : RepliesTo(p, i) =
                  IF x.kind = "reply" /\ x.call = i THEN RepliesTo(q, i) \cup {Len(q) + 1}
                  ELSE RepliesTo(q, i)
             /\ \A k : EventsIn(p, k) =
                  IF IsEvent(x, k) THEN EventsIn(q, k) \cup {Len(q) + 1} ELSE EventsIn(q, k)
             /\ \A k : OpensIn(p, k) =
                  IF x.kind = "reply" /\ x.ok /\ method[x.call] = "openLog" /\ log[x.call] = k
                  THEN OpensIn(q, k) \cup {Len(q) + 1} ELSE OpensIn(q, k)
             /\ \A k : AppendsIn(p, k) =
                  IF x.kind = "reply" /\ x.ok /\ method[x.call] = "appendBlock" /\ log[x.call] = k
                  THEN AppendsIn(q, k) \cup {Len(q) + 1} ELSE AppendsIn(q, k)
  BY DEF p
<1> QED
  BY <1>1, OneMore

\* A request is answered: it is in nobody's hands any more.
LEMMA ReplyHands ==
    ASSUME TypeOK, HandsInv, NEW f \in feeds, NEW ok, NEW n, Reply(f, ok, n)
    PROVE  /\ HandsInv'
           /\ \A i : Asked(i)' <=> Asked(i) /\ i # Head(f)
<1>2. /\ f \in Seq(CallIds) /\ Len(f) \in Nat /\ Len(f) >= 1 /\ Head(f) = f[1] /\ Asked(f[1])
      /\ f # <<>>
  BY HeadFacts DEF HandsInv
<1> DEFINE t == Tail(f)
<1>1. /\ feeds' = (feeds \ {f}) \cup (IF Len(f) > 1 THEN {t} ELSE {})
      /\ begun' = begun \ {Head(f)} /\ toChild' = toChild /\ made' = made
  BY DEF Reply, requests
<1>3. ASSUME Len(f) > 1
      PROVE  /\ Len(t) = Len(f) - 1 /\ t # <<>>
             /\ \A m \in 1..Len(t) : t[m] = f[m + 1] /\ m + 1 \in 1..Len(f) /\ m + 1 # 1
  <2>1. t \in Seq(CallIds) /\ Len(t) = Len(f) - 1 /\ \A m \in 1..Len(t) : t[m] = f[m + 1]
    BY <1>2, HeadTailProperties
  <2> HIDE DEF t
  <2>2. t # <<>>
    BY <1>2, <1>3, <2>1
  <2>3. \A m \in 1..Len(t) : m + 1 \in 1..Len(f) /\ m + 1 # 1
    BY <1>2, <2>1
  <2> QED
    BY <2>1, <2>2, <2>3
<1> HIDE DEF t
<1>4. \A g \in feeds' : (g \in feeds /\ g # f) \/ (Len(f) > 1 /\ g = t)
  <2>1. CASE Len(f) > 1
    <3>1. feeds' = (feeds \ {f}) \cup {t}
      BY <1>1, <2>1
    <3> QED
      BY <2>1, <3>1
  <2>2. CASE ~(Len(f) > 1)
    <3>1. feeds' = feeds \ {f}
      BY <1>1, <2>2
    <3> QED
      BY <3>1
  <2> QED
    BY <2>1, <2>2
<1>5. \A g \in feeds : g # f => g \in feeds'
  BY <1>1
<1>6. Len(f) > 1 => t \in feeds'
  BY <1>1
<1>7. /\ \A g \in feeds : g # <<>> /\ \A a, b \in 1..Len(g) : g[a] = g[b] => a = b
      /\ \A g, h \in feeds : \A a \in 1..Len(g), b \in 1..Len(h) : g[a] = h[b] => g = h
      /\ \A g \in feeds : \A a \in 1..Len(g), b \in 1..Len(toChild) : g[a] # toChild[b]
  BY DEF HandsInv
<1>8. ASSUME NEW g \in feeds'
      PROVE  g # <<>> /\ \A a, b \in 1..Len(g) : g[a] = g[b] => a = b
  <2>1. CASE g \in feeds
    BY <1>7, <2>1
  <2>2. CASE Len(f) > 1 /\ g = t
    <3>1. \A a, b \in 1..Len(t) : a + 1 = b + 1 => a = b
      BY <1>2, <1>3, <2>2
    <3> QED
      BY <1>3, <1>7, <2>2, <3>1
  <2> QED
    BY <1>4, <2>1, <2>2
<1>9. ASSUME NEW g \in feeds', NEW h \in feeds', NEW a \in 1..Len(g), NEW b \in 1..Len(h), g[a] = h[b]
      PROVE  g = h
  BY <1>3, <1>4, <1>7, <1>9
<1>10. ASSUME NEW g \in feeds', NEW a \in 1..Len(g), NEW b \in 1..Len(toChild)
       PROVE  g[a] # toChild[b]
  BY <1>3, <1>4, <1>7
<1>11. ASSUME NEW i
       PROVE  Asked(i)' <=> Asked(i) /\ i # Head(f)
  <2>1. ASSUME NEW g \in feeds', NEW a \in 1..Len(g), g[a] = i
        PROVE  Asked(i) /\ i # Head(f)
    <3>1. CASE g \in feeds /\ g # f
      BY <1>2, <1>7, <2>1, <3>1 DEF Asked
    <3>2. CASE Len(f) > 1 /\ g = t
      BY <1>2, <1>3, <1>7, <2>1, <3>2 DEF Asked
    <3> QED
      BY <1>4, <3>1, <3>2
  <2>2. ASSUME NEW a \in 1..Len(toChild), toChild[a] = i
        PROVE  Asked(i) /\ i # Head(f)
    BY <1>2, <1>7, <2>2 DEF Asked
  <2>3. ASSUME NEW g \in feeds, NEW a \in 1..Len(g), g[a] = i, i # Head(f)
        PROVE  Asked(i)'
    <3>1. CASE g # f
      BY <1>5, <2>3, <3>1 DEF Asked
    <3>2. CASE g = f
      <4>1. a \in 2..Len(f) /\ Len(f) > 1
        BY <1>2, <2>3, <3>2
      <4>2. a - 1 \in 1..Len(t) /\ t[a - 1] = f[a]
        BY <1>2, <1>3, <4>1
      <4> QED
        BY <1>6, <2>3, <3>2, <4>1, <4>2 DEF Asked
    <3> QED
      BY <3>1, <3>2
  <2> QED
    BY <1>1, <2>1, <2>2, <2>3 DEF Asked
<1>12. begun' \subseteq {Head(g) : g \in feeds'}
  BY <1>1, <1>5 DEF HandsInv
<1>13. \A i \in CallIds : Asked(i)' => i <= made'
  BY <1>1, <1>11 DEF HandsInv
<1> QED
  BY <1>1, <1>7, <1>8, <1>9, <1>10, <1>11, <1>12, <1>13 DEF HandsInv

\* A request comes to what the child has in hand when it is made.
LEMMA RpcHands ==
    ASSUME TypeOK, HandsInv, made + 1 \in CallIds, made' = made + 1,
           toChild' = Append(toChild, made + 1), UNCHANGED <<feeds, begun>>
    PROVE  /\ HandsInv' /\ ~Asked(made + 1)
           /\ \A i : Asked(i)' <=> Asked(i) \/ i = made + 1
<1> DEFINE j == made + 1
           p == Append(toChild, j)
<1>1. /\ Len(toChild) \in Nat /\ Len(p) = Len(toChild) + 1
      /\ \A n \in 1..Len(toChild) : p[n] = toChild[n]
      /\ p[Len(toChild) + 1] = j
  BY AppendProperties DEF TypeOK
<1>2. made \in Nat /\ ~(j <= made) /\ toChild' = p /\ made' = j /\ j \in CallIds
  BY DEF TypeOK
<1> HIDE DEF p, j
<1>3. ~Asked(j)
  BY <1>2 DEF HandsInv
<1>4. \A n \in 1..Len(toChild) : toChild[n] # j
  BY <1>3 DEF Asked
<1>5. \A g \in feeds : \A n \in 1..Len(g) : g[n] # j
  BY <1>3 DEF Asked
<1>6. \A n : n \in 1..Len(p) <=> n \in 1..Len(toChild) \/ n = Len(toChild) + 1
  BY <1>1
<1>7. \A i : Asked(i)' <=> Asked(i) \/ i = j
  BY <1>1, <1>2, <1>6 DEF Asked
<1>8. \A m, n \in 1..Len(p) : p[m] = p[n] => m = n
  BY <1>1, <1>4, <1>6 DEF HandsInv
<1>9. \A g \in feeds : \A m \in 1..Len(g), n \in 1..Len(p) : g[m] # p[n]
  BY <1>1, <1>5, <1>6 DEF HandsInv
<1>10. \A i \in CallIds : Asked(i)' => i <= j
  <2>1. ASSUME NEW i \in CallIds, Asked(i)
        PROVE  i <= j
    <3>1. i \in Nat /\ i <= made
      BY <2>1, CallFacts DEF HandsInv
    <3> QED
      BY <1>2, <3>1 DEF j
  <2>2. j <= j
    BY <1>2 DEF j
  <2> QED
    BY <1>7, <2>1, <2>2
<1>11. HandsInv'
  BY <1>2, <1>8, <1>9, <1>10 DEF HandsInv
<1> QED
  BY <1>3, <1>7, <1>11 DEF j

\* A chunk that is read stays in hand.
LEMMA ReadsHands ==
    ASSUME TypeOK, HandsInv, ChildReads
    PROVE  HandsInv' /\ \A i : Asked(i)' <=> Asked(i)
<1>1. PICK n \in 1..Len(toChild) : /\ feeds' = feeds \cup {SubSeq(toChild, 1, n)}
                                   /\ toChild' = SubSeq(toChild, n + 1, Len(toChild))
  BY DEF ChildReads
<1>2. made' = made /\ begun' = begun
  BY DEF ChildReads, requests
<1>3. toChild \in Seq(CallIds) /\ Len(toChild) \in Nat /\ n \in Nat /\ n >= 1
  BY DEF TypeOK
<1> DEFINE s == SubSeq(toChild, 1, n)
           p == SubSeq(toChild, n + 1, Len(toChild))
<1>4. /\ Len(s) = n /\ \A m \in 1..n : s[m] = toChild[m]
      /\ Len(p) = Len(toChild) - n /\ \A m \in 1..(Len(toChild) - n) : p[m] = toChild[n + m]
  <2>1. \A m \in 1..Len(toChild) : toChild[m] \in CallIds
    BY <1>3, ElementOfSeq
  <2>2. \A m \in 1..n : toChild[m] \in CallIds
    BY <1>3, <2>1
  <2>3. \A m \in (n + 1)..Len(toChild) : toChild[m] \in CallIds
    BY <1>3, <2>1
  <2> QED
    BY <1>3, <2>2, <2>3, SubSeqProperties
<1>5. feeds' = feeds \cup {s} /\ toChild' = p
  BY <1>1
<1> HIDE DEF s, p
<1>6. s # <<>>
  BY <1>3, <1>4, EmptySeq
<1>7. \A m \in 1..Len(s) : m \in 1..Len(toChild) /\ s[m] = toChild[m] /\ m <= n
  BY <1>3, <1>4
<1>8. \A m \in 1..Len(p) : n + m \in 1..Len(toChild) /\ p[m] = toChild[n + m] /\ ~(n + m <= n)
  BY <1>3, <1>4
<1>9. /\ \A a, b \in 1..Len(toChild) : toChild[a] = toChild[b] => a = b
      /\ \A g \in feeds : g # <<>> /\ \A a, b \in 1..Len(g) : g[a] = g[b] => a = b
      /\ \A g, h \in feeds : \A a \in 1..Len(g), b \in 1..Len(h) : g[a] = h[b] => g = h
      /\ \A g \in feeds : \A a \in 1..Len(g), b \in 1..Len(toChild) : g[a] # toChild[b]
  BY DEF HandsInv
<1>10. \A a, b \in 1..Len(p) : p[a] = p[b] => a = b
  <2>1. \A a, b \in 1..Len(p) : n + a = n + b => a = b
    BY <1>3, <1>4
  <2> QED
    BY <1>8, <1>9, <2>1
<1>11. \A g \in feeds' : g # <<>> /\ \A a, b \in 1..Len(g) : g[a] = g[b] => a = b
  BY <1>5, <1>6, <1>7, <1>9
<1>12. \A g, h \in feeds' : \A a \in 1..Len(g), b \in 1..Len(h) : g[a] = h[b] => g = h
  BY <1>5, <1>7, <1>9
<1>13. \A g \in feeds' : \A a \in 1..Len(g), b \in 1..Len(p) : g[a] # p[b]
  <2>1. \A a \in 1..Len(s), b \in 1..Len(p) : s[a] # p[b]
    BY <1>7, <1>8, <1>9
  <2> QED
    BY <1>5, <1>8, <1>9, <2>1
<1>14. ASSUME NEW i
       PROVE  Asked(i)' <=> Asked(i)
  <2>1. ASSUME NEW a \in 1..Len(toChild), toChild[a] = i
        PROVE  Asked(i)'
    <3>1. CASE a <= n
      <4>1. a \in 1..Len(s) /\ s[a] = i
        BY <1>3, <1>4, <2>1, <3>1
      <4> QED
        BY <1>5, <4>1 DEF Asked
    <3>2. CASE ~(a <= n)
      <4>1. a - n \in 1..Len(p) /\ p[a - n] = i
        BY <1>3, <1>4, <2>1, <3>2
      <4> QED
        BY <1>5, <4>1 DEF Asked
    <3> QED
      BY <3>1, <3>2
  <2>2. Asked(i) => Asked(i)'
    BY <1>5, <2>1 DEF Asked
  <2>3. Asked(i)' => Asked(i)
    BY <1>5, <1>7, <1>8 DEF Asked
  <2> QED
    BY <2>2, <2>3
<1>15. begun' \subseteq {Head(g) : g \in feeds'}
  BY <1>2, <1>5 DEF HandsInv
<1> QED
  BY <1>2, <1>5, <1>10, <1>11, <1>12, <1>13, <1>14, <1>15 DEF HandsInv

\* The child may wait for what is at the head of a chunk.
LEMMA HandsKept ==
    ASSUME HandsInv, UNCHANGED <<toChild, feeds, made>>, begun' \subseteq {Head(f) : f \in feeds}
    PROVE  HandsInv' /\ \A i : Asked(i)' <=> Asked(i)
  BY DEF HandsInv, Asked

\* No line is added, and nothing is settled by a step of the child.
LEMMA LinesKept ==
    ASSUME LinesInv, UNCHANGED <<toParent, made, settled, up, method, log, known>>,
           \A i : Asked(i)' <=> Asked(i), \A i \in CallIds : i > made => result'[i] = result[i]
    PROVE  LinesInv'
<1>1. RepliesIn(toParent)' = RepliesIn(toParent) /\ \A i : RepliesTo(toParent, i)' = RepliesTo(toParent, i)
  BY DEF RepliesIn, RepliesTo
<1> QED
  BY <1>1 DEF LinesInv

\* An event is added.
LEMMA LinesEvent ==
    ASSUME TypeOK, LinesInv, NEW x \in Line, x.kind = "append", toParent' = Append(toParent, x),
           UNCHANGED <<made, settled, up, method, log, known>>,
           \A i : Asked(i)' <=> Asked(i), \A i \in CallIds : i > made => result'[i] = result[i]
    PROVE  LinesInv'
<1>1. /\ toParent \in Seq(Line)
      /\ RepliesIn(toParent') = RepliesIn(toParent)
      /\ \A i : RepliesTo(toParent', i) = RepliesTo(toParent, i)
      /\ \A n \in 1..Len(toParent) : toParent'[n] = toParent[n]
  BY AddedLine DEF TypeOK
<1>2. \A n \in RepliesIn(toParent) : toParent'[n] = toParent[n]
  BY <1>1 DEF RepliesIn
<1>3. \A n \in RepliesIn(toParent') : /\ toParent'[n].call \in 1..made
                                      /\ ~Asked(toParent[n].call)'
                                      /\ RepliesTo(toParent', toParent'[n].call) = {n}
  <2> SUFFICES ASSUME NEW n \in RepliesIn(toParent')
               PROVE  /\ toParent'[n].call \in 1..made
                      /\ ~Asked(toParent[n].call)'
                      /\ RepliesTo(toParent', toParent'[n].call) = {n}
    OBVIOUS
  <2>1. n \in RepliesIn(toParent) /\ toParent'[n] = toParent[n]
    BY <1>1, <1>2
  <2>2. /\ toParent[n].call \in 1..made /\ ~Asked(toParent[n].call)
        /\ RepliesTo(toParent, toParent[n].call) = {n}
    BY <2>1 DEF LinesInv
  <2> QED
    BY <1>1, <2>1, <2>2
<1>4. up => \A i \in CallIds : Asked(i)' \/ RepliesTo(toParent', i) # {} => settled[i] = "pending"
  BY <1>1 DEF LinesInv
<1> QED
  BY <1>3, <1>4 DEF LinesInv

\* An answer is added, to a call that had none.
LEMMA LinesReply ==
    ASSUME TypeOK, HandsInv, LinesInv, up, NEW f \in feeds, NEW ok \in BOOLEAN, NEW n \in Nat,
           Reply(f, ok, n), result' = result
    PROVE  LinesInv'
<1> DEFINE x == [kind |-> "reply", call |-> Head(f), ok |-> ok, log |-> log[Head(f)], length |-> n]
           j == Head(f)
<1>1. x \in Line /\ toParent \in Seq(Line) /\ toParent' = Append(toParent, x)
  BY HeadFacts DEF Reply, TypeOK, Line
<1>2. /\ x.kind = "reply" /\ x.call = j /\ j \in CallIds /\ j \in 1..made /\ Asked(j)
  BY HeadFacts DEF CallIds, TypeOK
<1> HIDE DEF x, j
<1>3. /\ Len(toParent) \in Nat
      /\ RepliesIn(toParent') = RepliesIn(toParent) \cup {Len(toParent) + 1}
      /\ \A i : RepliesTo(toParent', i) =
                    IF j = i THEN RepliesTo(toParent, i) \cup {Len(toParent) + 1}
                    ELSE RepliesTo(toParent, i)
      /\ \A m \in 1..Len(toParent) : toParent'[m] = toParent[m]
      /\ toParent'[Len(toParent) + 1] = x
  BY <1>1, <1>2, AddedLine
<1>4. UNCHANGED <<made, settled, up, method, log, known>>
  BY DEF Reply, requests, answers
<1>5. \A i : Asked(i)' <=> Asked(i) /\ i # j
  BY ReplyHands DEF j
<1>6. RepliesTo(toParent, j) = {}
  BY <1>2 DEF LinesInv, RepliesTo
<1>7. /\ RepliesIn(toParent)' = RepliesIn(toParent) \cup {Len(toParent) + 1}
      /\ \A i : RepliesTo(toParent, i)' =
                    IF j = i THEN {Len(toParent) + 1} ELSE RepliesTo(toParent, i)
      /\ \A m \in RepliesIn(toParent) : toParent'[m] = toParent[m]
  BY <1>3, <1>6 DEF RepliesIn, RepliesTo
<1>8. \A m \in RepliesIn(toParent) : toParent[m].call # j
  BY <1>2 DEF LinesInv
<1>9. \A m \in RepliesIn(toParent)' : /\ toParent'[m].call \in 1..made /\ ~Asked(toParent[m].call)'
                                      /\ RepliesTo(toParent, toParent[m].call)' = {m}
  <2> SUFFICES ASSUME NEW m \in RepliesIn(toParent)'
               PROVE  /\ toParent'[m].call \in 1..made /\ ~Asked(toParent[m].call)'
                      /\ RepliesTo(toParent, toParent[m].call)' = {m}
    OBVIOUS
  <2>1. CASE m \in RepliesIn(toParent)
    <3>1. toParent'[m] = toParent[m] /\ toParent[m].call # j
      BY <1>7, <1>8, <2>1
    <3>2. /\ toParent[m].call \in 1..made /\ ~Asked(toParent[m].call)
          /\ RepliesTo(toParent, toParent[m].call) = {m}
      BY <2>1 DEF LinesInv
    <3> QED
      BY <1>5, <1>7, <3>1, <3>2
  <2>2. CASE m = Len(toParent) + 1
    <3>1. toParent'[m].call = j
      BY <1>2, <1>3, <2>2
    <3>2. ~Asked(j)'
      BY <1>5
    <3> QED
      BY <1>2, <1>7, <2>2, <3>1, <3>2
  <2> QED
    BY <1>7, <2>1, <2>2
<1>10. \A i \in CallIds : Asked(i)' \/ RepliesTo(toParent, i)' # {} => settled[i] = "pending"
  BY <1>2, <1>5, <1>7 DEF LinesInv
<1> QED
  BY <1>4, <1>9, <1>10 DEF LinesInv

\* Where lines are among those that are left when n are read.
LEMMA OneLess ==
    ASSUME NEW q, NEW p, NEW n \in Nat, Len(q) \in Nat, Len(p) \in Nat, Len(p) = Len(q) - n,
           \A m \in 1..Len(p) : n + m \in 1..Len(q) /\ p[m] = q[n + m]
    PROVE  /\ \A m : m \in RepliesIn(p) <=> m \in 1..Len(p) /\ n + m \in RepliesIn(q)
           /\ \A i, m : m \in RepliesTo(p, i) <=> m \in 1..Len(p) /\ n + m \in RepliesTo(q, i)
           /\ \A k, m : m \in EventsIn(p, k) <=> m \in 1..Len(p) /\ n + m \in EventsIn(q, k)
           /\ \A k, m : m \in OpensIn(p, k) <=> m \in 1..Len(p) /\ n + m \in OpensIn(q, k)
           /\ \A k, m : m \in AppendsIn(p, k) <=> m \in 1..Len(p) /\ n + m \in AppendsIn(q, k)
<1>1. \A m : m \in RepliesIn(p) <=> m \in 1..Len(p) /\ n + m \in RepliesIn(q)
  BY DEF RepliesIn
<1>2. \A k, m : m \in EventsIn(p, k) <=> m \in 1..Len(p) /\ n + m \in EventsIn(q, k)
  BY DEF EventsIn
<1>3. \A m \in RepliesIn(p) : p[m] = q[n + m]
  BY DEF RepliesIn
<1> QED
  BY <1>1, <1>2, <1>3 DEF RepliesTo, OpensIn, AppendsIn

LEMMA LeftLines ==
    ASSUME TypeOK, NEW n \in 1..Len(toParent), ReadTo(n)
    PROVE  LET q == toParent p == toParent' IN
           /\ n \in Nat /\ Len(q) \in Nat /\ Len(p) \in Nat
           /\ \A m \in 1..Len(p) : n + m \in 1..Len(q) /\ p[m] = q[n + m]
           /\ \A m \in 1..Len(q) : m > n => m - n \in 1..Len(p) /\ n + (m - n) = m
           /\ \A m \in 1..Len(p) : ~(n + m <= n)
           /\ \A m : m \in RepliesIn(p) <=> m \in 1..Len(p) /\ n + m \in RepliesIn(q)
           /\ \A i, m : m \in RepliesTo(p, i) <=> m \in 1..Len(p) /\ n + m \in RepliesTo(q, i)
           /\ \A k, m : m \in EventsIn(p, k) <=> m \in 1..Len(p) /\ n + m \in EventsIn(q, k)
           /\ \A k, m : m \in OpensIn(p, k) <=> m \in 1..Len(p) /\ n + m \in OpensIn(q, k)
           /\ \A k, m : m \in AppendsIn(p, k) <=> m \in 1..Len(p) /\ n + m \in AppendsIn(q, k)
<1> DEFINE p == SubSeq(toParent, n + 1, Len(toParent))
<1>1. /\ toParent \in Seq(Line) /\ Len(toParent) \in Nat /\ n \in Nat
      /\ \A m \in 1..Len(toParent) : toParent[m] \in Line
  BY ElementOfSeq DEF TypeOK
<1>2. \A m \in (n + 1)..Len(toParent) : m \in 1..Len(toParent)
  BY <1>1
<1>3. /\ Len(p) = Len(toParent) - n
      /\ \A m \in 1..(Len(toParent) - n) : p[m] = toParent[n + m]
  BY <1>1, <1>2, SubSeqProperties
<1>4. toParent' = p
  BY DEF ReadTo
<1> HIDE DEF p
<1>5. Len(p) \in Nat
  BY <1>1, <1>3
<1>6. \A m \in 1..Len(p) : n + m \in 1..Len(toParent) /\ p[m] = toParent[n + m] /\ ~(n + m <= n)
  BY <1>1, <1>3
<1>7. \A m \in 1..Len(toParent) : m > n => m - n \in 1..Len(p) /\ n + (m - n) = m
  BY <1>1, <1>3
<1> QED
  BY <1>1, <1>3, <1>4, <1>5, <1>6, <1>7, OneLess

\* A call is settled by its answer, whatever else is read.
LEMMA LinesRead ==
    ASSUME TypeOK, LinesInv, NEW n \in 1..Len(toParent), ReadTo(n)
    PROVE  LinesInv'
<1>1. UNCHANGED <<made, method, log, up, toChild, feeds, result>> /\ \A i \in CallIds : SettledBy(n, i) /\ KnownBy(n, i)
  BY DEF ReadTo, requests
<1>2. /\ \A m : m \in RepliesIn(toParent') <=> m \in 1..Len(toParent') /\ n + m \in RepliesIn(toParent)
      /\ \A i, m : m \in RepliesTo(toParent', i) <=>
            m \in 1..Len(toParent') /\ n + m \in RepliesTo(toParent, i)
      /\ \A m \in 1..Len(toParent') : toParent'[m] = toParent[n + m] /\ ~(n + m <= n)
      /\ \A m, o \in 1..Len(toParent') : n + m = n + o => m = o
  BY LeftLines
<1>3. \A i : Asked(i)' <=> Asked(i)
  BY <1>1 DEF Asked
<1>4. ASSUME NEW m \in RepliesIn(toParent')
      PROVE  /\ toParent'[m].call \in 1..made /\ ~Asked(toParent[m].call)'
             /\ RepliesTo(toParent', toParent'[m].call) = {m}
  <2>1. m \in 1..Len(toParent') /\ n + m \in RepliesIn(toParent) /\ toParent'[m] = toParent[n + m]
    BY <1>2
  <2>2. /\ toParent[n + m].call \in 1..made /\ ~Asked(toParent[n + m].call)
        /\ RepliesTo(toParent, toParent[n + m].call) = {n + m}
    BY <2>1 DEF LinesInv
  <2>3. RepliesTo(toParent', toParent'[m].call) = {m}
    BY <1>2, <2>1, <2>2
  <2> QED
    BY <1>3, <2>1, <2>2, <2>3
<1>5. ASSUME up, NEW i \in CallIds, Asked(i) \/ RepliesTo(toParent', i) # {}
      PROVE  settled'[i] = "pending"
  <2>1. settled[i] = "pending"
    BY <1>2, <1>5 DEF LinesInv
  <2>2. ASSUME NEW o \in RepliesTo(toParent, i), o <= n
        PROVE  FALSE
    <3>1. RepliesTo(toParent, i) = {o} /\ ~Asked(i)
      BY DEF LinesInv, RepliesTo
    <3> QED
      BY <1>2, <1>5, <2>2, <3>1
  <2> QED
    BY <1>1, <2>1, <2>2 DEF SettledBy
<1>6. ASSUME NEW i \in CallIds, i > made
      PROVE  settled'[i] = "unmade" /\ known'[i] = NoObject
  <2>1. \A o \in RepliesTo(toParent, i) : i \in 1..made
    BY DEF LinesInv, RepliesTo
  <2>2. RepliesTo(toParent, i) = {}
    BY <1>6, <2>1, CallFacts DEF TypeOK
  <2> QED
    BY <1>1, <1>6, <2>2 DEF SettledBy, KnownBy, LinesInv
<1> QED
  BY <1>1, <1>3, <1>4, <1>5, <1>6 DEF LinesInv

\* What a child that dies had sent, the parent may still read.
LEMMA FewerLines ==
    ASSUME TypeOK, NEW n \in 0..Len(toParent), toParent' = SubSeq(toParent, 1, n)
    PROVE  LET q == toParent p == toParent' IN
           /\ \A m \in RepliesIn(p) : m \in RepliesIn(q) /\ p[m] = q[m]
           /\ \A i : RepliesTo(p, i) \subseteq RepliesTo(q, i)
<1> DEFINE p == SubSeq(toParent, 1, n)
<1>1. /\ toParent \in Seq(Line) /\ Len(toParent) \in Nat /\ n \in Nat
      /\ \A m \in 1..Len(toParent) : toParent[m] \in Line
  BY ElementOfSeq DEF TypeOK
<1>2. \A m \in 1..n : m \in 1..Len(toParent)
  BY <1>1
<1>3. Len(p) = n /\ \A m \in 1..n : p[m] = toParent[m]
  BY <1>1, <1>2, SubSeqProperties
<1>4. toParent' = p
  OBVIOUS
<1> HIDE DEF p
<1>5. \A m \in RepliesIn(p) : m \in RepliesIn(toParent) /\ p[m] = toParent[m]
  BY <1>2, <1>3 DEF RepliesIn
<1> QED
  BY <1>4, <1>5 DEF RepliesTo

LEMMA LinesExit ==
    ASSUME TypeOK, LinesInv, Exit
    PROVE  LinesInv'
<1>1. PICK n \in 0..Len(toParent) : toParent' = SubSeq(toParent, 1, n)
  BY DEF Exit
<1>2. /\ ~up' /\ UNCHANGED <<made, method, log, settled, known, result>>
      /\ \A i : Asked(i)' <=> Asked(i)
  BY DEF Exit, requests, answers, Asked
<1>3. /\ \A m \in RepliesIn(toParent') : m \in RepliesIn(toParent) /\ toParent'[m] = toParent[m]
      /\ \A i : RepliesTo(toParent', i) \subseteq RepliesTo(toParent, i)
  BY <1>1, FewerLines
<1>4. ASSUME NEW m \in RepliesIn(toParent')
      PROVE  /\ toParent'[m].call \in 1..made /\ ~Asked(toParent[m].call)'
             /\ RepliesTo(toParent', toParent'[m].call) = {m}
  <2>1. m \in RepliesIn(toParent) /\ toParent'[m] = toParent[m]
    BY <1>3
  <2>2. /\ toParent[m].call \in 1..made /\ ~Asked(toParent[m].call)
        /\ RepliesTo(toParent, toParent[m].call) = {m}
    BY <2>1 DEF LinesInv
  <2>3. m \in RepliesTo(toParent', toParent'[m].call)
    BY DEF RepliesTo
  <2> QED
    BY <1>2, <1>3, <2>1, <2>2, <2>3
<1> QED
  BY <1>2, <1>4 DEF LinesInv

LEMMA LinesExitSeen ==
    ASSUME TypeOK, LinesInv, ExitSeen
    PROVE  LinesInv'
<1>1. /\ ~up /\ UNCHANGED <<made, method, log, known, result, toParent, up>>
      /\ \A i : Asked(i)' <=> Asked(i)
      /\ \A i \in CallIds : settled[i] = "unmade" => settled'[i] = "unmade"
  BY DEF ExitSeen, requests, Asked, TypeOK
<1> QED
  BY <1>1 DEF LinesInv

LEMMA LinesRpc ==
    ASSUME TypeOK, HandsInv, LinesInv, NEW m \in Methods, NEW k \in Logs \cup {NoLog},
           NEW h \in CallIds \cup {NoCall}, Rpc(m, k, h),
           m \in {"openLog", "appendBlock", "closeLog"} => k \in Logs
    PROVE  /\ HandsInv' /\ LinesInv'
           /\ made + 1 \in CallIds /\ made' = made + 1 /\ made \in Nat
           /\ method'[made + 1] = m /\ log'[made + 1] = k /\ via'[made + 1] = h
           /\ settled'[made + 1] = "pending" /\ ~Asked(made + 1)
           /\ method[made + 1] = "none" /\ known[made + 1] = NoObject /\ result[made + 1] = 0
           /\ \A i : Asked(i)' <=> Asked(i) \/ i = made + 1
           /\ \A i \in CallIds : i # made + 1 =>
                /\ method'[i] = method[i] /\ log'[i] = log[i] /\ via'[i] = via[i]
                /\ settled'[i] = settled[i]
           /\ \A n \in RepliesIn(toParent) : toParent[n].call \in CallIds /\ toParent[n].call # made + 1
<1> DEFINE j == made + 1
<1>1. j \in CallIds /\ made' = j /\ made \in Nat /\ j > made
  <2>1. j \in CallIds /\ made' = j
    BY RpcTypes DEF Rpc
  <2>2. made \in Nat
    BY CallsAssumption DEF TypeOK
  <2> QED
    BY <2>1, <2>2
<1>2. /\ HandsInv' /\ ~Asked(j)
      /\ \A i : Asked(i)' <=> Asked(i) \/ i = j
  BY <1>1, RpcHands DEF Rpc
<1>3. /\ method'[j] = m /\ log'[j] = k /\ via'[j] = h /\ settled'[j] = "pending"
      /\ \A i \in CallIds : i # j =>
            /\ method'[i] = method[i] /\ log'[i] = log[i] /\ via'[i] = via[i]
            /\ settled'[i] = settled[i]
  BY <1>1 DEF Rpc, TypeOK
<1>4. UNCHANGED <<toParent, up, known, result>>
  BY DEF Rpc
<1>5. method[j] = "none" /\ known[j] = NoObject /\ result[j] = 0
  BY <1>1 DEF LinesInv
<1>6. ASSUME NEW n \in RepliesIn(toParent)
      PROVE  toParent[n].call \in CallIds /\ toParent[n].call \in 1..made /\ toParent[n].call # j
  <2>1. toParent[n].call \in 1..made
    BY DEF LinesInv
  <2>2. made <= MaxCalls
    BY CallsAssumption DEF TypeOK
  <2>3. \A c \in 1..made : c \in CallIds /\ c # j
    BY <1>1, <2>2, CallsAssumption DEF CallIds
  <2> QED
    BY <2>1, <2>3
<1>7. \A n : n \in 1..made => n \in 1..j
  BY <1>1
<1>8. \A i \in CallIds : i > j => i > made /\ i # j
  BY <1>1, CallFacts
<1>9. RepliesTo(toParent, j) = {}
  BY <1>6 DEF RepliesTo
<1> HIDE DEF j
<1>10. LinesInv'
  <2>1. \A n \in RepliesIn(toParent) :
            /\ toParent[n].call \in 1..j /\ ~Asked(toParent[n].call)'
            /\ RepliesTo(toParent, toParent[n].call) = {n}
    <3> SUFFICES ASSUME NEW n \in RepliesIn(toParent)
                 PROVE  /\ toParent[n].call \in 1..j /\ ~Asked(toParent[n].call)'
                        /\ RepliesTo(toParent, toParent[n].call) = {n}
      BY <1>4
    <3>1. ~Asked(toParent[n].call) /\ RepliesTo(toParent, toParent[n].call) = {n}
      BY DEF LinesInv
    <3>2. toParent'[n].call = toParent[n].call
      BY <1>4
    <3> QED
      BY <1>2, <1>6, <1>7, <3>1, <3>2
  <2>2. up => \A i \in CallIds : Asked(i)' \/ RepliesTo(toParent, i) # {} => settled'[i] = "pending"
    BY <1>2, <1>3, <1>9 DEF LinesInv
  <2>3. \A i \in CallIds : i > j =>
            method'[i] = "none" /\ settled'[i] = "unmade" /\ known[i] = NoObject /\ result[i] = 0
    BY <1>3, <1>8 DEF LinesInv
  <2>4. \A i \in CallIds : method'[i] \in {"openLog", "appendBlock", "closeLog"} => log'[i] \in Logs
    BY <1>3 DEF LinesInv
  <2> QED
    BY <1>1, <1>4, <2>1, <2>2, <2>3, <2>4 DEF LinesInv
<1> QED
  BY <1>1, <1>2, <1>3, <1>5, <1>6, <1>10 DEF j

-----------------------------------------------------------------------------
(* The numbers of appends. *)

LEMMA AppendsKept ==
    ASSUME AppendsInv,
           UNCHANGED <<writable, method, log, via, result, known, settled, value, len, toParent>>,
           \A i : Asked(i)' <=> Asked(i), begun \subseteq begun',
           \A i \in begun' : i \in begun \/ result[i] = 0 \/ method[i] # "appendBlock"
    PROVE  AppendsInv'
<1>1. \A k : HandlesOf(k)' = HandlesOf(k) /\ InFlight(k)' = InFlight(k)
  BY DEF HandlesOf, InFlight
<1>2. RepliesIn(toParent)' = RepliesIn(toParent)
  OBVIOUS
<1> QED
  BY <1>1, <1>2 DEF AppendsInv

\* The answer to an append carries what it returned, and the last block's append
\* is the last to be answered.
LEMMA AppendsReply ==
    ASSUME TypeOK, HandsInv, LinesInv, AppendsInv, NEW f \in feeds, NEW ok \in BOOLEAN, NEW n \in Nat,
           Reply(f, ok, n), UNCHANGED <<result, len>>,
           method[Head(f)] = "appendBlock" =>
            IF ok THEN /\ n = result[Head(f)] /\ n # 0
                       /\ \A j \in begun : log[j] = log[Head(f)] /\ result[j] # 0 =>
                            result[Head(f)] <= result[j]
            ELSE result[Head(f)] = 0
    PROVE  AppendsInv'
<1> DEFINE x == [kind |-> "reply", call |-> Head(f), ok |-> ok, log |-> log[Head(f)], length |-> n]
           i == Head(f)
<1>1. x \in Line /\ toParent \in Seq(Line) /\ toParent' = Append(toParent, x)
  BY HeadFacts DEF Reply, TypeOK, Line
<1>2. x.kind = "reply" /\ x.call = i /\ x.ok = ok /\ x.length = n /\ i \in CallIds
  BY HeadFacts
<1>3. UNCHANGED <<writable, method, log, via, known, settled, value, result, len>> /\ begun' = begun \ {i}
  BY DEF Reply, requests, answers
<1>4. \A c : Asked(c)' <=> Asked(c) /\ c # i
  BY ReplyHands
<1> HIDE DEF x, i
<1>5. /\ RepliesIn(toParent') = RepliesIn(toParent) \cup {Len(toParent) + 1}
      /\ \A m \in 1..Len(toParent) : toParent'[m] = toParent[m]
      /\ toParent'[Len(toParent) + 1] = x
  BY <1>1, <1>2, AddedLine
<1>6. \A m \in RepliesIn(toParent)' :
        \/ m \in RepliesIn(toParent) /\ toParent'[m] = toParent[m]
        \/ m = Len(toParent) + 1 /\ toParent'[m] = x
  BY <1>5 DEF RepliesIn
<1>7. \A k : HandlesOf(k)' = HandlesOf(k) /\ InFlight(k)' = InFlight(k) \ {i}
  BY <1>3 DEF HandlesOf, InFlight
<1>8. \A m \in RepliesIn(toParent)' : method[toParent'[m].call] = "appendBlock" =>
        IF toParent'[m].ok
        THEN toParent'[m].length = result[toParent'[m].call] /\ toParent'[m].length # 0
        ELSE result[toParent'[m].call] = 0
  BY <1>2, <1>6 DEF AppendsInv, i
<1>9. ASSUME NEW k \in Logs, NEW j \in InFlight(k), j # i
      PROVE  \E c \in InFlight(k) \ {i} : result[c] = len[k]
  <2>1. PICK c \in InFlight(k) : result[c] = len[k]
    BY DEF AppendsInv
  <2>2. CASE c = i
    <3>1. result[i] <= result[j]
      BY <2>2, AppendsInv DEF InFlight, i
    <3>2. result[j] <= len[k] /\ result[j] \in Nat /\ len[k] \in Nat
      BY DEF AppendsInv, InFlight, TypeOK
    <3>3. result[j] = len[k]
      BY <2>1, <2>2, <3>1, <3>2
    <3> QED
      BY <1>9, <3>3
  <2> QED
    BY <2>1, <2>2
<1>10. \A k \in Logs : InFlight(k)' # {} => \E c \in InFlight(k)' : result[c] = len[k]
  BY <1>7, <1>9
<1>11. \A c \in CallIds : result[c] # 0 => c \in begun' \/ ~Asked(c)'
  BY <1>3, <1>4 DEF AppendsInv
<1> QED
  BY <1>3, <1>7, <1>8, <1>10, <1>11 DEF AppendsInv

LEMMA AppendsRpc ==
    ASSUME TypeOK, HandsInv, LinesInv, AppendsInv, NEW m \in Methods, NEW k \in Logs \cup {NoLog},
           NEW h \in CallIds \cup {NoCall}, Rpc(m, k, h),
           m \in {"openLog", "appendBlock", "closeLog"} => k \in Logs,
           m = "appendBlock" => k \in writable /\ h \in HandlesOf(k)
    PROVE  AppendsInv'
<1> DEFINE j == made + 1
<1>1. /\ method'[j] = m /\ log'[j] = k /\ via'[j] = h /\ settled'[j] = "pending"
      /\ known[j] = NoObject /\ result[j] = 0 /\ j \in CallIds /\ ~Asked(j)
      /\ \A i : Asked(i)' <=> Asked(i) \/ i = j
      /\ \A i \in CallIds : i # j =>
            /\ method'[i] = method[i] /\ log'[i] = log[i] /\ via'[i] = via[i]
            /\ settled'[i] = settled[i]
      /\ \A n \in RepliesIn(toParent) : toParent[n].call \in CallIds /\ toParent[n].call # j
  BY LinesRpc
<1>2. UNCHANGED <<writable, value, known, result, len, toParent, begun>>
  BY DEF Rpc
<1> HIDE DEF j
<1>3. \A l : HandlesOf(l) \subseteq HandlesOf(l)'
  BY <1>1, <1>2 DEF HandlesOf
<1>4. begun \subseteq CallIds
  BY DEF TypeOK
<1>5. \A l : InFlight(l)' = InFlight(l)
  BY <1>1, <1>2, <1>4 DEF InFlight
<1>6. \A i \in CallIds : method'[i] = "appendBlock" => log'[i] \in writable /\ via'[i] \in HandlesOf(log[i])'
  BY <1>1, <1>3 DEF AppendsInv
<1>7. \A i \in CallIds : result[i] # 0 =>
        /\ i # j /\ method'[i] = "appendBlock" /\ result[i] <= len[log'[i]]
        /\ i \in begun \/ ~Asked(i)'
  BY <1>1 DEF AppendsInv
<1>8. \A i \in CallIds : settled'[i] = "resolved" /\ method'[i] = "appendBlock" =>
        value[i] = result[i] /\ result[i] # 0
  BY <1>1 DEF AppendsInv
<1>9. \A i, o \in CallIds : log'[i] = log'[o] /\ result[i] = result[o] /\ result[i] # 0 => i = o
  BY <1>1 DEF AppendsInv
<1>10. \A n \in RepliesIn(toParent) : method'[toParent[n].call] = "appendBlock" =>
        IF toParent[n].ok
        THEN toParent[n].length = result[toParent[n].call] /\ toParent[n].length # 0
        ELSE result[toParent[n].call] = 0
  BY <1>1 DEF AppendsInv
<1> QED
  BY <1>2, <1>5, <1>6, <1>7, <1>8, <1>9, <1>10 DEF AppendsInv

\* Handles stay handles.
LEMMA HandlesStay ==
    ASSUME TypeOK, TypeOK', NEW n \in 1..Len(toParent), ReadTo(n), NEW h \in CallIds, known[h] # NoObject
    PROVE  known'[h] # NoObject
<1>1. KnownBy(n, h) /\ value'[h] \in Nat
  BY DEF ReadTo, TypeOK
<1>2. \A o \in 1..Len(toParent) : toParent[o] \in Line /\ toParent[o].length # NoObject
  <2>1. \A o \in 1..Len(toParent) : toParent[o] \in Line
    BY ElementOfSeq DEF TypeOK
  <2> QED
    BY <2>1 DEF Line, NoObject
<1>3. \A o \in 1..n : o \in 1..Len(toParent)
  BY DEF TypeOK
<1>4. \A o \in ReadAppends(n, h) \cup ReadEvents(n, log[h]) : toParent[o].length # NoObject
  BY <1>2, <1>3 DEF ReadAppends, ReadEvents
<1>5. value'[h] # NoObject
  BY <1>1 DEF NoObject
<1> QED
  BY <1>1, <1>4, <1>5 DEF KnownBy

LEMMA AppendsRead ==
    ASSUME TypeOK, TypeOK', LinesInv, AppendsInv, NEW n \in 1..Len(toParent), ReadTo(n)
    PROVE  AppendsInv'
<1>1. /\ UNCHANGED <<writable, method, log, via, result, len, begun, toChild, feeds>>
      /\ \A i \in CallIds : SettledBy(n, i)
  BY DEF ReadTo, requests
<1>2. \A k : HandlesOf(k) \subseteq HandlesOf(k)' /\ InFlight(k)' = InFlight(k)
  BY <1>1, HandlesStay DEF HandlesOf, InFlight
<1>3. \A i : Asked(i)' <=> Asked(i)
  BY <1>1 DEF Asked
<1>4. \A m \in RepliesIn(toParent') : n + m \in RepliesIn(toParent) /\ toParent'[m] = toParent[n + m]
  BY LeftLines
<1>5. ASSUME NEW m \in RepliesIn(toParent'), method[toParent'[m].call] = "appendBlock"
      PROVE  IF toParent'[m].ok
             THEN toParent'[m].length = result[toParent'[m].call] /\ toParent'[m].length # 0
             ELSE result[toParent'[m].call] = 0
  BY <1>4, <1>5 DEF AppendsInv
<1>6. ASSUME NEW i \in CallIds, settled'[i] = "resolved", method[i] = "appendBlock"
      PROVE  value'[i] = result[i] /\ result[i] # 0
  <2>1. CASE settled'[i] = settled[i] /\ value'[i] = value[i]
    BY <1>6, <2>1 DEF AppendsInv
  <2>2. ASSUME NEW o \in RepliesTo(toParent, i),
               settled'[i] = IF toParent[o].ok THEN "resolved" ELSE "rejected",
               value'[i] = toParent[o].length
        PROVE  value'[i] = result[i] /\ result[i] # 0
    <3>1. toParent[o].ok /\ o \in RepliesIn(toParent) /\ toParent[o].call = i
      BY <1>6, <2>2 DEF RepliesTo
    <3> QED
      BY <1>6, <2>2, <3>1 DEF AppendsInv
  <2> QED
    BY <1>1, <2>1, <2>2 DEF SettledBy
<1> QED
  BY <1>1, <1>2, <1>3, <1>5, <1>6 DEF AppendsInv

LEMMA AppendsExit ==
    ASSUME TypeOK, AppendsInv, Exit \/ ExitSeen
    PROVE  AppendsInv'
<1>1. /\ UNCHANGED <<writable, method, log, via, result, len, begun, toChild, feeds, known, value>>
      /\ \A i \in CallIds : settled'[i] = "resolved" => settled[i] = "resolved"
  BY DEF Exit, ExitSeen, requests, answers, TypeOK
<1>2. \A m \in RepliesIn(toParent') : m \in RepliesIn(toParent) /\ toParent'[m] = toParent[m]
  BY FewerLines DEF Exit, ExitSeen
<1>3. \A k : HandlesOf(k)' = HandlesOf(k) /\ InFlight(k)' = InFlight(k)
  BY <1>1 DEF HandlesOf, InFlight
<1>4. \A i : Asked(i)' <=> Asked(i)
  BY <1>1 DEF Asked
<1>5. \A m \in RepliesIn(toParent') : method[toParent'[m].call] = "appendBlock" =>
        IF toParent'[m].ok
        THEN toParent'[m].length = result[toParent'[m].call] /\ toParent'[m].length # 0
        ELSE result[toParent'[m].call] = 0
  BY <1>2 DEF AppendsInv
<1> QED
  BY <1>1, <1>3, <1>4, <1>5 DEF AppendsInv

\* A log that grows adds its event, if it is subscribed, and nothing else.
LEMMA GrownLines ==
    ASSUME TypeOK, NEW k \in Logs, toParent' = Grown(k)
    PROVE  /\ Len(toParent) \in Nat
           /\ RepliesIn(toParent') = RepliesIn(toParent)
           /\ \A i : RepliesTo(toParent', i) = RepliesTo(toParent, i)
           /\ \A m \in 1..Len(toParent) : toParent'[m] = toParent[m]
           /\ \A l : OpensIn(toParent', l) = OpensIn(toParent, l)
           /\ \A l : AppendsIn(toParent', l) = AppendsIn(toParent, l)
           /\ \A l : l # k => EventsIn(toParent', l) = EventsIn(toParent, l)
           /\ k \notin subscribed => toParent' = toParent
           /\ k \in subscribed =>
                /\ EventsIn(toParent', k) = EventsIn(toParent, k) \cup {Len(toParent) + 1}
                /\ toParent'[Len(toParent) + 1].length = len[k] + 1
<1> DEFINE x == [kind |-> "append", call |-> NoCall, ok |-> TRUE, log |-> k, length |-> len[k] + 1]
<1>1. x \in Line /\ toParent \in Seq(Line) /\ Len(toParent) \in Nat
  BY DEF TypeOK, Line
<1>2. toParent' = IF k \in subscribed THEN Append(toParent, x) ELSE toParent
  BY DEF Grown
<1>3. x.kind = "append" /\ x.log = k /\ x.length = len[k] + 1
  OBVIOUS
<1> HIDE DEF x
<1>4. CASE k \notin subscribed
  BY <1>1, <1>2, <1>4
<1>5. CASE k \in subscribed
  <2>1. \A l : IsEvent(x, l) <=> l = k
    BY <1>3 DEF IsEvent
  <2>2. x.kind # "reply" /\ toParent' = Append(toParent, x)
    BY <1>2, <1>3, <1>5
  <2>3. /\ RepliesIn(toParent') = RepliesIn(toParent)
        /\ \A i : RepliesTo(toParent', i) = RepliesTo(toParent, i)
        /\ \A m \in 1..Len(toParent) : toParent'[m] = toParent[m]
        /\ toParent'[Len(toParent) + 1] = x
        /\ \A l : OpensIn(toParent', l) = OpensIn(toParent, l)
        /\ \A l : AppendsIn(toParent', l) = AppendsIn(toParent, l)
        /\ \A l : EventsIn(toParent', l) = IF IsEvent(x, l)
                                           THEN EventsIn(toParent, l) \cup {Len(toParent) + 1}
                                           ELSE EventsIn(toParent, l)
    BY <1>1, <2>2, AddedLine
  <2> QED
    BY <1>1, <1>3, <1>5, <2>1, <2>3
<1> QED
  BY <1>4, <1>5

\* Events are no answers.
LEMMA LinesGrown ==
    ASSUME TypeOK, LinesInv, NEW k \in Logs, toParent' = Grown(k),
           UNCHANGED <<made, settled, up, method, log, known>>,
           \A i : Asked(i)' <=> Asked(i), \A i \in CallIds : i > made => result'[i] = result[i]
    PROVE  LinesInv'
<1> DEFINE x == [kind |-> "append", call |-> NoCall, ok |-> TRUE, log |-> k, length |-> len[k] + 1]
<1>1. x \in Line /\ x.kind = "append"
  BY DEF TypeOK, Line
<1>2. toParent' = IF k \in subscribed THEN Append(toParent, x) ELSE toParent
  BY DEF Grown
<1> HIDE DEF x
<1>3. CASE k \in subscribed
  BY <1>1, <1>2, <1>3, LinesEvent
<1>4. CASE k \notin subscribed
  BY <1>2, <1>4, LinesKept
<1> QED
  BY <1>3, <1>4

\* A block is the last of its log, and has the next number.
LEMMA AppendsGrown ==
    ASSUME TypeOK, LinesInv, AppendsInv, NEW k \in Logs, toParent' = Grown(k),
           len' = [len EXCEPT ![k] = @ + 1],
           UNCHANGED <<writable, method, log, via, known, settled, value, begun>>,
           \A i : Asked(i)' <=> Asked(i),
           \/ k \notin writable /\ result' = result
           \/ \E i \in begun : /\ method[i] = "appendBlock" /\ log[i] = k /\ result[i] = 0 /\ Asked(i)
                               /\ result' = [result EXCEPT ![i] = len[k] + 1]
    PROVE  AppendsInv'
<1>1. /\ RepliesIn(toParent') = RepliesIn(toParent)
      /\ \A m \in RepliesIn(toParent) : toParent'[m] = toParent[m]
  BY GrownLines DEF RepliesIn
<1>2. \A l : HandlesOf(l)' = HandlesOf(l)
  BY DEF HandlesOf
<1>3. /\ len'[k] = len[k] + 1 /\ len[k] \in Nat /\ \A l \in Logs : l # k => len'[l] = len[l]
      /\ \A l \in Logs : len[l] \in Nat
      /\ \A i \in CallIds : result[i] \in Nat
      /\ begun \subseteq CallIds
  BY DEF TypeOK
<1>4. CASE k \notin writable /\ result' = result
  <2>1. \A l : InFlight(l)' = InFlight(l)
    BY <1>4 DEF InFlight
  <2>2. InFlight(k) = {}
    BY <1>3, <1>4 DEF InFlight, AppendsInv
  <2>3. \A l \in Logs : InFlight(l)' # {} => \E i \in InFlight(l)' : result'[i] = len'[l]
    BY <1>3, <1>4, <2>1, <2>2 DEF AppendsInv
  <2>4. \A i \in CallIds : result[i] # 0 => result[i] <= len'[log[i]]
    <3> SUFFICES ASSUME NEW i \in CallIds, result[i] # 0
                 PROVE  result[i] <= len'[log[i]]
      OBVIOUS
    <3>1. method[i] = "appendBlock" /\ log[i] \in writable /\ result[i] <= len[log[i]]
      BY DEF AppendsInv
    <3>2. log[i] \in Logs /\ log[i] # k
      BY <1>4, <3>1 DEF LinesInv
    <3> QED
      BY <1>3, <3>1, <3>2
  <2> QED
    BY <1>1, <1>2, <1>4, <2>3, <2>4 DEF AppendsInv
<1>5. ASSUME NEW i \in begun, method[i] = "appendBlock", log[i] = k, result[i] = 0, Asked(i),
             result' = [result EXCEPT ![i] = len[k] + 1]
      PROVE  AppendsInv'
  <2>1. i \in CallIds /\ result'[i] = len[k] + 1 /\ \A j \in CallIds : j # i => result'[j] = result[j]
    BY <1>3, <1>5 DEF TypeOK
  <2>2. \A j \in CallIds : result'[j] # 0 => /\ method[j] = "appendBlock" /\ result'[j] <= len'[log[j]]
                                             /\ j \in begun \/ ~Asked(j)
    <3> SUFFICES ASSUME NEW j \in CallIds, result'[j] # 0, j # i
                 PROVE  /\ method[j] = "appendBlock" /\ result[j] <= len'[log[j]]
                        /\ j \in begun \/ ~Asked(j)
      BY <1>3, <1>5, <2>1
    <3>1. /\ method[j] = "appendBlock" /\ result[j] <= len[log[j]]
          /\ j \in begun \/ ~Asked(j)
      BY <2>1 DEF AppendsInv
    <3>2. log[j] \in Logs
      BY <3>1 DEF LinesInv
    <3> QED
      BY <1>3, <3>1, <3>2
  <2>3. \A j \in CallIds : settled[j] = "resolved" /\ method[j] = "appendBlock" =>
            value[j] = result'[j] /\ result'[j] # 0
    BY <1>5, <2>1 DEF AppendsInv
  <2>4. \A j \in CallIds : j # i /\ log[j] = k => result[j] # len[k] + 1
    <3> SUFFICES ASSUME NEW j \in CallIds, log[j] = k, result[j] = len[k] + 1
                 PROVE  FALSE
      OBVIOUS
    <3>1. result[j] <= len[k]
      BY <1>3 DEF AppendsInv
    <3> QED
      BY <1>3, <3>1
  <2>5. \A j, o \in CallIds : log[j] = log[o] /\ result'[j] = result'[o] /\ result'[j] # 0 => j = o
    BY <1>5, <2>1, <2>4 DEF AppendsInv
  <2>6. \A m \in RepliesIn(toParent) : toParent[m].call # i /\ toParent[m].call \in CallIds
    <3> SUFFICES ASSUME NEW m \in RepliesIn(toParent)
                 PROVE  toParent[m].call # i /\ toParent[m].call \in CallIds
      OBVIOUS
    <3>1. toParent[m].call \in 1..made /\ ~Asked(toParent[m].call)
      BY DEF LinesInv
    <3>2. \A c \in 1..made : c \in CallIds
      BY CallsAssumption DEF TypeOK, CallIds
    <3> QED
      BY <1>5, <3>1, <3>2
  <2>7. \A m \in RepliesIn(toParent') : method[toParent'[m].call] = "appendBlock" =>
          IF toParent'[m].ok
          THEN toParent'[m].length = result'[toParent'[m].call] /\ toParent'[m].length # 0
          ELSE result'[toParent'[m].call] = 0
    BY <1>1, <2>1, <2>6 DEF AppendsInv
  <2>8. i \in InFlight(k)' /\ result'[i] = len'[k]
    BY <1>3, <1>5, <2>1 DEF InFlight
  <2>9. \A l \in Logs : l # k => InFlight(l)' = InFlight(l) /\ \A j \in InFlight(l) : result'[j] = result[j]
    BY <1>3, <1>5, <2>1 DEF InFlight
  <2>10. \A l \in Logs : InFlight(l)' # {} => \E j \in InFlight(l)' : result'[j] = len'[l]
    BY <1>3, <2>8, <2>9 DEF AppendsInv
  <2> QED
    BY <1>1, <1>2, <2>2, <2>3, <2>5, <2>7, <2>10 DEF AppendsInv
<1> QED
  BY <1>4, <1>5

-----------------------------------------------------------------------------
(* The handles and what they know. *)

\* A step that changes no line, no handle and no length.
LEMMA SameLines ==
    ASSUME HandlesInv, LengthsInv,
           UNCHANGED <<toParent, up, known, logs, len, missed>>, subscribed' \subseteq subscribed,
           \A k : /\ HandlesOf(k)' = HandlesOf(k) /\ InFlight(k)' = InFlight(k)
                  /\ OpensIn(toParent, k)' = OpensIn(toParent, k)
                  /\ AppendsIn(toParent, k)' = AppendsIn(toParent, k),
           \A h \in CallIds : known[h] # NoObject =>
                UNCHANGED <<method[h], log[h], settled[h]>>
    PROVE  HandlesInv' /\ LengthsInv'
<1>1. \A k : EventsIn(toParent, k)' = EventsIn(toParent, k)
  BY DEF EventsIn, IsEvent
<1>2. \A k : Objects(k)' = Objects(k)
  BY DEF Objects
<1>3. \A h, k : Follows(toParent, h, k, len[k])' <=> Follows(toParent, h, k, len[k])
  BY <1>1 DEF Follows, LastTells
<1>4. HandlesInv'
  BY <1>1, <1>2 DEF HandlesInv
<1>5. LengthsInv'
  BY <1>2, <1>3 DEF LengthsInv
<1> QED
  BY <1>4, <1>5

LEMMA TellsKept ==
    ASSUME HandlesInv, LengthsInv,
           UNCHANGED <<toParent, up, known, logs, len, missed, method, log, settled, result>>,
           subscribed' \subseteq subscribed, begun \subseteq begun',
           \A i \in begun' : i \in begun \/ result[i] = 0 \/ method[i] # "appendBlock"
    PROVE  HandlesInv' /\ LengthsInv'
<1>1. \A k : /\ HandlesOf(k)' = HandlesOf(k) /\ InFlight(k)' = InFlight(k)
             /\ OpensIn(toParent, k)' = OpensIn(toParent, k)
             /\ AppendsIn(toParent, k)' = AppendsIn(toParent, k)
  BY DEF HandlesOf, InFlight, OpensIn, AppendsIn, RepliesIn
<1> QED
  BY <1>1, SameLines

LEMMA TellsRpc ==
    ASSUME TypeOK, HandsInv, LinesInv, HandlesInv, LengthsInv, NEW m \in Methods,
           NEW k \in Logs \cup {NoLog}, NEW h \in CallIds \cup {NoCall}, Rpc(m, k, h),
           m \in {"openLog", "appendBlock", "closeLog"} => k \in Logs
    PROVE  HandlesInv' /\ LengthsInv'
<1> DEFINE j == made + 1
<1>1. /\ known[j] = NoObject /\ result[j] = 0 /\ j \in CallIds
      /\ \A i \in CallIds : i # j =>
            method'[i] = method[i] /\ log'[i] = log[i] /\ settled'[i] = settled[i]
      /\ \A n \in RepliesIn(toParent) : toParent[n].call \in CallIds /\ toParent[n].call # j
  BY LinesRpc
<1>2. /\ UNCHANGED <<toParent, up, known, logs, len, missed, begun, result>>
      /\ subscribed' \subseteq subscribed
  BY DEF Rpc, child
<1>3. begun \subseteq CallIds
  BY DEF TypeOK
<1> HIDE DEF j
<1>4. \A l : HandlesOf(l)' = HandlesOf(l)
  BY <1>1, <1>2 DEF HandlesOf
<1>5. \A l : InFlight(l)' = InFlight(l)
  BY <1>1, <1>2, <1>3 DEF InFlight
<1>6. RepliesIn(toParent)' = RepliesIn(toParent)
  BY <1>2 DEF RepliesIn
<1>7. \A n \in RepliesIn(toParent) : /\ method'[toParent[n].call] = method[toParent[n].call]
                                     /\ log'[toParent[n].call] = log[toParent[n].call]
  BY <1>1
<1>8. \A l : OpensIn(toParent, l)' = OpensIn(toParent, l)
  BY <1>2, <1>6, <1>7 DEF OpensIn
<1>9. \A l : AppendsIn(toParent, l)' = AppendsIn(toParent, l)
  BY <1>2, <1>6, <1>7 DEF AppendsIn
<1>10. \A i \in CallIds : known[i] # NoObject => UNCHANGED <<method[i], log[i], settled[i]>>
  BY <1>1
<1> QED
  BY <1>2, <1>4, <1>5, <1>8, <1>9, <1>10, SameLines

\* A log that grows: its event is the last line about it, or an append in flight
\* will be.
LEMMA TellsGrown ==
    ASSUME TypeOK, LinesInv, AppendsInv, HandlesInv, LengthsInv, NEW k \in Logs,
           toParent' = Grown(k), len' = [len EXCEPT ![k] = @ + 1],
           UNCHANGED <<method, log, known, settled, begun, up, logs, missed, subscribed>>,
           \/ k \notin writable /\ result' = result
           \/ \E i \in begun : /\ method[i] = "appendBlock" /\ log[i] = k
                               /\ result' = [result EXCEPT ![i] = len[k] + 1]
    PROVE  HandlesInv' /\ LengthsInv'
<1> DEFINE q == toParent
           p == toParent'
<1>1. /\ Len(q) \in Nat
      /\ RepliesIn(p) = RepliesIn(q)
      /\ \A m \in 1..Len(q) : p[m] = q[m]
      /\ \A l : OpensIn(p, l) = OpensIn(q, l) /\ AppendsIn(p, l) = AppendsIn(q, l)
      /\ \A l : l # k => EventsIn(p, l) = EventsIn(q, l)
      /\ k \notin subscribed => p = q
      /\ k \in subscribed =>
            EventsIn(p, k) = EventsIn(q, k) \cup {Len(q) + 1} /\ p[Len(q) + 1].length = len[k] + 1
  BY GrownLines
<1>2. \A l : /\ \A m \in OpensIn(q, l) : m \in 1..Len(q) /\ p[m] = q[m]
             /\ \A m \in AppendsIn(q, l) \cup EventsIn(q, l) : m \in 1..Len(q) /\ p[m] = q[m]
  BY <1>1 DEF OpensIn, AppendsIn, EventsIn, RepliesIn
<1> HIDE DEF p
<1>3. \A l : HandlesOf(l)' = HandlesOf(l)
  BY DEF HandlesOf
<1>4. \A l : /\ OpensIn(toParent, l)' = OpensIn(p, l) /\ AppendsIn(toParent, l)' = AppendsIn(p, l)
             /\ EventsIn(toParent, l)' = EventsIn(p, l)
  BY DEF OpensIn, AppendsIn, EventsIn, IsEvent, RepliesIn, p
<1>5. \A l : OpensIn(toParent, l)' = OpensIn(q, l) /\ AppendsIn(toParent, l)' = AppendsIn(q, l)
  BY <1>1, <1>4
<1>6. \A l : \A m \in OpensIn(q, l) : toParent'[m] = q[m]
  BY <1>2 DEF p
<1>7. \A l : Objects(l)' = Objects(l)
  BY <1>3, <1>5, <1>6 DEF Objects
<1>8. HandlesInv'
  <2>1. ASSUME up, NEW l \in Logs, Objects(l) = {}
        PROVE  l \notin subscribed /\ EventsIn(toParent, l)' = {}
    <3>1. l \notin subscribed /\ EventsIn(q, l) = {}
      BY <2>1 DEF HandlesInv
    <3>2. EventsIn(p, l) = EventsIn(q, l)
      BY <1>1, <3>1 DEF p
    <3> QED
      BY <1>4, <3>1, <3>2
  <2> QED
    BY <1>3, <1>7, <2>1 DEF HandlesInv
<1>9. \A l \in Logs : l # k => InFlight(l)' = InFlight(l) /\ len'[l] = len[l]
  BY DEF InFlight, TypeOK
<1>10. ASSUME up, NEW l \in subscribed, l \notin missed, l # k, NEW h \in CallIds, Objects(l) = {h}
       PROVE  Follows(toParent, h, l, len[l])'
  <2>1. l \in Logs /\ Follows(q, h, l, len[l])
    BY <1>10 DEF LengthsInv, TypeOK
  <2>2. EventsIn(toParent, l)' = EventsIn(q, l)
    BY <1>1, <1>4, <1>10
  <2>3. /\ \A m \in OpensIn(q, l) : toParent'[m] = q[m]
        /\ \A m \in AppendsIn(q, l) \cup EventsIn(q, l) : toParent'[m] = q[m]
    BY <1>2 DEF p
  <2> HIDE DEF q
  <2> QED
    BY <1>5, <1>9, <1>10, <2>1, <2>2, <2>3 DEF Follows, LastTells
<1>11. ASSUME k \in subscribed, NEW h \in CallIds
       PROVE  Follows(toParent, h, k, len[k])'
  <2>1. CASE \E i \in begun : /\ method[i] = "appendBlock" /\ log[i] = k
                              /\ result' = [result EXCEPT ![i] = len[k] + 1]
    <3>1. PICK i \in begun : /\ method[i] = "appendBlock" /\ log[i] = k
                             /\ result' = [result EXCEPT ![i] = len[k] + 1]
      BY <2>1
    <3>2. i \in CallIds /\ result'[i] = len[k] + 1 /\ len[k] + 1 # 0
      BY <3>1 DEF TypeOK
    <3>3. i \in InFlight(k)'
      BY <3>1, <3>2 DEF InFlight
    <3> QED
      BY <3>3 DEF Follows
  <2>2. CASE k \notin writable
    <3>1. AppendsIn(q, k) = {}
      <4>1. \A m \in RepliesIn(q) : q[m].call \in CallIds
        <5>1. \A m \in RepliesIn(q) : q[m].call \in 1..made
          BY DEF LinesInv
        <5> QED
          BY <5>1, CallsAssumption DEF TypeOK, CallIds
      <4> QED
        BY <2>2, <4>1 DEF AppendsIn, AppendsInv
    <3>2. /\ EventsIn(toParent, k)' = EventsIn(q, k) \cup {Len(q) + 1}
          /\ toParent'[Len(q) + 1].length = len[k] + 1 /\ len'[k] = len[k] + 1
      BY <1>1, <1>4, <1>11 DEF p, TypeOK
    <3>3. \A m \in EventsIn(q, k) : m <= Len(q) + 1
      BY <1>1 DEF EventsIn
    <3>4. AppendsIn(toParent, k)' = {}
      BY <1>5, <3>1
    <3>5. Len(q) + 1 <= Len(q) + 1
      BY <1>1
    <3>6. \E n \in EventsIn(toParent, k)' :
            toParent'[n].length = len'[k] /\ \A m \in EventsIn(toParent, k)' : m <= n
      BY <3>2, <3>3, <3>5
    <3> QED
      BY <3>4, <3>6 DEF Follows, LastTells
  <2> QED
    BY <2>1, <2>2
<1>12. LengthsInv'
  BY <1>7, <1>10, <1>11 DEF LengthsInv
<1> QED
  BY <1>8, <1>12

\* An answer: an opened log is followed from the length the answer tells, and
\* the last append of a log leaves its length.
LEMMA TellsReply ==
    ASSUME TypeOK, HandsInv, LinesInv, AppendsInv, HandlesInv, LengthsInv, up,
           NEW f \in feeds, NEW ok \in BOOLEAN, NEW n \in Nat,
           Reply(f, ok, n), UNCHANGED <<result, len>>,
           method[Head(f)] = "appendBlock" =>
            IF ok THEN n = result[Head(f)] /\ Head(f) \in begun /\ n # 0 ELSE result[Head(f)] = 0,
           IF ok /\ method[Head(f)] = "openLog"
           THEN n = len[log[Head(f)]] /\ subscribed' \subseteq subscribed \cup {log[Head(f)]}
           ELSE subscribed' \subseteq subscribed
    PROVE  HandlesInv' /\ LengthsInv'
<1> DEFINE x == [kind |-> "reply", call |-> Head(f), ok |-> ok, log |-> log[Head(f)], length |-> n]
           j == Head(f)
           q == toParent
           p == toParent'
           e == Len(toParent) + 1
<1>1. x \in Line /\ q \in Seq(Line) /\ p = Append(q, x)
  BY HeadFacts DEF Reply, TypeOK, Line
<1>2. /\ x.kind = "reply" /\ x.call = j /\ x.ok = ok /\ x.length = n
      /\ j \in CallIds /\ Asked(j) /\ Len(q) \in Nat
  BY HeadFacts, <1>1
<1> HIDE DEF x
<1>3. /\ \A l : EventsIn(p, l) = IF IsEvent(x, l) THEN EventsIn(q, l) \cup {e} ELSE EventsIn(q, l)
      /\ \A l : OpensIn(p, l) =
            IF ok /\ method[j] = "openLog" /\ log[j] = l THEN OpensIn(q, l) \cup {e}
            ELSE OpensIn(q, l)
      /\ \A l : AppendsIn(p, l) =
            IF ok /\ method[j] = "appendBlock" /\ log[j] = l THEN AppendsIn(q, l) \cup {e}
            ELSE AppendsIn(q, l)
      /\ \A m \in 1..Len(q) : p[m] = q[m]
      /\ p[e] = x
  BY <1>1, <1>2, AddedLine
<1>4. \A l : /\ \A m \in OpensIn(q, l) : m \in 1..Len(q) /\ p[m] = q[m]
             /\ \A m \in AppendsIn(q, l) \cup EventsIn(q, l) :
                    m \in 1..Len(q) /\ p[m] = q[m] /\ m <= e
  BY <1>2, <1>3 DEF OpensIn, AppendsIn, EventsIn, RepliesIn
<1>5. \A l : EventsIn(p, l) = EventsIn(q, l)
  BY <1>2, <1>3 DEF IsEvent
<1>6. UNCHANGED <<method, log, known, settled, up, logs, missed, len, result>> /\ begun' = begun \ {j}
  BY DEF Reply, requests, answers
<1>7. settled[j] = "pending" /\ known[j] = NoObject
  BY <1>2 DEF LinesInv, HandlesInv
<1>8. \A m \in RepliesIn(q) : q[m].call # j
  BY <1>2 DEF LinesInv
<1>9. p[e].call = j /\ p[e].length = n /\ e <= e /\ j \notin HandlesOf(log[j])
  BY <1>2, <1>3, <1>7 DEF HandlesOf
<1> HIDE DEF p, e, j
<1>10. \A l : HandlesOf(l)' = HandlesOf(l) /\ InFlight(l)' = InFlight(l) \ {j}
  BY <1>6 DEF HandlesOf, InFlight
<1>11. \A l : /\ OpensIn(toParent, l)' = OpensIn(p, l) /\ AppendsIn(toParent, l)' = AppendsIn(p, l)
              /\ EventsIn(toParent, l)' = EventsIn(p, l)
  BY <1>6 DEF OpensIn, AppendsIn, EventsIn, IsEvent, RepliesIn, p
<1>12. \A l : j \notin Objects(l)
  <2>1. \A l : j \notin HandlesOf(l)
    BY <1>7 DEF HandlesOf
  <2> QED
    BY <1>8, <2>1 DEF Objects, OpensIn
<1>13. \A l : Objects(l)' = IF ok /\ method[j] = "openLog" /\ log[j] = l THEN Objects(l) \cup {j}
                            ELSE Objects(l)
  <2> SUFFICES ASSUME NEW l
               PROVE  Objects(l)' = IF ok /\ method[j] = "openLog" /\ log[j] = l
                                    THEN Objects(l) \cup {j} ELSE Objects(l)
    OBVIOUS
  <2>1. Objects(l)' = HandlesOf(l) \cup {p[m].call : m \in OpensIn(p, l)}
    BY <1>10, <1>11 DEF Objects, p
  <2>2. {p[m].call : m \in OpensIn(q, l)} = {q[m].call : m \in OpensIn(q, l)}
    BY <1>4
  <2>3. CASE ok /\ method[j] = "openLog" /\ log[j] = l
    <3>1. {p[m].call : m \in OpensIn(p, l)} = {p[m].call : m \in OpensIn(q, l)} \cup {j}
      BY <1>3, <1>9, <2>3 DEF p, e
    <3> QED
      BY <2>1, <2>2, <2>3, <3>1 DEF Objects
  <2>4. CASE ~(ok /\ method[j] = "openLog" /\ log[j] = l)
    <3>1. OpensIn(p, l) = OpensIn(q, l)
      BY <1>3, <2>4 DEF p
    <3> QED
      BY <2>1, <2>2, <2>4, <3>1 DEF Objects
  <2> QED
    BY <2>3, <2>4
<1>14. \A l \in Logs : l \in subscribed' =>
            l \in subscribed \/ (ok /\ method[j] = "openLog" /\ log[j] = l)
  BY DEF j
<1>15. HandlesInv'
  <2>1. ASSUME up, NEW l \in Logs, Objects(l)' = {}
        PROVE  l \notin subscribed' /\ EventsIn(toParent, l)' = {}
    <3>1. Objects(l) = {} /\ ~(ok /\ method[j] = "openLog" /\ log[j] = l)
      BY <1>13, <2>1
    <3>2. l \notin subscribed /\ EventsIn(q, l) = {}
      BY <2>1, <3>1 DEF HandlesInv
    <3> QED
      BY <1>5, <1>11, <1>14, <3>1, <3>2 DEF p
  <2> QED
    BY <1>6, <1>10, <2>1 DEF HandlesInv
<1>16. ASSUME NEW l \in Logs, l \in subscribed', l \notin missed, NEW h \in CallIds, Objects(l)' = {h}
       PROVE  Follows(toParent, h, l, len[l])'
  <2>1. CASE ok /\ method[j] = "openLog" /\ log[j] = l
    <3>1. Objects(l) = {} /\ h = j
      BY <1>12, <1>13, <1>16, <2>1
    <3>2. EventsIn(q, l) = {} /\ OpensIn(q, l) = {} /\ HandlesOf(l) = {}
      BY <3>1 DEF HandlesInv, Objects
    <3>3. AppendsIn(q, l) = {}
      <4>1. \A m \in RepliesIn(q) : q[m].call \in CallIds
        <5>1. \A m \in RepliesIn(q) : q[m].call \in 1..made
          BY DEF LinesInv
        <5> QED
          BY <5>1, CallsAssumption DEF TypeOK, CallIds
      <4> QED
        BY <3>2, <4>1 DEF AppendsIn, AppendsInv
    <3>4. /\ EventsIn(toParent, l)' = {} /\ AppendsIn(toParent, l)' = {}
          /\ OpensIn(toParent, l)' = {e}
      BY <1>3, <1>5, <1>11, <2>1, <3>2, <3>3 DEF p, e
    <3>5. toParent'[e].length = len'[l]
      <4>1. n = len[l]
        BY <2>1 DEF j
      <4> QED
        BY <1>6, <1>9, <4>1 DEF p
    <3>6. known'[h] = NoObject
      BY <1>6, <1>7, <3>1
    <3> QED
      BY <3>4, <3>5, <3>6 DEF Follows
  <2>2. CASE ok /\ method[j] = "appendBlock" /\ log[j] = l
    <3>1. InFlight(l)' # {} \/ len[l] = n
      <4>1. j \in InFlight(l)
        BY <2>2 DEF InFlight, j
      <4>2. PICK i \in InFlight(l) : result[i] = len[l]
        BY <4>1 DEF AppendsInv
      <4>3. CASE i = j
        BY <2>2, <4>2, <4>3 DEF j
      <4>4. CASE i # j
        BY <1>10, <4>2, <4>4
      <4> QED
        BY <4>3, <4>4
    <3>2. AppendsIn(toParent, l)' = AppendsIn(q, l) \cup {e} /\ EventsIn(toParent, l)' = EventsIn(q, l)
      BY <1>3, <1>5, <1>11, <2>2 DEF p, e
    <3>3. ASSUME len[l] = n
          PROVE  /\ e \in AppendsIn(toParent, l)'
                 /\ toParent'[e].length = len'[l]
                 /\ \A m \in AppendsIn(toParent, l)' \cup EventsIn(toParent, l)' : m <= e
      BY <1>4, <1>6, <1>9, <3>2, <3>3 DEF p
    <3> QED
      BY <3>1, <3>3 DEF Follows, LastTells
  <2>3. CASE ~(ok /\ method[j] \in {"openLog", "appendBlock"} /\ log[j] = l)
    <3>1. l \in subscribed /\ Objects(l) = {h}
      BY <1>13, <1>14, <1>16, <2>3
    <3>2. Follows(q, h, l, len[l])
      BY <1>16, <3>1 DEF LengthsInv
    <3>3. /\ OpensIn(toParent, l)' = OpensIn(q, l) /\ AppendsIn(toParent, l)' = AppendsIn(q, l)
          /\ EventsIn(toParent, l)' = EventsIn(q, l)
      BY <1>3, <1>5, <1>11, <2>3 DEF p, e
    <3>4. InFlight(l)' = InFlight(l)
      <4>1. j \notin InFlight(l)
        BY <2>3 DEF InFlight, j
      <4> QED
        BY <1>10, <4>1
    <3>5. /\ \A m \in OpensIn(q, l) : toParent'[m] = q[m]
          /\ \A m \in AppendsIn(q, l) \cup EventsIn(q, l) : toParent'[m] = q[m]
      BY <1>4 DEF p
    <3> HIDE DEF q
    <3> QED
      BY <1>6, <3>2, <3>3, <3>4, <3>5 DEF Follows, LastTells
  <2> QED
    BY <2>1, <2>2, <2>3
<1>17. LengthsInv'
  <2>1. TypeOK => subscribed' \subseteq Logs
    BY <1>2, CallFacts DEF TypeOK, LinesInv, j
  <2> QED
    BY <1>6, <1>16, <2>1 DEF LengthsInv
<1> QED
  BY <1>15, <1>17

\* The lines of a chunk that say something of a log or a handle.
LEMMA ReadLines ==
    ASSUME TypeOK, LinesInv, AppendsInv, HandlesInv, NEW n \in 1..Len(toParent)
    PROVE  /\ \A m \in RepliesIn(toParent) :
                /\ toParent[m].call \in CallIds /\ m \in RepliesTo(toParent, toParent[m].call)
                /\ up => settled[toParent[m].call] = "pending"
           /\ \A i, m : m \in RepliesTo(toParent, i) => RepliesTo(toParent, i) = {m}
           /\ \A k, m : m \in ReadOpens(n, k) <=>
                m \in OpensIn(toParent, k) /\ m <= n /\ settled[toParent[m].call] = "pending"
           /\ \A k, m : m \in ReadEvents(n, k) <=> m \in EventsIn(toParent, k) /\ m <= n
           /\ \A h, m : m \in ReadAppends(n, h) => m \in AppendsIn(toParent, log[h]) /\ m <= n
           /\ \A k \in Logs : \A m \in AppendsIn(toParent, k) :
                /\ via[toParent[m].call] \in HandlesOf(k)
                /\ up /\ m <= n => m \in ReadAppends(n, via[toParent[m].call])
<1>1. /\ Len(toParent) \in Nat /\ n \in Nat /\ \A m \in 1..n : m \in 1..Len(toParent) /\ m <= n
      /\ \A m \in 1..Len(toParent) : m <= n => m \in 1..n
  BY DEF TypeOK
<1>2. \A m \in RepliesIn(toParent) : toParent[m].call \in CallIds
  <2>1. \A m \in RepliesIn(toParent) : toParent[m].call \in 1..made
    BY DEF LinesInv
  <2> QED
    BY <2>1, CallsAssumption DEF TypeOK, CallIds
<1>3. \A m \in RepliesIn(toParent) : m \in RepliesTo(toParent, toParent[m].call)
  BY DEF RepliesTo
<1>4. \A m \in RepliesIn(toParent) : up => settled[toParent[m].call] = "pending"
  BY <1>2, <1>3 DEF LinesInv
<1>5. \A i, m : m \in RepliesTo(toParent, i) => RepliesTo(toParent, i) = {m}
  BY DEF LinesInv, RepliesTo
<1>6. \A k, m : m \in ReadOpens(n, k) <=>
            m \in OpensIn(toParent, k) /\ m <= n /\ settled[toParent[m].call] = "pending"
  BY <1>1 DEF ReadOpens, OpensIn, RepliesIn, IsReply
<1>7. \A k, m : m \in ReadEvents(n, k) <=> m \in EventsIn(toParent, k) /\ m <= n
  BY <1>1 DEF ReadEvents, EventsIn
<1>8. ASSUME NEW h, NEW m \in ReadAppends(n, h)
      PROVE  m \in AppendsIn(toParent, log[h]) /\ m <= n
  <2>1. /\ m \in RepliesIn(toParent) /\ toParent[m].ok /\ method[toParent[m].call] = "appendBlock"
        /\ via[toParent[m].call] = h /\ m <= n
    BY <1>1 DEF ReadAppends, IsReply, RepliesIn
  <2>2. h \in HandlesOf(log[toParent[m].call])
    BY <1>2, <2>1 DEF AppendsInv
  <2>3. log[h] = log[toParent[m].call]
    BY <2>2 DEF HandlesOf
  <2> QED
    BY <2>1, <2>3 DEF AppendsIn
<1>9. ASSUME NEW k \in Logs, NEW m \in AppendsIn(toParent, k)
      PROVE  /\ via[toParent[m].call] \in HandlesOf(k)
             /\ up /\ m <= n => m \in ReadAppends(n, via[toParent[m].call])
  <2>1. /\ m \in RepliesIn(toParent) /\ toParent[m].ok /\ method[toParent[m].call] = "appendBlock"
        /\ log[toParent[m].call] = k
    BY DEF AppendsIn
  <2>2. via[toParent[m].call] \in HandlesOf(k)
    BY <1>2, <2>1 DEF AppendsInv
  <2>3. up /\ m <= n => m \in ReadAppends(n, via[toParent[m].call])
    BY <1>1, <1>4, <2>1 DEF ReadAppends, IsReply, RepliesIn
  <2> QED
    BY <2>2, <2>3
<1> QED
  BY <1>2, <1>3, <1>4, <1>5, <1>6, <1>7, <1>8, <1>9

\* The handles after a chunk: those there were, and the calls it opened.
LEMMA ReadHandles ==
    ASSUME TypeOK, TypeOK', LinesInv, AppendsInv, HandlesInv, NEW n \in 1..Len(toParent), ReadTo(n)
    PROVE  /\ \A h \in CallIds : known'[h] # NoObject =>
                known[h] # NoObject \/ \E o \in ReadOpens(n, log[h]) : toParent[o].call = h
           /\ \A k : \A o \in ReadOpens(n, k) :
                LET h == toParent[o].call IN
                h \in HandlesOf(k)' /\ settled'[h] # "pending" /\ method[h] = "openLog"
           /\ \A k : HandlesOf(k) \subseteq HandlesOf(k)'
           /\ \A h \in CallIds : known[h] # NoObject => settled'[h] = settled[h]
<1>1. /\ \A i \in CallIds : SettledBy(n, i) /\ KnownBy(n, i)
      /\ UNCHANGED <<method, log, via>>
  BY DEF ReadTo, requests
<1>2. \A h \in CallIds : value'[h] # NoObject
  <2>1. \A h \in CallIds : value'[h] \in Nat
    BY DEF TypeOK
  <2> QED
    BY <2>1 DEF NoObject
<1>3. /\ \A m \in RepliesIn(toParent) :
            toParent[m].call \in CallIds /\ m \in RepliesTo(toParent, toParent[m].call)
      /\ \A i, m : m \in RepliesTo(toParent, i) => RepliesTo(toParent, i) = {m}
      /\ \A k, m : m \in ReadOpens(n, k) <=>
            m \in OpensIn(toParent, k) /\ m <= n /\ settled[toParent[m].call] = "pending"
  BY ReadLines
<1>4. ASSUME NEW h \in CallIds, known'[h] # NoObject, known[h] = NoObject
      PROVE  \E o \in ReadOpens(n, log[h]) : toParent[o].call = h
  <2>1. /\ \E o \in RepliesTo(toParent, h) : o <= n /\ settled[h] = "pending" /\ toParent[o].ok
        /\ method[h] = "openLog"
    BY <1>1, <1>4 DEF KnownBy
  <2> QED
    BY <1>3, <2>1 DEF OpensIn, RepliesTo
<1>5. ASSUME NEW k, NEW o \in ReadOpens(n, k)
      PROVE  /\ toParent[o].call \in HandlesOf(k)' /\ settled'[toParent[o].call] # "pending"
             /\ method[toParent[o].call] = "openLog"
  <2> DEFINE h == toParent[o].call
  <2>1. /\ o \in RepliesTo(toParent, h) /\ o <= n /\ settled[h] = "pending" /\ toParent[o].ok
        /\ method[h] = "openLog" /\ log[h] = k /\ h \in CallIds
    BY <1>3 DEF OpensIn
  <2> HIDE DEF h
  <2>2. known[h] = NoObject
    BY <2>1 DEF HandlesInv
  <2>3. known'[h] = value'[h]
    BY <1>1, <2>1, <2>2 DEF KnownBy
  <2>4. settled'[h] # "pending"
    BY <1>1, <1>3, <2>1 DEF SettledBy
  <2>5. h \in HandlesOf(k)'
    BY <1>1, <1>2, <2>1, <2>3 DEF HandlesOf
  <2> QED
    BY <2>1, <2>4, <2>5 DEF h
<1>6. \A k : HandlesOf(k) \subseteq HandlesOf(k)'
  BY <1>1, HandlesStay DEF HandlesOf
<1>7. \A h \in CallIds : known[h] # NoObject => settled'[h] = settled[h]
  BY <1>1 DEF SettledBy, HandlesInv
<1> QED
  BY <1>4, <1>5, <1>6, <1>7

LEMMA HandlesRead ==
    ASSUME TypeOK, TypeOK', LinesInv, AppendsInv, HandlesInv, NEW n \in 1..Len(toParent), ReadTo(n)
    PROVE  HandlesInv' /\ (up => \A k : Objects(k)' = Objects(k))
<1> DEFINE q == toParent
           p == toParent'
<1>1. /\ UNCHANGED <<method, log, via, up, subscribed>>
      /\ \A k \in Logs :
          \/ ReadOpens(n, k) = {} /\ logs'[k] = logs[k]
          \/ \E o \in ReadOpens(n, k) : logs'[k] = q[o].call
  BY DEF ReadTo, requests, child
<1>2. /\ \A h \in CallIds : known'[h] # NoObject =>
            known[h] # NoObject \/ \E o \in ReadOpens(n, log[h]) : q[o].call = h
      /\ \A k : \A o \in ReadOpens(n, k) :
            /\ q[o].call \in HandlesOf(k)' /\ settled'[q[o].call] # "pending"
            /\ method[q[o].call] = "openLog"
      /\ \A k : HandlesOf(k) \subseteq HandlesOf(k)'
      /\ \A h \in CallIds : known[h] # NoObject => settled'[h] = settled[h]
  BY ReadHandles
<1>3. /\ \A m \in RepliesIn(q) : up => settled[q[m].call] = "pending"
      /\ \A k, m : m \in ReadOpens(n, k) <=>
            m \in OpensIn(q, k) /\ m <= n /\ settled[q[m].call] = "pending"
  BY ReadLines
<1>4. /\ n \in Nat /\ Len(q) \in Nat
      /\ \A m \in 1..Len(p) : p[m] = q[n + m]
      /\ \A m \in 1..Len(q) : m > n => m - n \in 1..Len(p) /\ n + (m - n) = m
      /\ \A k, m : m \in EventsIn(p, k) <=> m \in 1..Len(p) /\ n + m \in EventsIn(q, k)
      /\ \A k, m : m \in OpensIn(p, k) <=> m \in 1..Len(p) /\ n + m \in OpensIn(q, k)
  BY LeftLines
<1>5. \A k : OpensIn(q, k) \subseteq 1..Len(q) /\ OpensIn(q, k) \subseteq RepliesIn(q)
  BY DEF OpensIn, RepliesIn
<1> HIDE DEF q, p
<1>6. \A k : OpensIn(toParent, k)' = OpensIn(p, k) /\ EventsIn(toParent, k)' = EventsIn(p, k)
  BY <1>1 DEF OpensIn, EventsIn, IsEvent, RepliesIn, p
<1>7. ASSUME NEW h \in CallIds, known'[h] # NoObject
      PROVE  method[h] = "openLog" /\ log[h] \in Logs /\ settled'[h] # "pending"
  <2>1. CASE known[h] # NoObject
    BY <1>2, <2>1 DEF HandlesInv
  <2>2. CASE known[h] = NoObject
    <3>1. method[h] = "openLog" /\ settled'[h] # "pending"
      BY <1>2, <1>7, <2>2
    <3>2. log[h] \in Logs
      BY <3>1 DEF LinesInv
    <3> QED
      BY <3>1, <3>2
  <2> QED
    BY <2>1, <2>2
<1>8. ASSUME NEW k \in Logs
      PROVE  \/ logs'[k] \in HandlesOf(k)'
             \/ logs'[k] = NoCall /\ HandlesOf(k)' = {}
  <2>1. CASE ReadOpens(n, k) # {}
    BY <1>1, <1>2, <2>1
  <2>2. CASE ReadOpens(n, k) = {} /\ logs[k] \in HandlesOf(k)
    BY <1>1, <1>2, <2>2
  <2>3. CASE ReadOpens(n, k) = {} /\ logs[k] = NoCall /\ HandlesOf(k) = {}
    <3>1. HandlesOf(k)' = {}
      BY <1>1, <1>2, <2>3 DEF HandlesOf
    <3> QED
      BY <1>1, <2>3, <3>1
  <2> QED
    BY <2>1, <2>2, <2>3 DEF HandlesInv
<1>9. ASSUME up, NEW k
      PROVE  Objects(k)' = Objects(k)
  <2>1. Objects(k)' = HandlesOf(k)' \cup {p[m].call : m \in OpensIn(p, k)}
    BY <1>6 DEF Objects, p
  <2>2. Objects(k) = HandlesOf(k) \cup {q[m].call : m \in OpensIn(q, k)}
    BY DEF Objects, q
  <2>3. HandlesOf(k)' \subseteq Objects(k)
    <3>1. \A h \in HandlesOf(k)' : h \in CallIds /\ known'[h] # NoObject /\ log[h] = k
      BY <1>1 DEF HandlesOf
    <3>2. \A h \in CallIds : known[h] # NoObject /\ log[h] = k => h \in HandlesOf(k)
      BY DEF HandlesOf
    <3> QED
      BY <1>2, <1>3, <2>2, <3>1, <3>2
  <2>4. \A m \in OpensIn(p, k) : p[m].call \in Objects(k)
    BY <1>4, <2>2
  <2>5. \A m \in OpensIn(q, k) : q[m].call \in Objects(k)'
    <3> SUFFICES ASSUME NEW m \in OpensIn(q, k)
                 PROVE  q[m].call \in Objects(k)'
      OBVIOUS
    <3>1. m \in 1..Len(q) /\ m \in RepliesIn(q)
      BY <1>5
    <3>2. CASE m <= n
      BY <1>2, <1>3, <1>9, <2>1, <3>1, <3>2
    <3>3. CASE m > n
      <4>1. m - n \in 1..Len(p) /\ n + (m - n) = m
        BY <1>4, <3>1, <3>3
      <4>2. m - n \in OpensIn(p, k) /\ p[m - n] = q[m]
        BY <1>4, <4>1
      <4> QED
        BY <2>1, <4>2
    <3> QED
      BY <1>4, <3>1, <3>2, <3>3
  <2> QED
    BY <1>2, <2>1, <2>2, <2>3, <2>4, <2>5
<1>10. ASSUME up, NEW k \in Logs, Objects(k)' = {}
       PROVE  k \notin subscribed /\ EventsIn(toParent, k)' = {}
  <2>1. k \notin subscribed /\ EventsIn(q, k) = {}
    BY <1>9, <1>10 DEF HandlesInv, q
  <2> QED
    BY <1>4, <1>6, <2>1
<1>11. HandlesInv'
  BY <1>1, <1>7, <1>8, <1>10 DEF HandlesInv
<1> QED
  BY <1>9, <1>11

\* The last line about a log is still to be read, or what it tells is known.
LEMMA LengthsRead ==
    ASSUME TypeOK, TypeOK', LinesInv, AppendsInv, HandlesInv, LengthsInv,
           NEW n \in 1..Len(toParent), ReadTo(n)
    PROVE  LengthsInv'
<1> DEFINE q == toParent
           p == toParent'
<1>1. /\ UNCHANGED <<method, log, via, up, subscribed, len, begun, result>>
      /\ \A i \in CallIds : SettledBy(n, i) /\ KnownBy(n, i)
      /\ missed' = missed \cup {k \in Logs : /\ ReadEvents(n, k) # {}
                                             /\ logs[k] = NoCall \/ ReadOpens(n, k) # {}}
  BY DEF ReadTo, requests, child
<1>2. /\ \A m \in RepliesIn(q) : q[m].call \in CallIds /\ m \in RepliesTo(q, q[m].call)
                                 /\ up => settled[q[m].call] = "pending"
      /\ \A i, m : m \in RepliesTo(q, i) => RepliesTo(q, i) = {m}
      /\ \A k, m : m \in ReadEvents(n, k) <=> m \in EventsIn(q, k) /\ m <= n
      /\ \A h, m : m \in ReadAppends(n, h) => m \in AppendsIn(q, log[h]) /\ m <= n
      /\ \A k \in Logs : \A m \in AppendsIn(q, k) :
            /\ via[q[m].call] \in HandlesOf(k)
            /\ up /\ m <= n => m \in ReadAppends(n, via[q[m].call])
  BY ReadLines
<1>3. /\ n \in Nat /\ Len(q) \in Nat
      /\ \A m \in 1..Len(p) : n + m \in 1..Len(q) /\ p[m] = q[n + m] /\ ~(n + m <= n)
      /\ \A m \in 1..Len(q) : m > n => m - n \in 1..Len(p) /\ n + (m - n) = m
      /\ \A k, m : m \in EventsIn(p, k) <=> m \in 1..Len(p) /\ n + m \in EventsIn(q, k)
      /\ \A k, m : m \in OpensIn(p, k) <=> m \in 1..Len(p) /\ n + m \in OpensIn(q, k)
      /\ \A k, m : m \in AppendsIn(p, k) <=> m \in 1..Len(p) /\ n + m \in AppendsIn(q, k)
  BY LeftLines
<1>4. \A k : EventsIn(q, k) \cup AppendsIn(q, k) \subseteq 1..Len(q)
  BY DEF EventsIn, AppendsIn, RepliesIn
<1>5. \A m \in 1..Len(q) : m <= n \/ m > n
  BY <1>3
<1>6. up => \A k : Objects(k)' = Objects(k)
  BY HandlesRead
<1> HIDE DEF q, p
<1>7. \A k : /\ OpensIn(toParent, k)' = OpensIn(p, k) /\ EventsIn(toParent, k)' = EventsIn(p, k)
             /\ AppendsIn(toParent, k)' = AppendsIn(p, k) /\ InFlight(k)' = InFlight(k)
  BY <1>1 DEF OpensIn, EventsIn, AppendsIn, IsEvent, RepliesIn, InFlight, p
<1>8. ASSUME NEW s, s \subseteq 1..Len(q), NEW m \in s, m <= n, \A o \in s : o <= m,
             NEW r, \A o \in r : o \in 1..Len(p) /\ n + o \in s
      PROVE  r = {}
  <2> SUFFICES ASSUME NEW o \in r
               PROVE  FALSE
    OBVIOUS
  <2>1. o \in 1..Len(p) /\ n + o \in s /\ ~(n + o <= n) /\ n + o <= m
    BY <1>3, <1>8
  <2>2. m \in Nat /\ o \in Nat
    BY <1>3, <1>8, <2>1
  <2> QED
    BY <1>3, <1>8, <2>1, <2>2
<1>9. ASSUME NEW s, s \subseteq 1..Len(q), NEW m \in s, m > n, \A o \in s : o <= m,
             NEW r, \A o : o \in r <=> o \in 1..Len(p) /\ n + o \in s
      PROVE  m - n \in r /\ p[m - n] = q[m] /\ \A o \in r : o <= m - n
  <2>1. m \in 1..Len(q) /\ m - n \in 1..Len(p) /\ n + (m - n) = m
    BY <1>3, <1>9
  <2>2. m - n \in r /\ p[m - n] = q[m]
    BY <1>3, <1>9, <2>1
  <2>3. ASSUME NEW o \in r
        PROVE  o <= m - n
    <3>1. o \in 1..Len(p) /\ n + o <= m
      BY <1>9
    <3> QED
      BY <1>3, <2>1, <3>1
  <2> QED
    BY <2>2, <2>3
<1>10. ASSUME up, NEW k \in Logs, k \in subscribed, k \notin missed', NEW h \in CallIds, Objects(k) = {h}
       PROVE  Follows(toParent, h, k, len[k])'
  <2>1. Follows(q, h, k, len[k]) /\ k \notin missed
    BY <1>1, <1>10 DEF LengthsInv, q
  <2>2. /\ len'[k] = len[k] /\ len[k] # NoObject
        /\ log[h] = k
        /\ known[h] # NoObject => h \in HandlesOf(k) /\ settled[h] # "pending"
        /\ \A g \in HandlesOf(k) : g = h /\ known[h] # NoObject
    <3>1. len'[k] = len[k] /\ len[k] # NoObject
      BY <1>1 DEF TypeOK, NoObject
    <3>2. log[h] = k
      BY <1>10 DEF Objects, HandlesOf, OpensIn
    <3>3. known[h] # NoObject => h \in HandlesOf(k) /\ settled[h] # "pending"
      BY <3>2 DEF HandlesOf, HandlesInv
    <3>4. \A g \in HandlesOf(k) : g = h /\ known[h] # NoObject
      BY <1>10 DEF Objects, HandlesOf
    <3> QED
      BY <3>1, <3>2, <3>3, <3>4
  <2>3. /\ \A m \in ReadAppends(n, h) : m \in AppendsIn(q, k) /\ m <= n
        /\ \A m \in AppendsIn(q, k) : known[h] # NoObject /\ (m <= n => m \in ReadAppends(n, h))
    BY <1>2, <1>10, <2>2
  <2>4. SettledBy(n, h) /\ KnownBy(n, h)
    BY <1>1
  <2>5. CASE InFlight(k) # {}
    BY <1>7, <2>5 DEF Follows
  <2>6. ASSUME NEW m \in AppendsIn(q, k), LastTells(q, m, AppendsIn(q, k) \cup EventsIn(q, k), len[k])
        PROVE  Follows(toParent, h, k, len[k])'
    <3> DEFINE s == AppendsIn(q, k) \cup EventsIn(q, k)
    <3>1. m \in s /\ s \subseteq 1..Len(q) /\ q[m].length = len[k] /\ \A o \in s : o <= m
      BY <1>4, <2>6 DEF LastTells
    <3>2. \A o : o \in AppendsIn(p, k) \cup EventsIn(p, k) <=> o \in 1..Len(p) /\ n + o \in s
      BY <1>3
    <3> HIDE DEF s
    <3>3. CASE m > n
      <4>1. /\ m - n \in AppendsIn(p, k) \cup EventsIn(p, k) /\ p[m - n] = q[m]
            /\ \A o \in AppendsIn(p, k) \cup EventsIn(p, k) : o <= m - n
        BY <1>9, <3>1, <3>2, <3>3
      <4>2. m - n \in AppendsIn(p, k)
        BY <1>3, <1>4, <2>6, <3>3
      <4> DEFINE r == m - n
      <4>3. /\ r \in AppendsIn(toParent, k)' /\ toParent'[r].length = len'[k]
            /\ \A o \in AppendsIn(toParent, k)' \cup EventsIn(toParent, k)' : o <= r
        BY <1>7, <2>2, <3>1, <4>1, <4>2 DEF p
      <4> HIDE DEF r
      <4> QED
        BY <4>3 DEF Follows, LastTells
    <3>4. CASE m <= n
      <4>1. AppendsIn(p, k) \cup EventsIn(p, k) = {}
        BY <1>8, <3>1, <3>2, <3>4
      <4>2. m \in ReadAppends(n, h) /\ known[h] # NoObject /\ settled[h] # "pending"
        BY <2>2, <2>3, <3>4
      <4>3. PICK o \in ReadAppends(n, h) : known'[h] = q[o].length /\ \A u \in ReadAppends(n, h) : u <= o
        BY <2>4, <4>2 DEF KnownBy, q
      <4>4. m <= o /\ o \in s /\ o <= m
        BY <2>3, <3>1, <4>2, <4>3 DEF s
      <4>5. m \in 1..Len(q) /\ o \in 1..Len(q)
        BY <3>1, <4>4
      <4>6. o = m
        BY <1>3, <4>4, <4>5
      <4>7. known'[h] = len'[k]
        BY <2>2, <3>1, <4>3, <4>6
      <4> QED
        BY <1>7, <4>1, <4>7 DEF Follows
    <3> QED
      BY <1>5, <3>1, <3>3, <3>4
  <2>7. ASSUME AppendsIn(q, k) = {}, NEW m \in EventsIn(q, k), LastTells(q, m, EventsIn(q, k), len[k])
        PROVE  Follows(toParent, h, k, len[k])'
    <3> DEFINE s == EventsIn(q, k)
    <3>1. m \in s /\ s \subseteq 1..Len(q) /\ q[m].length = len[k] /\ \A o \in s : o <= m
      BY <1>4, <2>7 DEF LastTells
    <3>2. \A o : o \in EventsIn(p, k) <=> o \in 1..Len(p) /\ n + o \in s
      BY <1>3
    <3>3. AppendsIn(p, k) = {}
      BY <1>3, <2>7
    <3> HIDE DEF s
    <3>4. CASE m > n
      <4> DEFINE r == m - n
      <4>1. /\ r \in EventsIn(p, k) /\ p[r] = q[m] /\ \A o \in EventsIn(p, k) : o <= r
        BY <1>9, <3>1, <3>2, <3>4
      <4>2. /\ r \in EventsIn(toParent, k)' /\ toParent'[r].length = len'[k]
            /\ \A o \in EventsIn(toParent, k)' : o <= r
        BY <1>7, <2>2, <3>1, <4>1 DEF p
      <4> HIDE DEF r
      <4> QED
        BY <1>7, <3>3, <4>2 DEF Follows, LastTells
    <3>5. CASE m <= n
      <4>1. EventsIn(p, k) = {}
        BY <1>8, <3>1, <3>2, <3>5
      <4>2. m \in ReadEvents(n, k)
        BY <1>2, <2>7, <3>5
      <4>3. logs[k] # NoCall
        BY <1>1, <1>10, <4>2
      <4>4. logs[k] = h /\ known[h] # NoObject /\ settled[h] # "pending"
        BY <2>2, <4>3 DEF HandlesInv
      <4>5. ReadAppends(n, h) = {}
        BY <2>3, <2>7
      <4>6. PICK o \in ReadEvents(n, k) : known'[h] = q[o].length /\ \A u \in ReadEvents(n, k) : u <= o
        BY <2>2, <2>4, <4>2, <4>4, <4>5 DEF KnownBy, q
      <4>7. m <= o /\ o \in s /\ o <= m
        BY <1>2, <3>1, <4>2, <4>6 DEF s
      <4>8. m \in 1..Len(q) /\ o \in 1..Len(q)
        BY <3>1, <4>7
      <4>9. o = m
        BY <1>3, <4>7, <4>8
      <4>10. known'[h] = len'[k]
        BY <2>2, <3>1, <4>6, <4>9
      <4> QED
        BY <1>7, <3>3, <4>1, <4>10 DEF Follows
    <3> QED
      BY <1>5, <3>1, <3>4, <3>5
  <2>8. ASSUME AppendsIn(q, k) = {}, EventsIn(q, k) = {},
               \/ known[h] = len[k]
               \/ known[h] = NoObject /\ \A m \in OpensIn(q, k) : q[m].length = len[k]
        PROVE  Follows(toParent, h, k, len[k])'
    <3>1. AppendsIn(toParent, k)' = {} /\ EventsIn(toParent, k)' = {}
      BY <1>3, <1>7, <2>8
    <3>2. ReadAppends(n, h) = {} /\ ReadEvents(n, log[h]) = {}
      BY <1>2, <2>2, <2>3, <2>8
    <3>3. CASE known[h] = len[k]
      <4>1. known'[h] = known[h]
        BY <2>2, <2>4, <3>2, <3>3 DEF KnownBy
      <4> QED
        BY <2>2, <3>1, <3>3, <4>1 DEF Follows
    <3>4. CASE known[h] = NoObject /\ \A m \in OpensIn(q, k) : q[m].length = len[k]
      <4>1. CASE known'[h] = NoObject
        <5>1. \A m \in OpensIn(toParent, k)' : toParent'[m].length = len'[k]
          BY <1>3, <1>7, <2>2, <3>4 DEF p
        <5> QED
          BY <3>1, <4>1, <5>1 DEF Follows
      <4>2. CASE known'[h] # NoObject
        <5>1. /\ \E o \in RepliesTo(q, h) : o <= n /\ settled[h] = "pending" /\ q[o].ok
              /\ method[h] = "openLog" /\ known'[h] = value'[h]
          BY <2>4, <3>4, <4>2 DEF KnownBy, q
        <5>2. PICK o \in RepliesTo(q, h) : o <= n /\ settled[h] = "pending" /\ value'[h] = q[o].length
          BY <2>4, <5>1 DEF SettledBy, q
        <5>3. RepliesTo(q, h) = {o}
          BY <1>2
        <5>4. o \in OpensIn(q, k)
          BY <2>2, <5>1, <5>3 DEF OpensIn, RepliesTo
        <5>5. known'[h] = len'[k]
          BY <2>2, <3>4, <5>1, <5>2, <5>4
        <5> QED
          BY <3>1, <5>5 DEF Follows
      <4> QED
        BY <4>1, <4>2
    <3> QED
      BY <2>8, <3>3, <3>4
  <2> QED
    BY <2>1, <2>5, <2>6, <2>7, <2>8 DEF Follows
<1> QED
  BY <1>1, <1>6, <1>10 DEF LengthsInv, TypeOK

-----------------------------------------------------------------------------
(* The invariant. *)

LEMMA RpcInv ==
    ASSUME Inv, NEW m \in Methods, NEW k \in Logs \cup {NoLog}, NEW h \in CallIds \cup {NoCall},
           Rpc(m, k, h),
           m \in {"openLog", "appendBlock", "closeLog"} => k \in Logs,
           m = "appendBlock" => k \in writable /\ h \in HandlesOf(k)
    PROVE  Inv'
<1>1. TypeOK /\ HandsInv /\ LinesInv /\ AppendsInv /\ HandlesInv /\ LengthsInv
  BY DEF Inv
<1>2. TypeOK'
  BY <1>1, RpcTypes
<1>3. HandsInv' /\ LinesInv'
  BY <1>1, LinesRpc
<1>4. AppendsInv'
  BY <1>1, AppendsRpc
<1>5. HandlesInv' /\ LengthsInv'
  BY <1>1, TellsRpc
<1> QED
  BY <1>2, <1>3, <1>4, <1>5 DEF Inv

\* The child answers.
LEMMA ReplyInv ==
    ASSUME Inv, TypeOK', up, NEW f \in feeds, NEW ok \in BOOLEAN, NEW n \in Nat,
           Reply(f, ok, n), UNCHANGED <<result, len>>,
           method[Head(f)] = "appendBlock" =>
            IF ok THEN /\ n = result[Head(f)] /\ n # 0 /\ Head(f) \in begun
                       /\ \A j \in begun : log[j] = log[Head(f)] /\ result[j] # 0 =>
                            result[Head(f)] <= result[j]
            ELSE result[Head(f)] = 0,
           IF ok /\ method[Head(f)] = "openLog"
           THEN n = len[log[Head(f)]] /\ subscribed' \subseteq subscribed \cup {log[Head(f)]}
           ELSE subscribed' \subseteq subscribed
    PROVE  Inv'
<1>1. TypeOK /\ HandsInv /\ LinesInv /\ AppendsInv /\ HandlesInv /\ LengthsInv
  BY DEF Inv
<1>2. HandsInv'
  BY <1>1, ReplyHands
<1>3. LinesInv'
  BY <1>1, LinesReply
<1>4. AppendsInv'
  BY <1>1, AppendsReply
<1>5. HandlesInv' /\ LengthsInv'
  BY <1>1, TellsReply
<1> QED
  BY <1>2, <1>3, <1>4, <1>5 DEF Inv

\* The child waits.
LEMMA WaitsInv ==
    ASSUME Inv, TypeOK', NEW f \in feeds, begun' = begun \cup {Head(f)},
           UNCHANGED <<requests, answers, toChild, toParent, up, feeds, result, len, missed>>,
           subscribed' \subseteq subscribed,
           Head(f) \in begun \/ method[Head(f)] # "appendBlock" \/ result[Head(f)] = 0
    PROVE  Inv'
<1>1. TypeOK /\ HandsInv /\ LinesInv /\ AppendsInv /\ HandlesInv /\ LengthsInv
  BY DEF Inv
<1>2. UNCHANGED <<writable, made, method, log, via, settled, value, known, logs>>
  BY DEF requests, answers
<1>3. HandsInv' /\ \A i : Asked(i)' <=> Asked(i)
  BY <1>1, <1>2, HandsKept DEF HandsInv
<1>4. LinesInv'
  BY <1>1, <1>2, <1>3, LinesKept
<1>5. AppendsInv'
  BY <1>1, <1>2, <1>3, AppendsKept
<1>6. HandlesInv' /\ LengthsInv'
  BY <1>1, <1>2, TellsKept
<1> QED
  BY <1>3, <1>4, <1>5, <1>6 DEF Inv

\* A log grows.
LEMMA GrownInv ==
    ASSUME Inv, TypeOK', NEW k \in Logs, toParent' = Grown(k), len' = [len EXCEPT ![k] = @ + 1],
           UNCHANGED <<requests, answers, toChild, up, feeds, begun, child, missed>>,
           \/ k \notin writable /\ result' = result
           \/ \E i \in begun : /\ method[i] = "appendBlock" /\ log[i] = k /\ result[i] = 0 /\ Asked(i)
                               /\ result' = [result EXCEPT ![i] = len[k] + 1]
    PROVE  Inv'
<1>1. TypeOK /\ HandsInv /\ LinesInv /\ AppendsInv /\ HandlesInv /\ LengthsInv
  BY DEF Inv
<1>2. UNCHANGED <<writable, made, method, log, via, settled, value, known, logs, subscribed>>
  BY DEF requests, answers, child
<1>3. HandsInv' /\ \A i : Asked(i)' <=> Asked(i)
  BY <1>1, <1>2, HandsKept DEF HandsInv
<1>4. \A i \in CallIds : i > made => result'[i] = result[i]
  <2> SUFFICES ASSUME NEW j \in CallIds, j > made
               PROVE  result'[j] = result[j]
    OBVIOUS
  <2>1. CASE result' = result
    BY <2>1
  <2>2. ASSUME NEW i \in begun, Asked(i), result' = [result EXCEPT ![i] = len[k] + 1]
        PROVE  result'[j] = result[j]
    <3>1. i \in CallIds /\ i <= made
      BY <1>1, <2>2 DEF TypeOK, HandsInv
    <3>2. i # j
      BY <3>1, CallFacts, <1>1 DEF TypeOK
    <3> QED
      BY <1>1, <2>2, <3>2 DEF TypeOK
  <2> QED
    BY <2>1, <2>2
<1>5. LinesInv'
  BY <1>1, <1>2, <1>3, <1>4, LinesGrown
<1>6. AppendsInv'
  BY <1>1, <1>2, <1>3, AppendsGrown
<1>7. HandlesInv' /\ LengthsInv'
  BY <1>1, <1>2, TellsGrown
<1> QED
  BY <1>3, <1>5, <1>6, <1>7 DEF Inv

LEMMA HandleInv ==
    ASSUME Inv, NEW f \in feeds, Handle(f) \/ FinishAsk(f)
    PROVE  Inv'
<1> DEFINE i == Head(f)
           k == log[i]
<1>0. TypeOK /\ HandsInv /\ LinesInv /\ AppendsInv /\ HandlesInv /\ LengthsInv
  BY DEF Inv
<1>1. TypeOK'
  BY <1>0, HandleTypes
<1>2. i \in CallIds /\ Asked(i) /\ i <= made /\ result[i] \in Nat
  BY <1>0, HeadFacts DEF TypeOK
<1>3. method[i] \in {"openLog", "appendBlock", "closeLog"} => k \in Logs
  BY <1>0, <1>2 DEF LinesInv
<1>4. i \notin begun => result[i] = 0
  BY <1>0, <1>2 DEF AppendsInv
<1>5. method[i] # "appendBlock" => result[i] = 0
  BY <1>0, <1>2 DEF AppendsInv
<1> HIDE DEF i, k
<1>6. ASSUME up, Throws(f), result[i] = 0
      PROVE  Inv'
  <2>1. PICK ok \in BOOLEAN : ~ok /\ Reply(f, ok, 0) /\ UNCHANGED <<result, len>>
    BY <1>6 DEF Throws
  <2>2. subscribed' \subseteq subscribed
    BY <1>6 DEF Throws, child
  <2> QED
    BY <1>1, <1>6, <2>1, <2>2, ReplyInv DEF i
<1>7. ASSUME up, NEW ok \in BOOLEAN, Reply(f, ok, 0), UNCHANGED <<result, len, subscribed>>,
             method[i] \notin {"appendBlock", "openLog"}
      PROVE  Inv'
  BY <1>1, <1>7, ReplyInv DEF i
<1>8. ASSUME Waits(f), subscribed' \subseteq subscribed, i \notin begun
      PROVE  Inv'
  BY <1>1, <1>4, <1>8, WaitsInv DEF Waits, i
<1>9. CASE Begin(f)
  <2>1. PICK m \in {"init", "openLog", "appendBlock", "closeLog", "ask"} :
          /\ Dispatch(f, m)
          /\ \/ Refused(m, k) /\ Throws(f)
             \/ /\ m = "closeLog" /\ k \notin table
                /\ Reply(f, TRUE, 0) /\ UNCHANGED <<result, child, len>>
             \/ /\ m = "closeLog" /\ k \in table
                /\ Waits(f)
                /\ subscribed' = subscribed \ {k}
                /\ UNCHANGED <<runtime, table, visited, cleared, shut>>
             \/ m # "closeLog" /\ ~Refused(m, k) /\ Waits(f) /\ UNCHANGED child
    BY <1>9 DEF Begin, k, i
  <2>2. up /\ i \notin begun /\ method[i] = m
    BY <2>1 DEF Dispatch, i
  <2>3. UNCHANGED child => subscribed' = subscribed
    BY DEF child
  <2> QED
    BY <1>4, <1>6, <1>7, <1>8, <2>1, <2>2, <2>3
<1>10. CASE FinishInit(f)
  BY <1>5, <1>6, <1>7, <1>10 DEF FinishInit, Resumes, i
<1>11. CASE FinishOpen(f)
  <2>1. up /\ method[i] = "openLog" /\ k \in Logs
    BY <1>3, <1>11 DEF FinishOpen, Resumes, i
  <2>2. CASE Throws(f)
    BY <1>5, <1>6, <2>1, <2>2
  <2>3. CASE /\ Reply(f, TRUE, len[k]) /\ table' = table \cup {k}
             /\ subscribed' = IF k \in table THEN subscribed ELSE subscribed \cup {k}
             /\ UNCHANGED <<result, runtime, visited, cleared, shut, len>>
    <3>1. len[k] \in Nat
      BY <1>0, <2>1 DEF TypeOK
    <3> QED
      BY <1>1, <2>1, <2>3, <3>1, ReplyInv DEF i, k
  <2> QED
    BY <1>11, <2>2, <2>3 DEF FinishOpen, k, i
<1>12. CASE AppendBlock(f)
  <2>1. up /\ i \in begun /\ method[i] = "appendBlock" /\ k \in Logs /\ result[i] = 0
    BY <1>3, <1>12 DEF AppendBlock, Resumes, i
  <2>2. CASE Throws(f)
    BY <1>6, <2>1, <2>2
  <2>3. CASE /\ len' = [len EXCEPT ![k] = @ + 1]
             /\ result' = [result EXCEPT ![i] = len[k] + 1]
             /\ toParent' = Grown(k)
             /\ UNCHANGED <<requests, answers, toChild, ended, up, feeds, begun, child, missed>>
    BY <1>1, <1>2, <2>1, <2>3, GrownInv DEF k
  <2> QED
    BY <1>12, <2>2, <2>3 DEF AppendBlock, k, i
<1>13. CASE FinishAppend(f)
  <2>1. /\ up /\ i \in begun /\ method[i] = "appendBlock" /\ result[i] # 0
        /\ \A j \in begun : log[j] = log[i] /\ result[j] # 0 => result[i] <= result[j]
        /\ Reply(f, TRUE, result[i]) /\ UNCHANGED <<result, child, len>>
    BY <1>13 DEF FinishAppend, Resumes, AppendResult, i
  <2>2. subscribed' = subscribed
    BY <2>1 DEF child
  <2> QED
    BY <1>1, <1>2, <2>1, <2>2, ReplyInv DEF i
<1>14. CASE FinishAsk(f)
  BY <1>7, <1>14 DEF FinishAsk, Resumes, child, i
<1>15. CASE FinishCloseLog(f)
  BY <1>7, <1>15 DEF FinishCloseLog, Resumes, Throws, child, i
<1>16. CASE ShutLog(f) \/ ClearTable(f)
  <2>1. /\ begun' = begun \cup {Head(f)} /\ subscribed' \subseteq subscribed
        /\ UNCHANGED <<requests, answers, toChild, toParent, up, feeds, result, len, missed>>
        /\ method[i] = "shutdown"
    BY <1>16 DEF ShutLog, ClearTable, Shutting, Dispatch, Resumes, i
  <2> QED
    BY <1>1, <2>1, WaitsInv DEF i
<1>17. CASE FinishShutdown(f)
  BY <1>7, <1>17 DEF FinishShutdown, Resumes, i
<1> QED
  BY <1>9, <1>10, <1>11, <1>12, <1>13, <1>14, <1>15, <1>16, <1>17 DEF Handle

LEMMA InitInv == Init => Inv
<1> SUFFICES ASSUME Init
             PROVE  Inv
  OBVIOUS
<1>1. Len(toChild) = 0 /\ Len(toParent) = 0
  BY DEF Init
<1>2. TypeOK
  <2>1. /\ method \in [CallIds -> Methods \cup {"none"}] /\ log \in [CallIds -> Logs \cup {NoLog}]
        /\ via \in [CallIds -> CallIds \cup {NoCall}] /\ value \in [CallIds -> Nat]
        /\ settled \in [CallIds -> {"unmade", "pending", "resolved", "rejected"}]
        /\ known \in [CallIds -> Nat \cup {NoObject}] /\ result \in [CallIds -> Nat]
        /\ logs \in [Logs -> CallIds \cup {NoCall}] /\ len \in [Logs -> Nat]
    BY DEF Init
  <2>2. toChild \in Seq(CallIds) /\ toParent \in Seq(Line)
    BY DEF Init
  <2>3. made \in 0..MaxCalls
    BY CallsAssumption DEF Init
  <2> QED
    BY <2>1, <2>2, <2>3 DEF Init, TypeOK
<1>3. \A i : ~Asked(i)
  BY <1>1 DEF Init, Asked
<1>4. \A k : HandlesOf(k) = {} /\ InFlight(k) = {}
  BY DEF Init, HandlesOf, InFlight
<1>5. RepliesIn(toParent) = {} /\ \A i : RepliesTo(toParent, i) = {}
  BY <1>1 DEF RepliesIn, RepliesTo
<1>6. \A k : OpensIn(toParent, k) = {} /\ EventsIn(toParent, k) = {}
  BY <1>1, <1>5 DEF OpensIn, EventsIn
<1>7. HandsInv
  BY <1>1, <1>3 DEF Init, HandsInv
<1>8. LinesInv
  BY <1>3, <1>5 DEF Init, LinesInv
<1>9. AppendsInv
  BY <1>4, <1>5 DEF Init, AppendsInv
<1>10. HandlesInv
  BY <1>4, <1>6 DEF Init, HandlesInv
<1>11. LengthsInv
  BY DEF Init, LengthsInv
<1> QED
  BY <1>2, <1>7, <1>8, <1>9, <1>10, <1>11 DEF Inv

LEMMA ReadInv ==
    ASSUME Inv, ParentReads
    PROVE  Inv'
<1>1. TypeOK /\ HandsInv /\ LinesInv /\ AppendsInv /\ HandlesInv /\ LengthsInv
  BY DEF Inv
<1>2. PICK n \in 1..Len(toParent) : ReadTo(n)
  BY <1>1, ReadFacts
<1>3. TypeOK'
  BY <1>1, ReadTypes
<1>4. HandsInv'
  <2>1. UNCHANGED <<toChild, feeds, made, begun>>
    BY <1>2 DEF ReadTo, requests
  <2> QED
    BY <1>1, <2>1, HandsKept DEF HandsInv
<1>5. LinesInv'
  BY <1>1, <1>2, LinesRead
<1>6. AppendsInv'
  BY <1>1, <1>2, <1>3, AppendsRead
<1>7. HandlesInv'
  BY <1>1, <1>2, <1>3, HandlesRead
<1>8. LengthsInv'
  BY <1>1, <1>2, <1>3, LengthsRead
<1> QED
  BY <1>3, <1>4, <1>5, <1>6, <1>7, <1>8 DEF Inv

\* After the child's end nothing is said of lengths.
LEMMA ExitInv ==
    ASSUME Inv, Exit \/ ExitSeen
    PROVE  Inv'
<1>1. TypeOK /\ HandsInv /\ LinesInv /\ AppendsInv /\ HandlesInv /\ LengthsInv
  BY DEF Inv
<1>2. TypeOK'
  BY <1>1, TypeNext DEF Next
<1>3. HandsInv'
  <2>1. UNCHANGED <<toChild, feeds, made, begun>>
    BY DEF Exit, ExitSeen, requests
  <2> QED
    BY <1>1, <2>1, HandsKept DEF HandsInv
<1>4. LinesInv'
  BY <1>1, LinesExit, LinesExitSeen
<1>5. AppendsInv'
  BY <1>1, AppendsExit
<1>6. /\ ~up' /\ UNCHANGED <<method, log, known, logs>>
      /\ \A h \in CallIds : settled'[h] = "pending" => settled[h] = "pending"
  BY DEF Exit, ExitSeen, requests, answers, TypeOK
<1>7. \A k : HandlesOf(k)' = HandlesOf(k)
  BY <1>6 DEF HandlesOf
<1>8. HandlesInv'
  BY <1>1, <1>6, <1>7 DEF HandlesInv
<1>9. LengthsInv'
  BY <1>6 DEF LengthsInv
<1> QED
  BY <1>2, <1>3, <1>4, <1>5, <1>8, <1>9 DEF Inv

\* A step that only moves requests, or nothing.
LEMMA StillInv ==
    ASSUME Inv, TypeOK', HandsInv', \A i : Asked(i)' <=> Asked(i),
           UNCHANGED <<requests, answers, toParent, up, begun, result, child, len, missed>>
    PROVE  Inv'
<1>1. TypeOK /\ HandsInv /\ LinesInv /\ AppendsInv /\ HandlesInv /\ LengthsInv
  BY DEF Inv
<1>2. UNCHANGED <<writable, made, method, log, via, settled, value, known, logs, subscribed>>
  BY DEF requests, answers, child
<1>3. LinesInv'
  BY <1>1, <1>2, LinesKept
<1>4. AppendsInv'
  BY <1>1, <1>2, AppendsKept
<1>5. HandlesInv' /\ LengthsInv'
  BY <1>1, <1>2, TellsKept
<1> QED
  BY <1>3, <1>4, <1>5 DEF Inv

LEMMA NextInv == Inv /\ [Next]_vars => Inv'
<1> SUFFICES ASSUME Inv, [Next]_vars
             PROVE  Inv'
  OBVIOUS
<1>1. TypeOK /\ HandsInv /\ LinesInv /\ AppendsInv /\ HandlesInv /\ LengthsInv
  BY DEF Inv
<1>2. TypeOK'
  BY <1>1, TypeNext
<1>3. ASSUME UNCHANGED <<requests, answers, toChild, toParent, up, feeds, begun, result, child,
                         len, missed>>
      PROVE  Inv'
  <2>1. HandsInv' /\ \A i : Asked(i)' <=> Asked(i)
    BY <1>1, <1>3, HandsKept DEF requests, HandsInv
  <2> QED
    BY <1>2, <1>3, <2>1, StillInv
<1>4. CASE Ready
  BY <1>4, RpcInv DEF Ready, Methods
<1>5. CASE Ask
  BY <1>5, RpcInv DEF Ask, Methods
<1>6. CASE CloseRuntime
  <2>1. CASE Rpc("shutdown", NoLog, NoCall)
    BY <2>1, RpcInv DEF Methods
  <2> QED
    BY <1>3, <1>6, <2>1 DEF CloseRuntime
<1>7. ASSUME NEW k \in Logs, OpenLog(k)
      PROVE  Inv'
  BY <1>7, RpcInv DEF OpenLog, Methods
<1>8. ASSUME NEW k \in Logs, Replicated(k)
      PROVE  Inv'
  <2>1. /\ k \notin writable /\ len' = [len EXCEPT ![k] = @ + 1] /\ toParent' = Grown(k)
        /\ UNCHANGED <<requests, answers, toChild, up, feeds, begun, result, child, missed>>
    BY <1>8 DEF Replicated
  <2> QED
    BY <1>2, <2>1, GrownInv
<1>9. ASSUME NEW h \in CallIds, OnHandle(h)
      PROVE  Inv'
  <2>1. log[h] \in Logs /\ h \in HandlesOf(log[h])
    BY <1>1, <1>9 DEF OnHandle, HandlesInv, HandlesOf
  <2>2. CASE log[h] \in writable /\ Rpc("appendBlock", log[h], h)
    BY <2>1, <2>2, RpcInv DEF Methods
  <2>3. CASE Rpc("closeLog", log[h], h)
    BY <2>1, <2>3, RpcInv DEF Methods
  <2> QED
    BY <1>9, <2>2, <2>3 DEF OnHandle
<1>10. CASE ChildReads
  <2>1. HandsInv' /\ \A i : Asked(i)' <=> Asked(i)
    BY <1>1, <1>10, ReadsHands
  <2> QED
    BY <1>2, <1>10, <2>1, StillInv DEF ChildReads
<1>11. CASE UNCHANGED vars
  BY <1>3, <1>11 DEF vars
<1> QED
  BY <1>4, <1>5, <1>6, <1>7, <1>8, <1>9, <1>10, <1>11, ReadInv, ExitInv, HandleInv DEF Next

LEMMA Invariance == Spec => []Inv
<1> QED
  BY InitInv, NextInv, PTL DEF Spec

-----------------------------------------------------------------------------
(* What the parent may rely on. *)

\* The types of both processes' tables and of the pipes between them
\* (p2p-runtime/src/ipc), for any logs and any number of calls.
THEOREM TypeCorrect == Spec => []TypeOK
<1>1. Inv => TypeOK
  BY DEF Inv
<1> QED
  BY <1>1, Invariance, PTL

\* "Append a single block.  Returns the new length" (ParentLog.append of parent.ts,
\* dispatchAppendBlock of child.ts): the lengths that appends return are within
\* the log, and no two of one log return the same.
THEOREM AppendsAreNumbered == Spec => []AppendsNumberBlocks
<1>1. Inv => AppendsNumberBlocks
  <2> SUFFICES ASSUME Inv, NEW k \in Logs, NEW i \in Appends(k), NEW j \in Appends(k)
               PROVE  value[i] \in 1..len[k] /\ (value[i] = value[j] => i = j)
    BY DEF AppendsNumberBlocks
  <2>1. TypeOK /\ AppendsInv
    BY DEF Inv
  <2>2. /\ value[i] = result[i] /\ result[i] # 0 /\ value[j] = result[j] /\ result[i] <= len[k]
        /\ log[i] = log[j]
    BY <2>1 DEF Appends, AppendsInv
  <2>3. result[i] \in Nat /\ len[k] \in Nat
    BY <2>1 DEF TypeOK, Appends
  <2> QED
    BY <2>1, <2>2, <2>3 DEF Appends, AppendsInv
<1> QED
  BY <1>1, Invariance, PTL

\* The length of a handle (ParentLog._length of parent.ts), set by openLog, by append()
\* and by the events of the child: once nothing is under way, the only handle of a
\* subscribed log that did not grow before it had a handle has the log's length.
THEOREM HandlesKeepUp == Spec => []LengthSettles
<1>1. Inv => LengthSettles
  <2> SUFFICES ASSUME Inv, up, toParent = <<>>, feeds = {},
                      NEW k \in subscribed \ missed, NEW h \in CallIds, HandlesOf(k) = {h}
               PROVE  known[h] = len[k]
    BY DEF LengthSettles
  <2>1. TypeOK /\ HandsInv /\ LengthsInv
    BY DEF Inv
  <2>2. Len(toParent) = 0
    OBVIOUS
  <2>3. RepliesIn(toParent) = {} /\ EventsIn(toParent, k) = {}
    BY <2>2 DEF RepliesIn, EventsIn
  <2>4. AppendsIn(toParent, k) = {} /\ OpensIn(toParent, k) = {}
    BY <2>3 DEF AppendsIn, OpensIn
  <2>5. InFlight(k) = {}
    BY <2>1 DEF HandsInv, InFlight
  <2>6. Objects(k) = {h}
    BY <2>4 DEF Objects
  <2>7. Follows(toParent, h, k, len[k])
    BY <2>1, <2>6 DEF LengthsInv
  <2>8. known[h] # NoObject
    BY DEF HandlesOf
  <2> QED
    BY <2>3, <2>4, <2>5, <2>7, <2>8 DEF Follows
<1> QED
  BY <1>1, Invariance, PTL
=============================================================================
