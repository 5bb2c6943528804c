--------------------------- MODULE NodeRuntimeProofs ---------------------------
(***************************************************************************)
(* The gate of AuthGate and the runtime of NodeRuntime for any connections *)
(* (finitely many or not), topics, discoveries and overlapping leaveTopic  *)
(* calls.  First the gate by itself, then that a runtime's connections     *)
(* behave as AuthGate says whatever topics and workspace do, that the      *)
(* topics announced are those recorded, and that status listeners are up   *)
(* to date.                                                                *)
(***************************************************************************)
EXTENDS NodeRuntime, FiniteSetTheorems, TLAPS

-----------------------------------------------------------------------------
\* TypeOK but for the count, and what the gate's steps keep true together: the
\* peers are the connections with the forget listener, and are finitely many.
GateInv ==
    /\ gated \in BOOLEAN /\ member \subseteq Conns
    /\ conn \in [Conns -> {"absent", "open", "ending", "closed"}]
    /\ gate \in [Conns -> {"none", "waiting", "verifying", "over"}]
    /\ timer \subseteq Conns /\ peers \subseteq Conns
    /\ replicating \subseteq Conns /\ swarm \in BOOLEAN
    /\ forgets = peers /\ IsFiniteSet(peers)

Inv == GateInv /\ CountIsCurrent /\ OnlyMembersReplicate

-----------------------------------------------------------------------------
(* The operators. *)

\* Destroying connections keeps their type, and closes none.
LEMMA DestroyedType ==
    ASSUME GateInv, NEW ended
    PROVE  /\ Destroyed(ended) \in [Conns -> {"absent", "open", "ending", "closed"}]
           /\ \A c \in Conns : Destroyed(ended)[c] = "closed" => conn[c] = "closed"
  BY DEF GateInv, Destroyed

\* Admitting a connection makes it a peer with its listener, and counts it.
LEMMA AdmitCounts ==
    ASSUME GateInv, CountIsCurrent, NEW c \in Conns, Admit(c)
    PROVE  /\ peers' = peers \cup {c} /\ forgets' = peers' /\ IsFiniteSet(peers')
           /\ count' = Cardinality(peers')
<1>1. CASE c \in peers
  <2>1. peers \cup {c} = peers
    BY <1>1
  <2>2. UNCHANGED <<peers, count, forgets>>
    BY <1>1 DEF Admit
  <2>3. QED
    BY <2>1, <2>2 DEF GateInv, CountIsCurrent
<1>2. CASE c \notin peers
  <2>1. /\ peers' = peers \cup {c} /\ forgets' = forgets \cup {c}
        /\ count' = Cardinality(peers')
    BY <1>2 DEF Admit
  <2>2. IsFiniteSet(peers \cup {c})
    BY FS_AddElement DEF GateInv
  <2>3. QED
    BY <2>1, <2>2 DEF GateInv
<1>3. QED
  BY <1>1, <1>2

-----------------------------------------------------------------------------
(* The invariant. *)

\* It holds when the runtime starts.
LEMMA InitInv == ASSUME Init PROVE Inv
<1>1. IsFiniteSet(peers) /\ Cardinality(peers) = 0
  BY FS_EmptySet DEF Init
<1>2. QED
  BY <1>1 DEF Init, Inv, GateInv, CountIsCurrent, OnlyMembersReplicate

\* Every step of a connection keeps it.
LEMMA ConnStepInv ==
    ASSUME Inv, NEW c \in Conns,
           \/ Connect(c) \/ ChannelTaken(c) \/ Message(c) \/ TimesOut(c)
           \/ VerifySettles(c) \/ Drops(c) \/ Closes(c)
    PROVE  Inv'
<1> USE DEF Inv, GateInv, CountIsCurrent, OnlyMembersReplicate
<1>1. CASE Connect(c)
  <2>1. CASE gated
    BY <1>1, <2>1 DEF Connect
  <2>2. CASE ~gated
    <3>1. Admit(c) /\ replicating' = replicating \cup {c} /\ ~gated'
      BY <1>1, <2>2 DEF Connect
    <3>2. /\ peers' = peers \cup {c} /\ forgets' = peers' /\ IsFiniteSet(peers')
          /\ count' = Cardinality(peers')
      BY <3>1, AdmitCounts
    <3>3. UNCHANGED <<gate, timer, gated, member, swarm>>
          /\ conn' = [conn EXCEPT ![c] = "open"]
      BY <1>1, <2>2 DEF Connect
    <3>4. QED
      BY <3>1, <3>2, <3>3
  <2>3. QED
    BY <2>1, <2>2
<1>2. CASE ChannelTaken(c)
  BY <1>2 DEF ChannelTaken
<1>3. CASE Message(c)
  BY <1>3 DEF Message
<1>4. CASE TimesOut(c)
  BY <1>4, DestroyedType DEF TimesOut
<1>5. CASE VerifySettles(c)
  <2>1. CASE Verified(c)
    <3>1. Admit(c) /\ replicating' = replicating \cup {c} /\ c \in member
      BY <1>5, <2>1 DEF VerifySettles, Verified
    <3>2. /\ peers' = peers \cup {c} /\ forgets' = peers' /\ IsFiniteSet(peers')
          /\ count' = Cardinality(peers')
      BY <3>1, AdmitCounts
    <3>3. UNCHANGED <<conn, gated, member, timer, swarm>>
          /\ gate' = [gate EXCEPT ![c] = "over"]
      BY <1>5, <2>1 DEF VerifySettles
    <3>4. QED
      BY <3>1, <3>2, <3>3
  <2>2. CASE ~Verified(c)
    BY <1>5, <2>2, DestroyedType DEF VerifySettles
  <2>3. QED
    BY <2>1, <2>2
<1>6. CASE Drops(c)
  BY <1>6, DestroyedType DEF Drops
<1>7. CASE Closes(c)
  <2>1. /\ conn' = [conn EXCEPT ![c] = "closed"] /\ replicating' = replicating \ {c}
        /\ forgets' = forgets \ {c}
        /\ UNCHANGED <<gated, member, gate, timer, swarm>>
    BY <1>7 DEF Closes
  <2>2. CASE c \in forgets
    <3>1. peers' = peers \ {c} /\ count' = Cardinality(peers \ {c})
      BY <1>7, <2>2 DEF Closes, CountAfter
    <3>2. IsFiniteSet(peers \ {c})
      BY FS_RemoveElement
    <3>3. QED
      BY <2>1, <3>1, <3>2
  <2>3. CASE c \notin forgets
    <3>1. UNCHANGED <<peers, count>> /\ forgets \ {c} = forgets
      BY <1>7, <2>3 DEF Closes
    <3>2. QED
      BY <2>1, <3>1
  <2>4. QED
    BY <2>2, <2>3
<1>8. QED
  BY <1>1, <1>2, <1>3, <1>4, <1>5, <1>6, <1>7

\* Every step of the runtime keeps it.
LEMMA NextInv == ASSUME Inv, [Next]_vars PROVE Inv'
<1>1. CASE DestroySwarm
  BY <1>1, DestroyedType
     DEF DestroySwarm, Inv, GateInv, CountIsCurrent, OnlyMembersReplicate
<1>2. CASE \E c \in Conns : \/ Connect(c) \/ ChannelTaken(c) \/ Message(c) \/ TimesOut(c)
                            \/ VerifySettles(c) \/ Drops(c) \/ Closes(c)
  BY <1>2, ConnStepInv
<1>3. CASE UNCHANGED vars
  BY <1>3 DEF vars, Inv, GateInv, CountIsCurrent, OnlyMembersReplicate
<1>4. QED
  BY <1>1, <1>2, <1>3 DEF Next

\* It is an invariant.
LEMMA InvHolds == Spec => []Inv
  BY InitInv, NextInv, PTL DEF Spec

-----------------------------------------------------------------------------
(* The theorems. *)

\* The runtime's tables keep their types (runtime.node.ts:142-157).
THEOREM TypeCorrect == Spec => []TypeOK
<1>1. ASSUME Inv PROVE TypeOK
  <2>1. Cardinality(peers) \in Nat
    BY <1>1, FS_CardinalityType DEF Inv, GateInv
  <2>2. QED
    BY <1>1, <2>1 DEF Inv, GateInv, CountIsCurrent, TypeOK
<1>2. QED
  BY <1>1, InvHolds, PTL

\* Behind a gate, however proofs, timeouts, verdicts, ends of connections and the
\* shutdown interleave, only members replicate or count (runtime.node.ts:228-268).
THEOREM GateKeepsOthersOut == Spec => []OnlyMembersReplicate
<1>1. ASSUME Inv PROVE OnlyMembersReplicate
  BY <1>1 DEF Inv
<1>2. QED
  BY <1>1, InvHolds, PTL

\* The number the listeners were last told is how many peers there are
\* (runtime.node.ts:294-297).
THEOREM ListenersAreCurrent == Spec => []CountIsCurrent
<1>1. ASSUME Inv PROVE CountIsCurrent
  BY <1>1 DEF Inv
<1>2. QED
  BY <1>1, InvHolds, PTL

\* The step in which a connection closes is the one that forgets it, because every
\* peer has the forget listener (runtime.node.ts:286-292).
THEOREM CloseForgets == Spec => ClosedIsForgotten
<1>1. ASSUME Inv, [Next]_vars, NEW c \in Conns, conn[c] # "closed", conn'[c] = "closed"
      PROVE  c \notin peers'
  <2>1. CASE Closes(c)
    BY <1>1, <2>1 DEF Closes, Inv, GateInv
  <2>2. ASSUME NEW d \in Conns, Closes(d), d # c PROVE FALSE
    BY <1>1, <2>2 DEF Closes, Inv, GateInv
  <2>3. CASE DestroySwarm
    BY <1>1, <2>3, DestroyedType DEF DestroySwarm, Inv
  <2>4. ASSUME NEW d \in Conns,
               \/ Connect(d) \/ ChannelTaken(d) \/ Message(d) \/ TimesOut(d)
               \/ VerifySettles(d) \/ Drops(d)
        PROVE  FALSE
    <3>1. CASE Connect(d) \/ ChannelTaken(d) \/ Message(d)
      BY <1>1, <3>1 DEF Connect, ChannelTaken, Message, Inv, GateInv
    <3>2. CASE TimesOut(d) \/ VerifySettles(d) \/ Drops(d)
      BY <1>1, <3>2, DestroyedType DEF TimesOut, VerifySettles, Drops, Inv, GateInv
    <3>3. QED
      BY <2>4, <3>1, <3>2
  <2>5. CASE UNCHANGED vars
    BY <1>1, <2>5 DEF vars
  <2>6. QED
    BY <1>1, <2>1, <2>2, <2>3, <2>4, <2>5 DEF Next
<1>2. ASSUME Inv, [Next]_vars
      PROVE  [\A c \in Conns : conn[c] # "closed" /\ conn'[c] = "closed" => c \notin peers']_vars
  BY <1>1, <1>2
<1>3. QED
  BY <1>2, InvHolds, PTL DEF Spec, ClosedIsForgotten

-----------------------------------------------------------------------------
(* The runtime's connections. *)

\* Topics and workspace leave the connections alone.
LEMMA GateOrStutter == ASSUME NextRuntime PROVE [Next]_vars
<1>1. CASE OnStatus
  BY <1>1 DEF OnStatus
<1>2. CASE JoinedAlready
  BY <1>2 DEF JoinedAlready
<1>3. CASE CloseWorkspace
  BY <1>3 DEF CloseWorkspace
<1>4. CASE CloseRuntime
  BY <1>4 DEF CloseRuntime, Next
<1>5. ASSUME NEW c \in Conns, ConnectionStep(c) PROVE Next
  BY <1>5 DEF ConnectionStep, Next
<1>6. ASSUME NEW l \in Leavers, Withdraw(l) \/ Forget(l) \/ LeaveFails(l) PROVE UNCHANGED vars
  BY <1>6 DEF Withdraw, Forget, LeaveFails
<1>7. ASSUME NEW l \in Leavers, NEW t \in Topics, LeaveTopic(l, t) PROVE UNCHANGED vars
  BY <1>7 DEF LeaveTopic
<1>8. ASSUME NEW d \in Discoveries, OpenWorkspace(d) PROVE UNCHANGED vars
  BY <1>8 DEF OpenWorkspace
<1>9. ASSUME NEW d \in Discoveries, NEW ok \in BOOLEAN, Flushes(d, ok) PROVE UNCHANGED vars
  BY <1>9 DEF Flushes
<1>10. ASSUME NEW d \in Discoveries, NEW t \in Topics, JoinTopic(t, d) PROVE UNCHANGED vars
  BY <1>10 DEF JoinTopic
<1> QED
  BY <1>1, <1>2, <1>3, <1>4, <1>5, <1>6, <1>7, <1>8, <1>9, <1>10 DEF NextRuntime

\* A runtime with topics and a workspace is one that AuthGate describes: what
\* is proved of the gate holds of it.
THEOREM RuntimeKeepsGate == SpecRuntime => Spec
<1>1. InitRuntime => Init
  BY DEF InitRuntime
<1>2. [NextRuntime]_allVars => [Next]_vars
  <2>1. UNCHANGED allVars => UNCHANGED vars
    BY DEF allVars
  <2> QED
    BY <2>1, GateOrStutter
<1> QED
  BY <1>1, <1>2, PTL DEF SpecRuntime, Spec

-----------------------------------------------------------------------------
(* The topics. *)

Calls == [topic : Topics, discovery : Discoveries]

\* A topic that was never left twice at once is being left by one call at
\* most, and by that one it is the recorded discovery that is destroyed.
TopicInv ==
    /\ joined \in [Topics -> Discoveries \cup {None}]
    /\ leaving \in [Leavers -> Calls \cup {NotLeaving}]
    /\ \A l, k \in Leavers : leaving[l] # NotLeaving /\ leaving[l].topic \notin crossed
                             /\ leaving[k].topic = leaving[l].topic => k = l
    /\ \A l \in Leavers : leaving[l] # NotLeaving /\ leaving[l].topic \notin crossed
                          => joined[leaving[l].topic] = leaving[l].discovery
    /\ TopicsAgree

LEMMA LeaverTopics ==
    ASSUME TopicInv, NEW l \in Leavers, leaving[l] # NotLeaving
    PROVE  /\ leaving[l] \in Calls /\ leaving[l].topic \in Topics
           /\ leaving[l].discovery \in Discoveries
           /\ leaving[l] = [topic |-> leaving[l].topic, discovery |-> leaving[l].discovery]
  BY DEF TopicInv, Calls

\* What joining adds, it records: nobody is leaving a topic that is not joined.
LEMMA JoinAgrees ==
    ASSUME TopicInv, NEW t \in Topics, NEW d \in Discoveries, Join(t, d), UNCHANGED swarm
    PROVE  TopicInv'
<1>1. /\ joined' = [joined EXCEPT ![t] = d] /\ joined[t] = None
      /\ live' = live \cup {[topic |-> t, discovery |-> d]}
      /\ leaving' = leaving /\ crossed' = crossed /\ stuck' = stuck
  BY DEF Join
<1>2. \A l \in Leavers : leaving[l] # NotLeaving /\ leaving[l].topic \notin crossed
                         => leaving[l].topic # t
  BY <1>1, NoneIsNew DEF TopicInv, Calls
<1>3. joined' \in [Topics -> Discoveries \cup {None}] /\ joined'[t] = d
      /\ \A u \in Topics : u # t => joined'[u] = joined[u]
  BY <1>1 DEF TopicInv
<1>4. ASSUME swarm, NEW u \in Topics \ crossed, NEW e \in Discoveries
      PROVE  LET announced == [topic |-> u, discovery |-> e] \in live' IN
             /\ announced => joined'[u] = e
             /\ joined'[u] = e =>
                  announced \/ u \in stuck \/ \E l \in Leavers : leaving[l].topic = u
  <2>1. /\ [topic |-> u, discovery |-> e] \in live => joined[u] = e
        /\ joined[u] = e => \/ [topic |-> u, discovery |-> e] \in live
                            \/ u \in stuck \/ \E l \in Leavers : leaving[l].topic = u
    BY <1>4 DEF TopicInv, TopicsAgree
  <2>2. CASE u = t
    <3>1. [topic |-> u, discovery |-> e] \notin live
      BY <2>1, <2>2, <1>1, NoneIsNew
    <3>2. [topic |-> u, discovery |-> e] = [topic |-> t, discovery |-> d] <=> e = d
      BY <2>2
    <3> QED
      BY <3>1, <3>2, <1>1, <1>3, <2>2
  <2>3. CASE u # t
    <3>1. [topic |-> u, discovery |-> e] # [topic |-> t, discovery |-> d]
      BY <2>3
    <3> QED
      BY <3>1, <2>1, <2>3, <1>1, <1>3
  <2> QED
    BY <2>2, <2>3
<1>5. TopicsAgree'
  BY <1>1, <1>4 DEF TopicsAgree
<1>6. \A l \in Leavers : leaving[l] # NotLeaving /\ leaving[l].topic \notin crossed
                         => joined'[leaving[l].topic] = leaving[l].discovery
  BY <1>1, <1>2 DEF TopicInv, Calls
<1>7. QED
  BY <1>1, <1>3, <1>5, <1>6 DEF TopicInv, NotLeaving

\* A leave that finds another of its topic under way makes the topic crossed.
LEMMA LeaveAgrees ==
    ASSUME TopicInv, NEW l \in Leavers, NEW t \in Topics, LeaveTopic(l, t)
    PROVE  TopicInv'
<1>1. /\ leaving' = [leaving EXCEPT ![l] = [topic |-> t, discovery |-> joined[t]]]
      /\ crossed' = IF \E k \in Leavers : leaving[k].topic = t THEN crossed \cup {t} ELSE crossed
      /\ joined' = joined /\ live' = live /\ swarm' = swarm /\ stuck' = stuck
      /\ leaving[l] = NotLeaving /\ joined[t] # None
  BY DEF LeaveTopic, vars
<1>2. [topic |-> t, discovery |-> joined[t]] \in Calls
  BY <1>1 DEF TopicInv, Calls
<1>3. leaving' \in [Leavers -> Calls \cup {NotLeaving}]
  BY <1>1, <1>2 DEF TopicInv
<1>4. \A k \in Leavers : k # l => leaving'[k] = leaving[k]
  BY <1>1 DEF TopicInv
<1>5. leaving'[l] = [topic |-> t, discovery |-> joined[t]]
  BY <1>1 DEF TopicInv
<1>6. t \notin crossed' => \A k \in Leavers : leaving[k].topic # t
  BY <1>1
<1>7. crossed \subseteq crossed'
  BY <1>1
<1>8. TopicsAgree'
  <2>1. \A u \in Topics : (\E k \in Leavers : leaving[k].topic = u)
                          => \E k \in Leavers : leaving'[k].topic = u
    BY <1>1, <1>4, NoneIsNew DEF NotLeaving
  <2> QED
    BY <1>1, <1>7, <2>1 DEF TopicInv, TopicsAgree
<1>9. \A j, k \in Leavers : leaving'[j] # NotLeaving /\ leaving'[j].topic \notin crossed'
                           /\ leaving'[k].topic = leaving'[j].topic => k = j
  BY <1>4, <1>5, <1>6, <1>7 DEF TopicInv
<1>10. \A k \in Leavers : leaving'[k] # NotLeaving /\ leaving'[k].topic \notin crossed'
                          => joined'[leaving'[k].topic] = leaving'[k].discovery
  BY <1>1, <1>4, <1>5, <1>7 DEF TopicInv
<1>11. QED
  BY <1>1, <1>3, <1>8, <1>9, <1>10 DEF TopicInv, NotLeaving

\* A discovery that is withdrawn is that of a topic being left.
LEMMA WithdrawAgrees ==
    ASSUME TopicInv, NEW l \in Leavers, Withdraw(l)
    PROVE  TopicInv'
<1>1. /\ live' = live \ {leaving[l]}
      /\ UNCHANGED <<joined, leaving, crossed, stuck, swarm>>
  BY DEF Withdraw, vars
<1>2. TopicsAgree'
  <2> SUFFICES ASSUME swarm, NEW u \in Topics \ crossed, NEW d \in Discoveries
               PROVE  LET announced == [topic |-> u, discovery |-> d] \in live' IN
                      /\ announced => joined[u] = d
                      /\ joined[u] = d =>
                           announced \/ u \in stuck \/ \E k \in Leavers : leaving[k].topic = u
    BY <1>1 DEF TopicsAgree
  <2>1. /\ [topic |-> u, discovery |-> d] \in live => joined[u] = d
        /\ joined[u] = d => \/ [topic |-> u, discovery |-> d] \in live
                            \/ u \in stuck \/ \E k \in Leavers : leaving[k].topic = u
    BY DEF TopicInv, TopicsAgree
  <2>2. leaving[l] = [topic |-> u, discovery |-> d] => leaving[l].topic = u
    OBVIOUS
  <2> QED
    BY <1>1, <2>1, <2>2
<1> QED
  BY <1>1, <1>2 DEF TopicInv, NotLeaving

\* A call of leaveTopic ends: the other calls go on as they were.
LEMMA OthersGoOn ==
    ASSUME TopicInv, NEW l \in Leavers, leaving[l] # NotLeaving,
           leaving' = [leaving EXCEPT ![l] = NotLeaving], UNCHANGED crossed
    PROVE  /\ leaving' \in [Leavers -> Calls \cup {NotLeaving}]
           /\ leaving'[l] = NotLeaving /\ \A k \in Leavers : k # l => leaving'[k] = leaving[k]
           /\ \A j, k \in Leavers : leaving'[j] # NotLeaving /\ leaving'[j].topic \notin crossed
                                    /\ leaving'[k].topic = leaving'[j].topic => k = j
           /\ \A k \in Leavers : k # l /\ leaving[k] # NotLeaving /\ leaving[k].topic \notin crossed
                                 => leaving[k].topic # leaving[l].topic
<1>1. /\ leaving' \in [Leavers -> Calls \cup {NotLeaving}]
      /\ leaving'[l] = NotLeaving /\ \A k \in Leavers : k # l => leaving'[k] = leaving[k]
  BY DEF TopicInv
<1>2. \A j, k \in Leavers : leaving'[j] # NotLeaving /\ leaving'[j].topic \notin crossed
                            /\ leaving'[k].topic = leaving'[j].topic => k = j
  <2> SUFFICES ASSUME NEW j \in Leavers, NEW k \in Leavers, leaving'[j] # NotLeaving,
                      leaving'[j].topic \notin crossed, leaving'[k].topic = leaving'[j].topic
               PROVE  k = j
    OBVIOUS
  <2>1. leaving'[j] = leaving[j] /\ leaving[j].topic \in Topics
    BY <1>1, LeaverTopics
  <2>2. leaving'[k] # NotLeaving
    BY <2>1, NoneIsNew DEF NotLeaving
  <2>3. leaving'[k] = leaving[k]
    BY <2>2, <1>1
  <2> QED
    BY <2>1, <2>3 DEF TopicInv
<1>3. \A k \in Leavers : k # l /\ leaving[k] # NotLeaving /\ leaving[k].topic \notin crossed
                         => leaving[k].topic # leaving[l].topic
  BY DEF TopicInv
<1> QED
  BY <1>1, <1>2, <1>3

\* The one call that leaves a topic forgets the discovery it has destroyed.
LEMMA ForgetAgrees ==
    ASSUME TopicInv, NEW l \in Leavers, Forget(l)
    PROVE  TopicInv'
<1> DEFINE t == leaving[l].topic
<1>1. /\ leaving[l] # NotLeaving /\ leaving[l] \notin live /\ live' = live
      /\ joined' = [joined EXCEPT ![t] = None]
      /\ leaving' = [leaving EXCEPT ![l] = NotLeaving]
      /\ stuck' = stuck \ {t} /\ crossed' = crossed /\ swarm' = swarm
  BY DEF Forget, Forgotten, vars
<1>2. t \in Topics /\ leaving[l] = [topic |-> t, discovery |-> leaving[l].discovery]
  BY <1>1, LeaverTopics
<1>3. /\ joined' \in [Topics -> Discoveries \cup {None}] /\ joined'[t] = None
      /\ \A u \in Topics : u # t => joined'[u] = joined[u]
  BY <1>1, <1>2 DEF TopicInv
<1>4. t \notin crossed => joined[t] = leaving[l].discovery
  BY <1>1 DEF TopicInv
<1> HIDE DEF t
<1>5. /\ leaving'[l] = NotLeaving /\ \A k \in Leavers : k # l => leaving'[k] = leaving[k]
      /\ leaving' \in [Leavers -> Calls \cup {NotLeaving}]
      /\ \A j, k \in Leavers : leaving'[j] # NotLeaving /\ leaving'[j].topic \notin crossed'
                               /\ leaving'[k].topic = leaving'[j].topic => k = j
      /\ \A k \in Leavers : k # l /\ leaving[k] # NotLeaving /\ leaving[k].topic \notin crossed
                            => leaving[k].topic # t
  BY <1>1, OthersGoOn DEF t
<1>6. ASSUME swarm, NEW u \in Topics \ crossed, NEW d \in Discoveries
      PROVE  LET announced == [topic |-> u, discovery |-> d] \in live IN
             /\ announced => joined'[u] = d
             /\ joined'[u] = d =>
                  announced \/ u \in stuck' \/ \E k \in Leavers : leaving'[k].topic = u
  <2>1. /\ [topic |-> u, discovery |-> d] \in live => joined[u] = d
        /\ joined[u] = d => \/ [topic |-> u, discovery |-> d] \in live
                            \/ u \in stuck \/ \E k \in Leavers : leaving[k].topic = u
    BY <1>6 DEF TopicInv, TopicsAgree
  <2>2. CASE u = t
    <3>1. [topic |-> u, discovery |-> d] \notin live
      BY <1>1, <1>2, <1>4, <2>1, <2>2
    <3> QED
      BY <1>3, <2>2, <3>1, NoneIsNew
  <2>3. CASE u # t
    <3>1. ASSUME NEW k \in Leavers, leaving[k].topic = u
          PROVE  leaving'[k].topic = u
      BY <1>5, <2>3, <3>1 DEF t
    <3> QED
      BY <1>1, <1>3, <2>1, <2>3, <3>1
  <2> QED
    BY <2>2, <2>3
<1>7. TopicsAgree'
  BY <1>1, <1>6 DEF TopicsAgree
<1>8. \A k \in Leavers : leaving'[k] # NotLeaving /\ leaving'[k].topic \notin crossed'
                         => joined'[leaving'[k].topic] = leaving'[k].discovery
  <2> SUFFICES ASSUME NEW k \in Leavers, leaving'[k] # NotLeaving, leaving'[k].topic \notin crossed'
               PROVE  joined'[leaving'[k].topic] = leaving'[k].discovery
    OBVIOUS
  <2>1. k # l /\ leaving'[k] = leaving[k] /\ leaving[k].topic # t
    BY <1>1, <1>5
  <2>2. leaving[k].topic \in Topics
    BY <2>1, LeaverTopics
  <2> QED
    BY <1>1, <1>3, <2>1, <2>2 DEF TopicInv
<1> QED
  BY <1>3, <1>5, <1>7, <1>8 DEF TopicInv, NotLeaving

\* A topic that could not be left stays recorded.
LEMMA FailAgrees ==
    ASSUME TopicInv, NEW l \in Leavers, LeaveFails(l)
    PROVE  TopicInv'
<1>1. /\ leaving[l] # NotLeaving /\ leaving' = [leaving EXCEPT ![l] = NotLeaving]
      /\ stuck' = stuck \cup {leaving[l].topic}
      /\ UNCHANGED <<joined, live, crossed, swarm>>
  BY DEF LeaveFails, vars
<1>2. /\ leaving'[l] = NotLeaving /\ \A k \in Leavers : k # l => leaving'[k] = leaving[k]
      /\ leaving' \in [Leavers -> Calls \cup {NotLeaving}]
      /\ \A j, k \in Leavers : leaving'[j] # NotLeaving /\ leaving'[j].topic \notin crossed'
                               /\ leaving'[k].topic = leaving'[j].topic => k = j
  BY <1>1, OthersGoOn
<1>3. TopicsAgree'
  <2>1. \A u \in Topics : (u \in stuck \/ \E k \in Leavers : leaving[k].topic = u)
                          => (u \in stuck' \/ \E k \in Leavers : leaving'[k].topic = u)
    BY <1>1, <1>2
  <2> QED
    BY <1>1, <2>1 DEF TopicInv, TopicsAgree
<1>4. \A k \in Leavers : leaving'[k] # NotLeaving /\ leaving'[k].topic \notin crossed'
                         => joined'[leaving'[k].topic] = leaving'[k].discovery
  BY <1>1, <1>2 DEF TopicInv
<1> QED
  BY <1>1, <1>2, <1>3, <1>4 DEF TopicInv, NotLeaving

\* Each step keeps the tables of topics together.
LEMMA TopicStep == ASSUME TopicInv, [NextRuntime]_allVars PROVE TopicInv'
<1> DEFINE Kept == UNCHANGED <<topics, swarm>>
<1>1. ASSUME Kept PROVE TopicInv'
  BY <1>1 DEF topics, TopicInv, TopicsAgree, NotLeaving
<1>2. CASE OnStatus
  BY <1>1, <1>2 DEF OnStatus, vars
<1>3. CASE JoinedAlready
  BY <1>1, <1>3 DEF JoinedAlready, vars
<1>4. CASE CloseWorkspace
  BY <1>1, <1>4 DEF CloseWorkspace, vars
<1>5. CASE CloseRuntime
  BY <1>5 DEF CloseRuntime, DestroySwarm, TopicInv, TopicsAgree, NotLeaving
<1>6. ASSUME NEW c \in Conns, ConnectionStep(c) PROVE TopicInv'
  BY <1>1, <1>6 DEF ConnectionStep, Connect, ChannelTaken, Message, TimesOut,
                    VerifySettles, Drops, Closes
<1>7. ASSUME NEW l \in Leavers, Withdraw(l) \/ Forget(l) \/ LeaveFails(l) PROVE TopicInv'
  BY <1>7, WithdrawAgrees, ForgetAgrees, FailAgrees
<1>8. ASSUME NEW l \in Leavers, NEW t \in Topics, LeaveTopic(l, t) PROVE TopicInv'
  BY <1>8, LeaveAgrees
<1>9. ASSUME NEW d \in Discoveries, OpenWorkspace(d) PROVE TopicInv'
  <2>1. Join(Own, d) \/ UNCHANGED topics
    BY <1>9 DEF OpenWorkspace
  <2>2. UNCHANGED swarm
    BY <1>9 DEF OpenWorkspace, vars
  <2>3. QED
    BY <2>1, <2>2, <1>1, JoinAgrees, OwnIsATopic
<1>10. ASSUME NEW d \in Discoveries, NEW ok \in BOOLEAN, Flushes(d, ok) PROVE TopicInv'
  BY <1>10 DEF Flushes, TopicInv, TopicsAgree, vars, NotLeaving
<1>11. ASSUME NEW d \in Discoveries, NEW t \in Topics, JoinTopic(t, d) PROVE TopicInv'
  BY <1>11, JoinAgrees DEF JoinTopic, vars
<1>12. CASE UNCHANGED allVars
  BY <1>1, <1>12 DEF allVars, vars
<1>13. QED
  BY <1>2, <1>3, <1>4, <1>5, <1>6, <1>7, <1>8, <1>9, <1>10, <1>11, <1>12 DEF NextRuntime

\* TopicsAgree: while the swarm lives, the discovery that announces a topic is the
\* one joinedTopics holds, and what it holds is announced but for the time between
\* destroy() and the end of leaveTopic, and after a destroy() that rejected: for
\* any joins and leaves, as long as no two leaves of the topic overlapped.
THEOREM RecordedTopicsAreLive == SpecRuntime => []TopicsAgree
<1>1. InitRuntime => TopicInv
  BY NoneIsNew DEF InitRuntime, TopicInv, TopicsAgree
<1>2. TopicInv => TopicsAgree
  BY DEF TopicInv
<1>3. QED
  BY <1>1, <1>2, TopicStep, PTL DEF SpecRuntime

-----------------------------------------------------------------------------
(* The status. *)

\* A workspace that is not open has no listener to tell, and one that is has
\* begun its announce.
StatusInv == StatusTold /\ (~open => told = None) /\ (open => announce # "none")

\* Each step that changes the status tells it.
LEMMA StatusStep == ASSUME StatusInv, [NextRuntime]_allVars PROVE StatusInv'
<1>1. ASSUME UNCHANGED <<peers, announce, open, told>> PROVE StatusInv'
  BY <1>1 DEF StatusInv, StatusTold, Status, StatusOf
<1>2. CASE OnStatus
  BY <1>2 DEF OnStatus, StatusInv, StatusTold, Status, StatusOf, vars, session
<1>3. ASSUME NEW state, state # "none", SetAnnounce(state), UNCHANGED <<peers, open>> PROVE StatusInv'
  BY <1>3 DEF SetAnnounce, ToldOfAnnounce, EmitStatus, StatusInv, StatusTold, Status, StatusOf
<1>4. CASE JoinedAlready
  BY <1>3, <1>4 DEF JoinedAlready, vars
<1>5. CASE CloseWorkspace
  BY <1>5 DEF CloseWorkspace, StatusInv, StatusTold
<1>6. CASE CloseRuntime
  BY <1>1, <1>6 DEF CloseRuntime, DestroySwarm, session
<1>7. ASSUME NEW c \in Conns, ConnectionStep(c) PROVE StatusInv'
  <2>1. UNCHANGED <<announce, open>> /\ told' = ToldOfPeers
    BY <1>7 DEF ConnectionStep, session
  <2>2. CASE peers' = peers
    BY <2>1, <2>2, <1>1 DEF ToldOfPeers
  <2>3. CASE peers' # peers
    BY <2>1, <2>3 DEF ToldOfPeers, EmitStatus, StatusInv, StatusTold, Status, StatusOf
  <2>4. QED
    BY <2>2, <2>3
<1>8. ASSUME NEW l \in Leavers, Withdraw(l) \/ Forget(l) \/ LeaveFails(l) PROVE StatusInv'
  BY <1>1, <1>8 DEF Withdraw, Forget, LeaveFails, vars, session
<1>9. ASSUME NEW l \in Leavers, NEW t \in Topics, LeaveTopic(l, t) PROVE StatusInv'
  BY <1>1, <1>9 DEF LeaveTopic, vars, session
<1>10. ASSUME NEW d \in Discoveries, OpenWorkspace(d) PROVE StatusInv'
  <2>1. told' = told /\ open' = TRUE /\ announce = "none" /\ announce' # "none"
    BY <1>10 DEF OpenWorkspace
  <2>2. QED
    BY <2>1 DEF StatusInv, StatusTold
<1>11. ASSUME NEW d \in Discoveries, NEW ok \in BOOLEAN, Flushes(d, ok) PROVE StatusInv'
  <2>1. UNCHANGED <<peers, open>>
    BY <1>11 DEF Flushes, vars
  <2>2. CASE d = announcing
    BY <1>11, <2>1, <2>2, <1>3 DEF Flushes
  <2>3. CASE d # announcing
    BY <1>11, <2>1, <2>3, <1>1 DEF Flushes
  <2>4. QED
    BY <2>2, <2>3
<1>12. ASSUME NEW d \in Discoveries, NEW t \in Topics, JoinTopic(t, d) PROVE StatusInv'
  BY <1>1, <1>12 DEF JoinTopic, vars, session
<1>13. CASE UNCHANGED allVars
  BY <1>1, <1>13 DEF allVars, vars, session
<1>14. QED
  BY <1>2, <1>4, <1>5, <1>6, <1>7, <1>8, <1>9, <1>10, <1>11, <1>12, <1>13 DEF NextRuntime

\* StatusTold: while the workspace is open, a listener of onStatus has last
\* heard what status() answers.
THEOREM ListenersHearStatus == SpecRuntime => []StatusTold
<1>1. InitRuntime => StatusInv
  BY DEF InitRuntime, StatusInv, StatusTold
<1>2. StatusInv => StatusTold
  BY DEF StatusInv
<1>3. QED
  BY <1>1, <1>2, StatusStep, PTL DEF SpecRuntime

-----------------------------------------------------------------------------
(* Types of the runtime. *)

StatusRecords == [peers : Nat, announce : {"pending", "announced", "failed", "local-only"}]

\* What the invariants of the gate, the topics and the status leave to say.
RestTypes ==
    /\ wantSwarm \in BOOLEAN /\ open \in BOOLEAN
    /\ live \subseteq Calls /\ flushing \subseteq Discoveries /\ crossed \subseteq Topics
    /\ stuck \subseteq Topics
    /\ announce \in {"none", "pending", "announced", "failed", "local-only"}
    /\ announcing \in Discoveries \cup {None}
    /\ told = None \/ told \in StatusRecords

\* A status is told of finitely many peers, and of an announce that has begun.
LEMMA StatusType ==
    ASSUME NEW counted, IsFiniteSet(counted),
           NEW state \in {"pending", "announced", "failed", "local-only"}
    PROVE  StatusOf(counted, state) \in StatusRecords
  BY FS_CardinalityType DEF StatusOf, StatusRecords

LEMMA RestStep ==
    ASSUME Inv, Inv', StatusInv, TopicInv, RestTypes, [NextRuntime]_allVars
    PROVE  RestTypes'
<1>1. IsFiniteSet(peers) /\ IsFiniteSet(peers')
  BY DEF Inv, GateInv
<1>2. open => announce \in {"pending", "announced", "failed", "local-only"}
  BY DEF StatusInv, RestTypes
<1>3. CASE OnStatus
  <2>1. told' \in StatusRecords
    BY <1>1, <1>2, <1>3, StatusType DEF OnStatus, Status
  <2> QED
    BY <1>3, <2>1 DEF OnStatus, topics, session, RestTypes
<1>4. ASSUME NEW state \in {"announced", "failed"}, SetAnnounce(state)
      PROVE  /\ announce' \in {"none", "pending", "announced", "failed", "local-only"}
             /\ told' = None \/ told' \in StatusRecords
  <2>1. StatusOf(peers, state) \in StatusRecords
    BY <1>1, StatusType
  <2> QED
    BY <1>4, <2>1 DEF SetAnnounce, ToldOfAnnounce, EmitStatus, RestTypes
<1>5. CASE JoinedAlready
  <2>1. SetAnnounce("announced") /\ UNCHANGED <<wantSwarm, topics, announcing, open>>
    BY <1>5 DEF JoinedAlready
  <2> QED
    BY <1>4, <2>1 DEF topics, RestTypes
<1>6. CASE CloseWorkspace
  BY <1>6 DEF CloseWorkspace, topics, RestTypes
<1>7. CASE CloseRuntime
  BY <1>7 DEF CloseRuntime, session, RestTypes
<1>8. ASSUME NEW c \in Conns, ConnectionStep(c)
      PROVE  RestTypes'
  <2>1. told' = told \/ (told # None /\ open /\ told' = StatusOf(peers', announce)) \/ told' = None
    BY <1>8 DEF ConnectionStep, ToldOfPeers, EmitStatus
  <2>2. told' = None \/ told' \in StatusRecords
    BY <1>1, <1>2, <2>1, StatusType DEF RestTypes
  <2> QED
    BY <1>8, <2>2 DEF ConnectionStep, topics, session, RestTypes
<1>9. ASSUME NEW l \in Leavers, Withdraw(l) \/ Forget(l) \/ LeaveFails(l)
      PROVE  RestTypes'
  <2>1. leaving[l] # NotLeaving => leaving[l].topic \in Topics
    BY LeaverTopics
  <2> QED
    BY <1>9, <2>1 DEF Withdraw, Forget, LeaveFails, session, RestTypes
<1>10. ASSUME NEW l \in Leavers, NEW t \in Topics, LeaveTopic(l, t)
       PROVE  RestTypes'
  BY <1>10 DEF LeaveTopic, session, RestTypes
<1>11. ASSUME NEW t \in Topics, NEW d \in Discoveries, Join(t, d)
       PROVE  /\ live' \subseteq Calls /\ flushing' \subseteq Discoveries
              /\ crossed' \subseteq Topics /\ stuck' \subseteq Topics
  BY <1>11 DEF Join, RestTypes, Calls
<1>12. ASSUME NEW d \in Discoveries, OpenWorkspace(d)
       PROVE  RestTypes'
  <2>1. /\ open' = TRUE /\ announce' \in {"pending", "local-only"} /\ UNCHANGED <<wantSwarm, told>>
        /\ (Join(Own, d) /\ announcing' = d) \/ UNCHANGED <<topics, announcing>>
    BY <1>12 DEF OpenWorkspace
  <2>2. CASE Join(Own, d) /\ announcing' = d
    BY <1>11, <2>1, <2>2, OwnIsATopic DEF RestTypes
  <2>3. CASE UNCHANGED <<topics, announcing>>
    BY <2>1, <2>3 DEF topics, RestTypes
  <2> QED
    BY <2>1, <2>2, <2>3
<1>13. ASSUME NEW d \in Discoveries, NEW ok \in BOOLEAN, Flushes(d, ok)
       PROVE  RestTypes'
  <2>1. /\ flushing' \subseteq flushing /\ UNCHANGED <<wantSwarm, live, crossed, stuck, open>>
        /\ announcing' \in {announcing, None}
    BY <1>13 DEF Flushes
  <2>2. \/ \E state \in {"announced", "failed"} : SetAnnounce(state)
        \/ UNCHANGED <<announce, told>>
    BY <1>13 DEF Flushes
  <2>3. /\ announce' \in {"none", "pending", "announced", "failed", "local-only"}
        /\ told' = None \/ told' \in StatusRecords
    BY <1>4, <2>2 DEF RestTypes
  <2> QED
    BY <2>1, <2>3 DEF RestTypes
<1>14. ASSUME NEW t \in Topics, NEW d \in Discoveries, JoinTopic(t, d)
       PROVE  RestTypes'
  BY <1>11, <1>14 DEF JoinTopic, session, RestTypes
<1>15. CASE UNCHANGED allVars
  BY <1>15 DEF allVars, topics, session, RestTypes
<1> QED
  BY <1>3, <1>5, <1>6, <1>7, <1>8, <1>9, <1>10, <1>12, <1>13, <1>14, <1>15 DEF NextRuntime

\* The runtime's tables, its announce and what its listeners are told have their
\* types: a listener is never told of an announce that has not begun.
THEOREM RuntimeTypes == SpecRuntime => []TypeOKRuntime
<1>1. InitRuntime => TopicInv /\ StatusInv /\ RestTypes
  <2>1. InitRuntime => TopicInv
    BY NoneIsNew DEF InitRuntime, TopicInv, TopicsAgree
  <2>2. InitRuntime => StatusInv /\ RestTypes
    BY DEF InitRuntime, Init, StatusInv, StatusTold, RestTypes
  <2> QED
    BY <2>1, <2>2
<1>2. Inv /\ TopicInv /\ StatusInv /\ RestTypes => TypeOKRuntime
  <2> SUFFICES ASSUME Inv, TopicInv, RestTypes
               PROVE  TypeOKRuntime
    OBVIOUS
  <2>1. TypeOK
    <3>1. Cardinality(peers) \in Nat
      BY FS_CardinalityType DEF Inv, GateInv
    <3> QED
      BY <3>1 DEF Inv, GateInv, CountIsCurrent, TypeOK
  <2> QED
    BY <2>1 DEF TopicInv, RestTypes, TypeOKRuntime, Calls, StatusRecords
<1>3. SpecRuntime => []Inv
  BY RuntimeKeepsGate, InvHolds, PTL
<1>4. Inv /\ Inv' /\ TopicInv /\ StatusInv /\ RestTypes /\ [NextRuntime]_allVars
          => TopicInv' /\ StatusInv' /\ RestTypes'
  BY TopicStep, StatusStep, RestStep
<1> QED
  BY <1>1, <1>2, <1>3, <1>4, PTL DEF SpecRuntime
=============================================================================
