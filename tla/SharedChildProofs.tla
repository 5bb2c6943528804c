--------------------------- MODULE SharedChildProofs ---------------------------
(***************************************************************************)
(* SharedChild for any callers and any number of transports: what opens,   *)
(* crashes and failed launches may do to the one child, and a teardown.    *)
(***************************************************************************)
EXTENDS SharedChild, TLAPS

CallStates == {"none", "asked", "launched", "failed", "refused", "refused over", "over"}

Types ==
    /\ shared \in Transports \cup {None} /\ spawning \in Transports \cup {None}
    /\ task \in Transports \cup {None}
    /\ call \in [Transports -> CallStates]
    /\ child \in [Transports -> {"none", "running", "ended", "reaped"}]

\* What holds with and without a teardown: a child that has ended leaves its
\* event to whoever is not closed, because nobody else stops listening.
Noticed ==
    /\ SpawningIsUnderWay
    /\ shared # None => child[shared] # "none"
    /\ \A t \in Transports :
          /\ call[t] = "launched" => child[t] # "none"
          /\ child[t] # "none" => call[t] \notin {"none", "asked"}
          /\ t \in subscribed \cup closed \cup closing => call[t] # "none"
          /\ call[t] # "none" /\ t \notin closed => t \in subscribed
          /\ child[t] = "reaped" /\ t \notin closed => t \in exits
          /\ t \in exits => child[t] = "reaped"

\* A child whose end has not reached JavaScript.
Unheard(t) == child[t] \in {"running", "ended"} \/ t \in exits

\* Without a teardown one transport at a time has such a child: the one being
\* spawned, or else the one that can be used.
OneAtATime ==
    /\ closing = {}
    /\ spawning # None => ~Reusable
    /\ \A t \in Transports :
          /\ call[t] \notin {"refused", "refused over"}
          /\ call[t] \in {"asked", "launched", "failed"} => spawning = t
          /\ call[t] = "asked" => t \notin closed /\ ~Unheard(t)
          /\ Unheard(t) => t \notin closed /\ (call[t] = "launched" \/ shared = t)

Inv == Types /\ Noticed /\ (~torn => OneAtATime)

-----------------------------------------------------------------------------

LEMMA InitInv == ASSUME Init PROVE Inv
  BY NoneIsNoTransport DEF Init, Inv, Types, CallStates, Noticed, SpawningIsUnderWay,
                           OneAtATime, Unheard

\* The variables' types.
LEMMA TypesStep == ASSUME Types, [Next]_vars PROVE Types'
  BY NoneIsNoTransport
  DEF Types, CallStates, Next, vars, native, TearDown, AskAndShare, AskAndSpawn, SpawnReturns,
      ClearedSpawning, ExitArrives, CloseReturns, RunSpawn, RunClose, TimerFires, TaskRuns,
      Ends, Reaped

\* An end is noticed, whoever asks, returns or tears down.
LEMMA NoticedStep == ASSUME Types, Noticed, [Next]_vars PROVE Noticed'
<1> USE NoneIsNoTransport DEF Types, CallStates, Noticed, SpawningIsUnderWay
<1>1. CASE TearDown
  BY <1>1 DEF TearDown, Reusable, native
<1>2. ASSUME NEW c \in Callers, AskAndShare(c) PROVE Noticed'
  BY <1>2 DEF AskAndShare, native
<1>3. ASSUME NEW c \in Callers, NEW t \in Transports, AskAndSpawn(c, t) PROVE Noticed'
  BY <1>3 DEF AskAndSpawn, native
<1>4. ASSUME NEW t \in Transports, SpawnReturns(t) PROVE Noticed'
  BY <1>4 DEF SpawnReturns, ClearedSpawning, native
<1>5. ASSUME NEW t \in Transports, ExitArrives(t) PROVE Noticed'
  BY <1>5 DEF ExitArrives, Told
<1>6. ASSUME NEW t \in Transports, CloseReturns(t) PROVE Noticed'
  BY <1>6 DEF CloseReturns, native
<1>7. ASSUME NEW t \in Transports, RunSpawn(t) PROVE Noticed'
  BY <1>7 DEF RunSpawn
<1>8. ASSUME NEW t \in Transports, RunClose(t) PROVE Noticed'
  BY <1>8 DEF RunClose
<1>9. ASSUME NEW t \in Transports, TimerFires(t) PROVE Noticed'
  BY <1>9 DEF TimerFires, TaskRuns
<1>10. ASSUME NEW t \in Transports, Ends(t) PROVE Noticed'
  BY <1>10 DEF Ends
<1>11. ASSUME NEW t \in Transports, Reaped(t) PROVE Noticed'
  BY <1>11 DEF Reaped
<1>12. CASE UNCHANGED vars
  BY <1>12 DEF vars, native
<1>13. QED
  BY <1>1, <1>2, <1>3, <1>4, <1>5, <1>6, <1>7, <1>8, <1>9, <1>10, <1>11, <1>12 DEF Next

\* Opens, crashes and failed launches keep one child at a time.
LEMMA OneAtATimeStep ==
    ASSUME Types, Noticed, OneAtATime, ~torn, [Next]_vars, ~torn'
    PROVE  OneAtATime'
<1> USE NoneIsNoTransport DEF Types, CallStates, OneAtATime, Reusable, Unheard
<1>1. CASE TearDown
  BY <1>1 DEF TearDown
<1>2. ASSUME NEW c \in Callers, AskAndShare(c) PROVE OneAtATime'
  BY <1>2 DEF AskAndShare, native
<1>3. ASSUME NEW c \in Callers, NEW t \in Transports, AskAndSpawn(c, t) PROVE OneAtATime'
  <2>1. /\ spawning = None /\ ~Reusable /\ call[t] = "none"
        /\ spawning' = t /\ call' = [call EXCEPT ![t] = "asked"]
        /\ UNCHANGED <<shared, closed, closing, child, exits>>
    BY <1>3 DEF AskAndSpawn, MustSpawn, native
  <2>2. t \notin closed /\ ~Unheard(t)
    BY <2>1 DEF Noticed
  <2>3. QED
    BY <2>1, <2>2
<1>4. ASSUME NEW t \in Transports, SpawnReturns(t) PROVE OneAtATime'
  BY <1>4 DEF SpawnReturns, ClearedSpawning, native
<1>5. ASSUME NEW t \in Transports, ExitArrives(t) PROVE OneAtATime'
  <2>0. t \in exits
    BY <1>5 DEF ExitArrives
  <2>1. spawning \in {None, t} /\ call[t] # "asked"
    BY <2>0
  <2>2. \A u \in Transports : call[u] # "asked"
    BY <2>1
  <2>3. \A u \in Transports : u # t => ~Unheard(u)
    BY <2>0, <2>1
  <2>4. child[t] = "reaped"
    BY <1>5 DEF ExitArrives, Noticed
  <2>5. \A u \in Transports : ~Unheard(u)'
    BY <1>5, <2>3, <2>4 DEF ExitArrives
  <2>6. /\ call' = call /\ spawning' = spawning /\ shared' = shared /\ closing' = closing
        /\ closed \subseteq closed'
    BY <1>5 DEF ExitArrives
  <2> HIDE DEF Unheard
  <2>7. QED
    BY <2>2, <2>5, <2>6
<1>6. ASSUME NEW t \in Transports, CloseReturns(t) PROVE OneAtATime'
  BY <1>6 DEF CloseReturns
<1>7. ASSUME NEW t \in Transports, RunSpawn(t) PROVE OneAtATime'
  <2>1. ~TaskRuns
    BY <1>7 DEF RunSpawn, TaskRuns
  <2>2. /\ spawning = t /\ t \notin closed /\ UNCHANGED <<shared, spawning, closed, closing, exits>>
        /\ \A u \in Transports : u # t => call'[u] = call[u] /\ child'[u] = child[u]
    BY <1>7, <2>1 DEF RunSpawn
  <2>3. \/ child'[t] = "running" /\ call'[t] = "launched"
        \/ child'[t] = child[t] /\ call'[t] = "failed"
    BY <1>7, <2>1 DEF RunSpawn
  <2>4. ~Unheard(t)
    BY <1>7 DEF RunSpawn
  <2>5. QED
    BY <2>2, <2>3, <2>4
<1>8. ASSUME NEW t \in Transports, RunClose(t) PROVE OneAtATime'
  BY <1>8 DEF RunClose
<1>9. ASSUME NEW t \in Transports, TimerFires(t) PROVE OneAtATime'
  BY <1>9 DEF TimerFires, TaskRuns
<1>10. ASSUME NEW t \in Transports, Ends(t) PROVE OneAtATime'
  BY <1>10 DEF Ends
<1>11. ASSUME NEW t \in Transports, Reaped(t) PROVE OneAtATime'
  BY <1>11 DEF Reaped
<1>12. CASE UNCHANGED vars
  BY <1>12 DEF vars, native
<1>13. QED
  BY <1>1, <1>2, <1>3, <1>4, <1>5, <1>6, <1>7, <1>8, <1>9, <1>10, <1>11, <1>12 DEF Next

\* A teardown is never undone.
LEMMA TornStays == ASSUME [Next]_vars, torn PROVE torn'
  BY DEF Next, vars, native, TearDown, AskAndShare, AskAndSpawn, SpawnReturns, ExitArrives,
         CloseReturns, RunSpawn, RunClose, TimerFires, Ends, Reaped

LEMMA Invariance == Spec => []Inv
<1>1. Inv /\ [Next]_vars => Inv'
  BY TypesStep, NoticedStep, OneAtATimeStep, TornStays DEF Inv
<1>2. QED
  BY InitInv, <1>1, PTL DEF Spec

-----------------------------------------------------------------------------
(* The theorems. *)

\* The rest of the variables' types.
LEMMA TypeOKStep == ASSUME TypeOK, [Next]_vars PROVE TypeOK'
<1>0. Types
  BY DEF TypeOK, Types, CallStates
<1>1. Types'
  BY <1>0, TypesStep
<1>2. waits' \in [Callers -> Transports \cup {None}]
  <2>0. waits \in [Callers -> Transports \cup {None}] /\ spawning \in Transports \cup {None}
    BY DEF TypeOK
  <2>1. ASSUME NEW c \in Callers, AskAndShare(c) \/ \E t \in Transports : AskAndSpawn(c, t)
        PROVE  waits' \in [Callers -> Transports \cup {None}]
    BY <2>0, <2>1 DEF AskAndShare, AskAndSpawn
  <2>2. ASSUME NEW t \in Transports, SpawnReturns(t)
        PROVE  waits' \in [Callers -> Transports \cup {None}]
    BY <2>0, <2>2 DEF SpawnReturns
  <2>3. CASE waits' = waits
    BY <2>0, <2>3
  <2> QED
    BY <2>1, <2>2, <2>3 DEF Next, vars, native, TearDown, ExitArrives, CloseReturns, RunSpawn,
                            RunClose, TimerFires, Ends, Reaped
<1>3. /\ subscribed' \subseteq Transports /\ closed' \subseteq Transports
      /\ closing' \subseteq Transports /\ timers' \subseteq Transports
      /\ exits' \subseteq Transports /\ torn' \in BOOLEAN
  BY DEF TypeOK, Next, vars, native, TearDown, Reusable, Told, AskAndShare, AskAndSpawn, SpawnReturns,
         ExitArrives, CloseReturns, RunSpawn, RunClose, TimerFires, Ends, Reaped
<1>4. queue' \in Seq([op : {"spawn", "close"}, on : Transports])
  <2> DEFINE Ops == [op : {"spawn", "close"}, on : Transports]
  <2>1. queue \in Seq(Ops)
    BY DEF TypeOK
  <2>2. \A t \in Transports : [op |-> "spawn", on |-> t] \in Ops /\ [op |-> "close", on |-> t] \in Ops
    OBVIOUS
  <2>3. \/ queue' = queue
        \/ \E t \in Transports : queue' = Append(queue, [op |-> "spawn", on |-> t])
        \/ \E t \in Transports : queue' = Append(queue, [op |-> "close", on |-> t])
        \/ queue # <<>> /\ queue' = Tail(queue)
    BY DEF TypeOK, Next, vars, native, TearDown, Reusable, AskAndShare, AskAndSpawn, SpawnReturns,
           ExitArrives, CloseReturns, RunSpawn, RunClose, TimerFires, Ends, Reaped
  <2> SUFFICES queue' \in Seq(Ops)
    OBVIOUS
  <2> HIDE DEF Ops
  <2>4. ASSUME NEW x \in Ops
        PROVE  Append(queue, x) \in Seq(Ops)
    BY <2>1
  <2>5. queue # <<>> => Tail(queue) \in Seq(Ops)
    BY <2>1
  <2> QED
    BY <2>1, <2>2, <2>3, <2>4, <2>5
<1> QED
  BY <1>1, <1>2, <1>3, <1>4 DEF TypeOK, Types, CallStates

\* The types of what JavaScript and the native module keep (remote.macos.ts,
\* transport.macos.ts, P2PRuntimeModule.mm), for any callers and transports.
THEOREM TypeCorrect == Spec => []TypeOK
<1>1. Init => TypeOK
  <2>1. <<>> \in Seq([op : {"spawn", "close"}, on : Transports])
    OBVIOUS
  <2> QED
    BY <2>1 DEF Init, TypeOK
<1>2. TypeOK /\ [Next]_vars => TypeOK'
  BY TypeOKStep
<1> QED
  BY <1>1, <1>2, PTL DEF Spec

\* NoSpawnRefused: as long as nobody tears the child down, however opens,
\* crashes and failed launches fall, each spawn finds no child running.
THEOREM SpawnsAreNotRefused == Spec => []NoSpawnRefused
<1>1. Inv => NoSpawnRefused
  BY DEF Inv, OneAtATime, NoSpawnRefused
<1>2. QED
  BY Invariance, <1>1, PTL

\* EndIsNoticed: the transport callers are given has a child whose end, if it
\* has come, is still going to be heard; a teardown does not change that.
THEOREM EndsAreNoticed == Spec => []EndIsNoticed
<1>1. Inv => EndIsNoticed
  BY DEF Inv, Types, Noticed, EndIsNoticed, Reusable
<1>2. QED
  BY Invariance, <1>1, PTL

\* SpawningIsUnderWay: what callers are made to await is yet to be answered.
THEOREM SpawningIsAwaited == Spec => []SpawningIsUnderWay
<1>1. Inv => SpawningIsUnderWay
  BY DEF Inv, Noticed
<1>2. QED
  BY Invariance, <1>1, PTL
=============================================================================
