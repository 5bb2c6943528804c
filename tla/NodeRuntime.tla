------------------------------ MODULE NodeRuntime ------------------------------
(***************************************************************************)
(* A runtime with all that meets in it (packages/p2p-runtime/src/          *)
(* runtime.node.ts): the connections of AuthGate, the topics joined and    *)
(* left, each holding a discovery of the swarm, and the workspace opened   *)
(* over the runtime (packages/workspace/src/index.ts), which announces     *)
(* itself under a topic in the background and tells its status listeners   *)
(* how the announce and the peers stand.                                   *)
(***************************************************************************)
EXTENDS AuthGate

CONSTANTS
    Topics,       \* topics the runtime's users join
    Own,          \* the one of them the workspace announces itself under
    Discoveries,  \* what swarm.join may return
    Leavers,      \* leaveTopic calls that may be under way at once
    None

ASSUME OwnIsATopic == Own \in Topics
ASSUME NoneIsNew == None \notin Topics \cup Discoveries

VARIABLES
    wantSwarm,   \* the runtime was not created with `swarm: false`
    joined,      \* joinedTopics: the discovery recorded for each topic
    live,        \* discoveries not destroyed, each with its topic
    flushing,    \* discoveries whose announce has not been answered
    leaving,     \* the topic and discovery each leaveTopic call destroys
    crossed,     \* history: topics two calls have been leaving at the same time
    stuck,       \* topics whose discovery could not be destroyed, still recorded
    announce,    \* the workspace: none, pending, announced, failed, local-only
    announcing,  \* the discovery its announce waits for
    open,        \* the workspace has been opened and not closed
    told         \* the status last given to a listener, None before it listens

topics == <<joined, live, flushing, leaving, crossed, stuck>>
session == <<announce, announcing, open>>
allVars == <<vars, wantSwarm, topics, session, told>>

NotLeaving == [topic |-> None, discovery |-> None]

InitRuntime ==
    /\ Init
    /\ wantSwarm = swarm
    /\ joined = [t \in Topics |-> None]
    /\ live = {} /\ flushing = {} /\ crossed = {} /\ stuck = {}
    /\ leaving = [l \in Leavers |-> NotLeaving]
    /\ announce = "none" /\ announcing = None /\ open = FALSE /\ told = None

-----------------------------------------------------------------------------
(* Topics. *)

\* A discovery somebody still has a reference to.
InUse == {x.discovery : x \in live} \cup flushing \cup
         {joined[t] : t \in Topics} \cup {leaving[l].discovery : l \in Leavers}

\* swarm.join() for a topic that is not recorded.  The discovery is recorded
\* before its flush is awaited.
Join(t, d) ==
    /\ joined[t] = None /\ d \notin InUse
    /\ joined' = [joined EXCEPT ![t] = d]
    /\ live' = live \cup {[topic |-> t, discovery |-> d]}
    /\ flushing' = flushing \cup {d}
    /\ UNCHANGED <<leaving, crossed, stuck>>

\* joinTopic of a user of the runtime.  A recorded topic is left as it is.
JoinTopic(t, d) ==
    /\ swarm /\ Join(t, d)
    /\ UNCHANGED <<vars, wantSwarm, session, told>>

\* leaveTopic takes the recorded discovery and waits for its destruction.
LeaveTopic(l, t) ==
    /\ leaving[l] = NotLeaving /\ joined[t] # None
    /\ leaving' = [leaving EXCEPT ![l] = [topic |-> t, discovery |-> joined[t]]]
    /\ crossed' = IF \E k \in Leavers : leaving[k].topic = t THEN crossed \cup {t} ELSE crossed
    /\ UNCHANGED <<vars, wantSwarm, joined, live, flushing, stuck, session, told>>

\* destroy() takes effect: the topic is not announced any more.  It is recorded
\* until the call is answered, so that joins of it do nothing.
Withdraw(l) ==
    /\ leaving[l] \in live
    /\ live' = live \ {leaving[l]}
    /\ UNCHANGED <<vars, wantSwarm, joined, flushing, leaving, crossed, stuck, session, told>>

\* A topic that stays recorded when its discovery is destroyed.
LeftRecorded(t) == joined

\* Whatever is recorded for the topic by now is forgotten.
Forgotten(t) == [joined EXCEPT ![t] = None]

Forget(l) ==
    /\ leaving[l] # NotLeaving /\ leaving[l] \notin live
    /\ joined' = Forgotten(leaving[l].topic)
    /\ leaving' = [leaving EXCEPT ![l] = NotLeaving]
    /\ stuck' = stuck \ {leaving[l].topic}
    /\ UNCHANGED <<vars, wantSwarm, live, flushing, crossed, session, told>>

\* destroy() rejects, and so does leaveTopic: the topic stays recorded.
LeaveFails(l) ==
    /\ leaving[l] # NotLeaving
    /\ leaving' = [leaving EXCEPT ![l] = NotLeaving]
    /\ stuck' = stuck \cup {leaving[l].topic}
    /\ UNCHANGED <<vars, wantSwarm, joined, live, flushing, crossed, session, told>>

-----------------------------------------------------------------------------
(* The workspace. *)

StatusOf(counted, state) == [peers |-> Cardinality(counted), announce |-> state]

Status == StatusOf(peers, announce)

\* emitStatus(): everyone who listens hears the status as it is.
EmitStatus(counted, state) == IF told = None THEN None ELSE StatusOf(counted, state)

\* The constructor takes the announce that announceInBackground began: none
\* on a local-only runtime, and a topic recorded already is not joined again.
OpenWorkspace(d) ==
    /\ announce = "none" /\ swarm = wantSwarm
    /\ open' = TRUE
    /\ IF wantSwarm /\ joined[Own] = None
       THEN Join(Own, d) /\ announcing' = d
       ELSE UNCHANGED <<topics, announcing>>
    /\ announce' = IF wantSwarm THEN "pending" ELSE "local-only"
    /\ UNCHANGED <<vars, wantSwarm, told>>

\* onStatus: a reader of status() that goes on listening.
OnStatus ==
    /\ open /\ told = None
    /\ told' = Status
    /\ UNCHANGED <<vars, wantSwarm, topics, session>>

\* An announce that succeeds is told, and one that fails is not.
ToldOfSuccess(state) ==
    IF state = "announced" THEN EmitStatus(peers, state) ELSE told

ToldOfAnnounce(state) == EmitStatus(peers, state)

\* setAnnounce: nothing is told once the workspace has been closed.
SetAnnounce(state) ==
    IF open THEN announce' = state /\ told' = ToldOfAnnounce(state)
    ELSE UNCHANGED <<announce, told>>

\* A flush is answered, well or badly, and the workspace hears of its own.
Flushes(d, ok) ==
    /\ d \in flushing
    /\ flushing' = flushing \ {d}
    /\ IF d = announcing
       THEN /\ SetAnnounce(IF ok THEN "announced" ELSE "failed")
            /\ announcing' = None
       ELSE UNCHANGED <<announce, told, announcing>>
    /\ UNCHANGED <<vars, wantSwarm, joined, live, leaving, crossed, stuck, open>>

\* A join of the workspace's topic that found it recorded has resolved.
JoinedAlready ==
    /\ open /\ announce = "pending" /\ announcing = None
    /\ SetAnnounce("announced")
    /\ UNCHANGED <<vars, wantSwarm, topics, announcing, open>>

\* close() clears the listeners before it says that it is closed.
CloseWorkspace ==
    /\ open
    /\ open' = FALSE /\ told' = None
    /\ UNCHANGED <<vars, wantSwarm, topics, announce, announcing>>

-----------------------------------------------------------------------------
\* runtime.close() destroys the swarm, its connections and its discoveries.
\* The table of topics is left as it is.
CloseRuntime ==
    /\ DestroySwarm
    /\ live' = {}
    /\ UNCHANGED <<wantSwarm, joined, flushing, leaving, crossed, stuck, session, told>>

\* notifyPeers(): the workspace emits its status on each change of the peers.
ToldOfPeers == IF peers' # peers /\ open THEN EmitStatus(peers', announce) ELSE told

\* A step of a connection.
ConnectionStep(c) ==
    /\ \/ Connect(c) \/ ChannelTaken(c) \/ Message(c) \/ TimesOut(c)
       \/ VerifySettles(c) \/ Drops(c) \/ Closes(c)
    /\ UNCHANGED <<wantSwarm, topics, session>>
    /\ told' = ToldOfPeers

NextRuntime ==
    \/ OnStatus \/ JoinedAlready \/ CloseWorkspace \/ CloseRuntime
    \/ \E c \in Conns : ConnectionStep(c)
    \/ \E l \in Leavers :
          \/ Withdraw(l) \/ Forget(l) \/ LeaveFails(l)
          \/ \E t \in Topics : LeaveTopic(l, t)
    \/ \E d \in Discoveries :
          \/ OpenWorkspace(d) \/ (\E ok \in BOOLEAN : Flushes(d, ok))
          \/ \E t \in Topics : JoinTopic(t, d)

SpecRuntime == InitRuntime /\ [][NextRuntime]_allVars

\* As AuthGate assumes it: timers fire, local verification ends, and a
\* destroyed stream closes.
FairRuntime ==
    /\ SpecRuntime
    /\ \A c \in Conns :
          /\ WF_allVars(TimesOut(c) /\ ConnectionStep(c))
          /\ WF_allVars(VerifySettles(c) /\ ConnectionStep(c))
          /\ WF_allVars(Closes(c) /\ ConnectionStep(c))

-----------------------------------------------------------------------------
(* Properties. *)

TypeOKRuntime ==
    /\ TypeOK
    /\ wantSwarm \in BOOLEAN /\ open \in BOOLEAN
    /\ joined \in [Topics -> Discoveries \cup {None}]
    /\ live \subseteq [topic : Topics, discovery : Discoveries]
    /\ flushing \subseteq Discoveries /\ crossed \subseteq Topics /\ stuck \subseteq Topics
    /\ leaving \in [Leavers -> {NotLeaving} \cup [topic : Topics, discovery : Discoveries]]
    /\ announce \in {"none", "pending", "announced", "failed", "local-only"}
    /\ announcing \in Discoveries \cup {None}
    /\ told = None \/ told \in [peers : Nat,
                                announce : {"pending", "announced", "failed", "local-only"}]

\* Nothing is announced that is not recorded, or nobody could leave it any more,
\* and what is recorded is announced, or being left, or could not be left.  This
\* is lost once two calls have been leaving one topic at the same time: the later
\* one then forgets what was joined in between.
TopicsAgree ==
    swarm => \A t \in Topics \ crossed, d \in Discoveries :
        LET announced == [topic |-> t, discovery |-> d] \in live IN
        /\ announced => joined[t] = d
        /\ joined[t] = d =>
            announced \/ t \in stuck \/ \E l \in Leavers : leaving[l].topic = t

\* What a status listener heard last is what status() says.
StatusTold == open /\ told # None => told = Status
=============================================================================
