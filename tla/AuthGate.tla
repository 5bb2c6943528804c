------------------------------- MODULE AuthGate -------------------------------
(***************************************************************************)
(* The connections of one runtime (packages/p2p-runtime/src/               *)
(* runtime.node.ts): each is held at the gate until its membership proof   *)
(* has been verified, then replicates and counts as a peer until it        *)
(* closes.  destroy() and the 'close' event it leads to are two steps.     *)
(***************************************************************************)
EXTENDS Integers, FiniteSets

CONSTANTS
    Conns    \* connections the swarm may hand over

VARIABLES
    gated,        \* the runtime was given ConnectionAuth
    member,       \* connections whose proof verifies
    conn,         \* each connection: absent, open, ending (destroyed), closed
    gate,         \* each gate: none, waiting for a proof, verifying it, over
    timer,        \* connections whose proof timer is armed
    peers,        \* connections counted as peers
    replicating,  \* connections handed to store.replicate
    forgets,      \* connections whose 'close' event has the forget listener
    count,        \* the number last given to the peer listeners
    swarm         \* the swarm is up: a local-only runtime never has one

vars == <<gated, member, conn, gate, timer, peers, replicating, forgets, count, swarm>>

Init ==
    /\ gated \in BOOLEAN /\ member \in SUBSET Conns
    /\ conn = [c \in Conns |-> "absent"] /\ gate = [c \in Conns |-> "none"]
    /\ timer = {} /\ peers = {} /\ replicating = {} /\ forgets = {}
    /\ count = 0 /\ swarm \in BOOLEAN

-----------------------------------------------------------------------------
\* Replicating without counting the connection's end.
AdmitUnwatched(c) ==
    /\ peers' = peers \cup {c}
    /\ count' = Cardinality(peers')
    /\ UNCHANGED forgets

\* admit(): a connection that is counted already is left alone.
Admit(c) ==
    IF c \in peers THEN UNCHANGED <<peers, count, forgets>>
    ELSE /\ peers' = peers \cup {c}
         /\ count' = Cardinality(peers')
         /\ forgets' = forgets \cup {c}

\* A gate that gives up without dropping the connection.
LeftOpen(ended) == conn

\* What destroy() leaves of the connections in `ended`.
Destroyed(ended) ==
    [c \in Conns |-> IF c \in ended /\ conn[c] = "open" THEN "ending" ELSE conn[c]]

\* The 'connection' event.  Without auth the connection replicates at once;
\* otherwise a channel is opened, the timer armed and our proof sent.
Connect(c) ==
    /\ swarm /\ conn[c] = "absent"
    /\ conn' = [conn EXCEPT ![c] = "open"]
    /\ IF gated
       THEN /\ gate' = [gate EXCEPT ![c] = "waiting"]
            /\ timer' = timer \cup {c}
            /\ UNCHANGED <<peers, count, forgets, replicating>>
       ELSE /\ Admit(c) /\ replicating' = replicating \cup {c}
            /\ UNCHANGED <<gate, timer>>
    /\ UNCHANGED <<gated, member, swarm>>

\* The muxer has a channel of this protocol already: drop the connection.
ChannelTaken(c) ==
    /\ swarm /\ conn[c] = "absent" /\ gated
    /\ conn' = [conn EXCEPT ![c] = "ending"]
    /\ UNCHANGED <<gated, member, gate, timer, peers, count, forgets, replicating, swarm>>

\* The peer's proof arrives.  Only the first one, and not after a timeout.
Message(c) ==
    /\ conn[c] = "open" /\ gate[c] = "waiting"
    /\ gate' = [gate EXCEPT ![c] = "verifying"]
    /\ timer' = timer \ {c}
    /\ UNCHANGED <<gated, member, conn, peers, count, forgets, replicating, swarm>>

TimesOut(c) ==
    /\ c \in timer
    /\ timer' = timer \ {c}
    /\ gate' = [gate EXCEPT ![c] = "over"]
    /\ conn' = Destroyed({c})
    /\ UNCHANGED <<gated, member, peers, count, forgets, replicating, swarm>>

\* A proof that was not refused is as good as one that verified.
Settled(c) == TRUE

Verified(c) == c \in member

\* verify() settles; nothing asks whether the connection is still there.
VerifySettles(c) ==
    /\ gate[c] = "verifying"
    /\ gate' = [gate EXCEPT ![c] = "over"]
    /\ IF Verified(c)
       THEN /\ Admit(c) /\ replicating' = replicating \cup {c}
            /\ UNCHANGED conn
       ELSE /\ conn' = Destroyed({c})
            /\ UNCHANGED <<peers, count, forgets, replicating>>
    /\ UNCHANGED <<gated, member, timer, swarm>>

\* The peer leaves, or the network does.
Drops(c) ==
    /\ conn[c] = "open"
    /\ conn' = Destroyed({c})
    /\ UNCHANGED <<gated, member, gate, timer, peers, count, forgets, replicating, swarm>>

\* Telling the listeners before the set has changed.
CountOf(left) == Cardinality(peers)
CountAfter(left) == Cardinality(left)

\* The 'close' event, and with it the forget listener if there is one.
Closes(c) ==
    /\ conn[c] = "ending"
    /\ conn' = [conn EXCEPT ![c] = "closed"]
    /\ replicating' = replicating \ {c}
    /\ IF c \in forgets
       THEN peers' = peers \ {c} /\ count' = CountAfter(peers \ {c})
       ELSE UNCHANGED <<peers, count>>
    /\ forgets' = forgets \ {c}
    /\ UNCHANGED <<gated, member, gate, timer, swarm>>

\* runtime.close() destroys the swarm and its connections.
DestroySwarm ==
    /\ swarm
    /\ swarm' = FALSE
    /\ conn' = Destroyed(Conns)
    /\ UNCHANGED <<gated, member, gate, timer, peers, count, forgets, replicating>>

Next ==
    \/ DestroySwarm
    \/ \E c \in Conns : \/ Connect(c) \/ ChannelTaken(c) \/ Message(c) \/ TimesOut(c)
                        \/ VerifySettles(c) \/ Drops(c) \/ Closes(c)

Spec == Init /\ [][Next]_vars

\* Timers fire, local verification ends and a destroyed stream closes.  The
\* peer need not send anything, and nobody has to leave.
FairSpec ==
    /\ Spec
    /\ \A c \in Conns : WF_vars(TimesOut(c)) /\ WF_vars(VerifySettles(c)) /\ WF_vars(Closes(c))

-----------------------------------------------------------------------------
(* Properties. *)

TypeOK ==
    /\ gated \in BOOLEAN /\ member \subseteq Conns
    /\ conn \in [Conns -> {"absent", "open", "ending", "closed"}]
    /\ gate \in [Conns -> {"none", "waiting", "verifying", "over"}]
    /\ timer \subseteq Conns /\ peers \subseteq Conns
    /\ replicating \subseteq Conns /\ forgets \subseteq peers
    /\ count \in Nat /\ swarm \in BOOLEAN

\* "Replicates only on a positive verdict": behind a gate, nothing is
\* exchanged with, or counted for, a connection without a valid proof.
OnlyMembersReplicate == gated => replicating \cup peers \subseteq member

\* What the listeners were last told is what peerCount() says.
CountIsCurrent == count = Cardinality(peers)

\* A connection that was a peer when it closed is not one afterwards.
ClosedIsForgotten ==
    [][\A c \in Conns : conn[c] # "closed" /\ conn'[c] = "closed" => c \notin peers']_vars

\* The gate keeps nobody waiting: a connection is admitted or goes away, even
\* if the peer says nothing, and even if the runtime closes meanwhile.
GateDecides ==
    \A c \in Conns : conn[c] # "absent" ~> c \in replicating \/ conn[c] = "closed"
=============================================================================
