------------------------------ MODULE Delegation ------------------------------
(***************************************************************************)
(* Delegation chains (packages/ucan-boundary/src/index.ts) and what a      *)
(* workspace asks of one before it replicates with a peer                  *)
(* (packages/portable-bootstrap/src/membership.ts).                        *)
(*                                                                         *)
(* A delegation is signed by its issuer and is what it is: anybody may     *)
(* issue any ("issuing is not validating"), and a chain that was decoded   *)
(* may be any sequence of delegations, leaf first.  A command is the       *)
(* sequence of its segments, a time a whole second.                        *)
(***************************************************************************)
EXTENDS Integers, Sequences, FiniteSets

CONSTANTS
    Principals, \* DIDs
    Root,       \* the one rootForResource names for every resource it knows
    Revoked,    \* those the workspace's isRevoked names
    Commands,
    Resources,
    Here,       \* the resource of the workspace that verifies
    Unknown,    \* resources a caller's rootForResource knows no root of
    Windows,    \* the notBefore and expiry times that are given
    Never,      \* the expiry of a delegation that has none
    MaxLinks,   \* bound: delegations issued
    MaxTime     \* bound: the clock

ASSUME PrincipalsAssumption == Root \in Principals /\ Revoked \subseteq Principals
ASSUME CommandsAssumption == Commands \subseteq Seq(STRING)
ASSUME ResourcesAssumption == Here \in Resources /\ Unknown \subseteq Resources
ASSUME WindowsAssumption == Windows \subseteq [nbf : Nat, exp : Nat \cup {Never}]
ASSUME NeverAssumption == Never \notin Nat
ASSUME DelegationBounds == MaxLinks \in Nat /\ MaxTime \in Nat

VARIABLES
    links,      \* the delegations that were issued
    now         \* the clock

delegationVars == <<links, now>>

Link == [iss : Principals, aud : Principals, sub : Principals,
         cmd : Commands, res : Resources, win : Windows]

DelegationInit == links = {} /\ now = 0

\* issueDelegation: the subject is that of the chain it extends, or its issuer.
Issue ==
    /\ Cardinality(links) < MaxLinks
    /\ \E l \in Link :
        /\ l.sub \in {l.iss} \cup {p.sub : p \in links}
        /\ links' = links \cup {l}
    /\ UNCHANGED now

Tick == now < MaxTime /\ now' = now + 1 /\ UNCHANGED links

DelegationNext == Issue \/ Tick
DelegationSpec == DelegationInit /\ [][DelegationNext]_delegationVars

-----------------------------------------------------------------------------
(* Validation. *)

\* commandCovers the other way round.
CoveredBy(parent, child) == Len(child) <= Len(parent) /\ SubSeq(parent, 1, Len(child)) = child

\* commandCovers: the parent's segments begin the child's.
CommandCovers(parent, child) ==
    Len(parent) <= Len(child) /\ SubSeq(child, 1, Len(parent)) = parent

\* A validity in whole seconds, from notBefore on and over at the expiry.
InWindow(win) == (win.exp # Never => now < win.exp) /\ win.nbf <= now

\* rootForResource, for a caller that knows no root of some resources.
IsRoot(p, res, unknown) == res \notin unknown /\ p = Root

\* Of each link by itself: nothing ties it to the one above it.
LinkStands(chain, i) ==
    LET link == chain[i] leaf == chain[1] IN
    /\ link.sub = chain[Len(chain)].sub
    /\ CommandCovers(link.cmd, leaf.cmd) /\ link.res = leaf.res
    /\ InWindow(link.win)

\* What validateDelegation asks of the link at depth i.
LinkHolds(chain, i) ==
    LET link == chain[i] leaf == chain[1] IN
    /\ i < Len(chain) => link.iss = chain[i + 1].aud
    /\ link.sub = chain[Len(chain)].sub
    /\ CommandCovers(link.cmd, leaf.cmd) /\ link.res = leaf.res
    /\ InWindow(link.win)

ValidateDelegation(chain, unknown) ==
    LET leaf == chain[1] first == chain[Len(chain)] IN
    /\ InWindow(leaf.win)
    /\ IsRoot(first.iss, leaf.res, unknown)
    /\ first.sub = first.iss
    /\ \A i \in DOMAIN chain : LinkHolds(chain, i)

\* "can.startsWith('workspace/')", of this workspace.
AnyWorkspace(leaf) == Len(leaf.cmd) > 1 /\ leaf.cmd[1] = "workspace"

GrantsWorkspace(leaf) ==
    leaf.res = Here /\ Len(leaf.cmd) > 1 /\ leaf.cmd[1] = "workspace"

\* A workspace answers its own root whatever the resource, and asks of the
\* resource afterwards.
VerifyMembership(peer, chain) ==
    /\ chain[1].aud = peer
    /\ peer \notin Revoked
    /\ ValidateDelegation(chain, {})
    /\ GrantsWorkspace(chain[1])

-----------------------------------------------------------------------------
(* The reference: authority as reachability. *)

\* A delegation that passes the authority for cmd on res on, now.
Passes(l, cmd, res) ==
    /\ l.sub = Root /\ l.res = res
    /\ \E n \in 0..Len(cmd) : l.cmd = SubSeq(cmd, 1, n)
    /\ l.win.nbf <= now
    /\ l.win.exp = Never \/ l.win.exp > now

Closed(S, cmd, res) ==
    \A l \in links : l.iss \in S /\ Passes(l, cmd, res) => l.aud \in S

\* The root has every authority, and whoever has one may pass it on.
Holders(cmd, res) ==
    {p \in Principals :
        \A S \in SUBSET Principals : Root \in S /\ Closed(S, cmd, res) => p \in S}

\* The delegation l was granted by one who held what it grants.
Granted(l) ==
    l.res \notin Unknown /\ Passes(l, l.cmd, l.res) /\ l.iss \in Holders(l.cmd, l.res)

-----------------------------------------------------------------------------
(* Properties. *)

Chains == UNION {[1..n -> links] : n \in 1..MaxLinks}

DelegationTypeOK == links \subseteq Link /\ now \in Nat

\* "No accepted chain exceeds its root": whatever sequence of delegations is
\* presented, if it validates, its leaf was granted by one who held that much, up
\* to the root, at this moment.
AcceptedAreGranted == \A chain \in Chains : ValidateDelegation(chain, Unknown) => Granted(chain[1])

\* What was granted can be shown: some chain of the delegations made validates.
GrantedAreAccepted ==
    \A l \in links : Granted(l) => \E chain \in Chains : chain[1] = l /\ ValidateDelegation(chain, Unknown)

\* "The proof admits a peer only if the capability it grants names this
\* resource", and the peer, not revoked, holds it.
AdmitsMembersOnly ==
    \A p \in Principals : \A chain \in Chains :
        VerifyMembership(p, chain) =>
            /\ p \notin Revoked
            /\ \E l \in links : l.aud = p /\ l.res = Here /\ Len(l.cmd) > 1 /\
                                l.cmd[1] = "workspace" /\ p \in Holders(l.cmd, Here)
=============================================================================
