------------------------------- MODULE Bootstrap -------------------------------
(***************************************************************************)
(* The `.workspace` folder as a bundle: how it is created, how members are *)
(* invited into it and how they open it (Workspace.create, invite and open *)
(* of packages/workspace/src/index.ts; packages/portable-bootstrap/src:    *)
(* index.ts, folder.ts, conformance; packages/p2p-runtime attestation.ts). *)
(*                                                                         *)
(* The bundle is one file for the manifest, one for the attestation and    *)
(* one per recipient, each read and written in place and in turn, by calls *)
(* that overlap, of devices whose processes may die.  A file that is being *)
(* written does not parse.                                                 *)
(*                                                                         *)
(* A creation stands for what one create() makes: the root, K0, createdAt  *)
(* and the logs.  A manifest or an attestation is the creation it names;   *)
(* an envelope carries a creation's key and a delegation by its root.      *)
(* Envelopes are numbered as they are issued.  A device is its DID.        *)
(***************************************************************************)
EXTENDS Integers, Sequences, FiniteSets

CONSTANTS
    NDevices,   \* the devices are 1..NDevices, in the order of their files' names
    SeedOf,     \* of each creation, the devices that are given its root's seed
    Slots,      \* calls that can be under way at once
    None,       \* no file
    Torn,       \* a file that was truncated and not written to its end
    MaxCalls,   \* bound: calls that are made
    MaxCrashes, \* bound: processes that die
    MaxYears    \* bound: times every envelope so far runs out

Creations == DOMAIN SeedOf
Devices == 1..NDevices

ASSUME DevicesAssumption == NDevices \in Nat
ASSUME SeedsAssumption == SeedOf \in [Creations -> SUBSET Devices]
ASSUME BoundsAssumption == MaxCalls \in Nat /\ MaxCrashes \in Nat /\ MaxYears \in Nat

Manifest == -1
Attestation == 0
Files == {Manifest, Attestation} \cup Devices  \* a recipient's file is its device

VARIABLES
    disk,       \* the content of each file
    stores,     \* creations whose logs have their transport directories
    sessions,   \* the workspaces that are open: device, logs, key, whether with the root
    used,       \* creations that began
    issued,     \* envelopes issued so far
    expired,    \* those up to this one are over
    call,       \* what each slot's call does
    made,       \* calls so far
    returned,   \* history: the envelopes of the invites and creates that returned
    crashes, years

limits == <<made, crashes, years>>
vars == <<disk, stores, sessions, used, issued, expired, call, returned, limits>>

\* A key wrapped for a device: nobody else's secret key opens it.
Wrap(key, d) == [key |-> key, for |-> d]
Unwraps(wrapped, self) == wrapped.for = self

\* What is addressed to `to`, delegated by the root, is the key wrapped for it.
CreateEnvelope(root, key, d, no) ==
    [to |-> d, root |-> root, wrapped |-> Wrap(key, d), no |-> no]

Envelope == [to : Devices, root : Creations, no : Nat \ {0},
             wrapped : [key : Creations, for : Devices]]
Entry(f, content) == [file |-> f, content |-> content]

ASSUME NoneAssumption ==
    None # Torn /\ \A x \in {None, Torn} : x \notin Creations /\ x \notin Envelope
ASSUME CreationsAssumption == \A c \in Creations : c \notin Envelope

\* createBundle, with the creator's envelope.
CreateBundle(c, envelope) ==
    <<Entry(Manifest, c), Entry(Attestation, c), Entry(envelope.to, envelope)>>

\* A call reads the files of todo into bundle, and then writes those of bundle.
Idle == [op |-> "idle"]

Init ==
    /\ disk = [f \in Files |-> None]
    /\ stores = {} /\ sessions = {} /\ used = {}
    /\ issued = 0 /\ expired = 0
    /\ call = [s \in Slots |-> Idle]
    /\ returned = {}
    /\ made = 0 /\ crashes = 0 /\ years = 0

Busy(s, op, at) == call[s].op = op /\ call[s].at = at
Goes(s, c) == call' = [call EXCEPT ![s] = c]

-----------------------------------------------------------------------------
(* Consuming a bundle. *)

\* consumeEnvelope, whatever root the delegation is by.
AddressedAndValid(e, self, root) == e.to = self /\ e.no > expired /\ Unwraps(e.wrapped, self)

\* consumeEnvelope: the delegation is to this device, by the workspace's root, and
\* still runs, and the key is for this device.
ConsumeEnvelope(e, self, root) ==
    e.to = self /\ e.root = root /\ e.no > expired /\ Unwraps(e.wrapped, self)

\* verifyWorkspaceAttestation, and its payload is the manifest's, every field of it.
Signed(bundle) == bundle[1].content = bundle[2].content

\* The envelope of `self` in what was read: a file is read once.
Mine(bundle, self) == {bundle[i].content : i \in {j \in DOMAIN bundle : bundle[j].file = self}}

\* consumeBundle: the envelope of `self`, if the bundle and it are accepted.
ConsumeBundle(bundle, self) ==
    {e \in Mine(bundle, self) : Signed(bundle) /\ ConsumeEnvelope(e, self, bundle[1].content)}

-----------------------------------------------------------------------------
(* readBundleFolder: the two files, the listing, each envelope in its order. *)

\* The files are read in the order of their names.  What does not exist or does not
\* parse makes the whole read throw; the manifest and the attestation are parsed last,
\* and nothing is done in between.
ReadFile(s) ==
    /\ call[s].op \in {"open", "invite"} /\ call[s].at \in {"read", "envelopes"}
    /\ \E f \in call[s].todo :
        /\ \A g \in call[s].todo : f <= g
        /\ \/ disk[f] \in {None, Torn} /\ Goes(s, Idle)
           \/ /\ disk[f] \notin {None, Torn}
              /\ Goes(s, [call[s] EXCEPT !.todo = @ \ {f}, !.bundle = Append(@, Entry(f, disk[f]))])
    /\ UNCHANGED <<disk, stores, sessions, used, issued, expired, returned, limits>>

Listing == {d \in Devices : disk[d] # None}

List(s) ==
    /\ call[s].op \in {"open", "invite"} /\ call[s].at = "read" /\ call[s].todo = {}
    /\ Goes(s, [call[s] EXCEPT !.todo = Listing, !.at = "envelopes"])
    /\ UNCHANGED <<disk, stores, sessions, used, issued, expired, returned, limits>>

HasRead(s, op) == Busy(s, op, "envelopes") /\ call[s].todo = {}

-----------------------------------------------------------------------------
(* writeBundleFolder: each file in place, in the order of the bundle. *)

\* encodeDidForFilename, had it not told the recipients apart.
OneFile(b) == IF b.file > 0 THEN 1 ELSE b.file

\* The envelopes' files: one for each recipient.
FileOf(b) == b.file

Truncate(s) ==
    /\ call[s].op \in {"create", "invite"} /\ call[s].at = "write" /\ call[s].bundle # <<>>
    /\ disk' = [disk EXCEPT ![FileOf(Head(call[s].bundle))] = Torn]
    /\ Goes(s, [call[s] EXCEPT !.at = "fill"])
    /\ UNCHANGED <<stores, sessions, used, issued, expired, returned, limits>>

Fill(s) ==
    /\ call[s].op \in {"create", "invite"} /\ call[s].at = "fill"
    /\ LET b == Head(call[s].bundle) IN disk' = [disk EXCEPT ![FileOf(b)] = b.content]
    /\ Goes(s, [call[s] EXCEPT !.at = "write", !.bundle = Tail(@)])
    /\ UNCHANGED <<stores, sessions, used, issued, expired, returned, limits>>

HasWritten(s, op) == Busy(s, op, "write") /\ call[s].bundle = <<>>

-----------------------------------------------------------------------------
(* The calls. *)

Begin(s) == call[s] = Idle /\ made < MaxCalls /\ made' = made + 1

\* create: a new root and key, and the creator's own envelope.
Create(s, d, c) ==
    /\ Begin(s) /\ d \in SeedOf[c] /\ c \notin used
    /\ used' = used \cup {c}
    /\ issued' = issued + 1
    /\ LET e == CreateEnvelope(c, c, d, issued') IN
        Goes(s, [op |-> "create", dev |-> d, at |-> "write", todo |-> {}, made |-> c,
                 envelope |-> e, bundle |-> CreateBundle(c, e)])
    /\ UNCHANGED <<disk, stores, sessions, expired, returned, crashes, years>>

\* The directories of the logs, which create makes last.
MadeStores(c) == stores \cup {c}

CreateReturns(s) ==
    /\ HasWritten(s, "create")
    /\ LET c == call[s] IN
        /\ stores' = MadeStores(c.made)
        /\ sessions' = sessions \cup {[dev |-> c.dev, logs |-> c.made, key |-> c.made, root |-> TRUE]}
        /\ returned' = returned \cup {c.envelope}
    /\ Goes(s, Idle)
    /\ UNCHANGED <<disk, used, issued, expired, limits>>

Open(s, d, seeded) ==
    /\ Begin(s)
    /\ Goes(s, [op |-> "open", dev |-> d, at |-> "read", todo |-> {Manifest, Attestation},
                seeded |-> seeded, bundle |-> <<>>])
    /\ UNCHANGED <<disk, stores, sessions, used, issued, expired, returned, crashes, years>>

\* A root seed that is not this workspace's throws, as a bundle that is not
\* accepted does.
OpenReturns(s) ==
    /\ HasRead(s, "open")
    /\ LET c == call[s] logs == c.bundle[1].content IN
        sessions' = sessions \cup
            {t \in [dev : {c.dev}, logs : {logs}, root : {c.seeded},
                    key : {e.wrapped.key : e \in ConsumeBundle(c.bundle, c.dev)}] :
                c.seeded => c.dev \in SeedOf[logs]}
    /\ Goes(s, Idle)
    /\ UNCHANGED <<disk, stores, used, issued, expired, returned, limits>>

\* invite: the envelope is issued before the folder is read.
Invite(s, w, d) ==
    /\ Begin(s) /\ w \in sessions /\ w.root
    /\ issued' = issued + 1
    /\ Goes(s, [op |-> "invite", dev |-> w.dev, at |-> "read", todo |-> {Manifest, Attestation},
                envelope |-> CreateEnvelope(w.logs, w.key, d, issued'), bundle |-> <<>>])
    /\ UNCHANGED <<disk, stores, sessions, used, expired, returned, crashes, years>>

\* All that was read is written back, and the new envelope after it.
InviteWrites(s) ==
    /\ HasRead(s, "invite")
    /\ LET e == call[s].envelope IN
        Goes(s, [call[s] EXCEPT !.bundle = Append(@, Entry(e.to, e)), !.at = "write"])
    /\ UNCHANGED <<disk, stores, sessions, used, issued, expired, returned, limits>>

\* Publishing to the key delivery log is KeyDelivery's.
InviteReturns(s) ==
    /\ HasWritten(s, "invite")
    /\ LET e == call[s].envelope IN returned' = returned \cup {e}
    /\ Goes(s, Idle)
    /\ UNCHANGED <<disk, stores, sessions, used, issued, expired, limits>>

\* The process of a device dies, with its calls and sessions.
Crash(d) ==
    /\ crashes < MaxCrashes /\ crashes' = crashes + 1
    /\ \E s \in Slots : call[s] # Idle /\ call[s].dev = d
    /\ call' = [s \in Slots |-> IF call[s] # Idle /\ call[s].dev = d THEN Idle ELSE call[s]]
    /\ sessions' = {w \in sessions : w.dev # d}
    /\ UNCHANGED <<disk, stores, used, issued, expired, returned, made, years>>

\* No call takes a year.
Year ==
    /\ years < MaxYears /\ years' = years + 1
    /\ \A s \in Slots : call[s] = Idle
    /\ expired' = issued
    /\ UNCHANGED <<disk, stores, sessions, used, issued, call, returned, made, crashes>>

Next ==
    \/ \E s \in Slots :
        \/ \E d \in Devices : \E c \in Creations : Create(s, d, c)
        \/ \E d \in Devices : \E seeded \in BOOLEAN : Open(s, d, seeded)
        \/ \E w \in sessions : \E d \in Devices : Invite(s, w, d)
        \/ ReadFile(s) \/ List(s) \/ Truncate(s) \/ Fill(s)
        \/ CreateReturns(s) \/ OpenReturns(s) \/ InviteWrites(s) \/ InviteReturns(s)
    \/ \E d \in Devices : Crash(d)
    \/ Year

Spec == Init /\ [][Next]_vars
-----------------------------------------------------------------------------
(* Properties. *)

\* checkWorkspaceInvariants of the folder: the two files are there, the manifest
\* parses, and the logs it names have their directories.
Violations ==
    {f \in {Manifest, Attestation} : disk[f] = None}
        \cup {f \in {Manifest} : disk[f] = Torn \/ (disk[f] \in Creations /\ disk[f] \notin stores)}

Whole == \A f \in Files : disk[f] # Torn

TypeOK ==
    /\ disk \in [Files -> Creations \cup {None, Torn} \cup Envelope]
    /\ \A d \in Devices : disk[d] \notin Creations
    /\ stores \subseteq Creations /\ used \subseteq Creations
    /\ sessions \subseteq [dev : Devices, logs : Creations, key : Creations, root : BOOLEAN]
    /\ issued \in 0..MaxCalls /\ expired \in 0..issued
    /\ returned \subseteq Envelope

\* Whoever has a workspace open reads and writes it with the same key, though
\* folders are created again and invites of an earlier workspace write into it.
KeysAgree == \A v, w \in sessions : v.logs = w.logs => v.key = w.key

\* While one workspace is made in the folder: whoever was created or invited into it
\* opens it, when no file is being written or was cut off by a crash, until the envelope
\* its file holds runs out; no overlapping invite takes it away.  The file may hold an
\* earlier envelope than the last one: an invite writes back those it listed, so the one
\* that renews an envelope can be lost to any that overlaps with it.
InviteesOpen ==
    Cardinality(used) = 1 /\ Whole =>
        /\ (\E e \in returned : e.no = 1) => Violations = {}
        /\ \A e \in returned :
            /\ disk[e.to] # None
            /\ disk[e.to].no > expired =>
                ConsumeBundle([i \in 1..(NDevices + 2) |-> Entry(i - 2, disk[i - 2])], e.to) # {}
=============================================================================
