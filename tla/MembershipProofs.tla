--------------------------- MODULE MembershipProofs ---------------------------
(***************************************************************************)
(* How members come to a workspace's key and are told from others, for any *)
(* devices, members, principals and logs.  Three parts: the bundle of      *)
(* Bootstrap (all who open a workspace hold its key), the deliveries of    *)
(* KeyDelivery (a scan misses none), and the delegation chains of          *)
(* Delegation (what validates was granted, and what was granted can be     *)
(* shown to validate).                                                     *)
(***************************************************************************)
EXTENDS Bootstrap, KeyDelivery, Delegation, SequenceTheorems, FiniteSetTheorems,
        WellFoundedInduction, TLAPS

-----------------------------------------------------------------------------
(* The bundle. *)

\* An envelope as the root that delegates in it makes it: with its own key, wrapped
\* for whom it is addressed to.
Keyed == {e \in Envelope : e.wrapped.key = e.root /\ e.wrapped.for = e.to}

\* What file f may hold, and what is read from it or written to it.
Held(f) == IF f \in Devices THEN {e \in Keyed : e.to = f} ELSE Creations

Entries == {b \in [file : Files, content : Creations \cup Keyed] : b.content \in Held(b.file)}

CreateCalls == [op : {"create"}, dev : Devices, at : {"write", "fill"}, todo : SUBSET Files,
                made : Creations, envelope : Keyed, bundle : Seq(Entries)]
OpenCalls == [op : {"open"}, dev : Devices, at : {"read", "envelopes"}, todo : SUBSET Files,
              seeded : BOOLEAN, bundle : Seq(Entries)]
InviteCalls == [op : {"invite"}, dev : Devices, at : {"read", "envelopes", "write", "fill"},
                todo : SUBSET Files, envelope : Keyed, bundle : Seq(Entries)]

Disk ==
    /\ disk = [f \in Files |-> disk[f]]
    /\ \A f \in Files : disk[f] \in Held(f) \cup {None, Torn}

Calls ==
    /\ call \in [Slots -> {Idle} \cup CreateCalls \cup OpenCalls \cup InviteCalls]
    /\ \A s \in Slots : call[s] # Idle /\ call[s].at = "fill" => call[s].bundle # <<>>

Sessions ==
    /\ sessions \subseteq [dev : Devices, logs : Creations, key : Creations, root : BOOLEAN]
    /\ \A w \in sessions : w.key = w.logs

Numbers == issued \in Nat

BundleInv == Disk /\ Calls /\ Sessions /\ Numbers

-----------------------------------------------------------------------------
LEMMA FilesFacts ==
    /\ Manifest \in Files /\ Attestation \in Files /\ Devices \subseteq Files
    /\ Manifest \notin Devices /\ Attestation \notin Devices
  BY DevicesAssumption DEF Files, Manifest, Attestation, Devices

\* An envelope is wrapped with the key it was made with, and delegated by its root.
LEMMA EnvelopeKeyed ==
    ASSUME NEW c \in Creations, NEW d \in Devices, NEW n \in Nat \ {0}
    PROVE  CreateEnvelope(c, c, d, n) \in Keyed
  BY DEF CreateEnvelope, Wrap, Keyed, Envelope

LEMMA BundleInit == Init => BundleInv
  BY DEF Init, BundleInv, Disk, Calls, Sessions, Numbers, Held, Idle

\* A call whose operation is op is a record of that operation.
LEMMA CallRecords ==
    ASSUME Calls, NEW s \in Slots
    PROVE  /\ call[s].op = "create" => call[s] \in CreateCalls
           /\ call[s].op = "open" => call[s] \in OpenCalls
           /\ call[s].op = "invite" => call[s] \in InviteCalls
           /\ call[s] \in {Idle} \cup CreateCalls \cup OpenCalls \cup InviteCalls
  BY DEF Calls, CreateCalls, OpenCalls, InviteCalls, Idle

\* A slot that goes on to another record of a call keeps the calls in shape.
LEMMA GoesOn ==
    ASSUME Calls, NEW s \in Slots,
           NEW c \in {Idle} \cup CreateCalls \cup OpenCalls \cup InviteCalls,
           c # Idle /\ c.at = "fill" => c.bundle # <<>>,
           Goes(s, c)
    PROVE  Calls'
  BY DEF Calls, Goes

LEMMA ReadKeeps ==
    ASSUME BundleInv, NEW s \in Slots, ReadFile(s)
    PROVE  BundleInv'
<1>1. PICK f \in call[s].todo :
        \/ disk[f] \in {None, Torn} /\ Goes(s, Idle)
        \/ /\ disk[f] \notin {None, Torn}
           /\ Goes(s, [call[s] EXCEPT !.todo = @ \ {f}, !.bundle = Append(@, Entry(f, disk[f]))])
  BY DEF ReadFile
<1>2. UNCHANGED <<disk, sessions, issued>>
  BY DEF ReadFile
<1>3. Calls'
  <2>1. CASE Goes(s, Idle)
    BY <2>1, GoesOn DEF BundleInv
  <2>2. CASE /\ disk[f] \notin {None, Torn}
             /\ Goes(s, [call[s] EXCEPT !.todo = @ \ {f}, !.bundle = Append(@, Entry(f, disk[f]))])
    <3> DEFINE c == [call[s] EXCEPT !.todo = @ \ {f}, !.bundle = Append(@, Entry(f, disk[f]))]
    <3>1. call[s] \in OpenCalls \cup InviteCalls /\ call[s].at # "fill"
      BY CallRecords DEF BundleInv, ReadFile
    <3>2. f \in Files /\ call[s].bundle \in Seq(Entries)
      BY <3>1 DEF OpenCalls, InviteCalls
    <3>3. Entry(f, disk[f]) \in Entries
      BY <2>2, <3>2 DEF Entry, Entries, Held, BundleInv, Disk
    <3>4. Append(call[s].bundle, Entry(f, disk[f])) \in Seq(Entries)
      BY <3>2, <3>3
    <3>5. c \in OpenCalls \cup InviteCalls /\ c.at # "fill"
      BY <3>1, <3>4 DEF OpenCalls, InviteCalls
    <3> QED
      BY <2>2, <3>5, GoesOn DEF BundleInv
  <2> QED
    BY <1>1, <2>1, <2>2
<1> QED
  BY <1>2, <1>3 DEF BundleInv, Disk, Sessions, Numbers

LEMMA ListKeeps ==
    ASSUME BundleInv, NEW s \in Slots, List(s)
    PROVE  BundleInv'
<1>1. call[s] \in OpenCalls \cup InviteCalls
  BY CallRecords DEF BundleInv, List
<1>2. Listing \in SUBSET Files
  BY FilesFacts DEF Listing
<1> DEFINE c == [call[s] EXCEPT !.todo = Listing, !.at = "envelopes"]
<1>3. c \in OpenCalls \cup InviteCalls /\ c.at # "fill"
  BY <1>1, <1>2 DEF OpenCalls, InviteCalls
<1>4. Calls'
  BY <1>3, GoesOn DEF BundleInv, List
<1> QED
  BY <1>4 DEF BundleInv, Disk, Sessions, Numbers, List

LEMMA TruncateKeeps ==
    ASSUME BundleInv, NEW s \in Slots, Truncate(s)
    PROVE  BundleInv'
<1>1. call[s] \in CreateCalls \cup InviteCalls /\ call[s].bundle # <<>>
  BY CallRecords DEF BundleInv, Truncate
<1> DEFINE c == [call[s] EXCEPT !.at = "fill"]
<1>2. c \in CreateCalls \cup InviteCalls /\ c.bundle # <<>>
  BY <1>1 DEF CreateCalls, InviteCalls
<1>3. Calls'
  BY <1>2, GoesOn DEF BundleInv, Truncate
<1>4. Disk'
  <2>1. FileOf(Head(call[s].bundle)) \in Files
    BY <1>1 DEF FileOf, CreateCalls, InviteCalls, Entries
  <2> QED
    BY <2>1 DEF BundleInv, Truncate, Disk
<1> QED
  BY <1>3, <1>4 DEF BundleInv, Sessions, Numbers, Truncate

LEMMA FillKeeps ==
    ASSUME BundleInv, NEW s \in Slots, Fill(s)
    PROVE  BundleInv'
<1>1. call[s] \in CreateCalls \cup InviteCalls
  BY CallRecords DEF BundleInv, Fill
<1>2. call[s].bundle \in Seq(Entries) /\ call[s].bundle # <<>>
  BY <1>1 DEF BundleInv, Calls, Fill, CreateCalls, InviteCalls, Idle
<1> DEFINE b == Head(call[s].bundle)
<1>3. b \in Entries /\ Tail(call[s].bundle) \in Seq(Entries)
  BY <1>2
<1> DEFINE c == [call[s] EXCEPT !.at = "write", !.bundle = Tail(@)]
<1>4. c \in CreateCalls \cup InviteCalls /\ c.at # "fill"
  BY <1>1, <1>3 DEF CreateCalls, InviteCalls
<1>5. Calls'
  BY <1>4, GoesOn DEF BundleInv, Fill
<1>6. disk' = [disk EXCEPT ![b.file] = b.content]
  BY DEF Fill, FileOf
<1>7. Disk'
  BY <1>3, <1>6 DEF BundleInv, Disk, Entries
<1> QED
  BY <1>5, <1>7 DEF BundleInv, Sessions, Numbers, Fill

LEMMA CreateKeeps ==
    ASSUME BundleInv, NEW s \in Slots, NEW d \in Devices, NEW k \in Creations, Create(s, d, k)
    PROVE  BundleInv'
<1> DEFINE e == CreateEnvelope(k, k, d, issued')
           c == [op |-> "create", dev |-> d, at |-> "write", todo |-> {}, made |-> k,
                 envelope |-> e, bundle |-> CreateBundle(k, e)]
<1>1. issued' \in Nat \ {0}
  BY DEF BundleInv, Numbers, Create
<1>2. e \in Keyed /\ e.to = d
  BY <1>1, EnvelopeKeyed DEF CreateEnvelope
<1>3. /\ Entry(Manifest, k) \in Entries /\ Entry(Attestation, k) \in Entries
      /\ Entry(d, e) \in Entries
  BY <1>2, FilesFacts DEF Entry, Entries, Held
<1>4. CreateBundle(k, e) \in Seq(Entries)
  BY <1>2, <1>3 DEF CreateBundle
<1>5. c \in CreateCalls /\ c.at # "fill"
  BY <1>2, <1>4 DEF CreateCalls
<1>6. Calls'
  BY <1>5, GoesOn DEF BundleInv, Create
<1> QED
  BY <1>1, <1>6 DEF BundleInv, Disk, Sessions, Numbers, Create

LEMMA CreateReturnsKeeps ==
    ASSUME BundleInv, NEW s \in Slots, CreateReturns(s)
    PROVE  BundleInv'
<1>1. call[s] \in CreateCalls
  BY CallRecords DEF BundleInv, CreateReturns, HasWritten, Busy
<1>2. Sessions'
  <2>1. call[s].dev \in Devices /\ call[s].made \in Creations
    BY <1>1 DEF CreateCalls
  <2> DEFINE t == [dev |-> call[s].dev, logs |-> call[s].made, key |-> call[s].made,
                   root |-> TRUE]
  <2>2. sessions' = sessions \cup {t}
    BY DEF CreateReturns
  <2>3. t \in [dev : Devices, logs : Creations, key : Creations, root : BOOLEAN] /\ t.key = t.logs
    BY <2>1
  <2> HIDE DEF t
  <2> QED
    BY <2>2, <2>3 DEF BundleInv, Sessions
<1>3. Calls'
  BY GoesOn DEF BundleInv, CreateReturns
<1> QED
  BY <1>2, <1>3 DEF BundleInv, Disk, Numbers, CreateReturns

LEMMA OpenKeeps ==
    ASSUME BundleInv, NEW s \in Slots, NEW d \in Devices, NEW seeded \in BOOLEAN, Open(s, d, seeded)
    PROVE  BundleInv'
<1> DEFINE c == [op |-> "open", dev |-> d, at |-> "read", todo |-> {Manifest, Attestation},
                 seeded |-> seeded, bundle |-> <<>>]
<1>1. c \in OpenCalls /\ c.at # "fill"
  BY FilesFacts DEF OpenCalls
<1>2. Calls'
  BY <1>1, GoesOn DEF BundleInv, Open
<1> QED
  BY <1>2 DEF BundleInv, Disk, Sessions, Numbers, Open

\* The delegation of an envelope that is accepted is by the root the bundle names.
LEMMA OpenReturnsKeeps ==
    ASSUME BundleInv, NEW s \in Slots, OpenReturns(s)
    PROVE  BundleInv'
<1>1. call[s] \in OpenCalls
  BY CallRecords DEF BundleInv, OpenReturns, HasRead, Busy
<1> DEFINE logs == call[s].bundle[1].content
<1>2. ASSUME NEW e \in ConsumeBundle(call[s].bundle, call[s].dev)
      PROVE  e.wrapped.key = logs /\ logs \in Creations
  <2>1. e.root = logs /\ e \in Mine(call[s].bundle, call[s].dev)
    BY <1>2 DEF ConsumeBundle, ConsumeEnvelope
  <2>2. PICK i \in DOMAIN call[s].bundle :
            e = call[s].bundle[i].content /\ call[s].bundle[i].file = call[s].dev
    BY <2>1 DEF Mine
  <2>3. call[s].bundle[i] \in Entries /\ call[s].dev \in Devices
    BY <1>1 DEF OpenCalls
  <2>4. e \in Keyed
    BY <2>2, <2>3 DEF Entries, Held
  <2> QED
    BY <2>1, <2>4 DEF Keyed, Envelope
<1>3. Sessions'
  <2>1. \A t \in sessions' \ sessions :
            /\ t \in [dev : Devices, logs : Creations, key : Creations, root : BOOLEAN]
            /\ t.key = t.logs
    BY <1>1, <1>2 DEF OpenReturns, OpenCalls
  <2> QED
    BY <2>1 DEF BundleInv, Sessions
<1>4. Calls'
  BY GoesOn DEF BundleInv, OpenReturns
<1> QED
  BY <1>3, <1>4 DEF BundleInv, Disk, Numbers, OpenReturns

LEMMA InviteKeeps ==
    ASSUME BundleInv, NEW s \in Slots, NEW w \in sessions, NEW d \in Devices, Invite(s, w, d)
    PROVE  BundleInv'
<1> DEFINE c == [op |-> "invite", dev |-> w.dev, at |-> "read", todo |-> {Manifest, Attestation},
                 envelope |-> CreateEnvelope(w.logs, w.key, d, issued'), bundle |-> <<>>]
<1>1. issued' \in Nat \ {0}
  BY DEF BundleInv, Numbers, Invite
<1>2. w.dev \in Devices /\ w.logs \in Creations /\ w.key = w.logs
  BY DEF BundleInv, Sessions
<1>3. c \in InviteCalls /\ c.at # "fill"
  BY <1>1, <1>2, EnvelopeKeyed, FilesFacts DEF InviteCalls
<1>4. Calls'
  BY <1>3, GoesOn DEF BundleInv, Invite
<1> QED
  BY <1>1, <1>4 DEF BundleInv, Disk, Sessions, Numbers, Invite

LEMMA InviteWritesKeeps ==
    ASSUME BundleInv, NEW s \in Slots, InviteWrites(s)
    PROVE  BundleInv'
<1> DEFINE e == call[s].envelope
           c == [call[s] EXCEPT !.bundle = Append(@, Entry(e.to, e)), !.at = "write"]
<1>1. call[s] \in InviteCalls
  BY CallRecords DEF BundleInv, InviteWrites, HasRead, Busy
<1>2. e \in Keyed /\ e.to \in Devices
  BY <1>1 DEF InviteCalls, Keyed, Envelope
<1>3. Entry(e.to, e) \in Entries
  BY <1>2, FilesFacts DEF Entry, Entries, Held
<1>4. Append(call[s].bundle, Entry(e.to, e)) \in Seq(Entries)
  BY <1>1, <1>3 DEF InviteCalls
<1>5. c \in InviteCalls /\ c.at # "fill"
  BY <1>1, <1>4 DEF InviteCalls
<1>6. Calls'
  BY <1>5, GoesOn DEF BundleInv, InviteWrites
<1> QED
  BY <1>6 DEF BundleInv, Disk, Sessions, Numbers, InviteWrites

LEMMA InviteReturnsKeeps ==
    ASSUME BundleInv, NEW s \in Slots, InviteReturns(s)
    PROVE  BundleInv'
<1>1. Calls'
  BY GoesOn DEF BundleInv, InviteReturns
<1> QED
  BY <1>1 DEF BundleInv, Disk, Sessions, Numbers, InviteReturns

\* A process that dies leaves the files as they are.
LEMMA CrashKeeps ==
    ASSUME BundleInv, NEW d \in Devices, Crash(d)
    PROVE  BundleInv'
<1>1. Calls'
  BY DEF BundleInv, Calls, Crash
<1> QED
  BY <1>1 DEF BundleInv, Disk, Sessions, Numbers, Crash

LEMMA BundleNext == BundleInv /\ [Next]_vars => BundleInv'
<1> SUFFICES ASSUME BundleInv, [Next]_vars
             PROVE  BundleInv'
  OBVIOUS
<1>1. CASE Year
  BY <1>1 DEF BundleInv, Disk, Calls, Sessions, Numbers, Year
<1>2. CASE UNCHANGED vars
  BY <1>2 DEF BundleInv, Disk, Calls, Sessions, Numbers, vars
<1> QED
  BY <1>1, <1>2, ReadKeeps, ListKeeps, TruncateKeeps, FillKeeps, CreateKeeps,
     CreateReturnsKeeps, OpenKeeps, OpenReturnsKeeps, InviteKeeps, InviteWritesKeeps,
     InviteReturnsKeeps, CrashKeeps DEF Next

\* Workspace.create, open and invite (packages/workspace/src/index.ts) with
\* consumeBundle (portable-bootstrap/src/index.ts:346-421): all who have a workspace's
\* logs open hold its key, for any devices, creations into one folder, overlapping
\* calls and crashes.
THEOREM OneKey == Spec => []KeysAgree
<1>1. BundleInv => KeysAgree
  BY DEF BundleInv, Sessions, KeysAgree
<1> QED
  BY <1>1, BundleInit, BundleNext, PTL DEF Spec

-----------------------------------------------------------------------------
\* Calls are counted before their envelopes, and what is recorded of them is what
\* they were made for.
Records ==
    /\ made \in Nat /\ made <= MaxCalls
    /\ issued \in Nat /\ issued <= made /\ expired \in Nat /\ expired <= issued
    /\ stores \subseteq Creations /\ used \subseteq Creations /\ returned \subseteq Envelope

LEMMA RecordsStep == BundleInv /\ Records /\ [Next]_vars => Records'
<1> SUFFICES ASSUME BundleInv, Records, [Next]_vars
             PROVE  Records'
  OBVIOUS
<1>0. MaxCalls \in Nat
  BY BoundsAssumption
<1>1. ASSUME NEW s \in Slots, NEW d \in Devices, NEW c \in Creations, Create(s, d, c)
      PROVE  Records'
  BY <1>0, <1>1 DEF Records, Create, Begin, limits
<1>2. ASSUME NEW s \in Slots, NEW d \in Devices, NEW seeded \in BOOLEAN, Open(s, d, seeded)
      PROVE  Records'
  BY <1>0, <1>2 DEF Records, Open, Begin, limits
<1>3. ASSUME NEW s \in Slots, NEW w \in sessions, NEW d \in Devices, Invite(s, w, d)
      PROVE  Records'
  BY <1>0, <1>3 DEF Records, Invite, Begin, limits
<1>4. ASSUME NEW s \in Slots, ReadFile(s) \/ List(s) \/ Truncate(s) \/ Fill(s)
                              \/ OpenReturns(s) \/ InviteWrites(s)
      PROVE  Records'
  BY <1>4 DEF Records, ReadFile, List, Truncate, Fill, OpenReturns, InviteWrites, limits
<1>5. ASSUME NEW s \in Slots, CreateReturns(s)
      PROVE  Records'
  <2>1. call[s].op = "create" /\ call[s] # Idle
    BY <1>5 DEF CreateReturns, HasWritten, Busy, Idle
  <2>2. call[s].made \in Creations /\ call[s].envelope \in Envelope
    BY <2>1 DEF BundleInv, Calls, CreateCalls, OpenCalls, InviteCalls, Keyed
  <2>3. /\ stores' = stores \cup {call[s].made} /\ returned' = returned \cup {call[s].envelope}
        /\ UNCHANGED <<used, issued, expired, made>>
    BY <1>5 DEF CreateReturns, MadeStores, limits
  <2> QED
    BY <2>2, <2>3 DEF Records
<1>6. ASSUME NEW s \in Slots, InviteReturns(s)
      PROVE  Records'
  <2>1. call[s].op = "invite" /\ call[s] # Idle
    BY <1>6 DEF InviteReturns, HasWritten, Busy, Idle
  <2>2. call[s].envelope \in Envelope
    BY <2>1 DEF BundleInv, Calls, CreateCalls, OpenCalls, InviteCalls, Keyed
  <2>3. /\ returned' = returned \cup {call[s].envelope}
        /\ UNCHANGED <<stores, used, issued, expired, made>>
    BY <1>6 DEF InviteReturns, limits
  <2> QED
    BY <2>2, <2>3 DEF Records
<1>7. ASSUME NEW d \in Devices, Crash(d)
      PROVE  Records'
  BY <1>7 DEF Records, Crash
<1>8. CASE Year
  BY <1>8 DEF Records, Year
<1>9. CASE UNCHANGED vars
  BY <1>9 DEF Records, vars, limits
<1> QED
  BY <1>1, <1>2, <1>3, <1>4, <1>5, <1>6, <1>7, <1>8, <1>9 DEF Next

\* The types of the folder's files, the sessions and the envelopes
\* (portable-bootstrap/src/folder.ts), for any devices and creations.
THEOREM BundleTypes == Spec => []TypeOK
<1>1. Init => Records
  BY BoundsAssumption DEF Init, Records
<1>2. BundleInv /\ Records => TypeOK
  <2> SUFFICES ASSUME BundleInv, Records
               PROVE  TypeOK
    OBVIOUS
  <2>1. \A f \in Files : disk[f] \in Creations \cup {None, Torn} \cup Envelope
    BY DEF BundleInv, Disk, Held, Keyed
  <2>2. disk \in [Files -> Creations \cup {None, Torn} \cup Envelope]
    BY <2>1 DEF BundleInv, Disk
  <2>3. \A d \in Devices : disk[d] \notin Creations
    <3> SUFFICES ASSUME NEW d \in Devices
                 PROVE  disk[d] \notin Creations
      OBVIOUS
    <3>1. disk[d] \in Keyed \cup {None, Torn}
      BY FilesFacts DEF BundleInv, Disk, Held
    <3>2. \A e \in Keyed : e \notin Creations
      BY CreationsAssumption DEF Keyed
    <3> QED
      BY <3>1, <3>2, NoneAssumption
  <2>4. issued \in 0..MaxCalls /\ expired \in 0..issued
    BY BoundsAssumption DEF Records
  <2> QED
    BY <2>2, <2>3, <2>4 DEF TypeOK, Records, BundleInv, Sessions
<1> QED
  BY <1>1, <1>2, BundleInit, BundleNext, RecordsStep, PTL DEF Spec

-----------------------------------------------------------------------------
(* The folder of one workspace. *)

Founded == disk[Manifest] # None /\ disk[Attestation] # None

\* The file is there, or the call is about to write it.
Due(s, f) ==
    disk[f] # None \/ \E i \in 1..Len(call[s].bundle) : call[s].bundle[i].file = f

\* What a call has read, what it was begun in, or what it leaves once it has written.
CallFounds(s) ==
    /\ call[s].op \in {"open", "invite"} /\ call[s].at = "read" =>
        \A f \in {Manifest, Attestation} \ call[s].todo : disk[f] # None
    /\ call[s].op \in {"open", "invite"} /\ call[s].at = "envelopes" => Founded
    /\ call[s].op = "invite" =>
        /\ Founded /\ call[s].envelope.no > 1
        /\ call[s].at \in {"write", "fill"} => Due(s, call[s].envelope.to)
    /\ call[s].op = "create" =>
        \A f \in {Manifest, Attestation, call[s].envelope.to} : Due(s, f)

CallsFound == \A s \in Slots : CallFounds(s)

\* Before the first envelope there is nothing, and nobody who writes.
Fresh ==
    issued = 0 =>
        /\ \A f \in Files : disk[f] = None
        /\ \A s \in Slots : call[s].op \notin {"create", "invite"}

Returned ==
    \A e \in returned :
        /\ e \in Keyed /\ Founded /\ disk[e.to] # None
        /\ e.no = 1 => stores # {}

Began == IsFiniteSet(used) /\ used \subseteq Creations

FoundInv == CallsFound /\ (sessions # {} => Founded) /\ Fresh /\ Returned /\ Began

\* x is what creation c puts in file f.
Own(f, x, c) == x \in Held(f) /\ IF f \in Devices THEN x.root = c ELSE x = c

OwnDisk(c) == \A f \in Files : disk[f] \in {None, Torn} \/ Own(f, disk[f], c)

OwnCall(s, c) ==
    /\ call[s] # Idle => \A i \in 1..Len(call[s].bundle) :
        Own(call[s].bundle[i].file, call[s].bundle[i].content, c)
    /\ call[s].op \in {"create", "invite"} => call[s].envelope.root = c
    /\ call[s].op = "create" => call[s].made = c

\* All there is is c's.
Alone(c) ==
    /\ OwnDisk(c)
    /\ \A s \in Slots : OwnCall(s, c)
    /\ \A w \in sessions : w.logs = c
    /\ stores \subseteq {c}

OneInv == \A c \in Creations : used \subseteq {c} => Alone(c)

-----------------------------------------------------------------------------
LEMMA NoContent == \A f \in Files : None \notin Held(f) /\ Torn \notin Held(f)
  BY NoneAssumption DEF Held, Keyed

\* A file that is there stays there, and envelopes are issued in turn.
Grows == (\A f \in Files : disk[f] # None => disk'[f] # None) /\ issued' >= issued

LEMMA TruncateGrows ==
    ASSUME BundleInv, NEW s \in Slots, Truncate(s)
    PROVE  Grows
  BY NoneAssumption DEF BundleInv, Disk, Numbers, Truncate, Grows

\* What a call writes next is an entry of the bundle.
LEMMA FillsHead ==
    ASSUME BundleInv, NEW s \in Slots, Fill(s)
    PROVE  /\ call[s] \in CreateCalls \cup InviteCalls
           /\ call[s].bundle \in Seq(Entries) /\ call[s].bundle # <<>>
           /\ Head(call[s].bundle) \in Entries
           /\ disk' = [disk EXCEPT ![Head(call[s].bundle).file] = Head(call[s].bundle).content]
<1>1. call[s] \in CreateCalls \cup InviteCalls
  BY CallRecords DEF BundleInv, Fill
<1>2. call[s].bundle \in Seq(Entries) /\ call[s].bundle # <<>>
  BY <1>1 DEF BundleInv, Calls, Fill, CreateCalls, InviteCalls, Idle
<1> QED
  BY <1>1, <1>2 DEF Fill, FileOf

LEMMA FillGrows ==
    ASSUME BundleInv, NEW s \in Slots, Fill(s)
    PROVE  Grows
<1> DEFINE b == Head(call[s].bundle)
<1>1. b \in Entries /\ disk' = [disk EXCEPT ![b.file] = b.content]
  BY FillsHead
<1>2. b.content # None
  BY <1>1, NoContent DEF Entries
<1> HIDE DEF b
<1> QED
  BY <1>1, <1>2 DEF BundleInv, Disk, Numbers, Fill, Grows

LEMMA StepGrows ==
    ASSUME BundleInv, [Next]_vars
    PROVE  Grows
<1>1. issued \in Nat
  BY DEF BundleInv, Numbers
<1>2. (disk' = disk /\ issued' >= issued) => Grows
  BY DEF Grows
<1>3. ASSUME NEW s \in Slots, NEW d \in Devices, NEW c \in Creations, Create(s, d, c)
      PROVE  disk' = disk /\ issued' >= issued
  BY <1>1, <1>3 DEF Create
<1>5. ASSUME NEW s \in Slots, NEW w \in sessions, NEW d \in Devices, Invite(s, w, d)
      PROVE  disk' = disk /\ issued' >= issued
  BY <1>1, <1>5 DEF Invite
<1>6. ASSUME NEW s \in Slots,
             \/ \E d \in Devices : \E seeded \in BOOLEAN : Open(s, d, seeded)
             \/ ReadFile(s) \/ List(s)
             \/ CreateReturns(s) \/ OpenReturns(s) \/ InviteWrites(s) \/ InviteReturns(s)
      PROVE  disk' = disk /\ issued' = issued
  BY <1>6 DEF Open, ReadFile, List, CreateReturns, OpenReturns, InviteWrites, InviteReturns
<1>4. ASSUME (\E d \in Devices : Crash(d)) \/ Year \/ UNCHANGED vars
      PROVE  disk' = disk /\ issued' >= issued
  BY <1>1, <1>4 DEF Crash, Year, vars
<1> QED
  BY <1>1, <1>2, <1>3, <1>4, <1>5, <1>6, TruncateGrows, FillGrows DEF Next

\* A call that does not move keeps what it found and what it is about to write.
LEMMA StaysFound ==
    ASSUME BundleInv, Grows, NEW s \in Slots, CallFounds(s), call'[s] = call[s]
    PROVE  CallFounds(s)'
<1>1. Founded => Founded'
  BY FilesFacts DEF Grows, Founded
<1>2. \A f \in Files : Due(s, f) => Due(s, f)'
  BY DEF Grows, Due
<1>3. call[s].op = "create" => call[s].envelope.to \in Files
  BY CallRecords, FilesFacts DEF BundleInv, CreateCalls, Keyed, Envelope
<1>4. call[s].op = "invite" => call[s].envelope.to \in Files
  BY CallRecords, FilesFacts DEF BundleInv, InviteCalls, Keyed, Envelope
<1> QED
  BY <1>1, <1>2, <1>3, <1>4, FilesFacts DEF CallFounds, Grows

LEMMA IdleFounds ==
    ASSUME NEW s \in Slots, call'[s] = Idle
    PROVE  CallFounds(s)'
  BY DEF CallFounds, Idle

\* One slot moves, and what it moves to is founded: so are all.
LEMMA MovesFound ==
    ASSUME BundleInv, Grows, CallsFound, NEW s \in Slots, NEW c, Goes(s, c), CallFounds(s)'
    PROVE  CallsFound'
<1> SUFFICES ASSUME NEW t \in Slots
             PROVE  CallFounds(t)'
  BY DEF CallsFound
<1>1. CASE t = s
  BY <1>1
<1>2. CASE t # s
  <2>1. call'[t] = call[t]
    BY <1>2 DEF Goes, BundleInv, Calls
  <2> QED
    BY <2>1, StaysFound DEF CallsFound
<1> QED
  BY <1>1, <1>2

\* Goes sets the slot.
LEMMA GoesTo ==
    ASSUME BundleInv, NEW s \in Slots, NEW c, Goes(s, c)
    PROVE  call'[s] = c /\ \A t \in Slots \ {s} : call'[t] = call[t]
  BY DEF Goes, BundleInv, Calls

\* What is true of the sessions and of what returned stays, as none begins or returns.
LEMMA StaysReturned ==
    ASSUME BundleInv, Grows, FoundInv, UNCHANGED <<used, stores>>,
           sessions' \subseteq sessions, returned' = returned
    PROVE  (sessions # {} => Founded)' /\ Returned' /\ Began'
<1>1. Founded => Founded'
  BY FilesFacts DEF Grows, Founded
<1>2. Began'
  BY DEF FoundInv, Began
<1>3. (sessions # {} => Founded)'
  BY <1>1 DEF FoundInv
<1>4. Returned'
  <2> SUFFICES ASSUME NEW e \in returned
               PROVE  /\ e \in Keyed /\ Founded' /\ disk'[e.to] # None
                      /\ e.no = 1 => stores # {}
    BY DEF Returned
  <2>1. /\ e \in Keyed /\ Founded /\ disk[e.to] # None
        /\ e.no = 1 => stores # {}
    BY DEF FoundInv, Returned
  <2>2. e.to \in Files
    BY <2>1, FilesFacts DEF Keyed, Envelope
  <2> QED
    BY <1>1, <2>1, <2>2 DEF Grows
<1> QED
  BY <1>2, <1>3, <1>4

LEMMA StaysFresh ==
    ASSUME Fresh, issued' = issued,
           disk' = disk \/ \E s \in Slots : call[s].op \in {"create", "invite"},
           \A t \in Slots :
               call'[t].op \in {"create", "invite"} => call[t].op \in {"create", "invite"}
    PROVE  Fresh'
  BY DEF Fresh

LEMMA TruncateFounds ==
    ASSUME BundleInv, FoundInv, NEW s \in Slots, Truncate(s)
    PROVE  FoundInv'
<1> DEFINE c == [call[s] EXCEPT !.at = "fill"]
<1>1. Grows
  BY TruncateGrows
<1>2. call[s] \in CreateCalls \cup InviteCalls
  BY CallRecords DEF BundleInv, Truncate
<1>3. Goes(s, c) /\ call'[s] = c /\ \A t \in Slots \ {s} : call'[t] = call[t]
  BY GoesTo DEF Truncate
<1>4. /\ c.op = call[s].op /\ c.bundle = call[s].bundle /\ c.envelope = call[s].envelope
      /\ c.at = "fill"
  BY <1>2 DEF CreateCalls, InviteCalls
<1>5. CallFounds(s)'
  <2>1. \A f \in Files : Due(s, f) => Due(s, f)'
    BY <1>1, <1>3, <1>4 DEF Due, Grows
  <2>2. Founded => Founded'
    BY <1>1, FilesFacts DEF Grows, Founded
  <2>3. call[s].envelope.to \in Files
    BY <1>2, FilesFacts DEF CreateCalls, InviteCalls, Keyed, Envelope
  <2> HIDE DEF c
  <2>4. CallFounds(s) /\ call[s].at = "write"
    BY DEF FoundInv, CallsFound, Truncate
  <2> QED
    BY <1>3, <1>4, <2>1, <2>2, <2>3, <2>4, FilesFacts DEF CallFounds
<1>6. CallsFound'
  BY <1>1, <1>3, <1>5, MovesFound DEF FoundInv
<1>7. Fresh'
  <2> HIDE DEF c
  <2> QED
    BY <1>3, <1>4, StaysFresh DEF FoundInv, Truncate
<1> QED
  BY <1>1, <1>6, <1>7, StaysReturned DEF FoundInv, Truncate

LEMMA FillFounds ==
    ASSUME BundleInv, FoundInv, NEW s \in Slots, Fill(s)
    PROVE  FoundInv'
<1> DEFINE b == Head(call[s].bundle)
           c == [call[s] EXCEPT !.at = "write", !.bundle = Tail(@)]
<1>1. Grows
  BY FillGrows
<1>2. /\ call[s] \in CreateCalls \cup InviteCalls
      /\ call[s].bundle \in Seq(Entries) /\ call[s].bundle # <<>>
      /\ b \in Entries /\ disk' = [disk EXCEPT ![b.file] = b.content]
  BY FillsHead
<1>3. Goes(s, c) /\ call'[s] = c /\ \A t \in Slots \ {s} : call'[t] = call[t]
  BY GoesTo DEF Fill
<1>4. /\ c.op = call[s].op /\ c.bundle = Tail(call[s].bundle) /\ c.envelope = call[s].envelope
      /\ c.at = "write"
  BY <1>2 DEF CreateCalls, InviteCalls
<1>5. ASSUME NEW f \in Files, Due(s, f)
      PROVE  Due(s, f)'
  <2>1. CASE disk[f] # None
    BY <1>1, <2>1 DEF Due, Grows
  <2>2. CASE \E i \in 1..Len(call[s].bundle) : call[s].bundle[i].file = f
    <3>1. PICK i \in 1..Len(call[s].bundle) : call[s].bundle[i].file = f
      BY <2>2
    <3>2. CASE i = 1
      <4>1. b = call[s].bundle[1]
        BY <1>2
      <4>2. b.content # None
        BY <1>2, NoContent DEF Entries
      <4> HIDE DEF b, c
      <4>3. disk'[f] # None
        BY <1>2, <3>1, <3>2, <4>1, <4>2 DEF BundleInv, Disk
      <4> QED
        BY <4>3 DEF Due
    <3>3. CASE i # 1
      <4>1. i - 1 \in 1..Len(Tail(call[s].bundle)) /\ Tail(call[s].bundle)[i - 1] = call[s].bundle[i]
        BY <1>2, <3>1, <3>3, HeadTailProperties
      <4> HIDE DEF b, c
      <4>2. i - 1 \in 1..Len(call'[s].bundle) /\ call'[s].bundle[i - 1].file = f
        BY <1>3, <1>4, <3>1, <4>1
      <4> QED
        BY <4>2 DEF Due
    <3> QED
      BY <3>2, <3>3
  <2> QED
    BY <1>5, <2>1, <2>2 DEF Due
<1>6. CallFounds(s)'
  <2>1. Founded => Founded'
    BY <1>1, FilesFacts DEF Grows, Founded
  <2>2. call[s].envelope.to \in Files
    BY <1>2, FilesFacts DEF CreateCalls, InviteCalls, Keyed, Envelope
  <2> HIDE DEF b, c
  <2>3. CallFounds(s) /\ call[s].at = "fill"
    BY DEF FoundInv, CallsFound, Fill
  <2> QED
    BY <1>3, <1>4, <1>5, <2>1, <2>2, <2>3, FilesFacts DEF CallFounds
<1>7. CallsFound'
  BY <1>1, <1>3, <1>6, MovesFound DEF FoundInv
<1>8. Fresh'
  <2> HIDE DEF b, c
  <2> QED
    BY <1>3, <1>4, StaysFresh DEF FoundInv, Fill
<1> QED
  BY <1>1, <1>7, <1>8, StaysReturned DEF FoundInv, Fill

LEMMA ReadFounds ==
    ASSUME BundleInv, FoundInv, NEW s \in Slots, ReadFile(s)
    PROVE  FoundInv'
<1>1. Grows
  BY StepGrows DEF Next
<1>2. call[s] \in OpenCalls \cup InviteCalls /\ call[s].at \in {"read", "envelopes"}
  BY CallRecords DEF BundleInv, ReadFile
<1>3. PICK f \in call[s].todo :
        \/ disk[f] \in {None, Torn} /\ Goes(s, Idle)
        \/ /\ disk[f] \notin {None, Torn}
           /\ Goes(s, [call[s] EXCEPT !.todo = @ \ {f}, !.bundle = Append(@, Entry(f, disk[f]))])
  BY DEF ReadFile
<1>4. CallsFound' /\ Fresh'
  <2>1. CASE Goes(s, Idle)
    <3>1. call'[s] = Idle /\ \A t \in Slots \ {s} : call'[t] = call[t]
      BY <2>1, GoesTo
    <3>2. CallsFound'
      BY <1>1, <2>1, <3>1, IdleFounds, MovesFound DEF FoundInv
    <3>3. Fresh'
      BY <3>1, StaysFresh DEF FoundInv, ReadFile, Idle
    <3> QED
      BY <3>2, <3>3
  <2>2. CASE /\ disk[f] \notin {None, Torn}
             /\ Goes(s, [call[s] EXCEPT !.todo = @ \ {f}, !.bundle = Append(@, Entry(f, disk[f]))])
    <3> DEFINE c == [call[s] EXCEPT !.todo = @ \ {f}, !.bundle = Append(@, Entry(f, disk[f]))]
    <3>1. Goes(s, c) /\ call'[s] = c /\ \A t \in Slots \ {s} : call'[t] = call[t]
      BY <2>2, GoesTo
    <3>2. /\ c.op = call[s].op /\ c.at = call[s].at /\ c.todo = call[s].todo \ {f}
          /\ c.op = "invite" => c.envelope = call[s].envelope
      BY <1>2 DEF OpenCalls, InviteCalls
    <3> HIDE DEF c
    <3>3. CallFounds(s)'
      <4>1. CallFounds(s) /\ disk' = disk /\ disk[f] # None
        BY <2>2 DEF FoundInv, CallsFound, ReadFile
      <4>2. c.op \in {"open", "invite"} /\ c.at \in {"read", "envelopes"}
        BY <1>2, <3>2 DEF OpenCalls, InviteCalls
      <4> QED
        BY <3>1, <3>2, <4>1, <4>2 DEF CallFounds, Founded
    <3>4. CallsFound'
      BY <1>1, <3>1, <3>3, MovesFound DEF FoundInv
    <3>5. Fresh'
      BY <3>1, <3>2, StaysFresh DEF FoundInv, ReadFile
    <3> QED
      BY <3>4, <3>5
  <2> QED
    BY <1>3, <2>1, <2>2
<1> QED
  BY <1>1, <1>4, StaysReturned DEF FoundInv, ReadFile

LEMMA ListFounds ==
    ASSUME BundleInv, FoundInv, NEW s \in Slots, List(s)
    PROVE  FoundInv'
<1> DEFINE c == [call[s] EXCEPT !.todo = Listing, !.at = "envelopes"]
<1>1. Grows
  BY StepGrows DEF Next
<1>2. call[s] \in OpenCalls \cup InviteCalls
  BY CallRecords DEF BundleInv, List
<1>3. Goes(s, c) /\ call'[s] = c /\ \A t \in Slots \ {s} : call'[t] = call[t]
  BY GoesTo DEF List
<1>4. /\ c.op = call[s].op /\ c.at = "envelopes" /\ c.op \in {"open", "invite"}
      /\ c.op = "invite" => c.envelope = call[s].envelope
  BY <1>2 DEF OpenCalls, InviteCalls
<1> HIDE DEF c
<1>5. CallFounds(s)'
  <2>1. Founded' /\ CallFounds(s)
    BY DEF FoundInv, CallsFound, CallFounds, List, Founded
  <2> QED
    BY <1>3, <1>4, <2>1 DEF CallFounds
<1>6. CallsFound'
  BY <1>1, <1>3, <1>5, MovesFound DEF FoundInv
<1>7. Fresh'
  BY <1>3, <1>4, StaysFresh DEF FoundInv, List
<1> QED
  BY <1>1, <1>6, <1>7, StaysReturned DEF FoundInv, List

LEMMA CreateFounds ==
    ASSUME BundleInv, FoundInv,
           NEW s \in Slots, NEW d \in Devices, NEW k \in Creations, Create(s, d, k)
    PROVE  FoundInv'
<1> DEFINE e == CreateEnvelope(k, k, d, issued')
           c == [op |-> "create", dev |-> d, at |-> "write", todo |-> {}, made |-> k,
                 envelope |-> e, bundle |-> CreateBundle(k, e)]
<1>1. Grows
  BY StepGrows DEF Next
<1>2. Goes(s, c) /\ call'[s] = c
  BY GoesTo DEF Create
<1>3. e.to = d /\ CreateBundle(k, e) = <<Entry(Manifest, k), Entry(Attestation, k), Entry(d, e)>>
  BY DEF CreateEnvelope, CreateBundle
<1>4. \A f \in {Manifest, Attestation, d} : \E i \in 1..3 : CreateBundle(k, e)[i].file = f
  BY <1>3 DEF Entry
<1>5. c.op = "create" /\ c.envelope.to = d /\ Len(c.bundle) = 3 /\ c.bundle = CreateBundle(k, e)
  BY <1>3
<1> HIDE DEF c, e
<1>6. CallFounds(s)'
  BY <1>2, <1>4, <1>5 DEF CallFounds, Due
<1>7. CallsFound'
  BY <1>1, <1>2, <1>6, MovesFound DEF FoundInv
<1>8. Fresh'
  BY DEF Fresh, Create, BundleInv, Numbers
<1>9. Began'
  BY FS_AddElement DEF FoundInv, Began, Create
<1>10. (sessions # {} => Founded)' /\ Returned'
  BY DEF FoundInv, Returned, Founded, Create
<1> QED
  BY <1>7, <1>8, <1>9, <1>10 DEF FoundInv

\* A create that returns has made all the files, and makes the logs.
LEMMA CreateReturnsFounds ==
    ASSUME BundleInv, FoundInv, NEW s \in Slots, CreateReturns(s)
    PROVE  FoundInv'
<1>1. Grows
  BY StepGrows DEF Next
<1>2. /\ Goes(s, Idle) /\ call'[s] = Idle
      /\ \A t \in Slots \ {s} : call'[t] = call[t]
  BY GoesTo DEF CreateReturns
<1>3. CallsFound'
  BY <1>1, <1>2, IdleFounds, MovesFound DEF FoundInv
<1>4. Fresh'
  BY <1>2, StaysFresh DEF FoundInv, CreateReturns, Idle
<1>5. call[s] \in CreateCalls
  BY CallRecords DEF BundleInv, CreateReturns, HasWritten, Busy
<1>6. Founded /\ disk[call[s].envelope.to] # None
  <2>1. CallFounds(s) /\ call[s].op = "create" /\ call[s].bundle = <<>>
    BY DEF FoundInv, CallsFound, CreateReturns, HasWritten, Busy
  <2>2. \A f \in {Manifest, Attestation, call[s].envelope.to} : Due(s, f)
    BY <2>1 DEF CallFounds
  <2>3. \A f : Due(s, f) => disk[f] # None
    BY <2>1 DEF Due
  <2> QED
    BY <2>2, <2>3 DEF Founded
<1>7. (sessions # {} => Founded)' /\ Began'
  BY <1>6 DEF FoundInv, Began, Founded, CreateReturns
<1>8. Returned'
  <2>1. stores' # {} /\ disk' = disk /\ returned' = returned \cup {call[s].envelope}
    BY DEF CreateReturns, MadeStores
  <2>2. call[s].envelope \in Keyed
    BY <1>5 DEF CreateCalls
  <2> QED
    BY <1>6, <2>1, <2>2 DEF FoundInv, Returned, Founded
<1> QED
  BY <1>3, <1>4, <1>7, <1>8 DEF FoundInv

LEMMA OpenFounds ==
    ASSUME BundleInv, FoundInv,
           NEW s \in Slots, NEW d \in Devices, NEW seeded \in BOOLEAN, Open(s, d, seeded)
    PROVE  FoundInv'
<1> DEFINE c == [op |-> "open", dev |-> d, at |-> "read", todo |-> {Manifest, Attestation},
                 seeded |-> seeded, bundle |-> <<>>]
<1>1. Grows
  BY StepGrows DEF Next
<1>2. Goes(s, c) /\ call'[s] = c /\ \A t \in Slots \ {s} : call'[t] = call[t]
  BY GoesTo DEF Open
<1>3. c.op = "open" /\ c.at = "read" /\ c.todo = {Manifest, Attestation}
  OBVIOUS
<1> HIDE DEF c
<1>4. CallFounds(s)'
  BY <1>2, <1>3 DEF CallFounds
<1>5. CallsFound'
  BY <1>1, <1>2, <1>4, MovesFound DEF FoundInv
<1>6. Fresh'
  BY <1>2, <1>3, StaysFresh DEF FoundInv, Open
<1> QED
  BY <1>1, <1>5, <1>6, StaysReturned DEF FoundInv, Open

LEMMA OpenReturnsFounds ==
    ASSUME BundleInv, FoundInv, NEW s \in Slots, OpenReturns(s)
    PROVE  FoundInv'
<1>1. Grows
  BY StepGrows DEF Next
<1>2. /\ Goes(s, Idle) /\ call'[s] = Idle
      /\ \A t \in Slots \ {s} : call'[t] = call[t]
  BY GoesTo DEF OpenReturns
<1>3. CallsFound'
  BY <1>1, <1>2, IdleFounds, MovesFound DEF FoundInv
<1>4. Fresh'
  BY <1>2, StaysFresh DEF FoundInv, OpenReturns, Idle
<1>5. Founded'
  <2>1. CallFounds(s) /\ disk' = disk
    BY DEF FoundInv, CallsFound, OpenReturns
  <2> QED
    BY <2>1 DEF CallFounds, OpenReturns, HasRead, Busy, Founded
<1>6. Began' /\ Returned'
  BY DEF FoundInv, Began, Returned, Founded, OpenReturns
<1> QED
  BY <1>3, <1>4, <1>5, <1>6 DEF FoundInv

\* Who invites has the workspace open: it was there, and an envelope was issued.
LEMMA InviteFounds ==
    ASSUME BundleInv, FoundInv, NEW s \in Slots, NEW w \in sessions, NEW d \in Devices, Invite(s, w, d)
    PROVE  FoundInv'
<1> DEFINE c == [op |-> "invite", dev |-> w.dev, at |-> "read", todo |-> {Manifest, Attestation},
                 envelope |-> CreateEnvelope(w.logs, w.key, d, issued'), bundle |-> <<>>]
<1>1. Grows
  BY StepGrows DEF Next
<1>2. Goes(s, c) /\ call'[s] = c
  BY GoesTo DEF Invite
<1>3. /\ c.op = "invite" /\ c.at = "read" /\ c.todo = {Manifest, Attestation}
      /\ c.envelope.no = issued'
  BY DEF CreateEnvelope
<1> HIDE DEF c
<1>4. Founded /\ issued' > 1 /\ disk' = disk
  <2>1. Founded
    BY DEF FoundInv
  <2>2. issued # 0
    BY <2>1, FilesFacts DEF FoundInv, Fresh, Founded
  <2> QED
    BY <2>1, <2>2 DEF Invite, BundleInv, Numbers
<1>5. CallFounds(s)'
  BY <1>2, <1>3, <1>4 DEF CallFounds, Founded
<1>6. CallsFound'
  BY <1>1, <1>2, <1>5, MovesFound DEF FoundInv
<1>7. Fresh'
  BY <1>4 DEF Fresh
<1> QED
  BY <1>1, <1>6, <1>7, StaysReturned DEF FoundInv, Invite

LEMMA InviteWritesFounds ==
    ASSUME BundleInv, FoundInv, NEW s \in Slots, InviteWrites(s)
    PROVE  FoundInv'
<1> DEFINE e == call[s].envelope
           c == [call[s] EXCEPT !.bundle = Append(@, Entry(e.to, e)), !.at = "write"]
<1>1. Grows
  BY StepGrows DEF Next
<1>2. Goes(s, c) /\ call'[s] = c /\ \A t \in Slots \ {s} : call'[t] = call[t]
  BY GoesTo DEF InviteWrites
<1>3. call[s] \in InviteCalls
  BY CallRecords DEF BundleInv, InviteWrites, HasRead, Busy
<1>4. c.op = "invite" /\ c.at = "write" /\ c.envelope = e /\ c.bundle = Append(call[s].bundle, Entry(e.to, e))
  BY <1>3 DEF InviteCalls
<1>5. LET n == Len(call[s].bundle) + 1
      IN  n \in 1..Len(c.bundle) /\ c.bundle[n].file = e.to
  <2>1. call[s].bundle \in Seq(Entries) /\ Entry(e.to, e).file = e.to
    BY <1>3 DEF InviteCalls, Entry
  <2> HIDE DEF c, e
  <2> QED
    BY <1>4, <2>1
<1> HIDE DEF c
<1>6. CallFounds(s)'
  <2>1. CallFounds(s) /\ disk' = disk /\ call[s].op = "invite"
    BY DEF FoundInv, CallsFound, InviteWrites, HasRead, Busy
  <2> QED
    BY <1>2, <1>4, <1>5, <2>1 DEF CallFounds, Founded, Due
<1>7. CallsFound'
  BY <1>1, <1>2, <1>6, MovesFound DEF FoundInv
<1>8. Fresh'
  BY <1>2, <1>4, StaysFresh DEF FoundInv, InviteWrites, HasRead, Busy
<1> QED
  BY <1>1, <1>7, <1>8, StaysReturned DEF FoundInv, InviteWrites

\* An invite that returns has written the envelope to its file.
LEMMA InviteReturnsFounds ==
    ASSUME BundleInv, FoundInv, NEW s \in Slots, InviteReturns(s)
    PROVE  FoundInv'
<1>1. Grows
  BY StepGrows DEF Next
<1>2. /\ Goes(s, Idle) /\ call'[s] = Idle
      /\ \A t \in Slots \ {s} : call'[t] = call[t]
  BY GoesTo DEF InviteReturns
<1>3. CallsFound'
  BY <1>1, <1>2, IdleFounds, MovesFound DEF FoundInv
<1>4. Fresh'
  BY <1>2, StaysFresh DEF FoundInv, InviteReturns, Idle
<1>5. call[s] \in InviteCalls
  BY CallRecords DEF BundleInv, InviteReturns, HasWritten, Busy
<1>6. Founded /\ disk[call[s].envelope.to] # None /\ call[s].envelope.no > 1
  <2>1. CallFounds(s) /\ call[s].op = "invite" /\ call[s].at = "write" /\ call[s].bundle = <<>>
    BY DEF FoundInv, CallsFound, InviteReturns, HasWritten, Busy
  <2>2. \A f : Due(s, f) => disk[f] # None
    BY <2>1 DEF Due
  <2> QED
    BY <2>1, <2>2 DEF CallFounds
<1>7. Began' /\ (sessions # {} => Founded)'
  BY DEF FoundInv, Began, Founded, InviteReturns
<1>8. Returned'
  <2>1. disk' = disk /\ stores' = stores /\ returned' = returned \cup {call[s].envelope}
    BY DEF InviteReturns
  <2>2. call[s].envelope \in Keyed
    BY <1>5 DEF InviteCalls
  <2> QED
    BY <1>6, <2>1, <2>2 DEF FoundInv, Returned, Founded
<1> QED
  BY <1>3, <1>4, <1>7, <1>8 DEF FoundInv

LEMMA CrashFounds ==
    ASSUME BundleInv, FoundInv, NEW d \in Devices, Crash(d)
    PROVE  FoundInv'
<1>1. Grows
  BY StepGrows DEF Next
<1>2. \A t \in Slots : call'[t] = Idle \/ call'[t] = call[t]
  BY DEF Crash
<1>3. CallsFound'
  BY <1>1, <1>2, IdleFounds, StaysFound DEF FoundInv, CallsFound
<1>4. Fresh'
  BY <1>2, StaysFresh DEF FoundInv, Crash, Idle
<1> QED
  BY <1>1, <1>3, <1>4, StaysReturned DEF FoundInv, Crash

LEMMA FoundInit == Init => FoundInv
  BY FS_EmptySet DEF Init, FoundInv, CallsFound, CallFounds, Fresh, Returned, Began, Idle

LEMMA FoundNext == BundleInv /\ FoundInv /\ [Next]_vars => FoundInv'
<1> SUFFICES ASSUME BundleInv, FoundInv, [Next]_vars
             PROVE  FoundInv'
  OBVIOUS
<1>1. CASE Year
  <2>1. Grows /\ \A t \in Slots : call'[t] = call[t]
    BY <1>1, StepGrows DEF Year
  <2>2. CallsFound' /\ Fresh'
    BY <1>1, <2>1, StaysFound, StaysFresh DEF FoundInv, CallsFound, Year
  <2> QED
    BY <1>1, <2>1, <2>2, StaysReturned DEF FoundInv, Year
<1>2. CASE UNCHANGED vars
  <2>1. Grows /\ \A t \in Slots : call'[t] = call[t]
    BY <1>2, StepGrows DEF vars
  <2>2. CallsFound' /\ Fresh'
    BY <1>2, <2>1, StaysFound, StaysFresh DEF FoundInv, CallsFound, vars
  <2> QED
    BY <1>2, <2>1, <2>2, StaysReturned DEF FoundInv, vars
<1> QED
  BY <1>1, <1>2, ReadFounds, ListFounds, TruncateFounds, FillFounds, CreateFounds,
     CreateReturnsFounds, OpenFounds, OpenReturnsFounds, InviteFounds, InviteWritesFounds,
     InviteReturnsFounds, CrashFounds DEF Next

-----------------------------------------------------------------------------
LEMMA MovesOwn ==
    ASSUME BundleInv, NEW c, \A t \in Slots : OwnCall(t, c),
           NEW s \in Slots, NEW x, Goes(s, x), OwnCall(s, c)'
    PROVE  \A t \in Slots : OwnCall(t, c)'
<1> SUFFICES ASSUME NEW t \in Slots, t # s
             PROVE  OwnCall(t, c)'
  OBVIOUS
<1>1. call'[t] = call[t] /\ OwnCall(t, c)
  BY GoesTo
<1> QED
  BY <1>1 DEF OwnCall

LEMMA IdleOwn ==
    ASSUME NEW s \in Slots, NEW c, call'[s] = Idle
    PROVE  OwnCall(s, c)'
  BY DEF OwnCall, Idle

LEMMA ReadOwn ==
    ASSUME BundleInv, NEW c, Alone(c), NEW s \in Slots, ReadFile(s)
    PROVE  Alone(c)'
<1>1. call[s] \in OpenCalls \cup InviteCalls
  BY CallRecords DEF BundleInv, ReadFile
<1>2. PICK f \in call[s].todo :
        \/ disk[f] \in {None, Torn} /\ Goes(s, Idle)
        \/ /\ disk[f] \notin {None, Torn}
           /\ Goes(s, [call[s] EXCEPT !.todo = @ \ {f}, !.bundle = Append(@, Entry(f, disk[f]))])
  BY DEF ReadFile
<1>3. \A t \in Slots : OwnCall(t, c)'
  <2>1. CASE Goes(s, Idle)
    BY <2>1, GoesTo, IdleOwn, MovesOwn DEF Alone
  <2>2. CASE /\ disk[f] \notin {None, Torn}
             /\ Goes(s, [call[s] EXCEPT !.todo = @ \ {f}, !.bundle = Append(@, Entry(f, disk[f]))])
    <3> DEFINE b == Entry(f, disk[f])
               x == [call[s] EXCEPT !.todo = @ \ {f}, !.bundle = Append(@, b)]
    <3>1. Goes(s, x) /\ call'[s] = x
      BY <2>2, GoesTo
    <3>2. /\ x.op = call[s].op /\ x.op \in {"open", "invite"}
          /\ x.bundle = Append(call[s].bundle, b)
          /\ x.op = "invite" => x.envelope = call[s].envelope
      BY <1>1 DEF OpenCalls, InviteCalls
    <3>3. call[s].bundle \in Seq(Entries) /\ f \in Files
      BY <1>1 DEF OpenCalls, InviteCalls
    <3>4. Own(b.file, b.content, c)
      BY <2>2, <3>3 DEF Entry, Alone, OwnDisk
    <3>5. OwnCall(s, c) /\ call[s] # Idle
      BY <3>2 DEF Alone, Idle
    <3> HIDE DEF b, x
    <3>6. \A i \in 1..Len(x.bundle) : Own(x.bundle[i].file, x.bundle[i].content, c)
      BY <3>2, <3>3, <3>4, <3>5 DEF OwnCall
    <3>7. OwnCall(s, c)'
      BY <3>1, <3>2, <3>5, <3>6 DEF OwnCall
    <3> QED
      BY <3>1, <3>7, MovesOwn DEF Alone
  <2> QED
    BY <1>2, <2>1, <2>2
<1> QED
  BY <1>3 DEF Alone, OwnDisk, ReadFile

LEMMA ListOwn ==
    ASSUME BundleInv, NEW c, Alone(c), NEW s \in Slots, List(s)
    PROVE  Alone(c)'
<1> DEFINE x == [call[s] EXCEPT !.todo = Listing, !.at = "envelopes"]
<1>1. call[s] \in OpenCalls \cup InviteCalls
  BY CallRecords DEF BundleInv, List
<1>2. Goes(s, x) /\ call'[s] = x
  BY GoesTo DEF List
<1>3. /\ x.op = call[s].op /\ x.bundle = call[s].bundle /\ x.op \in {"open", "invite"}
      /\ x.op = "invite" => x.envelope = call[s].envelope
  BY <1>1 DEF OpenCalls, InviteCalls
<1> HIDE DEF x
<1>4. OwnCall(s, c)'
  BY <1>2, <1>3 DEF Alone, OwnCall, Idle
<1> QED
  BY <1>2, <1>4, MovesOwn DEF Alone, OwnDisk, List

LEMMA TruncateOwn ==
    ASSUME BundleInv, NEW c, Alone(c), NEW s \in Slots, Truncate(s)
    PROVE  Alone(c)'
<1> DEFINE x == [call[s] EXCEPT !.at = "fill"]
<1>1. call[s] \in CreateCalls \cup InviteCalls
  BY CallRecords DEF BundleInv, Truncate
<1>2. Goes(s, x) /\ call'[s] = x
  BY GoesTo DEF Truncate
<1>3. /\ x.op = call[s].op /\ x.bundle = call[s].bundle /\ x.envelope = call[s].envelope
      /\ x.op \in {"create", "invite"} /\ x.op = "create" => x.made = call[s].made
  BY <1>1 DEF CreateCalls, InviteCalls
<1> HIDE DEF x
<1>4. OwnCall(s, c)'
  <2>1. OwnCall(s, c) /\ call[s].op \in {"create", "invite"}
    BY DEF Alone, Truncate
  <2>2. call[s] # Idle
    BY <2>1 DEF Idle
  <2> QED
    BY <1>2, <1>3, <2>1, <2>2 DEF OwnCall
<1>5. OwnDisk(c)'
  BY DEF BundleInv, Disk, Truncate, Alone, OwnDisk
<1> QED
  BY <1>2, <1>4, <1>5, MovesOwn DEF Alone, Truncate

LEMMA FillOwn ==
    ASSUME BundleInv, NEW c, Alone(c), NEW s \in Slots, Fill(s)
    PROVE  Alone(c)'
<1> DEFINE b == Head(call[s].bundle)
           x == [call[s] EXCEPT !.at = "write", !.bundle = Tail(@)]
<1>1. /\ call[s] \in CreateCalls \cup InviteCalls
      /\ call[s].bundle \in Seq(Entries) /\ call[s].bundle # <<>>
      /\ b \in Entries /\ disk' = [disk EXCEPT ![b.file] = b.content]
  BY FillsHead
<1>2. Goes(s, x) /\ call'[s] = x
  BY GoesTo DEF Fill
<1>3. /\ x.op = call[s].op /\ x.bundle = Tail(call[s].bundle) /\ x.envelope = call[s].envelope
      /\ x.op \in {"create", "invite"} /\ x.op = "create" => x.made = call[s].made
  BY <1>1 DEF CreateCalls, InviteCalls
<1>4. \A i \in 1..Len(call[s].bundle) : Own(call[s].bundle[i].file, call[s].bundle[i].content, c)
  <2>1. OwnCall(s, c) /\ call[s].op \in {"create", "invite"}
    BY DEF Alone, Fill
  <2>2. call[s] # Idle
    BY <2>1 DEF Idle
  <2> QED
    BY <2>1, <2>2 DEF OwnCall
<1>5. b = call[s].bundle[1] /\ 1 \in 1..Len(call[s].bundle)
  BY <1>1
<1>6. \A i \in 1..Len(Tail(call[s].bundle)) :
        /\ i + 1 \in 1..Len(call[s].bundle)
        /\ Tail(call[s].bundle)[i] = call[s].bundle[i + 1]
  BY <1>1, HeadTailProperties
<1> HIDE DEF b, x
<1>7. OwnCall(s, c)'
  <2>1. \A i \in 1..Len(x.bundle) : Own(x.bundle[i].file, x.bundle[i].content, c)
    BY <1>3, <1>4, <1>6
  <2>2. OwnCall(s, c)
    BY DEF Alone
  <2> QED
    BY <1>2, <1>3, <2>1, <2>2 DEF OwnCall
<1>8. OwnDisk(c)'
  BY <1>1, <1>4, <1>5 DEF BundleInv, Disk, Alone, OwnDisk
<1> QED
  BY <1>2, <1>7, <1>8, MovesOwn DEF Alone, Fill

\* The first creation of all is the only one.
LEMMA CreateOwn ==
    ASSUME BundleInv, NEW c \in Creations, Alone(c),
           NEW s \in Slots, NEW d \in Devices, Create(s, d, c)
    PROVE  Alone(c)'
<1> DEFINE e == CreateEnvelope(c, c, d, issued')
           x == [op |-> "create", dev |-> d, at |-> "write", todo |-> {}, made |-> c,
                 envelope |-> e, bundle |-> CreateBundle(c, e)]
<1>1. Goes(s, x) /\ call'[s] = x
  BY GoesTo DEF Create
<1>2. e \in Keyed /\ e.to = d /\ e.root = c
  <2>1. issued' \in Nat \ {0}
    BY DEF BundleInv, Numbers, Create
  <2> QED
    BY <2>1, EnvelopeKeyed DEF CreateEnvelope
<1>3. /\ x.op = "create" /\ x.envelope = e /\ x.made = c
      /\ x.bundle = <<Entry(Manifest, c), Entry(Attestation, c), Entry(d, e)>>
  BY <1>2 DEF CreateBundle
<1>4. Own(Manifest, c, c) /\ Own(Attestation, c, c) /\ Own(d, e, c)
  BY <1>2, FilesFacts DEF Own, Held
<1> HIDE DEF e, x
<1>5. \A i \in 1..Len(x.bundle) : Own(x.bundle[i].file, x.bundle[i].content, c)
  BY <1>3, <1>4 DEF Entry
<1>6. OwnCall(s, c)'
  BY <1>1, <1>2, <1>3, <1>5 DEF OwnCall
<1> QED
  BY <1>1, <1>6, MovesOwn DEF Alone, OwnDisk, Create

LEMMA CreateReturnsOwn ==
    ASSUME BundleInv, NEW c, Alone(c), NEW s \in Slots, CreateReturns(s)
    PROVE  Alone(c)'
<1>1. Goes(s, Idle) /\ call'[s] = Idle /\ call[s].made = c
  BY GoesTo DEF CreateReturns, HasWritten, Busy, Alone, OwnCall
<1>2. \A t \in Slots : OwnCall(t, c)'
  BY <1>1, IdleOwn, MovesOwn DEF Alone
<1> QED
  BY <1>1, <1>2 DEF Alone, OwnDisk, CreateReturns, MadeStores

LEMMA OpenOwn ==
    ASSUME BundleInv, NEW c, Alone(c), NEW s \in Slots, NEW d \in Devices,
           NEW seeded \in BOOLEAN, Open(s, d, seeded)
    PROVE  Alone(c)'
<1> DEFINE x == [op |-> "open", dev |-> d, at |-> "read", todo |-> {Manifest, Attestation},
                 seeded |-> seeded, bundle |-> <<>>]
<1>1. Goes(s, x) /\ call'[s] = x
  BY GoesTo DEF Open
<1>2. x.op = "open" /\ x.bundle = <<>>
  OBVIOUS
<1> HIDE DEF x
<1>3. OwnCall(s, c)'
  BY <1>1, <1>2 DEF OwnCall
<1> QED
  BY <1>1, <1>3, MovesOwn DEF Alone, OwnDisk, Open

\* What is accepted is by the root that the bundle names: its logs are c's too.
LEMMA OpenReturnsOwn ==
    ASSUME BundleInv, NEW c, Alone(c), NEW s \in Slots, OpenReturns(s)
    PROVE  Alone(c)'
<1>1. call[s] \in OpenCalls
  BY CallRecords DEF BundleInv, OpenReturns, HasRead, Busy
<1> DEFINE logs == call[s].bundle[1].content
<1>2. ASSUME NEW e \in ConsumeBundle(call[s].bundle, call[s].dev)
      PROVE  logs = c
  <2>1. e.root = logs /\ e \in Mine(call[s].bundle, call[s].dev)
    BY <1>2 DEF ConsumeBundle, ConsumeEnvelope
  <2>2. PICK i \in DOMAIN call[s].bundle :
            e = call[s].bundle[i].content /\ call[s].bundle[i].file = call[s].dev
    BY <2>1 DEF Mine
  <2>3. i \in 1..Len(call[s].bundle) /\ call[s].dev \in Devices /\ call[s] # Idle
    BY <1>1 DEF OpenCalls, Idle
  <2>4. Own(call[s].dev, e, c)
    BY <2>2, <2>3 DEF Alone, OwnCall
  <2> QED
    BY <2>1, <2>3, <2>4 DEF Own
<1>3. \A w \in sessions' : w.logs = c
  BY <1>2 DEF Alone, OpenReturns
<1>4. Goes(s, Idle) /\ call'[s] = Idle
  BY GoesTo DEF OpenReturns
<1>5. \A t \in Slots : OwnCall(t, c)'
  BY <1>4, IdleOwn, MovesOwn DEF Alone
<1> QED
  BY <1>3, <1>5 DEF Alone, OwnDisk, OpenReturns

LEMMA InviteOwn ==
    ASSUME BundleInv, NEW c, Alone(c),
           NEW s \in Slots, NEW w \in sessions, NEW d \in Devices, Invite(s, w, d)
    PROVE  Alone(c)'
<1> DEFINE x == [op |-> "invite", dev |-> w.dev, at |-> "read", todo |-> {Manifest, Attestation},
                 envelope |-> CreateEnvelope(w.logs, w.key, d, issued'), bundle |-> <<>>]
<1>1. Goes(s, x) /\ call'[s] = x
  BY GoesTo DEF Invite
<1>2. x.op = "invite" /\ x.bundle = <<>> /\ x.envelope.root = c
  BY DEF CreateEnvelope, Alone
<1> HIDE DEF x
<1>3. OwnCall(s, c)'
  BY <1>1, <1>2 DEF OwnCall
<1> QED
  BY <1>1, <1>3, MovesOwn DEF Alone, OwnDisk, Invite

LEMMA InviteWritesOwn ==
    ASSUME BundleInv, NEW c, Alone(c), NEW s \in Slots, InviteWrites(s)
    PROVE  Alone(c)'
<1> DEFINE e == call[s].envelope
           b == Entry(e.to, e)
           x == [call[s] EXCEPT !.bundle = Append(@, b), !.at = "write"]
<1>1. Goes(s, x) /\ call'[s] = x
  BY GoesTo DEF InviteWrites
<1>2. call[s] \in InviteCalls
  BY CallRecords DEF BundleInv, InviteWrites, HasRead, Busy
<1>3. /\ x.op = "invite" /\ x.envelope = e /\ x.bundle = Append(call[s].bundle, b)
      /\ call[s].bundle \in Seq(Entries)
  BY <1>2 DEF InviteCalls
<1>4. OwnCall(s, c) /\ call[s] # Idle /\ e.root = c
  BY DEF Alone, OwnCall, InviteWrites, HasRead, Busy, Idle
<1>5. Own(b.file, b.content, c)
  BY <1>2, <1>4, FilesFacts DEF InviteCalls, Keyed, Envelope, Entry, Own, Held
<1> HIDE DEF e, b, x
<1>6. \A i \in 1..Len(x.bundle) : Own(x.bundle[i].file, x.bundle[i].content, c)
  BY <1>3, <1>4, <1>5 DEF OwnCall
<1>7. OwnCall(s, c)'
  BY <1>1, <1>3, <1>4, <1>6 DEF OwnCall
<1> QED
  BY <1>1, <1>7, MovesOwn DEF Alone, OwnDisk, InviteWrites

LEMMA InviteReturnsOwn ==
    ASSUME BundleInv, NEW c, Alone(c), NEW s \in Slots, InviteReturns(s)
    PROVE  Alone(c)'
<1>1. Goes(s, Idle) /\ call'[s] = Idle
  BY GoesTo DEF InviteReturns
<1>2. \A t \in Slots : OwnCall(t, c)'
  BY <1>1, IdleOwn, MovesOwn DEF Alone
<1> QED
  BY <1>2 DEF Alone, OwnDisk, InviteReturns

LEMMA CrashOwn ==
    ASSUME NEW c, Alone(c), NEW d \in Devices, Crash(d)
    PROVE  Alone(c)'
<1>1. ASSUME NEW t \in Slots
      PROVE  OwnCall(t, c)'
  <2>1. OwnCall(t, c) /\ (call'[t] = Idle \/ call'[t] = call[t])
    BY DEF Crash, Alone
  <2> QED
    BY <2>1, IdleOwn DEF OwnCall
<1> QED
  BY <1>1 DEF Alone, OwnDisk, Crash

LEMMA OneInit == Init => OneInv
  BY DEF Init, OneInv, Alone, OwnDisk, OwnCall, Idle

LEMMA UsedGrows ==
    ASSUME [Next]_vars
    PROVE  used \subseteq used'
<1>1. ASSUME NEW s \in Slots, NEW d \in Devices, NEW k \in Creations, Create(s, d, k)
      PROVE  used \subseteq used'
  BY <1>1 DEF Create
<1>2. ASSUME NEW s \in Slots, NEW d \in Devices, NEW seeded \in BOOLEAN, Open(s, d, seeded)
      PROVE  used \subseteq used'
  BY <1>2 DEF Open
<1>3. ASSUME NEW s \in Slots, NEW w \in sessions, NEW d \in Devices, Invite(s, w, d)
      PROVE  used \subseteq used'
  BY <1>3 DEF Invite
<1>4. ASSUME NEW s \in Slots
      PROVE  /\ ReadFile(s) => used' = used
             /\ List(s) => used' = used
             /\ Truncate(s) => used' = used
             /\ Fill(s) => used' = used
  BY DEF ReadFile, List, Truncate, Fill
<1>5. ASSUME NEW s \in Slots
      PROVE  /\ CreateReturns(s) => used' = used
             /\ OpenReturns(s) => used' = used
             /\ InviteWrites(s) => used' = used
             /\ InviteReturns(s) => used' = used
  BY DEF CreateReturns, OpenReturns, InviteWrites, InviteReturns
<1>6. \A d \in Devices : Crash(d) => used' = used
  BY DEF Crash
<1>7. Year \/ UNCHANGED vars => used' = used
  BY DEF Year, vars
<1> QED
  BY <1>1, <1>2, <1>3, <1>4, <1>5, <1>6, <1>7 DEF Next

\* No creation is taken back: a folder that has one after a step had no other before.
LEMMA OneNext == BundleInv /\ OneInv /\ [Next]_vars => OneInv'
<1> SUFFICES ASSUME BundleInv, OneInv, [Next]_vars, NEW c \in Creations, used' \subseteq {c}
             PROVE  Alone(c)'
  BY DEF OneInv
<1> Alone(c)
  BY UsedGrows DEF OneInv
<1>1. ASSUME NEW s \in Slots, NEW d \in Devices, NEW k \in Creations, Create(s, d, k)
      PROVE  Alone(c)'
  <2>1. k = c
    BY <1>1 DEF Create
  <2> QED
    BY <1>1, <2>1, CreateOwn
<1>2. CASE Year
  BY <1>2 DEF Year, Alone, OwnDisk, OwnCall
<1>3. CASE UNCHANGED vars
  BY <1>3 DEF vars, Alone, OwnDisk, OwnCall
<1> QED
  BY <1>1, <1>2, <1>3, ReadOwn, ListOwn, TruncateOwn, FillOwn, CreateReturnsOwn, OpenOwn,
     OpenReturnsOwn, InviteOwn, InviteWritesOwn, InviteReturnsOwn, CrashOwn DEF Next

\* Where everything is one creation's, what is there and whole is accepted.
LEMMA OneOpens == BundleInv /\ FoundInv /\ OneInv => InviteesOpen
<1> SUFFICES ASSUME BundleInv, FoundInv, OneInv, Cardinality(used) = 1, Whole
             PROVE  /\ (\E e \in returned : e.no = 1) => Violations = {}
                    /\ \A e \in returned :
                        /\ disk[e.to] # None
                        /\ disk[e.to].no > expired =>
                            ConsumeBundle([i \in 1..(NDevices + 2) |-> Entry(i - 2, disk[i - 2])],
                                          e.to) # {}
  BY DEF InviteesOpen
<1>1. PICK c \in Creations : used = {c}
  <2>1. IsFiniteSet(used) /\ used \subseteq Creations
    BY DEF FoundInv, Began
  <2>2. \E c : used = {c}
    BY <2>1, FS_Singleton
  <2> QED
    BY <2>1, <2>2
<1>2. OwnDisk(c) /\ stores \subseteq {c}
  BY <1>1 DEF OneInv, Alone
<1>3. ASSUME Founded
      PROVE  disk[Manifest] = c /\ disk[Attestation] = c
  BY <1>2, <1>3, FilesFacts DEF Founded, OwnDisk, Own, Whole
<1>4. ASSUME NEW e \in returned, e.no = 1
      PROVE  Violations = {}
  <2>1. Founded /\ stores = {c}
    BY <1>2, <1>4 DEF FoundInv, Returned
  <2>2. disk[Manifest] # Torn
    BY FilesFacts DEF Whole
  <2> QED
    BY <1>3, <2>1, <2>2 DEF Violations, Founded
<1>5. ASSUME NEW e \in returned
      PROVE  disk[e.to] # None
  BY DEF FoundInv, Returned
<1>6. ASSUME NEW e \in returned, disk[e.to].no > expired
      PROVE  ConsumeBundle([i \in 1..(NDevices + 2) |-> Entry(i - 2, disk[i - 2])], e.to) # {}
  <2> DEFINE bundle == [i \in 1..(NDevices + 2) |-> Entry(i - 2, disk[i - 2])]
             mine == disk[e.to]
  <2>1. e.to \in Devices /\ mine # None /\ Founded
    BY DEF FoundInv, Returned, Keyed, Envelope
  <2>2. mine \in Keyed /\ mine.to = e.to /\ mine.root = c
    BY <1>2, <2>1, FilesFacts DEF OwnDisk, Own, Held, Whole
  <2>3. /\ bundle[1] = Entry(Manifest, disk[Manifest])
        /\ bundle[2] = Entry(Attestation, disk[Attestation])
    BY DevicesAssumption DEF Manifest, Attestation
  <2>4. e.to + 2 \in DOMAIN bundle /\ bundle[e.to + 2] = Entry(e.to, mine)
    BY <2>1, DevicesAssumption DEF Devices
  <2> HIDE DEF bundle, mine
  <2>5. Signed(bundle) /\ bundle[1].content = c
    BY <1>3, <2>1, <2>3 DEF Signed, Entry
  <2>6. mine \in Mine(bundle, e.to)
    BY <2>4 DEF Mine, Entry
  <2>7. ConsumeEnvelope(mine, e.to, c)
    BY <1>6, <2>2 DEF ConsumeEnvelope, Unwraps, Keyed, mine
  <2>8. mine \in ConsumeBundle(bundle, e.to)
    BY <2>5, <2>6, <2>7 DEF ConsumeBundle
  <2> QED
    BY <2>8 DEF bundle
<1> QED
  BY <1>4, <1>5, <1>6

\* Workspace.create and invite (packages/workspace/src/index.ts:333, 560), which read
\* the folder and write it back in place while other invites do the same
\* (portable-bootstrap/src/folder.ts), and consumeBundle: in a folder where one
\* workspace was made, whoever was created or invited into it opens it, whenever no
\* file is cut off; for any devices, overlapping calls and crashes.
THEOREM InvitesKeepTheFolderOpen == Spec => []InviteesOpen
<1>1. Init => BundleInv /\ FoundInv /\ OneInv
  BY BundleInit, FoundInit, OneInit
<1>2. BundleInv /\ FoundInv /\ OneInv /\ [Next]_vars => (BundleInv /\ FoundInv /\ OneInv)'
  BY BundleNext, FoundNext, OneNext
<1> QED
  BY <1>1, <1>2, OneOpens, PTL DEF Spec

-----------------------------------------------------------------------------
(* The deliveries. *)

Delivery(m) == [to |-> m, kind |-> "good"]

\* The cursor, the scan and what a replica knows stay within the log; a scan starts
\* at the cursor.
Within ==
    \A m \in Members :
        /\ cursor[m] <= length[m] /\ length[m] <= Len(log)
        /\ scan[m].on => /\ cursor[m] <= scan[m].index /\ scan[m].index <= scan[m].to
                         /\ scan[m].to <= length[m]

\* What the scan under way has passed is among what it has found, or was not got.
Passed ==
    \A m \in Members : scan[m].on =>
        \A i \in (cursor[m] + 1)..scan[m].index :
            log[i] = Delivery(m) => i \in scan[m].deliveries \cup skipped[m]

DeliveryInv == DeliveryTypeOK /\ Within /\ Passed /\ DeliveriesFound

\* DeliveryTypeOK, without the log.
OwnTypes ==
    /\ length \in [Members -> 0..MaxBlocks] /\ cursor \in [Members -> 0..MaxBlocks]
    /\ closed \subseteq Members
    /\ found \in [Members -> SUBSET (1..MaxBlocks)] /\ skipped \in [Members -> SUBSET (1..MaxBlocks)]
    /\ scan \in [Members -> [on : BOOLEAN, index : 0..MaxBlocks, to : 0..MaxBlocks,
                             deliveries : SUBSET (1..MaxBlocks)]]

LEMMA OneLog ==
    ASSUME DeliveryTypeOK, UNCHANGED log, OwnTypes'
    PROVE  DeliveryTypeOK'
<1>1. log' \in Seq([to : Members, kind : Kinds]) /\ Len(log') <= MaxBlocks
  BY DEF DeliveryTypeOK
<1> QED
  BY <1>1 DEF DeliveryTypeOK, OwnTypes

\* What the steps below need of the types.
DeliveryShapes ==
    /\ Len(log) \in Nat
    /\ length \in [Members -> Nat] /\ cursor \in [Members -> Nat]
    /\ scan \in [Members -> [on : BOOLEAN, index : Nat, to : Nat, deliveries : SUBSET Nat]]
    /\ found \in [Members -> SUBSET Nat] /\ skipped \in [Members -> SUBSET Nat]

LEMMA TypesShape == DeliveryTypeOK => DeliveryShapes
<1> SUFFICES ASSUME DeliveryTypeOK
             PROVE  DeliveryShapes
  OBVIOUS
<1>1. Len(log) \in Nat
  BY DEF DeliveryTypeOK
<1>2. scan \in [Members -> [on : BOOLEAN, index : Nat, to : Nat, deliveries : SUBSET Nat]]
  BY BlocksAssumption DEF DeliveryTypeOK
<1>3. /\ length \in [Members -> Nat] /\ cursor \in [Members -> Nat]
      /\ found \in [Members -> SUBSET Nat] /\ skipped \in [Members -> SUBSET Nat]
  BY BlocksAssumption DEF DeliveryTypeOK
<1> QED
  BY <1>1, <1>2, <1>3 DEF DeliveryShapes

\* The log grows at its end, and a delivery in it was one before.
LEMMA LogGrows ==
    ASSUME DeliveryTypeOK, PublishDelivery \/ Lapse
    PROVE  /\ log' \in Seq([to : Members, kind : Kinds])
           /\ Len(log') <= MaxBlocks /\ Len(log) <= Len(log')
           /\ \A m \in Members : \A i \in 1..Len(log) : log'[i] = Delivery(m) => log[i] = Delivery(m)
<1>1. CASE PublishDelivery
  <2>1. PICK m \in Members, k \in Kinds : log' = Append(log, [to |-> m, kind |-> k])
    BY <1>1 DEF PublishDelivery
  <2>2. Len(log) < MaxBlocks
    BY <1>1 DEF PublishDelivery
  <2> QED
    BY <2>1, <2>2, BlocksAssumption DEF DeliveryTypeOK
<1>2. CASE Lapse
  <2>1. PICK j \in DOMAIN log : log' = [log EXCEPT ![j].kind = "bad"]
    BY <1>2 DEF Lapse
  <2>2. log' = [log EXCEPT ![j] = [log[j] EXCEPT !.kind = "bad"]]
    BY <2>1
  <2>3. [log[j] EXCEPT !.kind = "bad"] \in [to : Members, kind : Kinds]
    <3>1. log[j] \in [to : Members, kind : Kinds]
      BY ElementOfSeq, DOMAIN log = 1..Len(log) DEF DeliveryTypeOK
    <3> QED
      BY <3>1 DEF Kinds
  <2>4. Len(log') = Len(log) /\ log' \in Seq([to : Members, kind : Kinds])
    BY <2>2, <2>3 DEF DeliveryTypeOK
  <2>5. ASSUME NEW m \in Members, NEW i \in 1..Len(log), log'[i] = Delivery(m)
        PROVE  log[i] = Delivery(m)
    <3>1. CASE i = j
      <4>1. log'[i].kind = "bad"
        BY <2>2, <2>3, <3>1 DEF DeliveryTypeOK
      <4> QED
        BY <4>1, <2>5 DEF Delivery
    <3>2. CASE i # j
      BY <2>2, <2>5, <3>2 DEF DeliveryTypeOK
    <3> QED
      BY <3>1, <3>2
  <2>6. Len(log) <= MaxBlocks /\ Len(log) \in Nat
    BY DEF DeliveryTypeOK
  <2> QED
    BY <2>4, <2>5, <2>6
<1> QED
  BY <1>1, <1>2

LEMMA DeliveryStarts == DeliveryInit => DeliveryInv
  BY BlocksAssumption
  DEF DeliveryInit, DeliveryInv, DeliveryTypeOK, Within, Passed, DeliveriesFound, NoScan, Delivery

\* One scan at a time: a step of one member leaves the others' alone.
LEMMA DeliverySteps ==
    ASSUME DeliveryInv, [DeliveryNext]_deliveryVars
    PROVE  DeliveryInv'
<1>0. DeliveryShapes /\ OwnTypes /\ MaxBlocks \in Nat /\ Len(log) <= MaxBlocks
  BY TypesShape, BlocksAssumption DEF DeliveryInv, DeliveryTypeOK, OwnTypes
<1>1. CASE PublishDelivery \/ Lapse
  <2>1. UNCHANGED <<length, closed, cursor, found, scan, skipped>>
    BY <1>1 DEF PublishDelivery, Lapse
  <2>2. /\ log' \in Seq([to : Members, kind : Kinds])
        /\ Len(log') <= MaxBlocks /\ Len(log) <= Len(log')
        /\ \A m \in Members : \A i \in 1..Len(log) : log'[i] = Delivery(m) => log[i] = Delivery(m)
    BY <1>1, LogGrows DEF DeliveryInv
  <2>3. DeliveryTypeOK'
    BY <2>1, <2>2 DEF DeliveryInv, DeliveryTypeOK
  <2>4. Within'
    BY <1>0, <2>1, <2>2 DEF DeliveryInv, DeliveryShapes, Within
  <2>5. Passed'
    <3> SUFFICES ASSUME NEW m \in Members, scan[m].on,
                        NEW i \in (cursor[m] + 1)..scan[m].index, log'[i] = Delivery(m)
                 PROVE  i \in scan[m].deliveries \cup skipped[m]
      BY <2>1 DEF Passed
    <3>1. i \in 1..Len(log)
      BY <1>0 DEF DeliveryInv, DeliveryShapes, Within
    <3> QED
      BY <2>2, <3>1 DEF DeliveryInv, Passed
  <2>6. DeliveriesFound'
    <3> SUFFICES ASSUME NEW m \in Members, NEW i \in 1..cursor[m], log'[i] = Delivery(m)
                 PROVE  i \in found[m] \cup skipped[m]
      BY <2>1 DEF DeliveriesFound, Delivery
    <3>1. i \in 1..Len(log)
      BY <1>0 DEF DeliveryInv, DeliveryShapes, Within
    <3> QED
      BY <2>2, <3>1 DEF DeliveryInv, DeliveriesFound, Delivery
  <2> QED
    BY <2>3, <2>4, <2>5, <2>6 DEF DeliveryInv
<1>2. ASSUME NEW m \in Members, Replicate(m)
      PROVE  DeliveryInv'
  <2>1. UNCHANGED <<log, closed, cursor, found, scan, skipped>>
    BY <1>2 DEF Replicate
  <2>2. OwnTypes'
    BY <1>0, <1>2, <2>1 DEF DeliveryShapes, OwnTypes, Replicate
  <2>3. DeliveryTypeOK'
    BY <2>1, <2>2, OneLog DEF DeliveryInv
  <2>4. Within'
    BY <1>0, <1>2, <2>1 DEF DeliveryInv, DeliveryShapes, Within, Replicate
  <2> QED
    BY <2>1, <2>3, <2>4 DEF DeliveryInv, Passed, DeliveriesFound
<1>3. ASSUME NEW m \in Members, Close(m)
      PROVE  DeliveryInv'
  <2>1. UNCHANGED <<log, length, cursor, found, scan, skipped>>
    BY <1>3 DEF Close
  <2>2. OwnTypes'
    BY <1>0, <1>3, <2>1 DEF DeliveryShapes, OwnTypes, Close
  <2>3. DeliveryTypeOK'
    BY <2>1, <2>2, OneLog DEF DeliveryInv
  <2>4. Within'
    BY <1>0, <1>3, <2>1 DEF DeliveryInv, DeliveryShapes, Within, Close
  <2> QED
    BY <2>1, <2>3, <2>4 DEF DeliveryInv, Passed, DeliveriesFound
<1>4. ASSUME NEW m \in Members, BeginScan(m)
      PROVE  DeliveryInv'
  <2>1. /\ UNCHANGED <<log, length, closed, cursor, found, skipped>>
        /\ scan' = [scan EXCEPT ![m] = [on |-> TRUE, index |-> cursor[m], to |-> length[m],
                                       deliveries |-> {}]]
        /\ ~scan[m].on
    BY <1>4 DEF BeginScan
  <2>2. DeliveryTypeOK'
    <3>1. OwnTypes'
      BY <1>0, <2>1 DEF OwnTypes
    <3> QED
      BY <2>1, <3>1, OneLog DEF DeliveryInv
  <2>3. Within'
    BY <1>0, <2>1 DEF DeliveryInv, DeliveryShapes, Within
  <2>4. Passed'
    BY <1>0, <2>1 DEF DeliveryInv, DeliveryShapes, Passed
  <2> QED
    BY <2>1, <2>2, <2>3, <2>4 DEF DeliveryInv, DeliveriesFound
<1>5. ASSUME NEW m \in Members, GetReturns(m)
      PROVE  DeliveryInv'
  <2> DEFINE i == scan[m].index + 1
  <2>1. /\ scan' = [scan EXCEPT ![m] = [scan[m] EXCEPT !.index = i,
                        !.deliveries = @ \cup {j \in {i} : log[j] = Delivery(m)}]]
        /\ scan[m].on /\ i <= scan[m].to
        /\ UNCHANGED <<log, length, closed, cursor, found, skipped>>
    BY <1>5 DEF DeliveryInv, DeliveryTypeOK, GetReturns, Past, Delivery
  <2>2. DeliveryTypeOK'
    <3>2. i \in 1..MaxBlocks /\ i \in 0..MaxBlocks
      BY <1>0, <2>1 DEF OwnTypes
    <3>3. scan[m].deliveries \cup {j \in {i} : log[j] = Delivery(m)} \in SUBSET (1..MaxBlocks)
      BY <1>0, <3>2 DEF OwnTypes
    <3>1. OwnTypes'
      BY <1>0, <2>1, <3>2, <3>3 DEF OwnTypes
    <3> QED
      BY <2>1, <3>1, OneLog DEF DeliveryInv
  <2>3. Within'
    BY <1>0, <2>1 DEF DeliveryInv, DeliveryShapes, Within
  <2>4. Passed'
    BY <1>0, <2>1 DEF DeliveryInv, DeliveryShapes, Passed
  <2> QED
    BY <2>1, <2>2, <2>3, <2>4 DEF DeliveryInv, DeliveriesFound
<1>6. ASSUME NEW m \in Members, GetFails(m)
      PROVE  DeliveryInv'
  <2> DEFINE i == scan[m].index + 1
  <2>1. /\ scan' = [scan EXCEPT ![m] = [scan[m] EXCEPT !.index = i]]
        /\ skipped' = [skipped EXCEPT ![m] = @ \cup {i}]
        /\ scan[m].on /\ i <= scan[m].to
        /\ UNCHANGED <<log, length, closed, cursor, found>>
    BY <1>6 DEF DeliveryInv, DeliveryTypeOK, GetFails
  <2>2. DeliveryTypeOK'
    <3>2. i \in 1..MaxBlocks /\ i \in 0..MaxBlocks
      BY <1>0, <2>1 DEF OwnTypes
    <3>3. skipped' \in [Members -> SUBSET (1..MaxBlocks)]
      BY <1>0, <2>1, <3>2 DEF OwnTypes
    <3>1. OwnTypes'
      BY <1>0, <2>1, <3>2, <3>3 DEF OwnTypes
    <3> QED
      BY <2>1, <3>1, OneLog DEF DeliveryInv
  <2>3. Within'
    BY <1>0, <2>1 DEF DeliveryInv, DeliveryShapes, Within
  <2>4. Passed'
    BY <1>0, <2>1 DEF DeliveryInv, DeliveryShapes, Passed
  <2>5. DeliveriesFound'
    BY <1>0, <2>1 DEF DeliveryInv, DeliveryShapes, DeliveriesFound
  <2> QED
    BY <2>2, <2>3, <2>4, <2>5 DEF DeliveryInv
<1>7. ASSUME NEW m \in Members, ScanReturns(m)
      PROVE  DeliveryInv'
  <2>1. /\ scan[m].on /\ scan[m].index = scan[m].to
        /\ cursor' = [cursor EXCEPT ![m] = scan[m].to]
        /\ found' = [found EXCEPT ![m] = @ \cup scan[m].deliveries]
        /\ scan' = [scan EXCEPT ![m] = NoScan]
        /\ UNCHANGED <<log, length, closed, skipped>>
    BY <1>7 DEF ScanReturns, Scanned
  <2>2. DeliveryTypeOK'
    <3>2. NoScan \in [on : BOOLEAN, index : 0..MaxBlocks, to : 0..MaxBlocks,
                     deliveries : SUBSET (1..MaxBlocks)]
      BY <1>0 DEF NoScan
    <3>3. found' \in [Members -> SUBSET (1..MaxBlocks)]
      BY <1>0, <2>1 DEF OwnTypes
    <3>4. cursor' \in [Members -> 0..MaxBlocks]
      BY <1>0, <2>1 DEF OwnTypes
    <3>1. OwnTypes'
      BY <1>0, <2>1, <3>2, <3>3, <3>4 DEF OwnTypes
    <3> QED
      BY <2>1, <3>1, OneLog DEF DeliveryInv
  <2>3. Within'
    BY <1>0, <2>1 DEF DeliveryInv, DeliveryShapes, Within, NoScan
  <2>4. Passed'
    BY <1>0, <2>1 DEF DeliveryInv, DeliveryShapes, Passed, NoScan
  <2>5. DeliveriesFound'
    <3> SUFFICES ASSUME NEW n \in Members, NEW i \in 1..cursor'[n], log[i] = Delivery(n)
                 PROVE  i \in found'[n] \cup skipped[n]
      BY <2>1 DEF DeliveriesFound, Delivery
    <3>1. CASE n # m
      BY <1>0, <2>1, <3>1 DEF DeliveryInv, DeliveryShapes, DeliveriesFound, Delivery
    <3>2. CASE n = m /\ i <= cursor[m]
      BY <1>0, <2>1, <3>2 DEF DeliveryInv, DeliveryShapes, DeliveriesFound, Delivery
    <3>3. CASE n = m /\ i > cursor[m]
      BY <1>0, <2>1, <3>3 DEF DeliveryInv, DeliveryShapes, Passed
    <3> QED
      BY <1>0, <3>1, <3>2, <3>3 DEF DeliveryInv, DeliveryShapes
  <2> QED
    BY <2>2, <2>3, <2>4, <2>5 DEF DeliveryInv
<1>8. CASE UNCHANGED deliveryVars
  BY <1>8 DEF DeliveryInv, DeliveryTypeOK, Within, Passed, DeliveriesFound, deliveryVars
<1> QED
  BY <1>1, <1>2, <1>3, <1>4, <1>5, <1>6, <1>7, <1>8 DEF DeliveryNext, ScanStep

LEMMA DeliveryInvariance == DeliverySpec => []DeliveryInv
  BY DeliveryStarts, DeliverySteps, PTL DEF DeliverySpec

\* scanDeliveries (key-delivery.ts:113-131) called from the cursor it returned: every
\* block below the cursor that delivers to the member was returned by a scan or could
\* not be got, whatever was appended, expired or replicated during the scans.
THEOREM NothingMissed == DeliverySpec => []DeliveriesFound
  BY DeliveryInvariance, PTL DEF DeliveryInv

\* The variables of KeyDelivery keep their types.
THEOREM DeliveryTypes == DeliverySpec => []DeliveryTypeOK
  BY DeliveryInvariance, PTL DEF DeliveryInv

-----------------------------------------------------------------------------
(* The delegations. *)

(* Lemmas about the operators. *)

\* A nonempty set of naturals has a least element.
LEMMA LeastOf ==
    ASSUME NEW T \in SUBSET Nat, T # {}
    PROVE  \E n \in T : \A k \in T : n <= k
<1> DEFINE R == OpToRel(<, Nat)
<1>1. IsWellFoundedOn(R, Nat)
  BY NatLessThanWellFounded
<1>2. \A k, n \in Nat : k < n => <<k, n>> \in R
  BY Zenon DEF OpToRel
<1> HIDE DEF R
<1>3. PICK n \in T : \A k \in T : ~(<<k, n>> \in R)
  BY <1>1, WFMin
<1>4. ASSUME NEW k \in T PROVE n <= k
  <2>1. k \in Nat /\ n \in Nat
    OBVIOUS
  <2>2. ~(k < n)
    BY <1>2, <1>3, <2>1, Zenon
  <2>3. QED
    BY <2>1, <2>2
<1>5. QED
  BY <1>4

\* A chain is a nonempty sequence of delegations that were made.
LEMMA ChainIsSeq ==
    ASSUME NEW chain \in Chains
    PROVE  /\ Len(chain) \in Nat \ {0} /\ DOMAIN chain = 1..Len(chain)
           /\ \A i \in 1..Len(chain) : chain[i] \in links
<1>1. PICK n \in 1..MaxLinks : chain \in [1..n -> links]
  BY DEF Chains
<1>2. n \in Nat \ {0}
  BY DelegationBounds
<1>3. Len(chain) = n
  BY <1>1, <1>2
<1>4. QED
  BY <1>1, <1>2, <1>3

\* What the code's test of a command and of the times says of a delegation.
LEMMA HoldingPasses ==
    ASSUME DelegationTypeOK, NEW l \in links, NEW cmd \in Seq(STRING), NEW res,
           CommandCovers(l.cmd, cmd), InWindow(l.win), l.sub = Root, l.res = res
    PROVE  Passes(l, cmd, res)
<1>1. l \in Link
  BY DEF DelegationTypeOK
<1>2. l.cmd \in Seq(STRING) /\ l.win \in [nbf : Nat, exp : Nat \cup {Never}]
  BY <1>1, CommandsAssumption, WindowsAssumption DEF Link
<1>3. now \in Nat
  BY DEF DelegationTypeOK
<1>4. \E n \in 0..Len(cmd) : l.cmd = SubSeq(cmd, 1, n)
  <2>1. Len(l.cmd) \in 0..Len(cmd) /\ l.cmd = SubSeq(cmd, 1, Len(l.cmd))
    BY <1>2 DEF CommandCovers
  <2>2. QED
    BY <2>1
<1>5. l.win.nbf <= now
  BY DEF InWindow
<1>6. l.win.exp = Never \/ l.win.exp > now
  <2>1. CASE l.win.exp = Never
    BY <2>1
  <2>2. CASE l.win.exp # Never
    <3>1. now < l.win.exp
      BY <2>2 DEF InWindow
    <3>2. l.win.exp \in Nat
      BY <1>2, <2>2
    <3>3. QED
      BY <1>3, <3>1, <3>2
  <2>3. QED
    BY <2>1, <2>2
<1>7. QED
  BY <1>4, <1>5, <1>6 DEF Passes

\* Every link of a chain that validates passes on what the leaf grants.
LEMMA LinksPass ==
    ASSUME DelegationTypeOK, NEW unknown, NEW chain \in Chains, ValidateDelegation(chain, unknown),
           NEW i \in 1..Len(chain)
    PROVE  Passes(chain[i], chain[1].cmd, chain[1].res)
<1>1. /\ Len(chain) \in Nat \ {0} /\ DOMAIN chain = 1..Len(chain)
      /\ chain[i] \in links /\ chain[1] \in links
  BY ChainIsSeq
<1>2. chain[Len(chain)].sub = Root
  BY DEF ValidateDelegation, IsRoot
<1>3. LinkHolds(chain, i)
  BY <1>1 DEF ValidateDelegation
<1>4. /\ chain[i].sub = Root /\ CommandCovers(chain[i].cmd, chain[1].cmd)
      /\ chain[i].res = chain[1].res /\ InWindow(chain[i].win)
  BY <1>2, <1>3 DEF LinkHolds
<1>5. chain[1].cmd \in Seq(STRING)
  BY <1>1, CommandsAssumption DEF DelegationTypeOK, Link
<1>6. QED
  BY <1>1, <1>4, <1>5, HoldingPasses

\* The issuer of a validated chain's leaf holds what it grants: it is in every set
\* that has the root and is closed under passing on, for otherwise the link nearest
\* to the root whose issuer is outside would have its audience inside.
LEMMA IssuerHolds ==
    ASSUME DelegationTypeOK, NEW unknown, NEW chain \in Chains, ValidateDelegation(chain, unknown)
    PROVE  chain[1].iss \in Holders(chain[1].cmd, chain[1].res)
<1> DEFINE n == Len(chain) cmd == chain[1].cmd res == chain[1].res
<1>1. /\ n \in Nat \ {0} /\ DOMAIN chain = 1..n
      /\ \A i \in 1..n : chain[i] \in links
  BY ChainIsSeq
<1>2. chain[n].iss = Root
  BY DEF ValidateDelegation, IsRoot
<1>3. ASSUME NEW i \in 1..n, i < n PROVE chain[i].iss = chain[i + 1].aud
  <2>1. LinkHolds(chain, i)
    BY <1>1 DEF ValidateDelegation
  <2>2. QED
    BY <1>3, <2>1 DEF LinkHolds
<1>4. chain[1].iss \in Principals
  BY <1>1 DEF DelegationTypeOK, Link
<1>5. ASSUME NEW S \in SUBSET Principals, Root \in S, Closed(S, cmd, res), chain[1].iss \notin S
      PROVE  FALSE
  <2> DEFINE T == {j \in 0..(n - 1) : chain[n - j].iss \notin S}
  <2>1. n - 1 \in T
    <3>1. n - 1 \in 0..(n - 1) /\ n - (n - 1) = 1
      BY <1>1
    <3>2. QED
      BY <1>5, <3>1
  <2>2. T \in SUBSET Nat /\ T # {}
    <3>1. \A j \in 0..(n - 1) : j \in Nat
      OBVIOUS
    <3>2. T \subseteq Nat
      BY <3>1
    <3> HIDE DEF T
    <3>3. QED
      BY <2>1, <3>2
  <2>3. PICK m \in T : \A k \in T : m <= k
    BY <2>2, LeastOf
  <2>4. m \in 0..(n - 1) /\ chain[n - m].iss \notin S
    BY <2>3
  <2>5. m # 0
    BY <1>1, <1>2, <1>5, <2>4
  <2>6. m - 1 \in 0..(n - 1) /\ ~(m <= m - 1) /\ n - (m - 1) = n - m + 1
    BY <1>1, <2>4, <2>5
  <2>7. m - 1 \notin T
    BY <2>3, <2>6
  <2>8. chain[n - m + 1].iss \in S
    BY <2>6, <2>7
  <2>9. n - m \in 1..n /\ n - m + 1 \in 1..n /\ n - m < n
    BY <1>1, <2>4, <2>5
  <2>10. Passes(chain[n - m + 1], cmd, res)
    BY <2>9, LinksPass
  <2>11. chain[n - m + 1].aud \in S
    BY <1>1, <1>5, <2>8, <2>9, <2>10 DEF Closed
  <2>12. chain[n - m].iss = chain[n - m + 1].aud
    BY <1>3, <2>9
  <2>13. QED
    BY <2>4, <2>11, <2>12
<1>6. QED
  BY <1>4, <1>5 DEF Holders

\* Who is granted what its issuer holds, holds it.
LEMMA GrantHolds ==
    ASSUME DelegationTypeOK, NEW l \in links, Passes(l, l.cmd, l.res), l.iss \in Holders(l.cmd, l.res)
    PROVE  l.aud \in Holders(l.cmd, l.res)
<1>1. l.aud \in Principals
  BY DEF DelegationTypeOK, Link
<1>2. ASSUME NEW S \in SUBSET Principals, Root \in S, Closed(S, l.cmd, l.res)
      PROVE  l.aud \in S
  <2>1. l.iss \in S
    BY <1>2 DEF Holders
  <2>2. QED
    BY <1>2, <2>1 DEF Closed
<1>3. QED
  BY <1>1, <1>2 DEF Holders

-----------------------------------------------------------------------------
(* What was granted can be shown. *)

\* Linked chains of n delegations that pass the authority for cmd on res down
\* from the root.
Linkeds(n, cmd, res) ==
    {c \in [1..n -> links] :
        /\ \A i \in 1..n : Passes(c[i], cmd, res)
        /\ \A i, j \in 1..n : j = i + 1 => c[i].iss = c[j].aud
        /\ c[n].iss = Root}

\* A delegation that passes an authority goes before the chain of its issuer.
LEMMA ChainGrows ==
    ASSUME NEW cmd, NEW res, NEW l \in links, Passes(l, cmd, res),
           l.iss = Root \/ \E n \in Nat \ {0} : \E c \in Linkeds(n, cmd, res) : c[1].aud = l.iss
    PROVE  \E n \in Nat \ {0} : \E c \in Linkeds(n, cmd, res) : c[1] = l
<1>1. CASE l.iss = Root
  <2> DEFINE c == [i \in 1..1 |-> l]
  <2>1. 1 \in 1..1 /\ \A i \in 1..1 : i = 1
    OBVIOUS
  <2>2. c \in [1..1 -> links] /\ c[1] = l /\ \A i \in 1..1 : c[i] = l
    BY <2>1
  <2> HIDE DEF c
  <2>3. c \in Linkeds(1, cmd, res)
    BY <1>1, <2>1, <2>2 DEF Linkeds
  <2> QED
    BY <2>2, <2>3
<1>2. ASSUME NEW n \in Nat \ {0}, NEW c \in Linkeds(n, cmd, res), c[1].aud = l.iss
      PROVE  \E m \in Nat \ {0} : \E e \in Linkeds(m, cmd, res) : e[1] = l
  <2> DEFINE e == [i \in 1..(n + 1) |-> IF i = 1 THEN l ELSE c[i - 1]]
  <2>1. /\ c \in [1..n -> links] /\ c[n].iss = Root
        /\ \A i \in 1..n : Passes(c[i], cmd, res)
        /\ \A i, j \in 1..n : j = i + 1 => c[i].iss = c[j].aud
    BY <1>2 DEF Linkeds
  <2>2. \A i \in 1..(n + 1) : i # 1 => i - 1 \in 1..n
    OBVIOUS
  <2>3. e \in [1..(n + 1) -> links] /\ \A i \in 1..(n + 1) : e[i] = IF i = 1 THEN l ELSE c[i - 1]
    BY <2>1, <2>2
  <2> HIDE DEF e
  <2>4. /\ n + 1 \in 1..(n + 1) /\ n + 1 # 1 /\ 1 \in 1..(n + 1) /\ n + 1 \in Nat \ {0}
        /\ (n + 1) - 1 = n
    OBVIOUS
  <2>5. e[n + 1].iss = Root /\ e[1] = l
    BY <2>1, <2>3, <2>4
  <2>6. \A i \in 1..(n + 1) : Passes(e[i], cmd, res)
    BY <2>1, <2>2, <2>3
  <2>7. ASSUME NEW i \in 1..(n + 1), NEW j \in 1..(n + 1), j = i + 1
        PROVE  e[i].iss = e[j].aud
    <3>1. j # 1 /\ e[j] = c[j - 1] /\ j - 1 = i
      BY <2>3, <2>7
    <3>2. CASE i = 1
      BY <1>2, <2>3, <3>1, <3>2
    <3>3. CASE i # 1
      <4>1. i - 1 \in 1..n /\ i \in 1..n /\ i = (i - 1) + 1
        BY <2>7, <3>3
      <4> QED
        BY <2>1, <2>3, <3>1, <3>3, <4>1
    <3> QED
      BY <3>2, <3>3
  <2>8. e \in Linkeds(n + 1, cmd, res)
    BY <2>3, <2>5, <2>6, <2>7 DEF Linkeds
  <2> QED
    BY <2>4, <2>5, <2>8
<1> QED
  BY <1>1, <1>2

\* Whoever holds an authority is the root or has a chain that hands it down: those
\* who are or have are closed under passing on.
LEMMA HoldersHaveChains ==
    ASSUME DelegationTypeOK, NEW cmd, NEW res, NEW p \in Holders(cmd, res), p # Root
    PROVE  \E n \in Nat \ {0} : \E c \in Linkeds(n, cmd, res) : c[1].aud = p
<1> DEFINE Has(q) == \E n \in Nat \ {0} : \E c \in Linkeds(n, cmd, res) : c[1].aud = q
           S == {q \in Principals : q = Root \/ Has(q)}
<1>1. Root \in S
  BY PrincipalsAssumption
<1>2. ASSUME NEW l \in links, l.iss \in S, Passes(l, cmd, res)
      PROVE  l.aud \in S
  <2>1. l.aud \in Principals
    BY DEF DelegationTypeOK, Link
  <2>2. Has(l.aud)
    BY <1>2, ChainGrows
  <2> HIDE DEF Has
  <2> QED
    BY <2>1, <2>2
<1> HIDE DEF Has
<1>3. S \in SUBSET Principals /\ Closed(S, cmd, res)
  BY <1>2 DEF Closed
<1>4. p \in S
  <2> HIDE DEF S
  <2> QED
    BY <1>1, <1>3 DEF Holders
<1>5. Has(p)
  BY <1>4
<1> QED
  BY <1>5 DEF Has

\* A chain that names a delegation twice is longer than it need be: what lies
\* between the two can be cut out.
LEMMA CutChain ==
    ASSUME NEW cmd, NEW res, NEW n \in Nat \ {0}, NEW c \in Linkeds(n, cmd, res),
           NEW a \in 1..n, NEW b \in 1..n, a < b, c[a] = c[b]
    PROVE  \E m \in Nat \ {0} : m < n /\ \E e \in Linkeds(m, cmd, res) : e[1] = c[1]
<1> DEFINE d == b - a
           m == n - d
           e == [i \in 1..m |-> IF i <= a THEN c[i] ELSE c[i + d]]
<1>1. /\ c \in [1..n -> links] /\ c[n].iss = Root
      /\ \A i \in 1..n : Passes(c[i], cmd, res)
      /\ \A i, j \in 1..n : j = i + 1 => c[i].iss = c[j].aud
  BY DEF Linkeds
<1>2. m \in Nat \ {0} /\ m < n /\ a <= m /\ a + d = b /\ m + d = n /\ d \in Nat
  OBVIOUS
<1>3. \A i \in 1..m : i \in 1..n /\ i + d \in 1..n
  OBVIOUS
<1>4. e \in [1..m -> links] /\ \A i \in 1..m : e[i] = IF i <= a THEN c[i] ELSE c[i + d]
  BY <1>1, <1>3
<1>5. 1 \in 1..m /\ m \in 1..m /\ 1 <= a
  BY <1>2
<1> HIDE DEF e
<1>6. e[1] = c[1]
  BY <1>4, <1>5
<1>7. \A i \in 1..m : Passes(e[i], cmd, res)
  BY <1>1, <1>3, <1>4
<1>8. e[m].iss = Root
  <2>1. CASE m <= a
    <3>1. m = a /\ b = n
      BY <1>2, <2>1
    <3> QED
      BY <1>1, <1>4, <1>5, <2>1, <3>1
  <2>2. CASE ~(m <= a)
    BY <1>1, <1>2, <1>4, <1>5, <2>2
  <2> QED
    BY <2>1, <2>2
<1>9. ASSUME NEW i \in 1..m, NEW j \in 1..m, j = i + 1
      PROVE  e[i].iss = e[j].aud
  <2>1. CASE j <= a
    <3>1. i <= a
      BY <1>9, <2>1
    <3> QED
      BY <1>1, <1>3, <1>4, <1>9, <2>1, <3>1
  <2>2. CASE i = a
    <3>1. ~(j <= a) /\ j + d = b + 1 /\ i <= a
      BY <1>2, <1>9, <2>2
    <3>2. e[i] = c[b] /\ e[j] = c[j + d] /\ j + d \in 1..n
      BY <1>3, <1>4, <2>2, <3>1
    <3> QED
      BY <1>1, <3>1, <3>2
  <2>3. CASE i > a
    <3>1. ~(i <= a) /\ ~(j <= a) /\ j + d = (i + d) + 1
      BY <1>9, <2>3
    <3>2. /\ e[i] = c[i + d] /\ e[j] = c[j + d]
          /\ i + d \in 1..n /\ j + d \in 1..n
      BY <1>3, <1>4, <3>1
    <3>3. c[i + d].iss = c[j + d].aud
      BY <1>1, <3>1, <3>2
    <3> QED
      BY <3>2, <3>3
  <2> QED
    BY <1>9, <2>1, <2>2, <2>3
<1>10. e \in Linkeds(m, cmd, res)
  BY <1>4, <1>7, <1>8, <1>9 DEF Linkeds
<1> QED
  BY <1>2, <1>6, <1>10

\* There are no more delegations than were issued, and so a chain that names none
\* twice is among those that can be presented.
LinksBounded == IsFiniteSet(links) /\ Cardinality(links) <= MaxLinks

LEMMA ShortChain ==
    ASSUME LinksBounded, NEW cmd, NEW res, NEW k \in Nat \ {0}, NEW e \in Linkeds(k, cmd, res)
    PROVE  \E n \in 1..MaxLinks : \E c \in Linkeds(n, cmd, res) : c[1] = e[1]
<1> DEFINE l == e[1]
<1> DEFINE T == {n \in Nat \ {0} : \E c \in Linkeds(n, cmd, res) : c[1] = l}
<1>1. T \in SUBSET Nat /\ T # {}
  OBVIOUS
<1>2. PICK n \in T : \A m \in T : n <= m
  BY <1>1, LeastOf
<1>3. n \in Nat \ {0} /\ \A m \in Nat \ {0} : (\E c \in Linkeds(m, cmd, res) : c[1] = l) => n <= m
  BY <1>2
<1>4. PICK c \in Linkeds(n, cmd, res) : c[1] = l
  BY <1>2
<1> HIDE DEF T, l
<1>5. ASSUME NEW a \in 1..n, NEW b \in 1..n, a < b, c[a] = c[b]
      PROVE  FALSE
  <2>1. PICK m \in Nat \ {0} : m < n /\ \E g \in Linkeds(m, cmd, res) : g[1] = c[1]
    BY <1>3, <1>4, <1>5, CutChain
  <2>2. n <= m
    BY <1>3, <1>4, <2>1
  <2> QED
    BY <1>3, <2>1, <2>2
<1>6. c \in [1..n -> links]
  BY DEF Linkeds
<1>7. \A a, b \in 1..n : c[a] = c[b] => a = b
  <2> SUFFICES ASSUME NEW a \in 1..n, NEW b \in 1..n, c[a] = c[b], a # b
               PROVE  FALSE
    OBVIOUS
  <2>1. a < b \/ b < a
    BY <1>3
  <2> QED
    BY <1>5, <2>1
<1>8. n <= Cardinality(links)
  <2>1. IsFiniteSet(1..n) /\ Cardinality(1..n) = n
    BY <1>3, FS_Interval
  <2>2. ASSUME Cardinality(links) < Cardinality(1..n)
        PROVE  \E a, b \in 1..n : a # b /\ c[a] = c[b]
    <3>1. \A f \in [1..n -> links] : \E a, b \in 1..n : a # b /\ f[a] = f[b]
      BY <2>1, <2>2, FS_PigeonHole DEF LinksBounded
    <3> QED
      BY <1>6, <3>1
  <2>3. Cardinality(links) \in Nat
    BY FS_CardinalityType DEF LinksBounded
  <2> QED
    BY <1>3, <1>6, <1>7, <2>1, <2>2, <2>3
<1>9. n \in 1..MaxLinks
  <2>1. Cardinality(links) \in Nat
    BY FS_CardinalityType DEF LinksBounded
  <2> QED
    BY <1>3, <1>8, <2>1, DelegationBounds DEF LinksBounded
<1> QED
  BY <1>4, <1>9 DEF l

\* The test of a command and of the times, by the code's conditions.
LEMMA PassingHolds ==
    ASSUME DelegationTypeOK, NEW l \in links, NEW cmd \in Seq(STRING), NEW res, Passes(l, cmd, res)
    PROVE  CommandCovers(l.cmd, cmd) /\ InWindow(l.win) /\ l.sub = Root /\ l.res = res
<1>1. l.cmd \in Seq(STRING) /\ l.win \in [nbf : Nat, exp : Nat \cup {Never}] /\ now \in Nat
  BY CommandsAssumption, WindowsAssumption DEF DelegationTypeOK, Link
<1>2. PICK n \in 0..Len(cmd) : l.cmd = SubSeq(cmd, 1, n)
  BY DEF Passes
<1>3. CommandCovers(l.cmd, cmd)
  <2> DEFINE s == SubSeq(cmd, 1, n)
  <2>1. Len(s) = n
    <3>1. \A i \in 1..n : i \in 1..Len(cmd)
      OBVIOUS
    <3>2. \A i \in 1..n : cmd[i] \in STRING
      BY <3>1, ElementOfSeq
    <3> QED
      BY <3>2, SubSeqProperties
  <2>2. l.cmd = s
    BY <1>2
  <2>3. s = SubSeq(cmd, 1, n)
    OBVIOUS
  <2> HIDE DEF s
  <2>4. Len(l.cmd) <= Len(cmd) /\ SubSeq(cmd, 1, Len(l.cmd)) = l.cmd
    BY <2>1, <2>2, <2>3
  <2> QED
    BY <2>4 DEF CommandCovers
<1>4. InWindow(l.win)
  <2>1. l.win.exp # Never => now < l.win.exp
    BY <1>1 DEF Passes
  <2> QED
    BY <2>1 DEF Passes, InWindow
<1> QED
  BY <1>3, <1>4 DEF Passes

\* Such a chain validates.
LEMMA LinkedValidates ==
    ASSUME DelegationTypeOK, NEW l \in links, l.res \notin Unknown,
           NEW n \in 1..MaxLinks, NEW c \in Linkeds(n, l.cmd, l.res), c[1] = l
    PROVE  c \in Chains /\ ValidateDelegation(c, Unknown)
<1>1. n \in Nat /\ n >= 1
  BY DelegationBounds
<1>2. /\ c \in [1..n -> links] /\ c[n].iss = Root
      /\ \A i \in 1..n : Passes(c[i], l.cmd, l.res)
      /\ \A i, j \in 1..n : j = i + 1 => c[i].iss = c[j].aud
  BY DEF Linkeds
<1>3. c \in Chains
  BY <1>2 DEF Chains
<1>4. Len(c) = n /\ DOMAIN c = 1..n
  BY <1>1, <1>2
<1>5. l.cmd \in Seq(STRING)
  BY CommandsAssumption DEF DelegationTypeOK, Link
<1>6. \A i \in 1..n : /\ CommandCovers(c[i].cmd, l.cmd) /\ InWindow(c[i].win)
                      /\ c[i].sub = Root /\ c[i].res = l.res
  BY <1>2, <1>5, PassingHolds
<1>7. n \in 1..n /\ 1 \in 1..n
  BY <1>1
<1>8. ASSUME NEW i \in 1..n
      PROVE  LinkHolds(c, i)
  <2>1. i < n => c[i].iss = c[i + 1].aud
    BY <1>1, <1>2
  <2> QED
    BY <1>4, <1>6, <1>7, <2>1 DEF LinkHolds
<1>9. ValidateDelegation(c, Unknown)
  BY <1>2, <1>4, <1>6, <1>7, <1>8 DEF ValidateDelegation, IsRoot
<1> QED
  BY <1>3, <1>9

-----------------------------------------------------------------------------
(* Theorems. *)

\* The delegations are well formed, whatever is issued.
THEOREM DelegationTypes == DelegationSpec => []DelegationTypeOK
<1>1. DelegationInit => DelegationTypeOK
  BY DEF DelegationInit, DelegationTypeOK
<1>2. DelegationTypeOK /\ [DelegationNext]_delegationVars => DelegationTypeOK'
  BY DEF DelegationTypeOK, DelegationNext, Issue, Tick, delegationVars
<1>3. QED
  BY <1>1, <1>2, PTL DEF DelegationSpec

\* "No accepted chain exceeds its root" (validateDelegation): any sequence of
\* delegations that validates ends in one that was granted by a holder.
THEOREM ChainsShowAuthority == DelegationSpec => []AcceptedAreGranted
<1>1. DelegationTypeOK => AcceptedAreGranted
  <2> SUFFICES ASSUME DelegationTypeOK, NEW chain \in Chains, ValidateDelegation(chain, Unknown)
               PROVE  Granted(chain[1])
    BY DEF AcceptedAreGranted
  <2>1. chain[1].res \notin Unknown
    BY DEF ValidateDelegation, IsRoot
  <2>2. 1 \in 1..Len(chain)
    BY ChainIsSeq
  <2>3. Passes(chain[1], chain[1].cmd, chain[1].res)
    BY <2>2, LinksPass
  <2>4. chain[1].iss \in Holders(chain[1].cmd, chain[1].res)
    BY IssuerHolds
  <2>5. QED
    BY <2>1, <2>3, <2>4 DEF Granted
<1>2. QED
  BY <1>1, DelegationTypes, PTL

\* validateDelegation turns away nothing that was granted: of a delegation whose
\* issuer held what it grants, some chain of the delegations made validates.
THEOREM GrantsCanBeShown == DelegationSpec => []GrantedAreAccepted
<1>1. DelegationTypeOK /\ LinksBounded => GrantedAreAccepted
  <2> SUFFICES ASSUME DelegationTypeOK, LinksBounded, NEW l \in links, Granted(l)
               PROVE  \E chain \in Chains : chain[1] = l /\ ValidateDelegation(chain, Unknown)
    BY DEF GrantedAreAccepted
  <2>1. /\ l.res \notin Unknown /\ Passes(l, l.cmd, l.res)
        /\ l.iss \in Holders(l.cmd, l.res)
    BY DEF Granted
  <2>2. PICK k \in Nat \ {0} : \E e \in Linkeds(k, l.cmd, l.res) : e[1] = l
    BY <2>1, HoldersHaveChains, ChainGrows
  <2>3. PICK n \in 1..MaxLinks : \E c \in Linkeds(n, l.cmd, l.res) : c[1] = l
    BY <2>2, ShortChain
  <2> QED
    BY <2>1, <2>3, LinkedValidates
<1>2. DelegationInit => LinksBounded
  BY FS_EmptySet, DelegationBounds DEF DelegationInit, LinksBounded
<1>3. LinksBounded /\ [DelegationNext]_delegationVars => LinksBounded'
  <2> SUFFICES ASSUME LinksBounded, [DelegationNext]_delegationVars
               PROVE  LinksBounded'
    OBVIOUS
  <2>1. CASE Issue
    <3>1. PICK l \in Link : links' = links \cup {l}
      BY <2>1 DEF Issue
    <3>2. Cardinality(links) \in Nat /\ Cardinality(links) < MaxLinks
      BY <2>1, FS_CardinalityType DEF Issue, LinksBounded
    <3>3. IsFiniteSet(links') /\ Cardinality(links') <= Cardinality(links) + 1
      BY <3>1, <3>2, FS_AddElement DEF LinksBounded
    <3>4. Cardinality(links') \in Nat
      BY <3>3, FS_CardinalityType
    <3> QED
      BY <3>2, <3>3, <3>4, DelegationBounds DEF LinksBounded
  <2> QED
    BY <2>1 DEF DelegationNext, Tick, delegationVars, LinksBounded
<1>4. DelegationSpec => []LinksBounded
  BY <1>2, <1>3, PTL DEF DelegationSpec
<1> QED
  BY <1>1, <1>4, DelegationTypes, PTL

\* verifyMembership admits the audience of a workspace capability on this
\* workspace, passed on to it from the root and not revoked.
THEOREM GateAdmitsHolders == DelegationSpec => []AdmitsMembersOnly
<1>1. DelegationTypeOK => AdmitsMembersOnly
  <2> SUFFICES ASSUME DelegationTypeOK, NEW p \in Principals, NEW chain \in Chains,
                      VerifyMembership(p, chain)
               PROVE  /\ p \notin Revoked
                      /\ \E l \in links : l.aud = p /\ l.res = Here /\ Len(l.cmd) > 1 /\
                                          l.cmd[1] = "workspace" /\ p \in Holders(l.cmd, Here)
    BY DEF AdmitsMembersOnly
  <2> DEFINE l == chain[1]
  <2>1. ValidateDelegation(chain, {}) /\ l.aud = p /\ p \notin Revoked
    BY DEF VerifyMembership
  <2>2. l.res = Here /\ Len(l.cmd) > 1 /\ l.cmd[1] = "workspace"
    BY DEF VerifyMembership, GrantsWorkspace
  <2>3. 1 \in 1..Len(chain) /\ l \in links
    BY ChainIsSeq
  <2>4. Passes(l, l.cmd, l.res)
    BY <2>1, <2>3, LinksPass
  <2>5. l.iss \in Holders(l.cmd, l.res)
    BY <2>1, IssuerHolds
  <2>6. p \in Holders(l.cmd, Here)
    BY <2>1, <2>2, <2>3, <2>4, <2>5, GrantHolds
  <2>7. QED
    BY <2>1, <2>2, <2>3, <2>6
<1>2. QED
  BY <1>1, DelegationTypes, PTL
=============================================================================
