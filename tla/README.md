# Workspace: a verification development

TLA+ models of the workspace spike (`packages/p2p-runtime`,
`packages/workspace`, `packages/portable-bootstrap`,
`packages/ucan-boundary`), the TLC configurations that check them, and proofs,
checked by TLAPS, of what matters most. Paths in this file are relative to the
repository; `R` stands for `packages/p2p-runtime/src`, `W` for
`packages/workspace/src`, `B` for `packages/portable-bootstrap/src`.

## 1. The system

A *workspace* is a folder with a set of append-only, content-addressed logs
(data, key delivery, blobs). The live logs are Hypercores in an app-private
*working store*; the folder holds them in *transport form*, a sequence of
numbered message files that any device can replay and verify, next to a
*bundle*: a manifest, its attestation, and an envelope with the workspace's key
for each member. Devices replicate over Hyperswarm behind a membership gate. On
desktop and mobile the logs live in a child process, and the app talks JSON
lines to it.

| component | state | operations | hard because | correct when |
|---|---|---|---|---|
| Transport form (`R/transport-form.ts`) | main log, capture replica, message files, a tapped `verify`, a local `seq` per flush | `flushLogToDir`, `hydrateLogFromDir` | many `verify` calls in flight, appends and other flushes meanwhile, files still being written when the flush has returned, death between accepting a message and naming its file, lost capture cache, copies taken at any time | committed files stay; a copy is a valid prefix; what a flush covered is recoverable |
| Workspace session (`W/index.ts`) | `flushTimer`, `closed`, the open logs, the runtime | `write`, `entries`, `flushStore`, `close` | flushes of timer, client and `close()` overlap; the folder moves; peers announce blocks between a check and its use | writes reach the folder without a close; close returns, and leaves a copy; a read of a damaged folder ends |
| Connection gate (`R/runtime.node.ts`) | `peers`, listeners, a timer and a channel per connection | `connection`, `onmessage`, timeout, `admit`, `forget`, `close` | timeout, proof, verdict, end of the connection and shutdown interleave | only members replicate; the count is right; nobody waits for ever |
| Topics and status (`R/runtime.node.ts`, `W/index.ts`) | `joinedTopics`, discoveries, announce state, status listeners | `joinTopic`, `leaveTopic`, `announceInBackground`, `onStatus` | check-then-await on the table, in joins and in leaves; a status computed at several moments | recorded means announced; listeners hear the status as it is |
| Watcher (`W/watcher.ts`) | `timers`, `settling`, `lastDigest`, `stopped` | event, settle, report, stop | the file changes between polls and between poll and read; events during a settle | no false deletion; a file left alone is reported; silence after stop |
| Runtime over IPC (`R/ipc`) | pending calls, log handles; child's log table, partial line | rpc, events, exit, shutdown | responses and events reorder; the child dies | each call settles; an append knows its block; handles follow their logs |
| Workspace over IPC (`W/ipc/child.ts`, `remote-base.ts`) | workspaces by id, watchers, pending calls | `wsCreate/Open/Write/Watch/Close`, `closeAll` | close racing watch and open, two closes of one workspace at exit | answers reach their calls; no watcher outlives its workspace; all is flushed before exit |
| Shared child of the macOS app (`W/ipc/remote.macos.ts`, `R/ipc/transport.macos.ts`, `apps/macos/native/P2PRuntimeModule.mm`) | the shared transport, the spawn under way, the module's task | `sharedTransport`, `closeSharedTransport`, `spawn`, `close`, exit | concurrent opens, a crash, events that name no child | one child at a time; a dead one is noticed |
| Bundle and folder (`B/index.ts`, `B/folder.ts`, `W/index.ts`) | manifest, attestation, envelopes on disk | `create`, `open`, `invite`, `createBundle`, `consumeBundle` | non-atomic writes, read-modify-write, crashes | all who open hold one key; an invitee can open |
| Key delivery (`B/key-delivery.ts`) | the delivery log, a scan cursor | `publishDelivery`, `scanDeliveries` | the log grows under the scan; a block that cannot be read is skipped | a scan from the cursor misses nothing |
| UCAN boundary, membership (`packages/ucan-boundary/src`, `B/membership.ts`) | none | `issueDelegation`, `validateDelegation`, `createMembershipVerifier` | chains, expiry, attenuation | no accepted chain exceeds its root, and every grant can be shown |
| Blobs (`W/blobs.ts`) | the session cache | `writeBlob`, `readBlob` | concurrent writers interleave chunks | what a reference names is what was written |
| Cryptography and identity (`R/seal.ts`, `wrap.ts`, `attestation.ts`, `encrypted-log.ts`, `did.ts`) | none | pure | | |

Interactions. `Workspace.write` appends through an encrypting view of a log and
arms the flush timer; `flushStore` calls `runtime.flushLogToDir` for each log in
turn; `open` reads the bundle, and hydrates each log from the folder before
opening it; `create` and `open` hand the runtime a `verify` callback for the gate
and start the announce without waiting for it; the runtime calls back with
appends and peer counts, which become status events. `W/ipc/child.ts` owns
`Workspace`s for a parent and forwards their events; `R/ipc/child.ts` does the
same for bare runtimes.

## 2. Modules

    PortableFolder    what a folder promises for one log (abstract)
      ^ implemented by
      `- TransportForm      flush, tap, rebuild, hydrate, crash    <- TransportFormProofs
    WorkspaceSession  timers, flushes of every log, close          <- WorkspaceSessionProofs
    AuthGate          the connection gate and the peer count
      ^ extended, and implemented, by
      `- NodeRuntime        topics, announce and status over it    <- NodeRuntimeProofs
    Watcher           watchWorkingTree for one path                <- WatcherProofs
    RuntimeIpc        a runtime's proxies, the pipes, its child    <- RuntimeIpcProofs
    WorkspaceIpc      the same for the app's workspaces            <- WorkspaceIpcProofs
    SharedChild       the one child of the macOS app               <- SharedChildProofs
    Bootstrap         create, invite and open over one folder    \
    KeyDelivery       publishing and scanning deliveries          | <- MembershipProofs
    Delegation        delegation chains and the membership check /
    Blobs             chunked content in the blob log              <- WorkspaceSessionProofs

The proofs of the three modules by which members come to a key are in one module,
which EXTENDS them all; so are those of the session and of the blobs written in it.
That is why `KeyDelivery`, `Delegation` and `Blobs` name their specifications
`DeliverySpec`, `DelegationSpec` and `BlobsSpec`. Each `MC*` module gives a component's
constants model values; several runs are made of one specification only where they ask
different questions. `MCMembership` puts `Bootstrap` and `Delegation` side by side.

**TransportForm.** A block is its index and a message is what decides whether a
reader accepts it: the upgrade it carries (`from`, `to`), its block, and `needs`,
the blocks its reader had applied when it was built
(docs/workspace-format.md:722, "the proofs are built for a reader that has
applied precisely the preceding messages"). The record `flush[f]` holds the
locals of one `flushLogToDir` call; `verify` is the stack of taps around
`cap.core.verify` (sessions of one store share the core object, so two flushes
tap the same function); a member of `writes` is one invocation of the tap
between taking its number (line 165) and `rename` (169). Actions follow the
awaits: `List` (125-135), `OpenCapture` (137-147), `Rebuild` (one file of the
replay at 143), `Accept` (a verified message, up to the synchronous `seq++`),
`Commit`, `FlushDone` or `WriteFails` and `FlushThrows` (177-189). Two things are as
loose as in the code. A flush waits for the capture's blocks and for nothing else
(`download().done()`, 178; the bitfield is set by the original `verify` at 155), so
`FlushDone` may leave members of `writes` behind: they are marked `late`, and are
committed whenever they are. And `List` may come at any time: while another call
runs, or while files of one that returned or threw are being written. `raced` records
that a call numbered its files from a listing that missed others (`Unlisted`), and the
properties about numbering say what holds until then. A member of `Flushers` stands for
one call after another, but a tap that may still run belongs to its own call
(`Available`). `WriteFails` may or may not make the flush reject: that is Hypercore's to
decide. That it does not leave the flush waiting for ever is an assumption about
Hypercore, on which `FlushReturns` rests. `Crash` stops
the process; `LoseCapture` deletes the cache; `HydrateFile` is one file of a
replay on another device, which may replay any committed file next: a copy may
be torn, incomplete or stale, and be replaced by a later one. Hypercore is
external: `Verifies`, `Applied` and `Sendable` say what its `verify` accepts and
its replicator sends. The replicator upgrades a replica to whatever length the
sender has, whatever range is being downloaded, and chooses the order of blocks.
Temp files are not state because no reader lists one. A replay (`Replay`) is a
recursive function of file numbers: what each makes of the core that those before it
left.

**WorkspaceSession.** A step above: several logs, a `len` and a `held` prefix
for each (`length`, `contiguousLength`), the timer, the calls of `flushStore` in
flight, and the stages of `close()` and `runtime.close()`. The device is one
that writes, one that replicates, or one that has no swarm and was hydrated from
a folder that lacks messages (`writer`, `local`). Of a flush it keeps what
matters between flushes: the length it asks for (`List`, `Decide`), how far the capture
is upgraded (`Upgrade`) and filled (`Accept`, `taken`), and that the files of what it took
come in later (`writing`, `FilesWritten`), maybe after the flush has returned
(`CopyDone`). `Gives` says what they leave: what the capture took; any part of it, less
than before included, once two flushes of the log have numbered from one listing
(`raced`); no more than there was if a file failed (`cut`) or the folder is a new one. `reading` is the read of
`entries()` (lines 636-660) that waits for a block. `cut`, `raced`, `atClose` and
`requested` are history. `folder` follows lines 737-739: a folder that moved is not written to,
unless it moves after that check, when `mkdir` makes a new one.

**AuthGate, NodeRuntime.** One connection per member of `Conns`. `destroy()` and
the `close` event it leads to are two steps (`Destroyed`, `Closes`), so anything
may come between; `VerifySettles` runs whenever `auth.verify` does, even after
the connection or the swarm is gone. `NodeRuntime` EXTENDS `AuthGate` and adds
the table of topics, in which a discovery is recorded before its flush is awaited
(line 338); a leave of it, which awaits the destruction of the discovery (`Withdraw`:
the topic is not announced any more) before it forgets the record (`Forget`), or is
rejected and keeps it (`LeaveFails`, `stuck`) (363-364); the workspace's
announce, which runs in the background and outlives a close; and the status told
to listeners (`W/index.ts` 294-330). `crossed` is history: topics that two
`leaveTopic` calls were leaving at once.

**Watcher.** One path: paths share nothing but `stop()`. A file system call takes
its result in one step (`StatReturns`, `ReadReturns`), and the code after its
await runs in another (`AfterStat`, `AfterRead`). A digest is its content. An edit
may keep the size; a file may be replaced by a directory or lose its permissions.

**RuntimeIpc, WorkspaceIpc.** Both have the calls the parent made, the two pipes
(`toChild`, `toParent`) and the chunks the child's `feed` is handling (`feeds`),
each from its current request on. A read takes any number of lines that have
arrived: the child handles the requests of one chunk in turn and those of
different chunks concurrently, and the parent handles a whole chunk before an
`await` on one of its replies runs. In `RuntimeIpc` a call is its id and a log
handle is the call that opened it, so two handles of one key are two ids; `table`,
`subscribed`, `visited` and `cleared` follow the child's log table and its
shutdown (child.ts), `ready`, `exited` and `logs` the parent. In `WorkspaceIpc`
`Begin` is the dispatch up to its first await; `FinishOpen`, `FinishWrite`,
`FinishAsk`, `CloseReturns` are what follows it. A `close()` goes through stages: its
flush begins (`BeginFlush`), ends or fails, which is swallowed (`EndFlush`,
`W/index.ts:771-777`), and the runtime goes down. `wsClose` and `closeAll()` may each be
closing one workspace, and the one that is first at the runtime takes it down under the
other's flush (`Overtaken`). `InputEnds` is `closeAll()`, `Exit`
the end of it or of its five seconds, `Crash` the handlers of
child-bin.ts:49-56; what the child has not written out is lost.

**SharedChild.** JavaScript keeps a transport and a spawn promise; the native
module runs its methods one after the other (`queue`) and holds one task. A child
is named by the transport that asked for it. Its end is three steps: it ends, the
termination handler runs (`reaped`), the event reaches every subscribed
transport, whichever child it was.

**Bootstrap.** The files of one folder on which several devices work, each file
read and written in place in a step or two of its own (`Truncate`, `Fill`;
`ReadFile`, `List`). A creation stands for what one `create()` makes: root, key,
date and logs; an envelope carries its key, the root that delegated in it and the
number in which it was issued, which is how it expires. `Crash` is the death of a
process with a call under way: what it truncated does not parse.

**KeyDelivery.** The log is a sequence of blocks, for a member and of a kind; a
scan is a cursor, an end and what it has found, one block at a time, while the log
grows, replicates, has delegations lapse in it, and is closed. Any `get` may fail, of an
open log too, and the block is then passed (`skipped`).

**Delegation.** Anybody issues any delegation; a chain is any sequence of them.
`ValidateDelegation` is the code's loop as a quantifier over links; `Holders` is the
reference, independent of chains: who can be reached from the root by delegations
that pass this authority on now.

**Blobs.** Content is a sequence of bytes and its own hash; writes overlap, one
append at a time, fail in the middle, and leave blocks nobody refers to.

**PortableFolder.** The abstract promise: `covered`, the prefix an empty device
recovers from a complete copy, grows, never past the log, until numberings have raced;
from then on it is some prefix of the log, and may shrink. `TransportForm` implements it
with `Covered`, the result of replaying the folder (`FolderSpec`), through any faults
and for any number of calls: model-checked, and proved. `WorkspaceSession` does not
refine it: what overlapping flushes leave is `TransportForm`'s matter, and there it takes
any value that they may leave.

## 3. Runs

| run | bounds | shows |
|---|---|---|
| `transport_form` | one flusher, 2 blocks, 1 fault | `DownloadedRangeCovered`, `CaptureWithinFolder`, `CopyValid`, `SettledFilesStay`, `FlushReturns`, refinement `FolderSpec` |
| `transport_form_overlap` | two flushers, 2 blocks, no fault | `RunningCallsKeepFiles` is **violated**: two flushes that run write the same name |
| `transport_form_late` | one flusher, 2 blocks, no fault | `CommittedFilesStay` is **violated** without an overlap: a flush returned before its file was renamed |
| `session` | a log of 2 blocks and an empty one, a timer or client flush and the one of `close`, 1 fault | `CloseLeavesCopy`, `ClosedHasNoTimer`, `WritesReachFolder`, `EntriesSettle`, `CloseReturns` |
| `node_runtime` | 1 connection, 1 topic, 2 discoveries, 2 leavers | `OnlyMembersReplicate`, `CountIsCurrent`, `TopicsAgree`, `StatusTold`, `ClosedIsForgotten`, `GateDecides` |
| `watcher` | 3 contents of 2 sizes, 4 changes, 2 polls | `DeletionsAreReal`, `StoppedIsSilent`, `QuietFileReported` |
| `runtime_ipc` | 1 log, 4 calls, 1 block from peers | `AppendsNumberBlocks`, `LengthSettles`, `CallsSettle` |
| `workspace_ipc` | 3 calls, 2 workspaces, 1 entry | `AnswersAreOwn`, `LengthFollows`, `WatcherStops`, `ExitFlushesAll`, `CallsSettle` |
| `shared_child` | 2 callers, 3 transports | `NoSpawnRefused`, `EndIsNoticed`, `SpawningIsUnderWay` |
| `membership` | the folder: 2 devices, 2 creations, 2 calls at a time, 4 in all, 1 crash, 1 year; the delegations: 3 principals, 2 resources, commands of 1 and 2 segments, 3 links, seconds 0 and 1 | `KeysAgree`, `InviteesOpen`, `AcceptedAreGranted`, `GrantedAreAccepted`, `AdmitsMembersOnly` |
| `key_delivery` | 2 members, 2 blocks | `DeliveriesFound`, `DeliveryArrives` |
| `blobs` | 2 writes at a time, chunks of 2 and at most 4 bytes, 5 blocks, 2 keys, 1 crash | `RefsReadBack` |

Why the bounds are enough to be interesting. Two blocks are the fewest for which
an upgrade and a block may come in one message or in two, in either order, and
for which a block may be appended while the first is being flushed; names grow
past the two blocks because each fault makes a capture start again. One fault is a
crash, a failed write or (in `session`) a folder that moves, at any
point; the capture may be lost any number of times besides. One flusher makes one
call after another, each of which may find files of the last one on their way; two
overlapping flushes are all that the debounce timer and `close()` produce. What two
flushers may do is proved for any number of them (section 4), not run. The second log
of `session` is one the loop of `flushStore` moves on to, lists and finds nothing in; one
with blocks of its own multiplies the states by fifteen, and what is said of each log
does not depend on the others, for which the theorems stand. One connection passes through
every state of the gate, the swarm destroyed under it in each; that connections do not
disturb each other, and that the count is theirs, is proved for any number of them. Two
discoveries and two leavers let a topic be joined again while its first discovery is
being destroyed, and left by two calls at once. The two halves of `membership` share no
state, so each behaviour of that run is of one of them. Four changes let a file be edited
during a settle, again before the read, be removed and come back. Four calls open a log, append
twice to it and close it or the runtime, in one chunk or several; one block of a
peer makes an event that may pass a response. Three calls open a workspace and
let two requests for it be in one chunk or two, in any order of answers. Three
transports are a child, the one after its crash, and the one after a failed
launch. Four calls are a creation, two overlapping invites or a second creation,
and an open between their writes. Three links make a chain of full length with a
link that does not belong to it. Five blocks hold two contents of two chunks
interleaved and a chunk of a write that failed.

Deadlock is checked where the system runs for ever. A session that is closed, a
swarm that is destroyed, a file nobody changes any more, a child that is gone and
calls that are used up stop, and their configurations say so.

The type invariants are not part of the runs: all of them are proved (section 4),
and they hold when added to `INVARIANTS` of the configurations.

Some properties are narrower than their names. `LengthSettles` is about a log with
one handle: of two handles of one key the parent's table keeps the last, and only that
one hears of appends. `InviteesOpen` is about a folder in which one workspace is made;
when a second `create()` writes over the first, whose bundle stays is decided file by
file, and `KeysAgree` says what holds then. `WatcherStops` leaves out a watcher that is
started while its workspace closes (`late`), `LengthFollows` a change before the parent
has an object to tell (`missed`), `TopicsAgree` a topic two calls were leaving at once
(`crossed`), and the properties of the folder what follows a race of numberings
(`raced`). Each of these is a gap of the code, listed in section 5.

### Fairness

The event loop runs what is ready, so the continuation of a flush that was called,
a pending rename, a timer that is armed, a settled verdict, a destroyed stream's
`close` and the delivery of a file system event are weakly fair. Nothing obliges
anyone to append, connect, answer, flush, close, change a file or copy a folder,
nor a failure to happen. In particular:

* `session`: a member's flush or read may wait for ever for a block that was
  announced to it, which is why `CloseReturns` and `EntriesSettle` speak of
  devices to which nobody can announce one.
* `runtime_ipc`: both processes handle what has arrived; a child whose input has
  ended exits, and an exit is seen. What asks the network (`ask`) need not return:
  `CallsSettle` assumes no such wait is for ever. The same holds for
  `workspace_ipc`, for what asks or closes.
* `node_runtime`: timers fire, `verify` settles (it is local), a destroyed stream
  closes. The peer sends nothing it does not want to.
* `key_delivery`: the log replicates, its blocks come, and the member keeps
  scanning. Nothing in `src` scans, so the last is a demand on the caller.

### What the violations say

* `transport_form_overlap`. Nothing serialises `flushLogToDir` per log. A flush of the
  debounce timer that is still running when `close()` flushes has listed the same names,
  taps the same core and renames over the other's files, though "committed files are
  never rewritten" (docs/workspace-format.md:712). The copy stays valid (`CopiesAreValid`
  is proved for any number of flushers); what is lost is progress: the capture replica has
  what the folder lost, so no later flush writes it again while the capture is kept.
* `transport_form_late`. The same happens to flushes that do not overlap. A flush awaits
  the download, which Hypercore answers from the capture's bitfield, and the tap renames
  its file after the block is in it (`R/transport-form.ts:155`, 168-169, 178). The next
  flush may list the folder before that rename.

Neither needs a fault, a lost capture or more than two blocks.

## 4. Proofs

TLAPS checks the following for every value of the constants that the modules'
named assumptions allow: the bounds of the runs are not used.

`TransportFormProofs`, for any number of flushers, any log length and any faults:

* `TypeCorrect`: `Spec => []TypeOK`. `TypeOK` is not inductive: the next sequence
  number and the oldest file of a replay are choices from a set of names, which need
  a maximum and a minimum. `TypeInv` adds that the listed names are empty or have a
  largest one, which each commit preserves (`CommitKeepsNewest`); that a nonempty
  set of naturals has a least one comes from the well-foundedness of `<`.
* `CopiesAreValid`: `Spec => []CopyValid`. The strengthening `WithinLog` says that
  every message in the folder, in flight or on a rebuild's list is one this log
  could have produced (`from <= to <= mainLen`, its block below `to`), and that the
  capture and the reader are within the log; replaying any such message into any
  such core keeps it within (`ReplayWithin`). It holds with overlapping flushes
  too: they may lose messages, never make a copy invalid.
* `SettledFilesAreKept` (`SettledFilesStay`), `FlushesCover` (`DownloadedRangeCovered`),
  `CaptureIsInFolder` (`CaptureWithinFolder`) and `FolderIsPortable` (`FolderSpec`), each
  of the form `Spec /\ []NamesFit => ...`, for any number of callers, any log length and
  any faults. `NamesFit` is the assumption that six digits suffice (`SEQ_RE`). Callers may
  list whenever they like; a step in which one does while files are on the way sets `raced`,
  and the invariant is `Orderly == raced \/ \E f \in Flushers : CoverInv(f)`: until then
  one call `f` is the only one that runs or has files on the way, though it changes from
  call to call, and `CoverInv(f)` says of it:
  - `NumbersFresh(f)`: the numbers of the messages in flight are pairwise distinct and not
    in the folder, and all are below its `seq`; a name has one file (`OneOfEachName`); the
    taps and what is being written are its own, after it has returned too (`Alone`).
  - Each message from the first one still in flight is for a core as long as its
    predecessor left (`Chained`), and, unless a message was lost, the capture is exactly
    what the folder together with the messages in flight make of an empty core, or is on
    its way there during a rebuild (`Mirrors`). `Covers` is then `DownloadedRangeCovered`
    with what it needs.
  - Files are committed out of order, so a replay of the folder has gaps. `Chained` is
    what makes them harmless: a message after a gap verifies all the same, or is for a
    longer core and waits until the gap is filled, and either way the file that fills it
    takes nothing away from what was recovered without it (`LeadKept`, `GapFilled`). This
    is the step of the refinement that could fail.
  - `Replay` is recursive, and no induction theorem can be instantiated. That it has the
    values its definition says (`ReplayDefined`), and every lemma over its file numbers,
    follow from `AllNumbers`: of the numbers outside a set that has 0 and the successor
    of each of its members there would be a least one.

`WorkspaceSessionProofs`, for any logs and any number of overlapping flushes:

* `TypeCorrect` and `NoLateTimer` (`ClosedHasNoTimer`) from `Inv`: types; nothing is
  asked for, captured or covered past the log (`WithinLog`); and what each stage of
  the close excludes (`Shutting`): the timer, the flush of `close()`, and at the end
  any flush that copies.
* `CloseIsComplete`: `Spec => []CloseLeavesCopy`. `Placed` says that what the capture took
  is covered, or has files on the way, or is of a log whose flushes have raced. Two facts
  about the past are needed besides: the largest length any flush asked for has been taken
  or is still being copied (`Kept`), and the flush of `close()` has, of each log it is past,
  asked for at least what the log had when `close()` was called, unless the capture had run
  ahead (`Passed`). What two flushes that race leave is not assumed: it is any part of
  what the capture took.

and of `Blobs`, for any content, chunk size, keys and overlapping writes:

* `BlobTypes` (`BlobsTypeOK`) and `BlobsReadBack` (`RefsReadBack`). `BlobsInv` says that
  the blocks a write or a reference names hold, one after the other, the pieces of its
  content, and that a reference names enough of them (`Pieces`, `Referenced`), that a
  write's offset is where its pieces end, and that the block being appended is its next
  piece (`Progresses`), whatever other writes appended in between. That the pieces
  joined are the content (`PiecesJoin`) is a fact about `FlattenSeq`, by the same
  least-element argument as above.

`NodeRuntimeProofs`, for any connections (infinitely many included), topics,
discoveries and overlapping leaves:

* of the gate, `TypeCorrect`, `GateKeepsOthersOut` (`OnlyMembersReplicate`),
  `ListenersAreCurrent` (`CountIsCurrent`) and `CloseForgets` (`ClosedIsForgotten`),
  as theorems of `AuthGate`'s `Spec`. `Inv` says besides types that the peers are
  finitely many, which the cardinality facts need, and exactly the connections with
  the forget listener, which makes the step that closes a peer the one that forgets it.
* `RuntimeKeepsGate`: `SpecRuntime => Spec`. Every step of the whole runtime is a
  step of the gate or leaves it alone, so the four hold of the runtime as well.
* `RecordedTopicsAreLive` (`TopicsAgree`). `TopicInv` adds that a topic that was never
  left twice at once is being left by one call at most, and that this call destroys
  the discovery that is recorded: so what `Forget` removes is the record of what `Withdraw`
  took down, whatever joins, failed leaves and flushes came in between.
* `ListenersHearStatus` (`StatusTold`): every step that changes what the status says
  while somebody listens tells it.
* `RuntimeTypes` (`TypeOKRuntime`), from all of these: a listener is never told of an
  announce that has not begun.

`RuntimeIpcProofs`, for any number of calls, logs and blocks:

* `TypeCorrect`; `AppendsAreNumbered` (`AppendsNumberBlocks`). `HandsInv` says that a call
  is in one place only, still in the pipe or in one chunk; `LinesInv` that it is answered
  once and settled after that; `AppendsInv` that what an append was answered is the number
  of the block that Hypercore appended for it.
* `HandlesKeepUp` (`LengthSettles`). Responses of appends and events cross, so what the
  handle knows may be behind for a moment. `Follows` says why it catches up: either an
  append is in flight, or the last response in the pipe tells the length, or the last event
  does, or nothing is on its way and the handle knows it. Of the appends in flight one
  is that of the last block (`AppendsInv`), so what is still to be told is the log's length.

`WorkspaceIpcProofs`, for any number of calls, workspaces and entries:

* `AnswersReachTheirCalls` (`AnswersAreOwn`): the ids of calls are their places in the
  order of calls, whichever object makes them (`ParentInv`).
* `LengthsAreFollowed` (`LengthFollows`), from a `Follows` of its own, in which the reply
  to the opening may be in the pipe, before the events or in one chunk with them.
* `WatchersStop` (`WatcherStops`), from `TablesInv` and `ClosingInv`.
* `ExitLeavesAll` (`ExitFlushesAll`). `FoldersInv` says of each workspace for whose
  acknowledged writes no flush has ended or failed that it is in the child's table, or, once
  the input has ended, that a close which `closeAll()` waits for has still to begin or to
  end such a flush. Of two closes of one workspace the first to be past its flush has seen to
  that (`Safe`), so the other may find the runtime down.
* `TypeCorrect`: `NumberedInv` says that the pipe and each chunk are runs of the calls'
  numbers, `ObjectsInv` what the parent knows.

`SharedChildProofs`, for any callers and any number of spawns: `TypeCorrect`,
`SpawnsAreNotRefused`, `EndsAreNoticed`, `SpawningIsAwaited`. `Inv` is `Types`, `Noticed`
(an end is an event on its way for every transport that has not heard one) and, until the
transport is torn down, `OneAtATime`: one transport at most has a child whose end
JavaScript has not heard of, the one being spawned or else the one callers are given.

`MembershipProofs`, of `Bootstrap`, for any devices, creations, overlapping calls and
crashes:

* `OneKey` (`KeysAgree`). What could go wrong is an envelope of one workspace read in
  another one's bundle. `BundleInv` says that every envelope, in a file, in what a call has
  read or is writing, and in its hands, has the key of the root that delegated in it
  (`Keyed`), wherever the torn and mixed files came from; an envelope that
  `consumeEnvelope` accepts for a root therefore has that root's key.
* `InvitesKeepTheFolderOpen` (`InviteesOpen`). `FoundInv` says that what a call has read,
  or is about to write, is there or will be (`CallFounds`), so that no invite writes back a
  bundle that lacks the manifest, the attestation or the envelope it adds; `OneInv` that
  while one creation was begun all there is, on disk and in any call's hands, is that
  creation's. Every envelope that was returned therefore has a file, of this workspace and
  for this device.
* `BundleTypes`, for which `CreationsAssumption` says that a creation is not an envelope.

of `KeyDelivery`: `DeliveryTypes` and `NothingMissed` (`DeliveriesFound`). `Within`
orders cursor, scan, replica and log; `Passed` says that what the scan under way
has gone past is in what it found, or could not be got.

of `Delegation`: `DelegationTypes`, `ChainsShowAuthority` (`AcceptedAreGranted`),
`GrantsCanBeShown` (`GrantedAreAccepted`) and `GateAdmitsHolders` (`AdmitsMembersOnly`). A
holder is in every set that has the root and is closed under delegations that pass the
authority; of the issuers of a chain that were outside such a set there would be one
nearest the root's link (`LeastOf`, from the well-foundedness of `<`), and the link before
it puts it inside. The other way round, those who have a chain are such a set, and a
shortest chain repeats no delegation, so it is no longer than the delegations are many.

`WatcherProofs`: `TypeCorrect`, `ReportedDeletionsAreReal` (`DeletionsAreReal`) and
`StopSilences` (`StoppedIsSilent`). `PollInv` says that while the file is polled fewer
polls agree than would end it; `GoneInv` that a settle whose file is missing, or
whose last call said so, is one in which it was missing.

Only model-checked: liveness (`FlushReturns`, `WritesReachFolder`, `CloseReturns`,
`EntriesSettle`, `GateDecides`, `QuietFileReported`, `DeliveryArrives`, `CallsSettle` of
both IPC modules). Fairness is about ENABLED, which the provers do not handle. Every other
property of the passing runs is stated by a theorem above.

What the theorems assume besides the bounds' types: `SettledFilesAreKept`, `FlushesCover`,
`CaptureIsInFolder` and `FolderIsPortable` assume `NamesFit`. The others assume only what
the modules' `ASSUME`s say of the constants, which TLC evaluates in every run. All of them
take Hypercore as the models do: `verify` refuses what does not follow from what a core has,
the replicator sends what `Sendable` says, a download is done once the blocks are in the
bitfield, and a flush one of whose files cannot be written is not left waiting.

## 5. Known gaps

What the code does that a property has to except, or that no property covers. Each
is behaviour of the source as it is; a model reproduces it where one is named.

Flush and session (`TransportForm`, `WorkspaceSession`):

* Two flushes of one log may give out one number, when they overlap and also when they do
  not: a flush that returned or threw may still have renames to come, which the next one's
  listing does not show. A message is renamed over another, and the folder may then give
  less than before. `raced` marks it; the runs `transport_form_overlap` and
  `transport_form_late` show it.
* A flush returns before its last files are in place, though `flushStore` says that one may
  share the folder then (`W/index.ts:729-731`): `ReturnedIsCovered` by itself does not hold,
  and `DownloadedRangeCovered` states it once no rename is late. `close()`
  returns then too, and a process that exits right after it may lose files still being
  written: `CloseLeavesCopy` is about the folder once they are there.
* A file that cannot be written leaves the capture ahead of the folder (`lost`, `cut`): no
  later flush writes its message again, until the capture is lost.
* A folder that moves while it is flushed is made again at the old path, with only the
  messages that come after: `flushStore` looks for it once (`W/index.ts:739`) and each
  `flushLogToDir` makes its directory (`R/transport-form.ts:127`). The folder is `"back"` then.
* An append during a flush upgrades the capture past the range that is downloaded
  (`R/transport-form.ts:178`). Its block is not in the folder, and the next flush finds
  nothing to do (line 145), until something else is appended. `Overran` and the range
  in `DownloadedRangeCovered` mark this case.
* `flushStore` compares the contiguous length with the length (`W/index.ts:746`),
  and `flushLogToDir` reads the length again after four awaits: a block announced in
  between makes the flush wait for a peer. `CloseReturns` excludes it.
* A file that would need a seventh digit is not listed again (`padStart`,
  `R/transport-form.ts:58`): `NamesFit`.
* The folder is not fsynced, though docs/workspace-format.md:717 says it is: a torn
  file is one that does not verify.

Runtime (`NodeRuntime`):

* A connection that closes while its proof is being verified is counted as a peer
  for ever (`R/runtime.node.ts:256`, 291), though 277 says "until it closes":
  its `close` came before the listener. `ClosedIsForgotten` is about those that were
  peers when they closed.
* Two overlapping `leaveTopic` calls with a join between them leave a discovery that
  nobody can destroy (`crossed`).
* Between the withdrawal of a discovery and the end of its `leaveTopic` (363-364) the
  topic is recorded and not announced: a join in that time resolves at once and the topic
  is forgotten afterwards. If `destroy()` rejects, the topic stays recorded, announced or
  not (`stuck`), and joins of it do nothing.
* A join whose flush failed leaves the topic recorded: a retry resolves without an
  announce.

Watcher:

* An event that comes while its path is being settled is dropped (`W/watcher.ts:124`),
  although the settle may have read the file already (`dropped`).
* A file that is missing is reported after `stop()` when the stop falls into a `stat`
  (`W/watcher.ts:151`), though a test of `stop()` says that it "silences further events"
  (`watcher.test.ts:253`): `StoppedIsSilent` excepts it.

Children and pipes:

* A watcher that `wsWatch` turns on while `wsClose` awaits the workspace's close
  (`W/ipc/child.ts:139`, 177) is in `watchers` under a handle that is in no table: nothing
  stops it before the child ends (`late`).
* A flush that fails at exit is swallowed (`W/index.ts:771-777`), whether it fails of
  itself or because the other of two closes of the workspace took the runtime down; and
  one that ends leaves what `WorkspaceSession` says, with files that the exiting child may
  not wait for. `ExitFlushesAll` is about the order of flush and exit only.
* When the child of a workspace dies, calls that are pending are never settled
  (`W/ipc/remote-base.ts:265`): nothing there listens for the exit. In `R/ipc` they are.
* A change of a workspace that comes in one chunk with the reply to its open is lost
  to the new object's length (`missed`, in both IPC models); the lengths that appends
  return within one chunk may make a handle's length fall for a moment.
* Two `openLog` calls of one key that overlap make two handles, and only the later one is
  in the table and hears of appends; `LengthSettles` is about a log with one handle.
* Closing a log leaves its handle in the parent's table (`R/ipc/parent.ts:99`), so that
  opening it again gives the closed one.
* Calls before `ready()` wait for ever; `ready()` twice at once registers the handlers
  twice; a failed `init` leaves the child running; a write to the pipe of a dead child
  raises an error nobody handles.
* An open between a child's death and `p2pExit` gets a stale transport, and an exit
  before `spawn` resolves hands out a closed one. After `closeSharedTransport` the next
  spawn may be refused while the old child runs, or the old child's late event may
  close the new transport: `NoSpawnRefused` is for the time before a teardown, and
  `EndIsNoticed` says only that an end is never lost. The `.mm` file's comment at line
  125 says that it waits for the exit; the promise resolves at once.

Bundle and delivery (`Bootstrap`, `KeyDelivery`):

* A bundle file that a crash cut off makes the folder unreadable, for opens and for
  invites, until it is written again (`Whole` in `InviteesOpen`).
* A renewed envelope can be lost. Of two overlapping invites of one device the one that
  wrote last stays, and an invite of another device writes back the envelopes it listed,
  one that was renewed meanwhile among them (`W/index.ts:560`). `InviteesOpen` asks that
  the envelope on disk be valid, not that it be the last one.
* A session with the root open may invite while `create` has not yet made the
  directories of the logs, so that the bundle's conformance check fails for a while.
* A delivery in a block that could not be got, of an open log too, is passed by the
  cursor for good (`skipped`; `B/key-delivery.ts:131`).

## 6. Not modelled

* Hypercore, Corestore, Protomux, Hyperswarm and the native event queues are external:
  only what `src` relies on is in the models. The cryptography is taken where it is used,
  as what it authenticates (`Keyed`, `Unwraps`, `Signed`, `Opens`).
* `onChange` listeners, peer-count events and the flush and hydrate requests over
  `R/ipc`, status and working-tree events over `W/ipc`: they are sent on and change no
  state that a property here is about.
* `listWorkingTree`, file-name encodings, token encodings, `did.ts` and `hash.ts`:
  stateless.
* Creating a workspace twice with the same root seed in one folder, a crash of an idle
  device (it loses only sessions), and calls that last longer than a delegation.
* Invocations in `ucan-boundary` (its service layer), the conformance checks of
  file contents, the platform stubs and re-exports, and the demo programs, which
  call the parts above in a fixed order.
