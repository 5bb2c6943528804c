--------------------------------- MODULE Blobs ---------------------------------
(***************************************************************************)
(* Binary content (packages/workspace/src/blobs.ts, Workspace.writeBlob    *)
(* and readBlob): content is appended to the blob log in chunks, by writes *)
(* that overlap, each chunk sealed (packages/p2p-runtime/src:              *)
(* encrypted-log.ts, seal.ts), and a reference names the blocks.  A read   *)
(* takes the blocks a reference names and compares with its hash.          *)
(*                                                                         *)
(* Content is a sequence of bytes and its own hash.  Blocks are counted    *)
(* from 1.  That everybody has the blob log open with one key is           *)
(* Bootstrap's KeysAgree.                                                  *)
(***************************************************************************)
EXTENDS Integers, Sequences, SequencesExt

CONSTANTS
    Contents,    \* what is written: sequences of bytes
    ChunkBytes,  \* CHUNK_BYTES
    MaxBytes,    \* MAX_BLOB_BYTES
    Keys, K0,    \* the key of this workspace, among others
    Slots,       \* writes that can overlap
    NoRef,       \* of content the session has not written
    MaxBlocks,   \* bound: blocks of the log
    MaxCrashes   \* bound: sessions that end in the middle

ASSUME ContentsAssumption == \A c \in Contents : c \in Seq(Nat)
ASSUME SizesAssumption == ChunkBytes \in Nat \ {0} /\ MaxBytes \in Nat
ASSUME KeysAssumption == K0 \in Keys
ASSUME BlobsBounds == MaxBlocks \in Nat /\ MaxCrashes \in Nat

VARIABLES
    log,      \* the blob log: the key of each block and its plaintext
    seen,     \* blobsSeen of the session
    refs,     \* history: references that writes returned
    write,    \* of each slot, the write under way
    crashes

blobVars == <<log, seen, refs, write, crashes>>

NoWrite == [on |-> FALSE, content |-> <<>>, offset |-> 0, chunks |-> <<>>, appended |-> 0]
None == 0  \* no append under way

BlobsInit ==
    /\ log = <<>>
    /\ seen = [c \in Contents |-> NoRef]
    /\ refs = {}
    /\ write = [s \in Slots |-> NoWrite]
    /\ crashes = 0

-----------------------------------------------------------------------------
(* Writing. *)

RefOf(w) == [id |-> w.content, size |-> Len(w.content), chunks |-> w.chunks]

\* Content over the limit throws, content the session has written is answered from
\* the cache: neither changes anything.
Begin(s, c) ==
    /\ ~write[s].on
    /\ Len(c) <= MaxBytes /\ seen[c] = NoRef
    /\ write' = [write EXCEPT ![s] = [NoWrite EXCEPT !.on = TRUE, !.content = c]]
    /\ UNCHANGED <<log, seen, refs, crashes>>

\* subarray(offset, min(offset + CHUNK_BYTES, byteLength)).
ChunkOf(w) ==
    LET end == w.offset + ChunkBytes IN
    SubSeq(w.content, w.offset + 1, IF end < Len(w.content) THEN end ELSE Len(w.content))

Seal(plaintext, key) == [key |-> key, plaintext |-> plaintext]
Opens(block, key) == block.key = key

Loops(s) == write[s].on /\ write[s].offset < Len(write[s].content)

AppendChunk(s) ==
    /\ Loops(s) /\ write[s].appended = None /\ Len(log) < MaxBlocks
    /\ log' = Append(log, Seal(ChunkOf(write[s]), K0))
    /\ write' = [write EXCEPT ![s].appended = Len(log')]
    /\ UNCHANGED <<seen, refs, crashes>>

\* The length the log has when the write goes on.
LengthNow(w) == Len(log)

\* What the append returned, not how long the log has become.
IndexOf(w) == w.appended

AppendReturns(s) ==
    /\ write[s].appended # None
    /\ write' = [write EXCEPT ![s].chunks = Append(@, IndexOf(write[s])),
                              ![s].offset = @ + ChunkBytes, ![s].appended = None]
    /\ UNCHANGED <<log, seen, refs, crashes>>

\* The append rejects, and so does the write: its blocks stay, unreferenced.
AppendFails(s) ==
    /\ Loops(s) /\ write[s].appended = None
    /\ write' = [write EXCEPT ![s] = NoWrite]
    /\ UNCHANGED <<log, seen, refs, crashes>>

Return(s) ==
    /\ write[s].on /\ ~Loops(s)
    /\ seen' = [seen EXCEPT ![write[s].content] = RefOf(write[s])]
    /\ refs' = refs \cup {RefOf(write[s])}
    /\ write' = [write EXCEPT ![s] = NoWrite]
    /\ UNCHANGED <<log, crashes>>

\* The session ends and another begins: the cache is the session's.
Crash ==
    /\ crashes < MaxCrashes /\ crashes' = crashes + 1
    /\ write' = [s \in Slots |-> NoWrite]
    /\ seen' = [c \in Contents |-> NoRef]
    /\ UNCHANGED <<log, refs>>

BlobsNext ==
    \/ \E s \in Slots :
        \/ \E c \in Contents : Begin(s, c)
        \/ AppendChunk(s) \/ AppendReturns(s) \/ AppendFails(s) \/ Return(s)
    \/ Crash

BlobsSpec == BlobsInit /\ [][BlobsNext]_blobVars
-----------------------------------------------------------------------------
(* Reading. *)

Failed == <<-1>>  \* no content

\* The chunks one after the other: a session with another key, a length that is not
\* the one declared or another hash is an error.
ReadBlob(ref, key) ==
    LET blocks == [i \in DOMAIN ref.chunks |-> log[ref.chunks[i]]]
        out == FlattenSeq([i \in DOMAIN blocks |-> blocks[i].plaintext])
    IN IF (\E i \in DOMAIN blocks : ~Opens(blocks[i], key)) \/ Len(out) # ref.size \/ out # ref.id
       THEN Failed ELSE out

Refs == refs \cup {seen[c] : c \in {d \in Contents : seen[d] # NoRef}}

-----------------------------------------------------------------------------
(* Properties. *)

BlobsTypeOK ==
    /\ Len(log) <= MaxBlocks /\ \A i \in DOMAIN log : log[i].key \in Keys
    /\ \A s \in Slots : write[s].appended \in 0..Len(log) /\ write[s].content \in Contents \cup {<<>>}
    /\ crashes \in 0..MaxCrashes

\* Every reference that was handed out, or that the cache would hand out, reads back
\* as its content, wherever the chunks of overlapping, failed and interrupted writes
\* came to lie between its own; nobody without the key reads what has chunks.
RefsReadBack ==
    \A ref \in Refs :
        /\ Range(ref.chunks) \subseteq DOMAIN log
        /\ ReadBlob(ref, K0) = ref.id
        /\ \A k \in Keys \ {K0} : ref.size > 0 => ReadBlob(ref, k) = Failed
=============================================================================
