------------------------- MODULE TransportFormProofs -------------------------
(***************************************************************************)
(* Proofs about TransportForm, for any number of appends, faults and file  *)
(* names: what a flush may never do to the folder, what a replay recovers, *)
(* and that the folder implements PortableFolder.                          *)
(***************************************************************************)
EXTENDS TransportForm, WellFoundedInduction, SequenceTheorems, TLAPS

-----------------------------------------------------------------------------
(* Lemmas about the operators. *)

\* A set of names that has a greatest element is numbered past all of them.
LEMMA NextSeqAbove ==
    ASSUME NEW names \in SUBSET Nat,
           names = {} \/ \E n \in names : \A k \in names : k <= n
    PROVE  NextSeq(names) \in Nat /\ \A n \in names : n < NextSeq(names)
<1>1. CASE names = {}
  BY <1>1 DEF NextSeq
<1>2. CASE names # {}
  <2>1. PICK n \in names : \A k \in names : k <= n
    BY <1>2
  <2> DEFINE greatest == Max(names)
  <2>2. greatest \in names /\ \A k \in names : greatest >= k
    BY <2>1 DEF Max
  <2>3. NextSeq(names) = greatest + 1
    BY <1>2 DEF NextSeq
  <2> HIDE DEF greatest
  <2>4. QED
    BY <2>2, <2>3
<1>3. QED
  BY <1>1, <1>2

\* Whatever a main log sends is a message, for blocks the message's length has.
LEMMA SendableIsMessage ==
    ASSUME NEW core \in Cores, NEW n \in Nat, NEW m \in Sendable(core, n)
    PROVE  /\ m \in Messages
           /\ m.from = core.len /\ m.to \in {core.len, n}
           /\ \A i \in m.blocks : i < m.to
  BY DEF Sendable, Messages, Cores

\* A set of names has a least one, finite or not.
LEMMA LeastExists ==
    ASSUME NEW names \in SUBSET Nat, names # {}
    PROVE  \E n \in names : \A k \in names : n <= k
<1> DEFINE R == OpToRel(<, Nat)
<1>1. IsWellFoundedOn(R, Nat)
  BY NatLessThanWellFounded
<1>2. \A k, n \in Nat : k < n => <<k, n>> \in R
  BY Zenon DEF OpToRel
<1> HIDE DEF R
<1>3. PICK n \in names : \A k \in names : ~(<<k, n>> \in R)
  BY <1>1, WFMin
<1>4. ASSUME NEW k \in names PROVE n <= k
  <2>1. k \in Nat /\ n \in Nat
    OBVIOUS
  <2>2. ~(k < n)
    BY <1>2, <1>3, <2>1, Zenon
  <2>3. QED
    BY <2>1, <2>2
<1>5. QED
  BY <1>4

\* A replay takes a file that is there, and none is older.
LEMMA OldestIsFirst ==
    ASSUME NEW fs \in SUBSET Files, fs # {}
    PROVE  Oldest(fs) \in fs /\ \A y \in fs : Oldest(fs).name <= y.name
<1> DEFINE names == {x.name : x \in fs}
<1>1. names \in SUBSET Nat /\ names # {}
  BY DEF Files
<1> HIDE DEF names
<1>2. PICK n \in names : \A k \in names : n <= k
  BY <1>1, LeastExists
<1>3. PICK x \in fs : x.name = n
  BY DEF names
<1>4. \A y \in fs : x.name <= y.name
  BY <1>2, <1>3 DEF names
<1>5. QED
  BY <1>4 DEF Oldest

\* A message under several taps has a next one, and remains under some.
LEMMA OuterTap ==
    ASSUME NEW S, NEW taps \in Seq(S), taps # <<>>, Len(taps) # 1
    PROVE  taps[2] \in S /\ Tail(taps) \in Seq(S) /\ Tail(taps) # <<>>
<1>1. Len(taps) \in Nat /\ Len(taps) # 0
  BY EmptySeq
<1> DEFINE n == Len(taps)
<1>2. n >= 2
  <2>1. n \in Nat /\ n # 0 /\ n # 1
    BY <1>1
  <2> HIDE DEF n
  <2>2. QED
    BY <2>1
<1>3. taps[2] \in S
  BY <1>2
<1>4. Tail(taps) \in Seq(S) /\ Len(Tail(taps)) = Len(taps) - 1
  BY <1>1, HeadTailProperties
<1>5. Len(Tail(taps)) >= 1
  BY <1>1, <1>2, <1>4
<1>6. Tail(taps) # <<>>
  BY <1>4, <1>5, EmptySeq
<1>7. QED
  BY <1>3, <1>4, <1>6

\* Applying a message gives a core.
LEMMA AppliedIsCore ==
    ASSUME NEW core \in Cores, NEW m \in Messages
    PROVE  Applied(core, m) \in Cores
  BY DEF Applied, Cores, Messages

-----------------------------------------------------------------------------
(* Types.  Numbering needs the listing to have a greatest name. *)

HasNewest(names) == names = {} \/ \E n \in names : \A k \in names : k <= n

NewestExists == HasNewest(NamesOf(ListSeqFiles(files)))

TypeInv == TypeOK /\ NewestExists

LEMMA InitTypes == Init => TypeInv
<1> SUFFICES ASSUME Init PROVE TypeInv
  OBVIOUS
<1>1. EmptyCore \in Cores
  BY DEF EmptyCore, Cores
<1>2. <<>> \in Seq(Flushers)
  OBVIOUS
<1>3. TypeOK
  <2>1. flush \in [Flushers -> FlushStates]
    BY <1>2 DEF Init, FlushStates, Progress
  <2>2. QED
    BY <1>1, <1>2, <2>1 DEF Init, TypeOK
<1>4. NewestExists
  BY DEF Init, NewestExists, HasNewest, NamesOf, ListSeqFiles
<1>5. QED
  BY <1>3, <1>4 DEF TypeInv

\* A new name keeps a greatest one in the listing, whether or not it is listed
\* and whether or not it overwrites another.
LEMMA CommitKeepsNewest ==
    ASSUME NewestExists, files \subseteq Files, MaxName \in Nat,
           NEW n \in Nat, NEW m \in Messages,
           files' = {x \in files : x.name # n} \cup {[name |-> n, msg |-> m]}
    PROVE  files' \subseteq Files /\ NewestExists'
<1> DEFINE old == NamesOf(ListSeqFiles(files))
           new == NamesOf(ListSeqFiles(files'))
<1>1. files' \subseteq Files
  BY DEF Files
<1>2. old \subseteq Nat
  BY DEF NamesOf, ListSeqFiles, Files
<1>3. new = old \cup {k \in {n} : k <= MaxName}
  <2>1. ASSUME NEW k \in new PROVE k \in old \cup {j \in {n} : j <= MaxName}
    <3>1. PICK x \in files' : x.name = k /\ k <= MaxName
      BY <2>1 DEF NamesOf, ListSeqFiles
    <3>2. QED
      BY <3>1 DEF NamesOf, ListSeqFiles
  <2>2. ASSUME NEW k \in old, k # n PROVE k \in new
    <3>1. PICK x \in files : x.name = k /\ k <= MaxName
      BY <2>2 DEF NamesOf, ListSeqFiles
    <3>2. QED
      BY <2>2, <3>1 DEF NamesOf, ListSeqFiles
  <2>3. ASSUME n <= MaxName PROVE n \in new
    <3>1. [name |-> n, msg |-> m] \in ListSeqFiles(files')
      BY <2>3 DEF ListSeqFiles
    <3>2. PICK x \in ListSeqFiles(files') : x.name = n
      <4>1. [name |-> n, msg |-> m].name = n
        OBVIOUS
      <4> QED
        BY <3>1, <4>1
    <3>3. n \in NamesOf(ListSeqFiles(files'))
      <4> HIDE DEF old, new
      <4> QED
        BY <3>2 DEF NamesOf
    <3>4. QED
      BY <3>3
  <2>4. ASSUME n \in old PROVE n <= MaxName
    BY <2>4 DEF NamesOf, ListSeqFiles
  <2>5. QED
    BY <2>1, <2>2, <2>3, <2>4
<1>4. HasNewest(old)
  BY DEF NewestExists
<1> HIDE DEF old, new
<1>5. HasNewest(new)
  <2>1. CASE n <= MaxName
    <3>1. new = old \cup {n}
      BY <1>3, <2>1
    <3>2. CASE old = {}
      BY <3>1, <3>2 DEF HasNewest
    <3>3. CASE old # {}
      <4>1. PICK j \in old : \A k \in old : k <= j
        BY <1>4, <3>3 DEF HasNewest
      <4>2. CASE n <= j
        BY <3>1, <4>1, <4>2 DEF HasNewest
      <4>3. CASE j < n
        BY <1>2, <3>1, <4>1, <4>3 DEF HasNewest
      <4>4. QED
        BY <1>2, <4>2, <4>3
    <3>4. QED
      BY <3>2, <3>3
  <2>2. CASE ~(n <= MaxName)
    BY <1>3, <1>4, <2>2
  <2>3. QED
    BY <2>1, <2>2
<1>6. QED
  BY <1>1, <1>5 DEF NewestExists, new

\* The number a flush starts from is past every listed file.
LEMMA ListingNumbered ==
    ASSUME TypeOK, NewestExists
    PROVE  LET names == NamesOf(ListSeqFiles(files)) IN
              NextSeq(names) \in Nat /\ \A n \in names : n < NextSeq(names)
<1>1. NamesOf(ListSeqFiles(files)) \in SUBSET Nat
  BY DEF TypeOK, NamesOf, ListSeqFiles, Files
<1>2. QED
  BY <1>1, NextSeqAbove DEF NewestExists, HasNewest

\* A flush's record is replaced by a record.
LEMMA BecomesTypes ==
    ASSUME flush \in [Flushers -> FlushStates], NEW f \in Flushers,
           NEW state \in FlushStates, Becomes(f, state)
    PROVE  flush' \in [Flushers -> FlushStates]
  BY DEF Becomes

LEMMA DecideTypes ==
    ASSUME TypeOK, NEW f \in Flushers, Decide(f)
    PROVE  verify' \in Seq(Flushers) /\ flush' \in [Flushers -> FlushStates]
<1>1. flush \in [Flushers -> FlushStates] /\ flush[f] \in FlushStates
  BY DEF TypeOK
<1>2. cap.len \in Nat /\ mainLen \in Nat /\ verify \in Seq(Flushers)
  BY DEF TypeOK, Cores
<1>3. \A s \in FlushStates, n \in Nat, q \in Seq(Flushers) :
         /\ [s EXCEPT !.pc = "idle"] \in FlushStates
         /\ [s EXCEPT !.pc = "replicate", !.orig = q, !.end = n] \in FlushStates
  BY DEF FlushStates, Progress
<1>4. /\ [flush[f] EXCEPT !.pc = "idle"] \in FlushStates
      /\ [flush[f] EXCEPT !.pc = "replicate", !.orig = verify, !.end = mainLen]
           \in FlushStates
  BY <1>1, <1>2, <1>3
<1>5. QED
  BY <1>1, <1>2, <1>4, BecomesTypes DEF Decide

\* A tap's counter only moves along the naturals.
LEMMA NumberTypes ==
    ASSUME flush \in [Flushers -> FlushStates], NEW f \in Flushers
    PROVE  /\ flush[f].seq \in Nat
           /\ Number(f) => flush' \in [Flushers -> FlushStates]
<1>1. flush[f] \in FlushStates
  OBVIOUS
<1>2. flush[f].seq \in Nat
  BY <1>1 DEF FlushStates
<1>3. \A s \in FlushStates, n \in Nat : [s EXCEPT !.seq = n] \in FlushStates
  BY DEF FlushStates
<1>4. flush[f].seq + 1 \in Nat
  BY <1>2
<1>5. [flush[f] EXCEPT !.seq = flush[f].seq + 1] \in FlushStates
  BY <1>1, <1>3, <1>4
<1>6. QED
  BY <1>2, <1>5, BecomesTypes DEF Number

\* The files of a call that is over are the ones it had on the way.
LEMMA ReleasedIs ==
    ASSUME NEW f, \A w \in writes : w \in TapWrites
    PROVE  /\ \A w \in Released(f) : w \in TapWrites
           /\ \A v \in Released(f) : \E w \in writes :
                 /\ v.msg = w.msg /\ v.name = w.name /\ v.taps = w.taps /\ v.via = w.via
                 /\ v.late = (w.late \/ w.via = f)
<1>1. \A w \in TapWrites :
         /\ [w EXCEPT !.late = TRUE] \in TapWrites
         /\ [w EXCEPT !.late = TRUE].msg = w.msg /\ [w EXCEPT !.late = TRUE].name = w.name
         /\ [w EXCEPT !.late = TRUE].taps = w.taps /\ [w EXCEPT !.late = TRUE].via = w.via
         /\ [w EXCEPT !.late = TRUE].late = TRUE
         /\ w.late \in BOOLEAN
  BY DEF TapWrites
<1>2. ASSUME NEW v \in Released(f)
      PROVE  \E w \in writes :
                 /\ v \in TapWrites
                 /\ v.msg = w.msg /\ v.name = w.name /\ v.taps = w.taps /\ v.via = w.via
                 /\ v.late = (w.late \/ w.via = f)
  <2>1. PICK w \in writes : v = IF w.via = f THEN [w EXCEPT !.late = TRUE] ELSE w
    BY DEF Released
  <2>2. CASE w.via = f
    BY <1>1, <2>1, <2>2
  <2>3. CASE w.via # f
    BY <1>1, <2>1, <2>3
  <2> QED
    BY <2>2, <2>3
<1> QED
  BY <1>2

LEMMA NextTypes == TypeInv /\ [Next]_vars => TypeInv'
<1> SUFFICES ASSUME TypeInv, [Next]_vars PROVE TypeInv'
  OBVIOUS
<1>0. flush \in [Flushers -> FlushStates] /\ (\A f \in Flushers : flush[f] \in FlushStates)
  BY DEF TypeInv, TypeOK
<1>1. CASE AppendBlock
  BY <1>1 DEF AppendBlock, TypeInv, TypeOK, NewestExists, Cores
<1>2. CASE Crash
  <2>1. flush' \in [Flushers -> FlushStates]
    <3>1. \A s \in FlushStates : [s EXCEPT !.pc = "idle", !.todo = {}] \in FlushStates
      BY DEF FlushStates, Progress
    <3>2. QED
      BY <1>0, <1>2, <3>1 DEF Crash
  <2>2. <<>> \in Seq(Flushers)
    OBVIOUS
  <2>3. verify' \in Seq(Flushers) /\ writes' = {} /\ faults' \in Nat
    <3>1. faults \in Nat
      BY DEF TypeInv, TypeOK
    <3>2. verify' = <<>> /\ writes' = {} /\ faults' = faults + 1
      BY <1>2 DEF Crash
    <3>3. QED
      BY <2>2, <3>1, <3>2
  <2>4. UNCHANGED <<mainLen, cap, files, reader, raced>>
    BY <1>2 DEF Crash
  <2>5. lost' \in BOOLEAN
    <3>1. lost \in BOOLEAN
      BY DEF TypeInv, TypeOK
    <3>2. QED
      BY <1>2, <3>1, Zenon DEF Crash
  <2>6. QED
    BY <2>1, <2>3, <2>4, <2>5 DEF TypeInv, TypeOK, NewestExists
<1>3. CASE LoseCapture
  BY <1>3 DEF LoseCapture, TypeInv, TypeOK, NewestExists, EmptyCore, Cores
<1>4. CASE HydrateFile
  <2>1. PICK x \in files : reader' = ReplayFile(reader, x)
    BY <1>4 DEF HydrateFile, ListSeqFiles
  <2>2. reader' \in Cores
    BY <2>1, AppliedIsCore DEF TypeInv, TypeOK, ReplayFile, Files
  <2>3. QED
    BY <1>4, <2>2 DEF HydrateFile, TypeInv, TypeOK, NewestExists
<1>5. ASSUME NEW f \in Flushers, List(f) PROVE TypeInv'
  <2>1. flush' \in [Flushers -> FlushStates]
    <3> DEFINE names == NamesOf(ListSeqFiles(files))
    <3>1. NextSeq(names) \in Nat
      BY ListingNumbered DEF TypeInv
    <3>2. \A s \in FlushStates, n \in Nat, b \in BOOLEAN, pc \in Progress :
             [s EXCEPT !.seq = n, !.existing = b, !.end = 0, !.pc = pc] \in FlushStates
      BY DEF FlushStates
    <3> DEFINE pc == IF mainLen = 0 THEN "idle" ELSE "listed"
    <3>3. pc \in Progress
      BY DEF Progress
    <3>4. [flush[f] EXCEPT !.seq = NextSeq(names), !.existing = (names # {}),
             !.end = 0, !.pc = pc] \in FlushStates
      BY <1>0, <3>1, <3>2, <3>3
    <3>5. QED
      BY <1>0, <1>5, <3>4, BecomesTypes DEF List
  <2>2. raced' \in BOOLEAN
    <3>1. raced \in BOOLEAN
      BY DEF TypeInv, TypeOK
    <3> QED
      BY <1>5, <3>1, Zenon DEF List
  <2>3. QED
    BY <1>5, <2>1, <2>2 DEF List, TypeInv, TypeOK, NewestExists
<1>6. ASSUME NEW f \in Flushers, OpenCapture(f) PROVE TypeInv'
  <2>1. verify' \in Seq(Flushers) /\ flush' \in [Flushers -> FlushStates]
    <3>1. CASE cap.len = 0 /\ flush[f].existing
      <4>1. ListSeqFiles(files) \subseteq Files
        BY DEF ListSeqFiles, TypeInv, TypeOK
      <4>2. [flush[f] EXCEPT !.pc = "replay", !.todo = ListSeqFiles(files)] \in FlushStates
        BY <1>0, <4>1 DEF FlushStates, Progress
      <4>3. QED
        BY <1>0, <1>6, <3>1, <4>2, BecomesTypes DEF OpenCapture, TypeInv, TypeOK
    <3>2. CASE ~(cap.len = 0 /\ flush[f].existing)
      BY <1>6, <3>2, DecideTypes DEF OpenCapture, TypeInv
    <3>3. QED
      BY <3>1, <3>2
  <2>2. QED
    BY <1>6, <2>1 DEF OpenCapture, TypeInv, TypeOK, NewestExists
<1>7. ASSUME NEW f \in Flushers, Rebuild(f) PROVE TypeInv'
  <2>1. CASE flush[f].todo = {}
    <3>1. Decide(f) /\ UNCHANGED cap
      BY <1>7, <2>1 DEF Rebuild
    <3>2. QED
      BY <1>7, <3>1, DecideTypes DEF Rebuild, TypeInv, TypeOK, NewestExists
  <2>2. CASE flush[f].todo # {}
    <3>1. cap' = ReplayFile(cap, Oldest(flush[f].todo)) /\ UNCHANGED verify
          /\ Becomes(f, [flush[f] EXCEPT !.todo = flush[f].todo \ {Oldest(flush[f].todo)}])
      BY <1>7, <2>2 DEF Rebuild
    <3>2. Oldest(flush[f].todo) \in Files
      BY <2>2, OldestIsFirst DEF TypeInv, TypeOK, FlushStates
    <3>3. cap' \in Cores
      BY <3>1, <3>2, AppliedIsCore DEF ReplayFile, Files, TypeInv, TypeOK
    <3>4. flush' \in [Flushers -> FlushStates]
      <4>1. flush[f].todo \ {Oldest(flush[f].todo)} \subseteq Files
        BY <1>0 DEF FlushStates
      <4>2. [flush[f] EXCEPT !.todo = flush[f].todo \ {Oldest(flush[f].todo)}]
              \in FlushStates
        BY <1>0, <4>1 DEF FlushStates
      <4>3. QED
        BY <1>0, <3>1, <4>2, BecomesTypes
    <3>5. QED
      BY <1>7, <3>1, <3>3, <3>4 DEF Rebuild, TypeInv, TypeOK, NewestExists
  <2>3. QED
    BY <2>1, <2>2
<1>8. ASSUME NEW f \in Flushers, Accept(f) PROVE TypeInv'
  <2>1. PICK m \in Sendable(cap, mainLen) :
          /\ cap' = Applied(cap, m)
          /\ IF verify = <<>>
             THEN UNCHANGED <<writes, flush>>
             ELSE /\ writes' = writes \cup {[via |-> f, late |-> FALSE, taps |-> verify,
                                             msg |-> m, name |-> flush[Head(verify)].seq]}
                  /\ Number(Head(verify))
    BY <1>8 DEF Accept
  <2>2. m \in Messages
    BY SendableIsMessage DEF TypeInv, TypeOK
  <2>3. cap' \in Cores
    BY <2>1, <2>2, AppliedIsCore DEF TypeInv, TypeOK
  <2>4. flush' \in [Flushers -> FlushStates] /\ \A w \in writes' : w \in TapWrites
    <3>1. CASE verify = <<>>
      BY <2>1, <3>1 DEF TypeInv, TypeOK
    <3>2. CASE verify # <<>>
      <4>1. Head(verify) \in Flushers
        BY <3>2 DEF TypeInv, TypeOK
      <4>2. /\ flush[Head(verify)].seq \in Nat
            /\ Number(Head(verify)) => flush' \in [Flushers -> FlushStates]
        BY <4>1, NumberTypes DEF TypeInv, TypeOK
      <4> DEFINE w == [via |-> f, late |-> FALSE, taps |-> verify, msg |-> m,
                       name |-> flush[Head(verify)].seq]
      <4>3. w \in TapWrites
        BY <2>2, <3>2, <4>2 DEF TapWrites, TypeInv, TypeOK
      <4>4. writes' = writes \cup {w}
        BY <2>1, <3>2
      <4> HIDE DEF w
      <4>5. QED
        BY <2>1, <3>2, <4>2, <4>3, <4>4 DEF TypeInv, TypeOK
    <3>3. QED
      BY <3>1, <3>2
  <2>5. QED
    BY <1>8, <2>3, <2>4 DEF Accept, TypeInv, TypeOK, NewestExists
<1>9. ASSUME NEW f \in Flushers, Over(f) PROVE TypeInv'
  <2>1. verify' \in Seq(Flushers)
    <3>1. flush[f].orig \in Seq(Flushers) /\ <<>> \in Seq(Flushers)
      BY <1>0 DEF FlushStates
    <3> QED
      BY <1>9, <3>1 DEF Over, Restored
  <2>2. flush' \in [Flushers -> FlushStates]
    <3>1. [flush[f] EXCEPT !.pc = "idle"] \in FlushStates
      BY <1>0 DEF FlushStates, Progress
    <3>2. QED
      BY <1>0, <1>9, <3>1, BecomesTypes DEF Over
  <2>3. \A w \in writes' : w \in TapWrites
    BY <1>9, ReleasedIs DEF Over, TypeInv, TypeOK
  <2>4. QED
    BY <1>9, <2>1, <2>2, <2>3 DEF Over, TypeInv, TypeOK, NewestExists
<1>11. ASSUME NEW w \in writes, WriteFails(w) PROVE TypeInv'
  <2>1. flush' \in [Flushers -> FlushStates]
    <3>1. w.via \in Flushers
      BY DEF TypeInv, TypeOK, TapWrites
    <3>2. \A s \in FlushStates : [s EXCEPT !.pc = "failed"] \in FlushStates
      BY DEF FlushStates, Progress
    <3>3. QED
      BY <1>0, <1>11, <3>1, <3>2, BecomesTypes DEF WriteFails
  <2>2. QED
    BY <1>11, <2>1 DEF WriteFails, TypeInv, TypeOK, NewestExists
<1>12. ASSUME NEW w \in writes, Commit(w) PROVE TypeInv'
  <2>1. w \in TapWrites
    BY DEF TypeInv, TypeOK
  <2>2. files' \subseteq Files /\ NewestExists'
    <3>1. w.name \in Nat /\ w.msg \in Messages
      BY <2>1 DEF TapWrites
    <3>2. QED
      BY <1>12, <3>1, ConstantsOK, CommitKeepsNewest DEF Commit, TypeInv, TypeOK
  <2>3. flush' \in [Flushers -> FlushStates] /\ \A v \in writes' : v \in TapWrites
    <3>1. CASE Len(w.taps) = 1
      BY <1>12, <3>1 DEF Commit, TypeInv, TypeOK
    <3>2. CASE Len(w.taps) # 1
      <4>1. w.taps[2] \in Flushers /\ Tail(w.taps) \in Seq(Flushers) \ {<<>>}
        <5>1. w.taps \in Seq(Flushers) /\ w.taps # <<>>
          BY <2>1 DEF TapWrites
        <5>2. QED
          BY <3>2, <5>1, OuterTap
      <4>2. /\ flush[w.taps[2]].seq \in Nat
            /\ Number(w.taps[2]) => flush' \in [Flushers -> FlushStates]
        BY <4>1, NumberTypes DEF TypeInv, TypeOK
      <4>3. QED
        <5> DEFINE v == [w EXCEPT !.taps = Tail(w.taps), !.name = flush[w.taps[2]].seq]
        <5>1. v \in TapWrites
          BY <2>1, <4>1, <4>2 DEF TapWrites
        <5>2. writes' = (writes \ {w}) \cup {v} /\ Number(w.taps[2])
          BY <1>12, <3>2 DEF Commit
        <5> HIDE DEF v
        <5>3. QED
          BY <4>2, <5>1, <5>2 DEF TypeInv, TypeOK
    <3>3. QED
      BY <3>1, <3>2
  <2>4. QED
    BY <1>12, <2>2, <2>3 DEF Commit, TypeInv, TypeOK
<1>13. CASE UNCHANGED vars
  BY <1>13 DEF vars, TypeInv, TypeOK, NewestExists
<1>14. QED
  BY <1>1, <1>2, <1>3, <1>4, <1>5, <1>6, <1>7, <1>8, <1>9, <1>11, <1>12,
     <1>13 DEF Next, FlushStep, FlushDone, FlushThrows

\* The variables keep their types, whatever the constants.
THEOREM TypeCorrect == Spec => []TypeOK
<1>1. TypeInv => TypeOK
  BY DEF TypeInv
<1>2. QED
  BY InitTypes, NextTypes, <1>1, PTL DEF Spec

-----------------------------------------------------------------------------
(* A copy is never wrong.  Whatever number of flushes overlap, die or fail, *)
(* a message in the folder or on its way to it takes a reader to a length   *)
(* the log had, with blocks below it; so every core that applies only       *)
(* messages that verify stays a core the log went through.                  *)

Genuine(m) == /\ m.from <= m.to /\ m.to <= mainLen
              /\ \A i \in m.blocks : i < m.to

Within(core) == /\ core.len <= mainLen
                /\ \A i \in core.blocks : i < core.len

WithinLog ==
    /\ Within(cap) /\ Within(reader)
    /\ \A x \in files : Genuine(x.msg)
    /\ \A w \in writes : Genuine(w.msg)
    /\ \A f \in Flushers : \A x \in flush[f].todo : Genuine(x.msg)

\* A file keeps a core within the log, whether it verifies or is skipped.
LEMMA ReplayWithin ==
    ASSUME NEW core \in Cores, NEW x \in Files, mainLen \in Nat,
           Within(core), Genuine(x.msg)
    PROVE  Within(ReplayFile(core, x))
<1> DEFINE m == x.msg
<1>1. m \in Messages
  BY DEF Files
<1>2. CASE Verifies(core, m) /\ m.from < m.to
  <2>1. Applied(core, m) = [len |-> m.to, blocks |-> core.blocks \cup m.blocks]
        /\ core.len = m.from
    BY <1>2 DEF Applied, Verifies
  <2>2. \A i \in core.blocks \cup m.blocks : i < m.to
    <3>1. \A i \in core.blocks : i \in Nat
      BY DEF Cores
    <3>2. m.from \in Nat /\ m.to \in Nat
      BY <1>1 DEF Messages
    <3>3. \A i \in core.blocks : i < m.to
      BY <1>2, <2>1, <3>1, <3>2 DEF Within
    <3>4. QED
      BY <3>3 DEF Genuine
  <2>3. QED
    BY <1>2, <2>1, <2>2 DEF Within, Genuine, ReplayFile
<1>3. CASE Verifies(core, m) /\ ~(m.from < m.to)
  <2>1. Applied(core, m) = [len |-> core.len, blocks |-> core.blocks \cup m.blocks]
        /\ m.to <= core.len
    BY <1>3 DEF Applied, Verifies
  <2>2. \A i \in core.blocks \cup m.blocks : i < core.len
    <3>1. core.len \in Nat /\ m.to \in Nat /\ \A i \in m.blocks : i \in Nat
      BY <1>1 DEF Cores, Messages
    <3>2. \A i \in m.blocks : i < core.len
      BY <2>1, <3>1 DEF Genuine
    <3>3. QED
      BY <3>2 DEF Within
  <2>3. QED
    BY <1>3, <2>1, <2>2 DEF Within, ReplayFile
<1>4. CASE ~Verifies(core, m)
  BY <1>4 DEF ReplayFile
<1>5. QED
  BY <1>2, <1>3, <1>4

\* What the main log sends is genuine, and the capture that applies it stays
\* within the log.
LEMMA AcceptWithin ==
    ASSUME NEW core \in Cores, mainLen \in Nat, Within(core),
           NEW m \in Sendable(core, mainLen)
    PROVE  Genuine(m) /\ Within(Applied(core, m))
<1>1. core.len \in Nat /\ \A i \in core.blocks : i \in Nat
  BY DEF Cores
<1>2. /\ m.from = core.len /\ m.to \in {core.len, mainLen}
      /\ \A i \in m.blocks : i < m.to
  BY SendableIsMessage
<1>3. Genuine(m)
  BY <1>1, <1>2 DEF Genuine, Within
<1>4. Applied(core, m) = [len |-> m.to, blocks |-> core.blocks \cup m.blocks]
  BY <1>1, <1>2 DEF Applied, Within
<1>5. \A i \in core.blocks : i < m.to
  BY <1>1, <1>2 DEF Within
<1>6. Within(Applied(core, m))
  BY <1>2, <1>3, <1>4, <1>5 DEF Within, Genuine
<1>7. QED
  BY <1>3, <1>6

LEMMA InitWithin == Init => WithinLog
  BY DEF Init, WithinLog, Within, EmptyCore

\* The todo list of every flush but one is left alone.
LEMMA BecomesWithin ==
    ASSUME WithinLog, flush \in [Flushers -> FlushStates], NEW f \in Flushers,
           NEW state \in FlushStates, Becomes(f, state),
           UNCHANGED mainLen, \A x \in state.todo : Genuine(x.msg)
    PROVE  \A g \in Flushers : \A x \in flush'[g].todo : Genuine(x.msg)'
<1>1. ASSUME NEW g \in Flushers, NEW x \in flush'[g].todo PROVE Genuine(x.msg)
  <2>1. CASE g = f
    BY <1>1, <2>1 DEF Becomes
  <2>2. CASE g # f
    <3>1. flush'[g] = flush[g]
      BY <2>2 DEF Becomes
    <3>2. QED
      BY <1>1, <3>1 DEF WithinLog
  <2>3. QED
    BY <2>1, <2>2
<1>2. QED
  BY <1>1 DEF Genuine

LEMMA NextWithin == TypeInv /\ WithinLog /\ [Next]_vars => WithinLog'
<1> SUFFICES ASSUME TypeInv, WithinLog, [Next]_vars PROVE WithinLog'
  OBVIOUS
<1>0. /\ mainLen \in Nat /\ cap \in Cores /\ reader \in Cores
      /\ flush \in [Flushers -> FlushStates]
      /\ \A f \in Flushers : flush[f] \in FlushStates
  BY DEF TypeInv, TypeOK
<1>a. \A s \in FlushStates, n \in Nat :
         /\ [s EXCEPT !.seq = n] \in FlushStates
         /\ [s EXCEPT !.seq = n].todo = s.todo
         /\ [s EXCEPT !.pc = "idle"] \in FlushStates
         /\ [s EXCEPT !.pc = "idle"].todo = s.todo
  BY DEF FlushStates, Progress
<1>b. \A f \in Flushers : \A x \in flush[f].todo : Genuine(x.msg)
  BY DEF WithinLog
<1>c. ASSUME NEW f \in Flushers, Number(f), UNCHANGED mainLen
      PROVE  \A g \in Flushers : \A x \in flush'[g].todo : Genuine(x.msg)'
  <2>1. flush[f].seq \in Nat /\ flush[f].seq + 1 \in Nat
    BY <1>0, NumberTypes
  <2> DEFINE state == [flush[f] EXCEPT !.seq = flush[f].seq + 1]
  <2>2. state \in FlushStates /\ state.todo = flush[f].todo
    BY <1>0, <1>a, <2>1
  <2>3. Becomes(f, state)
    BY <1>c DEF Number
  <2> HIDE DEF state
  <2>4. QED
    BY <1>0, <1>b, <1>c, <2>2, <2>3, BecomesWithin
<1>d. ASSUME NEW f \in Flushers, Decide(f), UNCHANGED mainLen
      PROVE  \A g \in Flushers : \A x \in flush'[g].todo : Genuine(x.msg)'
  <2> DEFINE returned == [flush[f] EXCEPT !.pc = "idle"]
             started == [flush[f] EXCEPT !.pc = "replicate", !.orig = verify,
                                         !.end = mainLen]
  <2>1. returned \in FlushStates /\ returned.todo = flush[f].todo
    BY <1>0, <1>a DEF Cores
  <2>2. started \in FlushStates /\ started.todo = flush[f].todo
    BY <1>0 DEF FlushStates, Progress, TypeInv, TypeOK
  <2>3. Becomes(f, returned) \/ Becomes(f, started)
    BY <1>d DEF Decide
  <2> HIDE DEF returned, started
  <2>4. QED
    BY <1>0, <1>b, <1>d, <2>1, <2>2, <2>3, BecomesWithin
<1>1. CASE AppendBlock
  BY <1>0, <1>1 DEF AppendBlock, WithinLog, Within, Genuine, TypeInv, TypeOK, Cores,
     Files, Messages, TapWrites, FlushStates
<1>2. CASE Crash
  <2>1. \A f \in Flushers : flush'[f].todo = {}
    BY <1>0, <1>2 DEF Crash, FlushStates
  <2>2. QED
    BY <1>2, <2>1 DEF Crash, WithinLog, Within, Genuine
<1>3. CASE LoseCapture
  BY <1>0, <1>3 DEF LoseCapture, WithinLog, Within, Genuine, EmptyCore
<1>4. CASE HydrateFile
  <2>1. PICK x \in files : reader' = ReplayFile(reader, x)
    BY <1>4 DEF HydrateFile, ListSeqFiles
  <2>2. Within(reader')
    BY <1>0, <2>1, ReplayWithin DEF WithinLog, TypeInv, TypeOK
  <2>3. QED
    BY <1>4, <2>2 DEF HydrateFile, WithinLog, Within, Genuine
<1>5. ASSUME NEW f \in Flushers, List(f) PROVE WithinLog'
  <2>1. \A g \in Flushers : flush'[g].todo = flush[g].todo
    BY <1>0, <1>5 DEF List, Becomes, FlushStates
  <2>2. QED
    BY <1>5, <2>1 DEF List, WithinLog, Within, Genuine
<1>6. ASSUME NEW f \in Flushers, OpenCapture(f) PROVE WithinLog'
  <2>1. \A g \in Flushers : \A x \in flush'[g].todo : Genuine(x.msg)'
    <3>1. CASE cap.len = 0 /\ flush[f].existing
      <4> DEFINE state == [flush[f] EXCEPT !.pc = "replay", !.todo = ListSeqFiles(files)]
      <4>1. ListSeqFiles(files) \subseteq Files
        BY DEF ListSeqFiles, TypeInv, TypeOK
      <4>2. state \in FlushStates /\ state.todo = ListSeqFiles(files)
        BY <1>0, <4>1 DEF FlushStates, Progress
      <4>3. Becomes(f, state) /\ UNCHANGED mainLen
        BY <1>6, <3>1 DEF OpenCapture
      <4>4. \A x \in ListSeqFiles(files) : Genuine(x.msg)
        BY DEF WithinLog, ListSeqFiles
      <4> HIDE DEF state
      <4>5. QED
        BY <1>0, <4>2, <4>3, <4>4, BecomesWithin
    <3>2. CASE ~(cap.len = 0 /\ flush[f].existing)
      BY <1>6, <1>d, <3>2 DEF OpenCapture
    <3>3. QED
      BY <3>1, <3>2
  <2>2. QED
    BY <1>6, <2>1 DEF OpenCapture, WithinLog, Within, Genuine
<1>7. ASSUME NEW f \in Flushers, Rebuild(f) PROVE WithinLog'
  <2>1. CASE flush[f].todo = {}
    <3>1. Decide(f) /\ UNCHANGED <<mainLen, cap, files, writes, reader>>
      BY <1>7, <2>1 DEF Rebuild
    <3>2. QED
      BY <1>d, <3>1 DEF WithinLog, Within, Genuine
  <2>2. CASE flush[f].todo # {}
    <3> DEFINE oldest == Oldest(flush[f].todo)
               state == [flush[f] EXCEPT !.todo = flush[f].todo \ {oldest}]
    <3>1. /\ cap' = ReplayFile(cap, oldest) /\ Becomes(f, state)
          /\ UNCHANGED <<mainLen, files, writes, reader>>
      BY <1>7, <2>2 DEF Rebuild
    <3>2. flush[f].todo \subseteq Files
      BY <1>0 DEF FlushStates
    <3>3. oldest \in flush[f].todo
      BY <2>2, <3>2, OldestIsFirst
    <3>4. state \in FlushStates /\ state.todo = flush[f].todo \ {oldest}
      BY <1>0, <3>2 DEF FlushStates
    <3> HIDE DEF oldest, state
    <3>5. Within(cap')
      BY <1>0, <1>b, <3>1, <3>2, <3>3, ReplayWithin DEF WithinLog
    <3>6. \A g \in Flushers : \A x \in flush'[g].todo : Genuine(x.msg)'
      BY <1>0, <1>b, <3>1, <3>4, BecomesWithin
    <3>7. QED
      BY <3>1, <3>5, <3>6 DEF WithinLog, Within, Genuine
  <2>3. QED
    BY <2>1, <2>2
<1>8. ASSUME NEW f \in Flushers, Accept(f) PROVE WithinLog'
  <2>1. PICK m \in Sendable(cap, mainLen) :
          /\ cap' = Applied(cap, m)
          /\ IF verify = <<>>
             THEN UNCHANGED <<writes, flush>>
             ELSE /\ writes' = writes \cup {[via |-> f, late |-> FALSE, taps |-> verify,
                                             msg |-> m, name |-> flush[Head(verify)].seq]}
                  /\ Number(Head(verify))
    BY <1>8 DEF Accept
  <2>2. Genuine(m) /\ Within(cap')
    BY <1>0, <2>1, AcceptWithin DEF WithinLog
  <2>3. UNCHANGED <<mainLen, files, reader>>
    BY <1>8 DEF Accept
  <2>4. /\ \A w \in writes' : Genuine(w.msg)
        /\ \A g \in Flushers : \A x \in flush'[g].todo : Genuine(x.msg)'
    <3>1. CASE verify = <<>>
      BY <2>1, <2>3, <3>1 DEF WithinLog, Genuine
    <3>2. CASE verify # <<>>
      <4>1. Head(verify) \in Flushers
        BY <3>2 DEF TypeInv, TypeOK
      <4>2. \A w \in writes' : Genuine(w.msg)
        BY <2>1, <2>2, <3>2 DEF WithinLog
      <4>3. QED
        BY <1>c, <2>1, <2>3, <3>2, <4>1, <4>2
    <3>3. QED
      BY <3>1, <3>2
  <2>5. QED
    BY <2>2, <2>3, <2>4 DEF WithinLog, Within, Genuine
<1>9. ASSUME NEW f \in Flushers, Over(f) PROVE WithinLog'
  <2>1. \A g \in Flushers : flush'[g].todo = flush[g].todo
    BY <1>0, <1>9 DEF Over, Becomes, FlushStates
  <2>2. \A w \in writes' : Genuine(w.msg)
    <3>1. \A w \in writes : Genuine(w.msg) /\ w \in TapWrites
      BY DEF WithinLog, TypeInv, TypeOK
    <3> QED
      BY <1>9, <3>1, ReleasedIs DEF Over
  <2>3. QED
    BY <1>9, <2>1, <2>2 DEF Over, WithinLog, Within, Genuine
<1>11. ASSUME NEW w \in writes, WriteFails(w) PROVE WithinLog'
  <2>1. \A g \in Flushers : flush'[g].todo = flush[g].todo
    <3>1. CASE UNCHANGED flush
      BY <3>1
    <3>2. CASE Becomes(w.via, [flush[w.via] EXCEPT !.pc = "failed"])
      BY <1>0, <3>2 DEF Becomes, FlushStates
    <3> QED
      BY <1>11, <3>1, <3>2 DEF WriteFails
  <2>2. QED
    BY <1>11, <2>1 DEF WriteFails, WithinLog, Within, Genuine
<1>12. ASSUME NEW w \in writes, Commit(w) PROVE WithinLog'
  <2>1. Genuine(w.msg) /\ w \in TapWrites
    BY DEF WithinLog, TypeInv, TypeOK
  <2>2. UNCHANGED <<mainLen, cap, reader>> /\ \A x \in files' : Genuine(x.msg)
    BY <1>12, <2>1 DEF Commit, WithinLog
  <2>3. /\ \A v \in writes' : Genuine(v.msg)
        /\ \A g \in Flushers : \A x \in flush'[g].todo : Genuine(x.msg)'
    <3>1. CASE Len(w.taps) = 1
      BY <1>12, <3>1 DEF Commit, WithinLog, Genuine
    <3>2. CASE Len(w.taps) # 1
      <4> DEFINE v == [w EXCEPT !.taps = Tail(w.taps), !.name = flush[w.taps[2]].seq]
      <4>1. w.taps \in Seq(Flushers) /\ w.taps # <<>>
        BY <2>1 DEF TapWrites
      <4>2. w.taps[2] \in Flushers
        BY <3>2, <4>1, OuterTap
      <4>3. v.msg = w.msg
        BY <2>1 DEF TapWrites
      <4>4. writes' = (writes \ {w}) \cup {v} /\ Number(w.taps[2])
        BY <1>12, <3>2 DEF Commit
      <4> HIDE DEF v
      <4>5. QED
        BY <1>c, <2>1, <2>2, <4>2, <4>3, <4>4 DEF WithinLog
    <3>3. QED
      BY <3>1, <3>2
  <2>4. QED
    BY <2>2, <2>3 DEF WithinLog, Within, Genuine
<1>13. CASE UNCHANGED vars
  BY <1>13 DEF vars, WithinLog, Within, Genuine
<1>14. QED
  BY <1>1, <1>2, <1>3, <1>4, <1>5, <1>6, <1>7, <1>8, <1>9, <1>11, <1>12,
     <1>13 DEF Next, FlushStep, FlushDone, FlushThrows

\* "Valid but possibly stale": whatever a device has replayed, its core is one
\* the log went through, for any number of overlapping flushes and of faults.
THEOREM CopiesAreValid == Spec => []CopyValid
<1>1. Init => TypeInv /\ WithinLog
  BY InitTypes, InitWithin
<1>2. TypeInv /\ WithinLog => CopyValid
  <2> SUFFICES ASSUME TypeInv, WithinLog PROVE CopyValid
    OBVIOUS
  <2>1. reader.len \in Nat /\ \A i \in reader.blocks : i \in Nat
    BY DEF TypeInv, TypeOK, Cores
  <2>2. QED
    BY <2>1 DEF WithinLog, Within, CopyValid
<1>3. QED
  BY NextTypes, NextWithin, <1>1, <1>2, PTL DEF Spec

-----------------------------------------------------------------------------
(* Lemmas about the replay. *)

\* What holds of the first number, and of the next of each, holds of all.
LEMMA AllNumbers ==
    ASSUME NEW S \in SUBSET Nat, 0 \in S, \A n \in S : n + 1 \in S
    PROVE  \A n \in Nat : n \in S
<1> SUFFICES ASSUME NEW k \in Nat, k \notin S
             PROVE  FALSE
  OBVIOUS
<1>1. Nat \ S \in SUBSET Nat /\ Nat \ S # {}
  OBVIOUS
<1>2. PICK n \in Nat \ S : \A j \in Nat \ S : n <= j
  BY <1>1, LeastExists
<1>3. n # 0 /\ n - 1 \in Nat
  BY <1>2
<1>4. n - 1 \in S
  BY <1>2, <1>3
<1> QED
  BY <1>2, <1>4

LEMMA NumberReplayed ==
    ASSUME NEW fs \in SUBSET Files, NEW n \in Nat, NEW core \in Cores
    PROVE  /\ ReplayNumber(fs, n)[core] \in Cores
           /\ (\A x \in fs : x.name # n) => ReplayNumber(fs, n)[core] = core
           /\ \A y \in fs : y.name = n /\ (\A x \in fs : x.name = n => x = y) =>
                ReplayNumber(fs, n)[core] = ReplayFile(core, y)
<1> DEFINE numbered == {x \in fs : x.name = n}
<1>1. ReplayNumber(fs, n)[core] =
        IF numbered = {} THEN core ELSE ReplayFile(core, CHOOSE x \in numbered : TRUE)
  BY DEF ReplayNumber
<1>2. numbered # {} => (CHOOSE x \in numbered : TRUE) \in numbered
  OBVIOUS
<1>3. \A x \in Files : ReplayFile(core, x) \in Cores
  BY AppliedIsCore DEF ReplayFile, Files
<1>4. ReplayNumber(fs, n)[core] \in Cores
  BY <1>1, <1>2, <1>3
<1>5. ASSUME NEW y \in fs, y.name = n, \A x \in fs : x.name = n => x = y
      PROVE  ReplayNumber(fs, n)[core] = ReplayFile(core, y)
  <2>1. numbered = {y}
    BY <1>5
  <2>2. (CHOOSE x \in {y} : TRUE) = y
    OBVIOUS
  <2> QED
    BY <1>1, <2>1, <2>2
<1> QED
  BY <1>1, <1>4, <1>5

\* The cores that a replay of the files below n goes through.
IsRun(g, start, fs, n) ==
    /\ g \in [0..n -> Cores]
    /\ g[0] = start
    /\ \A i \in 1..n : g[i] = ReplayNumber(fs, i - 1)[g[i - 1]]

LEMMA RunExists ==
    ASSUME NEW start \in Cores, NEW fs \in SUBSET Files
    PROVE  \A n \in Nat : \E g : IsRun(g, start, fs, n)
<1> DEFINE S == {n \in Nat : \E g : IsRun(g, start, fs, n)}
<1>1. 0 \in S
  <2>1. IsRun([i \in 0..0 |-> start], start, fs, 0)
    BY DEF IsRun
  <2> QED
    BY <2>1
<1>2. ASSUME NEW n \in S
      PROVE  n + 1 \in S
  <2>1. PICK g : IsRun(g, start, fs, n)
    BY <1>2
  <2> DEFINE last == ReplayNumber(fs, n)[g[n]]
             h == [i \in 0..(n + 1) |-> IF i = n + 1 THEN last ELSE g[i]]
  <2>2. last \in Cores
    <3>1. g[n] \in Cores /\ n \in Nat
      BY <2>1 DEF IsRun
    <3> QED
      BY <3>1, NumberReplayed
  <2> HIDE DEF last
  <2>3. h \in [0..(n + 1) -> Cores] /\ h[0] = start
    BY <2>1, <2>2 DEF IsRun
  <2>4. ASSUME NEW i \in 1..(n + 1)
        PROVE  h[i] = ReplayNumber(fs, i - 1)[h[i - 1]]
    <3>1. CASE i = n + 1
      BY <3>1 DEF last
    <3>2. CASE i # n + 1
      <4>1. i \in 1..n /\ i - 1 \in 0..n /\ h[i] = g[i] /\ h[i - 1] = g[i - 1]
        BY <3>2
      <4> QED
        BY <2>1, <4>1 DEF IsRun
    <3> QED
      BY <3>1, <3>2
  <2>5. IsRun(h, start, fs, n + 1)
    BY <2>3, <2>4 DEF IsRun
  <2> QED
    BY <2>5
<1>3. S \in SUBSET Nat
  OBVIOUS
<1> HIDE DEF S
<1>4. \A n \in Nat : n \in S
  BY <1>1, <1>2, <1>3, AllNumbers
<1> QED
  BY <1>4 DEF S

LEMMA RunsAgree ==
    ASSUME NEW start, NEW fs, NEW n \in Nat, NEW k \in Nat, NEW g, NEW h,
           IsRun(g, start, fs, n), IsRun(h, start, fs, k)
    PROVE  \A i \in Nat : i <= n /\ i <= k => g[i] = h[i]
<1> DEFINE S == {i \in Nat : i <= n /\ i <= k => g[i] = h[i]}
<1>1. 0 \in S
  BY DEF IsRun
<1>2. ASSUME NEW i \in S
      PROVE  i + 1 \in S
  <2> SUFFICES ASSUME i + 1 <= n, i + 1 <= k
               PROVE  g[i + 1] = h[i + 1]
    OBVIOUS
  <2>1. g[i] = h[i] /\ i + 1 \in 1..n /\ i + 1 \in 1..k /\ (i + 1) - 1 = i
    BY <1>2
  <2> QED
    BY <2>1 DEF IsRun
<1>3. S \in SUBSET Nat
  OBVIOUS
<1> HIDE DEF S
<1>4. \A i \in Nat : i \in S
  BY <1>1, <1>2, <1>3, AllNumbers
<1> QED
  BY <1>4 DEF S

\* A replay goes from number to number.
LEMMA ReplayDefined ==
    ASSUME NEW start \in Cores, NEW fs \in SUBSET Files
    PROVE  /\ Replay(start, fs)[0] = start
           /\ \A n \in Nat :
                /\ Replay(start, fs)[n] \in Cores
                /\ Replay(start, fs)[n + 1] = ReplayNumber(fs, n)[Replay(start, fs)[n]]
<1> DEFINE run(n) == CHOOSE g : IsRun(g, start, fs, n)
           Body(r) == [n \in Nat |-> IF n = 0 THEN start ELSE ReplayNumber(fs, n - 1)[r[n - 1]]]
           h == [n \in Nat |-> run(n)[n]]
<1>1. \A n \in Nat : IsRun(run(n), start, fs, n)
  BY RunExists
<1> HIDE DEF run
<1>2. ASSUME NEW n \in Nat
      PROVE  h[n] = IF n = 0 THEN start ELSE ReplayNumber(fs, n - 1)[h[n - 1]]
  <2>1. CASE n = 0
    BY <1>1, <2>1 DEF IsRun
  <2>2. CASE n # 0
    <3>1. n \in 1..n /\ n - 1 \in Nat
      BY <2>2
    <3>2. run(n)[n] = ReplayNumber(fs, n - 1)[run(n)[n - 1]]
      BY <1>1, <3>1 DEF IsRun
    <3>3. run(n)[n - 1] = run(n - 1)[n - 1]
      BY <1>1, <3>1, RunsAgree
    <3> QED
      BY <2>2, <3>1, <3>2, <3>3
  <2> QED
    BY <2>1, <2>2
<1>3. h = Body(h)
  BY <1>2
<1> DEFINE r == Replay(start, fs)
<1>4. r = CHOOSE q : q = Body(q)
  BY DEF Replay
<1> HIDE DEF r, h
<1>5. r = Body(r)
  BY <1>3, <1>4
<1>6. r[0] = start /\ \A n \in Nat : r[n + 1] = ReplayNumber(fs, n)[r[n]]
  <2>1. \A n \in Nat : r[n] = Body(r)[n]
    BY <1>5
  <2>2. r[0] = start
    BY <2>1
  <2>3. ASSUME NEW n \in Nat
        PROVE  r[n + 1] = ReplayNumber(fs, n)[r[n]]
    <3>1. n + 1 \in Nat /\ n + 1 # 0 /\ (n + 1) - 1 = n
      OBVIOUS
    <3> QED
      BY <2>1, <3>1
  <2> QED
    BY <2>2, <2>3
<1>7. \A n \in Nat : r[n] \in Cores
  <2> DEFINE S == {n \in Nat : r[n] \in Cores}
  <2>1. 0 \in S
    BY <1>6
  <2>2. ASSUME NEW n \in S
        PROVE  n + 1 \in S
    <3>1. ReplayNumber(fs, n)[r[n]] \in Cores
      BY <2>2, NumberReplayed
    <3> QED
      BY <1>6, <2>2, <3>1
  <2>3. S \in SUBSET Nat
    OBVIOUS
  <2> HIDE DEF S
  <2>4. \A n \in Nat : n \in S
    BY <2>1, <2>2, <2>3, AllNumbers
  <2> QED
    BY <2>4 DEF S
<1> QED
  BY <1>6, <1>7 DEF r

\* Between two numbers that no file lies between, nothing happens.
LEMMA ReplayStands ==
    ASSUME NEW start \in Cores, NEW fs \in SUBSET Files, NEW n \in Nat, NEW k \in Nat, n <= k,
           \A x \in fs : x.name < n \/ k <= x.name
    PROVE  Replay(start, fs)[k] = Replay(start, fs)[n]
<1> DEFINE r == Replay(start, fs)
           S == {i \in Nat : n <= i /\ i <= k => r[i] = r[n]}
<1> HIDE DEF r
<1>0. /\ r[0] = start
      /\ \A i \in Nat : r[i] \in Cores /\ r[i + 1] = ReplayNumber(fs, i)[r[i]]
  BY ReplayDefined DEF r
<1>1. 0 \in S
  OBVIOUS
<1>2. ASSUME NEW i \in S
      PROVE  i + 1 \in S
  <2> SUFFICES ASSUME n <= i + 1, i + 1 <= k
               PROVE  r[i + 1] = r[n]
    OBVIOUS
  <2>1. CASE i + 1 = n
    BY <2>1
  <2>2. CASE i + 1 # n
    <3>1. i \in Nat /\ n <= i /\ i < k /\ r[i] = r[n] /\ r[i] \in Cores
      BY <1>0, <1>2, <2>2
    <3>2. \A x \in fs : x.name # i
      BY <3>1 DEF Files
    <3>3. ReplayNumber(fs, i)[r[i]] = r[i]
      BY <3>1, <3>2, NumberReplayed
    <3> QED
      BY <1>0, <3>1, <3>3
  <2> QED
    BY <2>1, <2>2
<1>3. S \in SUBSET Nat
  OBVIOUS
<1> HIDE DEF S
<1>4. \A i \in Nat : i \in S
  BY <1>1, <1>2, <1>3, AllNumbers
<1>5. k \in S /\ k <= k
  BY <1>4
<1> QED
  BY <1>5 DEF S, r

\* A replay knows nothing of the files beyond.
LEMMA ReplayLocal ==
    ASSUME NEW start \in Cores, NEW fs \in SUBSET Files, NEW gs \in SUBSET Files, NEW k \in Nat,
           {x \in fs : x.name < k} = {x \in gs : x.name < k}
    PROVE  \A n \in Nat : n <= k => Replay(start, fs)[n] = Replay(start, gs)[n]
<1> DEFINE r == Replay(start, fs)
           q == Replay(start, gs)
           S == {i \in Nat : i <= k => r[i] = q[i]}
<1> HIDE DEF r, q
<1>0. /\ r[0] = start /\ q[0] = start
      /\ \A i \in Nat : r[i + 1] = ReplayNumber(fs, i)[r[i]] /\ q[i + 1] = ReplayNumber(gs, i)[q[i]]
  BY ReplayDefined DEF r, q
<1>1. 0 \in S
  BY <1>0
<1>2. ASSUME NEW i \in S
      PROVE  i + 1 \in S
  <2> SUFFICES ASSUME i + 1 <= k
               PROVE  r[i + 1] = q[i + 1]
    OBVIOUS
  <2>1. r[i] = q[i] /\ i < k
    BY <1>2
  <2>2. {x \in fs : x.name = i} = {x \in gs : x.name = i}
    <3>1. \A x : x \in fs /\ x.name < k <=> x \in gs /\ x.name < k
      OBVIOUS
    <3> QED
      BY <2>1, <3>1
  <2>3. ReplayNumber(fs, i) = ReplayNumber(gs, i)
    <3> DEFINE replayed(numbered) ==
                 [core \in Cores |->
                    IF numbered = {} THEN core ELSE ReplayFile(core, CHOOSE x \in numbered : TRUE)]
    <3>1. /\ ReplayNumber(fs, i) = replayed({x \in fs : x.name = i})
          /\ ReplayNumber(gs, i) = replayed({x \in gs : x.name = i})
      BY DEF ReplayNumber
    <3> HIDE DEF replayed
    <3> QED
      BY <2>2, <3>1
  <2> QED
    BY <1>0, <2>1, <2>3
<1>3. S \in SUBSET Nat
  OBVIOUS
<1> HIDE DEF S
<1>4. \A i \in Nat : i \in S
  BY <1>1, <1>2, <1>3, AllNumbers
<1> QED
  BY <1>4 DEF S, r, q

Below(c, d) == c.len <= d.len /\ c.blocks \subseteq d.blocks

\* A core only grows, whatever is replayed into it.
LEMMA ReplayGrows ==
    ASSUME NEW start \in Cores, NEW fs \in SUBSET Files, NEW n \in Nat, NEW k \in Nat, n <= k
    PROVE  Below(Replay(start, fs)[n], Replay(start, fs)[k])
<1> DEFINE r == Replay(start, fs)
           S == {i \in Nat : n <= i => Below(r[n], r[i])}
<1> HIDE DEF r
<1>0. \A i \in Nat : r[i] \in Cores /\ r[i + 1] = ReplayNumber(fs, i)[r[i]]
  BY ReplayDefined DEF r
<1>1. 0 \in S
  BY <1>0 DEF Below, Cores
<1>2. ASSUME NEW i \in S
      PROVE  i + 1 \in S
  <2>1. CASE n <= i
    <3>1. r[i] \in Cores /\ r[n] \in Cores /\ r[i + 1] = ReplayNumber(fs, i)[r[i]]
      BY <1>0, <1>2
    <3>2. \A core \in Cores, x \in Files : Below(core, ReplayFile(core, x))
      BY DEF Below, ReplayFile, Verifies, Applied, Cores, Files, Messages
    <3>3. \A core \in Cores : Below(core, ReplayNumber(fs, i)[core])
      <4> SUFFICES ASSUME NEW core \in Cores
                   PROVE  Below(core, ReplayNumber(fs, i)[core])
        OBVIOUS
      <4> DEFINE numbered == {x \in fs : x.name = i}
      <4>1. ReplayNumber(fs, i)[core] =
              IF numbered = {} THEN core ELSE ReplayFile(core, CHOOSE x \in numbered : TRUE)
        BY DEF ReplayNumber
      <4>2. numbered # {} => (CHOOSE x \in numbered : TRUE) \in Files
        OBVIOUS
      <4>3. Below(core, core)
        BY DEF Below, Cores
      <4> HIDE DEF numbered
      <4> QED
        BY <3>2, <4>1, <4>2, <4>3
    <3>4. Below(r[n], r[i]) /\ Below(r[i], r[i + 1])
      BY <1>2, <2>1, <3>1, <3>3
    <3>5. r[i + 1] \in Cores
      BY <1>0, <1>2
    <3> QED
      BY <3>1, <3>4, <3>5 DEF Below, Cores
  <2>2. CASE i < n
    <3>1. n <= i + 1 => n = i + 1
      BY <1>2, <2>2
    <3>2. Below(r[n], r[n])
      BY <1>0 DEF Below, Cores
    <3> QED
      BY <1>2, <3>1, <3>2
  <2> QED
    BY <1>2, <2>1, <2>2
<1>3. S \in SUBSET Nat
  OBVIOUS
<1> HIDE DEF S
<1>4. \A i \in Nat : i \in S
  BY <1>1, <1>2, <1>3, AllNumbers
<1> QED
  BY <1>4 DEF S, r

\* A folder whose names fit is replayed whole.
LEMMA ReplayWhole ==
    ASSUME NEW start \in Cores, NEW fs \in SUBSET Files, NEW n \in Nat,
           \A x \in fs : x.name <= MaxName /\ x.name < n,
           HasNewest(NamesOf(fs))
    PROVE  /\ ListSeqFiles(fs) = fs
           /\ ReplayInto(start, fs) = Replay(start, fs)[n]
<1> DEFINE names == NamesOf(fs)
           next == NextSeq(names)
<1>1. ListSeqFiles(fs) = fs
  BY DEF ListSeqFiles
<1>2. names \in SUBSET Nat /\ \A x \in fs : x.name \in names
  BY DEF NamesOf, Files
<1>3. next \in Nat /\ \A k \in names : k < next
  BY <1>2, NextSeqAbove DEF HasNewest
<1>4. \A x \in fs : x.name < next
  BY <1>2, <1>3
<1>5. ReplayInto(start, fs) = Replay(start, fs)[next]
  BY <1>1 DEF ReplayInto
<1> HIDE DEF next, names
<1>6. CASE next <= n
  BY <1>3, <1>4, <1>5, <1>6, ReplayStands, <1>1
<1>7. CASE n <= next
  BY <1>3, <1>5, <1>7, ReplayStands, <1>1
<1> QED
  BY <1>1, <1>3, <1>6, <1>7

-----------------------------------------------------------------------------
(* Lemmas about the prefix. *)

LEMMA GreatestExists ==
    ASSUME NEW N \in Nat, NEW S \in SUBSET (0..N), S # {}
    PROVE  \E n \in S : \A k \in S : k <= n
<1> DEFINE T == {k \in Nat : k <= N /\ N - k \in S}
<1>1. PICK s \in S : TRUE
  OBVIOUS
<1>2. N - s \in T
  BY <1>1
<1>3. T \in SUBSET Nat
  OBVIOUS
<1>4. PICK t \in T : \A k \in T : t <= k
  BY <1>2, <1>3, LeastExists
<1>5. ASSUME NEW k \in S
      PROVE  k <= N - t
  <2>1. N - k \in T /\ k \in Nat /\ t \in Nat
    BY <1>5, <1>4
  <2>2. t <= N - k
    BY <1>4, <2>1
  <2> QED
    BY <2>1, <2>2
<1> QED
  BY <1>4, <1>5

\* The prefix of a core is the longest there is.
LEMMA PrefixIsLongest ==
    ASSUME NEW core \in Cores
    PROVE  /\ Prefix[core] \in 0..core.len /\ 0..(Prefix[core] - 1) \subseteq core.blocks
           /\ \A n \in 0..core.len : 0..(n - 1) \subseteq core.blocks => n <= Prefix[core]
<1> DEFINE S == {n \in 0..core.len : 0..(n - 1) \subseteq core.blocks}
<1>1. core.len \in Nat
  BY DEF Cores
<1>2. 0 \in S
  BY <1>1
<1>3. PICK n \in S : \A k \in S : k <= n
  BY <1>1, <1>2, GreatestExists
<1>4. Prefix[core] = Max(S)
  BY DEF Prefix
<1>5. \A k \in S : n >= k
  BY <1>3, <1>1
<1>6. Max(S) \in S /\ \A k \in S : Max(S) >= k
  BY <1>3, <1>5 DEF Max
<1>7. \A k \in S : k <= Max(S)
  BY <1>6, <1>1
<1> QED
  BY <1>4, <1>6, <1>7

LEMMA PrefixGrows ==
    ASSUME NEW c \in Cores, NEW d \in Cores, Below(c, d)
    PROVE  Prefix[c] <= Prefix[d]
<1>1. Prefix[c] \in 0..d.len /\ 0..(Prefix[c] - 1) \subseteq d.blocks
  BY PrefixIsLongest DEF Below, Cores
<1> QED
  BY <1>1, PrefixIsLongest

-----------------------------------------------------------------------------
(* The folder is a portable copy of the log: what a device recovers from a  *)
(* copy never passes the log and never shrinks.  The hard step is a file    *)
(* that is committed before one of a lower number: filling the gap later    *)
(* may change what every file after it makes of a core.                     *)

\* One core leads another before the files numbered n and on: it has all the other
\* has, and where it is longer, no file to come was made for a shorter one.
Leads(d, c, fs, n) ==
    /\ Below(c, d)
    /\ c.len = d.len \/ \A y \in fs : n <= y.name => d.len <= y.msg.from

\* A file keeps a lead, when the files after it go on from where it ends.
LEMMA LeadKept ==
    ASSUME NEW c \in Cores, NEW d \in Cores, NEW fs \in SUBSET Files, NEW n \in Nat,
           NEW y \in fs, y.name = n, Leads(d, c, fs, n),
           \A z \in fs : n < z.name => y.msg.to <= z.msg.from
    PROVE  Leads(ReplayFile(d, y), ReplayFile(c, y), fs, n + 1)
<1> DEFINE m == y.msg
           c1 == ReplayFile(c, y)
           d1 == ReplayFile(d, y)
<1>1. m.from \in Nat /\ m.to \in Nat /\ c.len \in Nat /\ d.len \in Nat
  BY DEF Files, Messages, Cores
<1>2. c.len <= d.len /\ c.blocks \subseteq d.blocks
  BY DEF Leads, Below
<1>3. \A z \in fs : n + 1 <= z.name => n <= z.name /\ n < z.name
  BY DEF Files
<1>4. c.len = d.len \/ d.len <= m.from
  BY DEF Leads
<1>5. CASE Verifies(c, m) /\ m.from < m.to
  <2>1. c.len = m.from /\ m.needs \subseteq c.blocks
    BY <1>5 DEF Verifies
  <2>2. d.len = m.from /\ m.needs \subseteq d.blocks
    BY <1>1, <1>2, <1>4, <2>1
  <2>3. Verifies(d, m)
    BY <1>5, <2>2 DEF Verifies
  <2>4. c1 = Applied(c, m) /\ d1 = Applied(d, m)
    BY <1>5, <2>3 DEF ReplayFile
  <2>5. c1.len = m.to /\ d1.len = m.to /\ c1.blocks \subseteq d1.blocks
    BY <1>2, <1>5, <2>4 DEF Applied
  <2> HIDE DEF c1, d1
  <2>6. Leads(d1, c1, fs, n + 1)
    BY <1>1, <2>5 DEF Leads, Below
  <2> QED
    BY <2>6 DEF c1, d1
<1>6. CASE Verifies(c, m) /\ ~(m.from < m.to)
  <2>1. m.to <= c.len /\ m.needs \subseteq c.blocks
    BY <1>6 DEF Verifies
  <2>2. Verifies(d, m)
    BY <1>1, <1>2, <1>6, <2>1 DEF Verifies
  <2>3. c1 = Applied(c, m) /\ d1 = Applied(d, m)
    BY <1>6, <2>2 DEF ReplayFile
  <2>4. c1.len = c.len /\ d1.len = d.len /\ c1.blocks \subseteq d1.blocks
    BY <1>2, <1>6, <2>3 DEF Applied
  <2> HIDE DEF c1, d1
  <2>5. Leads(d1, c1, fs, n + 1)
    BY <1>2, <1>3, <2>4 DEF Leads, Below
  <2> QED
    BY <2>5 DEF c1, d1
<1>7. CASE ~Verifies(c, m)
  <2>1. c1 = c
    BY <1>7 DEF ReplayFile
  <2>2. CASE Verifies(d, m) /\ m.from < m.to
    <3>1. d1 = Applied(d, m) /\ d.len = m.from
      BY <2>2 DEF ReplayFile, Verifies
    <3>2. d1.len = m.to /\ d.blocks \subseteq d1.blocks /\ c.len <= m.to
      BY <1>1, <1>2, <2>2, <3>1 DEF Applied
    <3> HIDE DEF c1, d1
    <3>3. Leads(d1, c1, fs, n + 1)
      BY <1>2, <1>3, <2>1, <3>2 DEF Leads, Below
    <3> QED
      BY <3>3 DEF c1, d1
  <2>3. CASE ~(Verifies(d, m) /\ m.from < m.to)
    <3>1. d1.len = d.len /\ d.blocks \subseteq d1.blocks
      BY <2>3 DEF ReplayFile, Applied
    <3> HIDE DEF c1, d1
    <3>2. Leads(d1, c1, fs, n + 1)
      BY <1>2, <1>3, <2>1, <3>1 DEF Leads, Below
    <3> QED
      BY <3>2 DEF c1, d1
  <2> QED
    BY <2>2, <2>3
<1> QED
  BY <1>5, <1>6, <1>7

\* A file that fills a gap takes nothing from what a replay gives.
LEMMA GapFilled ==
    ASSUME NEW fs \in SUBSET Files, NEW new \in Files,
           \A x \in fs : x.name # new.name,
           \A x, y \in fs : x.name = y.name => x = y,
           \A x \in fs \cup {new}, y \in fs :
             new.name <= x.name /\ x.name < y.name => x.msg.to <= y.msg.from,
           NEW n \in Nat, new.name < n
    PROVE  Below(Replay(EmptyCore, fs)[n], Replay(EmptyCore, fs \cup {new})[n])
<1> DEFINE gs == fs \cup {new}
           k == new.name
           r == Replay(EmptyCore, fs)
           q == Replay(EmptyCore, gs)
           S == {i \in Nat : k < i => Leads(q[i], r[i], fs, i)}
<1>1. k \in Nat /\ EmptyCore \in Cores /\ gs \in SUBSET Files
  BY DEF Files, EmptyCore, Cores
<1>2. \A i \in Nat : r[i] \in Cores /\ r[i + 1] = ReplayNumber(fs, i)[r[i]]
  BY <1>1, ReplayDefined
<1>3. \A i \in Nat : q[i] \in Cores /\ q[i + 1] = ReplayNumber(gs, i)[q[i]]
  BY <1>1, ReplayDefined
<1>4. q[k] = r[k]
  <2>1. {x \in fs : x.name < k} = {x \in gs : x.name < k}
    BY <1>1
  <2> HIDE DEF gs
  <2> QED
    BY <1>1, <2>1, ReplayLocal
<1>5. \A x \in gs : x \in fs \/ x = new
  OBVIOUS
<1>6. new \in gs /\ \A x \in fs : x \in gs
  OBVIOUS
<1> HIDE DEF gs, r, q
<1>7. 0 \in S
  BY <1>1
<1>8. ASSUME NEW i \in S
      PROVE  i + 1 \in S
  <2>0. i \in Nat /\ r[i] \in Cores /\ q[i] \in Cores
    BY <1>2, <1>3, <1>8
  <2>1. CASE i < k
    BY <1>1, <2>0, <2>1
  <2>2. CASE i = k
    <3>1. r[k + 1] = r[k]
      BY <1>1, <1>2, <2>2, NumberReplayed
    <3>2. q[k + 1] = ReplayFile(r[k], new)
      <4>1. \A x \in gs : x.name = k => x = new
        BY <1>5
      <4>2. \A y \in gs : y.name = k /\ (\A x \in gs : x.name = k => x = y) =>
              ReplayNumber(gs, k)[q[k]] = ReplayFile(q[k], y)
        <5>1. k \in Nat /\ q[k] \in Cores /\ gs \in SUBSET Files
          BY <1>1, <2>0, <2>2
        <5> HIDE DEF k
        <5> QED
          BY ONLY <5>1, NumberReplayed
      <4>3. ReplayNumber(gs, k)[q[k]] = ReplayFile(q[k], new)
        BY <1>6, <4>1, <4>2
      <4> QED
        BY <1>1, <1>3, <1>4, <4>3
    <3>3. \A y \in fs : k + 1 <= y.name => new.msg.to <= y.msg.from
      <4>1. \A y \in fs : k + 1 <= y.name => k < y.name /\ k <= k
        BY <1>1 DEF Files
      <4> QED
        BY <1>6, <4>1 DEF gs
    <3> DEFINE c == r[k]
    <3>4. c \in Cores /\ new.msg \in Messages
      BY <2>0, <2>2 DEF Files
    <3> HIDE DEF c, k
    <3>5. Leads(ReplayFile(c, new), c, fs, k + 1)
      <4>1. CASE Verifies(c, new.msg) /\ new.msg.from < new.msg.to
        <5>1. ReplayFile(c, new) = [len |-> new.msg.to, blocks |-> c.blocks \cup new.msg.blocks]
              /\ c.len = new.msg.from
          BY <4>1 DEF ReplayFile, Applied, Verifies
        <5> QED
          BY <3>3, <3>4, <4>1, <5>1 DEF Leads, Below, Cores, Messages
      <4>2. CASE ~(Verifies(c, new.msg) /\ new.msg.from < new.msg.to)
        <5>1. ReplayFile(c, new).len = c.len /\ c.blocks \subseteq ReplayFile(c, new).blocks
          BY <4>2 DEF ReplayFile, Applied
        <5> QED
          BY <3>4, <5>1 DEF Leads, Below, Cores
      <4> QED
        BY <4>1, <4>2
    <3> QED
      BY <1>1, <2>2, <3>1, <3>2, <3>5 DEF c, k
  <2>3. CASE k < i
    <3>1. Leads(q[i], r[i], fs, i)
      BY <1>8, <2>3
    <3>2. CASE \A x \in fs : x.name # i
      <4>1. \A x \in gs : x.name # i
        BY <1>1, <1>5, <2>0, <2>3, <3>2
      <4>2. r[i + 1] = r[i]
        BY <1>2, <2>0, <3>2, NumberReplayed
      <4>3. q[i + 1] = q[i]
        BY <1>1, <1>3, <2>0, <4>1, NumberReplayed
      <4>4. \A y \in fs : i + 1 <= y.name => i <= y.name
        BY <2>0 DEF Files
      <4>5. Leads(q[i], r[i], fs, i + 1)
        BY <3>1, <4>4 DEF Leads
      <4> QED
        BY <2>0, <4>2, <4>3, <4>5
    <3>3. CASE \E x \in fs : x.name = i
      <4>1. PICK y \in fs : y.name = i
        BY <3>3
      <4>2. y \in gs /\ (\A x \in fs : x.name = i => x = y) /\ \A x \in gs : x.name = i => x = y
        BY <1>1, <1>5, <1>6, <2>0, <2>3, <4>1
      <4>3. r[i + 1] = ReplayFile(r[i], y)
        <5>1. \A z \in fs : z.name = i /\ (\A x \in fs : x.name = i => x = z) =>
                ReplayNumber(fs, i)[r[i]] = ReplayFile(r[i], z)
          BY <2>0, NumberReplayed
        <5> QED
          BY <1>2, <2>0, <4>1, <4>2, <5>1
      <4>4. q[i + 1] = ReplayFile(q[i], y)
        <5>1. \A z \in gs : z.name = i /\ (\A x \in gs : x.name = i => x = z) =>
                ReplayNumber(gs, i)[q[i]] = ReplayFile(q[i], z)
          BY <1>1, <2>0, NumberReplayed
        <5> QED
          BY <1>3, <2>0, <4>1, <4>2, <5>1
      <4>5. \A z \in fs : i < z.name => y.msg.to <= z.msg.from
        <5>1. k <= i
          BY <1>1, <2>0, <2>3
        <5> QED
          BY <4>1, <4>2, <5>1 DEF gs
      <4>6. Leads(q[i + 1], r[i + 1], fs, i + 1)
        BY <2>0, <3>1, <4>1, <4>3, <4>4, <4>5, LeadKept
      <4> QED
        BY <2>0, <4>6
    <3> QED
      BY <3>2, <3>3
  <2> QED
    BY <1>1, <2>0, <2>1, <2>2, <2>3
<1>9. S \in SUBSET Nat
  OBVIOUS
<1> HIDE DEF S
<1>10. \A i \in Nat : i \in S
  BY <1>7, <1>8, <1>9, AllNumbers
<1>11. Leads(q[n], r[n], fs, n)
  BY <1>10 DEF S
<1> QED
  BY <1>11 DEF Leads, gs, r, q

\* What is replayed from genuine files stays within the log.
LEMMA ReplayGenuine ==
    ASSUME NEW fs \in SUBSET Files, mainLen \in Nat, \A x \in fs : Genuine(x.msg), NEW n \in Nat
    PROVE  Within(Replay(EmptyCore, fs)[n])
<1> DEFINE r == Replay(EmptyCore, fs)
           S == {i \in Nat : Within(r[i])}
<1>1. EmptyCore \in Cores /\ Within(EmptyCore)
  BY DEF EmptyCore, Cores, Within
<1>2. r[0] = EmptyCore
  BY <1>1, ReplayDefined
<1>3. \A i \in Nat : r[i] \in Cores /\ r[i + 1] = ReplayNumber(fs, i)[r[i]]
  BY <1>1, ReplayDefined
<1> HIDE DEF r
<1>4. 0 \in S
  BY <1>1, <1>2
<1>5. ASSUME NEW i \in S
      PROVE  i + 1 \in S
  <2>1. i \in Nat /\ r[i] \in Cores /\ Within(r[i])
    BY <1>3, <1>5
  <2> DEFINE numbered == {x \in fs : x.name = i}
             core == r[i]
  <2>2. ReplayNumber(fs, i)[core] =
          IF numbered = {} THEN core ELSE ReplayFile(core, CHOOSE x \in numbered : TRUE)
    BY <2>1 DEF ReplayNumber
  <2>3. numbered # {} => (CHOOSE x \in numbered : TRUE) \in fs
    OBVIOUS
  <2>4. core \in Cores /\ Within(core)
    BY <2>1
  <2> HIDE DEF numbered, core
  <2>5. \A x \in fs : Within(ReplayFile(core, x))
    BY <2>4, ReplayWithin
  <2>6. Within(ReplayNumber(fs, i)[core])
    BY <2>2, <2>3, <2>4, <2>5
  <2> QED
    BY <1>3, <2>1, <2>6 DEF core
<1>6. S \in SUBSET Nat
  OBVIOUS
<1> HIDE DEF S
<1>7. \A i \in Nat : i \in S
  BY <1>4, <1>5, <1>6, AllNumbers
<1> QED
  BY <1>7 DEF S, r

-----------------------------------------------------------------------------
(* What a flush adds to the folder.  Until numberings have raced, and while  *)
(* the names fit their digits, one call at a time has files on the way, and  *)
(* its numbers are past every name there is: the messages the capture        *)
(* accepted are in the folder or about to be, each made for a core that has  *)
(* replayed all before it.                                                   *)

NamesFit == \A x \in files : x.name <= MaxName

AllFiles == files \cup {[name |-> w.name, msg |-> w.msg] : w \in writes}

\* Every other call is over, and what it asked for is in the folder.
Rest(f) == \A g \in Flushers \ {f} : flush[g].pc = "idle"
Ends(f) == faults = 0 => \A g \in Flushers \ {f} : flush[g].end <= Covered

NumbersFresh(f) ==
    /\ \A x \in files : x.name < flush[f].seq
    /\ \A w \in writes : w.name < flush[f].seq /\ \A x \in files : x.name # w.name
    /\ \A w, v \in writes : w.name = v.name => w = v

OneOfEachName == \A x, y \in files : x.name = y.name => x = y

\* The taps of a flush are its own, and so is what is being written: a flush that
\* begins finds nothing on the way.
Alone(f) ==
    /\ verify = IF flush[f].pc \in {"replicate", "failed"} THEN <<f>> ELSE <<>>
    /\ flush[f].pc \in {"replicate", "failed"} => flush[f].orig = <<>>
    /\ \A w \in writes : w.taps = <<f>> /\ w.via = f /\ (w.late <=> flush[f].pc = "idle")
    /\ flush[f].pc \in {"listed", "replay"} => writes = {} /\ flush[f].end = 0
    /\ flush[f].pc = "listed" => (flush[f].existing <=> files # {})

\* From the first message that is not in the folder yet, each is for a core as long
\* as the one before it left.
Chained(f) ==
    \A w \in writes : \A x \in AllFiles : w.name <= x.name =>
        /\ \A y \in AllFiles : x.name < y.name => x.msg.to <= y.msg.from
        /\ flush[f].pc = "replicate" => x.msg.to <= cap.len

\* While no message was lost, the capture is what the folder and the messages in
\* flight make of an empty core, or is on its way there, or was deleted.
Mirrors(f) ==
    ~lost =>
        \/ flush[f].pc \in {"idle", "listed"} /\ cap = EmptyCore
        \/ flush[f].pc = "replay" /\ \E n \in 0..flush[f].seq :
            cap = Replay(EmptyCore, files)[n] /\ flush[f].todo = {x \in files : n <= x.name}
        \/ flush[f].pc # "replay" /\ cap = Replay(EmptyCore, AllFiles)[flush[f].seq]

\* Barring faults, a flush that is over has covered its range, once its files are in
\* place.
Covers(f) ==
    faults = 0 =>
        /\ ~lost /\ flush[f].pc # "failed"
        /\ flush[f].pc = "idle" =>
              flush[f].end <= Prefix[Replay(EmptyCore, AllFiles)[flush[f].seq]]

CoverInv(f) ==
    /\ f \in Flushers /\ Rest(f) /\ Ends(f)
    /\ NumbersFresh(f) /\ OneOfEachName /\ Alone(f) /\ Chained(f) /\ Mirrors(f) /\ Covers(f)

\* The inductive invariant: the call that is not over, or was the last to run, holds
\* all of the above.
Orderly == raced \/ \E f \in Flushers : CoverInv(f)

Ready(f) == TypeInv /\ WithinLog /\ NamesFit /\ CoverInv(f)

KeepsCover(f) == OneOfEachName' /\ Alone(f)' /\ Chained(f)' /\ Mirrors(f)' /\ Covers(f)'

-----------------------------------------------------------------------------
LEMMA ReadyTypes ==
    ASSUME NEW f, Ready(f)
    PROVE  /\ f \in Flushers /\ flush \in [Flushers -> FlushStates]
           /\ flush[f] \in FlushStates /\ flush[f].seq \in Nat /\ flush[f].end \in Nat
           /\ mainLen \in Nat /\ cap \in Cores /\ EmptyCore \in Cores
           /\ files \in SUBSET Files /\ AllFiles \in SUBSET Files
           /\ \A w \in writes : w \in TapWrites
           /\ \A x \in AllFiles : x.name \in Nat /\ x.name < flush[f].seq
           /\ \A x, y \in AllFiles : x.name = y.name => x = y
           /\ HasNewest(NamesOf(files)) /\ ListSeqFiles(files) = files
           /\ \A x \in files : x.name <= MaxName
           /\ \A s : Becomes(f, s) => flush'[f] = s
<1>1. /\ f \in Flushers /\ flush \in [Flushers -> FlushStates]
      /\ flush[f] \in FlushStates /\ flush[f].seq \in Nat /\ flush[f].end \in Nat
      /\ mainLen \in Nat /\ cap \in Cores /\ files \in SUBSET Files
      /\ \A w \in writes : w \in TapWrites
  BY DEF Ready, CoverInv, TypeInv, TypeOK, FlushStates
<1>2. EmptyCore \in Cores
  BY DEF EmptyCore, Cores
<1>3. AllFiles \in SUBSET Files
  BY <1>1 DEF AllFiles, Files, TapWrites
<1>4. \A x \in AllFiles : x.name \in Nat /\ x.name < flush[f].seq
  <2>1. \A x \in AllFiles : x.name < flush[f].seq
    BY DEF Ready, CoverInv, NumbersFresh, AllFiles
  <2> QED
    BY <1>3, <2>1 DEF Files
<1>5. \A x, y \in AllFiles : x.name = y.name => x = y
  <2>1. \A x, y \in files : x.name = y.name => x = y
    BY DEF Ready, CoverInv, OneOfEachName
  <2>2. \A w, v \in writes : w.name = v.name => w = v
    BY DEF Ready, CoverInv, NumbersFresh
  <2>3. \A w \in writes : \A x \in files : x.name # w.name
    BY DEF Ready, CoverInv, NumbersFresh
  <2> QED
    BY <2>1, <2>2, <2>3 DEF AllFiles
<1>6. ListSeqFiles(files) = files /\ \A x \in files : x.name <= MaxName
  BY DEF Ready, NamesFit, ListSeqFiles
<1>7. HasNewest(NamesOf(files))
  BY <1>6 DEF Ready, TypeInv, NewestExists
<1>8. \A s : Becomes(f, s) => flush'[f] = s
  BY <1>1 DEF Becomes
<1> QED
  BY <1>1, <1>2, <1>3, <1>4, <1>5, <1>6, <1>7, <1>8

\* Past the last name it makes no difference where one looks.
LEMMA ReplayEnds ==
    ASSUME NEW fs \in SUBSET Files, NEW n \in Nat, NEW k \in Nat,
           \A x \in fs : x.name < n /\ x.name < k
    PROVE  Replay(EmptyCore, fs)[n] = Replay(EmptyCore, fs)[k]
<1>1. EmptyCore \in Cores
  BY DEF EmptyCore, Cores
<1>2. CASE n <= k
  BY <1>1, <1>2, ReplayStands
<1>3. CASE k <= n
  BY <1>1, <1>3, ReplayStands
<1> QED
  BY <1>2, <1>3

\* What a copy of the folder gives.
LEMMA FolderReplay ==
    ASSUME NEW f, Ready(f)
    PROVE  /\ ReplayInto(EmptyCore, files) = Replay(EmptyCore, files)[flush[f].seq]
           /\ ReplayInto(EmptyCore, files) \in Cores
           /\ Covered \in Nat
           /\ writes = {} => AllFiles = files
<1>1. ReplayInto(EmptyCore, files) = Replay(EmptyCore, files)[flush[f].seq]
  <2>1. \A x \in files : x.name <= MaxName /\ x.name < flush[f].seq
    BY ReadyTypes DEF AllFiles
  <2> QED
    BY <2>1, ReadyTypes, ReplayWhole
<1>2. ReplayInto(EmptyCore, files) \in Cores
  BY <1>1, ReadyTypes, ReplayDefined
<1>3. Covered \in Nat
  BY <1>2, PrefixIsLongest DEF Covered, Cores
<1> QED
  BY <1>1, <1>2, <1>3 DEF AllFiles

\* Only the flush of the invariant, or one that lists the folder, takes a step.
LEMMA OnlyOneRuns ==
    ASSUME NEW f, Ready(f), NEW g \in Flushers, FlushStep(g)
    PROVE  g = f
<1>1. flush[g].pc # "idle"
  BY DEF FlushStep, OpenCapture, Rebuild, Accept, FlushDone, FlushThrows
<1> QED
  BY <1>1 DEF Ready, CoverInv, Rest

\* When the flush is over its files are as they were, and late.
LEMMA ReleasedAll ==
    ASSUME NEW f, Ready(f), flush[f].pc # "idle", writes' = Released(f), files' = files
    PROVE  /\ \A v \in writes' : v.taps = <<f>> /\ v.via = f /\ v.late
           /\ \A v \in writes' : \E w \in writes : v.name = w.name /\ v.msg = w.msg
           /\ \A v, u \in writes' : v.name = u.name => v = u
           /\ AllFiles' = AllFiles
<1> DEFINE late(w) == [w EXCEPT !.late = TRUE]
<1>1. \A w \in writes : w \in TapWrites /\ w.via = f /\ w.taps = <<f>>
  BY ReadyTypes DEF Ready, CoverInv, Alone
<1>2. \A w \in writes : late(w).name = w.name /\ late(w).msg = w.msg /\ late(w).taps = <<f>>
                        /\ late(w).via = f /\ late(w).late
  BY <1>1 DEF TapWrites
<1>3. \A v \in writes' : \E w \in writes : v = late(w)
  BY <1>1 DEF Released
<1>4. \A w \in writes : late(w) \in writes'
  BY <1>1 DEF Released
<1> HIDE DEF late
<1>5. \A v, u \in writes' : v.name = u.name => v = u
  <2> SUFFICES ASSUME NEW v \in writes', NEW u \in writes', v.name = u.name
               PROVE  v = u
    OBVIOUS
  <2>1. PICK w \in writes : v = late(w)
    BY <1>3
  <2>2. PICK x \in writes : u = late(x)
    BY <1>3
  <2>3. w = x
    BY <1>2, <2>1, <2>2 DEF Ready, CoverInv, NumbersFresh
  <2> QED
    BY <2>1, <2>2, <2>3
<1>6. AllFiles' = AllFiles
  <2>1. ASSUME NEW v \in writes'
        PROVE  [name |-> v.name, msg |-> v.msg] \in AllFiles
    BY <1>2, <1>3, <2>1 DEF AllFiles
  <2>2. ASSUME NEW w \in writes
        PROVE  [name |-> w.name, msg |-> w.msg] \in AllFiles'
    <3>1. late(w) \in writes' /\ late(w).name = w.name /\ late(w).msg = w.msg
      BY <1>2, <1>4
    <3> QED
      BY <3>1 DEF AllFiles
  <2> QED
    BY <2>1, <2>2 DEF AllFiles
<1> QED
  BY <1>2, <1>3, <1>5, <1>6

\* A file that is renamed into place leaves what is written or in flight as it is.
LEMMA Committed ==
    ASSUME NEW f, Ready(f), NEW w \in writes, Commit(w)
    PROVE  /\ files' = files \cup {[name |-> w.name, msg |-> w.msg]}
           /\ writes' = writes \ {w} /\ flush' = flush
           /\ UNCHANGED <<mainLen, cap, verify, lost, faults>>
           /\ AllFiles' = AllFiles
           /\ \A x \in files : x.name # w.name
           /\ \A v \in writes : v.name = w.name => v = w
<1>1. /\ w.taps = <<f>> /\ \A x \in files : x.name # w.name
      /\ \A v \in writes : v.name = w.name => v = w
  BY DEF Ready, CoverInv, Alone, NumbersFresh
<1>2. Len(w.taps) = 1
  BY <1>1
<1>3. /\ files' = {x \in files : x.name # w.name} \cup {[name |-> w.name, msg |-> w.msg]}
      /\ writes' = writes \ {w} /\ flush' = flush
      /\ UNCHANGED <<mainLen, cap, verify, lost, faults>>
  BY <1>2 DEF Commit
<1>4. files' = files \cup {[name |-> w.name, msg |-> w.msg]}
  BY <1>1, <1>3
<1>5. AllFiles' = AllFiles
  BY <1>3, <1>4 DEF AllFiles
<1> QED
  BY <1>1, <1>3, <1>4, <1>5

\* A copy of the folder never passes the log, whatever has raced.
LEMMA CoveredWithin ==
    ASSUME TypeInv, WithinLog
    PROVE  mainLen \in Nat /\ Covered \in 0..mainLen
<1> DEFINE listed == ListSeqFiles(files)
           n == NextSeq(NamesOf(listed))
           core == Replay(EmptyCore, listed)[n]
<1>1. mainLen \in Nat /\ listed \in SUBSET Files /\ EmptyCore \in Cores
  BY DEF TypeInv, TypeOK, ListSeqFiles, EmptyCore, Cores
<1>2. n \in Nat
  BY ListingNumbered DEF TypeInv
<1>3. \A x \in listed : Genuine(x.msg)
  BY DEF WithinLog, ListSeqFiles
<1>4. ReplayInto(EmptyCore, files) = core
  BY DEF ReplayInto
<1> HIDE DEF listed, n
<1>5. Within(core) /\ core \in Cores
  BY <1>1, <1>2, <1>3, ReplayGenuine, ReplayDefined
<1> HIDE DEF core
<1>6. Prefix[core] \in 0..core.len /\ core.len \in Nat
  BY <1>5, PrefixIsLongest DEF Cores
<1> QED
  BY <1>1, <1>4, <1>5, <1>6 DEF Covered, Within

LEMMA InitCover ==
    ASSUME NEW f \in Flushers, Init
    PROVE  CoverInv(f)
<1>1. NumbersFresh(f) /\ OneOfEachName /\ Alone(f) /\ Chained(f)
  BY DEF Init, NumbersFresh, OneOfEachName, Alone, Chained
<1>0. \A g \in Flushers : flush[g].pc = "idle" /\ flush[g].end = 0 /\ flush[g].seq = 0
  BY DEF Init
<1>2. Mirrors(f)
  BY DEF Init, Mirrors
<1>3. Covers(f) /\ Rest(f) /\ Ends(f)
  <2>1. TypeInv /\ WithinLog /\ AllFiles = {} /\ ~lost /\ EmptyCore \in Cores
    BY InitTypes, InitWithin DEF Init, AllFiles, EmptyCore, Cores
  <2>2. Covered \in Nat
    BY <2>1, CoveredWithin
  <2>3. Prefix[Replay(EmptyCore, AllFiles)[0]] \in Nat
    <3>1. Replay(EmptyCore, AllFiles)[0] = EmptyCore
      BY <2>1, ReplayDefined
    <3> QED
      BY <2>1, <3>1, PrefixIsLongest DEF Cores
  <2> QED
    BY <1>0, <2>1, <2>2, <2>3 DEF Covers, Rest, Ends
<1> QED
  BY <1>1, <1>2, <1>3 DEF CoverInv

-----------------------------------------------------------------------------
(* Names. *)

\* A name given out past all of the others stays the only one of its kind.
LEMMA NextFresh ==
    ASSUME NEW f, Ready(f), [Next]_vars, \A g \in Flushers : ~List(g)
    PROVE  NumbersFresh(f)' /\ files \subseteq files'
<1>0. /\ f \in Flushers /\ flush \in [Flushers -> FlushStates]
      /\ flush[f] \in FlushStates /\ flush[f].seq \in Nat
      /\ \A x \in files : x.name \in Nat
      /\ \A w \in writes : w \in TapWrites /\ w.name \in Nat /\ w.taps = <<f>> /\ w.via = f
      /\ NumbersFresh(f)
      /\ \A s : Becomes(f, s) => flush'[f] = s
  <2>1. \A x \in files : x.name \in Nat
    BY ReadyTypes DEF Files
  <2>2. \A w \in writes : w \in TapWrites /\ w.name \in Nat
    BY ReadyTypes DEF TapWrites
  <2> QED
    BY <2>1, <2>2, ReadyTypes DEF Ready, CoverInv, Alone
<1>a. ASSUME flush'[f].seq = flush[f].seq, UNCHANGED files, writes' \subseteq writes
      PROVE  NumbersFresh(f)' /\ files \subseteq files'
  BY <1>0, <1>a DEF NumbersFresh
<1>b. \A s \in FlushStates :
         /\ [s EXCEPT !.pc = "idle", !.todo = {}].seq = s.seq
         /\ \A p \in Progress : [s EXCEPT !.pc = p].seq = s.seq
         /\ \A t \in SUBSET Files : [s EXCEPT !.todo = t].seq = s.seq
         /\ \A t \in SUBSET Files : [s EXCEPT !.pc = "replay", !.todo = t].seq = s.seq
         /\ \A n \in Nat, q \in Seq(Flushers) :
               [s EXCEPT !.pc = "replicate", !.orig = q, !.end = n].seq = s.seq
  BY DEF FlushStates
<1>c. "idle" \in Progress /\ "failed" \in Progress
  BY DEF Progress
<1>d. ASSUME Decide(f)
      PROVE  flush'[f].seq = flush[f].seq
  <2>1. mainLen \in Nat /\ verify \in Seq(Flushers)
    BY DEF Ready, TypeInv, TypeOK
  <2> DEFINE returned == [flush[f] EXCEPT !.pc = "idle"]
             started == [flush[f] EXCEPT !.pc = "replicate", !.orig = verify,
                                         !.end = mainLen]
  <2>2. returned.seq = flush[f].seq /\ started.seq = flush[f].seq
    BY <1>0, <1>b, <1>c, <2>1
  <2>3. flush'[f] = returned \/ flush'[f] = started
    BY <1>0, <1>d DEF Decide
  <2> HIDE DEF returned, started
  <2> QED
    BY <2>2, <2>3
<1>1. CASE AppendBlock \/ LoseCapture \/ HydrateFile \/ UNCHANGED vars
  BY <1>1, <1>a DEF AppendBlock, LoseCapture, HydrateFile, vars
<1>2. CASE Crash
  <2>1. flush'[f].seq = flush[f].seq
    BY <1>0, <1>b, <1>2 DEF Crash
  <2> QED
    BY <1>2, <1>a, <2>1 DEF Crash
<1>3. CASE OpenCapture(f)
  <2>1. CASE cap.len = 0 /\ flush[f].existing
    <3> DEFINE state == [flush[f] EXCEPT !.pc = "replay", !.todo = ListSeqFiles(files)]
    <3>1. ListSeqFiles(files) \in SUBSET Files
      BY ReadyTypes
    <3>2. state.seq = flush[f].seq
      BY <1>0, <1>b, <3>1
    <3>3. flush'[f] = state
      BY <1>0, <1>3, <2>1 DEF OpenCapture
    <3> HIDE DEF state
    <3> QED
      BY <1>3, <1>a, <3>2, <3>3 DEF OpenCapture
  <2>2. CASE ~(cap.len = 0 /\ flush[f].existing)
    <3>1. Decide(f) /\ UNCHANGED <<files, writes>>
      BY <1>3, <2>2 DEF OpenCapture
    <3> QED
      BY <1>a, <1>d, <3>1
  <2> QED
    BY <2>1, <2>2
<1>4. CASE Rebuild(f)
  <2>1. CASE flush[f].todo # {}
    <3> DEFINE state == [flush[f] EXCEPT !.todo = flush[f].todo \ {Oldest(flush[f].todo)}]
    <3>1. flush[f].todo \ {Oldest(flush[f].todo)} \in SUBSET Files
      BY <1>0 DEF FlushStates
    <3>2. state.seq = flush[f].seq
      BY <1>0, <1>b, <3>1
    <3>3. flush'[f] = state
      BY <1>0, <1>4, <2>1 DEF Rebuild
    <3> HIDE DEF state
    <3> QED
      BY <1>4, <1>a, <3>2, <3>3 DEF Rebuild
  <2>2. CASE flush[f].todo = {}
    <3>1. Decide(f) /\ UNCHANGED <<files, writes>>
      BY <1>4, <2>2 DEF Rebuild
    <3> QED
      BY <1>a, <1>d, <3>1
  <2> QED
    BY <2>1, <2>2
<1>5. CASE Accept(f)
  <2>1. verify = <<f>>
    BY <1>5 DEF Accept, Ready, CoverInv, Alone
  <2>2. PICK m : /\ writes' = writes \cup {[via |-> f, late |-> FALSE, taps |-> verify,
                                            msg |-> m, name |-> flush[f].seq]}
                 /\ Number(f)
    <3>1. Head(verify) = f /\ verify # <<>>
      BY <2>1
    <3> QED
      BY <1>5, <3>1 DEF Accept
  <2> DEFINE w == [via |-> f, late |-> FALSE, taps |-> verify, msg |-> m, name |-> flush[f].seq]
             state == [flush[f] EXCEPT !.seq = flush[f].seq + 1]
  <2>3. w.name = flush[f].seq /\ state.seq = flush[f].seq + 1
    BY <1>0 DEF FlushStates
  <2>4. writes' = writes \cup {w} /\ flush'[f] = state /\ files' = files
    BY <1>0, <1>5, <2>2 DEF Number, Accept
  <2> HIDE DEF w, state
  <2>5. \A v \in writes : v.name < flush[f].seq
    BY <1>0 DEF NumbersFresh
  <2>6. \A x \in files : x.name < flush[f].seq
    BY <1>0 DEF NumbersFresh
  <2>7. \A v, u \in writes' : v.name = u.name => v = u
    BY <1>0, <2>3, <2>4, <2>5 DEF NumbersFresh
  <2>8. \A v \in writes' : v.name < flush'[f].seq /\ \A x \in files' : x.name # v.name
    BY <1>0, <2>3, <2>4, <2>5, <2>6 DEF NumbersFresh
  <2>9. \A x \in files' : x.name < flush'[f].seq
    BY <1>0, <2>3, <2>4, <2>6
  <2> QED
    BY <2>4, <2>7, <2>8, <2>9 DEF NumbersFresh
<1>6. CASE FlushDone(f) \/ FlushThrows(f)
  <2>1. Over(f) /\ flush[f].pc # "idle"
    BY <1>6 DEF FlushDone, FlushThrows
  <2> DEFINE state == [flush[f] EXCEPT !.pc = "idle"]
  <2>2. state.seq = flush[f].seq
    BY <1>0, <1>b, <1>c
  <2>3. flush'[f] = state /\ files' = files /\ writes' = Released(f)
    BY <1>0, <2>1 DEF Over
  <2> HIDE DEF state
  <2>4. /\ \A v \in writes' : \E w \in writes : v.name = w.name
        /\ \A v, u \in writes' : v.name = u.name => v = u
    BY <2>1, <2>3, ReleasedAll
  <2> QED
    BY <1>0, <2>2, <2>3, <2>4 DEF NumbersFresh
<1>7. ASSUME NEW w \in writes, WriteFails(w) PROVE NumbersFresh(f)' /\ files \subseteq files'
  <2> DEFINE state == [flush[f] EXCEPT !.pc = "failed"]
  <2>1. w.via = f /\ state.seq = flush[f].seq
    BY <1>0, <1>b, <1>c
  <2>2. flush'[f] = flush[f] \/ flush'[f] = state
    BY <1>0, <1>7, <2>1 DEF WriteFails
  <2> HIDE DEF state
  <2>3. flush'[f].seq = flush[f].seq
    BY <2>1, <2>2
  <2> QED
    BY <1>7, <1>a, <2>3 DEF WriteFails
<1>8. ASSUME NEW w \in writes, Commit(w) PROVE NumbersFresh(f)' /\ files \subseteq files'
  <2>1. /\ files' = files \cup {[name |-> w.name, msg |-> w.msg]}
        /\ writes' = writes \ {w} /\ flush' = flush
        /\ \A v \in writes : v.name = w.name => v = w
    BY <1>8, Committed
  <2>2. w.name < flush[f].seq
    BY <1>0 DEF NumbersFresh
  <2>3. \A x \in files' : x.name < flush'[f].seq
    BY <1>0, <2>1, <2>2 DEF NumbersFresh
  <2>4. \A v \in writes' : v.name < flush'[f].seq /\ \A x \in files' : x.name # v.name
    BY <1>0, <2>1 DEF NumbersFresh
  <2>5. \A v, u \in writes' : v.name = u.name => v = u
    BY <1>0, <2>1 DEF NumbersFresh
  <2> QED
    BY <2>1, <2>3, <2>4, <2>5 DEF NumbersFresh
<1>9. ASSUME NEW g \in Flushers, FlushStep(g) PROVE NumbersFresh(f)' /\ files \subseteq files'
  <2>1. FlushStep(f)
    BY <1>9, OnlyOneRuns
  <2> QED
    BY <1>3, <1>4, <1>5, <1>6, <2>1 DEF FlushStep
<1> QED
  BY <1>1, <1>2, <1>7, <1>8, <1>9 DEF Next

-----------------------------------------------------------------------------
(* What each step makes of what the folder gives. *)

LEMMA QuietCover ==
    ASSUME NEW f, Ready(f), UNCHANGED <<cap, verify, files, writes, flush, lost, faults>>
    PROVE  KeepsCover(f)
<1>1. AllFiles' = AllFiles /\ Covered' = Covered
  BY DEF AllFiles, Covered
<1>2. OneOfEachName' /\ Alone(f)' /\ Chained(f)'
  BY <1>1 DEF Ready, CoverInv, OneOfEachName, Alone, Chained
<1>3. Mirrors(f)' /\ Covers(f)'
  BY <1>1 DEF Ready, CoverInv, Mirrors, Covers
<1> QED
  BY <1>2, <1>3 DEF KeepsCover

LEMMA LoseCover ==
    ASSUME NEW f, Ready(f), LoseCapture
    PROVE  KeepsCover(f)
<1>1. flush[f].pc = "idle"
  BY ReadyTypes DEF LoseCapture
<1>2. AllFiles' = AllFiles /\ Covered' = Covered
  BY DEF AllFiles, Covered, LoseCapture
<1>3. OneOfEachName' /\ Alone(f)' /\ Chained(f)'
  BY <1>1, <1>2 DEF Ready, CoverInv, OneOfEachName, Alone, Chained, LoseCapture
<1>4. Mirrors(f)' /\ Covers(f)'
  BY <1>1, <1>2 DEF Ready, CoverInv, Mirrors, Covers, LoseCapture
<1> QED
  BY <1>3, <1>4 DEF KeepsCover

LEMMA CrashCover ==
    ASSUME NEW f, Ready(f), Crash
    PROVE  KeepsCover(f)
<1>1. flush'[f].pc = "idle" /\ flush'[f].seq = flush[f].seq
  BY ReadyTypes DEF Crash, FlushStates
<1>2. faults' # 0
  <2>1. faults \in Nat
    BY DEF Ready, TypeInv, TypeOK
  <2>2. faults' = faults + 1
    BY DEF Crash
  <2> QED
    BY <2>1, <2>2
<1>3. ~lost' => ~lost /\ writes = {} /\ flush[f].pc # "replay"
  BY ReadyTypes DEF Crash
<1>4. writes' = {} /\ verify' = <<>> /\ files' = files /\ cap' = cap
  BY DEF Crash
<1>5. OneOfEachName' /\ Alone(f)' /\ Chained(f)' /\ Covers(f)'
  BY <1>1, <1>2, <1>4 DEF Ready, CoverInv, OneOfEachName, Alone, Chained, Covers
<1>6. Mirrors(f)'
  <2>1. writes = {} => AllFiles' = AllFiles
    BY <1>4 DEF AllFiles
  <2> QED
    BY <1>1, <1>3, <1>4, <2>1 DEF Ready, CoverInv, Mirrors
<1> QED
  BY <1>5, <1>6 DEF KeepsCover

\* A call that finds nothing on the way takes over, numbered past every name.
LEMMA ListCover ==
    ASSUME NEW f, Ready(f), NEW g \in Flushers, List(g), ~raced'
    PROVE  CoverInv(g)'
<1> DEFINE next == NextSeq(NamesOf(files))
<1>0. ListSeqFiles(files) = files /\ f \in Flushers /\ flush \in [Flushers -> FlushStates]
      /\ flush[g] \in FlushStates
  BY ReadyTypes
<1>1. /\ \A h \in Flushers : flush[h].pc = "idle"
      /\ writes = {} /\ AllFiles = files /\ AllFiles' = files
      /\ UNCHANGED <<cap, verify, files, lost, faults, writes>>
      /\ Covered' = Covered /\ Covered \in Nat
  <2>1. writes = {} /\ \A h \in Flushers \ {g} : flush[h].pc = "idle"
    BY DEF List, Unlisted
  <2>2. flush[g].pc = "idle" /\ UNCHANGED <<cap, verify, files, lost, faults, writes>>
    BY DEF List, Available
  <2> QED
    BY <2>1, <2>2, FolderReplay DEF AllFiles, Covered
<1>2. /\ flush'[g].pc \in {"idle", "listed"} /\ flush'[g].seq = next /\ flush'[g].end = 0
      /\ flush'[g].existing = (NamesOf(files) # {})
      /\ \A h \in Flushers \ {g} : flush'[h] = flush[h]
  <2> DEFINE names == NamesOf(ListSeqFiles(files))
             state == [flush[g] EXCEPT !.seq = NextSeq(names), !.existing = (names # {}),
                         !.end = 0, !.pc = IF mainLen = 0 THEN "idle" ELSE "listed"]
  <2>1. names = NamesOf(files)
    BY <1>0
  <2>2. /\ state.pc \in {"idle", "listed"} /\ state.seq = NextSeq(names) /\ state.end = 0
        /\ state.existing = (names # {})
    BY <1>0 DEF FlushStates
  <2>3. flush' = [flush EXCEPT ![g] = state]
    BY DEF List, Becomes
  <2>4. flush'[g] = state /\ \A h \in Flushers \ {g} : flush'[h] = flush[h]
    BY <1>0, <2>3
  <2> HIDE DEF state, names
  <2> QED
    BY <2>1, <2>2, <2>4
<1>3. next \in Nat /\ \A x \in files : x.name < next
  <2>1. NextSeq(NamesOf(ListSeqFiles(files))) \in Nat
        /\ \A n \in NamesOf(ListSeqFiles(files)) : n < NextSeq(NamesOf(ListSeqFiles(files)))
    BY ListingNumbered DEF Ready, TypeInv
  <2> QED
    BY <1>0, <2>1 DEF NamesOf
<1> HIDE DEF next
<1>4. OneOfEachName' /\ Alone(g)' /\ NumbersFresh(g)'
  <2>1. NamesOf(files) # {} <=> files # {}
    BY DEF NamesOf
  <2>2. verify' = <<>>
    BY <1>0, <1>1 DEF Ready, CoverInv, Alone
  <2>3. Alone(g)'
    BY <1>1, <1>2, <2>1, <2>2 DEF Alone
  <2>4. NumbersFresh(g)'
    BY <1>1, <1>2, <1>3 DEF NumbersFresh
  <2> QED
    BY <1>1, <2>3, <2>4 DEF Ready, CoverInv, OneOfEachName
<1>5. Chained(g)'
  BY <1>1 DEF Chained
<1>6. Replay(EmptyCore, files)[next] = Replay(EmptyCore, files)[flush[f].seq]
  BY <1>1, <1>3, ReadyTypes, ReplayEnds
<1>7. Mirrors(g)'
  <2>1. flush[f].pc = "idle"
    BY <1>0, <1>1
  <2>2. ~lost => cap = EmptyCore \/ cap = Replay(EmptyCore, files)[next]
    BY <1>1, <1>6, <2>1 DEF Ready, CoverInv, Mirrors
  <2>3. lost' = lost /\ cap' = cap /\ AllFiles' = files
    BY <1>1
  <2> QED
    BY <1>2, <2>2, <2>3 DEF Mirrors
<1>8. Covers(g)' /\ Ends(g)' /\ Rest(g)'
  <2>1. faults = 0 => ~lost
    BY DEF Ready, CoverInv, Covers
  <2>2. Prefix[Replay(EmptyCore, files)[next]] = Covered
    BY <1>1, <1>6, FolderReplay DEF Covered
  <2>3. Covers(g)'
    BY <1>1, <1>2, <2>1, <2>2 DEF Covers
  <2>4. faults = 0 => \A h \in Flushers : flush[h].end <= Covered
    <3>1. faults = 0 => flush[f].end <= Covered
      BY <1>0, <1>1, <1>6, <2>2 DEF Ready, CoverInv, Covers
    <3> QED
      BY <3>1 DEF Ready, CoverInv, Ends
  <2>5. Rest(g)' /\ Ends(g)'
    BY <1>1, <1>2, <2>4 DEF Rest, Ends
  <2> QED
    BY <2>3, <2>5
<1> QED
  BY <1>4, <1>5, <1>7, <1>8 DEF CoverInv

\* A flush that goes on to replicate, or finds nothing to do, when the capture is what
\* the folder gives.
LEMMA DecideCover ==
    ASSUME NEW f, Ready(f), flush[f].pc \in {"listed", "replay"}, Decide(f),
           UNCHANGED <<cap, files, writes, lost, faults>>,
           ~lost => cap = Replay(EmptyCore, files)[flush[f].seq]
    PROVE  KeepsCover(f)
<1>1. /\ writes = {} /\ flush[f].end = 0 /\ verify = <<>> /\ AllFiles = files /\ AllFiles' = files
      /\ writes' = {} /\ Covered' = Covered
  BY DEF Ready, CoverInv, Alone, AllFiles, Covered
<1>2. /\ flush'[f].pc \in {"idle", "replicate"} /\ flush'[f].seq = flush[f].seq
      /\ flush'[f].pc = "idle" => flush'[f].end = 0 /\ verify' = <<>>
      /\ flush'[f].pc = "replicate" => flush'[f].orig = <<>> /\ verify' = <<f>>
  <2> DEFINE returned == [flush[f] EXCEPT !.pc = "idle"]
             started == [flush[f] EXCEPT !.pc = "replicate", !.orig = verify, !.end = mainLen]
  <2>1. /\ returned.pc = "idle" /\ returned.seq = flush[f].seq /\ returned.end = 0
        /\ started.pc = "replicate" /\ started.seq = flush[f].seq /\ started.orig = <<>>
    BY <1>1, ReadyTypes DEF FlushStates
  <2>2. \/ flush'[f] = returned /\ verify' = verify
        \/ flush'[f] = started /\ verify' = Append(verify, f)
    BY ReadyTypes DEF Decide
  <2>3. Append(verify, f) = <<f>>
    BY <1>1
  <2> HIDE DEF returned, started
  <2> QED
    BY <1>1, <2>1, <2>2, <2>3
<1>3. OneOfEachName' /\ Alone(f)' /\ Chained(f)'
  BY <1>1, <1>2 DEF Ready, CoverInv, OneOfEachName, Alone, Chained
<1>4. Mirrors(f)'
  BY <1>1, <1>2 DEF Mirrors
<1>5. Covers(f)'
  <2>1. 0 <= Prefix[Replay(EmptyCore, files)[flush[f].seq]]
    <3>1. Replay(EmptyCore, files)[flush[f].seq] \in Cores
      BY ReadyTypes, ReplayDefined
    <3> QED
      BY <3>1, PrefixIsLongest DEF Cores
  <2>2. faults = 0 => ~lost
    BY DEF Ready, CoverInv, Covers
  <2> QED
    BY <1>1, <1>2, <2>1, <2>2 DEF Covers
<1> QED
  BY <1>3, <1>4, <1>5 DEF KeepsCover

LEMMA OpenCover ==
    ASSUME NEW f, Ready(f), OpenCapture(f)
    PROVE  KeepsCover(f)
<1>1. /\ flush[f].pc = "listed" /\ UNCHANGED <<cap, files, writes, lost, faults>>
      /\ writes = {} /\ flush[f].end = 0 /\ verify = <<>> /\ flush[f].existing = (files # {})
      /\ AllFiles = files /\ AllFiles' = files
  <2>1. flush[f].existing \in BOOLEAN
    BY ReadyTypes DEF FlushStates
  <2> QED
    BY <2>1 DEF OpenCapture, Ready, CoverInv, Alone, AllFiles
<1>2. CASE cap.len = 0 /\ flush[f].existing
  <2>1. cap = EmptyCore
    BY <1>2, ReadyTypes DEF Ready, WithinLog, Within, Cores, EmptyCore
  <2> DEFINE state == [flush[f] EXCEPT !.pc = "replay", !.todo = ListSeqFiles(files)]
  <2>2. /\ state.pc = "replay" /\ state.todo = files /\ state.seq = flush[f].seq /\ state.end = 0
    BY <1>1, ReadyTypes DEF FlushStates
  <2>3. flush'[f] = state /\ verify' = verify
    BY <1>2, ReadyTypes DEF OpenCapture
  <2> HIDE DEF state
  <2>4. OneOfEachName' /\ Alone(f)' /\ Chained(f)'
    BY <1>1, <2>2, <2>3 DEF Ready, CoverInv, OneOfEachName, Alone, Chained
  <2>5. Mirrors(f)'
    <3>1. Replay(EmptyCore, files)[0] = EmptyCore
      BY ReadyTypes, ReplayDefined
    <3>2. files = {x \in files : 0 <= x.name} /\ 0 \in 0..flush[f].seq
      BY ReadyTypes DEF Files
    <3> QED
      BY <1>1, <2>1, <2>2, <2>3, <3>1, <3>2 DEF Mirrors
  <2>6. Covers(f)'
    BY <1>1, <2>2, <2>3 DEF Ready, CoverInv, Covers
  <2> QED
    BY <2>4, <2>5, <2>6 DEF KeepsCover
<1>3. CASE ~(cap.len = 0 /\ flush[f].existing)
  <2>1. ~lost => cap = Replay(EmptyCore, files)[flush[f].seq]
    <3> SUFFICES ASSUME ~lost, cap = EmptyCore
                 PROVE  cap = Replay(EmptyCore, files)[flush[f].seq]
      BY <1>1 DEF Ready, CoverInv, Mirrors
    <3>1. files = {}
      BY <1>1, <1>3 DEF EmptyCore
    <3>2. Replay(EmptyCore, files)[flush[f].seq] = Replay(EmptyCore, files)[0]
      BY <3>1, ReadyTypes, ReplayEnds
    <3> QED
      BY <3>2, ReadyTypes, ReplayDefined
  <2>2. Decide(f)
    BY <1>3 DEF OpenCapture
  <2> QED
    BY <1>1, <2>1, <2>2, DecideCover
<1> QED
  BY <1>2, <1>3

LEMMA RebuildCover ==
    ASSUME NEW f, Ready(f), Rebuild(f)
    PROVE  KeepsCover(f)
<1>1. /\ flush[f].pc = "replay" /\ UNCHANGED <<files, writes, lost, faults>>
      /\ writes = {} /\ flush[f].end = 0 /\ verify = <<>>
      /\ AllFiles = files /\ AllFiles' = files
  BY DEF Rebuild, Ready, CoverInv, Alone, AllFiles
<1> DEFINE seq == flush[f].seq
           r == Replay(EmptyCore, files)
<1>2. ~lost => \E n \in 0..seq : cap = r[n] /\ flush[f].todo = {x \in files : n <= x.name}
  BY <1>1 DEF Ready, CoverInv, Mirrors
<1>3. CASE flush[f].todo # {}
  <2> DEFINE next == Oldest(flush[f].todo)
             state == [flush[f] EXCEPT !.todo = flush[f].todo \ {next}]
  <2>1. next \in flush[f].todo /\ \A y \in flush[f].todo : next.name <= y.name
    BY <1>3, ReadyTypes, OldestIsFirst DEF FlushStates
  <2>2. /\ state.pc = "replay" /\ state.todo = flush[f].todo \ {next} /\ state.seq = seq
        /\ state.end = 0
    BY <1>1, ReadyTypes DEF FlushStates
  <2>3. flush'[f] = state /\ verify' = verify /\ cap' = ReplayFile(cap, next)
    BY <1>3, ReadyTypes DEF Rebuild
  <2> HIDE DEF state, next
  <2>4. OneOfEachName' /\ Alone(f)' /\ Chained(f)'
    BY <1>1, <2>2, <2>3 DEF Ready, CoverInv, OneOfEachName, Alone, Chained
  <2>5. Mirrors(f)'
    <3> SUFFICES ASSUME ~lost
                 PROVE  \E n \in 0..seq :
                            /\ cap' = r[n]
                            /\ flush[f].todo \ {next} = {x \in files : n <= x.name}
      BY <1>1, <2>2, <2>3 DEF Mirrors
    <3>1. PICK n \in 0..seq : cap = r[n] /\ flush[f].todo = {x \in files : n <= x.name}
      BY <1>2
    <3>2. next \in files /\ n <= next.name /\ next.name \in Nat /\ next.name < seq
      BY <1>1, <2>1, <3>1, ReadyTypes
    <3>3. \A x \in files : x.name < n \/ next.name <= x.name
      BY <2>1, <3>1, ReadyTypes DEF Files
    <3>4. \A x \in files : x.name = next.name => x = next
      BY <3>2 DEF Ready, CoverInv, OneOfEachName
    <3>5. r[next.name] = r[n]
      BY <3>2, <3>3, ReadyTypes, ReplayStands
    <3>6. r[next.name + 1] = ReplayNumber(files, next.name)[r[next.name]] /\ r[next.name] \in Cores
      BY <3>2, ReadyTypes, ReplayDefined
    <3>7. r[next.name + 1] = cap'
      <4>1. files \in SUBSET Files /\ cap \in Cores
        BY ReadyTypes
      <4>2. ReplayNumber(files, next.name)[cap] = ReplayFile(cap, next)
        BY <3>2, <3>4, <4>1, NumberReplayed
      <4> QED
        BY <2>3, <3>1, <3>5, <3>6, <4>2
    <3>8. flush[f].todo \ {next} = {x \in files : next.name + 1 <= x.name}
      <4>1. \A x \in files : x.name \in Nat
        BY ReadyTypes DEF Files
      <4>2. \A x \in flush[f].todo \ {next} : x \in files /\ next.name + 1 <= x.name
        BY <2>1, <3>1, <3>2, <3>4, <4>1
      <4>3. \A x \in files : next.name + 1 <= x.name => x \in flush[f].todo \ {next}
        BY <3>1, <3>2, <4>1
      <4> QED
        BY <4>2, <4>3
    <3>9. next.name + 1 \in 0..seq
      BY <3>2, ReadyTypes
    <3> QED
      BY <3>7, <3>8, <3>9
  <2>6. Covers(f)'
    <3>1. faults = 0 => ~lost
      BY DEF Ready, CoverInv, Covers
    <3> QED
      BY <1>1, <2>2, <2>3, <3>1 DEF Covers
  <2> QED
    BY <2>4, <2>5, <2>6 DEF KeepsCover
<1>4. CASE flush[f].todo = {}
  <2>1. ~lost => cap = r[seq]
    <3> SUFFICES ASSUME ~lost
                 PROVE  cap = r[seq]
      OBVIOUS
    <3>1. PICK n \in 0..seq : cap = r[n] /\ flush[f].todo = {x \in files : n <= x.name}
      BY <1>2
    <3>2. \A x \in files : x.name < n /\ x.name < seq
      BY <1>1, <1>4, <3>1, ReadyTypes
    <3> QED
      BY <3>1, <3>2, ReadyTypes, ReplayEnds
  <2>2. Decide(f) /\ UNCHANGED cap
    BY <1>4 DEF Rebuild
  <2> QED
    BY <1>1, <2>1, <2>2, DecideCover
<1> QED
  BY <1>3, <1>4

\* A message the capture accepts is made for what all before it give.
LEMMA AcceptCover ==
    ASSUME NEW f, Ready(f), Accept(f)
    PROVE  KeepsCover(f)
<1> DEFINE seq == flush[f].seq
<1>1. /\ flush[f].pc = "replicate" /\ verify = <<f>> /\ flush[f].orig = <<>>
      /\ UNCHANGED <<verify, files, lost, faults>>
  BY DEF Accept, Ready, CoverInv, Alone
<1>2. PICK m \in Sendable(cap, mainLen) :
        /\ cap' = Applied(cap, m)
        /\ writes' = writes \cup {[via |-> f, late |-> FALSE, taps |-> <<f>>, msg |-> m, name |-> seq]}
        /\ Number(f)
  <2>1. Head(verify) = f /\ verify # <<>>
    BY <1>1
  <2> QED
    BY <1>1, <2>1 DEF Accept
<1> DEFINE w == [via |-> f, late |-> FALSE, taps |-> <<f>>, msg |-> m, name |-> seq]
           x == [name |-> seq, msg |-> m]
<1>3. /\ flush'[f].pc = "replicate" /\ flush'[f].seq = seq + 1 /\ flush'[f].orig = <<>>
  <2> DEFINE state == [flush[f] EXCEPT !.seq = flush[f].seq + 1]
  <2>1. state.pc = "replicate" /\ state.seq = seq + 1 /\ state.orig = <<>>
    BY <1>1, ReadyTypes DEF FlushStates
  <2>2. flush'[f] = state
    BY <1>2, ReadyTypes DEF Number
  <2> HIDE DEF state
  <2> QED
    BY <2>1, <2>2
<1>4. /\ m \in Messages /\ m.from = cap.len /\ m.needs = cap.blocks /\ m.to \in {cap.len, mainLen}
      /\ m.from <= m.to /\ cap.len \in Nat
  <2>1. cap \in Cores /\ mainLen \in Nat /\ cap.len \in Nat /\ cap.len <= mainLen
    BY ReadyTypes DEF Cores, Ready, WithinLog, Within
  <2>2. m \in Messages /\ m.from = cap.len /\ m.to \in {cap.len, mainLen}
    BY <2>1, SendableIsMessage
  <2>3. m.needs = cap.blocks
    BY DEF Sendable
  <2> QED
    BY <2>1, <2>2, <2>3
<1>5. Verifies(cap, m) /\ cap.len <= cap'.len /\ m.to <= cap'.len
  <2>1. m.to \in Nat
    BY <1>4 DEF Messages
  <2>2. CASE m.from < m.to
    BY <1>2, <1>4, <2>1, <2>2 DEF Verifies, Applied
  <2>3. CASE ~(m.from < m.to)
    BY <1>2, <1>4, <2>1, <2>3 DEF Verifies, Applied
  <2> QED
    BY <2>2, <2>3
<1>6. x \in Files /\ AllFiles' = AllFiles \cup {x}
  <2>1. seq \in Nat /\ m \in Messages
    BY <1>4, ReadyTypes
  <2>2. writes' = writes \cup {w} /\ w.name = seq /\ w.msg = m
    BY <1>2
  <2>3. x \in Files
    BY <2>1 DEF Files
  <2>4. files' = files
    BY <1>1 DEF Accept
  <2> HIDE DEF seq, w
  <2>5. AllFiles' = AllFiles \cup {x}
    BY <2>2, <2>4 DEF AllFiles
  <2> QED
    BY <2>3, <2>5
<1>7. \A y \in AllFiles : y.name \in Nat /\ y.name < seq
  BY ReadyTypes
<1>8. writes' = writes \cup {w} /\ w.name = seq /\ w.taps = <<f>> /\ w.via = f /\ ~w.late
  BY <1>2
<1>9. x.name = seq /\ x.msg = m
  OBVIOUS
<1>10. seq \in Nat
  BY ReadyTypes
<1> HIDE DEF seq, w, x
<1>11. OneOfEachName' /\ Alone(f)'
  BY <1>1, <1>3, <1>8 DEF Ready, CoverInv, OneOfEachName, Alone
<1>12. Chained(f)'
  <2> SUFFICES ASSUME NEW v \in writes', NEW y \in AllFiles', v.name <= y.name
               PROVE  /\ \A z \in AllFiles' : y.name < z.name => y.msg.to <= z.msg.from
                      /\ y.msg.to <= cap'.len
    BY DEF Chained
  <2>1. CASE y = x
    BY <1>5, <1>6, <1>7, <1>9, <1>10, <2>1
  <2>2. CASE y # x
    <3>1. y \in AllFiles /\ y.name \in Nat /\ y.name < seq
      BY <1>6, <1>7, <2>2
    <3>2. v \in writes
      BY <1>8, <1>10, <3>1
    <3>3. /\ \A z \in AllFiles : y.name < z.name => y.msg.to <= z.msg.from
          /\ y.msg.to <= cap.len
      BY <1>1, <3>1, <3>2 DEF Ready, CoverInv, Chained
    <3>4. y.msg.to \in Nat /\ cap'.len \in Nat
      <4>1. AllFiles \in SUBSET Files
        BY ReadyTypes
      <4>2. Applied(cap, m) \in Cores
        BY <1>4, ReadyTypes, AppliedIsCore
      <4> QED
        BY <1>2, <3>1, <4>1, <4>2 DEF Files, Messages, Cores
    <3> QED
      BY <1>4, <1>5, <1>6, <1>9, <3>3, <3>4
  <2> QED
    BY <2>1, <2>2
<1>13. Mirrors(f)'
  <2> SUFFICES ASSUME ~lost
               PROVE  cap' = Replay(EmptyCore, AllFiles')[seq + 1]
    BY <1>1, <1>3 DEF Mirrors
  <2>1. cap = Replay(EmptyCore, AllFiles)[seq]
    BY <1>1 DEF Ready, CoverInv, Mirrors, seq
  <2> DEFINE all == AllFiles'
  <2>2. all \in SUBSET Files /\ AllFiles \in SUBSET Files /\ EmptyCore \in Cores /\ cap \in Cores
    BY <1>6, ReadyTypes
  <2>3. {y \in AllFiles : y.name < seq} = {y \in all : y.name < seq}
    BY <1>6, <1>7, <1>9, <1>10
  <2>4. all = AllFiles \cup {x}
    BY <1>6
  <2> HIDE DEF all
  <2>5. Replay(EmptyCore, all)[seq] = cap
    BY <1>10, <2>1, <2>2, <2>3, ReplayLocal
  <2>6. Replay(EmptyCore, all)[seq + 1] = ReplayNumber(all, seq)[cap]
    BY <1>10, <2>2, <2>5, ReplayDefined
  <2>7. x \in all /\ \A y \in all : y.name = seq => y = x
    BY <1>7, <1>10, <2>4
  <2>8. ReplayNumber(all, seq)[cap] = ReplayFile(cap, x)
    <3>1. \A y \in all : y.name = seq => y = x
      BY <2>7
    <3>2. \A y \in all : y.name = seq /\ (\A z \in all : z.name = seq => z = y) =>
            ReplayNumber(all, seq)[cap] = ReplayFile(cap, y)
      BY <1>10, <2>2, NumberReplayed
    <3> QED
      BY <1>9, <2>7, <3>1, <3>2
  <2>9. ReplayFile(cap, x) = Applied(cap, m)
    BY <1>5, <1>9 DEF ReplayFile
  <2> QED
    BY <1>2, <2>6, <2>8, <2>9 DEF all
<1>14. Covers(f)'
  BY <1>1, <1>3 DEF Ready, CoverInv, Covers
<1> QED
  BY <1>11, <1>12, <1>13, <1>14 DEF KeepsCover

\* A flush that is over leaves no tap, and its files to be written.
LEMMA FlushOver ==
    ASSUME NEW f, Ready(f), flush[f].pc \in {"replicate", "failed"}, Over(f)
    PROVE  /\ OneOfEachName' /\ Alone(f)' /\ Chained(f)' /\ Mirrors(f)'
           /\ flush'[f].pc = "idle" /\ flush'[f].end = flush[f].end
           /\ flush'[f].seq = flush[f].seq /\ AllFiles' = AllFiles
           /\ UNCHANGED <<cap, files, lost, faults>>
<1>1. /\ flush'[f].pc = "idle" /\ flush'[f].seq = flush[f].seq /\ flush'[f].end = flush[f].end
  <2> DEFINE state == [flush[f] EXCEPT !.pc = "idle"]
  <2>1. state.pc = "idle" /\ state.seq = flush[f].seq /\ state.end = flush[f].end
    BY ReadyTypes DEF FlushStates
  <2>2. flush'[f] = state
    BY ReadyTypes DEF Over
  <2> HIDE DEF state
  <2> QED
    BY <2>1, <2>2
<1>2. verify' = <<>> /\ writes' = Released(f) /\ UNCHANGED <<cap, files, lost, faults>>
  BY DEF Over, Restored, Ready, CoverInv, Alone
<1>3. /\ \A v \in writes' : v.taps = <<f>> /\ v.via = f /\ v.late
      /\ \A v \in writes' : \E w \in writes : v.name = w.name
      /\ AllFiles' = AllFiles
  BY <1>2, ReleasedAll
<1>4. OneOfEachName' /\ Alone(f)'
  BY <1>1, <1>2, <1>3 DEF Ready, CoverInv, OneOfEachName, Alone
<1>5. Chained(f)'
  BY <1>1, <1>3 DEF Ready, CoverInv, Chained
<1>6. Mirrors(f)'
  BY <1>1, <1>2, <1>3 DEF Ready, CoverInv, Mirrors
<1> QED
  BY <1>1, <1>2, <1>3, <1>4, <1>5, <1>6

\* What a flush asked for is in the capture, and the capture is what the folder gives
\* with the messages in flight.
LEMMA DoneCover ==
    ASSUME NEW f, Ready(f), FlushDone(f)
    PROVE  KeepsCover(f)
<1>1. /\ OneOfEachName' /\ Alone(f)' /\ Chained(f)' /\ Mirrors(f)'
      /\ flush'[f].pc = "idle" /\ flush'[f].end = flush[f].end
      /\ flush'[f].seq = flush[f].seq /\ AllFiles' = AllFiles
      /\ UNCHANGED <<cap, files, lost, faults>>
  BY FlushOver DEF FlushDone
<1>2. Covers(f)'
  <2> SUFFICES ASSUME faults = 0
               PROVE  ~lost /\ flush[f].end <= Prefix[Replay(EmptyCore, AllFiles)[flush[f].seq]]
    BY <1>1 DEF Covers
  <2>1. ~lost /\ flush[f].pc = "replicate"
    BY DEF Ready, CoverInv, Covers, FlushDone
  <2>2. cap = Replay(EmptyCore, AllFiles)[flush[f].seq]
    BY <2>1 DEF Ready, CoverInv, Mirrors
  <2>3. 0..(flush[f].end - 1) \subseteq cap.blocks
    BY DEF FlushDone, Downloaded
  <2>4. flush[f].end \in 0..cap.len
    <3>1. cap.len \in Nat /\ \A i \in cap.blocks : i < cap.len
      BY ReadyTypes DEF Cores, Ready, WithinLog, Within
    <3>2. flush[f].end \in Nat
      BY ReadyTypes
    <3>3. flush[f].end # 0 => flush[f].end - 1 \in cap.blocks
      BY <2>3, <3>2
    <3> QED
      BY <3>1, <3>2, <3>3
  <2>5. flush[f].end <= Prefix[cap]
    BY <2>3, <2>4, ReadyTypes, PrefixIsLongest
  <2> QED
    BY <2>1, <2>2, <2>5
<1> QED
  BY <1>1, <1>2 DEF KeepsCover

LEMMA ThrowsCover ==
    ASSUME NEW f, Ready(f), FlushThrows(f)
    PROVE  KeepsCover(f)
<1>1. OneOfEachName' /\ Alone(f)' /\ Chained(f)' /\ Mirrors(f)'
  BY FlushOver DEF FlushThrows
<1>2. Covers(f)'
  <2>1. faults' = faults /\ flush[f].pc = "failed"
    BY DEF FlushThrows, Over
  <2> QED
    BY <2>1 DEF Ready, CoverInv, Covers
<1> QED
  BY <1>1, <1>2 DEF KeepsCover

LEMMA CommitCover ==
    ASSUME NEW f, Ready(f), NEW w \in writes, Commit(w)
    PROVE  KeepsCover(f)
<1>1. /\ files' = files \cup {[name |-> w.name, msg |-> w.msg]}
      /\ writes' = writes \ {w} /\ flush' = flush
      /\ UNCHANGED <<mainLen, cap, verify, lost, faults>>
      /\ AllFiles' = AllFiles /\ \A x \in files : x.name # w.name
  BY Committed
<1>2. flush[f].pc \notin {"listed", "replay"}
  BY DEF Ready, CoverInv, Alone
<1>3. OneOfEachName'
  BY <1>1 DEF Ready, CoverInv, OneOfEachName
<1>4. Alone(f)' /\ Chained(f)'
  BY <1>1, <1>2 DEF Ready, CoverInv, Alone, Chained
<1>5. Mirrors(f)'
  BY <1>1, <1>2 DEF Ready, CoverInv, Mirrors
<1>6. Covers(f)'
  BY <1>1 DEF Ready, CoverInv, Covers
<1> QED
  BY <1>3, <1>4, <1>5, <1>6 DEF KeepsCover

LEMMA FailsCover ==
    ASSUME NEW f, Ready(f), NEW w \in writes, WriteFails(w)
    PROVE  KeepsCover(f)
<1>1. w.via = f
  BY DEF Ready, CoverInv, Alone
<1>2. /\ lost' = TRUE /\ writes' = writes \ {w} /\ UNCHANGED <<cap, verify, files>>
      /\ faults' # 0
  BY DEF WriteFails, Ready, TypeInv, TypeOK
<1>3. \/ flush'[f] = flush[f]
      \/ flush[f].pc = "replicate" /\ flush'[f].pc = "failed" /\ flush'[f].orig = flush[f].orig
  <2> DEFINE state == [flush[f] EXCEPT !.pc = "failed"]
  <2>1. state.pc = "failed" /\ state.orig = flush[f].orig
    BY ReadyTypes DEF FlushStates
  <2>2. flush'[f] = flush[f] \/ (flush[f].pc = "replicate" /\ flush'[f] = state)
    BY <1>1, ReadyTypes DEF WriteFails
  <2> HIDE DEF state
  <2> QED
    BY <2>1, <2>2
<1>4. AllFiles' \subseteq AllFiles
  BY <1>2 DEF AllFiles
<1>5. flush[f].pc \notin {"listed", "replay"}
  BY DEF Ready, CoverInv, Alone
<1>6. OneOfEachName' /\ Alone(f)'
  BY <1>2, <1>3, <1>5 DEF Ready, CoverInv, OneOfEachName, Alone
<1>7. Chained(f)'
  BY <1>2, <1>3, <1>4 DEF Ready, CoverInv, Chained
<1>8. Mirrors(f)' /\ Covers(f)'
  BY <1>2 DEF Mirrors, Covers
<1> QED
  BY <1>6, <1>7, <1>8 DEF KeepsCover

\* A file that is renamed into place takes nothing from what is recovered.
LEMMA CommitExtends ==
    ASSUME NEW f, Ready(f), TypeInv', NamesFit', NEW w \in writes, Commit(w)
    PROVE  mainLen' = mainLen /\ Covered <= Covered'
<1> DEFINE new == [name |-> w.name, msg |-> w.msg]
           n == flush[f].seq
           c == Replay(EmptyCore, files)[n]
           d == Replay(EmptyCore, files \cup {new})[n]
<1>1. /\ files' = files \cup {new} /\ mainLen' = mainLen
      /\ \A x \in files : x.name # w.name
  BY Committed
<1>2. new \in Files /\ new \in AllFiles /\ new.name = w.name
  BY ReadyTypes DEF AllFiles
<1>3. /\ n \in Nat /\ EmptyCore \in Cores /\ files \in SUBSET Files
      /\ \A x \in AllFiles : x.name < n
      /\ \A x, y \in AllFiles : x.name = y.name => x = y
  BY ReadyTypes
<1>4. \A x \in files : x \in AllFiles
  BY DEF AllFiles
<1>5. \A x \in AllFiles, y \in AllFiles : w.name <= x.name /\ x.name < y.name => x.msg.to <= y.msg.from
  BY DEF Ready, CoverInv, Chained
<1>6. ReplayInto(EmptyCore, files) = c /\ c \in Cores
  BY FolderReplay
<1> HIDE DEF new, n
<1>7. Below(c, d)
  BY <1>1, <1>2, <1>3, <1>4, <1>5, GapFilled
<1>8. ReplayInto(EmptyCore, files') = d /\ d \in Cores
  <2>1. files' \in SUBSET Files /\ \A x \in files' : x.name <= MaxName /\ x.name < n
    BY <1>1, <1>2, <1>3, <1>4 DEF NamesFit
  <2>2. ListSeqFiles(files') = files'
    BY <2>1 DEF ListSeqFiles
  <2>3. HasNewest(NamesOf(files'))
    BY <2>2 DEF TypeInv, NewestExists
  <2>4. ReplayInto(EmptyCore, files') = Replay(EmptyCore, files')[n]
    BY <1>3, <2>1, <2>3, ReplayWhole
  <2>5. Replay(EmptyCore, files')[n] \in Cores
    BY <1>3, <2>1, ReplayDefined
  <2> QED
    BY <1>1, <2>4, <2>5
<1> HIDE DEF c, d
<1>9. Prefix[c] <= Prefix[d]
  BY <1>6, <1>7, <1>8, PrefixGrows
<1> QED
  BY <1>1, <1>6, <1>8, <1>9 DEF Covered

\* No step takes anything from what is recovered.
LEMMA StepExtends ==
    ASSUME NEW f, Ready(f), TypeInv', NamesFit', [Next]_vars
    PROVE  /\ Covered <= Covered'
           /\ mainLen' = mainLen \/ (mainLen' = mainLen + 1 /\ Covered' = Covered)
<1>0. Covered \in Nat
  BY FolderReplay
<1>1. files' = files => Covered' = Covered
  BY DEF Covered
<1>2. CASE AppendBlock
  BY <1>0, <1>1, <1>2 DEF AppendBlock
<1>3. CASE Crash \/ LoseCapture \/ HydrateFile \/ UNCHANGED vars
  <2>1. UNCHANGED <<mainLen, files>>
    BY <1>3 DEF Crash, LoseCapture, HydrateFile, vars
  <2> QED
    BY <1>0, <1>1, <2>1
<1>4. CASE \E g \in Flushers : List(g) \/ FlushStep(g)
  <2>1. UNCHANGED <<mainLen, files>>
    BY <1>4 DEF List, FlushStep, OpenCapture, Rebuild, Accept, FlushDone, FlushThrows, Over
  <2> QED
    BY <1>0, <1>1, <2>1
<1>5. ASSUME NEW w \in writes, WriteFails(w)
      PROVE  mainLen' = mainLen /\ Covered' = Covered
  BY <1>1, <1>5 DEF WriteFails
<1>6. ASSUME NEW w \in writes, Commit(w)
      PROVE  mainLen' = mainLen /\ Covered <= Covered'
  BY <1>6, CommitExtends
<1> QED
  BY <1>0, <1>2, <1>3, <1>4, <1>5, <1>6 DEF Next

\* The other calls stay over, and covered, through a step of any but a call that begins.
LEMMA OthersKept ==
    ASSUME NEW f, Ready(f), TypeInv', NamesFit', [Next]_vars, \A g \in Flushers : ~List(g)
    PROVE  Rest(f)' /\ Ends(f)'
<1>0. /\ f \in Flushers /\ flush \in [Flushers -> FlushStates] /\ Rest(f) /\ Ends(f)
      /\ \A g \in Flushers : flush[g] \in FlushStates
      /\ \A w \in writes : w.via = f /\ w.taps = <<f>>
  BY ReadyTypes DEF Ready, CoverInv, Alone
<1>1. CASE Crash
  <2>1. faults' # 0
    <3>1. faults \in Nat
      BY DEF Ready, TypeInv, TypeOK
    <3>2. faults' = faults + 1
      BY <1>1 DEF Crash
    <3> QED
      BY <3>1, <3>2
  <2>2. \A g \in Flushers : flush'[g].pc = "idle"
    BY <1>0, <1>1 DEF Crash, FlushStates
  <2> QED
    BY <2>1, <2>2 DEF Rest, Ends
<1>2. CASE \A g \in Flushers \ {f} : flush'[g] = flush[g]
  <2>1. Covered <= Covered' /\ Covered \in Nat /\ Covered' \in Nat
    <3>1. Covered' \in Nat
      <4>1. ReplayInto(EmptyCore, files') \in Cores
        <5> DEFINE listed == ListSeqFiles(files')
                   n == NextSeq(NamesOf(listed))
        <5>1. listed \in SUBSET Files /\ EmptyCore \in Cores
          BY DEF TypeInv, TypeOK, ListSeqFiles, EmptyCore, Cores
        <5>2. n \in Nat
          <6>1. NamesOf(listed) \in SUBSET Nat
            BY <5>1 DEF NamesOf, Files
          <6>2. HasNewest(NamesOf(listed))
            BY DEF TypeInv, NewestExists
          <6> HIDE DEF listed
          <6> QED
            BY <6>1, <6>2, NextSeqAbove DEF HasNewest
        <5>3. ReplayInto(EmptyCore, files') = Replay(EmptyCore, listed)[n]
          BY DEF ReplayInto
        <5> HIDE DEF listed, n
        <5> QED
          BY <5>1, <5>2, <5>3, ReplayDefined
      <4> QED
        BY <4>1, PrefixIsLongest DEF Covered, Cores
    <3> QED
      BY StepExtends, FolderReplay, <3>1
  <2>2. faults' = 0 => faults = 0
    <3>1. faults \in Nat
      BY DEF Ready, TypeInv, TypeOK
    <3>2. faults' = faults \/ faults' = faults + 1
      BY DEF Next, AppendBlock, LoseCapture, HydrateFile, List, FlushStep, OpenCapture, Rebuild,
         Accept, FlushDone, FlushThrows, Over, Commit, WriteFails, Crash, vars
    <3> QED
      BY <3>1, <3>2
  <2>3. \A g \in Flushers : flush[g].end \in Nat
    BY <1>0 DEF FlushStates
  <2> QED
    BY <1>0, <1>2, <2>1, <2>2, <2>3 DEF Rest, Ends
<1>3. ASSUME \E s : Becomes(f, s)
      PROVE  \A g \in Flushers \ {f} : flush'[g] = flush[g]
  BY <1>0, <1>3 DEF Becomes
<1>4. CASE UNCHANGED flush
  BY <1>2, <1>4
<1>5. CASE AppendBlock \/ LoseCapture \/ HydrateFile \/ UNCHANGED vars
  BY <1>4, <1>5 DEF AppendBlock, LoseCapture, HydrateFile, vars
<1>6. ASSUME NEW w \in writes, Commit(w) \/ WriteFails(w)
      PROVE  Rest(f)' /\ Ends(f)'
  <2>1. CASE Commit(w)
    BY <1>4, <2>1, Committed
  <2>2. CASE WriteFails(w)
    BY <1>0, <1>2, <1>3, <1>4, <2>2 DEF WriteFails
  <2> QED
    BY <1>6, <2>1, <2>2
<1>7. ASSUME NEW g \in Flushers, FlushStep(g)
      PROVE  Rest(f)' /\ Ends(f)'
  <2>1. FlushStep(f)
    BY <1>7, OnlyOneRuns
  <2>2. (\E s : Becomes(f, s)) \/ UNCHANGED flush
    <3>1. Accept(f) => (\E s : Becomes(f, s))
      <4>1. Accept(f) => verify = <<f>>
        BY DEF Accept, Ready, CoverInv, Alone
      <4>2. <<f>> # <<>> /\ Head(<<f>>) = f
        OBVIOUS
      <4> QED
        BY <4>1, <4>2 DEF Accept, Number
    <3> QED
      BY <2>1, <3>1 DEF FlushStep, OpenCapture, Decide, Rebuild, FlushDone, FlushThrows, Over
  <2> QED
    BY <1>2, <1>3, <1>4, <2>2
<1> QED
  BY <1>1, <1>5, <1>6, <1>7 DEF Next

LEMMA NextCover ==
    ASSUME NEW f, Ready(f), TypeInv', NamesFit', [Next]_vars, ~raced'
    PROVE  \E g \in Flushers : CoverInv(g)'
<1>1. CASE \E g \in Flushers : List(g)
  BY <1>1, ListCover
<1>2. CASE ~\E g \in Flushers : List(g)
  <2>1. NumbersFresh(f)' /\ Rest(f)' /\ Ends(f)' /\ f \in Flushers
    BY <1>2, NextFresh, OthersKept, ReadyTypes
  <2>2. KeepsCover(f)
    <3>1. CASE AppendBlock \/ HydrateFile \/ UNCHANGED vars
      BY <3>1, QuietCover DEF AppendBlock, HydrateFile, vars
    <3>2. CASE Crash
      BY <3>2, CrashCover
    <3>3. CASE LoseCapture
      BY <3>3, LoseCover
    <3>4. CASE \E g \in Flushers : FlushStep(g)
      <4>1. FlushStep(f)
        BY <3>4, OnlyOneRuns
      <4> QED
        BY <4>1, OpenCover, RebuildCover, AcceptCover, DoneCover, ThrowsCover DEF FlushStep
    <3>5. CASE \E w \in writes : Commit(w) \/ WriteFails(w)
      BY <3>5, CommitCover, FailsCover
    <3> QED
      BY <1>2, <3>1, <3>2, <3>3, <3>4, <3>5 DEF Next
  <2> QED
    BY <2>1, <2>2 DEF KeepsCover, CoverInv
<1> QED
  BY <1>1, <1>2

\* What has raced stays so, and a call that begins changes no file.
LEMMA RacedStays ==
    ASSUME [Next]_vars
    PROVE  raced => raced'
  BY DEF Next, AppendBlock, Crash, LoseCapture, HydrateFile, List, FlushStep, OpenCapture,
     Rebuild, Accept, FlushDone, FlushThrows, Over, Commit, WriteFails, vars

LEMMA NextOrderly ==
    TypeInv /\ WithinLog /\ NamesFit /\ Orderly /\ TypeInv' /\ NamesFit' /\ [Next]_vars
      => Orderly'
<1> SUFFICES ASSUME TypeInv, WithinLog, NamesFit, Orderly, TypeInv', NamesFit', [Next]_vars,
                    ~raced'
             PROVE  \E g \in Flushers : CoverInv(g)'
  BY DEF Orderly
<1>1. PICK f \in Flushers : CoverInv(f)
  BY RacedStays DEF Orderly
<1> QED
  BY <1>1, NextCover DEF Ready

LEMMA InitOrderly == Init => TypeInv /\ WithinLog /\ Orderly
<1> SUFFICES ASSUME Init PROVE Orderly
  BY InitTypes, InitWithin
<1>1. PICK f \in Flushers : TRUE
  BY ConstantsOK
<1> QED
  BY <1>1, InitCover DEF Orderly

-----------------------------------------------------------------------------
(* The theorems.  Any number of calls, deaths, failed writes, rebuilds and  *)
(* appends, until the file names run out of digits.                         *)

\* "Committed files are never rewritten, renamed, or deleted" (docs/
\* workspace-format.md:712): true until a call numbers its files from a listing that
\* others, on the way, are missing from.
THEOREM SettledFilesAreKept == Spec /\ []NamesFit => SettledFilesStay
<1>1. TypeInv /\ WithinLog /\ NamesFit /\ Orderly /\ [Next]_vars
        => [raced' \/ files \subseteq files']_<<files, raced>>
  <2> SUFFICES ASSUME TypeInv, WithinLog, NamesFit, Orderly, [Next]_vars, ~raced'
               PROVE  files \subseteq files'
    OBVIOUS
  <2>1. PICK f \in Flushers : CoverInv(f)
    BY RacedStays DEF Orderly
  <2>2. CASE \E g \in Flushers : List(g)
    BY <2>2 DEF List
  <2>3. CASE ~\E g \in Flushers : List(g)
    BY <2>1, <2>3, NextFresh DEF Ready
  <2> QED
    BY <2>2, <2>3
<1> QED
  BY <1>1, InitOrderly, NextTypes, NextWithin, NextOrderly, PTL DEF Spec, SettledFilesStay

\* flushLogToDir (packages/p2p-runtime/src/transport-form.ts:124-194): barring faults,
\* the blocks the log had when a flush started are in the folder once it has returned
\* and the files that it left being written are in place, and stay recoverable, until
\* numberings have raced.
THEOREM FlushesCover == Spec /\ []NamesFit => []DownloadedRangeCovered
<1>1. TypeInv /\ WithinLog /\ NamesFit /\ Orderly => DownloadedRangeCovered
  <2> SUFFICES ASSUME TypeInv, WithinLog, NamesFit, Orderly, ~raced, \A w \in writes : ~w.late,
                      faults = 0, NEW g \in Flushers, flush[g].pc = "idle"
               PROVE  flush[g].end <= Covered
    BY DEF DownloadedRangeCovered, ReturnedIsCovered
  <2>1. PICK f \in Flushers : CoverInv(f)
    BY DEF Orderly
  <2>2. Ready(f)
    BY <2>1 DEF Ready
  <2>3. CASE g # f
    BY <2>1, <2>3 DEF CoverInv, Ends
  <2>4. CASE g = f
    <3>1. writes = {}
      BY <2>1, <2>4 DEF CoverInv, Alone
    <3>2. Prefix[Replay(EmptyCore, AllFiles)[flush[f].seq]] = Covered
      BY <2>2, <3>1, FolderReplay DEF Covered
    <3> QED
      BY <2>1, <2>4, <3>2 DEF CoverInv, Covers
  <2> QED
    BY <2>3, <2>4
<1> QED
  BY <1>1, InitOrderly, NextTypes, NextWithin, NextOrderly, PTL DEF Spec

\* "Its length is exactly what previous flushes have written" (transport-form.ts:117):
\* the capture replica claims nothing that replaying the folder does not give, through
\* any number of crashes, rebuilds and re-captures, unless a message in flight was lost
\* or numberings have raced.
THEOREM CaptureIsInFolder == Spec /\ []NamesFit => []CaptureWithinFolder
<1>1. TypeInv /\ WithinLog /\ NamesFit /\ Orderly => CaptureWithinFolder
  <2> SUFFICES ASSUME TypeInv, WithinLog, NamesFit, Orderly, writes = {}, ~lost, ~raced
               PROVE  Below(cap, ReplayInto(EmptyCore, files))
    BY DEF CaptureWithinFolder, Below
  <2>f. PICK f \in Flushers : CoverInv(f)
    BY DEF Orderly
  <2>r. Ready(f)
    BY <2>f DEF Ready
  <2> DEFINE r == Replay(EmptyCore, files)
             core == ReplayInto(EmptyCore, files)
  <2> SUFFICES Below(cap, core)
    OBVIOUS
  <2>1. core = r[flush[f].seq] /\ core \in Cores /\ AllFiles = files
    BY <2>r, FolderReplay
  <2>0. flush[f].seq \in Nat /\ files \in SUBSET Files /\ EmptyCore \in Cores
    BY <2>r, ReadyTypes
  <2> HIDE DEF core, r
  <2>2. CASE cap = EmptyCore
    BY <2>1, <2>2 DEF Below, EmptyCore, Cores
  <2>3. CASE \E n \in 0..flush[f].seq : cap = r[n]
    <3>1. PICK n \in 0..flush[f].seq : cap = r[n]
      BY <2>3
    <3>2. n \in Nat /\ n <= flush[f].seq
      BY <2>0
    <3>3. Below(r[n], r[flush[f].seq])
      BY <2>0, <3>2, ReplayGrows DEF r
    <3> QED
      BY <2>1, <3>1, <3>3
  <2>4. CASE cap = r[flush[f].seq]
    BY <2>1, <2>4 DEF Below, Cores
  <2>5. \/ cap = EmptyCore
        \/ \E n \in 0..flush[f].seq : cap = r[n]
        \/ cap = r[flush[f].seq]
    BY <2>1, <2>f DEF CoverInv, Mirrors, r
  <2> QED
    BY <2>2, <2>3, <2>4, <2>5
<1> QED
  BY <1>1, InitOrderly, NextTypes, NextWithin, NextOrderly, PTL DEF Spec

\* "A copy taken at any moment is valid but possibly stale" (docs/workspace-format.md,
\* flushLogToDir and hydrateFromTransportForm, transport-form.ts:90-194): through every
\* append, flush, file committed out of order, crash, failed write and lost capture,
\* what a device recovers from the folder is a prefix of the log; and it never shrinks
\* until numberings have raced.
THEOREM FolderIsPortable == Spec /\ []NamesFit => FolderSpec
<1>1. Init => Folder!Init
  BY InitTypes, InitWithin, CoveredWithin DEF Folder!Init, Init
<1>2. TypeInv /\ WithinLog => mainLen \in Nat /\ Covered \in 0..mainLen
  BY CoveredWithin
<1>3. TypeInv /\ WithinLog /\ NamesFit /\ Orderly /\ TypeInv' /\ NamesFit'
      /\ (mainLen \in Nat /\ Covered \in 0..mainLen)' /\ [Next]_vars
        => [Folder!Next]_(Folder!vars)
  <2> SUFFICES ASSUME TypeInv, WithinLog, NamesFit, Orderly, TypeInv', NamesFit',
                      mainLen' \in Nat, Covered' \in 0..mainLen', [Next]_vars
               PROVE  [Folder!Next]_(Folder!vars)
    OBVIOUS
  <2>1. mainLen \in Nat /\ Covered \in 0..mainLen
    BY CoveredWithin
  <2>2. CASE mainLen' = mainLen + 1 /\ Covered' = Covered /\ raced' = raced
    BY <2>2 DEF Folder!Next, Folder!Write
  <2>3. CASE mainLen' = mainLen /\ Covered <= Covered' /\ raced' = raced
    BY <2>1, <2>3 DEF Folder!Next, Folder!Publish, Folder!vars
  <2>4. CASE raced /\ raced' = raced /\ mainLen' = mainLen
    BY <2>4 DEF Folder!Next, Folder!Overwrite
  <2>5. CASE raced' = TRUE /\ UNCHANGED <<mainLen, files>>
    <3>1. Covered' = Covered
      BY <2>5 DEF Covered
    <3> QED
      BY <2>5, <3>1 DEF Folder!Next, Folder!Race
  <2>6. CASE \E g \in Flushers : List(g)
    <3>1. UNCHANGED <<mainLen, files>> /\ raced' \in BOOLEAN /\ raced \in BOOLEAN
      BY <2>6 DEF List, TypeInv, TypeOK
    <3>2. Covered' = Covered
      BY <3>1 DEF Covered
    <3>3. CASE raced'
      BY <2>5, <3>1, <3>3
    <3>4. CASE ~raced'
      <4>1. raced' = raced
        BY <3>1, <3>4, RacedStays
      <4> QED
        BY <2>1, <2>3, <3>1, <3>2, <4>1
    <3> QED
      BY <3>3, <3>4
  <2>7. CASE ~\E g \in Flushers : List(g)
    <3>1. UNCHANGED raced
      BY <2>7 DEF Next, AppendBlock, Crash, LoseCapture, HydrateFile, FlushStep, OpenCapture,
         Rebuild, Accept, FlushDone, FlushThrows, Over, Commit, WriteFails, vars
    <3>2. CASE ~raced
      <4>1. PICK f \in Flushers : CoverInv(f)
        BY <3>2 DEF Orderly
      <4>2. Covered <= Covered' /\ (mainLen' = mainLen
                                    \/ (mainLen' = mainLen + 1 /\ Covered' = Covered))
        BY <4>1, StepExtends DEF Ready
      <4> QED
        BY <2>2, <2>3, <3>1, <4>2
    <3>3. CASE raced
      <4>1. CASE AppendBlock
        <5>1. Covered' = Covered /\ mainLen' = mainLen + 1
          BY <4>1 DEF AppendBlock, Covered
        <5> QED
          BY <2>2, <3>1, <5>1
      <4>2. CASE ~AppendBlock
        <5>1. mainLen' = mainLen
          BY <2>7, <4>2 DEF Next, Crash, LoseCapture, HydrateFile, FlushStep, OpenCapture,
             Rebuild, Accept, FlushDone, FlushThrows, Over, Commit, WriteFails, vars
        <5> QED
          BY <2>4, <3>1, <3>3, <5>1
      <4> QED
        BY <4>1, <4>2
    <3> QED
      BY <3>2, <3>3
  <2> QED
    BY <2>6, <2>7
<1> QED
  BY <1>1, <1>2, <1>3, InitOrderly, NextTypes, NextWithin, NextOrderly, PTL
  DEF Spec, FolderSpec, Folder!Spec
=============================================================================
