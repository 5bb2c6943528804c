------------------------------ MODULE KeyDelivery ------------------------------
(***************************************************************************)
(* Live key delivery (packages/portable-bootstrap/src/key-delivery.ts):    *)
(* envelopes appended to a log by the one store that writes it, and the    *)
(* scan by which a member finds those addressed to it, from a cursor, one  *)
(* block at a time, while the log grows.                                   *)
(*                                                                         *)
(* The caller keeps what a scan returns, deliveries and cursor, and scans  *)
(* from there the next time, one scan at a time; src/ has no such caller.  *)
(***************************************************************************)
EXTENDS Integers, Sequences

CONSTANTS
    Members,
    MaxBlocks    \* bound: blocks of the log

ASSUME BlocksAssumption == MaxBlocks \in Nat

Kinds == {"good", "bad", "other"}  \* a delivery, one that is refused, another block

VARIABLES
    log,      \* the blocks: for whom, and of what kind
    length,   \* what each member's replica knows of it
    closed,   \* members whose log is closed
    cursor,   \* what each member's last scan returned
    found,    \* deliveries, by their blocks, that scans returned
    scan,     \* the scan under way: where it is, where it ends, what it has found
    skipped   \* history: blocks a scan could not get

deliveryVars == <<log, length, closed, cursor, found, scan, skipped>>

NoScan == [on |-> FALSE, index |-> 0, to |-> 0, deliveries |-> {}]

DeliveryInit ==
    /\ log = <<>>
    /\ length = [m \in Members |-> 0]
    /\ closed = {}
    /\ cursor = [m \in Members |-> 0]
    /\ found = [m \in Members |-> {}]
    /\ scan = [m \in Members |-> NoScan]
    /\ skipped = [m \in Members |-> {}]

\* publishDelivery; the writer may append other blocks, and an envelope's delegation
\* may be refused, or its key not unwrap.
PublishDelivery ==
    /\ Len(log) < MaxBlocks
    /\ \E m \in Members : \E k \in Kinds : log' = Append(log, [to |-> m, kind |-> k])
    /\ UNCHANGED <<length, closed, cursor, found, scan, skipped>>

\* A delegation runs out.
Lapse ==
    /\ \E i \in DOMAIN log : log[i].kind = "good" /\ log' = [log EXCEPT ![i].kind = "bad"]
    /\ UNCHANGED <<length, closed, cursor, found, scan, skipped>>

\* A replica hears how long the log is, or that it is longer.
Replicate(m) ==
    /\ length[m] < Len(log)
    /\ \E n \in (length[m] + 1)..Len(log) : length' = [length EXCEPT ![m] = n]
    /\ UNCHANGED <<log, closed, cursor, found, scan, skipped>>

Close(m) ==
    /\ m \notin closed
    /\ closed' = closed \cup {m}
    /\ UNCHANGED <<log, length, cursor, found, scan, skipped>>

BeginScan(m) ==
    /\ ~scan[m].on
    /\ scan' = [scan EXCEPT ![m] =
                    [on |-> TRUE, index |-> cursor[m], to |-> length[m], deliveries |-> {}]]
    /\ UNCHANGED <<log, length, closed, cursor, found, skipped>>

\* A refused block would end the scan, with nothing returned.
PastOrThrows(m, i) ==
    IF log[i] = [to |-> m, kind |-> "bad"] THEN NoScan
    ELSE [scan[m] EXCEPT !.index = i,
                         !.deliveries = @ \cup {j \in {i} : log[j] = [to |-> m, kind |-> "good"]}]

\* The scan past block i: consumeEnvelope takes what is addressed to m and stands;
\* what is refused, for another or of another kind is passed over.
Past(m, i) ==
    [scan[m] EXCEPT !.index = i,
                    !.deliveries = @ \cup {j \in {i} : log[j] = [to |-> m, kind |-> "good"]}]

GetReturns(m) ==
    /\ scan[m].on /\ scan[m].index < scan[m].to /\ m \notin closed
    /\ scan' = [scan EXCEPT ![m] = Past(m, scan[m].index + 1)]
    /\ UNCHANGED <<log, length, closed, cursor, found, skipped>>

\* A block that cannot be got, of a log that is closed or open, is taken like one that
\* cannot be parsed.
GetFails(m) ==
    /\ scan[m].on /\ scan[m].index < scan[m].to
    /\ scan' = [scan EXCEPT ![m].index = @ + 1]
    /\ skipped' = [skipped EXCEPT ![m] = @ \cup {scan[m].index + 1}]
    /\ UNCHANGED <<log, length, closed, cursor, found>>

\* The length when the scan returns.
ScannedNow(m) == length[m]

\* The cursor is the length the scan began with.
Scanned(m) == scan[m].to

ScanReturns(m) ==
    /\ scan[m].on /\ scan[m].index = scan[m].to
    /\ cursor' = [cursor EXCEPT ![m] = Scanned(m)]
    /\ found' = [found EXCEPT ![m] = @ \cup scan[m].deliveries]
    /\ scan' = [scan EXCEPT ![m] = NoScan]
    /\ UNCHANGED <<log, length, closed, skipped>>

ScanStep(m) == GetReturns(m) \/ GetFails(m) \/ ScanReturns(m)
DeliveryNext ==
    \/ PublishDelivery \/ Lapse
    \/ \E m \in Members : Replicate(m) \/ Close(m) \/ BeginScan(m) \/ ScanStep(m)

\* The log replicates and its blocks come; the member scans again and again.
DeliveryFairness ==
    \A m \in Members :
        WF_deliveryVars(Replicate(m)) /\ WF_deliveryVars(BeginScan(m)) /\ WF_deliveryVars(ScanStep(m))

DeliverySpec == DeliveryInit /\ [][DeliveryNext]_deliveryVars /\ DeliveryFairness

-----------------------------------------------------------------------------
(* Properties. *)

DeliveryTypeOK ==
    /\ log \in Seq([to : Members, kind : Kinds]) /\ Len(log) <= MaxBlocks
    /\ length \in [Members -> 0..MaxBlocks] /\ cursor \in [Members -> 0..MaxBlocks]
    /\ closed \subseteq Members
    /\ found \in [Members -> SUBSET (1..MaxBlocks)] /\ skipped \in [Members -> SUBSET (1..MaxBlocks)]
    /\ scan \in [Members -> [on : BOOLEAN, index : 0..MaxBlocks, to : 0..MaxBlocks,
                             deliveries : SUBSET (1..MaxBlocks)]]

\* A scan from the cursor misses nothing: every delivery to a member below its
\* cursor was returned by some scan, however the log grew meanwhile, unless it had
\* run out or its block could not be got.
DeliveriesFound ==
    \A m \in Members : \A i \in 1..cursor[m] :
        log[i] = [to |-> m, kind |-> "good"] => i \in found[m] \cup skipped[m]

\* What is delivered to a member arrives, whatever blocks it is among and whichever of
\* those could not be got, unless its own block could not be, it runs out before or
\* the member's log is closed.
DeliveryArrives ==
    \A m \in Members : \A i \in 1..MaxBlocks :
        (i \in DOMAIN log /\ log[i] = [to |-> m, kind |-> "good"])
            ~> (i \in found[m] \cup skipped[m] \/ m \in closed \/ (i \in DOMAIN log /\ log[i].kind = "bad"))
=============================================================================
