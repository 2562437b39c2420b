------------------------------- MODULE Metrics -------------------------------
(***************************************************************************)
(* crates/quicview/src/metrics.rs: counters shared by the viewers' tasks   *)
(* and by whoever takes a snapshot.  Every fetch_add, fetch_sub and load   *)
(* is Relaxed: each is atomic, but what one call does to different         *)
(* counters may take effect in any order and between steps of other tasks. *)
(* As in `serve`, a viewer is opened before its task starts and closed by  *)
(* that task (main.rs:85-102).                                             *)
(***************************************************************************)
EXTENDS Integers, FiniteSets

CONSTANTS
  Tasks,           \* viewers, each with the calls made for it
  Sizes,           \* sizes of frames
  Modulus,         \* AtomicU64 wraps: 2^64 in the code
  MaxRecords       \* bound: frames and errors that a viewer records

ASSUME MetricsAssumption ==
  /\ IsFiniteSet(Tasks)
  /\ Sizes \subseteq Nat
  /\ Modulus \in Nat \ {0}
  /\ Cardinality(Tasks) < Modulus
  /\ MaxRecords \in Nat

Fields == {"frames_sent", "frames_received", "bytes_sent", "bytes_received",
           "active_connections", "total_connections", "errors"}
Gauge == "active_connections"
Counters == Fields \ {Gauge}

VARIABLES
  inner,           \* the atomics
  life,            \* per task: "new", "open" or "closed"
  call,            \* per task: the call it is in, or Idle
  pending,         \* per task: the fields that call has still to update
  records,         \* per task: frames and errors it has recorded
  begun,           \* history: per field, what all calls so far amount to
  settled,         \* history: per field, what the calls that are over amount to
  reader,          \* snapshot(): "idle", "loading" or "done"
  left,            \* the fields it has still to load
  snap,            \* the values it has loaded
  floor            \* history: what the calls that were over before it amounted to

tasks == <<life, call, pending, records, begun, settled>>
snapshot == <<reader, left, snap, floor>>
metricsVars == <<inner, tasks, snapshot>>

Call(name, n) == [name |-> name, bytes |-> n]
Idle == Call("idle", 0)
Calls ==
  {Idle, Call("connection_opened", 0), Call("connection_closed", 0),
   Call("record_error", 0)}
    \cup {Call(name, n) : name \in {"record_frame_sent", "record_frame_received"},
                          n \in Sizes}

\* What a call adds to each field it updates.
Effect(c) ==
  CASE c.name = "record_frame_sent" ->
         [f \in {"frames_sent", "bytes_sent"} |->
            IF f = "frames_sent" THEN 1 ELSE c.bytes]
    [] c.name = "record_frame_received" ->
         [f \in {"frames_received", "bytes_received"} |->
            IF f = "frames_received" THEN 1 ELSE c.bytes]
    [] c.name = "connection_opened" ->
         [f \in {"active_connections", "total_connections"} |-> 1]
    [] c.name = "connection_closed" -> [f \in {"active_connections"} |-> -1]
    [] c.name = "record_error" -> [f \in {"errors"} |-> 1]
    [] OTHER -> [f \in {} |-> 0]

Amount(c, f) == IF f \in DOMAIN Effect(c) THEN Effect(c)[f] ELSE 0

MetricsInit ==
  /\ inner = [f \in Fields |-> 0]
  /\ life = [t \in Tasks |-> "new"]
  /\ call = [t \in Tasks |-> Idle]
  /\ pending = [t \in Tasks |-> {}]
  /\ records = [t \in Tasks |-> 0]
  /\ begun = [f \in Fields |-> 0]
  /\ settled = [f \in Fields |-> 0]
  /\ reader = "idle"
  /\ left = {}
  /\ snap = [f \in Fields |-> 0]
  /\ floor = [f \in Fields |-> 0]

-----------------------------------------------------------------------------
Begin(t, c) ==
  /\ call[t] = Idle
  /\ call' = [call EXCEPT ![t] = c]
  /\ pending' = [pending EXCEPT ![t] = DOMAIN Effect(c)]
  /\ begun' = [f \in Fields |-> begun[f] + Amount(c, f)]
  /\ UNCHANGED <<inner, settled, snapshot>>

ConnectionOpened(t) ==
  /\ life[t] = "new"
  /\ life' = [life EXCEPT ![t] = "open"]
  /\ Begin(t, Call("connection_opened", 0))
  /\ UNCHANGED records

RecordCall(t, c) ==
  /\ life[t] = "open"
  /\ records[t] < MaxRecords
  /\ records' = [records EXCEPT ![t] = @ + 1]
  /\ Begin(t, c)
  /\ UNCHANGED life

\* Mutant: the viewer's task runs before the viewer is opened.
ConnectionClosedUnordered(t) ==
  /\ life[t] # "closed"
  /\ life' = [life EXCEPT ![t] = "closed"]
  /\ Begin(t, Call("connection_closed", 0))
  /\ UNCHANGED records

ConnectionClosed(t) ==
  /\ life[t] = "open"
  /\ life' = [life EXCEPT ![t] = "closed"]
  /\ Begin(t, Call("connection_closed", 0))
  /\ UNCHANGED records

\* Mutants: sums that saturate, and sums that do not wrap.
AddSaturating(f, n) ==
  inner' = [inner EXCEPT ![f] = IF @ + n < Modulus THEN @ + n ELSE Modulus - 1]

AddUnbounded(f, n) == inner' = [inner EXCEPT ![f] = @ + n]

\* One fetch_add or fetch_sub.
Add(f, n) == inner' = [inner EXCEPT ![f] = (@ + n) % Modulus]

Update(t, f) ==
  /\ f \in pending[t]
  /\ Add(f, Effect(call[t])[f])
  /\ pending' = [pending EXCEPT ![t] = @ \ {f}]
  /\ IF pending[t] = {f}
     THEN /\ call' = [call EXCEPT ![t] = Idle]
          /\ settled' = [g \in Fields |-> settled[g] + Amount(call[t], g)]
     ELSE UNCHANGED <<call, settled>>
  /\ UNCHANGED <<life, records, begun, snapshot>>

-----------------------------------------------------------------------------
\* The first load of a snapshot is a step of its own.
SnapshotCall ==
  /\ reader # "loading"
  /\ reader' = "loading"
  /\ left' = Fields
  /\ snap' = [f \in Fields |-> 0]
  /\ floor' = settled
  /\ UNCHANGED <<inner, tasks>>

\* Mutant: a field is loaded from its neighbour.
LoadTotalFromActive(f) ==
  /\ reader = "loading"
  /\ f \in left
  /\ snap' = [snap EXCEPT ![f] = inner[IF f = "total_connections" THEN Gauge ELSE f]]
  /\ left' = left \ {f}
  /\ reader' = IF left = {f} THEN "done" ELSE "loading"
  /\ UNCHANGED <<inner, tasks, floor>>

Load(f) ==
  /\ reader = "loading"
  /\ f \in left
  /\ snap' = [snap EXCEPT ![f] = inner[f]]
  /\ left' = left \ {f}
  /\ reader' = IF left = {f} THEN "done" ELSE "loading"
  /\ UNCHANGED <<inner, tasks, floor>>

MetricsNext ==
  \/ \E t \in Tasks :
       \/ ConnectionOpened(t)
       \/ ConnectionClosed(t)
       \/ \E n \in Sizes : RecordCall(t, Call("record_frame_sent", n))
       \/ \E n \in Sizes : RecordCall(t, Call("record_frame_received", n))
       \/ RecordCall(t, Call("record_error", 0))
       \/ \E f \in Fields : Update(t, f)
  \/ SnapshotCall
  \/ \E f \in Fields : Load(f)

MetricsSpec == MetricsInit /\ [][MetricsNext]_metricsVars

-----------------------------------------------------------------------------
(* Properties                                                              *)

MetricsTypeOK ==
  /\ inner \in [Fields -> 0..Modulus - 1]
  /\ life \in [Tasks -> {"new", "open", "closed"}]
  /\ call \in [Tasks -> Calls]
  /\ pending \in [Tasks -> SUBSET Fields]
  /\ records \in [Tasks -> 0..MaxRecords]
  /\ begun \in [Fields -> Int]
  /\ settled \in [Fields -> Int]
  /\ reader \in {"idle", "loading", "done"}
  /\ left \in SUBSET Fields
  /\ snap \in [Fields -> 0..Modulus - 1]
  /\ floor \in [Fields -> Int]

\* "Thread-safe, lock-free counters" (metrics.rs:7): when no call is under way
\* every counter is what all the calls amount to, none of them lost.
NothingLost ==
  (\A t \in Tasks : call[t] = Idle) => \A f \in Fields : inner[f] = begun[f] % Modulus

\* The gauge of viewers never wraps below zero, in the middle of calls as well
\* (metrics.rs:64-68).
GaugeInRange == inner[Gauge] <= Cardinality(Tasks)

\* A snapshot has each call that was over before it, and none that was not yet
\* made when it ended (metrics.rs:74-85).
SnapshotCoversFinished ==
  reader = "done" =>
    \A f \in Counters :
      begun[f] < Modulus => floor[f] <= snap[f] /\ snap[f] <= begun[f]
=============================================================================
