---------------------------- MODULE MetricsProofs ----------------------------
(***************************************************************************)
(* Proofs about Metrics, for any tasks, frame sizes and width of the       *)
(* atomics.  The inductive invariant accounts for the calls under way:     *)
(* what they ask of a counter is part of what is begun and not settled,    *)
(* and what of it they still owe is all that the counter lacks.            *)
(***************************************************************************)
EXTENDS Metrics, FiniteSetTheorems, TLAPS

-----------------------------------------------------------------------------
(* Sums as counts                                                          *)

\* A sum over the tasks is the size of a set: for every task a block of as many
\* elements as it contributes.
Block(t, n) == {t} \X (1..n)
Blocks(w) == UNION {Block(t, w[t]) : t \in Tasks}
SumOf(w) == Cardinality(Blocks(w))

LEMMA BlockCount ==
  ASSUME NEW t, NEW n \in Nat
  PROVE  IsFiniteSet(Block(t, n)) /\ Cardinality(Block(t, n)) = n
<1>1. IsFiniteSet({t}) /\ Cardinality({t}) = 1
  BY FS_Singleton
<1>2. IsFiniteSet(1..n) /\ Cardinality(1..n) = n
  BY FS_Interval
<1>3. /\ IsFiniteSet({t} \X (1..n))
      /\ Cardinality({t} \X (1..n)) = Cardinality({t}) * Cardinality(1..n)
  BY <1>1, <1>2, FS_Product
<1>4. 1 * n = n
  OBVIOUS
<1> QED  BY <1>1, <1>2, <1>3, <1>4 DEF Block

\* A task that contributed nothing and now contributes n adds n to the sum.
LEMMA SumGrows ==
  ASSUME NEW w \in [Tasks -> Nat], NEW v \in [Tasks -> Nat], NEW t \in Tasks,
         w[t] = 0, \A s \in Tasks \ {t} : v[s] = w[s], IsFiniteSet(Blocks(w))
  PROVE  /\ IsFiniteSet(Blocks(v)) /\ SumOf(w) \in Nat
         /\ SumOf(v) = SumOf(w) + v[t]
<1>1. Block(t, w[t]) = {}
  BY DEF Block
<1>2. Blocks(v) = Blocks(w) \cup Block(t, v[t])
  BY <1>1 DEF Blocks
<1>3. Blocks(w) \cap Block(t, v[t]) = {}
  <2>1. ASSUME NEW x \in Blocks(w), x \in Block(t, v[t])
        PROVE  FALSE
    <3>1. PICK s \in Tasks : x \in Block(s, w[s])
      BY <2>1 DEF Blocks
    <3>2. x[1] = s /\ x[1] = t
      BY <2>1, <3>1 DEF Block
    <3> QED  BY <1>1, <3>1, <3>2
  <2> QED  BY <2>1
<1>4. IsFiniteSet(Block(t, v[t])) /\ Cardinality(Block(t, v[t])) = v[t]
  BY BlockCount
<1>5. /\ IsFiniteSet(Blocks(w) \cup Block(t, v[t]))
      /\ Cardinality(Blocks(w) \cup Block(t, v[t]))
           = Cardinality(Blocks(w)) + Cardinality(Block(t, v[t]))
               - Cardinality(Blocks(w) \cap Block(t, v[t]))
  BY <1>4, FS_Union
<1>6. Cardinality({}) = 0 /\ Cardinality(Blocks(w)) \in Nat
  BY FS_EmptySet, FS_CardinalityType
<1>7. v[t] \in Nat
  OBVIOUS
<1>8. Cardinality(Blocks(v)) = Cardinality(Blocks(w)) + v[t] - 0
  BY <1>2, <1>3, <1>4, <1>5, <1>6
<1>9. IsFiniteSet(Blocks(v))
  BY <1>2, <1>5
<1> QED  BY <1>6, <1>7, <1>8, <1>9 DEF SumOf

\* A sum of smaller contributions is no larger.
LEMMA SumMonotone ==
  ASSUME NEW w \in [Tasks -> Nat], NEW v \in [Tasks -> Nat],
         \A t \in Tasks : v[t] <= w[t], IsFiniteSet(Blocks(w))
  PROVE  /\ IsFiniteSet(Blocks(v)) /\ SumOf(v) \in Nat /\ SumOf(w) \in Nat
         /\ SumOf(v) <= SumOf(w)
<1>1. \A t \in Tasks : 1..v[t] \subseteq 1..w[t]
  OBVIOUS
<1>2. Blocks(v) \in SUBSET Blocks(w)
  BY <1>1 DEF Blocks, Block
<1> QED  BY <1>2, FS_Subset, FS_CardinalityType DEF SumOf

LEMMA SumOfNothing ==
  ASSUME NEW w \in [Tasks -> Nat], \A t \in Tasks : w[t] = 0
  PROVE  IsFiniteSet(Blocks(w)) /\ SumOf(w) = 0
<1>1. Blocks(w) = {}
  BY DEF Blocks, Block
<1> QED  BY <1>1, FS_EmptySet DEF SumOf

-----------------------------------------------------------------------------
(* Wrapping sums                                                           *)

LEMMA DivMod ==
  ASSUME NEW m \in Nat \ {0}, NEW a \in Int
  PROVE  /\ a \div m \in Int /\ a % m \in 0..m-1
         /\ a = m * (a \div m) + (a % m)
  OBVIOUS

LEMMA SmallMod ==
  ASSUME NEW m \in Nat \ {0}, NEW a \in 0..m-1
  PROVE  a % m = a
  OBVIOUS

LEMMA NoMultipleBetween ==
  ASSUME NEW m \in Nat \ {0}, NEW k \in Int, m * k < m, m * k > 0 - m
  PROVE  k = 0
  OBVIOUS

\* Adding to a counter that has wrapped is adding before it wraps.
LEMMA WrapsOnce ==
  ASSUME NEW m \in Nat \ {0}, NEW a \in Int, NEW n \in Int
  PROVE  ((a % m) + n) % m = (a + n) % m
<1> DEFINE q1 == a \div m
           r1 == a % m
           q2 == (r1 + n) \div m
           r2 == (r1 + n) % m
           q3 == (a + n) \div m
           r3 == (a + n) % m
<1>1. q1 \in Int /\ r1 \in 0..m-1 /\ a = m * q1 + r1
  BY DivMod
<1>2. r1 + n \in Int /\ a + n \in Int
  BY <1>1
<1>3. q2 \in Int /\ r2 \in 0..m-1 /\ r1 + n = m * q2 + r2
  BY <1>2, DivMod
<1>4. q3 \in Int /\ r3 \in 0..m-1 /\ a + n = m * q3 + r3
  BY <1>2, DivMod
<1> HIDE DEF q1, r1, q2, r2, q3, r3
<1>5. m * q1 + (m * q2 + r2) = m * q3 + r3
  BY <1>1, <1>3, <1>4
<1>6. m * ((q1 + q2) - q3) = r3 - r2
  BY <1>1, <1>3, <1>4, <1>5
<1>7. (q1 + q2) - q3 = 0
  BY <1>1, <1>3, <1>4, <1>6, NoMultipleBetween
<1>8. r3 = r2
  BY <1>1, <1>3, <1>4, <1>6, <1>7
<1> QED  BY <1>8 DEF r1, r2, r3

-----------------------------------------------------------------------------
(* The calls                                                               *)

LEMMA EffectShape ==
  ASSUME NEW c \in Calls
  PROVE  /\ DOMAIN Effect(c) \subseteq Fields
         /\ \A f \in Counters : Amount(c, f) \in Nat
         /\ Amount(c, Gauge) \in Int
         /\ \A f \in DOMAIN Effect(c) : Effect(c)[f] = Amount(c, f)
         /\ \A f \in Fields \ DOMAIN Effect(c) : Amount(c, f) = 0
         /\ c = Idle <=> DOMAIN Effect(c) = {}
         /\ Gauge \in DOMAIN Effect(c) <=>
              c \in {Call("connection_opened", 0), Call("connection_closed", 0)}
<1> USE MetricsAssumption DEF Call, Fields, Counters, Gauge, Amount
<1>1. CASE c = Idle
  BY <1>1 DEF Effect, Idle
<1>2. CASE c = Call("connection_opened", 0)
  BY <1>2 DEF Effect, Idle
<1>3. CASE c = Call("connection_closed", 0)
  BY <1>3 DEF Effect, Idle
<1>4. CASE c = Call("record_error", 0)
  BY <1>4 DEF Effect, Idle
<1>5. CASE \E n \in Sizes : c = Call("record_frame_sent", n)
  BY <1>5 DEF Effect, Idle
<1>6. CASE \E n \in Sizes : c = Call("record_frame_received", n)
  BY <1>6 DEF Effect, Idle
<1> QED  BY <1>1, <1>2, <1>3, <1>4, <1>5, <1>6 DEF Calls

-----------------------------------------------------------------------------
(* The inductive invariant                                                 *)

\* What the calls under way amount to, and what of it is still to be added.
Asking(calls, f) == [t \in Tasks |-> Amount(calls[t], f)]
Owing(calls, fields, f) ==
  [t \in Tasks |-> IF f \in fields[t] THEN Amount(calls[t], f) ELSE 0]

CallsAndFields ==
  \A t \in Tasks :
    /\ pending[t] \subseteq DOMAIN Effect(call[t])
    /\ call[t] # Idle => pending[t] # {}

\* Every counter has what was asked of it but for what is owed, and what is
\* neither settled nor asked was never begun.
Balanced ==
  \A f \in Counters :
    /\ IsFiniteSet(Blocks(Asking(call, f)))
    /\ begun[f] \in Nat /\ settled[f] \in Nat
    /\ begun[f] = settled[f] + SumOf(Asking(call, f))
    /\ inner[f] = (begun[f] - SumOf(Owing(call, pending, f))) % Modulus

\* Tasks whose opening, and whose closing, has reached the gauge.
Opening(t) == call[t] = Call("connection_opened", 0)
Closing(t) == call[t] = Call("connection_closed", 0)
Born == {t \in Tasks : life[t] # "new"}
Dead == {t \in Tasks : life[t] = "closed"}
Opened == {t \in Born : ~(Opening(t) /\ Gauge \in pending[t])}
Gone == {t \in Dead : ~(Closing(t) /\ Gauge \in pending[t])}

GaugeCounts ==
  /\ \A t \in Tasks :
       /\ Opening(t) => life[t] = "open"
       /\ Closing(t) => life[t] = "closed"
       /\ life[t] = "new" => call[t] = Idle
  /\ inner[Gauge] = Cardinality(Opened) - Cardinality(Gone)
  /\ begun[Gauge] = Cardinality(Born) - Cardinality(Dead)

\* A snapshot's values are between what was settled before it and what was begun.
SnapshotBetween ==
  /\ reader # "idle" =>
       \A f \in Counters :
         /\ floor[f] \in Nat /\ floor[f] <= settled[f]
         /\ (f \notin left /\ begun[f] < Modulus)
              => (floor[f] <= snap[f] /\ snap[f] <= begun[f])
  /\ reader = "done" => left = {}

MetricsInv ==
  /\ MetricsTypeOK
  /\ CallsAndFields
  /\ Balanced
  /\ GaugeCounts
  /\ SnapshotBetween

LEMMA Contributions ==
  ASSUME NEW f \in Counters, NEW calls \in [Tasks -> Calls],
         NEW fields \in [Tasks -> SUBSET Fields]
  PROVE  /\ Asking(calls, f) \in [Tasks -> Nat]
         /\ Owing(calls, fields, f) \in [Tasks -> Nat]
         /\ \A t \in Tasks : Owing(calls, fields, f)[t] <= Asking(calls, f)[t]
<1>1. \A t \in Tasks : Amount(calls[t], f) \in Nat
  BY EffectShape
<1> QED  BY <1>1 DEF Asking, Owing

\* What is owed is part of what is asked, so a counter is between what is
\* settled and what is begun until it has wrapped.
LEMMA CounterBetween ==
  ASSUME MetricsTypeOK, Balanced, NEW f \in Counters
  PROVE  /\ IsFiniteSet(Blocks(Asking(call, f)))
         /\ IsFiniteSet(Blocks(Owing(call, pending, f)))
         /\ begun[f] \in Nat /\ settled[f] \in Nat
         /\ settled[f] <= begun[f]
         /\ begun[f] < Modulus => /\ settled[f] <= inner[f]
                                  /\ inner[f] <= begun[f]
<1> DEFINE a == Asking(call, f)
           o == Owing(call, pending, f)
<1>1. /\ a \in [Tasks -> Nat] /\ o \in [Tasks -> Nat]
      /\ \A t \in Tasks : o[t] <= a[t]
  BY Contributions DEF MetricsTypeOK
<1>2. /\ IsFiniteSet(Blocks(a))
      /\ begun[f] \in Nat /\ settled[f] \in Nat
      /\ begun[f] = settled[f] + SumOf(a)
      /\ inner[f] = (begun[f] - SumOf(o)) % Modulus
  BY DEF Balanced
<1> HIDE DEF a, o
<1>3. /\ IsFiniteSet(Blocks(o)) /\ SumOf(o) \in Nat /\ SumOf(a) \in Nat
      /\ SumOf(o) <= SumOf(a)
  BY <1>1, <1>2, SumMonotone
<1>4. settled[f] <= begun[f]
  BY <1>2, <1>3
<1>5. ASSUME begun[f] < Modulus
      PROVE  settled[f] <= inner[f] /\ inner[f] <= begun[f]
  <2>1. begun[f] - SumOf(o) \in 0..Modulus - 1
    BY <1>2, <1>3, <1>5, MetricsAssumption
  <2>2. inner[f] = begun[f] - SumOf(o)
    BY <1>2, <2>1, SmallMod, MetricsAssumption
  <2> QED  BY <1>2, <1>3, <2>2
<1> QED  BY <1>2, <1>3, <1>4, <1>5 DEF a, o

-----------------------------------------------------------------------------
(* The steps of the calls                                                  *)

LEMMA BeginBalances ==
  ASSUME MetricsTypeOK, CallsAndFields, Balanced, NEW t \in Tasks,
         NEW c \in Calls \ {Idle}, Begin(t, c)
  PROVE  CallsAndFields' /\ Balanced'
<1> USE DEF MetricsTypeOK
<1>1. /\ call[t] = Idle /\ Idle \in Calls
      /\ call' = [call EXCEPT ![t] = c]
      /\ pending' = [pending EXCEPT ![t] = DOMAIN Effect(c)]
      /\ begun' = [f \in Fields |-> begun[f] + Amount(c, f)]
      /\ inner' = inner /\ settled' = settled
  BY DEF Begin, Calls
<1>2. pending[t] = {} /\ DOMAIN Effect(Idle) = {} /\ DOMAIN Effect(c) # {}
  BY <1>1, EffectShape DEF CallsAndFields
<1>3. /\ call' \in [Tasks -> Calls] /\ pending' \in [Tasks -> SUBSET Fields]
      /\ call'[t] = c /\ pending'[t] = DOMAIN Effect(c)
      /\ \A s \in Tasks \ {t} : call'[s] = call[s] /\ pending'[s] = pending[s]
  BY <1>1, EffectShape
<1>4. CallsAndFields'
  BY <1>2, <1>3 DEF CallsAndFields
<1>5. ASSUME NEW f \in Counters
      PROVE  /\ IsFiniteSet(Blocks(Asking(call', f)))
             /\ begun'[f] \in Nat
             /\ begun'[f] = settled[f] + SumOf(Asking(call', f))
             /\ inner[f] = (begun'[f] - SumOf(Owing(call', pending', f))) % Modulus
  <2> DEFINE a == Asking(call, f)
             b == Asking(call', f)
             o == Owing(call, pending, f)
             p == Owing(call', pending', f)
  <2>1. /\ a \in [Tasks -> Nat] /\ b \in [Tasks -> Nat]
        /\ o \in [Tasks -> Nat] /\ p \in [Tasks -> Nat]
    BY <1>3, Contributions
  <2>2. a[t] = 0 /\ o[t] = 0 /\ b[t] = Amount(c, f) /\ p[t] = Amount(c, f)
    BY <1>1, <1>2, <1>3 DEF Asking, Owing, Amount
  <2>3. \A s \in Tasks \ {t} : b[s] = a[s] /\ p[s] = o[s]
    BY <1>3 DEF Asking, Owing
  <2>4. /\ IsFiniteSet(Blocks(a)) /\ IsFiniteSet(Blocks(o))
        /\ begun[f] \in Nat /\ settled[f] \in Nat
    BY CounterBetween
  <2>5. /\ begun[f] = settled[f] + SumOf(a)
        /\ inner[f] = (begun[f] - SumOf(o)) % Modulus
    BY DEF Balanced
  <2>6. begun'[f] = begun[f] + Amount(c, f) /\ Amount(c, f) \in Nat
    BY <1>1, EffectShape DEF Counters
  <2> HIDE DEF a, b, o, p
  <2>7. IsFiniteSet(Blocks(b)) /\ SumOf(a) \in Nat /\ SumOf(b) = SumOf(a) + Amount(c, f)
    BY <2>1, <2>2, <2>3, <2>4, SumGrows
  <2>8. SumOf(o) \in Nat /\ SumOf(p) = SumOf(o) + Amount(c, f)
    BY <2>1, <2>2, <2>3, <2>4, SumGrows
  <2>9. begun'[f] - SumOf(p) = begun[f] - SumOf(o)
    BY <2>4, <2>6, <2>8
  <2>10. begun'[f] = settled[f] + SumOf(b) /\ begun'[f] \in Nat
    BY <2>4, <2>5, <2>6, <2>7
  <2> QED  BY <2>5, <2>7, <2>9, <2>10 DEF b, p
<1> QED  BY <1>1, <1>4, <1>5, CounterBetween DEF Balanced

LEMMA UpdateBalances ==
  ASSUME MetricsTypeOK, CallsAndFields, Balanced, NEW t \in Tasks,
         NEW g \in Fields, Update(t, g)
  PROVE  CallsAndFields' /\ Balanced'
<1> USE DEF MetricsTypeOK
<1> DEFINE c == call[t]
<1>1. /\ g \in pending[t]
      /\ inner' = [inner EXCEPT ![g] = (@ + Effect(c)[g]) % Modulus]
      /\ pending' = [pending EXCEPT ![t] = @ \ {g}]
      /\ begun' = begun
      /\ IF pending[t] = {g}
         THEN /\ call' = [call EXCEPT ![t] = Idle]
              /\ settled' = [f \in Fields |-> settled[f] + Amount(c, f)]
         ELSE call' = call /\ settled' = settled
  BY DEF Update, Add
<1>2. c \in Calls /\ Idle \in Calls /\ DOMAIN Effect(Idle) = {}
  <2>1. c \in Calls /\ Idle \in Calls
    BY DEF Calls
  <2> QED  BY <2>1, EffectShape
<1>3. Effect(c)[g] = Amount(c, g)
  BY <1>1, <1>2, EffectShape DEF CallsAndFields
<1> HIDE DEF c
<1>4. /\ call' \in [Tasks -> Calls] /\ pending' \in [Tasks -> SUBSET Fields]
      /\ pending'[t] = pending[t] \ {g}
      /\ call'[t] = (IF pending[t] = {g} THEN Idle ELSE c)
      /\ \A s \in Tasks \ {t} : call'[s] = call[s] /\ pending'[s] = pending[s]
  BY <1>1, <1>2 DEF c
<1>5. CallsAndFields'
  BY <1>1, <1>2, <1>4 DEF CallsAndFields, c
<1>6. ASSUME NEW f \in Counters
      PROVE  /\ IsFiniteSet(Blocks(Asking(call', f)))
             /\ settled'[f] \in Nat
             /\ begun[f] = settled'[f] + SumOf(Asking(call', f))
  <2> DEFINE a == Asking(call, f)
             b == Asking(call', f)
  <2>1. a \in [Tasks -> Nat] /\ b \in [Tasks -> Nat] /\ f \in Fields
    BY <1>4, Contributions DEF Counters
  <2>2. /\ IsFiniteSet(Blocks(a)) /\ begun[f] \in Nat /\ settled[f] \in Nat
        /\ begun[f] = settled[f] + SumOf(a)
    BY DEF Balanced
  <2>3. CASE pending[t] # {g}
    BY <1>1, <2>2, <2>3
  <2>4. CASE pending[t] = {g}
    <3>1. b[t] = 0 /\ a[t] = Amount(c, f)
      BY <1>2, <1>4, <2>4 DEF Asking, Amount, c
    <3>2. \A s \in Tasks \ {t} : a[s] = b[s]
      BY <1>4 DEF Asking
    <3>3. settled'[f] = settled[f] + a[t] /\ a[t] \in Nat
      BY <1>1, <2>1, <2>4, <3>1
    <3> HIDE DEF a, b
    <3>4. \A s \in Tasks : b[s] <= a[s]
      BY <2>1, <3>1, <3>2
    <3>5. IsFiniteSet(Blocks(b))
      BY <2>1, <2>2, <3>4, SumMonotone
    <3>6. SumOf(b) \in Nat /\ SumOf(a) = SumOf(b) + a[t]
      BY <2>1, <3>1, <3>2, <3>5, SumGrows
    <3> QED  BY <2>2, <3>3, <3>5, <3>6 DEF a, b
  <2> QED  BY <2>3, <2>4
<1>7. ASSUME NEW f \in Counters
      PROVE  inner'[f] = (begun[f] - SumOf(Owing(call', pending', f))) % Modulus
  <2> DEFINE o == Owing(call, pending, f)
             p == Owing(call', pending', f)
  <2>1. o \in [Tasks -> Nat] /\ p \in [Tasks -> Nat] /\ f \in Fields
    BY <1>4, Contributions DEF Counters
  <2>2. /\ IsFiniteSet(Blocks(o)) /\ begun[f] \in Nat
        /\ inner[f] = (begun[f] - SumOf(o)) % Modulus
    BY CounterBetween DEF Balanced
  <2>3. \A s \in Tasks \ {t} : o[s] = p[s]
    BY <1>4 DEF Owing
  <2>4. CASE f # g
    <3>1. pending[t] = {g} => o[t] = 0 /\ p[t] = 0
      BY <1>4, <2>4 DEF Owing
    <3>2. pending[t] # {g} => o[t] = p[t]
      BY <1>1, <1>4, <2>4 DEF Owing
    <3>3. o = p
      BY <2>1, <2>3, <3>1, <3>2
    <3> QED  BY <1>1, <2>1, <2>2, <2>4, <3>3
  <2>5. CASE f = g
    <3>1. o[t] = Amount(c, f) /\ p[t] = 0
      BY <1>1, <1>4, <2>5 DEF Owing, c
    <3>2. inner'[f] = (inner[f] + o[t]) % Modulus /\ o[t] \in Nat
      BY <1>1, <1>3, <2>1, <2>5, <3>1
    <3> HIDE DEF o, p
    <3>3. \A s \in Tasks : p[s] <= o[s]
      BY <2>1, <2>3, <3>1
    <3>4. IsFiniteSet(Blocks(p))
      BY <2>1, <2>2, <3>3, SumMonotone
    <3>5. SumOf(p) \in Nat /\ SumOf(o) = SumOf(p) + o[t]
      BY <2>1, <2>3, <3>1, <3>4, SumGrows
    <3>6. (begun[f] - SumOf(o)) + o[t] = begun[f] - SumOf(p)
      BY <2>2, <3>2, <3>5
    <3>7. begun[f] - SumOf(o) \in Int
      BY <2>2, <3>2, <3>5
    <3>8. (((begun[f] - SumOf(o)) % Modulus) + o[t]) % Modulus
            = ((begun[f] - SumOf(o)) + o[t]) % Modulus
      <4>1. o[t] \in Int /\ Modulus \in Nat \ {0}
        BY <3>2, MetricsAssumption
      <4> QED  BY <3>7, <4>1, WrapsOnce, Zenon
    <3> QED  BY <2>2, <3>2, <3>6, <3>8 DEF p
  <2> QED  BY <2>4, <2>5
<1> QED  BY <1>1, <1>5, <1>6, <1>7 DEF Balanced

-----------------------------------------------------------------------------
(* The gauge                                                               *)

LEMMA SubsetCounts ==
  ASSUME NEW A \in SUBSET Tasks, NEW B \in SUBSET A
  PROVE  /\ IsFiniteSet(A) /\ IsFiniteSet(B)
         /\ Cardinality(A) \in Nat /\ Cardinality(B) \in Nat
         /\ Cardinality(Tasks) \in Nat
         /\ Cardinality(B) <= Cardinality(A) /\ Cardinality(A) <= Cardinality(Tasks)
<1>1. IsFiniteSet(A) /\ Cardinality(A) <= Cardinality(Tasks)
  BY FS_Subset, MetricsAssumption
<1>2. IsFiniteSet(B) /\ Cardinality(B) <= Cardinality(A)
  BY <1>1, FS_Subset
<1> QED  BY <1>1, <1>2, FS_CardinalityType, MetricsAssumption

LEMMA OneMore ==
  ASSUME NEW A \in SUBSET Tasks, NEW t \in Tasks \ A
  PROVE  Cardinality(A) \in Nat /\ Cardinality(A \cup {t}) = Cardinality(A) + 1
BY FS_AddElement, SubsetCounts

LEMMA GaugeFits ==
  ASSUME MetricsTypeOK, GaugeCounts
  PROVE  /\ Opened \in SUBSET Tasks /\ Gone \in SUBSET Opened
         /\ inner[Gauge] <= Cardinality(Tasks)
<1>1. Opened \in SUBSET Tasks
  BY DEF Opened, Born
<1>2. Gone \in SUBSET Opened
  BY DEF Gone, Opened, Dead, Born, GaugeCounts
<1>3. inner[Gauge] = Cardinality(Opened) - Cardinality(Gone)
  BY DEF GaugeCounts
<1>4. /\ Cardinality(Opened) \in Nat /\ Cardinality(Gone) \in Nat
      /\ Cardinality(Opened) <= Cardinality(Tasks) /\ Cardinality(Tasks) \in Nat
  BY <1>1, <1>2, SubsetCounts
<1> QED  BY <1>1, <1>2, <1>3, <1>4

LEMMA OpenedKeepsGauge ==
  ASSUME MetricsTypeOK, CallsAndFields, GaugeCounts, NEW t \in Tasks,
         ConnectionOpened(t)
  PROVE  GaugeCounts'
<1> USE DEF MetricsTypeOK
<1> DEFINE c == Call("connection_opened", 0)
<1>1. /\ life[t] = "new" /\ call[t] = Idle /\ c \in Calls
      /\ life' = [life EXCEPT ![t] = "open"]
      /\ call' = [call EXCEPT ![t] = c]
      /\ pending' = [pending EXCEPT ![t] = DOMAIN Effect(c)]
      /\ begun'[Gauge] = begun[Gauge] + Amount(c, Gauge)
      /\ inner' = inner
  BY DEF ConnectionOpened, Begin, Calls, Fields, Gauge
<1>2. Amount(c, Gauge) = 1 /\ Gauge \in DOMAIN Effect(c)
  BY DEF Amount, Effect, Gauge, Call
<1>3. c # Call("connection_closed", 0)
  BY DEF Call
<1>4. /\ life'[t] = "open" /\ call'[t] = c /\ Gauge \in pending'[t]
      /\ \A s \in Tasks \ {t} :
           life'[s] = life[s] /\ call'[s] = call[s] /\ pending'[s] = pending[s]
  BY <1>1, <1>2
<1>5. \A s \in Tasks :
        /\ Opening(s)' => life'[s] = "open"
        /\ Closing(s)' => life'[s] = "closed"
        /\ life'[s] = "new" => call'[s] = Idle
  BY <1>3, <1>4 DEF GaugeCounts, Opening, Closing
<1>6. Dead' = Dead
  BY <1>1, <1>4 DEF Dead
<1>7. Born' = Born \cup {t} /\ t \in Tasks \ Born /\ Born \in SUBSET Tasks
  BY <1>1, <1>4 DEF Born
<1>8. Opened' = Opened
  BY <1>4, <1>7 DEF Opened, Opening
<1>9. Gone' = Gone
  BY <1>1, <1>4, <1>6 DEF Gone, Closing, Dead
<1>10. Cardinality(Born)' = Cardinality(Born) + 1 /\ Cardinality(Born) \in Nat
  BY <1>7, OneMore
<1>11. Cardinality(Dead) \in Nat
  BY SubsetCounts DEF Dead
<1>12. begun'[Gauge] = Cardinality(Born)' - Cardinality(Dead)
  BY <1>1, <1>2, <1>10, <1>11 DEF GaugeCounts
<1> QED  BY <1>1, <1>5, <1>6, <1>8, <1>9, <1>12 DEF GaugeCounts

LEMMA ClosedKeepsGauge ==
  ASSUME MetricsTypeOK, CallsAndFields, GaugeCounts, NEW t \in Tasks,
         ConnectionClosed(t)
  PROVE  GaugeCounts'
<1> USE DEF MetricsTypeOK
<1> DEFINE c == Call("connection_closed", 0)
<1>1. /\ life[t] = "open" /\ call[t] = Idle /\ c \in Calls
      /\ life' = [life EXCEPT ![t] = "closed"]
      /\ call' = [call EXCEPT ![t] = c]
      /\ pending' = [pending EXCEPT ![t] = DOMAIN Effect(c)]
      /\ begun'[Gauge] = begun[Gauge] + Amount(c, Gauge)
      /\ inner' = inner
  BY DEF ConnectionClosed, Begin, Calls, Fields, Gauge
<1>2. Amount(c, Gauge) = -1 /\ Gauge \in DOMAIN Effect(c)
  BY DEF Amount, Effect, Gauge, Call
<1>3. /\ c # Call("connection_opened", 0)
      /\ Idle # Call("connection_opened", 0)
  BY DEF Call, Idle
<1>4. /\ life'[t] = "closed" /\ call'[t] = c /\ Gauge \in pending'[t]
      /\ \A s \in Tasks \ {t} :
           life'[s] = life[s] /\ call'[s] = call[s] /\ pending'[s] = pending[s]
  BY <1>1, <1>2
<1>5. \A s \in Tasks :
        /\ Opening(s)' => life'[s] = "open"
        /\ Closing(s)' => life'[s] = "closed"
        /\ life'[s] = "new" => call'[s] = Idle
  BY <1>3, <1>4 DEF GaugeCounts, Opening, Closing
<1>6. Born' = Born
  BY <1>1, <1>4 DEF Born
<1>7. Dead' = Dead \cup {t} /\ t \in Tasks \ Dead /\ Dead \in SUBSET Tasks
  BY <1>1, <1>4 DEF Dead
<1>8. Opened' = Opened
  BY <1>1, <1>3, <1>4, <1>6 DEF Opened, Opening
<1>9. Gone' = Gone
  BY <1>1, <1>4, <1>7 DEF Gone, Closing
<1>10. Cardinality(Dead)' = Cardinality(Dead) + 1 /\ Cardinality(Dead) \in Nat
  BY <1>7, OneMore
<1>11. Cardinality(Born) \in Nat
  BY SubsetCounts DEF Born
<1>12. begun'[Gauge] = Cardinality(Born) - Cardinality(Dead)'
  BY <1>1, <1>2, <1>10, <1>11 DEF GaugeCounts
<1> QED  BY <1>1, <1>5, <1>6, <1>8, <1>9, <1>12 DEF GaugeCounts

\* The calls that RecordCall makes.
RecordCalls ==
  {Call("record_frame_sent", n) : n \in Sizes}
    \cup {Call("record_frame_received", n) : n \in Sizes}
    \cup {Call("record_error", 0)}

LEMMA RecordsShape ==
  ASSUME NEW c \in RecordCalls
  PROVE  /\ c \in Calls \ {Idle}
         /\ c # Call("connection_opened", 0) /\ c # Call("connection_closed", 0)
BY DEF RecordCalls, Calls, Call, Idle

LEMMA RecordKeepsGauge ==
  ASSUME MetricsTypeOK, CallsAndFields, GaugeCounts, NEW t \in Tasks,
         NEW c \in RecordCalls, RecordCall(t, c)
  PROVE  GaugeCounts'
<1> USE DEF MetricsTypeOK
<1>1. /\ life[t] = "open" /\ call[t] = Idle
      /\ life' = life
      /\ call' = [call EXCEPT ![t] = c]
      /\ pending' = [pending EXCEPT ![t] = DOMAIN Effect(c)]
      /\ begun'[Gauge] = begun[Gauge] + Amount(c, Gauge)
      /\ inner' = inner
  BY DEF RecordCall, Begin, Fields, Gauge
<1>2. Amount(c, Gauge) = 0
  BY RecordsShape, EffectShape DEF Amount
<1>3. /\ Idle # Call("connection_opened", 0)
      /\ Idle # Call("connection_closed", 0)
      /\ c # Call("connection_opened", 0)
      /\ c # Call("connection_closed", 0)
  BY RecordsShape DEF Call, Idle
<1>4. /\ call'[t] = c
      /\ \A s \in Tasks \ {t} : call'[s] = call[s] /\ pending'[s] = pending[s]
  BY <1>1
<1>5. \A s \in Tasks :
        /\ Opening(s)' => life'[s] = "open"
        /\ Closing(s)' => life'[s] = "closed"
        /\ life'[s] = "new" => call'[s] = Idle
  BY <1>1, <1>3, <1>4 DEF GaugeCounts, Opening, Closing
<1>6. Born' = Born /\ Dead' = Dead
  BY <1>1 DEF Born, Dead
<1>7. Opened' = Opened
  BY <1>1, <1>3, <1>4, <1>6 DEF Opened, Opening
<1>8. Gone' = Gone
  BY <1>1, <1>3, <1>4, <1>6 DEF Gone, Closing
<1>9. begun'[Gauge] = begun[Gauge]
  BY <1>1, <1>2 DEF Fields, Gauge
<1> QED  BY <1>1, <1>5, <1>6, <1>7, <1>8, <1>9 DEF GaugeCounts

LEMMA UpdateKeepsGauge ==
  ASSUME MetricsTypeOK, CallsAndFields, GaugeCounts, NEW t \in Tasks,
         NEW g \in Fields, Update(t, g)
  PROVE  GaugeCounts'
<1> USE DEF MetricsTypeOK
<1> DEFINE opens == Call("connection_opened", 0)
           closes == Call("connection_closed", 0)
<1>1. /\ g \in pending[t]
      /\ inner' = [inner EXCEPT ![g] = (@ + Effect(call[t])[g]) % Modulus]
      /\ pending' = [pending EXCEPT ![t] = @ \ {g}]
      /\ begun' = begun /\ life' = life
      /\ IF pending[t] = {g} THEN call' = [call EXCEPT ![t] = Idle]
                             ELSE call' = call
  BY DEF Update, Add
<1>2. /\ pending'[t] = pending[t] \ {g}
      /\ call'[t] = (IF pending[t] = {g} THEN Idle ELSE call[t])
      /\ \A s \in Tasks \ {t} : call'[s] = call[s] /\ pending'[s] = pending[s]
  BY <1>1
<1>3. Idle # opens /\ Idle # closes /\ opens # closes
  BY DEF Call, Idle
<1>4. \A s \in Tasks :
        /\ Opening(s)' => life'[s] = "open"
        /\ Closing(s)' => life'[s] = "closed"
        /\ life'[s] = "new" => call'[s] = Idle
  BY <1>1, <1>2, <1>3 DEF GaugeCounts, Opening, Closing
<1>5. Born' = Born /\ Dead' = Dead /\ Born \subseteq Tasks /\ Dead \subseteq Tasks
  BY <1>1 DEF Born, Dead
<1>6. CASE g # Gauge
  <2>1. Gauge \in pending'[t] <=> Gauge \in pending[t]
    BY <1>2, <1>6
  <2>2. Gauge \in pending[t] => call'[t] = call[t]
    BY <1>2, <1>6
  <2>3. Opened' = Opened
    BY <1>2, <1>5, <2>1, <2>2 DEF Opened, Opening
  <2>4. Gone' = Gone
    BY <1>2, <1>5, <2>1, <2>2 DEF Gone, Closing
  <2>5. inner'[Gauge] = inner[Gauge]
    BY <1>1, <1>6
  <2> QED  BY <1>1, <1>4, <1>5, <2>3, <2>4, <2>5 DEF GaugeCounts
<1>7. CASE g = Gauge
  <2>1. Gauge \in DOMAIN Effect(call[t]) /\ Gauge \in pending[t] /\ Gauge \notin pending'[t]
    BY <1>1, <1>2, <1>7 DEF CallsAndFields
  <2>2. call[t] \in {opens, closes}
    BY <2>1, EffectShape
  <2>3. inner'[Gauge] = (inner[Gauge] + Effect(call[t])[Gauge]) % Modulus
    BY <1>1, <1>7
  <2>4. /\ Opened \in SUBSET Tasks /\ Gone \in SUBSET Opened
        /\ Cardinality(Opened) \in Nat /\ Cardinality(Gone) \in Nat
        /\ inner[Gauge] = Cardinality(Opened) - Cardinality(Gone)
    BY GaugeFits, SubsetCounts DEF GaugeCounts
  <2>5. Cardinality(Tasks) \in Nat /\ Cardinality(Tasks) < Modulus /\ Modulus \in Nat \ {0}
    BY SubsetCounts, MetricsAssumption
  <2>6. CASE call[t] = opens
    <3>1. Effect(call[t])[Gauge] = 1
      BY <2>6 DEF Effect, Call, Gauge
    <3>2. t \in Born /\ t \notin Opened
      BY <1>3, <2>1, <2>6 DEF GaugeCounts, Opening, Born, Opened
    <3>3. Opened' = Opened \cup {t}
      BY <1>2, <1>5, <2>1, <3>2 DEF Opened, Opening
    <3>4. Gone' = Gone
      BY <1>2, <1>3, <1>5, <2>6 DEF Gone, Closing
    <3>5. Opened' \in SUBSET Tasks /\ Gone \in SUBSET Opened'
      BY <2>4, <3>3
    <3>6. /\ Cardinality(Opened') = Cardinality(Opened) + 1
          /\ Cardinality(Opened') <= Cardinality(Tasks)
          /\ Cardinality(Gone) <= Cardinality(Opened)
      BY <2>4, <3>2, <3>3, <3>5, OneMore, SubsetCounts
    <3>7. inner[Gauge] + 1 = Cardinality(Opened') - Cardinality(Gone)
      BY <2>4, <3>6
    <3>8. inner[Gauge] + 1 \in 0..Modulus - 1
      BY <2>4, <2>5, <3>6
    <3>9. inner'[Gauge] = Cardinality(Opened') - Cardinality(Gone)
      BY <2>3, <2>5, <3>1, <3>7, <3>8, SmallMod
    <3> QED  BY <1>1, <1>4, <1>5, <3>4, <3>9 DEF GaugeCounts
  <2>7. CASE call[t] = closes
    <3>1. Effect(call[t])[Gauge] = -1
      BY <2>7 DEF Effect, Call, Gauge
    <3>2. t \in Dead /\ t \notin Gone /\ t \in Opened
      BY <1>3, <2>1, <2>7 DEF GaugeCounts, Opening, Closing, Born, Dead, Gone, Opened
    <3>3. Gone' = Gone \cup {t}
      BY <1>2, <1>5, <2>1, <3>2 DEF Gone, Closing
    <3>4. Opened' = Opened
      BY <1>2, <1>3, <1>5, <2>7 DEF Opened, Opening
    <3>5. Gone' \in SUBSET Opened /\ Gone \in SUBSET Tasks
      BY <2>4, <3>2, <3>3
    <3>6. /\ Cardinality(Gone') = Cardinality(Gone) + 1
          /\ Cardinality(Gone') <= Cardinality(Opened)
          /\ Cardinality(Opened) <= Cardinality(Tasks)
      BY <2>4, <3>2, <3>3, <3>5, OneMore, SubsetCounts
    <3>7. inner[Gauge] + (-1) = Cardinality(Opened) - Cardinality(Gone')
      BY <2>4, <3>6
    <3>8. inner[Gauge] + (-1) \in 0..Modulus - 1
      BY <2>4, <2>5, <3>6
    <3>9. inner'[Gauge] = Cardinality(Opened) - Cardinality(Gone')
      BY <2>3, <2>5, <3>1, <3>7, <3>8, SmallMod
    <3> QED  BY <1>1, <1>4, <1>5, <3>4, <3>9 DEF GaugeCounts
  <2> QED  BY <2>2, <2>6, <2>7
<1> QED  BY <1>6, <1>7

-----------------------------------------------------------------------------
(* The invariant                                                           *)

LEMMA MetricsStarts == MetricsInit => MetricsInv
<1> SUFFICES ASSUME MetricsInit PROVE MetricsInv
  OBVIOUS
<1> USE DEF MetricsInit
<1>1. Idle \in Calls /\ DOMAIN Effect(Idle) = {} /\ \A f \in Fields : Amount(Idle, f) = 0
  <2>1. Idle \in Calls
    BY DEF Calls
  <2> QED  BY <2>1, EffectShape DEF Amount
<1>2. 0 \in 0..Modulus - 1 /\ 0 \in 0..MaxRecords
  BY MetricsAssumption
<1>3. MetricsTypeOK
  BY <1>1, <1>2 DEF MetricsTypeOK
<1>4. CallsAndFields
  BY DEF CallsAndFields
<1>5. ASSUME NEW f \in Counters
      PROVE  /\ IsFiniteSet(Blocks(Asking(call, f))) /\ SumOf(Asking(call, f)) = 0
             /\ SumOf(Owing(call, pending, f)) = 0
  <2>1. f \in Fields
    BY DEF Counters
  <2>2. /\ Asking(call, f) \in [Tasks -> Nat]
        /\ Owing(call, pending, f) \in [Tasks -> Nat]
    BY <1>3, Contributions DEF MetricsTypeOK
  <2>3. \A t \in Tasks : Asking(call, f)[t] = 0 /\ Owing(call, pending, f)[t] = 0
    BY <1>1, <2>1 DEF Asking, Owing
  <2> QED  BY <2>2, <2>3, SumOfNothing
<1>6. 0 % Modulus = 0
  BY <1>2, SmallMod, MetricsAssumption
<1>7. Balanced
  <2>1. ASSUME NEW f \in Counters
        PROVE  begun[f] = 0 /\ settled[f] = 0 /\ inner[f] = 0
    BY DEF Counters
  <2>2. 0 = 0 + 0 /\ 0 - 0 = 0 /\ 0 \in Nat
    OBVIOUS
  <2> QED  BY <1>5, <1>6, <2>1, <2>2 DEF Balanced
<1>8. GaugeCounts
  <2>1. Born = {} /\ Dead = {} /\ Opened = {} /\ Gone = {}
    BY DEF Born, Dead, Opened, Gone
  <2>2. Cardinality({}) = 0 /\ 0 = 0 - 0
    BY FS_EmptySet
  <2>3. inner[Gauge] = 0 /\ begun[Gauge] = 0
    BY DEF Fields, Gauge
  <2>4. Idle # Call("connection_opened", 0) /\ Idle # Call("connection_closed", 0)
    BY DEF Call, Idle
  <2> QED  BY <2>1, <2>2, <2>3, <2>4 DEF GaugeCounts, Opening, Closing
<1>9. SnapshotBetween
  BY DEF SnapshotBetween
<1> QED  BY <1>3, <1>4, <1>7, <1>8, <1>9 DEF MetricsInv

LEMMA BeginKeepsTypes ==
  ASSUME MetricsTypeOK, NEW t \in Tasks, NEW c \in Calls, Begin(t, c),
         life' \in [Tasks -> {"new", "open", "closed"}],
         records' \in [Tasks -> 0..MaxRecords]
  PROVE  MetricsTypeOK'
<1>1. \A f \in Fields : Amount(c, f) \in Int
  BY EffectShape DEF Counters
<1>2. /\ call' = [call EXCEPT ![t] = c]
      /\ pending' = [pending EXCEPT ![t] = DOMAIN Effect(c)]
      /\ begun' = [f \in Fields |-> begun[f] + Amount(c, f)]
      /\ UNCHANGED <<inner, settled, reader, left, snap, floor>>
  BY DEF Begin, snapshot
<1>3. DOMAIN Effect(c) \in SUBSET Fields
  BY EffectShape
<1>4. begun' \in [Fields -> Int]
  BY <1>1, <1>2 DEF MetricsTypeOK
<1>5. call' \in [Tasks -> Calls] /\ pending' \in [Tasks -> SUBSET Fields]
  BY <1>2, <1>3 DEF MetricsTypeOK
<1> QED  BY <1>2, <1>4, <1>5 DEF MetricsTypeOK

LEMMA BeginKeepsSnapshot ==
  ASSUME MetricsTypeOK, Balanced, SnapshotBetween, NEW t \in Tasks, NEW c \in Calls,
         Begin(t, c)
  PROVE  SnapshotBetween'
<1>1. /\ UNCHANGED <<settled, reader, left, snap, floor>>
      /\ \A f \in Fields : begun'[f] = begun[f] + Amount(c, f)
  BY DEF Begin, snapshot
<1>2. \A f \in Counters : f \in Fields /\ Amount(c, f) \in Nat
  BY EffectShape DEF Counters
<1>3. \A f \in Counters : begun[f] \in Nat /\ begun'[f] \in Nat /\ begun[f] <= begun'[f]
  BY <1>1, <1>2, CounterBetween
<1>4. \A f \in Fields : snap[f] \in Nat
  BY MetricsAssumption DEF MetricsTypeOK
<1> QED  BY <1>1, <1>2, <1>3, <1>4, MetricsAssumption DEF SnapshotBetween

LEMMA CallsKeep ==
  ASSUME MetricsInv, NEW t \in Tasks, NEW c \in Calls \ {Idle},
         \/ ConnectionOpened(t) /\ c = Call("connection_opened", 0)
         \/ ConnectionClosed(t) /\ c = Call("connection_closed", 0)
         \/ RecordCall(t, c) /\ c \in RecordCalls
  PROVE  MetricsInv'
<1> USE DEF MetricsInv
<1>1. Begin(t, c)
  BY DEF ConnectionOpened, ConnectionClosed, RecordCall
<1>2. CallsAndFields' /\ Balanced'
  BY <1>1, BeginBalances
<1>3. SnapshotBetween'
  BY <1>1, BeginKeepsSnapshot
<1>4. GaugeCounts'
  BY OpenedKeepsGauge, ClosedKeepsGauge, RecordKeepsGauge
<1>5. life' \in [Tasks -> {"new", "open", "closed"}]
  BY DEF MetricsTypeOK, ConnectionOpened, ConnectionClosed, RecordCall
<1>6. records' \in [Tasks -> 0..MaxRecords]
  BY MetricsAssumption DEF MetricsTypeOK, ConnectionOpened, ConnectionClosed, RecordCall
<1>7. MetricsTypeOK'
  BY <1>1, <1>5, <1>6, BeginKeepsTypes
<1> QED  BY <1>2, <1>3, <1>4, <1>7

LEMMA UpdateKeeps ==
  ASSUME MetricsInv, NEW t \in Tasks, NEW g \in Fields, Update(t, g)
  PROVE  MetricsInv'
<1> USE DEF MetricsInv
<1>1. CallsAndFields' /\ Balanced'
  BY UpdateBalances
<1>2. GaugeCounts'
  BY UpdateKeepsGauge
<1>3. call[t] \in Calls /\ \A f \in Fields : Amount(call[t], f) \in Int
  BY EffectShape DEF Counters, MetricsTypeOK
<1>4. Effect(call[t])[g] = Amount(call[t], g)
  BY <1>3, EffectShape DEF Update, CallsAndFields
<1>5. inner' \in [Fields -> 0..Modulus - 1]
  <2>1. inner[g] + Effect(call[t])[g] \in Int
    BY <1>3, <1>4, MetricsAssumption DEF MetricsTypeOK
  <2>2. (inner[g] + Effect(call[t])[g]) % Modulus \in 0..Modulus - 1
    BY <2>1, DivMod, MetricsAssumption
  <2> QED  BY <2>2 DEF Update, Add, MetricsTypeOK
<1>6. settled' \in [Fields -> Int]
  BY <1>3 DEF Update, MetricsTypeOK
<1>7. call' \in [Tasks -> Calls]
  BY DEF Update, MetricsTypeOK, Calls
<1>8. MetricsTypeOK'
  BY <1>5, <1>6, <1>7 DEF MetricsTypeOK, Update, snapshot
<1>9. SnapshotBetween'
  <2>1. UNCHANGED <<begun, reader, left, snap, floor>>
    BY DEF Update, snapshot
  <2>2. \A f \in Counters : settled[f] \in Nat /\ settled'[f] \in Nat /\ settled[f] <= settled'[f]
    BY <1>3, EffectShape, CounterBetween DEF Update, Counters
  <2> QED  BY <2>1, <2>2 DEF SnapshotBetween
<1> QED  BY <1>1, <1>2, <1>8, <1>9

LEMMA SnapshotKeeps ==
  ASSUME MetricsInv, \/ SnapshotCall \/ \E g \in Fields : Load(g)
  PROVE  MetricsInv'
<1> USE DEF MetricsInv
<1>1. UNCHANGED <<inner, life, call, pending, records, begun, settled>>
  BY DEF SnapshotCall, Load, tasks
<1>2. CallsAndFields'
  BY <1>1 DEF CallsAndFields
<1>3. Balanced'
  BY <1>1 DEF Balanced
<1>4. GaugeCounts'
  BY <1>1 DEF GaugeCounts, Opening, Closing, Born, Dead, Opened, Gone
<1>5. 0 \in 0..Modulus - 1
  BY MetricsAssumption
<1>6. MetricsTypeOK'
  BY <1>1, <1>5 DEF MetricsTypeOK, SnapshotCall, Load
<1>7. SnapshotBetween'
  <2>1. CASE SnapshotCall
    <3>1. \A f \in Counters : settled[f] \in Nat
      BY CounterBetween
    <3> QED  BY <1>1, <2>1, <3>1 DEF SnapshotBetween, SnapshotCall, Counters
  <2>2. ASSUME NEW g \in Fields, Load(g)
        PROVE  SnapshotBetween'
    <3>1. /\ reader = "loading" /\ floor' = floor
          /\ snap' = [snap EXCEPT ![g] = inner[g]]
          /\ left' = left \ {g}
          /\ reader' = IF left = {g} THEN "done" ELSE "loading"
      BY <2>2 DEF Load
    <3>2. ASSUME NEW f \in Counters
          PROVE  /\ floor'[f] \in Nat /\ floor'[f] <= settled'[f]
                 /\ (f \notin left' /\ begun'[f] < Modulus)
                      => (floor'[f] <= snap'[f] /\ snap'[f] <= begun'[f])
      <4>1. /\ floor[f] \in Nat /\ floor[f] <= settled[f]
            /\ (f \notin left /\ begun[f] < Modulus)
                 => (floor[f] <= snap[f] /\ snap[f] <= begun[f])
        BY <3>1 DEF SnapshotBetween
      <4>2. /\ begun[f] \in Nat /\ settled[f] \in Nat
            /\ begun[f] < Modulus => settled[f] <= inner[f] /\ inner[f] <= begun[f]
        BY CounterBetween
      <4>3. inner[f] \in Nat
        BY MetricsAssumption DEF MetricsTypeOK, Counters
      <4>4. snap'[f] = (IF f = g THEN inner[f] ELSE snap[f]) /\ (f # g /\ f \notin left' => f \notin left)
        BY <3>1 DEF MetricsTypeOK, Counters
      <4>5. CASE f = g
        BY <1>1, <3>1, <4>1, <4>2, <4>3, <4>4, <4>5
      <4>6. CASE f # g
        BY <1>1, <3>1, <4>1, <4>4, <4>6
      <4> QED  BY <4>5, <4>6
    <3>3. reader' = "done" => left' = {}
      BY <3>1
    <3> QED  BY <3>2, <3>3 DEF SnapshotBetween
  <2> QED  BY <2>1, <2>2
<1> QED  BY <1>2, <1>3, <1>4, <1>6, <1>7

LEMMA MetricsStep == MetricsInv /\ [MetricsNext]_metricsVars => MetricsInv'
<1> SUFFICES ASSUME MetricsInv, [MetricsNext]_metricsVars PROVE MetricsInv'
  OBVIOUS
<1>1. ASSUME NEW t \in Tasks, ConnectionOpened(t)
      PROVE  MetricsInv'
  <2>1. Call("connection_opened", 0) \in Calls \ {Idle}
    BY DEF Calls, Call, Idle
  <2> QED  BY <1>1, <2>1, CallsKeep
<1>2. ASSUME NEW t \in Tasks, ConnectionClosed(t)
      PROVE  MetricsInv'
  <2>1. Call("connection_closed", 0) \in Calls \ {Idle}
    BY DEF Calls, Call, Idle
  <2> QED  BY <1>2, <2>1, CallsKeep
<1>3. ASSUME NEW t \in Tasks, NEW c \in RecordCalls, RecordCall(t, c)
      PROVE  MetricsInv'
  BY <1>3, CallsKeep, RecordsShape
<1>4. ASSUME NEW t \in Tasks, NEW g \in Fields, Update(t, g)
      PROVE  MetricsInv'
  BY <1>4, UpdateKeeps
<1>5. CASE SnapshotCall \/ \E g \in Fields : Load(g)
  BY <1>5, SnapshotKeeps
<1>6. CASE UNCHANGED metricsVars
  <2>1. UNCHANGED <<inner, life, call, pending, records, begun, settled, reader, left,
                    snap, floor>>
    BY <1>6 DEF metricsVars, tasks, snapshot
  <2> QED
    BY <2>1 DEF MetricsInv, MetricsTypeOK, CallsAndFields, Balanced, GaugeCounts,
         SnapshotBetween, Opening, Closing, Born, Dead, Opened, Gone
<1>7. CASE MetricsNext
  <2>1. /\ \A n \in Sizes : Call("record_frame_sent", n) \in RecordCalls
        /\ \A n \in Sizes : Call("record_frame_received", n) \in RecordCalls
        /\ Call("record_error", 0) \in RecordCalls
    BY DEF RecordCalls
  <2> QED  BY <1>1, <1>2, <1>3, <1>4, <1>5, <1>7, <2>1 DEF MetricsNext
<1> QED  BY <1>6, <1>7

LEMMA MetricsInvariance == MetricsSpec => []MetricsInv
<1> QED  BY MetricsStarts, MetricsStep, PTL DEF MetricsSpec

\* The atomics keep their type: u64 counters that wrap, and the tasks' and the
\* reader's places in the calls (metrics.rs:26-90).
THEOREM MetricsTypeCorrect == MetricsSpec => []MetricsTypeOK
<1>1. MetricsInv => MetricsTypeOK
  BY DEF MetricsInv
<1> QED  BY <1>1, MetricsInvariance, PTL

\* No update of a counter is lost, however the tasks' relaxed fetch_adds
\* interleave: at rest a counter is what all the calls amount to, modulo 2^64
\* (metrics.rs:39-68).
THEOREM NothingIsLost == MetricsSpec => []NothingLost
<1>1. MetricsInv => NothingLost
  <2> SUFFICES ASSUME MetricsInv, \A t \in Tasks : call[t] = Idle
               PROVE  \A f \in Fields : inner[f] = begun[f] % Modulus
    BY DEF NothingLost
  <2> USE DEF MetricsInv
  <2>1. Idle \in Calls /\ DOMAIN Effect(Idle) = {}
    <3>1. Idle \in Calls
      BY DEF Calls
    <3> QED  BY <3>1, EffectShape
  <2>2. \A t \in Tasks : pending[t] = {}
    BY <2>1 DEF CallsAndFields
  <2>3. ASSUME NEW f \in Counters
        PROVE  inner[f] = begun[f] % Modulus
    <3>1. Owing(call, pending, f) \in [Tasks -> Nat]
      BY Contributions DEF MetricsTypeOK
    <3>2. \A t \in Tasks : Owing(call, pending, f)[t] = 0
      BY <2>2 DEF Owing
    <3>3. SumOf(Owing(call, pending, f)) = 0
      BY <3>1, <3>2, SumOfNothing
    <3>4. inner[f] = (begun[f] - SumOf(Owing(call, pending, f))) % Modulus /\ begun[f] \in Nat
      BY DEF Balanced
    <3>5. begun[f] - 0 = begun[f]
      BY <3>4
    <3> QED  BY <3>3, <3>4, <3>5
  <2>4. inner[Gauge] = begun[Gauge] % Modulus
    <3>1. Opened = Born /\ Gone = Dead
      BY <2>2 DEF Opened, Gone, Born, Dead
    <3>2. inner[Gauge] = begun[Gauge]
      BY <3>1 DEF GaugeCounts
    <3>3. inner[Gauge] \in 0..Modulus - 1
      BY DEF MetricsTypeOK, Fields, Gauge
    <3> QED  BY <3>2, <3>3, SmallMod, MetricsAssumption
  <2> QED  BY <2>3, <2>4 DEF Counters
<1> QED  BY <1>1, MetricsInvariance, PTL

\* The gauge of viewers is never below zero, which would show as 2^64 - 1: the
\* decrement of a viewer that closes is after its increment (metrics.rs:53-68,
\* main.rs:85-102).
THEOREM GaugeStaysInRange == MetricsSpec => []GaugeInRange
<1>1. MetricsInv => GaugeInRange
  BY GaugeFits DEF MetricsInv, GaugeInRange
<1> QED  BY <1>1, MetricsInvariance, PTL

\* A snapshot, loaded field by field while the tasks go on, has every call that
\* was over before it and nothing that was not made (metrics.rs:74-85).
THEOREM SnapshotIsBetween == MetricsSpec => []SnapshotCoversFinished
<1>1. MetricsInv => SnapshotCoversFinished
  BY DEF MetricsInv, SnapshotBetween, SnapshotCoversFinished
<1> QED  BY <1>1, MetricsInvariance, PTL
=============================================================================
