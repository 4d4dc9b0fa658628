---------------------------- MODULE OutboxProofs ----------------------------
(***************************************************************************)
(* Proofs about Outbox for every set of kinds and callers, every LIMIT,    *)
(* every maxReplayAttempts and every number of writes and faults.          *)
(***************************************************************************)
EXTENDS Outbox, NumberFacts, FiniteSetTheorems, TLAPS

Live(c) == pass[c] # None
Working(c) == Live(c) /\ pass[c].at # "listing"

(* The starter of a pass waits for it, and whoever waits, waits for a pass *)
(* that is there and reaches as far as it was promised.                    *)
Waiting ==
    \A c \in Callers :
        /\ Live(c) => call[c].at = "waiting" /\ call[c].pass = c
        /\ call[c].at = "waiting" =>
              /\ call[c].pass \in Callers /\ Live(call[c].pass)
              /\ call[c].bound <= pass[call[c].pass].bound

(* The passes form a chain: each waits for the one with the next lower     *)
(* ceiling, the lowest waits for none and alone gets to work, and current  *)
(* is the highest.                                                         *)
Chain ==
    /\ \A c \in Callers : Live(c) =>
          /\ current # None /\ pass[c].bound <= current.bound
          /\ Working(c) => pass[c].after = None
    /\ current # None =>
          Live(current.pass) /\ pass[current.pass].bound = current.bound
    /\ \A c, d \in Callers : Live(c) /\ Live(d) =>
          /\ pass[c].bound = pass[d].bound => c = d
          /\ pass[c].after = None => pass[c].bound <= pass[d].bound
    /\ \A c \in Callers : Live(c) /\ pass[c].after # None =>
          /\ Live(pass[c].after)
          /\ pass[pass[c].after].bound < pass[c].bound
          /\ \A d \in Callers : Live(d) /\ pass[d].bound < pass[c].bound =>
                pass[d].bound <= pass[pass[c].after].bound

(* What is in the table was queued, an op carries its own write, and a     *)
(* ceiling is an op's id.                                                  *)
Table ==
    /\ \A o \in ops : o.id < next_id /\ o.id \in o.carries
                      /\ \A i \in o.carries : i < next_id
    /\ \A k \in Kinds : last[k] < next_id
    /\ \A c \in Callers : call[c].bound < next_id
    /\ \A c \in Callers : Live(c) => pass[c].bound < next_id

busy(p) == p.at \in {"sent", "references", "spent"}
in_hand(p) == IF busy(p) THEN {p.op} ELSE {}

(* A pass has the op it works on, and retires no more than it has read. *)
Shape(p) ==
    /\ p.at \in {"listing", "ending"} => p.todo = {}
    /\ busy(p) => p.op \in Op
    /\ p.at = "spent" => p.op.kind \in p.stalled
    /\ \A t, u \in p.todo : t.id = u.id => t = u
    /\ IsFiniteSet(p.todo)
    /\ p.at # "listing" =>
          p.retired + Cardinality(p.todo) + (IF busy(p) THEN 1 ELSE 0) <= p.read

(* The row a pass has read may be gone from the table; it is not another. *)
Snapshots(p) ==
    \A t \in p.todo \cup in_hand(p) :
        /\ t.id < next_id
        /\ \A o \in ops :
              o.id = t.id => o.kind = t.kind /\ o.carries = t.carries

(* The ops a sweep has still to hear of. *)
sending(p) ==
    {t \in p.todo : t.kind \notin p.stalled}
        \cup (IF p.at = "sent" THEN {p.op} ELSE {})

(* They come after what the server took, in order, and nothing of their    *)
(* kind that waits is older and not among them.                            *)
Ordered(p) ==
    /\ \A t \in sending(p) : t.kind \notin p.stalled /\ last[t.kind] <= t.id
    /\ p.at = "sent" =>
          \A t \in p.todo : t.kind = p.op.kind => p.op.id < t.id
    /\ \A t \in sending(p), o \in pending :
          o.kind = t.kind /\ o.id < t.id => \E u \in sending(p) : u.id = o.id

(* A sweep that read all there was has heard of it, has it to send, or its *)
(* kind has stalled.                                                       *)
Promise(p) ==
    p.stopped \/ p.read = LIMIT \/
        \A o \in pending : o.id <= p.bound =>
            o.kind \in p.stalled \/ \E u \in sending(p) : u.id = o.id

Passes ==
    \A c \in Callers : Live(c) =>
        /\ Shape(pass[c])
        /\ Working(c) => /\ Snapshots(pass[c]) /\ Ordered(pass[c])
                         /\ Promise(pass[c])

(* What waits is no older than what the server took last of its kind. *)
WaitingAfterLast == \A o \in pending : last[o.kind] <= o.id

IInv ==
    /\ TypeOK /\ Waiting /\ Chain /\ Table /\ Passes /\ WaitingAfterLast
    /\ NothingForgotten

-----------------------------------------------------------------------------
(* What the model's operators return. *)

(* The bounds are numbers. *)
LEMMA Bounds ==
    /\ MaxOps \in Nat /\ MaxFaults \in Nat
    /\ LIMIT \in Nat \ {0} /\ maxReplayAttempts \in Nat \ {0}
  BY OutboxConstants

(* oldest finds the op of lowest id (sweep sends it first). *)
LEMMA Oldest ==
    ASSUME NEW set \in SUBSET Op, set # {}
    PROVE  /\ oldest(set) \in set
           /\ \A p \in set : oldest(set).id <= p.id
  <1> DEFINE ids == {o.id : o \in set}
  <1>1. ids \in SUBSET Nat /\ ids # {}
    BY Bounds DEF Op, OpId
  <1>2. PICK x \in ids : \A y \in ids : x <= y
    BY <1>1, LeastNatural
  <1>3. \E o \in set : \A p \in set : o.id <= p.id
    BY <1>2
  <1> QED BY <1>3 DEF oldest

(* newest finds the op of highest id (enqueueFieldPatch folds into it). *)
LEMMA Newest ==
    ASSUME NEW set \in SUBSET Op, set # {}
    PROVE  /\ newest(set) \in set
           /\ \A p \in set : p.id <= newest(set).id
  <1> DEFINE ids == {o.id : o \in set}
  <1>1. ids \in SUBSET (0 .. MaxOps) /\ ids # {}
    BY Bounds DEF Op, OpId
  <1>2. PICK x \in ids : \A y \in ids : y <= x
    BY <1>1, Bounds, GreatestNatural
  <1>3. \E o \in set : \A p \in set : p.id <= o.id
    BY <1>2
  <1> QED BY <1>3 DEF newest

(* maxOpId is the id of an op of the table, or 0 (OfflineStore maxOpId). *)
LEMMA MaxOpId ==
    ASSUME ops \subseteq Op
    PROVE  maxOpId \in {o.id : o \in ops} \cup {0}
  <1> DEFINE ids == {o.id : o \in ops} \cup {0}
  <1>1. ids \in SUBSET (0 .. MaxOps) /\ ids # {}
    BY Bounds DEF Op, OpId
  <1>2. PICK x \in ids : \A y \in ids : y <= x
    BY <1>1, Bounds, GreatestNatural
  <1>3. Max(ids) = x
    <2>1. ids \in SUBSET Int
      BY <1>1
    <2> HIDE DEF ids
    <2> QED BY <1>2, <2>1, MaxFinds
  <1> QED BY <1>2, <1>3 DEF maxOpId

(* The rows of a listing: ids are unique, so they are finite, no more than *)
(* LIMIT, the oldest of those that wait below the ceiling, and all of them *)
(* unless the read was full.                                               *)
LEMMA Listed ==
    ASSUME TypeOK, NEW bound \in 0 .. MaxOps
    PROVE  LET rows == listed(bound) IN
           /\ rows \subseteq pending
           /\ IsFiniteSet(rows) /\ Cardinality(rows) \in 0 .. LIMIT
           /\ \A t \in rows, o \in pending : o.id < t.id => o \in rows
           /\ Cardinality(rows) # LIMIT =>
                 \A o \in pending : o.id <= bound => o \in rows
  <1> DEFINE waiting == {o \in pending : o.id <= bound}
             before(t) == {p \in waiting : p.id < t.id}
             rows == {o \in waiting : Cardinality(before(o)) < LIMIT}
  <1>1. listed(bound) = rows
    BY DEF listed
  <1>2. /\ pending \subseteq Op
        /\ \A o, p \in pending : o.id = p.id => o = p
        /\ \A o \in pending : o.id \in 1 .. MaxOps
    BY DEF TypeOK, pending, Op, OpId
  <1>3. IsFiniteSet(waiting)
    <2> DEFINE f == [o \in waiting |-> o.id]
    <2>1. f \in Injection(waiting, 1 .. MaxOps)
      BY <1>2 DEF Injection, IsInjective
    <2>2. IsFiniteSet(1 .. MaxOps)
      BY Bounds, FS_Interval
    <2> QED BY <2>1, <2>2, FS_Injection
  <1>4. \A t : IsFiniteSet(before(t)) /\ Cardinality(before(t)) \in Nat
    <2> TAKE t
    <2>1. before(t) \in SUBSET waiting
      OBVIOUS
    <2> HIDE DEF before, waiting
    <2> QED BY <1>3, <2>1, FS_Subset, FS_CardinalityType
  <1>5. IsFiniteSet(rows) /\ Cardinality(rows) \in Nat
    <2>1. rows \in SUBSET waiting
      OBVIOUS
    <2> HIDE DEF rows, waiting
    <2> QED BY <1>3, <2>1, FS_Subset, FS_CardinalityType
  <1>6. Cardinality(rows) <= LIMIT
    <2>1. CASE rows = {}
      <3> HIDE DEF rows
      <3> QED BY <2>1, FS_EmptySet, Bounds
    <2>2. CASE rows # {}
      <3>1. rows \in SUBSET Op
        BY <1>2
      <3>2. PICK m \in rows : \A p \in rows : p.id <= m.id
        <4> HIDE DEF rows
        <4> QED BY <2>2, <3>1, Newest
      <3>3. rows \in SUBSET (before(m) \cup {m})
        BY <1>2, <3>2
      <3>4. Cardinality(before(m)) < LIMIT /\ m \notin before(m)
        BY <1>2
      <3>5. /\ IsFiniteSet(before(m) \cup {m})
            /\ Cardinality(before(m) \cup {m}) = Cardinality(before(m)) + 1
        <4> HIDE DEF before
        <4> QED BY <1>4, <3>4, FS_AddElement
      <3>6. Cardinality(rows) <= Cardinality(before(m) \cup {m})
        <4> HIDE DEF rows, before
        <4> QED BY <3>3, <3>5, FS_Subset
      <3> HIDE DEF rows, before
      <3> QED BY <1>4, <1>5, <3>4, <3>5, <3>6, Bounds
    <2> QED BY <2>1, <2>2
  <1>7. ASSUME NEW t \in rows, NEW o \in pending, o.id < t.id
        PROVE  o \in rows
    <2>1. o \in waiting
      BY <1>2, <1>7, Bounds
    <2>2. before(o) \in SUBSET before(t)
      BY <1>2, <1>7
    <2>3. Cardinality(before(o)) <= Cardinality(before(t))
      <3> HIDE DEF before
      <3> QED BY <1>4, <2>2, FS_Subset
    <2>4. Cardinality(before(t)) < LIMIT
      OBVIOUS
    <2>5. Cardinality(before(o)) < LIMIT
      <3> HIDE DEF before
      <3> QED BY <1>4, <2>3, <2>4, Bounds
    <2> QED BY <2>1, <2>5
  <1>8. ASSUME NEW o \in waiting, o \notin rows
        PROVE  Cardinality(rows) = LIMIT
    <2> DEFINE left == waiting \ rows
    <2>1. left \in SUBSET Op /\ left # {}
      BY <1>2, <1>8
    <2>2. PICK w \in left : \A p \in left : w.id <= p.id
      <3> HIDE DEF left
      <3> QED BY <2>1, Oldest
    <2>3. before(w) \in SUBSET rows
      BY <1>2, <2>2
    <2>4. Cardinality(before(w)) <= Cardinality(rows)
      <3> HIDE DEF before, rows
      <3> QED BY <1>5, <2>3, FS_Subset
    <2>5. ~(Cardinality(before(w)) < LIMIT)
      OBVIOUS
    <2> HIDE DEF rows, before
    <2> QED BY <1>4, <1>5, <1>6, <2>4, <2>5, Bounds
  <1>9. rows \subseteq pending
    OBVIOUS
  <1>10. Cardinality(rows) # LIMIT =>
            \A o \in pending : o.id <= bound => o \in rows
    BY <1>8
  <1> HIDE DEF rows
  <1> QED BY <1>1, <1>5, <1>6, <1>7, <1>9, <1>10, Bounds

-----------------------------------------------------------------------------
(* What the steps have in common. *)

(* The rows after a step are rows from before it, under their ids, with    *)
(* their writes, and refused if they were.                                 *)
Shrinks ==
    /\ ops' \subseteq Op
    /\ \A o, p \in ops' : o.id = p.id => o = p
    /\ \A q \in ops' : \E o \in ops :
          /\ q.id = o.id /\ q.kind = o.kind /\ q.carries = o.carries
          /\ q.form = o.form
          /\ ~q.refused => ~o.refused

(* A pass at the front of the chain takes a step of its own. *)
WorkStep(c) ==
    /\ Live(c) /\ pass[c].after = None
    /\ pass'[c] \in Pass /\ pass' = [pass EXCEPT ![c] = pass'[c]]
    /\ pass'[c].after = pass[c].after /\ pass'[c].bound = pass[c].bound
    /\ UNCHANGED <<current, call, next_id>>

(* No step of a pass moves a caller or the chain, and no other pass is at  *)
(* work.                                                                   *)
LEMMA WorkStepAlone ==
    ASSUME IInv, NEW c \in Callers, WorkStep(c)
    PROVE  /\ Waiting' /\ Chain'
           /\ \A d \in Callers : d # c => ~Working(d) /\ pass'[d] = pass[d]
  <1>1. /\ \A d \in Callers : Live(d)' <=> Live(d)
        /\ \A d \in Callers : Live(d) => /\ pass'[d].after = pass[d].after
                                         /\ pass'[d].bound = pass[d].bound
        /\ \A d \in Callers : d # c => pass'[d] = pass[d]
        /\ UNCHANGED <<current, call>>
    BY NoneAssumption DEF IInv, TypeOK, WorkStep, Live
  <1>2. Waiting'
    BY <1>1 DEF IInv, Waiting, Live
  <1>3. \A d \in Callers : Live(d) /\ pass[d].after = None => d = c
    <2> SUFFICES ASSUME NEW d \in Callers, Live(d), pass[d].after = None
                 PROVE  d = c
      OBVIOUS
    <2>1. pass[c].bound <= pass[d].bound /\ pass[d].bound <= pass[c].bound
      BY DEF IInv, Chain, WorkStep
    <2>2. pass[c].bound \in Nat /\ pass[d].bound \in Nat
      BY Bounds DEF IInv, TypeOK, WorkStep, Live, Pass
    <2>3. pass[c].bound = pass[d].bound
      BY <2>1, <2>2
    <2> QED BY <2>3 DEF IInv, Chain, WorkStep
  <1>4. \A d \in Callers : Live(d) /\ Working(d)' => pass'[d].after = None
    BY <1>1, <1>3 DEF IInv, Chain, WorkStep, Working, Live
  <1>5. Chain'
    <2>1. \A d \in Callers : Live(d)' =>
             /\ current' # None /\ pass'[d].bound <= current'.bound
             /\ Working(d)' => pass'[d].after = None
      BY <1>1, <1>4 DEF IInv, Chain
    <2>2. current' # None => /\ Live(current.pass)'
                             /\ pass'[current'.pass].bound = current'.bound
      BY <1>1 DEF IInv, Chain, TypeOK, Current
    <2>3. \A d, e \in Callers : Live(d)' /\ Live(e)' =>
             /\ pass'[d].bound = pass'[e].bound => d = e
             /\ pass'[d].after = None => pass'[d].bound <= pass'[e].bound
      BY <1>1 DEF IInv, Chain
    <2>4. \A d \in Callers : Live(d) /\ pass[d].after # None =>
                                pass[d].after \in Callers
      BY DEF IInv, TypeOK, Live, Pass
    <2>5. \A d \in Callers : Live(d)' /\ pass'[d].after # None =>
             /\ Live(pass[d].after)'
             /\ pass'[pass'[d].after].bound < pass'[d].bound
             /\ \A e \in Callers : Live(e)' /\ pass'[e].bound < pass'[d].bound =>
                   pass'[e].bound <= pass'[pass'[d].after].bound
      BY <1>1, <2>4 DEF IInv, Chain
    <2> QED BY <1>1, <2>1, <2>2, <2>3, <2>5 DEF Chain, Live
  <1>6. \A d \in Callers : d # c => ~Working(d)
    BY <1>3 DEF IInv, Chain, Working
  <1> QED BY <1>1, <1>2, <1>5, <1>6

(* So only the pass that stepped is to be looked at. *)
LEMMA WorkStepPasses ==
    ASSUME IInv, NEW c \in Callers, WorkStep(c), Shape(pass'[c]),
           Working(c)' => /\ Snapshots(pass[c])' /\ Ordered(pass[c])'
                          /\ Promise(pass[c])'
    PROVE  Passes'
  <1> SUFFICES ASSUME NEW d \in Callers, Live(d)'
               PROVE  /\ Shape(pass[d])'
                      /\ Working(d)' => /\ Snapshots(pass[d])'
                                        /\ Ordered(pass[d])'
                                        /\ Promise(pass[d])'
    BY DEF Passes
  <1>1. CASE d = c
    BY <1>1 DEF Shape, busy
  <1>2. CASE d # c
    <2>1. ~Working(d) /\ pass'[d] = pass[d]
      BY <1>2, WorkStepAlone
    <2>2. ~(Working(d)') /\ Live(d)
      BY <2>1 DEF Working, Live
    <2>3. Shape(pass[d])
      BY <2>2 DEF IInv, Passes
    <2>4. Shape(pass[d])'
      BY <2>1, <2>3 DEF Shape, busy
    <2> QED BY <2>2, <2>4
  <1> QED BY <1>1, <1>2

(* A pass that only lets go of what it has read has read what it says. *)
LEMMA SnapshotsKept ==
    ASSUME IInv, NEW c \in Callers, WorkStep(c), Shrinks, Working(c),
           pass'[c].todo \cup in_hand(pass'[c])
               \subseteq pass[c].todo \cup in_hand(pass[c])
    PROVE  Snapshots(pass[c])'
  <1>1. Snapshots(pass[c])
    BY DEF IInv, Passes, Working
  <1>2. next_id' = next_id
    BY DEF WorkStep
  <1> SUFFICES ASSUME NEW t \in pass[c].todo \cup in_hand(pass[c])
               PROVE  /\ t.id < next_id
                      /\ \A q \in ops' : q.id = t.id =>
                            q.kind = t.kind /\ q.carries = t.carries
    BY <1>2 DEF Snapshots, in_hand, busy
  <1> QED BY <1>1 DEF Snapshots, Shrinks

(* A step that leaves the table alone leaves its rows. *)
LEMMA ShrinksNot == TypeOK /\ UNCHANGED ops => Shrinks
  BY DEF TypeOK, Shrinks

(* A step that queues nothing keeps the facts about the table. *)
LEMMA TableKept ==
    ASSUME IInv, Shrinks, UNCHANGED <<next_id, call>>,
           \A k \in Kinds : last'[k] < next_id,
           \A c \in Callers : Live(c)' => pass'[c].bound < next_id
    PROVE  Table'
  BY DEF IInv, Table, Shrinks, Live

(* And forgets nothing, if what leaves the table has landed or is dropped. *)
LEMMA NothingForgottenKept ==
    ASSUME IInv, UNCHANGED next_id,
           landed \subseteq landed', dropped \subseteq dropped',
           \A o \in ops : \/ o.carries \subseteq landed' \cup dropped'
                          \/ \E q \in ops' : q.carries = o.carries
    PROVE  NothingForgotten'
  <1> SUFFICES ASSUME NEW i \in 1 .. next_id - 1
               PROVE  i \in landed' \cup dropped' \cup carried(ops')
    BY DEF NothingForgotten, carried
  <1>1. i \in landed \cup dropped \cup carried(ops)
    BY DEF IInv, NothingForgotten
  <1> QED BY <1>1 DEF carried

(* Rows held aside stay in the table, refused. *)
LEMMA HeldAside ==
    ASSUME TypeOK, NEW set, ops' = held_aside(set)
    PROVE  /\ Shrinks
           /\ \A o \in ops : \E q \in ops' : q.carries = o.carries
           /\ \A o \in ops \cap set : \A q \in ops' : q.id = o.id => q.refused
  <1> DEFINE aside(o) == [o EXCEPT !.refused = o.refused \/ o \in set]
  <1>1. ops' = {aside(o) : o \in ops}
    BY DEF held_aside
  <1>2. ASSUME NEW o \in ops
        PROVE  /\ aside(o) \in Op
               /\ aside(o).id = o.id /\ aside(o).kind = o.kind
               /\ aside(o).carries = o.carries
               /\ aside(o).form = o.form
               /\ o.refused \/ o \in set => aside(o).refused
    <2> DEFINE r == o.refused \/ o \in set
    <2>1. o \in Op /\ r \in BOOLEAN
      BY DEF TypeOK
    <2>2. aside(o) = [o EXCEPT !.refused = r]
      OBVIOUS
    <2>3. r <=> o.refused \/ o \in set
      OBVIOUS
    <2> HIDE DEF r, aside
    <2> QED BY <2>1, <2>2, <2>3 DEF Op
  <1>3. \A o, p \in ops : o.id = p.id => o = p
    BY DEF TypeOK
  <1> HIDE DEF aside
  <1>4. ops' \subseteq Op /\ \A o, p \in ops' : o.id = p.id => o = p
    BY <1>1, <1>2, <1>3
  <1>5. ASSUME NEW q \in ops'
        PROVE  \E o \in ops : /\ q.id = o.id /\ q.kind = o.kind
                              /\ q.carries = o.carries /\ q.form = o.form
                              /\ ~q.refused => ~o.refused
    BY <1>1, <1>2
  <1>6. \A o \in ops \cap set : \A q \in ops' : q.id = o.id => q.refused
    BY <1>1, <1>2, <1>3
  <1> QED BY <1>1, <1>2, <1>4, <1>5, <1>6 DEF Shrinks

(* The rows of one kind that wait behind an op in hand are behind it in    *)
(* the sweep: the server may take it.                                      *)
LEMMA TakenInOrder ==
    ASSUME IInv, NEW c \in Callers, at(c, "sent"),
           taken(pass[c].op)
    PROVE  /\ pass[c].op \in Op
           /\ last[pass[c].op.kind] <= pass[c].op.id
           /\ \A o \in pending : last'[o.kind] <= o.id
           /\ \A k \in Kinds : last'[k] < next_id
           /\ landed' \subseteq OpId /\ last' \in [Kinds -> 0 .. MaxOps]
           /\ landed \subseteq landed'
  <1> DEFINE p == pass[c]
             o == pass[c].op
  <1>1. /\ Working(c) /\ Live(c) /\ p.at = "sent"
        /\ Shape(p) /\ Snapshots(p) /\ Ordered(p)
    BY DEF at, Working, Live, IInv, Passes
  <1>2. o \in Op /\ o \in sending(p) /\ o \in in_hand(p)
    BY <1>1 DEF Shape, busy, sending, in_hand
  <1>3. o.kind \notin p.stalled /\ last[o.kind] <= o.id /\ o.id < next_id
    BY <1>1, <1>2 DEF Ordered, Snapshots
  <1>4. o.id \in 1 .. MaxOps /\ o.kind \in Kinds /\ o.carries \subseteq OpId
    BY <1>2 DEF Op, OpId
  <1>5. /\ last' = [last EXCEPT ![o.kind] = o.id]
        /\ landed' = landed \cup o.carries
    BY DEF taken
  <1>6. ASSUME NEW w \in pending, w.kind = o.kind
        PROVE  o.id <= w.id
    <2>1. w.id \in 1 .. MaxOps /\ w \in ops
      BY DEF IInv, TypeOK, pending, Op, OpId
    <2>2. CASE w.id < o.id
      <3>1. PICK u \in sending(p) : u.id = w.id
        BY <1>1, <1>2, <1>6, <2>2 DEF Ordered
      <3>2. u # o
        BY <1>4, <2>1, <2>2, <3>1
      <3>3. u \in p.todo
        BY <1>1, <3>1, <3>2 DEF sending
      <3>4. u.kind = w.kind
        BY <1>1, <2>1, <3>1, <3>3 DEF Snapshots
      <3>5. o.id < u.id
        BY <1>1, <1>6, <3>3, <3>4 DEF Ordered
      <3> QED BY <1>4, <2>1, <2>2, <3>1, <3>5
    <2> QED BY <1>4, <2>1, <2>2
  <1>7. \A w \in pending : w.kind \in Kinds
    BY DEF IInv, TypeOK, pending, Op
  <1>8. \A w \in pending : last'[w.kind] <= w.id
    BY <1>4, <1>5, <1>6, <1>7 DEF IInv, TypeOK, WaitingAfterLast
  <1>9. \A k \in Kinds : last'[k] < next_id
    BY <1>3, <1>4, <1>5 DEF IInv, TypeOK, Table
  <1>10. landed' \subseteq OpId /\ last' \in [Kinds -> 0 .. MaxOps]
    BY <1>4, <1>5, Bounds DEF IInv, TypeOK
  <1> QED BY <1>2, <1>3, <1>5, <1>8, <1>9, <1>10

(* What was sent and is no longer to be sent is out of the way: it has     *)
(* left the rows that wait, or its kind has stalled.                       *)
LEMMA OrderedKept ==
    ASSUME IInv, NEW c \in Callers, WorkStep(c), Shrinks, at(c, "sent"),
           pass'[c].at # "sent",
           pass'[c].todo = pass[c].todo,
           pass[c].stalled \subseteq pass'[c].stalled,
           pass'[c].read = pass[c].read, pass'[c].stopped = pass[c].stopped,
           \/ pass[c].op.kind \in pass'[c].stalled
           \/ \A q \in ops' : q.id = pass[c].op.id => q.refused,
           \/ UNCHANGED last
           \/ taken(pass[c].op)
    PROVE  Ordered(pass[c])' /\ Promise(pass[c])'
  <1> DEFINE p == pass[c]
             n == pass'[c]
             o == pass[c].op
  <1>1. /\ Working(c) /\ p.at = "sent"
        /\ Shape(p) /\ Snapshots(p) /\ Ordered(p) /\ Promise(p)
    BY DEF at, Working, Live, IInv, Passes
  <1>2. sending(p) = {t \in p.todo : t.kind \notin p.stalled} \cup {o}
    BY <1>1 DEF sending
  <1>3. sending(n) = {t \in p.todo : t.kind \notin n.stalled}
    BY DEF sending
  <1>4. sending(n) \subseteq sending(p)
    BY <1>2, <1>3
  <1>5. \A t \in p.todo : t \in Op
    BY DEF IInv, TypeOK, at, Pass
  <1>6. o \in Op
    BY <1>1 DEF Shape, busy
  <1>7. ASSUME NEW q \in ops', ~q.refused,
               NEW u \in sending(p), u.id = q.id
        PROVE  q.kind \in n.stalled \/ u \in sending(n)
    <2>1. CASE u = o
      <3>1. o.kind \in n.stalled
        BY <1>7, <2>1
      <3>2. PICK r \in ops : q.id = r.id /\ q.kind = r.kind
        BY DEF Shrinks
      <3>3. r.kind = o.kind
        BY <1>1, <1>7, <2>1, <3>2 DEF Snapshots, in_hand, busy
      <3> QED BY <3>1, <3>2, <3>3
    <2>2. CASE u # o
      <3>1. u \in p.todo
        BY <1>2, <2>2
      <3>2. PICK r \in ops : q.id = r.id /\ q.kind = r.kind
        BY DEF Shrinks
      <3>3. r.kind = u.kind
        BY <1>1, <1>7, <3>1, <3>2 DEF Snapshots
      <3> QED BY <1>3, <3>1, <3>2, <3>3
    <2> QED BY <2>1, <2>2
  <1>8. \A q \in ops' : ~q.refused =>
           \E r \in pending : q.id = r.id /\ q.kind = r.kind
    BY DEF Shrinks, pending
  <1>9. \A t \in sending(n) : t.kind \notin n.stalled /\ last'[t.kind] <= t.id
    <2> SUFFICES ASSUME NEW t \in sending(n)
                 PROVE  last'[t.kind] <= t.id
      BY <1>3
    <2>1. t \in p.todo /\ last[t.kind] <= t.id /\ t \in Op
      BY <1>1, <1>3, <1>4, <1>5 DEF Ordered
    <2>2. CASE UNCHANGED last
      BY <2>1, <2>2
    <2>3. CASE taken(o)
      <3>1. last' = [last EXCEPT ![o.kind] = o.id]
        BY <2>3 DEF taken
      <3>2. t.kind = o.kind => o.id < t.id
        BY <1>1, <2>1 DEF Ordered
      <3>3. t.kind \in Kinds /\ t.id \in 1 .. MaxOps /\ o.id \in 1 .. MaxOps
        BY <1>6, <2>1 DEF Op, OpId
      <3> QED BY <2>1, <3>1, <3>2, <3>3 DEF IInv, TypeOK
    <2> QED BY <2>2, <2>3
  <1>10. ASSUME NEW t \in sending(n), NEW q \in pending',
                q.kind = t.kind, q.id < t.id
         PROVE  \E u \in sending(n) : u.id = q.id
    <2>1. q \in ops' /\ ~q.refused
      BY DEF pending
    <2>2. PICK r \in pending : q.id = r.id /\ q.kind = r.kind
      BY <1>8, <2>1
    <2>3. PICK u \in sending(p) : u.id = q.id
      BY <1>1, <1>4, <1>10, <2>2 DEF Ordered
    <2>4. t.kind \notin n.stalled
      BY <1>3
    <2> QED BY <1>7, <1>10, <2>1, <2>3, <2>4
  <1>11. Ordered(pass[c])'
    BY <1>9, <1>10 DEF Ordered, sending
  <1>12. ASSUME ~p.stopped, p.read # LIMIT, NEW q \in pending', q.id <= n.bound
         PROVE  q.kind \in n.stalled \/ \E u \in sending(n) : u.id = q.id
    <2>1. q \in ops' /\ ~q.refused
      BY DEF pending
    <2>2. PICK r \in pending : q.id = r.id /\ q.kind = r.kind
      BY <1>8, <2>1
    <2>3. r.id <= p.bound
      BY <1>12, <2>2 DEF WorkStep
    <2>4. CASE r.kind \in p.stalled
      BY <2>2, <2>4
    <2>5. CASE \E u \in sending(p) : u.id = r.id
      BY <1>7, <2>1, <2>2, <2>5
    <2> QED BY <1>1, <1>12, <2>3, <2>4, <2>5 DEF Promise
  <1>13. Promise(pass[c])'
    BY <1>12 DEF Promise, sending, pending
  <1> QED BY <1>11, <1>13

-----------------------------------------------------------------------------
(* One lemma per action. *)

(* The start of a step of c's pass. *)
LEMMA AtWork ==
    ASSUME IInv, NEW c \in Callers, Working(c)
    PROVE  /\ pass[c] \in Pass /\ Live(c) /\ pass[c].after = None
           /\ Shape(pass[c]) /\ Snapshots(pass[c])
           /\ Ordered(pass[c]) /\ Promise(pass[c])
  BY DEF IInv, TypeOK, Chain, Passes, Working, Live

(* listOps reads the rows of a new sweep. *)
LEMMA step_listOps ==
    ASSUME IInv, NEW c \in Callers, listOps(c)
    PROVE  IInv'
  <1> DEFINE p == pass[c]
             rows == listed(p.bound)
             n == [p EXCEPT !.at = "sweeping", !.todo = rows,
                            !.read = Cardinality(rows),
                            !.stalled = {}, !.retired = 0]
  <1>1. p \in Pass /\ Live(c) /\ p.after = None /\ p.at = "listing"
    BY DEF IInv, TypeOK, listOps, at, Live
  <1>2. /\ rows \subseteq pending
        /\ IsFiniteSet(rows) /\ Cardinality(rows) \in 0 .. LIMIT
        /\ \A t \in rows, o \in pending : o.id < t.id => o \in rows
        /\ Cardinality(rows) # LIMIT =>
              \A o \in pending : o.id <= p.bound => o \in rows
    BY <1>1, Listed DEF IInv, Pass
  <1>3. pending \subseteq ops /\ pending' = pending
    BY DEF pending, listOps
  <1> HIDE DEF rows
  <1>4. pass' = [pass EXCEPT ![c] = n]
    BY DEF listOps, rows
  <1>5. n \in Pass
    <2>1. rows \in SUBSET Op /\ 0 \in 0 .. LIMIT /\ {} \in SUBSET Kinds
      BY <1>2, <1>3, Bounds DEF IInv, TypeOK
    <2> QED BY <1>1, <1>2, <2>1 DEF Pass
  <1>6. pass'[c] = n
    BY <1>4 DEF IInv, TypeOK
  <1>7. /\ n.at = "sweeping" /\ n.todo = rows /\ n.read = Cardinality(rows)
        /\ n.stalled = {} /\ n.retired = 0
        /\ n.after = p.after /\ n.bound = p.bound
    BY <1>1 DEF Pass
  <1>8. WorkStep(c)
    BY <1>1, <1>4, <1>5, <1>6, <1>7 DEF WorkStep, listOps
  <1>9. UNCHANGED <<ops, next_id, current, call, history, faults>>
    BY DEF listOps
  <1> HIDE DEF n
  <1>10. TypeOK'
    BY <1>4, <1>5, <1>9 DEF IInv, TypeOK, history
  <1>11. Shape(n)
    BY <1>2, <1>3, <1>7 DEF Shape, busy, IInv, TypeOK
  <1>12. Snapshots(pass[c])'
    BY <1>2, <1>3, <1>6, <1>7, <1>9
       DEF Snapshots, in_hand, busy, IInv, TypeOK, Table
  <1>13. sending(n) = rows
    BY <1>7 DEF sending
  <1>14. Ordered(pass[c])'
    <2>1. sending(pass[c])' = rows
      BY <1>6, <1>13 DEF sending
    <2>2. \A t \in rows : t.kind \notin n.stalled /\ last'[t.kind] <= t.id
      BY <1>2, <1>7, <1>9 DEF IInv, WaitingAfterLast, history
    <2> QED BY <1>2, <1>3, <1>6, <1>7, <2>1, <2>2 DEF Ordered
  <1>15. Promise(pass[c])'
    <2>1. sending(pass[c])' = rows
      BY <1>6, <1>13 DEF sending
    <2> QED BY <1>2, <1>3, <1>6, <1>7, <2>1 DEF Promise
  <1>16. Passes'
    BY <1>6, <1>8, <1>11, <1>12, <1>14, <1>15, WorkStepPasses
  <1>17. Table'
    BY <1>1, <1>4, <1>6, <1>7, <1>9 DEF IInv, TypeOK, Table, Live, history
  <1>18. WaitingAfterLast'
    BY <1>3, <1>9 DEF IInv, WaitingAfterLast, history
  <1>19. NothingForgotten'
    BY <1>9 DEF IInv, NothingForgotten, carried, history
  <1> QED BY <1>8, <1>10, <1>16, <1>17, <1>18, <1>19, WorkStepAlone DEF IInv

(* replay sends the oldest row whose kind has not stalled. *)
LEMMA step_replay ==
    ASSUME IInv, NEW c \in Callers, replay(c)
    PROVE  IInv'
  <1> DEFINE p == pass[c]
             o == oldest(sendable(p))
             n == [p EXCEPT !.at = "sent", !.op = o, !.todo = p.todo \ {o}]
  <1>1. Working(c) /\ p.at = "sweeping" /\ sendable(p) # {}
    BY DEF replay, at, Working, Live
  <1>2. /\ p \in Pass /\ Live(c) /\ p.after = None
        /\ Shape(p) /\ Snapshots(p) /\ Ordered(p) /\ Promise(p)
    BY <1>1, AtWork
  <1>3. /\ o \in p.todo /\ o.kind \notin p.stalled /\ o \in Op
        /\ \A t \in p.todo : t.kind \notin p.stalled => o.id <= t.id
    <2>1. sendable(p) \in SUBSET Op
      BY <1>2 DEF sendable, Pass
    <2> QED BY <1>1, <2>1, Oldest DEF sendable
  <1> HIDE DEF o
  <1>4. pass' = [pass EXCEPT ![c] = n]
    BY DEF replay, o
  <1>5. n \in Pass
    BY <1>2, <1>3 DEF Pass
  <1>6. pass'[c] = n
    BY <1>4 DEF IInv, TypeOK
  <1>7. /\ n.at = "sent" /\ n.todo = p.todo \ {o} /\ n.op = o
        /\ n.read = p.read /\ n.stalled = p.stalled /\ n.retired = p.retired
        /\ n.after = p.after /\ n.bound = p.bound /\ n.stopped = p.stopped
    BY <1>2 DEF Pass
  <1>8. WorkStep(c)
    BY <1>2, <1>4, <1>5, <1>6, <1>7 DEF WorkStep, replay
  <1>9. UNCHANGED <<ops, next_id, current, call, history, faults>>
    BY DEF replay
  <1> HIDE DEF n
  <1>10. TypeOK'
    BY <1>4, <1>5, <1>9 DEF IInv, TypeOK, history
  <1>11. Shape(n)
    <2>1. /\ IsFiniteSet(n.todo)
          /\ Cardinality(n.todo) = Cardinality(p.todo) - 1
      BY <1>2, <1>3, <1>7, FS_RemoveElement DEF Shape
    <2>2. Cardinality(p.todo) \in Nat
      BY <1>2, FS_CardinalityType DEF Shape
    <2>3. p.retired + Cardinality(p.todo) + 0 <= p.read
      BY <1>1, <1>2 DEF Shape, busy
    <2>4. p.retired \in Nat /\ p.read \in Nat
      BY <1>2, Bounds DEF Pass
    <2>5. n.retired + Cardinality(n.todo) + 1 <= n.read
      BY <1>7, <2>1, <2>2, <2>3, <2>4
    <2> QED BY <1>2, <1>3, <1>7, <2>1, <2>5 DEF Shape, busy
  <1>12. Snapshots(pass[c])'
    BY <1>1, <1>3, <1>6, <1>7, <1>8, <1>9, ShrinksNot, SnapshotsKept
       DEF IInv, in_hand, busy
  <1>13. sending(n) = sending(p)
    BY <1>1, <1>3, <1>7 DEF sending
  <1>14. sending(pass[c])' = sending(p)
    BY <1>6, <1>13 DEF sending
  <1>15. pending' = pending /\ last' = last
    BY <1>9 DEF pending, history
  <1>16. Ordered(pass[c])'
    <2>1. \A t \in n.todo : t.kind = o.kind => o.id < t.id
      <3> SUFFICES ASSUME NEW t \in n.todo, t.kind = o.kind
                   PROVE  o.id < t.id
        OBVIOUS
      <3>1. t \in p.todo /\ t # o /\ t \in Op
        BY <1>2, <1>7 DEF Pass
      <3>2. o.id <= t.id /\ o.id # t.id
        BY <1>2, <1>3, <3>1 DEF Shape
      <3> QED BY <1>3, <3>1, <3>2 DEF Op, OpId
    <2> QED BY <1>2, <1>6, <1>7, <1>14, <1>15, <2>1 DEF Ordered
  <1>17. Promise(pass[c])'
    BY <1>2, <1>6, <1>7, <1>14, <1>15 DEF Promise
  <1>18. Passes'
    BY <1>6, <1>8, <1>11, <1>12, <1>16, <1>17, WorkStepPasses
  <1>19. Table'
    BY <1>2, <1>4, <1>6, <1>7, <1>9 DEF IInv, TypeOK, Table, Live, history
  <1>20. WaitingAfterLast'
    BY <1>15 DEF IInv, WaitingAfterLast
  <1>21. NothingForgotten'
    BY <1>9 DEF IInv, NothingForgotten, carried, history
  <1> QED BY <1>8, <1>10, <1>18, <1>19, <1>20, <1>21, WorkStepAlone DEF IInv

(* A reply that takes its op from the sweep: what deleteOps, stop,         *)
(* noteOpFailure and noteOpAttempt have in common.                         *)
LEMMA Answered ==
    ASSUME IInv, NEW c \in Callers, at(c, "sent"), NEW n \in Pass,
           pass' = [pass EXCEPT ![c] = n], n.after = pass[c].after,
           n.bound = pass[c].bound, n.todo = pass[c].todo,
           n.at # "sent", n.at # "listing", n.at # "ending",
           busy(n) => n.op = pass[c].op,
           n.at = "spent" => n.op.kind \in n.stalled,
           n.retired + (IF busy(n) THEN 1 ELSE 0) <= pass[c].retired + 1,
           pass[c].stalled \subseteq n.stalled, n.read = pass[c].read,
           n.stopped = pass[c].stopped,
           \/ pass[c].op.kind \in n.stalled
           \/ \A q \in ops' : q.id = pass[c].op.id => q.refused,
           \/ UNCHANGED <<landed, last>>
           \/ taken(pass[c].op),
           Shrinks, UNCHANGED <<next_id, current, call, dropped>>,
           faults' \in 0 .. MaxFaults,
           \A o \in ops : \/ o.carries \subseteq landed'
                          \/ \E q \in ops' : q.carries = o.carries
    PROVE  IInv'
  <1> DEFINE p == pass[c]
  <1>1. Working(c) /\ p.at = "sent"
    BY DEF at, Working, Live
  <1>2. /\ p \in Pass /\ Live(c) /\ p.after = None
        /\ Shape(p) /\ Snapshots(p) /\ Ordered(p) /\ Promise(p)
    BY <1>1, AtWork
  <1>3. pass'[c] = n
    BY DEF IInv, TypeOK
  <1>4. WorkStep(c)
    BY <1>2, <1>3 DEF WorkStep
  <1>5. /\ \A o \in pending : last'[o.kind] <= o.id
        /\ \A k \in Kinds : last'[k] < next_id
        /\ landed' \subseteq OpId /\ last' \in [Kinds -> 0 .. MaxOps]
        /\ landed \subseteq landed'
    <2>1. CASE taken(p.op)
      BY <2>1, TakenInOrder
    <2>2. CASE UNCHANGED <<landed, last>>
      BY <2>2 DEF IInv, WaitingAfterLast, Table, TypeOK
    <2> QED BY <2>1, <2>2
  <1>6. TypeOK'
    BY <1>5 DEF IInv, TypeOK, Shrinks
  <1>7. Shape(n)
    <2>1. /\ p.op \in Op /\ IsFiniteSet(p.todo)
          /\ \A t, u \in p.todo : t.id = u.id => t = u
          /\ p.retired + Cardinality(p.todo) + 1 <= p.read
      BY <1>1, <1>2 DEF Shape, busy
    <2>2. Cardinality(p.todo) \in Nat
      BY <2>1, FS_CardinalityType
    <2>3. p.retired \in Nat /\ p.read \in Nat /\ n.retired \in Nat
      BY <1>2, Bounds DEF Pass
    <2> DEFINE b == IF busy(n) THEN 1 ELSE 0
    <2>4. b \in Nat /\ n.retired + b <= p.retired + 1
      OBVIOUS
    <2>5. n.todo = p.todo /\ n.read = p.read
      OBVIOUS
    <2>6. n.retired + Cardinality(n.todo) + b <= n.read
      <3> HIDE DEF b, p
      <3> QED BY <2>1, <2>2, <2>3, <2>4, <2>5
    <2> QED BY <2>1, <2>6 DEF Shape, busy
  <1>8. Snapshots(pass[c])'
    <2>1. in_hand(n) \subseteq in_hand(p)
      BY <1>1 DEF in_hand, busy
    <2> QED BY <1>1, <1>3, <1>4, <2>1, SnapshotsKept
  <1>9. Ordered(pass[c])' /\ Promise(pass[c])'
    BY <1>3, <1>4, OrderedKept
  <1>10. Passes'
    BY <1>3, <1>4, <1>7, <1>8, <1>9, WorkStepPasses
  <1>11. Table'
    <2>1. \A d \in Callers : Live(d)' => pass'[d].bound < next_id
      BY <1>2, <1>3 DEF IInv, TypeOK, Table, Live
    <2> QED BY <1>5, <2>1, TableKept
  <1>12. WaitingAfterLast'
    BY <1>5 DEF WaitingAfterLast, Shrinks, pending
  <1>13. NothingForgotten'
    BY <1>5, NothingForgottenKept
  <1> QED BY <1>4, <1>6, <1>10, <1>11, <1>12, <1>13, WorkStepAlone DEF IInv

(* deleteOps: the row that landed leaves the table. *)
LEMMA step_deleteOps ==
    ASSUME IInv, NEW c \in Callers, deleteOps(c)
    PROVE  IInv'
  <1> DEFINE p == pass[c]
             n == [p EXCEPT !.at = "sweeping", !.op = None,
                            !.retired = p.retired + 1]
  <1>1. Working(c) /\ p.at = "sent" /\ at(c, "sent")
    BY DEF deleteOps, at, Working, Live
  <1>2. p \in Pass /\ Shape(p) /\ Snapshots(p)
    BY <1>1, AtWork
  <1>3. p.retired + 1 \in 0 .. LIMIT
    <2>1. p.retired + Cardinality(p.todo) + 1 <= p.read
      BY <1>1, <1>2 DEF Shape, busy
    <2>2. Cardinality(p.todo) \in Nat
      BY <1>2, FS_CardinalityType DEF Shape
    <2> QED BY <1>2, <2>1, <2>2, Bounds DEF Pass
  <1>4. n \in Pass
    BY <1>2, <1>3 DEF Pass
  <1>5. /\ n.at = "sweeping" /\ n.retired = p.retired + 1
        /\ n.after = p.after /\ n.bound = p.bound /\ n.todo = p.todo
        /\ n.stalled = p.stalled /\ n.read = p.read
        /\ n.stopped = p.stopped
    BY <1>2 DEF Pass
  <1>6. pass' = [pass EXCEPT ![c] = n]
    BY DEF deleteOps, retired
  <1>7. /\ ops' = ops \ {q \in ops : q.id = p.op.id}
        /\ taken(p.op)
        /\ UNCHANGED <<next_id, current, call, dropped, faults>>
    BY DEF deleteOps, deleted
  <1>8. Shrinks
    BY <1>7 DEF IInv, TypeOK, Shrinks
  <1>9. \A q \in ops' : q.id = p.op.id => q.refused
    BY <1>7
  <1>10. \A o \in ops : o.carries \subseteq landed' \/ o \in ops'
    <2>1. p.op \in in_hand(p)
      BY <1>1 DEF in_hand, busy
    <2>2. \A o \in ops : o.id = p.op.id => o.carries = p.op.carries
      BY <1>2, <2>1 DEF Snapshots
    <2> QED BY <1>7, <2>2 DEF taken
  <1>11. n.retired + (IF busy(n) THEN 1 ELSE 0) <= p.retired + 1
    BY <1>2, <1>5, Bounds DEF busy, Pass
  <1>12. faults' \in 0 .. MaxFaults
    BY <1>7 DEF IInv, TypeOK
  <1> HIDE DEF n
  <1> QED
    BY <1>1, <1>4, <1>5, <1>6, <1>7, <1>8, <1>9, <1>10, <1>11, <1>12, Answered
       DEF busy

(* noteOpFailure: the row the server refused is held aside. *)
LEMMA step_noteOpFailure ==
    ASSUME IInv, NEW c \in Callers, noteOpFailure(c)
    PROVE  IInv'
  <1> DEFINE p == pass[c]
             n1 == [p EXCEPT !.at = "references"]
             n2 == [p EXCEPT !.at = "sweeping", !.op = None,
                             !.retired = p.retired + 1]
  <1>1. Working(c) /\ p.at = "sent" /\ at(c, "sent")
    BY DEF noteOpFailure, at, Working, Live
  <1>2. p \in Pass /\ Shape(p)
    BY <1>1, AtWork
  <1>3. p.retired + 1 \in 0 .. LIMIT
    <2>1. p.retired + Cardinality(p.todo) + 1 <= p.read
      BY <1>1, <1>2 DEF Shape, busy
    <2>2. Cardinality(p.todo) \in Nat
      BY <1>2, FS_CardinalityType DEF Shape
    <2> QED BY <1>2, <2>1, <2>2, Bounds DEF Pass
  <1>4. ops' = held_aside(deleted(p.op))
    BY DEF noteOpFailure
  <1>5. /\ Shrinks
        /\ \A o \in ops : \E q \in ops' : q.carries = o.carries
        /\ \A o \in ops \cap deleted(p.op) :
              \A q \in ops' : q.id = o.id => q.refused
    BY <1>4, HeldAside DEF IInv
  <1>6. \A q \in ops' : q.id = p.op.id => q.refused
    BY <1>5 DEF deleted, Shrinks
  <1>7. UNCHANGED <<next_id, current, call, dropped>> /\ UNCHANGED <<landed, last>>
    BY DEF noteOpFailure, history
  <1>8. faults' \in 0 .. MaxFaults
    BY Bounds DEF IInv, TypeOK, noteOpFailure, fault
  <1>9. CASE pass' = [pass EXCEPT ![c] = n1]
    <2>1. n1 \in Pass
      BY <1>2 DEF Pass
    <2>2. /\ n1.at = "references" /\ n1.retired = p.retired /\ n1.op = p.op
          /\ n1.after = p.after /\ n1.bound = p.bound /\ n1.todo = p.todo
          /\ n1.stalled = p.stalled /\ n1.read = p.read
          /\ n1.stopped = p.stopped
      BY <1>2 DEF Pass
    <2>3. n1.retired + (IF busy(n1) THEN 1 ELSE 0) <= p.retired + 1
      BY <1>2, <2>2, Bounds DEF busy, Pass
    <2> HIDE DEF n1
    <2> QED
      BY <1>1, <1>5, <1>6, <1>7, <1>8, <1>9, <2>1, <2>2, <2>3, Answered
  <1>10. CASE pass' = [pass EXCEPT ![c] = n2]
    <2>1. n2 \in Pass
      BY <1>2, <1>3 DEF Pass
    <2>2. /\ n2.at = "sweeping" /\ n2.retired = p.retired + 1
          /\ n2.after = p.after /\ n2.bound = p.bound /\ n2.todo = p.todo
          /\ n2.stalled = p.stalled /\ n2.read = p.read
          /\ n2.stopped = p.stopped
      BY <1>2 DEF Pass
    <2>3. n2.retired + (IF busy(n2) THEN 1 ELSE 0) <= p.retired + 1
      BY <1>2, <2>2, Bounds DEF busy, Pass
    <2>4. ~busy(n2)
      BY <2>2 DEF busy
    <2> HIDE DEF n2
    <2> QED
      BY <1>1, <1>5, <1>6, <1>7, <1>8, <1>10, <2>1, <2>2, <2>3, <2>4, Answered
  <1>11. \/ pass' = [pass EXCEPT ![c] = n1]
         \/ pass' = [pass EXCEPT ![c] = n2]
    BY DEF noteOpFailure, goto, retired
  <1> HIDE DEF n1, n2
  <1> QED BY <1>9, <1>10, <1>11

(* An attempt is counted on the row that is there. *)
LEMMA Attempted ==
    \A o \in Op : /\ attempted(o) \in Op
                  /\ attempted(o).id = o.id /\ attempted(o).kind = o.kind
                  /\ attempted(o).carries = o.carries
                  /\ attempted(o).form = o.form
                  /\ attempted(o).refused = o.refused
  <1> SUFFICES ASSUME NEW o \in Op
               PROVE  /\ attempted(o) \in Op
                      /\ attempted(o).id = o.id /\ attempted(o).kind = o.kind
                      /\ attempted(o).carries = o.carries
                      /\ attempted(o).form = o.form
                      /\ attempted(o).refused = o.refused
    OBVIOUS
  <1> DEFINE m == Min({o.attempts + 1, maxReplayAttempts + 1})
  <1>1. o.attempts + 1 \in Nat /\ maxReplayAttempts + 1 \in Nat
    BY Bounds DEF Op
  <1>2. m \in 0 .. maxReplayAttempts + 1
    BY <1>1, MinOfTwo
  <1>3. attempted(o) = [o EXCEPT !.attempts = m]
    BY DEF attempted
  <1> HIDE DEF m
  <1> QED BY <1>2, <1>3 DEF Op

(* noteOpAttempt: the kind stalls for the rest of the sweep. *)
LEMMA step_noteOpAttempt ==
    ASSUME IInv, NEW c \in Callers, noteOpAttempt(c)
    PROVE  IInv'
  <1> DEFINE p == pass[c]
             row == deleted(p.op)
             spent == \E o \in row : /\ o.attempts + 1 >= maxReplayAttempts
                                     /\ ~isExemptFromReplayCap(o.kind)
             n1 == [p EXCEPT !.at = "spent", !.op = p.op,
                             !.stalled = p.stalled \cup {p.op.kind}]
             n2 == [p EXCEPT !.at = "sweeping", !.op = None,
                             !.stalled = p.stalled \cup {p.op.kind}]
  <1>1. Working(c) /\ p.at = "sent" /\ at(c, "sent")
    BY DEF noteOpAttempt, at, Working, Live
  <1>2. p \in Pass /\ Shape(p) /\ p.op \in Op
    BY <1>1, AtWork DEF Shape, busy
  <1>3. ops' = (ops \ row) \cup {attempted(o) : o \in row}
    BY DEF noteOpAttempt
  <1>4. row \subseteq ops /\ ops \subseteq Op
        /\ \A o, q \in ops : o.id = q.id => o = q
    BY DEF deleted, IInv, TypeOK
  <1>5. Shrinks /\ \A o \in ops : \E q \in ops' : q.carries = o.carries
    <2> HIDE DEF row
    <2>1. \A q \in ops' : \E o \in ops :
             /\ q \in Op /\ (q = o \/ q = attempted(o))
             /\ q.id = o.id /\ q.kind = o.kind /\ q.carries = o.carries
             /\ q.form = o.form /\ q.refused = o.refused
             /\ o \in row <=> q \in {attempted(r) : r \in row}
      <3> SUFFICES ASSUME NEW q \in ops'
                   PROVE  \E o \in ops :
                      /\ q \in Op /\ (q = o \/ q = attempted(o))
                      /\ q.id = o.id /\ q.kind = o.kind /\ q.carries = o.carries
                      /\ q.form = o.form /\ q.refused = o.refused
                      /\ o \in row <=> q \in {attempted(r) : r \in row}
        OBVIOUS
      <3>1. CASE q \in {attempted(r) : r \in row}
        BY <1>4, <3>1, Attempted
      <3>2. CASE q \in ops \ row /\ q \notin {attempted(r) : r \in row}
        BY <1>4, <3>2
      <3> QED BY <1>3, <3>1, <3>2
    <2>2. ops' \subseteq Op
      BY <2>1
    <2>3. ASSUME NEW q \in ops', NEW r \in ops', q.id = r.id
          PROVE  q = r
      <3>1. \A x \in ops, y \in row : attempted(y).id = x.id => x = y
        BY <1>4, Attempted
      <3>2. CASE q \in ops \ row /\ r \in ops \ row
        BY <1>4, <2>3, <3>2
      <3>3. CASE q \in ops \ row /\ r \in {attempted(y) : y \in row}
        BY <2>3, <3>1, <3>3
      <3>4. CASE r \in ops \ row /\ q \in {attempted(y) : y \in row}
        BY <2>3, <3>1, <3>4
      <3>5. CASE q \in {attempted(y) : y \in row} /\ r \in {attempted(y) : y \in row}
        BY <1>4, <2>3, <3>5, Attempted
      <3> QED BY <1>3, <3>2, <3>3, <3>4, <3>5
    <2>4. \A q \in ops' : \E o \in ops :
             /\ q.id = o.id /\ q.kind = o.kind /\ q.carries = o.carries
             /\ q.form = o.form
             /\ ~q.refused => ~o.refused
      BY <2>1
    <2>5. \A o \in ops : \E q \in ops' : q.carries = o.carries
      BY <1>3, <1>4, Attempted
    <2> QED BY <2>2, <2>3, <2>4, <2>5 DEF Shrinks
  <1>6. UNCHANGED <<next_id, current, call, dropped>> /\ UNCHANGED <<landed, last>>
    BY DEF noteOpAttempt, history
  <1>7. faults' \in 0 .. MaxFaults
    <2>1. faults < MaxFaults /\ faults' = faults + 1
      BY DEF noteOpAttempt, fault
    <2>2. faults \in 0 .. MaxFaults
      BY DEF IInv, TypeOK
    <2> QED BY <2>1, <2>2, Bounds
  <1>8. p.stalled \cup {p.op.kind} \in SUBSET Kinds
    BY <1>2 DEF Op, Pass
  <1>9. CASE pass' = [pass EXCEPT ![c] = n1]
    <2>1. n1 \in Pass
      BY <1>2, <1>8 DEF Pass
    <2>2. /\ n1.at = "spent" /\ n1.retired = p.retired /\ n1.op = p.op
          /\ n1.after = p.after /\ n1.bound = p.bound /\ n1.todo = p.todo
          /\ n1.stalled = p.stalled \cup {p.op.kind} /\ n1.read = p.read
          /\ n1.stopped = p.stopped
      BY <1>2 DEF Pass
    <2>3. n1.retired + (IF busy(n1) THEN 1 ELSE 0) <= p.retired + 1
      BY <1>2, <2>2, Bounds DEF busy, Pass
    <2> HIDE DEF n1
    <2> QED BY <1>1, <1>5, <1>6, <1>7, <1>9, <2>1, <2>2, <2>3, Answered
  <1>10. CASE pass' = [pass EXCEPT ![c] = n2]
    <2>1. n2 \in Pass
      BY <1>2, <1>8 DEF Pass
    <2>2. /\ n2.at = "sweeping" /\ n2.retired = p.retired
          /\ n2.after = p.after /\ n2.bound = p.bound /\ n2.todo = p.todo
          /\ n2.stalled = p.stalled \cup {p.op.kind} /\ n2.read = p.read
          /\ n2.stopped = p.stopped
      BY <1>2 DEF Pass
    <2>3. n2.retired + (IF busy(n2) THEN 1 ELSE 0) <= p.retired + 1
      BY <1>2, <2>2, Bounds DEF busy, Pass
    <2>4. ~busy(n2)
      BY <2>2 DEF busy
    <2> HIDE DEF n2
    <2> QED BY <1>1, <1>5, <1>6, <1>7, <1>10, <2>1, <2>2, <2>3, <2>4, Answered
  <1>11. \/ pass' = [pass EXCEPT ![c] = n1]
         \/ pass' = [pass EXCEPT ![c] = n2]
    BY DEF noteOpAttempt
  <1> HIDE DEF n1, n2
  <1> QED BY <1>9, <1>10, <1>11

(* An op in hand is dealt with, and the sweep goes on: what                *)
(* failOpsReferencing and park have in common.                             *)
LEMMA Resumed ==
    ASSUME IInv, NEW c \in Callers, Working(c),
           pass[c].at \in {"references", "spent"}, NEW n \in Pass,
           pass' = [pass EXCEPT ![c] = n], n.after = pass[c].after,
           n.bound = pass[c].bound, n.todo = pass[c].todo,
           n.at = "sweeping", n.retired <= pass[c].retired + 1,
           n.stalled = pass[c].stalled, n.read = pass[c].read,
           n.stopped = pass[c].stopped,
           Shrinks, UNCHANGED <<next_id, current, call, history, faults>>,
           \A o \in ops : \E q \in ops' : q.carries = o.carries
    PROVE  IInv'
  <1> DEFINE p == pass[c]
  <1>1. /\ p \in Pass /\ Live(c) /\ p.after = None
        /\ Shape(p) /\ Snapshots(p) /\ Ordered(p) /\ Promise(p)
    BY AtWork
  <1>2. pass'[c] = n
    BY DEF IInv, TypeOK
  <1>3. WorkStep(c)
    BY <1>1, <1>2 DEF WorkStep
  <1>4. UNCHANGED <<landed, last, dropped>>
    BY DEF history
  <1>5. TypeOK'
    BY <1>4 DEF IInv, TypeOK, Shrinks
  <1>6. Shape(n)
    <2>1. /\ IsFiniteSet(p.todo)
          /\ \A t, u \in p.todo : t.id = u.id => t = u
          /\ p.retired + Cardinality(p.todo) + 1 <= p.read
      BY <1>1 DEF Shape, busy
    <2>2. Cardinality(p.todo) \in Nat
      BY <2>1, FS_CardinalityType
    <2>3. p.retired \in Nat /\ p.read \in Nat /\ n.retired \in Nat
      BY <1>1, Bounds DEF Pass
    <2>4. n.todo = p.todo /\ n.read = p.read /\ n.retired <= p.retired + 1
      OBVIOUS
    <2>5. n.retired + Cardinality(n.todo) + 0 <= n.read
      <3> HIDE DEF p
      <3> QED BY <2>1, <2>2, <2>3, <2>4
    <2> QED BY <2>1, <2>5 DEF Shape, busy
  <1>7. Snapshots(pass[c])'
    BY <1>2, <1>3, SnapshotsKept DEF in_hand, busy
  <1>8. sending(pass[c])' = sending(p)
    BY <1>2 DEF sending
  <1>9. \A q \in pending' :
           \E r \in pending : q.id = r.id /\ q.kind = r.kind
    BY DEF Shrinks, pending
  <1>10. Ordered(pass[c])'
    BY <1>1, <1>2, <1>4, <1>8, <1>9 DEF Ordered
  <1>11. Promise(pass[c])'
    BY <1>1, <1>2, <1>8, <1>9 DEF Promise
  <1>12. Passes'
    BY <1>2, <1>3, <1>6, <1>7, <1>10, <1>11, WorkStepPasses
  <1>13. Table'
    <2>1. \A d \in Callers : Live(d)' => pass'[d].bound < next_id
      BY <1>1, <1>2 DEF IInv, TypeOK, Table, Live
    <2>2. \A k \in Kinds : last'[k] < next_id
      BY <1>4 DEF IInv, Table
    <2> QED BY <2>1, <2>2, TableKept
  <1>14. WaitingAfterLast'
    BY <1>4, <1>9 DEF IInv, WaitingAfterLast
  <1>15. NothingForgotten'
    BY <1>4, NothingForgottenKept
  <1> QED BY <1>3, <1>5, <1>12, <1>13, <1>14, <1>15, WorkStepAlone DEF IInv

(* failOpsReferencing: what was queued for the refused create is held aside. *)
LEMMA step_failOpsReferencing ==
    ASSUME IInv, NEW c \in Callers, failOpsReferencing(c)
    PROVE  IInv'
  <1> DEFINE p == pass[c]
             n == [p EXCEPT !.at = "sweeping", !.op = None,
                            !.retired = p.retired + 1]
  <1>1. Working(c) /\ p.at = "references"
    BY DEF failOpsReferencing, at, Working, Live
  <1>2. p \in Pass /\ Shape(p)
    BY <1>1, AtWork
  <1>3. p.retired + 1 \in 0 .. LIMIT
    <2>1. p.retired + Cardinality(p.todo) + 1 <= p.read
      BY <1>1, <1>2 DEF Shape, busy
    <2>2. Cardinality(p.todo) \in Nat
      BY <1>2, FS_CardinalityType DEF Shape
    <2> QED BY <1>2, <2>1, <2>2, Bounds DEF Pass
  <1>4. n \in Pass
    BY <1>2, <1>3 DEF Pass
  <1>5. /\ n.at = "sweeping" /\ n.retired <= p.retired + 1
        /\ n.after = p.after /\ n.bound = p.bound /\ n.todo = p.todo
        /\ n.stalled = p.stalled /\ n.read = p.read
        /\ n.stopped = p.stopped
    BY <1>2, Bounds DEF Pass
  <1>6. pass' = [pass EXCEPT ![c] = n]
    BY DEF failOpsReferencing, retired
  <1>7. Shrinks /\ \A o \in ops : \E q \in ops' : q.carries = o.carries
    BY HeldAside DEF failOpsReferencing, IInv
  <1>8. UNCHANGED <<next_id, current, call, history, faults>>
    BY DEF failOpsReferencing
  <1> HIDE DEF n
  <1> QED BY <1>1, <1>4, <1>5, <1>6, <1>7, <1>8, Resumed

(* park: the op whose attempts are spent is held aside. *)
LEMMA step_park ==
    ASSUME IInv, NEW c \in Callers, park(c)
    PROVE  IInv'
  <1> DEFINE p == pass[c]
             n == [p EXCEPT !.at = "sweeping", !.op = None]
  <1>1. Working(c) /\ p.at = "spent"
    BY DEF park, at, Working, Live
  <1>2. p \in Pass
    BY <1>1, AtWork
  <1>3. n \in Pass
    BY <1>2 DEF Pass
  <1>4. /\ n.at = "sweeping" /\ n.retired <= p.retired + 1
        /\ n.after = p.after /\ n.bound = p.bound /\ n.todo = p.todo
        /\ n.stalled = p.stalled /\ n.read = p.read
        /\ n.stopped = p.stopped
    BY <1>2, Bounds DEF Pass
  <1>5. pass' = [pass EXCEPT ![c] = n]
    BY DEF park, next_op
  <1>6. Shrinks /\ \A o \in ops : \E q \in ops' : q.carries = o.carries
    BY HeldAside DEF park, IInv
  <1>7. UNCHANGED <<next_id, current, call, history, faults>>
    BY DEF park
  <1> HIDE DEF n
  <1> QED BY <1>1, <1>3, <1>4, <1>5, <1>6, <1>7, Resumed

(* A sweep comes to its end, by itself or because a request failed: it has *)
(* nothing left to send.                                                   *)
LEMMA Ended ==
    ASSUME IInv, NEW c \in Callers, Working(c), NEW n \in Pass,
           pass' = [pass EXCEPT ![c] = n], n.after = None,
           n.bound = pass[c].bound, n.todo = {},
           n.at \in {"listing", "ending"},
           n.retired <= n.read,
           n.stopped \/ (n.at = "ending" => Promise(n)),
           \/ UNCHANGED <<landed, last>>
           \/ at(c, "sent") /\ taken(pass[c].op),
           faults' \in 0 .. MaxFaults,
           UNCHANGED <<ops, next_id, current, call, dropped>>
    PROVE  IInv'
  <1> DEFINE p == pass[c]
  <1>1. p \in Pass /\ Live(c) /\ p.after = None
    BY AtWork
  <1>2. pass'[c] = n
    BY DEF IInv, TypeOK
  <1>3. WorkStep(c)
    BY <1>1, <1>2 DEF WorkStep
  <1>4. /\ \A o \in pending : last'[o.kind] <= o.id
        /\ \A k \in Kinds : last'[k] < next_id
        /\ landed' \subseteq OpId /\ last' \in [Kinds -> 0 .. MaxOps]
        /\ landed \subseteq landed'
    <2>1. CASE at(c, "sent") /\ taken(p.op)
      BY <2>1, TakenInOrder
    <2>2. CASE UNCHANGED <<landed, last>>
      BY <2>2 DEF IInv, WaitingAfterLast, Table, TypeOK
    <2> QED BY <2>1, <2>2
  <1>5. TypeOK'
    BY <1>4 DEF IInv, TypeOK
  <1>6. Shape(n)
    <2>1. IsFiniteSet({}) /\ Cardinality({}) = 0
      BY FS_EmptySet
    <2>2. n.retired + 0 + 0 <= n.read
      BY Bounds DEF Pass
    <2> QED BY <2>1, <2>2 DEF Shape, busy
  <1>7. Snapshots(pass[c])'
    BY <1>2 DEF Snapshots, in_hand, busy
  <1>8. sending(n) = {} /\ sending(pass[c])' = {}
    BY <1>2 DEF sending
  <1>9. Ordered(pass[c])'
    BY <1>2, <1>8 DEF Ordered
  <1>10. Working(c)' => Promise(pass[c])'
    <2>1. pending' = pending
      BY DEF pending
    <2>2. Promise(n) <=> Promise(pass[c])'
      BY <1>2, <1>8, <2>1 DEF Promise
    <2>3. n.stopped => Promise(n)
      BY DEF Promise
    <2> QED BY <1>2, <2>2, <2>3 DEF Working
  <1>11. Passes'
    BY <1>2, <1>3, <1>6, <1>7, <1>9, <1>10, WorkStepPasses
  <1>12. Shrinks
    BY ShrinksNot DEF IInv
  <1>13. Table'
    <2>1. \A d \in Callers : Live(d)' => pass'[d].bound < next_id
      BY <1>1, <1>2 DEF IInv, TypeOK, Table, Live
    <2> QED BY <1>4, <1>12, <2>1, TableKept
  <1>14. WaitingAfterLast'
    BY <1>4 DEF WaitingAfterLast, pending
  <1>15. NothingForgotten'
    BY <1>4, NothingForgottenKept
  <1> QED BY <1>3, <1>5, <1>11, <1>13, <1>14, <1>15, WorkStepAlone DEF IInv

(* stop: offline, unauthorized or cancelled, the pass ends. *)
LEMMA step_stop ==
    ASSUME IInv, NEW c \in Callers, stop(c)
    PROVE  IInv'
  <1> DEFINE p == pass[c]
             n == [p EXCEPT !.at = "ending", !.stopped = TRUE, !.op = None,
                            !.todo = {}]
  <1>1. Working(c) /\ p.at = "sent"
    BY DEF stop, at, Working, Live
  <1>2. p \in Pass /\ p.after = None /\ Shape(p)
    BY <1>1, AtWork
  <1>3. n \in Pass
    BY <1>2 DEF Pass
  <1>4. /\ n.after = None /\ n.bound = p.bound /\ n.todo = {}
        /\ n.at = "ending" /\ n.stopped /\ n.retired = p.retired
        /\ n.read = p.read
    BY <1>2 DEF Pass
  <1>5. p.retired <= p.read
    <2>1. p.retired + Cardinality(p.todo) + 1 <= p.read
      BY <1>1, <1>2 DEF Shape, busy
    <2>2. Cardinality(p.todo) \in Nat
      BY <1>2, FS_CardinalityType DEF Shape
    <2> QED BY <1>2, <2>1, <2>2, Bounds DEF Pass
  <1>6. pass' = [pass EXCEPT ![c] = n]
    BY DEF stop
  <1>7. \/ UNCHANGED <<landed, last>>
        \/ at(c, "sent") /\ taken(pass[c].op)
    BY DEF stop, not_taken
  <1>8. faults' \in 0 .. MaxFaults
    <2>1. faults < MaxFaults /\ faults' = faults + 1
      BY DEF stop, fault
    <2>2. faults \in 0 .. MaxFaults
      BY DEF IInv, TypeOK
    <2> QED BY <2>1, <2>2, Bounds
  <1>9. UNCHANGED <<ops, next_id, current, call, dropped>>
    BY DEF stop
  <1> HIDE DEF n
  <1> QED BY <1>1, <1>3, <1>4, <1>5, <1>6, <1>7, <1>8, <1>9, Ended

(* sweep_ends: nothing is left to send but what has stalled. *)
LEMMA step_sweep_ends ==
    ASSUME IInv, NEW c \in Callers, sweep_ends(c)
    PROVE  IInv'
  <1> DEFINE p == pass[c]
             next == IF mayContinue(p) THEN "listing" ELSE "ending"
             n == [p EXCEPT !.at = next, !.todo = {}]
  <1>1. Working(c) /\ p.at = "sweeping" /\ sendable(p) = {}
    BY DEF sweep_ends, at, Working, Live
  <1>2. p \in Pass /\ p.after = None /\ Shape(p) /\ Promise(p)
    BY <1>1, AtWork
  <1>3. next \in {"listing", "ending"}
    OBVIOUS
  <1>4. pass' = [pass EXCEPT ![c] = n]
    BY DEF sweep_ends
  <1> HIDE DEF next
  <1>5. n \in Pass
    BY <1>2, <1>3 DEF Pass
  <1>6. /\ n.after = None /\ n.bound = p.bound /\ n.todo = {}
        /\ n.at = next /\ n.stopped = p.stopped /\ n.retired = p.retired
        /\ n.read = p.read /\ n.stalled = p.stalled
    BY <1>2 DEF Pass
  <1>7. p.retired <= p.read
    <2>1. p.retired + Cardinality(p.todo) + 0 <= p.read
      BY <1>1, <1>2 DEF Shape, busy
    <2>2. Cardinality(p.todo) \in Nat
      BY <1>2, FS_CardinalityType DEF Shape
    <2> QED BY <1>2, <2>1, <2>2, Bounds DEF Pass
  <1>8. Promise(n)
    <2>1. sending(p) = {}
      BY <1>1 DEF sending, sendable
    <2> QED BY <1>2, <1>6, <2>1 DEF Promise
  <1>9. UNCHANGED <<landed, last>> /\ faults' \in 0 .. MaxFaults
        /\ UNCHANGED <<ops, next_id, current, call, dropped>>
    BY DEF sweep_ends, history, IInv, TypeOK
  <1> HIDE DEF n
  <1> QED BY <1>1, <1>3, <1>4, <1>5, <1>6, <1>7, <1>8, <1>9, Ended

(* releaseCurrent: the pass at the front of the chain goes, and the one    *)
(* behind it, if there is one, is at the front now.                        *)
LEMMA step_releaseCurrent ==
    ASSUME IInv, NEW c \in Callers, releaseCurrent(c)
    PROVE  IInv'
  <1>1. /\ Working(c) /\ Live(c) /\ pass[c].after = None /\ pass[c] \in Pass
        /\ pass[c].at = "ending"
    BY AtWork DEF releaseCurrent, at, Working, Live
  <1>2. /\ current' = IF released(c) THEN None ELSE current
        /\ pass' = [d \in Callers |->
               IF d = c THEN None
               ELSE IF pass[d] # None /\ pass[d].after = c
                    THEN [pass[d] EXCEPT !.after = None] ELSE pass[d]]
        /\ call' = [d \in Callers |->
               IF call[d].at = "waiting" /\ call[d].pass = c
               THEN Idle ELSE call[d]]
        /\ UNCHANGED <<ops, next_id, landed, last, dropped, faults>>
    BY DEF releaseCurrent, history
  <1>3. ASSUME NEW d \in Callers
        PROVE  /\ Live(d)' <=> Live(d) /\ d # c
               /\ Live(d) /\ d # c =>
                     /\ pass'[d] \in Pass
                     /\ pass'[d].bound = pass[d].bound
                     /\ pass'[d].at = pass[d].at
                     /\ pass[d].after = c => pass'[d].after = None
                     /\ pass[d].after # c => pass'[d] = pass[d]
    <2>1. CASE d = c
      BY <1>2, <2>1 DEF Live
    <2>2. CASE d # c /\ Live(d) /\ pass[d].after = c
      <3>1. pass'[d] = [pass[d] EXCEPT !.after = None]
        BY <1>2, <2>2 DEF Live
      <3>2. pass[d] \in Pass
        BY <2>2 DEF IInv, TypeOK, Live
      <3>3. pass'[d] \in Pass /\ pass'[d].bound = pass[d].bound
            /\ pass'[d].after = None /\ pass'[d].at = pass[d].at
        BY <3>1, <3>2 DEF Pass
      <3> QED BY <2>2, <3>3, NoneAssumption DEF Live
    <2>3. CASE d # c /\ ~(Live(d) /\ pass[d].after = c)
      <3>1. pass'[d] = pass[d]
        BY <1>2, <2>3 DEF Live
      <3> QED BY <2>3, <3>1 DEF Live, IInv, TypeOK
    <2> QED BY <2>1, <2>2, <2>3
  <1>4. \A d \in Callers : Live(d) /\ d # c => pass[c].bound < pass[d].bound
    <2> SUFFICES ASSUME NEW d \in Callers, Live(d), d # c
                 PROVE  pass[c].bound < pass[d].bound
      OBVIOUS
    <2>1. pass[c].bound <= pass[d].bound /\ pass[c].bound # pass[d].bound
      BY <1>1 DEF IInv, Chain
    <2>2. pass[c].bound \in Nat /\ pass[d].bound \in Nat
      BY <1>1, Bounds DEF IInv, TypeOK, Live, Pass
    <2> QED BY <2>1, <2>2
  <1>5. \A d \in Callers : Live(d) => pass[d].bound \in Nat
    BY Bounds DEF IInv, TypeOK, Live, Pass
  <1>6. \A d \in Callers : Live(d) /\ d # c => pass[d].after # None
    <2> SUFFICES ASSUME NEW d \in Callers, Live(d), d # c,
                        pass[d].after = None
                 PROVE  FALSE
      OBVIOUS
    <2>1. pass[d].bound <= pass[c].bound
      BY <1>1 DEF IInv, Chain
    <2> QED BY <1>1, <1>4, <1>5, <2>1
  <1>7. \A d \in Callers : ~(Working(d)')
    BY <1>3, <1>6 DEF Working, Live, IInv, Chain
  <1>8. call' \in [Callers -> [at : {"idle", "bounded", "waiting"},
                          bound : 0 .. MaxOps, pass : Callers \cup {None}]]
    <2>1. Idle \in [at : {"idle", "bounded", "waiting"},
                    bound : 0 .. MaxOps, pass : Callers \cup {None}]
      BY Bounds DEF Idle
    <2> QED BY <1>2, <2>1 DEF IInv, TypeOK
  <1>9. TypeOK'
    <2>1. pass' \in [Callers -> Pass \cup {None}]
      <3>1. \A d \in Callers : pass'[d] \in Pass \cup {None}
        BY <1>3 DEF Live
      <3> QED BY <1>2, <3>1
    <2> QED BY <1>2, <1>8, <2>1 DEF IInv, TypeOK
  <1>10. Waiting'
    <2> SUFFICES ASSUME NEW d \in Callers
                 PROVE  /\ Live(d)' => call'[d].at = "waiting" /\ call'[d].pass = d
                        /\ call'[d].at = "waiting" =>
                           /\ call'[d].pass \in Callers /\ Live(call[d].pass)'
                           /\ call'[d].bound <= pass'[call'[d].pass].bound
      BY DEF Waiting, Live
    <2>1. CASE call[d].at = "waiting" /\ call[d].pass = c
      <3>1. call'[d] = Idle
        BY <1>2, <2>1
      <3>2. ~(Live(d)')
        BY <1>3, <2>1 DEF IInv, Waiting
      <3> QED BY <3>1, <3>2 DEF Idle
    <2>2. CASE ~(call[d].at = "waiting" /\ call[d].pass = c)
      <3>1. call'[d] = call[d]
        BY <1>2, <2>2
      <3>2. Live(d)' => call'[d].at = "waiting" /\ call'[d].pass = d
        BY <1>3, <3>1 DEF IInv, Waiting
      <3>3. ASSUME call'[d].at = "waiting"
            PROVE  /\ call'[d].pass \in Callers /\ Live(call[d].pass)'
                   /\ call'[d].bound <= pass'[call'[d].pass].bound
        <4>1. call[d].pass \in Callers /\ Live(call[d].pass) /\ call[d].pass # c
              /\ call[d].bound <= pass[call[d].pass].bound
          BY <2>2, <3>1, <3>3 DEF IInv, Waiting
        <4>2. pass'[call[d].pass].bound = pass[call[d].pass].bound
              /\ Live(call[d].pass)'
          <5>1. \A e \in Callers : Live(e) /\ e # c =>
                   pass'[e].bound = pass[e].bound /\ pass'[e] # None
            BY <1>3 DEF Live
          <5> QED BY <3>1, <4>1, <5>1 DEF Live
        <4> QED BY <3>1, <4>1, <4>2
      <3> QED BY <3>2, <3>3
    <2> QED BY <2>1, <2>2
  <1>11. Chain'
    <2>1. current # None /\ pass[c].bound <= current.bound /\ current \in Current
      BY <1>1 DEF IInv, Chain, TypeOK
    <2>2. /\ current.pass \in Callers /\ Live(current.pass)
          /\ pass[current.pass].bound = current.bound
      BY <2>1 DEF IInv, Chain, Current
    <2>3. CASE released(c)
      <3>1. current.pass = c
        BY <2>3 DEF released
      <3>2. \A d \in Callers : ~(Live(d)')
        <4> SUFFICES ASSUME NEW d \in Callers, Live(d), d # c PROVE FALSE
          BY <1>3
        <4>1. pass[d].bound <= current.bound
          BY DEF IInv, Chain
        <4> QED BY <1>1, <1>4, <1>5, <2>2, <3>1, <4>1
      <3>3. current' = None
        BY <1>2, <2>3
      <3> QED BY <3>2, <3>3 DEF Chain, Live
    <2>4. CASE ~released(c)
      <3>1. current' = current /\ current.pass # c
        BY <1>2, <2>1, <2>4 DEF released
      <3>2. \A d \in Callers : Live(d)' =>
               /\ current' # None /\ pass'[d].bound <= current'.bound
               /\ Working(d)' => pass'[d].after = None
        BY <1>3, <1>7, <2>1, <3>1 DEF IInv, Chain
      <3>3. Live(current.pass)' /\ pass'[current'.pass].bound = current'.bound
        <4>1. \A e \in Callers : Live(e) /\ e # c =>
                 pass'[e].bound = pass[e].bound /\ pass'[e] # None
          BY <1>3 DEF Live
        <4> QED BY <2>2, <3>1, <4>1 DEF Live
      <3>4. ASSUME NEW d \in Callers, NEW e \in Callers, Live(d)', Live(e)'
            PROVE  /\ pass'[d].bound = pass'[e].bound => d = e
                   /\ pass'[d].after = None => pass'[d].bound <= pass'[e].bound
        <4>1. /\ Live(d) /\ d # c /\ Live(e) /\ e # c
              /\ pass'[d].bound = pass[d].bound /\ pass'[e].bound = pass[e].bound
          BY <1>3, <3>4
        <4>2. pass'[d].bound = pass'[e].bound => d = e
          BY <4>1 DEF IInv, Chain
        <4>3. ASSUME pass'[d].after = None PROVE pass[d].bound <= pass[e].bound
          <5>1. pass[d].after = c
            BY <1>3, <1>6, <4>1, <4>3
          <5>2. pass[e].bound < pass[d].bound => pass[e].bound <= pass[c].bound
            BY <1>1, <4>1, <5>1, OutboxConstants DEF IInv, Chain, Live
          <5> QED BY <1>1, <1>4, <1>5, <4>1, <5>2
        <4> QED BY <4>1, <4>2, <4>3
      <3>5. ASSUME NEW d \in Callers, Live(d)', pass'[d].after # None
            PROVE  /\ Live(pass[d].after)' /\ pass'[d].after = pass[d].after
                   /\ pass'[pass'[d].after].bound < pass'[d].bound
                   /\ \A e \in Callers :
                         Live(e)' /\ pass'[e].bound < pass'[d].bound =>
                            pass'[e].bound <= pass'[pass'[d].after].bound
        <4>1. /\ Live(d) /\ d # c /\ pass[d].after # c /\ pass'[d] = pass[d]
          BY <1>3, <3>5
        <4>2. pass[d].after \in Callers /\ Live(pass[d].after)
          BY <3>5, <4>1 DEF IInv, TypeOK, Live, Pass, Chain
        <4>3. \A e \in Callers : Live(e) /\ e # c =>
                 pass'[e].bound = pass[e].bound /\ pass'[e] # None
          BY <1>3 DEF Live
        <4>4. \A e \in Callers : Live(e)' => Live(e) /\ e # c
          BY <1>3
        <4>5. /\ pass[pass[d].after].bound < pass[d].bound
              /\ \A e \in Callers : Live(e) /\ pass[e].bound < pass[d].bound =>
                    pass[e].bound <= pass[pass[d].after].bound
          BY <3>5, <4>1 DEF IInv, Chain
        <4> QED BY <4>1, <4>2, <4>3, <4>4, <4>5 DEF Live
      <3> QED BY <2>1, <3>1, <3>2, <3>3, <3>4, <3>5 DEF Chain, Live
    <2> QED BY <2>3, <2>4
  <1>12. Passes'
    <2> SUFFICES ASSUME NEW d \in Callers, Live(d)' PROVE Shape(pass[d])'
      BY <1>7 DEF Passes
    <2>1. Live(d) /\ d # c /\ ~Working(d)
      BY <1>3, <1>6 DEF IInv, Chain, Live
    <2>2. Shape(pass[d]) /\ pass[d].at = "listing" /\ pass[d] \in Pass
      BY <2>1 DEF IInv, TypeOK, Passes, Working, Live
    <2>3. pass'[d] = pass[d] \/ pass'[d] = [pass[d] EXCEPT !.after = None]
      BY <1>2, <2>1
    <2>4. pass'[d].at = "listing" /\ pass'[d].todo = pass[d].todo
      BY <2>2, <2>3 DEF Pass
    <2> QED BY <2>2, <2>4 DEF Shape, busy
  <1>13. Table'
    <2>1. \A d \in Callers : call'[d].bound < next_id
      <3>1. 0 < next_id
        BY Bounds DEF IInv, TypeOK
      <3> QED BY <1>2, <3>1 DEF IInv, Table, Idle
    <2>2. \A d \in Callers : Live(d)' => pass'[d].bound < next_id
      BY <1>3 DEF IInv, Table
    <2> QED BY <1>2, <2>1, <2>2 DEF IInv, Table, Live
  <1>14. WaitingAfterLast' /\ NothingForgotten'
    BY <1>2 DEF IInv, WaitingAfterLast, NothingForgotten, pending, carried
  <1> QED BY <1>9, <1>10, <1>11, <1>12, <1>13, <1>14 DEF IInv

(* No other step than a sweep's own touches a sweep, unless it queues a    *)
(* write, which no sweep has read: what the pass at work knows stays true. *)
LEMMA PassesKept ==
    ASSUME IInv, UNCHANGED last, next_id' \in Nat, next_id <= next_id',
           ops \subseteq Op,
           \A q \in ops' : \/ q.id = next_id
                           \/ q \in ops,
           \A c \in Callers : Working(c)' => Working(c) /\ pass'[c] = pass[c],
           \A c \in Callers : Live(c)' => Shape(pass'[c])
    PROVE  Passes'
  <1> SUFFICES ASSUME NEW c \in Callers, Working(c)'
               PROVE  /\ Snapshots(pass[c])' /\ Ordered(pass[c])'
                      /\ Promise(pass[c])'
    BY DEF Passes, Shape, busy, Live
  <1> DEFINE p == pass[c]
  <1>1. Working(c) /\ pass'[c] = p
    OBVIOUS
  <1>2. p \in Pass /\ Shape(p) /\ Snapshots(p) /\ Ordered(p) /\ Promise(p)
    BY <1>1, AtWork
  <1>3. next_id \in Nat /\ p.bound \in Nat /\ p.bound < next_id
    BY <1>1, <1>2, Bounds DEF IInv, TypeOK, Table, Working, Pass
  <1>4. \A t \in p.todo \cup in_hand(p) : t.id \in Nat /\ t.id < next_id
    BY <1>2 DEF Snapshots, Shape, in_hand, Pass, Op, OpId
  <1>6. \A t \in p.todo \cup in_hand(p) : t.id < next_id' /\ t.id # next_id
    BY <1>3, <1>4
  <1>7. Snapshots(pass[c])'
    <2>1. \A t \in p.todo \cup in_hand(p), q \in ops' :
             q.id = t.id => q.kind = t.kind /\ q.carries = t.carries
      BY <1>2, <1>6 DEF Snapshots
    <2> QED BY <1>1, <1>6, <2>1 DEF Snapshots, in_hand, busy
  <1>8. sending(pass[c])' = sending(p)
    BY <1>1 DEF sending
  <1>9. sending(p) \subseteq p.todo \cup in_hand(p)
    BY DEF sending, in_hand, busy
  <1>10. \A q \in pending' : q.id = next_id \/ q \in pending
    BY DEF pending
  <1>11. \A t \in sending(p) : ~(next_id < t.id)
    BY <1>3, <1>4, <1>9
  <1>12. Ordered(pass[c])'
    BY <1>1, <1>2, <1>8, <1>10, <1>11 DEF Ordered
  <1>13. Promise(pass[c])'
    BY <1>1, <1>2, <1>3, <1>8, <1>10 DEF Promise
  <1> QED BY <1>7, <1>12, <1>13

(* The reader's discarding of refused rows keeps the invariant. *)
LEMMA step_discardRejectedOps ==
    ASSUME IInv, discardRejectedOps
    PROVE  IInv'
  <1>1. /\ ops' = pending /\ dropped' = dropped \cup carried(ops \ pending)
        /\ UNCHANGED <<next_id, current, pass, call, landed, last, faults>>
    BY DEF discardRejectedOps
  <1>2. pending \subseteq ops /\ ops' \subseteq ops /\ pending' = pending
    BY <1>1 DEF pending
  <1>3. carried(ops \ pending) \subseteq OpId
    BY DEF carried, IInv, TypeOK, Op
  <1>4. TypeOK'
    BY <1>1, <1>2, <1>3 DEF IInv, TypeOK
  <1>5. Waiting' /\ Chain'
    BY <1>1 DEF IInv, Waiting, Chain, Live, Working
  <1>6. Table'
    BY <1>1, <1>2 DEF IInv, Table, Live
  <1>7. Passes'
    <2>1. next_id' \in Nat /\ next_id <= next_id'
      BY <1>1, Bounds DEF IInv, TypeOK
    <2> QED BY <1>1, <1>2, <2>1, PassesKept
            DEF IInv, TypeOK, Passes, Working, Live
  <1>8. WaitingAfterLast'
    BY <1>1, <1>2 DEF IInv, WaitingAfterLast
  <1>9. NothingForgotten'
    <2>1. \A o \in ops : o \in ops' \/ o.carries \subseteq dropped'
      BY <1>1 DEF carried
    <2> QED BY <1>1, <2>1, NothingForgottenKept
  <1> QED BY <1>4, <1>5, <1>6, <1>7, <1>8, <1>9 DEF IInv

(* A kill loses the passes and their callers, with the request taken or    *)
(* not; the table stays.                                                   *)
LEMMA step_killed ==
    ASSUME IInv, killed
    PROVE  IInv'
  <1>1. /\ current' = None
        /\ pass' = [c \in Callers |-> None]
        /\ call' = [c \in Callers |-> Idle]
        /\ UNCHANGED <<ops, next_id, dropped>>
    BY DEF killed
  <1>2. /\ \A o \in pending : last'[o.kind] <= o.id
        /\ \A k \in Kinds : last'[k] < next_id
        /\ landed' \subseteq OpId /\ last' \in [Kinds -> 0 .. MaxOps]
        /\ landed \subseteq landed'
    <2>1. CASE \E c \in Callers : at(c, "sent") /\ taken(pass[c].op)
      BY <2>1, TakenInOrder
    <2>2. CASE UNCHANGED <<landed, last>>
      BY <2>2 DEF IInv, WaitingAfterLast, Table, TypeOK
    <2> QED BY <2>1, <2>2 DEF killed, not_taken
  <1>3. faults' \in 0 .. MaxFaults
    <2>1. faults < MaxFaults /\ faults' = faults + 1
      BY DEF killed, fault
    <2>2. faults \in 0 .. MaxFaults
      BY DEF IInv, TypeOK
    <2> QED BY <2>1, <2>2, Bounds
  <1>4. Idle \in [at : {"idle", "bounded", "waiting"},
                  bound : 0 .. MaxOps, pass : Callers \cup {None}]
    BY Bounds DEF Idle
  <1>5. TypeOK'
    BY <1>1, <1>2, <1>3, <1>4 DEF IInv, TypeOK
  <1>6. Waiting' /\ Chain' /\ Passes'
    BY <1>1 DEF Waiting, Chain, Passes, Live, Working, Idle
  <1>7. Table'
    <2>1. 0 < next_id
      BY Bounds DEF IInv, TypeOK
    <2> QED BY <1>1, <1>2, <2>1 DEF IInv, Table, Live, Idle
  <1>8. WaitingAfterLast'
    BY <1>1, <1>2 DEF WaitingAfterLast, pending
  <1>9. NothingForgotten'
    BY <1>1, <1>2, NothingForgottenKept
  <1> QED BY <1>5, <1>6, <1>7, <1>8, <1>9 DEF IInv

(* A caller captures its ceiling. *)
LEMMA step_drain_asked ==
    ASSUME IInv, NEW c \in Callers, drain_asked(c)
    PROVE  IInv'
  <1>1. /\ call[c].at = "idle"
        /\ call' = [call EXCEPT ![c].at = "bounded", ![c].bound = maxOpId]
        /\ UNCHANGED <<ops, next_id, current, pass, landed, last, dropped,
                       faults>>
    BY DEF drain_asked, history
  <1>2. maxOpId \in 0 .. MaxOps /\ maxOpId < next_id
    <2>1. maxOpId \in {o.id : o \in ops} \cup {0}
      BY MaxOpId DEF IInv, TypeOK
    <2>2. 0 < next_id
      BY Bounds DEF IInv, TypeOK
    <2> QED BY <2>1, <2>2, Bounds DEF IInv, TypeOK, Table, Op, OpId
  <1> DEFINE m == maxOpId
  <1>3. /\ call'[c].at = "bounded" /\ call'[c].bound = m
        /\ \A d \in Callers : d # c => call'[d] = call[d]
        /\ call' \in [Callers -> [at : {"idle", "bounded", "waiting"},
                         bound : 0 .. MaxOps, pass : Callers \cup {None}]]
    <2> HIDE DEF m
    <2>1. m \in 0 .. MaxOps
      BY <1>2 DEF m
    <2>2. call' = [call EXCEPT ![c] =
                      [call[c] EXCEPT !.at = "bounded", !.bound = m]]
      BY <1>1 DEF m
    <2>3. call[c] \in [at : {"idle", "bounded", "waiting"},
                       bound : 0 .. MaxOps, pass : Callers \cup {None}]
      BY DEF IInv, TypeOK
    <2> QED BY <2>1, <2>2, <2>3 DEF IInv, TypeOK
  <1>4. TypeOK'
    BY <1>1, <1>3 DEF IInv, TypeOK
  <1>5. Waiting'
    BY <1>1, <1>3 DEF IInv, Waiting, Live
  <1>6. Chain' /\ Passes'
    BY <1>1 DEF IInv, Chain, Passes, Live, Working, Shape, busy, Snapshots,
                Ordered, Promise, in_hand, sending, pending
  <1>7. Table'
    BY <1>1, <1>2, <1>3 DEF IInv, Table, Live
  <1>8. WaitingAfterLast' /\ NothingForgotten'
    BY <1>1 DEF IInv, WaitingAfterLast, NothingForgotten, pending, carried
  <1> QED BY <1>4, <1>5, <1>6, <1>7, <1>8 DEF IInv

(* A caller joins a pass that reaches as far as it asked for, or chains a  *)
(* new one, which reaches further than all there are.                      *)
LEMMA step_drain ==
    ASSUME IInv, NEW c \in Callers, drain(c)
    PROVE  IInv'
  <1> DEFINE b == call[c].bound
             Call == [at : {"idle", "bounded", "waiting"},
                      bound : 0 .. MaxOps, pass : Callers \cup {None}]
  <1>1. call[c].at = "bounded" /\ UNCHANGED <<ops, next_id, landed, last,
                                              dropped, faults>>
    BY DEF drain, history
  <1>2. call \in [Callers -> Call] /\ b \in Nat /\ b < next_id
        /\ b \in 0 .. MaxOps
    BY Bounds DEF IInv, TypeOK, Table
  <1>3. ~Live(c)
    BY <1>1 DEF IInv, Waiting
  <1>4. \A d \in Callers : Live(d) => pass[d].bound \in Nat
    BY Bounds DEF IInv, TypeOK, Live, Pass
  <1>5. WaitingAfterLast' /\ NothingForgotten'
    BY <1>1 DEF IInv, WaitingAfterLast, NothingForgotten, pending, carried
  <1>6. CASE current # None /\ satisfied(b, current.bound)
    <2> DEFINE q == current.pass
    <2>1. /\ call' = [call EXCEPT ![c].at = "waiting", ![c].pass = q]
          /\ UNCHANGED <<current, pass>>
      BY <1>6 DEF drain
    <2>2. /\ q \in Callers /\ Live(q) /\ b <= pass[q].bound
      BY <1>6 DEF satisfied, IInv, TypeOK, Chain, Current
    <2> HIDE DEF q
    <2>3. /\ call'[c].at = "waiting" /\ call'[c].pass = q /\ call'[c].bound = b
          /\ call' \in [Callers -> Call]
          /\ \A d \in Callers : d # c => call'[d] = call[d]
      BY <1>2, <2>1, <2>2
    <2>4. TypeOK'
      BY <1>1, <2>1, <2>3 DEF IInv, TypeOK
    <2>5. Waiting'
      BY <1>3, <2>1, <2>2, <2>3 DEF IInv, Waiting, Live
    <2>6. Chain' /\ Passes'
      BY <1>1, <2>1 DEF IInv, Chain, Passes, Live, Working, Shape, busy,
                  Snapshots, Ordered, Promise, in_hand, sending, pending
    <2>7. Table'
      BY <1>1, <2>1, <2>3 DEF IInv, Table, Live
    <2> QED BY <1>5, <2>4, <2>5, <2>6, <2>7 DEF IInv
  <1>7. CASE ~(current # None /\ satisfied(b, current.bound))
    <2> DEFINE previous == IF current = None THEN None ELSE current.pass
               n == [at |-> "listing", after |-> previous, bound |-> b,
                     todo |-> {}, read |-> 0, op |-> None, stalled |-> {},
                     retired |-> 0, stopped |-> FALSE]
    <2>1. /\ pass' = [pass EXCEPT ![c] = n]
          /\ current' = [bound |-> b, pass |-> c]
          /\ call' = [call EXCEPT ![c].at = "waiting", ![c].pass = c]
      BY <1>7 DEF drain, chained
    <2>2. /\ previous \in Callers \cup {None}
          /\ current = None <=> previous = None
          /\ current # None => /\ previous = current.pass /\ Live(previous)
                               /\ pass[previous].bound = current.bound
                               /\ current.bound < b
      <3>1. current # None => current \in Current /\ current.bound \in Nat
        BY Bounds DEF IInv, TypeOK, Current
      <3>2. current # None => current.bound < b
        BY <1>2, <1>7, <3>1 DEF satisfied
      <3> QED BY <3>1, <3>2, OutboxConstants DEF IInv, Chain, Current
    <2> HIDE DEF previous
    <2>3. n \in Pass
      BY <1>2, <2>2, Bounds DEF Pass
    <2>4. /\ n.at = "listing" /\ n.after = previous /\ n.bound = b
          /\ n.todo = {} /\ n # None
      BY <2>3, NoneAssumption
    <2>5. /\ pass'[c] = n /\ pass' \in [Callers -> Pass \cup {None}]
          /\ \A d \in Callers : d # c => pass'[d] = pass[d]
      BY <2>1, <2>3 DEF IInv, TypeOK
    <2> HIDE DEF n
    <2>6. /\ current' \in Current /\ current' # None
          /\ current'.bound = b /\ current'.pass = c
      BY <1>2, <2>1, NoneAssumption DEF Current
    <2>7. /\ call'[c].at = "waiting" /\ call'[c].pass = c /\ call'[c].bound = b
          /\ call' \in [Callers -> Call]
          /\ \A d \in Callers : d # c => call'[d] = call[d]
      BY <1>2, <2>1
    <2>8. \A d \in Callers : Live(d)' <=> Live(d) \/ d = c
      BY <2>4, <2>5 DEF Live
    <2>9. \A d \in Callers : Live(d) => d # c /\ pass'[d] = pass[d]
      BY <1>3, <2>5
    <2>10. TypeOK'
      BY <1>1, <2>5, <2>6, <2>7 DEF IInv, TypeOK
    <2>11. Waiting'
      <3> SUFFICES ASSUME NEW d \in Callers
                   PROVE  /\ Live(d)' => /\ call'[d].at = "waiting"
                                         /\ call'[d].pass = d
                          /\ call'[d].at = "waiting" =>
                             /\ call'[d].pass \in Callers /\ Live(call[d].pass)'
                             /\ call'[d].bound <= pass'[call'[d].pass].bound
        BY DEF Waiting, Live
      <3>1. CASE d = c
        BY <1>2, <2>4, <2>5, <2>7, <3>1 DEF Live
      <3>2. CASE d # c
        BY <2>7, <2>8, <2>9, <3>2 DEF IInv, Waiting, Live
      <3> QED BY <3>1, <3>2
    <2>12. \A d \in Callers : Live(d) => pass[d].bound < b /\ current # None
      <3> SUFFICES ASSUME NEW d \in Callers, Live(d)
                   PROVE  pass[d].bound < b /\ current # None
        OBVIOUS
      <3>1. current # None /\ pass[d].bound <= current.bound
        BY DEF IInv, Chain
      <3>2. current.bound \in Nat
        BY <3>1, Bounds DEF IInv, TypeOK, Current
      <3> QED BY <1>2, <1>4, <2>2, <3>1, <3>2
    <2>13. Chain'
      <3>1. \A d \in Callers : Live(d)' =>
               /\ current' # None /\ pass'[d].bound <= current'.bound
               /\ Working(d)' => pass'[d].after = None
        <4> SUFFICES ASSUME NEW d \in Callers, Live(d)'
                     PROVE  /\ pass'[d].bound <= current'.bound
                            /\ Working(d)' => pass'[d].after = None
          BY <2>6
        <4>1. CASE d = c
          BY <1>2, <2>4, <2>5, <2>6, <4>1 DEF Working
        <4>2. CASE d # c
          BY <1>2, <1>4, <2>6, <2>8, <2>9, <2>12, <4>2
             DEF IInv, Chain, Working, Live
        <4> QED BY <4>1, <4>2
      <3>2. Live(current.pass)' /\ pass'[current'.pass].bound = current'.bound
        BY <2>4, <2>5, <2>6 DEF Live
      <3>3. ASSUME NEW d \in Callers, NEW e \in Callers, Live(d)', Live(e)'
            PROVE  /\ pass'[d].bound = pass'[e].bound => d = e
                   /\ pass'[d].after = None => pass'[d].bound <= pass'[e].bound
        <4>1. CASE d = c /\ e = c
          BY <1>2, <2>4, <2>5, <4>1
        <4>2. CASE d = c /\ e # c
          BY <1>2, <1>4, <2>2, <2>4, <2>5, <2>8, <2>9, <2>12, <3>3, <4>2
        <4>3. CASE d # c /\ e = c
          BY <1>2, <1>4, <2>4, <2>5, <2>8, <2>9, <2>12, <3>3, <4>3
        <4>4. CASE d # c /\ e # c
          BY <2>8, <2>9, <3>3, <4>4 DEF IInv, Chain
        <4> QED BY <4>1, <4>2, <4>3, <4>4
      <3>4. ASSUME NEW d \in Callers, Live(d)', pass'[d].after # None
            PROVE  /\ Live(pass[d].after)'
                   /\ pass'[pass'[d].after].bound < pass'[d].bound
                   /\ \A e \in Callers :
                         Live(e)' /\ pass'[e].bound < pass'[d].bound =>
                            pass'[e].bound <= pass'[pass'[d].after].bound
        <4>1. CASE d = c
          <5>1. /\ pass'[d].after = previous /\ current # None
                /\ previous \in Callers /\ Live(previous) /\ pass'[d].bound = b
                /\ pass'[previous] = pass[previous]
            BY <2>2, <2>4, <2>5, <2>9, <3>4, <4>1
          <5>2. \A e \in Callers : Live(e) =>
                   pass[e].bound <= pass[previous].bound
            BY <2>2, <5>1 DEF IInv, Chain
          <5>3. ~(b < b)
            BY <1>2
          <5>4. \A e \in Callers : Live(e)' /\ pass'[e].bound < b =>
                   Live(e) /\ pass'[e] = pass[e]
            BY <2>4, <2>5, <2>8, <2>9, <5>3
          <5>5. /\ Live(pass[d].after)'
                /\ pass'[pass'[d].after].bound < pass'[d].bound
            BY <2>2, <5>1 DEF Live
          <5>6. \A e \in Callers :
                         Live(e)' /\ pass'[e].bound < pass'[d].bound =>
                            pass'[e].bound <= pass'[pass'[d].after].bound
            BY <5>1, <5>2, <5>4
          <5> QED BY <5>5, <5>6
        <4>2. CASE d # c
          <5>1. Live(d) /\ pass'[d] = pass[d]
            BY <2>8, <2>9, <3>4, <4>2
          <5>2. /\ pass[d].after \in Callers /\ Live(pass[d].after)
                /\ pass[pass[d].after].bound < pass[d].bound
                /\ \A e \in Callers : Live(e) /\ pass[e].bound < pass[d].bound
                      => pass[e].bound <= pass[pass[d].after].bound
            BY <3>4, <5>1 DEF IInv, TypeOK, Chain, Live, Pass
          <5>3. pass'[pass[d].after] = pass[pass[d].after]
            BY <2>9, <5>2
          <5>4. \A e \in Callers : Live(e)' /\ pass'[e].bound < pass'[d].bound =>
                   Live(e) /\ pass'[e] = pass[e]
            <6>1. ~(b < pass[d].bound)
              BY <1>2, <1>4, <2>12, <5>1
            <6> QED BY <2>4, <2>5, <2>8, <2>9, <5>1, <6>1
          <5> QED BY <5>1, <5>2, <5>3, <5>4 DEF Live
        <4> QED BY <4>1, <4>2
      <3> QED BY <2>6, <3>1, <3>2, <3>3, <3>4 DEF Chain, Live
    <2>14. Passes'
      <3>1. Shape(n)
        <4>1. IsFiniteSet({})
          BY FS_EmptySet
        <4> QED BY <2>4, <4>1 DEF Shape, busy
      <3>2. \A d \in Callers : Working(d)' => Working(d) /\ pass'[d] = pass[d]
        BY <2>4, <2>5, <2>8, <2>9 DEF Working, Live
      <3>3. \A d \in Callers : Live(d)' => Shape(pass'[d])
        BY <2>5, <2>8, <2>9, <3>1 DEF IInv, Passes
      <3>4. next_id' \in Nat /\ next_id <= next_id' /\ ops \subseteq Op
        BY <1>1, Bounds DEF IInv, TypeOK
      <3> QED BY <1>1, <3>2, <3>3, <3>4, PassesKept
    <2>15. Table'
      BY <1>1, <1>2, <2>4, <2>5, <2>7, <2>8, <2>9 DEF IInv, Table, Live
    <2> QED BY <1>5, <2>10, <2>11, <2>13, <2>14, <2>15 DEF IInv
  <1> QED BY <1>6, <1>7

(* A write enters the table under a new id, and takes with it what it is   *)
(* folded over.                                                            *)
LEMMA Inserted ==
    ASSUME IInv, next_id <= MaxOps, NEW o \in Op, o.id = next_id,
           next_id \in o.carries, \A i \in o.carries : i <= next_id,
           NEW replaced \in SUBSET ops, NEW folded \in SUBSET ops,
           carried(folded) \subseteq o.carries,
           insertOp(o, replaced, folded),
           UNCHANGED <<current, pass, call, landed, last, faults>>
    PROVE  IInv'
  <1>1. /\ ops' = (ops \ (replaced \cup folded)) \cup {o}
        /\ next_id' = next_id + 1
        /\ dropped' = dropped \cup carried(replaced)
    BY DEF insertOp
  <1>2. /\ next_id \in 1 .. MaxOps /\ next_id' \in 1 .. MaxOps + 1
        /\ next_id < next_id' /\ next_id <= next_id' /\ next_id' \in Nat
    BY <1>1, Bounds DEF IInv, TypeOK
  <1>3. \A p \in ops : p.id # next_id /\ p.carries \subseteq OpId
    BY <1>2 DEF IInv, Table, TypeOK, Op
  <1>4. TypeOK'
    <2>1. carried(replaced) \subseteq OpId
      BY <1>3 DEF carried
    <2>2. \A p, q \in ops' : p.id = q.id => p = q
      BY <1>1, <1>3 DEF IInv, TypeOK
    <2> QED BY <1>1, <1>2, <2>1, <2>2 DEF IInv, TypeOK
  <1>5. Waiting' /\ Chain'
    BY DEF IInv, Waiting, Chain, Live, Working
  <1>6. \A m \in Int : m < next_id => m < next_id'
    BY <1>2
  <1>7. Table'
    <2>1. \A p \in ops : /\ p.id < next_id' /\ p.id \in p.carries
                         /\ \A i \in p.carries : i < next_id'
      BY <1>2, <1>3 DEF IInv, Table, TypeOK, Op, OpId
    <2>2. /\ o.id < next_id' /\ o.id \in o.carries
          /\ \A i \in o.carries : i < next_id'
      BY <1>1, <1>2 DEF Op, OpId
    <2>3. \A k \in Kinds : last'[k] < next_id'
      BY <1>2 DEF IInv, Table, TypeOK
    <2>4. \A c \in Callers : call'[c].bound < next_id'
      <3> SUFFICES ASSUME NEW c \in Callers PROVE call[c].bound < next_id'
        OBVIOUS
      <3>1. call[c].bound \in Nat /\ call[c].bound < next_id
        BY Bounds DEF IInv, Table, TypeOK
      <3> QED BY <1>2, <3>1
    <2>5. \A c \in Callers : Live(c)' => pass'[c].bound < next_id'
      <3> SUFFICES ASSUME NEW c \in Callers, Live(c)
                   PROVE  pass[c].bound < next_id'
        BY DEF Live
      <3>1. pass[c].bound \in Nat /\ pass[c].bound < next_id
        BY Bounds DEF IInv, Table, TypeOK, Live, Pass
      <3> QED BY <1>2, <3>1
    <2> QED BY <1>1, <2>1, <2>2, <2>3, <2>4, <2>5 DEF Table, Live
  <1>8. Passes'
    <2>1. \A c \in Callers : Working(c)' => Working(c) /\ pass'[c] = pass[c]
      BY DEF Working, Live
    <2>2. \A c \in Callers : Live(c)' => Shape(pass'[c])
      BY DEF IInv, Passes, Live
    <2>3. \A q \in ops' : q.id = next_id \/ q \in ops
      BY <1>1
    <2>4. ops \subseteq Op
      BY DEF IInv, TypeOK
    <2> QED BY <1>2, <2>1, <2>2, <2>3, <2>4, PassesKept
  <1>9. WaitingAfterLast'
    <2>1. last[o.kind] <= o.id
      <3>1. o.kind \in Kinds
        BY DEF Op
      <3> QED BY <1>2, <3>1 DEF IInv, Table, TypeOK
    <2>2. \A q \in pending' : q = o \/ q \in pending
      BY <1>1 DEF pending
    <2> QED BY <2>1, <2>2 DEF IInv, WaitingAfterLast
  <1>10. NothingForgotten'
    <2> SUFFICES ASSUME NEW i \in 1 .. next_id' - 1
                 PROVE  i \in landed' \cup dropped' \cup carried(ops')
      BY DEF NothingForgotten, carried
    <2>1. CASE i = next_id
      BY <1>1, <2>1 DEF carried
    <2>2. CASE i # next_id
      <3>1. i \in 1 .. next_id - 1
        BY <1>1, <1>2, <2>2
      <3>2. i \in landed \cup dropped \cup carried(ops)
        BY <3>1 DEF IInv, NothingForgotten
      <3> QED BY <1>1, <3>2 DEF carried
    <2> QED BY <2>1, <2>2
  <1> QED BY <1>4, <1>5, <1>7, <1>8, <1>9, <1>10 DEF IInv

(* record: a coalescing write, a create, an edit, a delete or a patch.     *)
LEMMA step_record ==
    ASSUME IInv, record
    PROVE  IInv'
  <1>1. /\ enqueue /\ next_id <= MaxOps
        /\ UNCHANGED <<current, pass, call, landed, last, faults>>
    BY DEF record, enqueue
  <1>2. next_id \in OpId
    BY <1>1, Bounds DEF IInv, TypeOK, OpId
  <1>3. ASSUME NEW k \in Kinds,
               NEW form \in {"value", "create", "edit", "patch", "delete"},
               NEW names \in OpId \cup {None}, NEW carries \in SUBSET OpId,
               \A i \in carries : i <= next_id,
               NEW replaced \in SUBSET ops, NEW folded \in SUBSET ops,
               carried(folded) \subseteq carries,
               insertOp(new_op(k, form, names, carries), replaced, folded)
        PROVE  IInv'
    <2> DEFINE o == new_op(k, form, names, carries)
    <2>1. /\ o \in Op /\ o.id = next_id /\ o.carries = carries \cup {next_id}
      BY <1>2, Bounds DEF new_op, Op
    <2>2. \A i \in o.carries : i <= next_id
      BY <1>2, <1>3, <2>1 DEF OpId
    <2>3. carried(folded) \subseteq o.carries
      BY <1>3, <2>1
    <2>4. insertOp(o, replaced, folded)
      BY <1>3
    <2> HIDE DEF o
    <2> QED BY <1>1, <2>1, <2>2, <2>3, <2>4, Inserted
  <1>4. carried({}) = {} /\ \A k : of_kind(k) \in SUBSET ops
    BY DEF carried, of_kind
  <1>5. ASSUME NEW k \in Positions, enqueue_value(k) PROVE IInv'
    BY <1>3, <1>4, <1>5 DEF enqueue_value, Kinds
  <1>6. ASSUME NEW k \in Gestures, enqueue_create(k) PROVE IInv'
    BY <1>2, <1>3, <1>4, <1>6 DEF enqueue_create, Kinds
  <1>7. ASSUME NEW k \in Gestures, enqueue_edit(k) PROVE IInv'
    <2>1. PICK t \in landed \cup {o.id : o \in {p \in ops : p.form = "create"}} :
             insertOp(new_op(k, "edit", t, {}), {}, {})
      BY <1>7 DEF enqueue_edit
    <2>2. t \in OpId
      BY <2>1 DEF IInv, TypeOK, Op
    <2> QED BY <1>3, <1>4, <2>1, <2>2 DEF Kinds
  <1>8. ASSUME NEW k \in Reviews, enqueue_delete(k) PROVE IInv'
    BY <1>3, <1>4, <1>8 DEF enqueue_delete, Kinds
  <1>9. ASSUME NEW k \in Reviews, enqueueFieldPatch(k) PROVE IInv'
    <2> DEFINE fold == foldable(k)
    <2>1. fold \in SUBSET ops
      <3> DEFINE waiting == of_kind(k) \cap pending
      <3>1. waiting \in SUBSET ops /\ waiting \in SUBSET Op
        BY DEF of_kind, IInv, TypeOK
      <3>2. waiting # {} => newest(waiting) \in waiting
        <4> HIDE DEF waiting
        <4> QED BY <3>1, Newest
      <3> QED BY <3>1, <3>2 DEF foldable
    <2>2. carried(fold) \in SUBSET OpId /\ \A i \in carried(fold) : i <= next_id
      <3>1. \A o \in ops : /\ o.carries \in SUBSET OpId
                           /\ \A i \in o.carries : i < next_id
        BY DEF IInv, TypeOK, Table, Op
      <3>2. \A i \in OpId : i < next_id => i <= next_id
        BY <1>2 DEF OpId
      <3> QED BY <2>1, <3>1, <3>2 DEF carried
    <2>3. insertOp(new_op(k, "patch", None, carried(fold)), {}, fold)
      BY <1>9 DEF enqueueFieldPatch
    <2> HIDE DEF fold
    <2> QED BY <1>3, <2>1, <2>2, <2>3 DEF Kinds
  <1> QED BY <1>1, <1>5, <1>6, <1>7, <1>8, <1>9 DEF enqueue

(* A stuttering step keeps the invariant. *)
LEMMA step_stutter == IInv /\ UNCHANGED vars => IInv'
  BY DEF IInv, TypeOK, Waiting, Chain, Table, Passes, WaitingAfterLast,
         NothingForgotten, Live, Working, Shape, busy, in_hand, Snapshots,
         sending, Ordered, Promise, pending, carried, vars, history

-----------------------------------------------------------------------------
(* The theorems. *)

(* At the first launch nothing is queued and nobody waits. *)
LEMMA InitIInv == Init => IInv
  <1> SUFFICES ASSUME Init PROVE IInv
    OBVIOUS
  <1>1. TypeOK
    <2>1. Idle \in [at : {"idle", "bounded", "waiting"},
                    bound : 0 .. MaxOps, pass : Callers \cup {None}]
      BY Bounds DEF Idle
    <2> QED BY <2>1, Bounds DEF Init, TypeOK
  <1>2. Waiting /\ Chain /\ Passes
    BY DEF Init, Waiting, Chain, Passes, Live, Working, Idle
  <1>3. Table
    BY DEF Init, Table, Live, Idle
  <1>4. WaitingAfterLast /\ NothingForgotten
    BY DEF Init, WaitingAfterLast, NothingForgotten, pending
  <1> QED BY <1>1, <1>2, <1>3, <1>4 DEF IInv

(* Every step of the app and of the server keeps the invariant. *)
LEMMA NextIInv == IInv /\ [Next]_vars => IInv'
  <1> SUFFICES ASSUME IInv, [Next]_vars PROVE IInv'
    OBVIOUS
  <1>1. ASSUME NEW c \in Callers, Drain(c) PROVE IInv'
    BY <1>1, step_drain, step_listOps, step_replay, step_deleteOps, step_stop,
       step_noteOpFailure, step_failOpsReferencing, step_noteOpAttempt,
       step_park, step_sweep_ends, step_releaseCurrent DEF Drain
  <1> QED BY <1>1, step_record, step_discardRejectedOps, step_killed,
             step_drain_asked, step_stutter DEF Next

(* The inductive invariant of the outbox: the chain of passes, what a sweep *)
(* knows of the table, and where every write is.                           *)
THEOREM Invariance == Spec => []IInv
  BY InitIInv, NextIInv, PTL DEF Spec

(* The state of the outbox always has its type; in particular no sweep     *)
(* reads more than LIMIT rows or retires more than it read.                *)
THEOREM TypeCorrectness == Spec => []TypeOK
  <1>1. IInv => TypeOK
    BY DEF IInv
  <1> QED BY <1>1, Invariance, PTL

(* The chain lets one pass work at a time (SyncEngine drain,               *)
(* releaseCurrent).                                                        *)
LEMMA IInvOnePass == IInv => OnePassAtATime
  <1> SUFFICES ASSUME IInv, NEW c \in Callers, NEW d \in Callers,
                      Working(c), Working(d)
               PROVE  c = d
    BY DEF OnePassAtATime, Working, Live
  <1>1. /\ pass[c].after = None /\ pass[d].after = None
        /\ pass[c] \in Pass /\ pass[d] \in Pass /\ Live(c) /\ Live(d)
    BY AtWork
  <1>2. pass[c].bound <= pass[d].bound /\ pass[d].bound <= pass[c].bound
    BY <1>1 DEF IInv, Chain
  <1>3. pass[c].bound = pass[d].bound
    BY <1>1, <1>2, Bounds DEF Pass
  <1> QED BY <1>1, <1>3 DEF IInv, Chain

(* However drains are asked for, joined, chained, released and killed, one *)
(* pass works at a time: no row is read by two passes and replayed twice.  *)
THEOREM OnePass == Spec => []OnePassAtATime
  BY Invariance, IInvOnePass, PTL

(* No write queued offline is ever lost: it has landed, was replaced or    *)
(* discarded, or an op of the table carries it.                            *)
THEOREM NoWriteForgotten == Spec => []NothingForgotten
  <1>1. IInv => NothingForgotten
    BY DEF IInv
  <1> QED BY <1>1, Invariance, PTL

(* What a sweep knows at its end is what its callers were promised.        *)
LEMMA IInvPromise == IInv => DrainKeepsPromise
  <1> SUFFICES ASSUME IInv, NEW c \in Callers, NEW d \in Callers,
                      at(c, "ending"), ~pass[c].stopped,
                      call[d].at = "waiting", call[d].pass = c,
                      pass[c].read # LIMIT,
                      NEW o \in pending, o.id <= call[d].bound
               PROVE  o.kind \in pass[c].stalled
    BY DEF DrainKeepsPromise
  <1>1. Working(c) /\ pass[c].at = "ending"
    BY DEF at, Working, Live
  <1>2. pass[c] \in Pass /\ Shape(pass[c]) /\ Promise(pass[c])
    BY <1>1, AtWork
  <1>3. sending(pass[c]) = {}
    BY <1>1, <1>2 DEF sending, Shape
  <1>4. call[d].bound <= pass[c].bound
    BY DEF IInv, Waiting
  <1>5. o.id <= pass[c].bound
    <2>1. o.id \in Nat /\ call[d].bound \in Nat /\ pass[c].bound \in Nat
      BY <1>2, Bounds DEF IInv, TypeOK, pending, Op, OpId, Pass
    <2> QED BY <1>4, <2>1
  <1> QED BY <1>2, <1>3, <1>5 DEF Promise

(* What drain promises a caller that started a pass or joined one holds    *)
(* when the pass ends: what still waits below its ceiling has stalled, or  *)
(* lay behind a full read, or the pass was stopped.                        *)
THEOREM PromiseKept == Spec => []DrainKeepsPromise
  BY Invariance, IInvPromise, PTL

(* A step lets the server take an op only after those of its kind it took. *)
LEMMA StepInOrder ==
    ASSUME IInv, [Next]_vars, NEW k \in Kinds
    PROVE  last'[k] >= last[k]
  <1>1. last[k] \in Nat
    BY Bounds DEF IInv, TypeOK
  <1>2. ASSUME NEW c \in Callers, at(c, "sent"), taken(pass[c].op)
        PROVE  last'[k] >= last[k]
    <2>1. pass[c].op \in Op /\ last[pass[c].op.kind] <= pass[c].op.id
      BY <1>2, TakenInOrder
    <2>2. last' = [last EXCEPT ![pass[c].op.kind] = pass[c].op.id]
      BY <1>2 DEF taken
    <2> QED BY <1>1, <2>1, <2>2 DEF IInv, TypeOK, Op, OpId
  <1>3. CASE UNCHANGED last
    BY <1>1, <1>3
  <1>4. ASSUME NEW c \in Callers, Drain(c)
        PROVE  UNCHANGED last \/ (at(c, "sent") /\ taken(pass[c].op))
    <2>1. drain(c) \/ listOps(c) \/ replay(c) \/ noteOpFailure(c)
             => UNCHANGED last
      BY DEF drain, listOps, replay, noteOpFailure, history
    <2>2. failOpsReferencing(c) \/ noteOpAttempt(c) \/ park(c)
             => UNCHANGED last
      BY DEF failOpsReferencing, noteOpAttempt, park, history
    <2>3. sweep_ends(c) \/ releaseCurrent(c) => UNCHANGED last
      BY DEF sweep_ends, releaseCurrent, history
    <2>4. deleteOps(c) => at(c, "sent") /\ taken(pass[c].op)
      BY DEF deleteOps
    <2>5. stop(c) => UNCHANGED last \/ (at(c, "sent") /\ taken(pass[c].op))
      BY DEF stop, not_taken
    <2> QED BY <1>4, <2>1, <2>2, <2>3, <2>4, <2>5 DEF Drain
  <1>5. killed => \/ UNCHANGED last
                  \/ \E c \in Callers : at(c, "sent") /\ taken(pass[c].op)
    BY DEF killed, not_taken
  <1>6. record \/ discardRejectedOps \/ UNCHANGED vars => UNCHANGED last
    BY DEF record, discardRejectedOps, vars, history
  <1>7. \A c \in Callers : drain_asked(c) => UNCHANGED last
    BY DEF drain_asked, history
  <1> QED BY <1>2, <1>3, <1>4, <1>5, <1>6, <1>7 DEF Next

(* The server takes the ops of a kind in the order they were queued,       *)
(* through failures, stalls, parked ops and replays after a kill.          *)
THEOREM OrderWithinKind == Spec => KindInOrder
  <1>1. IInv /\ [Next]_vars => [\A k \in Kinds : last'[k] >= last[k]]_vars
    BY StepInOrder
  <1> QED BY <1>1, Invariance, PTL DEF Spec, KindInOrder
=============================================================================
